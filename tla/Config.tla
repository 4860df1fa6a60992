------------------------------- MODULE Config -------------------------------
(***************************************************************************)
(* Reading the configuration (load_props): sections, variables, includes   *)
(* and properties.  A file is a sequence of lines without comments; a      *)
(* value is a sequence of words, of which some may be variables; a key is  *)
(* the pair of its section and its name.                                   *)
(***************************************************************************)
EXTENDS Naturals, Sequences, SequencesExt, FiniteSets

CONSTANTS
    Files,        \* function from the names of files to their lines
    Environment   \* function from environment variables to words

NoSection == ""
Section(name) == [kind |-> "section", key |-> name, val |-> <<>>]
Variable(name, val) == [kind |-> "variable", key |-> name, val |-> val]
Property(name, val) == [kind |-> "property", key |-> name, val |-> val]
Include(file) == [kind |-> "include", key |-> file, val |-> <<>>]

(* The keys that do not become properties.                                 *)
InfoKeys == {"nick", "user", "mode", "real"}
NoInfo == [nick |-> <<>>, user |-> <<>>, mode |-> <<>>, real |-> <<>>]
NoProps == [k \in {} |-> <<>>]

(* ${x}: variables of the files first, then those of the environment.      *)
Substituted(vars, val) ==
    [i \in DOMAIN val |-> IF val[i] \in DOMAIN vars THEN vars[val[i]]
                          ELSE IF val[i] \in DOMAIN Environment
                          THEN Environment[val[i]] ELSE val[i]]

(* map[k].push_back(v)                                                     *)
Pushed(map, k, v) ==
    [j \in DOMAIN map \cup {k} |->
        IF j # k THEN map[j]
        ELSE IF k \in DOMAIN map THEN Append(map[k], v) ELSE <<v>>]

Assigned(map, k, v) == [j \in DOMAIN map \cup {k} |-> IF j = k THEN v ELSE map[j]]

AddInfo(info, k, v) ==
    IF k = "nick" THEN [info EXCEPT !.nick = Append(@, v)]
    ELSE [info EXCEPT ![k] = v]

(* One line that is no include.  In a section a line "$x: v" has been given *)
(* the section's prefix before anybody looks for the dollar: it becomes a  *)
(* property.                                                               *)
ReadLine(s, l) ==
    LET val == Substituted(s.vars, l.val)
        key == <<s.prefix, l.key>>
    IN  IF l.kind = "section" THEN [s EXCEPT !.prefix = l.key]
        ELSE IF l.kind = "variable" /\ s.prefix = NoSection
          THEN [s EXCEPT !.vars = Assigned(@, l.key, val[1])]
        ELSE IF l.kind = "property" /\ s.prefix = NoSection /\ l.key \in InfoKeys
          THEN [s EXCEPT !.info = AddInfo(@, l.key, val)]
        ELSE [s EXCEPT !.props = Pushed(@, key, val)]

(* Included files share the variables and the section with the file that   *)
(* includes them, and leave both behind, as if their lines stood there; a  *)
(* missing file is passed over.  No file includes itself.                  *)
Lines(file) ==
    LET within[depth \in Nat] ==
            [f \in DOMAIN Files |->
                FlattenSeq([i \in DOMAIN Files[f] |->
                    LET l == Files[f][i]
                    IN  IF l.kind # "include" THEN <<l>>
                        ELSE IF depth > 0 /\ l.key \in DOMAIN Files
                          THEN within[depth - 1][l.key] ELSE <<>>])]
    IN  IF file \in DOMAIN Files THEN within[Cardinality(DOMAIN Files)][file] ELSE <<>>

(* operator>>(is, bot): no variables and no section, the bot's own info.   *)
ReadConfig(file, props, info) ==
    FoldLeft(ReadLine,
             [vars |-> NoProps, prefix |-> NoSection, props |-> props, info |-> info],
             Lines(file))
=============================================================================
