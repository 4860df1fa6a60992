------------------------------ MODULE Message -------------------------------
(***************************************************************************)
(* IRC messages (message.cpp): parsing a line and the accessors the bot    *)
(* and its plugins use.  A line is its prefix and the sequence of its      *)
(* words, cut at every space: a word says whether it begins with a colon   *)
(* and what follows, and two spaces in a row leave a blank word between    *)
(* them.  A prefix is the sequence of its names and the separators "!" and *)
(* "@", empty if there is none.                                            *)
(***************************************************************************)
EXTENDS Naturals, Sequences, SequencesExt

CONSTANTS
    Said,         \* the messages the server sends: their grammar, see Line
    Nicknames,    \* names is_nick() accepts
    HashChannels, \* texts that begin with '#'
    OtherChannels \* texts that begin with '&', '+' or '!'

VARIABLES
    said,         \* a message as its sender has it
    msg           \* what the bot parsed

Blank == ""
Word(text) == [colon |-> FALSE, text |-> text]
Colon(text) == [colon |-> TRUE, text |-> text]

(* "middle" may not be empty nor begin with a colon; there are at most 14. *)
MaxMiddles == 14
IsMiddle(w) == ~w.colon /\ w.text # Blank

SkipBlanks(ws) == LET n == SelectInSeq(ws, LAMBDA w : w # Word(Blank))
                  IN  IF n = 0 THEN <<>> ELSE SubSeq(ws, n, Len(ws))
TrimRight(ws) == Reverse(SkipBlanks(Reverse(ws)))
Trim(ws) == TrimRight(SkipBlanks(ws))

NoMessage == [prefix |-> <<>>, command |-> Blank, params |-> <<>>]

(* message::parse: an optional prefix, the command, and whatever follows   *)
(* it.  Without anything after the command getline fails.                  *)
Parses(line) == Len(Trim(line.words)) > 1
Parse(line) == [prefix |-> line.prefix,
                command |-> Trim(line.words)[1].text,
                params |-> Tail(Trim(line.words))]
-----------------------------------------------------------------------------
(* getparams: middles up to the first word that is none.  It begins the    *)
(* trailing parameter if it has a colon or if there are 14 middles; a      *)
(* blank word or the end of the line makes the stream fail.                *)
MiddleCount(ps) ==
    LET ends == {n \in 1 .. Len(ps) : n > MaxMiddles \/ ~IsMiddle(ps[n])}
    IN  IF ends = {} THEN Len(ps)
        ELSE (CHOOSE n \in ends : \A k \in ends : n <= k) - 1

Rest(ps) == SubSeq(ps, MiddleCount(ps) + 1, Len(ps))
HasTrailing(ps) ==
    /\ Rest(ps) # <<>>
    /\ MiddleCount(ps) = MaxMiddles \/ Rest(ps)[1].colon

Middles(ps) == [i \in 1 .. MiddleCount(ps) |-> <<ps[i]>>]

\* a plausible mistake: the colon of the trailing parameter is kept
MutTrailing(ps) == Rest(ps)

(* gettrailing: everything after the space and the colon.                  *)
Trailing(ps) ==
    IF HasTrailing(ps) THEN <<Word(Rest(ps)[1].text)>> \o Tail(Rest(ps))
    ELSE <<>>

(* The stream of an empty string has not failed when the loop is over.     *)
GetParams(m) ==
    IF HasTrailing(m.params) \/ m.params = <<>>
    THEN Append(Middles(m.params), Trailing(m.params))
    ELSE Middles(m.params)
-----------------------------------------------------------------------------
(* find(): the position of a separator, 0 for npos.                        *)
Find(prefix, sep) == SelectInSeq(prefix, LAMBDA x : x = sep)
Upto(prefix, n) == SubSeq(prefix, 1, n - 1)
After(prefix, n) == SubSeq(prefix, n + 1, Len(prefix))

ServerName(m) ==
    IF Find(m.prefix, "!") # 0 \/ Find(m.prefix, "@") # 0 THEN <<>>
    ELSE m.prefix

AllowNick(name) ==
    IF Len(name) = 1 /\ name[1] \in Nicknames THEN name ELSE <<>>

NickName(m) ==
    AllowNick(IF Find(m.prefix, "!") # 0
                THEN Upto(m.prefix, Find(m.prefix, "!"))
              ELSE IF Find(m.prefix, "@") # 0
                THEN Upto(m.prefix, Find(m.prefix, "@"))
              ELSE m.prefix)

(* "!" before "@"; nothing is_user() refuses is ever part of a prefix.     *)
User(m) ==
    LET bang == Find(m.prefix, "!")
        at == Find(m.prefix, "@")
    IN  IF bang = 0 \/ at < bang THEN <<>> ELSE SubSeq(m.prefix, bang + 1, at - 1)

Host(m) == IF Find(m.prefix, "@") # 0 THEN After(m.prefix, Find(m.prefix, "@"))
           ELSE <<>>

(* substr(find("!") + 1): the whole prefix when there is none.             *)
UserHost(m) == After(m.prefix, Find(m.prefix, "!"))
-----------------------------------------------------------------------------
(* The text a parameter begins with.                                       *)
Start(param) == IF param = <<>> \/ param[1].colon THEN Blank ELSE param[1].text

FromChannel(m) == LET ps == GetParams(m)
                  IN  ps # <<>> /\ Start(ps[1]) \in HashChannels

To(m) == IF GetParams(m) # <<>> THEN GetParams(m)[1] ELSE <<>>

ReplyTo(m) == IF FromChannel(m) THEN To(m) ELSE NickName(m)

(* The first word of the text, and what follows the space after it.        *)
UserCmd(m) == LET t == Trailing(m.params)
              IN  IF t = <<>> THEN <<>> ELSE Trim(<<t[1]>>)
UserParams(m) == LET t == Trailing(m.params)
                 IN  IF t = <<>> THEN <<>> ELSE Trim(Tail(t))

(* Which parameter names the channel depends on the command.               *)
ChanParams ==
    <<{"PRIVMSG", "JOIN", "MODE", "KICK", "PART", "TOPIC"},
      {"332", "333", "366", "404", "474", "482", "INVITE"},
      {"353", "441"}>>

Chan(m) ==
    LET ps == GetParams(m)
        named == {i \in 1 .. 3 : /\ m.command \in ChanParams[i] /\ i <= Len(ps)
                                 /\ Start(ps[i]) \in HashChannels \cup OtherChannels}
    IN  IF named = {} THEN <<>> ELSE ps[CHOOSE i \in named : TRUE]
-----------------------------------------------------------------------------
(* The grammar of message.h: where the message is from, its command, at    *)
(* most 14 middles, and the trailing text with its colon, if it has one.   *)
Prefix(from) ==
    from.name \o (IF from.user = <<>> THEN <<>> ELSE <<"!">> \o from.user)
              \o (IF from.host = <<>> THEN <<>> ELSE <<"@">> \o from.host)

Line(s) == [prefix |-> Prefix(s.from),
            words |-> <<Word(s.command)>> \o s.middles
                      \o (IF s.text = <<>> THEN <<>>
                          ELSE <<[s.text[1] EXCEPT !.colon = s.mark]>> \o Tail(s.text))]

(* What the grammar allows: names without separators, a user only with a   *)
(* host, middles that are some, and a text whose mark is left out only     *)
(* after the last middle there can be.  Spaces may end the line.  A colon  *)
(* in front of a word that has one itself is part of the marked trailing   *)
(* text: left out.                                                         *)
WordSet == [colon : BOOLEAN, text : STRING]
SentMiddles(s) == IF s.text = <<>> THEN TrimRight(s.middles) ELSE s.middles

Grammatical(s) ==
    /\ s.command \in STRING /\ s.command # Blank /\ s.mark \in BOOLEAN
    /\ s.middles \in Seq(WordSet) /\ s.text \in Seq(WordSet)
    /\ \A name \in {s.from.name, s.from.user, s.from.host} :
          name # <<>> => name = <<name[1]>> /\ name[1] \notin {"!", "@"}
    /\ s.from.user # <<>> => s.from.host # <<>>
    /\ \A i \in DOMAIN SentMiddles(s) : IsMiddle(SentMiddles(s)[i])
    /\ Len(SentMiddles(s)) <= MaxMiddles
    /\ s.text # <<>> => TrimRight(s.text) # <<>> /\ ~s.text[1].colon
    /\ ~s.mark => Len(s.middles) = MaxMiddles /\ s.text # <<>>

ASSUME SaidAssumption ==
    /\ \A s \in Said : Grammatical(s)
    /\ Blank \notin HashChannels \cup OtherChannels

MsgInit == said \in Said /\ msg = NoMessage

ReceiveMsg ==
    /\ msg = NoMessage /\ Parses(Line(said)) /\ msg' = Parse(Line(said))
    /\ UNCHANGED said

MsgSpec == MsgInit /\ [][ReceiveMsg]_<<said, msg>>
-----------------------------------------------------------------------------
(* The bot finds in a message what its sender put there: who it is from,   *)
(* every parameter, the last one with its spaces, the word it takes for a  *)
(* command and what follows; a reply goes to the channel that is named     *)
(* first or else to the sender, unless it is a channel of another kind     *)
(* than '#', and the channel is the one that is named where the command    *)
(* has it.                                                                 *)
MessageParsed ==
    msg # NoMessage =>
        LET text == TrimRight(said.text)
            middles == SentMiddles(said)
            sent == [i \in DOMAIN middles |-> <<middles[i]>>]
                    \o (IF text = <<>> THEN <<>> ELSE <<text>>)
            nick == AllowNick(said.from.name)
        IN  /\ NickName(msg) = nick
            /\ Host(msg) = said.from.host
            /\ User(msg) = said.from.user
            /\ User(msg) # <<>> => UserHost(msg) = User(msg) \o <<"@">> \o Host(msg)
            /\ User(msg) \o Host(msg) = <<>> => ServerName(msg) = said.from.name
            /\ Trailing(msg.params) = text
            /\ GetParams(msg) = sent
            /\ text # <<>> => UserCmd(msg) \o UserParams(msg)
                              = (IF text[1] = Word(Blank) THEN <<>> ELSE <<text[1]>>)
                                \o SkipBlanks(Tail(text))
            /\ Start(sent[1]) \notin OtherChannels =>
                  ReplyTo(msg) = IF Start(sent[1]) \in HashChannels THEN sent[1] ELSE nick
            /\ \A k \in 1 .. 3 \cap DOMAIN middles :
                  /\ said.command \in ChanParams[k]
                  /\ middles[k].text \in HashChannels \cup OtherChannels
                  => Chan(msg) = <<middles[k]>>

(* message.h, the grammar: a channel begins with "#", "+", "!" or "&"; a   *)
(* reply to what was said in one goes there.                               *)
ReplyByGrammar ==
    msg # NoMessage =>
        \A k \in {1} \cap DOMAIN SentMiddles(said) :
            SentMiddles(said)[k].text \in HashChannels \cup OtherChannels =>
                ReplyTo(msg) = <<SentMiddles(said)[k]>>
=============================================================================
