----------------------------- MODULE StoreText ------------------------------
(***************************************************************************)
(* How store.h writes vectors, sets and maps of strings as one text, and   *)
(* reads them back: items in braces, with the characters that delimit them *)
(* escaped.  A text is the sequence of its characters; the program holds   *)
(* an item (a vector, a map or, see Rpc, a call), writes it and reads it.  *)
(***************************************************************************)
EXTENDS Rpc, Selections

CONSTANTS
    ListTexts,  \* the strings in the vectors
    MapTexts,   \* the strings in the maps
    MaxListed,  \* bound: the length of vectors and maps, and the parameters of a call
    MaxSize     \* bound: a parameter's number, or the size of its vector

(* A numeral has one digit.                                                *)
ASSUME TextAssumption ==
    /\ ListTexts \subseteq Seq(STRING) /\ MapTexts \subseteq Seq(STRING)
    /\ MaxListed \in Nat /\ MaxSize \in 0 .. 9

Nobody == [kind |-> "none"]

VARIABLE item

Slash == "\\"

(* replace_all_mute(s, c, to): every character c becomes the text to.      *)
Replaced(s, c, to) ==
    FlattenSeq([i \in DOMAIN s |-> IF s[i] = c THEN to ELSE <<s[i]>>])

\* a plausible mistake: the backslash last
MutEscape(s) ==
    LET s1 == Replaced(s, "{", <<Slash, "1">>)
        s2 == Replaced(s1, "}", <<Slash, "2">>)
        s3 == Replaced(s2, ",", <<Slash, "3">>)
    IN  Replaced(s3, Slash, <<Slash, "0">>)

Escape(s) ==
    LET s0 == Replaced(s, Slash, <<Slash, "0">>)
        s1 == Replaced(s0, "{", <<Slash, "1">>)
        s2 == Replaced(s1, "}", <<Slash, "2">>)
    IN  Replaced(s2, ",", <<Slash, "3">>)

(* replace_all_mute(s, "\d", c): no two places where it stands overlap.    *)
Restored(s, d, c) ==
    LET Here(i) == i + 1 \in DOMAIN s /\ s[i] = Slash /\ s[i + 1] = d
    IN  FlattenSeq([i \in DOMAIN s |-> IF Here(i) THEN <<c>>
                                       ELSE IF i > 1 /\ Here(i - 1) THEN <<>> ELSE <<s[i]>>])

Unescape(s) ==
    Restored(Restored(Restored(Restored(s, "3", ","), "2", "}"), "1", "{"),
             "0", Slash)

Braces(s) == <<"{">> \o s \o <<"}">>

(* The position of the brace that closes the one at i, or the end.         *)
Closing(s, i) ==
    LET Count(c, j) == Len(Only(SubSeq(s, i, j), {c}))
        closes == {j \in i .. Len(s) : Count("{", j) = Count("}", j)}
    IN  IF closes = {} THEN Len(s) + 1
        ELSE CHOOSE j \in closes : \A k \in closes : j <= k

(* getobject, again and again until the text does not go on with a brace.  *)
Objects(s) ==
    LET From[i \in 1 .. Len(s) + 2] ==
            IF i > Len(s) \/ s[i] # "{" THEN <<>>
            ELSE <<SubSeq(s, i + 1, Closing(s, i) - 1)>> \o From[Closing(s, i) + 1]
    IN  From[1]
Object(s) == Objects(s)[1]

(* write_container and read_container                                      *)
WriteList(l) == Braces(FlattenSeq([i \in DOMAIN l |-> Braces(Escape(l[i]))]))
ReadList(s) == LET os == Objects(Object(s))
               IN  [i \in DOMAIN os |-> Unescape(os[i])]

(* operator<< and operator>> of a pair; a map is the sequence of its pairs *)
(* in the order of their keys.                                             *)
WritePair(p) ==
    Braces(Braces(Escape(p[1])) \o Braces(Escape(p[2])))
ReadPair(s) == LET os == Objects(s)
               IN  <<Unescape(os[1]), Unescape(os[2])>>

WriteMap(m) == Braces(FlattenSeq([i \in DOMAIN m |-> WritePair(m[i])]))
ReadMap(s) == LET os == Objects(Object(s))
              IN  [i \in DOMAIN os |-> ReadPair(os[i])]

UpToLong(n, S) == UNION {[1 .. m -> S] : m \in 0 .. n}

Params == [type : {"string"}, is : ListTexts] \cup [type : {"number"}, is : 0 .. MaxSize]
          \cup [type : {"vector"}, is : UpToLong(MaxSize, MapTexts)]

TextInit ==
    \/ \E func \in MapTexts, ps \in UpToLong(MaxListed, Params) :
          item = [kind |-> "call", of |-> <<[type |-> "string", is |-> func]>> \o ps]
    \/ \E l \in UpToLong(MaxListed, ListTexts) :
          item = [kind |-> "list", of |-> l]
    \/ \E l \in UpToLong(MaxListed, MapTexts \X MapTexts) :
          /\ \A i, j \in DOMAIN l : i # j => l[i][1] # l[j][1]
          /\ item = [kind |-> "map", of |-> l]

(* What was written is read: get() after set(), or the other program's     *)
(* get_func() and get_param() after set_func() and add_param().            *)
ReadAgain(it) ==
    CASE it.kind = "list" -> ReadList(WriteList(it.of))
      [] it.kind = "map" -> ReadMap(WriteMap(it.of))
      [] it.kind = "call" -> ReadCall(WriteCall(it.of),
                                      [n \in DOMAIN it.of |-> it.of[n].type])

ReadBack == item.kind # "none" /\ item' = [item EXCEPT !.of = ReadAgain(item)]

TextSpec == TextInit /\ [][ReadBack]_item
-----------------------------------------------------------------------------
(* Vectors and maps of strings come back as they were written, whatever    *)
(* braces, commas and backslashes their strings hold; a called program     *)
(* gets every parameter as it was added, empty strings included.           *)
ItemsSurvive == [][item' = item]_item
=============================================================================
