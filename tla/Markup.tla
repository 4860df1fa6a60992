------------------------------- MODULE Markup -------------------------------
(***************************************************************************)
(* How network.cpp takes web pages apart and escapes what it asks for.  A  *)
(* page is a sequence of tokens: tags that open, close or do both, whose   *)
(* names are sequences of letters, and texts, sequences of characters.     *)
(***************************************************************************)
EXTENDS Integers, Sequences, SequencesExt, FiniteSets, Selections

Opens(t, tag) == t.kind = "open" /\ IsPrefix(tag, t.name)
Closes(t, tag) == t.kind = "close" /\ IsPrefix(tag, t.name)

(* read_tag: what is between a tag and the next end of one like it; the    *)
(* stream is good if it had both.                                          *)
ReadTag(page, tag) ==
    LET First(places) ==
            CHOOSE i \in places \cup {Len(page) + 1} : \A j \in places : i <= j
        i == First({k \in DOMAIN page : Opens(page[k], tag)})
        j == First({k \in i + 1 .. Len(page) : Closes(page[k], tag)})
    IN  [good |-> j <= Len(page), os |-> SubSeq(page, i + 1, j - 1),
         rest |-> SubSeq(page, j + 1, Len(page))]

(* while(read_tag(is, os, tag)): a turn takes tokens of the page.          *)
NextTag(s, tag) ==
    LET r == ReadTag(s.rest, tag)
    IN  IF r.good THEN [rest |-> r.rest, found |-> Append(s.found, r.os)] ELSE s
Tags(page, tag) ==
    LET turn[i \in 0 .. Len(page)] ==
            IF i = 0 THEN [rest |-> page, found |-> <<>>] ELSE NextTag(turn[i - 1], tag)
    IN  turn[Len(page)].found

(* read_element: up to an end that brings the count of open tags back to   *)
(* 0, or a text.                                                           *)
NumberOf(page, kind, i) == Cardinality({j \in 1 .. i : page[j].kind = kind})
Level(page, i) == NumberOf(page, "open", i) - NumberOf(page, "close", i)
ReadElement(page) ==
    LET Ends == {i \in DOMAIN page : page[i].kind = "close" /\ Level(page, i) = 0}
    IN  IF page[1].kind = "text" THEN <<page[1]>>
        ELSE SubSeq(page, 1, CHOOSE i \in Ends \cup {Len(page)} : \A j \in Ends : i <= j)
-----------------------------------------------------------------------------
(* urlencode: hexadecimal without leading zeros, and sign and all of a     *)
(* character beyond ASCII.                                                 *)
Hex == [c \in {"%", " ", "\n", "~"} |->
           CASE c = "%" -> <<"2", "5">> [] c = " " -> <<"2", "0">> [] c = "\n" -> <<"a">>
             [] c = "~" -> <<"f", "f", "f", "f", "f", "f", "e", "9">>]
UrlEncode(text) ==
    FlattenSeq([i \in DOMAIN text |-> IF text[i] \in DOMAIN Hex THEN <<"%">> \o Hex[text[i]]
                                      ELSE <<text[i]>>])

(* urldecode: for every code in their order, as long as it is found.       *)
Codes == <<<<<<"%", "0", "a">>, "\n">>, <<<<"%", "2", "0">>, " ">>,
           <<<<"%", "2", "5">>, "%">>, <<<<"%", "4", "1">>, "A">>>>
At(text, code) == {i \in 1 .. Len(text) - 2 : SubSeq(text, i, i + 2) = code}
Replaced(text, code) ==
    LET i == CHOOSE i \in At(text, code[1]) : \A j \in At(text, code[1]) : i <= j
    IN  IF At(text, code[1]) = {} THEN text
        ELSE Append(SubSeq(text, 1, i - 1), code[2]) \o SubSeq(text, i + 3, Len(text))
Decoded(text, code) ==
    LET turn[i \in 0 .. Len(text)] ==
            IF i = 0 THEN text ELSE Replaced(turn[i - 1], code)
    IN  turn[Len(text)]
UrlDecode(text) ==
    LET after[i \in 0 .. Len(Codes)] ==
            IF i = 0 THEN text ELSE Decoded(after[i - 1], Codes[i])
    IN  after[Len(Codes)]

(* html_to_text: the texts, decoded as if they were addresses.             *)
HtmlToText(page) ==
    LET texts == Only(page, {t \in ToSet(page) : t.kind = "text"})
    IN  FlattenSeq([i \in DOMAIN texts |-> UrlDecode(texts[i].name)])
-----------------------------------------------------------------------------
(* What a page says.                                                       *)
Partner(page, i, j) ==
    /\ i < j /\ page[i].kind = "open" /\ page[j].kind = "close"
    /\ page[i].name = page[j].name /\ Level(page, i) = Level(page, j) + 1
    /\ \A k \in i + 1 .. j - 1 : Level(page, k) >= Level(page, i)
WellFormed(page) ==
    \A i \in DOMAIN page :
        /\ page[i].kind = "open" => \E j \in DOMAIN page : Partner(page, i, j)
        /\ page[i].kind = "close" => \E j \in DOMAIN page : Partner(page, j, i)
Elements(page, tag) ==
    LET starts == Only([i \in DOMAIN page |-> i], {i \in DOMAIN page : Opens(page[i], tag)})
    IN  [n \in DOMAIN starts |->
            SubSeq(page, starts[n] + 1,
                   (CHOOSE j \in DOMAIN page : Partner(page, starts[n], j)) - 1)]
Simple(page, tag) ==
    \A i \in DOMAIN page : Opens(page[i], tag) =>
        \A j \in DOMAIN page : Partner(page, i, j) =>
            \A k \in i + 1 .. j - 1 : ~IsPrefix(tag, page[k].name)
Percent(text) == \E i \in DOMAIN text : text[i] = "%"

(* Of a well formed page the bot gets every element whose name begins with *)
(* a tag, whole and in order, unless one of them contains another; the     *)
(* first element with all that is in it; and all of its texts as they are, *)
(* unless there is a "%" in them.                                          *)
TakenApart(page, tag) ==
    WellFormed(page) =>
        /\ Simple(page, tag) => Tags(page, tag) = Elements(page, tag)
        /\ page # <<>> /\ page[1].kind = "open" => Partner(page, 1, Len(ReadElement(page)))
        /\ (\A i \in DOMAIN page : page[i].kind = "text" => ~Percent(page[i].name)) =>
              HtmlToText(page) =
                  FlattenSeq([i \in DOMAIN page |->
                                 IF page[i].kind = "text" THEN page[i].name ELSE <<>>])

(* What is asked for arrives as it was typed if it has no control          *)
(* characters and nothing beyond ASCII; a "%" may be taken for a code.     *)
AskedRight(text) ==
    (\A i \in DOMAIN text : text[i] \notin {"\n", "~", "%"}) => UrlDecode(UrlEncode(text)) = text
=============================================================================
