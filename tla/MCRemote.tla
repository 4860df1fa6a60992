------------------------------ MODULE MCRemote ------------------------------
(* What goes over sockets, and what is made of it, each part checked by    *)
(* itself: part says which one this behaviour is about, the others keep    *)
(* one state.                                                              *)
EXTENDS Sending, Server, Remote, Http, OaStats, TestServer, Helpers

VARIABLE part

MCNumbers == 1 .. 3
MCTyped == {<<"x">>, <<"x", "y">>}

Byte(b) == Unit("byte", b)
MCOctets == {Byte("translation"), Byte("option"), Byte("snippet")}
MCSetCookies == {<<"/", "c1">>, <<"/", "c2">>}
MCChunks == {<<>>, <<<<Byte("translation")>>>>,
             <<<<Byte("option"), Byte("snippet")>>, <<Byte("option"), Byte("option")>>>>}
Cookie(c) == Unit("set-cookie", c)
MCOthers == {<<>>, <<Cookie(<<"/", "c1">>), Cookie(<<"/", "c2">>)>>,
             <<Unit("bad-length", "")>>}
MCResponses == [status : {"200 OK", "404"}, framing : {"chunked", "length", "none"},
                chunks : MCChunks, others : MCOthers]

Row(name, foe, score, to) ==
    [name |-> name, foe |-> foe, score |-> score, to |-> to, rank |-> 0]
MCTables ==
    {<<>>,
     <<Row("a", "b", 2, 9), Row("b", "c", 2, 9), Row("c", "a", 1, 9), Row("d", "a", 0, 9)>>,
     <<Row("a", "b", 0, 9), Row("b", "a", 0, 9)>>,
     <<Row("a", "b", 1, 1), Row("b", "a", 3, 9), Row("c", "b", 3, 9),
       Row("d", "a", 3, 9), Row("e", "a", 2, 1)>>}
MCSort(rows) == SortSeq(rows, LAMBDA r, s : r.score > s.score)
When(kind, number) == [kind |-> kind, number |-> number]
MCDates == {<<>>, <<When("month", 3), When("year", 2013)>>, <<When("month", 12)>>,
            <<When("year", 2011)>>, <<When("month", 13)>>}
MCToday == [year |-> 2013, month |-> 6]
MCLookups == {<<[handle |-> "a", matches |-> {"a", "b"}]>>,
              <<[handle |-> "a", matches |-> {"a", "b"}],
                [handle |-> "c", matches |-> {"a", "c"}],
                [handle |-> "b", matches |-> {"b", "c"}]>>}

MCRanges == {<<-1, 2>>, <<1, -1>>, <<2, 4>>, <<3, 3>>, <<4, 2>>}
MCRangeLists == UNION {[1 .. n -> MCRanges] : n \in 0 .. 3}
MCYears == {95, 96, 100, 101, 103, 104, 200}
MCPlain == [year : MCYears, mon : 0 .. 11, mday : {1, 2, 15, 28}]
MCDays == {[year |-> d.year, mon |-> d.mon, mday |-> d.mday, yday |-> DayOfYear(d)] :
              d \in MCPlain}
MCBeforeDMap == {-1, 0, 12}
MCPalette == <<<<255, 255, 255>>, <<0, 0, 0>>, <<0, 0, 128>>, <<0, 128, 0>>,
               <<255, 0, 0>>, <<128, 0, 64>>, <<128, 0, 128>>, <<255, 128, 64>>,
               <<255, 255, 0>>, <<128, 255, 0>>, <<0, 128, 128>>, <<0, 255, 255>>,
               <<0, 0, 255>>, <<255, 0, 255>>, <<128, 128, 128>>, <<192, 192, 192>>>>
MCLines ==
    {[kind |-> "question", text |-> "q", had |-> TRUE, right |-> FALSE],
     [kind |-> "choice", text |-> "a", had |-> TRUE, right |-> FALSE]}
    \cup {[kind |-> "check", text |-> "", had |-> h, right |-> r] : h, r \in BOOLEAN}
MCPages == UNION {[1 .. n -> MCLines] : n \in 0 .. 4}

Tag(kind, name) == [kind |-> kind, name |-> name]
MCTokens == {Tag("open", <<"t">>), Tag("close", <<"t">>), Tag("open", <<"t", "r">>),
             Tag("close", <<"t", "r">>), Tag("open", <<"b">>), Tag("close", <<"b">>),
             Tag("text", <<"x">>)}
MCDocuments == UNION {[1 .. n -> MCTokens] : n \in 0 .. 4}
               \cup {<<Tag("open", <<"t">>)>> \o d \o <<Tag("close", <<"t">>)>> :
                         d \in [1 .. 4 -> MCTokens]}
MCTexts == UNION {[1 .. n -> {"%", " ", "\n", "~", "4", "1"}] : n \in 0 .. 3}

MCHidden(alias) == Action({"INVISIBLE"}, alias)
MCShown(alias) == Action({}, alias)
MCPlugins ==
    <<[c \in {"!a", "!b", "!c", "!s"} |->
          CASE c = "!a" -> MCShown("") [] c = "!b" -> MCShown("!a")
            [] c = "!c" -> MCShown("!s") [] c = "!s" -> MCHidden("")],
      [c \in {"!d", "!e", "!s2", "!a"} |->
          CASE c = "!d" -> MCShown("!e") [] c = "!e" -> MCShown("!a")
            [] c = "!s2" -> MCHidden("!d") [] c = "!a" -> MCHidden("")]>>
MCTriggerWords == <<[words |-> <<"!help", "!h">>, help |-> TRUE],
                    [words |-> <<"!die">>, help |-> FALSE],
                    [words |-> <<"!die", "!s2">>, help |-> TRUE]>>
MCAsks == {"!a", "!b", "!c", "!d", "!e", "!s", "!s2", "!help", "!h", "!die", "!none"}

NoRemote == RemoteInit /\ withNul /\ typed = CHOOSE c \in RemoteCommands : TRUE
NoStats == StatInit /\ table = <<>>
NoCase == case = [kind |-> "ranges", of |-> <<>>] /\ answer = <<>>

Init ==
    /\ SendInit /\ ServerInit /\ HttpInit /\ TestInit
    /\ \/ part \in {"sending", "server", "http", "whois"} /\ NoRemote /\ NoStats /\ NoCase
       \/ part = "remote" /\ RemoteInit /\ NoStats /\ NoCase
       \/ part = "stats" /\ NoRemote /\ StatInit /\ NoCase
       \/ part = "helpers" /\ NoRemote /\ NoStats /\ CaseInit

Next ==
    /\ UNCHANGED part
    /\ \/ /\ part = "sending" /\ SendNext
          /\ UNCHANGED <<serverVars, remoteVars, httpVars, statVars, caseVars, testVars>>
       \/ /\ part = "server" /\ ServerNext
          /\ UNCHANGED <<sendVars, remoteVars, httpVars, statVars, caseVars, testVars>>
       \/ /\ part = "remote" /\ RemoteNext
          /\ UNCHANGED <<sendVars, serverVars, httpVars, statVars, caseVars, testVars>>
       \/ /\ part = "http" /\ HttpNext
          /\ UNCHANGED <<sendVars, serverVars, remoteVars, statVars, caseVars, testVars>>
       \/ /\ part = "stats" /\ StatNext
          /\ UNCHANGED <<sendVars, serverVars, remoteVars, httpVars, caseVars, testVars>>
       \/ /\ part = "helpers" /\ CaseNext
          /\ UNCHANGED <<sendVars, serverVars, remoteVars, httpVars, statVars, testVars>>
       \/ /\ part = "whois" /\ TestNext
          /\ UNCHANGED <<sendVars, serverVars, remoteVars, httpVars, statVars, caseVars>>

Spec ==
    Init /\ [][Next]_<<sendVars, serverVars, remoteVars, httpVars, statVars, testVars,
                       caseVars, part>>
=============================================================================
