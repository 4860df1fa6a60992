------------------------------- MODULE MCBot --------------------------------
(* What the bot does with messages, each part checked by itself: part says *)
(* which one this behaviour is about, the others keep one state.           *)
EXTENDS Commands, Joins, MsgEvents, Trivial, Orders

VARIABLE part

MCEnvironment == [HOME |-> "#b"]
MCFiles ==
    [main |-> <<Variable("$pass", <<"pw">>), Include("bot"),
                Property("nick", <<"skivvy">>),
                Property("ban", <<"eve">>), Property("password", <<"$pass">>)>>,
     bot |-> <<Property("plugin", <<"p1", "#a">>),
               Property("plugin", <<"p2", "*">>),
               Property("join", <<"#a">>), Property("part", <<"HOME">>),
               Property("command.alias", <<"#a", "!go", "!top">>),
               Property("command.alias", <<"#a", "!top", "!quote">>)>>,
     other |-> <<Include("bot"), Include("none"), Section("bot"), Variable("$x", <<"pw">>),
                 Property("password", <<"pw">>), Property("plugin", <<"p1", "PM">>)>>]
MCMainFiles == {"main", "other"}
MCPluginOf == [c \in {"!go", "!top", "!quote"} |-> IF c = "!quote" THEN "p2" ELSE "p1"]
MCSettings == {<<"password", <<"pw2">>>>, <<"plugin", <<"p1", "#b">>>>}

MCQuiz == <<{1}, {1, 2}>>

(* Messages of users, of the server and of nobody: no middles, channels of *)
(* both kinds or a nick, and the fourteen that may be followed by a        *)
(* trailing text without its colon.                                        *)
MCFrom == {[name |-> <<"ann">>, user |-> <<"u">>, host |-> <<"h">>],
           [name |-> <<"ann">>, user |-> <<>>, host |-> <<"h">>],
           [name |-> <<"ann">>, user |-> <<>>, host |-> <<>>],
           [name |-> <<"irc.net">>, user |-> <<>>, host |-> <<>>],
           [name |-> <<>>, user |-> <<>>, host |-> <<>>]}
MCWords == {Word("!cmd"), Word(Blank), Colon("a")}
MCTexts == {<<>>, <<Word("x")>>, <<Word("!cmd")>>}
           \cup {<<w>> \o ws : w \in {Word("!cmd"), Word(Blank)},
                               ws \in [1 .. 2 -> MCWords]}
MCMiddles == {<<>>, <<Word("skivvy")>>, <<Word("#a")>>, <<Word("&b"), Word("#a")>>,
              [i \in 1 .. 14 |-> Word("#a")]}
(* One order of each kind, with and without what may be left out.          *)
MCHello == <<Word("!cmd"), Word(Blank), Word("x")>>
MCOrders ==
    {PassOrder(Blank), PassOrder("pw"), UserOrder("u", "0", MCHello),
     JoinOrder("#a", Blank), QuitOrder(MCHello), PongOrder("1"),
     WhoisOrder(<<"ann", "eve">>), KickOrder(<<"#a">>, <<"ann", "eve">>, MCHello),
     QueryOrder("ann"), ModeOrder("#a", "+o", "ann")}
    \cup {ConsoleOrder(cmd, "ann", MCHello) : cmd \in {"/say", "/ctcp", "/nick"}}
    \cup {TypedOrder(cmd, "ann", MCHello) : cmd \in {"/msg", "/auth", "/mode", "/whois", "/ping"}}
    \cup {TypedOrder(cmd, "#a", text) :
             cmd \in {"/me", "/join", "/part"},
             text \in {<<Word("good"), Word("bye")>>, <<Word("x"), Word(Blank)>>}}
MCSaid == MCOrders \cup
    {s \in [from : MCFrom, command : {"PRIVMSG", "353"}, middles : MCMiddles,
            mark : BOOLEAN, text : MCTexts] :
        /\ ~s.mark => Len(s.middles) = MaxMiddles /\ s.text # <<>>
        /\ TrimRight(s.text) # <<>> \/ s.text = <<>>}

Quiet == conf = "main" /\ CmdInit
NoWords == said = CHOOSE s \in MCSaid : TRUE

Init ==
    /\ EvInit /\ QuizInit /\ JoinsInit /\ msg = NoMessage
    /\ \/ part = "commands" /\ CmdInit /\ NoWords
       \/ part \in {"joins", "events", "quiz"} /\ Quiet /\ NoWords
       \/ part = "message" /\ Quiet /\ MsgInit

Next ==
    /\ UNCHANGED part
    /\ \/ /\ part = "commands" /\ CmdNext
          /\ UNCHANGED <<joinVars, evVars, quizVars, said, msg>>
       \/ /\ part = "joins" /\ JoinsNext
          /\ UNCHANGED <<cmdVars, evVars, quizVars, said, msg>>
       \/ /\ part = "events" /\ EvNext
          /\ UNCHANGED <<cmdVars, joinVars, quizVars, said, msg>>
       \/ /\ part = "quiz" /\ QuizNext
          /\ UNCHANGED <<cmdVars, joinVars, evVars, said, msg>>
       \/ /\ part = "message" /\ (ReceiveMsg \/ Answer(MCHello))
          /\ UNCHANGED <<cmdVars, joinVars, evVars, quizVars>>

Spec == Init /\ [][Next]_<<cmdVars, joinVars, evVars, quizVars, said, msg, part>>
=============================================================================
