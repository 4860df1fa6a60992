----------------------------- MODULE Connection -----------------------------
(***************************************************************************)
(* How IrcBot gets and keeps its IRC connection (src/src/ircbot.cpp).      *)
(*                                                                         *)
(* Two threads share the atomics done, connected and registered, the       *)
(* unprotected nick_number, and the IrcServer object:                      *)
(*   - main runs the receive loop of IrcBot::init and handles messages;    *)
(*   - the pinger connects, logs in, pings every three minutes and         *)
(*     reconnects.                                                         *)
(* The IRC server and the network are the environment.  A NICK request is  *)
(* answered into inbox at once; how long the answer is under way is how    *)
(* long main leaves it there.  A connect() that fails throws               *)
(* (asio::connect without ec, IrcServer.cpp:260): the retry loop around it *)
(* is never entered and its counter stays 0.                               *)
(***************************************************************************)
EXTENDS Naturals, Sequences

CONSTANTS
    NickCount,       \* info.nicks.size()
    Retries,         \* property server.retries
    MaxDrops,        \* bound: connections the network loses
    Silent,          \* may a peer vanish without closing (no FIN, no data)?
    Prompt           \* does main read and handle every line within a ping's three minutes?

ASSUME ConnectionAssumption ==
    /\ NickCount \in Nat \ {0} /\ Retries \in Nat /\ MaxDrops \in Nat
    /\ {Silent, Prompt} \subseteq BOOLEAN

VARIABLES
    done, connected, registered,
    nick_number,  \* index of the next entry of info.nicks to try
    nick,         \* the bot's idea of its nick: position in info.nicks, 0 before 001
    ponged,       \* pinger_info equals the token of the latest PING
    oob,          \* info.nicks was indexed out of range: undefined behaviour
    mpc, line,    \* main: where it is, the message it handles
    ppc,          \* pinger: where it is
    link,         \* the socket: "closed", "up", "eof" (peer closed), "silent"
    inbox,        \* lines from the server not yet read
    srvNick,      \* nick the server has given this connection, 0 before 001
    drops,        \* bound: connections lost so far
    missed        \* history: main has missed an answer on this connection, or on the
                  \* last one and was still busy with it when this one was opened

flags == <<done, connected, registered>>
mainVars == <<mpc, line>>
net == <<link, inbox, srvNick, drops>>
vars == <<flags, nick_number, nick, ponged, oob, mainVars, ppc, net, missed>>

Nicks == 1..NickCount
Commands == {"NOTICE", "PING", "PONG", "OLDPONG", "433", "001", "NICK", "BARENICK"}
Msg(cmd) == <<cmd, 0, 0>>
NickMsg(cmd, from, to) == <<cmd, from, to>>
NoLine == Msg("NOTICE")
Messages == Commands \X (0..NickCount) \X (0..NickCount)

TypeOK ==
    /\ flags \in BOOLEAN \X BOOLEAN \X BOOLEAN
    /\ nick_number \in Nat /\ nick \in 0..NickCount
    /\ ponged \in BOOLEAN /\ oob \in BOOLEAN
    /\ mpc \in {"await", "recv", "read", "handle", "joining", "failed", "lost", "lost2",
                "down", "hung", "end", "dead"}
    /\ line \in Messages
    /\ ppc \in {"top", "connect", "after", "setreg", "login", "unreg", "loop",
                "wait", "judge", "check", "regain", "regain2", "end", "thrown", "dead"}
    /\ link \in {"closed", "up", "eof", "silent"}
    /\ inbox \in Seq(Messages)
    /\ srvNick \in 0..NickCount
    /\ drops \in 0..MaxDrops
    /\ missed \in BOOLEAN

Init ==
    /\ done = FALSE /\ connected = FALSE /\ registered = FALSE
    /\ nick_number = 0 /\ nick = 0 /\ ponged = FALSE /\ oob = FALSE
    /\ mpc = "await" /\ line = NoLine
    /\ ppc = "top" /\ missed = FALSE
    /\ link = "closed" /\ inbox = <<>> /\ srvNick = 0 /\ drops = 0

-----------------------------------------------------------------------------
(* The IRC server *)

Answers(m) == inbox' = Append(inbox, m)

\* Lines that answer something the bot has sent.
Answering == {"PONG", "433", "001", "NICK", "BARENICK"}

\* The server's reaction to "NICK n" (and USER, when the connection is new):
\* the nick is in use, or it is granted, said with a colon before the new nick
\* or without one.  A nick the connection already has, and a bogus one (0),
\* get no answer.
AskNick(n) ==
    \/ /\ link # "up" \/ n = srvNick \/ n = 0
       /\ UNCHANGED <<inbox, srvNick>>
    \/ /\ link = "up" /\ n # srvNick /\ n # 0
       /\ \/ Answers(Msg("433")) /\ UNCHANGED srvNick
          \/ /\ \E cmd \in IF srvNick = 0 THEN {"001"} ELSE {"NICK", "BARENICK"} :
                   Answers(NickMsg(cmd, srvNick, n))
             /\ srvNick' = n

\* irc->nick(info.nicks[nick_number++]).  Past the end of the vector anything
\* may be sent, or the process ends.
TryNextNick ==
    /\ nick_number' = nick_number + 1
    /\ IF nick_number < NickCount
       THEN AskNick(nick_number + 1) /\ UNCHANGED oob
       ELSE AskNick(0) /\ oob' = TRUE

\* Servers ping an idle client.
ServerPing ==
    /\ link = "up" /\ inbox = <<>>
    /\ Answers(Msg("PING"))
    /\ UNCHANGED <<flags, nick_number, nick, ponged, oob, mainVars, ppc,
                   link, srvNick, drops, missed>>

Drop ==
    /\ link = "up" /\ drops < MaxDrops
    /\ link' \in IF Silent THEN {"eof", "silent"} ELSE {"eof"}
    /\ drops' = drops + 1
    /\ UNCHANGED <<flags, nick_number, nick, ponged, oob, mainVars, ppc,
                   inbox, srvNick, missed>>

\* /die, from a plugin thread's IrcBot::exec.
Die ==
    /\ ~done
    /\ done' = TRUE
    /\ UNCHANGED <<connected, registered, nick_number, nick, ponged, oob,
                   mainVars, ppc, net, missed>>

-----------------------------------------------------------------------------
(* Main: IrcBot::init *)

MainGoto(at) == mpc' = at /\ line' = NoLine
\* Mutant: main waits for a connection only.
MutStopWaiting ==
    /\ mpc \in {"await", "down"}
    /\ connected
    /\ MainGoto("recv")
    /\ UNCHANGED <<flags, nick_number, nick, ponged, oob, ppc, net, missed>>

\* while(!done && !connected) sleep, before the loop and after a lost connection.
StopWaiting ==
    /\ mpc \in {"await", "down"}
    /\ done \/ connected
    /\ MainGoto("recv")
    /\ UNCHANGED <<flags, nick_number, nick, ponged, oob, ppc, net, missed>>

\* while(!done), and then blocked in irc->receive until there is something.
LoopHead ==
    /\ mpc = "recv"
    /\ MainGoto(IF done THEN "end" ELSE "read")
    /\ UNCHANGED <<flags, nick_number, nick, ponged, oob, ppc, net, missed>>

\* RemoteIrcServer::receive returns what one read_some returned, one line or
\* several; parsemsg understands the first one and the rest is lost.
ReceiveLine ==
    /\ mpc = "read"
    /\ link # "closed" /\ inbox # <<>>
    /\ \E k \in DOMAIN inbox :
          /\ inbox' = SubSeq(inbox, k + 1, Len(inbox))
          /\ missed' = (missed \/ \E i \in 2..k : inbox[i][1] \in Answering)
    /\ IF done
       THEN MainGoto("end")
       ELSE mpc' = "handle" /\ line' = Head(inbox)
    /\ UNCHANGED <<flags, nick_number, nick, ponged, oob, ppc,
                   link, srvNick, drops>>

ReceiveFails ==
    /\ mpc = "read"
    /\ link = "closed" \/ (link = "eof" /\ inbox = <<>>)
    /\ MainGoto("failed")
    /\ UNCHANGED <<flags, nick_number, nick, ponged, oob, ppc, net, missed>>

\* irc->close(), whatever socket the object holds by now.
CloseSocket ==
    /\ mpc = "failed"
    /\ MainGoto("lost")
    /\ link' = "closed" /\ inbox' = <<>> /\ srvNick' = 0
    /\ UNCHANGED <<flags, nick_number, nick, ponged, oob, ppc, drops, missed>>

SignalLost ==
    /\ mpc = "lost"
    /\ connected' = FALSE
    /\ MainGoto("lost2")
    /\ UNCHANGED <<done, registered, nick_number, nick, ponged, oob, ppc, net, missed>>

SignalUnregistered ==
    /\ mpc = "lost2"
    /\ registered' = FALSE
    /\ MainGoto("down")
    /\ UNCHANGED <<done, connected, nick_number, nick, ponged, oob, ppc, net, missed>>

Handling(cmd) == mpc = "handle" /\ line[1] = cmd

HandlePingOrNotice ==
    /\ Handling("PING") \/ Handling("NOTICE")
    /\ MainGoto("recv")
    /\ UNCHANGED <<flags, nick_number, nick, ponged, oob, ppc, net, missed>>

\* pinger_info = msg.get_trailing(): an older token overwrites a newer one.
HandlePong ==
    /\ Handling("PONG") \/ Handling("OLDPONG")
    /\ ponged' = (line[1] = "PONG")
    /\ MainGoto("recv")
    /\ UNCHANGED <<flags, nick_number, nick, oob, ppc, net, missed>>

\* RPL_WELCOME: on_connect commands and the joins, ten seconds apart, come
\* before registered = true.
HandleWelcome ==
    /\ Handling("001")
    /\ nick' = line[3]
    /\ MainGoto("joining")
    /\ UNCHANGED <<flags, nick_number, ponged, oob, ppc, net, missed>>

Joined ==
    /\ mpc = "joining"
    /\ registered' = TRUE
    /\ MainGoto("recv")
    /\ UNCHANGED <<done, connected, nick_number, nick, ponged, oob, ppc, net, missed>>

HandleNickInUse ==
    /\ Handling("433")
    /\ IF nick_number < NickCount
       THEN TryNextNick /\ UNCHANGED done
       ELSE done' = TRUE /\ UNCHANGED <<nick_number, oob, inbox, srvNick>>
    /\ MainGoto("recv")
    /\ UNCHANGED <<connected, registered, nick, ponged, ppc, link, drops, missed>>
\* Mutant: a change of the bot's own nick goes unnoticed.
MutHandleNick ==
    /\ Handling("NICK") \/ Handling("BARENICK")
    /\ MainGoto("recv")
    /\ UNCHANGED <<flags, nick_number, nick, ponged, oob, ppc, net, missed>>

\* msg.get_trailing(): without a colon there is none, the nick is empty (0).
Trailing == IF line[1] = "NICK" THEN line[3] ELSE 0

\* Is the bot changing its own nick?
HandleNick ==
    /\ Handling("NICK") \/ Handling("BARENICK")
    /\ nick' = IF line[2] = nick THEN Trailing ELSE nick
    /\ missed' = (missed \/ line[1] = "BARENICK")
    /\ MainGoto("recv")
    /\ UNCHANGED <<flags, nick_number, ponged, oob, ppc, net>>

Main ==
    \/ StopWaiting \/ LoopHead \/ ReceiveLine \/ ReceiveFails
    \/ CloseSocket \/ SignalLost \/ SignalUnregistered
    \/ HandlePingOrNotice \/ HandlePong \/ HandleWelcome \/ Joined
    \/ HandleNickInUse \/ HandleNick

-----------------------------------------------------------------------------
(* The pinger: IrcBot::pinger *)

PingerGoto(at) == ppc' = at

\* while(!done && irc)
Top ==
    /\ ppc = "top"
    /\ PingerGoto(IF done THEN "end" ELSE "connect")
    /\ UNCHANGED <<flags, nick_number, nick, ponged, oob, mainVars, net, missed>>

\* RemoteIrcServer::connect closes the old socket under main's feet.  If main
\* is inside read_some on that socket, its read fails or, as two threads may
\* not use one asio socket at once, never returns.
ReadDisturbed ==
    /\ IF mpc = "read" /\ link # "closed" /\ inbox = <<>>
       THEN mpc' \in {"failed", "hung"}
       ELSE UNCHANGED mpc
    /\ UNCHANGED line

NewSocket(state, lines) ==
    /\ link' = state /\ inbox' = lines /\ srvNick' = 0
    /\ missed' = (missed /\ mpc \in {"handle", "joining"})
    /\ UNCHANGED drops

ConnectSucceeds ==
    /\ ppc = "connect" /\ ~done
    /\ NewSocket("up", <<Msg("NOTICE")>>) /\ ReadDisturbed
    /\ PingerGoto("after")
    /\ UNCHANGED <<flags, nick_number, nick, ponged, oob>>

\* The old socket is closed in any case, and the pinger's thread is over.
ConnectFails ==
    /\ ppc = "connect" /\ ~done
    /\ NewSocket("closed", <<>>) /\ ReadDisturbed
    /\ PingerGoto("thrown")
    /\ UNCHANGED <<flags, nick_number, nick, ponged, oob>>

ConnectAbandoned ==
    /\ ppc = "connect" /\ done
    /\ PingerGoto("after")
    /\ UNCHANGED <<flags, nick_number, nick, ponged, oob, mainVars, net, missed>>

\* if(!(attempt < retries)) done = true; if(!done) connected = true ...  With no
\* retries allowed the bot gives up although it is connected.
AfterConnect ==
    /\ ppc = "after"
    /\ IF Retries = 0
       THEN done' = TRUE /\ UNCHANGED connected
       ELSE UNCHANGED done /\ connected' = (connected \/ ~done)
    /\ PingerGoto(IF done' THEN "top" ELSE "setreg")
    /\ UNCHANGED <<registered, nick_number, nick, ponged, oob, mainVars, net, missed>>
\* Mutant: a new connection inherits the old one's registration.
MutClearRegistered ==
    /\ ppc = "setreg"
    /\ PingerGoto("login")
    /\ UNCHANGED <<flags, nick_number, nick, ponged, oob, mainVars, net, missed>>

ClearRegistered ==
    /\ ppc = "setreg"
    /\ registered' = FALSE
    /\ PingerGoto("login")
    /\ UNCHANGED <<done, connected, nick_number, nick, ponged, oob, mainVars, net, missed>>

Login ==
    /\ ppc = "login"
    /\ TryNextNick
    /\ PingerGoto("unreg")
    /\ UNCHANGED <<flags, nick, ponged, mainVars, link, drops, missed>>
\* Mutant: the wait for registration does not notice a lost connection.
MutRegistrationOver ==
    /\ ppc = "unreg"
    /\ done \/ registered
    /\ PingerGoto("loop")
    /\ UNCHANGED <<flags, nick_number, nick, ponged, oob, mainVars, net, missed>>

\* while(!done && connected && !registered) sleep
RegistrationOver ==
    /\ ppc = "unreg"
    /\ done \/ ~connected \/ registered
    /\ PingerGoto("loop")
    /\ UNCHANGED <<flags, nick_number, nick, ponged, oob, mainVars, net, missed>>

Aged(s) == [i \in DOMAIN s |-> IF s[i][1] = "PONG" THEN Msg("OLDPONG") ELSE s[i]]

\* while(!done && connected && registered): a PING with a fresh token
SendPing ==
    /\ ppc = "loop" /\ ~done /\ connected /\ registered
    /\ ponged' = FALSE
    /\ inbox' = IF link = "up" THEN Append(Aged(inbox), Msg("PONG")) ELSE Aged(inbox)
    /\ line' = IF line[1] = "PONG" THEN Msg("OLDPONG") ELSE line
    /\ PingerGoto("wait")
    /\ UNCHANGED <<flags, nick_number, nick, oob, mpc, link, srvNick, drops, missed>>

\* Mutant: the pinger does not connect again.
MutLeaveLoop ==
    /\ ppc = "loop" /\ (done \/ ~connected \/ ~registered)
    /\ PingerGoto("end")
    /\ UNCHANGED <<flags, nick_number, nick, ponged, oob, mainVars, net, missed>>

LeaveLoop ==
    /\ ppc = "loop" /\ (done \/ ~connected \/ ~registered)
    /\ PingerGoto("top")
    /\ UNCHANGED <<flags, nick_number, nick, ponged, oob, mainVars, net, missed>>

\* Main has no line left to read or to handle, or cannot read for now.
MainCaughtUp ==
    \/ mpc \in {"end", "dead", "hung"}
    \/ mpc \in {"await", "down"} /\ ~connected
    \/ mpc \notin {"handle", "joining"} /\ inbox = <<>>

\* Three minutes are over: connected = (pinger_info == oss.str())
Judge ==
    /\ ppc = "wait"
    /\ Prompt => MainCaughtUp \/ done
    /\ connected' = ponged
    /\ PingerGoto("check")
    /\ UNCHANGED <<done, registered, nick_number, nick, ponged, oob, mainVars, net, missed>>

CheckTimeout ==
    /\ ppc = "check"
    /\ IF connected
       THEN UNCHANGED <<registered, nick_number>>
       ELSE registered' = FALSE /\ nick_number' = 0
    /\ PingerGoto("regain")
    /\ UNCHANGED <<done, connected, nick, ponged, oob, mainVars, net, missed>>
\* Mutant: the attempt to regain the primary nick goes on down the list.
MutRegainReset ==
    /\ ppc = "regain"
    /\ PingerGoto(IF NickCount > 1 /\ nick # 1 THEN "regain2" ELSE "loop")
    /\ UNCHANGED <<flags, nick_number, nick, ponged, oob, mainVars, net, missed>>

\* Each ping, try to regain the primary nick.
RegainReset ==
    /\ ppc = "regain"
    /\ IF NickCount > 1 /\ nick # 1
       THEN nick_number' = 0 /\ PingerGoto("regain2")
       ELSE UNCHANGED nick_number /\ PingerGoto("loop")
    /\ UNCHANGED <<flags, nick, ponged, oob, mainVars, net, missed>>

RegainAsk ==
    /\ ppc = "regain2"
    /\ TryNextNick
    /\ PingerGoto("loop")
    /\ UNCHANGED <<flags, nick, ponged, mainVars, link, drops, missed>>

Pinger ==
    \/ Top \/ ConnectSucceeds \/ ConnectFails \/ ConnectAbandoned
    \/ AfterConnect \/ ClearRegistered \/ Login \/ RegistrationOver
    \/ SendPing \/ LeaveLoop \/ Judge \/ CheckTimeout \/ RegainReset \/ RegainAsk

-----------------------------------------------------------------------------
\* The out-of-range read may also end the process.
Crash ==
    /\ oob /\ mpc # "dead"
    /\ mpc' = "dead" /\ ppc' = "dead"
    /\ UNCHANGED <<flags, nick_number, nick, ponged, oob, line, net, missed>>

Next == Main \/ Pinger \/ ServerPing \/ Drop \/ Die \/ Crash

Spec == Init /\ [][Next]_vars

\* Both threads are operating-system threads that sleep for bounded times;
\* a live server pings an idle connection.
FairSpec == Spec /\ WF_vars(Main) /\ WF_vars(Pinger) /\ WF_vars(ServerPing)

-----------------------------------------------------------------------------
(* Properties *)

\* The bot counts as registered only on a connection on which the server has
\* welcomed it: main's late "registered = true" after slow joins never lands
\* on a connection the pinger has opened since.  (Between the two stores of
\* the pinger, "setreg", the old value may still be there, and the flags of a
\* process that has crashed mean nothing.)
RegisteredHere ==
    registered /\ connected /\ link = "up" /\ ppc \notin {"setreg", "dead"} => srvNick # 0

\* Once main has read all the server said, the bot's nick is the nick the
\* server knows it by: what the regaining of the primary nick goes by.  On a
\* connection on which a read took in several lines and with them an answer,
\* or a NICK came without its colon, it need not be.
NickAgrees ==
    /\ registered /\ connected /\ link = "up" /\ mpc = "read" /\ inbox = <<>>
    /\ ~missed
    => nick = srvNick

\* A registered bot that cannot regain its primary nick keeps running: only
\* a connection being opened can run out of nicks, unless main has missed an
\* answer on it.
NoQuitOverNick ==
    [][Handling("433") /\ mpc' = "recv" /\ registered => done' = done \/ missed]_vars

\* Main stops waiting for the pinger only when there is an open socket to
\* read from, or to stop.
AwaitsOpenSocket ==
    [][mpc = "down" /\ mpc' = "recv" => link # "closed" \/ done]_vars

\* Every login starts with the first nick of the list.
LoginWithFirstNick ==
    [][ppc = "login" /\ ppc' = "unreg" => nick_number = 0]_vars

\* Losing the connection is not the end: main's wait for the pinger ends, or
\* a connect() that failed has ended the pinger.
WaitEnds ==
    (mpc \in {"await", "down"}) ~> (mpc \notin {"await", "down"} \/ ppc = "thrown")

\* Once asked to stop, both threads leave their loops, or main is caught in a
\* read: on a socket that the pinger has closed, or from a peer that has
\* vanished without a word.
StopsWhenAsked ==
    done ~> (oob \/ /\ ppc \in {"end", "thrown"}
                    /\ mpc \in {"end", "hung"} \/ (mpc = "read" /\ link = "silent"))

\* A login is answered: the pinger does not wait for registration for ever,
\* unless main has missed an answer, is caught in a read, or the peer has
\* vanished without a word.
LoginEnds ==
    (ppc = "unreg") ~> (ppc # "unreg" \/ oob \/ missed \/ mpc = "hung" \/ link = "silent")
=============================================================================
