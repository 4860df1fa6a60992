------------------------- MODULE Connection_proofs --------------------------
(***************************************************************************)
(* The bot counts as registered only where it is: RegisteredHere for any   *)
(* number of nicks, retries and lost connections, silent ones too, however *)
(* many lines a read takes in, as long as main keeps up with a ping        *)
(* (Prompt).                                                               *)
(*                                                                         *)
(* The danger is a welcome that main has read on one connection and acts   *)
(* on when the pinger has opened the next.  So the argument is about what  *)
(* may be under way when the pinger turns to a new connection: it does so  *)
(* only when main is Deaf, on its way to or waiting for a new connection,  *)
(* or everything the old connection had to say about the login is Settled. *)
(*                                                                         *)
(* The two further theorems follow the verdicts on the nicks asked for:    *)
(* NickAgrees (what the bot takes for its nick is the server's, or a       *)
(* verdict is on its way) and NoQuitOverNick (a registered bot goes on).   *)
(* Their invariants are about connections on which main has missed no      *)
(* answer: a read of several lines keeps them if it loses none.            *)
(***************************************************************************)
EXTENDS Connection, SequenceTheorems, TLAPS

Welcomes(s) == \E i \in 1 .. Len(s) : s[i][1] = "001"

LineTypes ==
    /\ inbox \in Seq(Messages) /\ nick_number \in Nat /\ srvNick \in 0 .. NickCount

Known == link = "up" => srvNick # 0
WelcomeRead == mpc = "joining" \/ Handling("001")

Deaf ==
    \/ mpc \in {"failed", "lost", "hung", "end", "dead"}
    \/ mpc \in {"await", "lost2", "down"} /\ ~connected

Settled == ~WelcomeRead /\ ~Welcomes(inbox) /\ Known

Quiet == done \/ Deaf \/ Settled

(* Nothing to read, and nothing read that is yet to be acted on.           *)
Shut == link = "closed" /\ inbox = <<>> /\ mpc \notin {"handle", "joining"}

(* The pinger is between two connections, or has logged in on one.         *)
Between == ppc \in {"top", "connect"}
Online == ppc \in {"login", "unreg", "loop", "wait", "check", "regain", "regain2"}

(* A welcome under way is one from the present connection.                 *)
WelcomeIsNew == WelcomeRead \/ Welcomes(inbox) => Known

RegistrationIsNew ==
    /\ Online /\ registered => Known
    /\ mpc \in {"await", "down"} => ~registered
    /\ ppc = "wait" => mpc # "await"
    /\ Between /\ ~done => ~connected \/ ~registered

(* When the pinger may turn to a new connection nothing is under way.      *)
QuietBetween ==
    /\ Between \/ ppc \in {"check", "regain", "regain2"} => Quiet
    /\ ppc = "loop" /\ (~connected \/ ~registered) => Quiet
    /\ ppc \in {"setreg", "login", "unreg", "wait"} /\ ~connected => done \/ Deaf
    /\ ppc = "wait" /\ ~registered => done \/ ~connected \/ Shut

(* Main on its way from a lost connection has closed it, and nobody has    *)
(* opened another as long as the pinger believes in this one.              *)
LostIsClosed ==
    /\ Online /\ registered /\ mpc \in {"lost", "lost2"} => Shut
    /\ ppc = "wait" /\ mpc \in {"lost", "lost2", "down"} => Shut

CInv ==
    /\ LineTypes /\ RegisteredHere /\ WelcomeIsNew
    /\ RegistrationIsNew /\ QuietBetween /\ LostIsClosed
-----------------------------------------------------------------------------
LEMMA ShutIsSettled == Shut => Settled
<1>1. Len(<<>>) = 0
  OBVIOUS
<1> QED
  BY <1>1 DEF Shut, Settled, WelcomeRead, Handling, Welcomes, Known

LEMMA NoWelcome ==
    ~Welcomes(<<>>) /\ ~Welcomes(<<Msg("NOTICE")>>)
    /\ <<>> \in Seq(Messages) /\ <<Msg("NOTICE")>> \in Seq(Messages)
<1>1. Len(<<>>) = 0 /\ Len(<<Msg("NOTICE")>>) = 1 /\ <<Msg("NOTICE")>>[1][1] = "NOTICE"
  BY DEF Msg
<1>2. Msg("NOTICE") \in Messages
  BY ConnectionAssumption DEF Msg, Messages, Commands
<1> QED
  BY <1>1, <1>2 DEF Welcomes

LEMMA AppendWelcomes ==
    ASSUME NEW s \in Seq(Messages), NEW m \in Messages
    PROVE  /\ Append(s, m) \in Seq(Messages)
           /\ Welcomes(Append(s, m)) <=> Welcomes(s) \/ m[1] = "001"
<1>1. /\ Append(s, m) \in Seq(Messages) /\ Len(Append(s, m)) = Len(s) + 1
      /\ \A i \in 1 .. Len(s) : Append(s, m)[i] = s[i]
      /\ Append(s, m)[Len(s) + 1] = m /\ Len(s) \in Nat
  BY AppendProperties, LenProperties
<1>2. \A i \in 1 .. Len(s) + 1 : i \in 1 .. Len(s) \/ i = Len(s) + 1
  BY <1>1
<1>3. Len(s) + 1 \in 1 .. Len(s) + 1 /\ \A i \in 1 .. Len(s) : i \in 1 .. Len(s) + 1
  BY <1>1
<1> QED
  BY <1>1, <1>2, <1>3 DEF Welcomes

(* What is left of a sequence of lines after its first ones.               *)
LEMMA RestWelcomes ==
    ASSUME NEW s \in Seq(Messages), NEW k \in 1 .. Len(s)
    PROVE  /\ SubSeq(s, k + 1, Len(s)) \in Seq(Messages)
           /\ Welcomes(SubSeq(s, k + 1, Len(s))) => Welcomes(s)
           /\ Head(s)[1] = "001" => Welcomes(s)
<1> DEFINE r == SubSeq(s, k + 1, Len(s))
<1>1. Len(s) \in Nat /\ \A i \in 1 .. Len(s) : s[i] \in Messages
  BY LenProperties, ElementOfSeq
<1>2. r \in Seq(Messages) /\ Len(r) = Len(s) - k
      /\ \A i \in 1 .. Len(s) - k : r[i] = s[k + i]
  BY <1>1
<1> HIDE DEF r
<1>3. Welcomes(r) => Welcomes(s)
  <2> SUFFICES ASSUME NEW i \in 1 .. Len(s) - k, r[i][1] = "001" PROVE Welcomes(s)
    BY <1>2 DEF Welcomes
  <2>1. k + i \in 1 .. Len(s) /\ s[k + i][1] = "001"
    BY <1>1, <1>2
  <2> QED
    BY <2>1 DEF Welcomes
<1>4. Head(s) = s[1] /\ 1 \in 1 .. Len(s)
  BY <1>1
<1> QED
  BY <1>2, <1>3, <1>4 DEF Welcomes, r

LEMMA AgedWelcomes ==
    ASSUME NEW s \in Seq(Messages)
    PROVE  /\ Aged(s) \in Seq(Messages)
           /\ Welcomes(Aged(s)) => Welcomes(s)
           /\ s = <<>> => Aged(s) = <<>>
<1>1. Len(s) \in Nat /\ DOMAIN s = 1 .. Len(s) /\ \A i \in 1 .. Len(s) : s[i] \in Messages
  BY LenProperties, ElementOfSeq
<1>2. Msg("OLDPONG") \in Messages /\ Msg("OLDPONG")[1] # "001"
  BY ConnectionAssumption DEF Msg, Messages, Commands
<1>3. /\ Aged(s) \in [1 .. Len(s) -> Messages]
      /\ \A i \in 1 .. Len(s) : Aged(s)[i][1] = "001" => s[i][1] = "001"
  BY <1>1, <1>2 DEF Aged
<1>4. Aged(s) \in Seq(Messages) /\ Len(Aged(s)) = Len(s)
  BY <1>1, <1>3, SeqDef, LenProperties
<1>5. s = <<>> => Len(s) = 0
  OBVIOUS
<1> QED
  BY <1>3, <1>4, <1>5, EmptySeq DEF Welcomes

(* A request for a nick changes nothing but adds an answer; a welcome is   *)
(* one only of a connection that then knows the bot.                       *)
LEMMA AskFacts ==
    ASSUME LineTypes, TryNextNick, UNCHANGED link
    PROVE  /\ LineTypes'
           /\ Welcomes(inbox') => Welcomes(inbox) \/ (srvNick = 0 /\ srvNick' # 0 /\ link = "up")
           /\ srvNick # 0 => srvNick' # 0
           /\ link # "up" => UNCHANGED <<inbox, srvNick>>
<1>1. nick_number' \in Nat
  BY DEF LineTypes, TryNextNick
<1>2. CASE UNCHANGED <<inbox, srvNick>>
  BY <1>1, <1>2 DEF LineTypes
<1>3. ASSUME NEW n \in 1 .. NickCount, link = "up", n # srvNick,
             inbox' = Append(inbox, Msg("433")), srvNick' = srvNick
      PROVE  LineTypes' /\ (Welcomes(inbox') => Welcomes(inbox))
  <2>1. Msg("433") \in Messages /\ Msg("433")[1] = "433"
    BY ConnectionAssumption DEF Msg, Messages, Commands
  <2> QED
    BY <1>1, <1>3, <2>1, AppendWelcomes DEF LineTypes
<1>4. ASSUME NEW n \in 1 .. NickCount, link = "up", n # srvNick, srvNick' = n,
             NEW cmd \in IF srvNick = 0 THEN {"001"} ELSE {"NICK", "BARENICK"},
             inbox' = Append(inbox, NickMsg(cmd, srvNick, n))
      PROVE  LineTypes' /\ (Welcomes(inbox') => Welcomes(inbox) \/ srvNick = 0) /\ srvNick' # 0
  <2> DEFINE msg == NickMsg(cmd, srvNick, n)
  <2>1. msg \in Messages /\ (msg[1] = "001" => srvNick = 0)
    <3>1. cmd \in Commands /\ (cmd = "001" => srvNick = 0)
      BY DEF Commands
    <3>2. srvNick \in 0 .. NickCount /\ n \in 0 .. NickCount
      BY ConnectionAssumption DEF LineTypes
    <3> QED
      BY <3>1, <3>2 DEF NickMsg, Messages
  <2>2. srvNick' \in 0 .. NickCount /\ srvNick' # 0
    BY <1>4, ConnectionAssumption
  <2> HIDE DEF msg
  <2>3. inbox' = Append(inbox, msg)
    BY <1>4 DEF msg
  <2> QED
    BY <1>1, <2>1, <2>2, <2>3, AppendWelcomes DEF LineTypes
<1>5. nick_number < NickCount => nick_number + 1 \in 1 .. NickCount
  BY ConnectionAssumption DEF LineTypes
<1> QED
  BY <1>2, <1>3, <1>4, <1>5 DEF TryNextNick, AskNick, Answers
-----------------------------------------------------------------------------
LEMMA CInitially == Init => CInv
<1> SUFFICES ASSUME Init PROVE CInv
  OBVIOUS
<1>1. LineTypes /\ ~Welcomes(inbox)
  BY NoWelcome, ConnectionAssumption DEF Init, LineTypes
<1>2. Deaf /\ ~WelcomeRead
  BY DEF Init, Deaf, WelcomeRead, Handling, NoLine, Msg
<1> QED
  BY <1>1, <1>2 DEF Init, CInv, RegisteredHere, WelcomeIsNew, RegistrationIsNew, Between,
     Online, QuietBetween, Quiet, LostIsClosed

(* Main.  Whatever it does, it does not make itself hear a welcome it had  *)
(* not been sent, and once deaf it stays so until there is a connection.   *)
MainSteps ==
    StopWaiting \/ LoopHead \/ HandlePingOrNotice \/ HandlePong \/ HandleWelcome \/ HandleNick

LEMMA MainKeeps == CInv /\ MainSteps => CInv'
<1> SUFFICES ASSUME CInv, MainSteps PROVE CInv'
  OBVIOUS
<1>1. UNCHANGED <<done, connected, registered, ppc, link, inbox, srvNick, nick_number>>
  BY DEF MainSteps, StopWaiting, LoopHead, HandlePingOrNotice, HandlePong, HandleWelcome,
         HandleNick, flags, net
<1>2. /\ mpc' \in {"recv", "end", "read", "joining"}
      /\ WelcomeRead' => WelcomeRead
      /\ Deaf => Deaf' \/ done
      /\ mpc' = "joining" => mpc = "handle"
  BY DEF MainSteps, StopWaiting, LoopHead, HandlePingOrNotice, HandlePong, HandleWelcome,
         HandleNick, MainGoto, WelcomeRead, Handling, Deaf, NoLine, Msg
<1>3. Known' = Known /\ Online' = Online /\ Between' = Between
  BY <1>1 DEF Known, Online, Between
<1>4. LineTypes' /\ RegisteredHere'
  BY <1>1 DEF CInv, LineTypes, RegisteredHere
<1>5. WelcomeIsNew'
  BY <1>1, <1>2, <1>3 DEF CInv, WelcomeIsNew
<1>6. RegistrationIsNew'
  BY <1>1, <1>2, <1>3 DEF CInv, RegistrationIsNew
<1>7. QuietBetween'
  <2>1. Quiet => Quiet'
    BY <1>1, <1>2, <1>3 DEF Quiet, Settled
  <2>2. Shut => Shut'
    BY <1>1, <1>2 DEF Shut
  <2> QED
    BY <1>1, <1>2, <1>3, <2>1, <2>2 DEF CInv, QuietBetween
<1>8. LostIsClosed'
  BY <1>2 DEF LostIsClosed
<1> QED
  BY <1>4, <1>5, <1>6, <1>7, <1>8 DEF CInv

LEMMA ReceiveKeeps == CInv /\ (ReceiveLine \/ ReceiveFails) => CInv'
<1> SUFFICES ASSUME CInv, ReceiveLine \/ ReceiveFails PROVE CInv'
  OBVIOUS
<1>1. /\ mpc = "read" /\ mpc' \in {"end", "handle", "failed"}
      /\ UNCHANGED <<done, connected, registered, ppc, link, srvNick, nick_number>>
  BY DEF ReceiveLine, ReceiveFails, MainGoto, flags, net
<1>2. /\ inbox' \in Seq(Messages) /\ (Welcomes(inbox') => Welcomes(inbox))
      /\ WelcomeRead' => Welcomes(inbox)
  <2>1. CASE ReceiveLine
    <3>1. inbox \in Seq(Messages) /\ inbox # <<>> /\ Len(inbox) \in Nat /\ Len(inbox) # 0
      BY <2>1, LenProperties, EmptySeq DEF CInv, LineTypes, ReceiveLine
    <3>2. PICK k \in 1 .. Len(inbox) : inbox' = SubSeq(inbox, k + 1, Len(inbox))
      BY <2>1, <3>1 DEF ReceiveLine
    <3>3. WelcomeRead' => Head(inbox)[1] = "001"
      BY <2>1 DEF ReceiveLine, MainGoto, WelcomeRead, Handling
    <3> QED
      BY <3>1, <3>2, <3>3, RestWelcomes
  <2>2. CASE ReceiveFails
    BY <2>2 DEF CInv, LineTypes, ReceiveFails, MainGoto, WelcomeRead, Handling, net
  <2> QED
    BY <2>1, <2>2
<1>3. Known' = Known /\ Online' = Online /\ Between' = Between
  BY <1>1 DEF Known, Online, Between
<1>4. LineTypes' /\ RegisteredHere'
  BY <1>1, <1>2 DEF CInv, LineTypes, RegisteredHere
<1>5. WelcomeIsNew'
  BY <1>2, <1>3 DEF CInv, WelcomeIsNew
<1>6. RegistrationIsNew'
  BY <1>1, <1>3 DEF CInv, RegistrationIsNew
<1>7. QuietBetween'
  <2>1. ~Deaf /\ (Settled => Settled')
    BY <1>1, <1>2, <1>3 DEF Deaf, Settled
  <2>2. Shut => Shut'
    BY <1>1 DEF Shut, ReceiveLine, ReceiveFails, MainGoto, net
  <2> QED
    BY <1>1, <1>3, <2>1, <2>2 DEF CInv, QuietBetween, Quiet
<1>8. LostIsClosed'
  BY <1>1 DEF LostIsClosed
<1> QED
  BY <1>4, <1>5, <1>6, <1>7, <1>8 DEF CInv

(* The way down: close, connected = false, registered = false.             *)
LEMMA LostKeeps == CInv /\ (CloseSocket \/ SignalLost \/ SignalUnregistered) => CInv'
<1>1. CInv /\ CloseSocket => CInv'
  <2> SUFFICES ASSUME CInv, CloseSocket PROVE CInv'
    OBVIOUS
  <2>1. LineTypes' /\ ~Welcomes(inbox') /\ Known' /\ Deaf'
    BY NoWelcome, ConnectionAssumption
       DEF CInv, LineTypes, CloseSocket, MainGoto, Known, Deaf
  <2> QED
    BY <2>1 DEF CInv, CloseSocket, MainGoto, flags, RegisteredHere, WelcomeIsNew,
       RegistrationIsNew, Between, Online, QuietBetween, Quiet, LostIsClosed, Shut
<1>2. CInv /\ SignalLost => CInv'
  <2> SUFFICES ASSUME CInv, SignalLost PROVE CInv'
    OBVIOUS
  <2>1. Deaf' /\ ~WelcomeRead' /\ UNCHANGED <<done, registered, ppc, link, inbox, srvNick, nick_number>>
    BY DEF SignalLost, MainGoto, Deaf, WelcomeRead, Handling, net
  <2> QED
    BY <2>1 DEF CInv, LineTypes, Known, SignalLost, MainGoto, RegisteredHere, WelcomeIsNew,
       RegistrationIsNew, Between, Online, QuietBetween, Quiet, LostIsClosed, Shut
<1>3. CInv /\ SignalUnregistered => CInv'
  <2> SUFFICES ASSUME CInv, SignalUnregistered PROVE CInv'
    OBVIOUS
  <2>1. /\ mpc = "lost2" /\ mpc' = "down" /\ registered' = FALSE
        /\ UNCHANGED <<done, connected, ppc, link, inbox, srvNick, nick_number>>
        /\ ~WelcomeRead' /\ ~WelcomeRead /\ Deaf' = Deaf /\ Known' = Known
    BY DEF SignalUnregistered, MainGoto, WelcomeRead, Handling, Deaf, Known, net
  <2>2. LineTypes' /\ RegisteredHere' /\ WelcomeIsNew' /\ RegistrationIsNew' /\ LostIsClosed'
    BY <2>1 DEF CInv, LineTypes, RegisteredHere, WelcomeIsNew, RegistrationIsNew, Between,
       Online, LostIsClosed, Shut
  <2>3. QuietBetween'
    <3>1. Quiet' = Quiet /\ (Shut => Shut') /\ (Shut => Quiet)
      BY <2>1, ShutIsSettled DEF Quiet, Settled, Shut
    <3>2. /\ Online /\ registered => Shut
          /\ ppc = "wait" => Shut
      BY <2>1 DEF CInv, LostIsClosed
    <3> QED
      BY <2>1, <3>1, <3>2 DEF CInv, QuietBetween, Between, Online
  <2> QED
    BY <2>2, <2>3 DEF CInv
<1> QED
  BY <1>1, <1>2, <1>3

(* registered = true: the welcome was one of this connection.              *)
LEMMA JoinedKeeps == CInv /\ Joined => CInv'
<1> SUFFICES ASSUME CInv, Joined PROVE CInv'
  OBVIOUS
<1>1. /\ mpc = "joining" /\ mpc' = "recv" /\ registered' = TRUE
      /\ UNCHANGED <<done, connected, ppc, link, inbox, srvNick, nick_number>>
      /\ WelcomeRead /\ ~WelcomeRead' /\ ~Deaf /\ Known' = Known
  BY DEF Joined, MainGoto, WelcomeRead, Handling, NoLine, Msg, Deaf, Known, net
<1>2. Known
  BY <1>1 DEF CInv, WelcomeIsNew
<1>3. Quiet <=> done
  BY <1>1 DEF Quiet, Settled
<1>4. ~Shut
  BY <1>1 DEF Shut
<1> QED
  BY <1>1, <1>2, <1>3, <1>4 DEF CInv, LineTypes, Known, RegisteredHere, WelcomeIsNew,
     RegistrationIsNew, Between, Online, QuietBetween, Quiet, LostIsClosed

(* Asking for another nick may bring a welcome, but not where the pinger   *)
(* may turn to a new connection.                                           *)
LEMMA NickInUseKeeps == CInv /\ HandleNickInUse => CInv'
<1> SUFFICES ASSUME CInv, HandleNickInUse PROVE CInv'
  OBVIOUS
<1>1. /\ mpc = "handle" /\ mpc' = "recv" /\ (done => done')
      /\ UNCHANGED <<connected, registered, ppc, link>>
      /\ ~WelcomeRead' /\ ~Deaf
  BY DEF HandleNickInUse, Handling, MainGoto, WelcomeRead, NoLine, Msg, Deaf
<1>2. /\ LineTypes'
      /\ Welcomes(inbox') => Welcomes(inbox) \/ (srvNick = 0 /\ srvNick' # 0 /\ link = "up")
      /\ srvNick # 0 => srvNick' # 0
      /\ link # "up" => UNCHANGED <<inbox, srvNick>>
  BY <1>1, AskFacts DEF HandleNickInUse, CInv, LineTypes
<1>3. (Known => Known') /\ (WelcomeIsNew => WelcomeIsNew') /\ (Settled => Settled')
  BY <1>1, <1>2 DEF Known, WelcomeIsNew, Settled
<1>4. Online' = Online /\ Between' = Between /\ ~Shut
  BY <1>1 DEF Online, Between, Shut
<1> QED
  BY <1>1, <1>2, <1>3, <1>4 DEF CInv, RegisteredHere, Known, RegistrationIsNew,
     QuietBetween, Quiet, LostIsClosed
-----------------------------------------------------------------------------
(* The pinger's steps that only move on.                                   *)
PingerSteps == Top \/ ConnectAbandoned \/ LeaveLoop \/ RegistrationOver

LEMMA PingerKeeps == CInv /\ PingerSteps => CInv'
<1> SUFFICES ASSUME CInv, PingerSteps PROVE CInv'
  OBVIOUS
<1>1. UNCHANGED <<done, connected, registered, mpc, line, link, inbox, srvNick, nick_number>>
  BY DEF PingerSteps, Top, ConnectAbandoned, LeaveLoop, RegistrationOver, flags, net, mainVars
<1>2. \/ ppc \in {"top"} /\ ppc' = "connect"
      \/ ppc = "top" /\ ppc' = "end"
      \/ ppc = "connect" /\ ppc' = "after"
      \/ ppc = "loop" /\ ppc' = "top" /\ (done \/ ~connected \/ ~registered)
      \/ ppc = "unreg" /\ ppc' = "loop" /\ (done \/ ~connected \/ registered)
  BY DEF PingerSteps, Top, ConnectAbandoned, LeaveLoop, RegistrationOver, PingerGoto
<1>3. /\ LineTypes' = LineTypes /\ WelcomeIsNew' = WelcomeIsNew /\ Known' = Known
      /\ Deaf' = Deaf /\ Quiet' = Quiet /\ Shut' = Shut
  BY <1>1 DEF LineTypes, WelcomeIsNew, WelcomeRead, Handling, Known, Quiet, Settled, Deaf, Shut
<1>4. RegisteredHere' /\ RegistrationIsNew' /\ LostIsClosed'
  BY <1>1, <1>2, <1>3 DEF CInv, RegisteredHere, RegistrationIsNew, LostIsClosed, Online, Between
<1>5. QuietBetween'
  BY <1>1, <1>2, <1>3 DEF CInv, QuietBetween, Quiet, Between
<1> QED
  BY <1>3, <1>4, <1>5 DEF CInv

(* A new connection: the old one has nothing under way any more.           *)
LEMMA ConnectKeeps == CInv /\ (ConnectSucceeds \/ ConnectFails) => CInv'
<1> SUFFICES ASSUME CInv, ConnectSucceeds \/ ConnectFails PROVE CInv'
  OBVIOUS
<1>1. /\ ppc = "connect" /\ ~done
      /\ \/ ppc' \in {"after", "thrown"} /\ inbox' = <<>> /\ link' = "closed"
         \/ ppc' = "after" /\ inbox' = <<Msg("NOTICE")>>
      /\ srvNick' = 0
      /\ mpc' = mpc \/ (mpc = "read" /\ mpc' \in {"failed", "hung"})
      /\ UNCHANGED <<done, connected, registered, line, nick_number>>
  BY DEF ConnectSucceeds, ConnectFails, PingerGoto, NewSocket, ReadDisturbed, flags
<1>2. Quiet /\ (~connected \/ ~registered)
  BY <1>1 DEF CInv, QuietBetween, RegistrationIsNew, Between
<1>3. ~WelcomeRead' /\ (Deaf => Deaf')
  BY <1>1, <1>2 DEF Quiet, Settled, Deaf, WelcomeRead, Handling
<1>4. LineTypes' /\ ~Welcomes(inbox')
  <2>1. inbox' = <<>> \/ inbox' = <<Msg("NOTICE")>>
    BY <1>1
  <2>2. inbox' \in Seq(Messages) /\ ~Welcomes(inbox')
    BY <2>1, NoWelcome, Zenon
  <2>3. 0 \in 0 .. NickCount
    BY ConnectionAssumption
  <2> QED
    BY <1>1, <2>2, <2>3 DEF CInv, LineTypes
<1>5. RegisteredHere' /\ WelcomeIsNew' /\ RegistrationIsNew'
  BY <1>1, <1>2, <1>3, <1>4 DEF CInv, RegisteredHere, WelcomeIsNew, RegistrationIsNew, Online
<1>6. QuietBetween' /\ LostIsClosed'
  BY <1>1 DEF QuietBetween, LostIsClosed, Between, Online
<1> QED
  BY <1>4, <1>5, <1>6 DEF CInv

LEMMA LoginKeeps == CInv /\ (AfterConnect \/ ClearRegistered \/ Login) => CInv'
<1>1. CInv /\ AfterConnect => CInv'
  <2> SUFFICES ASSUME CInv, AfterConnect PROVE CInv'
    OBVIOUS
  <2>1. /\ ppc = "after"
        /\ \/ done' /\ ppc' = "top" /\ (connected' <=> connected)
           \/ connected' /\ ppc' = "setreg" /\ done' = done
        /\ UNCHANGED <<registered, mpc, line, link, inbox, srvNick, nick_number>>
    <3>1. CASE Retries = 0
      BY <3>1 DEF AfterConnect, PingerGoto, net, mainVars
    <3>2. CASE Retries # 0
      <4>1. done' = done /\ connected' = (connected \/ ~done)
        BY <3>2 DEF AfterConnect
      <4>2. CASE done
        BY <3>2, <4>2 DEF AfterConnect, PingerGoto, net, mainVars
      <4>3. CASE ~done
        <5>1. connected'
          BY <4>1, <4>3
        <5> QED
          BY <3>2, <4>3, <5>1 DEF AfterConnect, PingerGoto, net, mainVars
      <4> QED
        BY <4>2, <4>3
    <3> QED
      BY <3>1, <3>2
  <2> QED
    BY <2>1 DEF CInv, LineTypes, RegisteredHere, WelcomeIsNew, WelcomeRead, Handling, Known,
       RegistrationIsNew, QuietBetween, Quiet, LostIsClosed, Online, Between, Shut
<1>2. CInv /\ ClearRegistered => CInv'
  <2> SUFFICES ASSUME CInv, ClearRegistered PROVE CInv'
    OBVIOUS
  <2>1. /\ ppc = "setreg" /\ ppc' = "login" /\ registered' = FALSE
        /\ UNCHANGED <<done, connected, mpc, line, link, inbox, srvNick, nick_number>>
    BY DEF ClearRegistered, PingerGoto, net, mainVars
  <2> QED
    BY <2>1 DEF CInv, LineTypes, RegisteredHere, WelcomeIsNew, WelcomeRead, Handling, Known,
       RegistrationIsNew, QuietBetween, Deaf, LostIsClosed, Online, Between, Shut
<1>3. CInv /\ Login => CInv'
  <2> SUFFICES ASSUME CInv, Login PROVE CInv'
    OBVIOUS
  <2>1. /\ ppc = "login" /\ ppc' = "unreg"
        /\ UNCHANGED <<done, connected, registered, mpc, line, link>>
    BY DEF Login, PingerGoto, flags, mainVars
  <2>2. /\ LineTypes'
        /\ Welcomes(inbox') => Welcomes(inbox) \/ (srvNick = 0 /\ srvNick' # 0 /\ link = "up")
        /\ srvNick # 0 => srvNick' # 0
        /\ link # "up" => UNCHANGED <<inbox, srvNick>>
    BY <2>1, AskFacts DEF Login, CInv
  <2>3. (Known => Known') /\ WelcomeRead' = WelcomeRead /\ Deaf' = Deaf
    BY <2>1, <2>2 DEF Known, WelcomeRead, Handling, Deaf
  <2>4. WelcomeIsNew'
    BY <2>1, <2>2, <2>3 DEF CInv, WelcomeIsNew, Known
  <2> QED
    BY <2>1, <2>2, <2>3, <2>4 DEF CInv, RegisteredHere, Known, RegistrationIsNew,
       QuietBetween, LostIsClosed, Online, Between, Shut
<1> QED
  BY <1>1, <1>2, <1>3

LEMMA PingKeeps == CInv /\ SendPing => CInv'
<1> SUFFICES ASSUME CInv, SendPing PROVE CInv'
  OBVIOUS
<1>1. /\ ppc = "loop" /\ ppc' = "wait" /\ ~done /\ connected /\ registered
      /\ UNCHANGED <<done, connected, registered, mpc, link, srvNick, nick_number>>
  BY DEF SendPing, PingerGoto, flags
<1>2. WelcomeRead' = WelcomeRead
  BY DEF SendPing, WelcomeRead, Handling, Msg
<1>3. /\ inbox' \in Seq(Messages) /\ (Welcomes(inbox') => Welcomes(inbox))
      /\ link # "up" /\ inbox = <<>> => inbox' = <<>>
  <2>1. Msg("PONG") \in Messages /\ Msg("PONG")[1] # "001"
    BY ConnectionAssumption DEF Msg, Messages, Commands
  <2>2. inbox \in Seq(Messages)
    BY DEF CInv, LineTypes
  <2> QED
    BY <2>1, <2>2, AgedWelcomes, AppendWelcomes DEF SendPing
<1>4. mpc \notin {"await", "down"}
  BY <1>1 DEF CInv, RegistrationIsNew
<1>5. LineTypes' /\ RegisteredHere' /\ WelcomeIsNew' /\ RegistrationIsNew'
  BY <1>1, <1>2, <1>3 DEF CInv, LineTypes, RegisteredHere, WelcomeIsNew, Known,
     RegistrationIsNew, Online, Between
<1>6. QuietBetween' /\ LostIsClosed'
  BY <1>1, <1>3, <1>4 DEF CInv, QuietBetween, LostIsClosed, Online, Between, Shut
<1> QED
  BY <1>5, <1>6 DEF CInv

(* The verdict on a ping: main has caught up, so nothing is under way.     *)
LEMMA JudgeKeeps == ASSUME Prompt PROVE CInv /\ Judge => CInv'
<1> SUFFICES ASSUME CInv, Judge PROVE CInv'
  OBVIOUS
<1>1. /\ ppc = "wait" /\ ppc' = "check" /\ (MainCaughtUp \/ done)
      /\ UNCHANGED <<done, registered, mpc, line, link, inbox, srvNick, nick_number>>
  BY DEF Judge, PingerGoto, net, mainVars
<1>2. /\ Known' = Known /\ WelcomeRead' = WelcomeRead /\ Settled' = Settled
  BY <1>1 DEF Known, WelcomeRead, Handling, Settled
<1>3. Quiet'
  <2>1. CASE done
    BY <1>1, <2>1 DEF Quiet
  <2>2. CASE ~done /\ mpc \in {"end", "dead", "hung"}
    BY <1>1, <2>2 DEF Quiet, Deaf
  <2>3. mpc # "await"
    BY <1>1 DEF CInv, RegistrationIsNew
  <2>4. CASE ~done /\ mpc \in {"lost", "lost2", "down"}
    <3>1. Shut
      BY <1>1, <2>4 DEF CInv, LostIsClosed
    <3> QED
      BY <1>2, <3>1, ShutIsSettled DEF Quiet
  <2>5. CASE mpc = "failed"
    BY <1>1, <2>5 DEF Quiet, Deaf
  <2>6. CASE ~done /\ mpc \notin {"handle", "joining", "end", "dead", "hung", "failed", "lost",
                                 "lost2", "await", "down"} /\ inbox = <<>>
    <3>1. registered \/ Shut
      BY <1>1, <2>6 DEF CInv, QuietBetween, Deaf
    <3>2. Known
      BY <1>1, <3>1 DEF CInv, RegistrationIsNew, Online, Shut, Known
    <3>3. Settled
      BY <2>6, <3>2, NoWelcome DEF Settled, WelcomeRead, Handling
    <3> QED
      BY <1>2, <3>3 DEF Quiet
  <2> QED
    BY <1>1, <2>1, <2>2, <2>3, <2>4, <2>5, <2>6 DEF MainCaughtUp
<1>4. LineTypes' /\ WelcomeIsNew' /\ RegistrationIsNew'
  BY <1>1, <1>2 DEF CInv, LineTypes, WelcomeIsNew, RegistrationIsNew, Online, Between
<1>5. RegisteredHere'
  BY <1>1 DEF CInv, RegistrationIsNew, Online, Known, RegisteredHere
<1>6. QuietBetween' /\ LostIsClosed'
  BY <1>1, <1>3 DEF CInv, QuietBetween, LostIsClosed, Online, Between, Shut
<1> QED
  BY <1>4, <1>5, <1>6 DEF CInv

LEMMA RegainKeeps == CInv /\ (CheckTimeout \/ RegainReset \/ RegainAsk) => CInv'
<1> SUFFICES ASSUME CInv, CheckTimeout \/ RegainReset \/ RegainAsk PROVE CInv'
  OBVIOUS
<1>1. /\ ppc \in {"check", "regain", "regain2"} /\ ppc' \in {"regain", "regain2", "loop"}
      /\ UNCHANGED <<done, connected, mpc, line, link>>
      /\ registered' => registered
  BY DEF CheckTimeout, RegainReset, RegainAsk, PingerGoto, flags, net, mainVars
<1>2. /\ LineTypes'
      /\ Welcomes(inbox') => Welcomes(inbox) \/ (srvNick = 0 /\ srvNick' # 0 /\ link = "up")
      /\ srvNick # 0 => srvNick' # 0
      /\ link # "up" => UNCHANGED <<inbox, srvNick>>
  <2>1. CASE RegainAsk
    BY <1>1, <2>1, AskFacts DEF RegainAsk, CInv
  <2>2. CASE CheckTimeout \/ RegainReset
    BY <2>2 DEF CheckTimeout, RegainReset, net, CInv, LineTypes
  <2> QED
    BY <2>1, <2>2
<1>3. (Known => Known') /\ WelcomeRead' = WelcomeRead /\ Deaf' = Deaf
  BY <1>1, <1>2 DEF Known, WelcomeRead, Handling, Deaf
<1>4. WelcomeIsNew' /\ (Settled => Settled')
  BY <1>1, <1>2, <1>3 DEF CInv, WelcomeIsNew, Known, Settled
<1>5. RegisteredHere' /\ RegistrationIsNew'
  BY <1>1, <1>3 DEF CInv, RegisteredHere, RegistrationIsNew, Known, Online, Between
<1>6. QuietBetween'
  BY <1>1, <1>3, <1>4 DEF CInv, QuietBetween, Quiet, Between
<1>7. LostIsClosed'
  BY <1>1, <1>2 DEF CInv, LostIsClosed, Online, Shut
<1> QED
  BY <1>2, <1>4, <1>5, <1>6, <1>7 DEF CInv
-----------------------------------------------------------------------------
LEMMA WorldKeeps == CInv /\ (ServerPing \/ Drop \/ Die \/ Crash) => CInv'
<1>1. CInv /\ ServerPing => CInv'
  <2> SUFFICES ASSUME CInv, ServerPing PROVE CInv'
    OBVIOUS
  <2>1. Msg("PING") \in Messages /\ Msg("PING")[1] # "001"
    BY ConnectionAssumption DEF Msg, Messages, Commands
  <2>2. inbox' \in Seq(Messages) /\ (Welcomes(inbox') => Welcomes(inbox))
    BY <2>1, AppendWelcomes DEF CInv, LineTypes, ServerPing, Answers
  <2>3. /\ link = "up"
        /\ UNCHANGED <<done, connected, registered, mpc, line, ppc, link, srvNick, nick_number>>
    BY DEF ServerPing, flags, mainVars
  <2> QED
    BY <2>2, <2>3 DEF CInv, LineTypes, RegisteredHere, WelcomeIsNew, WelcomeRead, Handling,
       Known, RegistrationIsNew, QuietBetween, Quiet, Settled, Deaf, LostIsClosed, Online,
       Between, Shut
<1>2. CInv /\ Drop => CInv'
  <2> SUFFICES ASSUME CInv, Drop PROVE CInv'
    OBVIOUS
  <2>1. /\ link = "up" /\ link' \in {"eof", "silent"}
        /\ UNCHANGED <<done, connected, registered, mpc, line, ppc, inbox, srvNick, nick_number>>
    BY DEF Drop, flags, mainVars
  <2> QED
    BY <2>1 DEF CInv, LineTypes, RegisteredHere, WelcomeIsNew, WelcomeRead, Handling,
       Known, RegistrationIsNew, QuietBetween, Quiet, Settled, Deaf, LostIsClosed, Online,
       Between, Shut
<1>3. CInv /\ Die => CInv'
  <2> SUFFICES ASSUME CInv, Die PROVE CInv'
    OBVIOUS
  <2>1. /\ done'
        /\ UNCHANGED <<connected, registered, mpc, line, ppc, link, inbox, srvNick, nick_number>>
    BY DEF Die, net, mainVars
  <2> QED
    BY <2>1 DEF CInv, LineTypes, RegisteredHere, WelcomeIsNew, WelcomeRead, Handling,
       Known, RegistrationIsNew, QuietBetween, Quiet, LostIsClosed, Online, Between, Shut
<1>4. CInv /\ Crash => CInv'
  BY DEF Crash, flags, net, CInv, LineTypes, RegisteredHere, WelcomeIsNew, WelcomeRead,
     Handling, Known, RegistrationIsNew, QuietBetween, LostIsClosed, Online, Between, Shut
<1> QED
  BY <1>1, <1>2, <1>3, <1>4

LEMMA CKept == ASSUME Prompt PROVE CInv /\ [Next]_vars => CInv'
<1> SUFFICES ASSUME CInv, [Next]_vars PROVE CInv'
  OBVIOUS
<1>1. CASE UNCHANGED vars
  <2>1. UNCHANGED <<done, connected, registered, mpc, line, ppc, link, inbox, srvNick, nick_number>>
    BY <1>1 DEF vars, flags, net, mainVars
  <2> QED
    BY <2>1 DEF CInv, LineTypes, RegisteredHere, WelcomeIsNew, WelcomeRead, Handling,
       Known, RegistrationIsNew, QuietBetween, Quiet, Settled, Deaf, LostIsClosed, Online,
       Between, Shut
<1>2. CASE Main
  BY <1>2, MainKeeps, ReceiveKeeps, LostKeeps, JoinedKeeps, NickInUseKeeps DEF Main, MainSteps
<1>3. CASE Pinger
  BY <1>3, PingerKeeps, ConnectKeeps, LoginKeeps, PingKeeps, JudgeKeeps, RegainKeeps
     DEF Pinger, PingerSteps
<1>4. CASE ServerPing \/ Drop \/ Die \/ Crash
  BY <1>4, WorldKeeps
<1> QED
  BY <1>1, <1>2, <1>3, <1>4 DEF Next

(* ircbot.cpp: registered and connected are true only of the connection    *)
(* that the server has welcomed the bot on, whatever the order in which    *)
(* main and the pinger store their flags.                                  *)
THEOREM RegisteredHereCorrect == ASSUME Prompt PROVE Spec => []RegisteredHere
<1>1. CInv => RegisteredHere
  BY DEF CInv
<1> QED
  BY CInitially, CKept, <1>1, PTL DEF Spec
-----------------------------------------------------------------------------
(* The bot's nick.  What the server says of it is a chain: each change     *)
(* names the nick before, the last is the one the server knows, and the    *)
(* first goes on from where main will be with the line it handles (After), *)
(* unless there is a welcome to come, which starts a new chain.            *)

TellsNick(m) == m[1] \in {"001", "NICK", "BARENICK"}
Renames(m) == m[1] \in {"NICK", "BARENICK"}

FirstTold(s, i) == TellsNick(s[i]) /\ \A k \in 1 .. i - 1 : ~TellsNick(s[k])
NextTold(s, i, j) ==
    /\ i < j /\ TellsNick(s[i]) /\ TellsNick(s[j])
    /\ \A k \in i + 1 .. j - 1 : ~TellsNick(s[k])
LastTold(s, i) == TellsNick(s[i]) /\ \A k \in i + 1 .. Len(s) : ~TellsNick(s[k])

(* The lines s lead from nick a to nick b.                                 *)
Leads(s, a, b) ==
    /\ \A i \in 1 .. Len(s) : FirstTold(s, i) /\ Renames(s[i]) => s[i][2] = a
    /\ \A i, j \in 1 .. Len(s) : NextTold(s, i, j) /\ Renames(s[j]) => s[j][2] = s[i][3]
    /\ \A i \in 1 .. Len(s) : LastTold(s, i) => b = s[i][3]
    /\ (\A i \in 1 .. Len(s) : ~TellsNick(s[i])) => a = b

(* n is the bot's nick when the line is handled, if it can be read off it. *)
After(n) ==
    IF Handling("001") THEN n = line[3]
    ELSE IF Handling("NICK") \/ Handling("BARENICK") THEN line[2] = nick /\ n = line[3]
    ELSE n = nick

Told ==
    \E a \in 0 .. NickCount :
        Leads(inbox, a, srvNick) /\ (After(a) \/ Welcomes(inbox))

Hears == missed \/ (srvNick # 0 /\ mpc \notin {"end", "dead"} => Told)

Unwelcome == srvNick = 0 => \A k \in 1 .. Len(inbox) : ~TellsNick(inbox[k])

(* An old registered outlives its connection only until main, on its way   *)
(* down, clears it.                                                        *)
Late == mpc \in {"failed", "lost", "lost2", "hung", "end", "dead"}

FlagIsOld ==
    /\ registered /\ ~connected /\ (Between \/ ppc \in {"regain", "regain2", "loop"})
          => done \/ Late
    /\ registered /\ ppc = "after" => done \/ Known \/ Late
    /\ registered /\ ppc = "setreg" => Known \/ Late
    /\ ppc = "dead" => mpc = "dead"

NInv == CInv /\ FlagIsOld /\ Unwelcome /\ Hears
-----------------------------------------------------------------------------
LEMMA PlainLeads ==
    ASSUME NEW s, NEW a, \A k \in 1 .. Len(s) : ~TellsNick(s[k])
    PROVE  Leads(s, a, a)
BY DEF Leads, FirstTold, NextTold, LastTold

LEMMA AppendLeads ==
    ASSUME NEW s \in Seq(Messages), NEW m \in Messages, NEW a, NEW b, Leads(s, a, b),
           Renames(m) => m[2] = b
    PROVE  Leads(Append(s, m), a, IF TellsNick(m) THEN m[3] ELSE b)
<1> DEFINE t == Append(s, m)
           c == IF TellsNick(m) THEN m[3] ELSE b
           n == Len(s)
<1>1. /\ n \in Nat /\ Len(t) = n + 1 /\ t[n + 1] = m
      /\ \A k \in 1 .. n : t[k] = s[k]
  BY AppendProperties, LenProperties
<1> HIDE DEF t
<1>2. \A i \in 1 .. n : FirstTold(t, i) => FirstTold(s, i)
  BY <1>1 DEF FirstTold
<1>3. \A i, j \in 1 .. n : NextTold(t, i, j) => NextTold(s, i, j)
  BY <1>1 DEF NextTold
<1>4. \A i \in 1 .. n : LastTold(t, i) => LastTold(s, i) /\ ~TellsNick(m)
  <2> SUFFICES ASSUME NEW i \in 1 .. n, LastTold(t, i)
               PROVE  LastTold(s, i) /\ ~TellsNick(m)
    OBVIOUS
  <2>1. n + 1 \in i + 1 .. Len(t)
    BY <1>1
  <2> QED
    BY <1>1, <2>1 DEF LastTold
<1>5. FirstTold(t, n + 1) => \A i \in 1 .. n : ~TellsNick(s[i])
  BY <1>1 DEF FirstTold
<1>6. \A i \in 1 .. n : NextTold(t, i, n + 1) => LastTold(s, i)
  BY <1>1 DEF NextTold, LastTold
<1>7. \A i \in 1 .. n + 1 : i \in 1 .. n \/ i = n + 1
  BY <1>1
<1>8. \A i \in 1 .. n + 1 : FirstTold(t, i) /\ Renames(t[i]) => t[i][2] = a
  BY <1>1, <1>2, <1>5, <1>7 DEF Leads
<1>9. \A i, j \in 1 .. n + 1 : NextTold(t, i, j) /\ Renames(t[j]) => t[j][2] = t[i][3]
  <2> SUFFICES ASSUME NEW i \in 1 .. n + 1, NEW j \in 1 .. n + 1, NextTold(t, i, j),
                      Renames(t[j])
               PROVE  t[j][2] = t[i][3]
    OBVIOUS
  <2>1. i \in 1 .. n
    BY <1>1 DEF NextTold
  <2>2. CASE j \in 1 .. n
    BY <2>1, <2>2, <1>1, <1>3 DEF Leads
  <2>3. CASE j = n + 1
    BY <2>1, <2>3, <1>1, <1>6 DEF Leads
  <2> QED
    BY <2>2, <2>3, <1>7
<1>10. \A i \in 1 .. n + 1 : LastTold(t, i) => c = t[i][3]
  <2> SUFFICES ASSUME NEW i \in 1 .. n + 1, LastTold(t, i) PROVE c = t[i][3]
    OBVIOUS
  <2>1. CASE i \in 1 .. n
    BY <2>1, <1>1, <1>4 DEF Leads
  <2>2. CASE i = n + 1
    BY <2>2, <1>1 DEF LastTold
  <2> QED
    BY <2>1, <2>2, <1>7
<1>11. (\A i \in 1 .. n + 1 : ~TellsNick(t[i])) => a = c
  <2> SUFFICES ASSUME \A i \in 1 .. n + 1 : ~TellsNick(t[i]) PROVE a = c
    OBVIOUS
  <2>1. n + 1 \in 1 .. n + 1 /\ \A i \in 1 .. n : i \in 1 .. n + 1
    BY <1>1
  <2>2. ~TellsNick(m) /\ \A i \in 1 .. n : ~TellsNick(s[i])
    BY <2>1, <1>1
  <2> QED
    BY <2>2 DEF Leads
<1> HIDE DEF c
<1>12. Leads(t, a, c)
  BY <1>1, <1>8, <1>9, <1>10, <1>11 DEF Leads
<1> QED
  BY <1>12 DEF t, c

(* What is left of the lines are lines.                                    *)
LEMMA RestElements ==
    ASSUME NEW s \in Seq(Messages), NEW k \in 1 .. Len(s)
    PROVE  LET t == SubSeq(s, k + 1, Len(s))
           IN  /\ t \in Seq(Messages) /\ Len(t) = Len(s) - k /\ Len(t) \in Nat
               /\ \A i \in 1 .. Len(t) : k + i \in 1 .. Len(s) /\ t[i] = s[k + i]
<1> DEFINE t == SubSeq(s, k + 1, Len(s))
           n == Len(s) - k
<1>1. Len(s) \in Nat /\ n \in Nat
  BY LenProperties
<1>2. t \in Seq(Messages) /\ Len(t) = n /\ \A i \in 1 .. n : t[i] = s[k + i]
  BY <1>1
<1>3. \A i \in 1 .. n : k + i \in 1 .. Len(s)
  BY <1>1
<1> QED
  BY <1>1, <1>2, <1>3

(* A read of k lines, of which those after the first tell no nick.         *)
LEMMA RestLeads ==
    ASSUME NEW s \in Seq(Messages), NEW k \in 1 .. Len(s), NEW a \in 0 .. NickCount, NEW b,
           Leads(s, a, b), \A i \in 2 .. k : ~TellsNick(s[i])
    PROVE  LET t == SubSeq(s, k + 1, Len(s))
               c == IF TellsNick(s[1]) THEN s[1][3] ELSE a
           IN  /\ c \in 0 .. NickCount /\ Leads(t, c, b)
               /\ Renames(s[1]) => s[1][2] = a
               /\ Welcomes(s) => s[1][1] = "001" \/ Welcomes(t)
<1> DEFINE t == SubSeq(s, k + 1, Len(s))
           c == IF TellsNick(s[1]) THEN s[1][3] ELSE a
           n == Len(s) - k
<1>1. Len(s) \in Nat /\ k \in Nat /\ k >= 1 /\ n \in Nat /\ Len(s) = n + k
  BY LenProperties
<1>2. Len(t) = n /\ \A i \in 1 .. n : t[i] = s[k + i]
  BY RestElements
<1>3. 1 \in 1 .. Len(s) /\ s[1] \in Messages
  BY <1>1, ElementOfSeq
<1>4. c \in 0 .. NickCount
  BY <1>3 DEF Messages
<1> HIDE DEF t, n
<1>5. \A i \in 1 .. n : k + i \in 1 .. Len(s) /\ k + i # 1
  BY <1>1
<1>6. \A x \in 1 .. Len(s) : x = 1 \/ x \in 2 .. k \/ (x - k \in 1 .. n /\ k + (x - k) = x)
  BY <1>1
<1>7. Renames(s[1]) => s[1][2] = a
  <2>1. TellsNick(s[1]) => FirstTold(s, 1)
    BY DEF FirstTold
  <2> QED
    BY <1>3, <2>1 DEF Leads, Renames, TellsNick
<1>8. Welcomes(s) => s[1][1] = "001" \/ Welcomes(t)
  <2> SUFFICES ASSUME NEW i \in 1 .. Len(s), s[i][1] = "001", i # 1 PROVE Welcomes(t)
    BY DEF Welcomes
  <2>1. i - k \in 1 .. n /\ k + (i - k) = i
    BY <1>6 DEF TellsNick
  <2>2. t[i - k][1] = "001"
    BY <2>1, <1>2
  <2> QED
    BY <2>1, <2>2, <1>2 DEF Welcomes
<1>9. \A i \in 1 .. n : FirstTold(t, i) =>
         IF TellsNick(s[1]) THEN NextTold(s, 1, k + i) ELSE FirstTold(s, k + i)
  <2> SUFFICES ASSUME NEW i \in 1 .. n, FirstTold(t, i)
               PROVE  IF TellsNick(s[1]) THEN NextTold(s, 1, k + i) ELSE FirstTold(s, k + i)
    OBVIOUS
  <2>1. TellsNick(s[k + i]) /\ 1 < k + i /\ k + i \in 1 .. Len(s)
    BY <1>1, <1>2, <1>5 DEF FirstTold
  <2>2. \A x \in 2 .. k + i - 1 : ~TellsNick(s[x])
    <3> SUFFICES ASSUME NEW x \in 2 .. k + i - 1 PROVE ~TellsNick(s[x])
      OBVIOUS
    <3>1. CASE x \in 2 .. k
      BY <3>1
    <3>2. CASE x \notin 2 .. k
      <4>1. PICK y \in 1 .. i - 1 : x = k + y
        <5>1. x - k \in 1 .. i - 1 /\ x = k + (x - k)
          BY <1>1, <3>2
        <5> QED
          BY <5>1
      <4>2. y \in 1 .. n /\ t[y] = s[k + y]
        BY <1>1, <1>2
      <4> QED
        BY <4>1, <4>2 DEF FirstTold
    <3> QED
      BY <3>1, <3>2
  <2>3. CASE TellsNick(s[1])
    BY <2>1, <2>2, <2>3 DEF NextTold
  <2>4. CASE ~TellsNick(s[1])
    <3>1. \A x \in 1 .. k + i - 1 : x = 1 \/ x \in 2 .. k + i - 1
      BY <1>1
    <3> QED
      BY <2>1, <2>2, <2>4, <3>1 DEF FirstTold
  <2> QED
    BY <2>3, <2>4
<1>10. \A i, j \in 1 .. n : NextTold(t, i, j) => NextTold(s, k + i, k + j)
  <2> SUFFICES ASSUME NEW i \in 1 .. n, NEW j \in 1 .. n, NextTold(t, i, j)
               PROVE  NextTold(s, k + i, k + j)
    OBVIOUS
  <2>1. k + i < k + j /\ TellsNick(s[k + i]) /\ TellsNick(s[k + j])
    BY <1>1, <1>2 DEF NextTold
  <2>2. ASSUME NEW x \in k + i + 1 .. k + j - 1 PROVE ~TellsNick(s[x])
    <3>1. PICK y \in i + 1 .. j - 1 : x = k + y
      <4>1. x - k \in i + 1 .. j - 1 /\ x = k + (x - k)
        BY <1>1
      <4> QED
        BY <4>1
    <3>2. y \in 1 .. n /\ t[y] = s[k + y]
      BY <1>1, <1>2
    <3> QED
      BY <3>1, <3>2 DEF NextTold
  <2> QED
    BY <2>1, <2>2 DEF NextTold
<1>11. \A i \in 1 .. n : LastTold(t, i) => LastTold(s, k + i)
  <2> SUFFICES ASSUME NEW i \in 1 .. n, LastTold(t, i) PROVE LastTold(s, k + i)
    OBVIOUS
  <2>1. TellsNick(s[k + i])
    BY <1>2 DEF LastTold
  <2>2. ASSUME NEW x \in k + i + 1 .. Len(s) PROVE ~TellsNick(s[x])
    <3>1. PICK y \in i + 1 .. n : x = k + y
      <4>1. x - k \in i + 1 .. n /\ x = k + (x - k)
        BY <1>1
      <4> QED
        BY <4>1
    <3>2. y \in 1 .. n /\ t[y] = s[k + y]
      BY <1>1, <1>2
    <3> QED
      BY <3>1, <3>2, <1>2 DEF LastTold
  <2> QED
    BY <2>1, <2>2 DEF LastTold
<1>12. (\A i \in 1 .. n : ~TellsNick(t[i])) => c = b
  <2> SUFFICES ASSUME \A i \in 1 .. n : ~TellsNick(t[i]) PROVE c = b
    OBVIOUS
  <2>1. \A x \in 2 .. Len(s) : ~TellsNick(s[x])
    <3> SUFFICES ASSUME NEW x \in 2 .. Len(s) PROVE ~TellsNick(s[x])
      OBVIOUS
    <3>1. CASE x \in 2 .. k
      BY <3>1
    <3>2. CASE x \notin 2 .. k
      <4>1. PICK y \in 1 .. n : x = k + y
        <5>1. x - k \in 1 .. n /\ x = k + (x - k)
          BY <1>1, <3>2
        <5> QED
          BY <5>1
      <4> QED
        BY <4>1, <1>2
    <3> QED
      BY <3>1, <3>2
  <2>2. CASE TellsNick(s[1])
    <3>1. LastTold(s, 1)
      BY <2>1, <2>2 DEF LastTold
    <3> QED
      BY <1>3, <2>2, <3>1 DEF Leads
  <2>3. CASE ~TellsNick(s[1])
    <3>1. \A x \in 1 .. Len(s) : x = 1 \/ x \in 2 .. Len(s)
      BY <1>1
    <3>2. \A x \in 1 .. Len(s) : ~TellsNick(s[x])
      BY <2>1, <2>3, <3>1
    <3> QED
      BY <2>3, <3>2 DEF Leads
  <2> QED
    BY <2>2, <2>3
<1>13. \A i \in 1 .. n : FirstTold(t, i) /\ Renames(t[i]) => t[i][2] = c
  <2> SUFFICES ASSUME NEW i \in 1 .. n, FirstTold(t, i), Renames(t[i]) PROVE t[i][2] = c
    OBVIOUS
  <2>1. k + i \in 1 .. Len(s) /\ t[i] = s[k + i]
    BY <1>2, <1>5
  <2>2. PICK x \in 1 .. Len(s) : x = k + i
    BY <2>1
  <2>3. IF TellsNick(s[1]) THEN NextTold(s, 1, x) ELSE FirstTold(s, x)
    BY <1>9, <2>2
  <2> QED
    BY <2>1, <2>2, <2>3, <1>3 DEF Leads
<1>14. \A i, j \in 1 .. n : NextTold(t, i, j) /\ Renames(t[j]) => t[j][2] = t[i][3]
  <2> SUFFICES ASSUME NEW i \in 1 .. n, NEW j \in 1 .. n, NextTold(t, i, j), Renames(t[j])
               PROVE  t[j][2] = t[i][3]
    OBVIOUS
  <2>1. PICK x, y \in 1 .. Len(s) : x = k + i /\ y = k + j
    BY <1>5
  <2>2. NextTold(s, x, y) /\ t[i] = s[x] /\ t[j] = s[y]
    BY <1>2, <1>10, <2>1
  <2> QED
    BY <2>2 DEF Leads
<1>15. \A i \in 1 .. n : LastTold(t, i) => b = t[i][3]
  <2> SUFFICES ASSUME NEW i \in 1 .. n, LastTold(t, i) PROVE b = t[i][3]
    OBVIOUS
  <2>1. PICK x \in 1 .. Len(s) : x = k + i
    BY <1>5
  <2>2. LastTold(s, x) /\ t[i] = s[x]
    BY <1>2, <1>11, <2>1
  <2> QED
    BY <2>2 DEF Leads
<1> HIDE DEF c
<1>16. Leads(t, c, b)
  BY <1>2, <1>12, <1>13, <1>14, <1>15 DEF Leads
<1> QED
  BY <1>4, <1>7, <1>8, <1>16 DEF t, c

LEMMA AgedLeads ==
    ASSUME NEW s \in Seq(Messages)
    PROVE  /\ Welcomes(s) => Welcomes(Aged(s))
           /\ \A a, b : Leads(s, a, b) => Leads(Aged(s), a, b)
           /\ Len(Aged(s)) = Len(s)
           /\ \A k \in 1 .. Len(s) : TellsNick(Aged(s)[k]) => TellsNick(s[k])
<1>1. Len(s) \in Nat /\ DOMAIN s = 1 .. Len(s)
  BY LenProperties
<1>2. /\ Aged(s) \in Seq(Messages) /\ DOMAIN Aged(s) = 1 .. Len(s)
      /\ \A k \in 1 .. Len(s) :
            Aged(s)[k] = s[k] \/ (s[k][1] = "PONG" /\ Aged(s)[k][1] = "OLDPONG")
  BY <1>1, AgedWelcomes DEF Aged, Msg
<1>3. Len(Aged(s)) = Len(s)
  BY <1>1, <1>2, LenProperties
<1>4. \A k \in 1 .. Len(s) :
         /\ TellsNick(Aged(s)[k]) <=> TellsNick(s[k])
         /\ TellsNick(s[k]) => Aged(s)[k] = s[k]
  BY <1>2 DEF TellsNick
<1>5. \A i, j \in 1 .. Len(s) :
         /\ FirstTold(Aged(s), i) => FirstTold(s, i)
         /\ NextTold(Aged(s), i, j) => NextTold(s, i, j)
         /\ LastTold(Aged(s), i) => LastTold(s, i)
  BY <1>1, <1>3, <1>4 DEF FirstTold, NextTold, LastTold
<1>6. \A i, j \in 1 .. Len(s) :
         FirstTold(Aged(s), i) \/ NextTold(Aged(s), i, j) \/ LastTold(Aged(s), i)
         => Aged(s)[i] = s[i]
  BY <1>4 DEF FirstTold, NextTold, LastTold
<1>7. \A i, j \in 1 .. Len(s) : NextTold(Aged(s), i, j) => Aged(s)[j] = s[j]
  BY <1>4 DEF NextTold
<1>8. \A a, b : Leads(s, a, b) => Leads(Aged(s), a, b)
  BY <1>3, <1>4, <1>5, <1>6, <1>7 DEF Leads
<1>9. Welcomes(s) => Welcomes(Aged(s))
  BY <1>3, <1>4 DEF Welcomes, TellsNick
<1> QED
  BY <1>3, <1>4, <1>8, <1>9
-----------------------------------------------------------------------------
(* Steps that neither read nor send: main may go on with its line.         *)
LEMMA HearsOn ==
    ASSUME NInv, UNCHANGED <<inbox, srvNick>>, missed => missed',
           \A a \in 0 .. NickCount : After(a) => After(a)',
           mpc \in {"end", "dead"} => mpc' \in {"end", "dead"}
    PROVE  Unwelcome' /\ Hears'
BY DEF NInv, Unwelcome, Hears, Told

(* A plain line more, and what is under way ages or not.                   *)
LEMMA HearsMore ==
    ASSUME NInv, NEW s \in Seq(Messages), s = inbox \/ s = Aged(inbox), NEW m \in Messages,
           ~TellsNick(m), inbox' = s \/ inbox' = Append(s, m), UNCHANGED <<srvNick, mpc, missed>>,
           \A a \in 0 .. NickCount : After(a) => After(a)'
    PROVE  Unwelcome' /\ Hears'
<1>1. inbox \in Seq(Messages)
  BY DEF NInv, CInv, LineTypes
<1>2. /\ Welcomes(inbox) => Welcomes(s)
      /\ \A a, b : Leads(inbox, a, b) => Leads(s, a, b)
      /\ Len(s) = Len(inbox)
      /\ \A k \in 1 .. Len(s) : TellsNick(s[k]) => TellsNick(inbox[k])
  BY <1>1, AgedLeads
<1>3. /\ Welcomes(s) => Welcomes(inbox')
      /\ \A a, b : Leads(s, a, b) => Leads(inbox', a, b)
  <2>1. ~Renames(m)
    BY DEF TellsNick, Renames
  <2> QED
    BY <2>1, AppendWelcomes, AppendLeads
<1>4. Hears'
  BY <1>2, <1>3 DEF NInv, Hears, Told
<1>5. Unwelcome'
  <2>1. CASE inbox' = s
    BY <2>1, <1>2 DEF NInv, Unwelcome
  <2>2. CASE inbox' = Append(s, m)
    <3>1. /\ Len(inbox') = Len(s) + 1 /\ inbox'[Len(s) + 1] = m /\ Len(s) \in Nat
          /\ \A k \in 1 .. Len(s) : inbox'[k] = s[k]
      BY <2>2, AppendProperties, LenProperties
    <3>2. \A k \in 1 .. Len(s) + 1 : k \in 1 .. Len(s) \/ k = Len(s) + 1
      BY <3>1
    <3> QED
      BY <3>1, <3>2, <1>2 DEF NInv, Unwelcome
  <2> QED
    BY <2>1, <2>2
<1> QED
  BY <1>4, <1>5

(* A request for a nick: the answer goes on from the nick the server knows. *)
LEMMA HearsAsk ==
    ASSUME NInv, TryNextNick, UNCHANGED <<nick, missed>>, mpc \notin {"end", "dead"},
           \A a \in 0 .. NickCount : After(a) => After(a)'
    PROVE  Unwelcome' /\ Hears'
<1>0. inbox \in Seq(Messages) /\ srvNick \in 0 .. NickCount /\ nick_number \in Nat
  BY DEF NInv, CInv, LineTypes
<1>1. CASE UNCHANGED <<inbox, srvNick>>
  BY <1>1 DEF NInv, Unwelcome, Hears, Told
<1>2. CASE inbox' = Append(inbox, Msg("433")) /\ UNCHANGED srvNick
  <2>1. Msg("433") \in Messages /\ ~TellsNick(Msg("433")) /\ ~Renames(Msg("433"))
    BY ConnectionAssumption DEF Msg, Messages, Commands, TellsNick, Renames
  <2>2. /\ Welcomes(inbox) => Welcomes(inbox')
        /\ \A a, b : Leads(inbox, a, b) => Leads(inbox', a, b)
    BY <1>0, <1>2, <2>1, AppendWelcomes, AppendLeads
  <2>3. /\ Len(inbox') = Len(inbox) + 1 /\ inbox'[Len(inbox) + 1] = Msg("433")
        /\ Len(inbox) \in Nat /\ \A k \in 1 .. Len(inbox) : inbox'[k] = inbox[k]
    BY <1>0, <1>2, <2>1, AppendProperties, LenProperties
  <2>4. \A k \in 1 .. Len(inbox) + 1 : k \in 1 .. Len(inbox) \/ k = Len(inbox) + 1
    BY <2>3
  <2> QED
    BY <1>2, <2>1, <2>2, <2>3, <2>4 DEF NInv, Unwelcome, Hears, Told
<1>3. ASSUME NEW n \in 1 .. NickCount, srvNick' = n,
             NEW cmd \in IF srvNick = 0 THEN {"001"} ELSE {"NICK", "BARENICK"},
             inbox' = Append(inbox, NickMsg(cmd, srvNick, n))
      PROVE  Unwelcome' /\ Hears'
  <2> DEFINE m == NickMsg(cmd, srvNick, n)
  <2>1. /\ m \in Messages /\ TellsNick(m) /\ m[2] = srvNick /\ m[3] = n
        /\ (srvNick = 0 => m[1] = "001") /\ (Renames(m) => srvNick # 0)
    <3>1. cmd \in Commands /\ n \in 0 .. NickCount
      BY ConnectionAssumption DEF Commands
    <3> QED
      BY <1>0, <3>1 DEF NickMsg, Messages, TellsNick, Renames
  <2> HIDE DEF m
  <2>2. inbox' = Append(inbox, m) /\ n # 0
    BY <1>3, ConnectionAssumption DEF m
  <2>3. \A a : Leads(inbox, a, srvNick) => Leads(inbox', a, n)
    BY <1>0, <2>1, <2>2, AppendLeads
  <2>4. CASE srvNick = 0
    <3>1. Leads(inbox, 0, srvNick) /\ 0 \in 0 .. NickCount
      BY <1>0, <2>4, PlainLeads DEF NInv, Unwelcome
    <3>2. Welcomes(inbox')
      BY <1>0, <2>1, <2>2, <2>4, AppendWelcomes
    <3> QED
      BY <1>3, <2>2, <2>3, <3>1, <3>2 DEF Unwelcome, Hears, Told
  <2>5. CASE srvNick # 0
    <3>1. (missed \/ Told) /\ (Welcomes(inbox) => Welcomes(inbox'))
      BY <1>0, <2>1, <2>2, <2>5, AppendWelcomes DEF NInv, Hears
    <3> QED
      BY <1>3, <2>2, <2>3, <3>1 DEF Unwelcome, Hears, Told
  <2> QED
    BY <2>4, <2>5
<1>4. nick_number < NickCount => nick_number + 1 \in 1 .. NickCount
  BY <1>0, ConnectionAssumption
<1> QED
  BY <1>1, <1>2, <1>3, <1>4 DEF TryNextNick, AskNick, Answers

(* A read: its first line is the next of the chain, and the rest of its    *)
(* lines are none of the chain.                                            *)
LEMMA HearsLine == ASSUME NInv, ReceiveLine PROVE Unwelcome' /\ Hears'
<1>1. /\ inbox \in Seq(Messages) /\ inbox # <<>>
      /\ mpc = "read" /\ UNCHANGED <<srvNick, nick>>
      /\ mpc' = "end" \/ (mpc' = "handle" /\ line' = inbox[1])
  BY DEF ReceiveLine, MainGoto, NInv, CInv, LineTypes
<1>2. Len(inbox) \in Nat /\ Len(inbox) # 0 /\ DOMAIN inbox = 1 .. Len(inbox)
  BY <1>1, LenProperties, EmptySeq
<1>3. PICK k \in 1 .. Len(inbox) :
        /\ inbox' = SubSeq(inbox, k + 1, Len(inbox))
        /\ missed' = (missed \/ \E i \in 2 .. k : inbox[i][1] \in Answering)
  BY <1>2 DEF ReceiveLine
<1>4. Unwelcome'
  <2>1. \A i \in 1 .. Len(inbox') : k + i \in 1 .. Len(inbox) /\ inbox'[i] = inbox[k + i]
    BY <1>1, <1>3, RestElements
  <2> QED
    BY <1>1, <2>1 DEF NInv, Unwelcome
<1>5. Hears'
  <2> SUFFICES ASSUME ~missed', srvNick # 0, mpc' = "handle" PROVE Told'
    BY <1>1 DEF Hears
  <2>1. ~missed /\ \A i \in 2 .. k : ~TellsNick(inbox[i])
    BY <1>3 DEF Answering, TellsNick
  <2>2. PICK a \in 0 .. NickCount :
          Leads(inbox, a, srvNick) /\ (a = nick \/ Welcomes(inbox))
    BY <1>1, <2>1 DEF NInv, Hears, Told, After, Handling
  <2>3. /\ Renames(inbox[1]) => inbox[1][2] = a
        /\ Welcomes(inbox) => inbox[1][1] = "001" \/ Welcomes(inbox')
    BY <1>1, <1>3, <2>1, <2>2, RestLeads
  <2>4. PICK c \in 0 .. NickCount :
          /\ Leads(inbox', c, srvNick)
          /\ TellsNick(inbox[1]) => c = inbox[1][3]
          /\ ~TellsNick(inbox[1]) => c = a
    BY <1>1, <1>3, <2>1, <2>2, RestLeads
  <2>5. line' = inbox[1] /\ nick' = nick /\ srvNick' = srvNick
    BY <1>1
  <2>6. After(c)' \/ Welcomes(inbox)'
    <3>1. CASE inbox[1][1] = "001"
      BY <2>4, <2>5, <3>1 DEF After, Handling, TellsNick
    <3>2. CASE inbox[1][1] \in {"NICK", "BARENICK"}
      <4>1. a = nick \/ Welcomes(inbox')
        BY <2>2, <2>3, <3>2
      <4>2. a = nick => After(c)'
        BY <2>3, <2>4, <2>5, <3>2 DEF After, Handling, TellsNick, Renames
      <4> QED
        BY <4>1, <4>2 DEF Welcomes
    <3>3. CASE ~TellsNick(inbox[1])
      <4>1. a = nick \/ Welcomes(inbox')
        BY <2>2, <2>3, <3>3 DEF TellsNick
      <4>2. a = nick => After(c)'
        BY <2>4, <2>5, <3>3 DEF After, Handling, TellsNick
      <4> QED
        BY <4>1, <4>2 DEF Welcomes
    <3> QED
      BY <3>1, <3>2, <3>3 DEF TellsNick
  <2>7. Leads(inbox, c, srvNick)'
    BY <2>4, <2>5 DEF Leads, FirstTold, NextTold, LastTold
  <2> QED
    BY <2>6, <2>7 DEF Told
<1> QED
  BY <1>4, <1>5
-----------------------------------------------------------------------------
MainOn ==
    StopWaiting \/ LoopHead \/ ReceiveFails \/ SignalLost \/ SignalUnregistered
    \/ HandlePingOrNotice \/ HandlePong \/ HandleWelcome \/ HandleNick \/ Joined

LEMMA MainHears == ASSUME NInv, Main PROVE Unwelcome' /\ Hears'
<1>1. CASE MainOn
  <2>1. UNCHANGED <<inbox, srvNick>> /\ mpc \notin {"end", "dead"} /\ (missed => missed')
    <3>1. CASE HandleNick
      BY <3>1 DEF HandleNick, Handling, net
    <3>2. CASE StopWaiting \/ LoopHead \/ ReceiveFails \/ SignalLost \/ SignalUnregistered
      BY <3>2 DEF StopWaiting, LoopHead, ReceiveFails, SignalLost, SignalUnregistered, net
    <3>3. CASE HandlePingOrNotice \/ HandlePong \/ HandleWelcome \/ Joined
      BY <3>3 DEF HandlePingOrNotice, HandlePong, HandleWelcome, Joined, Handling, net
    <3> QED
      BY <1>1, <3>1, <3>2, <3>3 DEF MainOn
  <2>2. CASE HandleWelcome
    BY <2>2, <2>1, HearsOn DEF HandleWelcome, MainGoto, After, Handling
  <2>3. CASE HandleNick
    <3>1. CASE line[1] = "NICK"
      BY <2>1, <2>3, <3>1, HearsOn DEF HandleNick, MainGoto, After, Handling, Trailing
    <3>2. CASE line[1] # "NICK"
      BY <2>1, <2>3, <3>2 DEF HandleNick, Handling, NInv, Unwelcome, Hears
    <3> QED
      BY <3>1, <3>2
  <2>4. CASE MainOn /\ ~HandleWelcome /\ ~HandleNick
    <3>1. /\ mpc' # "handle" /\ nick' = nick
          /\ ~Handling("001") /\ ~Handling("NICK") /\ ~Handling("BARENICK")
      BY <2>4 DEF MainOn, StopWaiting, LoopHead, ReceiveFails, SignalLost,
         SignalUnregistered, HandlePingOrNotice, HandlePong, Joined, MainGoto, Handling
    <3> QED
      BY <3>1, <2>1, HearsOn DEF After, Handling
  <2> QED
    BY <1>1, <2>2, <2>3, <2>4
<1>2. CASE ReceiveLine
  BY <1>2, HearsLine
<1>3. CASE CloseSocket
  BY <1>3 DEF CloseSocket, Unwelcome, Hears
<1>4. CASE HandleNickInUse
  <2>1. /\ mpc = "handle" /\ line[1] = "433" /\ mpc' = "recv" /\ UNCHANGED <<nick, missed>>
        /\ TryNextNick \/ UNCHANGED <<inbox, srvNick>>
    BY <1>4 DEF HandleNickInUse, MainGoto, Handling
  <2>2. \A a \in 0 .. NickCount : After(a) => After(a)'
    BY <2>1 DEF After, Handling
  <2> QED
    BY <2>1, <2>2, HearsOn, HearsAsk
<1> QED
  BY <1>1, <1>2, <1>3, <1>4 DEF Main, MainOn

PingerOn ==
    Top \/ ConnectAbandoned \/ AfterConnect \/ ClearRegistered
    \/ RegistrationOver \/ LeaveLoop \/ Judge \/ CheckTimeout \/ RegainReset

LEMMA PingerHears == ASSUME NInv, Pinger PROVE Unwelcome' /\ Hears'
<1>1. CASE PingerOn
  <2>1. UNCHANGED <<inbox, srvNick, mpc, line, nick, missed>>
    BY <1>1 DEF PingerOn, Top, ConnectAbandoned, AfterConnect, ClearRegistered,
       RegistrationOver, LeaveLoop, Judge, CheckTimeout, RegainReset, net, mainVars
  <2> QED
    BY <2>1, HearsOn DEF After, Handling
<1>2. CASE ConnectSucceeds \/ ConnectFails
  <2>1. srvNick' = 0 /\ (inbox' = <<>> \/ inbox' = <<Msg("NOTICE")>>)
    BY <1>2 DEF ConnectSucceeds, ConnectFails, NewSocket
  <2>2. /\ Len(<<>>) = 0 /\ Len(<<Msg("NOTICE")>>) = 1
        /\ ~TellsNick(<<Msg("NOTICE")>>[1])
    BY DEF TellsNick, Msg
  <2>3. \A k \in 1 .. Len(inbox') : ~TellsNick(inbox'[k])
    <3>1. CASE inbox' = <<>>
      BY <3>1, <2>2
    <3>2. CASE inbox' = <<Msg("NOTICE")>>
      <4>1. \A k \in 1 .. Len(inbox') : k = 1
        BY <3>2, <2>2
      <4> QED
        BY <3>2, <4>1, <2>2
    <3> QED
      BY <3>1, <3>2, <2>1
  <2> QED
    BY <2>1, <2>3 DEF Unwelcome, Hears
<1>3. CASE Login \/ RegainAsk
  <2>1. TryNextNick /\ UNCHANGED <<mpc, line, nick, missed>>
    BY <1>3 DEF Login, RegainAsk, mainVars
  <2>2. CASE mpc \notin {"end", "dead"}
    BY <2>1, <2>2, HearsAsk DEF After, Handling
  <2>3. CASE mpc \in {"end", "dead"}
    <3>1. inbox \in Seq(Messages) /\ (srvNick' = 0 => srvNick = 0)
      BY <2>1, AskFacts, <1>3 DEF NInv, CInv, LineTypes, Login, RegainAsk
    <3>2. srvNick' = 0 => inbox' = inbox \/ inbox' = Append(inbox, Msg("433"))
      BY <2>1, ConnectionAssumption DEF TryNextNick, AskNick, Answers, NInv, CInv, LineTypes
    <3>3. Msg("433") \in Messages /\ ~TellsNick(Msg("433"))
      BY ConnectionAssumption DEF Msg, Messages, Commands, TellsNick
    <3>4. /\ Len(Append(inbox, Msg("433"))) = Len(inbox) + 1 /\ Len(inbox) \in Nat
          /\ Append(inbox, Msg("433"))[Len(inbox) + 1] = Msg("433")
          /\ \A k \in 1 .. Len(inbox) : Append(inbox, Msg("433"))[k] = inbox[k]
      BY <3>1, <3>3, AppendProperties, LenProperties
    <3>5. \A k \in 1 .. Len(inbox) + 1 : k \in 1 .. Len(inbox) \/ k = Len(inbox) + 1
      BY <3>4
    <3>6. Unwelcome'
      BY <3>1, <3>2, <3>3, <3>4, <3>5 DEF Unwelcome, NInv
    <3> QED
      BY <3>6, <2>1, <2>3 DEF Hears
  <2> QED
    BY <2>2, <2>3
<1>4. CASE SendPing
  <2>1. /\ inbox' = Aged(inbox) \/ inbox' = Append(Aged(inbox), Msg("PONG"))
        /\ line' = (IF line[1] = "PONG" THEN Msg("OLDPONG") ELSE line)
        /\ UNCHANGED <<srvNick, mpc, nick, missed>>
    BY <1>4 DEF SendPing
  <2>2. Aged(inbox) \in Seq(Messages)
    BY AgedWelcomes DEF NInv, CInv, LineTypes
  <2>3. Msg("PONG") \in Messages /\ ~TellsNick(Msg("PONG")) /\ Msg("OLDPONG")[1] = "OLDPONG"
    BY ConnectionAssumption DEF Msg, Messages, Commands, TellsNick
  <2>4. \A a \in 0 .. NickCount : After(a) => After(a)'
    BY <2>1, <2>3 DEF After, Handling
  <2> QED
    BY <2>1, <2>2, <2>3, <2>4, HearsMore
<1> QED
  BY <1>1, <1>2, <1>3, <1>4 DEF Pinger, PingerOn

LEMMA WorldHears ==
    ASSUME NInv, ServerPing \/ Drop \/ Die \/ Crash PROVE Unwelcome' /\ Hears'
<1>1. CASE ServerPing
  <2>1. inbox' = Append(inbox, Msg("PING")) /\ UNCHANGED <<srvNick, mpc, line, nick, missed>>
    BY <1>1 DEF ServerPing, Answers, mainVars
  <2>2. Msg("PING") \in Messages /\ ~TellsNick(Msg("PING"))
    BY ConnectionAssumption DEF Msg, Messages, Commands, TellsNick
  <2>3. inbox \in Seq(Messages)
    BY DEF NInv, CInv, LineTypes
  <2>4. \A a \in 0 .. NickCount : After(a) => After(a)'
    BY <2>1 DEF After, Handling
  <2> QED
    BY <2>1, <2>2, <2>3, <2>4, HearsMore
<1>2. CASE Drop \/ Die
  BY <1>2, HearsOn DEF Drop, Die, net, mainVars, After, Handling
<1>3. CASE Crash
  BY <1>3 DEF Crash, net, NInv, Unwelcome, Hears
<1> QED
  BY <1>1, <1>2, <1>3
-----------------------------------------------------------------------------
LEMMA OldByMain == ASSUME NInv, Main PROVE FlagIsOld'
<1>1. UNCHANGED ppc
  BY DEF Main, StopWaiting, LoopHead, ReceiveLine, ReceiveFails, CloseSocket, SignalLost,
     SignalUnregistered, HandlePingOrNotice, HandlePong, HandleWelcome, Joined,
     HandleNickInUse, HandleNick
<1>2. mpc # "dead" /\ Between' = Between /\ (done => done')
  BY <1>1 DEF Main, StopWaiting, LoopHead, ReceiveLine, ReceiveFails, CloseSocket, SignalLost,
     SignalUnregistered, HandlePingOrNotice, HandlePong, HandleWelcome, Joined,
     HandleNickInUse, HandleNick, Handling, flags, Between
<1>3. CASE SignalLost \/ SignalUnregistered \/ ReceiveFails \/ CloseSocket
  <2>1. registered' => Late' /\ registered
    BY <1>3 DEF SignalLost, SignalUnregistered, ReceiveFails, CloseSocket, MainGoto, Late, flags
  <2> QED
    BY <1>1, <1>2, <2>1 DEF FlagIsOld, NInv
<1>4. CASE Joined
  <2>1. mpc = "joining" /\ UNCHANGED <<done, connected, link, srvNick>>
    BY <1>4 DEF Joined, net
  <2>2. Known /\ ~Deaf /\ ~Settled
    BY <2>1 DEF NInv, CInv, WelcomeIsNew, WelcomeRead, Deaf, Settled
  <2>3. ~connected /\ (Between \/ ppc \in {"regain", "regain2", "loop"}) => done
    BY <2>2 DEF NInv, CInv, QuietBetween, Quiet
  <2> QED
    BY <1>1, <1>2, <2>1, <2>2, <2>3 DEF FlagIsOld, Known, NInv
<1>5. CASE StopWaiting
  <2>1. ~registered /\ UNCHANGED registered
    BY <1>5 DEF StopWaiting, NInv, CInv, RegistrationIsNew, flags
  <2> QED
    BY <1>1, <1>2, <2>1 DEF FlagIsOld, NInv
<1>6. CASE LoopHead \/ ReceiveLine \/ HandlePingOrNotice \/ HandlePong \/ HandleWelcome
           \/ HandleNick \/ HandleNickInUse
  <2>1. /\ ~Late /\ UNCHANGED <<connected, registered, link>>
        /\ srvNick # 0 => srvNick' # 0
    <3>1. CASE HandleNickInUse
      BY <3>1, AskFacts DEF HandleNickInUse, Handling, Late, NInv, CInv
    <3>2. CASE ~HandleNickInUse
      BY <1>6, <3>2 DEF LoopHead, ReceiveLine, HandlePingOrNotice, HandlePong, HandleWelcome,
         HandleNick, Handling, Late, flags, net
    <3> QED
      BY <3>1, <3>2
  <2> QED
    BY <1>1, <1>2, <2>1 DEF FlagIsOld, Known, NInv
<1> QED
  BY <1>3, <1>4, <1>5, <1>6 DEF Main

LEMMA OldByPinger == ASSUME Prompt, NInv, Pinger PROVE FlagIsOld'
<1> USE DEF NInv
<1>1. CASE ConnectSucceeds \/ ConnectFails
  <2>1. /\ ppc = "connect" /\ ~done /\ UNCHANGED <<done, connected, registered>>
        /\ \/ ppc' \in {"thrown"}
           \/ ppc' = "after"
        /\ mpc' = mpc \/ mpc' \in {"failed", "hung"}
    BY <1>1 DEF ConnectSucceeds, ConnectFails, PingerGoto, ReadDisturbed, flags
  <2>2. registered => ~connected /\ Late
    BY <2>1 DEF CInv, RegistrationIsNew, FlagIsOld, Between
  <2>3. Late => Late'
    BY <2>1 DEF Late
  <2> QED
    BY <2>1, <2>2, <2>3 DEF FlagIsOld
<1>2. CASE ConnectAbandoned
  BY <1>2 DEF ConnectAbandoned, PingerGoto, FlagIsOld, flags, Between
<1>3. CASE AfterConnect
  <2>1. /\ ppc = "after" /\ UNCHANGED <<registered, mpc, link, srvNick>>
        /\ \/ done' /\ ppc' = "top"
           \/ ~done' /\ ppc' = "setreg"
        /\ done => done'
    BY <1>3 DEF AfterConnect, PingerGoto, mainVars, net
  <2> QED
    BY <2>1 DEF FlagIsOld, Known, Late, Between
<1>4. CASE ClearRegistered \/ Login \/ SendPing \/ Judge
  <2>1. ppc' \in {"login", "unreg", "wait", "check"}
    BY <1>4 DEF ClearRegistered, Login, SendPing, Judge, PingerGoto
  <2> QED
    BY <2>1 DEF FlagIsOld, Between
<1>5. CASE Top \/ LeaveLoop
  <2>1. /\ UNCHANGED <<done, connected, registered, mpc>>
        /\ ppc \in {"top", "loop"} /\ ppc' \in {"end", "connect", "top"}
    BY <1>5 DEF Top, LeaveLoop, PingerGoto, flags, mainVars
  <2> QED
    BY <2>1 DEF FlagIsOld, Late, Between
<1>6. CASE RegistrationOver
  <2>1. /\ UNCHANGED <<done, connected, registered, mpc>>
        /\ ppc = "unreg" /\ ppc' = "loop" /\ (done \/ ~connected \/ registered)
    BY <1>6 DEF RegistrationOver, PingerGoto, flags, mainVars
  <2>2. registered /\ ~connected => done \/ Late
    <3>1. CInv /\ Online
      BY <2>1 DEF Online
    <3> QED
      BY <2>1, <3>1 DEF CInv, Online, RegistrationIsNew, QuietBetween, Deaf, Late
  <2> QED
    BY <2>1, <2>2 DEF FlagIsOld, Late, Between
<1>7. CASE CheckTimeout
  <2>1. /\ ppc' = "regain" /\ UNCHANGED <<done, connected>>
        /\ connected \/ registered' = FALSE
    BY <1>7 DEF CheckTimeout, PingerGoto
  <2> QED
    BY <2>1 DEF FlagIsOld, Between
<1>8. CASE RegainReset \/ RegainAsk
  <2>1. /\ ppc \in {"regain", "regain2"} /\ ppc' \in {"regain2", "loop"}
        /\ UNCHANGED <<done, connected, registered, mpc>>
    BY <1>8 DEF RegainReset, RegainAsk, PingerGoto, flags, mainVars
  <2> QED
    BY <2>1 DEF FlagIsOld, Late, Between
<1> QED
  BY <1>1, <1>2, <1>3, <1>4, <1>5, <1>6, <1>7, <1>8 DEF Pinger

LEMMA OldByWorld == ASSUME NInv, ServerPing \/ Drop \/ Die \/ Crash PROVE FlagIsOld'
<1>1. CASE ServerPing \/ Drop
  <2>1. /\ UNCHANGED <<done, connected, registered, mpc, ppc, srvNick>>
        /\ link' = "up" => link = "up"
    BY <1>1 DEF ServerPing, Drop, flags, mainVars
  <2> QED
    BY <2>1 DEF NInv, FlagIsOld, Known, Late, Between
<1>2. CASE Die
  BY <1>2 DEF Die, mainVars, net, NInv, FlagIsOld, Known, Late, Between
<1>3. CASE Crash
  BY <1>3 DEF Crash, FlagIsOld, Late, Between
<1> QED
  BY <1>1, <1>2, <1>3

LEMMA NInitially == Init => NInv
<1> SUFFICES ASSUME Init PROVE NInv
  OBVIOUS
<1>1. FlagIsOld /\ Hears
  BY DEF Init, FlagIsOld, Hears, Between
<1>2. Unwelcome
  BY DEF Init, Unwelcome
<1> QED
  BY <1>1, <1>2, CInitially DEF NInv

LEMMA NKept == ASSUME Prompt PROVE NInv /\ [Next]_vars => NInv'
<1> SUFFICES ASSUME NInv, [Next]_vars PROVE NInv'
  OBVIOUS
<1>1. CInv'
  BY CKept DEF NInv
<1>2. CASE UNCHANGED vars
  <2>1. UNCHANGED <<done, connected, registered, nick, mpc, line, ppc, link, inbox, srvNick,
                    missed>>
    BY <1>2 DEF vars, flags, net, mainVars
  <2>2. Unwelcome' /\ Hears'
    BY <2>1, HearsOn DEF After, Handling
  <2>3. FlagIsOld'
    BY <2>1 DEF NInv, FlagIsOld, Known, Late, Between
  <2> QED
    BY <1>1, <2>2, <2>3 DEF NInv
<1>3. CASE Main
  BY <1>1, <1>3, MainHears, OldByMain DEF NInv
<1>4. CASE Pinger
  BY <1>1, <1>4, PingerHears, OldByPinger DEF NInv
<1>5. CASE ServerPing \/ Drop \/ Die \/ Crash
  BY <1>1, <1>5, WorldHears, OldByWorld DEF NInv
<1> QED
  BY <1>2, <1>3, <1>4, <1>5 DEF Next

(* ircbot.cpp: once main has read all the server said, a registered bot    *)
(* knows the nick the server knows it by, whatever nicks were refused,     *)
(* regained or left over from an old connection, unless it has missed an   *)
(* answer on this one.                                                     *)
THEOREM NickAgreesCorrect ==
    ASSUME Prompt PROVE Spec => []NickAgrees
<1>1. NInv => NickAgrees
  <2> SUFFICES ASSUME NInv, registered, connected, link = "up", mpc = "read", inbox = <<>>,
                      ~missed
               PROVE  nick = srvNick
    BY DEF NickAgrees
  <2>1. srvNick # 0
    BY DEF NInv, CInv, RegisteredHere, FlagIsOld, Known, Late
  <2>2. PICK a \in 0 .. NickCount : Leads(<<>>, a, srvNick) /\ (After(a) \/ Welcomes(<<>>))
    BY <2>1 DEF NInv, Hears, Told
  <2>3. a = srvNick /\ After(a)
    <3>1. Len(<<>>) = 0
      OBVIOUS
    <3> QED
      BY <2>2, <3>1, NoWelcome DEF Leads
  <2> QED
    BY <2>3 DEF After, Handling
<1> QED
  BY NInitially, NKept, <1>1, PTL DEF Spec
-----------------------------------------------------------------------------
(* Refused nicks.  Every request of a nick has one verdict, 433, 001 or    *)
(* NICK, and no request is made before the last verdict is heard           *)
(* (AskedOnce, Unasked), as long as the pinger turns to something else     *)
(* only when nothing is under way (StillBetween), which is so because a    *)
(* PING that goes unanswered means that the connection is lost             *)
(* (PongComes).  So a registered bot that asks for the nicks one by one    *)
(* never gets past the one it has (Spare).  All this is so until main      *)
(* misses an answer, and again on the next connection.                     *)

Has(s, C) == \E i \in 1 .. Len(s) : s[i][1] \in C
Never(s, A, B) == \A i, j \in 1 .. Len(s) : i < j => ~(s[i][1] \in A /\ s[j][1] \in B)

Verdicts == {"433", "001", "NICK", "BARENICK"}
Ruling == mpc = "handle" /\ line[1] \in Verdicts
Unasked == ~Ruling /\ ~Has(inbox, Verdicts)
Still == done \/ Deaf \/ Unasked

AskedOnce ==
    \/ done \/ Deaf
    \/ /\ Never(inbox, Verdicts, Verdicts)
       /\ Ruling \/ mpc = "joining" => ~Has(inbox, Verdicts)

StillBetween ==
    /\ Between \/ ppc \in {"check", "regain", "regain2"} => Still
    /\ ppc = "loop" /\ (~connected \/ ~registered) => Still
    /\ ppc \in {"after", "setreg", "login"} => done \/ (Unasked /\ mpc # "joining")
    /\ ppc \in {"check", "regain", "regain2"} /\ (~connected \/ ~registered)
          => done \/ Deaf \/ link # "up"
    /\ ppc = "login" => done \/ ~registered
    /\ ppc = "regain2" => done \/ nick_number = 0
    /\ link = "closed" => inbox = <<>>

PongComes ==
    /\ Never(inbox, {"PONG"}, {"OLDPONG"})
    /\ Handling("PONG") => ~Has(inbox, {"OLDPONG"})
    /\ ppc = "wait" /\ ponged => ~Handling("OLDPONG") /\ ~Has(inbox, {"OLDPONG"})
    /\ ppc = "wait" /\ ~ponged /\ link = "up"
          => done \/ Late \/ Handling("PONG") \/ Has(inbox, {"PONG"})

Refused == Handling("433") \/ Has(inbox, {"433"})

Spare == registered /\ Refused => done \/ Late \/ nick_number < srvNick

RInv == NInv /\ AskedOnce /\ StillBetween /\ PongComes /\ Spare

UnlessMissed == NInv /\ (missed \/ RInv)
-----------------------------------------------------------------------------
LEMMA HasNone ==
    ASSUME NEW A, NEW B
    PROVE  /\ ~Has(<<>>, A) /\ Never(<<>>, A, B)
           /\ Never(<<Msg("NOTICE")>>, A, B)
           /\ "NOTICE" \notin A => ~Has(<<Msg("NOTICE")>>, A)
<1>1. Len(<<>>) = 0 /\ Len(<<Msg("NOTICE")>>) = 1 /\ <<Msg("NOTICE")>>[1][1] = "NOTICE"
  BY DEF Msg
<1>2. \A i \in 1 .. 1 : i = 1
  OBVIOUS
<1> QED
  BY <1>1, <1>2 DEF Has, Never

LEMMA HasAppend ==
    ASSUME NEW s \in Seq(Messages), NEW m \in Messages, NEW A, NEW B
    PROVE  /\ Has(Append(s, m), A) <=> Has(s, A) \/ m[1] \in A
           /\ Never(s, A, B) /\ (m[1] \in B => ~Has(s, A)) => Never(Append(s, m), A, B)
<1> DEFINE t == Append(s, m)
<1>1. /\ Len(t) = Len(s) + 1 /\ t[Len(s) + 1] = m /\ Len(s) \in Nat
      /\ \A k \in 1 .. Len(s) : t[k] = s[k]
  BY AppendProperties, LenProperties
<1> HIDE DEF t
<1>2. \A k \in 1 .. Len(s) + 1 : k \in 1 .. Len(s) \/ k = Len(s) + 1
  BY <1>1
<1>3. Len(s) + 1 \in 1 .. Len(s) + 1 /\ \A k \in 1 .. Len(s) : k \in 1 .. Len(s) + 1
  BY <1>1
<1>4. Has(t, A) <=> Has(s, A) \/ m[1] \in A
  BY <1>1, <1>2, <1>3 DEF Has
<1>5. ASSUME Never(s, A, B), m[1] \in B => ~Has(s, A) PROVE Never(t, A, B)
  <2> SUFFICES ASSUME NEW i \in 1 .. Len(s) + 1, NEW j \in 1 .. Len(s) + 1, i < j,
                      t[i][1] \in A, t[j][1] \in B
               PROVE  FALSE
    BY <1>1 DEF Never
  <2>1. i \in 1 .. Len(s)
    BY <1>1
  <2>2. CASE j \in 1 .. Len(s)
    BY <2>1, <2>2, <1>1, <1>5 DEF Never
  <2>3. CASE j = Len(s) + 1
    BY <2>1, <2>3, <1>1, <1>5 DEF Has
  <2> QED
    BY <2>2, <2>3, <1>2
<1> QED
  BY <1>4, <1>5 DEF t

LEMMA HasRest ==
    ASSUME NEW s \in Seq(Messages), NEW k \in 1 .. Len(s), NEW A, NEW B
    PROVE  LET t == SubSeq(s, k + 1, Len(s))
           IN  /\ s[1][1] \in A \/ Has(t, A) => Has(s, A)
               /\ Has(s, A) => s[1][1] \in A \/ Has(t, A) \/ \E i \in 2 .. k : s[i][1] \in A
               /\ Never(s, A, B) => Never(t, A, B) /\ (s[1][1] \in A => ~Has(t, B))
<1> DEFINE t == SubSeq(s, k + 1, Len(s))
           n == Len(t)
<1>1. /\ Len(s) \in Nat /\ n = Len(s) - k /\ n \in Nat
      /\ \A i \in 1 .. n : k + i \in 1 .. Len(s) /\ t[i] = s[k + i]
  BY RestElements, LenProperties
<1> HIDE DEF t
<1>2. 1 \in 1 .. Len(s) /\ \A i \in 1 .. n : 1 < k + i
  BY <1>1
<1>3. ASSUME Has(s, A), s[1][1] \notin A, \A i \in 2 .. k : s[i][1] \notin A PROVE Has(t, A)
  <2>1. PICK i \in 1 .. Len(s) : s[i][1] \in A
    BY <1>3 DEF Has
  <2>2. i - k \in 1 .. n /\ k + (i - k) = i
    BY <2>1, <1>1, <1>3
  <2>3. t[i - k] = s[i]
    BY <2>2, <1>1
  <2> QED
    BY <2>1, <2>2, <2>3 DEF Has
<1>4. Has(t, A) \/ s[1][1] \in A => Has(s, A)
  BY <1>1, <1>2 DEF Has
<1>5. ASSUME Never(s, A, B) PROVE Never(t, A, B)
  <2> SUFFICES ASSUME NEW i \in 1 .. n, NEW j \in 1 .. n, i < j,
                      t[i][1] \in A, t[j][1] \in B
               PROVE  FALSE
    BY DEF Never
  <2>1. k + i < k + j
    BY <1>1
  <2> QED
    BY <2>1, <1>1, <1>5 DEF Never
<1>6. ASSUME Never(s, A, B), s[1][1] \in A PROVE ~Has(t, B)
  BY <1>1, <1>2, <1>6 DEF Has, Never
<1> QED
  BY <1>3, <1>4, <1>5, <1>6 DEF t

LEMMA HasAged ==
    ASSUME NEW s \in Seq(Messages)
    PROVE  /\ Aged(s) \in Seq(Messages) /\ ~Has(Aged(s), {"PONG"})
           /\ \A A : "PONG" \notin A /\ "OLDPONG" \notin A =>
                 /\ Has(Aged(s), A) <=> Has(s, A)
                 /\ Never(s, A, A) => Never(Aged(s), A, A)
<1>1. Len(s) \in Nat /\ DOMAIN s = 1 .. Len(s)
  BY LenProperties
<1>2. /\ Aged(s) \in Seq(Messages) /\ DOMAIN Aged(s) = 1 .. Len(s)
      /\ \A k \in 1 .. Len(s) :
            \/ Aged(s)[k] = s[k] /\ s[k][1] # "PONG"
            \/ s[k][1] = "PONG" /\ Aged(s)[k][1] = "OLDPONG"
  BY <1>1, AgedWelcomes DEF Aged, Msg
<1>3. Len(Aged(s)) = Len(s)
  BY <1>1, <1>2, LenProperties
<1>4. ~Has(Aged(s), {"PONG"})
  BY <1>2, <1>3 DEF Has
<1>5. ASSUME NEW A, "PONG" \notin A, "OLDPONG" \notin A
      PROVE  /\ Has(Aged(s), A) <=> Has(s, A)
             /\ Never(s, A, A) => Never(Aged(s), A, A)
  <2>1. \A k \in 1 .. Len(s) : Aged(s)[k][1] \in A <=> s[k][1] \in A
    BY <1>2, <1>5
  <2> QED
    BY <2>1, <1>3 DEF Has, Never
<1> QED
  BY <1>2, <1>4, <1>5
-----------------------------------------------------------------------------
LEMMA RInitially == Init => RInv
<1> SUFFICES ASSUME Init PROVE RInv
  OBVIOUS
<1>1. inbox = <<>> /\ mpc = "await" /\ ppc = "top" /\ ~connected /\ ~registered
      /\ link = "closed"
  BY DEF Init
<1>2. AskedOnce /\ StillBetween /\ PongComes /\ Spare
  BY <1>1, HasNone DEF AskedOnce, StillBetween, Still, PongComes, Spare, Deaf, Handling
<1> QED
  BY <1>2, NInitially DEF RInv

(* Main's steps that read nothing and ask for nothing.                     *)
RestOfMain ==
    StopWaiting \/ LoopHead \/ ReceiveFails \/ SignalLost \/ SignalUnregistered

LEMMA RestOfMainKeeps ==
    ASSUME RInv, RestOfMain PROVE AskedOnce' /\ StillBetween' /\ PongComes' /\ Spare'
<1>1. /\ UNCHANGED <<done, nick_number, ponged, ppc, link, inbox, srvNick>>
      /\ mpc \notin {"handle", "joining"} /\ mpc' \notin {"handle", "joining"}
  BY DEF RestOfMain, StopWaiting, LoopHead, ReceiveFails, SignalLost, SignalUnregistered,
     MainGoto, net, flags
<1>2. /\ Deaf => done \/ Deaf'
      /\ registered' => registered /\ (Late => Late')
      /\ connected => connected' \/ Deaf'
      /\ connected' => connected
  <2>1. CASE StopWaiting
    BY <2>1 DEF StopWaiting, MainGoto, Deaf, Late, flags
  <2>2. CASE LoopHead
    BY <2>2 DEF LoopHead, MainGoto, Deaf, Late, flags
  <2>3. CASE ReceiveFails
    BY <2>3 DEF ReceiveFails, MainGoto, Deaf, Late, flags
  <2>4. CASE SignalLost
    BY <2>4 DEF SignalLost, MainGoto, Deaf, Late, flags
  <2>5. CASE SignalUnregistered
    BY <2>5 DEF SignalUnregistered, MainGoto, Deaf, Late, flags
  <2> QED
    BY <2>1, <2>2, <2>3, <2>4, <2>5 DEF RestOfMain
<1>3. AskedOnce' /\ PongComes' /\ Spare'
  <2>1. PongComes'
    <3>1. ppc = "wait" /\ link = "up" /\ Late => Late' \/ done
      BY DEF RInv, NInv, CInv, LostIsClosed, Online, Shut, RestOfMain, StopWaiting, LoopHead,
         ReceiveFails, SignalLost, SignalUnregistered, MainGoto, Late
    <3> QED
      BY <1>1, <3>1 DEF RInv, PongComes, Handling
  <2> QED
    BY <1>1, <1>2, <2>1 DEF RInv, AskedOnce, Ruling, Spare, Refused, Handling
<1>4. Unasked <=> Unasked'
  BY <1>1 DEF Unasked, Ruling
<1>5. ppc \in {"check", "regain", "regain2", "loop"} /\ registered /\ ~registered'
      => link = "closed" /\ inbox = <<>>
  BY DEF RInv, NInv, CInv, LostIsClosed, Online, Shut, RestOfMain, StopWaiting, LoopHead,
     ReceiveFails, SignalLost, SignalUnregistered, MainGoto, flags
<1>6. inbox = <<>> => Unasked'
  BY <1>1, HasNone DEF Unasked, Ruling
<1> QED
  BY <1>1, <1>2, <1>3, <1>4, <1>5, <1>6 DEF RInv, StillBetween, Still, Between

LEMMA CloseKeeps ==
    ASSUME RInv, CloseSocket PROVE AskedOnce' /\ StillBetween' /\ PongComes' /\ Spare'
<1>1. /\ mpc = "failed" /\ mpc' = "lost" /\ link' = "closed" /\ inbox' = <<>>
      /\ UNCHANGED <<done, connected, registered, nick_number, ponged, ppc>>
  BY DEF CloseSocket, MainGoto, flags
<1> QED
  BY <1>1, HasNone DEF RInv, AskedOnce, StillBetween, Still, PongComes, Spare, Refused, Deaf,
     Unasked, Ruling, Late, Handling, Between

(* Main is through with a line that asks for nothing.                      *)
LineDone ==
    HandlePingOrNotice \/ HandlePong \/ HandleWelcome \/ HandleNick \/ Joined

LEMMA LineDoneKeeps ==
    ASSUME RInv, LineDone PROVE AskedOnce' /\ StillBetween' /\ PongComes' /\ Spare'
<1>1. /\ UNCHANGED <<done, connected, nick_number, ppc, link, inbox, srvNick>>
      /\ mpc \in {"handle", "joining"} /\ mpc' \in {"recv", "joining"}
      /\ mpc' = "joining" => Ruling
      /\ registered => registered'
      /\ registered' => registered \/ mpc = "joining"
  BY DEF LineDone, HandlePingOrNotice, HandlePong, HandleWelcome, HandleNick, Joined,
     MainGoto, net, flags, Handling, Ruling, Verdicts
<1>2. ~Deaf /\ ~Deaf' /\ ~Ruling' /\ ~Late /\ ~Handling("433")'
  BY <1>1 DEF Deaf, Ruling, Late, Handling
<1>3. AskedOnce'
  BY <1>1, <1>2 DEF RInv, AskedOnce
<1>4. StillBetween'
  <2>1. Unasked => Unasked' /\ mpc' # "joining"
    BY <1>1, <1>2 DEF Unasked
  <2> QED
    BY <1>1, <1>2, <2>1 DEF RInv, StillBetween, Still, Between
<1>5. Spare'
  <2>1. Has(inbox, {"433"}) => Has(inbox, Verdicts)
    BY DEF Has, Verdicts
  <2>2. CASE registered
    BY <1>1, <1>2, <2>2 DEF RInv, Spare, Refused
  <2>3. CASE mpc = "joining"
    BY <1>1, <1>2, <2>1, <2>3 DEF RInv, AskedOnce, Spare, Refused
  <2> QED
    BY <1>1, <2>2, <2>3 DEF Spare
<1>6. PongComes'
  <2>1. ~Handling("PONG")' /\ ~Handling("OLDPONG")'
    BY <1>1 DEF Handling
  <2>2. CASE HandlePong
    <3>1. /\ ponged' <=> line[1] = "PONG"
          /\ Handling("PONG") \/ Handling("OLDPONG")
      BY <2>2 DEF HandlePong
    <3>2. Handling("PONG") <=> ponged'
      BY <3>1 DEF Handling
    <3> QED
      BY <1>1, <1>2, <2>1, <3>1, <3>2 DEF RInv, PongComes
  <2>3. CASE ~HandlePong
    <3>1. UNCHANGED ponged /\ ~Handling("PONG")
      BY <2>3 DEF LineDone, HandlePingOrNotice, HandlePong, HandleWelcome, HandleNick, Joined,
         Handling
    <3> QED
      BY <1>1, <1>2, <2>1, <3>1 DEF RInv, PongComes
  <2> QED
    BY <2>2, <2>3
<1> QED
  BY <1>3, <1>4, <1>5, <1>6

LEMMA ReadKeeps ==
    ASSUME RInv, ReceiveLine, ~missed'
    PROVE  AskedOnce' /\ StillBetween' /\ PongComes' /\ Spare'
<1>1. /\ inbox \in Seq(Messages) /\ inbox # <<>>
      /\ mpc = "read" /\ link # "closed"
      /\ \/ done /\ mpc' = "end"
         \/ mpc' = "handle" /\ line' = inbox[1]
      /\ UNCHANGED <<done, connected, registered, nick_number, ponged, ppc, link, srvNick>>
  BY DEF ReceiveLine, MainGoto, RInv, NInv, CInv, LineTypes, flags
<1>0. PICK k \in 1 .. Len(inbox) :
        /\ inbox' = SubSeq(inbox, k + 1, Len(inbox))
        /\ \A i \in 2 .. k : inbox[i][1] \notin Answering
  <2>1. DOMAIN inbox = 1 .. Len(inbox)
    BY <1>1, LenProperties
  <2> QED
    BY <2>1 DEF ReceiveLine
<1>2. \A A : A \subseteq Answering => (Has(inbox, A) <=> inbox[1][1] \in A \/ Has(inbox', A))
  BY <1>0, <1>1, HasRest
<1>3. /\ \A A : inbox[1][1] \in A \/ Has(inbox', A) => Has(inbox, A)
      /\ \A A, B : Never(inbox, A, B) =>
            Never(inbox', A, B) /\ (inbox[1][1] \in A => ~Has(inbox', B))
  BY <1>0, <1>1, HasRest
<1>4. CASE done
  <2>1. mpc' = "end"
    BY <1>4 DEF ReceiveLine, MainGoto
  <2>2. done' /\ Late' /\ ~Handling("PONG")' /\ ~Handling("OLDPONG")'
    BY <1>1, <1>4, <2>1 DEF Late, Handling
  <2> QED
    BY <1>1, <1>3, <1>4, <2>1, <2>2
       DEF RInv, AskedOnce, StillBetween, Still, PongComes, Spare
<1>5. CASE ~done
  <2>1. /\ mpc' = "handle" /\ line' = inbox[1]
        /\ ~Deaf /\ ~Late /\ ~Ruling
    BY <1>1, <1>5 DEF Deaf, Late, Ruling
  <2>2. Ruling' <=> inbox[1][1] \in Verdicts
    BY <2>1 DEF Ruling
  <2>3. \A c : Handling(c)' <=> inbox[1][1] = c
    BY <2>1 DEF Handling
  <2>4. AskedOnce'
    BY <1>1, <1>3, <1>5, <2>1, <2>2 DEF RInv, AskedOnce
  <2>5. Unasked => Unasked'
    BY <1>3, <2>2 DEF Unasked
  <2>6. StillBetween'
    BY <1>1, <1>5, <2>1, <2>5 DEF RInv, StillBetween, Still, Between
  <2>7. PongComes'
    <3>1. /\ Never(inbox', {"PONG"}, {"OLDPONG"})
          /\ inbox[1][1] = "PONG" => ~Has(inbox', {"OLDPONG"})
      BY <1>3 DEF RInv, PongComes
    <3>2. /\ Has(inbox, {"PONG"}) => inbox[1][1] = "PONG" \/ Has(inbox', {"PONG"})
          /\ inbox[1][1] = "OLDPONG" \/ Has(inbox', {"OLDPONG"}) => Has(inbox, {"OLDPONG"})
      <4>1. {"PONG"} \subseteq Answering
        BY DEF Answering
      <4> QED
        BY <4>1, <1>2, <1>3
    <3>3. ~Handling("PONG") /\ ~Handling("OLDPONG")
      BY <1>1 DEF Handling
    <3> QED
      BY <1>1, <1>5, <2>1, <2>3, <3>1, <3>2, <3>3 DEF RInv, PongComes
  <2>8. Spare'
    BY <1>1, <1>3, <1>5, <2>1, <2>3 DEF RInv, Spare, Refused
  <2> QED
    BY <2>4, <2>6, <2>7, <2>8
<1> QED
  BY <1>4, <1>5

(* The next nick is asked for.  Neither answer says anything of a PING.    *)
LEMMA Asked ==
    ASSUME RInv, TryNextNick, ~UNCHANGED <<inbox, srvNick>>
    PROVE  \E m \in Messages :
              /\ m[1] \in Verdicts /\ inbox' = Append(inbox, m) /\ link = "up"
              /\ m[1] = "433" => srvNick' = srvNick /\ nick_number + 1 # srvNick
<1>1. srvNick \in 0 .. NickCount /\ nick_number \in Nat
  BY DEF RInv, NInv, CInv, LineTypes
<1>2. nick_number < NickCount /\ AskNick(nick_number + 1)
  BY DEF TryNextNick, AskNick
<1> DEFINE n == nick_number + 1
           granted == IF srvNick = 0 THEN {"001"} ELSE {"NICK", "BARENICK"}
<1>3. n \in 1 .. NickCount
  BY <1>1, <1>2, ConnectionAssumption
<1>4. Msg("433") \in Messages /\ Msg("433")[1] = "433" /\ "433" \in Verdicts
  BY ConnectionAssumption DEF Msg, Messages, Commands, Verdicts
<1>5. \A cmd \in granted :
         LET g == NickMsg(cmd, srvNick, n)
         IN  g \in Messages /\ g[1] \in Verdicts /\ g[1] # "433"
  <2>1. \A cmd \in granted : cmd \in Commands /\ cmd \in Verdicts /\ cmd # "433"
    BY DEF Commands, Verdicts
  <2>2. n \in 0 .. NickCount
    BY <1>3
  <2> QED
    BY <1>1, <2>1, <2>2 DEF NickMsg, Messages
<1>6. /\ link = "up" /\ n # srvNick
      /\ \/ inbox' = Append(inbox, Msg("433")) /\ srvNick' = srvNick
         \/ \E cmd \in granted : inbox' = Append(inbox, NickMsg(cmd, srvNick, n))
  BY <1>2 DEF AskNick, Answers
<1> HIDE DEF granted
<1> QED
  BY <1>4, <1>5, <1>6

LEMMA PongsStay ==
    ASSUME RInv, TryNextNick
    PROVE  /\ Has(inbox', {"PONG"}) <=> Has(inbox, {"PONG"})
           /\ Has(inbox', {"OLDPONG"}) <=> Has(inbox, {"OLDPONG"})
           /\ Never(inbox, {"PONG"}, {"OLDPONG"}) => Never(inbox', {"PONG"}, {"OLDPONG"})
<1>1. CASE UNCHANGED <<inbox, srvNick>>
  BY <1>1
<1>2. CASE ~UNCHANGED <<inbox, srvNick>>
  <2>1. PICK m \in Messages : m[1] \in Verdicts /\ inbox' = Append(inbox, m)
    BY <1>2, Asked
  <2>2. inbox \in Seq(Messages) /\ m[1] \notin {"PONG", "OLDPONG"}
    BY <2>1 DEF RInv, NInv, CInv, LineTypes, Verdicts
  <2>3. \A A : Has(inbox', A) <=> Has(inbox, A) \/ m[1] \in A
    BY <2>1, <2>2, HasAppend
  <2>4. \A A, B : Never(inbox, A, B) /\ (m[1] \in B => ~Has(inbox, A)) => Never(inbox', A, B)
    BY <2>1, <2>2, HasAppend
  <2> QED
    BY <2>2, <2>3, <2>4
<1> QED
  BY <1>1, <1>2

LEMMA AskedFacts ==
    ASSUME RInv, TryNextNick, ~Has(inbox, Verdicts)
    PROVE  /\ \/ inbox' = inbox /\ srvNick' = srvNick
              \/ /\ link = "up" /\ Has(inbox', Verdicts)
                 /\ \/ srvNick' = srvNick /\ nick_number + 1 # srvNick
                    \/ ~Has(inbox', {"433"})
           /\ Never(inbox', Verdicts, Verdicts)
           /\ nick_number' = nick_number + 1
<1>1. Never(inbox, Verdicts, Verdicts) /\ ~Has(inbox, {"433"})
  BY DEF Never, Has, Verdicts
<1>2. nick_number' = nick_number + 1
  BY DEF TryNextNick
<1>3. CASE UNCHANGED <<inbox, srvNick>>
  BY <1>1, <1>2, <1>3
<1>4. CASE ~UNCHANGED <<inbox, srvNick>>
  <2>1. PICK m \in Messages :
           /\ m[1] \in Verdicts /\ inbox' = Append(inbox, m) /\ link = "up"
           /\ m[1] = "433" => srvNick' = srvNick /\ nick_number + 1 # srvNick
    BY <1>4, Asked
  <2>2. inbox \in Seq(Messages)
    BY DEF RInv, NInv, CInv, LineTypes
  <2>3. \A A : Has(inbox', A) <=> Has(inbox, A) \/ m[1] \in A
    BY <2>1, <2>2, HasAppend
  <2>4. Never(inbox', Verdicts, Verdicts)
    BY <1>1, <2>1, <2>2, HasAppend
  <2> QED
    BY <1>1, <1>2, <2>1, <2>3, <2>4
<1> QED
  BY <1>3, <1>4

LEMMA NickInUseKeepsR ==
    ASSUME RInv, HandleNickInUse
    PROVE  AskedOnce' /\ StillBetween' /\ PongComes' /\ Spare'
<1>1. /\ Handling("433") /\ Ruling /\ mpc' = "recv"
      /\ UNCHANGED <<connected, registered, ponged, ppc, link>>
      /\ \/ TryNextNick /\ nick_number < NickCount /\ UNCHANGED done
         \/ done' /\ UNCHANGED <<nick_number, inbox, srvNick>>
      /\ done => done'
  BY DEF HandleNickInUse, MainGoto, Handling, Ruling, Verdicts
<1>2. ~Deaf /\ ~Deaf' /\ ~Ruling' /\ \A c : ~Handling(c)'
  BY <1>1 DEF Deaf, Ruling, Handling
<1>3. ~Handling("PONG") /\ ~Handling("OLDPONG") /\ ~Late /\ mpc # "joining"
  BY <1>1 DEF Handling, Late
<1>4. ~Unasked /\ (Still => done)
  BY <1>1, <1>2 DEF Unasked, Still
<1>5. link = "closed" => inbox' = <<>>
  BY <1>1, <1>4 DEF RInv, StillBetween, TryNextNick, AskNick
<1>6. StillBetween'
  BY <1>1, <1>2, <1>3, <1>4, <1>5 DEF RInv, StillBetween, Still, Between
<1>7. PongComes'
  <2>1. CASE TryNextNick
    BY <1>1, <1>2, <1>3, <2>1, PongsStay DEF RInv, PongComes
  <2>2. CASE ~TryNextNick
    BY <1>1, <1>2, <1>3, <2>2 DEF RInv, PongComes
  <2> QED
    BY <2>1, <2>2
<1>8. CASE done'
  BY <1>6, <1>8, <1>7 DEF AskedOnce, Spare
<1>9. CASE ~done'
  <2>1. ~Has(inbox, Verdicts) /\ TryNextNick
    BY <1>1, <1>2, <1>9 DEF RInv, AskedOnce
  <2>2. AskedOnce'
    BY <1>1, <1>2, <2>1, AskedFacts DEF AskedOnce
  <2>4. Spare'
    <3>1. nick_number \in Nat /\ srvNick \in 0 .. NickCount
      BY DEF RInv, NInv, CInv, LineTypes
    <3>2. registered => nick_number < srvNick
      BY <1>1, <1>3, <1>9 DEF RInv, Spare, Refused
    <3>3. ~Has(inbox, {"433"})
      BY <2>1 DEF Has, Verdicts
    <3>4. registered /\ Has(inbox', {"433"}) => nick_number + 1 < srvNick'
      BY <2>1, <3>1, <3>2, <3>3, AskedFacts
    <3> QED
      BY <1>1, <1>2, <2>1, <3>4, AskedFacts DEF Spare, Refused
  <2> QED
    BY <1>6, <1>7, <2>2, <2>4
<1> QED
  BY <1>8, <1>9

LEMMA MainKeepsR ==
    ASSUME RInv, Main, ~missed'
    PROVE  AskedOnce' /\ StillBetween' /\ PongComes' /\ Spare'
BY RestOfMainKeeps, CloseKeeps, LineDoneKeeps, ReadKeeps, NickInUseKeepsR
   DEF Main, RestOfMain, LineDone
-----------------------------------------------------------------------------
(* The pinger's steps that leave the socket, and main, alone.              *)
RestOfPinger ==
    Top \/ ConnectAbandoned \/ AfterConnect \/ ClearRegistered
    \/ RegistrationOver \/ LeaveLoop \/ CheckTimeout \/ RegainReset

LEMMA RestOfPingerKeeps ==
    ASSUME RInv, RestOfPinger PROVE AskedOnce' /\ StillBetween' /\ PongComes' /\ Spare'
<1>1. /\ UNCHANGED <<ponged, mpc, line, link, inbox, srvNick>>
      /\ ppc \notin {"wait", "judge"} /\ ppc' # "wait"
      /\ done => done'
      /\ registered' => registered
  BY DEF RestOfPinger, Top, ConnectAbandoned, AfterConnect, ClearRegistered,
     RegistrationOver, LeaveLoop, CheckTimeout, RegainReset, PingerGoto, mainVars, net, flags
<1>2. (Unasked <=> Unasked') /\ (Ruling <=> Ruling') /\ (Refused <=> Refused')
      /\ (Late <=> Late') /\ \A c : Handling(c) <=> Handling(c)'
  BY <1>1 DEF Unasked, Ruling, Refused, Late, Handling
<1>3. PongComes'
  BY <1>1, <1>2 DEF RInv, PongComes
<1>4. Unasked => /\ Never(inbox, Verdicts, Verdicts) /\ ~Refused
                 /\ Ruling => FALSE
                 /\ ~Has(inbox, Verdicts)
  BY DEF Unasked, Ruling, Refused, Handling, Has, Never, Verdicts
<1>5. CASE AfterConnect
  <2>1. /\ ppc = "after" /\ UNCHANGED <<registered, nick_number>>
        /\ \/ done' /\ ppc' = "top"
           \/ ~done' /\ ppc' = "setreg"
    BY <1>5 DEF AfterConnect, PingerGoto
  <2>2. done' \/ (Unasked' /\ mpc' # "joining")
    BY <1>1, <1>2, <2>1 DEF RInv, StillBetween
  <2>3. AskedOnce' /\ Spare'
    BY <1>1, <1>2, <1>4, <2>2 DEF AskedOnce, Spare
  <2>4. StillBetween'
    BY <1>1, <2>1, <2>2 DEF RInv, StillBetween, Still, Between
  <2> QED
    BY <1>3, <2>3, <2>4
<1>6. CASE ~AfterConnect
  <2>1. UNCHANGED <<done, connected>>
    BY <1>6 DEF RestOfPinger, Top, ConnectAbandoned, ClearRegistered,
       RegistrationOver, LeaveLoop, CheckTimeout, RegainReset, flags
  <2>2. (Deaf <=> Deaf') /\ (Still <=> Still')
    BY <1>1, <1>2, <2>1 DEF Deaf, Still
  <2>3. AskedOnce'
    BY <1>1, <1>2, <2>1, <2>2 DEF RInv, AskedOnce
  <2>4. Spare'
    <3>1. CASE UNCHANGED nick_number
      BY <1>1, <1>2, <2>1, <3>1 DEF RInv, Spare
    <3>2. CASE RegainReset /\ ~UNCHANGED nick_number
      <4>1. ppc = "regain"
        BY <3>2 DEF RegainReset
      <4>2. Still
        BY <4>1 DEF RInv, StillBetween
      <4>3. Deaf => Late \/ ~registered
        BY DEF Deaf, Late, RInv, NInv, CInv, RegistrationIsNew
      <4> QED
        BY <1>1, <1>2, <1>4, <2>1, <4>2, <4>3 DEF Spare, Still
    <3>3. CASE CheckTimeout /\ ~UNCHANGED nick_number
      BY <3>3 DEF CheckTimeout, Spare
    <3> QED
      BY <1>6, <3>1, <3>2, <3>3 DEF RestOfPinger, Top, ConnectAbandoned, ClearRegistered,
         RegistrationOver, LeaveLoop
  <2>5. StillBetween'
    <3>1. CASE Top \/ LeaveLoop
      <4>1. /\ ppc \in {"top", "loop"} /\ ppc' \in {"end", "connect", "top"}
            /\ ppc = "loop" => done \/ ~connected \/ ~registered
        BY <3>1 DEF Top, LeaveLoop, PingerGoto
      <4>2. Still
        BY <4>1 DEF RInv, StillBetween, Between, Still
      <4> QED
        BY <1>1, <2>2, <4>1, <4>2 DEF RInv, StillBetween, Between
    <3>2. CASE ConnectAbandoned
      BY <3>2, <1>1, <2>1 DEF ConnectAbandoned, PingerGoto, RInv, StillBetween, Between, Still
    <3>3. CASE ClearRegistered
      <4>1. ppc = "setreg" /\ ppc' = "login" /\ ~registered'
        BY <3>3 DEF ClearRegistered, PingerGoto
      <4> QED
        BY <4>1, <1>1, <1>2, <2>1 DEF RInv, StillBetween, Between
    <3>4. CASE RegistrationOver
      <4>1. /\ ppc = "unreg" /\ ppc' = "loop" /\ (done \/ ~connected \/ registered)
            /\ UNCHANGED registered
        BY <3>4 DEF RegistrationOver, PingerGoto, flags
      <4>2. ~connected => Still
        BY <4>1 DEF RInv, NInv, CInv, QuietBetween, Still
      <4> QED
        BY <4>1, <4>2, <1>1, <2>1, <2>2 DEF RInv, StillBetween, Between, Still
    <3>5. CASE CheckTimeout
      <4>1. /\ ppc = "check" /\ ppc' = "regain"
            /\ UNCHANGED registered \/ ~connected
        BY <3>5 DEF CheckTimeout, PingerGoto
      <4> QED
        BY <4>1, <1>1, <2>1, <2>2 DEF RInv, StillBetween, Between
    <3>6. CASE RegainReset
      <4>1. /\ ppc = "regain" /\ UNCHANGED registered
            /\ \/ ppc' = "regain2" /\ nick_number' = 0
               \/ ppc' = "loop"
        BY <3>6 DEF RegainReset, PingerGoto, flags
      <4> QED
        BY <4>1, <1>1, <2>1, <2>2 DEF RInv, StillBetween, Between
    <3> QED
      BY <1>6, <3>1, <3>2, <3>3, <3>4, <3>5, <3>6 DEF RestOfPinger
  <2> QED
    BY <1>3, <2>3, <2>4, <2>5
<1> QED
  BY <1>5, <1>6

LEMMA ConnectKeepsR ==
    ASSUME RInv, ConnectSucceeds \/ ConnectFails
    PROVE  AskedOnce' /\ StillBetween' /\ PongComes' /\ Spare'
<1>1. /\ ppc = "connect" /\ ~done
      /\ UNCHANGED <<done, connected, registered, nick_number, ponged, line>>
      /\ mpc' = mpc \/ mpc' \in {"failed", "hung"}
      /\ \/ link' = "up" /\ inbox' = <<Msg("NOTICE")>> /\ ppc' = "after"
         \/ link' = "closed" /\ inbox' = <<>> /\ ppc' \in {"thrown", "after"}
  BY DEF ConnectSucceeds, ConnectFails, NewSocket, PingerGoto, ReadDisturbed, flags
<1>2. Still /\ (done \/ Deaf \/ ~WelcomeRead)
  BY <1>1 DEF RInv, StillBetween, Between, NInv, CInv, QuietBetween, Quiet, Settled
<1>3. ~Ruling /\ mpc # "joining"
  BY <1>1, <1>2 DEF Still, Unasked, Ruling, Deaf, WelcomeRead
<1>4. ~Ruling' /\ mpc' # "joining"
  BY <1>1, <1>3 DEF Ruling
<1>5. /\ \A A : "NOTICE" \notin A => ~Has(inbox', A)
      /\ \A A, B : Never(inbox', A, B)
  BY <1>1, HasNone
<1>6. Unasked' /\ ~Refused'
  <2>1. \A c \in Verdicts : ~Handling(c)'
    BY <1>4 DEF Ruling, Handling
  <2> QED
    BY <1>4, <1>5, <2>1 DEF Unasked, Refused, Verdicts
<1> QED
  BY <1>1, <1>4, <1>5, <1>6 DEF AskedOnce, StillBetween, Still, PongComes, Spare, Between

LEMMA LoginKeepsR ==
    ASSUME RInv, Login PROVE AskedOnce' /\ StillBetween' /\ PongComes' /\ Spare'
<1>1. /\ ppc = "login" /\ ppc' = "unreg" /\ TryNextNick
      /\ UNCHANGED <<done, connected, registered, ponged, mpc, line, link>>
  BY DEF Login, PingerGoto, flags, mainVars
<1>2. done \/ (Unasked /\ mpc # "joining" /\ ~registered)
  BY <1>1 DEF RInv, StillBetween
<1>3. (Ruling <=> Ruling') /\ (Late <=> Late') /\ \A c : Handling(c) <=> Handling(c)'
  BY <1>1 DEF Ruling, Late, Handling
<1>4. AskedOnce' /\ Spare'
  BY <1>1, <1>2, <1>3, AskedFacts DEF AskedOnce, Spare, Unasked
<1>5. PongComes'
  BY <1>1, <1>3, PongsStay DEF RInv, PongComes
<1>6. link = "closed" => inbox' = <<>>
  BY <1>1 DEF RInv, StillBetween, TryNextNick, AskNick
<1> QED
  BY <1>1, <1>4, <1>5, <1>6 DEF StillBetween, Between

LEMMA RegainKeepsR ==
    ASSUME RInv, RegainAsk PROVE AskedOnce' /\ StillBetween' /\ PongComes' /\ Spare'
<1>1. /\ ppc = "regain2" /\ ppc' = "loop" /\ TryNextNick
      /\ UNCHANGED <<done, connected, registered, ponged, mpc, line, link>>
  BY DEF RegainAsk, PingerGoto, flags, mainVars
<1>2. (Ruling <=> Ruling') /\ (Late <=> Late') /\ (Deaf <=> Deaf')
      /\ \A c : Handling(c) <=> Handling(c)'
  BY <1>1 DEF Ruling, Late, Deaf, Handling
<1>3. /\ done \/ Deaf \/ (Unasked /\ mpc # "joining")
      /\ ~connected \/ ~registered => done \/ Deaf \/ link # "up"
      /\ done \/ nick_number = 0
  BY <1>1 DEF RInv, StillBetween, Still, NInv, CInv, QuietBetween, Quiet, Settled, WelcomeRead
<1>4. PongComes'
  BY <1>1, <1>2, PongsStay DEF RInv, PongComes
<1>5. link = "closed" => inbox' = <<>>
  BY <1>1 DEF RInv, StillBetween, TryNextNick, AskNick
<1>6. AskedOnce'
  BY <1>1, <1>2, <1>3, AskedFacts DEF AskedOnce, Unasked
<1>7. StillBetween'
  <2>1. (~connected \/ ~registered) /\ ~done /\ ~Deaf => Unasked'
    BY <1>1, <1>2, <1>3, AskedFacts DEF Unasked
  <2> QED
    BY <1>1, <1>2, <1>5, <2>1 DEF StillBetween, Still, Between
<1>8. Spare'
  <2> SUFFICES ASSUME registered, Refused', ~done, ~Late PROVE nick_number' < srvNick'
    BY <1>1, <1>2 DEF Spare
  <2>1. connected
    BY <1>1 DEF RInv, NInv, FlagIsOld
  <2>2. Unasked /\ nick_number = 0
    BY <1>3, <2>1 DEF Deaf, Late, RInv, NInv, CInv, RegistrationIsNew
  <2>3. ~Handling("433")' /\ Has(inbox', {"433"}) /\ ~Has(inbox, {"433"})
    BY <1>2, <2>2 DEF Refused, Unasked, Ruling, Handling, Has, Verdicts
  <2>4. link = "up" /\ srvNick' = srvNick /\ 1 # srvNick /\ nick_number' = 1
    BY <1>1, <2>2, <2>3, AskedFacts DEF Unasked
  <2>5. srvNick # 0 /\ srvNick \in Nat
    BY <1>1, <2>1, <2>4, ConnectionAssumption DEF RInv, NInv, CInv, RegisteredHere, LineTypes
  <2> QED
    BY <2>4, <2>5
<1> QED
  BY <1>4, <1>6, <1>7, <1>8

LEMMA PingKeepsR ==
    ASSUME RInv, SendPing PROVE AskedOnce' /\ StillBetween' /\ PongComes' /\ Spare'
<1> DEFINE s == Aged(inbox)
<1>1. /\ ppc = "loop" /\ ppc' = "wait" /\ ~done /\ ~ponged'
      /\ inbox' = IF link = "up" THEN Append(s, Msg("PONG")) ELSE s
      /\ line' = IF line[1] = "PONG" THEN Msg("OLDPONG") ELSE line
      /\ UNCHANGED <<done, connected, registered, nick_number, mpc, link, srvNick>>
  BY DEF SendPing, PingerGoto, flags
<1>2. inbox \in Seq(Messages)
  BY DEF RInv, NInv, CInv, LineTypes
<1>3. /\ s \in Seq(Messages) /\ ~Has(s, {"PONG"})
      /\ Has(s, Verdicts) <=> Has(inbox, Verdicts)
      /\ Has(s, {"433"}) <=> Has(inbox, {"433"})
      /\ Never(inbox, Verdicts, Verdicts) => Never(s, Verdicts, Verdicts)
  BY <1>2, HasAged DEF Verdicts
<1>4. Msg("PONG") \in Messages /\ Msg("PONG")[1] = "PONG" /\ Msg("OLDPONG")[1] = "OLDPONG"
  BY ConnectionAssumption DEF Msg, Messages, Commands
<1> HIDE DEF s
<1>5. /\ Has(inbox', Verdicts) <=> Has(inbox, Verdicts)
      /\ Has(inbox', {"433"}) <=> Has(inbox, {"433"})
      /\ Never(inbox, Verdicts, Verdicts) => Never(inbox', Verdicts, Verdicts)
      /\ Never(inbox', {"PONG"}, {"OLDPONG"})
      /\ link = "up" => Has(inbox', {"PONG"})
  <2>1. Never(s, {"PONG"}, {"OLDPONG"})
    BY <1>3 DEF Has, Never
  <2>2. \A A, B :
          /\ Has(Append(s, Msg("PONG")), A) <=> Has(s, A) \/ "PONG" \in A
          /\ Never(s, A, B) /\ ("PONG" \in B => ~Has(s, A)) => Never(Append(s, Msg("PONG")), A, B)
    BY <1>3, <1>4, HasAppend
  <2> QED
    BY <1>1, <1>3, <2>1, <2>2 DEF Verdicts
<1>6. /\ Ruling <=> Ruling'
      /\ Handling("433") <=> Handling("433")'
      /\ ~Handling("PONG")' /\ (Deaf <=> Deaf') /\ (Late <=> Late')
  BY <1>1, <1>4 DEF Ruling, Handling, Deaf, Late, Verdicts
<1>7. link = "closed" => inbox' = <<>>
  BY <1>1, <1>2, AgedWelcomes DEF RInv, StillBetween, s
<1>8. AskedOnce' /\ Spare'
  BY <1>1, <1>5, <1>6 DEF RInv, AskedOnce, Spare, Refused
<1>9. StillBetween'
  BY <1>1, <1>7 DEF StillBetween, Between
<1>10. PongComes'
  BY <1>1, <1>5, <1>6 DEF PongComes
<1> QED
  BY <1>8, <1>9, <1>10

(* The three minutes are over: a PING answered, or a connection lost.      *)
LEMMA JudgeKeepsR ==
    ASSUME Prompt, RInv, Judge PROVE AskedOnce' /\ StillBetween' /\ PongComes' /\ Spare'
<1>1. /\ ppc = "wait" /\ ppc' = "check" /\ connected' = ponged
      /\ MainCaughtUp \/ done
      /\ UNCHANGED <<done, registered, nick_number, ponged, mpc, line, link, inbox, srvNick>>
  BY DEF Judge, PingerGoto, mainVars, net
<1>2. (Unasked <=> Unasked') /\ (Late <=> Late') /\ \A c : Handling(c) <=> Handling(c)'
  BY <1>1 DEF Unasked, Ruling, Late, Handling
<1>3. mpc # "await" /\ (mpc \in {"lost", "lost2", "down"} => Shut)
  BY <1>1 DEF RInv, NInv, CInv, RegistrationIsNew, LostIsClosed
<1>4. PongComes' /\ Spare'
  BY <1>1, <1>2 DEF RInv, PongComes, Spare, Refused
<1>5. CASE done
  BY <1>1, <1>4, <1>5 DEF RInv, AskedOnce, StillBetween, Still, Between
<1>6. CASE ~done /\ mpc \in {"end", "dead", "hung", "failed"}
  <2>1. Deaf'
    BY <1>1, <1>6 DEF Deaf
  <2> QED
    BY <1>1, <1>4, <2>1 DEF RInv, AskedOnce, StillBetween, Still, Between
<1>7. CASE ~done /\ inbox = <<>> /\ mpc \notin {"handle", "joining", "end", "dead", "hung", "failed"}
  <2>1. Unasked' /\ AskedOnce'
    BY <1>1, <1>7, HasNone DEF Unasked, Ruling, AskedOnce
  <2>2. ~connected' \/ ~registered => link # "up"
    <3>1. CASE mpc \in {"lost", "lost2", "down"}
      BY <1>3, <3>1 DEF Shut
    <3>2. CASE mpc \notin {"lost", "lost2", "down"} /\ ~ponged
      BY <1>1, <1>3, <1>7, <3>2, HasNone DEF RInv, PongComes, Late, Handling
    <3>3. CASE mpc \notin {"lost", "lost2", "down"} /\ ~registered /\ ponged
      BY <1>1, <1>3, <1>7, <3>3 DEF RInv, NInv, CInv, QuietBetween, Deaf, Shut
    <3> QED
      BY <1>1, <3>1, <3>2, <3>3
  <2> QED
    BY <1>1, <1>4, <2>1, <2>2 DEF RInv, StillBetween, Still, Between
<1>8. mpc \in {"lost", "lost2", "down"} => inbox = <<>> /\ mpc \notin {"handle", "joining"}
  BY <1>3 DEF Shut
<1> QED
  BY <1>1, <1>3, <1>5, <1>6, <1>7, <1>8 DEF MainCaughtUp

LEMMA PingerKeepsR ==
    ASSUME Prompt, RInv, Pinger PROVE AskedOnce' /\ StillBetween' /\ PongComes' /\ Spare'
BY RestOfPingerKeeps, ConnectKeepsR, LoginKeepsR, RegainKeepsR, PingKeepsR, JudgeKeepsR
   DEF Pinger, RestOfPinger

LEMMA WorldKeepsR ==
    ASSUME RInv, ServerPing \/ Drop \/ Die \/ Crash
    PROVE  AskedOnce' /\ StillBetween' /\ PongComes' /\ Spare'
<1>1. CASE ServerPing
  <2>1. /\ link = "up" /\ inbox' = Append(inbox, Msg("PING"))
        /\ UNCHANGED <<done, connected, registered, nick_number, ponged, mpc, line, ppc, link,
                       srvNick>>
    BY <1>1 DEF ServerPing, Answers, flags, mainVars
  <2>2. inbox \in Seq(Messages) /\ Msg("PING") \in Messages /\ Msg("PING")[1] = "PING"
    BY ConnectionAssumption DEF RInv, NInv, CInv, LineTypes, Msg, Messages, Commands
  <2>3. \A A, B :
          /\ Has(inbox', A) <=> Has(inbox, A) \/ "PING" \in A
          /\ Never(inbox, A, B) /\ "PING" \notin B => Never(inbox', A, B)
    BY <2>1, <2>2, HasAppend
  <2>4. /\ Has(inbox', Verdicts) <=> Has(inbox, Verdicts)
        /\ Has(inbox', {"433"}) <=> Has(inbox, {"433"})
        /\ Has(inbox', {"PONG"}) <=> Has(inbox, {"PONG"})
        /\ Has(inbox', {"OLDPONG"}) <=> Has(inbox, {"OLDPONG"})
        /\ Never(inbox, Verdicts, Verdicts) => Never(inbox', Verdicts, Verdicts)
        /\ Never(inbox, {"PONG"}, {"OLDPONG"}) => Never(inbox', {"PONG"}, {"OLDPONG"})
    BY <2>3 DEF Verdicts
  <2> QED
    BY <2>1, <2>4 DEF RInv, AskedOnce, StillBetween, Still, Unasked, Ruling, PongComes, Spare,
       Refused, Deaf, Late, Handling, Between
<1>2. CASE Drop
  <2>1. /\ link = "up" /\ link' \in {"eof", "silent"}
        /\ UNCHANGED <<done, connected, registered, nick_number, ponged, mpc, line, ppc, inbox,
                       srvNick>>
    BY <1>2 DEF Drop, flags, mainVars
  <2> QED
    BY <2>1 DEF RInv, AskedOnce, StillBetween, Still, Unasked, Ruling, PongComes, Spare,
       Refused, Deaf, Late, Handling, Between
<1>3. CASE Die
  <2>1. /\ done'
        /\ UNCHANGED <<connected, registered, nick_number, ponged, mpc, line, ppc, link, inbox,
                       srvNick>>
    BY <1>3 DEF Die, net, mainVars
  <2> QED
    BY <2>1 DEF RInv, AskedOnce, StillBetween, Still, PongComes, Spare, Handling
<1>4. CASE Crash
  <2>1. /\ mpc' = "dead" /\ ppc' = "dead"
        /\ UNCHANGED <<link, inbox>>
    BY <1>4 DEF Crash, net
  <2> QED
    BY <2>1 DEF RInv, AskedOnce, StillBetween, PongComes, Spare, Deaf, Late, Handling, Between
<1> QED
  BY <1>1, <1>2, <1>3, <1>4

(* A new connection of which nothing has been missed has nothing under way. *)
LEMMA ConnectForgets ==
    ASSUME ConnectSucceeds \/ ConnectFails, missed, ~missed'
    PROVE  AskedOnce' /\ StillBetween' /\ PongComes' /\ Spare'
<1>1. /\ mpc \notin {"handle", "joining"} /\ ~done /\ UNCHANGED done
      /\ mpc' = mpc \/ mpc' \in {"failed", "hung"}
      /\ \/ link' = "up" /\ inbox' = <<Msg("NOTICE")>> /\ ppc' = "after"
         \/ link' = "closed" /\ inbox' = <<>> /\ ppc' = "thrown"
  BY DEF ConnectSucceeds, ConnectFails, NewSocket, PingerGoto, ReadDisturbed, flags
<1>2. mpc' \notin {"handle", "joining"}
  BY <1>1
<1>3. /\ \A A : "NOTICE" \notin A => ~Has(inbox', A)
      /\ \A A, B : Never(inbox', A, B)
  BY <1>1, HasNone
<1>4. Unasked' /\ ~Refused' /\ \A c : ~Handling(c)'
  BY <1>2, <1>3 DEF Unasked, Ruling, Refused, Handling, Verdicts
<1>5. AskedOnce' /\ Spare'
  BY <1>3, <1>4 DEF AskedOnce, Unasked, Spare
<1>6. PongComes'
  BY <1>1, <1>3, <1>4 DEF PongComes
<1>7. StillBetween'
  BY <1>1, <1>2, <1>4 DEF StillBetween, Still, Between
<1> QED
  BY <1>5, <1>6, <1>7

LEMMA RKept == ASSUME Prompt PROVE UnlessMissed /\ [Next]_vars => UnlessMissed'
<1> SUFFICES ASSUME UnlessMissed, [Next]_vars, ~missed' PROVE RInv'
  BY NKept DEF UnlessMissed, RInv
<1>1. NInv'
  BY NKept DEF UnlessMissed
<1>2. CASE missed
  <2>1. ConnectSucceeds \/ ConnectFails
    BY <1>2 DEF vars, Next, Main, Pinger, StopWaiting, LoopHead, ReceiveLine, ReceiveFails,
       CloseSocket, SignalLost, SignalUnregistered, HandlePingOrNotice, HandlePong, HandleWelcome,
       Joined, HandleNick, HandleNickInUse, Top, ConnectAbandoned, AfterConnect,
       ClearRegistered, Login, RegistrationOver, SendPing, LeaveLoop, Judge, CheckTimeout,
       RegainReset, RegainAsk, ServerPing, Drop, Die, Crash
  <2> QED
    BY <1>1, <1>2, <2>1, ConnectForgets DEF RInv
<1>3. CASE ~missed
  <2>1. RInv
    BY <1>3 DEF UnlessMissed
  <2>2. CASE UNCHANGED vars
    <3>1. UNCHANGED <<done, connected, registered, nick_number, ponged, mpc, line, ppc, link,
                      inbox, srvNick>>
      BY <2>2 DEF vars, flags, net, mainVars
    <3>2. AskedOnce' /\ StillBetween' /\ PongComes' /\ Spare'
      BY <2>1, <3>1 DEF RInv, AskedOnce, StillBetween, Still, Unasked, Ruling, PongComes, Spare,
         Refused, Deaf, Late, Handling, Between
    <3> QED
      BY <1>1, <3>2 DEF RInv
  <2>3. CASE Main
    BY <1>1, <2>1, <2>3, MainKeepsR DEF RInv
  <2>4. CASE Pinger
    BY <1>1, <2>1, <2>4, PingerKeepsR DEF RInv
  <2>5. CASE ServerPing \/ Drop \/ Die \/ Crash
    BY <1>1, <2>1, <2>5, WorldKeepsR DEF RInv
  <2> QED
    BY <2>2, <2>3, <2>4, <2>5 DEF Next
<1> QED
  BY <1>2, <1>3

(* ircbot.cpp: a registered bot that is refused a nick, as it tries to     *)
(* regain its primary one, goes on; only a login can run out of nicks, or  *)
(* a bot that has missed an answer on its connection.                      *)
THEOREM NoQuitOverNickCorrect ==
    ASSUME Prompt PROVE Spec => NoQuitOverNick
<1> DEFINE Refusal == Handling("433") /\ mpc' = "recv" /\ registered => done' = done \/ missed
<1>1. UnlessMissed /\ (done \in BOOLEAN) /\ [Next]_vars => [Refusal]_vars
  <2> SUFFICES ASSUME UnlessMissed, done \in BOOLEAN, Next, Handling("433"), mpc' = "recv",
                      registered, ~missed
               PROVE  done' = done
    BY DEF vars
  <2>0. RInv
    BY DEF UnlessMissed
  <2>1. HandleNickInUse
    BY DEF Handling, MainGoto, mainVars, ReadDisturbed, Next, Main, Pinger, StopWaiting, LoopHead, ReceiveLine, ReceiveFails, CloseSocket,
       SignalLost, SignalUnregistered, HandlePingOrNotice, HandlePong, HandleWelcome, Joined,
       HandleNick, Top, ConnectSucceeds, ConnectFails, ConnectAbandoned, AfterConnect,
       ClearRegistered, Login, RegistrationOver, SendPing, LeaveLoop, Judge, CheckTimeout,
       RegainReset, RegainAsk, ServerPing, Drop, Die, Crash
  <2>2. ~Late /\ srvNick \in 0 .. NickCount /\ nick_number \in Nat
    BY <2>0 DEF Late, Handling, RInv, NInv, CInv, LineTypes
  <2>3. done \/ nick_number < srvNick
    BY <2>0, <2>2 DEF RInv, Spare, Refused
  <2>4. CASE nick_number < NickCount
    BY <2>1, <2>4 DEF HandleNickInUse
  <2>5. CASE ~(nick_number < NickCount)
    <3>1. done /\ done' = TRUE
      BY <2>1, <2>2, <2>3, <2>5, ConnectionAssumption DEF HandleNickInUse
    <3>2. done = TRUE
      BY <3>1
    <3> QED
      BY <3>1, <3>2
  <2> QED
    BY <2>4, <2>5
<1>0. Init => UnlessMissed
  BY RInitially DEF UnlessMissed, RInv
<1>2. Init => done \in BOOLEAN
  BY DEF Init
<1>3. (done \in BOOLEAN) /\ [Next]_vars => (done \in BOOLEAN)'
  BY DEF vars, Next, Main, Pinger, StopWaiting, LoopHead, ReceiveLine, ReceiveFails, CloseSocket,
     SignalLost, SignalUnregistered, HandlePingOrNotice, HandlePong, HandleWelcome, Joined,
     HandleNick, HandleNickInUse, Top, ConnectSucceeds, ConnectFails, ConnectAbandoned,
     AfterConnect, ClearRegistered, Login, RegistrationOver, SendPing, LeaveLoop, Judge,
     CheckTimeout, RegainReset, RegainAsk, ServerPing, Drop, Die, Crash, flags
<1> QED
  BY <1>0, RKept, <1>1, <1>2, <1>3, PTL DEF Spec, NoQuitOverNick
=============================================================================
