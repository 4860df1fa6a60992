----------------------------- MODULE Bot_proofs -----------------------------
(***************************************************************************)
(* What the bot does with messages: how it reads them, the list of message *)
(* events, the commands and a quiz, each for any number of messages,       *)
(* threads, entries, users and players.                                    *)
(***************************************************************************)
EXTENDS Commands, Joins, MsgEvents, Trivial, Message, SequenceFacts
-----------------------------------------------------------------------------
(* Message events.  While the list is walked every entry is where it is    *)
(* because of what has been done with it: called before the position,      *)
(* still to be called from there on (Walked); and who is not in the list   *)
(* has been served (Served).                                               *)

EvTypeOK ==
    /\ events \in Seq(Events) /\ over \subseteq Events /\ when \in [Events -> Nat]
    /\ clock \in Nat \ {0} /\ now \in Nat /\ li \in Nat /\ waiting \in BOOLEAN
    /\ found \subseteq Events /\ calls \in [Events -> Nat]

InList(e) == \E i \in 1 .. Len(events) : events[i] = e

(* An entry is added once.                                                 *)
Once ==
    /\ \A i, j \in 1 .. Len(events) : events[i] = events[j] => i = j
    /\ \A e \in Events : InList(e) => when[e] # 0

ServedOne(e) ==
    \/ calls[e] = 1 /\ e \in found
    \/ calls[e] = 0 /\ (e \in found => e \in over)

Served == \A e \in Events : li = 0 \/ ~InList(e) => ServedOne(e)

Walked ==
    li > 0 =>
        /\ ~waiting
        /\ \A e \in found : ~Overdue(e)
        /\ \A i \in 1 .. Len(events) :
              /\ i < li => calls[events[i]] = 1 /\ events[i] \in found
              /\ i >= li => /\ calls[events[i]] = 0
                            /\ \/ events[i] \in over \/ Overdue(events[i])
                               \/ events[i] \in found

EvInv == EvTypeOK /\ Once /\ Served /\ Walked

LEMMA Places == ASSUME EvTypeOK PROVE \A i \in 1 .. Len(events) : events[i] \in Events
BY ElementOfSeq DEF EvTypeOK

LEMMA EvInitially == EvInit => EvInv
<1> SUFFICES ASSUME EvInit PROVE EvInv
  OBVIOUS
<1>1. Len(events) = 0 /\ EvTypeOK
  <2>1. Len(<<>>) = 0 /\ <<>> \in Seq(Events) /\ 1 \in Nat \ {0} /\ 0 \in Nat
    OBVIOUS
  <2>2. [e \in Events |-> 0] \in [Events -> Nat]
    OBVIOUS
  <2> QED
    BY <2>1, <2>2 DEF EvInit, EvTypeOK
<1> QED
  BY <1>1 DEF EvInit, EvInv, Once, Served, ServedOne, Walked, InList

LEMMA AddKeepsEv == ASSUME EvInv, NEW e \in Events, AddMsgEvent(e) PROVE EvInv'
<1>1. /\ events' = <<e>> \o events /\ when' = [when EXCEPT ![e] = clock]
      /\ li = 0 /\ when[e] = 0
      /\ UNCHANGED <<over, clock, now, li, waiting, found, calls>>
  BY DEF AddMsgEvent
<1>2. events \in Seq(Events) /\ Len(events) \in Nat
  BY LenProperties DEF EvInv, EvTypeOK
<1>3. <<e>> \in Seq(Events) /\ Len(<<e>>) = 1 /\ <<e>>[1] = e
  OBVIOUS
<1>4. /\ events' \in Seq(Events) /\ Len(events') = 1 + Len(events)
      /\ \A i \in 1 .. 1 + Len(events) :
            events'[i] = IF i <= 1 THEN <<e>>[i] ELSE events[i - 1]
  BY <1>1, <1>2, <1>3, ConcatProperties
<1>5. events'[1] = e /\ \A i \in 2 .. 1 + Len(events) :
                            i - 1 \in 1 .. Len(events) /\ events'[i] = events[i - 1]
  BY <1>2, <1>3, <1>4
<1>6. \A i \in 1 .. Len(events') : i = 1 \/ i \in 2 .. 1 + Len(events)
  BY <1>2, <1>4
<1>7. EvTypeOK'
  BY <1>1, <1>4 DEF EvInv, EvTypeOK
<1>8. ~InList(e) /\ when'[e] # 0 /\ \A d \in Events \ {e} : when'[d] = when[d]
  BY <1>1 DEF EvInv, EvTypeOK, Once
<1>9. Once'
  <2>1. \A i, j \in 1 .. Len(events') : events'[i] = events'[j] => i = j
    <3> SUFFICES ASSUME NEW i \in 1 .. Len(events'), NEW j \in 1 .. Len(events'),
                        events'[i] = events'[j], i # j
                 PROVE  FALSE
      OBVIOUS
    <3>1. CASE i = 1
      BY <3>1, <1>5, <1>6, <1>8 DEF InList
    <3>2. CASE j = 1
      BY <3>2, <1>5, <1>6, <1>8 DEF InList
    <3>3. CASE i # 1 /\ j # 1
      <4>1. i - 1 \in 1 .. Len(events) /\ j - 1 \in 1 .. Len(events)
            /\ events[i - 1] = events[j - 1]
        BY <3>3, <1>5, <1>6
      <4>2. i - 1 = j - 1 /\ i \in Int /\ j \in Int
        BY <4>1 DEF EvInv, Once
      <4> QED
        BY <4>2
    <3> QED
      BY <3>1, <3>2, <3>3
  <2>2. \A d \in Events : InList(d)' => d = e \/ InList(d)
    BY <1>5, <1>6 DEF InList
  <2> QED
    BY <2>1, <2>2, <1>8 DEF EvInv, Once
<1>10. Served' /\ Walked'
  BY <1>1 DEF EvInv, Served, ServedOne, Walked
<1> QED
  BY <1>7, <1>9, <1>10 DEF EvInv

LEMMA LockKeeps == ASSUME EvInv, EvLock PROVE EvInv'
<1>1. /\ waiting' = FALSE /\ li' = 1
      /\ found' = {e \in ToSet(events) \ over : ~Overdue(e)}
      /\ calls' = [e \in Events |-> 0]
      /\ UNCHANGED <<events, over, when, clock, now>>
  BY DEF EvLock
<1>2. \A e : e \in ToSet(events) <=> InList(e)
  BY ToSetFacts DEF EvInv, EvTypeOK, InList
<1>3. \A i \in 1 .. Len(events) : events[i] \in Events /\ InList(events[i])
  BY Places DEF EvInv, InList
<1>4. EvTypeOK'
  BY <1>1, <1>2, <1>3 DEF EvInv, EvTypeOK, InList
<1>5. \A e : Overdue(e)' <=> Overdue(e)
  BY <1>1 DEF Overdue
<1>6. Walked'
  BY <1>1, <1>2, <1>3, <1>5 DEF Walked
<1>7. Once' /\ Served'
  BY <1>1, <1>2 DEF EvInv, Once, Served, ServedOne, InList
<1> QED
  BY <1>4, <1>6, <1>7 DEF EvInv

LEMMA EraseKeeps == ASSUME EvInv, Erase PROVE EvInv'
<1> DEFINE n == Len(events)
<1>1. /\ li \in 1 .. n /\ n \in Nat /\ events \in Seq(Events)
      /\ events[li] \in over \/ Overdue(events[li])
      /\ events' = RemoveAt(events, li)
      /\ UNCHANGED <<over, when, clock, now, li, waiting, found, calls>>
  BY LenProperties DEF Erase, EvInv, EvTypeOK
<1>2. /\ events' \in Seq(Events) /\ Len(events') = n - 1
      /\ \A i \in 1 .. n - 1 : events'[i] = IF i < li THEN events[i] ELSE events[i + 1]
  BY <1>1, RemoveAtFacts
<1> HIDE DEF n
<1>3. /\ \A i \in 1 .. n - 1 : i < li => i \in 1 .. n /\ events'[i] = events[i]
      /\ \A i \in 1 .. n - 1 : i >= li => /\ i + 1 \in 1 .. n /\ i + 1 >= li
                                         /\ events'[i] = events[i + 1]
      /\ \A i \in 1 .. n - 1 : i < li \/ i >= li
  BY <1>1, <1>2
<1>4. EvTypeOK'
  BY <1>1, <1>2 DEF EvInv, EvTypeOK
<1>5. \A e : Overdue(e)' <=> Overdue(e)
  BY <1>1 DEF Overdue
<1>6. Once'
  <2>1. \A i, j \in 1 .. n - 1 : events'[i] = events'[j] => i = j
    <3> SUFFICES ASSUME NEW i \in 1 .. n - 1, NEW j \in 1 .. n - 1, events'[i] = events'[j]
                 PROVE  i = j
      OBVIOUS
    <3> DEFINE old(k) == IF k < li THEN k ELSE k + 1
    <3>1. old(i) \in 1 .. n /\ old(j) \in 1 .. n /\ events[old(i)] = events[old(j)]
      BY <1>3
    <3>2. old(i) = old(j)
      BY <3>1 DEF EvInv, Once, n
    <3> QED
      BY <3>2, <1>1
  <2>2. \A e \in Events : InList(e)' => InList(e)
    BY <1>2, <1>3 DEF InList, n
  <2> QED
    BY <1>1, <1>2, <2>1, <2>2 DEF EvInv, Once
<1>7. Walked'
  <2>1. li > 0 /\ Walked
    BY <1>1 DEF EvInv
  <2> SUFFICES ASSUME NEW i \in 1 .. n - 1
               PROVE  /\ i < li => calls[events'[i]] = 1 /\ events'[i] \in found
                      /\ i >= li => /\ calls[events'[i]] = 0
                                    /\ \/ events'[i] \in over \/ Overdue(events'[i])
                                       \/ events'[i] \in found
    BY <1>1, <1>2, <1>5, <2>1 DEF Walked
  <2> QED
    BY <1>3, <2>1 DEF Walked, n
<1>8. Served'
  <2> SUFFICES ASSUME NEW e \in Events, ~InList(e)' PROVE ServedOne(e)
    BY <1>1 DEF Served, ServedOne
  <2>1. CASE ~InList(e)
    BY <2>1 DEF EvInv, Served
  <2>2. CASE InList(e)
    <3>1. PICK i \in 1 .. n : events[i] = e
      BY <2>2 DEF InList, n
    <3>2. i = li
      <4>1. CASE i < li
        <5>1. i \in 1 .. n - 1
          BY <4>1, <1>1
        <5> QED
          BY <5>1, <4>1, <3>1, <1>2, <1>3 DEF InList
      <4>2. CASE i > li
        <5>1. i - 1 \in 1 .. n - 1 /\ i - 1 >= li /\ i - 1 + 1 = i
          BY <4>2, <1>1
        <5> QED
          BY <5>1, <3>1, <1>2, <1>3 DEF InList
      <4> QED
        BY <4>1, <4>2, <1>1
    <3>3. calls[e] = 0 /\ (e \in over \/ Overdue(e))
      BY <1>1, <3>1, <3>2 DEF EvInv, Walked, n
    <3>4. \A d \in found : ~Overdue(d)
      BY <1>1 DEF EvInv, Walked
    <3> QED
      BY <3>3, <3>4 DEF ServedOne
  <2> QED
    BY <2>1, <2>2
<1> QED
  BY <1>4, <1>6, <1>7, <1>8 DEF EvInv

LEMMA CallBackKeeps == ASSUME EvInv, CallBack PROVE EvInv'
<1>1. /\ li \in 1 .. Len(events) /\ Len(events) \in Nat
      /\ events[li] \notin over /\ ~Overdue(events[li])
      /\ calls' = [calls EXCEPT ![events[li]] = calls[events[li]] + 1] /\ li' = li + 1
      /\ UNCHANGED <<events, over, when, clock, now, waiting, found>>
  BY LenProperties DEF CallBack, EvInv, EvTypeOK
<1>2. \A i \in 1 .. Len(events) : events[i] \in Events
  BY Places DEF EvInv
<1>3. /\ calls' \in [Events -> Nat] /\ calls'[events[li]] = calls[events[li]] + 1
      /\ \A e \in Events \ {events[li]} : calls'[e] = calls[e]
  BY <1>1, <1>2 DEF EvInv, EvTypeOK
<1>4. \A i \in 1 .. Len(events) : i # li => events[i] # events[li]
  BY <1>1 DEF EvInv, Once
<1>5. calls[events[li]] = 0 /\ events[li] \in found
  BY <1>1 DEF EvInv, Walked
<1>6. EvTypeOK' /\ Once'
  BY <1>1, <1>3 DEF EvInv, EvTypeOK, Once, InList
<1>7. \A e : Overdue(e)' <=> Overdue(e)
  BY <1>1 DEF Overdue
<1>8. Walked'
  <2>1. li > 0 /\ Walked
    BY <1>1 DEF EvInv
  <2> SUFFICES ASSUME NEW i \in 1 .. Len(events)
               PROVE  /\ i < li + 1 => calls'[events[i]] = 1 /\ events[i] \in found
                      /\ i >= li + 1 => /\ calls'[events[i]] = 0
                                        /\ \/ events[i] \in over \/ Overdue(events[i])
                                           \/ events[i] \in found
    BY <1>1, <1>7, <2>1 DEF Walked
  <2>2. CASE i = li
    BY <2>2, <1>3, <1>5, <1>1
  <2>3. CASE i < li
    BY <2>1, <2>3, <1>1, <1>2, <1>3, <1>4 DEF Walked
  <2>4. CASE i > li
    BY <2>1, <2>4, <1>1, <1>2, <1>3, <1>4 DEF Walked
  <2> QED
    BY <2>2, <2>3, <2>4, <1>1
<1>9. Served'
  <2> SUFFICES ASSUME NEW e \in Events, ~InList(e) PROVE ServedOne(e)'
    BY <1>1 DEF Served, InList
  <2>1. e # events[li]
    BY <1>1 DEF InList
  <2>2. ServedOne(e)
    BY DEF EvInv, Served
  <2> QED
    BY <2>1, <2>2, <1>1, <1>3 DEF ServedOne
<1> QED
  BY <1>6, <1>8, <1>9 DEF EvInv

LEMMA UnlockKeeps == ASSUME EvInv, EvUnlock PROVE EvInv'
<1>1. /\ li > Len(events) /\ li > 0 /\ Len(events) \in Nat /\ li \in Nat /\ li' = 0
      /\ UNCHANGED <<events, over, when, clock, now, waiting, found, calls>>
  BY LenProperties DEF EvUnlock, EvInv, EvTypeOK
<1>2. EvTypeOK' /\ Once' /\ Walked'
  BY <1>1 DEF EvInv, EvTypeOK, Once, Walked, InList
<1>3. Served'
  <2> SUFFICES ASSUME NEW e \in Events PROVE ServedOne(e)
    BY <1>1 DEF Served, ServedOne
  <2>1. CASE InList(e)
    <3>1. PICK i \in 1 .. Len(events) : events[i] = e
      BY <2>1 DEF InList
    <3>2. i < li
      BY <1>1
    <3> QED
      BY <3>1, <3>2, <1>1 DEF EvInv, Walked, ServedOne
  <2>2. CASE ~InList(e)
    BY <2>2 DEF EvInv, Served
  <2> QED
    BY <2>1, <2>2
<1> QED
  BY <1>2, <1>3 DEF EvInv

LEMMA EvKept == EvInv /\ [EvNext]_evVars => EvInv'
<1> SUFFICES ASSUME EvInv, [EvNext]_evVars PROVE EvInv'
  OBVIOUS
<1> USE DEF EvInv, EvTypeOK, Once, Served, ServedOne, Walked, InList, Overdue
<1>1. CASE UNCHANGED evVars
  BY <1>1 DEF evVars
<1>2. CASE EvTick
  BY <1>2, EventAssumption DEF EvTick
<1>3. CASE Dispatch
  BY <1>3 DEF Dispatch
<1>4. CASE EvLock \/ Erase \/ CallBack \/ EvUnlock
  BY <1>4, LockKeeps, EraseKeeps, CallBackKeeps, UnlockKeeps
<1>5. CASE \E e \in Events : AddMsgEvent(e)
  BY <1>5, AddKeepsEv
<1>6. ASSUME NEW e \in Events, SetDone(e) PROVE EvInv'
  BY <1>6 DEF SetDone
<1> QED
  BY <1>1, <1>2, <1>3, <1>4, <1>5, <1>6 DEF EvNext

(* dispatch_msgevent: whoever adds entries, is through with them or waits  *)
(* for the lock meanwhile, a message is told once to every entry that was  *)
(* due, and to nobody else.                                                *)
THEOREM HeardOnceCorrect == EvSpec => []HeardOnce
<1>1. EvInv => HeardOnce
  BY DEF EvInv, Served, ServedOne, HeardOnce
<1> QED
  BY EvInitially, EvKept, <1>1, PTL DEF EvSpec
-----------------------------------------------------------------------------
(* The quiz.  Only the thread of the latest question may be at work, and   *)
(* as long as a question or its judgement is in progress nobody has won.   *)

QuizInv ==
    /\ asked \in Nat /\ sleeping \cup closing \subseteq {asked}
    /\ wins \subseteq Nicks \X Nat /\ \A w \in wins : w[2] <= asked
    /\ mainAt = "judging" => guess[1] \in Nicks
    /\ accepting \/ mainAt = "judging" => \A w \in wins : w[2] # asked
    /\ \A v, w \in wins : v[2] = w[2] => v = w

Fair ==
    /\ accepting /\ ~accepting' => wins' # wins \/ asked \in sleeping \ sleeping'
    /\ \A v, w \in wins' : v[2] = w[2] => v = w

LEMMA QuizInitially == QuizInit => QuizInv
BY DEF QuizInit, QuizInv

LEMMA JudgeKeepsFair == ASSUME QuizInv, Judge PROVE QuizInv' /\ Fair
<1>1. CASE guess[1] \notin answered /\ guess[2] \in answers
  <2>1. /\ mainAt = "judging" /\ mainAt' = "idle" /\ accepting' = FALSE
        /\ wins' = wins \cup {<<guess[1], asked>>}
        /\ UNCHANGED <<asked, sleeping, closing, guess>>
    BY <1>1 DEF Judge
  <2>2. <<guess[1], asked>> \notin wins /\ <<guess[1], asked>> \in Nicks \X Nat
    BY <2>1 DEF QuizInv
  <2> QED
    BY <2>1, <2>2 DEF QuizInv, Fair
<1>2. CASE ~(guess[1] \notin answered /\ guess[2] \in answers)
  BY <1>2 DEF Judge, QuizInv, Fair
<1> QED
  BY <1>1, <1>2

LEMMA QuizKept == QuizInv /\ [QuizNext]_quizVars => QuizInv' /\ [Fair]_quizVars
<1> SUFFICES ASSUME QuizInv, [QuizNext]_quizVars PROVE QuizInv' /\ (Fair \/ UNCHANGED quizVars)
  OBVIOUS
<1> USE DEF gameVars
<1>1. CASE UNCHANGED quizVars
  BY <1>1 DEF quizVars, QuizInv
<1>2. CASE QOpen
  BY <1>2 DEF QOpen, QuizInv, Fair
<1>3. CASE QClose \/ QAsk
  BY <1>3 DEF QClose, QAsk, QuizInv, Fair
<1>4. CASE QAsked
  BY <1>4 DEF QAsked, FutGet, QuizInv, Fair
<1>5. CASE Judge
  BY <1>5, JudgeKeepsFair
<1>6. ASSUME NEW q \in sleeping \cup closing, QEndCloses(q) \/ QEndReports(q)
      PROVE  QuizInv' /\ Fair
  BY <1>6 DEF QEndCloses, QEndReports, QuizInv, Fair
<1>7. ASSUME NEW n \in Nicks, NEW g \in Guesses, Hear(n, g) PROVE QuizInv' /\ Fair
  BY <1>7 DEF Hear, QuizInv, Fair
<1> QED
  BY <1>1, <1>2, <1>3, <1>4, <1>5, <1>6, <1>7 DEF QuizNext

(* plugin-trivial: a question ends with a right answer or by its own       *)
(* thread, and has one winner, for any players, quiz and number of         *)
(* questions and whatever their threads do late.                           *)
THEOREM FairPlayCorrect == QuizSpec => FairPlay
<1> QED
  BY QuizInitially, QuizKept, PTL DEF QuizSpec, FairPlay, Fair
-----------------------------------------------------------------------------
(* Joins.  The bot is in no channel that it neither has on its list nor    *)
(* has in hand (Held), so a loop of goodbyes that begins has before it all *)
(* it has to leave, and what comes in while it runs is set down in after   *)
(* (Ahead): also a channel that had been sent before and is entered late,  *)
(* or that a /raw is then followed by a proper join of (Noted).            *)

JoinsTypeOK ==
    /\ inside \subseteq Chans /\ chans \subseteq Chans
    /\ at \in [Threads -> {"waiting", "taken", "connecting"}] /\ job \in [Threads -> Jobs]
    /\ done \in BOOLEAN /\ gone \in BOOLEAN
    /\ after \subseteq Chans /\ raw \subseteq Chans

InHand(c) == \E t \in Threads : job[t].kind \in {"join", "part"} /\ job[t].chan = c
BeingParted(c) == \E t \in Threads : job[t].kind = "part" /\ job[t].chan = c

Held == \A c \in inside : c \in chans \/ c \in raw \/ InHand(c)
Ahead ==
    \A t \in Threads : job[t].kind = "bye" =>
        \A c \in inside : c \in job[t].left \/ c \in after \/ c \in raw \/ BeingParted(c)
Noted ==
    Leaving => \A t \in Threads :
        job[t].kind = "join" /\ job[t].chan \in inside => job[t].chan \in after
Out == gone => \A c \in inside : c \in after \/ c \in raw \/ BeingParted(c)

JoinsInv == JoinsTypeOK /\ Held /\ Ahead /\ Noted /\ Out

LEMMA JoinsInitially == JoinsInit => JoinsInv
<1> SUFFICES ASSUME JoinsInit PROVE JoinsInv
  OBVIOUS
<1>1. \A t \in Threads : job[t].kind = "none"
  BY DEF JoinsInit, NoJob, Job
<1>2. JoinsTypeOK
  BY DEF JoinsInit, JoinsTypeOK, NoJob, Job, Jobs
<1>3. Held /\ Ahead /\ Noted /\ Out
  BY <1>1 DEF JoinsInit, Held, Ahead, Noted, Out, Leaving
<1> QED BY <1>2, <1>3 DEF JoinsInv

LEMMA MainThread == Main \in Threads
BY DEF Threads

LEMMA TakeKeeps ==
  ASSUME JoinsInv, NEW t \in Threads, Take(t)
  PROVE  JoinsInv'
<1> USE JoinsAssumption, MainThread DEF JoinsInv, JoinsTypeOK, Jobs, Take, Idle, NoJob, Job
<1>1. JoinsTypeOK'
  OBVIOUS
<1>2. Held'
  BY DEF Held, InHand
<1>3. Ahead'
  BY DEF Ahead, BeingParted
<1>4. Noted'
  BY DEF Noted, Leaving
<1>5. Out'
  BY DEF Out, BeingParted, Leaving
<1> QED BY <1>1, <1>2, <1>3, <1>4, <1>5 DEF JoinsInv

LEMMA WelcomedKeeps ==
  ASSUME JoinsInv, Welcomed
  PROVE  JoinsInv'
<1> USE JoinsAssumption, MainThread DEF JoinsInv, JoinsTypeOK, Jobs, Welcomed, Handling,
       Idle, NoJob, Job
<1>1. JoinsTypeOK'
  OBVIOUS
<1>2. Held'
  BY DEF Held, InHand
<1>3. Ahead'
  BY DEF Ahead, BeingParted
<1>4. Noted'
  BY DEF Noted, Leaving
<1>5. Out'
  BY DEF Out, BeingParted, Leaving
<1> QED BY <1>1, <1>2, <1>3, <1>4, <1>5 DEF JoinsInv

LEMMA JoinOfficialKeeps ==
  ASSUME JoinsInv, NEW cs \in SUBSET Chans, JoinOfficial(cs)
  PROVE  JoinsInv'
<1> USE JoinsAssumption, MainThread DEF JoinsInv, JoinsTypeOK, Jobs, JoinOfficial, Idle,
       NoJob, Job
<1>1. JoinsTypeOK'
  OBVIOUS
<1>2. Held'
  BY DEF Held, InHand
<1>3. Ahead'
  BY DEF Ahead, BeingParted
<1>4. Noted'
  BY DEF Noted, Leaving
<1>5. Out'
  BY DEF Out, BeingParted, Leaving
<1> QED BY <1>1, <1>2, <1>3, <1>4, <1>5 DEF JoinsInv

LEMMA AskedKeeps ==
  ASSUME JoinsInv, NEW c \in Chans, Asked(c)
  PROVE  JoinsInv'
<1> USE JoinsAssumption, MainThread DEF JoinsInv, JoinsTypeOK, Jobs, Asked, Handling,
       Idle, NoJob, Job, Begin
<1>1. JoinsTypeOK'
  OBVIOUS
<1>2. Held'
  BY DEF Held, InHand
<1>3. Ahead'
  BY DEF Ahead, BeingParted
<1>4. Noted'
  BY DEF Noted, Leaving
<1>5. Out'
  BY DEF Out, BeingParted, Leaving
<1> QED BY <1>1, <1>2, <1>3, <1>4, <1>5 DEF JoinsInv

LEMMA ExecJoinKeeps ==
  ASSUME JoinsInv, NEW t \in Threads, NEW c \in Chans, ExecJoin(t, c)
  PROVE  JoinsInv'
<1> USE JoinsAssumption, MainThread DEF JoinsInv, JoinsTypeOK, Jobs, ExecJoin, Executing,
       Idle, NoJob, Job, Begin
<1>1. JoinsTypeOK'
  OBVIOUS
<1>2. Held'
  BY DEF Held, InHand
<1>3. Ahead'
  BY DEF Ahead, BeingParted
<1>4. Noted'
  BY DEF Noted, Leaving
<1>5. Out'
  BY DEF Out, BeingParted, Leaving
<1> QED BY <1>1, <1>2, <1>3, <1>4, <1>5 DEF JoinsInv

LEMMA SendJoinKeeps ==
  ASSUME JoinsInv, NEW t \in Threads, NEW c \in Chans, SendJoin(t, c)
  PROVE  JoinsInv'
<1> USE JoinsAssumption, MainThread DEF JoinsInv, JoinsTypeOK, Jobs, SendJoin, Entered,
       Leaving
<1>1. JoinsTypeOK'
  OBVIOUS
<1>2. Held'
  BY DEF Held, InHand
<1>3. Ahead'
  BY DEF Ahead, BeingParted
<1>4. Noted'
  BY DEF Noted
<1>5. Out'
  BY DEF Out, BeingParted
<1> QED BY <1>1, <1>2, <1>3, <1>4, <1>5 DEF JoinsInv

LEMMA NoteJoinKeeps ==
  ASSUME JoinsInv, NEW t \in Threads, NoteJoin(t)
  PROVE  JoinsInv'
<1> USE JoinsAssumption, MainThread DEF JoinsInv, JoinsTypeOK, Jobs, NoteJoin, Inserted
<1>1. JoinsTypeOK'
  OBVIOUS
<1>2. Held'
  BY DEF Held, InHand
<1>3. Ahead'
  BY DEF Ahead, Noted, Leaving, BeingParted
<1>4. Noted'
  BY DEF Noted, Leaving
<1>5. Out'
  BY DEF Out, Noted, BeingParted, Leaving
<1> QED BY <1>1, <1>2, <1>3, <1>4, <1>5 DEF JoinsInv

LEMMA JoinedKeeps ==
  ASSUME JoinsInv, NEW t \in Threads, Joined(t)
  PROVE  JoinsInv'
<1> USE JoinsAssumption, MainThread DEF JoinsInv, JoinsTypeOK, Jobs, Joined, Job, End, NoJob
<1>1. JoinsTypeOK'
  OBVIOUS
<1>2. Held'
  BY DEF Held, InHand
<1>3. Ahead'
  BY DEF Ahead, BeingParted
<1>4. Noted'
  BY DEF Noted, Leaving
<1>5. Out'
  BY DEF Out, BeingParted, Leaving
<1> QED BY <1>1, <1>2, <1>3, <1>4, <1>5 DEF JoinsInv

LEMMA RawJoinKeeps ==
  ASSUME JoinsInv, NEW t \in Threads, NEW c \in Chans, RawJoin(t, c)
  PROVE  JoinsInv'
<1> USE JoinsAssumption, MainThread DEF JoinsInv, JoinsTypeOK, Jobs, RawJoin, Executing,
       Idle, NoJob, Job, Begin, Entered, Leaving
<1>1. JoinsTypeOK'
  OBVIOUS
<1>2. Held'
  BY DEF Held, InHand
<1>3. Ahead'
  BY DEF Ahead, BeingParted
<1>4. Noted'
  BY DEF Noted
<1>5. Out'
  BY DEF Out, BeingParted
<1> QED BY <1>1, <1>2, <1>3, <1>4, <1>5 DEF JoinsInv

LEMMA RawPartKeeps ==
  ASSUME JoinsInv, NEW t \in Threads, NEW c \in Chans, RawPart(t, c)
  PROVE  JoinsInv'
<1> USE JoinsAssumption, MainThread DEF JoinsInv, JoinsTypeOK, Jobs, RawPart, Executing,
       Idle, NoJob, Job, Begin, Left
<1>1. JoinsTypeOK'
  OBVIOUS
<1>2. Held'
  BY DEF Held, InHand
<1>3. Ahead'
  BY DEF Ahead, BeingParted
<1>4. Noted'
  BY DEF Noted, Leaving
<1>5. Out'
  BY DEF Out, BeingParted, Leaving
<1> QED BY <1>1, <1>2, <1>3, <1>4, <1>5 DEF JoinsInv

LEMMA UserPartKeeps ==
  ASSUME JoinsInv, NEW c \in Chans, UserPart(c)
  PROVE  JoinsInv'
<1> USE JoinsAssumption, MainThread DEF JoinsInv, JoinsTypeOK, Jobs, UserPart, Handling,
       Idle, NoJob, Job, Left, Begin
<1>1. JoinsTypeOK'
  OBVIOUS
<1>2. Held'
  BY DEF Held, InHand
<1>3. Ahead'
  BY DEF Ahead, BeingParted
<1>4. Noted'
  BY DEF Noted, Leaving
<1>5. Out'
  BY DEF Out, BeingParted, Leaving
<1> QED BY <1>1, <1>2, <1>3, <1>4, <1>5 DEF JoinsInv

LEMMA JoinSeenKeeps ==
  ASSUME JoinsInv, NEW c \in Chans, JoinSeen(c)
  PROVE  JoinsInv'
<1> USE JoinsAssumption, MainThread DEF JoinsInv, JoinsTypeOK, Jobs, JoinSeen, Handling,
       Idle, NoJob, Job, Left, Begin
<1>1. JoinsTypeOK'
  OBVIOUS
<1>2. Held'
  BY DEF Held, InHand
<1>3. Ahead'
  BY DEF Ahead, BeingParted
<1>4. Noted'
  BY DEF Noted, Leaving
<1>5. Out'
  BY DEF Out, BeingParted, Leaving
<1> QED BY <1>1, <1>2, <1>3, <1>4, <1>5 DEF JoinsInv

LEMMA ExecPartKeeps ==
  ASSUME JoinsInv, NEW t \in Threads, NEW c \in Chans, ExecPart(t, c)
  PROVE  JoinsInv'
<1> USE JoinsAssumption, MainThread DEF JoinsInv, JoinsTypeOK, Jobs, ExecPart, Executing,
       Idle, NoJob, Job
<1>1. JoinsTypeOK'
  <2>1. PICK u \in Threads, skipped \in {{}, {c}} :
           job' = [job EXCEPT ![t] = Job("part", {}, c),
                              ![u].left = IF job[u].kind = "bye" THEN @ \ skipped ELSE @]
    BY DEF ExecPart
  <2>2. job[u].left \ skipped \in SUBSET Chans
    BY DEF JoinsTypeOK, Jobs
  <2>3. job' \in [Threads -> Jobs]
    BY <2>1, <2>2 DEF JoinsTypeOK, Jobs, Job
  <2> QED BY <2>3 DEF ExecPart, Executing, JoinsTypeOK
<1>2. Held'
  BY DEF Held, InHand
<1>3. Ahead'
  BY DEF Ahead, BeingParted
<1>4. Noted'
  BY DEF Noted, Leaving
<1>5. Out'
  BY DEF Out, BeingParted, Leaving
<1> QED BY <1>1, <1>2, <1>3, <1>4, <1>5 DEF JoinsInv

LEMMA SendPartKeeps ==
  ASSUME JoinsInv, NEW t \in Threads, SendPart(t)
  PROVE  JoinsInv'
<1> USE JoinsAssumption, MainThread DEF JoinsInv, JoinsTypeOK, Jobs, SendPart, Left, End,
       NoJob, Job
<1>1. JoinsTypeOK'
  OBVIOUS
<1>2. Held'
  BY DEF Held, InHand
<1>3. Ahead'
  BY DEF Ahead, BeingParted
<1>4. Noted'
  BY DEF Noted, Leaving
<1>5. Out'
  BY DEF Out, BeingParted, Leaving
<1> QED BY <1>1, <1>2, <1>3, <1>4, <1>5 DEF JoinsInv

LEMMA GoodbyeKeeps ==
  ASSUME JoinsInv, NEW t \in Threads, Goodbye(t)
  PROVE  JoinsInv'
<1> USE JoinsAssumption, MainThread DEF JoinsInv, JoinsTypeOK, Jobs, Goodbye, Handling,
       Idle, NoJob, Job, Executing, Begin
<1>1. JoinsTypeOK'
  OBVIOUS
<1>2. Held'
  BY DEF Held, InHand
<1>3. Ahead'
  BY DEF Ahead, Held, InHand, BeingParted
<1>4. Noted'
  BY DEF Noted, Leaving
<1>5. Out'
  BY DEF Out, BeingParted, Leaving
<1> QED BY <1>1, <1>2, <1>3, <1>4, <1>5 DEF JoinsInv

LEMMA SayByeKeeps ==
  ASSUME JoinsInv, NEW t \in Threads, NEW c \in Chans, SayBye(t, c)
  PROVE  JoinsInv'
<1> USE JoinsAssumption, MainThread DEF JoinsInv, JoinsTypeOK, Jobs, SayBye, Left
<1>1. JoinsTypeOK'
  OBVIOUS
<1>2. Held'
  BY DEF Held, InHand
<1>3. Ahead'
  BY DEF Ahead, BeingParted
<1>4. Noted'
  BY DEF Noted, Leaving
<1>5. Out'
  BY DEF Out, BeingParted, Leaving
<1> QED BY <1>1, <1>2, <1>3, <1>4, <1>5 DEF JoinsInv

LEMMA DieKeeps ==
  ASSUME JoinsInv, NEW t \in Threads, Die(t)
  PROVE  JoinsInv'
<1> USE JoinsAssumption, MainThread DEF JoinsInv, JoinsTypeOK, Jobs, Die, Job, End, NoJob
<1>1. JoinsTypeOK'
  OBVIOUS
<1>2. Held'
  BY DEF Held, InHand
<1>3. Ahead'
  BY DEF Ahead, BeingParted
<1>4. Noted'
  BY DEF Noted, Leaving
<1>5. Out'
  BY DEF Out, Ahead, BeingParted, Leaving
<1> QED BY <1>1, <1>2, <1>3, <1>4, <1>5 DEF JoinsInv

LEMMA UserRestartKeeps ==
  ASSUME JoinsInv, UserRestart
  PROVE  JoinsInv'
<1> USE JoinsAssumption, MainThread DEF JoinsInv, JoinsTypeOK, Jobs, UserRestart,
       Handling, Idle, NoJob, Job, Begin
<1>1. JoinsTypeOK'
  OBVIOUS
<1>2. Held'
  BY DEF Held, InHand
<1>3. Ahead'
  BY DEF Ahead, BeingParted
<1>4. Noted'
  BY DEF Noted, Leaving
<1>5. Out'
  BY DEF Out, BeingParted, Leaving
<1> QED BY <1>1, <1>2, <1>3, <1>4, <1>5 DEF JoinsInv

LEMMA DisconnectedKeeps ==
  ASSUME JoinsInv, Disconnected
  PROVE  JoinsInv'
<1> USE JoinsAssumption, MainThread DEF JoinsInv, JoinsTypeOK, Jobs, Disconnected, Left
<1>1. JoinsTypeOK'
  OBVIOUS
<1>2. Held'
  BY DEF Held, InHand
<1>3. Ahead'
  BY DEF Ahead, BeingParted
<1>4. Noted'
  BY DEF Noted, Leaving
<1>5. Out'
  BY DEF Out, BeingParted, Leaving
<1> QED BY <1>1, <1>2, <1>3, <1>4, <1>5 DEF JoinsInv

LEMMA JoinsKept == JoinsInv /\ [JoinsNext]_joinVars => JoinsInv'
<1> SUFFICES ASSUME JoinsInv, [JoinsNext]_joinVars PROVE JoinsInv'
  OBVIOUS
<1>1. CASE UNCHANGED joinVars
  <2>1. JoinsTypeOK' /\ Held' /\ Ahead'
    BY <1>1 DEF joinVars, JoinsInv, JoinsTypeOK, Held, InHand, Ahead, BeingParted
  <2>2. Noted' /\ Out'
    BY <1>1 DEF joinVars, JoinsInv, Noted, Leaving, Out, BeingParted
  <2> QED BY <2>1, <2>2 DEF JoinsInv
<1>2. ASSUME NEW t \in Threads, OfThread(t) PROVE JoinsInv'
  BY <1>2, TakeKeeps, GoodbyeKeeps, NoteJoinKeeps, JoinedKeeps, SendPartKeeps, DieKeeps,
     ExecJoinKeeps, RawJoinKeeps, RawPartKeeps, ExecPartKeeps, SendJoinKeeps, SayByeKeeps
     DEF OfThread
<1>3. ASSUME NEW c \in Chans, Asked(c) \/ UserPart(c) \/ JoinSeen(c) PROVE JoinsInv'
  BY <1>3, AskedKeeps, UserPartKeeps, JoinSeenKeeps
<1> QED
  BY <1>1, <1>2, <1>3, WelcomedKeeps, UserRestartKeeps, DisconnectedKeeps, JoinOfficialKeeps
     DEF JoinsNext

(* IrcBot: when a loop of goodbyes has ended, on whichever thread and for  *)
(* any channels, the bot is in none but those joined since a loop began,   *)
(* those /raw has joined and one that is just being parted from, whatever  *)
(* the other thread joined, parted from or entered in chans meanwhile.     *)
THEOREM LeavesAllCorrect == JoinsSpec => []LeavesAll
<1>1. JoinsInv => LeavesAll
  BY DEF JoinsInv, Out, BeingParted, LeavesAll, Parting
<1> QED
  BY JoinsInitially, JoinsKept, <1>1, PTL DEF JoinsSpec
-----------------------------------------------------------------------------
(* Commands                                                                *)

(* AliasedOnly of one step.                                                *)
Aliased ==
    \A a \in Set("command.alias") :
        /\ last'.chan = a[1] /\ last'.cmd = a[3] /\ last'.ran # None
        => last'.ran # a[3]

(* The commands of the bot itself run nothing.                             *)
LEMMA NothingRan == ASSUME last' = Silence PROVE Aliased
BY DEF Aliased, Silence

LEMMA ExecuteAliased ==
  ASSUME NEW u, NEW c, NEW cmd \in DOMAIN PluginOf, Execute(u, c, cmd)
  PROVE  Aliased
<1>1. PICK meant \in Meant(cmd, c) : \E ran \in {meant, None} :
          last' = [user |-> u, chan |-> c, cmd |-> cmd, ran |-> ran]
  BY DEF Execute, Heard
<1>2. PICK ran \in {meant, None} : last' = [user |-> u, chan |-> c, cmd |-> cmd, ran |-> ran]
  BY <1>1
<1> SUFFICES ASSUME NEW a \in Set("command.alias"), c = a[1], cmd = a[3], ran # None
             PROVE  ran # a[3]
  BY <1>2 DEF Aliased
<1>3. a \in Hits(cmd, c)
  BY DEF Hits
<1>4. PICK h \in Hits(cmd, c) : meant = IF h[3] = cmd THEN None ELSE h[3]
  BY <1>3 DEF Meant
<1> QED BY <1>4, CommandAssumption

LEMMA StepAliased == CmdNext => Aliased \/ UNCHANGED last
<1> SUFFICES ASSUME CmdNext PROVE Aliased \/ UNCHANGED last
  OBVIOUS
<1>1. CASE ExecReconfigure \/ ExecReload
  BY <1>1 DEF ExecReconfigure, ExecReload
<1>2. ASSUME NEW f \in MainFiles, Edit(f) PROVE UNCHANGED last
  BY <1>2 DEF Edit
<1>3. ASSUME NEW p \in Passwords, BuiltIn(p) PROVE Aliased
  BY <1>3, NothingRan DEF BuiltIn, UserReconfigure, UserPset
<1>4. ASSUME NEW u \in Users, NEW c \in Channels \cup {PM}, NEW cmd \in DOMAIN PluginOf,
             Execute(u, c, cmd)
      PROVE  Aliased
  BY <1>4, ExecuteAliased
<1> QED BY <1>1, <1>2, <1>3, <1>4 DEF CmdNext

(* IrcBot::execute: in whatever order the aliases stand, and whatever a    *)
(* reconfiguration makes of them, a command that has an alias in a channel *)
(* does not run there under its own name.                                  *)
THEOREM AliasedOnlyCorrect == CmdSpec => AliasedOnly
<1>1. [CmdNext]_cmdVars => [Aliased]_last
  BY StepAliased DEF cmdVars
<1> QED
  BY <1>1, PTL DEF CmdSpec, AliasedOnly, Aliased
-----------------------------------------------------------------------------
(* Messages.  What Trim leaves of the words of a line: from the first word *)
(* that is not blank to the last one.                                      *)

Ends(w, m) ==
    /\ m \in 0 .. Len(w) /\ (m = 0 \/ w[m] # Word(Blank))
    /\ \A i \in 1 .. Len(w) : i > m => w[i] = Word(Blank)

LEMMA SkipToFirst ==
  ASSUME NEW s, Len(s) \in Nat, NEW n \in 1 .. Len(s), s[n] # Word(Blank),
         \A i \in 1 .. Len(s) : i < n => s[i] = Word(Blank)
  PROVE  SkipBlanks(s) = SubSeq(s, n, Len(s))
<1> DEFINE I == {i \in 1 .. Len(s) : s[i] # Word(Blank)}
<1>1. n \in I /\ \A y \in I : n <= y
  OBVIOUS
<1>2. Min(I) \in I /\ \A y \in I : Min(I) <= y
  BY <1>1 DEF Min
<1>3. Min(I) = n
  BY <1>1, <1>2
<1>4. SelectInSeq(s, LAMBDA w : w # Word(Blank)) = n
  BY <1>1, <1>3 DEF SelectInSeq
<1>5. n # 0
  OBVIOUS
<1> QED BY <1>4, <1>5, Zenon DEF SkipBlanks

LEMMA SkipAllBlank ==
  ASSUME NEW s, \A i \in 1 .. Len(s) : s[i] = Word(Blank)
  PROVE  SkipBlanks(s) = <<>>
<1>1. SelectInSeq(s, LAMBDA w : w # Word(Blank)) = 0
  BY DEF SelectInSeq
<1> QED BY <1>1 DEF SkipBlanks

LEMMA ReverseFacts ==
  ASSUME NEW T, NEW s \in Seq(T)
  PROVE  /\ Reverse(s) \in Seq(T) /\ Len(Reverse(s)) = Len(s)
         /\ \A i \in 1 .. Len(s) : Reverse(s)[i] = s[(Len(s) - i) + 1]
<1>1. Len(s) \in Nat /\ \A i \in 1 .. Len(s) : s[i] \in T
  BY LenProperties, ElementOfSeq
<1> QED BY <1>1 DEF Reverse

LEMMA TrimRightTo ==
  ASSUME NEW T, NEW w \in Seq(T), NEW m, Ends(w, m)
  PROVE  TrimRight(w) = SubSeq(w, 1, m)
<1>1. PICK n \in Nat : n = Len(w) /\ \A i \in 1 .. n : w[i] \in T
  BY LenProperties, ElementOfSeq
<1>2. PICK u \in Seq(T) : u = Reverse(w) /\ Len(u) = n /\ \A i \in 1 .. n : u[i] = w[(n - i) + 1]
  BY <1>1, ReverseFacts
<1>3. m \in 0 .. n /\ (m = 0 \/ w[m] # Word(Blank))
      /\ \A i \in 1 .. n : i > m => w[i] = Word(Blank)
  BY <1>1 DEF Ends
<1>4. CASE m = 0
  <2>1. \A i \in 1 .. n : u[i] = Word(Blank)
    BY <1>2, <1>3, <1>4
  <2>2. SkipBlanks(u) = <<>>
    BY <2>1, <1>2, SkipAllBlank
  <2>3. Reverse(<<>>) = <<>>
    BY DEF Reverse
  <2>4. SubSeq(w, 1, m) = <<>>
    BY <1>4, SubSeqEmpty
  <2> QED BY <2>2, <2>3, <2>4, <1>2 DEF TrimRight
<1>5. CASE m # 0
  <2>1. PICK k \in 1 .. n : k = (n - m) + 1
    BY <1>3, <1>5
  <2>2. u[k] # Word(Blank) /\ \A i \in 1 .. n : i < k => u[i] = Word(Blank)
    BY <2>1, <1>2, <1>3, <1>5
  <2>3. SkipBlanks(u) = SubSeq(u, k, n)
    BY <2>1, <2>2, <1>2, SkipToFirst
  <2>4. PICK r \in Seq(T) : /\ r = SubSeq(u, k, n) /\ Len(r) = m
                            /\ \A i \in 1 .. m : r[i] = u[(k + i) - 1]
    <3>1. k \in 1 .. Len(u) /\ m \in Nat /\ m = (Len(u) - k) + 1 /\ Len(u) = n
      BY <2>1, <1>1, <1>2, <1>3, <1>5
    <3>2. /\ SubSeq(u, k, Len(u)) \in Seq(T) /\ Len(SubSeq(u, k, Len(u))) = m
          /\ \A i \in 1 .. m : SubSeq(u, k, Len(u))[i] = u[(k + i) - 1]
      BY <3>1, FromOn
    <3> QED BY <3>1, <3>2
  <2>5. /\ Reverse(r) \in Seq(T) /\ Len(Reverse(r)) = m
        /\ \A i \in 1 .. m : Reverse(r)[i] = r[(m - i) + 1]
    BY <2>4, ReverseFacts
  <2>6. ASSUME NEW i \in 1 .. m PROVE Reverse(r)[i] = w[i]
    <3>1. (m - i) + 1 \in 1 .. m
      BY <1>3
    <3>2. PICK j \in 1 .. n : j = (n - i) + 1 /\ (n - j) + 1 = i
                              /\ j = (k + ((m - i) + 1)) - 1
      <4>1. i \in 1 .. n
        BY <1>3
      <4>2. (n - i) + 1 \in 1 .. n
        BY <4>1
      <4> QED BY <4>1, <4>2, <1>3, <2>1
    <3>3. r[(m - i) + 1] = u[j]
      BY <3>1, <3>2, <2>4
    <3> QED BY <3>2, <3>3, <2>5, <1>2
  <2>7. /\ SubSeq(w, 1, m) \in Seq(T) /\ Len(SubSeq(w, 1, m)) = m
        /\ \A i \in 1 .. m : SubSeq(w, 1, m)[i] = w[i]
    <3>1. \A i \in 1 .. m : w[i] \in T
      BY <1>1, <1>3
    <3> QED BY <3>1, <1>3, SubSeqProperties
  <2>8. Reverse(r) = SubSeq(w, 1, m)
    <3>1. PICK a \in Seq(T) : a = Reverse(r)
      BY <2>5
    <3>2. PICK b \in Seq(T) : b = SubSeq(w, 1, m)
      BY <2>7
    <3>3. Len(a) = Len(b) /\ \A i \in 1 .. Len(a) : a[i] = b[i]
      BY <3>1, <3>2, <2>5, <2>6, <2>7
    <3>4. a = b
      BY <3>3, SeqEqual
    <3> QED BY <3>1, <3>2, <3>4
  <2> QED BY <2>3, <2>4, <2>8, <1>2 DEF TrimRight
<1> QED BY <1>4, <1>5

LEMMA EndsSomewhere ==
  ASSUME NEW T, NEW w \in Seq(T)
  PROVE  \E m : Ends(w, m)
<1>1. PICK n \in Nat : n = Len(w)
  BY LenProperties
<1> DEFINE I == {m \in 0 .. n : \A i \in 1 .. n : i > m => w[i] = Word(Blank)}
<1>2. n \in I /\ I \subseteq Nat
  OBVIOUS
<1>3. PICK m \in I : \A y \in I : m <= y
  BY <1>2, LeastOf
<1>4. ASSUME m # 0, w[m] = Word(Blank) PROVE FALSE
  <2>1. PICK k \in 0 .. n : k = m - 1
    BY <1>4
  <2>2. \A i \in 1 .. n : i > k => i = m \/ i > m
    BY <2>1
  <2>3. k \in I
    BY <2>2, <1>4
  <2>4. m <= k
    BY <2>3, <1>3, Zenon
  <2>5. m \in 0 .. n
    BY <1>3, Zenon
  <2> QED BY <2>1, <2>4, <2>5, <1>1
<1>5. Ends(w, m)
  BY <1>1, <1>4 DEF Ends
<1> QED BY <1>5

LEMMA TrimFrom ==
  ASSUME NEW T, NEW w \in Seq(T), w # <<>>, w[1] # Word(Blank), NEW m, Ends(w, m)
  PROVE  Trim(w) = SubSeq(w, 1, m)
<1>1. PICK n \in Nat : n = Len(w) /\ 1 \in 1 .. n
  BY EmptySeq
<1>2. PICK k \in 1 .. n : k = 1
  BY <1>1
<1>3. SkipBlanks(w) = SubSeq(w, k, n)
  BY <1>1, <1>2, SkipToFirst
<1>4. SkipBlanks(w) = w
  BY <1>1, <1>2, <1>3, SubSeqFull
<1> QED BY <1>4, TrimRightTo DEF Trim

\* Words that end in one that is not blank do so without their first ones.
LEMMA SkipEnds ==
  ASSUME NEW T, NEW w \in Seq(T), w = <<>> \/ w[Len(w)] # Word(Blank)
  PROVE  TrimRight(SkipBlanks(w)) = SkipBlanks(w)
<1>1. PICK n \in Nat : n = Len(w) /\ \A i \in 1 .. n : w[i] \in T
  BY LenProperties, ElementOfSeq
<1>2. CASE \A i \in 1 .. n : w[i] = Word(Blank)
  <2>1. w = <<>>
    BY <1>1, <1>2, EmptySeq
  <2>2. SkipBlanks(w) = <<>>
    BY <1>1, <1>2, SkipAllBlank
  <2>3. Ends(w, 0)
    BY <2>1 DEF Ends
  <2>4. TrimRight(w) = <<>>
    BY <2>3, TrimRightTo, SubSeqEmpty
  <2> QED BY <2>1, <2>2, <2>4
<1>3. CASE \E i \in 1 .. n : w[i] # Word(Blank)
  <2> DEFINE I == {i \in 1 .. n : w[i] # Word(Blank)}
  <2>1. PICK k \in I : \A y \in I : k <= y
    <3>1. I \subseteq Nat /\ I # {}
      BY <1>3
    <3> QED BY <3>1, LeastOf
  <2>2. SkipBlanks(w) = SubSeq(w, k, n)
    BY <1>1, <2>1, SkipToFirst
  <2>3. PICK m \in 1 .. n : m = (n - k) + 1
    OBVIOUS
  <2>4. PICK r \in Seq(T) : /\ r = SubSeq(w, k, n) /\ Len(r) = m
                            /\ \A i \in 1 .. m : r[i] = w[(k + i) - 1]
    <3>1. k \in 1 .. Len(w) /\ m \in Nat /\ m = (Len(w) - k) + 1 /\ Len(w) = n
      BY <2>3, <1>1
    <3>2. /\ SubSeq(w, k, Len(w)) \in Seq(T) /\ Len(SubSeq(w, k, Len(w))) = m
          /\ \A i \in 1 .. m : SubSeq(w, k, Len(w))[i] = w[(k + i) - 1]
      BY <3>1, FromOn
    <3> QED BY <3>1, <3>2
  <2>5. r[m] = w[n]
    BY <2>3, <2>4
  <2>6. w # <<>>
    BY <1>1, <2>1
  <2>7. Ends(r, m)
    BY <2>4, <2>5, <2>6, <1>1 DEF Ends
  <2>8. TrimRight(r) = r
    BY <2>4, <2>7, TrimRightTo, SubSeqFull
  <2> QED BY <2>2, <2>4, <2>8
<1> QED BY <1>2, <1>3

(* The parameters of a line: its middles, then the words of its text.      *)

LEMMA MiddlesEnd ==
  ASSUME NEW ps \in Seq(WordSet), NEW n \in Nat, n <= MaxMiddles, NEW l \in Nat, Len(ps) = l,
         n <= l, \A i \in 1 .. n : IsMiddle(ps[i]),
         NEW k \in Nat, k = n + 1, n < l => n = MaxMiddles \/ ps[k].colon
  PROVE  MiddleCount(ps) = n
<1> DEFINE ends == {i \in 1 .. l : i > MaxMiddles \/ ~IsMiddle(ps[i])}
<1>1. MaxMiddles = 14
  BY DEF MaxMiddles
<1>2. \A i \in ends : k <= i
  BY <1>1
<1>3. CASE n = l
  <2>1. ends = {}
    BY <1>2, <1>3
  <2> QED BY <2>1, <1>3 DEF MiddleCount
<1>4. CASE n < l
  <2>1. k \in 1 .. l
    BY <1>4
  <2>2. n # MaxMiddles => ~IsMiddle(ps[k])
    BY <1>4 DEF IsMiddle
  <2>3. k \in ends
    BY <2>1, <2>2, <1>1
  <2>4. \A i \in ends : (\A j \in ends : i <= j) => i = k
    BY <2>3, <1>2
  <2>5. (CHOOSE i \in ends : \A j \in ends : i <= j) = k
    BY <2>3, <2>4, <1>2
  <2>6. MiddleCount(ps) = k - 1
    BY <2>3, <2>5, Zenon DEF MiddleCount
  <2> QED BY <2>6
<1> QED BY <1>3, <1>4

\* What stands after the middles is the trailing text.
TextAfter(ps, n, t, m) ==
    /\ MiddleCount(ps) = n /\ m # 0 /\ Len(t) = m /\ Len(ps) = n + m
    /\ n = MaxMiddles \/ ps[n + 1].colon
    /\ t[1] = Word(ps[n + 1].text) /\ \A i \in 1 .. m : i # 1 => t[i] = ps[n + i]

LEMMA TrailingIs ==
  ASSUME NEW ps \in Seq(WordSet), NEW n \in Nat, NEW t \in Seq(WordSet), NEW m \in Nat,
         TextAfter(ps, n, t, m)
  PROVE  HasTrailing(ps) /\ Trailing(ps) = t
<1> USE DEF TextAfter
<1>1. PICK k \in 1 .. Len(ps) : k = n + 1
  OBVIOUS
<1>2. k \in 1 .. Len(ps) /\ m = (Len(ps) - k) + 1 /\ m \in Nat \ {0}
  BY <1>1
<1>3. PICK r \in Seq(WordSet) : /\ r = Rest(ps) /\ Len(r) = m
                                /\ \A i \in 1 .. m : r[i] = ps[(k + i) - 1]
  <2>1. Rest(ps) = SubSeq(ps, k, Len(ps))
    BY <1>1 DEF Rest
  <2>2. /\ SubSeq(ps, k, Len(ps)) \in Seq(WordSet) /\ Len(SubSeq(ps, k, Len(ps))) = m
        /\ \A i \in 1 .. m : SubSeq(ps, k, Len(ps))[i] = ps[(k + i) - 1]
    BY <1>2, FromOn
  <2> QED BY <2>1, <2>2
<1>4. r # <<>> /\ r[1] = ps[k]
  BY <1>3, EmptySeq
<1>5. HasTrailing(ps)
  BY <1>1, <1>3, <1>4 DEF HasTrailing
<1>6. PICK u \in Seq(WordSet) : u = Tail(r) /\ Len(u) = m - 1 /\ \A i \in 1 .. m - 1 : u[i] = r[i + 1]
  <2>1. /\ Tail(r) \in Seq(WordSet) /\ Len(Tail(r)) = m - 1
        /\ \A i \in 1 .. m - 1 : Tail(r)[i] = r[i + 1]
    BY <1>2, <1>3, TailIs
  <2> QED BY <2>1
<1>7. PICK v \in Seq(WordSet) : v = Tail(t) /\ Len(v) = m - 1 /\ \A i \in 1 .. m - 1 : v[i] = t[i + 1]
  <2>1. /\ Tail(t) \in Seq(WordSet) /\ Len(Tail(t)) = m - 1
        /\ \A i \in 1 .. m - 1 : Tail(t)[i] = t[i + 1]
    BY <1>2, TailIs
  <2> QED BY <2>1
<1> HIDE DEF TextAfter
<1>8. u = v
  <2>1. ASSUME NEW i \in 1 .. m - 1 PROVE u[i] = v[i]
    <3>1. PICK j \in 1 .. m : j = i + 1 /\ j # 1 /\ (k + j) - 1 = n + j
      <4>1. PICK j \in 1 .. m : j = i + 1 /\ j # 1
        OBVIOUS
      <4>2. (k + j) - 1 = n + j
        BY <1>1
      <4> QED BY <4>1, <4>2
    <3>2. u[i] = r[j] /\ v[i] = t[j]
      BY <3>1, <1>6, <1>7
    <3>3. r[j] = ps[n + j]
      BY <3>1, <1>3
    <3>4. t[j] = ps[n + j]
      BY <3>1 DEF TextAfter
    <3> QED BY <3>2, <3>3, <3>4
  <2> QED BY <2>1, <1>6, <1>7, SeqEqual
<1>9. Trailing(ps) = <<Word(ps[k].text)>> \o v
  BY <1>3, <1>4, <1>5, <1>6, <1>8 DEF Trailing
<1>10. t = <<t[1]>> \o v /\ t[1] = Word(ps[k].text)
  BY <1>1, <1>2, <1>7, EmptySeq, HeadTail DEF TextAfter
<1> QED BY <1>5, <1>9, <1>10

(* The words of a line, and what Trim leaves of them: the command, the     *)
(* middles that were sent and the words of the text.                       *)

TextWords(s) == IF s.text = <<>> THEN <<>>
                ELSE <<[s.text[1] EXCEPT !.colon = s.mark]>> \o Tail(s.text)

LEMMA Marked ==
  ASSUME NEW w \in WordSet, NEW mark \in BOOLEAN
  PROVE  [w EXCEPT !.colon = mark] = [colon |-> mark, text |-> w.text]
         /\ [colon |-> mark, text |-> w.text] \in WordSet
BY DEF WordSet

LEMMA TextWordsAre ==
  ASSUME NEW s, Grammatical(s), NEW l \in Nat, Len(s.text) = l
  PROVE  /\ TextWords(s) \in Seq(WordSet) /\ Len(TextWords(s)) = l
         /\ l # 0 => TextWords(s)[1] = [colon |-> s.mark, text |-> s.text[1].text]
         /\ \A i \in 1 .. l : i # 1 => TextWords(s)[i] = s.text[i]
<1>1. PICK t \in Seq(WordSet) : t = s.text
  BY DEF Grammatical
<1>2. CASE t = <<>>
  <2>1. l = 0
    BY <1>1, <1>2, EmptySeq
  <2> QED BY <2>1, <1>1, <1>2, EmptySeq DEF TextWords
<1>3. CASE t # <<>>
  <2>1. l # 0 /\ t[1] \in WordSet
    BY <1>1, <1>3, EmptySeq, HeadTail
  <2>2. PICK x \in WordSet : x = [t[1] EXCEPT !.colon = s.mark]
                             /\ x = [colon |-> s.mark, text |-> t[1].text]
    <3>1. s.mark \in BOOLEAN
      BY DEF Grammatical
    <3>2. /\ [t[1] EXCEPT !.colon = s.mark] = [colon |-> s.mark, text |-> t[1].text]
          /\ [colon |-> s.mark, text |-> t[1].text] \in WordSet
      BY <2>1, <3>1, Marked
    <3> QED BY <3>2, Zenon
  <2>3. PICK a \in Seq(WordSet) : a = <<x>> /\ Len(a) = 1 /\ a[1] = x
    <3>1. <<x>> \in Seq(WordSet) /\ Len(<<x>>) = 1 /\ <<x>>[1] = x
      BY OneOf
    <3> QED BY <3>1, Zenon
  <2>4. PICK k \in Nat : k = l - 1
    BY <2>1
  <2>5. Len(t) = l
    BY <1>1
  <2>6. PICK u \in Seq(WordSet) : u = Tail(t) /\ Len(u) = k /\ \A i \in 1 .. k : u[i] = t[i + 1]
    <3>1. /\ Tail(t) \in Seq(WordSet) /\ Len(Tail(t)) = l - 1
          /\ \A i \in 1 .. l - 1 : Tail(t)[i] = t[i + 1]
      BY <2>1, <2>5, TailIs
    <3> QED BY <3>1, <2>4
  <2>7. PICK r \in Seq(WordSet) :
           /\ r = a \o u /\ Len(r) = 1 + k
           /\ \A i \in 1 .. 1 + k : r[i] = IF i <= 1 THEN a[i] ELSE u[i - 1]
    <3>1. /\ a \o u \in Seq(WordSet) /\ Len(a \o u) = Len(a) + Len(u)
          /\ \A i \in 1 .. Len(a) + Len(u) :
                (a \o u)[i] = IF i <= Len(a) THEN a[i] ELSE u[i - Len(a)]
      BY ConcatProperties
    <3> QED BY <3>1, <2>3, <2>6
  <2>8. TextWords(s) = r
    BY <1>1, <1>3, <2>2, <2>3, <2>6, <2>7 DEF TextWords
  <2>9. r[1] = x /\ \A i \in 1 .. l : i # 1 => r[i] = t[i]
    BY <2>3, <2>4, <2>6, <2>7
  <2> QED BY <1>1, <2>2, <2>4, <2>7, <2>8, <2>9
<1> QED BY <1>2, <1>3

LineOf(w, s, k, l, n) ==
    /\ w \in Seq(WordSet) /\ Len(w) = n + l /\ w[1] = Word(s.command)
    /\ \A i \in 1 .. k : w[1 + i] = s.middles[i]
    /\ \A i \in 1 .. l : w[n + i] = TextWords(s)[i]

LEMMA WordsAre ==
  ASSUME NEW s, Grammatical(s), NEW k \in Nat, Len(s.middles) = k, NEW l \in Nat, Len(s.text) = l,
         NEW n \in Nat, n = 1 + k
  PROVE  LineOf(Line(s).words, s, k, l, n)
<1>1. PICK c \in Seq(WordSet) : c = <<Word(s.command)>> /\ Len(c) = 1 /\ c[1] = Word(s.command)
  <2>1. Word(s.command) \in WordSet
    BY DEF Word, WordSet, Grammatical
  <2>2. /\ <<Word(s.command)>> \in Seq(WordSet) /\ Len(<<Word(s.command)>>) = 1
        /\ <<Word(s.command)>>[1] = Word(s.command)
    BY <2>1, OneOf
  <2> QED BY <2>2, Zenon
<1>2. PICK m \in Seq(WordSet) : m = s.middles /\ Len(m) = k
  BY DEF Grammatical
<1>3. PICK t \in Seq(WordSet) : t = TextWords(s) /\ Len(t) = l
  BY TextWordsAre
<1>4. PICK a \in Seq(WordSet) : /\ a = c \o m /\ Len(a) = n
                                /\ \A i \in 1 .. n : a[i] = IF i <= 1 THEN c[i] ELSE m[i - 1]
  <2>1. /\ c \o m \in Seq(WordSet) /\ Len(c \o m) = Len(c) + Len(m)
        /\ \A i \in 1 .. Len(c) + Len(m) :
              (c \o m)[i] = IF i <= Len(c) THEN c[i] ELSE m[i - Len(c)]
    BY ConcatProperties
  <2> QED BY <2>1, <1>1, <1>2, Zenon
<1>5. PICK w \in Seq(WordSet) : w = a \o t
  BY ConcatProperties
<1>6. /\ Len(w) = Len(a) + Len(t)
       /\ \A i \in 1 .. Len(a) + Len(t) : w[i] = IF i <= Len(a) THEN a[i] ELSE t[i - Len(a)]
  BY <1>5, ConcatProperties
<1>7. /\ Len(w) = n + l
       /\ \A i \in 1 .. n + l : w[i] = IF i <= n THEN a[i] ELSE t[i - n]
  <2>1. Len(a) = n /\ Len(t) = l
    BY <1>3, <1>4
  <2> QED BY <2>1, <1>6
<1>8. Line(s).words = w
  <2>1. Line(s).words = (<<Word(s.command)>> \o s.middles) \o TextWords(s)
    BY DEF Line, TextWords
  <2> QED BY <2>1, <1>1, <1>2, <1>3, <1>4, <1>5
<1>9. w[1] = Word(s.command)
  BY <1>1, <1>4, <1>7
<1>10. ASSUME NEW i \in 1 .. k PROVE w[1 + i] = m[i]
  <2>1. PICK j \in 1 .. n : j = 1 + i /\ j \in 1 .. n + l /\ ~(j <= 1) /\ j - 1 = i
    OBVIOUS
  <2>2. w[j] = a[j]
    BY <2>1, <1>7
  <2>3. a[j] = m[i]
    BY <2>1, <1>4
  <2> QED BY <2>1, <2>2, <2>3
<1>11. ASSUME NEW i \in 1 .. l PROVE w[n + i] = t[i]
  <2>1. n + i \in 1 .. n + l /\ ~(n + i <= n) /\ (n + i) - (1 + k) = i
    OBVIOUS
  <2> QED BY <2>1, <1>7
<1> QED BY <1>2, <1>3, <1>7, <1>8, <1>9, <1>10, <1>11 DEF LineOf

\* What was sent of the middles and of the text.
Sent(s, k, l, n, m) ==
    /\ SentMiddles(s) = SubSeq(s.middles, 1, n) /\ TrimRight(s.text) = SubSeq(s.text, 1, m)
    /\ l = 0 => m = 0 /\ Ends(s.middles, n)
    /\ l # 0 => n = k /\ m # 0 /\ Ends(s.text, m)

LEMMA SentParts ==
  ASSUME NEW s, Grammatical(s), NEW k \in Nat, Len(s.middles) = k, NEW l \in Nat, Len(s.text) = l
  PROVE  \E n \in 0 .. k, m \in 0 .. l : Sent(s, k, l, n, m)
<1>1. PICK M \in Seq(WordSet) : M = s.middles /\ Len(M) = k
  BY DEF Grammatical
<1>2. PICK t \in Seq(WordSet) : t = s.text /\ Len(t) = l
  BY DEF Grammatical
<1>3. PICK m : Ends(t, m) /\ TrimRight(t) = SubSeq(t, 1, m)
  BY EndsSomewhere, TrimRightTo
<1>4. m \in 0 .. l
  BY <1>2, <1>3 DEF Ends
<1>5. CASE l = 0
  <2>1. t = <<>> /\ m = 0
    BY <1>2, <1>4, <1>5, EmptySeq
  <2>2. PICK n : Ends(M, n) /\ TrimRight(M) = SubSeq(M, 1, n)
    BY EndsSomewhere, TrimRightTo
  <2>3. n \in 0 .. k
    BY <1>1, <2>2 DEF Ends
  <2>4. SentMiddles(s) = SubSeq(M, 1, n)
    BY <1>1, <1>2, <2>1, <2>2 DEF SentMiddles
  <2> QED BY <1>1, <1>2, <1>3, <1>4, <1>5, <2>1, <2>2, <2>3, <2>4, Zenon DEF Sent
<1>6. CASE l # 0
  <2>1. t # <<>>
    BY <1>2, <1>6, EmptySeq
  <2>2. SentMiddles(s) = SubSeq(M, 1, k)
    BY <1>1, <1>2, <2>1, SubSeqFull DEF SentMiddles
  <2>3. m # 0
    <3>1. SubSeq(t, 1, 0) = <<>>
      BY SubSeqEmpty
    <3>2. TrimRight(t) # <<>>
      BY <1>2, <2>1 DEF Grammatical
    <3> QED BY <3>1, <3>2, <1>3
  <2>4. k \in 0 .. k
    OBVIOUS
  <2> QED BY <1>1, <1>2, <1>3, <1>4, <1>6, <2>2, <2>3, <2>4, Zenon DEF Sent
<1> QED BY <1>5, <1>6

\* Nothing else is left of the line.
LEMMA LineTrimmed ==
  ASSUME NEW s, Grammatical(s), NEW k \in Nat, Len(s.middles) = k, NEW l \in Nat, Len(s.text) = l,
         NEW n \in 0 .. k, NEW m \in 0 .. l, Sent(s, k, l, n, m), NEW e \in Nat, e = (1 + n) + m
  PROVE  Trim(Line(s).words) = SubSeq(Line(s).words, 1, e) /\ e <= Len(Line(s).words)
<1>1. PICK b \in Nat : b = 1 + k
  OBVIOUS
<1>2. PICK w \in Seq(WordSet) :
         /\ w = Line(s).words /\ Len(w) = b + l /\ w[1] = Word(s.command)
         /\ \A i \in 1 .. k : w[1 + i] = s.middles[i]
         /\ \A i \in 1 .. l : w[b + i] = TextWords(s)[i]
  <2>1. LineOf(Line(s).words, s, k, l, b)
    BY <1>1, WordsAre
  <2> QED BY <2>1 DEF LineOf
<1>3. w[1] # Word(Blank)
  BY <1>2 DEF Word, Grammatical
<1>4. Ends(w, e)
  <2>1. CASE l = 0
    <3>1. e = 1 + n /\ Len(w) = 1 + k /\ e \in 1 .. Len(w)
      BY <2>1, <1>1, <1>2 DEF Sent
    <3>2. n = 0 \/ s.middles[n] # Word(Blank)
      BY <2>1 DEF Ends, Sent
    <3>3. w[e] # Word(Blank)
      <4>1. CASE n = 0
        BY <3>1, <4>1, <1>3
      <4>2. CASE n # 0
        <5>1. n \in 1 .. k /\ s.middles[n] # Word(Blank)
          BY <3>2, <4>2
        <5>2. w[1 + n] = s.middles[n]
          BY <5>1, <1>2
        <5> QED BY <5>1, <5>2, <3>1
      <4> QED BY <4>1, <4>2
    <3>4. ASSUME NEW i \in 1 .. Len(w), i > e PROVE w[i] = Word(Blank)
      <4>1. PICK j \in 1 .. k : i = 1 + j /\ j > n
        <5>1. i - 1 \in 1 .. k /\ i = 1 + (i - 1) /\ i - 1 > n
          BY <3>1, <3>4
        <5> QED BY <5>1
      <4>2. s.middles[j] = Word(Blank)
        BY <4>1, <2>1 DEF Ends, Sent
      <4> QED BY <4>1, <4>2, <1>2
    <3> QED BY <3>1, <3>3, <3>4 DEF Ends, Sent
  <2>2. CASE l # 0
    <3>1. n = k /\ m # 0 /\ e = b + m /\ e \in 1 .. Len(w) /\ m \in 1 .. l
      <4>1. n = k /\ m # 0
        BY <2>2 DEF Sent
      <4>2. e = b + m
        BY <4>1, <1>1
      <4>3. m \in 1 .. l /\ e \in 1 .. b + l
        BY <4>1, <4>2
      <4> QED BY <4>1, <4>2, <4>3, <1>2
    <3>2. s.text[m] # Word(Blank) /\ \A i \in 1 .. l : i > m => s.text[i] = Word(Blank)
      BY <2>2, <3>1 DEF Ends, Sent
    <3>3. TextWords(s)[m] # Word(Blank)
      <4>1. CASE m = 1
        <5>1. PICK t \in Seq(WordSet) : t = s.text /\ t # <<>>
          BY <2>2, EmptySeq DEF Grammatical
        <5>2. t[1] \in WordSet /\ ~t[1].colon
          BY <5>1, HeadTail DEF Grammatical
        <5>3. t[1] # Word(Blank)
          BY <5>1, <3>2, <4>1
        <5>4. t[1].text # Blank
          BY <5>2, <5>3 DEF WordSet, Word
        <5>5. TextWords(s)[1] = [colon |-> s.mark, text |-> t[1].text]
          BY <2>2, <5>1, TextWordsAre
        <5> QED BY <5>4, <5>5, <4>1 DEF Word
      <4>2. CASE m # 1
        <5>1. TextWords(s)[m] = s.text[m]
          BY <4>2, <3>1, TextWordsAre
        <5> QED BY <5>1, <3>2
      <4> QED BY <4>1, <4>2
    <3>4. w[e] # Word(Blank)
      BY <3>1, <3>3, <1>2
    <3>5. ASSUME NEW i \in 1 .. Len(w), i > e PROVE w[i] = Word(Blank)
      <4>1. PICK j \in 1 .. l : i = b + j /\ j > m
        <5>1. i - b \in 1 .. l /\ i = b + (i - b) /\ i - b > m
          BY <3>1, <3>5, <1>2
        <5> QED BY <5>1
      <4>2. j # 1
        BY <4>1, <3>1
      <4>3. TextWords(s)[j] = s.text[j]
        BY <4>1, <4>2, TextWordsAre
      <4> QED BY <4>1, <4>3, <3>2, <1>2
    <3> QED BY <3>1, <3>4, <3>5 DEF Ends, Sent
  <2> QED BY <2>1, <2>2
<1>5. w # <<>>
  BY <1>1, <1>2, EmptySeq
<1>6. Trim(w) = SubSeq(w, 1, e)
  BY <1>3, <1>4, <1>5, TrimFrom
<1>7. e <= Len(w)
  BY <1>4 DEF Ends, Sent
<1> QED BY <1>2, <1>6, <1>7

(* What the bot reads: the words that were sent.                           *)

Read(m, s, n, k) ==
    /\ m.command = s.command
    /\ SentMiddles(s) \in Seq(WordSet) /\ Len(SentMiddles(s)) = n /\ n <= MaxMiddles
    /\ TrimRight(s.text) \in Seq(WordSet) /\ Len(TrimRight(s.text)) = k
    /\ m.params \in Seq(WordSet) /\ Len(m.params) = n + k /\ n + k # 0
    /\ \A i \in 1 .. n : m.params[i] = SentMiddles(s)[i] /\ IsMiddle(m.params[i])
    /\ k # 0 =>
          /\ TrimRight(s.text)[1] = Word(m.params[n + 1].text)
          /\ TrimRight(s.text)[k] # Word(Blank)
          /\ n = MaxMiddles \/ m.params[n + 1].colon
    /\ \A i \in 1 .. k : i # 1 => TrimRight(s.text)[i] = m.params[n + i]

LEMMA LineRead ==
  ASSUME NEW s, Grammatical(s), Parses(Line(s))
  PROVE  \E n, k \in Nat : Read(Parse(Line(s)), s, n, k)
<1>1. PICK M \in Seq(WordSet) : M = s.middles
  BY DEF Grammatical
<1>2. PICK t \in Seq(WordSet) : t = s.text
  BY DEF Grammatical
<1>3. PICK a, l \in Nat : a = Len(M) /\ l = Len(t)
  BY LenProperties
<1>4. PICK n \in 0 .. a, k \in 0 .. l : Sent(s, a, l, n, k)
  BY <1>1, <1>2, <1>3, SentParts
<1>5. PICK b, e \in Nat : b = 1 + a /\ e = (1 + n) + k
  OBVIOUS
<1>6. PICK w \in Seq(WordSet) :
         /\ w = Line(s).words /\ w[1] = Word(s.command)
         /\ \A i \in 1 .. a : w[1 + i] = M[i]
         /\ \A i \in 1 .. l : w[b + i] = TextWords(s)[i]
  <2>1. Len(s.middles) = a /\ Len(s.text) = l /\ b = 1 + a
    BY <1>1, <1>2, <1>3, <1>5
  <2>2. LineOf(Line(s).words, s, a, l, b)
    BY <2>1, WordsAre
  <2> QED BY <2>2, <1>1 DEF LineOf
<1>7. Trim(w) = SubSeq(w, 1, e) /\ e <= Len(w)
  BY <1>1, <1>2, <1>3, <1>4, <1>5, <1>6, LineTrimmed
<1>8. PICK q \in Seq(WordSet) : q = Trim(w) /\ Len(q) = e /\ \A i \in 1 .. e : q[i] = w[i]
  <2>1. /\ SubSeq(w, 1, e) \in Seq(WordSet) /\ Len(SubSeq(w, 1, e)) = e
        /\ \A i \in 1 .. e : SubSeq(w, 1, e)[i] = w[i]
    BY <1>7, UpTo
  <2> QED BY <1>7, <2>1
<1>9. e > 1
  BY <1>6, <1>8 DEF Parses
<1>10. PICK ps \in Seq(WordSet) : /\ ps = Tail(q) /\ Len(ps) = e - 1
                                  /\ \A i \in 1 .. e - 1 : ps[i] = q[i + 1]
  <2>1. e \in Nat \ {0}
    BY <1>9
  <2>2. /\ Tail(q) \in Seq(WordSet) /\ Len(Tail(q)) = e - 1
        /\ \A i \in 1 .. e - 1 : Tail(q)[i] = q[i + 1]
    BY <2>1, <1>8, TailIs
  <2> QED BY <2>2
<1>11. PICK m : m = Parse(Line(s))
  OBVIOUS
<1>12. m.params = ps /\ m.command = s.command
  <2>1. q[1] = Word(s.command)
    <3>1. 1 \in 1 .. e
      BY <1>9
    <3> QED BY <3>1, <1>6, <1>8
  <2> QED BY <2>1, <1>11, <1>6, <1>8, <1>10 DEF Parse, Word
<1>13. e - 1 = n + k /\ n + k # 0
  BY <1>5, <1>9
<1>14. PICK M2 \in Seq(WordSet) : /\ M2 = SentMiddles(s) /\ Len(M2) = n
                                  /\ \A i \in 1 .. n : M2[i] = M[i]
  <2>1. n \in Nat /\ n <= Len(M)
    BY <1>3
  <2>2. /\ SubSeq(M, 1, n) \in Seq(WordSet) /\ Len(SubSeq(M, 1, n)) = n
        /\ \A i \in 1 .. n : SubSeq(M, 1, n)[i] = M[i]
    BY <2>1, UpTo
  <2> QED BY <1>1, <1>2, <1>4, <2>2 DEF Sent
<1>15. PICK t2 \in Seq(WordSet) : /\ t2 = TrimRight(t) /\ Len(t2) = k
                                  /\ \A i \in 1 .. k : t2[i] = t[i]
  <2>1. k \in Nat /\ k <= Len(t)
    BY <1>3
  <2>2. /\ SubSeq(t, 1, k) \in Seq(WordSet) /\ Len(SubSeq(t, 1, k)) = k
        /\ \A i \in 1 .. k : SubSeq(t, 1, k)[i] = t[i]
    BY <2>1, UpTo
  <2> QED BY <1>1, <1>2, <1>4, <2>2 DEF Sent
<1>16. n <= MaxMiddles /\ \A i \in 1 .. n : IsMiddle(M2[i])
  <2>1. \A i \in DOMAIN M2 : IsMiddle(M2[i])
    BY <1>14 DEF Grammatical
  <2>2. DOMAIN M2 = 1 .. n
    BY <1>14, LenProperties
  <2>3. n <= MaxMiddles
    BY <1>14 DEF Grammatical
  <2> QED BY <2>1, <2>2, <2>3
<1>17. ASSUME NEW i \in 1 .. n PROVE ps[i] = M2[i]
  <2>1. i \in 1 .. e - 1 /\ i + 1 \in 1 .. e /\ i \in 1 .. a /\ i + 1 = 1 + i
    BY <1>5
  <2>2. ps[i] = w[i + 1]
    BY <2>1, <1>8, <1>10
  <2>3. w[1 + i] = M[i]
    BY <2>1, <1>6
  <2> QED BY <2>1, <2>2, <2>3, <1>14
<1>18. ASSUME NEW i \in 1 .. k PROVE ps[n + i] = TextWords(s)[i]
  <2>1. i \in 1 .. l /\ n = a
    BY <1>4 DEF Sent
  <2>2. PICK j \in 1 .. e - 1 : j = n + i /\ j + 1 \in 1 .. e /\ j + 1 = b + i
    BY <2>1, <1>5
  <2>3. ps[j] = w[j + 1]
    BY <2>2, <1>8, <1>10
  <2>4. w[b + i] = TextWords(s)[i]
    BY <2>1, <1>6
  <2> QED BY <2>2, <2>3, <2>4
<1>19. ASSUME NEW i \in 1 .. k, i # 1 PROVE t2[i] = ps[n + i]
  <2>1. i \in 1 .. l
    OBVIOUS
  <2>2. TextWords(s)[i] = t[i]
    BY <2>1, <1>2, <1>3, <1>19, TextWordsAre
  <2> QED BY <2>2, <1>15, <1>18
<1>20. ASSUME k # 0
       PROVE  /\ t2[1] = Word(ps[n + 1].text) /\ t2[k] # Word(Blank)
              /\ n = MaxMiddles \/ ps[n + 1].colon
  <2>1. l # 0 /\ n = a /\ t # <<>> /\ 1 \in 1 .. k
    BY <1>3, <1>4, <1>20, EmptySeq DEF Sent
  <2>2. ps[n + 1] = [colon |-> s.mark, text |-> t[1].text]
    <3>1. TextWords(s)[1] = [colon |-> s.mark, text |-> t[1].text]
      BY <2>1, <1>2, <1>3, TextWordsAre
    <3> QED BY <2>1, <3>1, <1>18
  <2>3. t[1] \in WordSet /\ ~t[1].colon
    BY <2>1, <1>2, HeadTail DEF Grammatical
  <2>4. t[1] = Word(t[1].text)
    BY <2>3 DEF WordSet, Word
  <2>5. ~s.mark => n = MaxMiddles
    BY <2>1, <1>1, <1>3 DEF Grammatical
  <2>6. t[k] # Word(Blank)
    BY <1>2, <1>3, <1>4, <2>1 DEF Ends, Sent
  <2>7. k \in 1 .. k
    BY <2>1
  <2> QED BY <2>1, <2>2, <2>4, <2>5, <2>6, <2>7, <1>15
<1>21. Read(m, s, n, k)
  <2>1. /\ m.command = s.command
        /\ SentMiddles(s) \in Seq(WordSet) /\ Len(SentMiddles(s)) = n /\ n <= MaxMiddles
        /\ TrimRight(s.text) \in Seq(WordSet) /\ Len(TrimRight(s.text)) = k
    BY <1>2, <1>12, <1>14, <1>15, <1>16, Zenon
  <2>2. m.params \in Seq(WordSet) /\ Len(m.params) = n + k /\ n + k # 0
    BY <1>10, <1>12, <1>13
  <2>3. \A i \in 1 .. n : m.params[i] = SentMiddles(s)[i] /\ IsMiddle(m.params[i])
    BY <1>12, <1>14, <1>16, <1>17, Zenon
  <2>4. k # 0 => /\ TrimRight(s.text)[1] = Word(m.params[n + 1].text)
                 /\ TrimRight(s.text)[k] # Word(Blank)
                 /\ n = MaxMiddles \/ m.params[n + 1].colon
    BY <1>2, <1>12, <1>15, <1>20, Zenon
  <2>5. \A i \in 1 .. k : i # 1 => TrimRight(s.text)[i] = m.params[n + i]
    BY <1>2, <1>12, <1>15, <1>19, Zenon
  <2> QED BY <2>1, <2>2, <2>3, <2>4, <2>5, Zenon DEF Read
<1> QED BY <1>11, <1>21

-----------------------------------------------------------------------------
(* The accessors, for a message that was read.                             *)

SentParams(s) == [i \in DOMAIN SentMiddles(s) |-> <<SentMiddles(s)[i]>>]
                 \o (IF TrimRight(s.text) = <<>> THEN <<>> ELSE <<TrimRight(s.text)>>)

LEMMA CountRead ==
  ASSUME NEW m, NEW s, NEW n \in Nat, NEW k \in Nat, Read(m, s, n, k)
  PROVE  MiddleCount(m.params) = n
<1>1. PICK ps \in Seq(WordSet) : ps = m.params /\ Len(ps) = n + k
  BY DEF Read
<1>2. PICK l, j \in Nat : l = n + k /\ j = n + 1
  OBVIOUS
<1>3. n <= MaxMiddles /\ \A i \in 1 .. n : IsMiddle(ps[i])
  BY <1>1 DEF Read
<1>4. n < l => n = MaxMiddles \/ ps[j].colon
  <2>1. k # 0 => n = MaxMiddles \/ ps[n + 1].colon
    BY <1>1 DEF Read
  <2> QED BY <2>1, <1>2
<1>5. n <= l /\ Len(ps) = l
  BY <1>1, <1>2
<1>6. MiddleCount(ps) = n
  BY <1>2, <1>3, <1>4, <1>5, MiddlesEnd
<1> QED BY <1>1, <1>6

LEMMA TrailingRead ==
  ASSUME NEW m, NEW s, NEW n \in Nat, NEW k \in Nat, Read(m, s, n, k)
  PROVE  /\ Trailing(m.params) = TrimRight(s.text)
         /\ HasTrailing(m.params) <=> k # 0
         /\ TrimRight(s.text) = <<>> <=> k = 0
<1>1. PICK ps \in Seq(WordSet) : ps = m.params /\ Len(ps) = n + k
  BY DEF Read
<1>2. PICK t \in Seq(WordSet) : t = TrimRight(s.text) /\ Len(t) = k
  BY DEF Read
<1>3. MiddleCount(ps) = n
  BY <1>1, CountRead
<1>4. t = <<>> <=> k = 0
  BY <1>2, EmptySeq
<1>5. CASE k = 0
  <2>1. PICK j \in Nat : j = n + 1 /\ j > Len(ps)
    BY <1>1, <1>5
  <2>2. Rest(ps) = SubSeq(ps, j, Len(ps))
    BY <1>3, <2>1 DEF Rest
  <2>3. Rest(ps) = <<>>
    BY <2>1, <2>2, <1>1, SubSeqEmpty
  <2>4. ~HasTrailing(ps)
    BY <2>3 DEF HasTrailing
  <2> QED BY <2>4, <1>1, <1>2, <1>4, <1>5 DEF Trailing
<1>6. CASE k # 0
  <2>1. /\ n = MaxMiddles \/ ps[n + 1].colon
        /\ t[1] = Word(ps[n + 1].text) /\ \A i \in 1 .. k : i # 1 => t[i] = ps[n + i]
    BY <1>1, <1>2, <1>6 DEF Read
  <2>2. TextAfter(ps, n, t, k)
    BY <2>1, <1>1, <1>2, <1>3, <1>6 DEF TextAfter
  <2>3. HasTrailing(ps) /\ Trailing(ps) = t
    BY <2>2, TrailingIs
  <2> QED BY <2>3, <1>1, <1>2, <1>4, <1>6
<1> QED BY <1>5, <1>6

LEMMA ParamsRead ==
  ASSUME NEW m, NEW s, NEW n \in Nat, NEW k \in Nat, Read(m, s, n, k)
  PROVE  GetParams(m) = SentParams(s)
<1>1. PICK ps \in Seq(WordSet) : ps = m.params /\ Len(ps) = n + k /\ n + k # 0
  BY DEF Read
<1>2. PICK t \in Seq(WordSet) : t = TrimRight(s.text)
  BY DEF Read
<1>3. PICK M \in Seq(WordSet) : M = SentMiddles(s) /\ Len(M) = n /\ \A i \in 1 .. n : ps[i] = M[i]
  BY <1>1 DEF Read
<1>4. PICK f : f = [i \in 1 .. n |-> <<M[i]>>]
  OBVIOUS
<1>5. f \in Seq(Seq(WordSet))
  <2>1. ASSUME NEW i \in 1 .. n PROVE <<M[i]>> \in Seq(WordSet)
    <3>1. M[i] \in WordSet
      BY <1>3, ElementOfSeq
    <3> QED BY <3>1, OneOf
  <2> QED BY <2>1, <1>4
<1>6. Middles(ps) = f
  BY <1>1, <1>3, <1>4, CountRead DEF Middles
<1>7. f = [i \in DOMAIN SentMiddles(s) |-> <<SentMiddles(s)[i]>>]
  <2>1. DOMAIN M = 1 .. n
    BY <1>3, LenProperties
  <2> QED BY <2>1, <1>3, <1>4
<1>8. ps # <<>>
  BY <1>1, EmptySeq
<1>9. Trailing(ps) = t /\ (HasTrailing(ps) <=> t # <<>>)
  BY <1>1, <1>2, TrailingRead
<1>10. CASE t = <<>>
  <2>1. GetParams(m) = f
    BY <1>1, <1>6, <1>8, <1>9, <1>10 DEF GetParams
  <2>2. f \o <<>> = f
    BY <1>5, ConcatEmptySeq
  <2> QED BY <2>1, <2>2, <1>2, <1>7, <1>10 DEF SentParams
<1>11. CASE t # <<>>
  <2>1. GetParams(m) = Append(f, t)
    BY <1>1, <1>6, <1>8, <1>9, <1>11 DEF GetParams
  <2>2. Append(f, t) = f \o <<t>>
    BY <1>5, AppendIsConcat
  <2> QED BY <2>1, <2>2, <1>2, <1>7, <1>11 DEF SentParams
<1> QED BY <1>10, <1>11

\* The word a command is taken from, and the rest of the text.
LEMMA CommandRead ==
  ASSUME NEW m, NEW s, NEW n \in Nat, NEW k \in Nat, Read(m, s, n, k), k # 0
  PROVE  UserCmd(m) \o UserParams(m)
            = (IF TrimRight(s.text)[1] = Word(Blank) THEN <<>> ELSE <<TrimRight(s.text)[1]>>)
              \o SkipBlanks(Tail(TrimRight(s.text)))
<1>1. PICK t \in Seq(WordSet) : t = TrimRight(s.text) /\ Len(t) = k
  BY DEF Read
<1>2. Trailing(m.params) = t /\ t # <<>>
  BY <1>1, TrailingRead
<1>3. t[k] # Word(Blank)
  BY <1>1 DEF Read
<1>4. PICK j \in Nat : j = k - 1
  OBVIOUS
<1>5. PICK u \in Seq(WordSet) : u = Tail(t) /\ Len(u) = j /\ \A i \in 1 .. j : u[i] = t[i + 1]
  <2>1. k \in Nat \ {0}
    OBVIOUS
  <2>2. /\ Tail(t) \in Seq(WordSet) /\ Len(Tail(t)) = k - 1
        /\ \A i \in 1 .. k - 1 : Tail(t)[i] = t[i + 1]
    BY <2>1, <1>1, TailIs
  <2> QED BY <2>2, <1>4
<1>6. u = <<>> \/ u[Len(u)] # Word(Blank)
  <2>1. CASE j = 0
    BY <2>1, <1>5, EmptySeq
  <2>2. CASE j # 0
    <3>1. j \in 1 .. j /\ j + 1 = k
      BY <2>2, <1>4
    <3>2. u[j] = t[k]
      BY <3>1, <1>5
    <3> QED BY <3>2, <1>3, <1>5
  <2> QED BY <2>1, <2>2
<1>7. TrimRight(SkipBlanks(u)) = SkipBlanks(u)
  BY <1>6, SkipEnds
<1>8. UserParams(m) = SkipBlanks(u)
  BY <1>2, <1>5, <1>7 DEF UserParams, Trim
<1>9. PICK a \in Seq(WordSet) : a = <<t[1]>> /\ Len(a) = 1 /\ a[1] = t[1]
  <2>1. t[1] \in WordSet
    BY <1>2, HeadTail
  <2>2. <<t[1]>> \in Seq(WordSet) /\ Len(<<t[1]>>) = 1 /\ <<t[1]>>[1] = t[1]
    BY <2>1, OneOf
  <2> QED BY <2>2, Zenon
<1>10. Trim(a) = IF t[1] = Word(Blank) THEN <<>> ELSE a
  <2>1. CASE t[1] = Word(Blank)
    <3>1. SkipBlanks(a) = <<>>
      BY <2>1, <1>9, SkipAllBlank
    <3>2. PICK e \in Seq(WordSet) : e = <<>>
      BY EmptySeq
    <3>3. SkipBlanks(e) = <<>>
      BY <3>2, SkipAllBlank, EmptySeq
    <3>4. TrimRight(SkipBlanks(e)) = SkipBlanks(e)
      BY <3>2, SkipEnds
    <3> QED BY <3>1, <3>2, <3>3, <3>4, <2>1 DEF Trim
  <2>2. CASE t[1] # Word(Blank)
    <3>1. Ends(a, 1)
      BY <2>2, <1>9 DEF Ends
    <3>2. a # <<>> /\ a[1] # Word(Blank)
      BY <2>2, <1>9, EmptySeq
    <3>3. Trim(a) = SubSeq(a, 1, 1)
      BY <3>1, <3>2, TrimFrom
    <3>4. SubSeq(a, 1, Len(a)) = a
      BY SubSeqFull
    <3> QED BY <3>3, <3>4, <2>2, <1>9
  <2> QED BY <2>1, <2>2
<1>11. UserCmd(m) = Trim(a)
  BY <1>2, <1>9 DEF UserCmd
<1> QED BY <1>1, <1>5, <1>8, <1>9, <1>10, <1>11

(* Who it is from: the names a prefix is made of hold no separator, so     *)
(* each separator is found where it was put.                               *)

Without(p, sep) == \A i \in 1 .. Len(p) : p[i] # sep

LEMMA FindThere ==
  ASSUME NEW p, Len(p) \in Nat, NEW sep, NEW n \in 1 .. Len(p), p[n] = sep,
         \A i \in 1 .. Len(p) : i < n => p[i] # sep
  PROVE  Find(p, sep) = n
<1> DEFINE I == {i \in 1 .. Len(p) : p[i] = sep}
<1>1. n \in I /\ \A y \in I : n <= y
  OBVIOUS
<1>2. Min(I) \in I /\ \A y \in I : Min(I) <= y
  BY <1>1 DEF Min
<1>3. Min(I) = n
  BY <1>1, <1>2
<1>4. SelectInSeq(p, LAMBDA x : x = sep) = n
  BY <1>1, <1>3 DEF SelectInSeq
<1> QED BY <1>4, Zenon DEF Find

LEMMA FindNowhere ==
  ASSUME NEW p, NEW sep, Without(p, sep)
  PROVE  Find(p, sep) = 0
<1>1. SelectInSeq(p, LAMBDA x : x = sep) = 0
  BY DEF SelectInSeq, Without
<1> QED BY <1>1, Zenon DEF Find

LEMMA WithoutJoin ==
  ASSUME NEW T, NEW a \in Seq(T), NEW b \in Seq(T), NEW sep, Without(a, sep), Without(b, sep)
  PROVE  Without(a \o b, sep)
<1>1. /\ a \o b \in Seq(T) /\ Len(a \o b) = Len(a) + Len(b)
      /\ \A i \in 1 .. Len(a) + Len(b) :
            (a \o b)[i] = IF i <= Len(a) THEN a[i] ELSE b[i - Len(a)]
  BY ConcatProperties
<1>2. Len(a) \in Nat /\ Len(b) \in Nat
  BY LenProperties
<1>3. ASSUME NEW i \in 1 .. Len(a) + Len(b) PROVE (a \o b)[i] # sep
  <2>1. CASE i <= Len(a)
    BY <2>1, <1>1, <1>2 DEF Without
  <2>2. CASE ~(i <= Len(a))
    <3>1. i - Len(a) \in 1 .. Len(b)
      BY <2>2, <1>2
    <3> QED BY <2>2, <3>1, <1>1 DEF Without
  <2> QED BY <2>1, <2>2
<1> QED BY <1>1, <1>3 DEF Without

Cut(p, a, x, b) ==
    /\ Find(p, x) = Len(a) + 1 /\ Upto(p, Find(p, x)) = a /\ After(p, Find(p, x)) = b

\* A prefix cut at a separator that the part in front of it is without.
LEMMA CutAt ==
  ASSUME NEW T, NEW a \in Seq(T), NEW b \in Seq(T), NEW x \in T, Without(a, x)
  PROVE  Cut(a \o (<<x>> \o b), a, x, b)
<1>1. PICK n, k \in Nat : n = Len(a) /\ k = Len(b)
  BY LenProperties
<1>2. PICK c \in Seq(T) : c = <<x>> \o b /\ Len(c) = 1 + k /\ c[1] = x
                          /\ \A i \in 1 .. k : c[1 + i] = b[i]
  <2>1. PICK e \in Seq(T) : e = <<x>> /\ Len(e) = 1 /\ e[1] = x
    <3>1. <<x>> \in Seq(T) /\ Len(<<x>>) = 1 /\ <<x>>[1] = x
      BY OneOf
    <3> QED BY <3>1, Zenon
  <2>2. PICK c \in Seq(T) : c = e \o b
    BY ConcatProperties
  <2>3. /\ Len(c) = Len(e) + Len(b)
        /\ \A i \in 1 .. Len(e) + Len(b) : c[i] = IF i <= Len(e) THEN e[i] ELSE b[i - Len(e)]
    BY <2>2, ConcatProperties
  <2>4. Len(c) = 1 + k /\ \A i \in 1 .. 1 + k : c[i] = IF i <= 1 THEN e[i] ELSE b[i - 1]
    BY <2>1, <2>3, <1>1
  <2>5. ASSUME NEW i \in 1 .. k PROVE c[1 + i] = b[i]
    <3>1. PICK j \in 1 .. 1 + k : j = 1 + i /\ ~(j <= 1) /\ j - 1 = i
      OBVIOUS
    <3> QED BY <3>1, <2>4
  <2>6. c[1] = x
    BY <2>1, <2>4
  <2> QED BY <2>1, <2>2, <2>4, <2>5, <2>6
<1>3. PICK p \in Seq(T) : p = a \o c
  BY ConcatProperties
<1>4. /\ Len(p) = Len(a) + Len(c)
      /\ \A i \in 1 .. Len(a) + Len(c) : p[i] = IF i <= Len(a) THEN a[i] ELSE c[i - Len(a)]
  BY <1>3, ConcatProperties
<1>5. PICK l, m, q \in Nat : l = n + (1 + k) /\ m = n + 1 /\ q = m + 1
  OBVIOUS
<1>6. Len(p) = l /\ \A i \in 1 .. l : p[i] = IF i <= n THEN a[i] ELSE c[i - n]
  BY <1>1, <1>2, <1>4, <1>5
<1>7. m \in 1 .. l /\ p[m] = x
  <2>1. m \in 1 .. l /\ ~(m <= n) /\ m - n = 1
    BY <1>5
  <2> QED BY <2>1, <1>2, <1>6
<1>8. \A i \in 1 .. n : p[i] = a[i]
  BY <1>5, <1>6
<1>9. Find(p, x) = m
  <2>1. \A i \in 1 .. Len(p) : i < m => p[i] # x
    BY <1>1, <1>5, <1>8 DEF Without
  <2> QED BY <2>1, <1>6, <1>7, FindThere
<1>10. SubSeq(p, 1, n) = a
  <2>1. n <= Len(p)
    BY <1>5, <1>6
  <2>2. PICK r \in Seq(T) : r = SubSeq(p, 1, n) /\ Len(r) = n /\ \A i \in 1 .. n : r[i] = p[i]
    <3>1. /\ SubSeq(p, 1, n) \in Seq(T) /\ Len(SubSeq(p, 1, n)) = n
          /\ \A i \in 1 .. n : SubSeq(p, 1, n)[i] = p[i]
      BY <2>1, UpTo
    <3> QED BY <3>1
  <2>3. r = a
    BY <2>2, <1>1, <1>8, SeqEqual
  <2> QED BY <2>2, <2>3
<1>11. SubSeq(p, q, l) = b
  <2>1. \A i \in q .. l : p[i] \in T
    BY <1>5, <1>6, ElementOfSeq
  <2>2. /\ SubSeq(p, q, l) \in Seq(T) /\ Len(SubSeq(p, q, l)) = IF q <= l THEN l - q + 1 ELSE 0
        /\ \A i \in 1 .. l - q + 1 : SubSeq(p, q, l)[i] = p[q + i - 1]
    BY <2>1, SubSeqProperties
  <2>3. PICK r \in Seq(T) : r = SubSeq(p, q, l) /\ Len(r) = k
                            /\ \A i \in 1 .. k : r[i] = p[q + i - 1]
    <3>1. l - q + 1 = k /\ (IF q <= l THEN l - q + 1 ELSE 0) = k
      BY <1>5
    <3> QED BY <3>1, <2>2
  <2>4. ASSUME NEW i \in 1 .. k PROVE r[i] = b[i]
    <3>1. PICK j \in 1 .. l : j = q + i - 1 /\ ~(j <= n) /\ j - n = 1 + i
      BY <1>5
    <3>2. p[j] = c[1 + i]
      BY <3>1, <1>6
    <3> QED BY <3>1, <3>2, <2>3, <1>2
  <2>5. r = b
    BY <2>3, <2>4, <1>1, SeqEqual
  <2> QED BY <2>3, <2>5
<1>12. m - 1 = n /\ m + 1 = q
  BY <1>5
<1> QED BY <1>1, <1>2, <1>3, <1>5, <1>6, <1>9, <1>10, <1>11, <1>12 DEF Cut, Upto, After

Plain(x) == Without(x, "!") /\ Without(x, "@")

LEMMA FromNameOnly ==
  ASSUME NEW m, NEW T, NEW name \in Seq(T), Plain(name), m.prefix = name
  PROVE  /\ NickName(m) = AllowNick(name) /\ Host(m) = <<>> /\ User(m) = <<>>
         /\ ServerName(m) = name
<1>1. Find(name, "!") = 0 /\ Find(name, "@") = 0
  BY FindNowhere DEF Plain
<1> QED BY <1>1 DEF NickName, Host, User, ServerName

LEMMA FromNameHost ==
  ASSUME NEW m, NEW T, "@" \in T, NEW name \in Seq(T), Plain(name),
         NEW host \in Seq(T), Plain(host), m.prefix = name \o (<<"@">> \o host)
  PROVE  NickName(m) = AllowNick(name) /\ Host(m) = host /\ User(m) = <<>>
<1>1. PICK sep \in T : sep = "@"
  OBVIOUS
<1>2. PICK p : p = name \o (<<sep>> \o host)
  OBVIOUS
<1>3. Without(name, sep)
  BY <1>1 DEF Plain
<1>4. /\ Find(p, sep) = Len(name) + 1 /\ Upto(p, Find(p, sep)) = name
      /\ After(p, Find(p, sep)) = host
  <2>1. Cut(name \o (<<sep>> \o host), name, sep, host)
    BY <1>3, CutAt
  <2> QED BY <2>1, <1>2 DEF Cut
<1>5. Find(p, "!") = 0
  <2>1. PICK e \in Seq(T) : e = <<sep>> /\ Len(e) = 1 /\ e[1] = sep
    <3>1. <<sep>> \in Seq(T) /\ Len(<<sep>>) = 1 /\ <<sep>>[1] = sep
      BY OneOf
    <3> QED BY <3>1, Zenon
  <2>2. Without(e, "!")
    BY <2>1, <1>1 DEF Without
  <2>3. PICK c \in Seq(T) : c = e \o host
    BY ConcatProperties
  <2>4. Without(c, "!")
    BY <2>2, <2>3, WithoutJoin DEF Plain
  <2>5. Without(name \o c, "!")
    BY <2>4, WithoutJoin DEF Plain
  <2> QED BY <2>1, <2>3, <2>5, <1>2, FindNowhere
<1>6. Find(p, "@") # 0 /\ m.prefix = p
  BY <1>1, <1>2, <1>4, LenProperties
<1> QED BY <1>1, <1>4, <1>5, <1>6 DEF NickName, Host, User

UserPrefix(name, user, host) == (name \o (<<"!">> \o user)) \o (<<"@">> \o host)

LEMMA FromUser ==
  ASSUME NEW m, NEW T, "!" \in T, "@" \in T, NEW name \in Seq(T), Plain(name),
         NEW user \in Seq(T), Plain(user), NEW host \in Seq(T), Plain(host),
         m.prefix = UserPrefix(name, user, host)
  PROVE  /\ NickName(m) = AllowNick(name) /\ Host(m) = host /\ User(m) = user
         /\ UserHost(m) = user \o (<<"@">> \o host)
<1>1. PICK bang \in T, sep \in T : bang = "!" /\ sep = "@"
  OBVIOUS
<1>2. PICK e \in Seq(T) : e = <<bang>> /\ Len(e) = 1 /\ e[1] = bang
  <2>1. <<bang>> \in Seq(T) /\ Len(<<bang>>) = 1 /\ <<bang>>[1] = bang
    BY OneOf
  <2> QED BY <2>1, Zenon
<1>3. PICK f \in Seq(T) : f = <<sep>>
  BY OneOf
<1>4. PICK u \in Seq(T) : u = e \o user
  BY ConcatProperties
<1>5. PICK a \in Seq(T) : a = name \o u /\ Len(a) = Len(name) + Len(u)
  BY ConcatProperties
<1>6. PICK h \in Seq(T) : h = f \o host
  BY ConcatProperties
<1>7. PICK b \in Seq(T) : b = user \o h
  BY ConcatProperties
<1>8. PICK p : p = a \o h
  OBVIOUS
<1>9. p = name \o (e \o b)
  <2>1. Regroup(name, u, h)
    BY Regrouped
  <2>2. Regroup(e, user, h)
    BY Regrouped
  <2> QED BY <2>1, <2>2, <1>4, <1>5, <1>7, <1>8 DEF Regroup
<1>10. Without(a, sep)
  <2>1. Without(e, sep)
    BY <1>1, <1>2 DEF Without
  <2>2. Without(u, sep)
    BY <2>1, <1>1, <1>4, WithoutJoin DEF Plain
  <2>3. Without(name, sep)
    BY <1>1 DEF Plain
  <2> QED BY <2>2, <2>3, <1>5, WithoutJoin
<1>11. Find(p, sep) = Len(a) + 1 /\ After(p, Find(p, sep)) = host
  <2>1. Cut(a \o (<<sep>> \o host), a, sep, host)
    BY <1>10, CutAt
  <2> QED BY <2>1, <1>3, <1>6, <1>8 DEF Cut
<1>12. /\ Find(p, bang) = Len(name) + 1 /\ Upto(p, Find(p, bang)) = name
       /\ After(p, Find(p, bang)) = b
  <2>1. Without(name, bang)
    BY <1>1 DEF Plain
  <2>2. Cut(name \o (<<bang>> \o b), name, bang, b)
    BY <2>1, CutAt
  <2> QED BY <2>2, <1>2, <1>9 DEF Cut
<1>13. SubSeq(p, Find(p, bang) + 1, Find(p, sep) - 1) = user
  <2>1. PICK n, k, g \in Nat : n = Len(name) /\ k = Len(user) /\ g = Len(h)
    BY LenProperties
  <2>2. PICK x, y \in Nat : x = n + 2 /\ y = n + (1 + k)
    OBVIOUS
  <2>3. Len(u) = 1 + k /\ \A i \in 1 .. 1 + k : u[i] = IF i <= 1 THEN e[i] ELSE user[i - 1]
    <3>1. /\ Len(u) = Len(e) + Len(user)
          /\ \A i \in 1 .. Len(e) + Len(user) :
                u[i] = IF i <= Len(e) THEN e[i] ELSE user[i - Len(e)]
      BY <1>4, ConcatProperties
    <3> QED BY <3>1, <2>1, <1>2
  <2>4. Len(a) = y /\ \A i \in 1 .. y : a[i] = IF i <= n THEN name[i] ELSE u[i - n]
    <3>1. /\ Len(a) = Len(name) + Len(u)
          /\ \A i \in 1 .. Len(name) + Len(u) :
                a[i] = IF i <= Len(name) THEN name[i] ELSE u[i - Len(name)]
      BY <1>5, ConcatProperties
    <3> QED BY <3>1, <2>1, <2>2, <2>3
  <2>5. \A i \in 1 .. y : p[i] = a[i] /\ p[i] \in T
    <3>1. /\ Len(p) = Len(a) + Len(h) /\ p \in Seq(T)
          /\ \A i \in 1 .. Len(a) + Len(h) : p[i] = IF i <= Len(a) THEN a[i] ELSE h[i - Len(a)]
      BY <1>8, ConcatProperties
    <3>2. \A i \in 1 .. y : i \in 1 .. y + g
      BY <2>1, <2>2
    <3>3. \A i \in 1 .. y + g : p[i] = IF i <= y THEN a[i] ELSE h[i - y]
      BY <3>1, <2>1, <2>4
    <3>4. \A i \in 1 .. y : p[i] = a[i]
      BY <3>2, <3>3
    <3>5. \A i \in 1 .. y : a[i] \in T
      BY <2>4, ElementOfSeq
    <3> QED BY <3>4, <3>5
  <2>6. PICK r \in Seq(T) : r = SubSeq(p, x, y) /\ Len(r) = k
                            /\ \A i \in 1 .. k : r[i] = p[x + i - 1]
    <3>1. \A i \in x .. y : p[i] \in T
      BY <2>2, <2>5
    <3>2. /\ SubSeq(p, x, y) \in Seq(T) /\ Len(SubSeq(p, x, y)) = IF x <= y THEN y - x + 1 ELSE 0
          /\ \A i \in 1 .. y - x + 1 : SubSeq(p, x, y)[i] = p[x + i - 1]
      BY <3>1, SubSeqProperties, SMTT(20)
    <3>3. y - x + 1 = k /\ (IF x <= y THEN y - x + 1 ELSE 0) = k
      BY <2>1, <2>2
    <3> QED BY <3>2, <3>3
  <2>7. ASSUME NEW i \in 1 .. k PROVE r[i] = user[i]
    <3>1. PICK j \in 1 .. y : j = x + i - 1 /\ ~(j <= n) /\ j - n = 1 + i
      <4>1. PICK j \in Nat : j = n + (1 + i)
        BY <2>1
      <4>2. j \in 1 .. y /\ j = x + i - 1 /\ ~(j <= n) /\ j - n = 1 + i
        BY <4>1, <2>1, <2>2
      <4> QED BY <4>2
    <3>2. p[j] = u[1 + i]
      BY <3>1, <2>4, <2>5
    <3>3. PICK l \in 1 .. 1 + k : l = 1 + i /\ ~(l <= 1) /\ l - 1 = i
      OBVIOUS
    <3> QED BY <3>1, <3>2, <3>3, <2>3, <2>6
  <2>8. r = user
    BY <2>1, <2>6, <2>7, SeqEqual
  <2>9. Find(p, bang) + 1 = x /\ Find(p, sep) - 1 = y
    BY <2>1, <2>2, <2>4, <1>11, <1>12
  <2> QED BY <2>6, <2>8, <2>9
<1>14. m.prefix = p
  BY <1>1, <1>2, <1>3, <1>4, <1>5, <1>6, <1>8 DEF UserPrefix
<1>15. /\ Find(p, bang) # 0 /\ Find(p, sep) # 0 /\ ~(Find(p, sep) < Find(p, bang))
  <2>1. Len(u) \in Nat /\ Len(name) \in Nat
    BY LenProperties
  <2> QED BY <2>1, <1>5, <1>11, <1>12
<1>16. b = user \o (<<"@">> \o host)
  BY <1>1, <1>3, <1>6, <1>7
<1>17. NickName(m) = AllowNick(name) /\ Host(m) = host
  BY <1>1, <1>11, <1>12, <1>14, <1>15 DEF NickName, Host
<1>18. User(m) = user /\ UserHost(m) = b
  BY <1>1, <1>12, <1>13, <1>14, <1>15 DEF User, UserHost
<1> QED BY <1>16, <1>17, <1>18

LEMMA PrefixRead ==
  ASSUME NEW s, Grammatical(s), NEW m, m.prefix = Prefix(s.from)
  PROVE  /\ NickName(m) = AllowNick(s.from.name)
         /\ Host(m) = s.from.host /\ User(m) = s.from.user
         /\ User(m) # <<>> => UserHost(m) = User(m) \o <<"@">> \o Host(m)
         /\ User(m) \o Host(m) = <<>> => ServerName(m) = s.from.name
<1>1. PICK name, user, host : name = s.from.name /\ user = s.from.user /\ host = s.from.host
  OBVIOUS
<1>2. PICK T : T = {"!", "@", name[1], user[1], host[1]}
  OBVIOUS
<1>3. ASSUME NEW x \in {name, user, host}
      PROVE  x \in Seq(T) /\ Plain(x)
  <2>1. CASE x = <<>>
    <3>1. Len(x) = 0
      BY <2>1
    <3> QED BY <2>1, <3>1, EmptySeq DEF Plain, Without
  <2>2. CASE x # <<>>
    <3>1. PICK a \in T : a = x[1] /\ x = <<a>> /\ a # "!" /\ a # "@"
      <4>1. x = <<x[1]>> /\ x[1] \notin {"!", "@"}
        BY <2>2, <1>1 DEF Grammatical
      <4>2. x[1] \in T
        BY <1>2
      <4> QED BY <4>1, <4>2
    <3>2. <<a>> \in Seq(T) /\ Len(<<a>>) = 1 /\ <<a>>[1] = a
      BY OneOf
    <3>3. \A i \in 1 .. Len(x) : x[i] = a
      BY <3>1, <3>2
    <3> QED BY <3>1, <3>2, <3>3 DEF Plain, Without
  <2> QED BY <2>1, <2>2
<1>4. /\ name \in Seq(T) /\ Plain(name) /\ user \in Seq(T) /\ Plain(user)
      /\ host \in Seq(T) /\ Plain(host) /\ "!" \in T /\ "@" \in T
  BY <1>2, <1>3
<1>5. user # <<>> => host # <<>>
  BY <1>1 DEF Grammatical
<1>6. m.prefix = (name \o (IF user = <<>> THEN <<>> ELSE <<"!">> \o user))
                 \o (IF host = <<>> THEN <<>> ELSE <<"@">> \o host)
  BY <1>1 DEF Prefix
<1>7. name \o <<>> = name
  BY <1>4, ConcatEmptySeq
<1>8. CASE host = <<>>
  <2>1. user = <<>>
    BY <1>5, <1>8
  <2>2. m.prefix = name
    BY <2>1, <1>6, <1>7, <1>8
  <2>3. /\ NickName(m) = AllowNick(name) /\ Host(m) = <<>> /\ User(m) = <<>>
        /\ ServerName(m) = name
    BY <2>2, <1>4, FromNameOnly
  <2> QED BY <2>1, <2>3, <1>1, <1>8
<1>9. CASE host # <<>> /\ user = <<>>
  <2>1. m.prefix = name \o (<<"@">> \o host)
    BY <1>6, <1>7, <1>9
  <2>2. NickName(m) = AllowNick(name) /\ Host(m) = host /\ User(m) = <<>>
    BY <2>1, <1>4, FromNameHost
  <2>3. <<>> \o host = host
    BY <1>4, ConcatEmptySeq
  <2> QED BY <2>2, <2>3, <1>1, <1>9
<1>10. CASE host # <<>> /\ user # <<>>
  <2>1. m.prefix = UserPrefix(name, user, host)
    BY <1>6, <1>10 DEF UserPrefix
  <2>2. /\ NickName(m) = AllowNick(name) /\ Host(m) = host /\ User(m) = user
        /\ UserHost(m) = user \o (<<"@">> \o host)
    BY <2>1, <1>4, FromUser
  <2>3. PICK f \in Seq(T) : f = <<"@">>
    <3>1. <<"@">> \in Seq(T)
      BY <1>4, OneOf
    <3> QED BY <3>1, Zenon
  <2>4. Regroup(user, f, host)
    BY <1>4, Regrouped
  <2>5. UserHost(m) = (user \o <<"@">>) \o host
    BY <2>2, <2>3, <2>4 DEF Regroup
  <2>6. user \o host # <<>>
    BY <1>4, <1>10, ConcatEqualIffEmpty
  <2> QED BY <2>2, <2>5, <2>6, <1>1
<1> QED BY <1>8, <1>9, <1>10

\* Which parameter names the channel depends on the command: on one at most.
LEMMA OneChanParam ==
  ASSUME NEW k \in 1 .. 3, NEW i \in 1 .. 3, NEW c, c \in ChanParams[k], c \in ChanParams[i]
  PROVE  i = k
<1>1. /\ ChanParams[1] = {"PRIVMSG", "JOIN", "MODE", "KICK", "PART", "TOPIC"}
      /\ ChanParams[2] = {"332", "333", "366", "404", "474", "482", "INVITE"}
      /\ ChanParams[3] = {"353", "441"}
  BY DEF ChanParams
<1>2. (k = 1 \/ k = 2 \/ k = 3) /\ (i = 1 \/ i = 2 \/ i = 3)
  OBVIOUS
<1> QED BY <1>1, <1>2

LEMMA SentParamAt ==
  ASSUME NEW s, SentMiddles(s) \in Seq(WordSet), TrimRight(s.text) \in Seq(WordSet),
         NEW k \in DOMAIN SentMiddles(s)
  PROVE  SentParams(s)[k] = <<SentMiddles(s)[k]>> /\ k <= Len(SentParams(s))
<1>1. PICK M \in Seq(WordSet) : M = SentMiddles(s)
  OBVIOUS
<1>2. PICK t \in Seq(WordSet) : t = TrimRight(s.text)
  OBVIOUS
<1>3. PICK n \in Nat : n = Len(M) /\ DOMAIN M = 1 .. n
  BY LenProperties
<1>4. PICK f : f = [i \in 1 .. n |-> <<M[i]>>]
  OBVIOUS
<1>5. f \in Seq(Seq(WordSet)) /\ Len(f) = n
  <2>1. ASSUME NEW i \in 1 .. n PROVE <<M[i]>> \in Seq(WordSet)
    <3>1. M[i] \in WordSet
      BY <1>3, ElementOfSeq
    <3> QED BY <3>1, OneOf
  <2> QED BY <2>1, <1>4
<1>6. PICK g \in Seq(Seq(WordSet)) : g = IF t = <<>> THEN <<>> ELSE <<t>>
  <2>1. <<>> \in Seq(Seq(WordSet)) /\ <<t>> \in Seq(Seq(WordSet))
    BY EmptySeq, OneOf
  <2> QED BY <2>1, Zenon
<1>7. SentParams(s) = f \o g
  BY <1>1, <1>2, <1>3, <1>4, <1>6 DEF SentParams
<1>8. /\ Len(f \o g) = Len(f) + Len(g)
      /\ \A i \in 1 .. Len(f) + Len(g) : (f \o g)[i] = IF i <= Len(f) THEN f[i] ELSE g[i - Len(f)]
  BY <1>5, ConcatProperties
<1>9. Len(g) \in Nat /\ k \in 1 .. n
  BY <1>1, <1>3, LenProperties
<1>10. k \in 1 .. Len(f) + Len(g) /\ k <= Len(f)
  BY <1>5, <1>9
<1>11. (f \o g)[k] = f[k]
  BY <1>8, <1>10
<1> QED BY <1>1, <1>4, <1>5, <1>7, <1>8, <1>9, <1>10, <1>11

LEMMA ReplyRead ==
  ASSUME NEW s, NEW m, NEW n \in Nat, NEW k \in Nat, Read(m, s, n, k)
  PROVE  ReplyTo(m) = IF Start(SentParams(s)[1]) \in HashChannels THEN SentParams(s)[1]
                      ELSE NickName(m)
<1>1. PICK ps : ps = SentParams(s) /\ GetParams(m) = ps
  BY ParamsRead
<1>2. ps # <<>>
  <2>1. PICK q \in Seq(WordSet) : q = m.params /\ q # <<>>
    BY EmptySeq DEF Read
  <2>2. HasTrailing(q) <=> k # 0
    BY <2>1, TrailingRead
  <2>3. PICK M \in Seq(WordSet) : M = SentMiddles(s) /\ Len(M) = n
    BY DEF Read
  <2>4. CASE n = 0
    <3>1. PICK t \in Seq(WordSet) : t = TrimRight(s.text)
      BY DEF Read
    <3>2. k # 0 /\ t # <<>>
      BY <2>4, <3>1, TrailingRead DEF Read
    <3>3. GetParams(m) = Append(Middles(q), t)
      BY <2>1, <2>2, <3>1, <3>2, TrailingRead DEF GetParams
    <3>4. Middles(q) = <<>>
      BY <2>1, <2>4, CountRead DEF Middles
    <3>5. Append(<<>>, t) # <<>>
      BY <3>1
    <3> QED BY <3>3, <3>4, <3>5, <1>1
  <2>5. CASE n # 0
    <3>1. 1 \in DOMAIN M
      BY <2>3, <2>5, LenProperties
    <3>2. 1 <= Len(ps)
      BY <3>1, <2>3, <1>1, SentParamAt DEF Read
    <3>3. Len(<<>>) = 0
      OBVIOUS
    <3> QED BY <3>2, <3>3
  <2> QED BY <2>4, <2>5
<1>3. FromChannel(m) <=> Start(ps[1]) \in HashChannels
  BY <1>1, <1>2 DEF FromChannel
<1>4. To(m) = ps[1]
  BY <1>1, <1>2 DEF To
<1> QED BY <1>1, <1>3, <1>4 DEF ReplyTo

LEMMA ChanRead ==
  ASSUME NEW s, NEW m, NEW n \in Nat, NEW j \in Nat, Read(m, s, n, j),
         NEW k \in (1 .. 3) \cap DOMAIN SentMiddles(s), s.command \in ChanParams[k],
         SentMiddles(s)[k].text \in HashChannels \cup OtherChannels
  PROVE  Chan(m) = <<SentMiddles(s)[k]>>
<1>1. PICK ps : ps = SentParams(s) /\ GetParams(m) = ps
  BY ParamsRead
<1>2. ps[k] = <<SentMiddles(s)[k]>> /\ k <= Len(ps)
  BY <1>1, SentParamAt DEF Read
<1>3. PICK w : w = SentMiddles(s)[k] /\ ~w.colon
  <2>1. DOMAIN SentMiddles(s) = 1 .. n
    BY LenProperties DEF Read
  <2>2. IsMiddle(SentMiddles(s)[k])
    BY <2>1 DEF Read
  <2> QED BY <2>2 DEF IsMiddle
<1>4. Start(ps[k]) = w.text
  <2>1. <<w>> # <<>> /\ <<w>>[1] = w
    OBVIOUS
  <2> QED BY <2>1, <1>2, <1>3 DEF Start
<1> DEFINE named == {i \in 1 .. 3 : /\ m.command \in ChanParams[i] /\ i <= Len(ps)
                                    /\ Start(ps[i]) \in HashChannels \cup OtherChannels}
<1>5. m.command = s.command
  BY DEF Read
<1>6. k \in named
  BY <1>2, <1>3, <1>4, <1>5
<1>7. \A i \in named : i = k
  BY <1>5, OneChanParam
<1>8. (CHOOSE i \in named : TRUE) = k
  BY <1>6, <1>7
<1>9. Chan(m) = ps[CHOOSE i \in named : TRUE]
  BY <1>1, <1>6 DEF Chan
<1> QED BY <1>2, <1>8, <1>9

-----------------------------------------------------------------------------
MsgInv ==
    /\ said \in Said
    /\ \/ msg = NoMessage
       \/ Parses(Line(said)) /\ msg = Parse(Line(said))

LEMMA MsgInvariant == MsgSpec => []MsgInv
<1>1. MsgInit => MsgInv
  BY DEF MsgInit, MsgInv
<1>2. MsgInv /\ [ReceiveMsg]_<<said, msg>> => MsgInv'
  BY DEF MsgInv, ReceiveMsg
<1> QED BY <1>1, <1>2, PTL DEF MsgSpec

LEMMA ParsedNow ==
  ASSUME MsgInv
  PROVE  MessageParsed
<1> SUFFICES ASSUME msg # NoMessage PROVE MessageParsed
  BY DEF MessageParsed
<1>1. Grammatical(said) /\ Parses(Line(said)) /\ msg = Parse(Line(said))
  BY SaidAssumption DEF MsgInv
<1>2. PICK n \in Nat, k \in Nat : Read(msg, said, n, k)
  BY <1>1, LineRead
<1>3. msg.prefix = Prefix(said.from)
  BY <1>1 DEF Parse, Line
<1>4. /\ NickName(msg) = AllowNick(said.from.name)
      /\ Host(msg) = said.from.host /\ User(msg) = said.from.user
      /\ User(msg) # <<>> => UserHost(msg) = User(msg) \o <<"@">> \o Host(msg)
      /\ User(msg) \o Host(msg) = <<>> => ServerName(msg) = said.from.name
  BY <1>1, <1>3, PrefixRead
<1>5. Trailing(msg.params) = TrimRight(said.text) /\ (TrimRight(said.text) = <<>> <=> k = 0)
  BY <1>2, TrailingRead
<1>6. GetParams(msg) = SentParams(said)
  BY <1>2, ParamsRead
<1>7. TrimRight(said.text) # <<>> =>
         UserCmd(msg) \o UserParams(msg)
            = (IF TrimRight(said.text)[1] = Word(Blank) THEN <<>> ELSE <<TrimRight(said.text)[1]>>)
              \o SkipBlanks(Tail(TrimRight(said.text)))
  BY <1>2, <1>5, CommandRead
<1>8. ReplyTo(msg) = IF Start(SentParams(said)[1]) \in HashChannels THEN SentParams(said)[1]
                     ELSE AllowNick(said.from.name)
  BY <1>2, <1>4, ReplyRead
<1>9. \A j \in (1 .. 3) \cap DOMAIN SentMiddles(said) :
         /\ said.command \in ChanParams[j]
         /\ SentMiddles(said)[j].text \in HashChannels \cup OtherChannels
         => Chan(msg) = <<SentMiddles(said)[j]>>
  BY <1>2, ChanRead
<1> QED BY <1>4, <1>5, <1>6, <1>7, <1>8, <1>9, Zenon DEF MessageParsed, SentParams

(* What the bot reads of a message is what its sender said, whatever the   *)
(* messages are: who it is from, every parameter with the spaces of the    *)
(* last one, the word it takes for a command and the rest of the text, and *)
(* where a reply goes, but for channels that do not begin with '#'.        *)
THEOREM MessageParsedCorrect == MsgSpec => []MessageParsed
<1>1. MsgInv => MessageParsed
  BY ParsedNow
<1> QED BY <1>1, MsgInvariant, PTL
=============================================================================
