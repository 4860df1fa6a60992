------------------------ MODULE RandomTimer_proofs ------------------------
(***************************************************************************)
(* Proofs about RandomTimer, for any callers and callbacks of any length:  *)
(* its types, the answers of on() and off(), when there can be a second    *)
(* timer thread, and when one can still call back after the last off().    *)
(***************************************************************************)
EXTENDS RandomTimer, FiniteSetTheorems, TLAPS

USE TimerAssumption

TurningOn == {c \in Callers : cpc[c] = "on"}

\* The bound on threads has room for those that calls under way may launch.
Room == launched + Cardinality(TurningOn) <= MaxTimers

\* A call under way is about a user.
ArgInv == \A c \in Callers : cpc[c] \in {"on", "off"} => arg[c] \in Users

TInv == TypeOK /\ Room /\ ArgInv

LEMMA TurningOnFinite ==
    ASSUME TypeOK
    PROVE  IsFiniteSet(TurningOn) /\ Cardinality(TurningOn) \in Nat
BY FS_Subset, FS_CardinalityType DEF TurningOn

LEMMA OneMore ==
    ASSUME TypeOK, NEW c \in Callers, cpc[c] = "idle", CallerGoto(c, "on")
    PROVE  Cardinality(TurningOn') = Cardinality(TurningOn) + 1
<1>1. TurningOn' = TurningOn \cup {c} /\ c \notin TurningOn
  BY DEF TurningOn, CallerGoto, TypeOK
<1> QED BY <1>1, TurningOnFinite, FS_AddElement

LEMMA OneLess ==
    ASSUME TypeOK, NEW c \in Callers, cpc[c] = "on", NEW where, where # "on",
           CallerGoto(c, where)
    PROVE  /\ Cardinality(TurningOn') = Cardinality(TurningOn) - 1
           /\ Cardinality(TurningOn) >= 1
<1>1. TurningOn' = TurningOn \ {c} /\ c \in TurningOn
  BY DEF TurningOn, CallerGoto, TypeOK
<1>2. /\ Cardinality(TurningOn \ {c}) = Cardinality(TurningOn) - 1
      /\ IsFiniteSet(TurningOn \ {c})
  BY <1>1, TurningOnFinite, FS_RemoveElement
<1>3. Cardinality(TurningOn \ {c}) \in Nat
  BY <1>2, FS_CardinalityType
<1> QED BY <1>1, <1>2, <1>3, TurningOnFinite

LEMMA NoneMore ==
    ASSUME TypeOK, NEW c \in Callers, cpc[c] # "on", NEW where, where # "on",
           CallerGoto(c, where)
    PROVE  TurningOn' = TurningOn
BY DEF TurningOn, CallerGoto, TypeOK

-----------------------------------------------------------------------------
(* Types and the bound *)

LEMMA InitTInv == Init => TInv
<1> SUFFICES ASSUME Init PROVE TInv
  OBVIOUS
<1>1. TypeOK /\ ArgInv
  BY DEF Init, TypeOK, Timers, Users, ArgInv
<1>2. TurningOn = {}
  BY DEF Init, TurningOn
<1>3. Cardinality(TurningOn) = 0
  BY <1>2, FS_EmptySet
<1> QED BY <1>1, <1>3 DEF Init, TInv, Room

LEMMA TimerTInv == ASSUME TInv, NEW t \in Timers, Timer(t) PROVE TInv'
<1> USE DEF TInv
<1>1. UNCHANGED <<users, owner, fut, launched, cpc, arg, ons, abandoned>>
  BY DEF Timer, TimerTest, TimerNext, TimerThrows, TimerWait
<1>2. Room' /\ ArgInv'
  BY <1>1 DEF Room, TurningOn, ArgInv
<1>3. \/ \E u \in Users : CallBack(t, u)
      \/ /\ UNCHANGED at
         /\ \E where \in {"test", "wait", "ended", "threw"} : TimerGoto(t, where)
  <2>1. users \subseteq Users
    BY DEF TypeOK
  <2>2. CASE TimerTest(t)
    BY <2>1, <2>2 DEF TimerTest, CallBackFirst
  <2>3. CASE TimerNext(t)
    BY <2>1, <2>3 DEF TimerNext, CallBackFirst, RoundOver
  <2>4. CASE TimerThrows(t)
    BY <2>4 DEF TimerThrows
  <2>5. CASE TimerWait(t)
    BY <2>5 DEF TimerWait
  <2> QED BY <2>2, <2>3, <2>4, <2>5 DEF Timer
<1>4. TypeOK'
  BY <1>1, <1>3 DEF TypeOK, CallBack, TimerGoto
<1> QED BY <1>2, <1>4

LEMMA OnTInv ==
    ASSUME TInv, NEW c \in Callers, NEW u \in Users, On(c, u)
    PROVE  TInv'
<1> USE DEF TInv
<1>1. Cardinality(TurningOn') = Cardinality(TurningOn) + 1
  BY OneMore DEF On
<1>2. launched + Cardinality(TurningOn) < MaxTimers
  BY DEF On, MayLaunch, TurningOn
<1>3. launched \in Nat /\ launched' = launched
  BY DEF On, TypeOK
<1>4. Room'
  BY <1>1, <1>2, <1>3, TurningOnFinite DEF Room
<1>5. TypeOK' /\ ArgInv'
  BY DEF On, TypeOK, CallerGoto, ArgInv
<1> QED BY <1>4, <1>5

LEMMA OnEndsTInv ==
    ASSUME TInv, NEW c \in Callers,
           OnRefused(c) \/ OnJoins(c) \/ OnLaunches(c)
    PROVE  TInv'
<1> USE DEF TInv
<1>1. cpc[c] = "on" /\ arg' = arg /\ arg[c] \in Users
  BY DEF OnRefused, OnJoins, OnLaunches, ArgInv
<1>2. PICK where \in {"idle", "launch"} : CallerGoto(c, where)
  BY DEF OnRefused, OnJoins, OnLaunches
<1>3. /\ Cardinality(TurningOn') = Cardinality(TurningOn) - 1
      /\ Cardinality(TurningOn) >= 1
  BY <1>1, <1>2, OneLess
<1>4. launched' \in {launched, launched + 1} /\ launched \in Nat
  BY DEF OnRefused, OnJoins, OnLaunches, TypeOK
<1>5. Room /\ Cardinality(TurningOn) \in Nat
  BY TurningOnFinite
<1>6. Room'
  BY <1>3, <1>4, <1>5 DEF Room
<1>7. launched + 1 \in 1..MaxTimers
  BY <1>3, <1>4, <1>5 DEF Room
<1>8. ArgInv'
  BY <1>1, <1>2 DEF ArgInv, CallerGoto, TypeOK
<1>9. CASE OnRefused(c)
  BY <1>6, <1>8, <1>9 DEF OnRefused, TypeOK, CallerGoto
<1>10. CASE OnJoins(c)
  <2>1. TypeOK'
    BY <1>1, <1>10 DEF OnJoins, TypeOK, CallerGoto, TurnedOn
  <2> QED BY <2>1, <1>6, <1>8
<1>11. CASE OnLaunches(c)
  <2>1. users' \subseteq Users /\ ons' \in [Users -> Int]
    BY <1>1, <1>11 DEF OnLaunches, TypeOK, TurnedOn
  <2>2. launched' \in 0..MaxTimers /\ fut' \in 0..launched'
    BY <1>4, <1>7, <1>11 DEF OnLaunches, TypeOK
  <2>3. TypeOK'
    BY <2>1, <2>2, <1>7, <1>11 DEF OnLaunches, TypeOK, CallerGoto, TimerGoto, Timers
  <2> QED BY <2>3, <1>6, <1>8
<1> QED BY <1>9, <1>10, <1>11

\* The other steps neither start nor end a call that may launch a thread.
LEMMA OtherTInv ==
    ASSUME TInv, NEW c \in Callers,
           \/ OnReturns(c) \/ OffRefused(c) \/ OffLocked(c) \/ TurnOffLocked(c)
           \/ Joined(c) \/ GivesUp(c) \/ TurnOff(c) \/ \E u \in Users : Off(c, u)
    PROVE  TInv'
<1> USE DEF TInv
<1>1. /\ cpc[c] # "on" /\ launched' = launched
      /\ \E where \in {"idle", "off", "turn_off", "join"} : CallerGoto(c, where)
  BY DEF OnReturns, OffRefused, OffLocked, TurnOffLocked, Joined, GivesUp, TurnOff, Off
<1>2. TurningOn' = TurningOn
  BY <1>1, NoneMore
<1>3. Room'
  BY <1>1, <1>2 DEF Room
<1>4. CASE OnReturns(c)
  BY <1>3, <1>4 DEF OnReturns, TypeOK, CallerGoto, ArgInv
<1>5. CASE OffRefused(c)
  BY <1>3, <1>5 DEF OffRefused, TypeOK, CallerGoto, ArgInv
<1>6. CASE OffLocked(c)
  <2>1. ons' \in [Users -> Int]
    BY <1>6 DEF OffLocked, TypeOK, ArgInv
  <2>2. CallerGoto(c, "join") \/ CallerGoto(c, "idle")
    BY <1>6 DEF OffLocked
  <2> QED BY <1>3, <1>6, <2>1, <2>2 DEF OffLocked, TypeOK, CallerGoto, ArgInv
<1>7. CASE TurnOffLocked(c)
  <2>1. ons' \in [Users -> Int]
    BY <1>7 DEF TurnOffLocked
  <2>2. CallerGoto(c, "join") \/ CallerGoto(c, "idle")
    BY <1>7 DEF TurnOffLocked
  <2> QED BY <1>3, <1>7, <2>1, <2>2 DEF TurnOffLocked, TypeOK, CallerGoto, ArgInv
<1>8. CASE Joined(c)
  BY <1>3, <1>8 DEF Joined, TypeOK, CallerGoto, ArgInv
<1>9. CASE GivesUp(c)
  <2>1. fut \in Timers
    BY <1>9 DEF GivesUp, FutReady, TypeOK, Timers
  <2> QED BY <1>3, <1>9, <2>1 DEF GivesUp, TypeOK, CallerGoto, ArgInv
<1>10. CASE TurnOff(c)
  BY <1>3, <1>10 DEF TurnOff, TypeOK, CallerGoto, ArgInv
<1>11. CASE \E u \in Users : Off(c, u)
  BY <1>3, <1>11 DEF Off, TypeOK, CallerGoto, ArgInv
<1> QED BY <1>4, <1>5, <1>6, <1>7, <1>8, <1>9, <1>10, <1>11

LEMMA NextTInv == TInv /\ [Next]_vars => TInv'
<1> SUFFICES ASSUME TInv, [Next]_vars PROVE TInv'
  OBVIOUS
<1>1. CASE UNCHANGED vars
  BY <1>1 DEF vars, TInv, TypeOK, Room, ArgInv, TurningOn
<1>2. CASE \E t \in Timers : Timer(t)
  BY <1>2, TimerTInv
<1>3. CASE \E c \in Callers : \E u \in Users : On(c, u)
  BY <1>3, OnTInv
<1>4. CASE \E c \in Callers : Continue(c) \/ TurnOff(c) \/ \E u \in Users : Off(c, u)
  BY <1>4, OnEndsTInv, OtherTInv DEF Continue
<1> QED BY <1>1, <1>2, <1>3, <1>4 DEF Next

LEMMA TInvHolds == Spec => []TInv
BY InitTInv, NextTInv, PTL DEF Spec

\* Every variable keeps its type; in particular no more threads are launched
\* than the bound, whatever calls overlap.
THEOREM TypeCorrect == Spec => []TypeOK
BY TInvHolds, PTL DEF TInv

-----------------------------------------------------------------------------
(* What the calls answer *)

LEMMA AnswersStep == TInv /\ Answers /\ [Next]_vars => Answers'
<1> SUFFICES ASSUME TInv, Answers, [Next]_vars PROVE Answers'
  OBVIOUS
<1> USE DEF TInv, Answers
<1>1. ons \in [Users -> Int] /\ users \subseteq Users
  BY DEF TypeOK
<1>2. CASE users' = users /\ ons' = ons
  BY <1>2
<1>3. ASSUME NEW c \in Callers, cpc[c] = "on", arg[c] \notin users, TurnedOn(arg[c])
      PROVE  Answers'
  <2>1. arg[c] \in Users
    BY <1>3 DEF ArgInv
  <2> QED BY <1>1, <1>3, <2>1 DEF TurnedOn
<1>4. ASSUME NEW c \in Callers, OffLocked(c) PROVE Answers'
  BY <1>1, <1>4 DEF OffLocked
<1>5. ASSUME NEW c \in Callers, TurnOffLocked(c) PROVE Answers'
  BY <1>5 DEF TurnOffLocked
<1>6. \/ users' = users /\ ons' = ons
      \/ \E c \in Callers :
            \/ cpc[c] = "on" /\ arg[c] \notin users /\ TurnedOn(arg[c])
            \/ OffLocked(c) \/ TurnOffLocked(c)
  BY DEF Next, vars, Timer, TimerTest, TimerNext, TimerThrows, TimerWait, On, Continue,
         OnRefused, OnJoins, OnLaunches, OnReturns, OffRefused, Joined, GivesUp, TurnOff, Off
<1> QED BY <1>2, <1>3, <1>4, <1>5, <1>6

\* However many threads call on(), off() and turn_off() at once, a user is on
\* exactly when one on() = true has not been undone: the test made without
\* the lock never leads to a wrong answer.
THEOREM AnswersCorrect == Spec => []Answers
<1>1. Init => Answers
  BY DEF Init, Answers
<1> QED BY <1>1, AnswersStep, TInvHolds, PTL DEF Spec

-----------------------------------------------------------------------------
(* The timer threads *)

Launching == \E c \in Callers : cpc[c] = "launch"

\* mtx is held over steps only by an on() that has launched a thread.
LockInv ==
    \A c \in Callers :
        /\ c \in owner => cpc[c] = "launch"
        /\ cpc[c] = "launch" => owner = {c} /\ users # {} /\ fut < launched

\* A thread that is alive is the one of fut or has just been launched.
AliveInv == \A t \in Timers : Alive(t) => t = fut \/ (t = launched /\ Launching)

\* With no user left, a thread still alive is being waited for or given up.
QuietInv ==
    users = {} /\ ~FutReady => fut \in abandoned \/ \E c \in Callers : cpc[c] = "join"

ThreadInv == LockInv /\ AliveInv /\ QuietInv

LEMMA TimerThreads ==
    ASSUME TInv, ThreadInv, NEW t \in Timers, Timer(t)
    PROVE  ThreadInv'
<1> USE DEF TInv
<1>1. Alive(t) /\ UNCHANGED <<users, owner, fut, launched, cpc, abandoned>>
  BY DEF Timer, TimerTest, TimerNext, TimerThrows, TimerWait, Alive, Over
<1>2. /\ tpc \in [Timers -> {"unborn", "test", "cb", "wait", "ended", "threw"}]
      /\ fut \in Timers \cup {0} /\ 0 \notin Timers
  BY DEF TypeOK, Timers
<1>3. \A s \in Timers : s # t => tpc'[s] = tpc[s]
  BY <1>2 DEF Timer, TimerTest, TimerNext, TimerThrows, TimerWait,
      TimerGoto, CallBackFirst, CallBack, RoundOver
<1>4. \A s \in Timers : Alive(s)' => Alive(s)
  BY <1>1, <1>3 DEF Alive, Over
<1>5. ~FutReady' => ~FutReady
  BY <1>1, <1>2, <1>3 DEF FutReady, Alive, Over
<1>6. LockInv' /\ AliveInv'
  BY <1>1, <1>4 DEF ThreadInv, LockInv, AliveInv, Launching
<1>7. QuietInv'
  BY <1>1, <1>5 DEF ThreadInv, QuietInv
<1> QED BY <1>6, <1>7 DEF ThreadInv

LEMMA LaunchThreads ==
    ASSUME TInv, ThreadInv, NEW c \in Callers, OnLaunches(c)
    PROVE  ThreadInv'
<1> USE DEF TInv
<1>1. launched' = launched + 1 /\ launched' \in Timers /\ fut' = fut /\ fut < launched'
  BY OnEndsTInv DEF OnLaunches, TypeOK, Timers
<1>2. /\ owner' = {c} /\ users' # {} /\ cpc' = [cpc EXCEPT ![c] = "launch"]
      /\ owner = {} /\ cpc'[c] = "launch"
  BY DEF OnLaunches, TurnedOn, CallerGoto, TypeOK
<1>3. \A d \in Callers : cpc[d] # "launch"
  BY <1>2 DEF ThreadInv, LockInv
<1>4. LockInv'
  BY <1>1, <1>2, <1>3 DEF LockInv, TypeOK
<1>5. \A t \in Timers : Alive(t)' => t = fut \/ t = launched'
  BY <1>1, <1>3 DEF OnLaunches, TimerGoto, Alive, Over, TypeOK, ThreadInv, AliveInv, Launching
<1>6. AliveInv'
  BY <1>1, <1>2, <1>5 DEF AliveInv, Launching
<1>7. QuietInv'
  BY <1>2 DEF QuietInv
<1> QED BY <1>4, <1>6, <1>7 DEF ThreadInv

LEMMA ReturnThreads ==
    ASSUME TInv, ThreadInv, NEW c \in Callers, OnReturns(c)
    PROVE  ThreadInv'
<1> USE DEF TInv
<1>1. /\ FutReady /\ fut' = launched /\ owner' = {} /\ cpc' = [cpc EXCEPT ![c] = "idle"]
      /\ UNCHANGED <<users, launched, tpc>> /\ users # {} /\ owner = {c}
  BY DEF OnReturns, CallerGoto, ThreadInv, LockInv
<1>2. \A d \in Callers : cpc'[d] # "launch"
  BY <1>1 DEF ThreadInv, LockInv, TypeOK
<1>3. LockInv' /\ QuietInv'
  BY <1>1, <1>2 DEF LockInv, QuietInv
<1>4. 0 \notin Timers
  BY DEF Timers
<1>5. AliveInv'
  BY <1>1, <1>4 DEF ThreadInv, AliveInv, Alive, Over, FutReady
<1> QED BY <1>3, <1>5 DEF ThreadInv

\* A step of a caller that leaves the threads and fut alone, and neither takes
\* nor gives up mtx for longer than the step.
LEMMA CallThreads ==
    ASSUME TInv, ThreadInv, NEW c \in Callers,
           NEW where \in {"idle", "on", "off", "turn_off", "join"}, CallerGoto(c, where),
           cpc[c] # "launch", UNCHANGED <<owner, fut, launched, tpc>>,
           owner # {} => users' = users,
           users' = {} /\ ~FutReady =>
               \/ where = "join"
               \/ users = {} /\ cpc[c] # "join" /\ abandoned' = abandoned
               \/ fut \in abandoned'
    PROVE  ThreadInv'
<1> USE DEF TInv
<1>1. cpc' = [cpc EXCEPT ![c] = where] /\ cpc'[c] = where
  BY DEF CallerGoto, TypeOK
<1>2. \A d \in Callers : (cpc'[d] = "launch" <=> cpc[d] = "launch") /\ (d # c => cpc'[d] = cpc[d])
  BY <1>1 DEF TypeOK
<1>3. LockInv'
  BY <1>2 DEF ThreadInv, LockInv
<1>4. AliveInv'
  BY <1>2 DEF ThreadInv, AliveInv, Launching, Alive, Over
<1>5. FutReady' <=> FutReady
  BY DEF FutReady, Over
<1>6. QuietInv'
  BY <1>1, <1>2, <1>5 DEF ThreadInv, QuietInv
<1> QED BY <1>3, <1>4, <1>6 DEF ThreadInv

LEMMA JoinedThreads ==
    ASSUME TInv, ThreadInv, NEW c \in Callers, Joined(c)
    PROVE  ThreadInv'
<1> USE DEF TInv
<1>1. /\ FutReady /\ fut' = 0 /\ cpc' = [cpc EXCEPT ![c] = "idle"] /\ cpc[c] = "join"
      /\ UNCHANGED <<users, owner, launched, tpc>>
  BY DEF Joined, CallerGoto
<1>2. \A d \in Callers : cpc'[d] = "launch" <=> cpc[d] = "launch"
  BY <1>1 DEF TypeOK
<1>3. \A d \in Callers : cpc[d] = "launch" => 0 < launched
  BY DEF ThreadInv, LockInv, TypeOK
<1>4. LockInv'
  BY <1>1, <1>2, <1>3 DEF ThreadInv, LockInv
<1>5. 0 \notin Timers
  BY DEF Timers
<1>6. AliveInv'
  BY <1>1, <1>2, <1>5 DEF ThreadInv, AliveInv, Launching, Alive, Over, FutReady
<1>7. QuietInv'
  BY <1>1 DEF QuietInv, FutReady
<1> QED BY <1>4, <1>6, <1>7 DEF ThreadInv

LEMMA ThreadStep == TInv /\ ThreadInv /\ [Next]_vars => ThreadInv'
<1> SUFFICES ASSUME TInv, ThreadInv, [Next]_vars PROVE ThreadInv'
  OBVIOUS
<1>1. CASE UNCHANGED vars
  BY <1>1 DEF vars, ThreadInv, LockInv, AliveInv, QuietInv, Alive, Over, FutReady, Launching
<1>2. ASSUME NEW t \in Timers, Timer(t) PROVE ThreadInv'
  BY <1>2, TimerThreads
<1>3. ASSUME NEW c \in Callers, NEW u \in Users, On(c, u) PROVE ThreadInv'
  BY <1>3, CallThreads DEF On
<1>4. ASSUME NEW c \in Callers, OnRefused(c) PROVE ThreadInv'
  BY <1>4, CallThreads DEF OnRefused
<1>5. ASSUME NEW c \in Callers, OnJoins(c) PROVE ThreadInv'
  <2>1. users' # {}
    BY <1>5 DEF OnJoins, TurnedOn
  <2> QED BY <1>5, <2>1, CallThreads DEF OnJoins
<1>6. ASSUME NEW c \in Callers, OnLaunches(c) PROVE ThreadInv'
  BY <1>6, LaunchThreads
<1>7. ASSUME NEW c \in Callers, OnReturns(c) PROVE ThreadInv'
  BY <1>7, ReturnThreads
<1>8. ASSUME NEW c \in Callers, NEW u \in Users, Off(c, u) PROVE ThreadInv'
  BY <1>8, CallThreads DEF Off
<1>9. ASSUME NEW c \in Callers, OffRefused(c) PROVE ThreadInv'
  BY <1>9, CallThreads DEF OffRefused
<1>10. ASSUME NEW c \in Callers, OffLocked(c) PROVE ThreadInv'
  <2>1. CASE users' = {}
    BY <1>10, <2>1, CallThreads DEF OffLocked
  <2>2. CASE users' # {}
    BY <1>10, <2>2, CallThreads DEF OffLocked
  <2> QED BY <2>1, <2>2
<1>11. ASSUME NEW c \in Callers, TurnOff(c) PROVE ThreadInv'
  BY <1>11, CallThreads DEF TurnOff
<1>12. ASSUME NEW c \in Callers, TurnOffLocked(c) PROVE ThreadInv'
  <2>1. CASE users = {}
    BY <1>12, <2>1, CallThreads DEF TurnOffLocked
  <2>2. CASE users # {}
    BY <1>12, <2>2, CallThreads DEF TurnOffLocked
  <2> QED BY <2>1, <2>2
<1>13. ASSUME NEW c \in Callers, Joined(c) PROVE ThreadInv'
  BY <1>13, JoinedThreads
<1>14. ASSUME NEW c \in Callers, GivesUp(c) PROVE ThreadInv'
  BY <1>14, CallThreads DEF GivesUp
<1> QED BY <1>1, <1>2, <1>3, <1>4, <1>5, <1>6, <1>7, <1>8, <1>9, <1>10, <1>11, <1>12,
           <1>13, <1>14 DEF Next, Continue

LEMMA ThreadInvHolds == Spec => []ThreadInv
<1>1. Init => ThreadInv
  BY DEF Init, ThreadInv, LockInv, AliveInv, QuietInv, Alive, FutReady
<1> QED BY <1>1, ThreadStep, TInvHolds, PTL DEF Spec

\* However many threads call on() and off(), and however long the callbacks
\* take, there is a second timer thread only while an on() waits for the first.
THEOREM OneTimerCorrect == Spec => []OneTimer
<1>1. TInv /\ ThreadInv => OneTimer
  BY DEF TInv, TypeOK, Timers, ThreadInv, AliveInv, LockInv, Launching, OneTimer
<1> QED BY <1>1, TInvHolds, ThreadInvHolds, PTL

\* ... and once the last off() has returned a callback can only come from a
\* thread that an off() gave up after its ten seconds.
THEOREM QuietAfterOffCorrect == Spec => []QuietAfterOff
<1>1. TInv /\ ThreadInv => QuietAfterOff
  <2> SUFFICES ASSUME TInv, ThreadInv, users = {}, \A c \in Callers : cpc[c] = "idle",
                      NEW t \in Timers, tpc[t] = "cb"
               PROVE  t \in abandoned
    BY DEF QuietAfterOff
  <2>1. t = fut /\ ~FutReady
    BY DEF ThreadInv, AliveInv, Launching, Alive, Over, FutReady, Timers
  <2> QED BY <2>1 DEF ThreadInv, QuietInv
<1> QED BY <1>1, TInvHolds, ThreadInvHolds, PTL
=============================================================================
