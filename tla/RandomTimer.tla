---------------------------- MODULE RandomTimer ----------------------------
(***************************************************************************)
(* RandomTimer and MessageTimer (src/src/Timers.cpp): users turn a timer   *)
(* on and off; while it has a user, a thread of its own calls back for     *)
(* each user, waits a random delay and starts again.                       *)
(*                                                                         *)
(* Callers are the threads that run bot commands.  users is read without   *)
(* mtx by the timer thread and by the first test of on, off and turn_off.  *)
(* A MessageTimer is the same machine: its users are messages, told apart  *)
(* by reply_to(), and it lets a callback's exception end the thread.       *)
(***************************************************************************)
EXTENDS Integers, FiniteSets

CONSTANTS
    Callers,
    UserCount,
    MaxTimers,   \* bound: timer threads launched
    Throws,      \* may a callback throw?
    Catches      \* RandomTimer: TRUE, MessageTimer: FALSE

ASSUME TimerAssumption ==
    /\ IsFiniteSet(Callers) /\ UserCount \in Nat /\ MaxTimers \in Nat
    /\ {Throws, Catches} \subseteq BOOLEAN

VARIABLES
    users,
    owner,     \* callers inside the critical section of mtx, waiting there
    fut,       \* the timer thread whose future fut is, 0 if fut is not valid
    launched,  \* threads launched so far; the last one is launched
    tpc, at,   \* timer threads: where each is, the user it calls back for
    cpc, arg,  \* callers: where each is, the user on or off was called for
    ons,       \* history: on() = true not undone by off() = true, per user
    abandoned  \* history: timer threads that an off() gave up waiting for

vars == <<users, owner, fut, launched, tpc, at, cpc, arg, ons, abandoned>>

Users == 1..UserCount
Timers == 1..MaxTimers

TypeOK ==
    /\ users \subseteq Users
    /\ owner \subseteq Callers
    /\ fut \in 0..launched /\ launched \in 0..MaxTimers
    /\ tpc \in [Timers -> {"unborn", "test", "cb", "wait", "ended", "threw"}]
    /\ at \in [Timers -> Users \cup {0}]
    /\ cpc \in [Callers -> {"idle", "on", "launch", "off", "turn_off", "join"}]
    /\ arg \in [Callers -> Users \cup {0}]
    /\ ons \in [Users -> Int]
    /\ abandoned \subseteq Timers

Init ==
    /\ users = {} /\ owner = {} /\ fut = 0 /\ launched = 0
    /\ tpc = [t \in Timers |-> "unborn"] /\ at = [t \in Timers |-> 0]
    /\ cpc = [c \in Callers |-> "idle"] /\ arg = [c \in Callers |-> 0]
    /\ ons = [u \in Users |-> 0] /\ abandoned = {}

Over(t) == tpc[t] \in {"ended", "threw"}
FutReady == fut # 0 => Over(fut)

-----------------------------------------------------------------------------
(* The timer thread *)

TimerGoto(t, where) == tpc' = [tpc EXCEPT ![t] = where]
CallBack(t, u) == TimerGoto(t, "cb") /\ at' = [at EXCEPT ![t] = u]
CallBackFirst(t, S) == \E u \in S : (\A v \in S : u <= v) /\ CallBack(t, u)

\* while(!users.empty()), and the first callback of the round
TimerTest(t) ==
    /\ tpc[t] = "test"
    /\ IF users = {}
       THEN TimerGoto(t, "ended") /\ UNCHANGED at
       ELSE CallBackFirst(t, users)
    /\ UNCHANGED <<users, owner, fut, launched, cpc, arg, ons, abandoned>>

RoundOver(t) == TimerGoto(t, "wait") /\ UNCHANGED at

\* Mutant: only the first user of a round is called back.
MutTimerNext(t) ==
    /\ tpc[t] = "cb"
    /\ RoundOver(t)
    /\ UNCHANGED <<users, owner, fut, launched, cpc, arg, ons, abandoned>>

\* The callback returns and the iterator moves on.  If its user was erased
\* meanwhile it dangles: the loop may go on anywhere, or be over.
TimerNext(t) ==
    /\ tpc[t] = "cb"
    /\ LET later == {u \in users : u > at[t]} IN
       IF at[t] \in users
       THEN IF later = {} THEN RoundOver(t) ELSE CallBackFirst(t, later)
       ELSE RoundOver(t) \/ \E u \in users : CallBack(t, u)
    /\ UNCHANGED <<users, owner, fut, launched, cpc, arg, ons, abandoned>>

\* The catch block is inside the loop and outside the wait.
TimerThrows(t) ==
    /\ Throws /\ tpc[t] = "cb"
    /\ TimerGoto(t, IF Catches THEN "test" ELSE "threw")
    /\ UNCHANGED <<users, owner, fut, launched, at, cpc, arg, ons, abandoned>>

\* The delay is over, or users is empty.
TimerWait(t) ==
    /\ tpc[t] = "wait"
    /\ TimerGoto(t, "test")
    /\ UNCHANGED <<users, owner, fut, launched, at, cpc, arg, ons, abandoned>>

Timer(t) == TimerTest(t) \/ TimerNext(t) \/ TimerThrows(t) \/ TimerWait(t)

-----------------------------------------------------------------------------
(* on *)

CallerGoto(c, where) == cpc' = [cpc EXCEPT ![c] = where]

\* The bound counts the threads that calls under way may yet launch.
MayLaunch == launched + Cardinality({c \in Callers : cpc[c] = "on"}) < MaxTimers

\* if(users.count(user)) return false;
On(c, u) ==
    /\ cpc[c] = "idle" /\ MayLaunch
    /\ u \notin users
    /\ CallerGoto(c, "on") /\ arg' = [arg EXCEPT ![c] = u]
    /\ UNCHANGED <<users, owner, fut, launched, tpc, at, ons, abandoned>>

OnRefused(c) ==
    /\ cpc[c] = "on" /\ owner = {}
    /\ arg[c] \in users
    /\ CallerGoto(c, "idle")
    /\ UNCHANGED <<users, owner, fut, launched, tpc, at, arg, ons, abandoned>>

TurnedOn(u) == users' = users \cup {u} /\ ons' = [ons EXCEPT ![u] = @ + 1]

\* Mutant: no second look under the lock.
MutOnJoins(c) ==
    /\ cpc[c] = "on" /\ owner = {} /\ users # {}
    /\ TurnedOn(arg[c])
    /\ CallerGoto(c, "idle")
    /\ UNCHANGED <<owner, fut, launched, tpc, at, arg, abandoned>>

OnJoins(c) ==
    /\ cpc[c] = "on" /\ owner = {}
    /\ arg[c] \notin users /\ users # {}
    /\ TurnedOn(arg[c])
    /\ CallerGoto(c, "idle")
    /\ UNCHANGED <<owner, fut, launched, tpc, at, arg, abandoned>>

\* The first user launches the thread.  The assignment to fut, made inside the
\* critical section, first gives up the old future ...
OnLaunches(c) ==
    /\ cpc[c] = "on" /\ owner = {}
    /\ users = {}
    /\ TurnedOn(arg[c])
    /\ launched' = launched + 1
    /\ TimerGoto(launched + 1, "test")
    /\ owner' = {c} /\ CallerGoto(c, "launch")
    /\ UNCHANGED <<fut, at, arg, abandoned>>


\* Mutant: the future given up does not wait for its thread.
MutOnReturnsAtOnce(c) ==
    /\ cpc[c] = "launch"
    /\ fut' = launched
    /\ owner' = {} /\ CallerGoto(c, "idle")
    /\ UNCHANGED <<users, launched, tpc, at, arg, ons, abandoned>>

\* ... and giving up the future of a std::async waits for its thread.
OnReturns(c) ==
    /\ cpc[c] = "launch"
    /\ FutReady
    /\ fut' = launched
    /\ owner' = {} /\ CallerGoto(c, "idle")
    /\ UNCHANGED <<users, launched, tpc, at, arg, ons, abandoned>>

-----------------------------------------------------------------------------
(* off and turn_off *)

Off(c, u) ==
    /\ cpc[c] = "idle" /\ u \in users
    /\ CallerGoto(c, "off") /\ arg' = [arg EXCEPT ![c] = u]
    /\ UNCHANGED <<users, owner, fut, launched, tpc, at, ons, abandoned>>

OffRefused(c) ==
    /\ cpc[c] = "off" /\ owner = {}
    /\ arg[c] \notin users
    /\ CallerGoto(c, "idle")
    /\ UNCHANGED <<users, owner, fut, launched, tpc, at, arg, ons, abandoned>>

OffLocked(c) ==
    /\ cpc[c] = "off" /\ owner = {}
    /\ arg[c] \in users
    /\ users' = users \ {arg[c]}
    /\ ons' = [ons EXCEPT ![arg[c]] = @ - 1]
    /\ CallerGoto(c, IF users' = {} THEN "join" ELSE "idle")
    /\ UNCHANGED <<owner, fut, launched, tpc, at, arg, abandoned>>

TurnOff(c) ==
    /\ cpc[c] = "idle" /\ users # {}
    /\ CallerGoto(c, "turn_off")
    /\ UNCHANGED <<users, owner, fut, launched, tpc, at, arg, ons, abandoned>>

TurnOffLocked(c) ==
    /\ cpc[c] = "turn_off" /\ owner = {}
    /\ CallerGoto(c, IF users = {} THEN "idle" ELSE "join")
    /\ users' = {}
    /\ ons' = [u \in Users |-> 0]
    /\ UNCHANGED <<owner, fut, launched, tpc, at, arg, abandoned>>

\* Mutant: off() does not wait for the thread.
MutJoined(c) ==
    /\ cpc[c] = "join"
    /\ CallerGoto(c, "idle")
    /\ UNCHANGED <<users, owner, fut, launched, tpc, at, arg, ons, abandoned>>

\* fut.wait_for(10s) is ready, and fut.get(): fut is not valid any more.
Joined(c) ==
    /\ cpc[c] = "join"
    /\ FutReady
    /\ fut' = 0
    /\ CallerGoto(c, "idle")
    /\ UNCHANGED <<users, owner, launched, tpc, at, arg, ons, abandoned>>

\* Ten seconds are not enough: a callback takes as long as it likes (the one
\* user of the class sleeps ten seconds and fetches a page,
\* plugin-oastats.cpp:843), or somebody is on again.
GivesUp(c) ==
    /\ cpc[c] = "join"
    /\ ~FutReady
    /\ abandoned' = abandoned \cup {fut}
    /\ CallerGoto(c, "idle")
    /\ UNCHANGED <<users, owner, fut, launched, tpc, at, arg, ons>>

Continue(c) ==
    \/ OnRefused(c) \/ OnJoins(c) \/ OnLaunches(c) \/ OnReturns(c)
    \/ OffRefused(c) \/ OffLocked(c) \/ TurnOffLocked(c)
    \/ Joined(c) \/ GivesUp(c)

Next ==
    \/ \E c \in Callers :
          \/ Continue(c) \/ TurnOff(c)
          \/ \E u \in Users : On(c, u) \/ Off(c, u)
    \/ \E t \in Timers : Timer(t)

Spec == Init /\ [][Next]_vars

\* The timer threads and the callers are operating-system threads; a call
\* that has begun goes on, no call has to begin.
FairSpec ==
    /\ Spec
    /\ \A c \in Callers : WF_vars(Continue(c))
    /\ \A t \in Timers : WF_vars(Timer(t))

-----------------------------------------------------------------------------
(* Properties *)

\* What on() and off() answer adds up, whoever races with whom: a user is on
\* exactly when one on() = true has not been undone yet.
Answers == \A u \in Users : ons[u] = IF u \in users THEN 1 ELSE 0

Alive(t) == tpc[t] # "unborn" /\ ~Over(t)

\* There is a second timer thread only while an on() waits, mtx in hand, for
\* the thread before it to end: but for that nobody is called back twice a
\* round.  It holds for callbacks of any length and for any callers.
OneTimer ==
    \A s, t \in Timers :
        Alive(s) /\ Alive(t) /\ s < t =>
            s = fut /\ t = launched /\ \E c \in Callers : cpc[c] = "launch"

\* Once the last off() has returned nobody is being called back, and what the
\* callback uses may be destroyed, unless that off() or one before it gave the
\* thread up after its ten seconds.
QuietAfterOff ==
    users = {} /\ (\A c \in Callers : cpc[c] = "idle") =>
        \A t \in Timers : tpc[t] = "cb" => t \in abandoned

\* An on() holds mtx and waits for a thread that an off() gave up.
Stuck == \E c \in Callers : cpc[c] = "launch" /\ fut \in abandoned /\ ~Over(fut)


\* Whoever stays on is called back again and again.  (Users who keep being
\* turned off, and callbacks that keep throwing, can starve the others: each
\* time the round may be cut short.)
UsersServed ==
    \A u \in Users :
        \/ []<>(u \notin users)
        \/ []<>(\E c \in Callers : cpc[c] \in {"off", "turn_off"})
        \/ []<><<\E t \in Timers : TimerThrows(t)>>_vars
        \/ []<>(\E t \in Timers : tpc[t] = "cb" /\ at[t] = u)
=============================================================================
