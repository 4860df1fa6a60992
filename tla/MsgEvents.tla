----------------------------- MODULE MsgEvents ------------------------------
(***************************************************************************)
(* Message events: callbacks that any thread registers for a command and   *)
(* main calls for each message of it (add_msgevent, dispatch_msgevent), in *)
(* one list, until their user sets done or their time is over.             *)
(***************************************************************************)
EXTENDS Naturals, Sequences, SequencesExt, FiniteSets

CONSTANTS
    Events,     \* the entries that may be added
    Timeout,    \* msgevent::timeout
    MaxTime     \* bound: seconds that pass

ASSUME EventAssumption == Timeout \in Nat /\ MaxTime \in Nat

VARIABLES
    events,   \* msgevents[command], the front first
    over,     \* entries whose done is set
    when,     \* msgevent::when, 0 for entries that were never added
    clock,    \* std::time(0)
    now,      \* dispatch_msgevent: now
    li,       \* dispatch_msgevent: position in the list, 0 outside the lock
    waiting,  \* dispatch_msgevent has read the clock and waits for the lock
    found,    \* the entries to be called when the lock was taken
    calls     \* how often each was called since

evVars == <<events, over, when, clock, now, li, waiting, found, calls>>

EvInit ==
    /\ events = <<>> /\ over = {} /\ when = [e \in Events |-> 0]
    /\ clock = 1 /\ now = 0 /\ li = 0 /\ waiting = FALSE
    /\ found = {} /\ calls = [e \in Events |-> 0]

EvTick == clock < MaxTime /\ clock' = clock + 1
          /\ UNCHANGED <<events, over, when, now, li, waiting, found, calls>>

(* add_msgevent: the constructor has read the clock, the lock is free.     *)
AddMsgEvent(e) ==
    /\ li = 0 /\ when[e] = 0
    /\ events' = <<e>> \o events /\ when' = [when EXCEPT ![e] = clock]
    /\ UNCHANGED <<over, clock, now, li, waiting, found, calls>>

(* The user of an entry is through with it, perhaps in the callback.       *)
SetDone(e) ==
    /\ e \in ToSet(events) \ over /\ over' = over \cup {e}
    /\ UNCHANGED <<events, when, clock, now, li, waiting, found, calls>>

(* A message: std::time(0) comes before the lock.                          *)
Dispatch ==
    /\ li = 0 /\ ~waiting /\ waiting' = TRUE /\ now' = clock
    /\ UNCHANGED <<events, over, when, clock, li, found, calls>>

Overdue(e) == now > when[e] + Timeout

EvLock ==
    /\ waiting /\ waiting' = FALSE /\ li' = 1
    /\ found' = {e \in ToSet(events) \ over : ~Overdue(e)}
    /\ calls' = [e \in Events |-> 0]
    /\ UNCHANGED <<events, over, when, clock, now>>

\* a plausible mistake: erase(li) and then ++li
MutErase ==
    /\ li > 0 /\ li <= Len(events) /\ (events[li] \in over \/ Overdue(events[li]))
    /\ events' = RemoveAt(events, li) /\ li' = li + 1
    /\ UNCHANGED <<over, when, clock, now, waiting, found, calls>>

(* li = lst.erase(li)                                                      *)
Erase ==
    /\ li > 0 /\ li <= Len(events) /\ (events[li] \in over \/ Overdue(events[li]))
    /\ events' = RemoveAt(events, li)
    /\ UNCHANGED <<over, when, clock, now, li, waiting, found, calls>>

CallBack ==
    /\ li > 0 /\ li <= Len(events) /\ events[li] \notin over /\ ~Overdue(events[li])
    /\ calls' = [calls EXCEPT ![events[li]] = @ + 1] /\ li' = li + 1
    /\ UNCHANGED <<events, over, when, clock, now, waiting, found>>

EvUnlock ==
    /\ li > Len(events) /\ li' = 0
    /\ UNCHANGED <<events, over, when, clock, now, waiting, found, calls>>

EvNext ==
    \/ EvTick \/ Dispatch \/ EvLock \/ Erase \/ CallBack \/ EvUnlock
    \/ \E e \in Events : AddMsgEvent(e) \/ SetDone(e)

EvSpec == EvInit /\ [][EvNext]_evVars
-----------------------------------------------------------------------------
(* dispatch_msgevent: when the lock is released, every entry whose user    *)
(* was not through with it and whose time was not over when it was taken   *)
(* has been called exactly once, unless its user got through with it       *)
(* meanwhile; and nobody else has been called.                             *)
HeardOnce ==
    li = 0 => \A e \in Events :
        \/ calls[e] = 1 /\ e \in found
        \/ calls[e] = 0 /\ (e \in found => e \in over)
=============================================================================
