-------------------------- MODULE FloodController --------------------------
(***************************************************************************)
(* FloodController (src/src/FloodController.cpp): every reply of the bot   *)
(* is queued here, per destination, and one dispatcher thread hands the    *)
(* queues' heads to the IRC server in rotation.                            *)
(*                                                                         *)
(* Threads: the bot's (send, clear, start, stop, in any order that IrcBot  *)
(* and the plugins can produce) and the dispatcher.  mtx is held by the    *)
(* dispatcher from Scan to Pop, so the call into the IRC server happens    *)
(* under the lock; every other critical section is one action.             *)
(***************************************************************************)
EXTENDS Naturals, Sequences, SequencesExt

CONSTANTS Channels,    \* destinations: channel names and nicks
          MaxSends,    \* bound: replies accepted per destination
          WithClear    \* whether clear() and clear(channel) are called

ASSUME FloodAssumption == MaxSends \in Nat /\ WithClear \in BOOLEAN

VARIABLES
    m,            \* channel -> dispatch_que (an absent key is an empty queue)
    keys,         \* the channels of m, in order of first use
    idx,          \* position of the rotation in keys, counted from 0
    dispatching,  \* the dispatcher's run flag, read and written without mtx
    pc,           \* where the dispatcher is
    stopping,     \* where stop() is: "no", "waiting" (for fut), "returned"
    sent,         \* history: number of replies accepted per channel
    out,          \* history: replies passed to the IRC server per channel
    passed        \* history: channels served since a waiting channel's own turn
                  \* or the last clear

vars == <<m, keys, idx, dispatching, pc, stopping, sent, out, passed>>

\* Mut... operators are plausible mistakes in the definition they precede.
MutLocked == FALSE   \* front()() called after the lock is released
Locked == pc \in {"call", "pop"}
Key(i) == keys[i + 1]

TypeOK ==
    /\ m \in [Channels -> Seq(Nat)]
    /\ keys \in Seq(Channels)
    /\ idx \in Nat
    /\ dispatching \in BOOLEAN
    /\ pc \in {"idle", "test", "sleep", "call", "pop", "rest", "ended"}
    /\ stopping \in {"no", "waiting", "returned"}
    /\ sent \in [Channels -> Nat]
    /\ out \in [Channels -> Seq(Nat)]
    /\ passed \in [Channels -> SUBSET Channels]

Init ==
    /\ m    = [c \in Channels |-> <<>>]
    /\ keys = <<>>
    /\ idx  = 0
    /\ dispatching = FALSE
    /\ pc = "idle"
    /\ stopping = "no"
    /\ sent = [c \in Channels |-> 0]
    /\ out  = [c \in Channels |-> <<>>]
    /\ passed = [c \in Channels |-> {}]

-----------------------------------------------------------------------------
(* The bot's threads *)

Send(c) ==
    /\ ~Locked
    /\ sent[c] < MaxSends
    /\ m'    = [m EXCEPT ![c] = Append(@, sent[c] + 1)]
    /\ keys' = IF c \in ToSet(keys) THEN keys ELSE Append(keys, c)
    /\ sent' = [sent EXCEPT ![c] = @ + 1]
    /\ UNCHANGED <<idx, dispatching, pc, stopping, out, passed>>

ClearAll ==
    /\ WithClear /\ ~Locked
    /\ m'    = [c \in Channels |-> <<>>]
    /\ keys' = <<>>
    /\ passed' = [c \in Channels |-> {}]
    /\ UNCHANGED <<idx, dispatching, pc, stopping, sent, out>>

\* keys.erase(found) without m.erase(channel)
MutClearChannel(c) ==
    /\ WithClear /\ ~Locked
    /\ \E i \in 1..Len(keys) : keys[i] = c /\ keys' = RemoveAt(keys, i)
    /\ UNCHANGED <<m, idx, dispatching, pc, stopping, sent, out, passed>>

ClearChannel(c) ==
    /\ WithClear /\ ~Locked
    /\ \E i \in 1..Len(keys) :
          /\ keys[i] = c
          /\ keys' = RemoveAt(keys, i)
    /\ m' = [m EXCEPT ![c] = <<>>]
    /\ passed' = [d \in Channels |-> {}]
    /\ UNCHANGED <<idx, dispatching, pc, stopping, sent, out>>

\* IrcBot::init calls start() once.
Start ==
    /\ pc = "idle" /\ stopping = "no"
    /\ ~dispatching
    /\ dispatching' = TRUE
    /\ pc' = "test"
    /\ UNCHANGED <<m, keys, idx, stopping, sent, out, passed>>

\* IrcBot::exit calls stop() once.
Stop ==
    /\ stopping = "no"
    /\ dispatching' = FALSE
    /\ stopping' = IF dispatching THEN "waiting" ELSE "returned"
    /\ UNCHANGED <<m, keys, idx, pc, sent, out, passed>>

\* fut.wait_for(10s): the dispatcher has ended, or has not and stop() gives up.
StopReturns ==
    /\ stopping = "waiting"
    /\ stopping' = "returned"
    /\ UNCHANGED <<m, keys, idx, dispatching, pc, sent, out, passed>>

-----------------------------------------------------------------------------
(* The dispatcher thread *)

\* while(true)
MutTest ==
    /\ pc = "test"
    /\ pc' = "sleep"
    /\ UNCHANGED <<m, keys, idx, dispatching, stopping, sent, out, passed>>

Test ==
    /\ pc = "test"
    /\ pc' = IF dispatching THEN "sleep" ELSE "ended"
    /\ UNCHANGED <<m, keys, idx, dispatching, stopping, sent, out, passed>>

MutScanFixed == 0             \* the rotation always restarts at the first key
MutScanBackwards == idx - 1   \* --idx, and the wrap test never true

\* if(++idx >= keys.size()) idx = 0;
ScanStart == IF idx + 1 >= Len(keys) THEN 0 ELSE idx + 1

MutCandidates == {i \in 0..(Len(keys) - 2) : m[Key(i)] # <<>>}   \* off by one

Candidates == {i \in 0..(Len(keys) - 1) : m[Key(i)] # <<>>}

\* The two loops look from ScanStart to the end, then from 0 to ScanStart.
ScanOrder(i) == IF i >= ScanStart THEN i ELSE i + Len(keys)

ScanFound ==
    /\ pc = "sleep"
    /\ \E i \in Candidates :
          /\ \A j \in Candidates : ScanOrder(i) <= ScanOrder(j)
          /\ idx' = i
    /\ pc' = "call"
    /\ UNCHANGED <<m, keys, dispatching, stopping, sent, out, passed>>

ScanNothing ==
    /\ pc = "sleep"
    /\ Candidates = {}
    /\ idx' = ScanStart
    /\ pc' = "test"
    /\ UNCHANGED <<m, keys, dispatching, stopping, sent, out, passed>>

\* Everyone but c who has a reply waiting sees c go first.
ServedBefore(c) ==
    [d \in Channels |-> IF d = c THEN {}
                        ELSE IF m[d] # <<>> THEN passed[d] \cup {c}
                        ELSE passed[d]]

\* m[keys[idx]].back()();
MutCall ==
    LET c == Key(idx) IN
    /\ pc = "call"
    /\ out' = [out EXCEPT ![c] = Append(@, Last(m[c]))]
    /\ passed' = ServedBefore(c)
    /\ pc' = "pop"
    /\ UNCHANGED <<m, keys, idx, dispatching, stopping, sent>>

\* m[keys[idx]].front()();
Call ==
    LET c == Key(idx) IN
    /\ pc = "call"
    /\ out' = [out EXCEPT ![c] = Append(@, Head(m[c]))]
    /\ passed' = ServedBefore(c)
    /\ pc' = "pop"
    /\ UNCHANGED <<m, keys, idx, dispatching, stopping, sent>>

\* the reply is popped only if the call returned true
MutPop ==
    /\ pc = "pop"
    /\ \/ m' = [m EXCEPT ![Key(idx)] = Tail(@)]
       \/ UNCHANGED m
    /\ pc' = "rest"
    /\ UNCHANGED <<keys, idx, dispatching, stopping, sent, out, passed>>

\* m[keys[idx]].pop(); and the end of the critical section.
Pop ==
    /\ pc = "pop"
    /\ m' = [m EXCEPT ![Key(idx)] = Tail(@)]
    /\ pc' = "rest"
    /\ UNCHANGED <<keys, idx, dispatching, stopping, sent, out, passed>>

Rest ==
    /\ pc = "rest"
    /\ pc' = "test"
    /\ UNCHANGED <<m, keys, idx, dispatching, stopping, sent, out, passed>>

Dispatcher == Test \/ ScanFound \/ ScanNothing \/ Call \/ Pop \/ Rest

Next ==
    \/ \E c \in Channels : Send(c) \/ ClearChannel(c)
    \/ ClearAll \/ Start \/ Stop \/ StopReturns
    \/ Dispatcher

Spec == Init /\ [][Next]_vars

\* The dispatcher is an operating-system thread that only sleeps for bounded
\* times and whose critical sections are not blocked for ever.
FairSpec == Spec /\ WF_vars(Dispatcher) /\ WF_vars(StopReturns)

-----------------------------------------------------------------------------
(* Properties *)

\* The dispatcher only calls front() and pop() on a queue that has an element,
\* at a position that keys has: both are undefined behaviour otherwise.
FrontDefined == pc \in {"call", "pop"} => idx < Len(keys) /\ m[Key(idx)] # <<>>

\* A queue with something in it is in the rotation exactly once: a channel
\* missing from keys would never be served, a channel listed twice would get
\* two turns per round.
KeysComplete == \A c \in Channels : m[c] # <<>> => c \in ToSet(keys)
KeysUnique == \A i, j \in 1..Len(keys) : keys[i] = keys[j] => i = j
KeyIndex == KeysComplete /\ KeysUnique

\* The head that is being popped has been delivered already.
InFlight(c) == pc = "pop" /\ c = Key(idx)
Waiting(c) == IF InFlight(c) THEN Tail(m[c]) ELSE m[c]

\* s is base + 1, base + 2, ...
NumberedFrom(base, s) == \A i \in 1..Len(s) : s[i] = base + i

\* Nothing is lost, duplicated or reordered: without clear() what was passed
\* to the IRC server followed by what still waits is 1, 2, ... up to the last
\* reply accepted.
Conserved ==
    WithClear \/ \A c \in Channels :
        /\ Len(out[c]) + Len(Waiting(c)) = sent[c]
        /\ NumberedFrom(0, out[c])
        /\ NumberedFrom(Len(out[c]), Waiting(c))

\* Rotation is fair: while c waits no other channel is served twice, however
\* sends interleave with the scan.  A clear shifts the positions under the
\* rotation, which starts anew from there.
RoundRobin ==
    [][pc = "call" /\ pc' = "pop" =>
         \A d \in Channels \ {Key(idx)} :
            m[d] # <<>> => Key(idx) \notin passed[d]]_vars

\* Every reply that waits leaves its queue, which takes a delivery or a clear
\* (AbstractSpec), unless the dispatcher is stopped.
EveryReplySent ==
    \A c \in Channels : \A n \in 1..MaxSends :
        (dispatching /\ n \in ToSet(m[c])) ~> (n \notin ToSet(m[c]) \/ ~dispatching)

\* stop() returns and the dispatcher thread ends: the destructor's wait on the
\* future ends too.
StopEnds == (stopping = "waiting") ~> (stopping = "returned" /\ pc = "ended")

\* The controller implements per-destination FIFO queues.
Abstract == INSTANCE FloodQueues
              WITH accepted <- sent,
                   queue <- [c \in Channels |-> Waiting(c)],
                   delivered <- out
AbstractSpec == Abstract!Spec
=============================================================================
