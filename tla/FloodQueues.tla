---------------------------- MODULE FloodQueues ----------------------------
(***************************************************************************)
(* What the flood controller promises its callers, without threads, locks  *)
(* or rotation: one FIFO of accepted replies per destination; a reply is   *)
(* delivered from the head of its FIFO, exactly once, or thrown away with  *)
(* the whole FIFO by an explicit clear.                                    *)
(***************************************************************************)
EXTENDS Naturals, Sequences

CONSTANTS Channels,   \* destinations: channel names and nicks
          MaxSends    \* bound: replies accepted per destination

VARIABLES
    accepted,   \* [Channels -> Nat]       replies send() has accepted
    queue,      \* [Channels -> Seq(Nat)]  accepted, neither delivered nor cleared
    delivered   \* [Channels -> Seq(Nat)]  what reached the IRC server, in order

absVars == <<accepted, queue, delivered>>

Init ==
    /\ accepted  = [c \in Channels |-> 0]
    /\ queue     = [c \in Channels |-> <<>>]
    /\ delivered = [c \in Channels |-> <<>>]

\* The n-th reply accepted for c is the number n.
Accept(c) ==
    /\ accepted[c] < MaxSends
    /\ accepted' = [accepted EXCEPT ![c] = @ + 1]
    /\ queue'    = [queue EXCEPT ![c] = Append(@, accepted[c] + 1)]
    /\ UNCHANGED delivered

Deliver(c) ==
    /\ queue[c] # <<>>
    /\ delivered' = [delivered EXCEPT ![c] = Append(@, Head(queue[c]))]
    /\ queue'     = [queue EXCEPT ![c] = Tail(@)]
    /\ UNCHANGED accepted

Drop(C) ==
    /\ queue' = [c \in Channels |-> IF c \in C THEN <<>> ELSE queue[c]]
    /\ UNCHANGED <<accepted, delivered>>

Next ==
    \/ \E c \in Channels : Accept(c) \/ Deliver(c)
    \/ \E C \in SUBSET Channels : Drop(C)

Spec == Init /\ [][Next]_absVars
=============================================================================
