----------------------- MODULE FloodController_proofs -----------------------
(***************************************************************************)
(* Theorems about FloodController, for any set of channels and any bound.  *)
(*                                                                         *)
(* The argument: a queue that is not empty belongs to a channel that keys  *)
(* lists once (KeyIndex), so the position the scan stops at has an element *)
(* to call and to pop; the lock keeps it there until Pop (FrontDefined).   *)
(* IInv adds the typing and is inductive.                                  *)
(* The order of the rotation (RoundRobin) has an invariant of its own,     *)
(* RotInv, at the end.                                                     *)
(***************************************************************************)
EXTENDS FloodController, SequenceFacts, TLAPS

\* The inductive invariant.
IInv == TypeOK /\ KeyIndex /\ FrontDefined

LEMMA InitIInv == Init => IInv
<1> SUFFICES ASSUME Init PROVE IInv
  OBVIOUS
<1>1. <<>> \in Seq(Nat) /\ <<>> \in Seq(Channels) /\ Len(keys) = 0
  BY EmptySeq DEF Init
<1>2. TypeOK
  BY <1>1 DEF Init, TypeOK
<1>3. KeyIndex
  BY <1>1 DEF Init, KeyIndex, KeysComplete, KeysUnique
<1>4. FrontDefined
  BY DEF Init, FrontDefined
<1> QED BY <1>2, <1>3, <1>4 DEF IInv

\* send() either finds the channel in keys or appends it, so keys stays
\* complete and free of duplicates; the lock keeps it away from a call.
LEMMA SendIInv ==
  ASSUME IInv, NEW c \in Channels, Send(c)
  PROVE  IInv'
<1> USE DEF IInv
<1>1. /\ Append(m[c], sent[c] + 1) \in Seq(Nat)
      /\ Append(keys, c) \in Seq(Channels)
      /\ Len(Append(keys, c)) = Len(keys) + 1
      /\ \A i \in 1..Len(keys) : Append(keys, c)[i] = keys[i]
      /\ Append(keys, c)[Len(keys) + 1] = c
      /\ Len(keys) \in Nat /\ DOMAIN keys = 1..Len(keys)
      /\ DOMAIN Append(keys, c) = 1..(Len(keys) + 1)
  BY AppendProperties, LenProperties DEF TypeOK
<1>2. TypeOK'
  BY <1>1 DEF TypeOK, Send
<1>3. KeysComplete'
  <2> SUFFICES ASSUME NEW d \in Channels, m'[d] # <<>>
               PROVE  d \in ToSet(keys')
    BY DEF KeysComplete
  <2>1. CASE d = c
    <3>1. CASE c \in ToSet(keys)
      BY <2>1, <3>1 DEF Send
    <3>2. CASE c \notin ToSet(keys)
      <4>1. keys' = Append(keys, c) BY <3>2 DEF Send
      <4>2. Len(keys) + 1 \in DOMAIN keys' BY <4>1, <1>1
      <4> QED BY <2>1, <4>1, <4>2, <1>1 DEF ToSet
    <3> QED BY <3>1, <3>2
  <2>2. CASE d # c
    <3>1. d \in ToSet(keys)
      BY <2>2 DEF KeyIndex, KeysComplete, Send, TypeOK
    <3>2. PICK i \in 1..Len(keys) : keys[i] = d
      BY <3>1, <1>1 DEF ToSet
    <3>3. i \in DOMAIN keys' /\ keys'[i] = d
      BY <3>2, <1>1 DEF Send
    <3> QED BY <3>3 DEF ToSet
  <2> QED BY <2>1, <2>2
<1>4. KeysUnique'
  <2>1. CASE c \in ToSet(keys)
    BY <2>1 DEF Send, KeyIndex, KeysUnique
  <2>2. CASE c \notin ToSet(keys)
    <3>1. \A i \in 1..Len(keys) : keys[i] # c
      BY <2>2, <1>1 DEF ToSet
    <3> QED BY <2>2, <3>1, <1>1 DEF Send, KeyIndex, KeysUnique
  <2> QED BY <2>1, <2>2
<1>5. FrontDefined'
  BY DEF Send, Locked, FrontDefined
<1> QED BY <1>2, <1>3, <1>4, <1>5 DEF KeyIndex

\* clear(channel) removes the queue together with its key.
LEMMA ClearChannelIInv ==
  ASSUME IInv, NEW c \in Channels, ClearChannel(c)
  PROVE  IInv'
<1> USE DEF IInv
<1>1. PICK i \in 1..Len(keys) : keys[i] = c /\ keys' = RemoveAt(keys, i)
  BY DEF ClearChannel
<1>2. Len(keys) \in Nat /\ keys \in Seq(Channels)
  BY LenProperties DEF TypeOK
<1>3. /\ keys' \in Seq(Channels)
      /\ Len(keys') = Len(keys) - 1
      /\ \A j \in 1..(Len(keys) - 1) : keys'[j] = IF j < i THEN keys[j] ELSE keys[j + 1]
  BY <1>1, <1>2, RemoveAtFacts
<1>4. TypeOK'
  <2>1. m' \in [Channels -> Seq(Nat)]
    BY EmptySeq DEF TypeOK, ClearChannel
  <2> QED BY <1>3, <2>1 DEF TypeOK, ClearChannel
<1>5. KeysComplete'
  <2> SUFFICES ASSUME NEW d \in Channels, m'[d] # <<>>
               PROVE  d \in ToSet(keys')
    BY DEF KeysComplete
  <2>1. d # c /\ m[d] # <<>>
    BY DEF ClearChannel, TypeOK
  <2>2. PICK j \in 1..Len(keys) : keys[j] = d
    BY <2>1, LenProperties DEF KeyIndex, KeysComplete, ToSet, TypeOK
  <2>3. DOMAIN keys' = 1..Len(keys')
    BY <1>3, LenProperties
  <2>4. CASE j < i
    <3>1. j \in DOMAIN keys' /\ keys'[j] = d
      BY <2>2, <2>3, <2>4, <1>2, <1>3
    <3> QED BY <3>1 DEF ToSet
  <2>5. CASE i < j
    <3>1. j - 1 \in DOMAIN keys' /\ keys'[j - 1] = d
      BY <2>2, <2>3, <2>5, <1>2, <1>3
    <3> QED BY <3>1 DEF ToSet
  <2> QED BY <2>1, <2>2, <2>4, <2>5, <1>1, <1>2
<1>6. KeysUnique'
  BY <1>2, <1>3 DEF KeyIndex, KeysUnique
<1>7. FrontDefined'
  BY DEF ClearChannel, Locked, FrontDefined
<1> QED BY <1>4, <1>5, <1>6, <1>7 DEF KeyIndex

\* The scan stops at a position whose queue is not empty.
LEMMA ScanFoundIInv ==
  ASSUME IInv, ScanFound
  PROVE  IInv'
<1> USE DEF IInv
<1>1. Len(keys) \in Nat
  BY LenProperties DEF TypeOK
<1>2. idx' \in 0..(Len(keys) - 1) /\ m[Key(idx')] # <<>>
  BY DEF ScanFound, Candidates
<1>3. TypeOK'
  BY <1>1, <1>2 DEF TypeOK, ScanFound
<1>4. FrontDefined'
  BY <1>1, <1>2 DEF FrontDefined, ScanFound, Key
<1>5. KeyIndex'
  BY DEF KeyIndex, KeysComplete, KeysUnique, ScanFound
<1> QED BY <1>3, <1>4, <1>5

\* At Call and at Pop the current queue has a head.
LEMMA CurrentQueue ==
  ASSUME IInv, pc \in {"call", "pop"}
  PROVE  /\ Key(idx) \in Channels
         /\ m[Key(idx)] # <<>>
         /\ Head(m[Key(idx)]) \in Nat
         /\ Tail(m[Key(idx)]) \in Seq(Nat)
<1> USE DEF IInv
<1>1. idx + 1 \in 1..Len(keys) /\ m[Key(idx)] # <<>>
  BY LenProperties DEF TypeOK, FrontDefined
<1>2. Key(idx) \in Channels
  BY <1>1, ElementOfSeq DEF TypeOK, Key
<1> QED BY <1>1, <1>2, HeadTailProperties DEF TypeOK

LEMMA CallIInv ==
  ASSUME IInv, Call
  PROVE  IInv'
<1> USE DEF IInv
<1> DEFINE c == Key(idx)
<1>1. /\ c \in Channels
      /\ Head(m[c]) \in Nat
  BY CurrentQueue DEF Call
<1>2. out' \in [Channels -> Seq(Nat)]
  <2>1. Append(out[c], Head(m[c])) \in Seq(Nat)
    BY <1>1, AppendProperties DEF TypeOK
  <2> QED BY <1>1, <2>1 DEF TypeOK, Call
<1>3. passed' \in [Channels -> SUBSET Channels]
  BY <1>1 DEF TypeOK, Call, ServedBefore
<1>4. TypeOK'
  BY <1>2, <1>3 DEF TypeOK, Call
<1>5. KeyIndex' /\ FrontDefined'
  BY DEF KeyIndex, KeysComplete, KeysUnique, FrontDefined, Call, Key
<1> QED BY <1>4, <1>5

LEMMA PopIInv ==
  ASSUME IInv, Pop
  PROVE  IInv'
<1> USE DEF IInv
<1>1. TypeOK'
  BY CurrentQueue DEF TypeOK, Pop
<1>2. KeysComplete'
  <2>1. \A d \in Channels : m'[d] # <<>> => m[d] # <<>>
    BY CurrentQueue DEF TypeOK, Pop
  <2> QED BY <2>1 DEF KeyIndex, KeysComplete, Pop
<1>3. KeysUnique' /\ FrontDefined'
  BY DEF KeyIndex, KeysUnique, FrontDefined, Pop
<1> QED BY <1>1, <1>2, <1>3 DEF KeyIndex

LEMMA NextIInv == IInv /\ [Next]_vars => IInv'
<1> SUFFICES ASSUME IInv, [Next]_vars PROVE IInv'
  OBVIOUS
<1>1. ASSUME NEW c \in Channels, Send(c) PROVE IInv'
  BY <1>1, SendIInv
<1>2. ASSUME NEW c \in Channels, ClearChannel(c) PROVE IInv'
  BY <1>2, ClearChannelIInv
<1>3. CASE ClearAll
  BY <1>3, EmptySeq
  DEF IInv, TypeOK, KeyIndex, KeysComplete, KeysUnique, FrontDefined, ClearAll, Locked
<1>4. CASE Start \/ Stop \/ StopReturns
  BY <1>4 DEF IInv, TypeOK, KeyIndex, KeysComplete, KeysUnique, FrontDefined, Key,
              Start, Stop, StopReturns
<1>5. CASE Test \/ Rest
  BY <1>5 DEF IInv, TypeOK, KeyIndex, KeysComplete, KeysUnique, FrontDefined, Test, Rest
<1>6. CASE ScanNothing
  <2>1. ScanStart \in Nat
    BY DEF IInv, TypeOK, ScanStart
  <2> QED BY <1>6, <2>1
          DEF IInv, TypeOK, KeyIndex, KeysComplete, KeysUnique, FrontDefined, ScanNothing
<1>7. CASE ScanFound
  BY <1>7, ScanFoundIInv
<1>8. CASE Call
  BY <1>8, CallIInv
<1>9. CASE Pop
  BY <1>9, PopIInv
<1>10. CASE UNCHANGED vars
  BY <1>10 DEF IInv, TypeOK, KeyIndex, KeysComplete, KeysUnique, FrontDefined, Key, vars
<1> QED BY <1>1, <1>2, <1>3, <1>4, <1>5, <1>6, <1>7, <1>8, <1>9, <1>10
        DEF Next, Dispatcher

LEMMA Inductive == Spec => []IInv
BY InitIInv, NextIInv, PTL DEF Spec

\* Every variable keeps its type, whatever the threads interleave.
THEOREM TypeCorrect == Spec => []TypeOK
BY Inductive, PTL DEF IInv

\* keys lists every channel whose queue is not empty, and lists it once.
THEOREM KeyIndexCorrect == Spec => []KeyIndex
BY Inductive, PTL DEF IInv

\* The dispatcher's front() and pop() always find an element.
THEOREM FrontAlwaysDefined == Spec => []FrontDefined
BY Inductive, PTL DEF IInv

-----------------------------------------------------------------------------
(* The queue as its callers see it *)

\* What is waiting changes only in Send, in Call and in the two clears: Pop
\* removes what Call has already delivered.
LEMMA WaitingSteps ==
  ASSUME IInv
  PROVE  /\ \A c \in Channels : Waiting(c) \in Seq(Nat)
         /\ ~Locked => \A c \in Channels : Waiting(c) = m[c]
         /\ pc = "call" => \A c \in Channels : Waiting(c) = m[c]
         /\ Pop => \A c \in Channels : Waiting(c)' = Waiting(c)
         /\ Call => \A c \in Channels :
                       Waiting(c)' = IF c = Key(idx) THEN Tail(m[c]) ELSE m[c]
<1> USE DEF IInv
<1>1. \A c \in Channels : Waiting(c) \in Seq(Nat)
  BY CurrentQueue DEF Waiting, InFlight, TypeOK
<1>2. /\ ~Locked => \A c \in Channels : Waiting(c) = m[c]
      /\ pc = "call" => \A c \in Channels : Waiting(c) = m[c]
  BY DEF Locked, Waiting, InFlight
<1>3. Pop => \A c \in Channels : Waiting(c)' = Waiting(c)
  BY CurrentQueue DEF Pop, Waiting, InFlight, TypeOK
<1>4. Call => \A c \in Channels :
                 Waiting(c)' = IF c = Key(idx) THEN Tail(m[c]) ELSE m[c]
  BY DEF Call, Waiting, InFlight, Key
<1> QED BY <1>1, <1>2, <1>3, <1>4

\* Steps that touch neither the queues nor what is in flight.
Idle == Start \/ Stop \/ StopReturns \/ Test \/ ScanFound \/ ScanNothing \/ Pop
        \/ Rest \/ UNCHANGED vars

LEMMA IdleSteps ==
  ASSUME IInv, Idle
  PROVE  /\ \A c \in Channels : Waiting(c)' = Waiting(c)
         /\ UNCHANGED <<sent, out>>
<1>1. CASE Pop
  BY <1>1, WaitingSteps DEF Pop
<1>2. CASE Idle /\ ~Pop
  BY <1>2 DEF Idle, Start, Stop, StopReturns, Test, ScanFound, ScanNothing, Rest,
              vars, Waiting, InFlight, Key
<1> QED BY <1>1, <1>2

\* A numbered sequence grows by its next number and shrinks from its first.
LEMMA NumberedAppend ==
  ASSUME NEW base \in Nat, NEW s \in Seq(Nat), NumberedFrom(base, s)
  PROVE  /\ NumberedFrom(base, Append(s, base + Len(s) + 1))
         /\ Len(Append(s, base + Len(s) + 1)) = Len(s) + 1
<1>1. Len(s) \in Nat
  BY LenProperties
<1> DEFINE e == base + Len(s) + 1
           t == Append(s, e)
<1>0. e \in Nat /\ e = base + Len(s) + 1
  BY <1>1
<1> HIDE DEF e
<1>2. /\ Len(t) = Len(s) + 1
      /\ \A i \in 1..Len(s) : t[i] = s[i]
      /\ t[Len(s) + 1] = e
  BY <1>0, AppendProperties
<1> HIDE DEF t
<1>3. NumberedFrom(base, t)
  BY <1>0, <1>1, <1>2 DEF NumberedFrom
<1> QED BY <1>2, <1>3 DEF t, e

LEMMA NumberedTail ==
  ASSUME NEW base \in Nat, NEW s \in Seq(Nat), s # <<>>, NumberedFrom(base, s)
  PROVE  /\ Head(s) = base + 1
         /\ NumberedFrom(base + 1, Tail(s))
         /\ Len(Tail(s)) = Len(s) - 1
         /\ Len(s) \in Nat \ {0}
<1>1. /\ Len(s) \in Nat \ {0}
      /\ Head(s) = s[1]
      /\ Len(Tail(s)) = Len(s) - 1
      /\ \A i \in 1..Len(Tail(s)) : Tail(s)[i] = s[i + 1]
  BY EmptySeq, HeadTailProperties
<1> QED BY <1>1 DEF NumberedFrom

LEMMA PlusOne ==
  \A a, b \in Nat : a + (b + 1) = (a + b) + 1 /\ (a + 1) + (b - 1) = a + b
OBVIOUS

LEMMA ConservedStep ==
  ASSUME IInv, Conserved, [Next]_vars
  PROVE  Conserved'
<1> SUFFICES ASSUME ~WithClear, NEW c \in Channels
             PROVE  /\ Len(out'[c]) + Len(Waiting(c)') = sent'[c]
                    /\ NumberedFrom(0, out'[c])
                    /\ NumberedFrom(Len(out'[c]), Waiting(c)')
  BY DEF Conserved, NumberedFrom
<1>1. /\ Len(out[c]) + Len(Waiting(c)) = sent[c]
      /\ NumberedFrom(0, out[c])
      /\ NumberedFrom(Len(out[c]), Waiting(c))
  BY DEF Conserved
<1>2. out[c] \in Seq(Nat) /\ Len(out[c]) \in Nat /\ m[c] \in Seq(Nat) /\ Len(m[c]) \in Nat
  BY LenProperties DEF IInv, TypeOK
<1>3. ASSUME NEW d \in Channels, Send(d)
      PROVE  /\ Len(out'[c]) + Len(Waiting(c)') = sent'[c]
             /\ NumberedFrom(0, out'[c])
             /\ NumberedFrom(Len(out'[c]), Waiting(c)')
  <2>1. Waiting(c) = m[c] /\ Waiting(c)' = m'[c] /\ out' = out
    BY <1>3, WaitingSteps DEF Send, Locked, Waiting, InFlight
  <2>2. CASE c = d
    <3>1. m'[c] = Append(m[c], sent[c] + 1) /\ sent'[c] = sent[c] + 1 /\ sent[c] + 1 \in Nat
      BY <1>3, <2>2 DEF Send, IInv, TypeOK
    <3>2. sent[c] + 1 = Len(out[c]) + Len(m[c]) + 1
      BY <1>1, <1>2, <2>1
    <3>3. NumberedFrom(Len(out[c]), m'[c]) /\ Len(m'[c]) = Len(m[c]) + 1
      <4>1. NumberedFrom(Len(out[c]), m[c])
        BY <1>1, <2>1
      <4>2. m'[c] = Append(m[c], Len(out[c]) + Len(m[c]) + 1)
        BY <3>1, <3>2
      <4> QED BY <1>2, <4>1, <4>2, NumberedAppend
    <3>4. Len(out'[c]) + Len(m'[c]) = sent'[c]
      <4>1. Len(out[c]) + Len(m[c]) = sent[c]
        BY <1>1, <2>1
      <4>2. Len(m'[c]) = Len(m[c]) + 1 /\ sent'[c] = sent[c] + 1 /\ out'[c] = out[c]
        BY <2>1, <3>1, <3>3
      <4>3. Len(out[c]) \in Nat /\ Len(m[c]) \in Nat
        BY <1>2
      <4>4. Len(out'[c]) + Len(m'[c]) = Len(out[c]) + (Len(m[c]) + 1)
        BY <4>2
      <4> QED BY <4>1, <4>2, <4>3, <4>4, PlusOne
    <3> QED BY <1>1, <2>1, <3>3, <3>4
  <2>3. CASE c # d
    BY <1>1, <1>3, <2>1, <2>3 DEF Send, IInv, TypeOK
  <2> QED BY <2>2, <2>3
<1>4. CASE Call
  <2>1. CASE c = Key(idx)
    <3>1. m[c] # <<>> /\ Waiting(c) = m[c] /\ Waiting(c)' = Tail(m[c])
      BY <1>4, <2>1, WaitingSteps, CurrentQueue DEF Call
    <3>2. /\ Head(m[c]) = Len(out[c]) + 1
          /\ NumberedFrom(Len(out[c]) + 1, Tail(m[c]))
          /\ Len(Tail(m[c])) = Len(m[c]) - 1
          /\ Len(m[c]) \in Nat \ {0}
      BY <1>1, <1>2, <3>1, NumberedTail
    <3>3. out'[c] = Append(out[c], Len(out[c]) + 1) /\ sent' = sent
      BY <1>4, <2>1, <3>2 DEF Call, IInv, TypeOK
    <3>4. NumberedFrom(0, out'[c]) /\ Len(out'[c]) = Len(out[c]) + 1
      <4>1. 0 + Len(out[c]) + 1 = Len(out[c]) + 1
        BY <1>2
      <4> QED BY <1>1, <1>2, <3>3, <4>1, NumberedAppend
    <3>5. Len(out'[c]) + Len(Tail(m[c])) = sent'[c]
      <4>1. Len(out[c]) + Len(m[c]) = sent[c]
        BY <1>1, <3>1
      <4>2. /\ Len(Tail(m[c])) = Len(m[c]) - 1
            /\ sent'[c] = sent[c]
            /\ Len(out'[c]) = Len(out[c]) + 1
        BY <3>2, <3>3, <3>4
      <4>3. Len(out[c]) \in Nat /\ Len(m[c]) \in Nat
        BY <1>2
      <4>4. Len(out'[c]) + Len(Tail(m[c])) = (Len(out[c]) + 1) + (Len(m[c]) - 1)
        BY <4>2
      <4> QED BY <4>1, <4>2, <4>3, <4>4, PlusOne
    <3> QED BY <3>1, <3>2, <3>4, <3>5
  <2>2. CASE c # Key(idx)
    <3>1. Waiting(c)' = Waiting(c) /\ out'[c] = out[c] /\ sent' = sent
      BY <1>4, <2>2, WaitingSteps DEF Call, IInv, TypeOK
    <3> QED BY <1>1, <3>1
  <2> QED BY <2>1, <2>2
<1>5. CASE Idle
  BY <1>1, <1>5, IdleSteps
<1>6. ~ClearAll /\ \A d \in Channels : ~ClearChannel(d)
  BY DEF ClearAll, ClearChannel
<1> QED BY <1>3, <1>4, <1>5, <1>6 DEF Next, Dispatcher, Idle

\* Without clear() no reply is lost, duplicated or reordered.
THEOREM ConservedCorrect == Spec => []Conserved
<1>1. Init => Conserved
  <2> SUFFICES ASSUME Init PROVE Conserved
    OBVIOUS
  <2>1. \A c \in Channels : out[c] = <<>> /\ Waiting(c) = <<>> /\ sent[c] = 0
    BY DEF Init, Waiting, InFlight
  <2> QED BY <2>1, EmptySeq DEF Conserved, NumberedFrom
<1>2. IInv /\ Conserved /\ [Next]_vars => Conserved'
  BY ConservedStep
<1> QED BY <1>1, <1>2, Inductive, PTL DEF Spec

\* FloodController implements one FIFO per destination (FloodQueues): send is
\* Accept, the call into the IRC server is Deliver, a clear is Drop and every
\* other step of the rotation is invisible.
THEOREM Refinement == Spec => AbstractSpec
<1>1. Init => Abstract!Init
  BY DEF Init, Abstract!Init, Waiting, InFlight
<1>2. IInv /\ [Next]_vars => [Abstract!Next]_(Abstract!absVars)
  <2> SUFFICES ASSUME IInv, [Next]_vars
               PROVE  Abstract!Next \/ UNCHANGED Abstract!absVars
    OBVIOUS
  <2> DEFINE q == [c \in Channels |-> Waiting(c)]
  <2>0. q' = [c \in Channels |-> Waiting(c)']
    OBVIOUS
  <2>1. ASSUME NEW c \in Channels, Send(c) PROVE Abstract!Accept(c)
    <3>1. \A d \in Channels : Waiting(d) = m[d] /\ Waiting(d)' = m'[d]
      BY <2>1, WaitingSteps DEF Send, Locked, Waiting, InFlight
    <3>2. q' = [q EXCEPT ![c] = Append(@, sent[c] + 1)]
      BY <2>0, <2>1, <3>1 DEF Send, IInv, TypeOK
    <3> QED BY <2>1, <3>2 DEF Send, Abstract!Accept
  <2>2. CASE Call
    <3>1. /\ Key(idx) \in Channels /\ m[Key(idx)] # <<>>
          /\ \A d \in Channels : Waiting(d) = m[d]
      BY <2>2, CurrentQueue, WaitingSteps DEF Call
    <3>2. q' = [q EXCEPT ![Key(idx)] = Tail(@)]
      BY <2>0, <2>2, <3>1, WaitingSteps
    <3>3. Abstract!Deliver(Key(idx))
      BY <2>2, <3>1, <3>2 DEF Call, Abstract!Deliver
    <3> QED BY <3>1, <3>3 DEF Abstract!Next
  <2>3. CASE ClearAll
    <3>1. \A d \in Channels : Waiting(d)' = <<>>
      BY <2>3 DEF ClearAll, Locked, Waiting, InFlight
    <3>2. q' = [c \in Channels |-> IF c \in Channels THEN <<>> ELSE q[c]]
      BY <2>0, <3>1
    <3>3. Abstract!Drop(Channels)
      BY <2>3, <3>2 DEF ClearAll, Abstract!Drop
    <3> QED BY <3>3 DEF Abstract!Next
  <2>4. ASSUME NEW c \in Channels, ClearChannel(c) PROVE Abstract!Drop({c})
    <3>1. \A d \in Channels : Waiting(d) = m[d] /\ Waiting(d)' = m'[d]
      BY <2>4, WaitingSteps DEF ClearChannel, Locked, Waiting, InFlight
    <3>2. q' = [d \in Channels |-> IF d \in {c} THEN <<>> ELSE q[d]]
      BY <2>0, <2>4, <3>1 DEF ClearChannel, IInv, TypeOK
    <3> QED BY <2>4, <3>2 DEF ClearChannel, Abstract!Drop
  <2>5. CASE Idle
    <3>1. q' = q
      BY <2>0, <2>5, IdleSteps
    <3> QED BY <2>5, <3>1, IdleSteps DEF Abstract!absVars
  <2> QED BY <2>1, <2>2, <2>3, <2>4, <2>5 DEF Next, Dispatcher, Idle, Abstract!Next
<1> QED BY <1>1, <1>2, Inductive, PTL DEF Spec, AbstractSpec, Abstract!Spec
-----------------------------------------------------------------------------
(* The rotation.  Seen from a channel that waits at position p, the        *)
(* channels served since its own turn lie between p and the rotation's     *)
(* position, around the end of keys (Gone): the scan takes the first queue *)
(* that is not empty, so it never moves past p, and keys grows at its end. *)

At == idx + 1

Gone(p, q) ==
    IF pc = "call"
    THEN IF p < At THEN p < q /\ q < At ELSE p < q \/ q < At
    ELSE IF p < At THEN p < q /\ q <= At ELSE p < q \/ q <= At

RotInv ==
    /\ \A d \in Channels :
          /\ passed[d] \subseteq ToSet(keys)
          /\ passed[d] # {} => /\ m[d] # <<>> /\ At <= Len(keys)
                               /\ keys[At] = d => pc = "call"
    /\ \A p, q \in 1 .. Len(keys) :
          keys[q] \in passed[keys[p]] /\ p # At => Gone(p, q)

LEMMA KeysFacts ==
  ASSUME IInv
  PROVE  /\ Len(keys) \in Nat /\ DOMAIN keys = 1 .. Len(keys) /\ idx \in Nat
         /\ \A p \in 1 .. Len(keys) : keys[p] \in Channels
         /\ \A d \in Channels : d \in ToSet(keys) <=> \E p \in 1 .. Len(keys) : keys[p] = d
         /\ \A d \in Channels : m[d] # <<>> => \E p \in 1 .. Len(keys) : keys[p] = d
         /\ \A p, q \in 1 .. Len(keys) : keys[p] = keys[q] => p = q
<1>1. keys \in Seq(Channels) /\ idx \in Nat
  BY DEF IInv, TypeOK
<1>2. /\ Len(keys) \in Nat /\ DOMAIN keys = 1 .. Len(keys)
      /\ \A p \in 1 .. Len(keys) : keys[p] \in Channels
  BY <1>1, LenProperties, ElementOfSeq
<1>3. \A d \in Channels : d \in ToSet(keys) <=> \E p \in 1 .. Len(keys) : keys[p] = d
  BY <1>2 DEF ToSet
<1> QED BY <1>1, <1>2, <1>3 DEF IInv, KeyIndex, KeysComplete, KeysUnique

\* send() may add a channel at the end of keys, which nobody has passed.
LEMMA SendRot ==
  ASSUME IInv, RotInv, NEW c \in Channels, Send(c)
  PROVE  RotInv'
<1>1. /\ UNCHANGED <<idx, pc, passed>> /\ pc # "call"
      /\ \A d \in Channels : m[d] # <<>> => m'[d] # <<>>
      /\ keys' = IF c \in ToSet(keys) THEN keys ELSE Append(keys, c)
  <2>1. \A d \in Channels : m[d] # <<>> => m'[d] # <<>>
    <3>1. m[c] \in Seq(Nat) /\ sent[c] + 1 \in Nat
      BY DEF IInv, TypeOK
    <3>2. Append(m[c], sent[c] + 1) # <<>>
      BY <3>1, AppendProperties, EmptySeq
    <3> QED BY <3>2 DEF Send, IInv, TypeOK
  <2> QED BY <2>1 DEF Send, Locked
<1>2. CASE c \in ToSet(keys)
  BY <1>1, <1>2 DEF RotInv, Gone, At
<1>3. CASE c \notin ToSet(keys)
  <2> DEFINE n == Len(keys)
  <2>1. /\ n \in Nat /\ Len(keys') = n + 1 /\ keys'[n + 1] = c
        /\ \A p \in 1 .. n : keys'[p] = keys[p]
        /\ keys' \in Seq(Channels)
    BY <1>1, <1>3, AppendProperties, LenProperties DEF IInv, TypeOK
  <2>2. ToSet(keys) \subseteq ToSet(keys')
    <3>1. DOMAIN keys = 1 .. n /\ DOMAIN keys' = 1 .. n + 1
      BY <2>1, KeysFacts, LenProperties
    <3> QED BY <2>1, <3>1 DEF ToSet
  <2>3. passed[c] = {}
    BY <1>3, KeysFacts DEF RotInv
  <2>4. \A d \in Channels : c \notin passed[d]
    BY <1>3 DEF RotInv
  <2>5. ASSUME NEW d \in Channels
        PROVE  /\ passed'[d] \subseteq ToSet(keys')
               /\ passed'[d] # {} => /\ m'[d] # <<>> /\ At' <= Len(keys')
                                     /\ keys'[At'] = d => pc' = "call"
    <3>1. passed[d] \subseteq ToSet(keys)
          /\ (passed[d] # {} => m[d] # <<>> /\ At <= n /\ (keys[At] = d => pc = "call"))
      BY DEF RotInv
    <3>2. At' = At /\ At \in Nat \ {0}
      BY <1>1, KeysFacts DEF At
    <3> QED BY <1>1, <2>1, <2>2, <3>1, <3>2
  <2>6. ASSUME NEW p \in 1 .. n + 1, NEW q \in 1 .. n + 1,
               keys'[q] \in passed[keys'[p]], p # At
        PROVE  Gone(p, q)
    <3>1. p # n + 1 /\ q # n + 1
      BY <2>1, <2>3, <2>4, <2>6, KeysFacts
    <3>2. p \in 1 .. n /\ q \in 1 .. n
      BY <2>1, <3>1
    <3> QED BY <2>1, <2>6, <3>2 DEF RotInv
  <2>7. At' = At /\ \A p, q : Gone(p, q)' <=> Gone(p, q)
    BY <1>1 DEF Gone, At
  <2> QED BY <1>1, <2>1, <2>5, <2>6, <2>7 DEF RotInv
<1> QED BY <1>2, <1>3

\* The first queue that is not empty is no farther than any that waits.
LEMMA ScanRot ==
  ASSUME IInv, RotInv, ScanFound
  PROVE  RotInv'
<1> DEFINE n == Len(keys)
<1>1. /\ pc = "sleep" /\ pc' = "call" /\ UNCHANGED <<m, keys, passed>>
      /\ idx' \in 0 .. n - 1
      /\ \A j \in Candidates : ScanOrder(idx') <= ScanOrder(j)
  BY DEF ScanFound, Candidates
<1>2. n \in Nat /\ idx \in Nat
  BY KeysFacts
<1>3. ASSUME NEW p \in 1 .. n, NEW q \in 1 .. n,
             keys[q] \in passed[keys[p]], p # idx' + 1
      PROVE  Gone(p, q)'
  <2>1. /\ keys[p] \in Channels /\ passed[keys[p]] # {}
    BY <1>3, KeysFacts
  <2>2. m[keys[p]] # <<>> /\ At <= n /\ p # At
    BY <1>1, <2>1 DEF RotInv
  <2>3. Gone(p, q)
    BY <1>3, <2>2 DEF RotInv
  <2>4. p - 1 \in 0 .. n - 1 /\ Key(p - 1) = keys[p]
    BY <1>2 DEF Key
  <2>5. ScanOrder(idx') <= ScanOrder(p - 1)
    BY <1>1, <2>2, <2>4 DEF Candidates
  <2>6. idx' \in Nat /\ idx' < n
    BY <1>1, <1>2
  <2>7. IF p < idx + 1 THEN p < q /\ q <= idx + 1 ELSE p < q \/ q <= idx + 1
    BY <1>1, <2>3 DEF Gone, At
  <2>8. IF p < idx' + 1 THEN p < q /\ q < idx' + 1 ELSE p < q \/ q < idx' + 1
    <3> DEFINE i == idx'
               s == ScanStart
    <3>1. idx + 1 <= n /\ p # idx + 1
      BY <2>2 DEF At
    <3>2. s = IF idx + 1 = n THEN 0 ELSE idx + 1
      BY <1>2, <3>1 DEF ScanStart
    <3>3. (IF i >= s THEN i ELSE i + n) <= (IF p - 1 >= s THEN p - 1 ELSE p - 1 + n)
      BY <2>5 DEF ScanOrder
    <3>4. i \in Nat /\ i < n /\ p # i + 1
      BY <1>3, <2>6
    <3>5. p \in Nat /\ q \in Nat /\ 1 <= p /\ p <= n /\ 1 <= q /\ q <= n
      BY <1>2
    <3> HIDE DEF i, s, n
    <3>6. IF p < i + 1 THEN p < q /\ q < i + 1 ELSE p < q \/ q < i + 1
      BY <1>2, <2>7, <3>1, <3>2, <3>3, <3>4, <3>5
    <3> QED BY <3>6 DEF i
  <2> QED BY <1>1, <2>8 DEF Gone, At
<1>4. \A d \in Channels : passed[d] # {} => At' <= n
  BY <1>1, <1>2 DEF At
<1> QED BY <1>1, <1>3, <1>4 DEF RotInv, At

\* Whoever waits sees the channel at the rotation's position go first.
LEMMA CallRot ==
  ASSUME IInv, RotInv, Call
  PROVE  /\ RotInv'
         /\ \A d \in Channels \ {Key(idx)} : m[d] # <<>> => Key(idx) \notin passed[d]
<1> DEFINE n == Len(keys)
           c == Key(idx)
<1>1. /\ pc = "call" /\ pc' = "pop" /\ UNCHANGED <<m, keys, idx>>
      /\ c \in Channels /\ c = keys[At] /\ At \in 1 .. n
  <2>1. pc = "call" /\ pc' = "pop" /\ UNCHANGED <<m, keys, idx>>
    BY DEF Call
  <2>2. c \in Channels
    BY <2>1, CurrentQueue
  <2>3. idx < n /\ n \in Nat /\ idx \in Nat
    BY <2>1, KeysFacts DEF IInv, FrontDefined
  <2> QED BY <2>1, <2>2, <2>3 DEF At, Key
<1>2. \A d \in Channels : passed'[d] = ServedBefore(c)[d]
  BY DEF Call
<1>3. /\ passed'[c] = {}
      /\ \A d \in Channels \ {c} :
            \/ passed'[d] = passed[d] \cup {c} /\ m[d] # <<>>
            \/ passed'[d] = passed[d]
  BY <1>1, <1>2 DEF ServedBefore
<1> HIDE DEF c
<1>4. ASSUME NEW d \in Channels \ {c}, m[d] # <<>>, c \in passed[d] PROVE FALSE
  <2>1. PICK p \in 1 .. n : keys[p] = d
    BY <1>4, KeysFacts
  <2>2. p # At
    BY <1>1, <2>1
  <2>3. Gone(p, At)
    BY <1>1, <1>4, <2>1, <2>2 DEF RotInv
  <2> QED BY <1>1, <2>2, <2>3, KeysFacts DEF Gone, At
<1>5. ASSUME NEW d \in Channels
      PROVE  /\ passed'[d] \subseteq ToSet(keys)
             /\ passed'[d] # {} => /\ m[d] # <<>> /\ At <= n
                                   /\ keys[At] # d
  <2>1. c \in ToSet(keys)
    BY <1>1, KeysFacts
  <2>2. passed[d] \subseteq ToSet(keys) /\ (passed[d] # {} => m[d] # <<>>)
    BY DEF RotInv
  <2>3. At <= n
    BY <1>1
  <2> QED BY <1>1, <1>3, <2>1, <2>2, <2>3
<1>6. ASSUME NEW p \in 1 .. n, NEW q \in 1 .. n,
             keys[q] \in passed'[keys[p]], p # At
      PROVE  IF p < At THEN p < q /\ q <= At ELSE p < q \/ q <= At
  <2>1. keys[p] \in Channels \ {c}
    BY <1>1, <1>6, KeysFacts
  <2>2. CASE keys[q] \in passed[keys[p]]
    <3>1. Gone(p, q)
      BY <1>6, <2>2 DEF RotInv
    <3> QED BY <1>1, <3>1, KeysFacts DEF Gone, At
  <2>3. CASE keys[q] = c
    <3>1. q = At
      BY <1>1, <2>3, KeysFacts
    <3> QED BY <1>1, <1>6, <3>1, KeysFacts DEF At
  <2> QED BY <1>3, <1>6, <2>1, <2>2, <2>3
<1>7. At' = At
  BY <1>1 DEF At
<1>8. RotInv'
  BY <1>1, <1>5, <1>6, <1>7 DEF RotInv, Gone
<1> QED BY <1>4, <1>8 DEF c

LEMMA PopRot ==
  ASSUME IInv, RotInv, Pop
  PROVE  RotInv'
<1>1. /\ pc = "pop" /\ pc' = "rest" /\ UNCHANGED <<keys, idx, passed>>
      /\ \A d \in Channels : d # Key(idx) => m'[d] = m[d]
  BY DEF Pop, IInv, TypeOK
<1>2. passed[Key(idx)] = {}
  BY <1>1, CurrentQueue DEF RotInv, Key, At
<1>3. At' = At /\ \A p, q : Gone(p, q)' <=> Gone(p, q)
  BY <1>1 DEF Gone, At
<1> QED BY <1>1, <1>2, <1>3 DEF RotInv

\* Nobody waits when the scan finds nothing.
LEMMA NothingRot ==
  ASSUME IInv, RotInv, ScanNothing
  PROVE  RotInv'
<1>1. Candidates = {} /\ UNCHANGED <<m, keys, passed>>
  BY DEF ScanNothing
<1>2. \A d \in Channels : m[d] = <<>>
  <2> SUFFICES ASSUME NEW d \in Channels, m[d] # <<>> PROVE FALSE
    OBVIOUS
  <2>1. PICK p \in 1 .. Len(keys) : keys[p] = d
    BY KeysFacts
  <2>2. p - 1 \in 0 .. Len(keys) - 1 /\ Key(p - 1) = d
    BY <2>1, KeysFacts DEF Key
  <2> QED BY <1>1, <2>2 DEF Candidates
<1>3. \A d \in Channels : passed[d] = {}
  BY <1>2 DEF RotInv
<1>4. \A p \in 1 .. Len(keys) : passed[keys[p]] = {}
  BY <1>3, KeysFacts
<1> QED BY <1>1, <1>3, <1>4 DEF RotInv

LEMMA RotStep == IInv /\ RotInv /\ [Next]_vars => RotInv'
<1> SUFFICES ASSUME IInv, RotInv, [Next]_vars PROVE RotInv'
  OBVIOUS
<1>1. CASE ClearAll \/ \E c \in Channels : ClearChannel(c)
  <2>1. passed' = [d \in Channels |-> {}]
    BY <1>1 DEF ClearAll, ClearChannel
  <2>2. keys' \in Seq(Channels)
    BY NextIInv DEF IInv, TypeOK
  <2>3. \A p \in 1 .. Len(keys') : keys'[p] \in Channels
    BY <2>2, LenProperties, ElementOfSeq
  <2> QED BY <2>1, <2>3 DEF RotInv
<1>2. CASE Start \/ Stop \/ StopReturns \/ Test \/ Rest \/ UNCHANGED vars
  <2>1. /\ UNCHANGED <<m, keys, idx, passed>>
        /\ pc' = pc \/ (pc # "call" /\ pc' # "call")
    BY <1>2 DEF Start, Stop, StopReturns, Test, Rest, vars
  <2>2. At' = At /\ \A p, q : Gone(p, q)' <=> Gone(p, q)
    BY <2>1 DEF Gone, At
  <2> QED BY <2>1, <2>2 DEF RotInv
<1> QED BY <1>1, <1>2, SendRot, ScanRot, CallRot, PopRot, NothingRot DEF Next, Dispatcher

\* While a reply waits no other destination is served twice, whatever is sent
\* and thrown away meanwhile.
THEOREM RoundRobinCorrect == Spec => RoundRobin
<1> DEFINE Turn == pc = "call" /\ pc' = "pop" =>
                     \A d \in Channels \ {Key(idx)} : m[d] # <<>> => Key(idx) \notin passed[d]
<1>1. Init => RotInv
  <2> SUFFICES ASSUME Init PROVE RotInv
    OBVIOUS
  <2>1. Len(keys) = 0 /\ \A d \in Channels : passed[d] = {}
    BY DEF Init
  <2> QED BY <2>1 DEF RotInv
<1>2. IInv /\ RotInv /\ [Next]_vars => [Turn]_vars
  <2> SUFFICES ASSUME IInv, RotInv, Next, pc = "call", pc' = "pop" PROVE Turn
    BY DEF vars
  <2>1. Call
    BY DEF Next, Dispatcher, Send, ClearAll, ClearChannel, Start, Stop, StopReturns, Test,
       ScanFound, ScanNothing, Pop, Rest
  <2> QED BY <2>1, CallRot
<1> QED BY <1>1, <1>2, RotStep, Inductive, PTL DEF Spec, RoundRobin
=============================================================================
