------------------------------ MODULE KeyValue ------------------------------
(***************************************************************************)
(* What a key/value store that keeps itself in a file promises its user:   *)
(* value is what reads return, durable what the file holds and a restart   *)
(* brings back, intact says that as far as the store can know the two are  *)
(* the same, held that the values are in memory and not read again.  A     *)
(* crash or a full disk costs values at the end of keys and may leave a    *)
(* part of one, but never invents, moves or reorders any.  What is not     *)
(* held is at the mercy of the file: if it does not open to be read, the   *)
(* store takes itself for empty, and the next change is saved over it.     *)
(***************************************************************************)
EXTENDS Naturals, Sequences

CONSTANTS
    Keys,
    Values,     \* what a user may store
    Blank,      \* what fills up a vector that is made longer
    Partial,    \* what is left of a value that was not wholly written
    MaxLength   \* bound: length of a vector that an operation makes

VARIABLES value, durable, intact, held

Contents == [Keys -> Seq(Values \cup {Partial})]
Nothing == [k \in Keys |-> <<>>]

(* s with x at n, and blanks up to there if s was shorter; to append is to *)
(* put a value behind the last.                                            *)
Replaced(s, n, x) ==
    [i \in 1 .. (IF Len(s) < n THEN n ELSE Len(s)) |->
        IF i = n THEN x ELSE IF i <= Len(s) THEN s[i] ELSE Blank]

(* What one operation makes of v.                                          *)
Operations(v) ==
    {v, Nothing} \cup {[v EXCEPT ![k] = <<>>] : k \in Keys} \cup
    {[v EXCEPT ![k] = Replaced(v[k], n, x)] :
        k \in Keys, n \in 1 .. MaxLength, x \in Values}

(* t is a beginning of s, its last value perhaps cut short.                *)
Beginning(t, s) ==
    \E n \in 0 .. Len(s) :
        \/ t = SubSeq(s, 1, n)
        \/ n < Len(s) /\ t = Append(SubSeq(s, 1, n), Partial)

Truncates(f, v) == \A k \in Keys : Beginning(f[k], v[k])

(* What an operation starts from.                                          *)
Base == IF held THEN {value} ELSE {value, Nothing}

KVInit == value = durable /\ value \in Contents /\ intact = TRUE /\ held = FALSE

(* An operation changes what is read.  Values that were not read from the  *)
(* file are held.                                                          *)
Change ==
    /\ held' \in BOOLEAN /\ (value' # Nothing => held')
    /\ \E v \in Base : value' \in Operations(v)

Update == durable' = value' /\ intact' = TRUE /\ Change

(* The file could not be opened: the change is seen but not kept.          *)
UpdateUnsaved == UNCHANGED durable /\ intact' = FALSE /\ Change

(* The disk was full: nobody is told and the file is cut short.            *)
UpdateDamaged ==
    /\ intact' = FALSE /\ durable' \in Contents /\ Truncates(durable', value')
    /\ Change

(* What was not saved is given up for what was.                            *)
Revert ==
    /\ value' = durable /\ UNCHANGED durable
    /\ intact' \in {intact, FALSE} /\ held' \in BOOLEAN

Read == held' = TRUE /\ UNCHANGED <<value, durable, intact>>

(* The file could not be opened and counts as empty from now on.           *)
Misread ==
    /\ ~held /\ held' = TRUE /\ value' = Nothing /\ UNCHANGED durable
    /\ intact' = (intact /\ durable = Nothing)

(* The program dies, perhaps while it writes.                              *)
Crash ==
    /\ value' = durable' /\ intact' = TRUE /\ held' = FALSE
    /\ durable' \in Contents
    /\ \/ durable' = durable
       \/ \E v \in Base : \E w \in Operations(v) : Truncates(durable', w)

KVNext ==
    Read \/ Revert \/ Misread \/ Update \/ UpdateUnsaved \/ UpdateDamaged \/ Crash

KVSpec == KVInit /\ [][KVNext]_<<value, durable, intact, held>>
=============================================================================
