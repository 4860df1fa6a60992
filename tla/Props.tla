------------------------------- MODULE Props --------------------------------
(***************************************************************************)
(* Properties with transactions (props.h): a complete map m and one        *)
(* overlay t, which all transactions share.  A transaction has no state of *)
(* its own; its destructor, and that of each of its copies, commits what   *)
(* anybody has set.  To set and get a property takes no transaction.       *)
(***************************************************************************)
EXTENDS Naturals

CONSTANTS
    Holders,    \* transaction objects, copies included
    Names,      \* property names
    Texts       \* property values

Unset == "unset"

ASSUME PropAssumption == Unset \notin Texts

VARIABLES
    m,      \* properties::m
    t,      \* properties::t
    live,   \* the transactions that exist
    last,   \* the last value set for each name, whoever set it
    since   \* the names set since a transaction ended

propVars == <<m, t, live, last, since>>

PropInit ==
    /\ m = [n \in Names |-> Unset] /\ t = m /\ live = {} /\ last = m
    /\ since = {}

(* get_transaction(), and the copy constructor.                            *)
Open(h) ==
    h \notin live /\ live' = live \cup {h} /\ UNCHANGED <<m, t, last, since>>

(* properties::set, which transaction::set calls; in a transaction or not. *)
SetProp(n, v) ==
    /\ t' = [t EXCEPT ![n] = v] /\ last' = [last EXCEPT ![n] = v]
    /\ since' = since \cup {n} /\ UNCHANGED <<m, live>>

(* properties::get: the overlay first.                                     *)
Get(n) == IF t[n] # Unset THEN t[n] ELSE m[n]

\* a plausible mistake: t.insert(m) and a swap, so that the old value wins.
MutCommit ==
    /\ m' = [n \in Names |-> IF m[n] # Unset THEN m[n] ELSE t[n]]
    /\ t' = [n \in Names |-> Unset]

(* properties::commit                                                      *)
Commit ==
    /\ m' = [n \in Names |-> IF t[n] # Unset THEN t[n] ELSE m[n]]
    /\ t' = [n \in Names |-> Unset]

Close(h) ==
    /\ h \in live /\ live' = live \ {h} /\ Commit
    /\ since' = {} /\ UNCHANGED last

PropNext ==
    \/ \E h \in Holders : Open(h) \/ Close(h)
    \/ \E n \in Names, v \in Texts : SetProp(n, v)

PropSpec == PropInit /\ [][PropNext]_propVars
-----------------------------------------------------------------------------
(* However transactions overlap, with each other and with what is set in  *)
(* none, a read returns the value set last, and what was set before any    *)
(* transaction's end is in the map.  (That includes what a transaction     *)
(* still open has set: they are not isolated.)                             *)
NothingLost ==
    \A n \in Names : Get(n) = last[n] /\ (n \notin since => m[n] = last[n])
=============================================================================
