------------------------------- MODULE BotDb --------------------------------
(***************************************************************************)
(* The plugins' database (botdb.cpp): one file for each key, an overlay of *)
(* values in memory, and transactions that hold the mutex from their       *)
(* construction (load) to their destruction (save).  Programs end, also in *)
(* the middle of a save, and start again; a file may not open, and a disk  *)
(* be full.                                                                *)
(***************************************************************************)
EXTENDS Naturals, Sequences, FiniteSets

CONSTANTS
    Users,      \* threads that open transactions
    DbKeys,     \* keys, each a file name; numbers in the order of the set
    Items,      \* values
    NoItem,     \* the empty string, which resize() fills in
    CutItem,    \* what a file that ends in the middle of a value holds of it
    MaxItems,   \* bound: length of a value vector
    MaxRuns     \* bound: how often the program is started

NoUser == "nobody"

ASSUME DbAssumption ==
    /\ NoUser \notin Users /\ DbKeys \subseteq Nat
    /\ MaxItems \in Nat /\ MaxRuns \in Nat

VARIABLES
    files,      \* botdb/<plugin>/<key>
    data,       \* BotDbImpl::data; a missing key is an empty vector
    changed,    \* BotDbImpl::changed_keys
    holder,     \* who has BotDbImpl::mtx
    saving,     \* the destructor's save(): the keys still to be written
    ending,     \* the destructor runs
    saved,      \* how the last save of each key went
    runs,       \* starts of the program
    committed   \* what a transaction last saw of each key as it ended

dbVars == <<files, data, changed, holder, saving, ending, saved, runs, committed>>

Vectors == [DbKeys -> Seq(Items \cup {NoItem, CutItem})]
NoData == [k \in DbKeys |-> <<>>]
AllWhole == [k \in DbKeys |-> "whole"]

(* What a file may hold that was to hold s: its first lines, and of the    *)
(* next one no more than the beginning.                                    *)
CutsOf(s) ==
    {SubSeq(s, 1, n) : n \in 0 .. Len(s)} \cup
    {Append(SubSeq(s, 1, n), CutItem) : n \in {i \in 0 .. Len(s) - 1 : s[i + 1] # NoItem}}

DbInit ==
    /\ files = NoData /\ data = NoData /\ changed = {} /\ holder = NoUser
    /\ saving = {} /\ ending = FALSE /\ saved = AllWhole /\ runs = 1
    /\ committed = files

(* Transaction::Transaction: lock, then load(), which reads the files of   *)
(* the changed keys only.                                                  *)
Begin(u) ==
    /\ holder = NoUser /\ holder' = u
    /\ data' = [k \in DbKeys |-> IF k \in changed THEN files[k] ELSE data[k]]
    /\ changed' = {}
    /\ UNCHANGED <<files, saving, ending, saved, runs, committed>>

InTransaction(u) == holder = u /\ ~ending

Resized(s, n) == [i \in 1 .. n |-> IF i <= Len(s) THEN s[i] ELSE NoItem]

(* v.resize(idx + 1) also when v is longer.                                *)
Set(u, k, v, idx) ==
    /\ InTransaction(u)
    /\ data' = [data EXCEPT ![k] = [Resized(@, idx + 1) EXCEPT ![idx + 1] = v]]
    /\ changed' = changed \cup {k}
    /\ UNCHANGED <<files, holder, saving, ending, saved, runs, committed>>

\* a plausible mistake: add() forgets to note the key
MutDbAdd(u, k, v) ==
    /\ InTransaction(u) /\ Len(data[k]) < MaxItems
    /\ data' = [data EXCEPT ![k] = Append(@, v)]
    /\ UNCHANGED <<files, changed, holder, saving, ending, saved, runs, committed>>

DbAdd(u, k, v) ==
    /\ InTransaction(u) /\ Len(data[k]) < MaxItems
    /\ data' = [data EXCEPT ![k] = Append(@, v)]
    /\ changed' = changed \cup {k}
    /\ UNCHANGED <<files, holder, saving, ending, saved, runs, committed>>

(* ~Transaction: nobody can set rollback, so it always saves.              *)
End(u) ==
    /\ InTransaction(u) /\ ending' = TRUE /\ saving' = changed
    /\ UNCHANGED <<files, data, changed, holder, saved, runs, committed>>

(* save() goes through the set of changed keys in order.                   *)
IsNext(k) == k \in saving /\ \A j \in saving : k <= j

(* save(key): the file is emptied as it opens and nothing looks at the     *)
(* stream after a write, so that a full disk cuts it short; a file that    *)
(* does not open keeps what it has.                                        *)
SaveKey(k) ==
    /\ IsNext(k) /\ saving' = saving \ {k}
    /\ \/ /\ files' = [files EXCEPT ![k] = data[k]]
          /\ saved' = [saved EXCEPT ![k] = "whole"]
       \/ \E s \in CutsOf(data[k]) :
             /\ files' = [files EXCEPT ![k] = s]
             /\ saved' = [saved EXCEPT ![k] = "cut"]
       \/ /\ UNCHANGED files
          /\ saved' = [saved EXCEPT ![k] = "unopened"]
    /\ UNCHANGED <<data, changed, holder, ending, runs, committed>>

(* changed_keys.clear(), and the lock goes with the transaction.           *)
Ended ==
    /\ ending /\ saving = {}
    /\ ending' = FALSE /\ changed' = {} /\ holder' = NoUser
    /\ committed' = [k \in DbKeys |-> IF k \notin changed THEN committed[k]
                                      ELSE IF saved[k] = "whole" THEN data[k] ELSE files[k]]
    /\ UNCHANGED <<files, data, saving, saved, runs>>

(* The program ends, in the middle of a file if it was writing, and is     *)
(* started again with nothing in memory.                                   *)
Restart ==
    /\ runs < MaxRuns /\ runs' = runs + 1
    /\ \/ UNCHANGED files
       \/ \E k \in DbKeys : \E s \in CutsOf(data[k]) :
             IsNext(k) /\ files' = [files EXCEPT ![k] = s]
    /\ data' = NoData /\ changed' = {} /\ holder' = NoUser
    /\ saving' = {} /\ ending' = FALSE /\ saved' = AllWhole
    /\ committed' = IF ending THEN files' ELSE committed

DbNext ==
    \/ Ended \/ Restart \/ \E k \in DbKeys : SaveKey(k)
    \/ \E u \in Users :
          \/ Begin(u) \/ End(u)
          \/ \E k \in DbKeys, v \in Items :
                \/ DbAdd(u, k, v)
                \/ \E idx \in 0 .. MaxItems - 1 : Set(u, k, v, idx)

DbSpec == DbInit /\ [][DbNext]_dbVars
-----------------------------------------------------------------------------
(* Between transactions every key this program has written is in its file  *)
(* as it is in memory: no change escapes the list of changed keys, whoever *)
(* made it.  A file that would not open as the key was last saved may hold *)
(* anything older; one that the disk had no room for holds a beginning.    *)
CommittedInFiles ==
    holder = NoUser =>
        \A k \in DbKeys : data[k] # <<>> =>
            \/ files[k] = data[k]
            \/ saved[k] = "unopened"
            \/ saved[k] = "cut" /\ files[k] \in CutsOf(data[k])

(* botdb.h: "tx commits here".  What transactions have committed is what   *)
(* the next one finds, also after a restart; a key whose save has just     *)
(* failed aside.                                                           *)
CommittedIsRead ==
    [][\A u \in Users : Begin(u) =>
         \A k \in DbKeys : saved[k] = "whole" => data'[k] = committed[k]]_dbVars
=============================================================================
