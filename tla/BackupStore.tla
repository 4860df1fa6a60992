---------------------------- MODULE BackupStore -----------------------------
(***************************************************************************)
(* BackupStore (store.h): a map from keys to vectors of strings, read from *)
(* a file of "key: value" lines and written back whole after every change. *)
(* The environment may refuse to open the file, to read it or to write it, *)
(* fill the disk or end the program in the middle of a write.  A file is   *)
(* shown as what load() makes of it; keys hold no ':' and values no line   *)
(* break, or the lines would not be read as they were written.  Everything *)
(* here holds the mutex; has(), which does not and which nobody calls, is  *)
(* left out.                                                               *)
(***************************************************************************)
EXTENDS Naturals, Sequences

CONSTANTS
    StoreKeys,   \* the keys, numbers in the order of the map
    Values,      \* the values
    Blank,       \* the empty value
    Partial,     \* a value whose line was cut short
    MaxValues    \* bound: values in one key's vector

ASSUME StoreAssumption ==
    StoreKeys \subseteq Nat /\ Blank \in Values /\ MaxValues \in Nat

VARIABLES
    disk,    \* the file, as load() reads it
    store,   \* MappedStore::store, the keys of the map that exist
    up,      \* the program runs
    intact,  \* as far as is known the file holds what readers see
    todo     \* set_from: what the loop has still to add, <<key, values>>

storeVars == <<disk, store, up, intact, todo>>

Words == Values \cup {Partial}
Empty == [k \in {} |-> <<>>]
Idle == <<>>

(* The values of key k, none if the map does not have it.                  *)
At(s, k) == IF k \in DOMAIN s THEN s[k] ELSE <<>>
Put(s, k, v) == [j \in DOMAIN s \cup {k} |-> IF j = k THEN v ELSE s[j]]

(* What save() writes: keys without values leave no line.                  *)
File(s) == [k \in StoreKeys |-> At(s, k)]

(* What load() makes of a file: only keys that have a line.                *)
Load(f) == [k \in {j \in StoreKeys : f[j] # <<>>} |-> f[k]]

(* What readers see: if(store.empty()) load()                              *)
Loaded == IF store = Empty THEN Load(disk) ELSE store

(* What it may come to: an ifstream that does not open leaves the map as   *)
(* load() has cleared it.                                                  *)
LoadOutcomes == {Load(disk), Empty}
Reading == IF store = Empty THEN LoadOutcomes ELSE {store}

(* Writing ends in the lines of k, after n values; of the next line there  *)
(* may be a part.                                                          *)
CutAt(f, k, n, more) ==
    [j \in StoreKeys |-> IF j < k THEN f[j]
                         ELSE IF j = k THEN SubSeq(f[k], 1, n) \o more
                         ELSE <<>>]
Cuts(f) ==
    UNION {{CutAt(f, k, n, <<>>) : n \in 0 .. Len(f[k])} \cup
           {CutAt(f, k, n, <<Partial>>) : n \in 0 .. Len(f[k]) - 1}
              : k \in StoreKeys}

Resize(s, n) == [i \in 1 .. n |-> IF i <= Len(s) THEN s[i] ELSE Blank]
-----------------------------------------------------------------------------
StoreInit ==
    /\ disk \in [StoreKeys -> {<<>>} \cup {<<v>> : v \in Values}]
    /\ store = Empty /\ up = FALSE /\ intact = TRUE /\ todo = Idle

Down == up' = FALSE /\ store' = Empty /\ intact' = TRUE /\ todo' = Idle

\* a plausible mistake: the map is saved before it is changed
MutSaveDone(s, done) ==
    /\ disk' = File(Loaded) /\ store' = s /\ intact' = TRUE
    /\ up' = TRUE /\ todo' = done

(* save() with the map s; done is what set_from has left to do after it.   *)
SaveDone(s, done) ==
    /\ disk' = File(s) /\ store' = s /\ intact' = TRUE
    /\ up' = TRUE /\ todo' = done

(* The ofstream does not open: save() throws, the change stays in memory.  *)
SaveThrows(s) ==
    /\ UNCHANGED disk /\ store' = s /\ intact' = FALSE
    /\ up' = TRUE /\ todo' = Idle

(* The disk is full: nobody looks at the stream's state.                   *)
SaveFull(s, done) ==
    /\ disk' \in Cuts(File(s)) /\ store' = s /\ intact' = FALSE
    /\ up' = TRUE /\ todo' = done

SaveDies(s) == disk' \in Cuts(File(s)) /\ Down

Save(s, done) ==
    SaveDone(s, done) \/ SaveThrows(s) \/ SaveFull(s, done) \/ SaveDies(s)

(* The constructor: reload and save; a throw ends the program.  A file     *)
(* that could not be read is overwritten with nothing.                     *)
Start ==
    /\ ~up
    /\ \E s \in LoadOutcomes : SaveDone(s, Idle) \/ SaveFull(s, Idle) \/ SaveDies(s)

(* push_back behind what the map has, as save() then writes it all.        *)
AddTo(k, v, done) ==
    \E s \in Reading :
        /\ Len(At(s, k)) < MaxValues
        /\ Save(Put(s, k, Append(At(s, k), v)), done)

Add(k, v) == up /\ AddTo(k, v, todo)

SetAt(k, n, v) ==
    /\ up
    /\ \E s \in Reading :
          LET old == At(s, k)
              room == IF Len(old) < n + 1 THEN Resize(old, n + 1) ELSE old
          IN  Save(Put(s, k, [room EXCEPT ![n + 1] = v]), todo)

ClearKey(k) == up /\ \E s \in Reading : Save(Put(s, k, <<>>), todo)

(* clear() does not load first.  When its save() throws the map is left    *)
(* empty, and the next access reads the old contents again.                *)
ClearStore == up /\ Save(Empty, todo)

(* set_from(k, c): clear(k), then one add() for each value, each under a   *)
(* lock of its own.                                                        *)
SetFrom(k, vs) ==
    up /\ todo = Idle /\ \E s \in Reading : Save(Put(s, k, <<>>), <<k, vs>>)

SetFromAdd ==
    /\ up /\ todo # Idle
    /\ LET vs == todo[2]
       IN  AddTo(todo[1], Head(vs), IF Len(vs) = 1 THEN Idle ELSE <<todo[1], Tail(vs)>>)

(* get_keys, get_keys_if_sreg, get_keys_if_wild                            *)
ReadKeys == up /\ store' \in Reading /\ UNCHANGED <<disk, up, intact, todo>>

(* get_at, get_vec, get_set: store[k] makes a key without values, also in  *)
(* a map that could not be read, which is then not empty any more.         *)
ReadKey(k) ==
    /\ up
    /\ \E s \in Reading :
          /\ store' = Put(s, k, At(s, k))
          /\ intact' = (intact /\ File(s) = File(Loaded))
    /\ UNCHANGED <<disk, up, todo>>

Reload == up /\ store' \in LoadOutcomes /\ UNCHANGED <<disk, up, intact, todo>>

Kill == up /\ Down /\ UNCHANGED disk

StoreNext ==
    \/ Start \/ ClearStore \/ SetFromAdd \/ ReadKeys \/ Reload \/ Kill
    \/ \E k \in StoreKeys :
          \/ ClearKey(k) \/ ReadKey(k)
          \/ \E v \in Values :
                \/ Add(k, v) \/ SetFrom(k, <<v, v>>)
                \/ \E n \in 0 .. MaxValues - 1 : SetAt(k, n, v)

StoreSpec == StoreInit /\ [][StoreNext]_storeVars
-----------------------------------------------------------------------------
(* What readers see: keys without values do not count.                     *)
Seen == File(Loaded)

KV == INSTANCE KeyValue WITH
          Keys <- StoreKeys, MaxLength <- MaxValues,
          value <- Seen, durable <- disk, held <- store # Empty

(* Whatever is read, written, cleared, reloaded or cut off, the store is   *)
(* a key/value store whose file holds what readers see unless a save or a  *)
(* reading failed, which loses what it does not hold only to a file that   *)
(* would not open, and which a crash or a full disk leaves with nothing    *)
(* but values missing at the end of keys, the last one perhaps cut.        *)
StoreRefines == KV!KVSpec
=============================================================================
