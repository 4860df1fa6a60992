--------------------------- MODULE Stores_proofs ----------------------------
(***************************************************************************)
(* What the stores keep, for any threads, keys and values: the             *)
(* transactions of the database and of the properties, BackupStore as an   *)
(* implementation of KeyValue, and texts and calls as they are written.    *)
(***************************************************************************)
EXTENDS BackupStore, BotDb, Props, StoreText, SequenceFacts

DbTypeOK ==
    /\ files \in Vectors /\ data \in Vectors
    /\ changed \subseteq DbKeys /\ saving \subseteq changed
    /\ saved \in [DbKeys -> {"whole", "cut", "unopened"}]
    /\ ending \in BOOLEAN

(* Only a transaction has changed keys, and only its end saves them.       *)
Guarded ==
    /\ holder = NoUser => changed = {} /\ ~ending
    /\ ~ending => saving = {}

(* What is in memory and still to be written.                              *)
Pending == IF ending THEN saving ELSE changed

(* Every key is in its file, but for a save that failed, or will be        *)
(* written.                                                                *)
Filed ==
    \A k \in DbKeys \ Pending : data[k] # <<>> =>
        \/ files[k] = data[k]
        \/ saved[k] = "unopened"
        \/ saved[k] = "cut" /\ files[k] \in CutsOf(data[k])

DbInv == DbTypeOK /\ Guarded /\ Filed
-----------------------------------------------------------------------------
LEMMA ResizedIsVector ==
    ASSUME NEW s \in Seq(Items \cup {NoItem, CutItem}), NEW idx \in Nat, NEW v \in Items
    PROVE  [Resized(s, idx + 1) EXCEPT ![idx + 1] = v] \in Seq(Items \cup {NoItem, CutItem})
<1>1. \A i \in 1 .. Len(s) : s[i] \in Items \cup {NoItem, CutItem}
  OBVIOUS
<1> DEFINE w == [Resized(s, idx + 1) EXCEPT ![idx + 1] = v]
<1>2. w \in [1 .. idx + 1 -> Items \cup {NoItem, CutItem}]
  BY <1>1 DEF Resized
<1>3. idx + 1 \in Nat
  OBVIOUS
<1> HIDE DEF w
<1>4. w \in Seq(Items \cup {NoItem, CutItem})
  BY <1>2, <1>3, SeqDef, Zenon
<1> QED
  BY <1>4 DEF w

LEMMA NoDataIsVectors == NoData \in Vectors /\ \A k \in DbKeys : NoData[k] = <<>>
BY DEF NoData, Vectors

LEMMA CutsAreVectors ==
    ASSUME NEW s \in Seq(Items \cup {NoItem, CutItem}), NEW c \in CutsOf(s)
    PROVE  c \in Seq(Items \cup {NoItem, CutItem})
<1>1. \A n \in 0 .. Len(s) : SubSeq(s, 1, n) \in Seq(Items \cup {NoItem, CutItem})
  OBVIOUS
<1>2. CutItem \in Items \cup {NoItem, CutItem}
  OBVIOUS
<1>3. Len(s) \in Nat
  OBVIOUS
<1>4. ASSUME NEW n \in 0 .. Len(s) - 1, c = Append(SubSeq(s, 1, n), CutItem)
      PROVE  c \in Seq(Items \cup {NoItem, CutItem})
  <2>1. SubSeq(s, 1, n) \in Seq(Items \cup {NoItem, CutItem})
    BY <1>1, <1>3
  <2> QED
    BY <1>2, <1>4, <2>1, AppendProperties
<1> QED
  BY <1>1, <1>4 DEF CutsOf

LEMMA DbInitially == DbInit => DbInv
BY NoDataIsVectors DEF DbInit, AllWhole, DbInv, DbTypeOK, Guarded, Filed, Pending

(* load() finds nothing to read.                                           *)
LEMMA BeginKeeps == ASSUME DbInv, NEW u \in Users, Begin(u) PROVE DbInv'
<1>1. changed = {} /\ changed' = {} /\ ~ending /\ saving = {} /\ data' = data
  BY DEF Begin, DbInv, DbTypeOK, Guarded, Vectors
<1>2. holder' # NoUser
  BY DbAssumption DEF Begin
<1> QED
  BY <1>1, <1>2 DEF Begin, DbInv, DbTypeOK, Guarded, Filed, Pending

(* set() and add(): the key whose vector changes becomes pending.          *)
LEMMA ChangeKeeps ==
    ASSUME DbInv, NEW u \in Users, InTransaction(u), NEW k \in DbKeys,
           NEW w \in Seq(Items \cup {NoItem, CutItem}),
           data' = [data EXCEPT ![k] = w], changed' = changed \cup {k},
           UNCHANGED <<files, holder, saving, ending, saved>>
    PROVE  DbInv'
<1>1. holder # NoUser /\ ~ending
  BY DbAssumption DEF InTransaction
<1>2. DbTypeOK' /\ Guarded'
  BY <1>1 DEF DbInv, DbTypeOK, Guarded, Vectors
<1>3. Filed'
  BY <1>1 DEF DbInv, DbTypeOK, Filed, Pending, Vectors
<1> QED
  BY <1>2, <1>3 DEF DbInv

LEMMA SetKeeps ==
    ASSUME DbInv, NEW u \in Users, NEW k \in DbKeys, NEW v \in Items,
           NEW idx \in 0 .. MaxItems - 1, Set(u, k, v, idx)
    PROVE  DbInv'
<1> DEFINE w == [Resized(data[k], idx + 1) EXCEPT ![idx + 1] = v]
<1>1. w \in Seq(Items \cup {NoItem, CutItem})
  <2>1. data[k] \in Seq(Items \cup {NoItem, CutItem}) /\ idx \in Nat
    BY DbAssumption DEF DbInv, DbTypeOK, Vectors
  <2> QED
    BY <2>1, ResizedIsVector
<1>2. data' = [data EXCEPT ![k] = w]
  BY DEF Set
<1> QED
  BY <1>1, <1>2, ChangeKeeps DEF Set

LEMMA AddKeeps ==
    ASSUME DbInv, NEW u \in Users, NEW k \in DbKeys, NEW v \in Items, DbAdd(u, k, v)
    PROVE  DbInv'
<1>1. Append(data[k], v) \in Seq(Items \cup {NoItem, CutItem})
  BY DEF DbInv, DbTypeOK, Vectors
<1> QED
  BY <1>1, ChangeKeeps DEF DbAdd

(* The destructor has every changed key to write, and writes one by one;   *)
(* it lets go when none is left.                                           *)
LEMMA EndKeeps == ASSUME DbInv, NEW u \in Users, End(u) PROVE DbInv'
BY DbAssumption DEF End, InTransaction, DbInv, DbTypeOK, Guarded, Filed, Pending

LEMMA SaveKeeps == ASSUME DbInv, NEW k \in DbKeys, SaveKey(k) PROVE DbInv'
<1>1. ending /\ saving # {}
  BY DEF SaveKey, IsNext, DbInv, Guarded, DbTypeOK
<1>2. /\ saving' = saving \ {k} /\ Pending' = Pending \ {k}
      /\ UNCHANGED <<data, changed, holder, ending>>
  BY <1>1 DEF SaveKey, Pending
<1>3. \E f \in Seq(Items \cup {NoItem, CutItem}), how \in {"whole", "cut", "unopened"} :
         /\ files' = [files EXCEPT ![k] = f] /\ saved' = [saved EXCEPT ![k] = how]
         /\ \/ f = data[k] \/ how = "unopened"
            \/ how = "cut" /\ f \in CutsOf(data[k])
  <2>1. data[k] \in Seq(Items \cup {NoItem, CutItem}) /\ files[k] \in Seq(Items \cup {NoItem, CutItem})
    BY DEF DbInv, DbTypeOK, Vectors
  <2>2. CASE files' = [files EXCEPT ![k] = data[k]] /\ saved' = [saved EXCEPT ![k] = "whole"]
    BY <2>1, <2>2
  <2>3. CASE \E c \in CutsOf(data[k]) :
               files' = [files EXCEPT ![k] = c] /\ saved' = [saved EXCEPT ![k] = "cut"]
    BY <2>1, <2>3, CutsAreVectors
  <2>4. CASE files' = files /\ saved' = [saved EXCEPT ![k] = "unopened"]
    <3>1. files' = [files EXCEPT ![k] = files[k]]
      BY <2>4 DEF DbInv, DbTypeOK, Vectors
    <3> QED
      BY <2>1, <2>4, <3>1
  <2> QED
    BY <2>2, <2>3, <2>4 DEF SaveKey
<1>4. DbTypeOK' /\ Guarded'
  BY <1>1, <1>2, <1>3 DEF DbInv, DbTypeOK, Guarded, Vectors
<1>5. Filed'
  BY <1>2, <1>3 DEF DbInv, DbTypeOK, Filed, Vectors
<1> QED
  BY <1>4, <1>5 DEF DbInv

LEMMA EndedKeeps == DbInv /\ Ended => DbInv'
BY DEF Ended, DbInv, DbTypeOK, Guarded, Filed, Pending

(* A program that starts has nothing in memory.                            *)
LEMMA RestartKeeps == DbInv /\ Restart => DbInv'
<1> SUFFICES ASSUME DbInv, Restart PROVE DbInv'
  OBVIOUS
<1>1. files' \in Vectors
  <2>1. ASSUME NEW k \in DbKeys, NEW c \in CutsOf(data[k])
        PROVE  c \in Seq(Items \cup {NoItem, CutItem})
    <3>1. data[k] \in Seq(Items \cup {NoItem, CutItem})
      BY DEF DbInv, DbTypeOK, Vectors
    <3> QED
      BY <3>1, CutsAreVectors
  <2>2. CASE UNCHANGED files
    BY <2>2 DEF DbInv, DbTypeOK
  <2>3. ASSUME NEW k \in DbKeys, NEW c \in CutsOf(data[k]),
               files' = [files EXCEPT ![k] = c]
        PROVE  files' \in Vectors
    BY <2>1, <2>3 DEF DbInv, DbTypeOK, Vectors
  <2> QED
    BY <2>2, <2>3 DEF Restart
<1>2. data' = NoData
  BY DEF Restart
<1> QED
  BY <1>1, <1>2, NoDataIsVectors DEF Restart, AllWhole, DbInv, DbTypeOK, Guarded, Filed, Pending

LEMMA DbKept == DbInv /\ [DbNext]_dbVars => DbInv'
<1> SUFFICES ASSUME DbInv, [DbNext]_dbVars PROVE DbInv'
  OBVIOUS
<1>1. CASE UNCHANGED dbVars
  BY <1>1 DEF dbVars, DbInv, DbTypeOK, Guarded, Filed, Pending
<1>2. CASE DbNext
  BY <1>2, BeginKeeps, EndKeeps, AddKeeps, SetKeeps, SaveKeeps, EndedKeeps, RestartKeeps
     DEF DbNext
<1> QED
  BY <1>1, <1>2

(* botdb.cpp: whatever threads, restarts, files that do not open and full  *)
(* disks, between transactions no change is in memory only, but for a save *)
(* that failed; and one that the disk had no room for has left a beginning *)
(* of what it was to write.                                                *)
THEOREM CommittedInFilesCorrect == DbSpec => []CommittedInFiles
<1>1. DbInv => CommittedInFiles
  BY DEF DbInv, Guarded, Filed, Pending, CommittedInFiles
<1> QED
  BY DbInitially, DbKept, <1>1, PTL DEF DbSpec
-----------------------------------------------------------------------------
PropTypeOK ==
    /\ m \in [Names -> Texts \cup {Unset}]
    /\ t \in [Names -> Texts \cup {Unset}]
    /\ last \in [Names -> Texts \cup {Unset}]

PropInv == PropTypeOK /\ NothingLost

LEMMA PropKept == PropInv /\ [PropNext]_propVars => PropInv'
<1> SUFFICES ASSUME PropInv, [PropNext]_propVars PROVE PropInv'
  OBVIOUS
<1>1. CASE UNCHANGED propVars
  BY <1>1 DEF propVars, PropInv, PropTypeOK, NothingLost, Get
<1>2. ASSUME NEW h \in Holders, Open(h) PROVE PropInv'
  BY <1>2 DEF Open, PropInv, PropTypeOK, NothingLost, Get
<1>3. ASSUME NEW n \in Names, NEW v \in Texts, SetProp(n, v) PROVE PropInv'
  <2>1. v # Unset
    BY PropAssumption
  <2> QED
    BY <1>3, <2>1 DEF SetProp, PropInv, PropTypeOK, NothingLost, Get
<1>4. ASSUME NEW h \in Holders, Close(h) PROVE PropInv'
  <2>1. m' = [n \in Names |-> Get(n)] /\ t' = [n \in Names |-> Unset] /\ last' = last
    BY <1>4 DEF Close, Commit, Get
  <2>2. PropTypeOK'
    BY <2>1 DEF PropInv, PropTypeOK, Get
  <2>3. \A n \in Names : m'[n] = last'[n] /\ t'[n] = Unset
    BY <2>1 DEF PropInv, NothingLost
  <2>4. \A n \in Names : Get(n)' = last'[n]
    BY <2>3 DEF Get
  <2> QED
    BY <2>2, <2>3, <2>4 DEF PropInv, NothingLost
<1> QED
  BY <1>1, <1>2, <1>3, <1>4 DEF PropNext

(* props.h: however the transactions of several threads overlap in the one *)
(* overlay, and whatever is set outside of any, every read finds what was  *)
(* set last, and the end of any transaction brings all of it into the map. *)
THEOREM NothingLostCorrect == PropSpec => []NothingLost
<1>1. PropInit => PropInv
  BY DEF PropInit, PropInv, PropTypeOK, NothingLost, Get
<1>2. PropInv => NothingLost
  BY DEF PropInv
<1> QED
  BY <1>1, <1>2, PropKept, PTL DEF PropSpec
-----------------------------------------------------------------------------
(* BackupStore implements KeyValue.  The argument: what readers see is the *)
(* map, or the file where the map is empty (Loaded); an operation starts   *)
(* from that, or from nothing where the file had to be read and did not    *)
(* open (ReadingIsBase); loading a file and saving it again changes        *)
(* nothing (LoadedAgain); and every operation that saves does one of four  *)
(* things with a map that is one operation away (SaveStep).                *)

Contents == [StoreKeys -> Seq(Words)]
IsMap(s) == DOMAIN s \subseteq StoreKeys /\ s \in [DOMAIN s -> Seq(Words)]

(* The program that is not up has no map.                                  *)
SInv ==
    /\ disk \in Contents
    /\ IsMap(store)
    /\ up \in BOOLEAN /\ intact \in BOOLEAN
    /\ ~up => store = Empty
    /\ todo = Idle \/ todo \in StoreKeys \X (Seq(Values) \ {<<>>})

IsLeft(done) == done = Idle \/ done \in StoreKeys \X (Seq(Values) \ {<<>>})
-----------------------------------------------------------------------------
LEMMA SameContents == KV!Contents = Contents
BY DEF KV!Contents, Contents, Words

LEMMA EmptyIsMap == IsMap(Empty) /\ DOMAIN Empty = {}
BY DEF Empty, IsMap

LEMMA EmptyFile == File(Empty) = KV!Nothing
BY EmptyIsMap DEF File, At, KV!Nothing

LEMMA LoadIsMap == ASSUME NEW f \in Contents PROVE IsMap(Load(f))
BY DEF Load, IsMap, Contents

LEMMA FileIsContents == ASSUME NEW s, IsMap(s) PROVE File(s) \in Contents
BY DEF File, At, IsMap, Contents

(* Saving what was loaded writes what was there.                           *)
LEMMA LoadedAgain == ASSUME NEW f \in Contents PROVE File(Load(f)) = f
BY DEF Load, File, At, Contents

LEMMA PutIsMap ==
    ASSUME NEW s, IsMap(s), NEW k \in StoreKeys, NEW v \in Seq(Words)
    PROVE  /\ IsMap(Put(s, k, v)) /\ Put(s, k, v) # Empty
           /\ File(Put(s, k, v)) = [File(s) EXCEPT ![k] = v]
<1>1. IsMap(Put(s, k, v)) /\ DOMAIN Put(s, k, v) = DOMAIN s \cup {k}
  BY DEF Put, IsMap
<1>2. Put(s, k, v) # Empty
  BY <1>1, EmptyIsMap
<1>3. File(Put(s, k, v)) = [File(s) EXCEPT ![k] = v]
  BY DEF Put, File, At, IsMap
<1> QED
  BY <1>1, <1>2, <1>3

LEMMA AtIsSeq == ASSUME NEW s, IsMap(s), NEW k PROVE At(s, k) \in Seq(Words)
BY DEF At, IsMap

(* What readers see once the file has been read.                           *)
LEMMA SeenIs ==
    SInv => /\ Seen \in Contents
            /\ Seen = IF store = Empty THEN disk ELSE File(store)
<1> SUFFICES ASSUME SInv PROVE Seen \in Contents /\ Seen = IF store = Empty THEN disk ELSE File(store)
  OBVIOUS
<1>1. Seen = IF store = Empty THEN disk ELSE File(store)
  BY LoadedAgain DEF SInv, Seen, Loaded
<1> QED
  BY <1>1, FileIsContents DEF SInv

LEMMA SeenNext ==
    SInv' => Seen' = IF store' = Empty THEN disk' ELSE File(store')
BY LoadedAgain DEF SInv, Seen, Loaded

(* What an operation finds in memory is what readers see, or nothing.      *)
LEMMA ReadingIsBase ==
    ASSUME SInv, NEW s \in Reading
    PROVE  /\ IsMap(s) /\ File(s) \in KV!Base
           /\ File(s) = Seen \/ (s = Empty /\ store = Empty)
<1>1. CASE store # Empty
  <2>1. s = store /\ Seen = File(store)
    BY <1>1, SeenIs DEF Reading
  <2>2. KV!Base = {Seen}
    BY <1>1 DEF KV!Base
  <2>3. IsMap(store)
    BY DEF SInv
  <2>4. IsMap(s)
    BY <2>1, <2>3
  <2>5. File(s) = Seen /\ File(s) \in KV!Base
    <3>1. File(s) = Seen
      BY <2>1
    <3>2. Seen \in KV!Base
      BY <2>2
    <3> QED
      BY <3>1, <3>2
  <2> QED
    BY <2>4, <2>5
<1>2. CASE store = Empty /\ s = Load(disk)
  BY <1>2, SeenIs, LoadIsMap, LoadedAgain DEF SInv, KV!Base
<1>3. CASE store = Empty /\ s = Empty
  BY <1>3, EmptyIsMap, EmptyFile DEF KV!Base
<1> QED
  BY <1>1, <1>2, <1>3 DEF Reading, LoadOutcomes
-----------------------------------------------------------------------------
LEMMA WholeAndNothing ==
    ASSUME NEW s \in Seq(Words)
    PROVE  KV!Beginning(s, s) /\ KV!Beginning(<<>>, s)
<1>1. Len(s) \in Nat /\ SubSeq(s, 1, Len(s)) = s /\ SubSeq(s, 1, 0) = <<>>
  OBVIOUS
<1>2. Len(s) \in 0 .. Len(s) /\ 0 \in 0 .. Len(s)
  BY <1>1
<1> QED
  BY <1>1, <1>2, Zenon DEF KV!Beginning

(* A file that was cut has values missing at the end of keys, at most one  *)
(* value in part, and nothing else.                                        *)
LEMMA CutsTruncate ==
    ASSUME NEW f \in Contents, NEW g \in Cuts(f)
    PROVE  g \in Contents /\ KV!Truncates(g, f)
<1>a. PICK k \in StoreKeys :
          \/ \E n \in 0 .. Len(f[k]) : g = CutAt(f, k, n, <<>>)
          \/ \E n \in 0 .. Len(f[k]) - 1 : g = CutAt(f, k, n, <<Partial>>)
  BY DEF Cuts
<1>1. PICK n \in 0 .. Len(f[k]), more \in {<<>>, <<Partial>>} :
          /\ g = CutAt(f, k, n, more)
          /\ more = <<Partial>> => n \in 0 .. Len(f[k]) - 1
  <2>1. Len(f[k]) \in Nat /\ <<>> # <<Partial>>
    BY DEF Contents
  <2> QED
    BY <1>a, <2>1
<1>2. f[k] \in Seq(Words) /\ Partial \in Words /\ StoreKeys \subseteq Nat
  BY StoreAssumption DEF Contents, Words
<1> DEFINE cut == SubSeq(f[k], 1, n) \o more
<1>3. SubSeq(f[k], 1, n) \in Seq(Words)
  BY <1>2
<1>4. cut \in Seq(Words) /\ KV!Beginning(cut, f[k])
  <2>1. CASE more = <<>>
    <3>1. cut = SubSeq(f[k], 1, n)
      BY <1>3, <2>1
    <3> HIDE DEF cut
    <3> QED
      BY <1>3, <3>1 DEF KV!Beginning
  <2>2. CASE more = <<Partial>>
    <3>1. cut = Append(SubSeq(f[k], 1, n), Partial)
      BY <1>2, <1>3, <2>2, AppendIsConcat
    <3>2. n < Len(f[k])
      BY <1>1, <1>2, <2>2
    <3>3. cut \in Seq(Words)
      BY <1>2, <1>3, <3>1, AppendProperties
    <3> HIDE DEF cut
    <3> QED
      BY <3>1, <3>2, <3>3 DEF KV!Beginning
  <2> QED
    BY <2>1, <2>2
<1>5. g = [j \in StoreKeys |-> IF j < k THEN f[j] ELSE IF j = k THEN cut ELSE <<>>]
  BY <1>1 DEF CutAt
<1> HIDE DEF cut
<1>6. g \in Contents
  BY <1>4, <1>5 DEF Contents
<1>7. ASSUME NEW j \in StoreKeys PROVE KV!Beginning(g[j], f[j])
  <2>1. f[j] \in Seq(Words)
    BY DEF Contents
  <2>2. KV!Beginning(f[j], f[j]) /\ KV!Beginning(<<>>, f[j])
    BY <2>1, WholeAndNothing
  <2> QED
    BY <1>4, <1>5, <2>2
<1> QED
  BY <1>6, <1>7 DEF KV!Truncates

(* Of an empty map there is nothing to cut.                                *)
LEMMA NothingToCut ==
    ASSUME NEW g \in Cuts(File(Empty)) PROVE g = KV!Nothing
<1>1. File(Empty) = KV!Nothing /\ File(Empty) \in Contents
  BY EmptyIsMap, EmptyFile, FileIsContents
<1>2. g \in Contents /\ KV!Truncates(g, File(Empty))
  BY <1>1, CutsTruncate
<1>3. ASSUME NEW j \in StoreKeys PROVE g[j] = <<>>
  <2>1. KV!Beginning(g[j], <<>>)
    BY <1>1, <1>2 DEF KV!Truncates, KV!Nothing
  <2> QED
    BY <2>1 DEF KV!Beginning
<1> QED
  BY <1>2, <1>3 DEF Contents, KV!Nothing
-----------------------------------------------------------------------------
(* Every way a save can end is a step of the abstract store, if the map to *)
(* be saved is one operation from what the operation started with.         *)
LEMMA SaveStep ==
    ASSUME SInv, NEW s, IsMap(s), NEW done, IsLeft(done),
           NEW b \in KV!Base, File(s) \in KV!Operations(b), Save(s, done)
    PROVE  KV!KVNext /\ SInv'
<1>1. File(s) \in Contents /\ (s = Empty => File(s) = KV!Nothing)
  BY FileIsContents, EmptyFile
<1>2. CASE SaveDone(s, done)
  <2>1. SInv'
    BY <1>1, <1>2 DEF SaveDone, SInv, IsLeft
  <2>2. disk' = File(s) /\ store' = s /\ Seen' = File(s) /\ intact' = TRUE
    BY <1>2, <2>1, SeenNext DEF SaveDone
  <2>3. KV!Update
    BY <1>1, <2>2 DEF KV!Update, KV!Change
  <2> QED
    BY <2>1, <2>3 DEF KV!KVNext
<1>3. CASE SaveThrows(s)
  <2>1. SInv'
    BY <1>3 DEF SaveThrows, SInv
  <2>2. /\ disk' = disk /\ store' = s /\ intact' = FALSE
        /\ Seen' = IF s = Empty THEN disk ELSE File(s)
    BY <1>3, <2>1, SeenNext DEF SaveThrows
  <2>3. CASE s = Empty
    <3>1. KV!Revert
      BY <2>2, <2>3 DEF KV!Revert
    <3> QED
      BY <2>1, <3>1 DEF KV!KVNext
  <2>4. CASE s # Empty
    <3>1. KV!UpdateUnsaved
      BY <2>2, <2>4 DEF KV!UpdateUnsaved, KV!Change
    <3> QED
      BY <2>1, <3>1 DEF KV!KVNext
  <2> QED
    BY <2>3, <2>4
<1>4. CASE SaveFull(s, done)
  <2>1. /\ disk' \in Contents /\ KV!Truncates(disk', File(s))
        /\ s = Empty => disk' = KV!Nothing
    BY <1>1, <1>4, CutsTruncate, NothingToCut DEF SaveFull
  <2>2. SInv'
    BY <1>4, <2>1 DEF SaveFull, SInv, IsLeft
  <2>3. store' = s /\ intact' = FALSE /\ Seen' = File(s)
    BY <1>1, <1>4, <2>1, <2>2, SeenNext DEF SaveFull
  <2>4. KV!UpdateDamaged
    BY <1>1, <2>1, <2>3, SameContents DEF KV!UpdateDamaged, KV!Change
  <2> QED
    BY <2>2, <2>4 DEF KV!KVNext
<1>5. CASE SaveDies(s)
  <2>1. disk' \in Contents /\ KV!Truncates(disk', File(s))
    BY <1>1, <1>5, CutsTruncate DEF SaveDies
  <2>2. SInv'
    BY <1>5, <2>1, EmptyIsMap DEF SaveDies, Down, SInv
  <2>3. store' = Empty /\ intact' = TRUE /\ Seen' = disk'
    BY <1>5, <2>2, SeenNext DEF SaveDies, Down
  <2>4. KV!Crash
    BY <2>1, <2>3, SameContents DEF KV!Crash
  <2> QED
    BY <2>2, <2>4 DEF KV!KVNext
<1> QED
  BY <1>2, <1>3, <1>4, <1>5 DEF Save
-----------------------------------------------------------------------------
(* Which operations those are.                                             *)
LEMMA AppendIsReplaced ==
    ASSUME NEW a \in Seq(Words), NEW v \in Values
    PROVE  Append(a, v) \in Seq(Words) /\ Append(a, v) = KV!Replaced(a, Len(a) + 1, v)
<1>1. v \in Words /\ Len(a) \in Nat
  BY DEF Words
<1>2. /\ Append(a, v) \in Seq(Words) /\ Len(Append(a, v)) = Len(a) + 1
      /\ \A i \in 1 .. Len(a) : Append(a, v)[i] = a[i]
      /\ Append(a, v)[Len(a) + 1] = v
  BY <1>1, AppendProperties
<1> DEFINE r == Append(a, v)
<1> HIDE DEF r
<1>3. r = [i \in 1 .. Len(a) + 1 |-> r[i]]
  BY <1>1, <1>2, LenProperties DEF r
<1>4. KV!Replaced(a, Len(a) + 1, v) = [i \in 1 .. Len(a) + 1 |-> r[i]]
  BY <1>1, <1>2 DEF r, KV!Replaced
<1> QED
  BY <1>2, <1>3, <1>4 DEF r

LEMMA SetIsReplaced ==
    ASSUME NEW old \in Seq(Words), NEW n \in Nat, NEW v \in Values
    PROVE  LET room == IF Len(old) < n + 1 THEN Resize(old, n + 1) ELSE old
               new == [room EXCEPT ![n + 1] = v]
           IN  new \in Seq(Words) /\ new = KV!Replaced(old, n + 1, v)
<1>0. PICK size \in Nat : size = IF Len(old) < n + 1 THEN n + 1 ELSE Len(old)
  BY LenProperties
<1> DEFINE room == IF Len(old) < n + 1 THEN Resize(old, n + 1) ELSE old
           new == [room EXCEPT ![n + 1] = v]
<1>1. /\ Len(old) \in Nat /\ v \in Words /\ Blank \in Words
      /\ old = [i \in 1 .. Len(old) |-> old[i]] /\ n + 1 \in 1 .. size
  BY <1>0, StoreAssumption, LenProperties DEF Words
<1>2. \A i \in 1 .. Len(old) : old[i] \in Words
  BY ElementOfSeq
<1>3. room = [i \in 1 .. size |-> IF i <= Len(old) THEN old[i] ELSE Blank]
  <2>1. CASE Len(old) < n + 1
    BY <1>0, <2>1 DEF Resize
  <2>2. CASE ~(Len(old) < n + 1)
    <3>1. size = Len(old) /\ room = old
      BY <1>0, <2>2
    <3>2. \A i \in 1 .. size : i <= Len(old)
      BY <1>1, <3>1
    <3>3. [i \in 1 .. size |-> old[i]]
             = [i \in 1 .. size |-> IF i <= Len(old) THEN old[i] ELSE Blank]
      BY <3>2
    <3> QED
      BY <1>1, <3>1, <3>3
  <2> QED
    BY <2>1, <2>2
<1> HIDE DEF room
<1>4. new = [i \in 1 .. size |-> IF i = n + 1 THEN v
                                 ELSE IF i <= Len(old) THEN old[i] ELSE Blank]
  BY <1>1, <1>3
<1> HIDE DEF new
<1>5. new \in [1 .. size -> Words]
  <2>1. \A i \in 1 .. size : i <= Len(old) => i \in 1 .. Len(old)
    BY <1>1
  <2> QED
    BY <1>1, <1>2, <1>4, <2>1
<1>6. new \in Seq(Words)
  BY <1>0, <1>5, SeqDef, Zenon
<1>7. new = KV!Replaced(old, n + 1, v)
  BY <1>0, <1>4 DEF KV!Replaced
<1> QED
  BY <1>6, <1>7 DEF new, room

LEMMA PutIsOne ==
    ASSUME SInv, NEW s \in Reading, NEW k \in StoreKeys, NEW new \in Seq(Words),
           \/ new = <<>>
           \/ \E n \in 1 .. MaxValues, x \in Values : new = KV!Replaced(At(s, k), n, x)
    PROVE  IsMap(Put(s, k, new)) /\ File(Put(s, k, new)) \in KV!Operations(File(s))
<1>1. IsMap(s) /\ File(s)[k] = At(s, k)
  BY ReadingIsBase DEF File
<1>2. IsMap(Put(s, k, new)) /\ File(Put(s, k, new)) = [File(s) EXCEPT ![k] = new]
  BY <1>1, PutIsMap
<1>3. [File(s) EXCEPT ![k] = new] \in KV!Operations(File(s))
  <2>1. CASE new = <<>>
    <3> DEFINE b == File(s)
    <3> HIDE DEF b
    <3>0. [b EXCEPT ![k] = <<>>] \in {[b EXCEPT ![j] = <<>>] : j \in StoreKeys}
      OBVIOUS
    <3> DEFINE A == {b, KV!Nothing}
               B == {[b EXCEPT ![j] = <<>>] : j \in StoreKeys}
               C == {[b EXCEPT ![j] = KV!Replaced(b[j], n, x)] :
                        j \in StoreKeys, n \in 1 .. MaxValues, x \in Values}
    <3>a. KV!Operations(b) = (A \cup B) \cup C
      BY DEF KV!Operations
    <3> HIDE DEF A, B, C
    <3>1. [b EXCEPT ![k] = <<>>] \in KV!Operations(b)
      BY <3>0, <3>a DEF B
    <3> QED
      BY <2>1, <3>1 DEF b
  <2>2. CASE \E n \in 1 .. MaxValues, x \in Values : new = KV!Replaced(At(s, k), n, x)
    <3>1. PICK n \in 1 .. MaxValues, x \in Values : new = KV!Replaced(File(s)[k], n, x)
      BY <1>1, <2>2
    <3> QED
      BY <3>1 DEF KV!Operations
  <2> QED
    BY <2>1, <2>2
<1> QED
  BY <1>2, <1>3

LEMMA PutStep ==
    ASSUME SInv, NEW s \in Reading, NEW k \in StoreKeys, NEW new \in Seq(Words),
           \/ new = <<>>
           \/ \E n \in 1 .. MaxValues, x \in Values : new = KV!Replaced(At(s, k), n, x),
           NEW done, IsLeft(done), Save(Put(s, k, new), done)
    PROVE  KV!KVNext /\ SInv'
<1>1. File(s) \in KV!Base
  BY ReadingIsBase
<1>2. IsMap(Put(s, k, new)) /\ File(Put(s, k, new)) \in KV!Operations(File(s))
  BY PutIsOne
<1> QED
  BY <1>1, <1>2, SaveStep

LEMMA NoneIsSeq == <<>> \in Seq(Words)
OBVIOUS
-----------------------------------------------------------------------------
(* The initial state is one of the abstract store.                         *)
LEMMA StoreInitially == StoreInit => KV!KVInit /\ SInv
<1> SUFFICES ASSUME StoreInit PROVE KV!KVInit /\ SInv
  OBVIOUS
<1>1. disk \in Contents
  <2>1. \A v \in Values : <<v>> \in Seq(Words)
    BY DEF Words
  <2>2. <<>> \in Seq(Words)
    OBVIOUS
  <2>3. \A f \in {<<>>} \cup {<<v>> : v \in Values} : f \in Seq(Words)
    BY <2>1, <2>2
  <2> QED
    BY <2>3 DEF StoreInit, Contents
<1>2. SInv
  BY <1>1, EmptyIsMap DEF SInv, StoreInit
<1>3. Seen = disk /\ store = Empty /\ intact = TRUE
  BY <1>2, SeenIs DEF StoreInit
<1> QED
  BY <1>1, <1>2, <1>3, SameContents DEF KV!KVInit
-----------------------------------------------------------------------------
(* Reading keys shows what was there, or leaves the map as it was.         *)
LEMMA ReadKeysStep ==
    ASSUME SInv, ReadKeys
    PROVE  (KV!KVNext \/ UNCHANGED <<Seen, disk, intact, store # Empty>>) /\ SInv'
<1>1. store' \in Reading /\ disk' = disk /\ intact' = intact
  BY DEF ReadKeys
<1>2. IsMap(store') /\ (File(store') = Seen \/ (store' = Empty /\ store = Empty))
  BY <1>1, ReadingIsBase
<1>3. SInv'
  BY <1>1, <1>2 DEF ReadKeys, SInv
<1>4. CASE store' = Empty /\ store = Empty
  <2>1. Seen' = Seen
    BY <1>1, <1>3, <1>4, SeenIs, SeenNext
  <2> QED
    BY <1>1, <1>3, <1>4, <2>1
<1>5. CASE store' # Empty
  <2>1. Seen' = Seen
    BY <1>2, <1>3, <1>5, SeenNext
  <2>2. KV!Read
    BY <1>1, <1>5, <2>1 DEF KV!Read
  <2> QED
    BY <1>3, <2>2 DEF KV!KVNext
<1>6. store' = Empty => store = Empty
  BY <1>1 DEF Reading
<1> QED
  BY <1>4, <1>5, <1>6

(* Reading one key makes a map that is not empty, with what readers saw or *)
(* without it.                                                             *)
LEMMA ReadKeyStep ==
    ASSUME SInv, NEW k \in StoreKeys, ReadKey(k) PROVE KV!KVNext /\ SInv'
<1>1. PICK s \in Reading :
          /\ store' = Put(s, k, At(s, k))
          /\ intact' = (intact /\ File(s) = File(Loaded))
  BY DEF ReadKey
<1>2. IsMap(s) /\ At(s, k) \in Seq(Words) /\ disk' = disk
  BY ReadingIsBase, AtIsSeq DEF ReadKey
<1>3. IsMap(store') /\ store' # Empty /\ File(store') = File(s)
  <2>1. File(s) = [File(s) EXCEPT ![k] = At(s, k)]
    BY DEF File
  <2> QED
    BY <1>1, <1>2, <2>1, PutIsMap
<1>4. SInv'
  BY <1>1, <1>2, <1>3 DEF ReadKey, SInv
<1>5. Seen' = File(s)
  BY <1>3, <1>4, SeenNext
<1>6. CASE File(s) = Seen
  <2>1. intact' = intact
    BY <1>1, <1>6 DEF Seen, SInv
  <2>2. KV!Read
    BY <1>2, <1>3, <1>5, <1>6, <2>1 DEF KV!Read
  <2> QED
    BY <1>4, <2>2 DEF KV!KVNext
<1>7. CASE s = Empty /\ store = Empty
  <2>1. File(s) = KV!Nothing /\ File(Loaded) = disk
    BY <1>7, EmptyFile, SeenIs DEF Seen
  <2>2. intact' = (intact /\ disk = KV!Nothing)
    BY <1>1, <2>1
  <2>3. KV!Misread
    BY <1>2, <1>3, <1>5, <1>7, <2>1, <2>2 DEF KV!Misread
  <2> QED
    BY <1>4, <2>3 DEF KV!KVNext
<1> QED
  BY <1>6, <1>7, ReadingIsBase

LEMMA ReloadStep == ASSUME SInv, Reload PROVE KV!KVNext /\ SInv'
<1>1. disk' = disk /\ store' \in LoadOutcomes /\ intact' = intact
  BY DEF Reload
<1>2. IsMap(store') /\ (store' # Empty => File(store') = disk)
  BY <1>1, LoadIsMap, LoadedAgain, EmptyIsMap DEF SInv, LoadOutcomes
<1>3. SInv'
  BY <1>1, <1>2 DEF Reload, SInv
<1>4. Seen' = disk
  BY <1>1, <1>2, <1>3, SeenNext
<1>5. KV!Revert
  BY <1>1, <1>4 DEF KV!Revert
<1> QED
  BY <1>3, <1>5 DEF KV!KVNext

LEMMA KillStep == ASSUME SInv, Kill PROVE KV!KVNext /\ SInv'
<1>1. disk' = disk /\ store' = Empty /\ intact' = TRUE
  BY DEF Kill, Down
<1>2. SInv'
  BY <1>1, EmptyIsMap DEF Kill, Down, SInv
<1>3. Seen' = disk' /\ disk' \in Contents
  BY <1>1, <1>2, SeenNext DEF SInv
<1>4. KV!Crash
  BY <1>1, <1>3, SameContents DEF KV!Crash
<1> QED
  BY <1>2, <1>4 DEF KV!KVNext

LEMMA StartStep == ASSUME SInv, Start PROVE KV!KVNext /\ SInv'
<1>1. PICK s \in LoadOutcomes : SaveDone(s, Idle) \/ SaveFull(s, Idle) \/ SaveDies(s)
  BY DEF Start
<1>2. s \in Reading
  BY DEF Start, SInv, Reading
<1>3. IsMap(s) /\ File(s) \in KV!Base
  BY <1>2, ReadingIsBase
<1>4. File(s) \in KV!Operations(File(s))
  BY DEF KV!Operations
<1>5. Save(s, Idle) /\ IsLeft(Idle)
  BY <1>1 DEF Save, IsLeft
<1> QED
  BY <1>3, <1>4, <1>5, SaveStep

LEMMA ClearStep == ASSUME SInv, ClearStore PROVE KV!KVNext /\ SInv'
<1>1. Seen \in KV!Base /\ File(Empty) \in KV!Operations(Seen)
  BY EmptyFile DEF KV!Base, KV!Operations
<1>2. Save(Empty, todo) /\ IsLeft(todo)
  BY DEF ClearStore, SInv, IsLeft
<1> QED
  BY <1>1, <1>2, EmptyIsMap, SaveStep
-----------------------------------------------------------------------------
LEMMA SetAtStep ==
    ASSUME SInv, NEW k \in StoreKeys, NEW v \in Values, NEW n \in 0 .. MaxValues - 1,
           SetAt(k, n, v)
    PROVE  KV!KVNext /\ SInv'
<1>1. PICK s \in Reading :
          LET old == At(s, k)
              room == IF Len(old) < n + 1 THEN Resize(old, n + 1) ELSE old
          IN  Save(Put(s, k, [room EXCEPT ![n + 1] = v]), todo)
  BY DEF SetAt
<1> DEFINE old == At(s, k)
           room == IF Len(old) < n + 1 THEN Resize(old, n + 1) ELSE old
           new == [room EXCEPT ![n + 1] = v]
<1>2. old \in Seq(Words) /\ n \in Nat /\ n + 1 \in 1 .. MaxValues
  BY ReadingIsBase, AtIsSeq, StoreAssumption
<1>3. new \in Seq(Words) /\ new = KV!Replaced(old, n + 1, v)
  BY <1>2, SetIsReplaced
<1>4. Save(Put(s, k, new), todo) /\ IsLeft(todo)
  BY <1>1 DEF SInv, IsLeft
<1> HIDE DEF new
<1> QED
  BY <1>2, <1>3, <1>4, PutStep

LEMMA AppendStep ==
    ASSUME SInv, NEW k \in StoreKeys, NEW v \in Values, NEW done, IsLeft(done),
           AddTo(k, v, done)
    PROVE  KV!KVNext /\ SInv'
<1>1. PICK s \in Reading :
          Len(At(s, k)) < MaxValues /\ Save(Put(s, k, Append(At(s, k), v)), done)
  BY DEF AddTo
<1>2. At(s, k) \in Seq(Words)
  BY ReadingIsBase, AtIsSeq
<1> DEFINE new == Append(At(s, k), v)
<1>3. new \in Seq(Words) /\ new = KV!Replaced(At(s, k), Len(At(s, k)) + 1, v)
  BY <1>2, AppendIsReplaced
<1>4. Len(At(s, k)) + 1 \in 1 .. MaxValues
  BY <1>1, <1>2, StoreAssumption
<1>5. Save(Put(s, k, new), done)
  BY <1>1
<1> HIDE DEF new
<1> QED
  BY <1>3, <1>4, <1>5, PutStep

LEMMA ClearKeyStep ==
    ASSUME SInv, NEW k \in StoreKeys, ClearKey(k) PROVE KV!KVNext /\ SInv'
<1>1. PICK s \in Reading : Save(Put(s, k, <<>>), todo)
  BY DEF ClearKey
<1>2. IsLeft(todo)
  BY DEF SInv, IsLeft
<1> QED
  BY <1>1, <1>2, NoneIsSeq, PutStep

LEMMA SetFromStep ==
    ASSUME SInv, NEW k \in StoreKeys, NEW v \in Values, SetFrom(k, <<v, v>>)
    PROVE  KV!KVNext /\ SInv'
<1> DEFINE done == <<k, <<v, v>>>>
<1>1. IsLeft(done)
  <2>1. <<v, v>> \in Seq(Values) /\ <<v, v>> # <<>>
    OBVIOUS
  <2> QED
    BY <2>1 DEF IsLeft
<1>2. PICK s \in Reading : Save(Put(s, k, <<>>), done)
  BY DEF SetFrom
<1> HIDE DEF done
<1> QED
  BY <1>1, <1>2, NoneIsSeq, PutStep

LEMMA SetFromAddStep == ASSUME SInv, SetFromAdd PROVE KV!KVNext /\ SInv'
<1> DEFINE k == todo[1]
           vs == todo[2]
           done == IF Len(vs) = 1 THEN Idle ELSE <<k, Tail(vs)>>
<1>1. k \in StoreKeys /\ vs \in Seq(Values) /\ vs # <<>>
  BY DEF SetFromAdd, SInv
<1>2. AddTo(k, Head(vs), done)
  BY DEF SetFromAdd
<1> HIDE DEF vs, k
<1>3. Head(vs) \in Values /\ (Len(vs) # 1 => Tail(vs) \in Seq(Values) \ {<<>>})
  <2>1. Len(vs) \in Nat \ {0} /\ Head(vs) \in Values
    BY <1>1, EmptySeq, HeadTailProperties
  <2>2. Tail(vs) \in Seq(Values) /\ Len(Tail(vs)) = Len(vs) - 1
    BY <1>1, HeadTailProperties
  <2>3. Tail(vs) = <<>> => Len(Tail(vs)) = 0
    BY EmptySeq
  <2> QED
    BY <2>1, <2>2, <2>3
<1>4. IsLeft(done)
  BY <1>1, <1>3 DEF IsLeft
<1> HIDE DEF done
<1> QED
  BY <1>1, <1>2, <1>3, <1>4, AppendStep
-----------------------------------------------------------------------------
(* One case for each operation.                                            *)
LEMMA StoreStep ==
    ASSUME SInv, StoreNext
    PROVE  (KV!KVNext \/ UNCHANGED <<Seen, disk, intact, store # Empty>>) /\ SInv'
<1>1. ASSUME NEW k \in StoreKeys, NEW v \in Values, Add(k, v)
      PROVE  KV!KVNext /\ SInv'
  <2>1. AddTo(k, v, todo) /\ IsLeft(todo)
    BY <1>1 DEF Add, SInv, IsLeft
  <2> QED
    BY <2>1, AppendStep
<1> QED
  BY <1>1, StartStep, ClearStep, SetFromAddStep, ReadKeysStep, ReloadStep, KillStep,
     ClearKeyStep, ReadKeyStep, SetFromStep, SetAtStep DEF StoreNext

(* Doing nothing keeps everything.                                         *)
LEMMA StoreStutter ==
    ASSUME SInv, UNCHANGED storeVars
    PROVE  UNCHANGED <<Seen, disk, intact, store # Empty>> /\ SInv'
<1>1. Loaded' = Loaded
  BY DEF storeVars, Loaded
<1> QED
  BY <1>1 DEF storeVars, SInv, IsMap, Seen, File

(* The map and the file always hold strings under keys of the store, and a *)
(* program that is not up remembers nothing.                               *)
THEOREM StoreInvCorrect == StoreSpec => []SInv
<1>1. StoreInit => SInv
  BY StoreInitially
<1>2. SInv /\ [StoreNext]_storeVars => SInv'
  BY StoreStep, StoreStutter
<1> QED
  BY <1>1, <1>2, PTL DEF StoreSpec

(* Whatever fails or is cut off, BackupStore is a key/value store whose    *)
(* file holds what readers see unless a save or a reading failed, which    *)
(* forgets what it does not hold in memory only where the file does not    *)
(* open, and of which a crash or a full disk takes nothing but values at   *)
(* the end of keys.                                                        *)
THEOREM Refinement == StoreSpec => StoreRefines
<1>1. StoreInit => KV!KVInit
  BY StoreInitially
<1>2. SInv /\ [StoreNext]_storeVars => [KV!KVNext]_<<Seen, disk, intact, store # Empty>>
  BY StoreStep, StoreStutter
<1> QED
  BY <1>1, <1>2, StoreInvCorrect, PTL DEF StoreSpec, StoreRefines, KV!KVSpec
-----------------------------------------------------------------------------
(* Texts and calls.  The argument: escape() writes every character as one  *)
(* of its codes and unescape() undoes them pass by pass, because no code   *)
(* ends in a backslash; what is escaped has no braces, so that every       *)
(* object is balanced and getobject() ends where it ends; what is read of  *)
(* a stream of parameters leaves the lines of the next one.                *)

\* What replace_all_mute puts in the place of each character.
Piece(s, c, to) == [i \in DOMAIN s |-> IF s[i] = c THEN to ELSE <<s[i]>>]
PieceOf(p, s, c, to) ==
    Len(p) = Len(s) /\ \A i \in 1 .. Len(s) : p[i] = IF s[i] = c THEN to ELSE <<s[i]>>

LEMMA PieceIs ==
  ASSUME NEW T, NEW s \in Seq(T), NEW c, NEW to \in Seq(T)
  PROVE  \E p \in Seq(Seq(T)) : p = Piece(s, c, to) /\ PieceOf(p, s, c, to)
<1>1. PICK n \in Nat : n = Len(s) /\ DOMAIN s = 1 .. n /\ \A i \in 1 .. n : s[i] \in T
  BY LenProperties, ElementOfSeq
<1>2. \A i \in 1 .. n : <<s[i]>> \in Seq(T)
  BY <1>1, OneOf
<1>3. PICK p : p = Piece(s, c, to)
  OBVIOUS
<1>4. p = [i \in 1 .. n |-> IF s[i] = c THEN to ELSE <<s[i]>>]
  BY <1>1, <1>3 DEF Piece
<1>5. p \in [1 .. n -> Seq(T)]
  BY <1>2, <1>4
<1>6. p \in Seq(Seq(T))
  BY <1>5, SeqDef
<1>7. Len(p) = n
  BY <1>5, <1>6, LenProperties
<1>8. PieceOf(p, s, c, to)
  BY <1>1, <1>4, <1>7 DEF PieceOf
<1> QED BY <1>3, <1>6, <1>8

ReplacesBoth(s, v, c, to) == Replaced(s \o v, c, to) = Replaced(s, c, to) \o Replaced(v, c, to)

LEMMA ReplacedConcat ==
  ASSUME NEW T, NEW s \in Seq(T), NEW v \in Seq(T), NEW c, NEW to \in Seq(T)
  PROVE  ReplacesBoth(s, v, c, to) /\ Replaced(s, c, to) \in Seq(T)
<1>1. PICK n \in Nat, q \in Nat : n = Len(s) /\ q = Len(v)
  BY LenProperties
<1>2. PICK u \in Seq(T) : u = s \o v
  BY ConcatProperties
<1>3. Len(u) = n + q /\ \A i \in 1 .. n + q : u[i] = IF i <= n THEN s[i] ELSE v[i - n]
  BY <1>1, <1>2, ConcatProperties
<1>4. PICK f \in Seq(Seq(T)) : f = Piece(s, c, to) /\ PieceOf(f, s, c, to)
  BY PieceIs
<1>5. Len(f) = n /\ \A i \in 1 .. n : f[i] = IF s[i] = c THEN to ELSE <<s[i]>>
  BY <1>1, <1>4 DEF PieceOf
<1>6. PICK g \in Seq(Seq(T)) : g = Piece(v, c, to) /\ PieceOf(g, v, c, to)
  BY PieceIs
<1>7. Len(g) = q /\ \A i \in 1 .. q : g[i] = IF v[i] = c THEN to ELSE <<v[i]>>
  BY <1>1, <1>6 DEF PieceOf
<1>8. PICK r \in Seq(Seq(T)) : r = Piece(u, c, to) /\ PieceOf(r, u, c, to)
  BY PieceIs
<1>9. Len(r) = n + q /\ \A i \in 1 .. n + q : r[i] = IF u[i] = c THEN to ELSE <<u[i]>>
  BY <1>3, <1>8 DEF PieceOf
<1>10. \A i \in 1 .. n : r[i] = f[i]
  <2> SUFFICES ASSUME NEW i \in 1 .. n PROVE r[i] = f[i]
    OBVIOUS
  <2>1. i \in 1 .. n + q /\ i <= n
    OBVIOUS
  <2> QED BY <2>1, <1>3, <1>5, <1>9
<1>11. \A i \in 1 .. q : r[n + i] = g[i]
  <2> SUFFICES ASSUME NEW i \in 1 .. q PROVE r[n + i] = g[i]
    OBVIOUS
  <2>1. PICK j \in 1 .. n + q : j = n + i /\ ~(j <= n) /\ j - n = i
    OBVIOUS
  <2>2. u[j] = v[i]
    BY <2>1, <1>3
  <2>3. r[j] = IF v[i] = c THEN to ELSE <<v[i]>>
    BY <2>2, <1>9
  <2> QED BY <2>1, <2>3, <1>7
<1>12. Follows(r, f, g, n, q)
  BY <1>5, <1>7, <1>9, <1>10, <1>11 DEF Follows
<1>13. r = f \o g
  BY <1>12, Piecewise
<1>14. FlattenSeq(r) = FlattenSeq(f) \o FlattenSeq(g)
  BY <1>13, FlattenConcat
<1>15. FlattenSeq(f) \in Seq(T)
  BY FlattenType
<1> QED BY <1>2, <1>4, <1>6, <1>8, <1>14, <1>15 DEF Replaced, Piece, ReplacesBoth

\* The characters that unescape() replaces, and what by.
Marked(s, d, i) == i + 1 \in DOMAIN s /\ s[i] = Slash /\ s[i + 1] = d
Unmarked(s, d, c) ==
    [i \in DOMAIN s |-> IF Marked(s, d, i) THEN <<c>>
                        ELSE IF i > 1 /\ Marked(s, d, i - 1) THEN <<>> ELSE <<s[i]>>]
UnmarkedOf(p, s, d, c) ==
    /\ Len(p) = Len(s)
    /\ \A i \in 1 .. Len(s) : p[i] = IF Marked(s, d, i) THEN <<c>>
                                     ELSE IF i > 1 /\ Marked(s, d, i - 1) THEN <<>>
                                     ELSE <<s[i]>>

LEMMA UnmarkedIs ==
  ASSUME NEW T, NEW s \in Seq(T), NEW d, NEW c \in T
  PROVE  \E p \in Seq(Seq(T)) : p = Unmarked(s, d, c) /\ UnmarkedOf(p, s, d, c)
<1>1. PICK n \in Nat : n = Len(s) /\ DOMAIN s = 1 .. n /\ \A i \in 1 .. n : s[i] \in T
  BY LenProperties, ElementOfSeq
<1>2. <<c>> \in Seq(T) /\ <<>> \in Seq(T) /\ \A i \in 1 .. n : <<s[i]>> \in Seq(T)
  BY <1>1, OneOf, EmptySeq
<1>3. PICK p : p = Unmarked(s, d, c)
  OBVIOUS
<1>4. p = [i \in 1 .. n |-> IF Marked(s, d, i) THEN <<c>>
                            ELSE IF i > 1 /\ Marked(s, d, i - 1) THEN <<>> ELSE <<s[i]>>]
  BY <1>1, <1>3 DEF Unmarked
<1>5. p \in [1 .. n -> Seq(T)]
  BY <1>2, <1>4
<1>6. p \in Seq(Seq(T))
  BY <1>5, SeqDef
<1>7. Len(p) = n
  BY <1>5, <1>6, LenProperties
<1>8. UnmarkedOf(p, s, d, c)
  BY <1>1, <1>4, <1>7 DEF UnmarkedOf
<1> QED BY <1>3, <1>6, <1>8

NoSlashAtEnd(s) == s = <<>> \/ s[Len(s)] # Slash

LEMMA RestoredConcat ==
  ASSUME NEW T, NEW s \in Seq(T), NEW v \in Seq(T), NEW d, NEW c \in T, NoSlashAtEnd(s)
  PROVE  /\ Restored(s \o v, d, c) = Restored(s, d, c) \o Restored(v, d, c)
         /\ Restored(s, d, c) \in Seq(T)
<1>1. PICK n \in Nat, q \in Nat : /\ n = Len(s) /\ q = Len(v)
                                  /\ DOMAIN s = 1 .. n /\ DOMAIN v = 1 .. q
  BY LenProperties
<1>2. PICK u \in Seq(T) : u = s \o v
  BY ConcatProperties
<1>3. /\ Len(u) = n + q /\ DOMAIN u = 1 .. n + q
      /\ \A i \in 1 .. n + q : u[i] = IF i <= n THEN s[i] ELSE v[i - n]
  <2>1. Len(u) = n + q /\ \A i \in 1 .. n + q : u[i] = IF i <= n THEN s[i] ELSE v[i - n]
    BY <1>1, <1>2, ConcatProperties
  <2> QED BY <2>1, LenProperties
<1>4. PICK f \in Seq(Seq(T)) : f = Unmarked(s, d, c) /\ UnmarkedOf(f, s, d, c)
  BY UnmarkedIs
<1>5. PICK g \in Seq(Seq(T)) : g = Unmarked(v, d, c) /\ UnmarkedOf(g, v, d, c)
  BY UnmarkedIs
<1>6. PICK r \in Seq(Seq(T)) : r = Unmarked(u, d, c) /\ UnmarkedOf(r, u, d, c)
  BY UnmarkedIs
<1>7. n = 0 \/ s[n] # Slash
  BY <1>1, EmptySeq DEF NoSlashAtEnd
<1>8. \A i \in 1 .. n : u[i] = s[i]
  BY <1>3
<1>9. \A i \in 1 .. q : u[n + i] = v[i]
  <2> SUFFICES ASSUME NEW i \in 1 .. q PROVE u[n + i] = v[i]
    OBVIOUS
  <2>1. PICK j \in 1 .. n + q : j = n + i /\ ~(j <= n) /\ j - n = i
    OBVIOUS
  <2> QED BY <2>1, <1>3
<1>10. \A i \in 1 .. n : Marked(u, d, i) <=> Marked(s, d, i)
  <2> SUFFICES ASSUME NEW i \in 1 .. n PROVE Marked(u, d, i) <=> Marked(s, d, i)
    OBVIOUS
  <2>1. CASE i = n
    <3>1. u[i] # Slash /\ s[i] # Slash
      BY <2>1, <1>7, <1>8
    <3> QED BY <3>1 DEF Marked
  <2>2. CASE i # n
    <3>1. i + 1 \in 1 .. n /\ i + 1 \in 1 .. n + q
      BY <2>2
    <3>2. u[i] = s[i] /\ u[i + 1] = s[i + 1]
      BY <3>1, <1>8
    <3> QED BY <3>1, <3>2, <1>1, <1>3 DEF Marked
  <2> QED BY <2>1, <2>2
<1>11. \A i \in 1 .. q : Marked(u, d, n + i) <=> Marked(v, d, i)
  <2> SUFFICES ASSUME NEW i \in 1 .. q PROVE Marked(u, d, n + i) <=> Marked(v, d, i)
    OBVIOUS
  <2>1. u[n + i] = v[i] /\ ((n + i) + 1 \in 1 .. n + q <=> i + 1 \in 1 .. q)
    BY <1>9
  <2>2. i + 1 \in 1 .. q => u[(n + i) + 1] = v[i + 1]
    <3> SUFFICES ASSUME i + 1 \in 1 .. q PROVE u[(n + i) + 1] = v[i + 1]
      OBVIOUS
    <3>1. PICK j \in 1 .. q : j = i + 1
      OBVIOUS
    <3>2. u[n + j] = v[j]
      BY <1>9
    <3>3. n + j = (n + i) + 1
      BY <3>1
    <3> QED BY <3>1, <3>2, <3>3
  <2> QED BY <2>1, <2>2, <1>1, <1>3 DEF Marked
<1>12. \A i \in 1 .. n : r[i] = f[i]
  <2> SUFFICES ASSUME NEW i \in 1 .. n PROVE r[i] = f[i]
    OBVIOUS
  <2>1. i \in 1 .. n + q /\ i \in 1 .. Len(s)  /\ i \in 1 .. Len(u)
    BY <1>1, <1>3
  <2>2. i > 1 => i - 1 \in 1 .. n
    OBVIOUS
  <2>3. i > 1 => (Marked(u, d, i - 1) <=> Marked(s, d, i - 1))
    BY <2>2, <1>10
  <2>4. u[i] = s[i] /\ (Marked(u, d, i) <=> Marked(s, d, i))
    BY <1>8, <1>10
  <2>5. r[i] = IF Marked(u, d, i) THEN <<c>>
               ELSE IF i > 1 /\ Marked(u, d, i - 1) THEN <<>> ELSE <<u[i]>>
    BY <2>1, <1>6 DEF UnmarkedOf
  <2>6. f[i] = IF Marked(s, d, i) THEN <<c>>
               ELSE IF i > 1 /\ Marked(s, d, i - 1) THEN <<>> ELSE <<s[i]>>
    BY <2>1, <1>4 DEF UnmarkedOf
  <2> QED BY <2>3, <2>4, <2>5, <2>6
<1>13. \A i \in 1 .. q : r[n + i] = g[i]
  <2> SUFFICES ASSUME NEW i \in 1 .. q PROVE r[n + i] = g[i]
    OBVIOUS
  <2>1. PICK j \in 1 .. n + q : j = n + i
    OBVIOUS
  <2>2. u[j] = v[i] /\ (Marked(u, d, j) <=> Marked(v, d, i))
    BY <2>1, <1>9, <1>11
  <2>3. (j > 1 /\ Marked(u, d, j - 1)) <=> (i > 1 /\ Marked(v, d, i - 1))
    <3>1. CASE i = 1
      <4>1. j - 1 = n
        BY <3>1, <2>1
      <4>2. ~(j > 1 /\ Marked(u, d, n))
        <5>1. CASE n = 0
          BY <5>1, <2>1, <3>1
        <5>2. CASE n # 0
          <6>1. n \in 1 .. n /\ s[n] # Slash
            BY <5>2, <1>7
          <6>2. u[n] # Slash
            BY <6>1, <1>8
          <6> QED BY <6>2 DEF Marked
        <5> QED BY <5>1, <5>2
      <4> QED BY <4>1, <4>2, <3>1
    <3>2. CASE i # 1
      <4>1. PICK k \in 1 .. q : k = i - 1
        BY <3>2
      <4>2. j - 1 = n + k /\ j > 1 /\ i > 1
        BY <4>1, <2>1
      <4> QED BY <4>1, <4>2, <1>11
    <3> QED BY <3>1, <3>2
  <2>4. r[j] = IF Marked(u, d, j) THEN <<c>>
               ELSE IF j > 1 /\ Marked(u, d, j - 1) THEN <<>> ELSE <<u[j]>>
    BY <1>3, <1>6 DEF UnmarkedOf
  <2>5. g[i] = IF Marked(v, d, i) THEN <<c>>
               ELSE IF i > 1 /\ Marked(v, d, i - 1) THEN <<>> ELSE <<v[i]>>
    BY <1>1, <1>5 DEF UnmarkedOf
  <2>6. r[j] = g[i]
    BY <2>2, <2>3, <2>4, <2>5
  <2> QED BY <2>1, <2>6
<1>14. Follows(r, f, g, n, q)
  BY <1>1, <1>3, <1>4, <1>5, <1>6, <1>12, <1>13 DEF Follows, UnmarkedOf
<1>15. r = f \o g
  BY <1>14, Piecewise
<1>16. FlattenSeq(r) = FlattenSeq(f) \o FlattenSeq(g) /\ FlattenSeq(f) \in Seq(T)
  BY <1>15, FlattenConcat, FlattenType
<1>17. /\ Restored(s, d, c) = FlattenSeq(f) /\ Restored(v, d, c) = FlattenSeq(g)
       /\ Restored(u, d, c) = FlattenSeq(r)
  BY <1>4, <1>5, <1>6, Zenon DEF Restored, Unmarked, Marked
<1> QED BY <1>2, <1>16, <1>17

\* The two-character sequences and the others that are read.
LEMMA RestoredOne ==
  ASSUME NEW T, NEW x \in T, NEW d, NEW c \in T
  PROVE  Restored(<<x>>, d, c) = <<x>>
<1>1. PICK s \in Seq(T) : s = <<x>> /\ Len(s) = 1 /\ s[1] = x
  BY OneOf
<1>2. DOMAIN s = 1 .. 1
  BY <1>1, LenProperties
<1>3. PICK p \in Seq(Seq(T)) : p = Unmarked(s, d, c) /\ UnmarkedOf(p, s, d, c)
  BY UnmarkedIs
<1>4. ~Marked(s, d, 1)
  BY <1>2 DEF Marked
<1>5. Len(p) = 1 /\ p[1] = <<x>>
  BY <1>1, <1>3, <1>4 DEF UnmarkedOf
<1>6. p = <<<<x>>>>
  BY <1>5
<1>7. FlattenSeq(p) = <<x>>
  BY <1>6, FlattenOne
<1> QED BY <1>1, <1>3, <1>7, Zenon DEF Restored, Unmarked, Marked

LEMMA RestoredTwo ==
  ASSUME NEW T, NEW e \in T, NEW d \in T, NEW c \in T, NEW v \in T, v = Slash,
         d # Slash, e # Slash
  PROVE  Restored(<<v, e>>, d, c) = IF e = d THEN <<c>> ELSE <<v, e>>
<1>0. PICK s : s = <<v, e>>
  OBVIOUS
<1>1. s \in Seq(T) /\ s = <<v, e>> /\ Len(s) = 2 /\ s[1] = v /\ s[2] = e /\ s = <<v>> \o <<e>>
  BY <1>0, TwoOf
<1>2. DOMAIN s = 1 .. 2
  BY <1>1, LenProperties
<1>3. PICK p \in Seq(Seq(T)) : p = Unmarked(s, d, c) /\ UnmarkedOf(p, s, d, c)
  BY <1>1, UnmarkedIs
<1>4. ~Marked(s, d, 2) /\ (Marked(s, d, 1) <=> e = d)
  BY <1>1, <1>2 DEF Marked
<1>5. PICK a \in Seq(T), b \in Seq(T) : /\ a = (IF e = d THEN <<c>> ELSE <<v>>)
                                        /\ b = (IF e = d THEN <<>> ELSE <<e>>)
  <2>1. <<c>> \in Seq(T) /\ <<v>> \in Seq(T) /\ <<e>> \in Seq(T) /\ <<>> \in Seq(T)
    BY OneOf, EmptySeq
  <2> QED BY <2>1
<1>6. Len(p) = 2 /\ p[1] = a /\ p[2] = b
  <2>1. Len(p) = 2
    BY <1>1, <1>3 DEF UnmarkedOf
  <2>2. \A i \in 1 .. 2 : p[i] = IF Marked(s, d, i) THEN <<c>>
                                 ELSE IF i > 1 /\ Marked(s, d, i - 1) THEN <<>> ELSE <<s[i]>>
    BY <1>1, <1>3 DEF UnmarkedOf
  <2>3. /\ p[1] = IF Marked(s, d, 1) THEN <<c>> ELSE <<s[1]>>
        /\ p[2] = IF Marked(s, d, 2) THEN <<c>> ELSE IF Marked(s, d, 1) THEN <<>> ELSE <<s[2]>>
    <3>1. 1 \in 1 .. 2 /\ 2 \in 1 .. 2 /\ ~(1 > 1) /\ 2 > 1 /\ 2 - 1 = 1
      OBVIOUS
    <3> QED BY <2>2, <3>1
  <2>4. p[1] = a
    BY <1>1, <1>4, <1>5, <2>3, Zenon
  <2>5. p[2] = b
    BY <1>1, <1>4, <1>5, <2>3, Zenon
  <2> QED BY <2>1, <2>4, <2>5
<1>7. Restored(s, d, c) = FlattenSeq(p)
  BY <1>3, Zenon DEF Restored, Unmarked, Marked
<1>8. PICK h \in Seq(Seq(T)) : h = <<a>>
  BY OneOf
<1>9. p = Append(h, b)
  BY <1>6, <1>8
<1>10. FlattenSeq(p) = a \o b
  <2>1. FlattenSeq(h) = a
    BY <1>8, FlattenOne
  <2>2. FlattenSeq(p) = FlattenSeq(h) \o b
    BY <1>9, FlattenAppend
  <2> QED BY <2>1, <2>2
<1>11. a \o b = IF e = d THEN <<c>> ELSE <<v, e>>
  <2>1. CASE e = d
    <3>1. <<c>> \o <<>> = <<c>>
      BY OneOf, ConcatEmptySeq
    <3> QED BY <2>1, <3>1, <1>5
  <2>2. CASE e # d
    BY <2>2, <1>1, <1>5
  <2> QED BY <2>1, <2>2
<1> QED BY <1>1, <1>7, <1>10, <1>11

LEMMA ReplacedOne ==
  ASSUME NEW T, NEW x \in T, NEW c, NEW to \in Seq(T)
  PROVE  Replaced(<<x>>, c, to) = IF x = c THEN to ELSE <<x>>
<1>1. PICK s \in Seq(T) : s = <<x>> /\ Len(s) = 1 /\ s[1] = x
  BY OneOf
<1>2. PICK p \in Seq(Seq(T)) : p = Piece(s, c, to) /\ PieceOf(p, s, c, to)
  BY PieceIs
<1>3. PICK y \in Seq(T) : y = IF x = c THEN to ELSE <<x>>
  BY OneOf
<1>4. p = <<y>>
  BY <1>1, <1>2, <1>3 DEF PieceOf
<1>5. FlattenSeq(p) = y
  BY <1>4, FlattenOne
<1> QED BY <1>1, <1>2, <1>3, <1>5 DEF Replaced, Piece

LEMMA ReplacedTwo ==
  ASSUME NEW T, NEW x \in T, NEW y \in T, NEW c, NEW to \in Seq(T), x # c, y # c
  PROVE  Replaced(<<x, y>>, c, to) = <<x, y>>
<1>1. PICK s : s = <<x, y>>
  OBVIOUS
<1>2. PICK a \in Seq(T), b \in Seq(T) : a = <<x>> /\ b = <<y>>
  BY OneOf
<1>3. s = a \o b
  BY <1>1, <1>2, TwoOf
<1>4. ReplacesBoth(a, b, c, to)
  BY ReplacedConcat
<1>5. Replaced(a, c, to) = a /\ Replaced(b, c, to) = b
  BY <1>2, ReplacedOne
<1> QED BY <1>1, <1>3, <1>4, <1>5 DEF ReplacesBoth

-----------------------------------------------------------------------------
\* The characters of a text.  STRING holds all of them, but the provers do not know that.
Chars == STRING \cup {Slash, "0", "1", "2", "3", "{", "}", ","}
Other(x) == x \in Chars /\ x # Slash

LEMMA Others ==
  /\ Other("0") /\ Other("1") /\ Other("2") /\ Other("3")
  /\ Other("{") /\ Other("}") /\ Other(",")
<1>1. /\ "0" # Slash /\ "1" # Slash /\ "2" # Slash /\ "3" # Slash
      /\ "{" # Slash /\ "}" # Slash /\ "," # Slash
  BY DEF Slash
<1> QED BY <1>1 DEF Other, Chars

LEMMA SlashChar == Slash \in Chars
BY DEF Chars

Two(e) == <<Slash, e>>

LEMMA TwoIs ==
  ASSUME NEW e, Other(e)
  PROVE  Two(e) \in Seq(Chars) /\ Len(Two(e)) = 2 /\ Two(e)[2] = e
<1>1. e \in Chars
  BY DEF Other
<1>2. PICK s : s = <<Slash, e>>
  OBVIOUS
<1>3. s \in Seq(Chars) /\ Len(s) = 2 /\ s[2] = e
  BY <1>1, <1>2, SlashChar, TwoOf
<1> QED BY <1>2, <1>3 DEF Two

\* What escape() writes for a character, when those in A are escaped.
Digit(x) == IF x = Slash THEN "0" ELSE IF x = "{" THEN "1" ELSE IF x = "}" THEN "2" ELSE "3"
Code(x, A) == IF x \in A THEN Two(Digit(x)) ELSE <<x>>
Last1 == {Slash}
Last2 == {Slash, "{"}
Last3 == {Slash, "{", "}"}
Last4 == {Slash, "{", "}", ","}

LEMMA CodeIs ==
  ASSUME NEW x \in Chars, NEW A, Slash \in A
  PROVE  Code(x, A) \in Seq(Chars) /\ Code(x, A) # <<>> /\ NoSlashAtEnd(Code(x, A))
<1>1. Other(Digit(x))
  BY Others DEF Digit
<1>2. CASE x \in A
  <2>1. Code(x, A) = Two(Digit(x))
    BY <1>2 DEF Code
  <2>2. Two(Digit(x)) \in Seq(Chars) /\ Len(Two(Digit(x))) = 2 /\ Two(Digit(x))[2] = Digit(x)
    BY <1>1, TwoIs
  <2>3. Two(Digit(x)) # <<>> /\ Digit(x) # Slash
    BY <1>1, <2>2, EmptySeq DEF Other
  <2> QED BY <2>1, <2>2, <2>3 DEF NoSlashAtEnd
<1>3. CASE x \notin A
  <2>1. Code(x, A) = <<x>> /\ x # Slash
    BY <1>3 DEF Code
  <2>2. <<x>> \in Seq(Chars) /\ Len(<<x>>) = 1 /\ <<x>>[1] = x /\ <<x>> # <<>>
    BY OneOf
  <2> QED BY <2>1, <2>2 DEF NoSlashAtEnd
<1> QED BY <1>2, <1>3

\* How the two passes treat one character and one that is escaped.
LEMMA EscapeTwo ==
  ASSUME NEW e, Other(e), NEW c, c # Slash, c # e, NEW d, Other(d)
  PROVE  Replaced(Two(e), c, Two(d)) = Two(e)
<1>1. e \in Chars /\ Two(d) \in Seq(Chars)
  BY TwoIs DEF Other
<1>2. Replaced(<<Slash, e>>, c, Two(d)) = <<Slash, e>>
  BY <1>1, SlashChar, ReplacedTwo
<1> QED BY <1>2 DEF Two

LEMMA EscapeSame ==
  ASSUME NEW x \in Chars, NEW c, NEW d, Other(d)
  PROVE  Replaced(<<x>>, c, Two(d)) = IF x = c THEN Two(d) ELSE <<x>>
<1>1. Two(d) \in Seq(Chars)
  BY TwoIs
<1> QED BY <1>1, ReplacedOne

LEMMA RestoreTwo ==
  ASSUME NEW e, Other(e), NEW d, Other(d), NEW c \in Chars
  PROVE  Restored(Two(e), d, c) = IF e = d THEN <<c>> ELSE Two(e)
<1>1. PICK v \in Chars : v = Slash
  BY SlashChar
<1>2. e \in Chars /\ d \in Chars /\ d # Slash /\ e # Slash
  BY DEF Other
<1>3. Restored(<<v, e>>, d, c) = IF e = d THEN <<c>> ELSE <<v, e>>
  BY <1>1, <1>2, RestoredTwo
<1> QED BY <1>1, <1>3 DEF Two

LEMMA EscapeOne ==
  ASSUME NEW x \in Chars
  PROVE  Escape(<<x>>) = Code(x, Last4)
<1>1. Escape(<<x>>) = Replaced(Replaced(Replaced(Replaced(<<x>>, Slash, Two("0")), "{", Two("1")),
                                        "}", Two("2")), ",", Two("3"))
  BY DEF Escape, Two
<1>2. /\ "{" # Slash /\ "}" # Slash /\ "," # Slash
      /\ Other("0") /\ Other("1") /\ Other("2") /\ Other("3")
  BY Others DEF Other
<1>3. /\ Replaced(<<x>>, Slash, Two("0")) = IF x = Slash THEN Two("0") ELSE <<x>>
      /\ Replaced(<<x>>, "{", Two("1")) = IF x = "{" THEN Two("1") ELSE <<x>>
      /\ Replaced(<<x>>, "}", Two("2")) = IF x = "}" THEN Two("2") ELSE <<x>>
      /\ Replaced(<<x>>, ",", Two("3")) = IF x = "," THEN Two("3") ELSE <<x>>
  BY <1>2, EscapeSame
<1>4. /\ Replaced(Two("0"), "{", Two("1")) = Two("0")
      /\ Replaced(Two("0"), "}", Two("2")) = Two("0")
      /\ Replaced(Two("0"), ",", Two("3")) = Two("0")
      /\ Replaced(Two("1"), "}", Two("2")) = Two("1")
      /\ Replaced(Two("1"), ",", Two("3")) = Two("1")
      /\ Replaced(Two("2"), ",", Two("3")) = Two("2")
  BY <1>2, EscapeTwo
<1>5. Code(x, Last4) = IF x = Slash THEN Two("0") ELSE IF x = "{" THEN Two("1")
                       ELSE IF x = "}" THEN Two("2") ELSE IF x = "," THEN Two("3") ELSE <<x>>
  BY <1>2 DEF Code, Last4, Digit
<1> QED BY <1>1, <1>2, <1>3, <1>4, <1>5

LEMMA RestoredCode ==
  ASSUME NEW x \in Chars
  PROVE  /\ Restored(Code(x, Last4), "3", ",") = Code(x, Last3)
         /\ Restored(Code(x, Last3), "2", "}") = Code(x, Last2)
         /\ Restored(Code(x, Last2), "1", "{") = Code(x, Last1)
         /\ Restored(Code(x, Last1), "0", Slash) = <<x>>
<1>1. /\ "{" # Slash /\ "}" # Slash /\ "," # Slash
      /\ "{" \in Chars /\ "}" \in Chars /\ "," \in Chars /\ Slash \in Chars
      /\ Other("0") /\ Other("1") /\ Other("2") /\ Other("3")
  BY Others, SlashChar DEF Other
<1>2. /\ Restored(<<x>>, "3", ",") = <<x>> /\ Restored(<<x>>, "2", "}") = <<x>>
      /\ Restored(<<x>>, "1", "{") = <<x>> /\ Restored(<<x>>, "0", Slash) = <<x>>
  BY <1>1, RestoredOne
<1>3. /\ Restored(Two("3"), "3", ",") = <<",">> /\ Restored(Two("2"), "3", ",") = Two("2")
      /\ Restored(Two("1"), "3", ",") = Two("1") /\ Restored(Two("0"), "3", ",") = Two("0")
  BY <1>1, RestoreTwo
<1>4. /\ Restored(Two("2"), "2", "}") = <<"}">> /\ Restored(Two("1"), "2", "}") = Two("1")
      /\ Restored(Two("0"), "2", "}") = Two("0")
  BY <1>1, RestoreTwo
<1>5. /\ Restored(Two("1"), "1", "{") = <<"{">> /\ Restored(Two("0"), "1", "{") = Two("0")
      /\ Restored(Two("0"), "0", Slash) = <<Slash>>
  BY <1>1, RestoreTwo
<1>6. /\ Code(x, Last1) = IF x = Slash THEN Two("0") ELSE <<x>>
      /\ Code(x, Last2) = IF x = Slash THEN Two("0") ELSE IF x = "{" THEN Two("1") ELSE <<x>>
      /\ Code(x, Last3) = IF x = Slash THEN Two("0") ELSE IF x = "{" THEN Two("1")
                          ELSE IF x = "}" THEN Two("2") ELSE <<x>>
      /\ Code(x, Last4) = IF x = Slash THEN Two("0") ELSE IF x = "{" THEN Two("1")
                          ELSE IF x = "}" THEN Two("2") ELSE IF x = "," THEN Two("3") ELSE <<x>>
  BY <1>1 DEF Code, Last1, Last2, Last3, Last4, Digit
<1>7. CASE x = Slash
  BY <1>1, <1>3, <1>4, <1>5, <1>6, <1>7
<1>8. CASE x = "{"
  BY <1>1, <1>2, <1>3, <1>4, <1>5, <1>6, <1>8
<1>9. CASE x = "}"
  BY <1>1, <1>2, <1>3, <1>4, <1>6, <1>9
<1>10. CASE x = ","
  BY <1>1, <1>2, <1>3, <1>6, <1>10
<1>11. CASE x \notin Last4
  BY <1>2, <1>6, <1>11 DEF Last4
<1> QED BY <1>7, <1>8, <1>9, <1>10, <1>11 DEF Last4

\* escape() treats the parts of a text one by one.
Escapes(s, v) == Escape(s \o v) = Escape(s) \o Escape(v)

LEMMA EscapeConcat ==
  ASSUME NEW s \in Seq(Chars), NEW v \in Seq(Chars)
  PROVE  Escapes(s, v) /\ Escape(s) \in Seq(Chars)
<1>1. /\ Two("0") \in Seq(Chars) /\ Two("1") \in Seq(Chars)
      /\ Two("2") \in Seq(Chars) /\ Two("3") \in Seq(Chars)
  BY Others, TwoIs
<1>2. \A a, b \in Seq(Chars) : \A c : \A to \in Seq(Chars) :
         ReplacesBoth(a, b, c, to) /\ Replaced(a, c, to) \in Seq(Chars)
  BY ReplacedConcat
<1>3. PICK s0 \in Seq(Chars), t0 \in Seq(Chars) :
         /\ s0 = Replaced(s, Slash, Two("0")) /\ t0 = Replaced(v, Slash, Two("0"))
         /\ ReplacesBoth(s, v, Slash, Two("0"))
  BY <1>1, <1>2
<1>4. PICK s1 \in Seq(Chars), t1 \in Seq(Chars) :
         /\ s1 = Replaced(s0, "{", Two("1")) /\ t1 = Replaced(t0, "{", Two("1"))
         /\ ReplacesBoth(s0, t0, "{", Two("1"))
  BY <1>1, <1>2
<1>5. PICK s2 \in Seq(Chars), t2 \in Seq(Chars) :
         /\ s2 = Replaced(s1, "}", Two("2")) /\ t2 = Replaced(t1, "}", Two("2"))
         /\ ReplacesBoth(s1, t1, "}", Two("2"))
  BY <1>1, <1>2
<1>6. PICK s3 \in Seq(Chars), t3 \in Seq(Chars) :
         /\ s3 = Replaced(s2, ",", Two("3")) /\ t3 = Replaced(t2, ",", Two("3"))
         /\ ReplacesBoth(s2, t2, ",", Two("3"))
  BY <1>1, <1>2
<1>7. /\ Escape(s) = s3 /\ Escape(v) = t3 /\ Escape(s \o v) = s3 \o t3
  BY <1>3, <1>4, <1>5, <1>6 DEF Escape, Two, ReplacesBoth
<1> QED BY <1>7 DEF Escapes

Restores(s, v, d, c) == Restored(s \o v, d, c) = Restored(s, d, c) \o Restored(v, d, c)

\* A text that one more character is added to, escaped.
LEMMA RestoredNext ==
  ASSUME NEW s \in Seq(Chars), NoSlashAtEnd(s), NEW v \in Seq(Chars), NEW d, NEW c \in Chars
  PROVE  Restores(s, v, d, c) /\ Restored(s, d, c) \in Seq(Chars)
BY RestoredConcat DEF Restores

LEMMA SlashNext ==
  ASSUME NEW s \in Seq(Chars), NEW v \in Seq(Chars), v # <<>>, NoSlashAtEnd(v)
  PROVE  NoSlashAtEnd(s \o v)
<1>1. PICK n \in Nat, q \in Nat : n = Len(s) /\ q = Len(v)
  BY LenProperties
<1>2. q # 0 /\ v[q] # Slash
  BY <1>1, EmptySeq DEF NoSlashAtEnd
<1>3. PICK u \in Seq(Chars) : u = s \o v
  BY ConcatProperties
<1>4. Len(u) = n + q /\ \A i \in 1 .. n + q : u[i] = IF i <= n THEN s[i] ELSE v[i - n]
  BY <1>1, <1>3, ConcatProperties
<1>5. n + q \in 1 .. n + q /\ ~(n + q <= n) /\ n + q - n = q
  BY <1>2
<1>6. u[n + q] # Slash
  BY <1>2, <1>4, <1>5
<1> QED BY <1>3, <1>4, <1>6 DEF NoSlashAtEnd

\* The passes of unescape() one after the other.
Unescaped(s, u) ==
    /\ \E s3, s2, s1 \in Seq(Chars) :
          /\ u \in Seq(Chars) /\ u = Escape(s) /\ NoSlashAtEnd(u)
          /\ s3 = Restored(u, "3", ",") /\ NoSlashAtEnd(s3)
          /\ s2 = Restored(s3, "2", "}") /\ NoSlashAtEnd(s2)
          /\ s1 = Restored(s2, "1", "{") /\ NoSlashAtEnd(s1)
          /\ Restored(s1, "0", Slash) = s

LEMMA RestoredEmpty == \A d, c : Restored(<<>>, d, c) = <<>>
<1> SUFFICES ASSUME NEW d, NEW c PROVE Restored(<<>>, d, c) = <<>>
  OBVIOUS
<1>1. PICK p : p = Unmarked(<<>>, d, c)
  OBVIOUS
<1>2. p = <<>>
  BY <1>1 DEF Unmarked
<1> QED BY <1>1, <1>2, FlattenEmpty, Zenon DEF Restored, Unmarked, Marked

LEMMA ReplacedEmpty == \A c, to : Replaced(<<>>, c, to) = <<>>
<1> SUFFICES ASSUME NEW c, NEW to PROVE Replaced(<<>>, c, to) = <<>>
  OBVIOUS
<1>1. PICK p : p = Piece(<<>>, c, to)
  OBVIOUS
<1>2. p = <<>>
  BY <1>1 DEF Piece
<1> QED BY <1>1, <1>2, FlattenEmpty, Zenon DEF Replaced, Piece

LEMMA UnescapedNext ==
  ASSUME NEW s \in Seq(Chars), Unescaped(s, Escape(s)), NEW x \in Chars
  PROVE  Unescaped(Append(s, x), Escape(Append(s, x)))
<1>1. PICK u \in Seq(Chars), s3 \in Seq(Chars), s2 \in Seq(Chars), s1 \in Seq(Chars) :
         /\ u = Escape(s) /\ NoSlashAtEnd(u)
         /\ s3 = Restored(u, "3", ",") /\ NoSlashAtEnd(s3)
         /\ s2 = Restored(s3, "2", "}") /\ NoSlashAtEnd(s2)
         /\ s1 = Restored(s2, "1", "{") /\ NoSlashAtEnd(s1)
         /\ Restored(s1, "0", Slash) = s
  BY DEF Unescaped
<1>2. PICK x4 \in Seq(Chars), x3 \in Seq(Chars), x2 \in Seq(Chars), x1 \in Seq(Chars) :
         /\ x4 = Code(x, Last4) /\ x4 # <<>> /\ NoSlashAtEnd(x4)
         /\ x3 = Code(x, Last3) /\ x3 # <<>> /\ NoSlashAtEnd(x3)
         /\ x2 = Code(x, Last2) /\ x2 # <<>> /\ NoSlashAtEnd(x2)
         /\ x1 = Code(x, Last1) /\ x1 # <<>> /\ NoSlashAtEnd(x1)
  <2>1. Slash \in Last4 /\ Slash \in Last3 /\ Slash \in Last2 /\ Slash \in Last1
    BY DEF Last4, Last3, Last2, Last1
  <2> QED BY <2>1, CodeIs
<1>3. PICK v \in Seq(Chars), t3 \in Seq(Chars), t2 \in Seq(Chars), t1 \in Seq(Chars) :
         v = u \o x4 /\ t3 = s3 \o x3 /\ t2 = s2 \o x2 /\ t1 = s1 \o x1
  BY ConcatProperties
<1>4. NoSlashAtEnd(v) /\ NoSlashAtEnd(t3) /\ NoSlashAtEnd(t2) /\ NoSlashAtEnd(t1)
  BY <1>2, <1>3, SlashNext
<1>5. Escape(Append(s, x)) = v
  <2>1. PICK h \in Seq(Chars) : h = <<x>>
    BY OneOf
  <2>2. Escapes(s, h)
    BY EscapeConcat
  <2>3. Escape(h) = x4
    BY <1>2, <2>1, EscapeOne
  <2>4. Append(s, x) = s \o h
    BY <2>1, AppendIsConcat
  <2> QED BY <1>1, <1>3, <2>2, <2>3, <2>4 DEF Escapes
<1>6. /\ "," \in Chars /\ "}" \in Chars /\ "{" \in Chars /\ Slash \in Chars
  BY Others, SlashChar DEF Other
<1>7. /\ Restored(x4, "3", ",") = x3 /\ Restored(x3, "2", "}") = x2
      /\ Restored(x2, "1", "{") = x1 /\ Restored(x1, "0", Slash) = <<x>>
  BY <1>2, RestoredCode
<1>8. /\ Restores(u, x4, "3", ",") /\ Restores(s3, x3, "2", "}")
      /\ Restores(s2, x2, "1", "{") /\ Restores(s1, x1, "0", Slash)
  BY <1>1, <1>6, RestoredNext
<1>9. t3 = Restored(v, "3", ",")
  BY <1>1, <1>3, <1>7, <1>8 DEF Restores
<1>10. t2 = Restored(t3, "2", "}")
  BY <1>1, <1>3, <1>7, <1>8 DEF Restores
<1>11. t1 = Restored(t2, "1", "{")
  BY <1>1, <1>3, <1>7, <1>8 DEF Restores
<1>12. Restored(t1, "0", Slash) = Append(s, x)
  <2>1. Restored(t1, "0", Slash) = s \o <<x>>
    BY <1>1, <1>3, <1>7, <1>8 DEF Restores
  <2> QED BY <2>1, AppendIsConcat
<1> QED BY <1>4, <1>5, <1>9, <1>10, <1>11, <1>12 DEF Unescaped

\* unescape() undoes escape().
LEMMA EscapeReversed ==
  ASSUME NEW s \in Seq(Chars)
  PROVE  Unescape(Escape(s)) = s
<1> DEFINE G == {u \in Seq(Chars) : Unescaped(u, Escape(u))}
<1>1. <<>> \in G
  <2>1. Escape(<<>>) = <<>> /\ NoSlashAtEnd(<<>>) /\ <<>> \in Seq(Chars)
    BY ReplacedEmpty, EmptySeq DEF Escape, NoSlashAtEnd
  <2> QED BY <2>1, RestoredEmpty DEF Unescaped
<1>2. \A u \in Seq(Chars), x \in Chars : u \in G => Append(u, x) \in G
  BY UnescapedNext, AppendProperties
<1> HIDE DEF G
<1>3. Seq(Chars) \subseteq G
  BY <1>1, <1>2, SeqSet
<1>4. Unescaped(s, Escape(s))
  BY <1>3 DEF G
<1> QED BY <1>4 DEF Unescaped, Unescape

-----------------------------------------------------------------------------
\* How often a character stands in a text.
Count(u, c) == Len(Only(u, {c}))
Adds(u, v, c) == Count(u \o v, c) = Count(u, c) + Count(v, c)

LEMMA CountIs ==
  ASSUME NEW T, NEW u \in Seq(T), NEW v \in Seq(T), NEW c
  PROVE  Count(u, c) \in Nat /\ Adds(u, v, c)
<1>1. PICK a \in Seq(T), b \in Seq(T) : a = Only(u, {c}) /\ b = Only(v, {c})
  BY OnlySeq
<1>2. Only(u \o v, {c}) = a \o b
  <2>1. \A S : Only(u \o v, S) = Only(u, S) \o Only(v, S)
    BY OnlyConcat
  <2> QED BY <1>1, <2>1
<1>3. Len(a) \in Nat /\ Len(a \o b) = Len(a) + Len(b)
  BY ConcatProperties, LenProperties
<1>4. Count(u, c) = Len(a) /\ Count(v, c) = Len(b)
  BY <1>1 DEF Count
<1>5. Count(u \o v, c) = Len(a \o b)
  BY <1>2 DEF Count
<1> QED BY <1>3, <1>4, <1>5 DEF Adds

LEMMA CountOne ==
  ASSUME NEW T, NEW x \in T, NEW c
  PROVE  Count(<<x>>, c) = IF x = c THEN 1 ELSE 0
<1>1. PICK v \in Seq(T) : v = <<>>
  BY EmptySeq
<1>2. Append(v, x) = <<x>>
  BY <1>1
<1>3. Only(<<x>>, {c}) = IF x \in {c} THEN Append(Only(v, {c}), x) ELSE Only(v, {c})
  <2>1. Only(Append(v, x), {c}) = IF x \in {c} THEN Append(Only(v, {c}), x) ELSE Only(v, {c})
    BY OnlyAppend, Zenon
  <2> QED BY <1>2, <2>1
<1>4. Only(v, {c}) = <<>>
  BY <1>1, OnlyEmpty
<1>5. CASE x = c
  BY <1>1, <1>2, <1>3, <1>4, <1>5, OneOf DEF Count
<1>6. CASE x # c
  BY <1>3, <1>4, <1>6, EmptySeq DEF Count
<1> QED BY <1>5, <1>6

Opens(u) == Count(u, "{")
Closes(u) == Count(u, "}")

LEMMA NoneCounted ==
  ASSUME NEW T, NEW u \in Seq(T), NEW c, \A i \in 1 .. Len(u) : u[i] # c
  PROVE  Count(u, c) = 0
<1>1. \A i \in 1 .. Len(u) : u[i] \notin {c}
  OBVIOUS
<1>2. Only(u, {c}) = <<>>
  BY <1>1, OnlyNothing
<1> QED BY <1>2, EmptySeq DEF Count

\* Braces that a text opens are closed in it, and none before it is opened.
Balanced(u) ==
    /\ Opens(u) = Closes(u)
    /\ \A k \in 0 .. Len(u) : Closes(SubSeq(u, 1, k)) <= Opens(SubSeq(u, 1, k))
NoBraces(u) == \A i \in 1 .. Len(u) : u[i] # "{" /\ u[i] # "}"

LEMMA PlainBalanced == ASSUME NEW u \in Seq(Chars), NoBraces(u) PROVE Balanced(u)
<1>1. Opens(u) = 0 /\ Closes(u) = 0
  BY NoneCounted DEF Opens, Closes, NoBraces
<1>2. ASSUME NEW k \in 0 .. Len(u)
      PROVE  Closes(SubSeq(u, 1, k)) <= Opens(SubSeq(u, 1, k))
  <2>1. k \in Nat /\ k <= Len(u)
    BY LenProperties
  <2>2. PICK v \in Seq(Chars) : v = SubSeq(u, 1, k) /\ Beginning(v, u, k)
    BY <2>1, BeginningIs
  <2>3. \A i \in 1 .. Len(v) : v[i] # "{" /\ v[i] # "}"
    <3>1. \A i \in 1 .. k : i \in 1 .. Len(u)
      BY <2>1, LenProperties
    <3> QED BY <2>2, <3>1 DEF NoBraces, Beginning
  <2>4. Opens(v) = 0 /\ Closes(v) = 0
    BY <2>3, NoneCounted DEF Opens, Closes
  <2> QED BY <2>2, <2>4
<1> QED BY <1>1, <1>2 DEF Balanced

LEMMA BalancedConcat ==
  ASSUME NEW u \in Seq(Chars), NEW v \in Seq(Chars), Balanced(u), Balanced(v)
  PROVE  Balanced(u \o v)
<1>1. PICK n \in Nat, d \in Nat : n = Len(u) /\ d = Len(v)
  BY LenProperties
<1>2. PICK w \in Seq(Chars) : w = u \o v /\ Len(w) = n + d
  BY <1>1, ConcatProperties
<1>3. \A a, b \in Seq(Chars) :
         /\ Opens(a) \in Nat /\ Closes(a) \in Nat
         /\ Opens(a \o b) = Opens(a) + Opens(b) /\ Closes(a \o b) = Closes(a) + Closes(b)
  BY CountIs DEF Opens, Closes, Adds
<1>4. Opens(w) = Closes(w)
  BY <1>2, <1>3 DEF Balanced
<1>5. ASSUME NEW k \in 0 .. n + d PROVE Closes(SubSeq(w, 1, k)) <= Opens(SubSeq(w, 1, k))
  <2>1. CASE k <= n
    <3>1. SubSeq(w, 1, k) = SubSeq(u, 1, k) /\ k \in 0 .. Len(u)
      BY <2>1, <1>1, <1>2, BeginningOf
    <3> QED BY <3>1 DEF Balanced
  <2>2. CASE ~(k <= n)
    <3>1. PICK j \in 0 .. d : k = n + j
      <4>1. k - n \in 0 .. d /\ k = n + (k - n)
        BY <2>2
      <4> QED BY <4>1
    <3>2. SubSeq(w, 1, k) = u \o SubSeq(v, 1, j)
      <4>1. k \in Nat /\ j \in Nat /\ k = Len(u) + j /\ j <= Len(v)
        BY <3>1, <1>1
      <4> QED BY <4>1, <1>2, BeginningOf
    <3>3. PICK x \in Seq(Chars) : x = SubSeq(v, 1, j)
      <4>1. j \in Nat /\ j <= Len(v)
        BY <3>1, <1>1
      <4> QED BY <4>1, UpTo
    <3>4. Closes(x) <= Opens(x)
      BY <3>3, <1>1 DEF Balanced
    <3>5. /\ Opens(u \o x) = Opens(u) + Opens(x) /\ Closes(u \o x) = Closes(u) + Closes(x)
          /\ Opens(u) = Closes(u) /\ Opens(u) \in Nat /\ Opens(x) \in Nat /\ Closes(x) \in Nat
      BY <1>3 DEF Balanced
    <3>6. PICK o \in Nat, p \in Nat, q \in Nat :
             o = Opens(u) /\ p = Opens(x) /\ q = Closes(x) /\ q <= p
      BY <3>4, <3>5
    <3>7. Opens(u \o x) = o + p /\ Closes(u \o x) = o + q
      BY <3>5, <3>6
    <3>8. o + q <= o + p
      BY <3>6
    <3> QED BY <3>2, <3>3, <3>7, <3>8
  <2> QED BY <2>1, <2>2
<1> QED BY <1>2, <1>4, <1>5 DEF Balanced

\* A text in braces, taken apart.
InBraces(w, b, n, o, q, c) ==
    /\ o = <<"{">> /\ c = <<"}">> /\ q = b \o c /\ w = o \o q
    /\ Len(b) = n /\ Len(o) = 1 /\ Len(c) = 1 /\ Len(q) = n + 1 /\ Len(w) = n + 2

LEMMA BracesAre ==
  ASSUME NEW b \in Seq(Chars), NEW w, w = Braces(b)
  PROVE  w \in Seq(Chars) /\ \E n \in Nat, o, q, c \in Seq(Chars) : InBraces(w, b, n, o, q, c)
<1>0. PICK n \in Nat : n = Len(b)
  BY LenProperties
<1>1. "{" \in Chars /\ "}" \in Chars
  BY Others DEF Other
<1>2. PICK o \in Seq(Chars), c \in Seq(Chars) :
         o = <<"{">> /\ c = <<"}">> /\ Len(o) = 1 /\ Len(c) = 1
  BY <1>1, OneOf
<1>3. PICK q \in Seq(Chars) : q = b \o c
  BY ConcatProperties
<1>4. Len(q) = n + 1
  <2>1. Len(q) = Len(b) + Len(c)
    BY <1>3, ConcatProperties
  <2> QED BY <2>1, <1>0, <1>2
<1>5. Regroup(o, b, c)
  BY Regrouped
<1>6. w = o \o q
  BY <1>2, <1>3, <1>5 DEF Regroup, Braces
<1>7. w \in Seq(Chars) /\ Len(w) = Len(o) + Len(q)
  BY <1>6, ConcatProperties
<1>8. Len(w) = n + 2
  <2>1. Len(w) = 1 + (n + 1) /\ n \in Nat
    BY <1>2, <1>4, <1>7
  <2> QED BY <2>1
<1>9. InBraces(w, b, n, o, q, c)
  BY <1>0, <1>2, <1>3, <1>4, <1>6, <1>8 DEF InBraces
<1> QED BY <1>7, <1>9

\* How many braces a text has.
Tally(u, o, c) == Opens(u) = o /\ Closes(u) = c
SumOf(x, o, p) == x = o + p

LEMMA TallyIs == ASSUME NEW u \in Seq(Chars) PROVE \E o, c \in Nat : Tally(u, o, c)
BY CountIs DEF Tally, Opens, Closes

LEMMA TallyConcat ==
  ASSUME NEW u \in Seq(Chars), NEW v \in Seq(Chars), NEW o, NEW c, NEW p, NEW q,
         Tally(u, o, c), Tally(v, p, q), NEW x, SumOf(x, o, p), NEW y, SumOf(y, c, q)
  PROVE  Tally(u \o v, x, y)
BY CountIs DEF Tally, Opens, Closes, Adds, SumOf

\* A brace is closed where its object ends, and not before.
Enclosed(w) ==
    /\ Opens(w) = Closes(w)
    /\ \A k \in 1 .. Len(w) : k # Len(w) => Opens(SubSeq(w, 1, k)) # Closes(SubSeq(w, 1, k))

LEMMA BracesEnclose ==
  ASSUME NEW b \in Seq(Chars), Balanced(b), NEW w, w = Braces(b)
  PROVE  Enclosed(w) /\ Balanced(w)
<1>1. w \in Seq(Chars)
  BY BracesAre
<1>2. PICK n \in Nat, o \in Seq(Chars), d \in Seq(Chars), c \in Seq(Chars) :
         InBraces(w, b, n, o, d, c)
  BY BracesAre
<1>3. Tally(o, 1, 0) /\ Tally(c, 0, 1)
  <2>1. "{" \in Chars /\ "}" \in Chars /\ "{" # "}"
    BY Others DEF Other
  <2> QED BY <1>2, <2>1, CountOne DEF Opens, Closes, Tally, InBraces
<1>4. Opens(w) = Closes(w) /\ Opens(w) \in Nat
  <2>1. PICK i \in Nat : Tally(b, i, i)
    BY TallyIs DEF Tally, Balanced
  <2>2. PICK k \in Nat : k = i + 1
    OBVIOUS
  <2>3. SumOf(i, i, 0) /\ SumOf(k, i, 1) /\ SumOf(k, 1, i) /\ SumOf(k, 0, k)
    BY <2>2 DEF SumOf
  <2>4. Tally(b \o c, i, k)
    BY <2>1, <2>3, <1>3, TallyConcat
  <2>5. Tally(d, i, k)
    BY <2>4, <1>2 DEF InBraces
  <2>6. Tally(o \o d, k, k)
    BY <2>3, <2>5, <1>3, TallyConcat
  <2> QED BY <2>6, <1>2 DEF Tally, InBraces
<1>5. ASSUME NEW k \in 1 .. n + 1
      PROVE  /\ Closes(SubSeq(w, 1, k)) <= Opens(SubSeq(w, 1, k))
             /\ Closes(SubSeq(w, 1, k)) # Opens(SubSeq(w, 1, k))
  <2>1. PICK j \in 0 .. n : k = 1 + j
    <3>1. k - 1 \in 0 .. n /\ k = 1 + (k - 1)
      OBVIOUS
    <3> QED BY <3>1
  <2>2. k \in Nat /\ j \in Nat /\ k = Len(o) + j /\ j <= Len(d) /\ j <= Len(b)
    <3>1. k \in Nat /\ j \in Nat /\ k = 1 + j /\ j <= n + 1 /\ j <= n
      BY <2>1
    <3> QED BY <3>1, <1>2 DEF InBraces
  <2>3. SubSeq(w, 1, k) = o \o SubSeq(d, 1, j) /\ SubSeq(d, 1, j) = SubSeq(b, 1, j)
    <3>1. SubSeq(o \o d, 1, k) = o \o SubSeq(d, 1, j)
      BY <2>2, BeginningOf
    <3>2. SubSeq(b \o c, 1, j) = SubSeq(b, 1, j)
      BY <2>2, BeginningOf
    <3> QED BY <3>1, <3>2, <1>2 DEF InBraces
  <2>4. PICK x \in Seq(Chars) : x = SubSeq(b, 1, j)
    BY <2>2, BeginningIs
  <2>5. PICK p \in Nat, q \in Nat : Tally(x, p, q) /\ q <= p
    <3>1. PICK p \in Nat, q \in Nat : Tally(x, p, q)
      BY TallyIs
    <3>2. Closes(x) <= Opens(x)
      BY <2>1, <2>4, <1>2 DEF Balanced, InBraces
    <3> QED BY <3>1, <3>2 DEF Tally
  <2>6. PICK r \in Nat : r = 1 + p /\ SumOf(r, 1, p) /\ SumOf(q, 0, q)
    BY DEF SumOf
  <2>7. Tally(o \o x, r, q)
    BY <2>5, <2>6, <1>3, TallyConcat
  <2>8. q <= r /\ q # r
    BY <2>5, <2>6
  <2> QED BY <2>3, <2>4, <2>7, <2>8 DEF Tally
<1>6. \A k \in 1 .. n + 2 : k # n + 2 => k \in 1 .. n + 1
  OBVIOUS
<1>7. Enclosed(w)
  BY <1>2, <1>4, <1>5, <1>6 DEF Enclosed, InBraces
<1>8. Balanced(w)
  <2>1. Closes(SubSeq(w, 1, 0)) <= Opens(SubSeq(w, 1, 0))
    <3>1. 0 \in Nat /\ 0 <= Len(w)
      BY <1>1, LenProperties
    <3>2. PICK x \in Seq(Chars) : x = SubSeq(w, 1, 0) /\ Beginning(x, w, 0)
      BY <1>1, <3>1, BeginningIs
    <3>3. \A i \in 1 .. Len(x) : FALSE
      BY <3>2 DEF Beginning
    <3>4. Opens(x) = 0 /\ Closes(x) = 0
      BY <3>3, NoneCounted DEF Opens, Closes
    <3> QED BY <3>2, <3>4
  <2>2. Closes(SubSeq(w, 1, Len(w))) <= Opens(SubSeq(w, 1, Len(w)))
    <3>1. PICK x : x = SubSeq(w, 1, Len(w))
      OBVIOUS
    <3>2. x = w
      BY <1>1, <3>1, SubSeqFull
    <3>3. Closes(x) <= Opens(x)
      BY <1>4, <3>2
    <3> QED BY <3>1, <3>3
  <2>3. \A k \in 0 .. n + 2 : k = 0 \/ k = n + 2 \/ k \in 1 .. n + 1
    OBVIOUS
  <2>4. \A k \in 0 .. n + 2 : Closes(SubSeq(w, 1, k)) <= Opens(SubSeq(w, 1, k))
    BY <1>2, <1>5, <2>1, <2>2, <2>3 DEF InBraces
  <2> QED BY <1>2, <1>4, <2>4 DEF Balanced, InBraces
<1> QED BY <1>7, <1>8

LEMMA ClosingIs ==
  ASSUME NEW s \in Seq(Chars), NEW w \in Seq(Chars), NEW n \in Nat, Stands(s, w, n),
         Enclosed(w), w # <<>>
  PROVE  Closing(s, n + 1) = n + Len(w)
<1>1. PICK l \in Nat, q \in Nat \ {0} : l = Len(s) /\ q = Len(w) /\ n + q <= l
  BY LenProperties, EmptySeq DEF Stands
<1>2. PICK a \in Nat : a = n + 1
  OBVIOUS
<1> DEFINE closes == {j \in a .. l : Count(SubSeq(s, a, j), "{") = Count(SubSeq(s, a, j), "}")}
<1>3. ASSUME NEW k \in 1 .. q PROVE SubSeq(s, a, n + k) = SubSeq(w, 1, k)
  <2> HIDE DEF closes
  <2>1. k \in Nat /\ k <= Len(w)
    BY <1>1
  <2>2. SubSeq(s, n + 1, n + k) = SubSeq(w, 1, k)
    BY <2>1, StandsPart
  <2> QED BY <2>2, <1>2
<1>4. n + q \in closes
  <2>1. SubSeq(s, a, n + q) = w
    <3>1. SubSeq(w, 1, q) = w
      BY <1>1, SubSeqFull
    <3>2. q \in 1 .. q
      BY <1>1
    <3> QED BY <3>1, <3>2, <1>3
  <2>2. n + q \in a .. l
    BY <1>1, <1>2
  <2> QED BY <2>1, <2>2 DEF Enclosed, Opens, Closes
<1>5. ASSUME NEW j \in closes PROVE n + q <= j
  <2> SUFFICES ASSUME ~(n + q <= j) PROVE FALSE
    OBVIOUS
  <2>0. j \in a .. l /\ Count(SubSeq(s, a, j), "{") = Count(SubSeq(s, a, j), "}")
    OBVIOUS
  <2> HIDE DEF closes
  <2>1. PICK k \in 1 .. q : j = n + k /\ k # q
    <3>1. j \in a .. l /\ ~(n + q <= j)
      BY <2>0
    <3>2. j - n \in 1 .. q /\ j = n + (j - n) /\ j - n # q
      BY <3>1, <1>1, <1>2
    <3> QED BY <3>2
  <2>2. Count(SubSeq(w, 1, k), "{") = Count(SubSeq(w, 1, k), "}")
    BY <2>0, <2>1, <1>3
  <2> QED BY <2>1, <2>2, <1>1 DEF Enclosed, Opens, Closes
<1>6. Closing(s, a) = IF closes = {} THEN l + 1
                      ELSE CHOOSE j \in closes : \A k \in closes : j <= k
  BY <1>1 DEF Closing, Count
<1>7. \A j \in closes : j \in Int
  <2>1. \A j \in a .. l : j \in Int
    BY <1>1, <1>2
  <2> QED BY <2>1, Zenon
<1> HIDE DEF closes
<1>8. (CHOOSE j \in closes : \A k \in closes : j <= k) = n + q
  <2>1. PICK j \in closes : /\ j = CHOOSE i \in closes : \A k \in closes : i <= k
                            /\ \A k \in closes : j <= k
    BY <1>4, <1>5
  <2>2. j <= n + q /\ n + q <= j
    BY <1>4, <1>5, <2>1
  <2> QED BY <1>7, <2>1, <2>2
<1> QED BY <1>1, <1>2, <1>4, <1>6, <1>8

-----------------------------------------------------------------------------
\* getobject() from a position on, as Objects has it.
NextObjects(s, f, i) == IF i > Len(s) \/ s[i] # "{" THEN <<>>
                 ELSE <<SubSeq(s, i + 1, Closing(s, i) - 1)>> \o f[Closing(s, i) + 1]
ReadFrom(s, f, a) == f = [i \in a .. Len(s) + 2 |-> NextObjects(s, f, i)]

LEMMA ClosingRange ==
  ASSUME NEW s, Len(s) \in Nat, NEW i \in 1 .. Len(s)
  PROVE  Closing(s, i) + 1 \in i + 1 .. Len(s) + 2
<1>1. PICK l \in Nat : l = Len(s)
  OBVIOUS
<1> DEFINE closes == {j \in i .. l : Count(SubSeq(s, i, j), "{") = Count(SubSeq(s, i, j), "}")}
<1>2. Closing(s, i) = IF closes = {} THEN l + 1
                      ELSE CHOOSE j \in closes : \A k \in closes : j <= k
  BY <1>1 DEF Closing, Count
<1>3. \A j \in closes : j \in i .. l
  OBVIOUS
<1> HIDE DEF closes
<1>4. CASE closes = {}
  BY <1>1, <1>2, <1>4
<1>5. CASE closes # {}
  <2>1. closes \subseteq Nat
    BY <1>1, <1>3
  <2>2. \E x \in closes : \A y \in closes : x <= y
    BY <1>5, <2>1, LeastOf
  <2>3. Closing(s, i) \in closes
    BY <1>2, <1>5, <2>2
  <2> QED BY <1>1, <1>3, <2>3
<1> QED BY <1>4, <1>5

LEMMA ReadFromExists ==
  ASSUME NEW s, NEW l \in Nat, l = Len(s) PROVE \E f : ReadFrom(s, f, 1)
<1> DEFINE G == {k \in Nat : k <= l + 1 => \E f : ReadFrom(s, f, (l + 2) - k)}
<1>1. 0 \in G
  <2> DEFINE f == [i \in l + 2 .. l + 2 |-> <<>>]
  <2>1. \A i \in l + 2 .. l + 2 : i > Len(s)
    OBVIOUS
  <2>2. ReadFrom(s, f, l + 2)
    BY <2>1 DEF ReadFrom, NextObjects
  <2> QED BY <2>2
<1>2. ASSUME NEW k \in G PROVE k + 1 \in G
  <2> SUFFICES ASSUME k + 1 <= l + 1 PROVE \E f : ReadFrom(s, f, (l + 2) - (k + 1))
    OBVIOUS
  <2>1. PICK a \in Nat, b \in Nat :
           a = (l + 2) - k /\ b = (l + 2) - (k + 1) /\ a = b + 1 /\ b \in 1 .. l + 1
    <3>1. k \in Nat
      OBVIOUS
    <3> HIDE DEF G
    <3>2. (l + 2) - k \in Nat /\ (l + 2) - (k + 1) \in 1 .. l + 1
      BY <3>1
    <3>3. (l + 2) - k = ((l + 2) - (k + 1)) + 1
      BY <3>1
    <3> QED BY <3>2, <3>3
  <2>2. PICK f : ReadFrom(s, f, a)
    BY <2>1
  <2>3. PICK g :
           g = [i \in b .. l + 2 |-> IF i \in a .. l + 2 THEN f[i] ELSE NextObjects(s, f, i)]
    OBVIOUS
  <2>4. \A i \in a .. l + 2 : g[i] = f[i]
    <3>1. \A i \in a .. l + 2 : i \in b .. l + 2
      BY <2>1
    <3> QED BY <2>3, <3>1
  <2>5. ASSUME NEW i \in b .. l + 2 PROVE g[i] = NextObjects(s, g, i)
    <3>1. g[i] = NextObjects(s, f, i)
      <4>1. CASE i \in a .. l + 2
        <5>1. f[i] = NextObjects(s, f, i)
          BY <4>1, <2>2 DEF ReadFrom
        <5> QED BY <4>1, <5>1, <2>4
      <4>2. CASE i \notin a .. l + 2
        BY <4>2, <2>3
      <4> QED BY <4>1, <4>2
    <3>2. NextObjects(s, f, i) = NextObjects(s, g, i)
      <4>1. CASE i > l
        BY <4>1 DEF NextObjects
      <4>2. CASE ~(i > l)
        <5>1. i \in 1 .. Len(s)
          BY <2>1, <4>2
        <5>2. Closing(s, i) + 1 \in i + 1 .. l + 2
          BY <5>1, ClosingRange
        <5>3. \A c : c \in i + 1 .. l + 2 => c \in a .. l + 2
          BY <2>1
        <5>4. g[Closing(s, i) + 1] = f[Closing(s, i) + 1]
          BY <2>4, <5>2, <5>3
        <5> QED BY <5>4 DEF NextObjects
      <4> QED BY <4>1, <4>2
    <3> QED BY <3>1, <3>2
  <2>6. g = [i \in b .. Len(s) + 2 |-> NextObjects(s, g, i)]
    <3>1. g = [i \in b .. l + 2 |-> g[i]]
      BY <2>3
    <3> QED BY <2>5, <3>1
  <2> QED BY <2>1, <2>6 DEF ReadFrom
<1> HIDE DEF G
<1>3. G = Nat
  <2>1. G \subseteq Nat
    BY DEF G
  <2> QED BY <1>1, <1>2, <2>1, NatSet
<1>4. l + 1 \in G /\ (l + 2) - (l + 1) = 1 /\ l + 1 <= l + 1
  BY <1>3
<1> QED BY <1>4 DEF G

LEMMA ObjectsRead ==
  ASSUME NEW s, Len(s) \in Nat PROVE \E f : ReadFrom(s, f, 1) /\ Objects(s) = f[1]
<1>1. \E f : ReadFrom(s, f, 1)
  BY ReadFromExists
<1> QED BY <1>1 DEF Objects, ReadFrom, NextObjects

\* What is written for a sequence of objects.
Braced(bs) == [i \in 1 .. Len(bs) |-> Braces(bs[i])]

LEMMA BracedIs ==
  ASSUME NEW bs \in Seq(Seq(Chars))
  PROVE  Braced(bs) \in Seq(Seq(Chars)) /\ Len(Braced(bs)) = Len(bs)
<1>1. PICK n \in Nat : n = Len(bs) /\ \A i \in 1 .. n : bs[i] \in Seq(Chars)
  BY LenProperties, ElementOfSeq
<1>2. \A i \in 1 .. n : Braces(bs[i]) \in Seq(Chars)
  BY <1>1, BracesAre
<1>3. Braced(bs) \in [1 .. n -> Seq(Chars)]
  BY <1>1, <1>2 DEF Braced
<1>4. Braced(bs) \in Seq(Seq(Chars))
  BY <1>3, SeqDef
<1> QED BY <1>1, <1>3, <1>4, LenProperties

LEMMA BracedHead ==
  ASSUME NEW b \in Seq(Chars), NEW r \in Seq(Seq(Chars)), NEW bs, bs = <<b>> \o r
  PROVE  Braced(bs) = <<Braces(b)>> \o Braced(r)
<1>1. PICK d \in Nat : d = Len(r)
  BY LenProperties
<1>2. PICK h \in Seq(Seq(Chars)) : h = <<b>> /\ Len(h) = 1 /\ h[1] = b
  BY OneOf
<1>3. PICK w \in Seq(Chars) : w = Braces(b)
  BY BracesAre
<1>4. PICK g \in Seq(Seq(Chars)) : g = <<w>> /\ Len(g) = 1 /\ g[1] = w
  BY OneOf
<1>5. PICK p \in Seq(Seq(Chars)) : p = Braced(r) /\ Len(p) = d
  BY <1>1, BracedIs
<1>6. bs \in Seq(Seq(Chars)) /\ bs = h \o r
  BY <1>2, ConcatProperties
<1>7. Len(bs) = 1 + d /\ \A i \in 1 .. 1 + d : bs[i] = IF i <= 1 THEN h[i] ELSE r[i - 1]
  <2>1. /\ Len(bs) = Len(h) + Len(r)
        /\ \A i \in 1 .. Len(h) + Len(r) : bs[i] = IF i <= Len(h) THEN h[i] ELSE r[i - Len(h)]
    BY <1>6, ConcatProperties
  <2> QED BY <1>1, <1>2, <2>1
<1>8. PICK q \in Seq(Seq(Chars)) : q = Braced(bs) /\ Len(q) = 1 + d
  BY <1>6, <1>7, BracedIs
<1>9. \A i \in 1 .. 1 + d : q[i] = Braces(bs[i])
  BY <1>7, <1>8 DEF Braced
<1>10. q[1] = g[1]
  <2>1. 1 \in 1 .. 1 + d
    BY <1>1
  <2>2. bs[1] = b
    BY <2>1, <1>2, <1>7
  <2> QED BY <2>1, <2>2, <1>3, <1>4, <1>9
<1>11. \A i \in 1 .. d : q[1 + i] = p[i]
  <2> SUFFICES ASSUME NEW i \in 1 .. d PROVE q[1 + i] = p[i]
    OBVIOUS
  <2>1. PICK j \in 1 .. 1 + d : j = 1 + i /\ ~(j <= 1) /\ j - 1 = i
    OBVIOUS
  <2>2. bs[j] = r[i]
    BY <2>1, <1>7
  <2>3. p[i] = Braces(r[i])
    BY <1>1, <1>5 DEF Braced
  <2> QED BY <2>1, <2>2, <2>3, <1>9
<1>12. \A i \in 1 .. 1 : q[i] = g[i]
  <2>1. \A i \in 1 .. 1 : i = 1
    OBVIOUS
  <2> QED BY <2>1, <1>10
<1>13. Follows(q, g, p, 1, d)
  BY <1>4, <1>5, <1>8, <1>11, <1>12 DEF Follows
<1>14. q = g \o p
  BY <1>13, Piecewise
<1> QED BY <1>3, <1>4, <1>5, <1>8, <1>14

ReadsOn(f, b, w, n) == f[n + 1] = <<b>> \o f[n + Len(w) + 1]

\* Objects() finds what was put, if each of them is balanced.
LEMMA ObjectNext ==
  ASSUME NEW s \in Seq(Chars), NEW f, ReadFrom(s, f, 1), NEW b \in Seq(Chars), Balanced(b),
         NEW n \in Nat, NEW w \in Seq(Chars), w = Braces(b), Stands(s, w, n)
  PROVE  ReadsOn(f, b, w, n)
<1>1. PICK l \in Nat : l = Len(s)
  BY LenProperties
<1>2. PICK k \in Nat, o \in Seq(Chars), q \in Seq(Chars), c \in Seq(Chars) :
         InBraces(w, b, k, o, q, c)
  BY BracesAre
<1>3. Len(w) = k + 2 /\ n + (k + 2) <= l
  BY <1>1, <1>2 DEF InBraces, Stands
<1>4. w # <<>>
  BY <1>3, EmptySeq
<1>5. Closing(s, n + 1) = n + Len(w)
  <2>1. Enclosed(w)
    BY BracesEnclose
  <2> QED BY <2>1, <1>4, ClosingIs
<1>6. PICK a \in Nat, z \in Nat : /\ a = n + 1 /\ z = n + (k + 2) /\ a \in 1 .. l + 2
                                  /\ ~(a > l) /\ a + 1 = (n + 1) + 1 /\ z - 1 = (n + 1) + k
  BY <1>1, <1>3
<1>7. f[a] = NextObjects(s, f, a)
  BY <1>1, <1>6 DEF ReadFrom
<1>8. s[a] = "{"
  <2>1. 1 \in 1 .. Len(w)
    BY <1>3
  <2>2. s[a] = w[1]
    BY <2>1, <1>6 DEF Stands
  <2>3. w = o \o q /\ Len(o) = 1 /\ o[1] = "{"
    BY <1>2 DEF InBraces
  <2>4. StartsAs(o \o q, o)
    BY <2>3, ConcatFirst
  <2> QED BY <2>2, <2>3, <2>4 DEF StartsAs
<1>9. SubSeq(s, a + 1, z - 1) = b
  <2>1. PICK d \in Nat : d = n + 1
    OBVIOUS
  <2>2. Stands(s, o \o q, n) /\ Len(o) = 1 /\ Len(b) = k /\ q = b \o c
    BY <1>2 DEF InBraces
  <2>3. d = n + Len(o)
    BY <2>1, <2>2
  <2>4. Stands(s, q, d)
    BY <2>2, <2>3, StandsBoth
  <2>5. Stands(s, b \o c, d)
    BY <2>2, <2>4
  <2>6. PICK e \in Nat : e = d + k
    OBVIOUS
  <2>7. e = d + Len(b)
    BY <2>2, <2>6
  <2>8. Stands(s, b, d)
    BY <2>5, <2>7, StandsBoth
  <2>9. SubSeq(s, d + 1, d + k) = SubSeq(b, 1, k)
    <3>1. k <= Len(b)
      BY <2>2
    <3> QED BY <2>8, <3>1, StandsPart
  <2>10. SubSeq(b, 1, k) = b
    BY <2>2, SubSeqFull
  <2> QED BY <2>1, <2>9, <2>10, <1>6
<1>10. f[a] = <<SubSeq(s, a + 1, z - 1)>> \o f[z + 1]
  <2>1. Closing(s, a) = z
    BY <1>3, <1>5, <1>6
  <2> QED BY <2>1, <1>1, <1>6, <1>7, <1>8 DEF NextObjects
<1>11. z = n + Len(w)
  BY <1>3, <1>6
<1> QED BY <1>6, <1>9, <1>10, <1>11 DEF ReadsOn

AllBalanced(bs) == \A i \in 1 .. Len(bs) : Balanced(bs[i])

\* The objects of bs are what s ends with, after n characters.
Ends(s, bs, n) ==
    Stands(s, FlattenSeq(Braced(bs)), n) /\ n + Len(FlattenSeq(Braced(bs))) = Len(s)
ReadAs(f, bs, n) == f[n + 1] = bs

LEMMA ObjectsAtEnd ==
  ASSUME NEW s \in Seq(Chars), NEW f, ReadFrom(s, f, 1), NEW bs, bs = <<>>, NEW n \in Nat,
         Ends(s, bs, n)
  PROVE  ReadAs(f, bs, n)
<1>1. Braced(bs) = <<>>
  BY DEF Braced
<1>2. FlattenSeq(Braced(bs)) = <<>> /\ Len(<<>>) = 0
  BY <1>1, FlattenEmpty, EmptySeq
<1>3. n = Len(s)
  BY <1>2 DEF Ends
<1>4. PICK a \in Nat : a = n + 1 /\ a > n /\ a \in 1 .. n + 2
  <2>1. n + 1 \in Nat /\ n + 1 > n /\ n + 1 \in 1 .. n + 2
    OBVIOUS
  <2> QED BY <2>1
<1>5. f[a] = NextObjects(s, f, a)
  BY <1>3, <1>4 DEF ReadFrom
<1>6. f[a] = <<>>
  BY <1>3, <1>4, <1>5 DEF NextObjects
<1> QED BY <1>4, <1>6 DEF ReadAs

LEMMA TailBalanced ==
  ASSUME NEW bs \in Seq(Seq(Chars)), bs # <<>>, AllBalanced(bs)
  PROVE  AllBalanced(Tail(bs)) /\ Balanced(bs[1])
<1>1. PICK q \in Nat \ {0} : q = Len(bs)
  BY LenProperties, EmptySeq
<1>2. /\ Tail(bs) \in Seq(Seq(Chars)) /\ Len(Tail(bs)) = q - 1
      /\ \A i \in 1 .. q - 1 : Tail(bs)[i] = bs[i + 1]
  BY <1>1, TailIs
<1>3. \A i \in 1 .. q : Balanced(bs[i])
  BY <1>1 DEF AllBalanced
<1>4. \A i \in 1 .. q - 1 : i + 1 \in 1 .. q
  BY <1>1
<1>5. 1 \in 1 .. q
  BY <1>1
<1> QED BY <1>2, <1>3, <1>4, <1>5 DEF AllBalanced

LEMMA ObjectsNext ==
  ASSUME NEW s \in Seq(Chars), NEW f, ReadFrom(s, f, 1), NEW bs \in Seq(Seq(Chars)),
         bs # <<>>, AllBalanced(bs), NEW n \in Nat, Ends(s, bs, n)
  PROVE  \E q \in Nat : /\ Ends(s, Tail(bs), q)
                        /\ ReadAs(f, Tail(bs), q) => ReadAs(f, bs, n)
<1>1. PICK b \in Seq(Chars), r \in Seq(Seq(Chars)) :
         b = bs[1] /\ r = Tail(bs) /\ bs = <<b>> \o r
  BY HeadTail
<1>2. PICK w \in Seq(Chars) : w = Braces(b)
  BY BracesAre
<1>3. PICK p \in Seq(Seq(Chars)) : p = Braced(r)
  BY BracedIs
<1>4. PICK v \in Seq(Chars) : v = FlattenSeq(p)
  BY FlattenType
<1>5. FlattenSeq(Braced(bs)) = w \o v
  <2>1. Braced(bs) = <<w>> \o p
    BY <1>1, <1>2, <1>3, BracedHead
  <2> QED BY <2>1, <1>4, FlattenHead
<1>6. PICK a \in Nat, c \in Nat, l \in Nat : a = Len(w) /\ c = Len(v) /\ l = Len(s)
  BY LenProperties
<1>7. Len(w \o v) = a + c
  BY <1>6, ConcatProperties
<1>8. PICK q \in Nat : q = n + a
  OBVIOUS
<1>9. Stands(s, w \o v, n) /\ n + (a + c) = l
  BY <1>5, <1>6, <1>7 DEF Ends
<1>10. q = n + Len(w)
  BY <1>6, <1>8
<1>11. Stands(s, w, n) /\ Stands(s, v, q)
  BY <1>9, <1>10, StandsBoth
<1>12. q + c = l
  BY <1>8, <1>9
<1>13. Ends(s, r, q)
  BY <1>3, <1>4, <1>6, <1>11, <1>12 DEF Ends
<1>14. Balanced(b)
  BY <1>1, TailBalanced
<1>15. f[n + 1] = <<b>> \o f[q + 1]
  <2>1. ReadsOn(f, b, w, n)
    BY <1>2, <1>11, <1>14, ObjectNext
  <2>2. n + Len(w) + 1 = q + 1
    BY <1>10
  <2> QED BY <2>1, <2>2 DEF ReadsOn
<1>16. ReadAs(f, r, q) => ReadAs(f, bs, n)
  BY <1>1, <1>15 DEF ReadAs
<1> QED BY <1>1, <1>13, <1>16

LEMMA ObjectsFrom ==
  ASSUME NEW s \in Seq(Chars), NEW f, ReadFrom(s, f, 1)
  PROVE  \A bs \in Seq(Seq(Chars)), n \in Nat :
            AllBalanced(bs) /\ Ends(s, bs, n) => ReadAs(f, bs, n)
<1> DEFINE G == {k \in Nat : \A bs \in Seq(Seq(Chars)), n \in Nat :
                    Len(bs) = k /\ AllBalanced(bs) /\ Ends(s, bs, n) => ReadAs(f, bs, n)}
<1>1. 0 \in G
  <2> SUFFICES ASSUME NEW bs \in Seq(Seq(Chars)), NEW n \in Nat, Len(bs) = 0, Ends(s, bs, n)
               PROVE  ReadAs(f, bs, n)
    OBVIOUS
  <2>1. bs = <<>>
    BY EmptySeq
  <2> QED BY <2>1, ObjectsAtEnd
<1>2. ASSUME NEW k \in G PROVE k + 1 \in G
  <2>0. k \in Nat /\ k + 1 \in Nat
    OBVIOUS
  <2> SUFFICES ASSUME NEW bs \in Seq(Seq(Chars)), NEW n \in Nat, Len(bs) = k + 1,
                      AllBalanced(bs), Ends(s, bs, n)
               PROVE  ReadAs(f, bs, n)
    BY <2>0
  <2>1. bs # <<>>
    BY <2>0, EmptySeq
  <2>2. PICK d \in Nat : Ends(s, Tail(bs), d) /\ (ReadAs(f, Tail(bs), d) => ReadAs(f, bs, n))
    BY <2>1, ObjectsNext
  <2>3. Tail(bs) \in Seq(Seq(Chars)) /\ Len(Tail(bs)) = k
    <3>1. PICK q \in Nat \ {0} : q = Len(bs) /\ q - 1 = k
      BY <2>0
    <3> QED BY <3>1, TailIs
  <2>4. AllBalanced(Tail(bs))
    BY <2>1, TailBalanced
  <2> QED BY <2>2, <2>3, <2>4
<1> HIDE DEF G
<1>3. G = Nat
  <2>1. G \subseteq Nat
    BY DEF G
  <2> QED BY <1>1, <1>2, <2>1, NatSet
<1>4. \A bs \in Seq(Seq(Chars)) : Len(bs) \in G
  BY <1>3, LenProperties
<1> QED BY <1>4 DEF G

LEMMA ObjectsAre ==
  ASSUME NEW bs \in Seq(Seq(Chars)), AllBalanced(bs)
  PROVE  Objects(FlattenSeq(Braced(bs))) = bs
<1>1. PICK s \in Seq(Chars) : s = FlattenSeq(Braced(bs))
  BY BracedIs, FlattenType
<1>2. PICK l \in Nat : l = Len(s)
  BY LenProperties
<1>3. PICK f : ReadFrom(s, f, 1) /\ Objects(s) = f[1]
  BY <1>2, ObjectsRead
<1>4. Ends(s, bs, 0)
  <2>1. 0 + l <= l /\ 0 + l = l /\ \A i \in 1 .. l : 0 + i = i
    OBVIOUS
  <2>2. Stands(s, s, 0)
    BY <1>2, <2>1 DEF Stands
  <2> QED BY <1>1, <1>2, <2>1, <2>2 DEF Ends
<1>5. 0 \in Nat /\ 0 + 1 = 1
  OBVIOUS
<1>6. ReadAs(f, bs, 0)
  BY <1>3, <1>4, <1>5, ObjectsFrom
<1> QED BY <1>1, <1>3, <1>5, <1>6 DEF ReadAs

-----------------------------------------------------------------------------
\* What is escaped, and what is put together of objects, is balanced.
LEMMA CodeBalanced ==
  ASSUME NEW x \in Chars PROVE Balanced(Code(x, Last4))
<1>1. PICK u \in Seq(Chars) : u = Code(x, Last4)
  <2>1. Slash \in Last4
    BY DEF Last4
  <2> QED BY <2>1, CodeIs
<1>2. "{" # Slash /\ "}" # Slash
  BY Others DEF Other
<1>3. CASE x \in Last4
  <2>1. PICK d \in Chars, v \in Chars : d = Digit(x) /\ v = Slash /\ u = <<v, d>>
    BY <1>1, <1>3, SlashChar, Others DEF Digit, Other, Code, Two
  <2>2. d # "{" /\ d # "}"
    BY <2>1 DEF Digit
  <2>3. Len(u) = 2 /\ u[1] = v /\ u[2] = d
    BY <2>1, TwoOf
  <2>4. \A i \in 1 .. 2 : i = 1 \/ i = 2
    OBVIOUS
  <2>5. NoBraces(u)
    BY <1>2, <2>1, <2>2, <2>3, <2>4 DEF NoBraces
  <2> QED BY <1>1, <2>5, PlainBalanced
<1>4. CASE x \notin Last4
  <2>1. u = <<x>> /\ x # "{" /\ x # "}"
    BY <1>1, <1>4 DEF Code, Last4
  <2>2. Len(u) = 1 /\ u[1] = x
    BY <2>1, OneOf
  <2>3. \A i \in 1 .. 1 : i = 1
    OBVIOUS
  <2>4. NoBraces(u)
    BY <2>1, <2>2, <2>3 DEF NoBraces
  <2> QED BY <1>1, <2>4, PlainBalanced
<1> QED BY <1>3, <1>4

LEMMA EmptyBalanced == Balanced(<<>>)
<1>1. PICK e \in Seq(Chars) : e = <<>> /\ Len(e) = 0
  BY EmptySeq
<1>2. \A i \in 1 .. 0 : FALSE
  OBVIOUS
<1>3. NoBraces(e)
  BY <1>1, <1>2 DEF NoBraces
<1>4. Balanced(e)
  BY <1>3, PlainBalanced
<1> QED BY <1>1, <1>4

LEMMA EscapeEmpty == Escape(<<>>) = <<>>
BY ReplacedEmpty DEF Escape

LEMMA EscapeBalanced ==
  ASSUME NEW s \in Seq(Chars) PROVE Escape(s) \in Seq(Chars) /\ Balanced(Escape(s))
<1> DEFINE G == {u \in Seq(Chars) : Balanced(Escape(u))}
<1>1. <<>> \in G
  <2> QED BY EmptyBalanced, EscapeEmpty
<1>2. \A u \in Seq(Chars), x \in Chars : u \in G => Append(u, x) \in G
  <2> SUFFICES ASSUME NEW u \in Seq(Chars), NEW x \in Chars, Balanced(Escape(u))
               PROVE  Append(u, x) \in Seq(Chars) /\ Balanced(Escape(Append(u, x)))
    OBVIOUS
  <2>1. PICK h \in Seq(Chars) : h = <<x>>
    BY OneOf
  <2>2. Append(u, x) = u \o h
    BY <2>1, AppendIsConcat
  <2>3. Escapes(u, h) /\ Escape(u) \in Seq(Chars) /\ Escape(h) \in Seq(Chars)
    BY EscapeConcat
  <2>4. Balanced(Escape(h))
    BY <2>1, EscapeOne, CodeBalanced
  <2>5. Balanced(Escape(u) \o Escape(h))
    BY <2>3, <2>4, BalancedConcat
  <2> QED BY <2>2, <2>3, <2>5, AppendProperties DEF Escapes
<1> HIDE DEF G
<1>3. Seq(Chars) \subseteq G
  BY <1>1, <1>2, SeqSet
<1>4. Balanced(Escape(s))
  BY <1>3 DEF G
<1> QED BY <1>4, EscapeConcat

LEMMA FlattenBalanced ==
  ASSUME NEW p \in Seq(Seq(Chars)), AllBalanced(p)
  PROVE  Balanced(FlattenSeq(p))
<1> DEFINE G == {u \in Seq(Seq(Chars)) : AllBalanced(u) => Balanced(FlattenSeq(u))}
<1>1. <<>> \in G
  <2> QED BY EmptyBalanced, FlattenEmpty, EmptySeq
<1>2. \A u \in Seq(Seq(Chars)), x \in Seq(Chars) : u \in G => Append(u, x) \in G
  <2> SUFFICES ASSUME NEW u \in Seq(Seq(Chars)), NEW x \in Seq(Chars),
                      AllBalanced(u) => Balanced(FlattenSeq(u)), AllBalanced(Append(u, x))
               PROVE  Balanced(FlattenSeq(Append(u, x)))
    BY AppendProperties
  <2>1. PICK n \in Nat : n = Len(u)
    BY LenProperties
  <2>2. PICK v \in Seq(Seq(Chars)) : v = Append(u, x)
    BY AppendProperties
  <2>3. Len(v) = n + 1 /\ v[n + 1] = x /\ \A i \in 1 .. n : v[i] = u[i]
    <3>1. Len(v) = Len(u) + 1 /\ \A i \in 1 .. Len(u) + 1 : v[i] = IF i <= Len(u) THEN u[i] ELSE x
      BY <2>2, AppendProperties
    <3>2. n + 1 \in 1 .. n + 1 /\ ~(n + 1 <= n) /\ \A i \in 1 .. n : i \in 1 .. n + 1 /\ i <= n
      OBVIOUS
    <3> QED BY <2>1, <3>1, <3>2
  <2>4. \A i \in 1 .. n + 1 : Balanced(v[i])
    BY <2>2, <2>3 DEF AllBalanced
  <2>5. n + 1 \in 1 .. n + 1 /\ \A i \in 1 .. n : i \in 1 .. n + 1
    OBVIOUS
  <2>6. Balanced(x) /\ \A i \in 1 .. n : Balanced(u[i])
    BY <2>3, <2>4, <2>5
  <2>7. AllBalanced(u)
    BY <2>1, <2>6 DEF AllBalanced
  <2>8. PICK f \in Seq(Chars) : f = FlattenSeq(u)
    BY FlattenType
  <2>9. FlattenSeq(v) = f \o x
    BY <2>2, <2>8, FlattenAppend
  <2> QED BY <2>2, <2>6, <2>7, <2>8, <2>9, BalancedConcat
<1> HIDE DEF G
<1>3. Seq(Seq(Chars)) \subseteq G
  BY <1>1, <1>2, SeqSet
<1> QED BY <1>3 DEF G

\* What a sequence of objects is written as, and read from.
Held(bs) == FlattenSeq(Braced(bs))

LEMMA HeldIs ==
  ASSUME NEW bs \in Seq(Seq(Chars)), AllBalanced(bs)
  PROVE  Held(bs) \in Seq(Chars) /\ Balanced(Held(bs)) /\ Objects(Held(bs)) = bs
<1>1. PICK p \in Seq(Seq(Chars)) : p = Braced(bs) /\ Len(p) = Len(bs)
  BY BracedIs
<1>2. \A i \in 1 .. Len(p) : p[i] = Braces(bs[i]) /\ bs[i] \in Seq(Chars)
  BY <1>1, ElementOfSeq DEF Braced
<1>3. AllBalanced(p)
  BY <1>1, <1>2, BracesEnclose DEF AllBalanced
<1>4. Balanced(FlattenSeq(p)) /\ FlattenSeq(p) \in Seq(Chars)
  BY <1>3, FlattenBalanced, FlattenType
<1> QED BY <1>1, <1>4, ObjectsAre DEF Held

LEMMA ObjectOf ==
  ASSUME NEW b \in Seq(Chars), Balanced(b)
  PROVE  Object(Braces(b)) = b
<1>1. PICK bs \in Seq(Seq(Chars)) : bs = <<b>> /\ Len(bs) = 1 /\ bs[1] = b
  BY OneOf
<1>2. AllBalanced(bs)
  <2>1. \A i \in 1 .. 1 : i = 1
    OBVIOUS
  <2> QED BY <1>1, <2>1 DEF AllBalanced
<1>3. Braced(bs) = <<Braces(b)>>
  <2>1. PICK r \in Seq(Seq(Chars)) : r = <<>>
    BY EmptySeq
  <2>2. bs = <<b>> \o r
    BY <1>1, <2>1, ConcatEmptySeq
  <2>3. Braced(bs) = <<Braces(b)>> \o Braced(r)
    BY <2>2, BracedHead
  <2>4. Braced(r) = <<>>
    BY <2>1 DEF Braced
  <2>5. PICK g \in Seq(Seq(Chars)) : g = <<Braces(b)>>
    BY BracesAre, OneOf
  <2>6. g \o <<>> = g
    BY ConcatEmptySeq
  <2> QED BY <2>3, <2>4, <2>5, <2>6
<1>4. Held(bs) = Braces(b)
  BY <1>3, FlattenOne DEF Held
<1>5. Objects(Held(bs)) = bs
  BY <1>2, HeldIs
<1> QED BY <1>1, <1>4, <1>5 DEF Object

\* A vector of strings is read as it was written.
LEMMA ListRead ==
  ASSUME NEW l \in Seq(Seq(Chars))
  PROVE  ReadList(WriteList(l)) = l
<1>1. PICK n \in Nat : n = Len(l) /\ DOMAIN l = 1 .. n /\ \A i \in 1 .. n : l[i] \in Seq(Chars)
  BY LenProperties, ElementOfSeq
<1>2. PICK e : e = [i \in 1 .. n |-> Escape(l[i])]
  OBVIOUS
<1>3. \A i \in 1 .. n : Escape(l[i]) \in Seq(Chars) /\ Balanced(Escape(l[i]))
                         /\ Unescape(Escape(l[i])) = l[i]
  BY <1>1, EscapeBalanced, EscapeReversed
<1>4. e \in [1 .. n -> Seq(Chars)]
  BY <1>2, <1>3
<1>5. e \in Seq(Seq(Chars)) /\ Len(e) = n
  <2>1. e \in Seq(Seq(Chars))
    BY <1>4, SeqDef
  <2> QED BY <2>1, <1>4, LenProperties
<1>6. AllBalanced(e)
  BY <1>2, <1>3, <1>5 DEF AllBalanced
<1>7. WriteList(l) = Braces(Held(e))
  <2>1. Braced(e) = [i \in 1 .. n |-> Braces(Escape(l[i]))]
    BY <1>2, <1>5 DEF Braced
  <2> QED BY <2>1, <1>1 DEF WriteList, Held
<1>8. Objects(Object(WriteList(l))) = e
  BY <1>6, <1>5, <1>7, HeldIs, ObjectOf
<1>9. ReadList(WriteList(l)) = [i \in 1 .. n |-> Unescape(e[i])]
  BY <1>4, <1>8 DEF ReadList
<1>10. [i \in 1 .. n |-> Unescape(e[i])] = [i \in 1 .. n |-> l[i]]
  BY <1>2, <1>3
<1>11. l = [i \in 1 .. n |-> l[i]]
  BY <1>1, LenProperties
<1> QED BY <1>9, <1>10, <1>11

\* What the braces of a pair hold.
PairHeld(p) == Braces(Escape(p[1])) \o Braces(Escape(p[2]))

LEMMA PairIs ==
  ASSUME NEW p \in Seq(Chars) \X Seq(Chars)
  PROVE  PairHeld(p) \in Seq(Chars) /\ Balanced(PairHeld(p)) /\ ReadPair(PairHeld(p)) = p
<1>1. PICK a \in Seq(Chars), b \in Seq(Chars) : p = <<a, b>> /\ p[1] = a /\ p[2] = b
  OBVIOUS
<1>2. PICK c \in Seq(Chars), d \in Seq(Chars) :
         /\ c = Escape(a) /\ d = Escape(b) /\ Balanced(c) /\ Balanced(d)
         /\ Unescape(c) = a /\ Unescape(d) = b
  BY EscapeBalanced, EscapeReversed
<1>3. PICK h \in Seq(Seq(Chars)), k \in Seq(Seq(Chars)), e \in Seq(Seq(Chars)) :
         h = <<c>> /\ k = <<d>> /\ e = <<>>
  BY OneOf, EmptySeq
<1>4. PICK q \in Seq(Seq(Chars)) :
         q = <<c, d>> /\ Len(q) = 2 /\ q[1] = c /\ q[2] = d /\ q = h \o k
  <2>1. PICK q : q = <<c, d>>
    OBVIOUS
  <2>2. q \in Seq(Seq(Chars)) /\ Len(q) = 2 /\ q[1] = c /\ q[2] = d /\ q = <<c>> \o <<d>>
    BY <2>1, TwoOf
  <2> QED BY <2>1, <2>2, <1>3
<1>5. AllBalanced(q)
  <2>1. \A i \in 1 .. 2 : i = 1 \/ i = 2
    OBVIOUS
  <2> QED BY <1>2, <1>4, <2>1 DEF AllBalanced
<1>6. PICK v \in Seq(Chars), w \in Seq(Chars) : v = Braces(c) /\ w = Braces(d)
  BY BracesAre
<1>7. Held(q) = v \o w
  <2>1. k = <<d>> \o e
    BY <1>3, ConcatEmptySeq
  <2>2. Braced(k) = <<Braces(d)>> \o Braced(e)
    BY <2>1, BracedHead
  <2>3. Braced(e) = e
    BY <1>3 DEF Braced
  <2>4. PICK g \in Seq(Seq(Chars)) : g = <<w>>
    BY OneOf
  <2>5. Braced(k) = g
    BY <2>2, <2>3, <2>4, <1>3, <1>6, ConcatEmptySeq
  <2>6. q = <<c>> \o k
    BY <1>3, <1>4
  <2>7. Braced(q) = <<v>> \o g
    BY <2>5, <2>6, <1>6, BracedHead
  <2>8. FlattenSeq(Braced(q)) = v \o FlattenSeq(g)
    BY <2>7, FlattenHead
  <2>9. FlattenSeq(g) = w
    BY <2>4, FlattenOne
  <2> QED BY <2>8, <2>9 DEF Held
<1>8. PairHeld(p) = Held(q)
  BY <1>1, <1>2, <1>6, <1>7 DEF PairHeld
<1>9. Held(q) \in Seq(Chars) /\ Balanced(Held(q)) /\ Objects(Held(q)) = q
  BY <1>5, HeldIs
<1>10. ReadPair(Held(q)) = p
  BY <1>1, <1>2, <1>4, <1>9 DEF ReadPair
<1> QED BY <1>8, <1>9, <1>10

\* A map of strings is read as it was written.
LEMMA MapRead ==
  ASSUME NEW q \in Seq(Seq(Chars) \X Seq(Chars))
  PROVE  ReadMap(WriteMap(q)) = q
<1>1. PICK n \in Nat : /\ n = Len(q) /\ DOMAIN q = 1 .. n
                       /\ \A i \in 1 .. n : q[i] \in Seq(Chars) \X Seq(Chars)
  BY LenProperties, ElementOfSeq
<1>2. PICK e : e = [i \in 1 .. n |-> PairHeld(q[i])]
  OBVIOUS
<1>3. \A i \in 1 .. n : PairHeld(q[i]) \in Seq(Chars) /\ Balanced(PairHeld(q[i]))
                         /\ ReadPair(PairHeld(q[i])) = q[i]
  BY <1>1, PairIs
<1>4. e \in [1 .. n -> Seq(Chars)]
  BY <1>2, <1>3
<1>5. e \in Seq(Seq(Chars)) /\ Len(e) = n
  <2>1. e \in Seq(Seq(Chars))
    BY <1>4, SeqDef
  <2> QED BY <2>1, <1>4, LenProperties
<1>6. AllBalanced(e)
  BY <1>2, <1>3, <1>5 DEF AllBalanced
<1>7. WriteMap(q) = Braces(Held(e))
  <2>1. Braced(e) = [i \in 1 .. n |-> Braces(PairHeld(q[i]))]
    BY <1>2, <1>5 DEF Braced
  <2>2. Braced(e) = [i \in DOMAIN q |-> WritePair(q[i])]
    BY <2>1, <1>1 DEF WritePair, PairHeld
  <2> QED BY <2>2 DEF WriteMap, Held
<1>8. Objects(Object(WriteMap(q))) = e
  BY <1>6, <1>5, <1>7, HeldIs, ObjectOf
<1>9. ReadMap(WriteMap(q)) = [i \in 1 .. n |-> ReadPair(e[i])]
  BY <1>4, <1>8 DEF ReadMap
<1>10. [i \in 1 .. n |-> ReadPair(e[i])] = [i \in 1 .. n |-> q[i]]
  BY <1>2, <1>3
<1>11. q = [i \in 1 .. n |-> q[i]]
  BY <1>1, LenProperties
<1> QED BY <1>9, <1>10, <1>11

-----------------------------------------------------------------------------
\* The digits differ from each other.
Place(x) ==
    IF x = "0" THEN 1 ELSE IF x = "1" THEN 2 ELSE IF x = "2" THEN 3 ELSE IF x = "3" THEN 4
    ELSE IF x = "4" THEN 5 ELSE IF x = "5" THEN 6 ELSE IF x = "6" THEN 7
    ELSE IF x = "7" THEN 8 ELSE IF x = "8" THEN 9 ELSE 10

LEMMA DigitPlace == \A i \in 1 .. 10 : Place(Digits[i]) = i
<1>1. /\ Digits[1] = "0" /\ Digits[2] = "1" /\ Digits[3] = "2" /\ Digits[4] = "3"
      /\ Digits[5] = "4" /\ Digits[6] = "5" /\ Digits[7] = "6" /\ Digits[8] = "7"
      /\ Digits[9] = "8" /\ Digits[10] = "9"
  BY DEF Digits
<1>2. /\ Place("0") = 1 /\ Place("1") = 2 /\ Place("2") = 3 /\ Place("3") = 4
      /\ Place("4") = 5 /\ Place("5") = 6 /\ Place("6") = 7 /\ Place("7") = 8
      /\ Place("8") = 9 /\ Place("9") = 10
  BY DEF Place
<1>3. \A i \in 1 .. 10 : i = 1 \/ i = 2 \/ i = 3 \/ i = 4 \/ i = 5 \/ i = 6 \/ i = 7
                         \/ i = 8 \/ i = 9 \/ i = 10
  OBVIOUS
<1> QED BY <1>1, <1>2, <1>3

LEMMA NumberOf ==
  ASSUME NEW n \in 0 .. 9 PROVE Number(Numeral(n)) = n /\ Numeral(n) # <<>>
<1>1. PICK k \in 1 .. 10 : k = n + 1 /\ k - 1 = n
  OBVIOUS
<1>2. PICK x : x = Digits[k]
  OBVIOUS
<1>3. Numeral(n) = <<x>>
  BY <1>1, <1>2 DEF Numeral
<1>4. <<x>> # <<>> /\ \A y : <<y>> = <<x>> => y = x
  OBVIOUS
<1>5. \A j \in 1 .. 10 : <<Digits[j]>> = <<x>> => j = k
  BY <1>2, <1>4, DigitPlace
<1>6. (CHOOSE j \in 1 .. 10 : <<Digits[j]>> = <<x>>) = k
  BY <1>2, <1>5
<1>7. Number(Numeral(n)) = k - 1
  BY <1>3, <1>6 DEF Number
<1> QED BY <1>1, <1>3, <1>4, <1>7

\* The lines of a call.
Lines == Seq(Chars) \cup {Numeral(n) : n \in 0 .. 9}

\* A parameter, with the values its type has.
Param(p) ==
    /\ p = [type |-> p.type, is |-> p.is]
    /\ \/ p.type = "string" /\ p.is \in Seq(Chars)
       \/ p.type = "number" /\ p.is \in 0 .. 9
       \/ p.type = "vector" /\ p.is \in Seq(Seq(Chars)) /\ Len(p.is) \in 0 .. 9

LEMMA GetNumberIs ==
  ASSUME NEW n \in 0 .. 9, NEW r \in Seq(Lines)
  PROVE  GetNumber(<<Numeral(n)>> \o r) = [is |-> n, rest |-> r]
<1>1. PICK x \in Lines : x = Numeral(n)
  BY DEF Lines
<1>2. PICK i \in Seq(Lines) : i = <<x>> \o r
  BY OneOf, ConcatProperties
<1>3. i[1] = x /\ SubSeq(i, 2, Len(i)) = r
  <2>1. FirstLine(<<x>> \o r, x, r)
    BY FirstLineIs
  <2> QED BY <2>1, <1>2 DEF FirstLine
<1>4. PICK l \in Nat : l = Len(i) /\ 1 <= l
  <2>1. PICK q \in Nat : q = Len(r)
    BY LenProperties
  <2>2. Len(<<x>>) = 1 /\ <<x>> \in Seq(Lines)
    BY OneOf
  <2>3. Len(i) = 1 + q
    BY <1>2, <2>1, <2>2, ConcatProperties
  <2> QED BY <2>3
<1> DEFINE I == {k \in 1 .. Len(i) : i[k] # <<>>}
<1>5. 1 \in I /\ \A k \in I : 1 <= k
  BY <1>1, <1>3, <1>4, NumberOf
<1>6. SelectInSeq(i, LAMBDA line : line # <<>>) = IF I # {} THEN Min(I) ELSE 0
  BY DEF SelectInSeq
<1>7. Min(I) = 1
  <2>1. I \subseteq Nat
    BY <1>4
  <2> HIDE DEF I
  <2>2. \A k \in I : (\A j \in I : k <= j) => k = 1
    BY <2>1, <1>5
  <2> QED BY <1>5, <2>2 DEF Min
<1> HIDE DEF I
<1>8. SelectInSeq(i, LAMBDA line : line # <<>>) = 1
  BY <1>5, <1>6, <1>7
<1>9. GetNumber(i) = [is |-> Number(i[1]), rest |-> SubSeq(i, 1 + 1, Len(i))]
  BY <1>8 DEF GetNumber
<1>10. 1 + 1 = 2
  OBVIOUS
<1>11. Number(i[1]) = n
  BY <1>1, <1>3, NumberOf
<1> QED BY <1>1, <1>2, <1>3, <1>9, <1>10, <1>11

LEMMA GetVectorIs ==
  ASSUME NEW v \in Seq(Lines), Len(v) \in 0 .. 9, NEW r \in Seq(Lines)
  PROVE  GetVector(<<Numeral(Len(v))>> \o (v \o r)) = [is |-> v, rest |-> r]
<1>1. PICK w \in Seq(Lines) : w = v \o r
  BY ConcatProperties
<1>2. GetNumber(<<Numeral(Len(v))>> \o w) = [is |-> Len(v), rest |-> w]
  BY GetNumberIs
<1>3. CutAfter(w, v, r)
  BY <1>1, CutAfterIs
<1>4. PICK k, i : k = Len(v) /\ i = <<Numeral(k)>> \o w
  OBVIOUS
<1>5. GetNumber(i).is = k /\ GetNumber(i).rest = w
  BY <1>2, <1>4
<1>6. SubSeq(w, 1, k) = v /\ SubSeq(w, k + 1, Len(w)) = r
  BY <1>3, <1>4 DEF CutAfter
<1>7. GetVector(i) = [is |-> v, rest |-> r]
  BY <1>5, <1>6 DEF GetVector
<1> QED BY <1>1, <1>4, <1>7

\* What is written for a parameter is read, and nothing behind it.
Reads(p, r) == GetParam(Written(p) \o r, p.type) = [is |-> p.is, rest |-> r]

LEMMA ParamRead ==
  ASSUME NEW p, Param(p), NEW r \in Seq(Lines)
  PROVE  Reads(p, r) /\ Written(p) \in Seq(Lines)
<1>1. CASE p.type = "string" /\ p.is \in Seq(Chars)
  <2>1. PICK x \in Lines : x = p.is
    BY <1>1 DEF Lines
  <2>2. Written(p) = <<x>>
    BY <1>1, <2>1 DEF Written
  <2>3. FirstLine(<<x>> \o r, x, r)
    BY FirstLineIs
  <2>4. GetParam(<<x>> \o r, p.type) = [is |-> x, rest |-> r]
    BY <1>1, <2>3 DEF GetParam, GetLine, FirstLine
  <2> QED BY <2>1, <2>2, <2>4, OneOf DEF Reads
<1>2. CASE p.type = "number" /\ p.is \in 0 .. 9
  <2>1. PICK n \in 0 .. 9 : n = p.is
    BY <1>2
  <2>2. PICK x \in Lines : x = Numeral(n)
    BY DEF Lines
  <2>3. Written(p) = <<x>>
    BY <1>2, <2>1, <2>2 DEF Written
  <2>4. GetNumber(<<x>> \o r) = [is |-> n, rest |-> r]
    BY <2>2, GetNumberIs
  <2>5. GetParam(<<x>> \o r, p.type) = [is |-> n, rest |-> r]
    BY <1>2, <2>4 DEF GetParam
  <2> QED BY <2>1, <2>3, <2>5, OneOf DEF Reads
<1>3. CASE p.type = "vector" /\ p.is \in Seq(Seq(Chars)) /\ Len(p.is) \in 0 .. 9
  <2>1. PICK v \in Seq(Lines) : v = p.is
    <3>1. PICK l \in Nat : l = Len(p.is) /\ p.is \in [1 .. l -> Seq(Chars)]
      BY <1>3, LenProperties
    <3>2. p.is \in [1 .. l -> Lines]
      BY <3>1 DEF Lines
    <3> QED BY <3>1, <3>2, SeqDef
  <2>2. PICK x \in Lines : x = Numeral(Len(v))
    BY <1>3, <2>1 DEF Lines
  <2>3. PICK h \in Seq(Lines), e \in Seq(Lines), z \in Lines :
           h = <<x>> /\ e = <<z>> /\ z = <<>>
    <3>1. <<>> \in Lines
      BY EmptySeq DEF Lines
    <3> QED BY <3>1, OneOf
  <2>4. Written(p) = (h \o v) \o e
    BY <1>3, <2>1, <2>2, <2>3 DEF Written
  <2>5. PICK q \in Seq(Lines), hv \in Seq(Lines), w \in Seq(Lines) :
           q = e \o r /\ hv = h \o v /\ w = hv \o e
    BY ConcatProperties
  <2>6. w \o r = h \o (v \o q)
    <3>1. Regroup(hv, e, r) /\ Regroup(h, v, q)
      BY Regrouped
    <3> QED BY <3>1, <2>5 DEF Regroup
  <2>7. GetVector(h \o (v \o q)) = [is |-> v, rest |-> q]
    BY <1>3, <2>1, <2>2, <2>3, GetVectorIs
  <2>8. Tail(q) = r
    <3>1. FirstLine(<<z>> \o r, z, r)
      BY FirstLineIs
    <3> QED BY <3>1, <2>3, <2>5 DEF FirstLine
  <2>9. GetParam(w \o r, p.type) = [is |-> v, rest |-> r]
    <3>1. GetParam(w \o r, p.type) = [GetVector(w \o r) EXCEPT !.rest = Tail(@)]
      BY <1>3 DEF GetParam
    <3>2. PICK g : g = GetVector(w \o r)
      OBVIOUS
    <3>3. g = [is |-> v, rest |-> q] /\ Tail(g.rest) = r
      BY <2>6, <2>7, <2>8, <3>2
    <3>4. [g EXCEPT !.rest = r] = [is |-> v, rest |-> r]
      BY <3>3
    <3>5. [g EXCEPT !.rest = Tail(@)] = [g EXCEPT !.rest = r]
      BY <3>3
    <3> QED BY <3>1, <3>2, <3>4, <3>5
  <2> QED BY <2>1, <2>4, <2>5, <2>9 DEF Reads
<1> QED BY <1>1, <1>2, <1>3 DEF Param

\* The stream from the n-th parameter on: its lines, then those of the next one.
RestOf(W, n) == FlattenSeq(SubSeq(W, n, Len(W)))
RestNext(W, n) == RestOf(W, n) = W[n] \o RestOf(W, n + 1) /\ RestOf(W, n + 1) \in Seq(Lines)

LEMMA RestOfIs ==
  ASSUME NEW W \in Seq(Seq(Lines)), NEW n \in 1 .. Len(W) PROVE RestNext(W, n)
<1>1. PICK l \in Nat, j \in Nat, q \in Nat, k \in Nat :
         l = Len(W) /\ n = j + 1 /\ q = l - n /\ k = q + 1 /\ j + k = l /\ n + q = l
  <2>1. n - 1 \in Nat /\ n = (n - 1) + 1 /\ Len(W) - n \in Nat /\ Len(W) \in Nat
        /\ (Len(W) - n) + 1 \in Nat /\ (n - 1) + ((Len(W) - n) + 1) = Len(W)
        /\ n + (Len(W) - n) = Len(W)
    BY LenProperties
  <2> QED BY <2>1
<1>2. PICK r \in Seq(Seq(Lines)) : /\ r = SubSeq(W, n, l) /\ Len(r) = k
                                   /\ \A i \in 1 .. k : r[i] = W[j + i]
  <2>1. /\ SubSeq(W, j + 1, l) \in Seq(Seq(Lines)) /\ Len(SubSeq(W, j + 1, l)) = k
        /\ \A i \in 1 .. k : SubSeq(W, j + 1, l)[i] = W[j + i]
    BY <1>1, Dropped
  <2> QED BY <2>1, <1>1
<1>3. PICK g \in Seq(Seq(Lines)) : /\ g = SubSeq(W, n + 1, l) /\ Len(g) = q
                                   /\ \A i \in 1 .. q : g[i] = W[n + i]
  <2>1. /\ SubSeq(W, n + 1, l) \in Seq(Seq(Lines)) /\ Len(SubSeq(W, n + 1, l)) = q
        /\ \A i \in 1 .. q : SubSeq(W, n + 1, l)[i] = W[n + i]
    BY <1>1, Dropped
  <2> QED BY <2>1
<1>4. PICK x \in Seq(Lines), f \in Seq(Seq(Lines)) :
         x = W[n] /\ f = <<x>> /\ Len(f) = 1 /\ f[1] = x
  <2>1. W[n] \in Seq(Lines)
    BY ElementOfSeq
  <2> QED BY <2>1, OneOf
<1>5. \A i \in 1 .. 1 : r[i] = f[i]
  <2>1. 1 \in 1 .. k /\ j + 1 = n /\ \A i \in 1 .. 1 : i = 1
    BY <1>1
  <2>2. r[1] = W[j + 1]
    BY <2>1, <1>2
  <2> QED BY <2>1, <2>2, <1>4
<1>6. ASSUME NEW i \in 1 .. q PROVE r[1 + i] = g[i]
  <2>1. PICK o \in 1 .. k : o = 1 + i /\ j + o = n + i
    <3>1. 1 + i \in 1 .. k /\ j + (1 + i) = n + i
      BY <1>1
    <3> QED BY <3>1
  <2> QED BY <2>1, <1>2, <1>3
<1>7. k = 1 + q
  BY <1>1
<1>8. Follows(r, f, g, 1, q)
  BY <1>2, <1>3, <1>4, <1>5, <1>6, <1>7 DEF Follows
<1>9. r = f \o g
  BY <1>8, Piecewise
<1>10. FlattenSeq(r) = x \o FlattenSeq(g)
  BY <1>4, <1>9, FlattenHead
<1>11. FlattenSeq(g) \in Seq(Lines)
  BY FlattenType
<1> QED BY <1>1, <1>2, <1>3, <1>4, <1>10, <1>11 DEF RestNext, RestOf

\* The calls of get_param, one after the other.
ReadsEach(i, types, f) ==
    f = [n \in 1 .. Len(types) |->
            IF n = 1 THEN i ELSE GetParam(f[n - 1], types[n - 1]).rest]

LEMMA CallRead ==
  ASSUME NEW P, NEW ps \in Seq(P), \A n \in 1 .. Len(ps) : Param(ps[n])
  PROVE  ReadCall(WriteCall(ps), [n \in DOMAIN ps |-> ps[n].type]) = ps
<1>1. PICK l \in Nat : l = Len(ps) /\ DOMAIN ps = 1 .. l /\ \A n \in 1 .. l : Param(ps[n])
  BY LenProperties
<1>2. PICK types : types = [n \in 1 .. l |-> ps[n].type]
  OBVIOUS
<1>3. Len(types) = l
  <2>1. PICK S : types \in [1 .. l -> S]
    <3>1. types \in [1 .. l -> {ps[n].type : n \in 1 .. l}]
      BY <1>2
    <3> QED BY <3>1
  <2>2. types \in Seq(S)
    BY <2>1, SeqDef
  <2> QED BY <2>1, <2>2, LenProperties
<1>4. PICK e \in Seq(Lines) : e = <<>>
  BY EmptySeq
<1>5. PICK W : W = [n \in 1 .. l |-> Written(ps[n])]
  OBVIOUS
<1>6. \A n \in 1 .. l : Written(ps[n]) \in Seq(Lines)
  BY <1>1, <1>4, ParamRead
<1>7. W \in Seq(Seq(Lines)) /\ Len(W) = l
  <2>1. W \in [1 .. l -> Seq(Lines)]
    BY <1>5, <1>6
  <2>2. W \in Seq(Seq(Lines))
    BY <2>1, SeqDef
  <2> QED BY <2>1, <2>2, LenProperties
<1>8. \A n \in 1 .. l : RestNext(W, n)
  BY <1>7, RestOfIs
<1>9. \A n \in 1 .. l : /\ GetParam(RestOf(W, n), types[n]).is = ps[n].is
                      /\ GetParam(RestOf(W, n), types[n]).rest = RestOf(W, n + 1)
  <2> SUFFICES ASSUME NEW n \in 1 .. l
               PROVE  /\ GetParam(RestOf(W, n), types[n]).is = ps[n].is
                      /\ GetParam(RestOf(W, n), types[n]).rest = RestOf(W, n + 1)
    OBVIOUS
  <2>1. PICK r \in Seq(Lines) : r = RestOf(W, n + 1) /\ RestOf(W, n) = Written(ps[n]) \o r
    BY <1>5, <1>8 DEF RestNext
  <2>2. Reads(ps[n], r)
    BY <1>1, ParamRead
  <2>3. GetParam(RestOf(W, n), types[n]) = [is |-> ps[n].is, rest |-> r]
    BY <2>1, <2>2, <1>2 DEF Reads
  <2> QED BY <2>1, <2>3
<1>10. PICK i : i = WriteCall(ps)
  OBVIOUS
<1>11. i = RestOf(W, 1)
  <2>1. i = FlattenSeq(W)
    BY <1>1, <1>5, <1>10 DEF WriteCall
  <2>2. SubSeq(W, 1, l) = W
    BY <1>7, SubSeqFull
  <2> QED BY <2>1, <2>2, <1>7 DEF RestOf
<1>12. \E f : ReadsEach(i, types, f)
  <2>1. PICK f : f = [n \in 1 .. l |-> RestOf(W, n)]
    OBVIOUS
  <2>2. ASSUME NEW n \in 1 .. l
        PROVE  f[n] = IF n = 1 THEN i ELSE GetParam(f[n - 1], types[n - 1]).rest
    <3>1. CASE n = 1
      BY <3>1, <2>1, <1>11
    <3>2. CASE n # 1
      <4>1. PICK q \in 1 .. l : q = n - 1 /\ q + 1 = n
        BY <3>2
      <4>2. GetParam(f[q], types[q]).rest = RestOf(W, n)
        <5>1. GetParam(RestOf(W, q), types[q]).rest = RestOf(W, n)
          BY <4>1, <1>9
        <5> QED BY <5>1, <4>1, <2>1
      <4> QED BY <4>1, <4>2, <3>2, <2>1
    <3> QED BY <3>1, <3>2
  <2>3. f = [n \in 1 .. l |-> f[n]]
    BY <2>1
  <2>4. ReadsEach(i, types, f)
    BY <1>3, <2>2, <2>3 DEF ReadsEach
  <2> QED BY <2>4
<1>13. PICK f : /\ ReadsEach(i, types, f)
                /\ ReadCall(i, types) = [n \in 1 .. Len(types) |->
                       [type |-> types[n], is |-> GetParam(f[n], types[n]).is]]
  BY <1>12 DEF ReadCall, ReadsEach
<1>14. \A n \in 1 .. l : f[n] = IF n = 1 THEN i ELSE GetParam(f[n - 1], types[n - 1]).rest
  BY <1>3, <1>13 DEF ReadsEach
<1>15. \A n \in 1 .. l : f[n] = RestOf(W, n)
  <2> DEFINE G == {k \in Nat : k + 1 <= l => f[k + 1] = RestOf(W, k + 1)}
  <2>1. 0 \in G
    <3>1. 1 <= l => f[1] = i
      <4>1. 1 <= l => 1 \in 1 .. l
        OBVIOUS
      <4> QED BY <4>1, <1>14
    <3>2. 0 + 1 = 1
      OBVIOUS
    <3> QED BY <3>1, <3>2, <1>11
  <2>2. ASSUME NEW k \in G PROVE k + 1 \in G
    <3> SUFFICES ASSUME (k + 1) + 1 <= l PROVE f[(k + 1) + 1] = RestOf(W, (k + 1) + 1)
      OBVIOUS
    <3>1. PICK q \in 1 .. l, n \in 1 .. l : q = k + 1 /\ n = q + 1 /\ n - 1 = q /\ n # 1
      <4>1. /\ k + 1 \in 1 .. l /\ (k + 1) + 1 \in 1 .. l
            /\ ((k + 1) + 1) - 1 = k + 1 /\ (k + 1) + 1 # 1
        OBVIOUS
      <4> QED BY <4>1
    <3>2. f[q] = RestOf(W, q)
      BY <3>1
    <3>3. f[n] = GetParam(f[q], types[q]).rest
      BY <3>1, <1>14
    <3>4. GetParam(RestOf(W, q), types[q]).rest = RestOf(W, n)
      BY <3>1, <1>9
    <3>5. f[n] = RestOf(W, n)
      BY <3>2, <3>3, <3>4
    <3> QED BY <3>1, <3>5
  <2> HIDE DEF G
  <2>3. G = Nat
    <3>1. G \subseteq Nat
      BY DEF G
    <3> QED BY <2>1, <2>2, <3>1, NatSet
  <2> SUFFICES ASSUME NEW n \in 1 .. l PROVE f[n] = RestOf(W, n)
    OBVIOUS
  <2>4. PICK k \in Nat : n = k + 1
    <3>1. n - 1 \in Nat /\ n = (n - 1) + 1
      OBVIOUS
    <3> QED BY <3>1
  <2>5. k \in G /\ k + 1 <= l
    BY <2>3, <2>4
  <2> QED BY <2>4, <2>5 DEF G
<1>16. \A n \in 1 .. l : [type |-> types[n], is |-> GetParam(f[n], types[n]).is] = ps[n]
  <2> SUFFICES ASSUME NEW n \in 1 .. l
               PROVE  [type |-> types[n], is |-> GetParam(f[n], types[n]).is] = ps[n]
    OBVIOUS
  <2>1. GetParam(f[n], types[n]).is = ps[n].is
    BY <1>9, <1>15
  <2>2. ps[n] = [type |-> ps[n].type, is |-> ps[n].is]
    BY <1>1 DEF Param
  <2> QED BY <2>1, <2>2, <1>2
<1>17. ReadCall(i, types) = [n \in 1 .. l |-> ps[n]]
  BY <1>3, <1>13, <1>16
<1>18. ps = [n \in 1 .. l |-> ps[n]]
  BY <1>1, LenProperties
<1> QED BY <1>1, <1>2, <1>10, <1>17, <1>18

LEMMA UpToLongIs ==
  ASSUME NEW n \in Nat, NEW S, NEW s \in UpToLong(n, S)
  PROVE  s \in Seq(S) /\ Len(s) \in 0 .. n
<1>1. PICK q \in 0 .. n : s \in [1 .. q -> S]
  BY DEF UpToLong
<1>2. q \in Nat
  OBVIOUS
<1>3. s \in Seq(S)
  BY <1>1, <1>2, SeqDef
<1> QED BY <1>1, <1>2, <1>3, LenProperties

-----------------------------------------------------------------------------
(* What the program holds to write and to read.                            *)
TextInv ==
    \/ /\ item.kind = "list" /\ item = [kind |-> "list", of |-> item.of]
       /\ item.of \in Seq(Seq(Chars))
    \/ /\ item.kind = "map" /\ item = [kind |-> "map", of |-> item.of]
       /\ item.of \in Seq(Seq(Chars) \X Seq(Chars))
    \/ /\ item.kind = "call" /\ item = [kind |-> "call", of |-> item.of]
       /\ \E P : item.of \in Seq(P)
       /\ \A n \in 1 .. Len(item.of) : Param(item.of[n])

LEMMA TextsAre == ListTexts \subseteq Seq(Chars) /\ MapTexts \subseteq Seq(Chars)
<1>1. STRING \subseteq Chars
  BY DEF Chars
<1>2. \A s \in Seq(STRING) : s \in Seq(Chars)
  BY <1>1, SeqLarger
<1> QED BY <1>2, TextAssumption

LEMMA ParamsAre == ASSUME NEW p \in Params PROVE Param(p)
<1>1. MaxSize \in Nat /\ \A n \in 0 .. MaxSize : n \in 0 .. 9
  BY TextAssumption
<1>2. CASE p \in [type : {"string"}, is : ListTexts]
  <2>1. p = [type |-> p.type, is |-> p.is] /\ p.type = "string" /\ p.is \in ListTexts
    BY <1>2
  <2> QED BY <2>1, TextsAre DEF Param
<1>3. CASE p \in [type : {"number"}, is : 0 .. MaxSize]
  <2>1. p = [type |-> p.type, is |-> p.is] /\ p.type = "number" /\ p.is \in 0 .. MaxSize
    BY <1>3
  <2> QED BY <2>1, <1>1 DEF Param
<1>4. CASE p \in [type : {"vector"}, is : UpToLong(MaxSize, MapTexts)]
  <2>1. /\ p = [type |-> p.type, is |-> p.is] /\ p.type = "vector"
        /\ p.is \in UpToLong(MaxSize, MapTexts)
    BY <1>4
  <2>2. p.is \in Seq(MapTexts) /\ Len(p.is) \in 0 .. MaxSize
    BY <2>1, <1>1, UpToLongIs
  <2>3. p.is \in Seq(Seq(Chars))
    BY <2>2, TextsAre, SeqLarger
  <2> QED BY <2>1, <2>2, <2>3, <1>1 DEF Param
<1> QED BY <1>2, <1>3, <1>4 DEF Params

LEMMA TextInitially == TextInit => TextInv
<1> SUFFICES ASSUME TextInit PROVE TextInv
  OBVIOUS
<1>0. MaxListed \in Nat
  BY TextAssumption
<1>1. CASE \E func \in MapTexts, ps \in UpToLong(MaxListed, Params) :
             item = [kind |-> "call", of |-> <<[type |-> "string", is |-> func]>> \o ps]
  <2>1. PICK func \in MapTexts, ps \in UpToLong(MaxListed, Params) :
           item = [kind |-> "call", of |-> <<[type |-> "string", is |-> func]>> \o ps]
    BY <1>1
  <2>2. ps \in Seq(Params)
    BY <1>0, UpToLongIs
  <2>3. PICK f : f = [type |-> "string", is |-> func]
    OBVIOUS
  <2>4. Param(f)
    <3>1. f = [type |-> f.type, is |-> f.is] /\ f.type = "string" /\ f.is \in Seq(Chars)
      BY <2>3, TextsAre
    <3> QED BY <3>1 DEF Param
  <2>5. PICK P : P = Params \cup {f}
    OBVIOUS
  <2>6. PICK c \in Seq(P) : c = <<f>> \o ps
    <3>1. ps \in Seq(P)
      BY <2>2, <2>5, SeqLarger
    <3>2. <<f>> \in Seq(P)
      BY <2>5, OneOf
    <3> QED BY <3>1, <3>2, ConcatProperties
  <2>7. \A n \in 1 .. Len(c) : Param(c[n])
    BY <2>4, <2>5, <2>6, ParamsAre, ElementOfSeq
  <2>8. item = [kind |-> "call", of |-> c]
    BY <2>1, <2>3, <2>6
  <2> QED BY <2>6, <2>7, <2>8 DEF TextInv
<1>2. CASE \E l \in UpToLong(MaxListed, ListTexts) : item = [kind |-> "list", of |-> l]
  <2>1. PICK l \in UpToLong(MaxListed, ListTexts) : item = [kind |-> "list", of |-> l]
    BY <1>2
  <2>2. l \in Seq(ListTexts)
    BY <1>0, UpToLongIs
  <2>3. l \in Seq(Seq(Chars))
    BY <2>2, TextsAre, SeqLarger
  <2> QED BY <2>1, <2>3 DEF TextInv
<1>3. CASE \E l \in UpToLong(MaxListed, MapTexts \X MapTexts) : item = [kind |-> "map", of |-> l]
  <2>1. PICK l \in UpToLong(MaxListed, MapTexts \X MapTexts) :
           item = [kind |-> "map", of |-> l]
    BY <1>3
  <2>2. l \in Seq(MapTexts \X MapTexts)
    BY <1>0, UpToLongIs
  <2>3. MapTexts \X MapTexts \subseteq Seq(Chars) \X Seq(Chars)
    BY TextsAre
  <2>4. l \in Seq(Seq(Chars) \X Seq(Chars))
    BY <2>2, <2>3, SeqLarger
  <2> QED BY <2>1, <2>4 DEF TextInv
<1> QED BY <1>1, <1>2, <1>3 DEF TextInit

LEMMA ReadBackKeeps == TextInv /\ ReadBack => item' = item
<1> SUFFICES ASSUME TextInv, ReadBack PROVE item' = item
  OBVIOUS
<1>1. ReadAgain(item) = item.of
  <2>1. CASE item.kind = "list" /\ item.of \in Seq(Seq(Chars))
    BY <2>1, ListRead DEF ReadAgain
  <2>2. CASE item.kind = "map" /\ item.of \in Seq(Seq(Chars) \X Seq(Chars))
    BY <2>2, MapRead DEF ReadAgain
  <2>3. CASE /\ item.kind = "call" /\ \E P : item.of \in Seq(P)
             /\ \A n \in 1 .. Len(item.of) : Param(item.of[n])
    <3>1. PICK ps, P : ps = item.of /\ ps \in Seq(P) /\ \A n \in 1 .. Len(ps) : Param(ps[n])
      BY <2>3
    <3>2. ReadCall(WriteCall(ps), [n \in DOMAIN ps |-> ps[n].type]) = ps
      BY <3>1, CallRead
    <3> QED BY <2>3, <3>1, <3>2 DEF ReadAgain
  <2> QED BY <2>1, <2>2, <2>3 DEF TextInv
<1>2. PICK k, o : item = [kind |-> k, of |-> o] /\ o = item.of
  BY DEF TextInv
<1> QED BY <1>1, <1>2 DEF ReadBack

(* Vectors and maps of strings and the parameters of calls are read as     *)
(* they were written, whatever their strings hold.                         *)
THEOREM ItemsSurviveCorrect == TextSpec => ItemsSurvive
<1>1. TextInv /\ [ReadBack]_item => TextInv' /\ [item' = item]_item
  <2>1. ASSUME TextInv, ReadBack PROVE TextInv' /\ item' = item
    <3>1. item' = item
      BY <2>1, ReadBackKeeps
    <3> QED BY <2>1, <3>1 DEF TextInv
  <2>2. ASSUME TextInv, UNCHANGED item PROVE TextInv' /\ item' = item
    BY <2>2 DEF TextInv
  <2> QED BY <2>1, <2>2
<1> QED
  BY TextInitially, <1>1, PTL DEF TextSpec, ItemsSurvive
=============================================================================
