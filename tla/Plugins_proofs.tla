-------------------------- MODULE Plugins_proofs --------------------------
(***************************************************************************)
(* Theorems about Plugins, for any files, configurations and number of      *)
(* loads, with failures, duplicates and reloads from another thread.        *)
(*                                                                          *)
(* The argument: a file determines the id of its plugins, so with unique    *)
(* ids there is at most one loaded plugin per file.  While a plugin is      *)
(* being replaced its library is open twice if the old object comes from    *)
(* the same file (Fresh): one of them survives the dlclose of del_plugin.   *)
(***************************************************************************)
EXTENDS Plugins, SequenceFacts, TLAPS

\* The object that is loaded but not yet added has its own dlopen, besides
\* that of a loaded plugin from the same file.
Fresh ==
    lpc = "replace" =>
        /\ cur \in alive /\ cur \notin Loaded
        /\ refs[made[cur]] > 0
        /\ (\E o \in Loaded : made[o] = made[cur]) => refs[made[cur]] > 1

\* The inductive invariant.
PInv == TypeOK /\ UniqueIds /\ CodeMapped /\ Fresh

LEMMA LoadedIndex ==
  ASSUME TypeOK
  PROVE  /\ Len(plugins) \in Nat
         /\ \A o : o \in Loaded <=> \E i \in 1..Len(plugins) : plugins[i] = o
         /\ \A i \in 1..Len(plugins) : plugins[i] \in Objects /\ plugins[i] \in Loaded
         /\ Loaded \subseteq Objects
         /\ Len(made) \in Nat
         /\ \A o \in Objects : made[o] \in Files /\ Id(o) \in Ids
<1>1. plugins \in Seq(Objects) /\ made \in Seq(Files)
  BY DEF TypeOK
<1>2. \A o : o \in Loaded <=> \E i \in 1..Len(plugins) : plugins[i] = o
  BY <1>1, ToSetFacts DEF Loaded
<1>3. \A i \in 1..Len(plugins) : plugins[i] \in Objects
  BY <1>1, ElementOfSeq
<1>4. \A o \in Objects : made[o] \in Files
  BY <1>1, ElementOfSeq DEF Objects
<1>5. Len(plugins) \in Nat /\ Len(made) \in Nat
  BY <1>1, LenProperties
<1> QED BY <1>2, <1>3, <1>4, <1>5, PluginsAssumption DEF Id

LEMMA InitPInv == Init => PInv
<1> SUFFICES ASSUME Init PROVE PInv
  OBVIOUS
<1>1. /\ <<>> \in Seq(Files) /\ <<>> \in Seq(Objects)
      /\ Len(plugins) = 0
  BY EmptySeq DEF Init
<1>2. TypeOK
  BY <1>1 DEF Init, TypeOK
<1>3. UniqueIds
  BY <1>1 DEF UniqueIds
<1>4. Loaded = {}
  BY <1>1, <1>2, LoadedIndex
<1> QED BY <1>2, <1>3, <1>4 DEF PInv, CodeMapped, Fresh, Init

\* Steps that leave the objects, the libraries and the plugins alone.
LEMMA QuietPInv ==
  ASSUME PInv, TypeOK',
         UNCHANGED <<made, alive, refs, plugins>>,
         lpc' = "replace" => UNCHANGED <<lpc, cur>>
  PROVE  PInv'
<1>1. UniqueIds'
  BY DEF PInv, UniqueIds, Id
<1>2. CodeMapped'
  BY DEF PInv, CodeMapped, Loaded
<1>3. Fresh'
  BY DEF PInv, Fresh, Loaded
<1> QED BY <1>1, <1>2, <1>3 DEF PInv

\* A new object: nobody is older, and its library has been opened for it.
LEMMA OpenPInv == PInv /\ Open => PInv'
<1> SUFFICES ASSUME PInv, Open PROVE PInv'
  OBVIOUS
<1> USE DEF PInv
<1> DEFINE f == Head(lines)
           n == Len(made) + 1
<1>1. /\ f \in Files
      /\ made' = Append(made, f)
      /\ made' \in Seq(Files)
      /\ Len(made') = n
      /\ \A o \in Objects : made'[o] = made[o]
      /\ made'[n] = f
      /\ n \notin Objects /\ Objects \subseteq Objects' /\ n \in Objects'
  <2>1. f \in Files /\ made \in Seq(Files) /\ Len(made) \in Nat
    BY HeadTailProperties, LenProperties DEF Open, TypeOK
  <2>2. made' = Append(made, f)
    BY DEF Open
  <2> QED BY <2>1, <2>2, AppendProperties DEF Objects
<1>2. cur' = n /\ alive' = alive \cup {n} /\ refs' = [refs EXCEPT ![f] = @ + 1]
  BY <1>1 DEF Open, Opened
<1>3. TypeOK'
  <2>1. plugins' \in Seq(Objects')
    BY <1>1, SeqMonotonic DEF Open, TypeOK
  <2>2. commands' \in [Commands -> {0} \cup Objects']
    BY <1>1 DEF Open, TypeOK
  <2>3. refs' \in [Files -> Nat]
    BY <1>1, <1>2 DEF TypeOK
  <2>4. alive' \subseteq Objects' /\ monitors' \subseteq Objects' /\ calling' \subseteq Objects'
    BY <1>1, <1>2 DEF Open, TypeOK
  <2>5. cur' \in Objects' /\ cur' \in Nat
    BY <1>1, <1>2, LoadedIndex
  <2> QED BY <1>1, <2>1, <2>2, <2>3, <2>4, <2>5 DEF Open, TypeOK
<1>4. Loaded' = Loaded /\ Loaded \subseteq Objects
  BY LoadedIndex DEF Open, Loaded
<1>5. UniqueIds'
  BY <1>1, LoadedIndex DEF UniqueIds, Id, Open
<1>6. CodeMapped'
  <2>1. refs \in [Files -> Nat]
    BY DEF TypeOK
  <2>2. \A g \in Files : refs[g] > 0 => refs'[g] > 0
    BY <1>1, <1>2, <2>1
  <2>3. \A o \in Loaded : made'[o] = made[o] /\ made[o] \in Files
    BY <1>1, <1>4, LoadedIndex
  <2> QED BY <1>2, <1>4, <2>2, <2>3 DEF CodeMapped
<1>7. Fresh'
  <2>1. refs'[f] = refs[f] + 1 /\ refs[f] \in Nat
    BY <1>1, <1>2 DEF TypeOK
  <2>2. \A o \in Loaded : made'[o] = f => refs[f] > 0
    BY <1>1, <1>4 DEF CodeMapped
  <2> HIDE DEF f, n
  <2>3. made'[cur'] = f /\ cur' \in alive' /\ cur' \notin Loaded'
    BY <1>1, <1>2, <1>4
  <2>4. refs'[made'[cur']] > 0
    BY <2>1, <2>3
  <2>5. (\E o \in Loaded' : made'[o] = f) => refs'[f] > 1
    BY <1>4, <2>1, <2>2
  <2> QED BY <2>3, <2>4, <2>5 DEF Fresh
<1> QED BY <1>3, <1>5, <1>6, <1>7

\* Taking one plugin out keeps the others, each with its own id.
LEMMA RemovedFacts ==
  ASSUME TypeOK, UniqueIds, NEW i \in 1..Len(plugins),
         made' = made, plugins' = RemoveAt(plugins, i)
  PROVE  /\ plugins' \in Seq(Objects')
         /\ UniqueIds'
         /\ Loaded' = Loaded \ {plugins[i]}
         /\ \A o \in Loaded' : Id(o) # Id(plugins[i])
<1>1. /\ plugins \in Seq(Objects) /\ Objects' = Objects
      /\ Len(plugins) \in Nat
  BY LoadedIndex DEF TypeOK, Objects
<1>2. /\ plugins' \in Seq(Objects)
      /\ Len(plugins') = Len(plugins) - 1
      /\ \A j \in 1..(Len(plugins) - 1) :
            plugins'[j] = IF j < i THEN plugins[j] ELSE plugins[j + 1]
  BY <1>1, RemoveAtFacts
<1>3. UniqueIds'
  BY <1>1, <1>2 DEF UniqueIds, Id
<1>4. \A o : o \in Loaded' <=> \E j \in 1..Len(plugins') : plugins'[j] = o
  BY <1>2, ToSetFacts DEF Loaded
<1>5. \A o : o \in Loaded <=> \E j \in 1..Len(plugins) : plugins[j] = o
  BY LoadedIndex
<1>6. \A o \in Loaded' : o \in Loaded /\ Id(o) # Id(plugins[i])
  <2> TAKE o \in Loaded'
  <2>1. PICK j \in 1..(Len(plugins) - 1) : plugins'[j] = o
    BY <1>2, <1>4
  <2>2. PICK k \in 1..Len(plugins) : k # i /\ plugins[k] = o
    <3>1. CASE j < i
      BY <3>1, <2>1, <1>1, <1>2
    <3>2. CASE ~(j < i)
      <4>1. j + 1 \in 1..Len(plugins) /\ j + 1 # i
        BY <3>2, <1>1
      <4> QED BY <3>2, <4>1, <2>1, <1>2
    <3> QED BY <3>1, <3>2
  <2> QED BY <2>2, <1>5 DEF UniqueIds
<1>7. \A o \in Loaded : o # plugins[i] => o \in Loaded'
  <2> SUFFICES ASSUME NEW o \in Loaded, o # plugins[i] PROVE o \in Loaded'
    OBVIOUS
  <2>1. PICK k \in 1..Len(plugins) : plugins[k] = o
    BY <1>5
  <2>2. CASE k < i
    <3>1. k \in 1..(Len(plugins) - 1) /\ plugins'[k] = o
      BY <2>1, <2>2, <1>1, <1>2
    <3> QED BY <3>1, <1>2, <1>4
  <2>3. CASE k > i
    <3>1. k - 1 \in 1..(Len(plugins) - 1) /\ ~(k - 1 < i) /\ (k - 1) + 1 = k
      BY <2>3, <1>1
    <3>2. plugins'[k - 1] = o
      BY <2>1, <3>1, <1>2
    <3> QED BY <3>1, <3>2, <1>2, <1>4
  <2> QED BY <2>1, <2>2, <2>3, <1>1
<1> QED BY <1>1, <1>2, <1>3, <1>6, <1>7

\* del_plugin: the other plugins come from other files, and the plugin that
\* is being added keeps the library open if it comes from this one.
LEMMA DeletePInv == PInv /\ DeletePlugin => PInv'
<1> SUFFICES ASSUME PInv, DeletePlugin PROVE PInv'
  OBVIOUS
<1> USE DEF PInv
<1>1. PICK i \in Namesakes : Delete(i)
  BY DEF DeletePlugin
<1> DEFINE o == plugins[i]
           g == made[o]
<1>2. /\ i \in 1..Len(plugins)
      /\ Id(o) = Id(cur)
      /\ o \in Loaded /\ o \in Objects /\ g \in Files
      /\ cur \in Objects
      /\ UNCHANGED <<made, commands, loadVars, calling, lost>>
  BY LoadedIndex DEF Namesakes, DeletePlugin, TypeOK
<1>3. /\ refs' = [refs EXCEPT ![g] = @ - 1]
      /\ alive' = alive \ {o}
      /\ monitors' = monitors \ {o}
      /\ plugins' = RemoveAt(plugins, i)
  BY <1>1 DEF Delete
<1>4. refs[g] \in Nat /\ refs[g] > 0 /\ refs[g] - 1 \in Nat
  BY <1>2 DEF CodeMapped, TypeOK
<1>5. /\ plugins' \in Seq(Objects')
      /\ UniqueIds'
      /\ Loaded' = Loaded \ {o}
      /\ \A p \in Loaded' : Id(p) # Id(o)
  BY <1>2, <1>3, RemovedFacts
<1>6. refs' \in [Files -> Nat] /\ refs'[g] = refs[g] - 1
      /\ \A h \in Files : h # g => refs'[h] = refs[h]
  BY <1>2, <1>3, <1>4 DEF TypeOK
<1>7. \A p \in Loaded' : p # o /\ p \in Objects /\ made[p] \in Files /\ made[p] # g
  BY <1>5, LoadedIndex DEF Id
<1>8. TypeOK'
  <2>1. Objects' = Objects
    BY <1>2 DEF Objects
  <2> QED BY <2>1, <1>2, <1>3, <1>5, <1>6 DEF TypeOK, loadVars
<1>9. CodeMapped'
  BY <1>2, <1>3, <1>5, <1>6, <1>7 DEF CodeMapped
<1>10. Fresh'
  <2> SUFFICES ASSUME lpc = "replace" PROVE Fresh'
    BY <1>2 DEF Fresh, loadVars
  <2>1. cur \in alive /\ cur \notin Loaded /\ refs[made[cur]] > 0
    BY DEF Fresh
  <2>2. cur' = cur /\ lpc' = lpc /\ made' = made
    BY <1>2 DEF loadVars
  <2>3. cur \in alive' /\ cur \notin Loaded'
    BY <2>1, <1>2, <1>3, <1>5
  <2>4. \A p \in Loaded' : made[p] # made[cur]
    BY <1>2, <1>5 DEF Id
  <2>5. refs'[made[cur]] > 0
    <3>1. CASE made[cur] = g
      <4>1. refs[g] > 1
        BY <3>1, <1>2 DEF Fresh
      <4> QED BY <3>1, <4>1, <1>4, <1>6
    <3>2. CASE made[cur] # g
      BY <3>2, <2>1, <1>2, <1>6, LoadedIndex
    <3> QED BY <3>1, <3>2
  <2> QED BY <2>2, <2>3, <2>4, <2>5 DEF Fresh
<1> QED BY <1>5, <1>8, <1>9, <1>10

\* add_plugin: nobody else has the id by now.
LEMMA AddPInv == PInv /\ Add => PInv'
<1> SUFFICES ASSUME PInv, Add PROVE PInv'
  OBVIOUS
<1> USE DEF PInv
<1>1. /\ plugins \in Seq(Objects) /\ cur \in Objects /\ Id(cur) \in Ids
      /\ cur \in alive /\ refs[made[cur]] > 0
      /\ \A i \in 1..Len(plugins) : Id(plugins[i]) # Id(cur)
      /\ UNCHANGED <<made, alive, refs, commands, monitors, loader, loads, cur, pos,
                     calling, lost>>
      /\ plugins' = Append(plugins, cur)
  BY LoadedIndex DEF Add, Namesakes, Fresh, TypeOK
<1>2. /\ plugins' \in Seq(Objects)
      /\ Len(plugins') = Len(plugins) + 1 /\ Len(plugins) \in Nat
      /\ \A i \in 1..Len(plugins) : plugins'[i] = plugins[i]
      /\ plugins'[Len(plugins) + 1] = cur
  BY <1>1, AppendProperties, LenProperties
<1>3. TypeOK'
  <2>1. Objects' = Objects
    BY <1>1 DEF Objects
  <2>2. ids' \in SUBSET Ids
    BY <1>1 DEF Add, TypeOK
  <2>3. /\ lines' \in Seq(Files)
        /\ lpc' = "duplicate" => lines' # <<>>
        /\ lpc' \in {"duplicate", "line"}
    <3>1. lpc = "replace" /\ lines \in Seq(Files) /\ lines # <<>>
      BY DEF Add, TypeOK
    <3>2. Tail(lines) \in Seq(Files)
      BY <3>1, HeadTailProperties
    <3>3. \/ lpc' = "duplicate" /\ lines' = lines
          \/ lpc' = "line" /\ lines' = Tail(lines)
      BY DEF Add
    <3> QED BY <3>1, <3>2, <3>3
  <2> QED BY <1>1, <1>2, <2>1, <2>2, <2>3 DEF TypeOK
<1>4. UniqueIds'
  <2>1. \A i, j \in 1..Len(plugins') :
           Id(plugins'[i]) = Id(plugins'[j]) => i = j
    BY <1>1, <1>2 DEF UniqueIds
  <2> QED BY <1>1, <2>1 DEF UniqueIds, Id
<1>5. \A o \in Loaded' : o \in Loaded \/ o = cur
  <2>1. \A o : o \in Loaded' <=> \E i \in 1..Len(plugins') : plugins'[i] = o
    BY <1>2, ToSetFacts DEF Loaded
  <2> QED BY <2>1, <1>2, LoadedIndex
<1>6. CodeMapped'
  BY <1>1, <1>5 DEF CodeMapped
<1>7. Fresh'
  BY DEF Fresh, Add
<1> QED BY <1>3, <1>4, <1>6, <1>7

\* A plugin that fails is taken out; its library stays open.
LEMMA InitFailsPInv == PInv /\ InitFails => PInv'
<1> SUFFICES ASSUME PInv, InitFails PROVE PInv'
  OBVIOUS
<1> USE DEF PInv
<1>1. /\ pos \in 1..Len(plugins)
      /\ plugins' = RemoveAt(plugins, pos)
      /\ alive' = alive \ {plugins[pos]}
      /\ lost' = lost \cup {Id(plugins[pos])}
      /\ UNCHANGED <<made, refs, commands, monitors, loadVars, calling>>
  BY LoadedIndex DEF InitFails, TypeOK
<1>2. /\ plugins' \in Seq(Objects')
      /\ UniqueIds'
      /\ Loaded' = Loaded \ {plugins[pos]}
  BY <1>1, RemovedFacts
<1>3. TypeOK'
  <2>1. Objects' = Objects
    BY <1>1 DEF Objects
  <2>2. Id(plugins[pos]) \in Ids
    BY <1>1, LoadedIndex
  <2> QED BY <2>1, <2>2, <1>1, <1>2 DEF TypeOK, loadVars
<1>4. CodeMapped'
  BY <1>1, <1>2 DEF CodeMapped
<1>5. Fresh'
  BY <1>1 DEF Fresh, InitFails, loadVars
<1> QED BY <1>2, <1>3, <1>4, <1>5

\* dlopen that comes to nothing may leave the library open once more.
LEMMA OpenFailsPInv == PInv /\ OpenFails => PInv'
<1> SUFFICES ASSUME PInv, OpenFails PROVE PInv'
  OBVIOUS
<1> USE DEF PInv
<1>1. Head(lines) \in Files /\ lines' \in Seq(Files)
  BY HeadTailProperties DEF OpenFails, TypeOK
<1>2. /\ refs' \in [Files -> Nat]
      /\ \A f \in Files : refs'[f] \in Nat /\ refs[f] \in Nat /\ refs'[f] >= refs[f]
  <2>1. refs \in [Files -> Nat]
    BY DEF TypeOK
  <2>2. CASE refs' = refs
    BY <2>1, <2>2
  <2>3. CASE refs' = [refs EXCEPT ![Head(lines)] = @ + 1]
    BY <2>1, <2>3, <1>1
  <2> QED BY <2>2, <2>3 DEF OpenFails, Opened
<1>3. TypeOK'
  BY <1>1, <1>2 DEF OpenFails, TypeOK, Objects
<1>4. UniqueIds'
  BY DEF UniqueIds, Id, OpenFails
<1>5. CodeMapped'
  <2>1. Loaded' = Loaded /\ made' = made /\ alive' = alive
    BY DEF OpenFails, Loaded
  <2>2. \A o \in Loaded : refs[made[o]] \in Nat /\ refs'[made[o]] \in Nat
                          /\ refs'[made[o]] >= refs[made[o]]
    BY <1>2, LoadedIndex
  <2> QED BY <2>1, <2>2 DEF CodeMapped
<1>6. Fresh'
  BY DEF Fresh, OpenFails
<1> QED BY <1>3, <1>4, <1>5, <1>6

LEMMA NextPInv == PInv /\ [Next]_vars => PInv'
<1> SUFFICES ASSUME PInv, [Next]_vars PROVE PInv'
  OBVIOUS
<1>1. CASE Load
  <2>1. TypeOK'
    BY <1>1, PluginsAssumption DEF PInv, Load, TypeOK, Objects
  <2> QED BY <1>1, <2>1, QuietPInv DEF Load
<1>2. CASE OpenFails
  BY <1>2, OpenFailsPInv
<1>3. CASE Open
  BY <1>3, OpenPInv
<1>4. CASE DeletePlugin
  BY <1>4, DeletePInv
<1>5. CASE Add
  BY <1>5, AddPInv
<1>6. CASE DuplicateGone
  <2>1. lines' \in Seq(Files) /\ Id(cur) \in Ids
    BY <1>6, HeadTailProperties, LoadedIndex DEF PInv, DuplicateGone, TypeOK
  <2>2. TypeOK'
    BY <1>6, <2>1 DEF PInv, DuplicateGone, TypeOK, Objects
  <2> QED BY <1>6, <2>2, QuietPInv DEF DuplicateGone
<1>7. CASE AllLoaded
  <2>1. TypeOK'
    BY <1>7 DEF PInv, AllLoaded, TypeOK, Objects
  <2> QED BY <1>7, <2>1, QuietPInv DEF AllLoaded
<1>8. CASE InitPlugin
  <2>1. plugins[pos] \in Objects
    BY <1>8, LoadedIndex DEF PInv, InitPlugin, TypeOK
  <2>2. commands' \in [Commands -> {0} \cup Objects] /\ monitors' \subseteq Objects
    BY <1>8, <2>1 DEF PInv, InitPlugin, Registered, TypeOK
  <2>3. TypeOK'
    BY <1>8, <2>2 DEF PInv, InitPlugin, TypeOK, Objects
  <2> QED BY <1>8, <2>3, QuietPInv DEF InitPlugin
<1>9. CASE InitFails
  BY <1>9, InitFailsPInv
<1>10. CASE AllInitialised
  <2>1. TypeOK'
    BY <1>10 DEF PInv, AllInitialised, TypeOK, Objects
  <2> QED BY <1>10, <2>1, QuietPInv DEF AllInitialised
<1>11. CASE Main
  <2>1. calling' \subseteq Objects
    BY <1>11 DEF PInv, Main, Event, Execute, Called, TypeOK
  <2>2. UNCHANGED <<made, alive, refs, plugins, commands, monitors, loadVars, lost>>
    BY <1>11 DEF Main, Event, Execute, Called
  <2>3. TypeOK'
    BY <2>1, <2>2 DEF PInv, TypeOK, Objects, loadVars
  <2> QED BY <2>2, <2>3, QuietPInv DEF loadVars
<1>12. CASE UNCHANGED vars
  <2>1. TypeOK'
    BY <1>12 DEF PInv, TypeOK, Objects, vars, loadVars
  <2> QED BY <1>12, <2>1, QuietPInv DEF vars, loadVars
<1> QED BY <1>1, <1>2, <1>3, <1>4, <1>5, <1>6, <1>7, <1>8, <1>9, <1>10, <1>11, <1>12
        DEF Next, Loader

LEMMA AlwaysPInv == Spec => []PInv
BY InitPInv, NextPInv, PTL DEF Spec

\* Every variable keeps its type, in particular no reference count ever goes
\* below zero: dlclose is called at most once per dlopen.
THEOREM TypeCorrect == Spec => []TypeOK
<1>1. PInv => TypeOK
  BY DEF PInv
<1> QED BY <1>1, AlwaysPInv, PTL

\* No two loaded plugins ever have the same id.
THEOREM UniqueIdsCorrect == Spec => []UniqueIds
<1>1. PInv => UniqueIds
  BY DEF PInv
<1> QED BY <1>1, AlwaysPInv, PTL

\* The code of every loaded plugin is mapped, through reloads, duplicates and
\* failures.
THEOREM CodeMappedCorrect == Spec => []CodeMapped
<1>1. PInv => CodeMapped
  BY DEF PInv
<1> QED BY <1>1, AlwaysPInv, PTL

\* What is destroyed still has its code, but for the two cases that
\* SafelyDestroyed names: the second plugin of a duplicate id, and an id that
\* another file takes over.
THEOREM SafelyDestroyedCorrect == Spec => SafelyDestroyed
<1> DEFINE Safe == \A o \in alive \ alive' :
               refs'[made[o]] > 0 \/ lpc = "duplicate" \/ made[cur] # made[o]
<1>1. PInv /\ [Next]_vars => [Safe]_vars
  <2> SUFFICES ASSUME PInv, [Next]_vars, NEW o \in alive, o \notin alive'
               PROVE  refs'[made[o]] > 0 \/ lpc = "duplicate" \/ made[cur] # made[o]
    OBVIOUS
  <2>1. CASE DeletePlugin
    <3>1. PICK i \in Namesakes : Delete(i)
      BY <2>1 DEF DeletePlugin
    <3>2. /\ o = plugins[i] /\ o \in Loaded
          /\ refs' = [refs EXCEPT ![made[o]] = @ - 1]
          /\ made[o] \in Files
      BY <3>1, LoadedIndex DEF PInv, Delete, Namesakes
    <3>3. CASE lpc = "replace" /\ made[cur] = made[o]
      <4>1. refs[made[o]] > 1 /\ refs[made[o]] \in Nat
        BY <3>2, <3>3 DEF PInv, Fresh, TypeOK
      <4>2. refs'[made[o]] = refs[made[o]] - 1
        BY <3>2 DEF PInv, TypeOK
      <4> QED BY <4>1, <4>2
    <3> QED BY <2>1, <3>3 DEF DeletePlugin
  <2>2. CASE InitFails
    <3>1. o \in Loaded /\ refs' = refs
      BY <2>2, LoadedIndex DEF PInv, InitFails, TypeOK
    <3> QED BY <3>1 DEF PInv, CodeMapped
  <2>3. CASE ~DeletePlugin /\ ~InitFails
    BY <2>3 DEF Next, Loader, Main, vars, loadVars, Load, OpenFails, Open, Add,
                DuplicateGone, AllLoaded, InitPlugin, AllInitialised, Event,
                Execute, Called
  <2> QED BY <2>1, <2>2, <2>3
<1> QED BY <1>1, AlwaysPInv, PTL DEF Spec, SafelyDestroyed
-----------------------------------------------------------------------------
(* The tables.  An entry of commands may lead to a destroyed object, but    *)
(* its id is Known: it has failed, or belongs to a loaded plugin, or to the *)
(* one that is being loaded.  If that one comes from the same file it lists *)
(* the command, so the init loop replaces the entry when it gets there.     *)

Known(x) ==
    \/ x \in lost
    \/ \E p \in Loaded : Id(p) = x
    \/ lpc \in {"replace", "duplicate"} /\ Id(cur) = x

Owned ==
    \A c \in Commands :
        commands[c] # 0 => c \in ListOf(made[commands[c]]) /\ Known(Id(commands[c]))

\* Where the init loop has been; outside of loads, everywhere.
Initialised ==
    {i \in 1..Len(plugins) : lpc = "idle" \/ (lpc = "init" /\ i < pos)}

Served ==
    \A i \in Initialised : \A c \in ListOf(made[plugins[i]]) :
        \E j \in Initialised : commands[c] = plugins[j]

Watched == \A i \in Initialised : made[plugins[i]] \in Watchers => plugins[i] \in monitors

Monitored == \A o \in monitors : o \in Loaded \/ Id(o) \in lost

Tables == Owned /\ Served /\ Watched /\ Monitored

LEMMA InitTables == Init => Tables
<1> SUFFICES ASSUME Init PROVE Tables
  OBVIOUS
<1>1. Initialised = {}
  BY DEF Init, Initialised
<1>2. Owned /\ Monitored
  BY DEF Init, Owned, Monitored
<1> QED BY <1>1, <1>2 DEF Tables, Served, Watched

\* Steps that leave the tables and the plugins alone, and forget no id.
LEMMA QuietTables ==
  ASSUME Tables,
         UNCHANGED <<made, plugins, commands, monitors>>,
         lost \subseteq lost',
         \A x : Known(x) => Known(x)',
         Initialised' = Initialised \/ Initialised' = {}
  PROVE  Tables'
<1>1. Owned' /\ Monitored'
  BY DEF Tables, Owned, Monitored, Loaded, Id
<1>2. Served' /\ Watched'
  BY DEF Tables, Served, Watched
<1> QED BY <1>1, <1>2 DEF Tables

LEMMA NothingInitialised ==
  /\ lpc \notin {"idle", "init"} => Initialised = {}
  /\ lpc' \notin {"idle", "init"} => Initialised' = {}
BY DEF Initialised

\* Nobody knows the new object yet.
LEMMA OpenTables == PInv /\ Tables /\ Open => Tables'
<1> SUFFICES ASSUME PInv, Tables, Open PROVE Tables'
  OBVIOUS
<1>1. /\ Objects \subseteq Objects'
      /\ \A o \in Objects : made'[o] = made[o] /\ Id(o)' = Id(o)
  <2>1. Head(lines) \in Files /\ made \in Seq(Files)
    BY HeadTailProperties DEF PInv, Open, TypeOK
  <2>2. made' = Append(made, Head(lines))
    BY DEF Open
  <2> QED BY <2>1, <2>2, AppendProperties, LenProperties DEF Objects, Id
<1>2. Loaded' = Loaded /\ Loaded \subseteq Objects
  BY LoadedIndex DEF PInv, Open, Loaded
<1>3. \A o \in Objects : Known(Id(o)) => Known(Id(o))'
  BY <1>1, <1>2 DEF Known, Open
<1>4. Owned'
  BY <1>1, <1>3 DEF PInv, TypeOK, Tables, Owned, Open
<1>5. Monitored'
  BY <1>1, <1>2 DEF PInv, TypeOK, Tables, Monitored, Open
<1>6. Initialised' = {}
  BY NothingInitialised DEF Open
<1> QED BY <1>4, <1>5, <1>6 DEF Tables, Served, Watched

\* The id of what is deleted is that of the plugin being loaded.
LEMMA DeleteTables == PInv /\ Tables /\ DeletePlugin => Tables'
<1> SUFFICES ASSUME PInv, Tables, DeletePlugin PROVE Tables'
  OBVIOUS
<1>1. PICK i \in Namesakes : Delete(i)
  BY DEF DeletePlugin
<1>2. /\ i \in 1..Len(plugins) /\ Id(plugins[i]) = Id(cur)
      /\ monitors' = monitors \ {plugins[i]}
      /\ plugins' = RemoveAt(plugins, i)
      /\ UNCHANGED <<made, commands, loadVars, lost>>
      /\ lpc \in {"replace", "duplicate"}
  BY <1>1 DEF Namesakes, DeletePlugin, Delete
<1>3. Loaded' = Loaded \ {plugins[i]}
  BY <1>2, RemovedFacts DEF PInv
<1>4. \A x : Known(x) => Known(x)'
  BY <1>2, <1>3 DEF Known, loadVars, Id
<1>5. Owned'
  BY <1>2, <1>4 DEF Tables, Owned, Id
<1>6. Monitored'
  BY <1>2, <1>3 DEF Tables, Monitored, Id
<1>7. Initialised' = {}
  BY <1>2, NothingInitialised DEF loadVars
<1> QED BY <1>5, <1>6, <1>7 DEF Tables, Served, Watched

LEMMA AddTables == PInv /\ Tables /\ Add => Tables'
<1> SUFFICES ASSUME PInv, Tables, Add PROVE Tables'
  OBVIOUS
<1>1. /\ plugins \in Seq(Objects) /\ cur \in Objects
      /\ UNCHANGED <<made, commands, monitors, cur, lost>>
      /\ plugins' = Append(plugins, cur)
  BY DEF PInv, TypeOK, Add
<1>2. \A o \in Loaded : o \in Loaded'
  <2>1. /\ plugins' \in Seq(Objects) /\ Len(plugins') = Len(plugins) + 1
        /\ Len(plugins) \in Nat
        /\ \A i \in 1..Len(plugins) : plugins'[i] = plugins[i]
    BY <1>1, AppendProperties, LenProperties
  <2>2. /\ \A o : o \in Loaded <=> \E i \in 1..Len(plugins) : plugins[i] = o
        /\ \A o : o \in Loaded' <=> \E i \in 1..Len(plugins') : plugins'[i] = o
    BY <1>1, <2>1, ToSetFacts DEF Loaded
  <2>3. \A i \in 1..Len(plugins) : i \in 1..Len(plugins')
    BY <2>1
  <2> QED BY <2>1, <2>2, <2>3
<1>3. cur \in Loaded'
  <2>1. /\ plugins' \in Seq(Objects) /\ Len(plugins) + 1 \in 1..Len(plugins')
        /\ plugins'[Len(plugins) + 1] = cur
    BY <1>1, AppendProperties, LenProperties
  <2> QED BY <2>1, ToSetFacts DEF Loaded
<1>4. \A x : Known(x) => Known(x)'
  BY <1>1, <1>2, <1>3 DEF Known, Id
<1>5. Owned' /\ Monitored'
  BY <1>1, <1>2, <1>4 DEF Tables, Owned, Monitored, Id
<1>6. Initialised' = {}
  BY NothingInitialised DEF Add
<1> QED BY <1>5, <1>6 DEF Tables, Served, Watched

\* A plugin takes over every command it lists.
LEMMA InitTablesKept == PInv /\ Tables /\ InitPlugin => Tables'
<1> SUFFICES ASSUME PInv, Tables, InitPlugin PROVE Tables'
  OBVIOUS
<1> DEFINE o == plugins[pos]
<1>1. /\ pos \in 1..Len(plugins) /\ pos' = pos + 1 /\ lpc = "init"
      /\ o \in Objects /\ o \in Loaded /\ o # 0
      /\ ListOf(made[o]) \subseteq Commands
      /\ commands' = Registered(o)
      /\ monitors' = monitors \cup (IF made[o] \in Watchers THEN {o} ELSE {})
      /\ UNCHANGED <<made, plugins, lpc, cur, lost>>
  <2>1. /\ pos \in Nat \ {0} /\ Len(plugins) \in Nat /\ pos <= Len(plugins)
        /\ pos' = pos + 1 /\ lpc = "init"
        /\ commands' = Registered(o)
        /\ monitors' = monitors \cup (IF made[o] \in Watchers THEN {o} ELSE {})
        /\ UNCHANGED <<made, plugins, lpc, cur, lost>>
    BY LoadedIndex DEF PInv, TypeOK, InitPlugin
  <2>2. pos \in 1..Len(plugins)
    BY <2>1
  <2>3. o \in Objects /\ o \in Loaded /\ made[o] \in Files
    BY <2>2, LoadedIndex DEF PInv
  <2>4. o # 0
    BY <2>3, LoadedIndex DEF PInv, Objects
  <2>5. ListOf(made[o]) \subseteq Commands
    BY <2>3, PluginsAssumption
  <2> QED BY <2>1, <2>2, <2>3, <2>4, <2>5
<1>2. \A i \in 1..Len(plugins) : made[plugins[i]] \in Files
  BY LoadedIndex DEF PInv
<1>3. Initialised' = Initialised \cup {pos} /\ pos \notin Initialised
  BY <1>1, LoadedIndex DEF PInv, Initialised
<1>4. \A c \in Commands : commands'[c] = IF c \in ListOf(made[o]) THEN o ELSE commands[c]
  BY <1>1 DEF Registered
<1>5. Owned'
  <2>1. \A x : Known(x) <=> Known(x)'
    BY <1>1 DEF Known, Loaded, Id
  <2>2. Known(Id(o))
    BY <1>1 DEF Known, Id
  <2> SUFFICES ASSUME NEW c \in Commands, commands'[c] # 0
               PROVE  c \in ListOf(made[commands'[c]]) /\ Known(Id(commands'[c]))
    BY <1>1, <2>1 DEF Owned, Id
  <2>3. CASE c \in ListOf(made[o])
    BY <1>4, <2>2, <2>3
  <2>4. CASE c \notin ListOf(made[o])
    BY <1>4, <2>4 DEF Tables, Owned
  <2> QED BY <2>3, <2>4
<1>6. Served'
  <2> SUFFICES ASSUME NEW i \in Initialised', NEW c \in ListOf(made[plugins[i]])
               PROVE  \E j \in Initialised' : commands'[c] = plugins[j]
    BY <1>1 DEF Served
  <2>1. c \in Commands
    BY <1>1, <1>2, PluginsAssumption DEF Initialised
  <2>2. CASE c \in ListOf(made[o])
    BY <1>3, <1>4, <2>1, <2>2
  <2>3. CASE c \notin ListOf(made[o])
    <3>1. i \in Initialised
      BY <1>3, <2>3
    <3> QED BY <1>3, <1>4, <2>1, <2>3, <3>1 DEF Tables, Served
  <2> QED BY <2>2, <2>3
<1>7. Watched' /\ Monitored'
  BY <1>1, <1>3 DEF Tables, Watched, Monitored, Loaded, Id
<1> QED BY <1>5, <1>6, <1>7 DEF Tables

\* A plugin that fails has an id that is remembered as lost, and comes after
\* those the loop has been at.
LEMMA InitFailsTables == PInv /\ Tables /\ InitFails => Tables'
<1> SUFFICES ASSUME PInv, Tables, InitFails PROVE Tables'
  OBVIOUS
<1>1. /\ pos \in 1..Len(plugins) /\ lpc = "init" /\ Len(plugins) \in Nat
      /\ plugins \in Seq(Objects)
      /\ plugins' = RemoveAt(plugins, pos)
      /\ lost' = lost \cup {Id(plugins[pos])}
      /\ UNCHANGED <<made, commands, monitors, loadVars>>
  BY LoadedIndex DEF PInv, InitFails, TypeOK
<1>2. Loaded' = Loaded \ {plugins[pos]}
  BY <1>1, RemovedFacts DEF PInv
<1>3. \A x : Known(x) => Known(x)'
  BY <1>1, <1>2 DEF Known, loadVars, Id
<1>4. Owned' /\ Monitored'
  BY <1>1, <1>2, <1>3 DEF Tables, Owned, Monitored, Id
<1>5. Initialised' = Initialised /\ \A i \in Initialised : plugins'[i] = plugins[i]
  <2>1. /\ Len(plugins') = Len(plugins) - 1
        /\ \A i \in 1..(Len(plugins) - 1) : i < pos => plugins'[i] = plugins[i]
    BY <1>1, RemoveAtFacts
  <2>2. lpc' = "init" /\ pos' = pos
    BY <1>1 DEF loadVars
  <2> QED BY <1>1, <2>1, <2>2 DEF Initialised
<1>6. Served' /\ Watched'
  BY <1>1, <1>5 DEF Tables, Served, Watched
<1> QED BY <1>4, <1>6 DEF Tables

LEMMA NextTables == PInv /\ Tables /\ [Next]_vars => Tables'
<1> SUFFICES ASSUME PInv, Tables, [Next]_vars PROVE Tables'
  OBVIOUS
<1>1. CASE Load
  <2>1. Initialised' = {}
    BY <1>1, NothingInitialised DEF Load
  <2>2. \A x : Known(x) => Known(x)'
    BY <1>1 DEF Load, Known, Loaded, Id
  <2> QED BY <1>1, <2>1, <2>2, QuietTables DEF Load
<1>2. CASE OpenFails
  <2>1. Initialised' = {}
    BY <1>2, NothingInitialised DEF OpenFails
  <2>2. \A x : Known(x) => Known(x)'
    BY <1>2 DEF OpenFails, Known, Loaded, Id
  <2> QED BY <1>2, <2>1, <2>2, QuietTables DEF OpenFails
<1>3. CASE Open
  BY <1>3, OpenTables
<1>4. CASE DeletePlugin
  BY <1>4, DeleteTables
<1>5. CASE Add
  BY <1>5, AddTables
<1>6. CASE DuplicateGone
  <2>1. Initialised' = {}
    BY <1>6, NothingInitialised DEF DuplicateGone
  <2>2. \A x : Known(x) => Known(x)'
    BY <1>6 DEF DuplicateGone, Known, Loaded, Id
  <2> QED BY <1>6, <2>1, <2>2, QuietTables DEF DuplicateGone
<1>7. CASE AllLoaded
  <2>1. Initialised' = {}
    BY <1>7 DEF AllLoaded, Initialised
  <2>2. \A x : Known(x) => Known(x)'
    BY <1>7 DEF AllLoaded, Known, Loaded, Id
  <2> QED BY <1>7, <2>1, <2>2, QuietTables DEF AllLoaded
<1>8. CASE InitPlugin
  BY <1>8, InitTablesKept
<1>9. CASE InitFails
  BY <1>9, InitFailsTables
<1>10. CASE AllInitialised
  <2>1. Initialised' = Initialised
    BY <1>10, LoadedIndex DEF AllInitialised, Initialised, PInv, TypeOK
  <2>2. \A x : Known(x) => Known(x)'
    BY <1>10 DEF AllInitialised, Known, Loaded, Id
  <2> QED BY <1>10, <2>1, <2>2, QuietTables DEF AllInitialised
<1>11. CASE Main \/ UNCHANGED vars
  <2>1. UNCHANGED <<made, plugins, commands, monitors, loadVars, lost>>
    BY <1>11 DEF Main, Event, Execute, Called, vars
  <2>2. Initialised' = Initialised
    BY <2>1 DEF Initialised, loadVars
  <2>3. \A x : Known(x) => Known(x)'
    BY <2>1 DEF Known, Loaded, Id, loadVars
  <2> QED BY <2>1, <2>2, <2>3, QuietTables
<1> QED BY <1>1, <1>2, <1>3, <1>4, <1>5, <1>6, <1>7, <1>8, <1>9, <1>10, <1>11
        DEF Next, Loader

LEMMA AlwaysTables == Spec => [](PInv /\ Tables)
<1>1. Init => PInv /\ Tables
  BY InitPInv, InitTables
<1>2. PInv /\ Tables /\ [Next]_vars => PInv' /\ Tables'
  BY NextPInv, NextTables
<1> QED BY <1>1, <1>2, PTL DEF Spec

\* Between loads the plugins that are loaded are where the loop has been.
LEMMA AllServed ==
  ASSUME PInv, lpc = "idle", NEW o \in Loaded
  PROVE  \E i \in Initialised : plugins[i] = o
BY LoadedIndex DEF PInv, Initialised

\* Between loads every command of a loaded plugin runs a loaded plugin that
\* lists it, and entries that lead to destroyed objects are those of ids that
\* failed, were duplicates or belong to another file now.
THEOREM CommandTableCorrect == Spec => []CommandTable
<1>1. PInv /\ Tables => CommandTable
  <2> SUFFICES ASSUME PInv, Tables, lpc = "idle" PROVE CommandTable
    BY DEF CommandTable
  <2>1. ASSUME NEW o \in Loaded, NEW c \in ListOf(made[o])
        PROVE  commands[c] \in Loaded /\ c \in ListOf(made[commands[c]])
    <3>1. PICK i \in Initialised : plugins[i] = o
      BY AllServed
    <3>2. PICK j \in Initialised : commands[c] = plugins[j]
      BY <3>1 DEF Tables, Served
    <3>3. commands[c] \in Loaded /\ commands[c] # 0
      BY <3>2, LoadedIndex DEF PInv, Initialised, Objects
    <3>4. c \in Commands
      BY <2>1, LoadedIndex, PluginsAssumption DEF PInv
    <3> QED BY <3>3, <3>4 DEF Tables, Owned
  <2>2. ASSUME NEW c \in Commands, commands[c] # 0
        PROVE  commands[c] \in Loaded \/ Id(commands[c]) \in lost \/ TakenOver(commands[c])
    <3>1. c \in ListOf(made[commands[c]]) /\ Known(Id(commands[c]))
      BY <2>2 DEF Tables, Owned
    <3>2. CASE \E p \in Loaded : Id(p) = Id(commands[c]) /\ made[p] = made[commands[c]]
      BY <2>1, <3>1, <3>2
    <3> QED BY <3>1, <3>2 DEF Known, TakenOver
  <2> QED BY <2>1, <2>2 DEF CommandTable
<1> QED BY <1>1, AlwaysTables, PTL

\* Between loads the monitors are the loaded plugins that watch, up to those
\* whose initialisation failed.
THEOREM MonitorTableCorrect == Spec => []MonitorTable
<1>1. PInv /\ Tables => MonitorTable
  BY AllServed DEF Tables, Watched, Monitored, MonitorTable
<1> QED BY <1>1, AlwaysTables, PTL
=============================================================================
