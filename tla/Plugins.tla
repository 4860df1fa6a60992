------------------------------ MODULE Plugins ------------------------------
(***************************************************************************)
(* The plugins of the bot (src/src/ircbot.cpp): loading and reloading       *)
(* shared libraries, the objects they make, and the tables that lead to     *)
(* those objects: plugins, commands and monitors.                           *)
(*                                                                          *)
(* Threads: main, which handles messages and runs the first load_plugins    *)
(* and any /reload of "on_connect", and a thread of rserver that runs       *)
(* /reload through exec.  plugin_mtx is locked in del_plugin only, so it    *)
(* orders nothing.  Two loads at the same time are not modelled.            *)
(***************************************************************************)
EXTENDS Naturals, Sequences, SequencesExt

CONSTANTS Files,      \* shared libraries in the plugin directories
          Ids,        \* what get_id() may return
          Commands,   \* what list() may contain
          IdOf(_), ListOf(_),
          Watchers,   \* files whose plugin is a monitor too
          Configs,    \* what the "plugin" lines of the configuration may be
          MaxLoads,   \* bound: calls of load_plugins
          MayFail,    \* whether dlopen, the factory and init() may fail
          ByThread    \* whether a thread other than main may /reload

ASSUME PluginsAssumption ==
    /\ \A f \in Files : IdOf(f) \in Ids /\ ListOf(f) \subseteq Commands
    /\ Watchers \subseteq Files
    /\ Configs \subseteq Seq(Files)
    /\ MaxLoads \in Nat /\ MayFail \in BOOLEAN /\ ByThread \in BOOLEAN

VARIABLES
    made,      \* the file of every object made so far; objects are 1, 2, ...
    alive,     \* objects that have not been destroyed
    refs,      \* per file: dlopen's minus dlclose's; mapped while positive
    plugins,   \* the member: the loaded objects, in order
    commands,  \* the member: command -> object, 0 if there is no entry
    monitors,  \* the member: objects registered by add_monitor
    lpc,       \* where load_plugins, and the init loop after it, is
    loader,    \* who runs it
    loads,     \* number of loads begun
    lines,     \* "plugin" lines left to load
    ids,       \* the local of load_plugins
    cur,       \* the object being loaded
    pos,       \* position of the init loop in plugins
    calling,   \* objects main has still to call for the message at hand
    lost       \* history: ids that failed or were refused as duplicates

loadVars == <<lpc, loader, loads, lines, ids, cur, pos>>
vars == <<made, alive, refs, plugins, commands, monitors, loadVars, calling, lost>>

Objects == 1..Len(made)
Id(o) == IdOf(made[o])
Loaded == ToSet(plugins)

TypeOK ==
    /\ made \in Seq(Files)
    /\ alive \subseteq Objects
    /\ refs \in [Files -> Nat]
    /\ plugins \in Seq(Objects)
    /\ commands \in [Commands -> {0} \cup Objects]
    /\ monitors \subseteq Objects
    /\ lpc \in {"idle", "line", "replace", "duplicate", "init"}
    /\ loader \in {"main", "thread"}
    /\ loads \in Nat
    /\ lines \in Seq(Files)
    /\ ids \subseteq Ids
    /\ cur \in Nat
    /\ lpc \in {"replace", "duplicate"} => cur \in Objects /\ lines # <<>>
    /\ pos \in Nat \ {0}
    /\ calling \subseteq Objects
    /\ lost \subseteq Ids

Init ==
    /\ made = <<>>
    /\ alive = {}
    /\ refs = [f \in Files |-> 0]
    /\ plugins = <<>>
    /\ commands = [c \in Commands |-> 0]
    /\ monitors = {}
    /\ lpc = "idle"
    /\ loader = "main"
    /\ loads = 0
    /\ lines = <<>>
    /\ ids = {}
    /\ cur = 0
    /\ pos = 1
    /\ calling = {}
    /\ lost = {}

-----------------------------------------------------------------------------
(* load_plugins *)

\* The configuration may have been edited and read again since the last load.
Load ==
    /\ lpc = "idle"
    /\ loads < MaxLoads
    /\ loads' = loads + 1
    /\ loader' \in {"main"} \cup (IF ByThread /\ loads > 0 THEN {"thread"} ELSE {})
    /\ loader' = "main" => calling = {}
    /\ lines' \in Configs
    /\ ids' = {}
    /\ lpc' = "line"
    /\ UNCHANGED <<made, alive, refs, plugins, commands, monitors, cur, pos, calling, lost>>

\* Mut... operators are plausible mistakes in the definition they precede.
\* dlopen once per library, remembering that it is open already
MutOpened(f) == [refs EXCEPT ![f] = 1]

Opened(f) == [refs EXCEPT ![f] = @ + 1]

\* dlopen fails, or the library is open and there is no factory or no object.
OpenFails ==
    /\ lpc = "line" /\ lines # <<>> /\ MayFail
    /\ lines' = Tail(lines)
    /\ refs' \in {refs, Opened(Head(lines))}
    /\ UNCHANGED <<made, alive, plugins, commands, monitors, lpc, loader, loads,
                   ids, cur, pos, calling, lost>>

Open ==
    /\ lpc = "line" /\ lines # <<>>
    /\ refs' = Opened(Head(lines))
    /\ made' = Append(made, Head(lines))
    /\ cur' = Len(made')
    /\ alive' = alive \cup {cur'}
    /\ lpc' = "replace"
    /\ UNCHANGED <<plugins, commands, monitors, loader, loads, lines, ids, pos,
                   calling, lost>>

\* the loop starts one plugin too late
MutNamesakes == {i \in 2..Len(plugins) : Id(plugins[i]) = Id(cur)}

\* What del_plugin(get_id()) has still to remove.
Namesakes == {i \in 1..Len(plugins) : Id(plugins[i]) = Id(cur)}

\* monitors is left alone
MutDelete(i) ==
    LET o == plugins[i] IN
    /\ refs' = [refs EXCEPT ![made[o]] = @ - 1]
    /\ plugins' = RemoveAt(plugins, i)
    /\ alive' = alive \ {o}
    /\ UNCHANGED monitors

\* monitors.erase, exit(), dlclose and, last, plugins.erase, which destroys
\* the object.  Its entries in commands stay.
Delete(i) ==
    LET o == plugins[i] IN
    /\ monitors' = monitors \ {o}
    /\ refs' = [refs EXCEPT ![made[o]] = @ - 1]
    /\ plugins' = RemoveAt(plugins, i)
    /\ alive' = alive \ {o}

DeletePlugin ==
    /\ lpc \in {"replace", "duplicate"}
    /\ \E i \in Namesakes : (\A j \in Namesakes : i <= j) /\ Delete(i)
    /\ UNCHANGED <<made, commands, loadVars, calling, lost>>

\* add_plugin, and the test for an id that an earlier line has loaded.
Add ==
    /\ lpc = "replace" /\ Namesakes = {}
    /\ plugins' = Append(plugins, cur)
    /\ ids' = ids \cup {Id(cur)}
    /\ IF Id(cur) \in ids
       THEN lpc' = "duplicate" /\ UNCHANGED lines
       ELSE lpc' = "line" /\ lines' = Tail(lines)
    /\ UNCHANGED <<made, alive, refs, commands, monitors, loader, loads, cur, pos,
                   calling, lost>>

DuplicateGone ==
    /\ lpc = "duplicate" /\ Namesakes = {}
    /\ lpc' = "line"
    /\ lines' = Tail(lines)
    /\ lost' = lost \cup {Id(cur)}
    /\ UNCHANGED <<made, alive, refs, plugins, commands, monitors, loader, loads,
                   ids, cur, pos, calling>>

-----------------------------------------------------------------------------
(* The loop that initialises every loaded plugin, in init() and in /reload *)

\* the position is counted from 0
MutAllLoaded ==
    /\ lpc = "line" /\ lines = <<>>
    /\ lpc' = "init"
    /\ pos' = 0
    /\ UNCHANGED <<made, alive, refs, plugins, commands, monitors, loader, loads,
                   lines, ids, cur, calling, lost>>

AllLoaded ==
    /\ lpc = "line" /\ lines = <<>>
    /\ lpc' = "init"
    /\ pos' = 1
    /\ UNCHANGED <<made, alive, refs, plugins, commands, monitors, loader, loads,
                   lines, ids, cur, calling, lost>>

\* commands.insert({c, p}): an old entry is kept
MutRegistered(o) ==
    [c \in Commands |-> IF c \in ListOf(made[o]) /\ commands[c] = 0 THEN o
                        ELSE commands[c]]

\* for(str& c: p->list()) commands[c] = p
Registered(o) ==
    [c \in Commands |-> IF c \in ListOf(made[o]) THEN o ELSE commands[c]]

InitPlugin ==
    /\ lpc = "init" /\ pos <= Len(plugins)
    /\ LET o == plugins[pos] IN
       /\ commands' = Registered(o)
       /\ monitors' = monitors \cup (IF made[o] \in Watchers THEN {o} ELSE {})
    /\ pos' = pos + 1
    /\ UNCHANGED <<made, alive, refs, plugins, lpc, loader, loads, lines, ids, cur,
                   calling, lost>>

\* plugins.erase alone: no exit(), no dlclose, monitors and commands unchanged.
InitFails ==
    /\ lpc = "init" /\ pos <= Len(plugins) /\ MayFail
    /\ plugins' = RemoveAt(plugins, pos)
    /\ alive' = alive \ {plugins[pos]}
    /\ lost' = lost \cup {Id(plugins[pos])}
    /\ UNCHANGED <<made, refs, commands, monitors, loadVars, calling>>

AllInitialised ==
    /\ lpc = "init" /\ pos > Len(plugins)
    /\ lpc' = "idle"
    /\ UNCHANGED <<made, alive, refs, plugins, commands, monitors, loader, loads,
                   lines, ids, cur, pos, calling, lost>>

Loader ==
    \/ Load \/ OpenFails \/ Open \/ DeletePlugin \/ Add \/ DuplicateGone
    \/ AllLoaded \/ InitPlugin \/ InitFails \/ AllInitialised

-----------------------------------------------------------------------------
(* main handles a message, whatever the loader does on the other thread *)

MainFree == loads > 0 /\ (lpc = "idle" \/ loader = "thread") /\ calling = {}

\* for(IrcBotMonitor* m: monitors)
Event ==
    /\ MainFree
    /\ calling' = monitors
    /\ UNCHANGED <<made, alive, refs, plugins, commands, monitors, loadVars, lost>>

\* execute(): commands.find(cmd), then allow_cmd_access and the plugin.
Execute(c) ==
    /\ MainFree
    /\ commands[c] # 0
    /\ calling' = {commands[c]}
    /\ UNCHANGED <<made, alive, refs, plugins, commands, monitors, loadVars, lost>>

Called ==
    /\ \E o \in calling : calling' = calling \ {o}
    /\ UNCHANGED <<made, alive, refs, plugins, commands, monitors, loadVars, lost>>

Main == Event \/ (\E c \in Commands : Execute(c)) \/ Called

Next == Loader \/ Main

Spec == Init /\ [][Next]_vars

-----------------------------------------------------------------------------
(* Properties *)

\* get_plugin, has_plugin and del_plugin identify a plugin by its id: at no
\* moment, not even between the steps of a reload with duplicates and failures,
\* are two objects loaded under one id.
UniqueIds == \A i, j \in 1..Len(plugins) : Id(plugins[i]) = Id(plugins[j]) => i = j

\* The code of every loaded plugin is mapped.  dlclose is called for the old
\* object of a reload, so what keeps the code of the new one mapped is that
\* the loader opens the library again before it deletes the old object.
CodeMapped == \A o \in Loaded : o \in alive /\ refs[made[o]] > 0

\* A plugin's destructor runs after its dlclose: the library must still be open
\* for another reason, and it is, except for the second plugin of a
\* duplicate id or when another file takes over the id.
SafelyDestroyed ==
    [][\A o \in alive \ alive' :
          refs'[made[o]] > 0 \/ lpc = "duplicate" \/ made[cur] # made[o]]_vars

\* The id of a destroyed object now belongs to a plugin of another file.
TakenOver(o) == \E p \in Loaded : Id(p) = Id(o) /\ made[p] # made[o]

\* When no load is under way each command of a loaded plugin runs a loaded
\* plugin that lists it, and no entry leads to a destroyed object, unless the
\* plugin of that id failed, was a duplicate or comes from another file now.
CommandTable ==
    lpc = "idle" =>
        /\ \A o \in Loaded : \A c \in ListOf(made[o]) :
              commands[c] \in Loaded /\ c \in ListOf(made[commands[c]])
        /\ \A c \in Commands :
              commands[c] # 0 =>
                  \/ commands[c] \in Loaded
                  \/ Id(commands[c]) \in lost
                  \/ TakenOver(commands[c])

\* When no load is under way the monitors are the loaded plugins that watch,
\* up to those whose initialisation failed.
MonitorTable ==
    lpc = "idle" =>
        /\ \A o \in Loaded : made[o] \in Watchers => o \in monitors
        /\ \A o \in monitors : o \in Loaded \/ Id(o) \in lost

\* Nothing is destroyed while main is on its way to call it: what
\* ircbot.h:605 says plugin_mtx is for.
NotWhileCalled == [][calling \cap (alive \ alive') = {}]_vars
=============================================================================
