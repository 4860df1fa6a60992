-------------------------------- MODULE Help --------------------------------
(***************************************************************************)
(* What !help tells: the actions of the loaded plugins, which may be       *)
(* hidden or take their text from another one, and the built-in commands   *)
(* of trigger.word.                                                        *)
(***************************************************************************)
EXTENDS Naturals, Sequences, SequencesExt

CONSTANTS
    LoadedPlugins,  \* sequence of plugins: functions from commands to actions
    TriggerWords    \* sequence of keys: the words, and whether there is a text

Action(flags, alias) == [flags |-> flags, alias |-> alias]
Text(cmd) == <<"help of", cmd>>
None == <<"none">>
NoHelp == <<"no help">>

(* BasicIrcBotPlugin::help: "=" in front of a text is followed once; what  *)
(* stands there instead of a second one is no text.                        *)
PluginHelp(actions, cmd) ==
    LET other == actions[cmd].alias
    IN  IF cmd \notin DOMAIN actions THEN NoHelp
        ELSE IF "INVISIBLE" \in actions[cmd].flags THEN None
        ELSE IF other = "" THEN Text(cmd)
        ELSE IF other \notin DOMAIN actions THEN NoHelp
        ELSE IF "INVISIBLE" \in actions[other].flags THEN None
        ELSE IF actions[other].alias # "" THEN <<"=">>
        ELSE Text(other)

PluginList(actions) == {cmd \in DOMAIN actions : "INVISIBLE" \notin actions[cmd].flags}

(* commands: the last plugin that lists a command has it.                  *)
Owners(cmd) == {i \in DOMAIN LoadedPlugins : cmd \in PluginList(LoadedPlugins[i])}
Owner(cmd) == CHOOSE i \in Owners(cmd) : \A j \in Owners(cmd) : j <= i

(* IrcBot::help: of a built-in command only the first word is known; the   *)
(* first key that has it decides.                                          *)
BotHelp(cmd) ==
    LET keys == {i \in DOMAIN TriggerWords : TriggerWords[i].words[1] = cmd}
        key == CHOOSE i \in keys : \A j \in keys : i <= j
    IN  IF Owners(cmd) # {} THEN PluginHelp(LoadedPlugins[Owner(cmd)], cmd)
        ELSE IF keys # {} /\ TriggerWords[key].help THEN Text(cmd)
        ELSE NoHelp

(* !help alone: all the words of all the keys, and the plugins' lists.     *)
HelpList ==
    (UNION {ToSet(TriggerWords[i].words) : i \in DOMAIN TriggerWords})
    \cup (UNION {PluginList(LoadedPlugins[i]) : i \in DOMAIN LoadedPlugins})
-----------------------------------------------------------------------------
(* Whatever is asked, no text but that of a command !help lists is told;   *)
(* a listed command of a plugin has a text, its own or that of the one it  *)
(* stands for, unless that one is hidden, is none of the plugin's, or      *)
(* stands for a third; and a command that is not listed has no text.       *)
HelpTold(cmd) ==
    LET told == BotHelp(cmd)
        actions == LoadedPlugins[Owner(cmd)]
    IN  /\ \A c \in UNION {DOMAIN p : p \in ToSet(LoadedPlugins)} : told = Text(c) => c \in HelpList
        /\ Owners(cmd) # {} /\ told # Text(cmd) =>
              \/ told \in {Text(actions[cmd].alias), <<"=">>}
              \/ actions[cmd].alias \notin PluginList(actions)
        /\ cmd \notin HelpList => told = NoHelp
=============================================================================
