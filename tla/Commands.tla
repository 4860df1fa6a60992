------------------------------ MODULE Commands ------------------------------
(***************************************************************************)
(* What IrcBot does with the messages of users and the commands of remote  *)
(* control: the configuration they go by, read again and set, and the way  *)
(* to a plugin's command through the aliases and the access lists.  The    *)
(* channels, and what ends the bot, are in Joins.                          *)
(***************************************************************************)
EXTENDS Config

CONSTANTS
    Users,       \* user@host of those who write
    Channels,    \* channels
    Passwords,   \* passwords they try
    MainFiles,   \* the versions of the configuration file
    PluginOf,    \* function from the registered commands to plugins
    Settings,    \* what !pset is used for: pairs of a name and a value
    MaxNicks     \* bound: nicks read from configuration files

PM == ""         \* msg.get_chan() and the key of a private conversation
None == "none"

ASSUME CommandAssumption == None \notin DOMAIN PluginOf

VARIABLES
    conf,      \* the configuration file as it is on disk
    props,     \* IrcBot::props
    info,      \* IrcBot::info
    access,    \* IrcBot::chan_access, as pairs of a channel and a plugin
    last       \* the last message handled: by whom, where, what, what ran

cmdVars == <<conf, props, info, access, last>>

Have(key) == <<NoSection, key>> \in DOMAIN props
Vec(key) == IF Have(key) THEN props[<<NoSection, key>>] ELSE <<>>
Set(key) == ToSet(Vec(key))
Named(key) == {v[1] : v \in Set(key)}

(* !have(PROP_PASSWORD) || get(PROP_PASSWORD) == given                     *)
Allowed(given) ==
    ~Have("password") \/ (Vec("password") # <<>> /\ Vec("password")[1] = <<given>>)

(* "plugin: file [chan, ...]": load_plugins adds, and nothing takes away.  *)
Granted(ps) ==
    LET key == <<NoSection, "plugin">>
        lines == IF key \in DOMAIN ps THEN ToSet(ps[key]) ELSE {}
    IN  UNION {{<<l[i], l[1]>> : i \in 2 .. Len(l)} : l \in lines}

Silence == [user |-> None, chan |-> None, cmd |-> None, ran |-> None]
Heard(u, c, cmd, ran) == last' = [user |-> u, chan |-> c, cmd |-> cmd, ran |-> ran]

CmdInit ==
    /\ conf \in MainFiles
    /\ props = ReadConfig(conf, NoProps, NoInfo).props
    /\ info = ReadConfig(conf, NoProps, NoInfo).info
    /\ access = Granted(props)
    /\ last = Silence
-----------------------------------------------------------------------------
(* PRIVMSG: the built-in commands                                          *)

(* exec("/reconfigure"): the properties go, the info stays and grows.      *)
Reconfigured ==
    LET s == ReadConfig(conf, NoProps, info)
    IN  /\ Len(s.info.nick) <= MaxNicks
        /\ props' = s.props /\ info' = s.info

UserReconfigure(given) ==
    /\ Allowed(given) /\ Reconfigured /\ last' = Silence
    /\ UNCHANGED <<conf, access>>

(* !pset: with no values props[key] is reported, and made if it is missing. *)
UserPset(given, setting, report) ==
    LET key == <<NoSection, setting[1]>>
    IN  /\ Allowed(given) /\ last' = Silence
        /\ props' = IF ~report THEN Assigned(props, key, <<setting[2]>>)
                    ELSE IF key \in DOMAIN props THEN props
                    ELSE Assigned(props, key, <<>>)
        /\ UNCHANGED <<conf, info, access>>
-----------------------------------------------------------------------------
(* PRIVMSG: everything else goes to a plugin, after the loop over the bans, *)
(* whose continue does not leave it.                                       *)

Hits(cmd, c) == {a \in Set("command.alias") : a[1] = c /\ cmd \in {a[2], a[3]}}

\* a plausible mistake: in_use is never set
MutMeant(cmd, c) ==
    LET hits == {a \in Hits(cmd, c) : cmd = a[2]}
    IN  IF hits = {} THEN {cmd} ELSE {a[3] : a \in hits}

(* The command that is meant, None if it can only be had by its alias: the *)
(* first hit decides, whichever that is in the order of a set of strings.  *)
Meant(cmd, c) ==
    IF Hits(cmd, c) = {} THEN {cmd}
    ELSE {IF a[3] = cmd THEN None ELSE a[3] : a \in Hits(cmd, c)}

HasAccess(cmd, c) == <<c, PluginOf[cmd]>> \in access
AllowCmdAccess(cmd, c) ==
    HasAccess(cmd, "*") \/ (c # PM /\ HasAccess(cmd, c)) \/ HasAccess(cmd, "PM")

Execute(u, c, cmd) ==
    /\ \E meant \in Meant(cmd, c) :
          LET runs == meant \in DOMAIN PluginOf /\ AllowCmdAccess(meant, c)
          IN  Heard(u, c, cmd, IF runs THEN meant ELSE None)
    /\ UNCHANGED <<conf, props, info, access>>
-----------------------------------------------------------------------------
(* on_connect and remote control: exec                                     *)

ExecReconfigure ==
    /\ Reconfigured
    /\ UNCHANGED <<conf, access, last>>

(* /reload, as far as access goes                                          *)
ExecReload ==
    /\ access' = access \cup Granted(props)
    /\ UNCHANGED <<conf, props, info, last>>

(* Somebody edits the configuration file.                                  *)
Edit(f) ==
    /\ f # conf /\ conf' = f
    /\ UNCHANGED <<props, info, access, last>>

BuiltIn(p) ==
    \/ UserReconfigure(p)
    \/ \E s \in Settings, r \in BOOLEAN : UserPset(p, s, r)

CmdNext ==
    \/ ExecReconfigure \/ ExecReload
    \/ \E f \in MainFiles : Edit(f)
    \/ \E p \in Passwords : BuiltIn(p)
    \/ \E u \in Users, c \in Channels \cup {PM}, cmd \in DOMAIN PluginOf :
          Execute(u, c, cmd)

CmdSpec == CmdInit /\ [][CmdNext]_cmdVars
-----------------------------------------------------------------------------
(* "If there is an alias in effect the original command must stop working": *)
(* in a channel with an alias for it a command never runs under its own    *)
(* name, in whatever order the aliases stand.                              *)
AliasedOnly ==
    [][\A a \in Set("command.alias") :
          /\ last'.chan = a[1] /\ last'.cmd = a[3] /\ last'.ran # None
          => last'.ran # a[3]]_last

(* skivvy.conf.example: "Nick's that are ignored".                         *)
BannedIgnored == last.ran # None => last.user \notin Named("ban")
=============================================================================
