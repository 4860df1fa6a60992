-------------------------------- MODULE Joins -------------------------------
(***************************************************************************)
(* The channels the bot is in and the list it keeps of them: IrcBot::chans *)
(* is written by the main thread, which handles the server's messages, and *)
(* by the thread of plugin-rserver, which runs a remote client's command   *)
(* to its end before it takes the next client.  Nothing locks the list, a  *)
(* channel is entered in it after the line has been sent, and neither      *)
(* official_join nor a loop of goodbyes looks at done.                     *)
(***************************************************************************)
EXTENDS Naturals

CONSTANTS Chans, NoChan

ASSUME JoinsAssumption == NoChan \notin Chans

Main == "main"
Remote == "remote"
Threads == {Main, Remote}

VARIABLES
    inside,    \* the channels the server has the bot in
    chans,     \* IrcBot::chans
    at,        \* "waiting", "taken" past the test of done, "connecting"
    job,       \* what a thread is in the middle of
    done,
    gone,      \* history: a loop of goodbyes has ended
    after,     \* history: channels joined since the first such loop began
    raw        \* history: channels joined by /raw alone

joinVars == <<inside, chans, at, job, done, gone, after, raw>>

Jobs == [kind : {"none", "join", "part", "bye"}, left : SUBSET Chans, chan : Chans \cup {NoChan}]
Job(kind, left, chan) == [kind |-> kind, left |-> left, chan |-> chan]
NoJob == Job("none", {}, NoChan)
Idle(t) == job[t] = NoJob

JoinsInit ==
    /\ inside = {} /\ chans = {} /\ done = FALSE
    /\ at = [t \in Threads |-> "waiting"] /\ job = [t \in Threads |-> NoJob]
    /\ gone = FALSE /\ after = {} /\ raw = {}

(* Some thread is in a loop of goodbyes, or has been.                      *)
Leaving == gone \/ \E t \in Threads : job[t].kind = "bye"
Entered(c) ==
    /\ inside' = inside \cup {c}
    /\ after' = IF Leaving THEN after \cup {c} ELSE after
Left(cs) == inside' = inside \ cs /\ raw' = raw \ cs
-----------------------------------------------------------------------------
(* A thread takes a message or a client, and then something to do: the     *)
(* lines of on_connect are commands done before the joining starts.        *)

Take(t) ==
    /\ at[t] = "waiting" /\ Idle(t) /\ ~done
    /\ at' = [at EXCEPT ![t] = "taken"]
    /\ UNCHANGED <<inside, chans, job, done, gone, after, raw>>

Handling == at[Main] = "taken" /\ Idle(Main)
Executing(t) ==
    /\ Idle(t)
    /\ at[t] = IF t = Main THEN "connecting" ELSE "taken"

Begin(t, j) ==
    /\ job' = [job EXCEPT ![t] = j]
    /\ at' = IF at[t] = "connecting" THEN at ELSE [at EXCEPT ![t] = "waiting"]
End(t) == job' = [job EXCEPT ![t] = NoJob]
-----------------------------------------------------------------------------
(* Joining                                                                 *)

(* RPL_WELCOME: the lines of on_connect, then the channels of "join" and   *)
(* of the store's "invite", which may be any: !pset sets the first.        *)
Welcomed ==
    /\ Handling /\ at' = [at EXCEPT ![Main] = "connecting"]
    /\ UNCHANGED <<inside, chans, job, done, gone, after, raw>>
JoinOfficial(cs) ==
    /\ at[Main] = "connecting" /\ Idle(Main)
    /\ at' = [at EXCEPT ![Main] = "waiting"]
    /\ job' = [job EXCEPT ![Main] = Job("join", cs, NoChan)]
    /\ UNCHANGED <<inside, chans, done, gone, after, raw>>

(* INVITE and !join, and /join                                             *)
Asked(c) ==
    /\ Handling /\ Begin(Main, Job("join", {c}, NoChan))
    /\ UNCHANGED <<inside, chans, done, gone, after, raw>>
ExecJoin(t, c) ==
    /\ Executing(t) /\ Begin(t, Job("join", {c}, NoChan))
    /\ UNCHANGED <<inside, chans, done, gone, after, raw>>

(* official_join has slept, and the line is sent, or could not be.         *)
SendJoin(t, c) ==
    /\ job[t].kind = "join" /\ job[t].chan = NoChan /\ c \in job[t].left
    /\ \/ Entered(c) /\ job' = [job EXCEPT ![t].left = @ \ {c}, ![t].chan = c]
       \/ job' = [job EXCEPT ![t].left = @ \ {c}] /\ UNCHANGED <<inside, after>>
    /\ UNCHANGED <<chans, at, done, gone, raw>>

\* a plausible mistake: official_join leaves it to !join to keep the list
MutInserted(t, c) ==
    IF t = Main THEN chans' = chans /\ job' = [job EXCEPT ![t].chan = NoChan]
    ELSE chans' = chans \cup {c} /\ job' = [job EXCEPT ![t].chan = NoChan]

(* A loop of the other thread over the set may come to a new channel.      *)
Inserted(t, c) ==
    /\ chans' = chans \cup {c}
    /\ \E u \in Threads, left \in {{}, {c}} :
          /\ u # t
          /\ left = {} \/ job[u].kind = "bye"
          /\ job' = [job EXCEPT ![t].chan = NoChan, ![u].left = @ \cup left]

NoteJoin(t) ==
    /\ job[t].kind = "join" /\ job[t].chan # NoChan
    /\ Inserted(t, job[t].chan) /\ raw' = raw \ {job[t].chan}
    /\ UNCHANGED <<inside, at, done, gone, after>>

Joined(t) ==
    /\ job[t] = Job("join", {}, NoChan) /\ End(t)
    /\ UNCHANGED <<inside, chans, at, done, gone, after, raw>>

(* /raw: the line is sent as it is.                                        *)
RawJoin(t, c) ==
    /\ Executing(t) /\ Begin(t, NoJob) /\ Entered(c)
    /\ raw' = IF c \in chans THEN raw ELSE raw \cup {c}
    /\ UNCHANGED <<chans, done, gone>>
RawPart(t, c) ==
    /\ Executing(t) /\ Begin(t, NoJob) /\ Left({c})
    /\ UNCHANGED <<chans, done, gone, after>>
-----------------------------------------------------------------------------
(* Parting                                                                 *)

(* !part: the channel is inserted into chans here too, after the line.     *)
UserPart(c) ==
    /\ Handling /\ Left({c}) /\ Begin(Main, Job("join", {}, c))
    /\ UNCHANGED <<chans, done, gone, after>>

(* JOIN of the bot itself, seen for a channel of "part", which may be any  *)
JoinSeen(c) ==
    /\ Handling /\ c \in inside /\ Left({c}) /\ Begin(Main, NoJob)
    /\ UNCHANGED <<chans, done, gone, after>>

(* /part: only a channel in chans is parted from, once it is erased; a     *)
(* loop of the other thread may have it before it or not.                  *)
ExecPart(t, c) ==
    /\ Executing(t) /\ c \in chans /\ chans' = chans \ {c}
    /\ at' = IF at[t] = "connecting" THEN at ELSE [at EXCEPT ![t] = "waiting"]
    /\ \E u \in Threads, skipped \in {{}, {c}} :
          /\ u # t
          /\ job' = [job EXCEPT ![t] = Job("part", {}, c),
                                ![u].left = IF job[u].kind = "bye" THEN @ \ skipped ELSE @]
    /\ UNCHANGED <<inside, done, gone, after, raw>>
SendPart(t) ==
    /\ job[t].kind = "part" /\ Left({job[t].chan}) /\ End(t)
    /\ UNCHANGED <<chans, at, done, gone, after>>

(* !die with its password, /die and /restart: the loop over chans.  What   *)
(* another thread has joined and not yet entered counts as joined after it. *)
(* The two differ in the line of the QUIT and in what main() does then.    *)
Goodbye(t) ==
    /\ (t = Main /\ Handling) \/ Executing(t)
    /\ Begin(t, Job("bye", chans, NoChan))
    /\ after' = (after \cup {job[u].chan : u \in {v \in Threads : job[v].kind = "join"}})
                 \ {NoChan}
    /\ UNCHANGED <<inside, chans, done, gone, raw>>
SayBye(t, c) ==
    /\ job[t].kind = "bye" /\ c \in job[t].left /\ Left({c})
    /\ job' = [job EXCEPT ![t].left = @ \ {c}]
    /\ UNCHANGED <<chans, at, done, gone, after>>
Die(t) ==
    /\ job[t] = Job("bye", {}, NoChan) /\ End(t) /\ done' = TRUE /\ gone' = TRUE
    /\ UNCHANGED <<inside, chans, at, after, raw>>

(* !restart parts from nothing; the QUIT of exit() is the bot's goodbye.   *)
UserRestart ==
    /\ Handling /\ Begin(Main, NoJob) /\ done' = TRUE
    /\ UNCHANGED <<inside, chans, gone, after, raw>>

Disconnected ==
    /\ inside # {} /\ Left(inside)
    /\ UNCHANGED <<chans, at, job, done, gone, after>>

OfThread(t) ==
    \/ Take(t) \/ Goodbye(t) \/ NoteJoin(t) \/ Joined(t) \/ SendPart(t) \/ Die(t)
    \/ \E c \in Chans : ExecJoin(t, c) \/ RawJoin(t, c) \/ RawPart(t, c) \/ ExecPart(t, c)
    \/ \E c \in Chans : SendJoin(t, c) \/ SayBye(t, c)

JoinsNext ==
    \/ \E t \in Threads : OfThread(t)
    \/ Welcomed \/ UserRestart \/ Disconnected
    \/ \E cs \in SUBSET Chans : JoinOfficial(cs)
    \/ \E c \in Chans : Asked(c) \/ UserPart(c) \/ JoinSeen(c)

JoinsSpec == JoinsInit /\ [][JoinsNext]_joinVars
-----------------------------------------------------------------------------
Parting == {job[t].chan : t \in {u \in Threads : job[u].kind = "part"}}

(* /die, !die and /restart: when the loop over chans has ended, the bot is *)
(* in no channel but those joined since it began, which it may be while    *)
(* official_join sleeps and another thread says goodbye, those /raw has    *)
(* joined behind the list's back, and one a /part is just leaving.         *)
LeavesAll == gone => inside \subseteq after \cup raw \cup Parting
=============================================================================
