------------------------------- MODULE Remote -------------------------------
(***************************************************************************)
(* Remote control: a client connects, sends a command and reads the        *)
(* answer; plugin-rserver, whose sockets never block, reads what is there, *)
(* executes it and answers through a socketstream, a buffer at a time.     *)
(* skivvy-client-nc ends a command with a NUL, skivvy-client writes "\0"   *)
(* and sends none.                                                         *)
(***************************************************************************)
EXTENDS Naturals, Sequences, SequencesExt

CONSTANTS
    Letters,         \* what can be typed
    RemoteCommands,  \* what is typed
    BufferSize,      \* SIZE - 1 of a socketbuf
    Room             \* bytes a socket takes before send() is short

NUL == "0"

ASSUME RemoteAssumption ==
    /\ NUL \notin Letters /\ BufferSize \in Nat /\ Room \in Nat
    /\ \A c \in RemoteCommands : c \in Seq(Letters)

(* IrcBot::exec's answer, longer than the command.                         *)
Answer(cmd) == <<"<">> \o cmd \o <<">">>

VARIABLES
    typed, withNul,  \* the command, and the client's kind
    client,          \* "connect", "send", "read", "told" or "failed"
    unsent,          \* what the client has still to send
    toServer,        \* sent and not received
    toClient,        \* answered and not received
    result,          \* what the client has read
    plugin,          \* "accept", "read", "exec", "write", "closed" or "down"
    ibuf, obuf,      \* the socketbuf's buffers
    good,            \* the socketstream has not failed
    cmd,             \* process(): cmd
    output,          \* what is still to be put into the stream
    finished         \* RServerIrcBotPlugin::done

remoteVars == <<typed, withNul, client, unsent, toServer, toClient, result, plugin,
                ibuf, obuf, good, cmd, output, finished>>
clientVars == <<typed, withNul, client, unsent, result>>
pluginVars == <<plugin, ibuf, obuf, good, cmd, output, finished>>

RemoteInit ==
    /\ typed \in RemoteCommands /\ withNul \in BOOLEAN
    /\ client = "connect" /\ unsent = <<>> /\ result = <<>>
    /\ toServer = <<>> /\ toClient = <<>>
    /\ plugin = "accept" /\ ibuf = <<>> /\ obuf = <<>> /\ good = TRUE
    /\ cmd = <<>> /\ output = <<>> /\ finished = FALSE

ClientConnects ==
    /\ client = "connect" /\ plugin = "accept"
    /\ client' = "send" /\ unsent' = typed \o (IF withNul THEN <<NUL>> ELSE <<>>)
    /\ UNCHANGED <<typed, withNul, result, toServer, toClient, pluginVars>>

(* The bytes leave in pieces of any size.                                  *)
ClientSends ==
    /\ client = "send" /\ unsent # <<>>
    /\ \E n \in 1 .. Len(unsent) :
          /\ toServer' = toServer \o SubSeq(unsent, 1, n)
          /\ unsent' = SubSeq(unsent, n + 1, Len(unsent))
          /\ client' = IF n = Len(unsent) THEN "read" ELSE "send"
    /\ UNCHANGED <<typed, withNul, result, toClient, pluginVars>>

(* One read; without a NUL to wait for a short one is taken for the last.  *)
ClientReads ==
    /\ client = "read" /\ toClient # <<>>
    /\ result' = result \o toClient /\ toClient' = <<>>
    /\ client' = IF ~withNul \/ NUL \in ToSet(toClient) THEN "told" ELSE "read"
    /\ UNCHANGED <<typed, withNul, unsent, toServer, pluginVars>>

(* The connection was closed: sgl() is content with what it has.           *)
ClientSeesEof ==
    /\ client \in {"send", "read"} /\ plugin = "closed" /\ toClient = <<>>
    /\ client' = IF withNul /\ result # <<>> THEN "told" ELSE "failed"
    /\ UNCHANGED <<typed, withNul, unsent, result, toServer, toClient, pluginVars>>
-----------------------------------------------------------------------------
(* listen: accept4 sleeps and tries again until there is a connection; the *)
(* future of async() is discarded, which waits for process().              *)
ListenAccepts ==
    /\ plugin = "accept" /\ ~finished /\ client # "connect" /\ plugin' = "read"
    /\ UNCHANGED <<clientVars, toServer, toClient, ibuf, obuf, good, cmd, output, finished>>

(* underflow: recv() of what has arrived; nothing yet is the end.          *)
Underflow ==
    /\ plugin = "read" /\ ibuf = <<>>
    /\ IF toServer = <<>>
         THEN /\ good' = FALSE /\ plugin' = "exec" /\ UNCHANGED <<ibuf, toServer>>
         ELSE \E n \in 1 .. Len(toServer) :
                 /\ n <= BufferSize + 1
                 /\ ibuf' = SubSeq(toServer, 1, n)
                 /\ toServer' = SubSeq(toServer, n + 1, Len(toServer))
                 /\ UNCHANGED <<good, plugin>>
    /\ UNCHANGED <<clientVars, toClient, obuf, cmd, output, finished>>

(* ss.get(c) && c                                                          *)
GetChar ==
    /\ plugin = "read" /\ ibuf # <<>> /\ ibuf' = Tail(ibuf)
    /\ IF ibuf[1] = NUL THEN plugin' = "exec" /\ UNCHANGED cmd
       ELSE cmd' = Append(cmd, ibuf[1]) /\ UNCHANGED plugin
    /\ UNCHANGED <<clientVars, toServer, toClient, obuf, good, output, finished>>

\* a plausible mistake: ss.clear() to be able to answer
MutProcessed ==
    /\ plugin = "exec" /\ good' = TRUE
    /\ plugin' = IF cmd = <<>> THEN "closed" ELSE "write"
    /\ output' = IF cmd = <<>> THEN <<>> ELSE Answer(cmd) \o <<NUL>>
    /\ UNCHANGED <<clientVars, toServer, toClient, ibuf, obuf, cmd, finished>>

(* bot.exec: whatever was read, if it is not empty.                        *)
Processed ==
    /\ plugin = "exec"
    /\ plugin' = IF cmd = <<>> THEN "closed" ELSE "write"
    /\ output' = IF cmd = <<>> THEN <<>> ELSE Answer(cmd) \o <<NUL>>
    /\ UNCHANGED <<clientVars, toServer, toClient, ibuf, obuf, good, cmd, finished>>

(* output_buffer: all of the buffer, or the stream goes bad and the buffer *)
(* keeps even what has been sent.                                          *)
OutputBuffer(buffer) ==
    LET free == Room - Len(toClient)
    IN  IF Len(buffer) <= free
        THEN /\ toClient' = toClient \o buffer /\ obuf' = <<>> /\ good' = good
        ELSE /\ toClient' = toClient \o SubSeq(buffer, 1, free)
             /\ obuf' = buffer /\ good' = FALSE

(* A character into the buffer, or into overflow() when that is full.      *)
PutChar ==
    /\ plugin = "write" /\ good /\ output # <<>> /\ output' = Tail(output)
    /\ IF Len(obuf) < BufferSize
         THEN obuf' = Append(obuf, output[1]) /\ UNCHANGED <<toClient, good>>
         ELSE OutputBuffer(Append(obuf, output[1]))
    /\ UNCHANGED <<clientVars, toServer, plugin, ibuf, cmd, finished>>

(* std::flush: sync(), unless the stream is bad.  The destructor closes    *)
(* the socket before the buffer gives up what it has.                      *)
Flush ==
    /\ plugin = "write" /\ (output = <<>> \/ ~good) /\ plugin' = "closed"
    /\ IF good THEN OutputBuffer(obuf) ELSE UNCHANGED <<toClient, obuf, good>>
    /\ UNCHANGED <<clientVars, toServer, ibuf, cmd, output, finished>>

(* exit(): done, and listen() ends before its next accept.                 *)
PluginExit ==
    /\ ~finished /\ finished' = TRUE
    /\ UNCHANGED <<clientVars, toServer, toClient, plugin, ibuf, obuf, good, cmd, output>>
ListenEnds ==
    /\ finished /\ plugin \in {"accept", "closed"} /\ plugin' = "down"
    /\ client' = IF client \in {"connect", "send", "read"} THEN "failed" ELSE client
    /\ UNCHANGED <<typed, withNul, unsent, result, toServer, toClient, ibuf, obuf,
                   good, cmd, output, finished>>

RemoteNext ==
    \/ ClientConnects \/ ClientSends \/ ClientReads \/ ClientSeesEof
    \/ ListenAccepts \/ Underflow \/ GetChar \/ Processed \/ PutChar \/ Flush
    \/ PluginExit \/ ListenEnds

RemoteSpec == RemoteInit /\ [][RemoteNext]_remoteVars
-----------------------------------------------------------------------------
(* What reaches a client is the beginning of the answer to the whole of    *)
(* its command, each byte once, also when only a part of the command was   *)
(* there to be executed or the socket does not take all of the answer;     *)
(* and a client that has sent no NUL is told nothing.                      *)
AnswersWhole ==
    LET whole == Answer(typed) \o <<NUL>>
    IN  /\ IsPrefix(result \o toClient, whole)
        /\ ~withNul => result \o toClient = <<>>
=============================================================================
