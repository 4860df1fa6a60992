------------------------------ MODULE Sending -------------------------------
(***************************************************************************)
(* The sending side of RemoteIrcServer: any thread writes lines, piece by  *)
(* piece, with mtx_ss held, while the pinger closes and connects the same  *)
(* socket without it.                                                      *)
(***************************************************************************)
EXTENDS Naturals, Sequences, SequencesExt

CONSTANTS
    Senders,   \* threads that send: main, the flood controller, the pinger
    Pieces,    \* write_some() calls a line takes at most
    MaxLinks,  \* bound: connections made
    MaxLines   \* bound: lines sent

Free == "nobody"

ASSUME SendAssumption ==
    /\ Free \notin Senders
    /\ Pieces \in Nat \ {0} /\ MaxLinks \in Nat \ {0} /\ MaxLines \in Nat

VARIABLES
    link,      \* number of the current connection
    up,        \* the socket is connected and has not failed
    wire,      \* the pieces each connection has carried: line and number
    at,        \* per sender: its line and how much is written, or Idle
    mtx_ss,    \* who holds the mutex
    sentLines  \* lines begun

sendVars == <<link, up, wire, at, mtx_ss, sentLines>>

Idle == [line |-> 0, pos |-> 0]

SendInit ==
    /\ link = 1 /\ up = TRUE /\ wire = [l \in 1 .. MaxLinks |-> <<>>]
    /\ at = [s \in Senders |-> Idle] /\ mtx_ss = Free /\ sentLines = 0

\* a plausible mistake: no lock
MutLock(s) == mtx_ss' = mtx_ss

Lock(s) == mtx_ss = Free /\ mtx_ss' = s

SendUnlogged(s) ==
    /\ at[s] = Idle /\ sentLines < MaxLines /\ Lock(s)
    /\ sentLines' = sentLines + 1
    /\ at' = [at EXCEPT ![s] = [line |-> sentLines + 1, pos |-> 0]]
    /\ UNCHANGED <<link, up, wire>>

(* ss.write_some: some of what is left, on whatever connection there is.   *)
WriteSome(s) ==
    /\ at[s] # Idle /\ at[s].pos < Pieces /\ up
    /\ \E n \in at[s].pos + 1 .. Pieces :
          /\ at' = [at EXCEPT ![s] = [line |-> @.line, pos |-> n]]
          /\ wire' = [wire EXCEPT ![link] =
                        @ \o [i \in 1 .. n - at[s].pos |-> <<at[s].line, at[s].pos + i>>]]
    /\ UNCHANGED <<link, up, mtx_ss, sentLines>>

(* All is written, or ec is set: the rest is never sent.                   *)
SendReturns(s) ==
    /\ at[s] # Idle /\ (at[s].pos = Pieces \/ ~up)
    /\ at' = [at EXCEPT ![s] = Idle] /\ mtx_ss' = Free
    /\ UNCHANGED <<link, up, wire, sentLines>>

(* RemoteIrcServer::close, or the network.                                 *)
LinkLost == up /\ up' = FALSE /\ UNCHANGED <<link, wire, at, mtx_ss, sentLines>>

(* RemoteIrcServer::connect                                                *)
Connect ==
    /\ ~up /\ link < MaxLinks /\ link' = link + 1 /\ up' = TRUE
    /\ UNCHANGED <<wire, at, mtx_ss, sentLines>>

SendNext ==
    \/ LinkLost \/ Connect
    \/ \E s \in Senders : SendUnlogged(s) \/ WriteSome(s) \/ SendReturns(s)

SendSpec == SendInit /\ [][SendNext]_sendVars
-----------------------------------------------------------------------------
(* On every connection the lines of all threads come one after the other,  *)
(* whole.  Only the first thing on a connection may be the rest of a line  *)
(* (its sender was at work when the socket was replaced), and only its     *)
(* last thing the beginning of one.                                        *)
LinesWhole ==
    \A l \in 1 .. MaxLinks : \A i \in 2 .. Len(wire[l]) :
        LET before == wire[l][i - 1]
            piece == wire[l][i]
        IN  IF piece[2] = 1 THEN before[2] = Pieces /\ piece[1] # before[1]
            ELSE piece = <<before[1], before[2] + 1>>
=============================================================================
