------------------------------- MODULE Server -------------------------------
(***************************************************************************)
(* net::server (server.cpp): listen() accepts connections, a thread each   *)
(* runs the handler, and clean() takes the finished ones out of the pool   *)
(* and closes their socket.  A socket is a number, the lowest that is      *)
(* free, and means whatever connection has it at the moment.  accept() may *)
(* fail, and so may the start of a thread: both throw out of listen().     *)
(***************************************************************************)
EXTENDS Naturals, FiniteSets

CONSTANTS
    Conns,     \* the connections clients make
    Numbers,   \* socket numbers
    NoConn

ASSUME ServerAssumption == Numbers \subseteq Nat \ {0} /\ NoConn \notin Conns

VARIABLES
    num,       \* the socket number of each connection, 0 before accept()
    open,      \* function from the open numbers to their connections
    running,   \* connections whose handler runs
    pool,      \* server::pool
    stopped,   \* server::done
    scan,      \* what clean() has still to look at, with the lock held
    cleaner,   \* "test", "check", "scan" or "ended"
    listening, \* listen() has not returned nor thrown
    hand,      \* the connection listen() has accepted and not yet inserted
    closers    \* connections whose handlers closed their number themselves

serverVars == <<num, open, running, pool, stopped, scan, cleaner, listening,
                hand, closers>>

ServerInit ==
    /\ num = [c \in Conns |-> 0] /\ open = [n \in {} |-> {}]
    /\ running = {} /\ pool = {} /\ stopped = FALSE
    /\ scan = {} /\ cleaner = "test" /\ listening = TRUE
    /\ hand = NoConn /\ closers = {}

Shut(n) == [m \in DOMAIN open \ {n} |-> open[m]]

(* accept(), without the lock                                              *)
Accept(c) ==
    /\ listening /\ hand = NoConn /\ num[c] = 0
    /\ \E n \in Numbers \ DOMAIN open :
          /\ \A j \in Numbers \ DOMAIN open : n <= j
          /\ num' = [num EXCEPT ![c] = n]
          /\ open' = [m \in DOMAIN open \cup {n} |-> IF m = n THEN c ELSE open[m]]
    /\ hand' = c
    /\ UNCHANGED <<running, pool, stopped, scan, cleaner, listening, closers>>
AcceptFails ==
    /\ listening /\ hand = NoConn /\ listening' = FALSE
    /\ UNCHANGED <<num, open, running, pool, stopped, scan, cleaner, hand, closers>>

(* insert: the lock is clean()'s while it scans.  Without a thread for the *)
(* handler nobody has the number, and nobody closes it.                    *)
Insert ==
    /\ hand # NoConn /\ cleaner # "scan" /\ hand' = NoConn
    /\ \/ /\ running' = running \cup {hand} /\ pool' = pool \cup {hand}
          /\ listening' = ~stopped
       \/ listening' = FALSE /\ UNCHANGED <<running, pool>>
    /\ UNCHANGED <<num, open, stopped, scan, cleaner, closers>>

(* stop() does not wake accept(): listen() returns after one more.         *)
Stop == ~stopped /\ stopped' = TRUE
        /\ UNCHANGED <<num, open, running, pool, scan, cleaner, listening, hand, closers>>

(* A handler with a socketstream closes its number, one without does not.  *)
HandlerEnds(c, closes) ==
    /\ c \in running /\ running' = running \ {c}
    /\ open' = IF closes THEN Shut(num[c]) ELSE open
    /\ closers' = IF closes THEN closers \cup {c} ELSE closers
    /\ UNCHANGED <<num, pool, stopped, scan, cleaner, listening, hand>>

(* while(!done || !pool.empty()), without the lock                         *)
CleanTests ==
    /\ cleaner = "test"
    /\ cleaner' = IF ~stopped \/ pool # {} THEN "check" ELSE "ended"
    /\ UNCHANGED <<num, open, running, pool, stopped, scan, listening, hand, closers>>
CleanChecks ==
    /\ cleaner = "check"
    /\ cleaner' = IF pool = {} THEN "test" ELSE "scan"
    /\ scan' = pool
    /\ UNCHANGED <<num, open, running, pool, stopped, listening, hand, closers>>
CleanScans ==
    /\ cleaner = "scan"
    /\ IF scan = {} THEN cleaner' = "test" /\ UNCHANGED scan
       ELSE \E c \in scan : c \in running /\ scan' = scan \ {c} /\ UNCHANGED cleaner
    /\ UNCHANGED <<num, open, running, pool, stopped, listening, hand, closers>>

\* a plausible mistake: the handlers are trusted to have closed it
MutEraseProc(c) == pool' = pool \ {c} /\ open' = open

(* close(p->first), whoever has that number now; pool.erase(p)             *)
EraseProc(c) == pool' = pool \ {c} /\ open' = Shut(num[c])

Cleans(c) ==
    /\ cleaner = "scan" /\ c \in scan \ running /\ scan' = scan \ {c}
    /\ EraseProc(c)
    /\ UNCHANGED <<num, running, stopped, cleaner, listening, hand, closers>>

ServerNext ==
    \/ Stop \/ AcceptFails \/ Insert \/ CleanTests \/ CleanChecks \/ CleanScans
    \/ \E c \in Conns : Accept(c) \/ Cleans(c)
    \/ \E c \in Conns, closes \in BOOLEAN : HandlerEnds(c, closes)

ServerSpec == ServerInit /\ [][ServerNext]_serverVars
-----------------------------------------------------------------------------
(* The open sockets that clean() will not come to: not in the pool, or in  *)
(* it when clean() has ended.                                              *)
Left == {n \in DOMAIN open : open[n] \notin pool \/ cleaner = "ended"}

(* There is at most one, which listen() has just accepted or has ended     *)
(* with: since it could start no thread, or since it came out of accept()  *)
(* when clean() had seen the pool empty.  And a connection is closed under *)
(* its handler only if that of another, with the same number, has closed   *)
(* its own before clean() did so again.                                    *)
NothingLeft ==
    /\ \A m, n \in Left : m = n /\ (open[n] = hand \/ ~listening)
    /\ \A c \in running : (num[c] \in DOMAIN open /\ open[num[c]] = c)
                          \/ \E d \in closers \ {c} : num[d] = num[c]
=============================================================================
