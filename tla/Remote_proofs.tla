--------------------------- MODULE Remote_proofs ----------------------------
(***************************************************************************)
(* What goes over sockets: the lines of all senders, the connections of a  *)
(* server, commands and answers.  Each for any number of threads,          *)
(* connections and requests.  And what the helpers make of it.             *)
(***************************************************************************)
EXTENDS Sending, Server, Remote, Http, TestServer, OaStats, Helpers, SequenceFacts,
        FiniteSetTheorems
-----------------------------------------------------------------------------
(* Sending.  The mutex keeps all senders but one idle (Holding); what that *)
(* one has still to write continues what the current connection carried    *)
(* last (Frontier).                                                        *)

SendTypeOK ==
    /\ link \in 1 .. MaxLinks /\ up \in BOOLEAN
    /\ wire \in [1 .. MaxLinks -> Seq(Nat \X Nat)]
    /\ at \in [Senders -> [line : Nat, pos : 0 .. Pieces]]
    /\ mtx_ss \in Senders \cup {Free} /\ sentLines \in Nat

(* Who is at work has the mutex, and the latest line.                      *)
Holding ==
    \A s \in Senders : at[s] # Idle => mtx_ss = s /\ at[s].line = sentLines

Tip == wire[link][Len(wire[link])]

(* The open connection ends with a whole line, older than the one that     *)
(* somebody is about to begin, or where the sender at work has got to.     *)
Frontier ==
    up /\ wire[link] # <<>> =>
        /\ Tip[1] <= sentLines
        /\ mtx_ss = Free => Tip[2] = Pieces
        /\ \A s \in Senders : at[s] # Idle =>
              IF at[s].pos = 0 THEN Tip[2] = Pieces /\ Tip[1] < at[s].line
              ELSE Tip = <<at[s].line, at[s].pos>>

(* Connections still to be made have carried nothing.                      *)
Ahead == \A l \in link + 1 .. MaxLinks : wire[l] = <<>>

(* LinesWhole of one connection.                                           *)
Whole(w) ==
    \A i \in 2 .. Len(w) :
        IF w[i][2] = 1 THEN w[i - 1][2] = Pieces /\ w[i][1] # w[i - 1][1]
        ELSE w[i] = <<w[i - 1][1], w[i - 1][2] + 1>>

SendInv == SendTypeOK /\ Holding /\ Frontier /\ Ahead /\ LinesWhole
-----------------------------------------------------------------------------
LEMMA WholeLinks == LinesWhole <=> \A l \in 1 .. MaxLinks : Whole(wire[l])
BY DEF LinesWhole, Whole

LEMMA InsideOf ==
    ASSUME NEW len \in Nat, NEW i \in Int, 2 <= i, i <= len
    PROVE  i \in 2 .. len /\ i \in 1 .. len /\ i - 1 \in 1 .. len
OBVIOUS

(* Going on with a line where the connection's last piece left off, or     *)
(* beginning one after a whole one, keeps the connection whole.            *)
LEMMA Extending ==
    ASSUME NEW w \in Seq(Nat \X Nat), Whole(w),
           NEW line \in Nat, NEW pos \in 0 .. Pieces - 1, NEW n \in pos + 1 .. Pieces,
           w # <<>> => IF pos = 0 THEN w[Len(w)][2] = Pieces /\ w[Len(w)][1] < line
                       ELSE w[Len(w)] = <<line, pos>>
    PROVE  LET more == [i \in 1 .. n - pos |-> <<line, pos + i>>]
           IN  /\ w \o more \in Seq(Nat \X Nat) /\ w \o more # <<>>
               /\ (w \o more)[Len(w \o more)] = <<line, n>>
               /\ Whole(w \o more)
<1> DEFINE more == [i \in 1 .. n - pos |-> <<line, pos + i>>]
<1>1. n \in Nat /\ pos \in Nat /\ n - pos \in Nat \ {0} /\ Pieces \in Nat \ {0}
  BY SendAssumption
<1>2. /\ more \in Seq(Nat \X Nat) /\ Len(more) = n - pos
      /\ \A i \in 1 .. n - pos : more[i] = <<line, pos + i>>
  <2>1. \A i \in 1 .. n - pos : <<line, pos + i>> \in Nat \X Nat
    BY <1>1
  <2> QED
    BY <1>1, <2>1
<1> HIDE DEF more
<1>3. Len(w) \in Nat
  BY LenProperties
<1>4. /\ w \o more \in Seq(Nat \X Nat)
      /\ Len(w \o more) = Len(w) + (n - pos)
      /\ \A i \in 1 .. Len(w) : (w \o more)[i] = w[i]
      /\ \A i \in 1 .. n - pos : (w \o more)[Len(w) + i] = <<line, pos + i>>
  <2>1. /\ w \o more \in Seq(Nat \X Nat)
        /\ Len(w \o more) = Len(w) + Len(more)
        /\ \A i \in 1 .. Len(w) + Len(more) :
              (w \o more)[i] = IF i <= Len(w) THEN w[i] ELSE more[i - Len(w)]
    BY <1>2, ConcatProperties
  <2>2. ASSUME NEW i \in 1 .. n - pos
        PROVE  (w \o more)[Len(w) + i] = <<line, pos + i>>
    <3> DEFINE k == Len(w) + i
    <3>1. k \in 1 .. Len(w) + Len(more) /\ ~(k <= Len(w)) /\ k - Len(w) = i
      BY <1>1, <1>2, <1>3
    <3> HIDE DEF k
    <3>2. (w \o more)[k] = more[i]
      BY <2>1, <3>1
    <3> QED
      BY <1>2, <3>2 DEF k
  <2>3. \A i \in 1 .. Len(w) : i \in 1 .. Len(w) + Len(more) /\ i <= Len(w)
    BY <1>1, <1>2, <1>3
  <2> QED
    BY <2>1, <2>2, <2>3, <1>2
<1>5. w \o more # <<>> /\ (w \o more)[Len(w \o more)] = <<line, n>>
  <2>1. Len(w \o more) = Len(w) + (n - pos) /\ n - pos \in 1 .. n - pos /\ pos + (n - pos) = n
    BY <1>1, <1>4
  <2>2. Len(w \o more) # 0 /\ Len(<<>>) = 0
    BY <2>1, <1>3, <1>1
  <2> QED
    BY <2>1, <2>2, <1>4
<1>6. Whole(w \o more)
  <2> DEFINE z == w \o more
  <2>a. Len(z) = Len(w) + (n - pos)
    BY <1>4
  <2> HIDE DEF z
  <2> SUFFICES ASSUME NEW i \in 2 .. Len(z)
               PROVE  IF z[i][2] = 1 THEN z[i - 1][2] = Pieces /\ z[i][1] # z[i - 1][1]
                      ELSE z[i] = <<z[i - 1][1], z[i - 1][2] + 1>>
    BY DEF z, Whole
  <2>1. CASE i <= Len(w)
    <3>0. i \in Int /\ 2 <= i
      OBVIOUS
    <3>1. i \in 2 .. Len(w) /\ i \in 1 .. Len(w) /\ i - 1 \in 1 .. Len(w)
      BY <2>1, <1>3, <3>0, InsideOf
    <3>2. z[i] = w[i] /\ z[i - 1] = w[i - 1]
      BY <3>1, <1>4 DEF z
    <3> QED
      BY <3>1, <3>2 DEF Whole
  <2>2. CASE i = Len(w) + 1
    <3>1. 1 \in 1 .. n - pos /\ Len(w) \in 1 .. Len(w) /\ i - 1 = Len(w) /\ w # <<>>
      BY <2>2, <1>1, <1>3
    <3>2. z[i] = <<line, pos + 1>> /\ z[i - 1] = w[Len(w)]
      BY <3>1, <2>2, <1>4 DEF z
    <3>3. w[Len(w)] \in Nat \X Nat
      BY <3>1, ElementOfSeq
    <3>4. CASE pos = 0
      BY <3>1, <3>2, <3>3, <3>4
    <3>5. CASE pos # 0
      BY <3>1, <3>2, <3>5, <1>1
    <3> QED
      BY <3>4, <3>5
  <2>3. CASE i > Len(w) + 1
    <3> DEFINE j == i - Len(w)
    <3>0. i \in Int /\ i <= Len(w) + (n - pos) /\ n - pos \in Nat
      BY <2>a, <1>1, <1>3
    <3>1. /\ j \in 1 .. n - pos /\ j - 1 \in 1 .. n - pos
          /\ Len(w) + j = i /\ Len(w) + (j - 1) = i - 1
      BY <2>3, <3>0, <1>3
    <3> HIDE DEF j
    <3>2. z[i] = <<line, pos + j>> /\ z[i - 1] = <<line, pos + (j - 1)>>
      BY <3>1, <1>4 DEF z
    <3>3. pos + j # 1 /\ pos + j = pos + (j - 1) + 1
      BY <3>1, <1>1
    <3> QED
      BY <3>2, <3>3
  <2>4. i <= Len(w) \/ i = Len(w) + 1 \/ i > Len(w) + 1
    <3>1. PICK l \in Nat : l = Len(w)
      BY <1>3
    <3>2. i <= l \/ i = l + 1 \/ i > l + 1
      OBVIOUS
    <3> QED BY <3>1, <3>2
  <2> QED
    BY <2>1, <2>2, <2>3, <2>4
<1> QED
  BY <1>4, <1>5, <1>6 DEF more
-----------------------------------------------------------------------------
LEMMA Initially == SendInit => SendInv
<1> SUFFICES ASSUME SendInit PROVE SendInv
  OBVIOUS
<1>1. SendTypeOK
  BY SendAssumption DEF SendInit, SendTypeOK, Idle
<1>2. Holding
  BY DEF SendInit, Holding
<1>3. Frontier
  BY SendAssumption DEF SendInit, Frontier
<1>4. Ahead
  BY SendAssumption DEF SendInit, Ahead
<1>5. LinesWhole
  <2>1. \A l \in 1 .. MaxLinks : Len(wire[l]) = 0
    BY DEF SendInit
  <2> QED
    BY <2>1 DEF LinesWhole
<1> QED
  BY <1>1, <1>2, <1>3, <1>4, <1>5 DEF SendInv

(* A line is begun by whoever gets the mutex, so everybody is idle and the *)
(* connection ends with a whole line.                                      *)
LEMMA BeginKeeps ==
    ASSUME SendInv, NEW s \in Senders, SendUnlogged(s) PROVE SendInv'
<1> USE DEF SendUnlogged, Lock
<1>0. at[s] = Idle /\ mtx_ss = Free /\ \A u \in Senders : at[u] = Idle
  BY SendAssumption DEF SendInv, Holding
<1>1. SendTypeOK'
  BY SendAssumption DEF SendInv, SendTypeOK
<1>2. /\ at'[s] = [line |-> sentLines + 1, pos |-> 0]
      /\ \A u \in Senders \ {s} : at'[u] = Idle
  BY <1>0 DEF SendInv, SendTypeOK
<1>3. Holding'
  BY <1>2 DEF Holding
<1>4. Frontier'
  <2> SUFFICES ASSUME up, wire[link] # <<>>
               PROVE  /\ Tip[1] <= sentLines + 1
                      /\ Tip[2] = Pieces
                      /\ Tip[1] < sentLines + 1
    BY <1>2, SendAssumption DEF Frontier, Tip
  <2>1. Tip[2] = Pieces /\ Tip[1] <= sentLines
    BY <1>0 DEF SendInv, Frontier
  <2>2. Tip \in Nat \X Nat
    BY ElementOfSeq, LenProperties, EmptySeq DEF SendInv, SendTypeOK, Tip
  <2>3. Tip[1] \in Nat /\ sentLines \in Nat
    BY <2>2 DEF SendInv, SendTypeOK
  <2> QED
    BY <2>1, <2>3
<1>5. Ahead' /\ LinesWhole'
  BY DEF SendInv, Ahead, LinesWhole
<1> QED
  BY <1>1, <1>3, <1>4, <1>5 DEF SendInv

(* Some more of the line goes where the connection's last piece left off.  *)
LEMMA WriteKeeps ==
    ASSUME SendInv, NEW s \in Senders, WriteSome(s) PROVE SendInv'
<1>1. PICK n \in at[s].pos + 1 .. Pieces :
          /\ at' = [at EXCEPT ![s] = [line |-> @.line, pos |-> n]]
          /\ wire' = [wire EXCEPT ![link] =
                        @ \o [i \in 1 .. n - at[s].pos |-> <<at[s].line, at[s].pos + i>>]]
  BY DEF WriteSome
<1> DEFINE line == at[s].line
           pos == at[s].pos
           w == wire[link]
           more == [i \in 1 .. n - pos |-> <<line, pos + i>>]
<1>2. /\ up /\ at[s] # Idle /\ mtx_ss = s /\ line = sentLines
      /\ UNCHANGED <<link, up, mtx_ss, sentLines>>
  BY DEF WriteSome, SendInv, Holding
<1>3. /\ w \in Seq(Nat \X Nat) /\ line \in Nat /\ pos \in 0 .. Pieces - 1
      /\ n \in pos + 1 .. Pieces /\ n \in 0 .. Pieces /\ n # 0
      /\ link \in 1 .. MaxLinks /\ Pieces \in Nat
  BY <1>1, SendAssumption DEF SendInv, SendTypeOK, WriteSome
<1>4. Whole(w)
  BY <1>3, WholeLinks DEF SendInv
<1>5. w # <<>> => IF pos = 0 THEN w[Len(w)][2] = Pieces /\ w[Len(w)][1] < line
                  ELSE w[Len(w)] = <<line, pos>>
  BY <1>2 DEF SendInv, Frontier, Tip
<1> HIDE DEF line, pos, w
<1>6. /\ w \o more \in Seq(Nat \X Nat) /\ w \o more # <<>>
      /\ (w \o more)[Len(w \o more)] = <<line, n>>
      /\ Whole(w \o more)
  BY <1>3, <1>4, <1>5, Extending
<1>7. /\ wire' = [wire EXCEPT ![link] = w \o more]
      /\ at' = [at EXCEPT ![s] = [line |-> @.line, pos |-> n]]
  BY <1>1 DEF line, pos, w
<1> HIDE DEF more
<1>8. /\ wire'[link] = w \o more
      /\ \A l \in 1 .. MaxLinks \ {link} : wire'[l] = wire[l]
      /\ at'[s] = [line |-> line, pos |-> n]
      /\ \A u \in Senders \ {s} : at'[u] = at[u]
  BY <1>3, <1>7 DEF SendInv, SendTypeOK, line
<1>9. SendTypeOK'
  BY <1>2, <1>3, <1>6, <1>7, <1>8 DEF SendInv, SendTypeOK
<1>10. Holding'
  BY <1>2, <1>8 DEF SendInv, Holding
<1>11. Frontier'
  <2>1. Tip' = <<line, n>>
    BY <1>2, <1>6, <1>8 DEF Tip
  <2>2. mtx_ss' # Free /\ line <= sentLines'
    BY <1>2, <1>3, SendAssumption
  <2>3. \A u \in Senders \ {s} : at'[u] = Idle
    BY <1>2, <1>8 DEF SendInv, Holding
  <2>4. at'[s].pos = n /\ at'[s].line = line
    BY <1>8
  <2>5. \A u \in Senders : at'[u] # Idle => u = s
    BY <2>3
  <2>6. Tip'[1] = line /\ n # 0
    BY <1>3, <2>1
  <2>7. ASSUME NEW u \in Senders, at'[u] # Idle
        PROVE  IF at'[u].pos = 0 THEN Tip'[2] = Pieces /\ Tip'[1] < at'[u].line
               ELSE Tip' = <<at'[u].line, at'[u].pos>>
    <3>1. at'[u].pos = n /\ at'[u].line = line
      BY <2>4, <2>5, <2>7
    <3> QED
      BY <2>1, <2>6, <3>1
  <2> HIDE DEF Tip
  <2> QED
    BY <2>2, <2>6, <2>7 DEF Frontier
<1>12. Ahead'
  <2>1. \A l \in link + 1 .. MaxLinks : wire[l] = <<>>
    BY DEF SendInv, Ahead
  <2>2. \A l \in link + 1 .. MaxLinks : l \in 1 .. MaxLinks \ {link}
    BY <1>3
  <2> QED
    BY <1>2, <1>8, <2>1, <2>2 DEF Ahead
<1>13. LinesWhole'
  <2>1. \A l \in 1 .. MaxLinks : Whole(wire'[l])
    BY <1>6, <1>8, WholeLinks DEF SendInv
  <2> QED
    BY <2>1 DEF LinesWhole, Whole
<1> QED
  BY <1>9, <1>10, <1>11, <1>12, <1>13 DEF SendInv

(* The sender lets go of the mutex when its line is out, or the connection *)
(* down.                                                                   *)
LEMMA ReturnKeeps ==
    ASSUME SendInv, NEW s \in Senders, SendReturns(s) PROVE SendInv'
<1>1. /\ at[s] # Idle /\ (at[s].pos = Pieces \/ ~up)
      /\ at' = [at EXCEPT ![s] = Idle] /\ mtx_ss' = Free
      /\ UNCHANGED <<link, up, wire, sentLines>>
  BY DEF SendReturns
<1>2. SendTypeOK'
  BY <1>1, SendAssumption DEF SendInv, SendTypeOK, Idle
<1>3. \A u \in Senders : at'[u] = Idle
  BY <1>1 DEF SendInv, SendTypeOK, Holding
<1>4. Frontier'
  <2> SUFFICES ASSUME up, wire[link] # <<>>
               PROVE  Tip[1] <= sentLines /\ Tip[2] = Pieces
    BY <1>1, <1>3 DEF Frontier, Tip
  <2>1. Tip[1] <= sentLines
    BY DEF SendInv, Frontier
  <2>2. Tip = <<at[s].line, Pieces>>
    BY <1>1, SendAssumption DEF SendInv, Frontier
  <2> QED
    BY <2>1, <2>2
<1>5. Holding' /\ Ahead' /\ LinesWhole'
  BY <1>1, <1>3 DEF SendInv, Holding, Ahead, LinesWhole
<1> QED
  BY <1>2, <1>4, <1>5 DEF SendInv

(* A new connection has carried nothing, whoever is in the middle of what. *)
LEMMA LinkKeeps == ASSUME SendInv, LinkLost \/ Connect PROVE SendInv'
<1>1. CASE LinkLost
  BY <1>1 DEF LinkLost, SendInv, SendTypeOK, Holding, Frontier, Ahead, LinesWhole
<1>2. CASE Connect
  <2>1. SendTypeOK'
    BY <1>2, SendAssumption DEF Connect, SendInv, SendTypeOK
  <2>2. wire'[link'] = <<>>
    BY <1>2, SendAssumption DEF Connect, SendInv, SendTypeOK, Ahead
  <2>3. Frontier'
    BY <2>2 DEF Frontier
  <2>4. Ahead'
    BY <1>2, SendAssumption DEF Connect, SendInv, SendTypeOK, Ahead
  <2>5. Holding' /\ LinesWhole'
    BY <1>2 DEF Connect, SendInv, Holding, LinesWhole
  <2> QED
    BY <2>1, <2>3, <2>4, <2>5 DEF SendInv
<1> QED
  BY <1>1, <1>2

LEMMA Kept == SendInv /\ [SendNext]_sendVars => SendInv'
<1> SUFFICES ASSUME SendInv, [SendNext]_sendVars PROVE SendInv'
  OBVIOUS
<1>1. CASE UNCHANGED sendVars
  BY <1>1 DEF sendVars, SendInv, SendTypeOK, Holding, Frontier, Tip, Ahead, LinesWhole
<1>2. CASE LinkLost \/ Connect
  BY <1>2, LinkKeeps
<1>3. CASE \E s \in Senders : SendUnlogged(s) \/ WriteSome(s) \/ SendReturns(s)
  BY <1>3, BeginKeeps, WriteKeeps, ReturnKeeps
<1> QED
  BY <1>1, <1>2, <1>3 DEF SendNext
-----------------------------------------------------------------------------
(* RemoteIrcServer: however many threads send and however often the        *)
(* pinger replaces the socket under them, every connection carries whole   *)
(* lines, but for the rest of one at its beginning.                        *)
THEOREM LinesWholeCorrect == SendSpec => []LinesWhole
<1>1. SendInv => LinesWhole
  BY DEF SendInv
<1> QED
  BY Initially, Kept, <1>1, PTL DEF SendSpec
-----------------------------------------------------------------------------
(* net::server.  A number that is open belongs to the connection that has  *)
(* it (Owned); a connection in the pool or in hand has lost its number     *)
(* only if some handler has closed one like it itself (Lost); and nothing  *)
(* is left but in the last round of listen() (LastOne), for clean() ends   *)
(* with an empty pool and not before stop().                               *)

Has(c) == num[c] \in DOMAIN open /\ open[num[c]] = c
Accepted == pool \cup ({hand} \ {NoConn})

ServTypeOK ==
    /\ num \in [Conns -> Nat] /\ DOMAIN open \subseteq Numbers
    /\ running \subseteq pool /\ pool \subseteq Conns /\ scan \subseteq pool
    /\ closers \subseteq Conns \ running
    /\ hand \in Conns \cup {NoConn} /\ hand \notin pool \cup closers
    /\ hand # NoConn => listening
    /\ \A c \in Accepted \cup closers : num[c] # 0

Owned == \A n \in DOMAIN open : open[n] \in Conns /\ num[open[n]] = n

Lost == \A c \in Accepted : Has(c) \/ \E d \in closers : num[d] = num[c]

LastOne ==
    /\ \A m, n \in Left : m = n /\ (open[n] = hand \/ ~listening)
    /\ cleaner = "ended" => stopped /\ (listening => pool = {})

ServInv == ServTypeOK /\ Owned /\ Lost /\ LastOne

LEMMA ServerInitially == ServerInit => ServInv
BY ServerAssumption DEF ServerInit, ServInv, ServTypeOK, Accepted, Owned, Lost, LastOne, Left

LEMMA AcceptKeeps == ASSUME ServInv, NEW c \in Conns, Accept(c) PROVE ServInv'
<1>1. PICK n \in Numbers \ DOMAIN open :
        /\ num' = [num EXCEPT ![c] = n]
        /\ open' = [k \in DOMAIN open \cup {n} |-> IF k = n THEN c ELSE open[k]]
  BY DEF Accept
<1>2. /\ n \in Nat \ {0} /\ num[c] = 0 /\ c \notin pool \cup closers /\ c # NoConn
      /\ hand = NoConn /\ listening
  BY <1>1, ServerAssumption DEF Accept, ServInv, ServTypeOK, Accepted
<1>3. /\ num' \in [Conns -> Nat] /\ num'[c] = n
      /\ \A d \in Conns \ {c} : num'[d] = num[d]
  BY <1>1, <1>2 DEF ServInv, ServTypeOK
<1>4. /\ DOMAIN open' = DOMAIN open \cup {n} /\ open'[n] = c
      /\ \A k \in DOMAIN open : open'[k] = open[k] /\ k # n
  BY <1>1
<1>5. /\ hand' = c /\ Accepted = pool /\ Accepted' = pool \cup {c}
      /\ UNCHANGED <<running, pool, stopped, scan, cleaner, listening, closers>>
  BY <1>2 DEF Accept, Accepted
<1>6. ServTypeOK'
  BY <1>1, <1>2, <1>3, <1>4, <1>5 DEF ServInv, ServTypeOK
<1>7. Owned'
  <2>1. \A k \in DOMAIN open : open[k] \in Conns \ {c} /\ num[open[k]] = k
    BY <1>2, ServerAssumption DEF ServInv, ServTypeOK, Owned
  <2> QED BY <2>1, <1>2, <1>3, <1>4 DEF Owned
<1>8. Lost'
  <2> SUFFICES ASSUME NEW d \in pool \cup {c} PROVE Has(d)' \/ \E e \in closers : num'[e] = num'[d]
    BY <1>5 DEF Lost
  <2>1. CASE d = c
    BY <2>1, <1>3, <1>4 DEF Has
  <2>2. CASE d # c /\ Has(d)
    BY <2>2, <1>3, <1>4, <1>5 DEF Has, ServInv, ServTypeOK
  <2>3. CASE d # c /\ ~Has(d)
    <3>1. PICK e \in closers : num[e] = num[d]
      BY <2>3, <1>5 DEF ServInv, Lost
    <3>2. e # c /\ e \in Conns /\ d \in Conns
      BY <1>2, <1>5, <2>3 DEF ServInv, ServTypeOK
    <3> QED
      BY <3>1, <3>2, <2>3, <1>3
  <2> QED
    BY <2>1, <2>2, <2>3
<1>9. LastOne'
  <2>1. Left = {}
    BY <1>2, ServerAssumption DEF ServInv, LastOne, Owned, Left
  <2>2. Left' \subseteq {n}
    BY <2>1, <1>4, <1>5 DEF Left
  <2> QED
    BY <2>2, <1>4, <1>5 DEF ServInv, LastOne
<1> QED
  BY <1>6, <1>7, <1>8, <1>9 DEF ServInv

LEMMA InsertKeeps == ASSUME ServInv, Insert PROVE ServInv'
<1>1. /\ hand # NoConn /\ hand' = NoConn /\ listening
      /\ UNCHANGED <<num, open, stopped, scan, cleaner, closers>>
  BY DEF Insert, ServInv, ServTypeOK
<1>2. CASE /\ running' = running \cup {hand} /\ pool' = pool \cup {hand}
           /\ listening' = ~stopped
  <2>1. Accepted' = Accepted
    BY <1>1, <1>2, ServerAssumption DEF Accepted, ServInv, ServTypeOK
  <2>2. ServTypeOK' /\ Owned'
    BY <1>1, <1>2, <2>1, ServerAssumption DEF ServInv, ServTypeOK, Owned
  <2>3. Lost'
    BY <1>1, <2>1 DEF ServInv, Lost, Has
  <2>4. Left' \subseteq Left /\ \A n \in Left' : open[n] # hand \/ cleaner = "ended"
    BY <1>1, <1>2 DEF Left
  <2>5. LastOne'
    BY <1>1, <1>2, <2>4 DEF ServInv, LastOne
  <2> QED BY <2>2, <2>3, <2>5 DEF ServInv
<1>3. CASE listening' = FALSE /\ UNCHANGED <<running, pool>>
  <2>1. Accepted' \subseteq Accepted
    BY <1>1, <1>3 DEF Accepted
  <2>2. ServTypeOK' /\ Owned'
    BY <1>1, <1>3, <2>1, ServerAssumption DEF ServInv, ServTypeOK, Owned
  <2>3. Lost'
    BY <1>1, <2>1 DEF ServInv, Lost, Has
  <2>4. LastOne'
    BY <1>1, <1>3 DEF ServInv, LastOne, Left
  <2> QED BY <2>2, <2>3, <2>4 DEF ServInv
<1> QED BY <1>2, <1>3 DEF Insert

LEMMA HandlerKeeps ==
    ASSUME ServInv, NEW c \in Conns, NEW closes \in BOOLEAN, HandlerEnds(c, closes)
    PROVE  ServInv'
<1>1. c \in running /\ c \in pool /\ running' = running \ {c}
      /\ UNCHANGED <<num, pool, scan, stopped, cleaner, listening, hand>>
  BY DEF HandlerEnds, ServInv, ServTypeOK
<1>2. CASE closes
  <2>1. open' = Shut(num[c]) /\ closers' = closers \cup {c}
    BY <1>2 DEF HandlerEnds
  <2>2. /\ DOMAIN open' = DOMAIN open \ {num[c]}
        /\ \A n \in DOMAIN open' : open'[n] = open[n]
    BY <2>1 DEF Shut
  <2>3. ServTypeOK' /\ Owned'
    BY <1>1, <2>1, <2>2 DEF ServInv, ServTypeOK, Accepted, Owned
  <2>4. Lost'
    BY <1>1, <2>1, <2>2 DEF ServInv, Lost, Accepted, Has
  <2>5. LastOne'
    BY <1>1, <2>2 DEF ServInv, LastOne, Left
  <2> QED
    BY <2>3, <2>4, <2>5 DEF ServInv
<1>3. CASE ~closes
  BY <1>1, <1>3 DEF HandlerEnds, ServInv, ServTypeOK, Accepted, Owned, Lost, Has, LastOne, Left
<1> QED
  BY <1>2, <1>3

LEMMA CleansKeeps == ASSUME ServInv, NEW c \in Conns, Cleans(c) PROVE ServInv'
<1>1. /\ c \in scan \ running /\ pool' = pool \ {c} /\ scan' = scan \ {c}
      /\ open' = Shut(num[c]) /\ cleaner = "scan"
      /\ UNCHANGED <<num, running, stopped, cleaner, listening, hand, closers>>
  BY DEF Cleans, EraseProc
<1>2. /\ DOMAIN open' = DOMAIN open \ {num[c]}
      /\ \A n \in DOMAIN open' : open'[n] = open[n]
  BY <1>1 DEF Shut
<1>3. ServTypeOK' /\ Owned'
  BY <1>1, <1>2 DEF ServInv, ServTypeOK, Accepted, Owned
<1>4. Lost'
  <2> SUFFICES ASSUME NEW d \in Accepted \ {c}, Has(d), num[d] = num[c]
               PROVE  \E e \in closers : num[e] = num[d]
    BY <1>1, <1>2 DEF ServInv, ServTypeOK, Lost, Accepted, Has
  <2>1. ~Has(c) /\ c \in Accepted
    BY <1>1 DEF Has, ServInv, ServTypeOK, Accepted
  <2> QED
    BY <1>1, <2>1 DEF ServInv, Lost
<1>5. LastOne'
  <2>1. Left' \subseteq Left
    <3> SUFFICES ASSUME NEW n \in Left' PROVE n \in Left
      OBVIOUS
    <3>1. n \in DOMAIN open \ {num[c]} /\ open'[n] = open[n]
      BY <1>2 DEF Left
    <3>2. open[n] # c
      BY <3>1 DEF ServInv, Owned
    <3> QED BY <1>1, <3>1, <3>2 DEF Left
  <2>2. \A n \in Left' : open'[n] = open[n]
    BY <1>2 DEF Left
  <2> QED BY <1>1, <2>1, <2>2 DEF ServInv, LastOne
<1> QED
  BY <1>3, <1>4, <1>5 DEF ServInv

LEMMA ServerKept == ServInv /\ [ServerNext]_serverVars => ServInv'
<1> SUFFICES ASSUME ServInv, [ServerNext]_serverVars PROVE ServInv'
  OBVIOUS
<1> USE DEF ServInv, ServTypeOK, Accepted, Owned, Lost, Has, LastOne, Left
<1>1. CASE UNCHANGED serverVars
  BY <1>1 DEF serverVars
<1>2. CASE Stop \/ AcceptFails
  BY <1>2 DEF Stop, AcceptFails
<1>6. CASE CleanTests
  BY <1>6 DEF CleanTests
<1>7. CASE Insert
  BY <1>7, InsertKeeps
<1>3. CASE CleanChecks \/ CleanScans
  BY <1>3 DEF CleanChecks, CleanScans
<1>4. CASE \E c \in Conns : Accept(c) \/ Cleans(c)
  BY <1>4, AcceptKeeps, CleansKeeps
<1>5. CASE \E c \in Conns, closes \in BOOLEAN : HandlerEnds(c, closes)
  BY <1>5, HandlerKeeps
<1> QED
  BY <1>1, <1>2, <1>3, <1>4, <1>5, <1>6, <1>7 DEF ServerNext

(* net::server: whatever clients come, whenever their handlers end, close  *)
(* their socket or not, accept() or a thread fails and stop() is called,   *)
(* at most one open socket is left that clean() will not close, and a      *)
(* connection is closed under its handler only by the second close of a    *)
(* number that somebody else has closed.                                   *)
THEOREM NothingLeftCorrect == ServerSpec => []NothingLeft
<1>1. ServInv => NothingLeft
  BY DEF ServInv, ServTypeOK, Accepted, Lost, Has, LastOne, NothingLeft
<1> QED
  BY ServerInitially, ServerKept, <1>1, PTL DEF ServerSpec
-----------------------------------------------------------------------------
(* Remote control.  What the client has to send is in its hands, on its    *)
(* way, in the buffer and in cmd, nothing lost in between (Incoming); so   *)
(* is the answer from the plugin on, while the stream is good (Outgoing).  *)
(* The stream is good when a command is executed only if its NUL has been  *)
(* read, and then cmd is what was typed.                                   *)

Input == Letters \cup {NUL}
Bytes == Letters \cup {NUL, "<", ">"}
Ending == IF withNul THEN <<NUL>> ELSE <<>>
Told == Answer(typed) \o <<NUL>>

RemoteTypeOK ==
    /\ typed \in Seq(Letters) /\ cmd \in Seq(Letters)
    /\ unsent \in Seq(Input) /\ toServer \in Seq(Input) /\ ibuf \in Seq(Input)
    /\ toClient \in Seq(Bytes) /\ result \in Seq(Bytes)
    /\ obuf \in Seq(Bytes) /\ output \in Seq(Bytes)
    /\ withNul \in BOOLEAN /\ good \in BOOLEAN
    /\ Len(toClient) <= Room

Incoming ==
    /\ client = "connect" =>
          /\ plugin \in {"accept", "down"}
          /\ cmd = <<>> /\ ibuf = <<>> /\ toServer = <<>>
    /\ plugin \in {"accept", "read"} =>
          /\ good
          /\ client # "connect" => ((cmd \o ibuf) \o toServer) \o unsent = typed \o Ending
    /\ plugin = "exec" /\ good => withNul /\ cmd = typed

Outgoing ==
    /\ plugin \in {"accept", "read", "exec"} =>
          result = <<>> /\ toClient = <<>> /\ obuf = <<>>
    /\ plugin = "write" /\ good =>
          withNul /\ ((result \o toClient) \o obuf) \o output = Told

RemoteInv == RemoteTypeOK /\ Incoming /\ Outgoing /\ AnswersWhole


LEMMA RemoteSequences ==
  ASSUME RemoteTypeOK
  PROVE  /\ <<NUL>> \in Seq(Input) /\ Ending \in Seq(Input) /\ typed \in Seq(Input)
         /\ typed \o Ending \in Seq(Input) /\ cmd \in Seq(Input) /\ <<>> \in Seq(Input)
         /\ Told \in Seq(Bytes) /\ <<>> \in Seq(Bytes)
<1>1. Letters \subseteq Bytes /\ NUL \in Bytes /\ "<" \in Bytes /\ ">" \in Bytes
  BY DEF Bytes
<1>2. typed \in Seq(Bytes)
  BY <1>1, SeqMonotonic DEF RemoteTypeOK
<1>3. /\ <<NUL>> \in Seq(Bytes) /\ <<"<">> \in Seq(Bytes) /\ <<">">> \in Seq(Bytes)
      /\ <<>> \in Seq(Bytes)
  BY <1>1
<1>4. <<"<">> \o typed \in Seq(Bytes)
  BY <1>2, <1>3, ConcatProperties
<1>5. (<<"<">> \o typed) \o <<">">> \in Seq(Bytes)
  BY <1>3, <1>4, ConcatProperties
<1>6. Told \in Seq(Bytes)
  BY <1>3, <1>5, ConcatProperties DEF Told, Answer
<1>7. Letters \subseteq Input /\ NUL \in Input
  BY DEF Input
<1>8. typed \in Seq(Input) /\ cmd \in Seq(Input)
  BY <1>7, SeqMonotonic DEF RemoteTypeOK
<1>9. <<NUL>> \in Seq(Input) /\ <<>> \in Seq(Input)
  BY <1>7
<1>10. Ending \in Seq(Input)
  BY <1>9 DEF Ending
<1>11. typed \o Ending \in Seq(Input)
  BY <1>8, <1>10, ConcatProperties
<1> QED BY <1>3, <1>6, <1>8, <1>9, <1>10, <1>11

LEMMA JoinInput == \A p, q, r \in Seq(Input) : (p \o q) \o r = p \o (q \o r)
BY ConcatAssociative

LEMMA JoinBytes == \A p, q, r \in Seq(Bytes) : (p \o q) \o r = p \o (q \o r)
BY ConcatAssociative

(* The first NUL read is the end of what was typed.                        *)
LEMMA FirstNul ==
  ASSUME NEW a \in Seq(Letters), NEW t \in Seq(Letters), NEW r \in Seq(Input),
         NEW e \in {<<>>, <<NUL>>}, (a \o <<NUL>>) \o r = t \o e
  PROVE  e = <<NUL>> /\ a = t
<1>1. Letters \subseteq Input /\ NUL \in Input
  BY DEF Input
<1>2. a \in Seq(Input) /\ t \in Seq(Input) /\ <<NUL>> \in Seq(Input) /\ e \in Seq(Input)
  <2>1. a \in Seq(Input) /\ t \in Seq(Input)
    BY <1>1, SeqMonotonic
  <2>2. <<NUL>> \in Seq(Input) /\ <<>> \in Seq(Input)
    BY <1>1
  <2> QED BY <2>1, <2>2
<1>3. PICK b \in Seq(Input) : b = a \o <<NUL>>
  BY <1>2, ConcatProperties
<1>4. /\ Len(a) \in Nat /\ Len(b) = Len(a) + 1 /\ b[Len(a) + 1] = NUL
      /\ \A i \in 1 .. Len(a) : b[i] = a[i]
  <2>1. /\ Len(b) = Len(a) + 1
        /\ \A i \in 1 .. Len(a) + 1 : b[i] = IF i <= Len(a) THEN a[i] ELSE <<NUL>>[i - Len(a)]
    <3>1. PICK u \in Seq(Input) : u = <<NUL>>
      BY <1>2
    <3>2. Len(u) = 1
      BY <3>1
    <3>3. /\ Len(a \o u) = Len(a) + Len(u)
          /\ \A i \in 1 .. Len(a) + Len(u) : (a \o u)[i] = IF i <= Len(a) THEN a[i] ELSE u[i - Len(a)]
      BY <1>2, ConcatProperties
    <3> QED BY <1>3, <3>1, <3>2, <3>3
  <2>2. Len(a) \in Nat
    BY LenProperties
  <2> QED BY <2>1, <2>2
<1>5. PICK w \in Seq(Input) : w = b \o r /\ w = t \o e
  BY <1>3, ConcatProperties
<1>6. /\ Len(w) = Len(b) + Len(r) /\ Len(r) \in Nat
      /\ \A i \in 1 .. Len(b) + Len(r) : w[i] = IF i <= Len(b) THEN b[i] ELSE r[i - Len(b)]
  <2>1. Len(r) \in Nat
    BY LenProperties
  <2>2. /\ Len(b \o r) = Len(b) + Len(r)
        /\ \A i \in 1 .. Len(b) + Len(r) : (b \o r)[i] = IF i <= Len(b) THEN b[i] ELSE r[i - Len(b)]
    BY ConcatProperties
  <2> QED BY <1>5, <2>1, <2>2
<1>7. /\ Len(w) = Len(t) + Len(e) /\ Len(t) \in Nat
      /\ \A i \in 1 .. Len(t) + Len(e) : w[i] = IF i <= Len(t) THEN t[i] ELSE e[i - Len(t)]
  BY <1>2, <1>5, ConcatProperties, LenProperties
<1>8. w[Len(a) + 1] = NUL /\ \A i \in 1 .. Len(a) : w[i] = a[i]
  <2>1. w[Len(a) + 1] = NUL
    BY <1>4, <1>6
  <2>2. \A i \in 1 .. Len(a) : w[i] = a[i]
    BY <1>4, <1>6
  <2> QED BY <2>1, <2>2
<1>9. Len(a) + 1 > Len(t)
  <2> SUFFICES ASSUME Len(a) + 1 <= Len(t) PROVE FALSE
    BY <1>4, <1>7
  <2>1. PICK n \in 1 .. Len(t) : n = Len(a) + 1
    BY <1>4, <1>7
  <2>2. t[n] \in Letters
    BY ElementOfSeq
  <2>3. Len(e) \in Nat
    BY <1>2, LenProperties
  <2>4. w[n] = t[n]
    BY <1>7, <2>3
  <2> QED BY <1>8, <2>1, <2>2, <2>4, RemoteAssumption
<1>10. Len(e) = 0 \/ (Len(e) = 1 /\ e = <<NUL>>)
  OBVIOUS
<1>11. e = <<NUL>> /\ Len(e) = 1 /\ Len(a) = Len(t)
  <2>1. Len(w) >= Len(a) + 1
    BY <1>4, <1>6
  <2>2. Len(e) # 0
    BY <1>4, <1>7, <1>9, <1>10, <2>1
  <2>3. e = <<NUL>> /\ Len(e) = 1
    BY <1>10, <2>2
  <2>4. Len(w) = Len(t) + 1
    BY <1>7, <2>3
  <2> QED BY <1>4, <1>7, <1>9, <2>1, <2>3, <2>4
<1>12. \A i \in 1 .. Len(a) : a[i] = t[i]
  BY <1>4, <1>7, <1>8, <1>11
<1> QED BY <1>11, <1>12, SeqEqual

LEMMA RemoteInitially == RemoteInit => RemoteInv
<1> SUFFICES ASSUME RemoteInit PROVE RemoteInv
  OBVIOUS
<1>1. RemoteTypeOK
  <2>1. Len(<<>>) = 0 /\ 0 <= Room
    BY RemoteAssumption
  <2> QED BY <2>1, RemoteAssumption DEF RemoteInit, RemoteTypeOK
<1>2. Incoming /\ Outgoing
  BY DEF RemoteInit, Incoming, Outgoing
<1>3. <<>> \o <<>> = <<>>
  OBVIOUS
<1>4. IsPrefix(<<>>, Told)
  <2>1. <<>> \o Told = Told
    BY <1>1, RemoteSequences, ConcatEmptySeq
  <2>2. PICK e \in Seq(Bytes) : e = <<>>
    BY <1>1, RemoteSequences
  <2>3. IsPrefix(e, e \o Told)
    BY <1>1, RemoteSequences, PrefixOf
  <2> QED BY <2>1, <2>2, <2>3
<1>5. AnswersWhole
  BY <1>3, <1>4 DEF RemoteInit, AnswersWhole, Told
<1> QED BY <1>1, <1>2, <1>5 DEF RemoteInv
-----------------------------------------------------------------------------
(* The way of the command.                                                 *)
LEMMA ConnectsKeeps == ASSUME RemoteInv, ClientConnects PROVE RemoteInv'
<1> USE DEF RemoteInv
<1>1. RemoteTypeOK'
  BY RemoteSequences DEF ClientConnects, pluginVars, RemoteTypeOK, Ending
<1>2. ((<<>> \o <<>>) \o <<>>) \o unsent' = unsent'
  <2>1. <<>> \o <<>> = <<>>
    OBVIOUS
  <2>2. <<>> \o unsent' = unsent'
    BY <1>1, ConcatEmptySeq DEF RemoteTypeOK
  <2> QED BY <2>1, <2>2
<1>3. unsent' = typed' \o Ending'
  BY DEF ClientConnects, Ending
<1>4. Incoming'
  BY <1>2, <1>3 DEF ClientConnects, pluginVars, Incoming
<1>5. Outgoing' /\ AnswersWhole'
  BY DEF ClientConnects, pluginVars, Outgoing, AnswersWhole, Told
<1> QED BY <1>1, <1>4, <1>5

LEMMA SendsKeeps == ASSUME RemoteInv, ClientSends PROVE RemoteInv'
<1> USE DEF RemoteInv
<1>1. PICK n \in 1 .. Len(unsent) :
          /\ toServer' = toServer \o SubSeq(unsent, 1, n)
          /\ unsent' = SubSeq(unsent, n + 1, Len(unsent))
          /\ client' \in {"read", "send"}
  BY DEF ClientSends
<1>2. PICK x, y \in Seq(Input) : /\ x = SubSeq(unsent, 1, n)
                                 /\ y = SubSeq(unsent, n + 1, Len(unsent))
                                 /\ x \o y = unsent
  <2>1. n \in 0 .. Len(unsent)
    OBVIOUS
  <2>2. \A k \in 0 .. Len(unsent) :
            /\ SubSeq(unsent, 1, k) \in Seq(Input)
            /\ SubSeq(unsent, k + 1, Len(unsent)) \in Seq(Input)
            /\ SubSeq(unsent, 1, k) \o SubSeq(unsent, k + 1, Len(unsent)) = unsent
    BY SplitAt DEF RemoteTypeOK
  <2> QED BY <2>1, <2>2
<1>3. RemoteTypeOK'
  <2>1. toServer \o x \in Seq(Input)
    BY ConcatProperties DEF RemoteTypeOK
  <2> QED BY <1>1, <1>2, <2>1 DEF ClientSends, pluginVars, RemoteTypeOK
<1>4. ((cmd \o ibuf) \o (toServer \o x)) \o y = ((cmd \o ibuf) \o toServer) \o unsent
  <2>1. PICK a \in Seq(Input) : a = cmd \o ibuf
    BY RemoteSequences, ConcatProperties DEF RemoteTypeOK
  <2>2. PICK b \in Seq(Input) : b = a \o toServer
    BY ConcatProperties DEF RemoteTypeOK
  <2>3. a \o (toServer \o x) = b \o x
    <3>1. Regroup(a, toServer, x)
      BY Regrouped DEF RemoteTypeOK
    <3> QED BY <2>2, <3>1 DEF Regroup
  <2>4. (b \o x) \o y = b \o (x \o y)
    BY JoinInput
  <2> QED BY <1>2, <2>1, <2>2, <2>3, <2>4
<1>5. Incoming'
  BY <1>1, <1>2, <1>4 DEF ClientSends, pluginVars, Incoming, Ending
<1>6. Outgoing' /\ AnswersWhole'
  BY DEF ClientSends, pluginVars, Outgoing, AnswersWhole, Told
<1> QED BY <1>3, <1>5, <1>6

LEMMA UnderflowKeeps == ASSUME RemoteInv, Underflow PROVE RemoteInv'
<1> USE DEF RemoteInv
<1>1. Outgoing' /\ AnswersWhole'
  BY DEF Underflow, clientVars, Outgoing, AnswersWhole, Told
<1>2. CASE toServer = <<>>
  BY <1>1, <1>2 DEF Underflow, clientVars, RemoteTypeOK, Incoming
<1>3. CASE toServer # <<>>
  <2>1. PICK n \in 1 .. Len(toServer) :
            /\ ibuf' = SubSeq(toServer, 1, n)
            /\ toServer' = SubSeq(toServer, n + 1, Len(toServer))
            /\ UNCHANGED <<good, plugin>>
    BY <1>3 DEF Underflow
  <2>2. PICK x, y \in Seq(Input) : /\ x = SubSeq(toServer, 1, n)
                                   /\ y = SubSeq(toServer, n + 1, Len(toServer))
                                   /\ x \o y = toServer
    <3>1. n \in 0 .. Len(toServer)
      OBVIOUS
    <3>2. \A k \in 0 .. Len(toServer) :
              /\ SubSeq(toServer, 1, k) \in Seq(Input)
              /\ SubSeq(toServer, k + 1, Len(toServer)) \in Seq(Input)
              /\ SubSeq(toServer, 1, k) \o SubSeq(toServer, k + 1, Len(toServer)) = toServer
      BY SplitAt DEF RemoteTypeOK
    <3> QED BY <3>1, <3>2
  <2>3. RemoteTypeOK'
    BY <2>1, <2>2 DEF Underflow, clientVars, RemoteTypeOK
  <2>4. (cmd \o x) \o y = (cmd \o ibuf) \o toServer
    <3>1. cmd \o ibuf = cmd
      BY RemoteSequences, ConcatEmptySeq DEF Underflow
    <3>2. Regroup(cmd, x, y)
      BY RemoteSequences, Regrouped
    <3> QED BY <2>2, <3>1, <3>2 DEF Regroup
  <2>5. Incoming'
    BY <2>1, <2>2, <2>4 DEF Underflow, clientVars, Incoming, Ending
  <2> QED BY <1>1, <2>3, <2>5
<1> QED BY <1>2, <1>3

LEMMA GetCharKeeps == ASSUME RemoteInv, GetChar PROVE RemoteInv'
<1> USE DEF RemoteInv
<1>1. Outgoing' /\ AnswersWhole'
  BY DEF GetChar, clientVars, Outgoing, AnswersWhole, Told
<1>2. PICK c \in Input, r \in Seq(Input) :
          c = ibuf[1] /\ r = Tail(ibuf) /\ ibuf = <<c>> \o r
  BY HeadTail DEF GetChar, RemoteTypeOK
<1>3. client # "connect" /\ ((cmd \o ibuf) \o toServer) \o unsent = typed \o Ending
  BY DEF GetChar, Incoming
<1>4. cmd \o ibuf = (cmd \o <<c>>) \o r
  <2>1. <<c>> \in Seq(Input)
    OBVIOUS
  <2>2. Regroup(cmd, <<c>>, r)
    BY <2>1, RemoteSequences, Regrouped
  <2> QED BY <1>2, <2>2 DEF Regroup
<1>5. CASE c = NUL
  <2>1. PICK b \in Seq(Input) : b = cmd \o <<NUL>>
    BY RemoteSequences, ConcatProperties
  <2>2. PICK q \in Seq(Input) : q = (r \o toServer) \o unsent
    <3>1. r \o toServer \in Seq(Input)
      BY ConcatProperties DEF RemoteTypeOK
    <3> QED BY <3>1, ConcatProperties DEF RemoteTypeOK
  <2>3. ((b \o r) \o toServer) \o unsent = b \o q
    <3>1. r \o toServer \in Seq(Input)
      BY ConcatProperties DEF RemoteTypeOK
    <3>2. (b \o r) \o toServer = b \o (r \o toServer)
      BY JoinInput, Zenon DEF RemoteTypeOK
    <3>3. Regroup(b, r \o toServer, unsent)
      BY <3>1, Regrouped DEF RemoteTypeOK
    <3> QED BY <2>2, <3>2, <3>3 DEF Regroup
  <2>4. (cmd \o <<NUL>>) \o q = typed \o Ending
    BY <1>3, <1>4, <1>5, <2>1, <2>3
  <2>5. Ending \in {<<>>, <<NUL>>} /\ cmd \in Seq(Letters) /\ typed \in Seq(Letters)
    BY DEF Ending, RemoteTypeOK
  <2>6. Ending = <<NUL>> /\ cmd = typed
    BY <2>4, <2>5, FirstNul
  <2>7. withNul
    BY <2>6 DEF Ending
  <2>8. Incoming'
    BY <1>2, <1>3, <1>5, <2>6, <2>7 DEF GetChar, clientVars, Incoming
  <2>9. RemoteTypeOK'
    BY <1>2, <1>5 DEF GetChar, clientVars, RemoteTypeOK
  <2> QED BY <1>1, <2>8, <2>9
<1>6. CASE c # NUL
  <2>1. c \in Letters
    BY <1>6 DEF Input
  <2>2. cmd' = Append(cmd, c) /\ ibuf' = r /\ plugin' = plugin
    BY <1>2, <1>6 DEF GetChar
  <2>3. cmd' \in Seq(Letters)
    BY <2>1, <2>2, AppendProperties DEF RemoteTypeOK
  <2>4. RemoteTypeOK'
    BY <2>2, <2>3 DEF GetChar, clientVars, RemoteTypeOK
  <2>5. cmd' = cmd \o <<c>>
    BY <2>1, <2>2, AppendIsConcat DEF RemoteTypeOK
  <2>6. Incoming'
    BY <1>3, <1>4, <2>2, <2>5 DEF GetChar, clientVars, Incoming, Ending
  <2> QED BY <1>1, <2>4, <2>6
<1> QED BY <1>5, <1>6
-----------------------------------------------------------------------------
(* The way of the answer.                                                  *)

LEMMA ReadsKeeps == ASSUME RemoteInv, ClientReads PROVE RemoteInv'
<1> USE DEF RemoteInv
<1>1. result \o toClient \in Seq(Bytes)
  BY ConcatProperties DEF RemoteTypeOK
<1>2. result' \o toClient' = result \o toClient
  BY <1>1, ConcatEmptySeq DEF ClientReads
<1>3. RemoteTypeOK'
  BY <1>1, RemoteSequences, RemoteAssumption DEF ClientReads, pluginVars, RemoteTypeOK
<1>4. Incoming'
  BY DEF ClientReads, pluginVars, Incoming, Ending
<1>5. Outgoing' /\ AnswersWhole'
  BY <1>2 DEF ClientReads, pluginVars, Outgoing, AnswersWhole, Told
<1> QED BY <1>3, <1>4, <1>5

LEMMA ProcessedKeeps == ASSUME RemoteInv, Processed PROVE RemoteInv'
<1> USE DEF RemoteInv
<1>1. result = <<>> /\ toClient = <<>> /\ obuf = <<>>
  BY DEF Processed, Outgoing
<1>2. Answer(cmd) \o <<NUL>> \in Seq(Bytes)
  <2>1. Letters \subseteq Bytes /\ NUL \in Bytes /\ "<" \in Bytes /\ ">" \in Bytes
    BY DEF Bytes
  <2>2. cmd \in Seq(Bytes)
    BY <2>1, SeqMonotonic DEF RemoteTypeOK
  <2>3. <<NUL>> \in Seq(Bytes) /\ <<"<">> \in Seq(Bytes) /\ <<">">> \in Seq(Bytes)
    BY <2>1
  <2>4. <<"<">> \o cmd \in Seq(Bytes)
    BY <2>2, <2>3, ConcatProperties
  <2>5. (<<"<">> \o cmd) \o <<">">> \in Seq(Bytes)
    BY <2>3, <2>4, ConcatProperties
  <2> QED BY <2>3, <2>5, ConcatProperties DEF Answer
<1>3. RemoteTypeOK'
  BY <1>2, RemoteSequences DEF Processed, clientVars, RemoteTypeOK
<1>4. ((<<>> \o <<>>) \o <<>>) \o Told = Told
  <2>1. <<>> \o <<>> = <<>>
    OBVIOUS
  <2>2. <<>> \o Told = Told
    BY RemoteSequences, ConcatEmptySeq
  <2> QED BY <2>1, <2>2
<1>5. Outgoing'
  BY <1>1, <1>4 DEF Processed, clientVars, Outgoing, Incoming, Told
<1>6. Incoming' /\ AnswersWhole'
  BY DEF Processed, clientVars, Incoming, AnswersWhole, Told
<1> QED BY <1>3, <1>5, <1>6

(* However much of a buffer the socket takes, what has been told goes on   *)
(* where it was, and while the stream is good nothing is missing.          *)
LEMMA BufferGoes ==
  ASSUME RemoteTypeOK, NEW b \in Seq(Bytes), NEW rest \in Seq(Bytes),
         ((result \o toClient) \o b) \o rest = Told,
         withNul, OutputBuffer(b), UNCHANGED <<typed, withNul, result>>
  PROVE  /\ toClient' \in Seq(Bytes) /\ Len(toClient') <= Room
         /\ obuf' \in Seq(Bytes) /\ good' \in BOOLEAN
         /\ AnswersWhole'
         /\ good' => ((result' \o toClient') \o obuf') \o rest = Told
<1>0. \A u \in Seq(Bytes) : (result \o toClient) \o u = result \o (toClient \o u)
  BY JoinBytes DEF RemoteTypeOK
<1>1. PICK a \in Seq(Bytes) : a = result \o toClient
  BY ConcatProperties DEF RemoteTypeOK
<1>2. PICK free \in Nat : free = Room - Len(toClient)
  <2>1. Len(toClient) \in Nat
    BY LenProperties DEF RemoteTypeOK
  <2>2. Len(toClient) <= Room /\ Room \in Nat
    BY RemoteAssumption DEF RemoteTypeOK
  <2>3. Room - Len(toClient) \in Nat
    BY <2>1, <2>2
  <2> QED BY <2>3, Zenon
<1>3. Len(b) \in Nat /\ Len(toClient) \in Nat
  BY LenProperties DEF RemoteTypeOK
<1>4. ASSUME NEW x \in Seq(Bytes), NEW y \in Seq(Bytes),
             toClient' = toClient \o x, x \o y = b, Len(x) <= free,
             good' => y = <<>> /\ obuf' = <<>>
      PROVE  /\ toClient' \in Seq(Bytes) /\ Len(toClient') <= Room
             /\ AnswersWhole'
             /\ good' => ((result' \o toClient') \o obuf') \o rest = Told
  <2>1. toClient' \in Seq(Bytes) /\ Len(toClient') = Len(toClient) + Len(x) /\ Len(x) \in Nat
    BY <1>4, ConcatProperties, LenProperties DEF RemoteTypeOK
  <2>2. Len(toClient') <= Room
    BY <1>2, <1>3, <1>4, <2>1, RemoteAssumption
  <2>3. (a \o x) \o y = a \o (x \o y)
    BY <1>4, JoinBytes, Zenon
  <2>4. (result \o toClient) \o x = result \o (toClient \o x)
    BY <1>0
  <2>5. PICK t \in Seq(Bytes) : t = a \o x /\ t = result' \o toClient'
    BY <1>1, <1>4, <2>4, ConcatProperties
  <2>6. PICK z \in Seq(Bytes) : z = y \o rest /\ Told = t \o z
    <3>1. (t \o y) \o rest = t \o (y \o rest)
      BY JoinBytes
    <3>2. y \o rest \in Seq(Bytes)
      BY ConcatProperties
    <3> QED BY <1>1, <1>4, <2>3, <2>5, <3>1, <3>2
  <2>7. AnswersWhole'
    <3>1. IsPrefix(t, Told)
      BY <2>6, PrefixOf
    <3> QED BY <2>5, <3>1 DEF AnswersWhole, Told
  <2>8. good' => (t \o obuf') \o rest = Told
    <3>1. y = <<>> => z = rest
      BY <2>6, ConcatEmptySeq
    <3>2. t \o <<>> = t
      BY ConcatEmptySeq
    <3> QED BY <1>4, <2>6, <3>1, <3>2
  <2> QED BY <2>1, <2>2, <2>5, <2>7, <2>8
<1>5. CASE Len(b) <= free
  <2>1. toClient' = toClient \o b /\ obuf' = <<>> /\ good' = good
    BY <1>2, <1>5 DEF OutputBuffer
  <2>2. b \o <<>> = b /\ <<>> \in Seq(Bytes)
    BY ConcatEmptySeq, EmptySeq
  <2>3. PICK e \in Seq(Bytes) : e = <<>>
    BY <2>2
  <2>4. b \o e = b /\ obuf' \in Seq(Bytes) /\ good' \in BOOLEAN
    BY <2>1, <2>2, <2>3 DEF RemoteTypeOK
  <2> QED BY <1>4, <1>5, <2>1, <2>3, <2>4
<1>6. CASE ~(Len(b) <= free)
  <2>1. toClient' = toClient \o SubSeq(b, 1, free) /\ obuf' = b /\ good' = FALSE
    BY <1>2, <1>6 DEF OutputBuffer
  <2>2. free \in 0 .. Len(b)
    BY <1>3, <1>6
  <2>3. PICK x, y \in Seq(Bytes) : x = SubSeq(b, 1, free) /\ Len(x) = free /\ x \o y = b
    <3>1. \A k \in 0 .. Len(b) :
              /\ SubSeq(b, 1, k) \in Seq(Bytes) /\ Len(SubSeq(b, 1, k)) = k
              /\ SubSeq(b, k + 1, Len(b)) \in Seq(Bytes)
              /\ SubSeq(b, 1, k) \o SubSeq(b, k + 1, Len(b)) = b
      BY SplitAt
    <3> QED BY <2>2, <3>1
  <2>4. Len(x) <= free
    BY <2>3
  <2> QED BY <1>4, <2>1, <2>3, <2>4
<1> QED BY <1>5, <1>6

LEMMA PutCharKeeps == ASSUME RemoteInv, PutChar PROVE RemoteInv'
<1> USE DEF RemoteInv
<1>1. withNul /\ good /\ ((result \o toClient) \o obuf) \o output = Told
  BY DEF PutChar, Outgoing
<1>2. PICK c \in Bytes, r \in Seq(Bytes) :
          c = output[1] /\ r = Tail(output) /\ output = <<c>> \o r
  BY HeadTail DEF PutChar, RemoteTypeOK
<1>3. PICK b \in Seq(Bytes) : b = Append(obuf, c) /\ b = obuf \o <<c>>
  BY AppendProperties, AppendIsConcat DEF RemoteTypeOK
<1>4. ((result \o toClient) \o b) \o r = Told
  <2>1. PICK a \in Seq(Bytes) : a = result \o toClient
    BY ConcatProperties DEF RemoteTypeOK
  <2>2. PICK u \in Seq(Bytes) : u = <<c>>
    <3>1. <<c>> \in Seq(Bytes)
      OBVIOUS
    <3> QED BY <3>1
  <2>3. PICK d \in Seq(Bytes) : d = a \o obuf
    BY ConcatProperties DEF RemoteTypeOK
  <2>4. d \o (u \o r) = (d \o u) \o r
    BY JoinBytes
  <2>5. d \o u = a \o (obuf \o u)
    <3>1. obuf \in Seq(Bytes)
      BY DEF RemoteTypeOK
    <3>2. (a \o obuf) \o u = a \o (obuf \o u)
      BY <3>1, JoinBytes
    <3> QED BY <2>3, <3>2
  <2> QED BY <1>1, <1>2, <1>3, <2>1, <2>2, <2>3, <2>4, <2>5
<1>5. Incoming'
  BY DEF PutChar, clientVars, Incoming
<1>6. Told' = Told /\ UNCHANGED <<typed, withNul, result>>
  BY DEF PutChar, clientVars, Told
<1>7. CASE Len(obuf) < BufferSize
  <2>1. obuf' = b /\ UNCHANGED <<toClient, good>>
    BY <1>2, <1>3, <1>7 DEF PutChar
  <2>2. RemoteTypeOK'
    BY <1>2, <2>1 DEF PutChar, clientVars, RemoteTypeOK
  <2>3. Outgoing'
    <3>1. ((result' \o toClient') \o obuf') \o output' = Told' /\ withNul' /\ plugin' = "write"
      BY <1>1, <1>2, <1>4, <1>6, <2>1 DEF PutChar
    <3> QED BY <3>1 DEF Outgoing
  <2>4. AnswersWhole'
    BY <1>6, <2>1 DEF AnswersWhole
  <2> QED BY <1>5, <2>2, <2>3, <2>4
<1>8. CASE ~(Len(obuf) < BufferSize)
  <2>1. OutputBuffer(b)
    BY <1>2, <1>3, <1>8 DEF PutChar
  <2>2. /\ toClient' \in Seq(Bytes) /\ Len(toClient') <= Room
        /\ obuf' \in Seq(Bytes) /\ good' \in BOOLEAN
        /\ AnswersWhole'
        /\ good' => ((result' \o toClient') \o obuf') \o r = Told
    BY <1>1, <1>4, <1>6, <2>1, BufferGoes
  <2>3. RemoteTypeOK'
    BY <1>2, <2>2 DEF PutChar, clientVars, RemoteTypeOK
  <2>4. Outgoing'
    BY <1>1, <1>2, <1>6, <2>2 DEF PutChar, clientVars, Outgoing
  <2> QED BY <1>5, <2>2, <2>3, <2>4
<1> QED BY <1>7, <1>8

LEMMA FlushKeeps == ASSUME RemoteInv, Flush PROVE RemoteInv'
<1> USE DEF RemoteInv
<1>1. Incoming' /\ Outgoing'
  BY DEF Flush, clientVars, Incoming, Outgoing
<1>2. UNCHANGED <<typed, withNul, result>>
  BY DEF Flush, clientVars
<1>3. CASE ~good
  BY <1>1, <1>2, <1>3 DEF Flush, clientVars, RemoteTypeOK, AnswersWhole
<1>4. CASE good
  <2>1. output = <<>> /\ OutputBuffer(obuf)
    BY <1>4 DEF Flush
  <2>2. output \in Seq(Bytes) /\ obuf \in Seq(Bytes)
    BY DEF RemoteTypeOK
  <2>3. withNul /\ ((result \o toClient) \o obuf) \o output = Told
    BY <1>4 DEF Flush, Outgoing
  <2>4. /\ toClient' \in Seq(Bytes) /\ Len(toClient') <= Room
        /\ obuf' \in Seq(Bytes) /\ good' \in BOOLEAN
        /\ AnswersWhole'
    BY <1>2, <2>1, <2>2, <2>3, BufferGoes
  <2>5. RemoteTypeOK'
    BY <2>4 DEF Flush, clientVars, RemoteTypeOK
  <2> QED BY <1>1, <2>4, <2>5
<1> QED BY <1>3, <1>4
-----------------------------------------------------------------------------
LEMMA RemoteKept == RemoteInv /\ [RemoteNext]_remoteVars => RemoteInv'
<1> SUFFICES ASSUME RemoteInv, [RemoteNext]_remoteVars PROVE RemoteInv'
  OBVIOUS
<1> USE DEF RemoteInv, RemoteTypeOK, Incoming, Outgoing, AnswersWhole, Ending, Told
<1>1. CASE UNCHANGED remoteVars
  BY <1>1 DEF remoteVars
<1>2. CASE ClientSeesEof
  BY <1>2 DEF ClientSeesEof, pluginVars
<1>3. CASE ListenAccepts
  BY <1>3 DEF ListenAccepts, clientVars
<1>4. CASE PluginExit
  BY <1>4 DEF PluginExit, clientVars
<1>5. CASE ListenEnds
  BY <1>5 DEF ListenEnds
<1> QED
  BY <1>1, <1>2, <1>3, <1>4, <1>5, ConnectsKeeps, SendsKeeps, ReadsKeeps, UnderflowKeeps,
     GetCharKeeps, ProcessedKeeps, PutCharKeeps, FlushKeeps DEF RemoteNext

(* Remote control: however the bytes are cut, whatever the buffer and the  *)
(* socket hold and whenever the plugin ends, a client is told the          *)
(* beginning of the answer to the whole of its command, each byte once,    *)
(* and nothing if it never ends the command.                               *)
THEOREM AnswersWholeCorrect == RemoteSpec => []AnswersWhole
<1>1. RemoteInv => AnswersWhole
  BY DEF RemoteInv
<1> QED
  BY RemoteInitially, RemoteKept, <1>1, PTL DEF RemoteSpec
-----------------------------------------------------------------------------
(* Requests to the test server.  For a nick that is not spoiled at most    *)
(* one caller asks (Alone), and when nobody does nothing about it is left  *)
(* anywhere (NothingOver): what a caller waits for is then all that there  *)
(* is about its nick.                                                      *)

\* What an IRC server sends: replies about a nick, or about none.
Theirs == [command : WhoisResponses, nick : WhoisNicks]
          \cup [command : {"001", "names"}, nick : {""}]

TestTypeOK ==
    /\ sent \in Seq(Theirs) /\ responses \in Seq(Theirs)
    /\ whois \in [Callers -> {NoWhois} \cup [nick : WhoisNicks, res : Seq(Theirs)]]

Alone ==
    \A n \in WhoisNicks \ spoiled : \A c, d \in Callers :
        whois[c].nick = n /\ whois[d].nick = n => c = d

\* What is about a nick and not in the hands of a caller.
Open(n) == About(responses, n) \o About(sent, n)

NothingOver ==
    \A n \in WhoisNicks \ spoiled : (\A c \in Callers : whois[c].nick # n) => Open(n) = <<>>

Answering ==
    \A n \in WhoisNicks \ spoiled : \A c \in Callers :
        whois[c].nick = n => whois[c].res \o Open(n) = WhoisAnswer(n)

TestInv == TestTypeOK /\ Alone /\ NothingOver /\ Answering

LEMMA TheirMessages ==
  /\ \A n \in WhoisNicks, m \in Theirs :
        /\ m \in Messages({n}) <=> m.nick = n
        /\ m \in Mine(n) <=> m.nick = n
        /\ m \in Messages(WhoisNicks \cup {""})
BY TestServerAssumption DEF Theirs, Messages, Mine, WhoisResponses, Responses200

LEMMA AboutType ==
  ASSUME NEW s \in Seq(Theirs), NEW n PROVE About(s, n) \in Seq(Theirs)
BY OnlySeq DEF About

LEMMA AboutAppend ==
  ASSUME NEW s \in Seq(Theirs), NEW m \in Theirs, NEW n \in WhoisNicks
  PROVE  About(Append(s, m), n) = IF m.nick = n THEN Append(About(s, n), m) ELSE About(s, n)
<1>1. PICK S : S = Messages({n})
  OBVIOUS
<1>2. Only(Append(s, m), S) = IF m \in S THEN Append(Only(s, S), m) ELSE Only(s, S)
  BY OnlyAppend
<1> QED BY <1>1, <1>2, TheirMessages DEF About

LEMMA AboutConcat ==
  ASSUME NEW s \in Seq(Theirs), NEW t \in Seq(Theirs), NEW n
  PROVE  About(s \o t, n) = About(s, n) \o About(t, n)
<1>1. PICK S : S = Messages({n})
  OBVIOUS
<1>2. Only(s \o t, S) = Only(s, S) \o Only(t, S)
  BY OnlyConcat
<1> QED BY <1>1, <1>2 DEF About

LEMMA AboutHead ==
  ASSUME NEW s \in Seq(Theirs), s # <<>>, NEW n \in WhoisNicks
  PROVE  /\ s[1] \in Theirs /\ Tail(s) \in Seq(Theirs)
         /\ About(s, n) = IF s[1].nick = n THEN <<s[1]>> \o About(Tail(s), n)
                          ELSE About(Tail(s), n)
<1>1. s[1] \in Theirs /\ Tail(s) \in Seq(Theirs)
  BY HeadTail
<1>2. PICK S : S = Messages({n})
  OBVIOUS
<1>3. Only(s, S) = (IF s[1] \in S THEN <<s[1]>> ELSE <<>>) \o Only(Tail(s), S)
  BY OnlyHead
<1>4. PICK t \in Seq(Theirs) : t = Only(Tail(s), S)
  BY <1>1, OnlySeq
<1>5. <<>> \o t = t
  BY ConcatEmptySeq
<1> QED BY <1>1, <1>2, <1>3, <1>4, <1>5, TheirMessages DEF About

LEMMA AboutAnswer ==
  ASSUME NEW k \in WhoisNicks, NEW n \in WhoisNicks
  PROVE  /\ WhoisAnswer(k) \in Seq(Theirs)
         /\ About(WhoisAnswer(k), n) = IF k = n THEN WhoisAnswer(n) ELSE <<>>
<1>1. PICK a \in Theirs, b \in Theirs, e \in Theirs :
         /\ a = [command |-> "user", nick |-> k] /\ b = [command |-> "server", nick |-> k]
         /\ e = [command |-> "end", nick |-> k]
  BY DEF Theirs, WhoisResponses
<1>2. a.nick = k /\ b.nick = k /\ e.nick = k
  BY <1>1
<1>3. PICK z \in Seq(Theirs) : z = <<>>
  BY EmptySeq
<1>4. About(z, n) = <<>>
  BY <1>3, OnlyEmpty DEF About
<1>5. PICK p \in Seq(Theirs) : p = Append(z, a)
  BY AppendProperties
<1>6. PICK q \in Seq(Theirs) : q = Append(p, b)
  BY AppendProperties
<1>7. PICK r \in Seq(Theirs) : r = Append(q, e)
  BY AppendProperties
<1>8. About(p, n) = IF k = n THEN Append(About(z, n), a) ELSE About(z, n)
  BY <1>2, <1>5, AboutAppend
<1>9. About(q, n) = IF k = n THEN Append(About(p, n), b) ELSE About(p, n)
  BY <1>2, <1>6, AboutAppend
<1>10. About(r, n) = IF k = n THEN Append(About(q, n), e) ELSE About(q, n)
  BY <1>2, <1>7, AboutAppend
<1>11. Len(r) = 3 /\ r[1] = a /\ r[2] = b /\ r[3] = e
  <2>1. Len(p) = 1 /\ p[1] = a
    BY <1>3, <1>5
  <2>2. Len(q) = Len(p) + 1 /\ q[Len(p) + 1] = b /\ \A i \in 1 .. Len(p) : q[i] = p[i]
    BY <1>6, AppendProperties
  <2>3. Len(q) = 2 /\ q[1] = a /\ q[2] = b
    BY <2>1, <2>2
  <2>4. Len(r) = Len(q) + 1 /\ r[Len(q) + 1] = e /\ \A i \in 1 .. Len(q) : r[i] = q[i]
    BY <1>7, AppendProperties
  <2> QED BY <2>3, <2>4
<1>12. r = WhoisAnswer(k)
  <2>1. PICK w : w = WhoisAnswer(k)
    OBVIOUS
  <2>2. w \in Seq(Theirs) /\ Len(w) = 3 /\ w[1] = a /\ w[2] = b /\ w[3] = e
    BY <1>1, <2>1 DEF WhoisAnswer
  <2>3. \A i \in 1 .. Len(r) : r[i] = w[i]
    BY <1>11, <2>2
  <2> QED BY <1>11, <2>1, <2>2, <2>3, SeqEqual
<1>13. About(r, n) = IF k = n THEN r ELSE <<>>
  BY <1>3, <1>4, <1>5, <1>6, <1>7, <1>8, <1>9, <1>10
<1> QED BY <1>12, <1>13

\* What a request takes, and what it leaves.
LEMMA AboutTaken ==
  ASSUME NEW s \in Seq(Theirs), NEW k \in WhoisNicks
  PROVE  /\ Only(s, Mine(k)) = About(s, k)
         /\ Only(s, Messages(WhoisNicks \cup {""}) \ Mine(k)) \in Seq(Theirs)
         /\ \A n \in WhoisNicks :
               About(Only(s, Messages(WhoisNicks \cup {""}) \ Mine(k)), n)
                   = IF n = k THEN <<>> ELSE About(s, n)
<1>1. Len(s) \in Nat /\ \A i \in 1 .. Len(s) : s[i] \in Theirs
  BY LenProperties, ElementOfSeq
<1>2. PICK M : M = Mine(k)
  OBVIOUS
<1>3. PICK K : K = Messages({k})
  OBVIOUS
<1>4. PICK R : R = Messages(WhoisNicks \cup {""}) \ Mine(k)
  OBVIOUS
<1>5. Only(s, M) = Only(s, K)
  <2>1. \A i \in 1 .. Len(s) : s[i] \in M <=> s[i] \in K
    BY <1>1, <1>2, <1>3, TheirMessages
  <2> QED BY <1>1, <2>1, OnlyAgree
<1>6. Only(s, R) \in Seq(Theirs)
  BY OnlySeq
<1>7. ASSUME NEW n \in WhoisNicks
      PROVE  About(Only(s, R), n) = IF n = k THEN <<>> ELSE About(s, n)
  <2>1. PICK N : N = Messages({n})
    OBVIOUS
  <2>2. PICK B : B = R \cap N
    OBVIOUS
  <2>3. Only(Only(s, R), N) = Only(s, B)
    BY <2>2, OnlyOnly
  <2>4. CASE n = k
    <3>1. \A i \in 1 .. Len(s) : s[i] \notin B
      BY <1>1, <1>4, <2>1, <2>2, <2>4, TheirMessages
    <3>2. Only(s, B) = <<>>
      BY <3>1, OnlyNothing
    <3> QED BY <2>1, <2>3, <2>4, <3>2 DEF About
  <2>5. CASE n # k
    <3>1. \A i \in 1 .. Len(s) : s[i] \in B <=> s[i] \in N
      BY <1>1, <1>4, <2>1, <2>2, <2>5, TheirMessages
    <3>2. Only(s, B) = Only(s, N)
      BY <1>1, <3>1, OnlyAgree
    <3> QED BY <2>1, <2>3, <2>5, <3>2 DEF About
  <2> QED BY <2>4, <2>5
<1> QED BY <1>2, <1>3, <1>4, <1>5, <1>6, <1>7 DEF About

\* The end of an answer is its last reply: with it in hand nothing is left.
LEMMA EndIsLast ==
  ASSUME NEW s \in Seq(Theirs), NEW k \in WhoisNicks, NEW a \in Seq(Theirs),
         NEW b \in Seq(Theirs), a \o About(s, k) \o b = WhoisAnswer(k),
         \E i \in DOMAIN s : s[i] \in Mine(k) /\ s[i].command = "end"
  PROVE  b = <<>>
<1>1. PICK e : e = [command |-> "end", nick |-> k]
  OBVIOUS
<1>2. PICK E : E = {e}
  OBVIOUS
<1>3. PICK K : K = Messages({k})
  OBVIOUS
<1>4. PICK m \in Seq(Theirs) : m = Only(s, K)
  BY OnlySeq
<1>5. PICK i \in 1 .. Len(s) : s[i] = e
  <2>1. PICK i \in DOMAIN s : s[i] \in Mine(k) /\ s[i].command = "end"
    OBVIOUS
  <2>2. i \in 1 .. Len(s)
    BY <2>1, LenProperties
  <2>3. s[i] = e
    BY <1>1, <2>1 DEF Mine
  <2> QED BY <2>2, <2>3
<1>6. PICK j \in 1 .. Len(m) : m[j] = e
  <2>1. PICK B : B = K \cap E
    OBVIOUS
  <2>2. Only(m, E) = Only(s, B)
    BY <1>4, <2>1, OnlyOnly
  <2>3. e \in B
    <3>1. e \in K
      BY <1>1, <1>3 DEF Messages, WhoisResponses, Responses200
    <3> QED BY <1>2, <2>1, <3>1
  <2>4. Only(s, B) # <<>>
    BY <1>5, <2>3, OnlyNothing
  <2>5. \E j \in 1 .. Len(m) : m[j] \in E
    BY <2>2, <2>4, OnlyNothing
  <2> QED BY <1>2, <2>5
<1>7. PICK c \in Seq(Theirs) : c = a \o m
  BY ConcatProperties
<1>8. /\ Len(a) \in Nat /\ Len(b) \in Nat /\ Len(m) \in Nat /\ Len(c) = Len(a) + Len(m)
      /\ \A x \in 1 .. Len(a) + Len(m) : c[x] = IF x <= Len(a) THEN a[x] ELSE m[x - Len(a)]
  BY <1>7, ConcatProperties, LenProperties
<1>9. PICK x \in 1 .. Len(c) : x = Len(a) + j
  <2>1. Len(a) + j \in 1 .. Len(a) + Len(m)
    BY <1>6, <1>8
  <2>2. Len(a) + j \in 1 .. Len(c)
    BY <1>8, <2>1
  <2> QED BY <2>2
<1>10. c[x] = e
  <2>1. ~(x <= Len(a)) /\ x - Len(a) = j
    BY <1>8, <1>9
  <2> QED BY <1>6, <1>8, <1>9, <2>1
<1>11. /\ Len(c \o b) = Len(c) + Len(b)
       /\ \A y \in 1 .. Len(c) + Len(b) : (c \o b)[y] = IF y <= Len(c) THEN c[y] ELSE b[y - Len(c)]
  BY ConcatProperties
<1>12. c \o b = WhoisAnswer(k)
  BY <1>3, <1>4, <1>7 DEF About
<1>13. x \in 1 .. Len(c) + Len(b) /\ x <= Len(c)
  BY <1>8
<1>14. WhoisAnswer(k)[x] = e /\ x \in 1 .. 3 /\ Len(c) + Len(b) = 3
  <2>1. Len(WhoisAnswer(k)) = 3
    BY DEF WhoisAnswer
  <2> QED BY <1>8, <1>10, <1>11, <1>12, <1>13, <2>1
<1>15. x = 3
  <2>1. /\ WhoisAnswer(k)[1].command = "user" /\ WhoisAnswer(k)[2].command = "server"
        /\ e.command = "end"
    BY <1>1 DEF WhoisAnswer
  <2>2. CASE x = 1
    BY <1>14, <2>1, <2>2
  <2>3. CASE x = 2
    BY <1>14, <2>1, <2>3
  <2> QED BY <1>14, <2>2, <2>3
<1>16. Len(b) = 0
  BY <1>8, <1>13, <1>14, <1>15
<1> QED BY <1>16, EmptySeq

LEMMA JoinTheirs ==
  \A a, b, c \in Seq(Theirs) : /\ a \o b \in Seq(Theirs) /\ (a \o b) \o c = a \o (b \o c)
                               /\ a \o <<>> = a /\ <<>> \o a = a
BY ConcatProperties, ConcatAssociative, ConcatEmptySeq

LEMMA OpenType == TestTypeOK => \A n \in WhoisNicks : Open(n) \in Seq(Theirs)
BY AboutType, JoinTheirs DEF TestTypeOK, Open

LEMMA AskerFacts ==
  ASSUME TestTypeOK
  PROVE  /\ NoWhois.nick \notin WhoisNicks
         /\ \A c \in Callers : whois[c] # NoWhois =>
               whois[c].nick \in WhoisNicks /\ whois[c].res \in Seq(Theirs)
BY TestServerAssumption DEF TestTypeOK, NoWhois

\* Steps after which the same is open of every nick not spoiled.
LEMMA SameOpen ==
  ASSUME TestInv, TestTypeOK', whois' = whois, spoiled \subseteq spoiled',
         \A n \in WhoisNicks \ spoiled' : Open(n)' = Open(n)
  PROVE  TestInv'
<1>1. Alone'
  BY DEF TestInv, Alone
<1>2. NothingOver'
  BY DEF TestInv, NothingOver
<1>3. Answering'
  BY AskerFacts DEF TestInv, Answering
<1> QED BY <1>1, <1>2, <1>3 DEF TestInv

LEMMA TestInitially == TestInit => TestInv
<1> SUFFICES ASSUME TestInit PROVE TestInv
  OBVIOUS
<1>1. TestTypeOK
  BY EmptySeq DEF TestInit, TestTypeOK
<1>2. \A n : Open(n) = <<>>
  <2>1. \A n : About(<<>>, n) = <<>>
    BY OnlyEmpty DEF About
  <2> QED BY <2>1 DEF TestInit, Open
<1>3. \A c \in Callers : whois[c] = NoWhois
  BY DEF TestInit
<1> QED BY <1>1, <1>2, <1>3, AskerFacts DEF TestInv, Alone, NothingOver, Answering

LEMMA QueueStep == ASSUME TestInv, AsyncQueue PROVE TestInv'
<1> USE DEF TestInv
<1>1. PICK h : h = sent[1]
  OBVIOUS
<1>2. h \in Theirs /\ Tail(sent) \in Seq(Theirs) /\ sent # <<>> /\ sent' = Tail(sent)
  BY <1>1, HeadTail DEF AsyncQueue, TestTypeOK
<1>3. PICK t \in Seq(Theirs) : t = Tail(sent)
  BY <1>2
<1>4. \A n \in WhoisNicks :
         About(sent, n) = IF h.nick = n THEN <<h>> \o About(t, n) ELSE About(t, n)
  BY <1>1, <1>2, <1>3, AboutHead DEF TestTypeOK
<1>5. whois' = whois
  BY DEF AsyncQueue
<1>6. CASE response_mode /\ h.command \in Responses200
  <2>1. responses' = Append(responses, h) /\ spoiled' = spoiled
    BY <1>1, <1>6 DEF AsyncQueue
  <2>2. TestTypeOK'
    BY <1>2, <1>5, <2>1, AppendProperties DEF TestTypeOK
  <2>3. ASSUME NEW n \in WhoisNicks PROVE Open(n)' = Open(n)
    <3>1. About(responses', n) = IF h.nick = n THEN Append(About(responses, n), h)
                                 ELSE About(responses, n)
      BY <1>2, <2>1, AboutAppend DEF TestTypeOK
    <3>2. PICK r \in Seq(Theirs) : r = About(responses, n)
      BY AboutType DEF TestTypeOK
    <3>3. PICK u \in Seq(Theirs) : u = About(t, n)
      BY AboutType
    <3>4. Append(r, h) \o u = r \o (<<h>> \o u)
      <4>1. PICK g \in Seq(Theirs) : g = <<h>>
        <5>1. <<h>> \in Seq(Theirs)
          BY <1>2
        <5> QED BY <5>1
      <4>2. Append(r, h) = r \o g
        BY <1>2, <4>1, AppendIsConcat
      <4>3. (r \o g) \o u = r \o (g \o u)
        BY JoinTheirs
      <4> QED BY <4>1, <4>2, <4>3
    <3>5. About(sent', n) = u
      BY <1>2, <1>3, <3>3
    <3> QED BY <1>4, <3>1, <3>2, <3>3, <3>4, <3>5 DEF Open
  <2> QED BY <1>5, <2>1, <2>2, <2>3, SameOpen
<1>7. CASE ~(response_mode /\ h.command \in Responses200)
  <2>1. responses' = responses /\ spoiled' = spoiled \cup ({h.nick} \cap WhoisNicks)
    BY <1>1, <1>7 DEF AsyncQueue
  <2>2. TestTypeOK'
    BY <1>2, <1>5, <2>1 DEF TestTypeOK
  <2>3. \A n \in WhoisNicks \ spoiled' : Open(n)' = Open(n)
    BY <1>2, <1>3, <1>4, <2>1 DEF Open
  <2> QED BY <1>5, <2>1, <2>2, <2>3, SameOpen
<1> QED BY <1>6, <1>7

LEMMA WhoisStep ==
  ASSUME TestInv, NEW c \in Callers, NEW k \in WhoisNicks, AsyncWhois(c, k) PROVE TestInv'
<1> USE DEF TestInv
<1>1. /\ whois[c] = NoWhois /\ responses' = responses /\ sent' = sent \o WhoisAnswer(k)
      /\ spoiled' = IF \E d \in Callers : whois[d].nick = k THEN spoiled \cup {k} ELSE spoiled
      /\ whois' = [whois EXCEPT ![c] = [nick |-> k, res |-> <<>>]]
  BY DEF AsyncWhois
<1>2. PICK w \in Seq(Theirs) : w = WhoisAnswer(k)
  BY AboutAnswer
<1>3. TestTypeOK'
  <2>1. sent \o w \in Seq(Theirs)
    BY JoinTheirs DEF TestTypeOK
  <2>2. [nick |-> k, res |-> <<>>] \in [nick : WhoisNicks, res : Seq(Theirs)]
    BY EmptySeq
  <2> QED BY <1>1, <1>2, <2>1, <2>2 DEF TestTypeOK
<1>4. \A d \in Callers \ {c} : whois'[d] = whois[d]
  BY <1>1 DEF TestTypeOK
<1>5. whois'[c].nick = k /\ whois'[c].res = <<>> /\ whois[c].nick \notin WhoisNicks
  BY <1>1, AskerFacts DEF TestTypeOK
<1>6. ASSUME NEW n \in WhoisNicks PROVE Open(n)' = IF n = k THEN Open(n) \o w ELSE Open(n)
  <2>1. About(sent', n) = About(sent, n) \o About(w, n)
    BY <1>1, <1>2, AboutConcat DEF TestTypeOK
  <2>2. About(w, n) = IF n = k THEN w ELSE <<>>
    BY <1>2, AboutAnswer
  <2>3. PICK r \in Seq(Theirs) : r = About(responses, n)
    BY AboutType DEF TestTypeOK
  <2>4. PICK s \in Seq(Theirs) : s = About(sent, n)
    BY AboutType DEF TestTypeOK
  <2>5. r \o (s \o w) = (r \o s) \o w /\ s \o <<>> = s
    BY JoinTheirs
  <2> QED BY <1>1, <2>1, <2>2, <2>3, <2>4, <2>5 DEF Open
<1>7. k \notin spoiled' => /\ Open(k)' = w /\ k \notin spoiled
                           /\ \A d \in Callers : whois[d].nick # k
  <2> SUFFICES ASSUME k \notin spoiled'
               PROVE  Open(k)' = w /\ k \notin spoiled /\ \A d \in Callers : whois[d].nick # k
    OBVIOUS
  <2>1. k \notin spoiled /\ \A d \in Callers : whois[d].nick # k
    BY <1>1
  <2>2. Open(k) = <<>>
    BY <2>1 DEF NothingOver
  <2> QED BY <1>6, <2>1, <2>2, JoinTheirs
<1>8. spoiled \subseteq spoiled'
  BY <1>1
<1>9. Alone'
  BY <1>4, <1>5, <1>7, <1>8 DEF Alone
<1>10. NothingOver'
  <2> SUFFICES ASSUME NEW n \in WhoisNicks \ spoiled', \A d \in Callers : whois'[d].nick # n
               PROVE  Open(n)' = <<>>
    BY DEF NothingOver
  <2>1. n # k /\ n \notin spoiled
    BY <1>1, <1>5, <1>8
  <2>2. \A d \in Callers : whois[d].nick # n
    BY <1>4, <1>5, <2>1
  <2>3. Open(n) = <<>>
    BY <2>1, <2>2 DEF NothingOver
  <2> QED BY <1>6, <2>1, <2>3
<1>11. Answering'
  <2> SUFFICES ASSUME NEW n \in WhoisNicks \ spoiled', NEW d \in Callers, whois'[d].nick = n
               PROVE  whois'[d].res \o Open(n)' = WhoisAnswer(n)
    BY DEF Answering
  <2>1. CASE d = c
    BY <1>2, <1>5, <1>7, <2>1, JoinTheirs
  <2>2. CASE d # c
    <3>1. whois'[d] = whois[d] /\ n \in WhoisNicks \ spoiled
      BY <1>4, <1>8, <2>2
    <3>2. n # k
      BY <1>7, <3>1
    <3>3. Open(n)' = Open(n)
      BY <1>6, <3>1, <3>2
    <3> QED BY <3>1, <3>3 DEF Answering
  <2> QED BY <2>1, <2>2
<1> QED BY <1>3, <1>9, <1>10, <1>11

LEMMA RequestStep ==
  ASSUME TestInv, NEW c \in Callers, AsyncRequest(c) PROVE TestInv'
<1> USE DEF TestInv
<1>1. PICK k \in WhoisNicks : k = whois[c].nick
  BY AskerFacts DEF AsyncRequest
<1>2. PICK res \in Seq(Theirs) : res = whois[c].res
  BY AskerFacts DEF AsyncRequest
<1>3. PICK r \in Seq(Theirs) : r = About(responses, k)
  BY AboutType DEF TestTypeOK
<1>4. PICK s \in Seq(Theirs) : s = About(sent, k)
  BY AboutType DEF TestTypeOK
<1>5. /\ whois[c] # NoWhois /\ sent' = sent /\ spoiled' = spoiled
      /\ responses' = Only(responses, Messages(WhoisNicks \cup {""}) \ Mine(k))
  BY <1>1 DEF AsyncRequest
<1>6. /\ responses' \in Seq(Theirs) /\ Only(responses, Mine(k)) = r
      /\ \A n \in WhoisNicks : About(responses', n) = IF n = k THEN <<>> ELSE About(responses, n)
  BY <1>3, <1>5, AboutTaken, Zenon DEF TestTypeOK
<1>7. Open(k)' = s /\ \A n \in WhoisNicks \ {k} : Open(n)' = Open(n)
  BY <1>4, <1>5, <1>6, JoinTheirs DEF Open
<1>8. k \notin spoiled => (res \o r) \o s = WhoisAnswer(k)
  <2>1. (res \o r) \o s = res \o (r \o s)
    BY JoinTheirs
  <2> QED BY <1>1, <1>2, <1>3, <1>4, <1>5, <2>1 DEF Answering, Open
<1>9. k \notin spoiled => \A d \in Callers \ {c} : whois[d].nick # k
  BY <1>1 DEF Alone
<1>10. CASE \E i \in DOMAIN responses : responses[i] \in Mine(k) /\ responses[i].command = "end"
  <2>1. whois' = [whois EXCEPT ![c] = NoWhois]
    BY <1>1, <1>10 DEF AsyncRequest
  <2>2. whois'[c] = NoWhois /\ \A d \in Callers \ {c} : whois'[d] = whois[d]
    BY <2>1 DEF TestTypeOK
  <2>3. whois'[c].nick \notin WhoisNicks
    BY <2>2, AskerFacts
  <2>4. TestTypeOK'
    BY <1>5, <1>6, <2>1 DEF TestTypeOK
  <2>5. k \notin spoiled => s = <<>>
    BY <1>3, <1>8, <1>10, EndIsLast DEF TestTypeOK
  <2>6. Alone'
    <3> SUFFICES ASSUME NEW n \in WhoisNicks \ spoiled, NEW d \in Callers, NEW e \in Callers,
                        whois'[d].nick = n, whois'[e].nick = n
                 PROVE  d = e
      BY <1>5 DEF Alone
    <3>1. d # c /\ e # c
      BY <2>3
    <3> QED BY <2>2, <3>1 DEF Alone
  <2>7. NothingOver'
    <3> SUFFICES ASSUME NEW n \in WhoisNicks \ spoiled, \A d \in Callers : whois'[d].nick # n
                 PROVE  Open(n)' = <<>>
      BY <1>5 DEF NothingOver
    <3>1. CASE n = k
      BY <1>7, <2>5, <3>1
    <3>2. CASE n # k
      BY <1>1, <1>7, <2>2, <3>2 DEF NothingOver
    <3> QED BY <3>1, <3>2
  <2>8. Answering'
    <3> SUFFICES ASSUME NEW n \in WhoisNicks \ spoiled, NEW d \in Callers, whois'[d].nick = n
                 PROVE  whois'[d].res \o Open(n)' = WhoisAnswer(n)
      BY <1>5 DEF Answering
    <3>1. d # c /\ whois'[d] = whois[d]
      BY <2>2, <2>3
    <3>2. n # k
      BY <1>9, <3>1
    <3>3. Open(n)' = Open(n)
      BY <1>7, <3>2
    <3> QED BY <3>1, <3>3 DEF Answering
  <2> QED BY <2>4, <2>6, <2>7, <2>8
<1>11. CASE ~(\E i \in DOMAIN responses : /\ responses[i] \in Mine(k)
                                          /\ responses[i].command = "end")
  <2>1. whois' = [whois EXCEPT ![c] = [@ EXCEPT !.res = res \o r]]
    BY <1>1, <1>2, <1>6, <1>11 DEF AsyncRequest
  <2>2. whois[c] \in [nick : WhoisNicks, res : Seq(Theirs)] /\ res \o r \in Seq(Theirs)
    BY <1>5, JoinTheirs DEF TestTypeOK
  <2>3. /\ whois'[c].nick = k /\ whois'[c].res = res \o r
        /\ whois'[c] \in [nick : WhoisNicks, res : Seq(Theirs)]
        /\ \A d \in Callers \ {c} : whois'[d] = whois[d]
    BY <1>1, <2>1, <2>2 DEF TestTypeOK
  <2>4. TestTypeOK'
    BY <1>5, <1>6, <2>1, <2>3 DEF TestTypeOK
  <2>5. Alone'
    <3> SUFFICES ASSUME NEW n \in WhoisNicks \ spoiled, NEW d \in Callers, NEW e \in Callers,
                        whois'[d].nick = n, whois'[e].nick = n
                 PROVE  d = e
      BY <1>5 DEF Alone
    <3>1. whois[d].nick = n /\ whois[e].nick = n
      BY <1>1, <2>3
    <3> QED BY <3>1 DEF Alone
  <2>6. NothingOver'
    BY <1>1, <1>5, <1>7, <2>3 DEF NothingOver
  <2>7. Answering'
    <3> SUFFICES ASSUME NEW n \in WhoisNicks \ spoiled, NEW d \in Callers, whois'[d].nick = n
                 PROVE  whois'[d].res \o Open(n)' = WhoisAnswer(n)
      BY <1>5 DEF Answering
    <3>1. CASE d = c
      BY <1>7, <1>8, <2>3, <3>1
    <3>2. CASE d # c
      <4>1. whois'[d] = whois[d]
        BY <2>3, <3>2
      <4>2. n # k
        BY <1>9, <3>2, <4>1
      <4>3. Open(n)' = Open(n)
        BY <1>7, <4>2
      <4> QED BY <4>1, <4>3 DEF Answering
    <3> QED BY <3>1, <3>2
  <2> QED BY <2>4, <2>5, <2>6, <2>7
<1> QED BY <1>10, <1>11

LEMMA FailStep ==
  ASSUME TestInv, NEW c \in Callers, RequestFails(c) PROVE TestInv'
<1> USE DEF TestInv
<1>1. /\ whois[c] # NoWhois /\ sent' = sent /\ responses' = responses
      /\ whois' = [whois EXCEPT ![c] = NoWhois] /\ spoiled' = spoiled \cup {whois[c].nick}
  BY DEF RequestFails
<1>2. whois'[c] = NoWhois /\ \A d \in Callers \ {c} : whois'[d] = whois[d]
  BY <1>1 DEF TestTypeOK
<1>3. whois'[c].nick \notin WhoisNicks
  BY <1>2, AskerFacts
<1>4. \A n : Open(n)' = Open(n)
  BY <1>1 DEF Open
<1>5. TestTypeOK'
  BY <1>1 DEF TestTypeOK
<1>6. Alone'
  BY <1>1, <1>2, <1>3 DEF Alone
<1>7. NothingOver'
  BY <1>1, <1>2, <1>4 DEF NothingOver
<1>8. Answering'
  BY <1>1, <1>2, <1>3, <1>4 DEF Answering
<1> QED BY <1>5, <1>6, <1>7, <1>8

LEMMA TestStep == TestInv /\ [TestNext]_testVars => TestInv'
<1> SUFFICES ASSUME TestInv, [TestNext]_testVars PROVE TestInv'
  OBVIOUS
<1>1. ASSUME sent' = sent, responses' = responses, whois' = whois, spoiled' = spoiled
      PROVE  TestInv'
  <2>1. TestTypeOK'
    BY <1>1 DEF TestInv, TestTypeOK
  <2>2. \A n : Open(n)' = Open(n)
    BY <1>1 DEF Open
  <2> QED BY <1>1, <2>1, <2>2, SameOpen
<1>2. ASSUME ServerSays PROVE TestInv'
  <2>1. PICK m \in Theirs : sent' = Append(sent, m) /\ m.nick = ""
    <3>1. PICK k \in {"001", "names"} : sent' = Append(sent, [command |-> k, nick |-> ""])
      BY <1>2 DEF ServerSays
    <3>2. [command |-> k, nick |-> ""] \in Theirs
      BY DEF Theirs
    <3> QED BY <3>1, <3>2
  <2>2. responses' = responses /\ whois' = whois /\ spoiled' = spoiled
    BY <1>2 DEF ServerSays
  <2>3. TestTypeOK'
    BY <2>1, <2>2, AppendProperties DEF TestInv, TestTypeOK
  <2>4. \A n \in WhoisNicks : About(sent', n) = About(sent, n)
    BY <2>1, AboutAppend, TestServerAssumption DEF TestInv, TestTypeOK
  <2>5. \A n \in WhoisNicks : Open(n)' = Open(n)
    BY <2>2, <2>4 DEF Open
  <2> QED BY <2>2, <2>3, <2>5, SameOpen
<1>3. CASE SetResponseMode
  BY <1>1, <1>3 DEF SetResponseMode
<1>4. CASE AsyncGetTraffic
  BY <1>1, <1>4 DEF AsyncGetTraffic
<1>5. CASE \E c \in Callers \cup {"traffic"} : EndPoint(c)
  BY <1>1, <1>5 DEF EndPoint
<1>6. CASE UNCHANGED testVars
  BY <1>1, <1>6 DEF testVars
<1> QED BY <1>2, <1>3, <1>4, <1>5, <1>6, QueueStep, WhoisStep, RequestStep, FailStep
        DEF TestNext

\* Whoever asks about a nick alone, while response_mode is on and after no
\* request for it was in vain, has and will find in responses and in what
\* comes all of the server's answer and only that, in its order: for any
\* number of callers and requests (async_request, async_queue).
THEOREM WhoisWholeCorrect == TestSpec => []WhoisWhole
<1>1. TestInv => WhoisWhole
  <2> SUFFICES ASSUME TestInv, NEW c \in Callers, whois[c] # NoWhois,
                      whois[c].nick \notin spoiled
               PROVE  (whois[c].res \o About(responses, whois[c].nick))
                        \o About(sent, whois[c].nick) = WhoisAnswer(whois[c].nick)
    BY DEF WhoisWhole
  <2>1. PICK a \in Seq(Theirs) : a = whois[c].res
    BY AskerFacts DEF TestInv
  <2>2. PICK r \in Seq(Theirs) : r = About(responses, whois[c].nick)
    BY AboutType DEF TestInv, TestTypeOK
  <2>3. PICK s \in Seq(Theirs) : s = About(sent, whois[c].nick)
    BY AboutType DEF TestInv, TestTypeOK
  <2>4. (a \o r) \o s = a \o (r \o s)
    BY JoinTheirs
  <2>5. whois[c].nick \in WhoisNicks
    BY AskerFacts DEF TestInv
  <2>6. a \o (r \o s) = WhoisAnswer(whois[c].nick)
    BY <2>1, <2>2, <2>3, <2>5 DEF TestInv, Answering, Open
  <2> QED BY <2>1, <2>2, <2>3, <2>4, <2>6
<1> QED BY <1>1, TestInitially, TestStep, PTL DEF TestSpec
-----------------------------------------------------------------------------
(* Web pages.  What is left of the stream begins what the server had still *)
(* to send (Begins): all of its answer before the headers are read, the    *)
(* body after that, and in the loop over the chunks those that are not yet *)
(* part of the page.                                                       *)

Begins(s, t) == Len(s) <= Len(t) /\ \A i \in 1 .. Len(s) : s[i] = t[i]

Units == Octets \cup [kind : {"status", "set-cookie", "bad-length", "transfer-encoding",
                              "content-length", "blank", "size"},
                      val : STRING \cup {"", "chunked"} \cup Nat \cup SetCookies]
FullChunks == Seq(Octets) \ {<<>>}

Framed(cs) == [i \in DOMAIN cs |-> <<Unit("size", Len(cs[i]))>> \o cs[i]]
Chunked(cs) == FlattenSeq(Framed(cs)) \o <<Unit("size", 0)>>

\* The headers say how the body is framed.
HeadersOf(r, hs) ==
    /\ r.framing = "length" => \E i \in 1 .. Len(hs) : hs[i].kind = "content-length"
    /\ \A i \in 1 .. Len(hs) : hs[i].kind = "content-length" =>
          r.framing = "length" /\ hs[i].val = Len(Body(r))
    /\ r.framing = "chunked" <=> \E i \in 1 .. Len(hs) : hs[i].kind = "transfer-encoding"

\* The chunks that are still to be read.
Unread ==
    \E cs \in Seq(FullChunks) :
        page \o FlattenSeq(cs) = Body(response) /\ Begins(stream, Chunked(cs))

HttpInv ==
    /\ stream \in Seq(Units)
    /\ stage = "headers" => response \in Responses /\ Begins(stream, Stream(response))
    /\ stage \in {"cookies", "data"} =>
          /\ response \in Responses /\ headers \in Seq(Units)
          /\ HeadersOf(response, headers) /\ Begins(stream, BodyUnits(response))
    /\ stage = "chunks" => response.framing = "chunked" /\ page \in Seq(Octets) /\ Unread
    /\ PagesWhole

LEMMA ConcatAt ==
  ASSUME NEW T, NEW a \in Seq(T), NEW b \in Seq(T), NEW n \in Nat, n = Len(a),
         NEW m \in Nat, m = Len(b), NEW p, p = a \o b
  PROVE  /\ p \in Seq(T) /\ Len(p) = n + m
         /\ \A i \in 1 .. n + m : p[i] = IF i <= n THEN a[i] ELSE b[i - n]
BY ConcatProperties

LEMMA BeginsPart ==
  ASSUME NEW T, NEW t \in Seq(T), NEW n \in 0 .. Len(t)
  PROVE  SubSeq(t, 1, n) \in Seq(T) /\ Begins(SubSeq(t, 1, n), t)
<1>1. SubSeq(t, 1, n) \in Seq(T) /\ Len(SubSeq(t, 1, n)) = n
  BY SplitAt
<1>2. \A i \in 1 .. Len(t) : t[i] \in T
  BY ElementOfSeq
<1>3. \A i \in 1 .. n - 1 + 1 : SubSeq(t, 1, n)[i] = t[1 + i - 1]
  <2>1. \A i \in 1 .. n : t[i] \in T
    BY <1>2, LenProperties
  <2> QED BY <2>1, SubSeqProperties
<1>4. \A i \in 1 .. n : SubSeq(t, 1, n)[i] = t[i]
  BY <1>3
<1>5. n <= Len(t)
  BY LenProperties
<1> QED BY <1>1, <1>4, <1>5 DEF Begins

\* What begins a sequence of two parts, and is long enough, has all of the
\* first, and its rest begins the second.
LEMMA BeginsRest ==
  ASSUME NEW T, NEW s \in Seq(T), NEW a \in Seq(T), NEW b \in Seq(T), NEW n \in Nat,
         n = Len(a), n <= Len(s), Begins(s, a \o b)
  PROVE  /\ SubSeq(s, 1, n) = a
         /\ SubSeq(s, n + 1, Len(s)) \in Seq(T) /\ Begins(SubSeq(s, n + 1, Len(s)), b)
<1>1. Len(s) \in Nat /\ Len(b) \in Nat /\ n \in 0 .. Len(s)
  BY LenProperties
<1>2. PICK p \in Seq(T) : p = SubSeq(s, 1, n)
  BY <1>1, SplitAt
<1>3. PICK q \in Seq(T) : q = SubSeq(s, n + 1, Len(s))
  BY <1>1, SplitAt
<1>4. Len(p) = n /\ Len(q) = Len(s) - n /\ p \o q = s
  <2>1. \A k \in 0 .. Len(s) :
           /\ Len(SubSeq(s, 1, k)) = k /\ Len(SubSeq(s, k + 1, Len(s))) = Len(s) - k
           /\ SubSeq(s, 1, k) \o SubSeq(s, k + 1, Len(s)) = s
    BY SplitAt
  <2> QED BY <2>1, <1>1, <1>2, <1>3
<1>5. \A i \in 1 .. Len(s) : s[i] = IF i <= n THEN p[i] ELSE q[i - n]
  BY <1>1, <1>4, ConcatProperties
<1>6. /\ Len(a \o b) = n + Len(b)
      /\ \A i \in 1 .. n + Len(b) : (a \o b)[i] = IF i <= n THEN a[i] ELSE b[i - n]
  BY ConcatProperties
<1>7. Len(s) <= n + Len(b) /\ \A i \in 1 .. Len(s) : s[i] = (a \o b)[i]
  BY <1>6 DEF Begins
<1>8. \A i \in 1 .. Len(p) : p[i] = a[i]
  <2> SUFFICES ASSUME NEW i \in 1 .. n PROVE p[i] = a[i]
    BY <1>4
  <2>1. i \in 1 .. Len(s) /\ i \in 1 .. n + Len(b) /\ i <= n
    BY <1>1
  <2> QED BY <1>5, <1>6, <1>7, <2>1
<1>9. p = a
  BY <1>4, <1>8, SeqEqual
<1>10. \A i \in 1 .. Len(q) : q[i] = b[i]
  <2> SUFFICES ASSUME NEW i \in 1 .. Len(q) PROVE q[i] = b[i]
    OBVIOUS
  <2>1. PICK j \in 1 .. Len(s) : j = i + n
    BY <1>1, <1>4
  <2>2. j \in 1 .. n + Len(b) /\ ~(j <= n) /\ j - n = i
    BY <1>1, <1>4, <1>7, <2>1
  <2> QED BY <1>5, <1>6, <1>7, <2>1, <2>2
<1>11. Len(q) <= Len(b)
  BY <1>1, <1>4, <1>7
<1> QED BY <1>2, <1>3, <1>9, <1>10, <1>11 DEF Begins

LEMMA BeginsTail ==
  ASSUME NEW T, NEW s \in Seq(T), s # <<>>, NEW x \in T, NEW b \in Seq(T),
         Begins(s, <<x>> \o b)
  PROVE  s[1] = x /\ Tail(s) \in Seq(T) /\ Begins(Tail(s), b)
<1>1. PICK a \in Seq(T) : a = <<x>>
  <2>1. <<x>> \in Seq(T)
    OBVIOUS
  <2> QED BY <2>1
<1>2. Len(a) = 1 /\ a[1] = x
  BY <1>1
<1>3. Len(s) \in Nat \ {0} /\ Len(b) \in Nat
  BY EmptySeq, LenProperties
<1>4. /\ Len(a \o b) = 1 + Len(b)
      /\ \A i \in 1 .. 1 + Len(b) : (a \o b)[i] = IF i <= 1 THEN a[i] ELSE b[i - 1]
  <2>1. /\ Len(a \o b) = Len(a) + Len(b)
        /\ \A i \in 1 .. Len(a) + Len(b) :
              (a \o b)[i] = IF i <= Len(a) THEN a[i] ELSE b[i - Len(a)]
    BY ConcatProperties
  <2> QED BY <1>2, <2>1
<1>5. Len(s) <= 1 + Len(b) /\ \A i \in 1 .. Len(s) : s[i] = (a \o b)[i]
  BY <1>1, <1>4 DEF Begins
<1>6. /\ Tail(s) \in Seq(T) /\ Len(Tail(s)) = Len(s) - 1
      /\ \A i \in 1 .. Len(Tail(s)) : Tail(s)[i] = s[i + 1]
  BY HeadTailProperties
<1>7. s[1] = x
  <2>1. 1 \in 1 .. Len(s) /\ 1 \in 1 .. 1 + Len(b)
    BY <1>3
  <2> QED BY <1>2, <1>4, <1>5, <2>1
<1>8. \A i \in 1 .. Len(Tail(s)) : Tail(s)[i] = b[i]
  <2> SUFFICES ASSUME NEW i \in 1 .. Len(Tail(s)) PROVE Tail(s)[i] = b[i]
    OBVIOUS
  <2>1. PICK j \in 1 .. Len(s) : j = i + 1
    BY <1>3, <1>6
  <2>2. j \in 1 .. 1 + Len(b) /\ ~(j <= 1) /\ j - 1 = i
    BY <1>3, <1>5, <1>6, <2>1
  <2> QED BY <1>4, <1>5, <1>6, <2>1, <2>2
<1>9. Len(Tail(s)) <= Len(b)
  BY <1>3, <1>5, <1>6
<1> QED BY <1>6, <1>7, <1>8, <1>9 DEF Begins

\* What begins a sequence and is as long is that sequence.
LEMMA BeginsAll ==
  ASSUME NEW T, NEW s \in Seq(T), NEW t \in Seq(T), Begins(s, t), Len(t) <= Len(s)
  PROVE  s = t
<1>1. Len(s) = Len(t) /\ \A i \in 1 .. Len(s) : s[i] = t[i]
  BY LenProperties DEF Begins
<1> QED BY <1>1, SeqEqual

LEMMA JoinUnits ==
  \A p, q, r \in Seq(Units) : p \o q \in Seq(Units) /\ (p \o q) \o r = p \o (q \o r)
BY ConcatProperties, ConcatAssociative

LEMMA JoinOctets ==
  \A p, q, r \in Seq(Octets) : p \o q \in Seq(Octets) /\ (p \o q) \o r = p \o (q \o r)
BY ConcatProperties, ConcatAssociative

LEMMA FullChunkType ==
  ASSUME NEW c \in FullChunks
  PROVE  c \in Seq(Octets) /\ c \in Seq(Units) /\ Len(c) \in Nat
<1>1. c \in Seq(Octets)
  BY DEF FullChunks
<1>2. Len(c) \in Nat /\ \A i \in 1 .. Len(c) : c[i] \in Octets
  BY <1>1, LenProperties, ElementOfSeq
<1>3. \A i \in 1 .. Len(c) : c[i] \in Units
  BY <1>2 DEF Units
<1>4. c = [i \in 1 .. Len(c) |-> c[i]]
  BY <1>1, LenProperties
<1>5. c \in Seq(Units)
  BY <1>2, <1>3, <1>4, IsASeq
<1> QED BY <1>1, <1>2, <1>5

LEMMA ChunksType == ASSUME NEW z \in Seq(FullChunks) PROVE z \in Seq(Seq(Octets))
<1>1. /\ Len(z) \in Nat /\ z = [i \in 1 .. Len(z) |-> z[i]]
      /\ \A i \in 1 .. Len(z) : z[i] \in FullChunks
  BY LenProperties, ElementOfSeq
<1>2. \A i \in 1 .. Len(z) : z[i] \in Seq(Octets)
  BY <1>1, FullChunkType
<1> QED BY <1>1, <1>2, IsASeq

\* The first chunk is framed first.
LEMMA ChunkedFacts ==
  ASSUME NEW cs \in Seq(FullChunks)
  PROVE  /\ Chunked(cs) \in Seq(Units)
         /\ cs = <<>> => Chunked(cs) = <<Unit("size", 0)>> \o <<>>
         /\ cs # <<>> =>
               /\ cs[1] \in FullChunks /\ Tail(cs) \in Seq(FullChunks)
               /\ FlattenSeq(cs) = cs[1] \o FlattenSeq(Tail(cs))
               /\ Chunked(cs) = <<Unit("size", Len(cs[1]))>> \o (cs[1] \o Chunked(Tail(cs)))
               /\ Chunked(cs) = (<<Unit("size", Len(cs[1]))>> \o cs[1]) \o Chunked(Tail(cs))
<1>1. PICK z \in Seq(Units) : z = <<Unit("size", 0)>>
  <2>1. Unit("size", 0) \in Units
    BY DEF Unit, Units
  <2>2. <<Unit("size", 0)>> \in Seq(Units)
    BY <2>1
  <2> QED BY <2>2
<1>2. \A c \in FullChunks : /\ c \in Seq(Units) /\ c \in Seq(Octets) /\ Len(c) \in Nat
                            /\ <<Unit("size", Len(c))>> \in Seq(Units)
                            /\ <<Unit("size", Len(c))>> \o c \in Seq(Units)
  <2> SUFFICES ASSUME NEW c \in FullChunks
               PROVE  /\ c \in Seq(Units) /\ c \in Seq(Octets) /\ Len(c) \in Nat
                      /\ <<Unit("size", Len(c))>> \in Seq(Units)
                      /\ <<Unit("size", Len(c))>> \o c \in Seq(Units)
    OBVIOUS
  <2>1. c \in Seq(Octets) /\ c \in Seq(Units) /\ Len(c) \in Nat
    BY FullChunkType
  <2>2. <<Unit("size", Len(c))>> \in Seq(Units)
    <3>1. Unit("size", Len(c)) \in Units
      BY <2>1 DEF Unit, Units
    <3> QED BY <3>1
  <2> QED BY <2>1, <2>2, ConcatProperties
<1>3. \A u \in Seq(FullChunks) :
         /\ Framed(u) \in Seq(Seq(Units)) /\ Len(Framed(u)) = Len(u)
         /\ \A i \in 1 .. Len(u) : Framed(u)[i] = <<Unit("size", Len(u[i]))>> \o u[i]
  <2> SUFFICES ASSUME NEW u \in Seq(FullChunks)
               PROVE  /\ Framed(u) \in Seq(Seq(Units)) /\ Len(Framed(u)) = Len(u)
                      /\ \A i \in 1 .. Len(u) : Framed(u)[i] = <<Unit("size", Len(u[i]))>> \o u[i]
    OBVIOUS
  <2>1. PICK n \in Nat : n = Len(u) /\ DOMAIN u = 1 .. n
    BY LenProperties
  <2>2. \A i \in 1 .. n : u[i] \in FullChunks
    BY <2>1, ElementOfSeq
  <2>3. \A i \in 1 .. n : <<Unit("size", Len(u[i]))>> \o u[i] \in Seq(Units)
    BY <1>2, <2>2
  <2>4. Framed(u) = [i \in 1 .. n |-> <<Unit("size", Len(u[i]))>> \o u[i]]
    BY <2>1 DEF Framed
  <2> HIDE DEF Framed
  <2>5. Framed(u) \in [1 .. n -> Seq(Units)]
    BY <2>3, <2>4
  <2>6. Framed(u) \in Seq(Seq(Units)) /\ Len(Framed(u)) = n
    BY <2>5
  <2> QED BY <2>1, <2>4, <2>6
<1>4. \A u \in Seq(FullChunks) :
         FlattenSeq(Framed(u)) \in Seq(Units) /\ Chunked(u) \in Seq(Units)
  <2>1. \A u \in Seq(FullChunks) : FlattenSeq(Framed(u)) \in Seq(Units)
    BY <1>3, FlattenType
  <2> QED BY <1>1, <2>1, ConcatProperties DEF Chunked
<1>5. ASSUME cs = <<>> PROVE Chunked(cs) = <<Unit("size", 0)>> \o <<>>
  <2>1. Framed(cs) = <<>>
    BY <1>3, <1>5, EmptySeq
  <2>2. z \o <<>> = z /\ <<>> \o z = z
    BY ConcatEmptySeq
  <2> QED BY <1>1, <2>1, <2>2, FlattenEmpty DEF Chunked
<1>6. ASSUME cs # <<>>
      PROVE  /\ cs[1] \in FullChunks /\ Tail(cs) \in Seq(FullChunks)
             /\ FlattenSeq(cs) = cs[1] \o FlattenSeq(Tail(cs))
             /\ Chunked(cs) = <<Unit("size", Len(cs[1]))>> \o (cs[1] \o Chunked(Tail(cs)))
             /\ Chunked(cs) = (<<Unit("size", Len(cs[1]))>> \o cs[1]) \o Chunked(Tail(cs))
  <2>1. PICK c \in FullChunks : c = cs[1]
    BY <1>6, HeadTail
  <2>2. PICK u \in Seq(FullChunks) : u = Tail(cs)
    BY <1>6, HeadTail
  <2>3. cs = <<c>> \o u
    BY <1>6, <2>1, <2>2, HeadTail
  <2>4. FlattenSeq(cs) = c \o FlattenSeq(u)
    <3>1. c \in Seq(Octets) /\ u \in Seq(Seq(Octets))
      BY FullChunkType, ChunksType
    <3> QED BY <2>3, <3>1, FlattenHead
  <2>5. PICK x \in Seq(Units) : x = <<Unit("size", Len(c))>>
    BY <1>2
  <2>6. PICK f \in Seq(Seq(Units)) : f = Framed(u)
    BY <1>3
  <2>7. PICK d \in Seq(Units) : d = FlattenSeq(f)
    BY FlattenType
  <2>8. c \in Seq(Units)
    BY <1>2
  <2>9. PICK y \in Seq(Units) : y = x \o c
    BY <2>8, ConcatProperties
  <2>10. Framed(cs) = <<y>> \o f
    <3>1. PICK h \in Seq(Seq(Units)) : h = <<y>>
      <4>1. <<y>> \in Seq(Seq(Units))
        OBVIOUS
      <4> QED BY <4>1
    <3>2. PICK n \in Nat : n = Len(u) /\ Len(f) = n
      BY <1>3, <2>6, LenProperties
    <3>3. Len(cs) = n + 1 /\ cs[1] = c /\ \A i \in 2 .. n + 1 : cs[i] = u[i - 1]
      <4>1. /\ Len(u) = Len(cs) - 1 /\ \A i \in 1 .. Len(u) : u[i] = cs[i + 1]
        BY <1>6, <2>2, HeadTailProperties
      <4>2. Len(cs) \in Nat
        BY LenProperties
      <4>3. ASSUME NEW i \in 2 .. n + 1 PROVE cs[i] = u[i - 1]
        <5>1. PICK j \in 1 .. n : j = i - 1
          OBVIOUS
        <5>2. u[j] = cs[j + 1] /\ j + 1 = i
          BY <3>2, <4>1, <5>1
        <5> QED BY <5>1, <5>2
      <4> QED BY <2>1, <3>2, <4>1, <4>2, <4>3
    <3>4. PICK w \in Seq(Seq(Units)) : w = Framed(cs)
      BY <1>3
    <3>5. /\ Len(w) = n + 1
          /\ \A i \in 1 .. n + 1 : w[i] = <<Unit("size", Len(cs[i]))>> \o cs[i]
      BY <1>3, <3>3, <3>4
    <3>6. w[1] = y
      BY <2>5, <2>9, <3>3, <3>5
    <3>7. \A i \in 2 .. n + 1 : w[i] = f[i - 1]
      <4> SUFFICES ASSUME NEW i \in 2 .. n + 1 PROVE w[i] = f[i - 1]
        OBVIOUS
      <4>1. PICK j \in 1 .. n : j = i - 1
        OBVIOUS
      <4>2. f[j] = <<Unit("size", Len(u[j]))>> \o u[j]
        BY <1>3, <2>6, <3>2
      <4>3. i \in 1 .. n + 1 /\ cs[i] = u[j]
        BY <3>3, <4>1
      <4>4. w[i] = <<Unit("size", Len(cs[i]))>> \o cs[i]
        BY <3>5, <4>3
      <4> QED BY <4>1, <4>2, <4>3, <4>4
    <3>8. Len(h) = 1 /\ h[1] = y
      BY <3>1
    <3>9. PICK joined \in Seq(Seq(Units)) : joined = h \o f
      BY ConcatProperties
    <3>10. /\ Len(joined) = Len(h) + Len(f)
           /\ \A i \in 1 .. Len(h) + Len(f) : joined[i] = IF i <= Len(h) THEN h[i] ELSE f[i - Len(h)]
      BY <3>9, ConcatProperties
    <3>11. Len(joined) = n + 1 /\ \A i \in 1 .. n + 1 : joined[i] = IF i <= 1 THEN y ELSE f[i - 1]
      <4>1. Len(h) = 1 /\ Len(f) = n
        BY <3>2, <3>8
      <4>2. h[1] = y
        BY <3>8
      <4>3. Len(joined) = 1 + n /\ \A i \in 1 .. 1 + n : joined[i] = IF i <= 1 THEN h[i] ELSE f[i - 1]
        BY <3>10, <4>1
      <4>4. ASSUME NEW i \in 1 .. n + 1 PROVE joined[i] = IF i <= 1 THEN y ELSE f[i - 1]
        <5>1. i \in 1 .. 1 + n /\ (i <= 1 => i = 1)
          OBVIOUS
        <5> QED BY <5>1, <4>2, <4>3
      <4> QED BY <4>3, <4>4
    <3>12. \A i \in 1 .. Len(w) : w[i] = joined[i]
      <4> SUFFICES ASSUME NEW i \in 1 .. n + 1 PROVE w[i] = joined[i]
        BY <3>5
      <4>1. CASE i = 1
        BY <3>6, <3>11, <4>1
      <4>2. CASE i # 1
        <5>1. i \in 2 .. n + 1 /\ ~(i <= 1)
          BY <4>2
        <5> QED BY <3>7, <3>11, <5>1
      <4> QED BY <4>1, <4>2
    <3>13. w = joined
      BY <3>5, <3>11, <3>12, SeqEqual
    <3> QED BY <3>1, <3>4, <3>9, <3>13
  <2>11. FlattenSeq(Framed(cs)) = y \o d
    BY <2>7, <2>10, FlattenHead
  <2>12. PICK q \in Seq(Units) : q = d \o z
    BY JoinUnits
  <2>13. (y \o d) \o z = y \o q
    BY <2>12, JoinUnits
  <2>14. Regroup(x, c, q)
    BY <2>8, Regrouped
  <2>15. Chunked(cs) = (x \o c) \o Chunked(u)
    BY <1>1, <2>6, <2>7, <2>9, <2>11, <2>12, <2>13 DEF Chunked
  <2>16. Chunked(cs) = x \o (c \o Chunked(u))
    BY <1>1, <2>6, <2>7, <2>12, <2>14, <2>15 DEF Chunked, Regroup
  <2> QED BY <2>1, <2>2, <2>4, <2>5, <2>15, <2>16
<1> QED BY <1>4, <1>5, <1>6

\* What an answer has in front of its body: the blank line ends it, and the
\* headers say how the body is framed.
HeadersPart(r) ==
    <<Unit("status", r.status)>>
    \o r.others
    \o (IF r.framing = "chunked" THEN <<Unit("transfer-encoding", "chunked")>>
        ELSE IF r.framing = "length" THEN <<Unit("content-length", Len(Body(r)))>>
        ELSE <<>>)
    \o <<Unit("blank", "")>>

FrontFacts(r, h) ==
    /\ Len(HeadersPart(r)) = h + 1 /\ HeadersPart(r)[h + 1].kind = "blank"
    /\ \A i \in 1 .. h : HeadersPart(r)[i].kind # "blank"
    /\ r.framing = "length" => \E i \in 2 .. h : HeadersPart(r)[i].kind = "content-length"
    /\ \A i \in 2 .. h : HeadersPart(r)[i].kind = "content-length" =>
          r.framing = "length" /\ HeadersPart(r)[i].val = Len(Body(r))
    /\ r.framing = "chunked" <=> \E i \in 2 .. h : HeadersPart(r)[i].kind = "transfer-encoding"

LEMMA BodyType ==
  ASSUME NEW r \in Responses
  PROVE  /\ Body(r) \in Seq(Octets) /\ Body(r) \in Seq(Units) /\ BodyUnits(r) \in Seq(Units)
         /\ r.framing \in {"chunked", "length", "none"}
         /\ r.chunks \in Seq(FullChunks) /\ r.others \in Seq(Others) /\ r.status \in STRING
         /\ r.framing = "chunked" => BodyUnits(r) = Chunked(r.chunks)
<1>1. /\ r.chunks \in Seq(FullChunks) /\ r.others \in Seq(Others) /\ r.status \in STRING
      /\ r.framing \in {"chunked", "length", "none"}
  BY ResponsesAssumption DEF FullChunks
<1>2. r.chunks \in Seq(Seq(Octets))
  BY <1>1, ChunksType
<1>3. PICK b \in Seq(Octets) : b = Body(r)
  BY <1>2, FlattenType DEF Body
<1>4. b \in Seq(Units)
  <2>1. Len(b) \in Nat /\ b = [i \in 1 .. Len(b) |-> b[i]] /\ \A i \in 1 .. Len(b) : b[i] \in Octets
    BY LenProperties, ElementOfSeq
  <2>2. \A i \in 1 .. Len(b) : b[i] \in Units
    BY <2>1 DEF Units
  <2> QED BY <2>1, <2>2, IsASeq
<1>5. r.framing = "chunked" => BodyUnits(r) = Chunked(r.chunks)
  BY DEF BodyUnits, Chunked, Framed
<1>6. r.framing # "chunked" => BodyUnits(r) = b
  BY <1>3 DEF BodyUnits
<1>7. Chunked(r.chunks) \in Seq(Units)
  BY <1>1, ChunkedFacts
<1> QED BY <1>1, <1>3, <1>4, <1>5, <1>6, <1>7

LEMMA FrontHolds ==
  ASSUME NEW r \in Responses
  PROVE  /\ HeadersPart(r) \in Seq(Units) /\ Stream(r) = HeadersPart(r) \o BodyUnits(r)
         /\ \E h \in Nat \ {0} : FrontFacts(r, h)
<1>1. PICK a \in Seq(Units) : a = <<Unit("status", r.status)>>
  <2>1. Unit("status", r.status) \in Units
    BY BodyType DEF Unit, Units
  <2>2. <<Unit("status", r.status)>> \in Seq(Units)
    BY <2>1
  <2> QED BY <2>2
<1>2. PICK n \in Nat : n = Len(r.others) /\ DOMAIN r.others = 1 .. n
  BY BodyType, LenProperties
<1>3. PICK c \in Seq(Units) : /\ c = r.others /\ Len(c) = n
                              /\ \A i \in 1 .. n : c[i].kind \in {"set-cookie", "bad-length"}
  <2>1. PICK c \in Seq(Others) : c = r.others /\ Len(c) = n
    BY <1>2, BodyType
  <2>2. \A i \in 1 .. n : c[i] \in Others
    BY <2>1, ElementOfSeq
  <2>3. \A i \in 1 .. n : c[i] \in Units /\ c[i].kind \in {"set-cookie", "bad-length"}
    <3> SUFFICES ASSUME NEW u \in Others
                 PROVE  u \in Units /\ u.kind \in {"set-cookie", "bad-length"}
      BY <2>2
    <3>1. CASE u \in [kind : {"set-cookie"}, val : SetCookies]
      BY <3>1 DEF Units
    <3>2. CASE u = Unit("bad-length", "")
      BY <3>2 DEF Unit, Units
    <3> QED BY <3>1, <3>2 DEF Others
  <2>4. Len(c) \in Nat /\ c = [i \in 1 .. Len(c) |-> c[i]]
    BY LenProperties
  <2>5. c \in Seq(Units)
    BY <2>1, <2>3, <2>4, IsASeq
  <2> QED BY <2>1, <2>3, <2>5
<1>4. PICK z \in Seq(Units) : z = <<Unit("blank", "")>>
  <2>1. PICK u \in Units : u = Unit("blank", "")
    BY DEF Unit, Units
  <2>2. <<u>> \in Seq(Units)
    OBVIOUS
  <2> QED BY <2>1, <2>2
<1> DEFINE F == IF r.framing = "chunked" THEN <<Unit("transfer-encoding", "chunked")>>
                ELSE IF r.framing = "length" THEN <<Unit("content-length", Len(Body(r)))>>
                ELSE <<>>
<1>5. PICK f \in Seq(Units) :
         /\ f = F
         /\ Len(f) = IF r.framing = "none" THEN 0 ELSE 1
         /\ r.framing = "length" =>
               f[1].kind = "content-length" /\ f[1].val = Len(Body(r))
         /\ r.framing = "chunked" => f[1].kind = "transfer-encoding"
  <2>1. Len(Body(r)) \in Nat
    BY BodyType, LenProperties
  <2>2. CASE r.framing = "chunked"
    <3>1. Unit("transfer-encoding", "chunked") \in Units
      BY DEF Unit, Units
    <3>2. /\ F = <<Unit("transfer-encoding", "chunked")>>
          /\ <<Unit("transfer-encoding", "chunked")>> \in Seq(Units)
      BY <2>2, <3>1
    <3> QED BY <2>2, <3>2 DEF Unit
  <2>3. CASE r.framing = "length"
    <3>1. Unit("content-length", Len(Body(r))) \in Units
      BY <2>1 DEF Unit, Units
    <3>2. /\ F = <<Unit("content-length", Len(Body(r)))>>
          /\ <<Unit("content-length", Len(Body(r)))>> \in Seq(Units)
      BY <2>3, <3>1
    <3> QED BY <2>3, <3>2 DEF Unit
  <2>4. CASE r.framing = "none"
    <3>1. PICK e \in Seq(Units) : e = <<>>
      BY EmptySeq
    <3>2. F = e /\ Len(e) = 0
      BY <2>4, <3>1
    <3>3. r.framing # "length" /\ r.framing # "chunked"
      BY <2>4
    <3>4. Len(e) = IF r.framing = "none" THEN 0 ELSE 1
      BY <2>4, <3>2
    <3> HIDE DEF F
    <3> QED BY <3>2, <3>3, <3>4
  <2> QED BY <2>2, <2>3, <2>4, BodyType
<1> HIDE DEF F
<1>6. Len(a) = 1 /\ a[1].kind = "status" /\ Len(z) = 1 /\ z[1].kind = "blank"
  BY <1>1, <1>4 DEF Unit
<1>7. HeadersPart(r) = ((a \o c) \o f) \o z /\ Stream(r) = HeadersPart(r) \o BodyUnits(r)
  BY <1>1, <1>3, <1>4, <1>5 DEF HeadersPart, Stream, F
<1>8. PICK one \in Nat : one = 1
  OBVIOUS
<1>9. PICK k \in Nat : k = Len(f) /\ k = IF r.framing = "none" THEN 0 ELSE 1
  BY <1>5
<1>10. PICK p \in Seq(Units) : p = a \o c
  BY ConcatProperties
<1>11. Len(p) = 1 + n /\ \A i \in 1 .. 1 + n : p[i] = IF i <= 1 THEN a[i] ELSE c[i - 1]
  <2>1. /\ Len(p) = one + n
        /\ \A i \in 1 .. one + n : p[i] = IF i <= one THEN a[i] ELSE c[i - one]
    <3>1. one = Len(a) /\ n = Len(c)
      BY <1>3, <1>6, <1>8
    <3> QED BY <1>10, <3>1, ConcatAt
  <2> QED BY <1>8, <2>1
<1>12. PICK l \in Nat : l = 1 + n
  OBVIOUS
<1>13. PICK q \in Seq(Units) : q = p \o f
  BY ConcatProperties
<1>14. /\ Len(q) = l + k
       /\ \A i \in 1 .. l + k : q[i] = IF i <= l THEN p[i] ELSE f[i - l]
  <2>1. l = Len(p) /\ k = Len(f)
    BY <1>9, <1>11, <1>12
  <2> QED BY <1>13, <2>1, ConcatAt
<1>15. PICK h \in Nat \ {0} : h = l + k
  BY <1>12
<1>16. PICK w \in Seq(Units) : w = q \o z
  BY ConcatProperties
<1>17. /\ Len(w) = h + 1
       /\ \A i \in 1 .. h + 1 : w[i] = IF i <= h THEN q[i] ELSE z[i - h]
  <2>1. h \in Nat /\ h = Len(q) /\ one = Len(z)
    BY <1>6, <1>8, <1>14, <1>15
  <2>2. /\ Len(w) = h + one
        /\ \A i \in 1 .. h + one : w[i] = IF i <= h THEN q[i] ELSE z[i - h]
    BY <2>1, <1>16, ConcatAt
  <2> QED BY <1>8, <2>2
<1>18. w = HeadersPart(r)
  BY <1>7, <1>10, <1>13, <1>16
<1>19. w[h + 1].kind = "blank"
  <2>1. h + 1 \in 1 .. h + 1 /\ ~(h + 1 <= h) /\ h + 1 - h = 1
    OBVIOUS
  <2>2. w[h + 1] = z[h + 1 - h]
    BY <1>17, <2>1
  <2> QED BY <1>6, <2>1, <2>2
<1>20. w[1].kind = "status"
  <2>1. 1 \in 1 .. h + 1 /\ 1 <= h /\ 1 \in 1 .. l + k /\ 1 <= l /\ 1 \in 1 .. 1 + n
    BY <1>12, <1>15
  <2>2. w[1] = q[1] /\ q[1] = p[1] /\ p[1] = a[1]
    BY <1>11, <1>14, <1>17, <2>1
  <2> QED BY <1>6, <2>2
<1>21. \A i \in 2 .. 1 + n : w[i].kind \in {"set-cookie", "bad-length"}
  <2> SUFFICES ASSUME NEW i \in 2 .. 1 + n PROVE w[i].kind \in {"set-cookie", "bad-length"}
    OBVIOUS
  <2>1. /\ i \in 1 .. h + 1 /\ i <= h /\ i \in 1 .. l + k /\ i <= l
        /\ i \in 1 .. 1 + n /\ ~(i <= 1) /\ i - 1 \in 1 .. n
    BY <1>12, <1>15
  <2>2. w[i] = q[i] /\ q[i] = p[i] /\ p[i] = c[i - 1]
    BY <1>11, <1>14, <1>17, <2>1
  <2> QED BY <1>3, <2>1, <2>2
<1>22. k = 1 => w[h] = f[1]
  <2> SUFFICES ASSUME k = 1 PROVE w[h] = f[1]
    OBVIOUS
  <2>1. h \in 1 .. h + 1 /\ h <= h /\ h \in 1 .. l + k /\ ~(h <= l) /\ h - l = 1
    BY <1>12, <1>15
  <2>2. w[h] = q[h] /\ q[h] = f[h - l]
    BY <1>14, <1>17, <2>1
  <2> QED BY <2>1, <2>2
<1>23. \A i \in 1 .. h : i = 1 \/ i \in 2 .. 1 + n \/ (k = 1 /\ i = h)
  BY <1>9, <1>12, <1>15
<1>24. k = 1 => h \in 2 .. h
  BY <1>12, <1>15
<1>25. FrontFacts(r, h)
  <2>1. r.framing = "none" <=> k = 0
    BY <1>5, <1>9
  <2>2. \A i \in 1 .. h : w[i].kind # "blank"
    <3>1. k = 1 => f[1].kind # "blank"
      BY <1>5, <2>1, BodyType
    <3> QED BY <1>20, <1>21, <1>22, <1>23, <3>1
  <2>3. \A i \in 2 .. h : w[i].kind \in {"set-cookie", "bad-length"} \/ (k = 1 /\ w[i] = f[1])
    <3> SUFFICES ASSUME NEW i \in 2 .. h PROVE w[i].kind \in {"set-cookie", "bad-length"} \/ (k = 1 /\ w[i] = f[1])
      OBVIOUS
    <3>1. i \in 1 .. h /\ i # 1
      OBVIOUS
    <3> QED BY <1>21, <1>22, <1>23, <3>1
  <2>4. /\ r.framing = "length" => f[1].kind # "transfer-encoding"
        /\ r.framing = "chunked" => f[1].kind # "content-length"
        /\ k = 1 => r.framing \in {"length", "chunked"}
    BY <1>5, <2>1, BodyType
  <2>5. r.framing # "none" => w[h] = f[1] /\ h \in 2 .. h
    BY <1>9, <1>22, <1>24
  <2>6. r.framing = "length" => \E i \in 2 .. h : w[i].kind = "content-length"
    <3> SUFFICES ASSUME r.framing = "length" PROVE w[h].kind = "content-length" /\ h \in 2 .. h
      OBVIOUS
    <3>1. r.framing # "none"
      OBVIOUS
    <3> QED BY <1>5, <2>5, <3>1
  <2>7. \A i \in 2 .. h : w[i].kind = "content-length" =>
           r.framing = "length" /\ w[i].val = Len(Body(r))
    BY <1>5, <2>1, <2>3, <2>4
  <2>8. r.framing = "chunked" <=> \E i \in 2 .. h : w[i].kind = "transfer-encoding"
    <3>1. ASSUME r.framing = "chunked"
          PROVE  w[h].kind = "transfer-encoding" /\ h \in 2 .. h
      <4>1. r.framing # "none"
        BY <3>1
      <4> QED BY <1>5, <2>5, <3>1, <4>1
    <3>2. ASSUME NEW i \in 2 .. h, w[i].kind = "transfer-encoding" PROVE r.framing = "chunked"
      BY <2>3, <2>4, <3>2
    <3> QED BY <3>1, <3>2
  <2> QED BY <1>17, <1>18, <1>19, <2>2, <2>6, <2>7, <2>8 DEF FrontFacts
<1> QED BY <1>7, <1>25, <1>18

LEMMA ReadHeadersStep == ASSUME HttpInv, ReadHeaders PROVE HttpInv'
<1> USE DEF HttpInv
<1>1. /\ stage = "headers" /\ response \in Responses /\ stream \in Seq(Units)
      /\ Begins(stream, Stream(response)) /\ response' = response /\ page' = page
  BY DEF ReadHeaders
<1>2. PICK r \in Responses : r = response
  BY <1>1
<1>3. PICK h \in Nat \ {0} : FrontFacts(r, h)
  BY FrontHolds
<1>4. PICK a \in Seq(Units) : a = HeadersPart(r)
  BY FrontHolds
<1>5. PICK b \in Seq(Units) : b = BodyUnits(r)
  BY BodyType
<1>6. PICK s \in Seq(Units) : s = stream
  BY <1>1
<1>7. Begins(s, a \o b)
  BY <1>1, <1>2, <1>4, <1>5, <1>6, FrontHolds
<1>8. Len(s) \in Nat /\ Len(b) \in Nat /\ Len(a) = h + 1
  BY <1>3, <1>4, LenProperties DEF FrontFacts
<1>9. \A i \in 1 .. Len(s) : i <= h + 1 => s[i] = a[i]
  <2>1. \A i \in 1 .. Len(s) : s[i] = (a \o b)[i]
    BY <1>7 DEF Begins
  <2>2. Len(s) <= Len(a \o b) /\ Len(a \o b) = Len(a) + Len(b)
    BY <1>7, ConcatProperties DEF Begins
  <2>3. \A i \in 1 .. Len(a) + Len(b) : (a \o b)[i] = IF i <= Len(a) THEN a[i] ELSE b[i - Len(a)]
    BY ConcatProperties
  <2> SUFFICES ASSUME NEW i \in 1 .. Len(s), i <= h + 1 PROVE s[i] = a[i]
    OBVIOUS
  <2>4. i \in 1 .. Len(a) + Len(b) /\ i <= Len(a)
    BY <1>8, <2>2
  <2> QED BY <2>1, <2>3, <2>4
<1> DEFINE I == {i \in 1 .. Len(s) : s[i].kind = "blank"}
<1>10. CASE I = {}
  <2>1. SelectInSeq(stream, LAMBDA u : u.kind = "blank") = 0
    BY <1>6, <1>10 DEF SelectInSeq
  <2>2. stage' = "failed" /\ stream' = stream
    BY <2>1 DEF ReadHeaders
  <2> QED BY <1>1, <2>2 DEF PagesWhole
<1>11. CASE I # {}
  <2>1. \A i \in I : i >= h + 1
    <3> SUFFICES ASSUME NEW i \in I, ~(i >= h + 1) PROVE FALSE
      OBVIOUS
    <3>1. i \in 1 .. Len(s) /\ i \in 1 .. h /\ i <= h + 1
      BY <1>8
    <3> QED BY <1>3, <1>4, <1>9, <3>1 DEF FrontFacts
  <2>2. h + 1 \in I
    <3>1. PICK i \in I : TRUE
      BY <1>11
    <3>2. i \in 1 .. Len(s) /\ i >= h + 1
      BY <2>1, <3>1
    <3>3. h + 1 \in 1 .. Len(s) /\ h + 1 <= h + 1
      BY <1>8, <3>2
    <3>4. s[h + 1] = a[h + 1]
      BY <1>9, <3>3
    <3> QED BY <1>3, <1>4, <3>3, <3>4 DEF FrontFacts
  <2>3. PICK n \in Nat : n = h + 1
    OBVIOUS
  <2>4. Min(I) = n
    <3>1. n \in I /\ \A i \in I : n <= i
      BY <2>1, <2>2, <2>3
    <3>2. \A i \in I : (\A j \in I : i <= j) => i = n
      BY <3>1, <2>3, <1>8
    <3> QED BY <3>1, <3>2 DEF Min
  <2>5. SelectInSeq(stream, LAMBDA u : u.kind = "blank") = n
    BY <1>6, <1>11, <2>4 DEF SelectInSeq
  <2>6. /\ stage' = "cookies" /\ headers' = SubSeq(s, 2, n - 1)
        /\ stream' = SubSeq(s, n + 1, Len(s))
    BY <1>6, <2>3, <2>5 DEF ReadHeaders
  <2>7. n <= Len(s) /\ n = Len(a)
    BY <1>8, <2>2, <2>3
  <2>8. SubSeq(s, n + 1, Len(s)) \in Seq(Units) /\ Begins(SubSeq(s, n + 1, Len(s)), b)
    BY <1>7, <2>7, BeginsRest
  <2>9. PICK hs \in Seq(Units) : /\ hs = SubSeq(s, 2, h) /\ Len(hs) = h - 1
                                 /\ \A i \in 1 .. h - 1 : hs[i] = s[i + 1]
    <3>1. \A i \in 2 .. h : s[i] \in Units
      <4>1. \A i \in 2 .. h : i \in 1 .. Len(s)
        BY <1>8, <2>3, <2>7
      <4> QED BY <4>1, ElementOfSeq
    <3>2. /\ SubSeq(s, 2, h) \in Seq(Units)
          /\ Len(SubSeq(s, 2, h)) = IF 2 <= h THEN h - 2 + 1 ELSE 0
          /\ \A i \in 1 .. h - 2 + 1 : SubSeq(s, 2, h)[i] = s[2 + i - 1]
      BY <3>1, SubSeqProperties
    <3>3. Len(SubSeq(s, 2, h)) = h - 1
      BY <3>2
    <3>4. \A i \in 1 .. h - 1 : SubSeq(s, 2, h)[i] = s[i + 1]
      <4>1. \A i \in 1 .. h - 1 : i \in 1 .. h - 2 + 1 /\ 2 + i - 1 = i + 1
        OBVIOUS
      <4> QED BY <3>2, <4>1
    <3> QED BY <3>2, <3>3, <3>4
  <2>10. \A i \in 1 .. h - 1 : hs[i] = a[i + 1] /\ i + 1 \in 2 .. h
    <3> SUFFICES ASSUME NEW i \in 1 .. h - 1 PROVE hs[i] = a[i + 1] /\ i + 1 \in 2 .. h
      OBVIOUS
    <3>1. i + 1 \in 1 .. Len(s) /\ i + 1 <= h + 1 /\ i + 1 \in 2 .. h
      BY <1>8, <2>3, <2>7
    <3> QED BY <1>9, <2>9, <3>1
  <2>11. \A i \in 2 .. h : i - 1 \in 1 .. h - 1 /\ a[i] = hs[i - 1]
    <3> SUFFICES ASSUME NEW i \in 2 .. h PROVE i - 1 \in 1 .. h - 1 /\ a[i] = hs[i - 1]
      OBVIOUS
    <3>1. i - 1 \in 1 .. h - 1 /\ i - 1 + 1 = i
      OBVIOUS
    <3> QED BY <2>10, <3>1
  <2>12. HeadersOf(r, hs)
    <3>1. r.framing = "length" => \E i \in 1 .. h - 1 : hs[i].kind = "content-length"
      BY <1>3, <1>4, <2>11 DEF FrontFacts
    <3>2. \A i \in 1 .. h - 1 : hs[i].kind = "content-length" =>
             r.framing = "length" /\ hs[i].val = Len(Body(r))
      BY <1>3, <1>4, <2>10 DEF FrontFacts
    <3>3. r.framing = "chunked" => \E i \in 1 .. h - 1 : hs[i].kind = "transfer-encoding"
      BY <1>3, <1>4, <2>11 DEF FrontFacts
    <3>4. (\E i \in 1 .. h - 1 : hs[i].kind = "transfer-encoding") => r.framing = "chunked"
      BY <1>3, <1>4, <2>10 DEF FrontFacts
    <3> QED BY <2>9, <3>1, <3>2, <3>3, <3>4 DEF HeadersOf
  <2>13. headers' = hs
    <3>1. n - 1 = h
      BY <2>3
    <3> QED BY <2>6, <2>9, <3>1
  <2> QED BY <1>1, <1>2, <1>5, <2>6, <2>8, <2>12, <2>13 DEF PagesWhole
<1> QED BY <1>10, <1>11

LEMMA ReadDataStep == ASSUME HttpInv, ReadData PROVE HttpInv'
<1> USE DEF HttpInv
<1>1. /\ stage = "data" /\ response \in Responses /\ stream \in Seq(Units)
      /\ headers \in Seq(Units) /\ HeadersOf(response, headers)
      /\ Begins(stream, BodyUnits(response))
      /\ response' = response /\ stream' = stream
  BY DEF ReadData
<1>2. PICK r \in Responses : r = response
  BY <1>1
<1>3. PICK hs \in Seq(Units) : hs = headers
  BY <1>1
<1>4. Len(hs) \in Nat /\ HeadersOf(r, hs)
  BY <1>1, <1>2, <1>3, LenProperties
<1>5. \A k : HeaderAt(k) \in 0 .. Len(hs)
             /\ (HeaderAt(k) = 0 <=> \A i \in 1 .. Len(hs) : hs[i].kind # k)
             /\ (HeaderAt(k) # 0 => hs[HeaderAt(k)].kind = k)
  <2> SUFFICES ASSUME NEW k
               PROVE  /\ HeaderAt(k) \in 0 .. Len(hs)
                      /\ (HeaderAt(k) = 0 <=> \A i \in 1 .. Len(hs) : hs[i].kind # k)
                      /\ (HeaderAt(k) # 0 => hs[HeaderAt(k)].kind = k)
    OBVIOUS
  <2> DEFINE I == {i \in 1 .. Len(hs) : hs[i].kind = k}
  <2>1. HeaderAt(k) = IF I # {} THEN Min(I) ELSE 0
    BY <1>3 DEF HeaderAt, SelectInSeq
  <2>2. I # {} => Min(I) \in I
    <3> SUFFICES ASSUME I # {} PROVE Min(I) \in I
      OBVIOUS
    <3>1. I \subseteq Nat
      BY <1>4
    <3>2. PICK x \in I : \A y \in I : x <= y
      BY <3>1, LeastOf
    <3> QED BY <3>2 DEF Min
  <2> QED BY <1>4, <2>1, <2>2
<1> DEFINE c == HeaderAt("content-length")
           l == headers[c].val
<1>6. CASE c # 0
  <2>1. /\ page' = Take(stream, l) /\ stage' = IF Len(stream) >= l THEN "page" ELSE "failed"
    BY <1>6 DEF ReadData, ReadAll
  <2>2. r.framing = "length" /\ l = Len(Body(r))
    <3>1. c \in 1 .. Len(hs) /\ hs[c].kind = "content-length"
      BY <1>5, <1>6
    <3> QED BY <1>3, <1>4, <3>1 DEF HeadersOf
  <2>3. ASSUME Len(stream) >= l PROVE page' = Body(r)
    <3>1. PICK b \in Seq(Units) : b = Body(r) /\ b = BodyUnits(r)
      BY <2>2, BodyType DEF BodyUnits
    <3>2. PICK s \in Seq(Units) : s = stream
      BY <1>1
    <3>3. Begins(s, b) /\ Len(b) <= Len(s) /\ Len(b) \in Nat /\ Len(s) \in Nat
      BY <1>1, <1>2, <2>2, <2>3, <3>1, <3>2, LenProperties
    <3>4. s = b
      BY <3>3, BeginsAll
    <3>5. Take(s, l) = SubSeq(s, 1, Len(s))
      BY <2>2, <3>1, <3>3, <3>4 DEF Take
    <3>6. SubSeq(s, 1, Len(s)) = s
      BY SubSeqFull
    <3> QED BY <2>1, <3>1, <3>2, <3>4, <3>5, <3>6
  <2> QED BY <1>1, <1>2, <2>1, <2>2, <2>3 DEF PagesWhole
<1>7. CASE c = 0 /\ HeaderAt("transfer-encoding") # 0
  <2>1. page' = <<>> /\ stage' = "chunks"
    BY <1>7 DEF ReadData
  <2>2. r.framing = "chunked"
    <3>1. \E i \in 1 .. Len(hs) : hs[i].kind = "transfer-encoding"
      BY <1>5, <1>7
    <3> QED BY <1>4, <3>1 DEF HeadersOf
  <2>3. PICK cs \in Seq(FullChunks) : cs = r.chunks
    BY BodyType
  <2>4. <<>> \o FlattenSeq(cs) = Body(r)
    <3>1. FlattenSeq(cs) \in Seq(Octets)
      BY <2>3, BodyType DEF Body
    <3> QED BY <2>3, <3>1, ConcatEmptySeq DEF Body
  <2>5. Begins(stream, Chunked(cs))
    BY <1>1, <1>2, <2>2, <2>3, BodyType
  <2>6. Unread'
    BY <1>1, <1>2, <2>1, <2>4, <2>5 DEF Unread
  <2>7. page' \in Seq(Octets)
    BY <2>1, EmptySeq
  <2> QED BY <1>1, <1>2, <2>1, <2>2, <2>6, <2>7 DEF PagesWhole
<1>8. CASE c = 0 /\ HeaderAt("transfer-encoding") = 0
  <2>1. page' = page /\ stage' = "page"
    BY <1>8 DEF ReadData
  <2>2. r.framing # "length"
    <3>1. \A i \in 1 .. Len(hs) : hs[i].kind # "content-length"
      BY <1>5, <1>8
    <3> QED BY <1>4, <3>1 DEF HeadersOf
  <2>3. r.framing # "chunked"
    <3>1. \A i \in 1 .. Len(hs) : hs[i].kind # "transfer-encoding"
      BY <1>5, <1>8
    <3> QED BY <1>4, <3>1 DEF HeadersOf
  <2>4. r.framing = "none"
    BY <2>2, <2>3, BodyType
  <2> QED BY <1>1, <1>2, <2>1, <2>4 DEF PagesWhole
<1> QED BY <1>6, <1>7, <1>8

LEMMA ReadChunkStep == ASSUME HttpInv, ReadChunk PROVE HttpInv'
<1> USE DEF HttpInv
<1>1. /\ stage = "chunks" /\ stream \in Seq(Units) /\ page \in Seq(Octets)
      /\ response.framing = "chunked" /\ Unread /\ response' = response
  BY DEF ReadChunk
<1>2. PICK cs \in Seq(FullChunks) :
         page \o FlattenSeq(cs) = Body(response) /\ Begins(stream, Chunked(cs))
  BY <1>1 DEF Unread
<1>3. Body(response)' = Body(response)
  BY <1>1 DEF Body
<1>4. CASE stream = <<>>
  <2>1. stage' = "failed" /\ stream' = stream
    BY <1>4 DEF ReadChunk
  <2> QED BY <1>1, <2>1 DEF PagesWhole
<1>5. CASE stream # <<>> /\ cs = <<>>
  <2>1. PICK z \in Units : z = Unit("size", 0)
    BY DEF Unit, Units
  <2>2. PICK e \in Seq(Units) : e = <<>>
    BY EmptySeq
  <2>3. Begins(stream, <<z>> \o e)
    BY <1>2, <1>5, <2>1, <2>2, ChunkedFacts
  <2>4. stream[1] = z
    BY <1>1, <1>5, <2>3, BeginsTail
  <2>5. stream[1].val = 0
    BY <2>1, <2>4 DEF Unit
  <2>6. stage' = "page" /\ stream' = stream /\ page' = page
    BY <1>5, <2>5 DEF ReadChunk
  <2>7. page = Body(response)
    BY <1>1, <1>2, <1>5, FlattenEmpty, ConcatEmptySeq
  <2> QED BY <1>1, <1>3, <2>6, <2>7 DEF PagesWhole
<1>6. CASE stream # <<>> /\ cs # <<>>
  <2>1. PICK c \in FullChunks : c = cs[1]
    BY <1>6, ChunkedFacts
  <2>2. PICK u \in Seq(FullChunks) : u = Tail(cs)
    BY <1>6, ChunkedFacts
  <2>3. PICK w \in Seq(Units) : w = Chunked(u)
    BY ChunkedFacts
  <2>4. PICK n \in Nat \ {0} : n = Len(c)
    BY EmptySeq, LenProperties DEF FullChunks
  <2>5. PICK x \in Units : x = Unit("size", n)
    BY DEF Unit, Units
  <2>6. c \in Seq(Units) /\ c \in Seq(Octets)
    BY FullChunkType
  <2>7. PICK b \in Seq(Units) : b = c \o w
    BY <2>6, JoinUnits
  <2>8. Chunked(cs) = <<x>> \o b /\ FlattenSeq(cs) = c \o FlattenSeq(u)
    BY <1>6, <2>1, <2>2, <2>3, <2>4, <2>5, <2>7, ChunkedFacts
  <2>9. PICK s \in Seq(Units) : s = stream
    BY <1>1
  <2>10. s[1] = x /\ Tail(s) \in Seq(Units) /\ Begins(Tail(s), b)
    BY <1>2, <1>6, <2>8, <2>9, BeginsTail
  <2>11. stream[1].val = n
    BY <2>5, <2>9, <2>10 DEF Unit
  <2>12. PICK t \in Seq(Units) : t = Tail(s)
    BY <2>10
  <2>13. PICK bytes : bytes = Take(t, n)
    OBVIOUS
  <2>14. /\ page' = page \o bytes /\ stream' = SubSeq(s, Len(bytes) + 2, Len(s))
         /\ stage' = IF Len(bytes) < n THEN "failed" ELSE "chunks"
    BY <1>6, <2>4, <2>9, <2>11, <2>12, <2>13 DEF ReadChunk
  <2>15. Len(t) \in Nat /\ Len(s) \in Nat /\ Len(s) = Len(t) + 1
    BY <1>6, <2>9, <2>12, HeadTailProperties, LenProperties, EmptySeq
  <2>16. CASE Len(t) < n
    <3>1. bytes = t
      <4>1. SubSeq(t, 1, Len(t)) = t
        BY SubSeqFull
      <4>2. ~(n < Len(t))
        BY <2>15, <2>16
      <4>3. Take(t, n) = SubSeq(t, 1, Len(t))
        BY <4>2 DEF Take
      <4> QED BY <2>13, <4>1, <4>3
    <3>2. stage' = "failed"
      BY <2>14, <2>16, <3>1
    <3>3. stream' \in Seq(Units)
      <4>1. PICK m \in Nat : m = Len(s) + 1
        BY <2>15
      <4>2. stream' = SubSeq(s, m, Len(s))
        BY <2>14, <2>15, <3>1, <4>1
      <4>3. \A i \in m .. Len(s) : s[i] \in Units
        BY <2>15, <4>1
      <4> QED BY <2>15, <4>1, <4>2, <4>3, SubSeqProperties
    <3> QED BY <1>1, <3>2, <3>3 DEF PagesWhole
  <2>17. CASE n <= Len(t)
    <3>1. Take(t, n) = SubSeq(t, 1, n)
      <4>1. CASE n < Len(t)
        BY <4>1 DEF Take
      <4>2. CASE n = Len(t)
        BY <4>2 DEF Take
      <4> QED BY <2>15, <2>17, <4>1, <4>2
    <3>2. bytes = c
      <4>1. n = Len(c) /\ Begins(t, c \o w)
        BY <2>4, <2>7, <2>10, <2>12
      <4>2. SubSeq(t, 1, n) = c
        BY <2>6, <2>17, <4>1, BeginsRest
      <4> QED BY <2>13, <3>1, <4>2
    <3>3. PICK y \in Seq(Units) : y = <<x>>
      <4>1. <<x>> \in Seq(Units)
        OBVIOUS
      <4> QED BY <4>1
    <3>4. PICK d \in Seq(Units) : d = y \o c
      BY <2>6, JoinUnits
    <3>5. PICK m \in Nat : m = n + 1
      OBVIOUS
    <3>6. m = Len(d)
      <4>1. Len(y) = 1
        BY <3>3
      <4>2. Len(d) = Len(y) + Len(c)
        BY <2>6, <3>4, ConcatProperties
      <4> QED BY <2>4, <3>5, <4>1, <4>2
    <3>7. Chunked(cs) = d \o w
      BY <1>6, <2>1, <2>2, <2>3, <2>4, <2>5, <3>3, <3>4, ChunkedFacts
    <3>8. Begins(s, d \o w) /\ m <= Len(s)
      <4>1. Begins(s, Chunked(cs))
        BY <1>2, <2>9
      <4>2. m <= Len(s)
        BY <2>15, <2>17, <3>5
      <4> QED BY <3>7, <4>1, <4>2
    <3>9. SubSeq(s, m + 1, Len(s)) \in Seq(Units) /\ Begins(SubSeq(s, m + 1, Len(s)), w)
      BY <3>6, <3>8, BeginsRest
    <3>10. stream' = SubSeq(s, m + 1, Len(s)) /\ page' = page \o c /\ stage' = "chunks"
      BY <2>4, <2>14, <3>2, <3>5
    <3>11. page' \in Seq(Octets) /\ page' \o FlattenSeq(u) = Body(response)
      <4>1. PICK f \in Seq(Octets) : f = FlattenSeq(u)
        BY ChunksType, FlattenType
      <4>2. PICK g \in Seq(Octets) : g = page
        BY <1>1
      <4>3. (g \o c) \o f = g \o (c \o f)
        BY <2>6, JoinOctets
      <4>4. g \o c \in Seq(Octets)
        BY <2>6, JoinOctets
      <4> QED BY <1>2, <2>8, <3>10, <4>1, <4>2, <4>3, <4>4
    <3>12. Unread'
      <4>1. page' \o FlattenSeq(u) = Body(response)'
        BY <1>3, <3>11
      <4>2. Begins(stream', Chunked(u))
        BY <2>3, <3>9, <3>10
      <4> QED BY <4>1, <4>2 DEF Unread
    <3> QED BY <1>1, <3>9, <3>10, <3>11, <3>12 DEF PagesWhole
  <2> QED BY <2>15, <2>16, <2>17
<1> QED BY <1>4, <1>5, <1>6

LEMMA HttpStep == HttpInv /\ [HttpNext]_httpVars => HttpInv'
<1> SUFFICES ASSUME HttpInv, [HttpNext]_httpVars PROVE HttpInv'
  OBVIOUS
<1> USE DEF HttpInv
<1>1. ASSUME Asked PROVE HttpInv'
  <2>1. PICK r \in Responses : \E n \in 0 .. Len(Stream(r)) :
           response' = r /\ stream' = SubSeq(Stream(r), 1, n)
    BY <1>1 DEF Asked
  <2>2. PICK t \in Seq(Units) : t = Stream(r)
    <3>1. HeadersPart(r) \in Seq(Units) /\ BodyUnits(r) \in Seq(Units)
      BY FrontHolds, BodyType
    <3>2. Stream(r) \in Seq(Units)
      BY <3>1, FrontHolds, ConcatProperties
    <3> QED BY <3>2
  <2>3. PICK n \in 0 .. Len(t) : response' = r /\ stream' = SubSeq(t, 1, n)
    BY <2>1, <2>2
  <2>4. stream' \in Seq(Units) /\ Begins(stream', t)
    BY <2>3, BeginsPart
  <2>5. stage' = "headers"
    BY <1>1 DEF Asked
  <2> QED BY <2>2, <2>3, <2>4, <2>5 DEF PagesWhole
<1>2. CASE GetHttp \/ Dict
  BY <1>1, <1>2 DEF GetHttp, Dict
<1>3. CASE \E from, to \in Languages \cup {"", "xx"} : Trans(from, to)
  <2>1. PICK from \in Languages \cup {"", "xx"}, to \in Languages \cup {"", "xx"} : Trans(from, to)
    BY <1>3
  <2>2. CASE from = "" \/ to = "" \/ from \notin Languages \/ to \notin Languages
    <3>1. stage' = "failed" /\ response' = response /\ stream' = stream
      BY <2>1, <2>2 DEF Trans
    <3> QED BY <3>1 DEF PagesWhole
  <2>3. CASE ~(from = "" \/ to = "" \/ from \notin Languages \/ to \notin Languages)
    BY <1>1, <2>1, <2>3 DEF Trans
  <2> QED BY <2>2, <2>3
<1>4. CASE ReadCookies
  BY <1>4 DEF ReadCookies, PagesWhole
<1>5. CASE Answered
  BY <1>5 DEF Answered, PagesWhole
<1>6. CASE GivenUp
  BY <1>6 DEF GivenUp, PagesWhole
<1>7. CASE UNCHANGED httpVars
  BY <1>7 DEF httpVars, PagesWhole, Unread, Body
<1> QED BY <1>2, <1>3, <1>4, <1>5, <1>6, <1>7, ReadHeadersStep, ReadDataStep, ReadChunkStep
        DEF HttpNext

\* What is taken for a page is the whole body of the response, however it
\* was framed and wherever the connection broke: for whatever servers
\* answer, in chunks of any number and size (read_http_response_data,
\* read_chunked_encoding).
THEOREM PagesWholeCorrect == HttpSpec => []PagesWhole
<1>1. HttpInit => HttpInv
  BY EmptySeq DEF HttpInit, HttpInv, PagesWhole
<1>2. HttpInv => PagesWhole
  BY DEF HttpInv
<1> QED BY <1>1, <1>2, HttpStep, PTL DEF HttpSpec
-----------------------------------------------------------------------------
(* OaStats.  The loop over the sorted rows keeps one thing true (InPlace): *)
(* what the rank and d add up to, and who is better than, or as good as,   *)
(* the player it has got to.                                               *)

\* What a sum of a multiple of m and less than m leaves.
LEMMA DivUnique ==
  ASSUME NEW q \in Nat, NEW k \in Nat, NEW m \in Nat, q < m, NEW x \in Nat, x = q + k * m
  PROVE  x % m = q /\ x \div m = k
<1>1. x = m * (x \div m) + (x % m) /\ x % m \in 0 .. m - 1 /\ x \div m \in Nat
  OBVIOUS
<1>2. PICK a \in Nat : a = x \div m
  BY <1>1
<1>3. PICK b \in Nat : b = x % m
  BY <1>1
<1>4. b < m /\ q + k * m = m * a + b
  BY <1>1, <1>2, <1>3
<1>5. a = k
  <2>1. CASE a < k
    <3>1. PICK e \in Nat : k = a + 1 + e
      <4>1. k - a - 1 \in Nat /\ k = a + 1 + (k - a - 1)
        BY <2>1
      <4> QED BY <4>1
    <3>2. k * m = a * m + m + e * m /\ e * m \in Nat /\ a * m \in Nat
      BY <3>1
    <3> QED BY <3>2, <1>4
  <2>2. CASE k < a
    <3>1. PICK e \in Nat : a = k + 1 + e
      <4>1. a - k - 1 \in Nat /\ a = k + 1 + (a - k - 1)
        BY <2>2
      <4> QED BY <4>1
    <3>2. m * a = k * m + m + e * m /\ e * m \in Nat /\ k * m \in Nat
      BY <3>1
    <3> QED BY <3>2, <1>4
  <2> QED BY <2>1, <2>2
<1>6. m * a = k * m /\ m * a \in Nat
  BY <1>5
<1>7. b = q
  BY <1>4, <1>6
<1> QED BY <1>2, <1>3, <1>5, <1>7

\* The loop of get_oatop over the first n rows.
PlacedUpTo(s, n, f) ==
    f = [i \in 0 .. n |-> IF i = 0 THEN [rank |-> 0, prev |-> 0, d |-> 1]
                          ELSE Place(f[i - 1], s[i])]

LEMMA PlacedExists == ASSUME NEW s, NEW n \in Nat PROVE \E f : PlacedUpTo(s, n, f)
<1> DEFINE G == {k \in Nat : \E f : PlacedUpTo(s, k, f)}
<1>1. 0 \in G
  <2> DEFINE f == [i \in 0 .. 0 |-> [rank |-> 0, prev |-> 0, d |-> 1]]
  <2>1. PlacedUpTo(s, 0, f)
    BY DEF PlacedUpTo
  <2> QED BY <2>1
<1>2. ASSUME NEW k \in G PROVE k + 1 \in G
  <2>1. PICK f : PlacedUpTo(s, k, f)
    OBVIOUS
  <2> DEFINE g == [i \in 0 .. k + 1 |-> IF i <= k THEN f[i] ELSE Place(f[i - 1], s[i])]
             h == [i \in 0 .. k + 1 |-> IF i = 0 THEN [rank |-> 0, prev |-> 0, d |-> 1]
                                        ELSE Place(g[i - 1], s[i])]
  <2>2. ASSUME NEW i \in 0 .. k + 1 PROVE g[i] = h[i]
    <3>1. CASE i = 0
      <4>1. g[i] = f[i] /\ h[i] = [rank |-> 0, prev |-> 0, d |-> 1]
        BY <3>1
      <4> QED BY <2>1, <3>1, <4>1 DEF PlacedUpTo
    <3>2. CASE i # 0 /\ i <= k
      <4>1. i \in 0 .. k /\ i - 1 \in 0 .. k /\ i - 1 \in 0 .. k + 1
        BY <3>2
      <4>2. f[i] = Place(f[i - 1], s[i])
        BY <2>1, <3>2, <4>1 DEF PlacedUpTo
      <4>3. g[i - 1] = f[i - 1] /\ g[i] = f[i]
        BY <4>1, <3>2
      <4>4. h[i] = Place(g[i - 1], s[i])
        BY <3>2
      <4> QED BY <4>2, <4>3, <4>4
    <3>3. CASE i = k + 1
      <4>1. i - 1 \in 0 .. k + 1 /\ i - 1 <= k /\ ~(i <= k) /\ i # 0
        BY <3>3
      <4>2. g[i - 1] = f[i - 1] /\ g[i] = Place(f[i - 1], s[i]) /\ h[i] = Place(g[i - 1], s[i])
        BY <4>1
      <4> QED BY <4>2
    <3> QED BY <3>1, <3>2, <3>3
  <2>3. g = h
    BY <2>2
  <2> HIDE DEF g
  <2>4. PlacedUpTo(s, k + 1, g)
    BY <2>3 DEF PlacedUpTo
  <2> QED BY <2>4
<1> HIDE DEF G
<1>3. G = Nat
  <2>1. G \subseteq Nat
    BY DEF G
  <2> QED BY <1>1, <1>2, <2>1, NatSet
<1> QED BY <1>3 DEF G

LEMMA PlacedStep ==
  ASSUME NEW s, NEW n \in Nat, NEW f, PlacedUpTo(s, n, f)
  PROVE  /\ f[0] = [rank |-> 0, prev |-> 0, d |-> 1]
         /\ \A i \in 1 .. n : f[i] = Place(f[i - 1], s[i])
<1> DEFINE h == [j \in 0 .. n |-> IF j = 0 THEN [rank |-> 0, prev |-> 0, d |-> 1]
                                  ELSE Place(f[j - 1], s[j])]
<1>1. f = h
  BY DEF PlacedUpTo
<1>2. 0 \in 0 .. n /\ h[0] = [rank |-> 0, prev |-> 0, d |-> 1]
  OBVIOUS
<1>3. ASSUME NEW i \in 1 .. n PROVE h[i] = Place(f[i - 1], s[i])
  <2>1. i \in 0 .. n /\ i # 0
    OBVIOUS
  <2> QED BY <2>1
<1> HIDE DEF h
<1> QED BY <1>1, <1>2, <1>3

LEMMA RankedOf ==
  ASSUME NEW rows, Len(Sort(rows)) \in Nat
  PROVE  \E f : /\ PlacedUpTo(Sort(rows), Len(Sort(rows)), f)
                /\ Ranked(rows) = [i \in 1 .. Len(Sort(rows)) |->
                                       [Sort(rows)[i] EXCEPT !.rank = f[i].rank]]
<1>1. \E f : PlacedUpTo(Sort(rows), Len(Sort(rows)), f)
  BY PlacedExists
<1> QED BY <1>1 DEF Ranked, PlacedUpTo

\* Sorted scores, the best first.
Descending(s, n) ==
    /\ \A i \in 1 .. n : s[i].score \in Nat
    /\ \A i, j \in 1 .. n : i < j => s[i].score >= s[j].score

InPlace(s, i, p) ==
    /\ p \in [rank : Nat, prev : Nat, d : Nat]
    /\ p.rank + p.d = i + 1 /\ p.prev = s[i].score
    /\ IF s[1].score = 0 THEN p.rank = 0
       ELSE /\ p.rank \in 1 .. i
            /\ \A j \in 1 .. p.rank - 1 : s[j].score > s[i].score
            /\ \A j \in p.rank .. i : s[j].score = s[i].score

LEMMA FirstInPlace ==
  ASSUME NEW s, NEW n \in Nat, n > 0, Descending(s, n), NEW f, PlacedUpTo(s, n, f)
  PROVE  InPlace(s, 1, f[1])
<1>1. 1 \in 1 .. n /\ s[1].score \in Nat
  BY DEF Descending
<1>2. f[1] = Place([rank |-> 0, prev |-> 0, d |-> 1], s[1])
  <2>1. f[0] = [rank |-> 0, prev |-> 0, d |-> 1] /\ \A i \in 1 .. n : f[i] = Place(f[i - 1], s[i])
    BY PlacedStep
  <2> QED BY <1>1, <2>1
<1>3. CASE s[1].score = 0
  <2>1. f[1] = [rank |-> 0, prev |-> 0, d |-> 2]
    BY <1>2, <1>3 DEF Place
  <2> QED BY <1>1, <1>3, <2>1 DEF InPlace
<1>4. CASE s[1].score # 0
  <2>1. f[1] = [rank |-> 1, prev |-> s[1].score, d |-> 1]
    BY <1>2, <1>4 DEF Place
  <2> QED BY <1>1, <1>4, <2>1 DEF InPlace
<1> QED BY <1>3, <1>4

LEMMA NextInPlace ==
  ASSUME NEW s, NEW n \in Nat, Descending(s, n), NEW f, PlacedUpTo(s, n, f),
         NEW k \in Nat, k > 0, NEW i \in 1 .. n, i = k + 1, InPlace(s, k, f[k])
  PROVE  InPlace(s, i, f[i])
<1>1. /\ k \in 1 .. n /\ 1 \in 1 .. n /\ i - 1 = k /\ k < i
      /\ s[1].score \in Nat /\ s[k].score \in Nat /\ s[i].score \in Nat
      /\ s[k].score >= s[i].score /\ s[1].score >= s[i].score
  <2>1. k \in 1 .. n /\ 1 \in 1 .. n /\ i - 1 = k /\ k < i /\ 1 < i
    OBVIOUS
  <2> QED BY <2>1 DEF Descending
<1>2. PICK p : p = f[k]
  OBVIOUS
<1>3. f[i] = Place(p, s[i])
  <2>1. \A j \in 1 .. n : f[j] = Place(f[j - 1], s[j])
    BY PlacedStep
  <2> QED BY <1>1, <1>2, <2>1
<1>4. InPlace(s, k, p)
  BY <1>2
<1>5. /\ p \in [rank : Nat, prev : Nat, d : Nat] /\ p.rank \in Nat /\ p.d \in Nat
      /\ p.rank + p.d = i /\ p.prev = s[k].score
  BY <1>4 DEF InPlace
<1>6. CASE s[i].score # p.prev
  <2>1. s[i].score < s[k].score
    BY <1>1, <1>5, <1>6
  <2>2. f[i] = [rank |-> i, prev |-> s[i].score, d |-> 1]
    BY <1>3, <1>5, <1>6 DEF Place
  <2>3. s[1].score # 0
    BY <1>1, <2>1 DEF Descending
  <2>4. ASSUME NEW j \in 1 .. i - 1 PROVE s[j].score > s[i].score
    <3>1. j \in 1 .. n /\ (j = k \/ j < k)
      BY <1>1
    <3>2. s[j].score \in Nat /\ s[j].score >= s[k].score
      BY <1>1, <3>1 DEF Descending
    <3> QED BY <1>1, <2>1, <3>2
  <2>5. \A j \in i .. i : s[j].score = s[i].score
    OBVIOUS
  <2> QED BY <1>1, <2>2, <2>3, <2>4, <2>5 DEF InPlace
<1>7. CASE s[i].score = p.prev
  <2>1. f[i] = [p EXCEPT !.d = @ + 1]
    BY <1>3, <1>7 DEF Place
  <2>2. /\ f[i].rank = p.rank /\ f[i].d = p.d + 1 /\ f[i].prev = p.prev
        /\ f[i] \in [rank : Nat, prev : Nat, d : Nat]
    BY <1>5, <2>1
  <2>3. CASE s[1].score = 0
    BY <1>4, <1>5, <1>7, <2>2, <2>3 DEF InPlace
  <2>4. CASE s[1].score # 0
    <3>1. /\ p.rank \in 1 .. i
          /\ \A j \in 1 .. p.rank - 1 : s[j].score > s[i].score
          /\ \A j \in p.rank .. i : s[j].score = s[i].score
      BY <1>4, <1>5, <1>7, <2>4 DEF InPlace
    <3> QED BY <1>5, <1>7, <2>2, <2>4, <3>1 DEF InPlace
  <2> QED BY <2>3, <2>4
<1> QED BY <1>6, <1>7

LEMMA AllInPlace ==
  ASSUME NEW s, NEW n \in Nat, Descending(s, n), NEW f, PlacedUpTo(s, n, f)
  PROVE  \A i \in 1 .. n : InPlace(s, i, f[i])
<1> DEFINE G == {k \in Nat : k > 0 /\ k <= n => InPlace(s, k, f[k])}
<1>1. 0 \in G
  OBVIOUS
<1>2. ASSUME NEW k \in G PROVE k + 1 \in G
  <2>1. PICK i \in Nat : i = k + 1
    OBVIOUS
  <2> SUFFICES ASSUME i <= n PROVE InPlace(s, i, f[i])
    BY <2>1
  <2>2. i \in 1 .. n /\ n > 0
    BY <2>1
  <2>3. CASE k = 0
    <3>1. InPlace(s, 1, f[1])
      BY <2>2, FirstInPlace
    <3> QED BY <2>1, <2>3, <3>1
  <2>4. CASE k > 0
    <3>1. InPlace(s, k, f[k])
      BY <2>1, <2>4
    <3> HIDE DEF G
    <3>2. k \in Nat
      BY DEF G
    <3> QED BY <2>1, <2>2, <2>4, <3>1, <3>2, NextInPlace
  <2> QED BY <2>3, <2>4
<1> HIDE DEF G
<1>3. G = Nat
  <2>1. G \subseteq Nat
    BY DEF G
  <2> QED BY <1>1, <1>2, <2>1, NatSet
<1> QED
  <2> SUFFICES ASSUME NEW i \in 1 .. n PROVE InPlace(s, i, f[i])
    OBVIOUS
  <2>1. i \in G /\ i > 0 /\ i <= n
    BY <1>3
  <2> QED BY <2>1 DEF G

RanksRight(w) ==
    \A i \in DOMAIN w :
        w[i].rank = IF w[1].score = 0 THEN 0
                    ELSE 1 + Cardinality({j \in DOMAIN w : w[j].score > w[i].score})

LEMMA RankedRight ==
  ASSUME NEW rows, NEW n \in Nat, n = Len(Sort(rows)), Descending(Sort(rows), n),
         \A i \in 1 .. n : {"rank", "score"} \subseteq DOMAIN Sort(rows)[i]
  PROVE  DOMAIN Ranked(rows) = 1 .. n /\ RanksRight(Ranked(rows))
<1>1. PICK s : s = Sort(rows)
  OBVIOUS
<1>2. PICK f : /\ PlacedUpTo(s, n, f)
               /\ Ranked(rows) = [i \in 1 .. n |-> [s[i] EXCEPT !.rank = f[i].rank]]
  BY <1>1, RankedOf
<1>3. PICK w : w = [i \in 1 .. n |-> [s[i] EXCEPT !.rank = f[i].rank]]
  OBVIOUS
<1>4. Descending(s, n) /\ \A i \in 1 .. n : "rank" \in DOMAIN s[i] /\ "score" \in DOMAIN s[i]
  BY <1>1
<1>5. \A i \in 1 .. n : w[i].rank = f[i].rank /\ w[i].score = s[i].score
  BY <1>3, <1>4
<1>6. DOMAIN w = 1 .. n
  BY <1>3
<1>7. \A i \in 1 .. n : InPlace(s, i, f[i])
  BY <1>2, <1>4, AllInPlace
<1>8. ASSUME NEW i \in 1 .. n
      PROVE  w[i].rank = IF w[1].score = 0 THEN 0
                         ELSE 1 + Cardinality({j \in 1 .. n : w[j].score > w[i].score})
  <2>1. /\ 1 \in 1 .. n /\ w[1].score = s[1].score /\ w[i].score = s[i].score
        /\ s[i].score \in Nat
    BY <1>4, <1>5 DEF Descending
  <2>2. PICK r : r = f[i].rank
    OBVIOUS
  <2>3. InPlace(s, i, f[i])
    BY <1>7
  <2>4. CASE s[1].score = 0
    BY <1>5, <2>1, <2>3, <2>4 DEF InPlace
  <2>5. CASE s[1].score # 0
    <3>1. /\ r \in 1 .. i /\ \A j \in 1 .. r - 1 : s[j].score > s[i].score
          /\ \A j \in r .. i : s[j].score = s[i].score
      BY <2>2, <2>3, <2>5 DEF InPlace
    <3>2. ASSUME NEW j \in 1 .. n PROVE w[j].score > w[i].score <=> j <= r - 1
      <4>1. w[j].score = s[j].score /\ s[j].score \in Nat
        BY <1>4, <1>5 DEF Descending
      <4>2. CASE j <= r - 1
        BY <2>1, <3>1, <4>1, <4>2
      <4>3. CASE j >= r /\ j <= i
        <5>1. j \in r .. i /\ ~(j <= r - 1)
          BY <3>1, <4>3
        <5>2. s[j].score = s[i].score
          BY <3>1, <5>1
        <5> QED BY <2>1, <4>1, <5>1, <5>2
      <4>4. CASE j > i
        <5>1. s[i].score >= s[j].score /\ ~(j <= r - 1)
          BY <1>4, <3>1, <4>4 DEF Descending
        <5> QED BY <2>1, <4>1, <5>1
      <4> QED BY <3>1, <4>2, <4>3, <4>4
    <3>3. {j \in 1 .. n : w[j].score > w[i].score} = 1 .. r - 1
      BY <3>1, <3>2
    <3>4. Cardinality(1 .. r - 1) = r - 1
      <4>1. PICK m \in Int : m = r - 1
        BY <3>1
      <4>2. Cardinality(1 .. m) = IF 1 > m THEN 0 ELSE m - 1 + 1
        BY FS_Interval
      <4> QED BY <3>1, <4>1, <4>2
    <3>5. w[i].rank = r /\ w[1].score # 0
      BY <1>5, <2>1, <2>2, <2>5
    <3>6. PICK better : better = {j \in 1 .. n : w[j].score > w[i].score}
      OBVIOUS
    <3>7. r = 1 + Cardinality(better)
      <4>1. better = 1 .. r - 1
        BY <3>3, <3>6
      <4>2. Cardinality(better) = r - 1
        BY <3>4, <4>1
      <4> QED BY <3>1, <4>2
    <3> QED BY <3>5, <3>6, <3>7
  <2> QED BY <2>4, <2>5
<1>9. RanksRight(w)
  BY <1>6, <1>8 DEF RanksRight
<1> QED BY <1>2, <1>3, <1>6, <1>9

LEMMA Factor == ASSUME NEW a \in Nat, NEW d \in Nat PROVE (a + 1) * d = a * d + d
  OBVIOUS

\* The places of division n, where the arithmetic does not pass the limit.
LEMMA PlacesOf ==
  ASSUME OaStatsAssumption, NEW n \in Nat, n > 0, n * Division < SizeT
  PROVE  /\ n * Division \in Nat /\ (n - 1) * Division \in Nat
         /\ (n - 1) * Division + Division = n * Division
         /\ FirstPlace(n) = (n - 1) * Division + 1 /\ LastPlace(n) = n * Division
<1>1. PICK a \in Nat : n = a + 1
  <2>1. n - 1 \in Nat /\ n = n - 1 + 1
    OBVIOUS
  <2> QED BY <2>1
<1>2. PICK d \in Nat : d = Division /\ d > 1
  BY DEF OaStatsAssumption
<1>3. PICK z \in Nat : z = SizeT
  BY DEF OaStatsAssumption
<1>4. n * d = a * d + d /\ a * d \in Nat /\ n * d \in Nat /\ n * d < z
  BY <1>1, <1>2, <1>3
<1>5. PICK b \in Nat : b = a * d
  BY <1>4
<1>6. PICK x \in Nat : x = (n + z - 1) * d + 1
  BY <1>1
<1>7. x = b + 1 + d * z
  <2>1. n + z - 1 = a + z
    BY <1>1
  <2>2. (a + z) * d = a * d + d * z
    OBVIOUS
  <2> QED BY <1>5, <1>6, <2>1, <2>2
<1>8. PICK q \in Nat : q = b + 1
  OBVIOUS
<1>9. q < z /\ x = q + d * z
  BY <1>2, <1>4, <1>5, <1>7, <1>8
<1>10. x % z = q
  BY <1>9, DivUnique
<1>11. FirstPlace(n) = b + 1
  BY <1>2, <1>3, <1>6, <1>8, <1>10 DEF FirstPlace
<1>12. PICK y \in Nat : y = n * d
  BY <1>4
<1>13. y = b + d /\ y < z /\ b + 1 + d - 1 = y
  BY <1>4, <1>5, <1>12
<1>14. y % z = y
  <2>1. 0 \in Nat /\ y = y + 0 * z
    OBVIOUS
  <2> QED BY <1>13, <2>1, DivUnique
<1>15. LastPlace(n) = y
  BY <1>2, <1>3, <1>11, <1>13, <1>14 DEF LastPlace
<1>16. (n - 1) * Division = b /\ n * Division = y
  BY <1>1, <1>2, <1>5, <1>12
<1> QED BY <1>2, <1>11, <1>13, <1>15, <1>16

\* Division 0 would be counted from beyond the end.
LEMMA NoPlaces ==
  ASSUME OaStatsAssumption PROVE FirstPlace(0) > 1 /\ FirstPlace(0) \in Nat /\ LastPlace(0) = 0
<1>1. PICK d \in Nat : d = Division /\ d > 1
  BY DEF OaStatsAssumption
<1>2. PICK z \in Nat : z = SizeT /\ d < z
  BY <1>1 DEF OaStatsAssumption
<1>3. PICK x \in Nat : x = (0 + z - 1) * d + 1
  <2>1. 0 + z - 1 \in Nat
    BY <1>1, <1>2
  <2> QED BY <2>1
<1>4. PICK c \in Nat : d = c + 1
  <2>1. d - 1 \in Nat /\ d = d - 1 + 1
    BY <1>1
  <2> QED BY <2>1
<1>5. PICK q \in Nat : q = z - d + 1
  BY <1>2
<1>6. x = q + c * z
  <2>1. 0 + z - 1 = z - 1 /\ (z - 1) * d = z * d - d /\ z * d = c * z + z
    BY <1>4
  <2>2. c * z \in Nat
    OBVIOUS
  <2> QED BY <1>3, <1>5, <2>1, <2>2
<1>7. q < z
  BY <1>1, <1>2, <1>5
<1>8. x % z = q
  BY <1>6, <1>7, DivUnique
<1>9. FirstPlace(0) = q
  BY <1>1, <1>2, <1>3, <1>8 DEF FirstPlace
<1>10. z % z = 0
  <2>1. z = 0 + 1 * z /\ 0 < z /\ 1 \in Nat /\ 0 \in Nat
    BY <1>2
  <2>2. PICK one \in Nat : one = 1
    OBVIOUS
  <2>3. PICK zero \in Nat : zero = 0
    OBVIOUS
  <2>4. z = zero + one * z /\ zero < z
    BY <2>1, <2>2, <2>3
  <2>5. z % z = zero
    BY <2>4, DivUnique
  <2> QED BY <2>3, <2>5
<1>11. LastPlace(0) = 0
  BY <1>1, <1>2, <1>5, <1>9, <1>10 DEF LastPlace
<1> QED BY <1>2, <1>5, <1>9, <1>11

\* Whose place is in division n.
LEMMA DivisionOf ==
  ASSUME OaStatsAssumption, NEW n \in Nat, NEW k \in Nat, k > 0
  PROVE  (k + Division - 1) \div Division = n
         <=> n > 0 /\ (n - 1) * Division + 1 <= k /\ k <= n * Division
<1>1. PICK d \in Nat : d = Division /\ d > 1
  BY DEF OaStatsAssumption
<1>2. PICK x \in Nat : x = k + d - 1
  BY <1>1
<1>3. x = d * (x \div d) + (x % d) /\ x % d \in 0 .. d - 1 /\ x \div d \in Nat
  BY <1>1
<1>4. PICK m \in Nat : m = x \div d
  BY <1>3
<1>5. PICK r \in Nat : r = x % d
  BY <1>3
<1>6. k + d - 1 = d * m + r /\ r < d
  BY <1>2, <1>3, <1>4, <1>5
<1>7. m # 0
  <2> SUFFICES ASSUME m = 0 PROVE FALSE
    OBVIOUS
  <2>1. d * m = 0
    OBVIOUS
  <2> QED BY <1>6, <2>1
<1>8. CASE n = m
  <2>1. d * m = m * d /\ (n - 1) * d = m * d - d /\ m * d \in Nat
    BY <1>8
  <2>2. k = m * d - d + 1 + r
    BY <1>6, <2>1
  <2> QED BY <1>1, <1>2, <1>4, <1>6, <1>7, <1>8, <2>1, <2>2
<1>9. CASE n < m
  <2>1. PICK e \in Nat : m = n + 1 + e
    <3>1. m - n - 1 \in Nat /\ m = n + 1 + (m - n - 1)
      BY <1>9
    <3> QED BY <3>1
  <2>2. d * m = n * d + d + e * d /\ e * d \in Nat /\ n * d \in Nat
    BY <2>1
  <2>3. k > n * d
    BY <1>6, <2>2
  <2> QED BY <1>1, <1>2, <1>4, <1>9, <2>2, <2>3
<1>10. CASE m < n
  <2>1. PICK e \in Nat : n = m + 1 + e
    <3>1. n - m - 1 \in Nat /\ n = m + 1 + (n - m - 1)
      BY <1>10
    <3> QED BY <3>1
  <2>2. n - 1 = m + e /\ (m + e) * d = d * m + e * d /\ e * d \in Nat /\ d * m \in Nat
    BY <2>1
  <2>3. k < (n - 1) * d + 1
    BY <1>6, <2>2
  <2> QED BY <1>1, <1>2, <1>4, <1>10, <2>2, <2>3
<1> QED BY <1>8, <1>9, <1>10

\* SubSeq from the first to the last place, whichever they are.
LEMMA PartOf ==
  ASSUME NEW T, NEW w \in Seq(T), NEW a \in Nat, NEW b \in Nat, b <= Len(w)
  PROVE  /\ Len(SubSeq(w, a + 1, b)) = IF a < b THEN b - a ELSE 0
         /\ \A i \in 1 .. b - a : SubSeq(w, a + 1, b)[i] = w[a + i]
         /\ SubSeq(w, a + 1, b) \in Seq(T)
<1>1. PICK m \in Int : m = a + 1
  OBVIOUS
<1>2. Len(w) \in Nat /\ b \in Int
  BY LenProperties
<1>3. \A i \in m .. b : w[i] \in T
  <2> SUFFICES ASSUME NEW i \in m .. b PROVE w[i] \in T
    OBVIOUS
  <2>1. i \in 1 .. Len(w)
    BY <1>1, <1>2
  <2> QED BY <2>1, ElementOfSeq
<1>4. /\ SubSeq(w, m, b) \in Seq(T)
      /\ Len(SubSeq(w, m, b)) = IF m <= b THEN b - m + 1 ELSE 0
      /\ \A i \in 1 .. b - m + 1 : SubSeq(w, m, b)[i] = w[m + i - 1]
  BY <1>2, <1>3, SubSeqProperties
<1>5. m <= b <=> a < b
  BY <1>1
<1>6. b - m + 1 = b - a /\ \A i \in 1 .. b - a : m + i - 1 = a + i
  BY <1>1
<1> QED BY <1>1, <1>4, <1>5, <1>6

\* The end of a division of which not all places are taken.
Until(w, b) == IF b < Len(w) THEN b ELSE Len(w)

LEMMA UntilFacts ==
  ASSUME NEW T, NEW w \in Seq(T), NEW b \in Nat
  PROVE  /\ Until(w, b) \in Nat /\ Until(w, b) <= Len(w) /\ Until(w, b) <= b
         /\ \A k \in 1 .. Len(w) : k <= Until(w, b) <=> k <= b
BY LenProperties DEF Until

LEMMA ListedPlayers ==
  ASSUME OaStatsAssumption, NEW T, NEW w \in Seq(T), NEW n \in Nat, n * Division < SizeT
  PROVE  ToSet(Listed(w, n))
         = {w[i] : i \in {k \in DOMAIN w : (k + Division - 1) \div Division = n}}
<1>1. DOMAIN w = 1 .. Len(w) /\ Len(w) \in Nat
  BY LenProperties
<1>2. PICK a \in Nat, b \in Nat :
         /\ Listed(w, n) = SubSeq(w, a + 1, b) /\ b <= Len(w)
         /\ \A k \in 1 .. Len(w) : a + 1 <= k /\ k <= b <=> (k + Division - 1) \div Division = n
  <2>1. CASE n = 0
    <3>1. FirstPlace(0) > 1 /\ FirstPlace(0) \in Nat /\ LastPlace(0) = 0
      BY NoPlaces
    <3>2. PICK a \in Nat : FirstPlace(0) = a + 1
      <4>1. FirstPlace(0) - 1 \in Nat /\ FirstPlace(0) = FirstPlace(0) - 1 + 1
        BY <3>1
      <4> QED BY <4>1
    <3>3. Listed(w, n) = SubSeq(w, a + 1, 0)
      BY <1>1, <2>1, <3>1, <3>2 DEF Listed
    <3>4. \A k \in 1 .. Len(w) : ~(k <= 0) /\ (k + Division - 1) \div Division # n
      <4> SUFFICES ASSUME NEW k \in 1 .. Len(w) PROVE (k + Division - 1) \div Division # n
        BY <1>1
      <4>1. k \in Nat /\ k > 0
        BY <1>1
      <4> QED BY <2>1, <4>1, DivisionOf
    <3>5. Listed(w, n) = SubSeq(w, a + 1, 0) /\ 0 \in Nat /\ 0 <= Len(w)
      BY <1>1, <3>3
    <3>6. \A k \in 1 .. Len(w) : a + 1 <= k /\ k <= 0 <=> (k + Division - 1) \div Division = n
      BY <3>4
    <3> QED BY <3>5, <3>6
  <2>2. CASE n > 0
    <3>1. /\ n * Division \in Nat /\ (n - 1) * Division \in Nat
          /\ FirstPlace(n) = (n - 1) * Division + 1 /\ LastPlace(n) = n * Division
      BY <2>2, PlacesOf
    <3>2. PICK a \in Nat, c \in Nat : a = (n - 1) * Division /\ c = n * Division
      BY <3>1
    <3>3. PICK b \in Nat : b = Until(w, c)
      BY UntilFacts
    <3>4. b <= Len(w) /\ \A k \in 1 .. Len(w) : k <= b <=> k <= c
      BY <3>3, UntilFacts
    <3>5. Listed(w, n) = SubSeq(w, a + 1, b)
      BY <3>1, <3>2, <3>3 DEF Listed, Until
    <3>6. ASSUME NEW k \in 1 .. Len(w)
          PROVE  a + 1 <= k /\ k <= c <=> (k + Division - 1) \div Division = n
      <4>1. k \in Nat /\ k > 0
        BY <1>1
      <4>2. (k + Division - 1) \div Division = n
            <=> n > 0 /\ (n - 1) * Division + 1 <= k /\ k <= n * Division
        BY <4>1, DivisionOf
      <4> QED BY <2>2, <3>2, <4>2
    <3> QED BY <3>4, <3>5, <3>6
  <2>3. n = 0 \/ n > 0
    OBVIOUS
  <2> QED BY <2>1, <2>2, <2>3, Zenon
<1>3. PICK u : u = SubSeq(w, a + 1, b)
  OBVIOUS
<1>4. /\ u \in Seq(T) /\ Len(u) = IF a < b THEN b - a ELSE 0
      /\ \A i \in 1 .. b - a : u[i] = w[a + i]
  BY <1>2, <1>3, PartOf
<1>5. DOMAIN u = 1 .. b - a
  <2>1. DOMAIN u = 1 .. Len(u)
    BY <1>4, LenProperties
  <2>2. 1 .. Len(u) = 1 .. b - a
    BY <1>4
  <2> QED BY <2>1, <2>2
<1>6. PICK K : K = {k \in DOMAIN w : (k + Division - 1) \div Division = n}
  OBVIOUS
<1>7. \A k \in 1 .. Len(w) : k \in K <=> a + 1 <= k /\ k <= b
  BY <1>1, <1>2, <1>6
<1>8. ASSUME NEW i \in 1 .. b - a PROVE \E k \in K : u[i] = w[k]
  <2>1. a + i \in 1 .. Len(w) /\ a + 1 <= a + i /\ a + i <= b
    BY <1>1, <1>2
  <2> QED BY <1>4, <1>7, <2>1
<1>9. ASSUME NEW k \in K PROVE \E i \in 1 .. b - a : u[i] = w[k]
  <2>1. k \in 1 .. Len(w) /\ a + 1 <= k /\ k <= b
    BY <1>1, <1>6, <1>7
  <2>2. k - a \in 1 .. b - a /\ a + (k - a) = k
    BY <1>1, <2>1
  <2> QED BY <1>4, <2>2
<1>10. ToSet(u) = {w[i] : i \in K}
  <2>1. ToSet(u) = {u[i] : i \in 1 .. b - a}
    BY <1>5 DEF ToSet
  <2>2. {u[i] : i \in 1 .. b - a} = {w[i] : i \in K}
    BY <1>8, <1>9
  <2> QED BY <2>1, <2>2
<1> QED BY <1>2, <1>3, <1>6, <1>10

\* A division after those before it.
LEMMA ListedNext ==
  ASSUME OaStatsAssumption, NEW T, NEW w \in Seq(T), NEW n \in Nat, n > 0, n * Division < SizeT
  PROVE  FirstOf(w, (n - 1) * Division) \o Listed(w, n) = FirstOf(w, n * Division)
<1>1. /\ n * Division \in Nat /\ (n - 1) * Division \in Nat
      /\ (n - 1) * Division + Division = n * Division
      /\ FirstPlace(n) = (n - 1) * Division + 1 /\ LastPlace(n) = n * Division
  BY PlacesOf
<1>2. PICK a \in Nat, c \in Nat : a = (n - 1) * Division /\ c = n * Division
  BY <1>1
<1>3. PICK b \in Nat : b = Until(w, c)
  BY UntilFacts
<1>4. PICK e \in Nat : e = Until(w, a)
  BY UntilFacts
<1>5. PICK l \in Nat : l = Len(w)
  BY LenProperties
<1>6. a <= c
  BY <1>1, <1>2 DEF OaStatsAssumption
<1>7. Listed(w, n) = SubSeq(w, a + 1, b) /\ FirstOf(w, c) = SubSeq(w, 1, b)
      /\ FirstOf(w, a) = SubSeq(w, 1, e)
  BY <1>1, <1>2, <1>3, <1>4 DEF Listed, FirstOf, Until
<1>8. CASE a <= l
  <2>1. e = a /\ b \in a .. l /\ a \in 1 - 1 .. l /\ 1 \in 1 .. l + 1
    BY <1>3, <1>4, <1>5, <1>6, <1>8 DEF Until
  <2>2. SubSeq(w, 1, a) \o SubSeq(w, a + 1, b) = SubSeq(w, 1, b)
    BY <1>5, <2>1, ConcatAdjacentSubSeq
  <2> QED BY <1>2, <1>7, <2>1, <2>2
<1>9. CASE l < a
  <2>1. e = l /\ b = l
    BY <1>3, <1>4, <1>5, <1>6, <1>9 DEF Until
  <2>2. PICK m \in Int : m = a + 1 /\ b < m
    BY <1>9, <2>1
  <2>3. SubSeq(w, m, b) = <<>>
    BY <2>2, SubSeqEmpty
  <2>4. SubSeq(w, 1, l) = w
    BY <1>5, SubSeqFull
  <2>5. w \o <<>> = w
    BY ConcatEmptySeq
  <2> QED BY <1>2, <1>7, <2>1, <2>2, <2>3, <2>4, <2>5
<1> QED BY <1>8, <1>9

Rows(w) == {w[i] : i \in DOMAIN w}

\* What get_oatop makes, of any page and for any date.
LEMMA StandingsRight ==
  ASSUME OaStatsAssumption, table \in Tables, NEW date
  PROVE  Standings(date) \in Seq(Rows(Standings(date))) /\ RanksRight(Standings(date))
<1>1. PICK rows \in {table, Only(table, Regulars(table))} : Standings(date) = Ranked(rows)
  BY DEF Standings, Eligible
<1>2. PICK s : s = Sort(rows)
  OBVIOUS
<1>3. /\ s \in Seq(ToSet(table)) /\ Sorted(rows, s)
      /\ \A r \in ToSet(table) : r.score \in Nat /\ {"rank", "score"} \subseteq DOMAIN r
  BY <1>1, <1>2 DEF OaStatsAssumption
<1>4. PICK n \in Nat : n = Len(s)
  BY <1>3, LenProperties
<1>5. DOMAIN s = 1 .. n /\ \A i \in 1 .. n : s[i] \in ToSet(table)
  BY <1>3, <1>4, LenProperties, ElementOfSeq
<1>6. Descending(s, n)
  <2>1. \A i \in 1 .. n : s[i].score \in Nat
    BY <1>3, <1>5
  <2>2. \A i, j \in 1 .. n : i < j => s[i].score >= s[j].score
    BY <1>3, <1>5 DEF Sorted
  <2> QED BY <2>1, <2>2 DEF Descending
<1>7. \A i \in 1 .. n : {"rank", "score"} \subseteq DOMAIN s[i]
  BY <1>3, <1>5
<1>8. DOMAIN Ranked(rows) = 1 .. n /\ RanksRight(Ranked(rows))
  BY <1>2, <1>4, <1>6, <1>7, RankedRight
<1>9. Ranked(rows) \in Seq(Rows(Ranked(rows)))
  <2>1. \E w : Ranked(rows) = [i \in 1 .. n |-> w[i]]
    <3>1. n = Len(Sort(rows)) /\ Len(Sort(rows)) \in Nat
      BY <1>2, <1>4
    <3>2. PICK f : /\ PlacedUpTo(s, n, f)
                   /\ Ranked(rows) = [i \in 1 .. n |-> [s[i] EXCEPT !.rank = f[i].rank]]
      <4>1. \E f : /\ PlacedUpTo(Sort(rows), Len(Sort(rows)), f)
                   /\ Ranked(rows) = [i \in 1 .. Len(Sort(rows)) |->
                                          [Sort(rows)[i] EXCEPT !.rank = f[i].rank]]
        BY <3>1, RankedOf, Zenon
      <4> QED BY <1>2, <3>1, <4>1
    <3>3. PICK w : w = [i \in 1 .. n |-> [s[i] EXCEPT !.rank = f[i].rank]]
      OBVIOUS
    <3>4. w = [i \in 1 .. n |-> w[i]]
      BY <3>3
    <3> QED BY <3>2, <3>3, <3>4
  <2>2. PICK w : w = Ranked(rows)
    OBVIOUS
  <2>3. w \in [1 .. n -> Rows(w)]
    BY <1>8, <2>1, <2>2 DEF Rows
  <2>4. w \in Seq(Rows(w))
    BY <2>3, SeqDef
  <2> QED BY <2>2, <2>4
<1> QED BY <1>1, <1>8, <1>9

(* The rows are ranked; the last answer of !oatop lists the page it was    *)
(* asked for; and while the timer lists a table that does not change, all  *)
(* pages together are the first so many of its rows.                       *)
StatInv ==
    /\ table \in Tables /\ division \in 0 .. Divisions
    /\ v \in Seq(Rows(v)) /\ RanksRight(v)
    /\ asked[1] = "oatop" /\ division = 0 =>
          asked[2] \in PageNumbers /\ listing = Listed(v, asked[2])
    /\ division > 0 /\ steady =>
          v = Standings(YearAndMonth(<<>>)) /\ listing = FirstOf(v, division * Division)

LEMMA StatInitially == StatInit => StatInv
<1> SUFFICES ASSUME StatInit PROVE StatInv
  OBVIOUS
<1>1. v = <<>> /\ DOMAIN v = {} /\ table \in Tables /\ division = 0 /\ asked = <<"none", 0>>
  BY DEF StatInit
<1>2. v \in Seq(Rows(v))
  BY <1>1, EmptySeq
<1>3. RanksRight(v)
  BY <1>1 DEF RanksRight
<1>4. division \in 0 .. Divisions
  BY <1>1, OaStatsAssumption DEF OaStatsAssumption
<1> QED BY <1>1, <1>2, <1>3, <1>4 DEF StatInv

LEMMA SameStandings ==
  ASSUME table' = table
  PROVE  Standings(YearAndMonth(<<>>))' = Standings(YearAndMonth(<<>>))
BY DEF Standings, Eligible

LEMMA StatSame ==
  ASSUME StatInv, UNCHANGED <<table, v, listing, division, steady, asked>>
  PROVE  StatInv'
<1>1. /\ table' = table /\ v' = v /\ listing' = listing /\ division' = division
      /\ steady' = steady /\ asked' = asked
  OBVIOUS
<1>2. Standings(YearAndMonth(<<>>))' = Standings(YearAndMonth(<<>>))
  BY <1>1, SameStandings
<1>3. (v \in Seq(Rows(v)) /\ RanksRight(v))'
  BY <1>1 DEF StatInv, Rows, RanksRight
<1>4. division' > 0 /\ steady' =>
         v' = Standings(YearAndMonth(<<>>))' /\ listing' = FirstOf(v', division' * Division)
  BY <1>1, <1>2 DEF StatInv
<1>5. asked'[1] = "oatop" /\ division' = 0 =>
         asked'[2] \in PageNumbers /\ listing' = Listed(v', asked'[2])
  BY <1>1 DEF StatInv
<1>6. table' \in Tables /\ division' \in 0 .. Divisions
  BY <1>1 DEF StatInv
<1> QED BY <1>3, <1>4, <1>5, <1>6 DEF StatInv, Listed, FirstOf

LEMMA OaTopStep ==
  ASSUME StatInv, NEW params, NEW n \in PageNumbers, OaTop(params, n)
  PROVE  StatInv'
<1>1. PICK w : w = Standings(YearAndMonth(params))
  OBVIOUS
<1>2. w \in Seq(Rows(w)) /\ RanksRight(w)
  BY <1>1, OaStatsAssumption, StandingsRight DEF StatInv
<1>3. /\ v' = w /\ listing' = Listed(w, n) /\ asked' = <<"oatop", n>>
      /\ division = 0 /\ division' = 0 /\ table' = table
  BY <1>1 DEF OaTop, GetOatop
<1>4. asked'[2] = n
  BY <1>3
<1>5. v' \in Seq(Rows(v')) /\ RanksRight(v') /\ listing' = Listed(v', n)
  BY <1>2, <1>3
<1>6. (v \in Seq(Rows(v)) /\ RanksRight(v))'
  BY <1>5 DEF Rows, RanksRight
<1>7. division' \in 0 .. Divisions /\ ~(division' > 0) /\ table' \in Tables
  BY <1>3, OaStatsAssumption DEF OaStatsAssumption, StatInv
<1>8. asked'[2] \in PageNumbers /\ listing' = Listed(v', asked'[2])
  BY <1>4, <1>5
<1> QED BY <1>6, <1>7, <1>8 DEF StatInv, Listed

LEMMA RegularStatsStep == ASSUME StatInv, RegularStats PROVE StatInv'
<1>1. PICK w : w = Standings(YearAndMonth(<<>>))
  OBVIOUS
<1>2. w \in Seq(Rows(w)) /\ RanksRight(w)
  BY <1>1, OaStatsAssumption, StandingsRight DEF StatInv
<1>3. /\ v' = w /\ table' = table /\ division' = division + 1
      /\ division \in 0 .. Divisions /\ division < Divisions
      /\ listing' = (IF division = 0 THEN <<>> ELSE listing) \o Listed(w, division + 1)
      /\ steady' = (steady \/ division = 0)
  BY <1>1 DEF RegularStats, GetOatop, StatInv
<1>4. Standings(YearAndMonth(<<>>))' = w
  BY <1>1, <1>3, SameStandings
<1>5. PICK m \in Nat : m = division + 1
  BY <1>3, OaStatsAssumption DEF OaStatsAssumption
<1>6. m > 0 /\ m <= Divisions /\ m - 1 = division /\ m * Division < SizeT
  <2>1. m > 0 /\ m <= Divisions /\ m - 1 = division
    BY <1>3, <1>5, OaStatsAssumption DEF OaStatsAssumption
  <2>2. PICK d \in Nat : d = Division
    BY OaStatsAssumption DEF OaStatsAssumption
  <2>3. PICK k \in Nat : Divisions = m + k
    <3>1. Divisions - m \in Nat /\ Divisions = m + (Divisions - m)
      BY <2>1, OaStatsAssumption DEF OaStatsAssumption
    <3> QED BY <3>1
  <2>4. Divisions * d = m * d + k * d /\ k * d \in Nat /\ m * d \in Nat
    BY <2>3
  <2> QED BY <2>1, <2>2, <2>4, OaStatsAssumption DEF OaStatsAssumption
<1>7. FirstOf(w, division * Division) \o Listed(w, m) = FirstOf(w, m * Division)
  BY <1>2, <1>6, OaStatsAssumption, ListedNext
<1>8. steady' => listing' = FirstOf(w, m * Division)
  <2>1. CASE division = 0
    <3>1. division * Division = 0
      BY <2>1, OaStatsAssumption DEF OaStatsAssumption
    <3>2. FirstOf(w, 0) = <<>>
      <4>1. PICK one \in Int : one = 1
        OBVIOUS
      <4>2. PICK zero \in Int : zero = 0 /\ zero < one
        BY <4>1
      <4>3. SubSeq(w, one, zero) = <<>>
        BY <4>2, SubSeqEmpty
      <4>4. (IF 0 < Len(w) THEN 0 ELSE Len(w)) = 0
        BY <1>2, LenProperties
      <4> QED BY <4>1, <4>2, <4>3, <4>4 DEF FirstOf
    <3> QED BY <1>3, <1>5, <1>7, <2>1, <3>1, <3>2
  <2>2. CASE division # 0
    <3>1. steady' => v = w /\ listing = FirstOf(v, division * Division)
      <4>1. division > 0
        BY <1>3, <2>2
      <4>2. steady' => steady
        BY <1>3, <2>2, Zenon
      <4> QED BY <1>1, <4>1, <4>2 DEF StatInv
    <3> QED BY <1>3, <1>5, <1>7, <2>2, <3>1
  <2> QED BY <2>1, <2>2
<1>9. division' = m /\ m \in 0 .. Divisions /\ m # 0
  BY <1>3, <1>5, <1>6
<1>10. v' \in Seq(Rows(v')) /\ RanksRight(v')
  BY <1>2, <1>3
<1>11. steady' => listing' = FirstOf(v', division' * Division)
  BY <1>3, <1>8, <1>9
<1> QED BY <1>3, <1>4, <1>9, <1>10, <1>11 DEF StatInv, Rows, RanksRight, FirstOf

LEMMA StatStep == StatInv /\ [StatNext]_statVars => StatInv'
<1> SUFFICES ASSUME StatInv, [StatNext]_statVars PROVE StatInv'
  OBVIOUS
<1>1. CASE TableChanges
  <2>1. /\ table' \in Tables /\ v' = v /\ listing' = listing /\ division' = division
        /\ steady' = FALSE /\ asked' = asked
    BY <1>1 DEF TableChanges
  <2> QED BY <2>1 DEF StatInv, Rows, RanksRight, Listed
<1>2. CASE RegularStats
  BY <1>2, RegularStatsStep
<1>3. CASE ListingOver
  <2>1. division \in 0 .. Divisions /\ division' = 0 /\ 0 \in 0 .. Divisions
    BY <1>3, OaStatsAssumption DEF StatInv, ListingOver, OaStatsAssumption
  <2>2. table' = table /\ v' = v /\ asked' = <<"none", 0>> /\ ~(division' > 0)
    BY <1>3, <2>1 DEF ListingOver
  <2>3. asked'[1] # "oatop"
    BY <2>2
  <2> QED BY <2>1, <2>2, <2>3 DEF StatInv, Rows, RanksRight
<1>4. ASSUME NEW params \in Dates, NEW n \in PageNumbers, OaTop(params, n) PROVE StatInv'
  BY <1>4, OaTopStep
<1>5. ASSUME NEW finder \in BOOLEAN, NEW found, OaStat(finder, found) PROVE StatInv'
  <2>1. /\ division = 0 /\ division' = division /\ table' = table /\ v' = v
        /\ asked' = <<"oastat", MaxResults>>
    BY <1>5 DEF OaStat
  <2>2. asked'[1] # "oatop" /\ ~(division' > 0)
    BY <2>1
  <2> QED BY <2>1, <2>2 DEF StatInv, Rows, RanksRight
<1>6. ASSUME NEW finder \in BOOLEAN, NEW subs \in Lookups, OneOnOne(finder, subs) PROVE StatInv'
  <2>1. /\ division = 0 /\ division' = division /\ table' = table /\ v' = v
        /\ asked' = <<"oa1v1", 0>>
    BY <1>6 DEF OneOnOne
  <2>2. asked'[1] # "oatop" /\ ~(division' > 0)
    BY <2>1
  <2> QED BY <2>1, <2>2 DEF StatInv, Rows, RanksRight
<1>7. ASSUME NEW c \in ServedChannels, StatsOn(c) \/ StatsOff(c) PROVE StatInv'
  BY <1>7, StatSame DEF StatsOn, StatsOff
<1>8. CASE UNCHANGED statVars
  BY <1>8, StatSame DEF statVars
<1> QED BY <1>1, <1>2, <1>3, <1>4, <1>5, <1>6, <1>7, <1>8 DEF StatNext

(* Of any tables, in whatever order their rows stand and std::sort leaves  *)
(* equal ones: ranks count the better players, a page of !oatop lists the  *)
(* players of its places, and the divisions the timer lists one after the  *)
(* other show each of theirs once, unless the table changes meanwhile.     *)
THEOREM OaRankedCorrect == StatSpec => []OaRanked
<1>1. StatInv => OaRanked
  <2> SUFFICES ASSUME StatInv PROVE OaRanked
    OBVIOUS
  <2>1. \A i \in DOMAIN v :
           v[i].rank = IF v[1].score = 0 THEN 0
                       ELSE 1 + Cardinality({j \in DOMAIN v : v[j].score > v[i].score})
    BY DEF StatInv, RanksRight
  <2>2. ASSUME asked[1] = "oatop", division = 0, asked[2] * Division < SizeT, steady
        PROVE  ToSet(listing) = {v[i] : i \in {k \in DOMAIN v :
                                   (k + Division - 1) \div Division = asked[2]}}
    <3>1. PICK n \in Nat : n = asked[2]
      BY <2>2, OaStatsAssumption DEF StatInv, OaStatsAssumption
    <3>2. v \in Seq(Rows(v)) /\ listing = Listed(v, n) /\ n * Division < SizeT
      BY <2>2, <3>1 DEF StatInv
    <3> QED BY <3>1, <3>2, OaStatsAssumption, ListedPlayers
  <2>3. division > 0 /\ steady => listing = FirstOf(v, division * Division)
    BY DEF StatInv
  <2> QED BY <2>1, <2>2, <2>3 DEF OaRanked
<1> QED BY <1>1, StatInitially, StatStep, PTL DEF StatSpec
-----------------------------------------------------------------------------
(* The calendar and the colours.                                           *)
(* is_leap_year, given the years since 1900 that date_t has, is wrong in   *)
(* just those years whose number, so counted, leaves 0 or 100 of 400: 1900 *)
(* and 2300 have a 29 February that is none, 2000 and 2400 lack theirs.    *)
THEOREM LeapYears ==
  ASSUME NEW year \in Int
  PROVE  (IsLeapYear(year) # Leap(year + 1900)) <=> WrongFebruary(year)
BY DEF WrongFebruary, IsLeapYear, Leap

MonthsBefore(m) ==
    DaysBefore[m + 1] = DaysBefore[m] + DMap[m] /\ DaysBefore[m] \in Nat /\ DMap[m] \in 28 .. 31

LEMMA MonthBefore == ASSUME NEW m \in 1 .. 11 PROVE MonthsBefore(m)
<1>1. \/ m = 1 \/ m = 2 \/ m = 3 \/ m = 4 \/ m = 5 \/ m = 6 \/ m = 7 \/ m = 8 \/ m = 9
      \/ m = 10 \/ m = 11
  OBVIOUS
<1> QED BY <1>1 DEF MonthsBefore, DaysBefore, DMap

LEMMA DaysBeforeNat == ASSUME NEW m \in 0 .. 11 PROVE DaysBefore[m + 1] \in Nat
<1>1. \/ m = 0 \/ m = 1 \/ m = 2 \/ m = 3 \/ m = 4 \/ m = 5 \/ m = 6 \/ m = 7 \/ m = 8 \/ m = 9
      \/ m = 10 \/ m = 11
  OBVIOUS
<1> QED BY <1>1 DEF DaysBefore

(* DaysAgree of a day and the one counted back from it.                    *)
BackFrom(d, back) ==
    /\ NewYear(d) => /\ back.year = d.year - 1
                     /\ ~WrongFebruary(back.year) => back.yday = LastDay(back.year)
    /\ ~NewYear(d) => back.year = d.year /\ back.yday = DayOfYear(d) - 1
    /\ ~NewYear(d) /\ ~AfterWrongFebruary(d) =>
          DayOfYear(back) = DayOfYear(d) - 1 /\ back.mday \in 1 .. 31

LEMMA DayBefore ==
  ASSUME NEW d \in Calendar, d.yday = DayOfYear(d), NEW before \in Int
  PROVE  BackFrom(d, DecDay(d, before))
<1>1. /\ d.year \in Nat /\ d.mon \in 0 .. 11 /\ d.mday \in 1 .. 31 /\ d.yday \in Nat
      /\ d = [year |-> d.year, mon |-> d.mon, mday |-> d.mday, yday |-> d.yday]
  BY DEF Calendar
<1>2. DaysBefore[d.mon + 1] \in Nat
  BY <1>1, DaysBeforeNat
<1>3. CASE d.mday # 1
  <2>1. d.yday # 0
    BY <1>1, <1>2, <1>3 DEF DayOfYear
  <2>2. DecDay(d, before) = [year |-> d.year, mon |-> d.mon, mday |-> d.mday - 1, yday |-> d.yday - 1]
    <3>1. DecDay(d, before) = [d EXCEPT !.mday = d.mday - 1, !.yday = d.yday - 1]
      BY <1>3, <2>1 DEF DecDay
    <3> QED BY <1>1, <3>1
  <2>3. DayOfYear(DecDay(d, before)) = DayOfYear(d) - 1
    BY <1>1, <1>2, <2>2 DEF DayOfYear
  <2>4. ~NewYear(d)
    BY <1>3 DEF NewYear
  <2>5. /\ DecDay(d, before).year = d.year /\ DecDay(d, before).mday = d.mday - 1
        /\ DecDay(d, before).yday = DayOfYear(d) - 1 /\ d.mday - 1 \in 1 .. 31
    BY <1>1, <1>3, <2>2
  <2> QED BY <2>3, <2>4, <2>5 DEF BackFrom
<1>4. CASE d.mday = 1 /\ d.mon = 0
  <2>1. NewYear(d) /\ d.yday = 0
    BY <1>1, <1>4 DEF NewYear, DayOfYear, DaysBefore
  <2>2. DecMonth(d) = [year |-> d.year - 1, mon |-> -1, mday |-> 1, yday |-> 0]
    <3>1. DecMonth(d) = [d EXCEPT !.year = d.year - 1, !.mon = d.mon - 1]
      BY <1>4 DEF DecMonth
    <3>2. d.mon - 1 = -1
      BY <1>4
    <3> QED BY <1>1, <1>4, <2>1, <3>1, <3>2
  <2> DEFINE e == DecMonth(d)
             day == IF d.mday # 1 THEN d.mday
                    ELSE 1 + (IF e.mon = -1 THEN before ELSE DaysInMonth(e.year, e.mon))
             last == 365 + (IF IsLeapYear(e.year) THEN 1 ELSE 0)
  <2>3. DecDay(d, before) = [e EXCEPT !.mday = day - 1, !.yday = last - 1]
    BY <1>4, <2>1, Zenon DEF DecDay
  <2>4. e.year = d.year - 1
    BY <2>2
  <2>5. DecDay(d, before).year = d.year - 1 /\ DecDay(d, before).yday = last - 1
    <3> HIDE DEF day, last
    <3> QED BY <2>2, <2>3
  <2>6. ~WrongFebruary(d.year - 1) => IsLeapYear(d.year - 1) = Leap(d.year - 1 + 1900)
    <3>1. PICK year \in Int : year = d.year - 1
      BY <1>1
    <3>2. (IsLeapYear(year) # Leap(year + 1900)) <=> WrongFebruary(year)
      BY LeapYears
    <3>3. IsLeapYear(year) \in BOOLEAN /\ Leap(year + 1900) \in BOOLEAN
      BY DEF IsLeapYear, Leap
    <3> QED BY <3>1, <3>2, <3>3
  <2>7. ~WrongFebruary(d.year - 1) => last - 1 = LastDay(d.year - 1)
    BY <2>4, <2>6 DEF LastDay
  <2> QED BY <2>1, <2>5, <2>7 DEF BackFrom
<1>5. CASE d.mday = 1 /\ d.mon # 0
  <2> DEFINE m == d.mon
  <2>1. m \in 1 .. 11 /\ m - 1 \in 0 .. 11 /\ m - 1 # -1
    BY <1>1, <1>5
  <2>2. MonthsBefore(m)
    BY <2>1, MonthBefore
  <2>3. d.yday # 0
    <3>1. m = 1 => DaysBefore[m + 1] > 0
      BY <2>2 DEF MonthsBefore
    <3>2. m > 1 => DaysBefore[m + 1] > 0
      BY <2>2 DEF MonthsBefore
    <3> QED BY <1>1, <1>2, <1>5, <2>1, <3>1, <3>2 DEF DayOfYear
  <2>4. m # 0 /\ DecMonth(d) = [year |-> d.year, mon |-> m - 1, mday |-> 1, yday |-> d.yday]
    <3>1. m # 0 /\ DecMonth(d) = [d EXCEPT !.year = d.year, !.mon = m - 1]
      <4>1. m # 0 /\ (IF d.mon = 0 THEN d.year - 1 ELSE d.year) = d.year
        BY <2>1
      <4> QED BY <4>1, Zenon DEF DecMonth
    <3> QED BY <1>1, <1>5, <3>1
  <2>5. PICK more \in {0, 1} : more = IF m - 1 = 1 /\ IsLeapYear(d.year) THEN 1 ELSE 0
    OBVIOUS
  <2>6. DaysInMonth(d.year, m - 1) = DMap[m] + more
    <3>1. m - 1 + 1 = m
      BY <2>1
    <3> QED BY <2>5, <3>1 DEF DaysInMonth
  <2>7. DMap[m] + more \in Nat /\ 1 + (DMap[m] + more) - 1 = DMap[m] + more
    BY <2>2, <2>5 DEF MonthsBefore
  <2>8. DecDay(d, before) = [year |-> d.year, mon |-> m - 1, mday |-> DMap[m] + more,
                     yday |-> d.yday - 1]
    <3> DEFINE e == IF d.mday = 1 THEN DecMonth(d) ELSE d
               day == IF d.mday # 1 THEN d.mday
                      ELSE 1 + (IF e.mon = -1 THEN before ELSE DaysInMonth(e.year, e.mon))
               yday == IF d.yday = 0 THEN 365 + (IF IsLeapYear(e.year) THEN 1 ELSE 0) ELSE d.yday
    <3>1. DecDay(d, before) = [e EXCEPT !.mday = day - 1, !.yday = yday - 1]
      BY DEF DecDay
    <3>2. e = [year |-> d.year, mon |-> m - 1, mday |-> 1, yday |-> d.yday]
      BY <1>5, <2>4
    <3>3. day = 1 + (DMap[m] + more)
      BY <1>5, <2>1, <2>6, <3>2
    <3>4. day - 1 = DMap[m] + more /\ yday - 1 = d.yday - 1
      BY <2>3, <2>7, <3>3
    <3> HIDE DEF e, day, yday
    <3>5. DecDay(d, before) = [year |-> d.year, mon |-> m - 1, mday |-> day - 1, yday |-> yday - 1]
      BY <3>1, <3>2
    <3> QED BY <3>4, <3>5
  <2>9. DMap[m] + more \in 1 .. 31
    <3>1. m = 2 => DMap[m] = 28
      BY DEF DMap
    <3> QED BY <2>1, <2>2, <2>5, <3>1 DEF MonthsBefore
  <2>10. DayOfYear(DecDay(d, before)) = DaysBefore[m] + (DMap[m] + more) - 1
                               + (IF m - 1 > 1 /\ Leap(d.year + 1900) THEN 1 ELSE 0)
    <3>1. m - 1 + 1 = m
      BY <2>1
    <3> QED BY <2>8, <3>1 DEF DayOfYear
  <2>11. DayOfYear(d) = DaysBefore[m] + DMap[m] + (IF m > 1 /\ Leap(d.year + 1900) THEN 1 ELSE 0)
    <3>1. DaysBefore[m] + DMap[m] + 1 - 1 = DaysBefore[m] + DMap[m]
      BY <2>2 DEF MonthsBefore
    <3> QED BY <1>5, <2>2, <3>1 DEF DayOfYear, MonthsBefore
  <2>12. ~AfterWrongFebruary(d) => more + (IF m - 1 > 1 /\ Leap(d.year + 1900) THEN 1 ELSE 0)
         = IF m > 1 /\ Leap(d.year + 1900) THEN 1 ELSE 0
    <3> SUFFICES ASSUME ~AfterWrongFebruary(d)
                 PROVE  more + (IF m - 1 > 1 /\ Leap(d.year + 1900) THEN 1 ELSE 0)
                        = IF m > 1 /\ Leap(d.year + 1900) THEN 1 ELSE 0
      OBVIOUS
    <3>1. m = 2 => ~WrongFebruary(d.year)
      BY <1>5 DEF AfterWrongFebruary
    <3>2. (IsLeapYear(d.year) # Leap(d.year + 1900)) <=> WrongFebruary(d.year)
      BY <1>1, LeapYears
    <3>3. IsLeapYear(d.year) \in BOOLEAN /\ Leap(d.year + 1900) \in BOOLEAN
      BY DEF IsLeapYear, Leap
    <3>4. m = 2 => IsLeapYear(d.year) = Leap(d.year + 1900)
      BY <3>1, <3>2, <3>3
    <3> QED BY <2>1, <2>5, <3>4
  <2>13. ~AfterWrongFebruary(d) => DayOfYear(DecDay(d, before)) = DayOfYear(d) - 1
    BY <2>2, <2>5, <2>10, <2>11, <2>12 DEF MonthsBefore
  <2>14. ~NewYear(d)
    BY <1>5 DEF NewYear
  <2>15. /\ DecDay(d, before).year = d.year /\ DecDay(d, before).mday \in 1 .. 31
         /\ DecDay(d, before).yday = DayOfYear(d) - 1
    BY <2>8, <2>9
  <2> QED BY <2>13, <2>14, <2>15 DEF BackFrom
<1> QED BY <1>3, <1>5, <1>4
-----------------------------------------------------------------------------
LEMMA Squares ==
  ASSUME NEW a \in Nat, NEW b \in Nat
  PROVE  /\ Difference(a, b) * Difference(a, b) \in Nat
         /\ Difference(a, b) * Difference(a, b) = 0 <=> a = b
<1>1. PICK n \in Nat : n = Difference(a, b)
  <2>1. Difference(a, b) \in Nat
    BY DEF Difference
  <2> QED BY <2>1
<1>2. n = 0 <=> a = b
  BY <1>1 DEF Difference
<1>3. n * n \in Nat /\ (n * n = 0 <=> n = 0)
  OBVIOUS
<1> QED BY <1>1, <1>2, <1>3

LEMMA Distances ==
  ASSUME NEW c \in Nat \X Nat \X Nat, NEW d \in Nat \X Nat \X Nat
  PROVE  Distance(c, d) \in Nat /\ (Distance(c, d) = 0 <=> c = d)
<1>1. /\ c[1] \in Nat /\ c[2] \in Nat /\ c[3] \in Nat /\ c = <<c[1], c[2], c[3]>>
      /\ d[1] \in Nat /\ d[2] \in Nat /\ d[3] \in Nat /\ d = <<d[1], d[2], d[3]>>
  OBVIOUS
<1> DEFINE S(i) == Difference(c[i], d[i]) * Difference(c[i], d[i])
<1>2. \A i \in 1 .. 3 : S(i) \in Nat /\ (S(i) = 0 <=> c[i] = d[i])
  <2>1. \A a, b \in Nat : /\ Difference(a, b) * Difference(a, b) \in Nat
                          /\ Difference(a, b) * Difference(a, b) = 0 <=> a = b
    BY Squares
  <2>2. \A i \in 1 .. 3 : c[i] \in Nat /\ d[i] \in Nat
    BY <1>1
  <2> QED BY <2>1, <2>2
<1>3. Distance(c, d) = S(1) + S(2) + S(3)
  BY DEF Distance
<1> HIDE DEF S
<1>4. /\ S(1) \in Nat /\ (S(1) = 0 <=> c[1] = d[1]) /\ S(2) \in Nat /\ (S(2) = 0 <=> c[2] = d[2])
      /\ S(3) \in Nat /\ (S(3) = 0 <=> c[3] = d[3])
  BY <1>2
<1>5. Distance(c, d) \in Nat /\ (Distance(c, d) = 0 <=> c[1] = d[1] /\ c[2] = d[2] /\ c[3] = d[3])
  BY <1>3, <1>4
<1> QED BY <1>1, <1>5

\* No other colour of the palette is at distance 0.
LEMMA OwnColor ==
  ASSUME NEW i \in DOMAIN Palette
  PROVE  ClosestColor(Palette[i]) = i
<1>1. /\ \A j \in DOMAIN Palette : Palette[j] \in Nat \X Nat \X Nat
      /\ \A j \in DOMAIN Palette : Palette[i] = Palette[j] => i = j
      /\ DOMAIN Palette \subseteq Nat /\ \A j \in 1 .. i - 1 : j \in DOMAIN Palette
  <2>1. Palette \in Seq(Nat \X Nat \X Nat)
    BY HelpersAssumption DEF HelpersAssumption
  <2>2. DOMAIN Palette = 1 .. Len(Palette) /\ Len(Palette) \in Nat
    BY <2>1, LenProperties
  <2>3. \A j \in 1 .. Len(Palette) : Palette[j] \in Nat \X Nat \X Nat
    BY <2>1, ElementOfSeq
  <2>4. \A j \in DOMAIN Palette : Palette[i] = Palette[j] => i = j
    BY HelpersAssumption, Zenon DEF HelpersAssumption
  <2>5. DOMAIN Palette \subseteq Nat /\ \A j \in 1 .. i - 1 : j \in DOMAIN Palette
    BY <2>2
  <2> QED BY <2>2, <2>3, <2>4, <2>5
<1> DEFINE c == Palette[i]
           Near(k) == /\ \A j \in DOMAIN Palette :
                            Distance(Palette[k], c) <= Distance(Palette[j], c)
                      /\ \A j \in 1 .. k - 1 : Distance(Palette[k], c) # Distance(Palette[j], c)
<1>2. \A j \in DOMAIN Palette :
         Distance(Palette[j], c) \in Nat /\ (Distance(Palette[j], c) = 0 <=> j = i)
  <2> SUFFICES ASSUME NEW j \in DOMAIN Palette
               PROVE  Distance(Palette[j], c) \in Nat /\ (Distance(Palette[j], c) = 0 <=> j = i)
    OBVIOUS
  <2>1. Distance(Palette[j], c) \in Nat /\ (Distance(Palette[j], c) = 0 <=> Palette[j] = c)
    BY <1>1, Distances
  <2> QED BY <1>1, <2>1
<1>3. Near(i)
  <2>1. \A j \in 1 .. i - 1 : j # i /\ j \in DOMAIN Palette
    BY <1>1
  <2>2. \A j \in DOMAIN Palette : Distance(Palette[i], c) <= Distance(Palette[j], c)
    BY <1>2
  <2>3. \A j \in 1 .. i - 1 : Distance(Palette[i], c) # Distance(Palette[j], c)
    BY <1>2, <2>1
  <2> QED BY <2>2, <2>3
<1>4. ASSUME NEW k \in DOMAIN Palette, Near(k) PROVE k = i
  <2>1. Distance(Palette[k], c) <= Distance(Palette[i], c)
    BY <1>4
  <2> QED BY <1>2, <2>1
<1>5. ClosestColor(c) = CHOOSE k \in DOMAIN Palette : Near(k)
  BY DEF ClosestColor
<1> HIDE DEF Near
<1>6. (CHOOSE k \in DOMAIN Palette : Near(k)) = i
  BY <1>3, <1>4
<1> QED BY <1>5, <1>6
-----------------------------------------------------------------------------
(* !help and lists of ranges.                                             *)
LEMMA PluginPlaces ==
  /\ Len(LoadedPlugins) \in Nat /\ DOMAIN LoadedPlugins = 1 .. Len(LoadedPlugins)
  /\ DOMAIN TriggerWords \subseteq Nat
  /\ \A i \in DOMAIN TriggerWords : TriggerWords[i].words[1] \in ToSet(TriggerWords[i].words)
<1>1. LoadedPlugins \in Seq(ToSet(LoadedPlugins))
  BY HelpersAssumption DEF HelpersAssumption
<1>2. TriggerWords \in Seq([words : Seq(STRING) \ {<<>>}, help : BOOLEAN])
  BY HelpersAssumption DEF HelpersAssumption
<1>3. DOMAIN TriggerWords = 1 .. Len(TriggerWords) /\ Len(TriggerWords) \in Nat
  BY <1>2, LenProperties
<1>4. ASSUME NEW i \in DOMAIN TriggerWords
      PROVE  TriggerWords[i].words[1] \in ToSet(TriggerWords[i].words)
  <2>1. TriggerWords[i] \in [words : Seq(STRING) \ {<<>>}, help : BOOLEAN]
    BY <1>2, <1>3, ElementOfSeq
  <2>2. PICK w \in Seq(STRING) : w = TriggerWords[i].words /\ w # <<>>
    BY <2>1
  <2>3. Len(w) \in Nat \ {0} /\ DOMAIN w = 1 .. Len(w)
    BY <2>2, EmptySeq, LenProperties
  <2>4. 1 \in DOMAIN w
    BY <2>3
  <2> QED BY <2>2, <2>4 DEF ToSet
<1>5. Len(LoadedPlugins) \in Nat /\ DOMAIN LoadedPlugins = 1 .. Len(LoadedPlugins)
  BY <1>1, LenProperties
<1> QED BY <1>3, <1>4, <1>5

\* The plugin asked is the last one that has the command.
LEMMA LastOwner ==
  ASSUME NEW command, Owners(command) # {}
  PROVE  /\ Owner(command) \in DOMAIN LoadedPlugins
         /\ command \in PluginList(LoadedPlugins[Owner(command)])
<1> DEFINE n == Len(LoadedPlugins)
           Behind == {n - i : i \in Owners(command)}
<1>1. n \in Nat /\ Owners(command) \subseteq 1 .. n
  BY PluginPlaces DEF Owners
<1> HIDE DEF n
<1>2. Behind \subseteq Nat /\ Behind # {}
  BY <1>1
<1>3. PICK x \in Behind : \A y \in Behind : x <= y
  BY <1>2, LeastOf
<1>4. PICK i \in Owners(command) : x = n - i
  BY <1>3
<1>5. ASSUME NEW j \in Owners(command) PROVE j <= i
  <2>1. n - j \in Behind
    OBVIOUS
  <2>2. x <= n - j
    BY <1>3, <2>1
  <2>3. i \in 1 .. n /\ j \in 1 .. n
    BY <1>1
  <2> HIDE DEF Behind
  <2> QED BY <1>1, <1>4, <2>2, <2>3
<1>6. Owner(command) \in Owners(command)
  BY <1>5 DEF Owner
<1> QED BY <1>6 DEF Owners

LEMMA TextsDiffer ==
  /\ \A c, d : Text(c) = Text(d) => c = d
  /\ \A c : Text(c) # NoHelp /\ Text(c) # None /\ Text(c) # <<"=">>
BY DEF Text, NoHelp, None

\* What a plugin tells of one of its listed commands is the text of a listed
\* one: its own, or that of the one it stands for.
Tells(actions, command, told) ==
    \/ told = Text(command)
    \/ told = Text(actions[command].alias) /\ actions[command].alias \in PluginList(actions)
    \/ told = <<"=">>
    \/ told \in {NoHelp, None} /\ actions[command].alias \notin PluginList(actions)

LEMMA PluginTells ==
  ASSUME NEW actions, NEW command \in PluginList(actions)
  PROVE  Tells(actions, command, PluginHelp(actions, command))
<1> DEFINE other == actions[command].alias
<1>1. command \in DOMAIN actions /\ "INVISIBLE" \notin actions[command].flags
  BY DEF PluginList
<1>2. CASE other = ""
  BY <1>1, <1>2 DEF PluginHelp, Tells
<1>3. CASE other # "" /\ other \notin PluginList(actions)
  BY <1>1, <1>3 DEF PluginHelp, Tells, PluginList
<1>4. CASE other # "" /\ other \in PluginList(actions)
  BY <1>1, <1>4 DEF PluginHelp, Tells, PluginList
<1> QED BY <1>2, <1>3, <1>4

\* !help for any command.
LEMMA RightHelp == ASSUME NEW command PROVE HelpTold(command)
<1> DEFINE told == BotHelp(command)
           actions == LoadedPlugins[Owner(command)]
           commands == UNION {DOMAIN p : p \in ToSet(LoadedPlugins)}
<1>1. CASE Owners(command) # {}
  <2>1. Owner(command) \in DOMAIN LoadedPlugins /\ command \in PluginList(actions)
    BY <1>1, LastOwner
  <2>2. told = PluginHelp(actions, command)
    BY <1>1 DEF BotHelp
  <2> HIDE DEF told
  <2>3. Tells(actions, command, told)
    BY <2>1, <2>2, PluginTells
  <2>4. PluginList(actions) \subseteq HelpList
    <3> SUFFICES ASSUME NEW c \in PluginList(actions) PROVE c \in HelpList
      OBVIOUS
    <3> DEFINE lists == {PluginList(LoadedPlugins[i]) : i \in DOMAIN LoadedPlugins}
    <3>1. c \in UNION lists
      BY <2>1
    <3> DEFINE words == UNION {ToSet(TriggerWords[i].words) : i \in DOMAIN TriggerWords}
               all == UNION lists
    <3>2. HelpList = words \cup all
      BY DEF HelpList
    <3>3. c \in all
      BY <3>1
    <3> HIDE DEF words, all
    <3> QED BY <3>2, <3>3
  <2>5. \A c \in commands : told = Text(c) => c \in HelpList
    <3> SUFFICES ASSUME NEW c, told = Text(c) PROVE c \in HelpList
      OBVIOUS
    <3>1. c = command \/ (c = actions[command].alias /\ c \in PluginList(actions))
      BY <2>3, TextsDiffer DEF Tells
    <3> QED BY <2>1, <2>4, <3>1
  <2>6. told # Text(command) =>
           told \in {Text(actions[command].alias), <<"=">>} \/ actions[command].alias \notin PluginList(actions)
    BY <2>3 DEF Tells
  <2> QED BY <2>1, <2>4, <2>5, <2>6 DEF HelpTold, told
<1>2. CASE Owners(command) = {}
  <2> DEFINE keys == {i \in DOMAIN TriggerWords : TriggerWords[i].words[1] = command}
             key == CHOOSE i \in keys : \A j \in keys : i <= j
  <2>1. told = IF keys # {} /\ TriggerWords[key].help THEN Text(command) ELSE NoHelp
    BY <1>2 DEF BotHelp
  <2>2. keys # {} => command \in HelpList
    <3> SUFFICES ASSUME NEW i \in keys PROVE command \in HelpList
      OBVIOUS
    <3>1. i \in DOMAIN TriggerWords /\ command \in ToSet(TriggerWords[i].words)
      BY PluginPlaces
    <3> QED BY <3>1 DEF HelpList
  <2> HIDE DEF keys, key, told
  <2>3. told = NoHelp \/ (told = Text(command) /\ command \in HelpList)
    BY <2>1, <2>2
  <2>4. \A c \in commands : told = Text(c) => c \in HelpList
    BY <2>3, TextsDiffer
  <2> QED BY <1>2, <2>3, <2>4 DEF HelpTold, told
<1> QED BY <1>1, <1>2
-----------------------------------------------------------------------------
LEMMA RangeIs ==
  ASSUME NEW r \in Bounds \X Bounds
  PROVE  /\ RangeOf(r) \in Seq(Int)
         /\ \A n \in Nat : (\E i \in 1 .. Len(RangeOf(r)) : RangeOf(r)[i] = n) <=> InRange(r, n)
<1> DEFINE upper == IF r[2] = -1 THEN r[1] ELSE r[2]
           number == upper - r[1] + 1
           s == [i \in 1 .. number |-> r[1] + i - 1]
<1>1. r[1] \in Nat \cup {-1} /\ r[2] \in Nat \cup {-1} /\ upper \in Nat \cup {-1}
  BY DEF Bounds
<1>2. RangeOf(r) = IF r[1] = -1 \/ upper < r[1] THEN <<>> ELSE s
  BY DEF RangeOf
<1>3. CASE r[1] = -1 \/ upper < r[1]
  <2>1. RangeOf(r) = <<>> /\ Len(RangeOf(r)) = 0
    BY <1>2, <1>3
  <2>2. \A n \in Nat : ~InRange(r, n)
    BY <1>1, <1>3 DEF InRange
  <2> QED BY <2>1, <2>2
<1>4. CASE ~(r[1] = -1 \/ upper < r[1])
  <2>1. number \in Nat /\ r[1] \in Nat /\ upper \in Nat /\ RangeOf(r) = s
    BY <1>1, <1>2, <1>4
  <2> HIDE DEF number
  <2>2. s \in Seq(Int) /\ Len(s) = number
    BY <2>1
  <2>3. ASSUME NEW n \in Nat PROVE (\E i \in 1 .. number : s[i] = n) <=> InRange(r, n)
    <3>1. ASSUME NEW i \in 1 .. number, s[i] = n PROVE InRange(r, n)
      <4>1. n = r[1] + i - 1 /\ n >= r[1] /\ n <= upper
        BY <2>1, <3>1 DEF number
      <4> QED BY <1>1, <1>4, <4>1 DEF InRange
    <3>2. ASSUME InRange(r, n) PROVE \E i \in 1 .. number : s[i] = n
      <4>1. n >= r[1] /\ n <= upper
        BY <1>1, <3>2 DEF InRange
      <4>2. n - r[1] + 1 \in 1 .. number /\ r[1] + (n - r[1] + 1) - 1 = n
        BY <2>1, <4>1 DEF number
      <4>3. s[n - r[1] + 1] = n
        BY <2>1, <4>2
      <4> QED BY <4>2, <4>3
    <3> QED BY <3>1, <3>2
  <2> QED BY <2>1, <2>2, <2>3
<1> QED BY <1>3, <1>4

\* A list of ranges has the numbers in its ranges.
LEMMA RangesRight ==
  ASSUME NEW list \in Seq(Bounds \X Bounds), NEW n \in Nat
  PROVE  n \in ToSet(ParseRangeList(list)) <=> \E i \in DOMAIN list : InRange(list[i], n)
<1> DEFINE s == [i \in DOMAIN list |-> RangeOf(list[i])]
<1>1. /\ DOMAIN list = 1 .. Len(list) /\ Len(list) \in Nat
      /\ \A i \in 1 .. Len(list) : list[i] \in Bounds \X Bounds
  BY LenProperties, ElementOfSeq
<1>2. s \in Seq(Seq(Int)) /\ Len(s) = Len(list)
  <2>1. \A i \in 1 .. Len(list) : RangeOf(list[i]) \in Seq(Int)
    BY <1>1, RangeIs
  <2> QED BY <1>1, <2>1
<1>3. \A i \in 1 .. Len(list) : n \in ToSet(s[i]) <=> InRange(list[i], n)
  <2> SUFFICES ASSUME NEW i \in 1 .. Len(list) PROVE n \in ToSet(s[i]) <=> InRange(list[i], n)
    OBVIOUS
  <2>1. /\ RangeOf(list[i]) \in Seq(Int)
        /\ (\E j \in 1 .. Len(RangeOf(list[i])) : RangeOf(list[i])[j] = n) <=> InRange(list[i], n)
    BY <1>1, RangeIs
  <2>2. n \in ToSet(RangeOf(list[i]))
        <=> \E j \in 1 .. Len(RangeOf(list[i])) : RangeOf(list[i])[j] = n
    BY <2>1, ToSetFacts
  <2> QED BY <1>1, <2>1, <2>2
<1>4. n \in ToSet(FlattenSeq(s)) <=> \E i \in 1 .. Len(s) : n \in ToSet(s[i])
  <2>1. n \in Int
    OBVIOUS
  <2> HIDE DEF s
  <2> QED BY <1>2, <2>1, FlattenHas
<1>5. ParseRangeList(list) = FlattenSeq(s)
  BY DEF ParseRangeList
<1> QED BY <1>1, <1>2, <1>3, <1>4, <1>5
-----------------------------------------------------------------------------
\* The loop of Ripped and what it keeps.
Rips(doc, n, f) ==
    f = [i \in 0 .. n |-> IF i = 0 THEN [out |-> <<>>, star |-> FALSE]
                          ELSE RipLine(f[i - 1], doc[i])]
RipState == [out : Seq(Lines), star : BOOLEAN]

LEMMA RipLineType ==
  ASSUME NEW s \in RipState, NEW l \in Lines
  PROVE  /\ RipLine(s, l) \in RipState
         /\ l.kind # "check" => /\ ~RipLine(s, l).star
                                /\ \E m \in Lines : /\ RipLine(s, l).out = Append(s.out, m)
                                                    /\ m.text = l.text /\ m.kind = l.kind
                                                    /\ l.kind = "choice" => m.right = s.star
         /\ l.kind = "check" => /\ RipLine(s, l).out = s.out
                                /\ RipLine(s, l).star <=> s.star \/ (l.had /\ l.right)
<1>1. PICK o, b : s = [out |-> o, star |-> b] /\ o \in Seq(Lines) /\ b \in BOOLEAN
  BY DEF RipState
<1>2. l = [kind |-> l.kind, text |-> l.text, had |-> l.had, right |-> l.right]
      /\ l.kind \in {"question", "choice", "check"} /\ l.had \in BOOLEAN /\ l.right \in BOOLEAN
      /\ l.text \in STRING
  BY DEF Lines
<1>3. CASE l.kind = "question"
  <2>1. RipLine(s, l) = [out |-> Append(o, l), star |-> FALSE] /\ Append(o, l) \in Seq(Lines)
    BY <1>1, <1>3, AppendProperties DEF RipLine
  <2>2. s.out = o /\ RipLine(s, l).out = Append(o, l) /\ RipLine(s, l).star = FALSE
        /\ RipLine(s, l) \in RipState
    <3>1. s.out = o
      BY <1>1
    <3>2. RipLine(s, l).out = Append(o, l) /\ RipLine(s, l).star = FALSE
      BY <2>1
    <3>3. RipLine(s, l) \in RipState
      BY <2>1 DEF RipState
    <3> QED BY <3>1, <3>2, <3>3
  <2> QED BY <1>3, <2>2
<1>4. CASE l.kind = "check"
  <2>1. RipLine(s, l) = [out |-> o, star |-> b \/ (l.had /\ l.right)]
    BY <1>1, <1>4 DEF RipLine
  <2> QED BY <1>1, <1>2, <1>4, <2>1 DEF RipState
<1>5. CASE l.kind = "choice"
  <2> DEFINE m == [l EXCEPT !.right = b]
  <2>1. m \in Lines /\ m.text = l.text /\ m.kind = l.kind /\ m.right = b
    BY <1>1, <1>2 DEF Lines
  <2>2. RipLine(s, l) = [out |-> Append(o, m), star |-> FALSE]
    BY <1>1, <1>5 DEF RipLine
  <2> HIDE DEF m
  <2>3. Append(o, m) \in Seq(Lines)
    BY <1>1, <2>1, AppendProperties
  <2>4. RipLine(s, l).out = Append(s.out, m) /\ RipLine(s, l) \in RipState
        /\ RipLine(s, l).star = FALSE
    <3>1. s.out = o
      BY <1>1
    <3>2. RipLine(s, l).out = Append(o, m) /\ RipLine(s, l).star = FALSE
      BY <2>2
    <3>3. RipLine(s, l) \in RipState
      BY <2>2, <2>3 DEF RipState
    <3> QED BY <3>1, <3>2, <3>3
  <2> QED BY <1>1, <1>5, <2>1, <2>4
<1> QED BY <1>2, <1>3, <1>4, <1>5

LEMMA RippedIs ==
  ASSUME NEW doc \in Seq(Lines)
  PROVE  \E f : Rips(doc, Len(doc), f) /\ Ripped(doc) = f[Len(doc)].out
<1> DEFINE n == Len(doc)
           F == [p \in RipState \X (1 .. n) |-> RipLine(p[1], doc[p[2]])]
           a == [out |-> <<>>, star |-> FALSE]
<1>1. n \in Nat /\ \A i \in 1 .. n : doc[i] \in Lines
  BY ElementOfSeq, LenProperties
<1>2. a \in RipState
  BY EmptySeq DEF RipState
<1>3. \A x \in RipState, i \in 1 .. n :
         F[<<x, i>>] = RipLine(x, doc[i]) /\ F[<<x, i>>] \in RipState
  BY <1>1, RipLineType
<1> HIDE DEF F, a, n
<1>4. PICK f \in [0 .. n -> RipState] : Turns(a, n, F, f)
  <2>1. Turning(RipState, n, F)
    BY <1>3 DEF Turning
  <2> QED BY <1>1, <1>2, <2>1, TurnsExist
<1>5. \A i \in 0 .. n : (IF i = 0 THEN a ELSE F[<<f[i - 1], i>>])
                        = IF i = 0 THEN a ELSE RipLine(f[i - 1], doc[i])
  <2> SUFFICES ASSUME NEW i \in 0 .. n, i # 0 PROVE F[<<f[i - 1], i>>] = RipLine(f[i - 1], doc[i])
    OBVIOUS
  <2>1. i \in 1 .. n /\ i - 1 \in 0 .. n
    BY <1>1
  <2>2. f[i - 1] \in RipState
    BY <2>1
  <2> QED BY <1>3, <2>1, <2>2
<1>6. f = [i \in 0 .. n |-> IF i = 0 THEN a ELSE RipLine(f[i - 1], doc[i])]
  BY <1>4, <1>5 DEF Turns
<1>7. Rips(doc, n, f)
  BY <1>6 DEF Rips, a
<1> QED BY <1>7 DEF Ripped, Rips, n

KeptTo(doc, k) == {i \in 1 .. k : doc[i].kind # "check"}

LEMMA KeptToNext ==
  ASSUME NEW doc, NEW k \in Nat
  PROVE  /\ Cardinality(KeptTo(doc, k)) \in Nat
         /\ doc[k + 1].kind = "check" => KeptTo(doc, k + 1) = KeptTo(doc, k)
         /\ doc[k + 1].kind # "check" =>
               Cardinality(KeptTo(doc, k + 1)) = Cardinality(KeptTo(doc, k)) + 1
<1>1. IsFiniteSet(1 .. k) /\ KeptTo(doc, k) \subseteq 1 .. k
  BY FS_Interval DEF KeptTo
<1>2. IsFiniteSet(KeptTo(doc, k)) /\ Cardinality(KeptTo(doc, k)) \in Nat
  BY <1>1, FS_Subset, FS_CardinalityType
<1>3. \A i : i \in 1 .. k + 1 <=> i \in 1 .. k \/ i = k + 1
  OBVIOUS
<1>4. doc[k + 1].kind = "check" => KeptTo(doc, k + 1) = KeptTo(doc, k)
  BY <1>3 DEF KeptTo
<1>5. doc[k + 1].kind # "check" =>
         KeptTo(doc, k + 1) = KeptTo(doc, k) \cup {k + 1} /\ k + 1 \notin KeptTo(doc, k)
  BY <1>3 DEF KeptTo
<1> QED BY <1>2, <1>4, <1>5, FS_AddElement

LEMMA SaidNext ==
  ASSUME NEW doc, NEW k \in Nat
  PROVE  /\ doc[k + 1].kind # "check" => ~SaidRight(doc, k + 1 + 1)
         /\ doc[k + 1].kind = "check" =>
               (SaidRight(doc, k + 1 + 1) <=>
                  SaidRight(doc, k + 1) \/ (doc[k + 1].had /\ doc[k + 1].right))
<1>1. \A j : j \in 1 .. (k + 1 + 1) - 1 <=> j \in 1 .. (k + 1) - 1 \/ j = k + 1
  OBVIOUS
<1>2. \A i \in 1 .. (k + 1 + 1) - 1 : k + 1 \in i .. (k + 1 + 1) - 1
  OBVIOUS
<1>3. \A i \in 1 .. (k + 1) - 1 : \A j :
         j \in i .. (k + 1 + 1) - 1 <=> j \in i .. (k + 1) - 1 \/ j = k + 1
  OBVIOUS
<1>4. \A j : j \in (k + 1) .. (k + 1 + 1) - 1 <=> j = k + 1
  OBVIOUS
<1>5. doc[k + 1].kind # "check" => ~SaidRight(doc, k + 1 + 1)
  BY <1>2 DEF SaidRight
<1>6. ASSUME doc[k + 1].kind = "check"
      PROVE  SaidRight(doc, k + 1 + 1) <=>
                SaidRight(doc, k + 1) \/ (doc[k + 1].had /\ doc[k + 1].right)
  BY <1>1, <1>3, <1>4, <1>6 DEF SaidRight
<1> QED BY <1>5, <1>6

\* After k lines.
RipInv(doc, k, s) ==
    /\ s \in RipState
    /\ Len(s.out) = Cardinality(KeptTo(doc, k))
    /\ s.star <=> SaidRight(doc, k + 1)
    /\ \A j \in KeptTo(doc, k) :
          LET i == Cardinality(KeptTo(doc, j))
          IN  /\ i \in 1 .. Len(s.out)
              /\ s.out[i].text = doc[j].text
              /\ s.out[i].kind = "choice" => (s.out[i].right <=> SaidRight(doc, j))

LEMMA RipStep ==
  ASSUME NEW doc, NEW k \in Nat, doc[k + 1] \in Lines, NEW s, RipInv(doc, k, s)
  PROVE  RipInv(doc, k + 1, RipLine(s, doc[k + 1]))
<1> DEFINE l == doc[k + 1]
           t == RipLine(s, l)
<1>1. s \in RipState /\ s.out \in Seq(Lines) /\ Len(s.out) \in Nat
  BY LenProperties DEF RipInv, RipState
<1>2. t \in RipState
  BY <1>1, RipLineType
<1>3. CASE l.kind = "check"
  <2>1. t.out = s.out /\ (t.star <=> s.star \/ (l.had /\ l.right))
    BY <1>1, <1>3, RipLineType
  <2>2. KeptTo(doc, k + 1) = KeptTo(doc, k)
    BY <1>3, KeptToNext
  <2>3. t.star <=> SaidRight(doc, k + 1 + 1)
    BY <1>3, <2>1, SaidNext DEF RipInv
  <2>4. RipInv(doc, k + 1, t)
    <3> HIDE DEF t, l
    <3> QED BY <1>2, <2>1, <2>2, <2>3 DEF RipInv
  <2> QED BY <2>4
<1>4. CASE l.kind # "check"
  <2>1. ~t.star /\ \E m \in Lines : /\ t.out = Append(s.out, m) /\ m.text = l.text
                                    /\ m.kind = l.kind /\ (l.kind = "choice" => m.right = s.star)
    BY <1>1, <1>4, RipLineType
  <2>2. PICK m \in Lines : /\ t.out = Append(s.out, m) /\ m.text = l.text
                          /\ m.kind = l.kind /\ (l.kind = "choice" => m.right = s.star)
    BY <2>1
  <2> DEFINE c == Cardinality(KeptTo(doc, k))
  <2>3. c \in Nat /\ Len(s.out) = c /\ Cardinality(KeptTo(doc, k + 1)) = c + 1
    BY <1>4, KeptToNext DEF RipInv
  <2>4. /\ Len(t.out) = c + 1 /\ t.out[c + 1] = m
        /\ \A i \in 1 .. c : t.out[i] = s.out[i]
    BY <1>1, <2>2, <2>3, AppendProperties
  <2>5. ~SaidRight(doc, k + 1 + 1)
    BY <1>4, SaidNext
  <2>6. \A j \in KeptTo(doc, k + 1) : j \in KeptTo(doc, k) \/ j = k + 1
    BY DEF KeptTo
  <2> HIDE DEF t, c
  <2>7. ASSUME NEW j \in KeptTo(doc, k + 1)
        PROVE  LET i == Cardinality(KeptTo(doc, j))
               IN  /\ i \in 1 .. Len(t.out)
                   /\ t.out[i].text = doc[j].text
                   /\ t.out[i].kind = "choice" => (t.out[i].right <=> SaidRight(doc, j))
    <3> DEFINE i == Cardinality(KeptTo(doc, j))
    <3>1. CASE j \in KeptTo(doc, k)
      <4>1. /\ i \in 1 .. c /\ s.out[i].text = doc[j].text
            /\ s.out[i].kind = "choice" => (s.out[i].right <=> SaidRight(doc, j))
        BY <2>3, <3>1 DEF RipInv
      <4> HIDE DEF i
      <4>2. t.out[i] = s.out[i] /\ i \in 1 .. Len(t.out)
        BY <2>3, <2>4, <4>1
      <4> QED BY <4>1, <4>2 DEF i
    <3>2. CASE j = k + 1
      <4>1. i = c + 1 /\ i \in 1 .. Len(t.out)
        BY <2>3, <2>4, <3>2
      <4>2. t.out[i] = m
        BY <2>4, <4>1
      <4>3. s.star <=> SaidRight(doc, k + 1)
        BY DEF RipInv
      <4> HIDE DEF i
      <4> QED BY <2>2, <3>2, <4>1, <4>2, <4>3 DEF i
    <3> QED BY <2>6, <3>1, <3>2
  <2>8. RipInv(doc, k + 1, t)
    BY <1>2, <2>1, <2>3, <2>4, <2>5, <2>7 DEF RipInv
  <2> QED BY <2>8 DEF t
<1> QED BY <1>3, <1>4

\* All lines of a question page.
LEMMA PageRight ==
  ASSUME NEW doc \in Seq(Lines), answer = <<Ripped(doc)>>, case.of = doc
  PROVE  PagesAgree
<1>1. PICK f : Rips(doc, Len(doc), f) /\ Ripped(doc) = f[Len(doc)].out
  BY RippedIs
<1> DEFINE n == Len(doc)
           G == {k \in Nat : k <= n => RipInv(doc, k, f[k])}
<1>2. n \in Nat /\ \A i \in 1 .. n : doc[i] \in Lines
  BY ElementOfSeq, LenProperties
<1>3. f[0] = [out |-> <<>>, star |-> FALSE] /\ \A i \in 1 .. n : f[i] = RipLine(f[i - 1], doc[i])
  <2>1. 0 \in 0 .. n /\ \A i \in 1 .. n : i \in 0 .. n /\ i # 0
    BY <1>2
  <2> HIDE DEF n
  <2>2. f = [i \in 0 .. n |-> IF i = 0 THEN [out |-> <<>>, star |-> FALSE]
                             ELSE RipLine(f[i - 1], doc[i])]
    BY <1>1 DEF Rips, n
  <2> DEFINE g == [i \in 0 .. n |-> IF i = 0 THEN [out |-> <<>>, star |-> FALSE]
                                   ELSE RipLine(f[i - 1], doc[i])]
  <2>3. g[0] = [out |-> <<>>, star |-> FALSE] /\ \A i \in 1 .. n : g[i] = RipLine(f[i - 1], doc[i])
    BY <2>1
  <2>4. f = g
    BY <2>2
  <2> HIDE DEF g
  <2> QED BY <2>3, <2>4
<1>4. 0 \in G
  <2>1. f[0].out = <<>> /\ f[0].star = FALSE /\ f[0] \in RipState
    BY <1>3, EmptySeq DEF RipState
  <2>2. Cardinality(KeptTo(doc, 0)) = 0 /\ KeptTo(doc, 0) = {} /\ ~SaidRight(doc, 0 + 1)
    <3>1. KeptTo(doc, 0) = {}
      BY DEF KeptTo
    <3>2. ~SaidRight(doc, 0 + 1)
      BY DEF SaidRight
    <3> QED BY <3>1, <3>2, FS_EmptySet
  <2> QED BY <2>1, <2>2 DEF RipInv
<1>5. ASSUME NEW k \in G PROVE k + 1 \in G
  <2> SUFFICES ASSUME k + 1 <= n PROVE RipInv(doc, k + 1, f[k + 1])
    OBVIOUS
  <2>1. k + 1 \in 1 .. n /\ k + 1 - 1 = k /\ RipInv(doc, k, f[k])
    BY <1>2
  <2>2. f[k + 1] = RipLine(f[k], doc[k + 1]) /\ doc[k + 1] \in Lines
    BY <1>2, <1>3, <2>1
  <2> QED BY <2>1, <2>2, RipStep
<1> HIDE DEF G
<1>6. G = Nat
  <2>1. G \subseteq Nat
    BY DEF G
  <2> QED BY <1>4, <1>5, <2>1, NatSet
<1>7. RipInv(doc, n, f[n])
  BY <1>2, <1>6 DEF G
<1> DEFINE kept == {k \in DOMAIN doc : doc[k].kind # "check"}
<1>8. kept = KeptTo(doc, n) /\ answer[1] = f[n].out
  BY <1>1, LenProperties DEF KeptTo
<1>9. \A k \in kept : {i \in kept : i <= k} = KeptTo(doc, k)
  BY <1>2, <1>8 DEF KeptTo
<1> DEFINE Line(k) == answer[1][Cardinality({i \in kept : i <= k})]
<1>10. Len(answer[1]) = Cardinality(kept)
  BY <1>7, <1>8 DEF RipInv
<1>11. ASSUME NEW k \in kept
       PROVE  /\ Line(k).text = doc[k].text
              /\ Line(k).kind = "choice" => (Line(k).right <=> SaidRight(doc, k))
  <2>1. Line(k) = f[n].out[Cardinality(KeptTo(doc, k))]
    BY <1>8, <1>9
  <2>2. k \in KeptTo(doc, n)
    BY <1>8
  <2> HIDE DEF Line, n
  <2> QED BY <1>7, <2>1, <2>2 DEF RipInv
<1> QED BY <1>10, <1>11 DEF PagesAgree
-----------------------------------------------------------------------------
(* Addresses.                                                              *)

Signs == STRING \cup {"%", "2", "0", " ", "\n", "A"}

\* Where a code is found its first two characters stand.
BeginsAt(s, w, j) ==
    j \in Nat /\ j \in 1 .. Len(s) /\ j + 1 \in 1 .. Len(s) /\ s[j] = w[1] /\ s[j + 1] = w[2]

LEMMA AtIs ==
  ASSUME NEW T, NEW s \in Seq(T), NEW w, NEW j \in At(s, w)
  PROVE  BeginsAt(s, w, j)
<1>1. PICK b \in Nat : b = j + 2 /\ b <= Len(s) /\ j \in Nat \ {0} /\ Len(s) \in Nat
                      /\ SubSeq(s, j, b) = w
  <2>1. j \in 1 .. Len(s) - 2 /\ SubSeq(s, j, j + 2) = w /\ Len(s) \in Nat
    BY LenProperties DEF At
  <2>2. j + 2 \in Nat /\ j + 2 <= Len(s) /\ j \in Nat \ {0}
    BY <2>1
  <2> QED BY <2>1, <2>2
<1>2. j + 3 = b + 1
  BY <1>1
<1>3. \A i \in 1 .. 3 : SubSeq(s, j, b)[i] = s[(j + i) - 1]
  BY <1>1, <1>2, PartIs
<1>4. SubSeq(s, j, b)[1] = s[j] /\ SubSeq(s, j, b)[2] = s[j + 1]
  <2>1. PICK y : y = SubSeq(s, j, b)
    OBVIOUS
  <2>2. \A i \in 1 .. 3, q \in Nat : q = (j + i) - 1 => y[i] = s[q]
    BY <1>3, <2>1
  <2>3. PICK q \in Nat : q = j + 1
    BY <1>1
  <2>4. j \in Nat /\ j = (j + 1) - 1 /\ q = (j + 2) - 1
    BY <1>1, <2>3
  <2>5. y[1] = s[j] /\ y[2] = s[q]
    BY <2>2, <2>3, <2>4
  <2> QED BY <2>1, <2>3, <2>5
<1>5. j \in Nat /\ j \in 1 .. Len(s) /\ j + 1 \in 1 .. Len(s)
  BY <1>1
<1> QED BY <1>1, <1>4, <1>5 DEF BeginsAt

\* Of the first place a code is found at, with nothing like its beginning
\* in front of it.
FirstCode(s, u, w, z, c, code) ==
    /\ Len(w) = 3 /\ \A i \in 1 .. Len(u) : u[i] # w[1]
    /\ code = <<w, c>> /\ s = u \o (w \o z)

LEMMA ReplacedFirst ==
  ASSUME NEW T, NEW u \in Seq(T), NEW w \in Seq(T), NEW z \in Seq(T), NEW c \in T,
         NEW code, NEW s, FirstCode(s, u, w, z, c, code)
  PROVE  Replaced(s, code) = Append(u, c) \o z
<1>1. /\ Len(w) = 3 /\ \A i \in 1 .. Len(u) : u[i] # w[1]
      /\ code = <<w, c>> /\ s = u \o (w \o z)
  BY DEF FirstCode
<1> USE <1>1
<1>2. PICK n \in Nat : n = Len(u)
  BY LenProperties
<1>3. PICK x \in Seq(T) : x = w \o z /\ s = u \o x
  BY ConcatProperties
<1>4. s \in Seq(T) /\ SubSeq(s, 1, n) = u /\ SubSeq(s, n + 1, Len(s)) = x
  <2>1. CutAfter(u \o x, u, x)
    BY CutAfterIs
  <2> QED BY <1>2, <1>3, <2>1, ConcatProperties DEF CutAfter
<1>5. PICK a \in Seq(T) : a = u \o w /\ s = a \o z
  <2>1. Regroup(u, w, z)
    BY Regrouped
  <2> QED BY <2>1, ConcatProperties DEF Regroup
<1>6. PICK l \in Nat : l = n + 3 /\ Len(a) = l
  <2>1. Len(a) = Len(u) + Len(w)
    BY <1>5, ConcatProperties
  <2> QED BY <1>2, <2>1
<1>7. SubSeq(s, l + 1, Len(s)) = z /\ Len(s) = l + Len(z) /\ Len(z) \in Nat
  <2>1. CutAfter(a \o z, a, z)
    BY CutAfterIs
  <2>2. Len(a \o z) = Len(a) + Len(z) /\ Len(z) \in Nat
    BY ConcatProperties, LenProperties
  <2>3. SubSeq(a \o z, Len(a) + 1, Len(a \o z)) = z
    BY <2>1 DEF CutAfter
  <2> QED BY <1>5, <1>6, <2>2, <2>3
<1>8. n + 1 \in At(s, w)
  <2>1. Stands(s, a \o z, 0)
    <3>1. Len(s) \in Nat
      BY <1>4, LenProperties
    <3> QED BY <1>5, <3>1 DEF Stands
  <2>2. l = 0 + Len(a) /\ n = 0 + Len(u)
    BY <1>2, <1>6
  <2>3. Stands(s, u \o w, 0)
    BY <1>4, <1>5, <2>1, <2>2, StandsBoth
  <2>4. Stands(s, w, n)
    BY <1>4, <2>2, <2>3, StandsBoth
  <2>5. SubSeq(s, n + 1, n + 3) = SubSeq(w, 1, 3)
    <3> HIDE <1>1
    <3>1. PICK k \in Nat : k = 3 /\ k <= 3
      OBVIOUS
    <3>2. k <= Len(w)
      BY <1>1, <3>1
    <3>3. SubSeq(s, n + 1, n + k) = SubSeq(w, 1, k)
      BY <1>4, <2>4, <3>2, StandsPart
    <3> QED BY <3>1, <3>3
  <2>6. SubSeq(w, 1, 3) = w
    BY SubSeqFull
  <2>7. PICK m \in Nat : m = n + 1 /\ m + 2 = n + 3 /\ m \in 1 .. Len(s) - 2
    BY <1>6, <1>7
  <2>8. SubSeq(s, m, m + 2) = w
    BY <2>5, <2>6, <2>7
  <2>9. m \in At(s, w)
    BY <2>7, <2>8, Zenon DEF At
  <2> QED BY <2>7, <2>9
<1>9. ASSUME NEW j \in At(s, w) PROVE n + 1 <= j /\ j \in Nat
  <2>1. j \in Nat /\ j \in 1 .. Len(s) /\ s[j] = w[1]
    <3>1. s \in Seq(T)
      BY <1>4
    <3>2. BeginsAt(s, w, j)
      BY <1>9, <3>1, AtIs
    <3> QED BY <3>2 DEF BeginsAt
  <2>2. ASSUME j \in 1 .. n PROVE FALSE
    <3>1. (u \o x)[j] = u[j]
      <4>1. j <= Len(u) /\ j \in 1 .. Len(u) + Len(x)
        BY <1>2, <2>2, LenProperties
      <4> QED BY <4>1, ConcatProperties
    <3> QED BY <1>2, <1>3, <2>1, <2>2, <3>1
  <2> QED BY <2>1, <2>2
<1>10. PICK i \in Nat : i = CHOOSE k \in At(s, w) : \A j \in At(s, w) : k <= j
  <2>1. (CHOOSE k \in At(s, w) : \A j \in At(s, w) : k <= j) \in At(s, w)
    BY <1>8, <1>9
  <2> QED BY <1>9, <2>1
<1>11. i = n + 1
  <2>1. i \in At(s, w) /\ \A j \in At(s, w) : i <= j
    BY <1>8, <1>9, <1>10
  <2> QED BY <1>8, <1>9, <2>1
<1>12. code[1] = w /\ code[2] = c
  OBVIOUS
<1>13. Replaced(s, code) = Append(SubSeq(s, 1, i - 1), c) \o SubSeq(s, i + 3, Len(s))
  BY <1>8, <1>10, <1>12 DEF Replaced
<1>14. i - 1 = n /\ i + 3 = l + 1
  BY <1>6, <1>11
<1> QED BY <1>4, <1>7, <1>13, <1>14

\* A text without the beginning of a code, and what comes of another.
LEMMA ReplacedNot ==
  ASSUME NEW s, NEW code, At(s, code[1]) = {} PROVE Replaced(s, code) = s
BY DEF Replaced

LEMMA ReplacedType ==
  ASSUME NEW T, NEW s \in Seq(T), NEW code, code[2] \in T PROVE Replaced(s, code) \in Seq(T)
<1> DEFINE i == CHOOSE k \in At(s, code[1]) : \A j \in At(s, code[1]) : k <= j
<1>1. CASE At(s, code[1]) = {}
  BY <1>1, ReplacedNot
<1>2. CASE At(s, code[1]) # {}
  <2>1. At(s, code[1]) \subseteq Nat
    BY AtIs DEF BeginsAt
  <2>2. \E k \in At(s, code[1]) : \A j \in At(s, code[1]) : k <= j
    BY <1>2, <2>1, LeastOf
  <2>3. i \in At(s, code[1])
    BY <2>2
  <2>4. i \in 1 .. Len(s) - 2 /\ Len(s) \in Nat
    BY <2>3, LenProperties DEF At
  <2> HIDE DEF i
  <2>5. /\ \A k \in 1 .. i - 1 : s[k] \in T
        /\ \A k \in i + 3 .. Len(s) : s[k] \in T
    <3>1. \A k : k \in 1 .. i - 1 \/ k \in i + 3 .. Len(s) => k \in 1 .. Len(s)
      BY <2>4
    <3> QED BY <3>1, ElementOfSeq
  <2>6. SubSeq(s, 1, i - 1) \in Seq(T) /\ SubSeq(s, i + 3, Len(s)) \in Seq(T)
    <3>1. 1 \in Int /\ i - 1 \in Int /\ i + 3 \in Int /\ Len(s) \in Int
      BY <2>4
    <3> QED BY <2>5, <3>1, SubSeqProperties
  <2>7. Append(SubSeq(s, 1, i - 1), code[2]) \in Seq(T)
    BY <2>6, AppendProperties
  <2>8. Replaced(s, code) = Append(SubSeq(s, 1, i - 1), code[2]) \o SubSeq(s, i + 3, Len(s))
    BY <1>2 DEF Replaced, i
  <2> QED BY <2>6, <2>7, <2>8, ConcatProperties
<1> QED BY <1>1, <1>2
-----------------------------------------------------------------------------
\* The loop over a code, and that over all of them.
Replaces(s, code, n, f) == f = [i \in 0 .. n |-> IF i = 0 THEN s ELSE Replaced(f[i - 1], code)]
Decodes(s, n, f) == f = [i \in 0 .. n |-> IF i = 0 THEN s ELSE Decoded(f[i - 1], Codes[i])]

LEMMA ReplacesStep ==
  ASSUME NEW s, NEW code, NEW n \in Nat, NEW f, Replaces(s, code, n, f)
  PROVE  f[0] = s /\ \A i \in Nat : i < n => f[i + 1] = Replaced(f[i], code)
<1> DEFINE g == [i \in 0 .. n |-> IF i = 0 THEN s ELSE Replaced(f[i - 1], code)]
<1>1. f = g
  BY DEF Replaces
<1>2. g[0] = s
  OBVIOUS
<1>3. ASSUME NEW i \in Nat, i < n PROVE g[i + 1] = Replaced(f[i], code)
  <2>1. i + 1 \in 0 .. n /\ i + 1 # 0 /\ (i + 1) - 1 = i
    BY <1>3
  <2> QED BY <2>1
<1> HIDE DEF g
<1> QED BY <1>1, <1>2, <1>3

LEMMA DecodesStep ==
  ASSUME NEW s, NEW n \in Nat, NEW f, Decodes(s, n, f)
  PROVE  f[0] = s /\ \A i \in Nat : i < n => f[i + 1] = Decoded(f[i], Codes[i + 1])
<1> DEFINE g == [i \in 0 .. n |-> IF i = 0 THEN s ELSE Decoded(f[i - 1], Codes[i])]
<1>1. f = g
  BY DEF Decodes
<1>2. g[0] = s
  OBVIOUS
<1>3. ASSUME NEW i \in Nat, i < n PROVE g[i + 1] = Decoded(f[i], Codes[i + 1])
  <2>1. i + 1 \in 0 .. n /\ i + 1 # 0 /\ (i + 1) - 1 = i
    BY <1>3
  <2> QED BY <2>1
<1> HIDE DEF g
<1> QED BY <1>1, <1>2, <1>3

LEMMA DecodedIs ==
  ASSUME NEW T, NEW s \in Seq(T), NEW code, code[2] \in T
  PROVE  \E f : Replaces(s, code, Len(s), f) /\ Decoded(s, code) = f[Len(s)]
<1> DEFINE n == Len(s)
           S == Seq(T)
           F == [p \in S \X (1 .. n) |-> Replaced(p[1], code)]
<1>1. n \in Nat
  BY LenProperties
<1>2. \A x \in S, i \in 1 .. n : F[<<x, i>>] = Replaced(x, code) /\ F[<<x, i>>] \in S
  BY ReplacedType
<1> HIDE DEF F, n, S
<1>3. PICK f \in [0 .. n -> S] : Turns(s, n, F, f)
  <2>1. Turning(S, n, F)
    BY <1>2 DEF Turning
  <2>2. s \in S
    BY DEF S
  <2> QED BY <1>1, <2>1, <2>2, TurnsExist
<1>4. \A i \in 0 .. n : (IF i = 0 THEN s ELSE F[<<f[i - 1], i>>])
                        = IF i = 0 THEN s ELSE Replaced(f[i - 1], code)
  <2> SUFFICES ASSUME NEW i \in 0 .. n, i # 0 PROVE F[<<f[i - 1], i>>] = Replaced(f[i - 1], code)
    OBVIOUS
  <2>1. i \in 1 .. n /\ i - 1 \in 0 .. n
    BY <1>1
  <2>2. f[i - 1] \in S
    BY <2>1
  <2> QED BY <1>2, <2>1, <2>2
<1>5. f = [i \in 0 .. n |-> IF i = 0 THEN s ELSE Replaced(f[i - 1], code)]
  BY <1>3, <1>4 DEF Turns
<1>6. Replaces(s, code, n, f)
  BY <1>5 DEF Replaces
<1> QED BY <1>6 DEF Decoded, Replaces, n

LEMMA DecodedType ==
  ASSUME NEW T, NEW s \in Seq(T), NEW code, code[2] \in T
  PROVE  Decoded(s, code) \in Seq(T)
<1>1. PICK f : Replaces(s, code, Len(s), f) /\ Decoded(s, code) = f[Len(s)]
  BY DecodedIs
<1>2. PICK n \in Nat : n = Len(s)
  BY LenProperties
<1>3. f[0] = s /\ \A i \in Nat : i < n => f[i + 1] = Replaced(f[i], code)
  <2>1. Replaces(s, code, n, f)
    BY <1>1, <1>2
  <2> QED BY <2>1, ReplacesStep
<1> DEFINE G == {k \in Nat : f[k] \in Seq(T)}
<1>4. 0 \in G
  BY <1>3
<1>5. \A k \in Nat : k < n /\ k \in G => k + 1 \in G
  <2> SUFFICES ASSUME NEW k \in Nat, k < n, k \in G PROVE k + 1 \in G
    OBVIOUS
  <2>1. Replaced(f[k], code) \in Seq(T)
    BY ReplacedType
  <2> QED BY <1>3, <2>1
<1> HIDE DEF G
<1>6. n \in G
  BY <1>4, <1>5, Reached
<1> QED BY <1>1, <1>2, <1>6 DEF G

LEMMA DecodedNot ==
  ASSUME NEW T, NEW s \in Seq(T), NEW code, code[2] \in T, At(s, code[1]) = {}
  PROVE  Decoded(s, code) = s
<1>1. PICK f : Replaces(s, code, Len(s), f) /\ Decoded(s, code) = f[Len(s)]
  BY DecodedIs
<1>2. PICK n \in Nat : n = Len(s)
  BY LenProperties
<1>3. f[0] = s /\ \A i \in Nat : i < n => f[i + 1] = Replaced(f[i], code)
  <2>1. Replaces(s, code, n, f)
    BY <1>1, <1>2
  <2> QED BY <2>1, ReplacesStep
<1> DEFINE G == {k \in Nat : f[k] = s}
<1>4. 0 \in G
  BY <1>3
<1>5. \A k \in Nat : k < n /\ k \in G => k + 1 \in G
  BY <1>3, ReplacedNot
<1> HIDE DEF G
<1>6. n \in G
  BY <1>4, <1>5, Reached
<1> QED BY <1>1, <1>2, <1>6 DEF G

PairIs(c, x, y) == c = <<x, y>> /\ c[1] = x /\ c[2] = y

LEMMA PairOf == ASSUME NEW x, NEW y, NEW c, c = <<x, y>> PROVE PairIs(c, x, y)
BY DEF PairIs

CodesAre ==
    /\ Len(Codes) = 4
    /\ PairIs(Codes[1], <<"%", "0", "a">>, "\n") /\ PairIs(Codes[2], <<"%", "2", "0">>, " ")
    /\ PairIs(Codes[3], <<"%", "2", "5">>, "%") /\ PairIs(Codes[4], <<"%", "4", "1">>, "A")

LEMMA TheCodes == CodesAre
<1>1. /\ Len(Codes) = 4
      /\ Codes[1] = <<<<"%", "0", "a">>, "\n">> /\ Codes[2] = <<<<"%", "2", "0">>, " ">>
      /\ Codes[3] = <<<<"%", "2", "5">>, "%">> /\ Codes[4] = <<<<"%", "4", "1">>, "A">>
  BY DEF Codes
<1>2. PairIs(Codes[1], <<"%", "0", "a">>, "\n")
  BY <1>1, PairOf
<1>3. PairIs(Codes[2], <<"%", "2", "0">>, " ")
  BY <1>1, PairOf
<1>4. PairIs(Codes[3], <<"%", "2", "5">>, "%")
  BY <1>1, PairOf
<1>5. PairIs(Codes[4], <<"%", "4", "1">>, "A")
  BY <1>1, PairOf
<1> QED BY <1>1, <1>2, <1>3, <1>4, <1>5 DEF CodesAre

LEMMA CodeType ==
  ASSUME NEW i \in 1 .. 4 PROVE Codes[i][2] \in Signs /\ Codes[i][1][1] = "%"
<1>1. i = 1 \/ i = 2 \/ i = 3 \/ i = 4
  OBVIOUS
<1>2. /\ Codes[1][2] = "\n" /\ Codes[2][2] = " " /\ Codes[3][2] = "%" /\ Codes[4][2] = "A"
      /\ Codes[1][1] = <<"%", "0", "a">> /\ Codes[2][1] = <<"%", "2", "0">>
      /\ Codes[3][1] = <<"%", "2", "5">> /\ Codes[4][1] = <<"%", "4", "1">>
  BY TheCodes DEF CodesAre, PairIs
<1>3. "\n" \in Signs /\ " " \in Signs /\ "%" \in Signs /\ "A" \in Signs
  BY DEF Signs
<1>4. /\ <<"%", "0", "a">>[1] = "%" /\ <<"%", "2", "0">>[1] = "%"
      /\ <<"%", "2", "5">>[1] = "%" /\ <<"%", "4", "1">>[1] = "%"
  OBVIOUS
<1> HIDE DEF Codes
<1> QED BY <1>1, <1>2, <1>3, <1>4

LEMMA UrlDecodeIs ==
  ASSUME NEW s \in Seq(Signs)
  PROVE  \E f : Decodes(s, 4, f) /\ UrlDecode(s) = f[4]
<1> DEFINE S == Seq(Signs)
           F == [p \in S \X (1 .. 4) |-> Decoded(p[1], Codes[p[2]])]
<1>1. \A x \in S, i \in 1 .. 4 : F[<<x, i>>] = Decoded(x, Codes[i]) /\ F[<<x, i>>] \in S
  <2> SUFFICES ASSUME NEW x \in S, NEW i \in 1 .. 4 PROVE Decoded(x, Codes[i]) \in S
    OBVIOUS
  <2> QED BY CodeType, DecodedType
<1> HIDE DEF F, S
<1>2. PICK f \in [0 .. 4 -> S] : Turns(s, 4, F, f)
  <2>1. Turning(S, 4, F)
    BY <1>1 DEF Turning
  <2>2. s \in S
    BY DEF S
  <2> QED BY <2>1, <2>2, TurnsExist
<1>3. \A i \in 0 .. 4 : (IF i = 0 THEN s ELSE F[<<f[i - 1], i>>])
                        = IF i = 0 THEN s ELSE Decoded(f[i - 1], Codes[i])
  <2> SUFFICES ASSUME NEW i \in 0 .. 4, i # 0 PROVE F[<<f[i - 1], i>>] = Decoded(f[i - 1], Codes[i])
    OBVIOUS
  <2>1. i \in 1 .. 4 /\ i - 1 \in 0 .. 4
    OBVIOUS
  <2>2. f[i - 1] \in S
    BY <2>1
  <2> QED BY <1>1, <2>1, <2>2
<1>4. f = [i \in 0 .. 4 |-> IF i = 0 THEN s ELSE Decoded(f[i - 1], Codes[i])]
  BY <1>2, <1>3 DEF Turns
<1>5. Decodes(s, 4, f)
  BY <1>4 DEF Decodes
<1>6. Len(Codes) = 4
  BY TheCodes DEF CodesAre
<1> QED BY <1>5, <1>6 DEF UrlDecode, Decodes

LEMMA UrlDecodeInOrder ==
  ASSUME NEW s \in Seq(Signs)
  PROVE  UrlDecode(s) =
            Decoded(Decoded(Decoded(Decoded(s, Codes[1]), Codes[2]), Codes[3]), Codes[4])
<1>1. PICK f : Decodes(s, 4, f) /\ UrlDecode(s) = f[4]
  BY UrlDecodeIs
<1>2. f[0] = s /\ \A i \in Nat : i < 4 => f[i + 1] = Decoded(f[i], Codes[i + 1])
  BY <1>1, DecodesStep
<1>3. /\ f[1] = Decoded(f[0], Codes[1]) /\ f[2] = Decoded(f[1], Codes[2])
      /\ f[3] = Decoded(f[2], Codes[3]) /\ f[4] = Decoded(f[3], Codes[4])
  <2>1. 0 + 1 = 1 /\ 1 + 1 = 2 /\ 2 + 1 = 3 /\ 3 + 1 = 4 /\ 0 < 4 /\ 1 < 4 /\ 2 < 4 /\ 3 < 4
    OBVIOUS
  <2> QED BY <1>2, <2>1
<1> QED BY <1>1, <1>2, <1>3

LEMMA NoCode ==
  ASSUME NEW s \in Seq(Signs), \A i \in 1 .. Len(s) : s[i] # "%", NEW i \in 1 .. 4
  PROVE  Decoded(s, Codes[i]) = s
<1>1. Codes[i][2] \in Signs /\ Codes[i][1][1] = "%"
  BY CodeType
<1>2. At(s, Codes[i][1]) = {}
  <2> SUFFICES ASSUME NEW j \in At(s, Codes[i][1]) PROVE FALSE
    OBVIOUS
  <2>1. BeginsAt(s, Codes[i][1], j)
    BY AtIs
  <2> QED BY <1>1, <2>1 DEF BeginsAt
<1> QED BY <1>1, <1>2, DecodedNot

\* A text without a "%" is what it was.
LEMMA NothingDecoded ==
  ASSUME NEW s \in Seq(Signs), \A i \in 1 .. Len(s) : s[i] # "%"
  PROVE  UrlDecode(s) = s
<1>1. /\ Decoded(s, Codes[1]) = s /\ Decoded(s, Codes[2]) = s
      /\ Decoded(s, Codes[3]) = s /\ Decoded(s, Codes[4]) = s
  BY NoCode
<1> QED BY <1>1, UrlDecodeInOrder
-----------------------------------------------------------------------------
\* Characters that come through an address.
Sendable == Signs \ {"\n", "~", "%"}

Piece(c) == IF c \in DOMAIN Hex THEN <<"%">> \o Hex[c] ELSE <<c>>

Blank == <<"%", "2", "0">>

LEMMA BlankIs ==
  Blank \in Seq(Signs) /\ Len(Blank) = 3 /\ Blank[1] = "%" /\ Blank[2] = "2"
<1>1. "%" \in Signs /\ "2" \in Signs /\ "0" \in Signs
  BY DEF Signs
<1> QED BY <1>1 DEF Blank

LEMMA PieceIs ==
  ASSUME NEW c \in Sendable PROVE Piece(c) = IF c = " " THEN Blank ELSE <<c>>
<1>1. DOMAIN Hex = {"%", " ", "\n", "~"} /\ Hex[" "] = <<"2", "0">>
  BY DEF Hex
<1>2. c \notin {"\n", "~", "%"}
  BY DEF Sendable
<1>3. <<"%">> \o <<"2", "0">> = Blank
  <2> DEFINE u == <<"%">>
             z == <<"2", "0">>
             d == Blank
  <2>1. /\ u \in Seq(Signs) /\ Len(u) = 1 /\ u[1] = "%"
        /\ z \in Seq(Signs) /\ Len(z) = 2 /\ z[1] = "2" /\ z[2] = "0"
        /\ d \in Seq(Signs) /\ Len(d) = 3 /\ d[1] = "%" /\ d[2] = "2" /\ d[3] = "0"
    <3>1. "%" \in Signs /\ "2" \in Signs /\ "0" \in Signs
      BY DEF Signs
    <3> QED BY <3>1 DEF Blank
  <2> HIDE DEF u, z, d
  <2>2. 1 + 2 = 3 /\ 1 + 1 = 2 /\ \A i \in 1 .. 2 : i = 1 \/ i = 2
    OBVIOUS
  <2>3. Follows(d, u, z, 1, 2)
    <3>1. \A i \in 1 .. 1 : d[i] = u[i]
      BY <2>1
    <3>2. d[1 + 1] = z[1] /\ d[1 + 2] = z[2]
      BY <2>1
    <3>3. \A i \in 1 .. 2 : d[1 + i] = z[i]
      BY <2>2, <3>2
    <3> QED BY <2>1, <2>2, <3>1, <3>3 DEF Follows
  <2>4. d = u \o z
    BY <2>1, <2>3, Piecewise
  <2> QED BY <2>4 DEF u, z, d
<1> HIDE DEF Hex
<1> QED BY <1>1, <1>2, <1>3 DEF Piece

LEMMA PieceType ==
  ASSUME NEW c \in Sendable
  PROVE  /\ Piece(c) \in Seq(Signs) /\ Len(Piece(c)) \in Nat \ {0}
         /\ c # " " => Piece(c) = <<c>>
         /\ c = " " => Piece(c) = Blank
         /\ <<c>> \in Seq(Signs)
<1>1. <<c>> \in Seq(Signs) /\ Len(<<c>>) = 1
  BY DEF Sendable
<1>2. /\ c # " " => Piece(c) = <<c>>
      /\ c = " " => Piece(c) = Blank
  BY PieceIs
<1>3. Len(<<c>>) \in Nat \ {0} /\ Len(Blank) \in Nat \ {0} /\ Blank \in Seq(Signs)
  BY BlankIs
<1>4. Piece(c) = <<c>> \/ Piece(c) = Blank
  BY <1>2
<1>5. Piece(c) \in Seq(Signs) /\ Len(Piece(c)) \in Nat \ {0}
  BY <1>1, <1>3, <1>4
<1> QED BY <1>1, <1>2, <1>5

LEMMA EncodeIs ==
  ASSUME NEW t \in Seq(Sendable)
  PROVE  \E p \in Seq(Seq(Signs)) :
            /\ Len(p) = Len(t) /\ UrlEncode(t) = FlattenSeq(p)
            /\ p = [i \in 1 .. Len(t) |-> Piece(t[i])]
<1> DEFINE p == [i \in 1 .. Len(t) |-> Piece(t[i])]
<1>1. Len(t) \in Nat /\ DOMAIN t = 1 .. Len(t)
  BY LenProperties
<1>2. \A i \in 1 .. Len(t) : Piece(t[i]) \in Seq(Signs)
  <2>1. \A i \in 1 .. Len(t) : t[i] \in Sendable
    BY ElementOfSeq
  <2> QED BY <2>1, PieceType
<1>3. p \in Seq(Seq(Signs)) /\ Len(p) = Len(t)
  BY <1>1, <1>2
<1>4. UrlEncode(t) = FlattenSeq(p)
  BY <1>1 DEF UrlEncode, Piece
<1> QED BY <1>3, <1>4

LEMMA EncodeType == ASSUME NEW t \in Seq(Sendable) PROVE UrlEncode(t) \in Seq(Signs)
BY EncodeIs, FlattenType

LEMMA EncodeEmpty == UrlEncode(<<>>) = <<>>
<1>1. <<>> \in Seq(Sendable) /\ Len(<<>>) = 0
  BY EmptySeq
<1>2. PICK p \in Seq(Seq(Signs)) : Len(p) = 0 /\ UrlEncode(<<>>) = FlattenSeq(p)
  BY <1>1, EncodeIs
<1>3. p = <<>>
  BY <1>2, EmptySeq
<1> QED BY <1>2, <1>3, FlattenEmpty

LEMMA EncodeAppend ==
  ASSUME NEW t \in Seq(Sendable), NEW c \in Sendable
  PROVE  UrlEncode(Append(t, c)) = UrlEncode(t) \o Piece(c)
<1> DEFINE r == Append(t, c)
<1>1. /\ r \in Seq(Sendable) /\ Len(r) = Len(t) + 1 /\ r[Len(t) + 1] = c
      /\ \A i \in 1 .. Len(t) : r[i] = t[i]
  BY AppendProperties
<1> HIDE DEF r
<1>2. PICK n \in Nat : n = Len(t)
  BY LenProperties
<1>3. PICK p \in Seq(Seq(Signs)) : /\ Len(p) = Len(t) /\ UrlEncode(t) = FlattenSeq(p)
                                     /\ p = [i \in 1 .. Len(t) |-> Piece(t[i])]
  BY EncodeIs
<1>4. PICK q \in Seq(Seq(Signs)) : /\ Len(q) = Len(r) /\ UrlEncode(r) = FlattenSeq(q)
                                     /\ q = [i \in 1 .. Len(r) |-> Piece(r[i])]
  BY <1>1, EncodeIs
<1>5. q = Append(p, Piece(c))
  <2>1. Piece(c) \in Seq(Signs)
    BY PieceType
  <2> DEFINE a == Append(p, Piece(c))
  <2>2. /\ a \in Seq(Seq(Signs)) /\ Len(a) = n + 1 /\ a[n + 1] = Piece(c)
        /\ \A i \in 1 .. n : a[i] = p[i]
    BY <1>2, <1>3, <2>1, AppendProperties
  <2> HIDE DEF a
  <2>3. \A i \in 1 .. n + 1 : q[i] = a[i]
    <3> SUFFICES ASSUME NEW i \in 1 .. n + 1 PROVE q[i] = a[i]
      OBVIOUS
    <3>1. q[i] = Piece(r[i])
      BY <1>1, <1>2, <1>4
    <3>2. CASE i \in 1 .. n
      <4>1. p[i] = Piece(t[i]) /\ r[i] = t[i]
        BY <1>1, <1>2, <1>3, <3>2
      <4> QED BY <2>2, <3>1, <3>2, <4>1
    <3>3. CASE i = n + 1
      BY <1>1, <1>2, <2>2, <3>1, <3>3
    <3> QED BY <3>2, <3>3
  <2>4. Len(q) = n + 1
    BY <1>1, <1>2, <1>4
  <2>5. q = a
    BY <2>2, <2>3, <2>4, SeqEqual
  <2> QED BY <2>5 DEF a
<1>6. Piece(c) \in Seq(Signs)
  BY PieceType
<1>7. FlattenSeq(q) = FlattenSeq(p) \o Piece(c)
  BY <1>5, <1>6, FlattenAppend
<1> QED BY <1>3, <1>4, <1>7 DEF r

LEMMA EncodeConcat ==
  ASSUME NEW s \in Seq(Sendable)
  PROVE  \A t \in Seq(Sendable) : UrlEncode(s \o t) = UrlEncode(s) \o UrlEncode(t)
<1> DEFINE G == {t \in Seq(Sendable) : UrlEncode(s \o t) = UrlEncode(s) \o UrlEncode(t)}
<1>1. <<>> \in G
  <2>1. s \o <<>> = s /\ <<>> \in Seq(Sendable)
    BY ConcatEmptySeq, EmptySeq
  <2>2. UrlEncode(s) \o <<>> = UrlEncode(s)
    BY EncodeType, ConcatEmptySeq
  <2> QED BY <2>1, <2>2, EncodeEmpty
<1>2. ASSUME NEW t \in Seq(Sendable), NEW c \in Sendable, t \in G PROVE Append(t, c) \in G
  <2>1. Append(t, c) \in Seq(Sendable) /\ s \o t \in Seq(Sendable) /\ Lengthens(s, t, c)
    BY AppendProperties, ConcatProperties, AppendLast
  <2>2. UrlEncode(s \o Append(t, c)) = UrlEncode(s \o t) \o Piece(c)
    BY <2>1, EncodeAppend DEF Lengthens
  <2>3. UrlEncode(Append(t, c)) = UrlEncode(t) \o Piece(c)
    BY EncodeAppend
  <2>4. Regroup(UrlEncode(s), UrlEncode(t), Piece(c))
    BY EncodeType, PieceType, Regrouped
  <2>5. UrlEncode(s \o t) = UrlEncode(s) \o UrlEncode(t)
    BY <1>2
  <2>6. UrlEncode(s \o Append(t, c)) = UrlEncode(s) \o UrlEncode(Append(t, c))
    BY <2>2, <2>3, <2>4, <2>5 DEF Regroup
  <2> QED BY <2>1, <2>6
<1> HIDE DEF G
<1>3. Seq(Sendable) \subseteq G
  BY <1>1, <1>2, SeqSet
<1> QED BY <1>3 DEF G

\* No shorter than what it stands for; the same where there is no blank;
\* and each "%" of it begins a blank.
Sound(t, e) ==
    /\ Len(e) >= Len(t)
    /\ (\A i \in 1 .. Len(t) : t[i] # " ") => e = t
    /\ \A i \in 1 .. Len(e) : e[i] = "%" => i + 1 \in 1 .. Len(e) /\ e[i + 1] = "2"

LEMMA EncodeSound == \A t \in Seq(Sendable) : Sound(t, UrlEncode(t))
<1> DEFINE G == {t \in Seq(Sendable) : Sound(t, UrlEncode(t))}
<1>1. <<>> \in G
  <2>1. <<>> \in Seq(Sendable) /\ Len(<<>>) = 0
    BY EmptySeq
  <2>2. Sound(<<>>, <<>>)
    BY <2>1 DEF Sound
  <2> QED BY <2>1, <2>2, EncodeEmpty
<1>2. ASSUME NEW t \in Seq(Sendable), NEW c \in Sendable, t \in G PROVE Append(t, c) \in G
  <2>1. PICK n \in Nat : n = Len(t)
    BY LenProperties
  <2>2. PICK r \in Seq(Sendable) : /\ r = Append(t, c) /\ Len(r) = n + 1 /\ r[n + 1] = c
                                /\ \A i \in 1 .. n : r[i] = t[i]
    <3>1. /\ Append(t, c) \in Seq(Sendable) /\ Len(Append(t, c)) = n + 1 /\ Append(t, c)[n + 1] = c
          /\ \A i \in 1 .. n : Append(t, c)[i] = t[i]
      BY <2>1, AppendProperties
    <3> QED BY <3>1
  <2>3. PICK e \in Seq(Signs) : e = UrlEncode(t) /\ Len(e) \in Nat /\ Sound(t, e)
    BY <1>2, EncodeType, LenProperties
  <2>4. PICK d \in Seq(Signs) : d = Piece(c) /\ Len(d) \in Nat \ {0}
    BY PieceType
  <2>5. PICK f \in Seq(Signs) : f = UrlEncode(r) /\ f = e \o d /\ Len(f) = Len(e) + Len(d)
    <3>1. UrlEncode(r) = e \o d
      BY <2>2, <2>3, <2>4, EncodeAppend
    <3>2. e \o d \in Seq(Signs) /\ Len(e \o d) = Len(e) + Len(d)
      BY ConcatProperties
    <3> QED BY <3>1, <3>2
  <2>6. \A i \in 1 .. Len(e) + Len(d) : f[i] = IF i <= Len(e) THEN e[i] ELSE d[i - Len(e)]
    BY <2>5, ConcatProperties
  <2>7. Len(f) >= Len(r)
    <3>1. Len(e) >= n
      BY <2>1, <2>3 DEF Sound
    <3> QED BY <2>2, <2>3, <2>4, <2>5, <3>1
  <2>8. ASSUME \A i \in 1 .. Len(r) : r[i] # " " PROVE f = r
    <3>1. c # " " /\ \A i \in 1 .. n : t[i] # " "
      <4>1. n + 1 \in 1 .. Len(r) /\ \A i \in 1 .. n : i \in 1 .. Len(r)
        BY <2>2
      <4> QED BY <2>2, <2>8, <4>1
    <3>2. e = t
      BY <2>1, <2>3, <3>1 DEF Sound
    <3>3. d = <<c>> /\ c \in Signs
      BY <2>4, <3>1, PieceType DEF Sendable
    <3>4. Append(e, c) = e \o <<c>>
      BY <3>3, AppendIsConcat
    <3> QED BY <2>2, <2>5, <3>2, <3>3, <3>4
  <2>9. ASSUME NEW i \in 1 .. Len(f), f[i] = "%" PROVE i + 1 \in 1 .. Len(f) /\ f[i + 1] = "2"
    <3>1. CASE i <= Len(e)
      <4>1. i \in 1 .. Len(e) /\ e[i] = "%"
        BY <2>3, <2>4, <2>5, <2>6, <2>9, <3>1
      <4>2. i + 1 \in 1 .. Len(e) /\ e[i + 1] = "2"
        BY <2>3, <4>1 DEF Sound
      <4>3. i + 1 \in 1 .. Len(f) /\ i + 1 <= Len(e)
        BY <2>3, <2>4, <2>5, <4>2
      <4>4. f[i + 1] = e[i + 1]
        BY <2>5, <2>6, <4>3
      <4> QED BY <4>2, <4>3, <4>4
    <3>2. CASE ~(i <= Len(e))
      <4>1. PICK j \in 1 .. Len(d) : j = i - Len(e) /\ f[i] = d[j]
        <5>1. i - Len(e) \in 1 .. Len(d) /\ i \in 1 .. Len(e) + Len(d)
          BY <2>3, <2>4, <2>5, <3>2
        <5> QED BY <2>6, <3>2, <5>1
      <4>2. c = " "
        <5>1. ASSUME c # " " PROVE FALSE
          <6>1. d = <<c>> /\ Len(<<c>>) = 1 /\ <<c>>[1] = c
            BY <2>4, <5>1, PieceType
          <6>2. j = 1
            BY <4>1, <6>1
          <6> QED BY <2>9, <4>1, <6>1, <6>2 DEF Sendable
        <5> QED BY <5>1
      <4>3. d = Blank /\ Len(d) = 3
        BY <2>4, <4>2, PieceType, BlankIs
      <4>4. j = 1
        <5>1. Blank[2] = "2" /\ Blank[3] = "0"
          BY DEF Blank
        <5>2. j = 1 \/ j = 2 \/ j = 3
          BY <4>1, <4>3
        <5> QED BY <2>9, <4>1, <4>3, <5>1, <5>2
      <4>5. i + 1 \in 1 .. Len(f) /\ ~(i + 1 <= Len(e)) /\ (i + 1) - Len(e) = 2
        BY <2>3, <2>4, <2>5, <4>1, <4>3, <4>4
      <4>6. f[i + 1] = d[2]
        BY <2>5, <2>6, <4>5
      <4> QED BY <4>3, <4>5, <4>6, BlankIs
    <3> QED BY <3>1, <3>2
  <2>10. Sound(r, f)
    BY <2>7, <2>8, <2>9 DEF Sound
  <2> QED BY <2>2, <2>5, <2>10
<1> HIDE DEF G
<1>3. Seq(Sendable) \subseteq G
  BY <1>1, <1>2, SeqSet
<1> QED BY <1>3 DEF G

Space == " "
NoBlank(r) == \A i \in 1 .. Len(r) : r[i] # Space

LEMMA FirstBlank ==
  ASSUME NEW r \in Seq(Sendable), ~NoBlank(r)
  PROVE  \E a, b \in Seq(Sendable) : NoBlank(a) /\ r = a \o (<<Space>> \o b)
<1> DEFINE blanks == {i \in 1 .. Len(r) : r[i] = Space}
<1>1. PICK n \in Nat : n = Len(r)
  BY LenProperties
<1>2. blanks \subseteq Nat /\ blanks # {}
  <2>1. \E i \in 1 .. Len(r) : r[i] = Space
    BY DEF NoBlank
  <2> QED BY <1>1, <2>1
<1>3. PICK k \in blanks : \A j \in blanks : k <= j
  <2> HIDE DEF blanks
  <2> QED BY <1>2, LeastOf
<1>4. k \in 1 .. n /\ r[k] = Space /\ \A j \in 1 .. n : r[j] = Space => k <= j
  BY <1>1, <1>3
<1> HIDE DEF blanks
<1>5. PICK m \in Nat : k = m + 1 /\ m < n
  <2>1. k - 1 \in Nat /\ k = (k - 1) + 1 /\ k - 1 < n
    BY <1>1, <1>4
  <2> QED BY <2>1
<1>6. \A i \in 1 .. m : r[i] # Space /\ i \in 1 .. n
  <2>1. \A i \in 1 .. m : i \in 1 .. n /\ ~(k <= i)
    BY <1>5
  <2> QED BY <1>4, <2>1
<1>7. PICK a \in Seq(Sendable), c \in Seq(Sendable) :
         /\ a = SubSeq(r, 1, m) /\ Len(a) = m /\ r = a \o c
         /\ Len(c) = n - m
  <2>1. m \in 0 .. Len(r)
    BY <1>1, <1>5
  <2>2. /\ SubSeq(r, 1, m) \in Seq(Sendable) /\ Len(SubSeq(r, 1, m)) = m
        /\ SubSeq(r, m + 1, Len(r)) \in Seq(Sendable)
        /\ Len(SubSeq(r, m + 1, Len(r))) = Len(r) - m
        /\ SubSeq(r, 1, m) \o SubSeq(r, m + 1, Len(r)) = r
    BY <2>1, SplitAt
  <2> QED BY <1>1, <2>2
<1>8. c # <<>> /\ c[1] = Space
  <2>1. PICK i \in Nat : Len(c) = i /\ i = n - m /\ Len(a) = m
    <3>1. n - m \in Nat
      BY <1>1, <1>5
    <3> QED BY <1>7, <3>1
  <2>2. Len(c) \in Nat \ {0}
    BY <1>1, <1>5, <2>1
  <2>3. k \in 1 .. Len(a) + Len(c) /\ ~(k <= Len(a)) /\ k - Len(a) = 1
    BY <1>1, <1>4, <1>5, <2>1
  <2>4. (a \o c)[k] = c[k - Len(a)]
    BY <2>3, ConcatProperties
  <2>5. c # <<>>
    BY <2>2, EmptySeq
  <2>6. r[k] = c[1]
    BY <1>7, <2>3, <2>4
  <2> QED BY <1>4, <2>5, <2>6
<1>9. c = <<c[1]>> \o Tail(c) /\ Tail(c) \in Seq(Sendable)
  BY <1>8, HeadTail
<1>10. NoBlank(a)
  <2>1. m \in Nat /\ m <= Len(r)
    BY <1>1, <1>5
  <2>2. \A i \in 1 .. m : SubSeq(r, 1, m)[i] = r[i]
    BY <2>1, UpTo
  <2>3. \A i \in 1 .. m : a[i] = r[i]
    BY <1>7, <2>2
  <2> QED BY <1>6, <1>7, <2>3 DEF NoBlank
<1>11. c = <<Space>> \o Tail(c)
  <2>1. <<c[1]>> = <<Space>>
    BY <1>8
  <2> QED BY <1>9, <2>1
<1> QED BY <1>7, <1>9, <1>10, <1>11

\* Both are sequences of Signs.
LEMMA AskedLetters == ASSUME NEW t \in Seq(Sendable) PROVE t \in Seq(Signs)
<1>1. Sendable \subseteq Signs
  BY DEF Sendable
<1> QED BY <1>1, SeqLarger

LEMMA EncodeBlank == UrlEncode(<<Space>>) = Blank
<1>1. Space \in Sendable /\ <<>> \in Seq(Sendable)
  BY EmptySeq DEF Sendable, Signs, Space
<1>2. UrlEncode(Append(<<>>, Space)) = UrlEncode(<<>>) \o Piece(Space)
  BY <1>1, EncodeAppend
<1>3. Append(<<>>, Space) = <<Space>>
  OBVIOUS
<1>4. Piece(Space) = Blank /\ <<>> \o Blank = Blank
  BY <1>1, PieceType, BlankIs, ConcatEmptySeq DEF Space
<1> QED BY <1>2, <1>3, <1>4, EncodeEmpty

Further(p, r, s, q, t, u) ==
    q \o t = p \o r /\ u = q \o UrlEncode(t) /\ Len(q) \in Nat /\ Len(p) \in Nat /\ Len(q) > Len(p)

\* A turn decodes the first blank left, and what it leaves is shorter.
LEMMA BlankTurn ==
  ASSUME NEW p \in Seq(Sendable), NEW r \in Seq(Sendable), ~NoBlank(r), NEW s, s = p \o UrlEncode(r)
  PROVE  \E q, t \in Seq(Sendable) : Further(p, r, s, q, t, Replaced(s, Codes[2]))
<1>1. PICK a \in Seq(Sendable), b \in Seq(Sendable) : NoBlank(a) /\ r = a \o (<<Space>> \o b)
  BY FirstBlank
<1>2. PICK x \in Seq(Sendable) : x = <<Space>>
  <2>1. Space \in Sendable
    BY DEF Sendable, Signs, Space
  <2>2. <<Space>> \in Seq(Sendable)
    BY <2>1, OneOf
  <2> QED BY <2>2
<1>3. PICK y \in Seq(Signs) : y = UrlEncode(b)
  BY EncodeType
<1>4. UrlEncode(r) = a \o (Blank \o y)
  <2>1. x \o b \in Seq(Sendable)
    BY ConcatProperties
  <2>2. UrlEncode(x \o b) = UrlEncode(x) \o UrlEncode(b)
    BY EncodeConcat
  <2>3. UrlEncode(x) = Blank
    BY <1>2, EncodeBlank
  <2>4. UrlEncode(a) = a
    <3>1. Sound(a, UrlEncode(a))
      BY EncodeSound
    <3> QED BY <1>1, <3>1 DEF Sound, NoBlank, Space
  <2>5. UrlEncode(a \o (x \o b)) = UrlEncode(a) \o UrlEncode(x \o b)
    BY <2>1, EncodeConcat
  <2> QED BY <1>1, <1>2, <1>3, <2>2, <2>3, <2>4, <2>5
<1>5. a \in Seq(Signs) /\ p \in Seq(Signs) /\ Blank \in Seq(Signs)
  BY AskedLetters, BlankIs
<1>6. PICK u \in Seq(Sendable) : u = p \o a /\ Len(u) = Len(p) + Len(a)
  BY ConcatProperties
<1>7. s = u \o (Blank \o y)
  <2>1. Blank \o y \in Seq(Signs)
    BY <1>5, ConcatProperties
  <2>2. Regroup(p, a, Blank \o y)
    BY <1>5, <2>1, Regrouped
  <2> QED BY <1>4, <1>6, <2>2 DEF Regroup
<1>8. Replaced(s, Codes[2]) = Append(u, Space) \o y
  <2>1. u \in Seq(Signs) /\ Space \in Signs /\ Len(Blank) = 3
    BY AskedLetters, BlankIs DEF Signs, Space
  <2>2. \A i \in 1 .. Len(u) : u[i] # Blank[1]
    <3>1. \A i \in 1 .. Len(u) : u[i] \in Sendable
      BY ElementOfSeq
    <3> QED BY <3>1, BlankIs DEF Sendable
  <2>3. PICK code, w, c : code = Codes[2] /\ w = Blank /\ c = Space /\ code = <<w, c>>
    BY TheCodes DEF CodesAre, PairIs, Blank, Space
  <2>4. w \in Seq(Signs) /\ Len(w) = 3 /\ c \in Signs /\ u \in Seq(Signs)
    BY <1>5, <2>1, <2>3
  <2>5. \A i \in 1 .. Len(u) : u[i] # w[1]
    BY <2>2, <2>3
  <2>6. s = u \o (w \o y) /\ code = <<w, c>>
    BY <1>7, <2>3
  <2>7. y \in Seq(Signs)
    BY <1>3
  <2>8. FirstCode(s, u, w, y, c, code)
    BY <2>4, <2>5, <2>6 DEF FirstCode
  <2>9. Replaced(s, code) = Append(u, c) \o y
    BY <2>4, <2>7, <2>8, ReplacedFirst
  <2> QED BY <2>3, <2>9
<1>9. PICK q \in Seq(Sendable) : q = Append(u, Space) /\ Len(q) = Len(u) + 1 /\ q = u \o x
  <2>1. Space \in Sendable
    BY DEF Sendable, Signs, Space
  <2> QED BY <1>2, <2>1, AppendProperties, AppendIsConcat
<1>10. q \o b = p \o r
  <2>1. Regroup(u, x, b) /\ Regroup(p, a, x \o b)
    BY ConcatProperties, Regrouped
  <2> QED BY <1>1, <1>2, <1>6, <1>9, <2>1 DEF Regroup
<1>11. Len(q) > Len(p) /\ Len(q) \in Nat /\ Len(p) \in Nat
  <2>1. Len(p) \in Nat /\ Len(a) \in Nat
    BY LenProperties
  <2>2. Len(q) = (Len(p) + Len(a)) + 1
    BY <1>6, <1>9
  <2>3. \A i, j \in Nat : (i + j) + 1 > i /\ (i + j) + 1 \in Nat
    OBVIOUS
  <2> QED BY <2>1, <2>2, <2>3
<1>12. Further(p, r, s, q, b, Replaced(s, Codes[2]))
  BY <1>3, <1>8, <1>9, <1>10, <1>11 DEF Further
<1> QED BY <1>12

LEMMA BlanksDecoded ==
  ASSUME NEW t \in Seq(Sendable) PROVE Decoded(UrlEncode(t), Codes[2]) = t
<1>1. PICK e \in Seq(Signs) : e = UrlEncode(t) /\ Sound(t, e)
  BY EncodeType, EncodeSound
<1>2. PICK n \in Nat : n = Len(e)
  BY LenProperties
<1>3. Codes[2][2] \in Signs /\ Codes[2][1][1] = "%"
  BY CodeType
<1>4. PICK f : Replaces(e, Codes[2], n, f) /\ Decoded(e, Codes[2]) = f[n]
  BY <1>2, <1>3, DecodedIs
<1>5. f[0] = e /\ \A i \in Nat : i < n => f[i + 1] = Replaced(f[i], Codes[2])
  BY <1>4, ReplacesStep
<1>6. t \in Seq(Signs) /\ \A i \in 1 .. Len(t) : t[i] # "%"
  BY AskedLetters, ElementOfSeq DEF Sendable
<1> DEFINE At1(k, p, r) == t = p \o r /\ f[k] = p \o UrlEncode(r) /\ (NoBlank(r) \/ Len(p) >= k)
           G == {k \in Nat : \E p, r \in Seq(Sendable) : At1(k, p, r)}
<1>7. 0 \in G
  <2>1. <<>> \in Seq(Sendable) /\ Len(<<>>) = 0
    BY EmptySeq
  <2>2. <<>> \o t = t /\ <<>> \o e = e
    BY ConcatEmptySeq
  <2>3. At1(0, <<>>, t)
    BY <1>1, <1>5, <2>1, <2>2
  <2> QED BY <2>1, <2>3
<1>8. \A k \in Nat : k < n /\ k \in G => k + 1 \in G
  <2> SUFFICES ASSUME NEW k \in Nat, k < n, k \in G
               PROVE  k + 1 \in G
    OBVIOUS
  <2>1. PICK p \in Seq(Sendable), r \in Seq(Sendable) : At1(k, p, r)
    OBVIOUS
  <2> SUFFICES \E q, u \in Seq(Sendable) : At1(k + 1, q, u)
    <3> HIDE DEF At1
    <3>1. k + 1 \in Nat
      OBVIOUS
    <3> QED BY <3>1
  <2>2. f[k + 1] = Replaced(f[k], Codes[2])
    BY <1>5
  <2>3. CASE NoBlank(r)
    <3>1. UrlEncode(r) = r
      <4>1. Sound(r, UrlEncode(r))
        BY EncodeSound
      <4> QED BY <2>3, <4>1 DEF Sound, NoBlank, Space
    <3>2. f[k] = t
      BY <2>1, <3>1
    <3>3. At(t, Codes[2][1]) = {}
      <4> SUFFICES ASSUME NEW j \in At(t, Codes[2][1]) PROVE FALSE
        OBVIOUS
      <4>1. BeginsAt(t, Codes[2][1], j)
        BY <1>6, AtIs
      <4> QED BY <1>3, <1>6, <4>1 DEF BeginsAt
    <3>4. f[k + 1] = f[k]
      BY <2>2, <3>2, <3>3, ReplacedNot
    <3>5. At1(k + 1, p, r)
      BY <2>1, <2>3, <3>4
    <3> QED BY <3>5
  <2>4. CASE ~NoBlank(r)
    <3>1. PICK q \in Seq(Sendable), u \in Seq(Sendable) :
             Further(p, r, f[k], q, u, Replaced(f[k], Codes[2]))
      BY <2>1, <2>4, BlankTurn
    <3>2. Len(q) >= k + 1
      BY <2>1, <2>4, <3>1 DEF Further
    <3>3. At1(k + 1, q, u)
      BY <2>1, <2>2, <3>1, <3>2 DEF Further
    <3> QED BY <3>3
  <2> QED BY <2>3, <2>4
<1> HIDE DEF G
<1>9. n \in G
  BY <1>7, <1>8, Reached
<1>10. PICK p \in Seq(Sendable), r \in Seq(Sendable) : At1(n, p, r)
  BY <1>9 DEF G
<1>11. NoBlank(r)
  <2>1. Len(p \o r) = Len(p) + Len(r) /\ Len(p) \in Nat /\ Len(r) \in Nat
    BY ConcatProperties, LenProperties
  <2>2. Len(e) >= Len(t)
    BY <1>1 DEF Sound
  <2>3. Len(p) >= n => Len(r) = 0
    BY <1>2, <1>10, <2>1, <2>2
  <2>4. Len(r) = 0 => NoBlank(r)
    <3>1. \A i \in 1 .. 0 : FALSE
      OBVIOUS
    <3> QED BY <3>1 DEF NoBlank
  <2> QED BY <1>10, <2>3, <2>4
<1>12. UrlEncode(r) = r
  <2>1. Sound(r, UrlEncode(r))
    BY EncodeSound
  <2> QED BY <1>11, <2>1 DEF Sound, NoBlank, Space
<1> QED BY <1>1, <1>4, <1>10, <1>12

LEMMA AskedThrough ==
  ASSUME NEW t \in Seq(Sendable) PROVE UrlDecode(UrlEncode(t)) = t
<1>1. PICK e \in Seq(Signs) : e = UrlEncode(t) /\ Sound(t, e)
  BY EncodeType, EncodeSound
<1>2. Codes[1][2] \in Signs /\ Codes[1][1][1] = "%" /\ Codes[1][1][2] = "0"
  <2>1. Codes[1][1] = <<"%", "0", "a">>
    BY TheCodes DEF CodesAre, PairIs
  <2>2. <<"%", "0", "a">>[2] = "0"
    OBVIOUS
  <2> QED BY <2>1, <2>2, CodeType
<1>3. At(e, Codes[1][1]) = {}
  <2> SUFFICES ASSUME NEW j \in At(e, Codes[1][1]) PROVE FALSE
    OBVIOUS
  <2>1. BeginsAt(e, Codes[1][1], j)
    BY AtIs
  <2>2. e[j] = "%" /\ e[j + 1] = "0" /\ j \in 1 .. Len(e)
    BY <1>2, <2>1 DEF BeginsAt
  <2>3. e[j + 1] = "2"
    BY <1>1, <2>2 DEF Sound
  <2> QED BY <2>2, <2>3
<1>4. Decoded(e, Codes[1]) = e
  BY <1>2, <1>3, DecodedNot
<1>5. Decoded(e, Codes[2]) = t
  BY <1>1, BlanksDecoded
<1>6. t \in Seq(Signs) /\ \A i \in 1 .. Len(t) : t[i] # "%"
  BY AskedLetters, ElementOfSeq DEF Sendable
<1>7. Decoded(t, Codes[3]) = t /\ Decoded(t, Codes[4]) = t
  BY <1>6, NoCode
<1> QED BY <1>1, <1>4, <1>5, <1>7, UrlDecodeInOrder

\* A text comes through its address.
LEMMA TextRight == ASSUME NEW text \in Seq(STRING) PROVE AskedRight(text)
<1> SUFFICES ASSUME \A i \in DOMAIN text : text[i] \notin {"\n", "~", "%"}
             PROVE  UrlDecode(UrlEncode(text)) = text
  BY DEF AskedRight
<1>1. /\ Len(text) \in Nat /\ DOMAIN text = 1 .. Len(text)
      /\ \A i \in 1 .. Len(text) : text[i] \in STRING
  BY LenProperties, ElementOfSeq
<1>2. \A i \in 1 .. Len(text) : text[i] \in Sendable
  BY <1>1 DEF Sendable, Signs, Space
<1>3. text \in [1 .. Len(text) -> Sendable]
  BY <1>1, <1>2, LenProperties
<1>4. text \in Seq(Sendable)
  BY <1>1, <1>3
<1> QED BY <1>4, AskedThrough
-----------------------------------------------------------------------------
\* Tokens without a "%" in their text, and what they add to a text.
Plain == {x \in Tokens : x.kind = "text" => ~Percent(x.name)}
Says == [x \in Plain |-> IF x.kind = "text" THEN x.name ELSE <<>>]
TextTokens == {x \in Plain : x.kind = "text"}

LEMMA TokenIs == ASSUME NEW x \in Tokens PROVE x.name \in Seq(Signs)
<1>1. x.name \in Seq(STRING)
  BY DEF Tokens
<1>2. STRING \subseteq Signs
  BY DEF Signs
<1> QED BY <1>1, <1>2, SeqLarger

LEMMA ToldType == Says \in [Plain -> Seq(Signs)]
<1>1. \A x \in Plain : x.name \in Seq(Signs)
  BY TokenIs DEF Plain
<1>2. <<>> \in Seq(Signs)
  BY EmptySeq
<1> QED BY <1>1, <1>2 DEF Says

\* Only texts have something to tell.
LEMMA TextsTold ==
  \A s \in Seq(Plain) :
     FlattenSeq(Mapped(Says, Only(s, TextTokens))) = FlattenSeq(Mapped(Says, s))
<1> DEFINE G == {s \in Seq(Plain) :
                    FlattenSeq(Mapped(Says, Only(s, TextTokens))) = FlattenSeq(Mapped(Says, s))}
<1>1. <<>> \in G
  BY OnlyEmpty, EmptySeq
<1>2. ASSUME NEW s \in Seq(Plain), NEW x \in Plain, s \in G PROVE Append(s, x) \in G
  <2>1. PICK r \in Seq(Plain) : r = Append(s, x)
    BY AppendProperties
  <2>2. PICK o \in Seq(Plain) : o = Only(s, TextTokens)
    BY OnlySeq
  <2>3. PICK p \in Seq(Seq(Signs)) : p = Mapped(Says, o)
    BY ToldType, MappedType
  <2>4. PICK q \in Seq(Seq(Signs)) : q = Mapped(Says, s)
    BY ToldType, MappedType
  <2>5. PICK y \in Seq(Signs) : y = Says[x]
    BY ToldType
  <2>6. Mapped(Says, r) = Append(q, y)
    BY <2>1, <2>4, <2>5, ToldType, MappedAppend
  <2>7. FlattenSeq(Mapped(Says, r)) = FlattenSeq(q) \o y
    BY <2>6, FlattenAppend
  <2>8. FlattenSeq(p) = FlattenSeq(q)
    BY <1>2, <2>2, <2>3, <2>4
  <2>9. Only(r, TextTokens) = IF x \in TextTokens THEN Append(o, x) ELSE o
    BY <2>1, <2>2, OnlyAppend
  <2>10. FlattenSeq(Mapped(Says, Only(r, TextTokens))) = FlattenSeq(p) \o y
    <3>1. CASE x \in TextTokens
      <4>1. Mapped(Says, Append(o, x)) = Append(p, y)
        BY <2>3, <2>5, ToldType, MappedAppend
      <4>2. FlattenSeq(Mapped(Says, Append(o, x))) = FlattenSeq(p) \o y
        BY <4>1, FlattenAppend
      <4> QED BY <2>9, <3>1, <4>2
    <3>2. CASE x \notin TextTokens
      <4>1. y = <<>>
        BY <2>5, <3>2 DEF Says, TextTokens
      <4>2. FlattenSeq(p) \o <<>> = FlattenSeq(p)
        BY FlattenType, ConcatEmptySeq
      <4> QED BY <2>3, <2>9, <3>2, <4>1, <4>2
    <3> QED BY <3>1, <3>2
  <2>11. r \in G
    BY <2>7, <2>8, <2>10
  <2> QED BY <2>1, <2>11
<1> HIDE DEF G
<1>3. Seq(Plain) \subseteq G
  BY <1>1, <1>2, SeqSet
<1> QED BY <1>3 DEF G

LEMMA TextsOf ==
  ASSUME NEW doc \in Seq(Tokens),
         \A i \in DOMAIN doc : doc[i].kind = "text" => ~Percent(doc[i].name)
  PROVE  HtmlToText(doc) =
            FlattenSeq([i \in DOMAIN doc |->
                           IF doc[i].kind = "text" THEN doc[i].name ELSE <<>>])
<1>1. /\ Len(doc) \in Nat /\ DOMAIN doc = 1 .. Len(doc)
      /\ \A i \in 1 .. Len(doc) : doc[i] \in Plain
  BY LenProperties, ElementOfSeq DEF Plain
<1>2. doc \in Seq(Plain)
  <2>1. doc \in [1 .. Len(doc) -> Plain]
    BY <1>1, LenProperties
  <2> QED BY <1>1, <2>1
<1> DEFINE S == {t \in ToSet(doc) : t.kind = "text"}
<1>3. \A i \in 1 .. Len(doc) : doc[i] \in S <=> doc[i] \in TextTokens
  BY <1>1 DEF ToSet, TextTokens
<1>4. HtmlToText(doc) =
         FlattenSeq([i \in DOMAIN Only(doc, S) |-> UrlDecode(Only(doc, S)[i].name)])
  BY DEF HtmlToText
<1> HIDE DEF S
<1>5. PICK o \in Seq(Plain \cap TextTokens) : o = Only(doc, S) /\ o = Only(doc, TextTokens)
  <2>1. Only(doc, S) = Only(doc, TextTokens)
    BY <1>1, <1>3, OnlyAgree
  <2>2. Only(doc, TextTokens) \in Seq(Plain \cap TextTokens)
    BY <1>2, OnlyType
  <2> QED BY <2>1, <2>2
<1>6. \A i \in DOMAIN o : UrlDecode(o[i].name) = Says[o[i]]
  <2> SUFFICES ASSUME NEW i \in DOMAIN o PROVE UrlDecode(o[i].name) = Says[o[i]]
    OBVIOUS
  <2>1. PICK x \in Plain \cap TextTokens : x = o[i]
    BY LenProperties, ElementOfSeq
  <2>2. x.name \in Seq(Signs) /\ x.kind = "text" /\ ~Percent(x.name)
    BY TokenIs DEF Plain, TextTokens
  <2>3. \A k \in 1 .. Len(x.name) : x.name[k] # "%"
    BY <2>2, LenProperties DEF Percent
  <2>4. UrlDecode(x.name) = x.name
    BY <2>2, <2>3, NothingDecoded
  <2>5. Says[x] = x.name
    BY <2>2 DEF Says
  <2> QED BY <2>1, <2>4, <2>5
<1>7. HtmlToText(doc) = FlattenSeq(Mapped(Says, o))
  BY <1>4, <1>5, <1>6 DEF Mapped
<1>8. \A i \in DOMAIN doc :
         Says[doc[i]] = IF doc[i].kind = "text" THEN doc[i].name ELSE <<>>
  BY <1>1 DEF Says
<1>9. Mapped(Says, doc) = [i \in DOMAIN doc |->
                               IF doc[i].kind = "text" THEN doc[i].name ELSE <<>>]
  BY <1>8 DEF Mapped
<1> QED BY <1>2, <1>5, <1>7, <1>9, TextsTold
-----------------------------------------------------------------------------
LEMMA NumberType == ASSUME NEW doc, NEW kind, NEW i \in Nat PROVE NumberOf(doc, kind, i) \in Nat
<1>1. IsFiniteSet(1 .. i)
  BY FS_Interval
<1>2. {j \in 1 .. i : doc[j].kind = kind} \subseteq 1 .. i
  OBVIOUS
<1>3. IsFiniteSet({j \in 1 .. i : doc[j].kind = kind})
  BY <1>1, <1>2, FS_Subset
<1> QED BY <1>3, FS_CardinalityType DEF NumberOf

LEMMA LevelType == ASSUME NEW doc, NEW i \in Nat PROVE Level(doc, i) \in Int
BY NumberType DEF Level

\* The first end that brings the level back to 0 is the partner of the first tag.
LEMMA ElementRead ==
  ASSUME NEW doc \in Seq(Tokens), WellFormed(doc), doc # <<>>, doc[1].kind = "open"
  PROVE  Partner(doc, 1, Len(ReadElement(doc)))
<1>1. PICK n \in Nat : n = Len(doc) /\ DOMAIN doc = 1 .. n /\ 1 \in 1 .. n
  <2>1. Len(doc) \in Nat /\ Len(doc) # 0 /\ DOMAIN doc = 1 .. Len(doc)
    BY EmptySeq, LenProperties
  <2> QED BY <2>1
<1>2. PICK j \in 1 .. n : Partner(doc, 1, j)
  BY <1>1 DEF WellFormed
<1>3. /\ 1 < j /\ doc[j].kind = "close" /\ Level(doc, 1) = Level(doc, j) + 1
      /\ \A k \in 2 .. j - 1 : Level(doc, k) >= Level(doc, 1)
  <2>1. 1 + 1 = 2
    OBVIOUS
  <2> QED BY <1>2, <2>1 DEF Partner
<1>4. Level(doc, 1) = 1
  <2>1. {i \in 1 .. 1 : doc[i].kind = "open"} = {1}
    OBVIOUS
  <2>2. {i \in 1 .. 1 : doc[i].kind = "close"} = {}
    OBVIOUS
  <2>3. Cardinality({1}) = 1 /\ Cardinality({}) = 0
    BY FS_Singleton, FS_EmptySet
  <2>4. NumberOf(doc, "open", 1) = 1 /\ NumberOf(doc, "close", 1) = 0
    BY <2>1, <2>2, <2>3 DEF NumberOf
  <2> QED BY <2>4 DEF Level
<1>5. Level(doc, j) = 0
  <2>1. Level(doc, j) \in Int
    BY <1>1, LevelType
  <2> QED BY <1>3, <1>4, <2>1
<1> DEFINE Ends == {i \in DOMAIN doc : doc[i].kind = "close" /\ Level(doc, i) = 0}
<1>6. j \in Ends /\ Ends \subseteq 1 .. n
  BY <1>1, <1>3, <1>5
<1>7. ASSUME NEW i \in Ends PROVE j <= i
  <2>1. i \in 1 .. n /\ Level(doc, i) = 0
    BY <1>1, <1>7
  <2>2. i # 1
    BY <1>4, <2>1
  <2>3. ~(i \in 2 .. j - 1)
    <3> SUFFICES ASSUME i \in 2 .. j - 1 PROVE FALSE
      OBVIOUS
    <3>1. Level(doc, i) >= Level(doc, 1)
      BY <1>3
    <3> QED BY <1>4, <2>1, <3>1
  <2> QED BY <1>1, <2>1, <2>2, <2>3
<1>8. ReadElement(doc) = SubSeq(doc, 1, CHOOSE i \in Ends \cup {Len(doc)} : \A k \in Ends : i <= k)
  BY DEF ReadElement
<1> HIDE DEF Ends
<1>9. PICK m : m = CHOOSE i \in Ends \cup {Len(doc)} : \A k \in Ends : i <= k
  OBVIOUS
<1>10. m \in Ends \cup {Len(doc)} /\ \A k \in Ends : m <= k
  <2>1. \E i \in Ends \cup {Len(doc)} : \A k \in Ends : i <= k
    BY <1>6, <1>7
  <2> QED BY <1>9, <2>1
<1>11. m = j
  <2>1. m <= j
    BY <1>6, <1>10
  <2>2. j <= m /\ m \in Nat
    BY <1>1, <1>6, <1>7, <1>10
  <2> QED BY <1>1, <2>1, <2>2
<1>12. Len(SubSeq(doc, 1, j)) = j
  <2>1. j \in Nat /\ j <= Len(doc)
    BY <1>1
  <2> QED BY <2>1, UpTo
<1> QED BY <1>2, <1>8, <1>9, <1>11, <1>12
-----------------------------------------------------------------------------
\* The first of some places, or the one after the last.
FirstAmong(S, m) == CHOOSE i \in S \cup {m} : \A j \in S : i <= j

LEMMA FirstIs ==
  ASSUME NEW n \in Nat, NEW S, S \subseteq 1 .. n, NEW m, m = n + 1
  PROVE  /\ FirstAmong(S, m) \in S \cup {m}
         /\ S = {} => FirstAmong(S, m) = m
         /\ \A p \in S : (\A j \in S : p <= j) => FirstAmong(S, m) = p
<1>1. \E i \in S \cup {m} : \A j \in S : i <= j
  <2>1. CASE S = {}
    BY <2>1
  <2>2. CASE S # {}
    <3>1. S \subseteq Nat
      OBVIOUS
    <3> QED BY <2>2, <3>1, LeastOf
  <2> QED BY <2>1, <2>2
<1>2. FirstAmong(S, m) \in S \cup {m} /\ \A j \in S : FirstAmong(S, m) <= j
  BY <1>1 DEF FirstAmong
<1>3. ASSUME NEW p \in S, \A j \in S : p <= j PROVE FirstAmong(S, m) = p
  <2>1. PICK f \in S \cup {m} : f = FirstAmong(S, m) /\ \A j \in S : f <= j
    BY <1>2
  <2>2. f <= p /\ p \in 1 .. n
    BY <2>1
  <2>3. f # m
    BY <2>2
  <2>4. f \in 1 .. n /\ p <= f
    BY <1>3, <2>1, <2>3
  <2> QED BY <2>1, <2>2, <2>4
<1> QED BY <1>2, <1>3
-----------------------------------------------------------------------------
\* One read_tag.
Openings(w, tag) == {k \in DOMAIN w : Opens(w[k], tag)}
Closings(w, tag, i) == {k \in i + 1 .. Len(w) : Closes(w[k], tag)}
ReadAs(w, tag, i, j) ==
    ReadTag(w, tag) = [good |-> j <= Len(w), os |-> SubSeq(w, i + 1, j - 1),
                       rest |-> SubSeq(w, j + 1, Len(w))]

LEMMA ReadIs ==
  ASSUME NEW w, NEW tag, NEW i, i = FirstAmong(Openings(w, tag), Len(w) + 1),
         NEW j, j = FirstAmong(Closings(w, tag, i), Len(w) + 1)
  PROVE  ReadAs(w, tag, i, j)
BY DEF ReadAs, ReadTag, FirstAmong, Openings, Closings

Finding == [rest : Seq(Tokens), found : Seq(Seq(Tokens))]

LEMMA NextTagType ==
  ASSUME NEW x \in Finding, NEW tag PROVE NextTag(x, tag) \in Finding
<1>1. PICK w \in Seq(Tokens), f \in Seq(Seq(Tokens)) : x = [rest |-> w, found |-> f]
  BY DEF Finding
<1>2. PICK n \in Nat : n = Len(w) /\ DOMAIN w = 1 .. n
  BY LenProperties
<1>3. PICK i : i = FirstAmong(Openings(w, tag), Len(w) + 1)
  OBVIOUS
<1>4. PICK j : j = FirstAmong(Closings(w, tag, i), Len(w) + 1)
  OBVIOUS
<1>5. ReadAs(w, tag, i, j)
  BY <1>3, <1>4, ReadIs
<1>6. i \in 1 .. n + 1
  <2>1. Openings(w, tag) \subseteq 1 .. n
    BY <1>2 DEF Openings
  <2>2. i \in Openings(w, tag) \cup {n + 1}
    BY <1>2, <1>3, <2>1, FirstIs
  <2> QED BY <1>2, <2>1, <2>2
<1>7. j \in 1 .. n + 1
  <2>1. Closings(w, tag, i) \subseteq 1 .. n
    BY <1>2, <1>6 DEF Closings
  <2>2. j \in Closings(w, tag, i) \cup {n + 1}
    BY <1>2, <1>4, <2>1, FirstIs
  <2> QED BY <1>2, <2>1, <2>2
<1>8. SubSeq(w, j + 1, n) \in Seq(Tokens)
  <2>1. j + 1 \in Int /\ n \in Int /\ \A k \in j + 1 .. n : k \in 1 .. n
    BY <1>2, <1>7
  <2>2. \A k \in j + 1 .. n : w[k] \in Tokens
    BY <1>2, <2>1, ElementOfSeq
  <2> QED BY <2>1, <2>2, SubSeqProperties
<1>9. SubSeq(w, i + 1, j - 1) \in Seq(Tokens)
  <2>1. i + 1 \in Int /\ j - 1 \in Int /\ \A k \in i + 1 .. j - 1 : k \in 1 .. n
    BY <1>2, <1>6, <1>7
  <2>2. \A k \in i + 1 .. j - 1 : w[k] \in Tokens
    BY <1>2, <2>1, ElementOfSeq
  <2> QED BY <2>1, <2>2, SubSeqProperties
<1>10. PICK r : r = ReadTag(w, tag)
  OBVIOUS
<1>11. r.os \in Seq(Tokens) /\ r.rest \in Seq(Tokens)
  <2>1. r = [good |-> j <= n, os |-> SubSeq(w, i + 1, j - 1), rest |-> SubSeq(w, j + 1, n)]
    BY <1>2, <1>5, <1>10 DEF ReadAs
  <2> QED BY <1>8, <1>9, <2>1
<1>12. NextTag(x, tag) = IF r.good THEN [rest |-> r.rest, found |-> Append(f, r.os)] ELSE x
  <2>1. x.rest = w /\ x.found = f
    BY <1>1
  <2> QED BY <1>10, <2>1 DEF NextTag
<1>13. Append(f, r.os) \in Seq(Seq(Tokens))
  BY <1>11, AppendProperties
<1>14. [rest |-> r.rest, found |-> Append(f, r.os)] \in Finding
  BY <1>11, <1>13 DEF Finding
<1> QED BY <1>12, <1>14

\* The turns of the loop.
Reads(doc, tag, n, f) ==
    f = [i \in 0 .. n |-> IF i = 0 THEN [rest |-> doc, found |-> <<>>] ELSE NextTag(f[i - 1], tag)]

LEMMA TagsIs ==
  ASSUME NEW doc \in Seq(Tokens), NEW tag, NEW n, n = Len(doc)
  PROVE  \E f : Reads(doc, tag, n, f) /\ Tags(doc, tag) = f[n].found
<1> DEFINE S == Finding
           a == [rest |-> doc, found |-> <<>>]
           F == [p \in S \X (1 .. n) |-> NextTag(p[1], tag)]
<1>1. n \in Nat
  BY LenProperties
<1>2. \A x \in S, i \in 1 .. n : F[<<x, i>>] = NextTag(x, tag) /\ F[<<x, i>>] \in S
  BY NextTagType
<1>3. a \in S
  BY EmptySeq DEF Finding
<1> HIDE DEF F, S, a
<1>4. PICK f \in [0 .. n -> S] : Turns(a, n, F, f)
  <2>1. Turning(S, n, F)
    BY <1>2 DEF Turning
  <2> QED BY <1>1, <1>3, <2>1, TurnsExist
<1>5. \A i \in 0 .. n : (IF i = 0 THEN a ELSE F[<<f[i - 1], i>>])
                        = IF i = 0 THEN a ELSE NextTag(f[i - 1], tag)
  <2> SUFFICES ASSUME NEW i \in 0 .. n, i # 0 PROVE F[<<f[i - 1], i>>] = NextTag(f[i - 1], tag)
    OBVIOUS
  <2>1. i \in 1 .. n /\ i - 1 \in 0 .. n
    BY <1>1
  <2>2. f[i - 1] \in S
    BY <2>1
  <2> QED BY <1>2, <2>1, <2>2
<1>6. f = [i \in 0 .. n |-> IF i = 0 THEN a ELSE NextTag(f[i - 1], tag)]
  BY <1>4, <1>5 DEF Turns
<1>7. Reads(doc, tag, n, f)
  BY <1>6 DEF Reads, a
<1> QED BY <1>7 DEF Tags, Reads

LEMMA ReadsStep ==
  ASSUME NEW doc, NEW tag, NEW n \in Nat, NEW f, Reads(doc, tag, n, f)
  PROVE  /\ f[0] = [rest |-> doc, found |-> <<>>]
         /\ \A i \in Nat : i < n => f[i + 1] = NextTag(f[i], tag)
<1> DEFINE a == [rest |-> doc, found |-> <<>>]
           g == [i \in 0 .. n |-> IF i = 0 THEN a ELSE NextTag(f[i - 1], tag)]
<1>1. f = g
  BY DEF Reads
<1>2. g[0] = a
  OBVIOUS
<1>3. ASSUME NEW i \in Nat, i < n PROVE g[i + 1] = NextTag(f[i], tag)
  <2>1. i + 1 \in 0 .. n /\ i + 1 # 0 /\ (i + 1) - 1 = i
    BY <1>3
  <2> QED BY <2>1
<1> HIDE DEF g, a
<1>4. f[0] = a /\ \A i \in Nat : i < n => f[i + 1] = NextTag(f[i], tag)
  BY <1>1, <1>2, <1>3
<1> QED BY <1>4 DEF a
-----------------------------------------------------------------------------
\* Where the elements of a page begin and end, and those that begin up
\* to a place.
EndOf(doc, i) == CHOOSE j \in DOMAIN doc : Partner(doc, i, j)
Insides(doc, tag) == [i \in Openings(doc, tag) |-> SubSeq(doc, i + 1, EndOf(doc, i) - 1)]
Places(q) == [i \in 1 .. q |-> i]
Begun(doc, tag, q) == Only(Places(q), Openings(doc, tag))
Taken(doc, tag, q) == Mapped(Insides(doc, tag), Begun(doc, tag, q))

EndIs(doc, tag, i, j) ==
    /\ j = EndOf(doc, i) /\ i < j /\ j \in 1 .. Len(doc) /\ i \in 1 .. Len(doc)
    /\ Closes(doc[j], tag)
    /\ \A k \in i + 1 .. j : ~Opens(doc[k], tag)
    /\ \A k \in i + 1 .. j - 1 : ~Closes(doc[k], tag)

\* The first end of its kind after an opening tag is its partner.
LEMMA SimpleEnd ==
  ASSUME NEW doc \in Seq(Tokens), NEW tag, WellFormed(doc), Simple(doc, tag),
         NEW i \in Openings(doc, tag)
  PROVE  \E j \in Nat : EndIs(doc, tag, i, j)
<1>1. PICK n \in Nat : n = Len(doc) /\ DOMAIN doc = 1 .. n
  BY LenProperties
<1>2. i \in 1 .. n /\ Opens(doc[i], tag) /\ doc[i].kind = "open" /\ IsPrefix(tag, doc[i].name)
  BY <1>1 DEF Openings, Opens
<1>3. \E j \in DOMAIN doc : Partner(doc, i, j)
  BY <1>1, <1>2 DEF WellFormed
<1>4. PICK j \in 1 .. n : j = EndOf(doc, i) /\ Partner(doc, i, j)
  <2>1. EndOf(doc, i) \in DOMAIN doc /\ Partner(doc, i, EndOf(doc, i))
    BY <1>3 DEF EndOf
  <2> QED BY <1>1, <2>1
<1>5. i < j /\ doc[j].kind = "close" /\ doc[i].name = doc[j].name
  BY <1>4 DEF Partner
<1>6. \A k \in i + 1 .. j - 1 : ~IsPrefix(tag, doc[k].name)
  BY <1>1, <1>2, <1>4 DEF Simple
<1>7. Closes(doc[j], tag) /\ ~Opens(doc[j], tag)
  BY <1>2, <1>5 DEF Closes, Opens
<1>8. \A k \in i + 1 .. j - 1 : ~Opens(doc[k], tag) /\ ~Closes(doc[k], tag)
  BY <1>6 DEF Closes, Opens
<1>9. \A k \in i + 1 .. j : k \in i + 1 .. j - 1 \/ k = j
  BY <1>1, <1>2, <1>4
<1>10. \A k \in i + 1 .. j : ~Opens(doc[k], tag)
  BY <1>7, <1>8, <1>9
<1>11. j \in Nat
  BY <1>1, <1>4
<1> QED BY <1>1, <1>2, <1>4, <1>5, <1>7, <1>8, <1>10, <1>11 DEF EndIs
-----------------------------------------------------------------------------
LEMMA PlacesType ==
  ASSUME NEW q \in Nat PROVE Places(q) \in Seq(Nat) /\ Len(Places(q)) = q
BY DEF Places

LEMMA PlacesNext ==
  ASSUME NEW q \in Nat, NEW m, m = q + 1 PROVE Places(m) = Append(Places(q), m)
<1>1. m \in Nat /\ m = q + 1
  OBVIOUS
<1>2. PICK a \in Seq(Nat) : a = Places(m) /\ Len(a) = m /\ \A i \in 1 .. m : a[i] = i
  <2>1. Places(m) \in Seq(Nat) /\ Len(Places(m)) = m /\ \A i \in 1 .. m : Places(m)[i] = i
    BY <1>1, PlacesType DEF Places
  <2> QED BY <2>1
<1>3. PICK b \in Seq(Nat) : b = Places(q) /\ Len(b) = q /\ \A i \in 1 .. q : b[i] = i
  <2>1. Places(q) \in Seq(Nat) /\ Len(Places(q)) = q /\ \A i \in 1 .. q : Places(q)[i] = i
    BY PlacesType DEF Places
  <2> QED BY <2>1
<1>4. PICK c \in Seq(Nat) : /\ c = Append(b, m) /\ Len(c) = m /\ c[m] = m
                            /\ \A i \in 1 .. q : c[i] = b[i]
  <2>1. /\ Append(b, m) \in Seq(Nat) /\ Len(Append(b, m)) = q + 1 /\ Append(b, m)[q + 1] = m
        /\ \A i \in 1 .. q : Append(b, m)[i] = b[i]
    BY <1>1, <1>3, AppendProperties
  <2> QED BY <1>1, <2>1
<1>5. \A i \in 1 .. m : i \in 1 .. q \/ i = m
  BY <1>1
<1>6. \A i \in 1 .. m : a[i] = c[i]
  BY <1>2, <1>3, <1>4, <1>5
<1>7. a = c
  BY <1>2, <1>4, <1>6, SeqEqual
<1> QED BY <1>1, <1>2, <1>3, <1>4, <1>7

LEMMA BegunType ==
  ASSUME NEW doc, NEW tag, NEW q \in Nat PROVE Begun(doc, tag, q) \in Seq(Openings(doc, tag))
<1>1. Only(Places(q), Openings(doc, tag)) \in Seq(Nat \cap Openings(doc, tag))
  BY PlacesType, OnlyType
<1>2. Nat \cap Openings(doc, tag) \subseteq Openings(doc, tag)
  OBVIOUS
<1> QED BY <1>1, <1>2, SeqLarger DEF Begun

LEMMA BegunNext ==
  ASSUME NEW doc, NEW tag, NEW q \in Nat, NEW m, m = q + 1
  PROVE  Begun(doc, tag, m) = IF m \in Openings(doc, tag) THEN Append(Begun(doc, tag, q), m)
                               ELSE Begun(doc, tag, q)
<1>1. PICK p \in Seq(Nat) : p = Places(q) /\ Places(m) = Append(p, m)
  BY PlacesNext, PlacesType
<1>2. PICK T : m \in T /\ p \in Seq(T)
  <2>1. m \in Nat /\ p \in Seq(Nat)
    OBVIOUS
  <2> QED BY <2>1, Zenon
<1>3. PICK O : O = Openings(doc, tag)
  OBVIOUS
<1>4. Only(Append(p, m), O) = IF m \in O THEN Append(Only(p, O), m) ELSE Only(p, O)
  <2>1. \A x \in T : Only(Append(p, x), O) = IF x \in O THEN Append(Only(p, O), x) ELSE Only(p, O)
    BY <1>2, OnlyAppend
  <2> QED BY <1>2, <2>1
<1> QED BY <1>1, <1>3, <1>4 DEF Begun

\* Where nothing begins nothing is added.
LEMMA BegunSame ==
  ASSUME NEW doc, NEW tag, NEW a \in Nat, NEW b \in Nat, a <= b,
         \A k \in a + 1 .. b : k \notin Openings(doc, tag)
  PROVE  Begun(doc, tag, b) = Begun(doc, tag, a)
<1> DEFINE G == {k \in Nat : a + k <= b => Begun(doc, tag, a + k) = Begun(doc, tag, a)}
<1>1. 0 \in G
  OBVIOUS
<1>2. ASSUME NEW k \in G PROVE k + 1 \in G
  <2> SUFFICES ASSUME a + (k + 1) <= b
               PROVE  Begun(doc, tag, a + (k + 1)) = Begun(doc, tag, a)
    OBVIOUS
  <2>1. PICK q \in Nat, m \in Nat : q = a + k /\ m = q + 1 /\ m = a + (k + 1)
    <3>1. a + k \in Nat /\ a + (k + 1) \in Nat /\ (a + k) + 1 = a + (k + 1)
      OBVIOUS
    <3> QED BY <3>1
  <2>2. m \in a + 1 .. b /\ q <= b
    BY <2>1
  <2>3. Begun(doc, tag, m) = Begun(doc, tag, q)
    BY <2>1, <2>2, BegunNext
  <2>4. Begun(doc, tag, q) = Begun(doc, tag, a)
    BY <2>1, <2>2
  <2> QED BY <2>1, <2>3, <2>4
<1> HIDE DEF G
<1>3. G = Nat
  <2>1. G \subseteq Nat
    BY DEF G
  <2> QED BY <1>1, <1>2, <2>1, NatSet
<1>4. PICK k \in Nat : b = a + k
  <2>1. b - a \in Nat /\ b = a + (b - a)
    OBVIOUS
  <2> QED BY <2>1
<1>5. k \in G
  BY <1>3
<1> QED BY <1>4, <1>5 DEF G

LEMMA InsidesType ==
  ASSUME NEW doc \in Seq(Tokens), NEW tag, WellFormed(doc), Simple(doc, tag)
  PROVE  Insides(doc, tag) \in [Openings(doc, tag) -> Seq(Tokens)]
<1>1. ASSUME NEW i \in Openings(doc, tag)
      PROVE  SubSeq(doc, i + 1, EndOf(doc, i) - 1) \in Seq(Tokens)
  <2>1. PICK j \in Nat : EndIs(doc, tag, i, j)
    BY SimpleEnd
  <2>2. j = EndOf(doc, i) /\ j \in 1 .. Len(doc) /\ i \in 1 .. Len(doc) /\ Len(doc) \in Nat
    BY <2>1, LenProperties DEF EndIs
  <2>3. i + 1 \in Int /\ j - 1 \in Int /\ \A k \in i + 1 .. j - 1 : k \in 1 .. Len(doc)
    BY <2>2
  <2>4. \A k \in i + 1 .. j - 1 : doc[k] \in Tokens
    BY <2>3, ElementOfSeq
  <2>5. SubSeq(doc, i + 1, j - 1) \in Seq(Tokens)
    BY <2>3, <2>4, SubSeqProperties
  <2> QED BY <2>2, <2>5
<1> QED BY <1>1 DEF Insides

\* All of a page's elements are those that begin up to its end.
LEMMA ElementsTaken ==
  ASSUME NEW doc \in Seq(Tokens), NEW tag, NEW n, n = Len(doc)
  PROVE  Elements(doc, tag) = Taken(doc, tag, n)
<1>1. n \in Nat /\ DOMAIN doc = 1 .. n
  BY LenProperties
<1>2. [i \in DOMAIN doc |-> i] = Places(n)
  BY <1>1 DEF Places
<1>3. PICK s \in Seq(Openings(doc, tag)) : s = Begun(doc, tag, n)
  BY <1>1, BegunType
<1> DEFINE o == Only([i \in DOMAIN doc |-> i], {i \in DOMAIN doc : Opens(doc[i], tag)})
<1>4. Elements(doc, tag) = [k \in DOMAIN o |-> SubSeq(doc, o[k] + 1, EndOf(doc, o[k]) - 1)]
  BY DEF Elements, EndOf
<1>5. o = s
  BY <1>2, <1>3 DEF Begun, Openings
<1> HIDE DEF o
<1>6. Elements(doc, tag) = [k \in DOMAIN s |-> SubSeq(doc, s[k] + 1, EndOf(doc, s[k]) - 1)]
  BY <1>4, <1>5
<1>7. \A k \in DOMAIN s : Insides(doc, tag)[s[k]] = SubSeq(doc, s[k] + 1, EndOf(doc, s[k]) - 1)
  <2>1. \A k \in DOMAIN s : s[k] \in Openings(doc, tag)
    BY LenProperties, ElementOfSeq
  <2> QED BY <2>1 DEF Insides
<1>8. Mapped(Insides(doc, tag), s)
         = [k \in DOMAIN s |-> SubSeq(doc, s[k] + 1, EndOf(doc, s[k]) - 1)]
  BY <1>7 DEF Mapped
<1> QED BY <1>3, <1>6, <1>8 DEF Taken
-----------------------------------------------------------------------------
\* The loop stands at a place: it has what began up to there, and has the rest
\* to look at.
Stand(doc, tag, q, x) ==
    x = [rest |-> SubSeq(doc, q + 1, Len(doc)), found |-> Taken(doc, tag, q)]
NoMore(doc, tag, q) == \A k \in Openings(doc, tag) : k <= q

\* What is left of a page from a place on.
CutOff(s, q, m, n, w) == n = Len(s) /\ q + m = n /\ w = SubSeq(s, q + 1, n)
RestIs(T, s, q, m, w) == w \in Seq(T) /\ Len(w) = m /\ \A i \in 1 .. m : w[i] = s[q + i]

LEMMA CutOffIs ==
  ASSUME NEW T, NEW s \in Seq(T), NEW q \in Nat, NEW m \in Nat, NEW n, NEW w,
         CutOff(s, q, m, n, w)
  PROVE  RestIs(T, s, q, m, w)
<1>1. n = Len(s) /\ q + m = n /\ w = SubSeq(s, q + 1, n)
  BY DEF CutOff
<1>2. /\ SubSeq(s, q + 1, n) \in Seq(T) /\ Len(SubSeq(s, q + 1, n)) = m
      /\ \A i \in 1 .. m : SubSeq(s, q + 1, n)[i] = s[q + i]
  BY <1>1, Dropped
<1> QED BY <1>1, <1>2 DEF RestIs

\* A turn takes the first element that begins later.
LEMMA TurnOn ==
  ASSUME NEW doc \in Seq(Tokens), NEW tag, WellFormed(doc), Simple(doc, tag),
         NEW q \in Nat, q <= Len(doc), NEW x, Stand(doc, tag, q, x), ~NoMore(doc, tag, q)
  PROVE  \E p \in Nat : q < p /\ p <= Len(doc) /\ Stand(doc, tag, p, NextTag(x, tag))
<1>1. PICK n \in Nat : n = Len(doc) /\ DOMAIN doc = 1 .. n /\ q <= n
  BY LenProperties
<1>2. PICK w, f : /\ w = SubSeq(doc, q + 1, n) /\ f = Taken(doc, tag, q)
                  /\ x = [rest |-> w, found |-> f]
  BY <1>1 DEF Stand
<1>3. PICK m \in Nat : q + m = n
  <2>1. n - q \in Nat /\ q + (n - q) = n
    BY <1>1
  <2> QED BY <2>1
<1>4. w \in Seq(Tokens) /\ Len(w) = m /\ \A i \in 1 .. m : w[i] = doc[q + i]
  <2>1. CutOff(doc, q, m, n, w)
    BY <1>1, <1>2, <1>3 DEF CutOff
  <2>2. RestIs(Tokens, doc, q, m, w)
    BY <2>1, CutOffIs
  <2> QED BY <2>2 DEF RestIs
<1>5. DOMAIN w = 1 .. m
  BY <1>4, LenProperties
<1> DEFINE O == Openings(doc, tag)
           Later == {k \in O : q < k}
<1>6. O \subseteq 1 .. n
  BY <1>1 DEF Openings
<1>7. PICK i \in Later : \A k \in Later : i <= k
  <2>1. Later \subseteq Nat /\ Later # {}
    BY <1>6 DEF NoMore
  <2> HIDE DEF Later
  <2> QED BY <2>1, LeastOf
<1>8. i \in O /\ i \in 1 .. n /\ q < i /\ \A k \in O : q < k => i <= k
  BY <1>6, <1>7
<1> HIDE DEF O, Later
<1>9. PICK j \in Nat : EndIs(doc, tag, i, j)
  BY <1>8, SimpleEnd DEF O
<1>10. /\ j = EndOf(doc, i) /\ i < j /\ j \in 1 .. n
       /\ Closes(doc[j], tag)
       /\ \A k \in i + 1 .. j : ~Opens(doc[k], tag)
       /\ \A k \in i + 1 .. j - 1 : ~Closes(doc[k], tag)
  BY <1>1, <1>9 DEF EndIs
<1>11. PICK a \in 1 .. m, b \in 1 .. m : i = q + a /\ j = q + b /\ a < b
  <2>1. i - q \in 1 .. m /\ j - q \in 1 .. m /\ i = q + (i - q) /\ j = q + (j - q) /\ i - q < j - q
    BY <1>1, <1>3, <1>8, <1>10
  <2> QED BY <2>1
<1>12. PICK l \in Nat : l = m + 1 /\ l = Len(w) + 1
  BY <1>3, <1>4
<1>13. a = FirstAmong(Openings(w, tag), l)
  <2>1. Openings(w, tag) \subseteq 1 .. m
    BY <1>5 DEF Openings
  <2>2. a \in Openings(w, tag)
    BY <1>4, <1>5, <1>8, <1>11 DEF Openings, O
  <2>3. ASSUME NEW k \in Openings(w, tag) PROVE a <= k
    <3>1. k \in 1 .. m /\ Opens(w[k], tag)
      BY <1>5 DEF Openings
    <3>2. PICK c \in Nat : c = q + k /\ c \in 1 .. n /\ q < c
      BY <1>1, <1>3, <3>1
    <3>3. Opens(doc[c], tag)
      BY <1>4, <3>1, <3>2
    <3>4. c \in O
      BY <1>1, <3>2, <3>3 DEF Openings, O
    <3>5. i <= c
      BY <1>8, <3>2, <3>4
    <3> QED BY <1>3, <1>11, <3>1, <3>2, <3>5
  <2> QED BY <1>3, <1>12, <2>1, <2>2, <2>3, FirstIs
<1>14. b = FirstAmong(Closings(w, tag, a), l)
  <2>1. Closings(w, tag, a) \subseteq 1 .. m
    BY <1>3, <1>4, <1>11 DEF Closings
  <2>2. b \in Closings(w, tag, a)
    <3>1. b \in a + 1 .. m
      BY <1>3, <1>11
    <3>2. Closes(w[b], tag)
      BY <1>4, <1>10, <1>11
    <3> QED BY <1>4, <3>1, <3>2 DEF Closings
  <2>3. ASSUME NEW k \in Closings(w, tag, a) PROVE b <= k
    <3>1. k \in a + 1 .. m /\ k \in 1 .. m /\ Closes(w[k], tag)
      BY <1>3, <1>4, <1>11 DEF Closings
    <3>2. ASSUME ~(b <= k) PROVE FALSE
      <4>1. q + k \in i + 1 .. j - 1
        BY <1>3, <1>11, <3>1, <3>2
      <4>2. Closes(doc[q + k], tag)
        BY <1>4, <3>1
      <4> QED BY <1>10, <4>1, <4>2
    <3> QED BY <3>2
  <2> QED BY <1>3, <1>12, <2>1, <2>2, <2>3, FirstIs
<1>15. PICK r : r = ReadTag(w, tag)
  OBVIOUS
<1>16. /\ r.good /\ r.os = SubSeq(w, a + 1, b - 1) /\ r.rest = SubSeq(w, b + 1, m)
  <2>1. ReadAs(w, tag, a, b)
    BY <1>12, <1>13, <1>14, ReadIs
  <2>2. r = [good |-> b <= m, os |-> SubSeq(w, a + 1, b - 1), rest |-> SubSeq(w, b + 1, m)]
    BY <1>4, <1>15, <2>1 DEF ReadAs
  <2>3. (b <= m) = TRUE
    BY <1>3, <1>11
  <2>4. r = [good |-> TRUE, os |-> SubSeq(w, a + 1, b - 1), rest |-> SubSeq(w, b + 1, m)]
    BY <2>2, <2>3
  <2> QED BY <2>4
<1>17. r.os = SubSeq(doc, i + 1, j - 1)
  <2>1. PICK c \in Nat \ {0}, d \in Nat, k \in Nat, u \in Nat, z \in Nat :
           /\ c = a + 1 /\ d = b - 1 /\ c + k = d + 1 /\ d <= m
           /\ u = q + c /\ z = q + d /\ u = i + 1 /\ z = j - 1
    <3>1. /\ a + 1 \in Nat \ {0} /\ b - 1 \in Nat /\ (b - a) - 1 \in Nat
          /\ (a + 1) + ((b - a) - 1) = (b - 1) + 1 /\ b - 1 <= m
          /\ q + (a + 1) = i + 1 /\ q + (b - 1) = j - 1 /\ i + 1 \in Nat /\ j - 1 \in Nat
      BY <1>3, <1>11
    <3> QED BY <3>1
  <2>2. SubSeq(w, c, d) = SubSeq(doc, u, z)
    BY <1>1, <1>2, <1>3, <2>1, Shifted
  <2> QED BY <1>16, <2>1, <2>2
<1>18. r.rest = SubSeq(doc, j + 1, n)
  <2>1. PICK c \in Nat \ {0}, k \in Nat, u \in Nat :
           c = b + 1 /\ c + k = m + 1 /\ u = q + c /\ u = j + 1
    <3>1. /\ b + 1 \in Nat \ {0} /\ m - b \in Nat /\ (b + 1) + (m - b) = m + 1
          /\ q + (b + 1) = j + 1 /\ j + 1 \in Nat
      BY <1>3, <1>11
    <3> QED BY <3>1
  <2>2. n = q + m /\ m <= m
    BY <1>3
  <2>3. SubSeq(w, c, m) = SubSeq(doc, u, n)
    BY <1>1, <1>2, <1>3, <2>1, <2>2, Shifted
  <2> QED BY <1>16, <2>1, <2>3
<1>19. Taken(doc, tag, j) = Append(f, r.os)
  <2>1. PICK h \in Nat : i = h + 1 /\ q <= h
    <3>1. i - 1 \in Nat /\ i = (i - 1) + 1 /\ q <= i - 1
      BY <1>8
    <3> QED BY <3>1
  <2>2. Begun(doc, tag, h) = Begun(doc, tag, q)
    <3>1. \A k \in q + 1 .. h : k \notin O
      BY <1>8, <2>1
    <3> QED BY <2>1, <3>1, BegunSame DEF O
  <2>3. Begun(doc, tag, i) = Append(Begun(doc, tag, q), i)
    BY <1>8, <2>1, <2>2, BegunNext DEF O
  <2>4. Begun(doc, tag, j) = Begun(doc, tag, i)
    <3>1. \A k \in i + 1 .. j : k \notin O
      BY <1>10 DEF Openings, O
    <3>2. i \in Nat /\ i <= j
      BY <1>8, <1>10
    <3> QED BY <3>1, <3>2, BegunSame DEF O
  <2>5. PICK g \in Seq(O) : g = Begun(doc, tag, q)
    BY BegunType DEF O
  <2>6. Insides(doc, tag) \in [O -> Seq(Tokens)]
    BY InsidesType DEF O
  <2>7. Mapped(Insides(doc, tag), Append(g, i))
           = Append(Mapped(Insides(doc, tag), g), Insides(doc, tag)[i])
    BY <1>8, <2>6, MappedAppend
  <2>8. Insides(doc, tag)[i] = r.os
    BY <1>8, <1>10, <1>17 DEF Insides, O
  <2> QED BY <1>2, <2>3, <2>4, <2>5, <2>7, <2>8 DEF Taken
<1>20. NextTag(x, tag) = [rest |-> r.rest, found |-> Append(f, r.os)]
  <2>1. x.rest = w /\ x.found = f
    BY <1>2
  <2>2. NextTag(x, tag) = IF r.good THEN [rest |-> r.rest, found |-> Append(f, r.os)] ELSE x
    BY <1>15, <2>1 DEF NextTag
  <2> QED BY <1>16, <2>2
<1>21. Stand(doc, tag, j, NextTag(x, tag))
  BY <1>1, <1>18, <1>19, <1>20 DEF Stand
<1>22. q < j /\ j <= Len(doc)
  BY <1>1, <1>8, <1>10
<1> QED BY <1>21, <1>22

\* Where none begins a turn changes nothing.
LEMMA TurnOut ==
  ASSUME NEW doc \in Seq(Tokens), NEW tag, NEW q \in Nat, q <= Len(doc), NEW x,
         Stand(doc, tag, q, x), NoMore(doc, tag, q)
  PROVE  NextTag(x, tag) = x
<1>1. PICK n \in Nat : n = Len(doc) /\ DOMAIN doc = 1 .. n /\ q <= n
  BY LenProperties
<1>2. PICK w, f : w = SubSeq(doc, q + 1, n) /\ x = [rest |-> w, found |-> f]
  BY <1>1 DEF Stand
<1>3. PICK m \in Nat : q + m = n
  <2>1. n - q \in Nat /\ q + (n - q) = n
    BY <1>1
  <2> QED BY <2>1
<1>4. w \in Seq(Tokens) /\ Len(w) = m /\ \A i \in 1 .. m : w[i] = doc[q + i]
  <2>1. CutOff(doc, q, m, n, w)
    BY <1>1, <1>2, <1>3 DEF CutOff
  <2>2. RestIs(Tokens, doc, q, m, w)
    BY <2>1, CutOffIs
  <2> QED BY <2>2 DEF RestIs
<1>5. DOMAIN w = 1 .. m
  BY <1>4, LenProperties
<1>6. PICK l \in Nat : l = m + 1 /\ l = Len(w) + 1
  BY <1>3, <1>4
<1>7. Openings(w, tag) = {}
  <2> SUFFICES ASSUME NEW k \in Openings(w, tag) PROVE FALSE
    OBVIOUS
  <2>1. k \in 1 .. m /\ Opens(w[k], tag)
    BY <1>5 DEF Openings
  <2>2. PICK c \in Nat : c = q + k /\ c \in 1 .. n /\ q < c
    BY <1>1, <1>3, <2>1
  <2>3. c \in Openings(doc, tag)
    BY <1>1, <1>4, <2>1, <2>2 DEF Openings
  <2> QED BY <2>2, <2>3 DEF NoMore
<1>8. l = FirstAmong(Openings(w, tag), l)
  <2>1. Openings(w, tag) \subseteq 1 .. m
    BY <1>7
  <2> QED BY <1>3, <1>6, <1>7, <2>1, FirstIs
<1>9. l = FirstAmong(Closings(w, tag, l), l)
  <2>1. Closings(w, tag, l) = {}
    BY <1>3, <1>4, <1>6 DEF Closings
  <2>2. Closings(w, tag, l) \subseteq 1 .. m
    BY <2>1
  <2> QED BY <1>3, <1>6, <2>1, <2>2, FirstIs
<1>10. PICK r : r = ReadTag(w, tag)
  OBVIOUS
<1>11. ~r.good
  <2>1. ReadAs(w, tag, l, l)
    BY <1>6, <1>8, <1>9, ReadIs
  <2>2. r.good = (l <= m)
    BY <1>4, <1>10, <2>1 DEF ReadAs
  <2>3. (l <= m) = FALSE
    BY <1>3, <1>6
  <2> QED BY <2>2, <2>3
<1>12. x.rest = w
  BY <1>2
<1> QED BY <1>10, <1>11, <1>12 DEF NextTag

LEMMA TagsRight ==
  ASSUME NEW doc \in Seq(Tokens), NEW tag, WellFormed(doc), Simple(doc, tag)
  PROVE  Tags(doc, tag) = Elements(doc, tag)
<1>1. PICK n \in Nat : n = Len(doc)
  BY LenProperties
<1>2. PICK f : Reads(doc, tag, n, f) /\ Tags(doc, tag) = f[n].found
  BY <1>1, TagsIs
<1>3. /\ f[0] = [rest |-> doc, found |-> <<>>]
      /\ \A i \in Nat : i < n => f[i + 1] = NextTag(f[i], tag)
  BY <1>2, ReadsStep
<1> DEFINE Came(k, q) == /\ q <= n /\ Stand(doc, tag, q, f[k])
                         /\ NoMore(doc, tag, q) \/ k <= q
           G == {k \in Nat : \E q \in Nat : Came(k, q)}
<1>4. 0 \in G
  <2>1. SubSeq(doc, 0 + 1, n) = doc
    BY <1>1, SubSeqFull
  <2>2. Taken(doc, tag, 0) = <<>>
    <3>1. Places(0) = <<>>
      BY DEF Places
    <3> QED BY <3>1, OnlyEmpty, MappedEmpty DEF Taken, Begun
  <2>3. Stand(doc, tag, 0, f[0])
    BY <1>1, <1>3, <2>1, <2>2 DEF Stand
  <2>4. Came(0, 0)
    BY <2>3
  <2> QED BY <2>4
<1>5. \A k \in Nat : k < n /\ k \in G => k + 1 \in G
  <2> SUFFICES ASSUME NEW k \in Nat, k < n, k \in G PROVE k + 1 \in G
    OBVIOUS
  <2> SUFFICES \E p \in Nat : Came(k + 1, p)
    <3> HIDE DEF Came
    <3>1. k + 1 \in Nat
      OBVIOUS
    <3> QED BY <3>1
  <2>1. PICK q \in Nat : Came(k, q)
    OBVIOUS
  <2>2. f[k + 1] = NextTag(f[k], tag)
    BY <1>3
  <2>3. CASE NoMore(doc, tag, q)
    <3>1. NextTag(f[k], tag) = f[k]
      BY <1>1, <2>1, <2>3, TurnOut
    <3>2. Came(k + 1, q)
      BY <2>1, <2>2, <2>3, <3>1
    <3> QED BY <3>2
  <2>4. CASE ~NoMore(doc, tag, q)
    <3>1. PICK p \in Nat : q < p /\ p <= n /\ Stand(doc, tag, p, NextTag(f[k], tag))
      BY <1>1, <2>1, <2>4, TurnOn
    <3>2. k + 1 <= p
      BY <2>1, <2>4, <3>1
    <3>3. Came(k + 1, p)
      BY <2>2, <3>1, <3>2
    <3> QED BY <3>3
  <2> QED BY <2>3, <2>4
<1> HIDE DEF G
<1>6. n \in G
  BY <1>4, <1>5, Reached
<1>7. PICK q \in Nat : Came(n, q)
  BY <1>6 DEF G
<1>8. f[n].found = Taken(doc, tag, q)
  BY <1>7 DEF Stand
<1>9. Begun(doc, tag, n) = Begun(doc, tag, q)
  <2>1. \A k \in q + 1 .. n : k \notin Openings(doc, tag)
    <3>1. CASE NoMore(doc, tag, q)
      BY <3>1 DEF NoMore
    <3>2. CASE n <= q
      BY <3>2
    <3> QED BY <1>7, <3>1, <3>2
  <2> QED BY <1>7, <2>1, BegunSame
<1>10. Taken(doc, tag, q) = Elements(doc, tag)
  BY <1>1, <1>9, ElementsTaken DEF Taken
<1> QED BY <1>2, <1>8, <1>10

(* Of a well formed page, whatever its tokens and the tag looked for, the  *)
(* bot gets the elements with that tag unless they are nested, the first   *)
(* element with all that is in it, and the texts: read_tag, read_element   *)
(* and html_to_text.                                                       *)
THEOREM DocumentRight ==
  ASSUME NEW doc \in Seq(Tokens), NEW tag PROVE TakenApart(doc, tag)
BY TagsRight, ElementRead, TextsOf DEF TakenApart
-----------------------------------------------------------------------------
(* The cases.  What is asked about stays as it was, and the answer is what *)
(* the algorithm for its kind makes of it.                                 *)
Posed ==
    \/ case \in [kind : {"ranges"}, of : RangeLists]
    \/ case \in [kind : {"day"}, of : Days]
    \/ case \in [kind : {"color"}, of : DOMAIN Palette]
    \/ case \in [kind : {"page"}, of : Pages]
    \/ case \in [kind : {"document"}, of : Documents]
    \/ case \in [kind : {"text"}, of : Texts]
    \/ case \in [kind : {"help"}, of : Asks]
Worked ==
    answer # <<>> =>
        /\ case.kind = "ranges" => answer = <<ParseRangeList(case.of)>>
        /\ case.kind = "day" => \E before \in Int : answer = <<DecDay(case.of, before)>>
        /\ case.kind = "color" => answer = <<ClosestColor(Palette[case.of])>>
        /\ case.kind = "page" => answer = <<Ripped(case.of)>>
        /\ case.kind = "document" => answer = <<Tags(case.of, <<"t">>)>>
        /\ case.kind = "text" => answer = <<UrlDecode(UrlEncode(case.of))>>
        /\ case.kind = "help" => answer = <<BotHelp(case.of)>>

LEMMA PosedOf ==
  ASSUME Posed
  PROVE  /\ case.kind = "ranges" => case.of \in RangeLists
         /\ case.kind = "day" => case.of \in Days
         /\ case.kind = "color" => case.of \in DOMAIN Palette
         /\ case.kind = "page" => case.of \in Pages
         /\ case.kind = "document" => case.of \in Documents
         /\ case.kind = "text" => case.of \in Texts
BY DEF Posed

LEMMA AgreeFromWork ==
  ASSUME Posed, Worked PROVE HelpersAgree
<1> SUFFICES ASSUME answer # <<>>
             PROVE  /\ case.kind = "ranges" => RangesAgree
                    /\ case.kind = "day" => DaysAgree
                    /\ case.kind = "color" => answer[1] = case.of
                    /\ case.kind = "page" => PagesAgree
                    /\ case.kind = "document" => TakenApart(case.of, <<"t">>)
                    /\ case.kind = "text" => AskedRight(case.of)
                    /\ case.kind = "help" => HelpTold(case.of)
  BY DEF HelpersAgree
<1>1. ASSUME case.kind = "ranges" PROVE RangesAgree
  <2>1. case.of \in Seq(Bounds \X Bounds)
    BY <1>1, PosedOf, HelpersAssumption DEF HelpersAssumption
  <2>2. answer[1] = ParseRangeList(case.of)
    BY <1>1 DEF Worked
  <2>3. \A n \in 0 .. 9 : n \in Nat
    OBVIOUS
  <2>4. \A n \in 0 .. 9 : n \in ToSet(ParseRangeList(case.of))
                            <=> \E i \in DOMAIN case.of : InRange(case.of[i], n)
    BY <2>1, <2>3, RangesRight
  <2> QED BY <2>2, <2>4 DEF RangesAgree
<1>2. ASSUME case.kind = "day" PROVE DaysAgree
  <2>1. PICK d : d = case.of
    OBVIOUS
  <2>2. d \in Days
    BY <1>2, <2>1, PosedOf
  <2>3. d \in Calendar /\ d.yday = DayOfYear(d)
    BY <2>2, HelpersAssumption DEF HelpersAssumption
  <2>4. PICK before \in Int : answer = <<DecDay(d, before)>>
    BY <1>2, <2>1 DEF Worked
  <2>5. BackFrom(d, DecDay(d, before))
    BY <2>3, DayBefore
  <2>6. answer[1] = DecDay(d, before)
    BY <2>4
  <2>7. BackFrom(d, answer[1])
    BY <2>5, <2>6
  <2> QED BY <2>1, <2>7 DEF BackFrom, DaysAgree
<1>3. ASSUME case.kind = "color" PROVE answer[1] = case.of
  <2>1. case.of \in DOMAIN Palette
    BY <1>3, PosedOf
  <2>2. answer[1] = ClosestColor(Palette[case.of])
    BY <1>3 DEF Worked
  <2> QED BY <2>1, <2>2, OwnColor
<1>4. ASSUME case.kind = "page" PROVE PagesAgree
  <2>1. case.of \in Seq(Lines)
    BY <1>4, PosedOf, HelpersAssumption DEF HelpersAssumption
  <2>2. answer = <<Ripped(case.of)>>
    BY <1>4 DEF Worked
  <2> QED BY <2>1, <2>2, PageRight
<1>5. ASSUME case.kind = "document" PROVE TakenApart(case.of, <<"t">>)
  <2>1. case.of \in Seq(Tokens)
    BY <1>5, PosedOf, HelpersAssumption DEF HelpersAssumption
  <2> QED BY <2>1, DocumentRight
<1>6. ASSUME case.kind = "text" PROVE AskedRight(case.of)
  <2>1. case.of \in Seq(STRING)
    BY <1>6, PosedOf, HelpersAssumption DEF HelpersAssumption
  <2> QED BY <2>1, TextRight
<1>7. HelpTold(case.of)
  BY RightHelp
<1> QED BY <1>1, <1>2, <1>3, <1>4, <1>5, <1>6, <1>7

(* Whatever ranges, days, colours, pages, texts and commands there are,    *)
(* the helpers make of each what they are for: parse_rangelist, dec_day,   *)
(* the closest colour, quiz-rip, read_tag, read_element, html_to_text,     *)
(* urlencode with urldecode, and !help.                                    *)
THEOREM HelpersAgreeCorrect == CaseSpec => []HelpersAgree
<1>1. CaseInit => Posed /\ Worked
  BY DEF CaseInit, Posed, Worked
<1>2. Posed /\ Worked /\ [CaseNext]_caseVars => Posed' /\ Worked'
  <2> SUFFICES ASSUME Posed, Worked, [CaseNext]_caseVars PROVE Posed' /\ Worked'
    OBVIOUS
  <2>1. CASE CaseNext
    <3>1. case' = case
      BY <2>1 DEF CaseNext
    <3>2. Posed'
      BY <3>1 DEF Posed
    <3>3. case.kind = "day" => \E before \in Int : answer' = <<DecDay(case.of, before)>>
      <4>1. BeforeDMap \subseteq Int
        BY HelpersAssumption DEF HelpersAssumption
      <4> QED BY <2>1, <4>1 DEF CaseNext
    <3>4. Worked'
      BY <2>1, <3>1, <3>3 DEF CaseNext, Worked
    <3> QED BY <3>2, <3>4
  <2>2. CASE UNCHANGED caseVars
    BY <2>2 DEF caseVars, Posed, Worked
  <2> QED BY <2>1, <2>2
<1> QED BY <1>1, <1>2, AgreeFromWork, PTL DEF CaseSpec
=============================================================================
