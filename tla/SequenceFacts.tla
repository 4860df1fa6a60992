--------------------------- MODULE SequenceFacts ---------------------------
(***************************************************************************)
(* Facts about sequences that several of the proofs cite.                  *)
(***************************************************************************)
EXTENDS Selections, SequencesExt, SequenceTheorems, WellFoundedInduction, TLAPS

\* Removing one position keeps the others, in order.
LEMMA RemoveAtFacts ==
  ASSUME NEW S, NEW s \in Seq(S), NEW i \in 1..Len(s)
  PROVE  /\ RemoveAt(s, i) \in Seq(S)
         /\ Len(RemoveAt(s, i)) = Len(s) - 1
         /\ \A j \in 1..(Len(s) - 1) :
               RemoveAt(s, i)[j] = IF j < i THEN s[j] ELSE s[j + 1]
<1> DEFINE a == SubSeq(s, 1, i - 1)
           b == SubSeq(s, i + 1, Len(s))
<1>1. Len(s) \in Nat /\ \A j \in 1..Len(s) : s[j] \in S
  BY LenProperties, ElementOfSeq
<1>2. /\ a \in Seq(S)
      /\ Len(a) = i - 1
      /\ \A j \in 1..(i - 1) : a[j] = s[j]
  <2>1. /\ a \in Seq(S)
        /\ Len(a) = IF 1 <= i - 1 THEN i - 1 - 1 + 1 ELSE 0
        /\ \A j \in 1..(i - 1 - 1 + 1) : a[j] = s[1 + j - 1]
    BY <1>1, SubSeqProperties
  <2> QED BY <2>1, <1>1
<1>3. /\ b \in Seq(S)
      /\ Len(b) = Len(s) - i
      /\ \A j \in 1..(Len(s) - i) : b[j] = s[i + j]
  BY <1>1, SubSeqProperties
<1>4. RemoveAt(s, i) = a \o b
  BY DEF RemoveAt
<1> HIDE DEF a, b
<1>5. /\ a \o b \in Seq(S)
      /\ Len(a \o b) = Len(a) + Len(b)
      /\ \A j \in 1..(Len(a) + Len(b)) :
            (a \o b)[j] = IF j <= Len(a) THEN a[j] ELSE b[j - Len(a)]
  BY <1>2, <1>3, ConcatProperties
<1> QED BY <1>1, <1>2, <1>3, <1>4, <1>5

\* The elements of a sequence are what it holds at its positions.
LEMMA ToSetFacts ==
  ASSUME NEW S, NEW s \in Seq(S)
  PROVE  \A x : x \in ToSet(s) <=> \E i \in 1..Len(s) : s[i] = x
<1>1. DOMAIN s = 1..Len(s)
  BY LenProperties
<1> QED BY <1>1 DEF ToSet
-----------------------------------------------------------------------------
\* A set of numbers with 0 that has the next one with each is Nat: induction
\* for whatever can be said by membership in a set.
LEMMA NatSet ==
  ASSUME NEW S, S \subseteq Nat, 0 \in S, \A n \in S : n + 1 \in S
  PROVE  S = Nat
<1> DEFINE T == Nat \ S
           R == OpToRel(<, Nat)
<1> SUFFICES ASSUME T # {} PROVE FALSE
  OBVIOUS
<1>1. IsWellFoundedOn(R, Nat)
  BY NatLessThanWellFounded
<1>2. \A x, y \in Nat : x < y => <<x, y>> \in R
  BY DEF OpToRel
<1> HIDE DEF R
<1>3. PICK x \in T : \A y \in T : <<y, x>> \notin R
  BY <1>1, WFMin
<1>4. x # 0 /\ x - 1 \in Nat /\ x - 1 < x /\ x - 1 + 1 = x
  OBVIOUS
<1>5. x - 1 \in S
  BY <1>2, <1>3, <1>4
<1> QED BY <1>3, <1>4, <1>5

LEMMA LeastOf ==
  ASSUME NEW I, I \subseteq Nat, I # {} PROVE \E x \in I : \A y \in I : x <= y
<1> DEFINE R == OpToRel(<, Nat)
<1>1. IsWellFoundedOn(R, Nat)
  BY NatLessThanWellFounded
<1>2. \A x, y \in Nat : x < y => <<x, y>> \in R
  BY DEF OpToRel
<1> HIDE DEF R
<1>3. PICK x \in I : \A y \in I : <<y, x>> \notin R
  BY <1>1, WFMin
<1>4. x \in Nat /\ \A y \in I : y \in Nat /\ ~(y < x)
  BY <1>2, <1>3
<1>5. \A y \in I : x <= y
  BY <1>4
<1> QED BY <1>5

LEMMA ConcatAppend ==
  ASSUME NEW T, NEW s \in Seq(T), NEW t \in Seq(T), NEW x \in T
  PROVE  s \o Append(t, x) = Append(s \o t, x)
<1>1. <<x>> \in Seq(T) /\ s \o t \in Seq(T)
  BY ConcatProperties
<1>2. Append(t, x) = t \o <<x>> /\ Append(s \o t, x) = (s \o t) \o <<x>>
  BY <1>1, AppendIsConcat
<1> QED BY <1>1, <1>2, ConcatAssociative

Lengthens(s, t, x) == s \o Append(t, x) = Append(s \o t, x)

LEMMA AppendLast ==
  ASSUME NEW T, NEW s \in Seq(T), NEW t \in Seq(T), NEW x \in T PROVE Lengthens(s, t, x)
BY ConcatAppend DEF Lengthens

LEMMA HeadTail ==
  ASSUME NEW T, NEW s \in Seq(T), s # <<>>
  PROVE  /\ s[1] \in T /\ Head(s) = s[1] /\ Tail(s) \in Seq(T) /\ s = <<s[1]>> \o Tail(s)
<1>1. Len(s) \in Nat \ {0} /\ 1 \in 1 .. Len(s)
  BY EmptySeq
<1>2. s[1] \in T
  BY <1>1, ElementOfSeq
<1>3. /\ Tail(s) \in Seq(T) /\ Len(Tail(s)) = Len(s) - 1
      /\ \A i \in 1 .. Len(Tail(s)) : Tail(s)[i] = s[i + 1]
  BY HeadTailProperties
<1> DEFINE a == <<s[1]>>
           b == Tail(s)
<1>4. a \in Seq(T) /\ Len(a) = 1 /\ a[1] = s[1]
  BY <1>2
<1> HIDE DEF a, b
<1>5. /\ a \o b \in Seq(T) /\ Len(a \o b) = Len(s)
      /\ \A i \in 1 .. Len(s) : (a \o b)[i] = IF i <= 1 THEN a[i] ELSE b[i - 1]
  <2>1. b \in Seq(T) /\ Len(b) = Len(s) - 1
    BY <1>3 DEF b
  <2>2. 1 + Len(b) = Len(s)
    BY <1>1, <2>1
  <2>3. /\ a \o b \in Seq(T) /\ Len(a \o b) = Len(a) + Len(b)
        /\ \A i \in 1 .. Len(a) + Len(b) :
              (a \o b)[i] = IF i <= Len(a) THEN a[i] ELSE b[i - Len(a)]
    BY <1>4, <2>1, ConcatProperties
  <2> QED BY <1>4, <2>2, <2>3
<1>6. \A i \in 1 .. Len(s) : (a \o b)[i] = s[i]
  <2> SUFFICES ASSUME NEW i \in 1 .. Len(s) PROVE (a \o b)[i] = s[i]
    OBVIOUS
  <2>1. CASE i = 1
    BY <1>4, <1>5, <2>1
  <2>2. CASE i # 1
    <3>1. i - 1 \in 1 .. Len(b) /\ ~(i <= 1) /\ i - 1 + 1 = i
      BY <1>1, <1>3, <2>2 DEF b
    <3> QED BY <1>3, <1>5, <3>1 DEF b
  <2> QED BY <2>1, <2>2
<1>7. s = a \o b
  BY <1>5, <1>6, SeqEqual
<1> QED BY <1>2, <1>3, <1>7 DEF a, b

\* A sequence is its beginning and the rest.
LEMMA SplitAt ==
  ASSUME NEW T, NEW s \in Seq(T)
  PROVE  \A n \in 0 .. Len(s) :
            /\ SubSeq(s, 1, n) \in Seq(T) /\ Len(SubSeq(s, 1, n)) = n
            /\ SubSeq(s, n + 1, Len(s)) \in Seq(T)
            /\ Len(SubSeq(s, n + 1, Len(s))) = Len(s) - n
            /\ SubSeq(s, 1, n) \o SubSeq(s, n + 1, Len(s)) = s
<1> SUFFICES ASSUME NEW n \in 0 .. Len(s)
             PROVE  /\ SubSeq(s, 1, n) \in Seq(T) /\ Len(SubSeq(s, 1, n)) = n
                    /\ SubSeq(s, n + 1, Len(s)) \in Seq(T)
                    /\ Len(SubSeq(s, n + 1, Len(s))) = Len(s) - n
                    /\ SubSeq(s, 1, n) \o SubSeq(s, n + 1, Len(s)) = s
  OBVIOUS
<1>1. Len(s) \in Nat /\ \A i \in 1 .. Len(s) : s[i] \in T
  BY LenProperties, ElementOfSeq
<1>2. SubSeq(s, 1, n) \in Seq(T) /\ Len(SubSeq(s, 1, n)) = IF 1 <= n THEN n - 1 + 1 ELSE 0
  BY <1>1, SubSeqProperties
<1>3. /\ SubSeq(s, n + 1, Len(s)) \in Seq(T)
      /\ Len(SubSeq(s, n + 1, Len(s))) = IF n + 1 <= Len(s) THEN Len(s) - (n + 1) + 1 ELSE 0
  <2>1. PICK m \in Int : m = n + 1
    OBVIOUS
  <2>2. \A i \in m .. Len(s) : s[i] \in T
    BY <1>1, <2>1
  <2>3. /\ SubSeq(s, m, Len(s)) \in Seq(T)
        /\ Len(SubSeq(s, m, Len(s))) = IF m <= Len(s) THEN Len(s) - m + 1 ELSE 0
    BY <1>1, <2>2, SubSeqProperties
  <2> QED BY <2>1, <2>3
<1>4. SubSeq(s, 1, n) \o SubSeq(s, n + 1, Len(s)) = SubSeq(s, 1, Len(s))
  <2>1. 1 \in 1 .. Len(s) + 1 /\ n \in 1 - 1 .. Len(s) /\ Len(s) \in n .. Len(s)
    BY <1>1
  <2>2. \A k \in 1 - 1 .. Len(s) : \A m \in k .. Len(s) :
            SubSeq(s, 1, k) \o SubSeq(s, k + 1, m) = SubSeq(s, 1, m)
    BY <2>1, ConcatAdjacentSubSeq
  <2> QED BY <2>1, <2>2
<1>5. SubSeq(s, 1, Len(s)) = s
  BY SubSeqFull
<1>6. Len(SubSeq(s, 1, n)) = n
  BY <1>1, <1>2
<1>7. Len(SubSeq(s, n + 1, Len(s))) = Len(s) - n
  <2>1. CASE n = Len(s)
    <3>1. ~(n + 1 <= Len(s)) /\ Len(s) - n = 0
      BY <1>1, <2>1
    <3> QED BY <1>3, <3>1
  <2>2. CASE n # Len(s)
    <3>1. n + 1 <= Len(s) /\ Len(s) - (n + 1) + 1 = Len(s) - n
      BY <1>1, <2>2
    <3> QED BY <1>3, <3>1
  <2> QED BY <2>1, <2>2
<1> QED BY <1>2, <1>3, <1>4, <1>5, <1>6, <1>7

\* A sequence is a prefix of what begins with it.
LEMMA PrefixOf ==
  ASSUME NEW T, NEW s \in Seq(T), NEW t \in Seq(T)
  PROVE  IsPrefix(s, s \o t)
<1>1. PICK u \in Seq(T) : u = s \o t
  BY ConcatProperties
<1>2. /\ Len(s) \in Nat /\ Len(t) \in Nat /\ Len(u) = Len(s) + Len(t)
      /\ \A i \in 1 .. Len(s) + Len(t) : u[i] = IF i <= Len(s) THEN s[i] ELSE t[i - Len(s)]
  BY <1>1, ConcatProperties, LenProperties
<1>3. PICK n \in 0 .. Len(u) : n = Len(s)
  BY <1>2
<1>4. SubSeq(u, 1, n) \in Seq(T) /\ Len(SubSeq(u, 1, n)) = n
  BY SplitAt
<1>5. \A i \in 1 .. n : SubSeq(u, 1, n)[i] = u[i]
  <2>1. \A i \in 1 .. n : u[i] \in T
    BY ElementOfSeq
  <2>2. \A i \in 1 .. n - 1 + 1 : SubSeq(u, 1, n)[i] = u[1 + i - 1]
    BY <2>1, SubSeqProperties
  <2> QED BY <2>2
<1>6. \A i \in 1 .. Len(s) : SubSeq(u, 1, n)[i] = s[i]
  BY <1>2, <1>3, <1>5
<1>7. SubSeq(u, 1, n) = s
  BY <1>3, <1>4, <1>6, SeqEqual
<1>8. SubSeq(s, 1, Len(s)) = s
  BY SubSeqFull
<1> QED BY <1>1, <1>2, <1>3, <1>7, <1>8 DEF IsPrefix
-----------------------------------------------------------------------------
(* Only is what its definition says: its function exists, and is the only  *)
(* one.                                                                    *)

KeptUpTo(s, S, n, f) ==
    f = [i \in 0 .. n |-> IF i = 0 THEN <<>>
                          ELSE IF s[i] \in S THEN Append(f[i - 1], s[i]) ELSE f[i - 1]]

LEMMA KeptExists == ASSUME NEW s, NEW S, NEW n \in Nat PROVE \E f : KeptUpTo(s, S, n, f)
<1> DEFINE G == {k \in Nat : \E f : KeptUpTo(s, S, k, f)}
<1>1. 0 \in G
  <2> DEFINE f == [i \in 0 .. 0 |-> <<>>]
  <2>1. KeptUpTo(s, S, 0, f)
    BY DEF KeptUpTo
  <2> QED BY <2>1
<1>2. ASSUME NEW k \in G PROVE k + 1 \in G
  <2>1. PICK f : KeptUpTo(s, S, k, f)
    OBVIOUS
  <2> DEFINE g == [i \in 0 .. k + 1 |->
                      IF i <= k THEN f[i]
                      ELSE IF s[i] \in S THEN Append(f[i - 1], s[i]) ELSE f[i - 1]]
             h == [i \in 0 .. k + 1 |->
                      IF i = 0 THEN <<>>
                      ELSE IF s[i] \in S THEN Append(g[i - 1], s[i]) ELSE g[i - 1]]
  <2>2. ASSUME NEW i \in 0 .. k + 1 PROVE g[i] = h[i]
    <3>1. CASE i = 0
      BY <2>1, <3>1 DEF KeptUpTo
    <3>2. CASE i # 0 /\ i <= k
      <4>1. i \in 0 .. k /\ i - 1 \in 0 .. k /\ i - 1 \in 0 .. k + 1
        BY <3>2
      <4>2. f[i] = IF s[i] \in S THEN Append(f[i - 1], s[i]) ELSE f[i - 1]
        BY <2>1, <3>2, <4>1 DEF KeptUpTo
      <4>3. g[i - 1] = f[i - 1] /\ g[i] = f[i]
        BY <4>1, <3>2
      <4> QED BY <3>2, <4>2, <4>3
    <3>3. CASE i = k + 1
      <4>1. i - 1 \in 0 .. k + 1 /\ i - 1 <= k /\ ~(i <= k) /\ i # 0
        BY <3>3
      <4> QED BY <4>1
    <3> QED BY <3>1, <3>2, <3>3
  <2>3. g = h
    BY <2>2
  <2> HIDE DEF g
  <2>4. KeptUpTo(s, S, k + 1, g)
    BY <2>3 DEF KeptUpTo
  <2> QED BY <2>4
<1> HIDE DEF G
<1>3. G = Nat
  <2>1. G \subseteq Nat
    BY DEF G
  <2> QED BY <1>1, <1>2, <2>1, NatSet
<1> QED BY <1>3 DEF G

LEMMA KeptStep ==
  ASSUME NEW s, NEW S, NEW n \in Nat, NEW f, KeptUpTo(s, S, n, f)
  PROVE  \A i \in 1 .. n : f[i] = IF s[i] \in S THEN Append(f[i - 1], s[i]) ELSE f[i - 1]
<1> SUFFICES ASSUME NEW i \in 1 .. n
             PROVE  f[i] = IF s[i] \in S THEN Append(f[i - 1], s[i]) ELSE f[i - 1]
  OBVIOUS
<1> DEFINE h == [j \in 0 .. n |-> IF j = 0 THEN <<>>
                                  ELSE IF s[j] \in S THEN Append(f[j - 1], s[j]) ELSE f[j - 1]]
<1>1. i \in 0 .. n /\ i # 0
  OBVIOUS
<1>2. h[i] = IF s[i] \in S THEN Append(f[i - 1], s[i]) ELSE f[i - 1]
  BY <1>1
<1> QED BY <1>2 DEF KeptUpTo

LEMMA KeptUnique ==
  ASSUME NEW s, NEW t, NEW S, NEW T, NEW n \in Nat, NEW m \in Nat, n <= m,
         NEW f, KeptUpTo(s, S, n, f), NEW g, KeptUpTo(t, T, m, g)
  PROVE  (\A i \in 1 .. n : s[i] = t[i] /\ (s[i] \in S <=> t[i] \in T)) => f[n] = g[n]
<1> SUFFICES ASSUME \A i \in 1 .. n : s[i] = t[i] /\ (s[i] \in S <=> t[i] \in T)
             PROVE  f[n] = g[n]
  OBVIOUS
<1> DEFINE G == {k \in Nat : k <= n => f[k] = g[k]}
<1>1. 0 \in G
  BY DEF KeptUpTo
<1>2. ASSUME NEW k \in G PROVE k + 1 \in G
  <2> SUFFICES ASSUME k + 1 <= n PROVE f[k + 1] = g[k + 1]
    OBVIOUS
  <2>1. /\ k + 1 \in 0 .. n /\ k + 1 \in 0 .. m /\ k + 1 \in 1 .. n /\ k + 1 # 0
        /\ k + 1 - 1 = k /\ f[k] = g[k]
    OBVIOUS
  <2>2. /\ f[k + 1] = IF s[k + 1] \in S THEN Append(f[k], s[k + 1]) ELSE f[k]
        /\ g[k + 1] = IF t[k + 1] \in T THEN Append(g[k], t[k + 1]) ELSE g[k]
    <3>1. k + 1 \in 1 .. n /\ k + 1 \in 1 .. m
      BY <2>1
    <3>2. \A i \in 1 .. n : f[i] = IF s[i] \in S THEN Append(f[i - 1], s[i]) ELSE f[i - 1]
      BY KeptStep
    <3>3. \A i \in 1 .. m : g[i] = IF t[i] \in T THEN Append(g[i - 1], t[i]) ELSE g[i - 1]
      BY KeptStep
    <3> QED BY <2>1, <3>1, <3>2, <3>3
  <2> QED BY <2>1, <2>2
<1> HIDE DEF G
<1>3. G = Nat
  <2>1. G \subseteq Nat
    BY DEF G
  <2> QED BY <1>1, <1>2, <2>1, NatSet
<1> QED BY <1>3 DEF G

LEMMA OnlyKept ==
  ASSUME NEW s, NEW S, Len(s) \in Nat
  PROVE  \E f : KeptUpTo(s, S, Len(s), f) /\ Only(s, S) = f[Len(s)]
<1>1. \E f : KeptUpTo(s, S, Len(s), f)
  BY KeptExists
<1> QED BY <1>1 DEF Only, KeptUpTo

\* A set of sequences with <<>> that has the longer ones with each has all.
LEMMA SeqSet ==
  ASSUME NEW T, NEW G, <<>> \in G, \A s \in Seq(T), x \in T : s \in G => Append(s, x) \in G
  PROVE  Seq(T) \subseteq G
<1> DEFINE N == {n \in Nat : \A s \in Seq(T) : Len(s) = n => s \in G}
<1>1. 0 \in N
  BY EmptySeq
<1>2. ASSUME NEW n \in N PROVE n + 1 \in N
  <2> SUFFICES ASSUME NEW s \in Seq(T), Len(s) = n + 1 PROVE s \in G
    OBVIOUS
  <2>1. s # <<>>
    BY EmptySeq
  <2>2. PICK t \in Seq(T), x \in T : s = Append(t, x)
    BY <2>1, SequenceEmptyOrAppend
  <2>3. Len(t) = n
    BY <2>2, AppendProperties, LenProperties
  <2> QED BY <2>2, <2>3
<1> HIDE DEF N
<1>3. N = Nat
  <2>1. N \subseteq Nat
    BY DEF N
  <2> QED BY <1>1, <1>2, <2>1, NatSet
<1> QED BY <1>3, LenProperties DEF N

LEMMA OnlyEmpty == \A S : Only(<<>>, S) = <<>>
<1> SUFFICES ASSUME NEW S PROVE Only(<<>>, S) = <<>>
  OBVIOUS
<1>1. Len(<<>>) = 0
  OBVIOUS
<1>2. PICK f : KeptUpTo(<<>>, S, 0, f) /\ Only(<<>>, S) = f[0]
  BY <1>1, OnlyKept
<1> QED BY <1>2 DEF KeptUpTo

LEMMA OnlyAppend ==
  ASSUME NEW T, NEW s \in Seq(T), NEW x \in T, NEW S
  PROVE  Only(Append(s, x), S) = IF x \in S THEN Append(Only(s, S), x) ELSE Only(s, S)
<1>1. PICK t : t = Append(s, x)
  OBVIOUS
<1>2. PICK n \in Nat : n = Len(s)
  BY LenProperties
<1>3. PICK m \in Nat : m = n + 1
  OBVIOUS
<1>4. Len(t) = m /\ t[m] = x /\ \A i \in 1 .. n : t[i] = s[i]
  BY <1>1, <1>2, <1>3, AppendProperties
<1>5. PICK f : KeptUpTo(s, S, n, f) /\ Only(s, S) = f[n]
  BY <1>2, OnlyKept
<1>6. PICK g : KeptUpTo(t, S, m, g) /\ Only(t, S) = g[m]
  BY <1>4, OnlyKept
<1>7. f[n] = g[n]
  <2>1. n <= m
    BY <1>3
  <2>2. \A i \in 1 .. n : s[i] = t[i] /\ (s[i] \in S <=> t[i] \in S)
    BY <1>4
  <2> QED BY <1>5, <1>6, <2>1, <2>2, KeptUnique
<1>8. g[m] = IF t[m] \in S THEN Append(g[n], t[m]) ELSE g[n]
  <2>1. m \in 1 .. m /\ m - 1 = n
    BY <1>3
  <2>2. \A i \in 1 .. m : g[i] = IF t[i] \in S THEN Append(g[i - 1], t[i]) ELSE g[i - 1]
    BY <1>6, KeptStep
  <2> QED BY <2>1, <2>2
<1> QED BY <1>1, <1>4, <1>5, <1>6, <1>7, <1>8

LEMMA OnlyAgree ==
  ASSUME NEW s, Len(s) \in Nat, NEW S, NEW R, \A i \in 1 .. Len(s) : s[i] \in S <=> s[i] \in R
  PROVE  Only(s, S) = Only(s, R)
<1>1. PICK n \in Nat : n = Len(s)
  OBVIOUS
<1>2. PICK f : KeptUpTo(s, S, n, f) /\ Only(s, S) = f[n]
  BY <1>1, OnlyKept
<1>3. PICK g : KeptUpTo(s, R, n, g) /\ Only(s, R) = g[n]
  BY <1>1, OnlyKept
<1>4. PICK t : t = s
  OBVIOUS
<1>5. PICK m \in Nat : m = n
  OBVIOUS
<1>6. n <= m /\ KeptUpTo(t, R, m, g)
  BY <1>3, <1>4, <1>5
<1>7. \A i \in 1 .. n : s[i] = t[i] /\ (s[i] \in S <=> t[i] \in R)
  BY <1>1, <1>4
<1>8. f[n] = g[n]
  BY <1>2, <1>6, <1>7, KeptUnique
<1> QED BY <1>2, <1>3, <1>8

\* What is kept is part of the sequence and in the set.
LEMMA OnlyType ==
  ASSUME NEW T, NEW s \in Seq(T), NEW S
  PROVE  Only(s, S) \in Seq(T \cap S)
<1> DEFINE G == {t \in Seq(T) : Only(t, S) \in Seq(T \cap S)}
<1>1. <<>> \in G
  BY OnlyEmpty, EmptySeq
<1>2. \A t \in Seq(T), x \in T : t \in G => Append(t, x) \in G
  <2> SUFFICES ASSUME NEW t \in Seq(T), NEW x \in T, Only(t, S) \in Seq(T \cap S)
               PROVE  Only(Append(t, x), S) \in Seq(T \cap S)
    BY AppendProperties
  <2>1. PICK o \in Seq(T \cap S) : o = Only(t, S)
    OBVIOUS
  <2>2. Only(Append(t, x), S) = IF x \in S THEN Append(o, x) ELSE o
    BY <2>1, OnlyAppend
  <2>3. x \in S => Append(o, x) \in Seq(T \cap S)
    <3>1. x \in S => x \in T \cap S
      OBVIOUS
    <3> QED BY <3>1, AppendProperties
  <2> QED BY <2>2, <2>3
<1> HIDE DEF G
<1>3. Seq(T) \subseteq G
  BY <1>1, <1>2, SeqSet
<1> QED BY <1>3 DEF G

\* The same, as a part of the whole sequence.
LEMMA OnlySeq ==
  ASSUME NEW T, NEW s \in Seq(T), NEW S
  PROVE  Only(s, S) \in Seq(T)
<1>1. T \cap S \subseteq T
  OBVIOUS
<1>2. Seq(T \cap S) \subseteq Seq(T)
  BY <1>1, SeqMonotonic
<1> QED BY <1>2, OnlyType

LEMMA OnlyConcat ==
  ASSUME NEW T, NEW s \in Seq(T), NEW t \in Seq(T), NEW S
  PROVE  Only(s \o t, S) = Only(s, S) \o Only(t, S)
<1> DEFINE G == {u \in Seq(T) : Only(s \o u, S) = Only(s, S) \o Only(u, S)}
<1>1. <<>> \in G
  <2>1. s \o <<>> = s /\ Only(s, S) \o <<>> = Only(s, S)
    BY ConcatEmptySeq, OnlyType
  <2> QED BY <2>1, OnlyEmpty, EmptySeq
<1>2. \A u \in Seq(T), x \in T : u \in G => Append(u, x) \in G
  <2> SUFFICES ASSUME NEW u \in Seq(T), NEW x \in T,
                      Only(s \o u, S) = Only(s, S) \o Only(u, S)
               PROVE  Only(s \o Append(u, x), S) = Only(s, S) \o Only(Append(u, x), S)
    BY AppendProperties
  <2>1. PICK a \in Seq(T) : a = Only(s, S)
    BY OnlySeq
  <2>2. PICK b \in Seq(T) : b = Only(u, S)
    BY OnlySeq
  <2>3. PICK v \in Seq(T) : v = s \o u
    BY ConcatProperties
  <2>4. s \o Append(u, x) = Append(v, x) /\ Only(v, S) = a \o b
    <3>1. Lengthens(s, u, x)
      BY AppendLast
    <3> QED BY <3>1, <2>1, <2>2, <2>3 DEF Lengthens
  <2>5. Only(Append(v, x), S) = IF x \in S THEN Append(Only(v, S), x) ELSE Only(v, S)
    BY OnlyAppend, Zenon
  <2>6. Only(Append(u, x), S) = IF x \in S THEN Append(b, x) ELSE b
    BY <2>2, OnlyAppend, Zenon
  <2>7. a \o Append(b, x) = Append(a \o b, x)
    BY ConcatAppend
  <2> QED BY <2>1, <2>4, <2>5, <2>6, <2>7
<1> HIDE DEF G
<1>3. Seq(T) \subseteq G
  BY <1>1, <1>2, SeqSet
<1> QED BY <1>3 DEF G

LEMMA OnlyOnly ==
  ASSUME NEW T, NEW s \in Seq(T), NEW S, NEW R
  PROVE  Only(Only(s, S), R) = Only(s, S \cap R)
<1> DEFINE G == {u \in Seq(T) : Only(Only(u, S), R) = Only(u, S \cap R)}
<1>1. <<>> \in G
  BY OnlyEmpty, EmptySeq
<1>2. \A u \in Seq(T), x \in T : u \in G => Append(u, x) \in G
  <2> SUFFICES ASSUME NEW u \in Seq(T), NEW x \in T, Only(Only(u, S), R) = Only(u, S \cap R)
               PROVE  Only(Only(Append(u, x), S), R) = Only(Append(u, x), S \cap R)
    BY AppendProperties
  <2>1. PICK a \in Seq(T) : a = Only(u, S)
    BY OnlySeq
  <2>2. Only(Append(u, x), S) = IF x \in S THEN Append(a, x) ELSE a
    BY <2>1, OnlyAppend
  <2>3. PICK P : P = S \cap R
    OBVIOUS
  <2>4. Only(Append(u, x), P) = IF x \in P THEN Append(Only(u, P), x) ELSE Only(u, P)
    BY OnlyAppend
  <2>5. Only(Append(a, x), R) = IF x \in R THEN Append(Only(a, R), x) ELSE Only(a, R)
    BY OnlyAppend
  <2>6. Only(a, R) = Only(u, P)
    BY <2>1, <2>3
  <2>7. x \in P <=> x \in S /\ x \in R
    BY <2>3
  <2>8. Only(Only(Append(u, x), S), R) = Only(Append(u, x), P)
    BY <2>1, <2>2, <2>4, <2>5, <2>6, <2>7
  <2> QED BY <2>3, <2>8
<1> HIDE DEF G
<1>3. Seq(T) \subseteq G
  BY <1>1, <1>2, SeqSet
<1> QED BY <1>3 DEF G

\* Nothing is kept only of a sequence that has nothing to keep.
LEMMA OnlyNothing ==
  ASSUME NEW T, NEW s \in Seq(T), NEW S
  PROVE  Only(s, S) = <<>> <=> \A i \in 1 .. Len(s) : s[i] \notin S
<1> DEFINE G == {u \in Seq(T) : Only(u, S) = <<>> <=> \A i \in 1 .. Len(u) : u[i] \notin S}
<1>1. <<>> \in G
  BY OnlyEmpty, EmptySeq
<1>2. \A u \in Seq(T), x \in T : u \in G => Append(u, x) \in G
  <2> SUFFICES ASSUME NEW u \in Seq(T), NEW x \in T,
                      Only(u, S) = <<>> <=> \A i \in 1 .. Len(u) : u[i] \notin S
               PROVE  Only(Append(u, x), S) = <<>>
                        <=> \A i \in 1 .. Len(Append(u, x)) : Append(u, x)[i] \notin S
    BY AppendProperties
  <2> DEFINE a == Only(u, S)
             v == Append(u, x)
  <2>1. a \in Seq(T \cap S)
    BY OnlyType
  <2>2. Only(v, S) = IF x \in S THEN Append(a, x) ELSE a
    BY OnlyAppend
  <2>3. Len(u) \in Nat /\ Len(v) = Len(u) + 1 /\ v[Len(u) + 1] = x
        /\ \A i \in 1 .. Len(u) : v[i] = u[i]
    BY AppendProperties, LenProperties
  <2> HIDE DEF a, v
  <2>4. CASE x \in S
    <3>1. Only(v, S) # <<>>
      BY <2>1, <2>2, <2>4, AppendProperties
    <3>2. Len(u) + 1 \in 1 .. Len(v)
      BY <2>3
    <3> QED BY <2>3, <2>4, <3>1, <3>2 DEF v
  <2>5. CASE x \notin S
    <3>1. \A i \in 1 .. Len(v) : i \in 1 .. Len(u) \/ i = Len(u) + 1
      BY <2>3
    <3>2. \A i \in 1 .. Len(u) : i \in 1 .. Len(v)
      BY <2>3
    <3>3. (\A i \in 1 .. Len(v) : v[i] \notin S) <=> \A i \in 1 .. Len(u) : u[i] \notin S
      BY <2>3, <2>5, <3>1, <3>2
    <3> QED BY <2>2, <2>5, <3>3 DEF a, v
  <2> QED BY <2>4, <2>5
<1> HIDE DEF G
<1>3. Seq(T) \subseteq G
  BY <1>1, <1>2, SeqSet
<1> QED BY <1>3 DEF G

LEMMA OnlyHead ==
  ASSUME NEW T, NEW s \in Seq(T), s # <<>>, NEW S
  PROVE  Only(s, S) = (IF s[1] \in S THEN <<s[1]>> ELSE <<>>) \o Only(Tail(s), S)
<1>1. s[1] \in T /\ Tail(s) \in Seq(T) /\ s = <<s[1]>> \o Tail(s)
  BY HeadTail
<1>2. Only(<<s[1]>>, S) = IF s[1] \in S THEN <<s[1]>> ELSE <<>>
  <2>1. PICK x \in T : x = s[1]
    BY <1>1
  <2>2. PICK e \in Seq(T) : e = <<>>
    BY EmptySeq
  <2>3. Append(e, x) = <<x>> /\ Only(e, S) = <<>>
    BY <2>2, OnlyEmpty
  <2>4. Only(Append(e, x), S) = IF x \in S THEN Append(Only(e, S), x) ELSE Only(e, S)
    BY OnlyAppend, Zenon
  <2> QED BY <2>1, <2>2, <2>3, <2>4
<1>3. PICK h : h = <<s[1]>>
  OBVIOUS
<1>4. h \in Seq(T)
  BY <1>1, <1>3
<1>5. PICK t \in Seq(T) : t = Tail(s)
  BY <1>1
<1>6. Only(h \o t, S) = Only(h, S) \o Only(t, S)
  BY <1>4, OnlyConcat
<1> QED BY <1>1, <1>2, <1>3, <1>5, <1>6
-----------------------------------------------------------------------------
(* FlattenSeq puts the sequences of a sequence one after the other.        *)

FlatUpTo(s, n, f) ==
    f = [i \in 1 .. n |-> IF i = 1 THEN s[i] ELSE f[i - 1] \o s[i]]

LEMMA FlatExists == ASSUME NEW s, NEW n \in Nat PROVE \E f : FlatUpTo(s, n, f)
<1> DEFINE G == {k \in Nat : \E f : FlatUpTo(s, k, f)}
<1>1. 0 \in G
  <2> DEFINE f == [i \in 1 .. 0 |-> <<>>]
  <2>1. FlatUpTo(s, 0, f)
    BY DEF FlatUpTo
  <2> QED BY <2>1
<1>2. ASSUME NEW k \in G PROVE k + 1 \in G
  <2>1. PICK f : FlatUpTo(s, k, f)
    OBVIOUS
  <2> DEFINE g == [i \in 1 .. k + 1 |->
                      IF i <= k THEN f[i] ELSE IF i = 1 THEN s[i] ELSE f[i - 1] \o s[i]]
             h == [i \in 1 .. k + 1 |-> IF i = 1 THEN s[i] ELSE g[i - 1] \o s[i]]
  <2>2. ASSUME NEW i \in 1 .. k + 1 PROVE g[i] = h[i]
    <3>1. CASE i = 1
      <4>1. i <= k => f[i] = s[i]
        BY <2>1, <3>1 DEF FlatUpTo
      <4> QED BY <3>1, <4>1
    <3>2. CASE i # 1 /\ i <= k
      <4>1. i \in 1 .. k /\ i - 1 \in 1 .. k /\ i - 1 \in 1 .. k + 1
        BY <3>2
      <4>2. f[i] = f[i - 1] \o s[i]
        BY <2>1, <3>2, <4>1 DEF FlatUpTo
      <4>3. g[i - 1] = f[i - 1] /\ g[i] = f[i]
        BY <4>1, <3>2
      <4> QED BY <3>2, <4>2, <4>3
    <3>3. CASE i # 1 /\ i = k + 1
      <4>1. i - 1 \in 1 .. k + 1 /\ i - 1 <= k /\ ~(i <= k)
        BY <3>3
      <4> QED BY <3>3, <4>1
    <3> QED BY <3>1, <3>2, <3>3
  <2>3. g = h
    BY <2>2
  <2> HIDE DEF g
  <2>4. FlatUpTo(s, k + 1, g)
    BY <2>3 DEF FlatUpTo
  <2> QED BY <2>4
<1> HIDE DEF G
<1>3. G = Nat
  <2>1. G \subseteq Nat
    BY DEF G
  <2> QED BY <1>1, <1>2, <2>1, NatSet
<1> QED BY <1>3 DEF G

LEMMA FlatStep ==
  ASSUME NEW s, NEW n \in Nat, NEW f, FlatUpTo(s, n, f)
  PROVE  \A i \in 1 .. n : f[i] = IF i = 1 THEN s[i] ELSE f[i - 1] \o s[i]
<1> SUFFICES ASSUME NEW i \in 1 .. n PROVE f[i] = IF i = 1 THEN s[i] ELSE f[i - 1] \o s[i]
  OBVIOUS
<1> DEFINE h == [j \in 1 .. n |-> IF j = 1 THEN s[j] ELSE f[j - 1] \o s[j]]
<1>1. h[i] = IF i = 1 THEN s[i] ELSE f[i - 1] \o s[i]
  OBVIOUS
<1> QED BY <1>1 DEF FlatUpTo

LEMMA FlatUnique ==
  ASSUME NEW s, NEW t, NEW n \in Nat \ {0}, NEW m \in Nat, n <= m,
         NEW f, FlatUpTo(s, n, f), NEW g, FlatUpTo(t, m, g)
  PROVE  (\A i \in 1 .. n : s[i] = t[i]) => f[n] = g[n]
<1> SUFFICES ASSUME \A i \in 1 .. n : s[i] = t[i] PROVE f[n] = g[n]
  OBVIOUS
<1> DEFINE G == {k \in Nat : k \in 1 .. n => f[k] = g[k]}
<1>1. 0 \in G
  OBVIOUS
<1>2. ASSUME NEW k \in G PROVE k + 1 \in G
  <2> SUFFICES ASSUME k + 1 \in 1 .. n PROVE f[k + 1] = g[k + 1]
    OBVIOUS
  <2>1. PICK j \in 1 .. n : j = k + 1
    OBVIOUS
  <2>2. f[j] = IF j = 1 THEN s[j] ELSE f[j - 1] \o s[j]
    BY FlatStep
  <2>3. g[j] = IF j = 1 THEN t[j] ELSE g[j - 1] \o t[j]
    <3>1. j \in 1 .. m
      OBVIOUS
    <3>2. \A i \in 1 .. m : g[i] = IF i = 1 THEN t[i] ELSE g[i - 1] \o t[i]
      BY FlatStep
    <3> QED BY <3>1, <3>2
  <2>4. j # 1 => j - 1 = k /\ f[k] = g[k]
    BY <2>1
  <2> QED BY <2>1, <2>2, <2>3, <2>4
<1> HIDE DEF G
<1>3. G = Nat
  <2>1. G \subseteq Nat
    BY DEF G
  <2> QED BY <1>1, <1>2, <2>1, NatSet
<1> QED BY <1>3 DEF G

LEMMA FlatOf ==
  ASSUME NEW s, NEW n \in Nat \ {0}, Len(s) = n
  PROVE  \E f : FlatUpTo(s, n, f) /\ FlattenSeq(s) = f[n]
<1>1. \E f : FlatUpTo(s, n, f)
  BY FlatExists
<1> QED BY <1>1 DEF FlattenSeq, FlatUpTo

LEMMA FlattenEmpty == FlattenSeq(<<>>) = <<>>
BY DEF FlattenSeq

LEMMA FlattenOne == ASSUME NEW x, NEW s, s = <<x>> PROVE FlattenSeq(s) = x
<1>1. PICK n \in Nat \ {0} : n = 1
  OBVIOUS
<1>2. Len(s) = n /\ s[1] = x
  BY <1>1
<1>3. PICK f : FlatUpTo(s, n, f) /\ FlattenSeq(s) = f[n]
  BY <1>2, FlatOf
<1>4. \A i \in 1 .. n : f[i] = IF i = 1 THEN s[i] ELSE f[i - 1] \o s[i]
  BY <1>3, FlatStep
<1> QED BY <1>1, <1>2, <1>3, <1>4

LEMMA FlattenNext ==
  ASSUME NEW s, NEW n \in Nat \ {0}, Len(s) = n, NEW t, NEW m \in Nat \ {0}, Len(t) = m,
         m = n + 1
  PROVE  (\A i \in 1 .. n : s[i] = t[i]) => FlattenSeq(t) = FlattenSeq(s) \o t[m]
<1> SUFFICES ASSUME \A i \in 1 .. n : s[i] = t[i] PROVE FlattenSeq(t) = FlattenSeq(s) \o t[m]
  OBVIOUS
<1>1. PICK f : FlatUpTo(s, n, f) /\ FlattenSeq(s) = f[n]
  BY FlatOf
<1>2. PICK g : FlatUpTo(t, m, g) /\ FlattenSeq(t) = g[m]
  BY FlatOf
<1>3. n <= m /\ m \in Nat
  OBVIOUS
<1>4. f[n] = g[n]
  BY <1>1, <1>2, <1>3, FlatUnique
<1>5. g[m] = g[n] \o t[m]
  <2>1. m \in 1 .. m /\ m - 1 = n /\ m # 1
    OBVIOUS
  <2>2. \A i \in 1 .. m : g[i] = IF i = 1 THEN t[i] ELSE g[i - 1] \o t[i]
    BY <1>2, FlatStep
  <2> QED BY <2>1, <2>2
<1> QED BY <1>1, <1>2, <1>4, <1>5

LEMMA FlattenLonger ==
  ASSUME NEW T, NEW s \in Seq(Seq(T)), s # <<>>, NEW x \in Seq(T), NEW t, t = Append(s, x)
  PROVE  FlattenSeq(t) = FlattenSeq(s) \o x
<1>1. PICK n \in Nat \ {0} : n = Len(s)
  BY EmptySeq, LenProperties
<1>2. PICK m \in Nat \ {0} : m = n + 1
  OBVIOUS
<1>3. Len(t) = m /\ t[m] = x /\ \A i \in 1 .. n : s[i] = t[i]
  BY <1>1, <1>2, AppendProperties
<1>4. FlattenSeq(t) = FlattenSeq(s) \o t[m]
  BY <1>1, <1>2, <1>3, FlattenNext, Zenon
<1> QED BY <1>3, <1>4

LEMMA FlattenAppend ==
  ASSUME NEW T, NEW s \in Seq(Seq(T)), NEW x \in Seq(T), NEW t, t = Append(s, x)
  PROVE  FlattenSeq(t) = FlattenSeq(s) \o x
<1>1. CASE s = <<>>
  <2>1. t = <<x>>
    BY <1>1
  <2>2. FlattenSeq(t) = x
    BY <2>1, FlattenOne
  <2>3. FlattenSeq(s) = <<>> /\ <<>> \o x = x
    BY <1>1, FlattenEmpty, ConcatEmptySeq
  <2> QED BY <2>2, <2>3
<1>2. CASE s # <<>>
  BY <1>2, FlattenLonger
<1> QED BY <1>1, <1>2

LEMMA FlattenType == ASSUME NEW T, NEW s \in Seq(Seq(T)) PROVE FlattenSeq(s) \in Seq(T)
<1> DEFINE G == {u \in Seq(Seq(T)) : FlattenSeq(u) \in Seq(T)}
<1>1. <<>> \in G
  BY FlattenEmpty, EmptySeq
<1>2. \A u \in Seq(Seq(T)), x \in Seq(T) : u \in G => Append(u, x) \in G
  <2> SUFFICES ASSUME NEW u \in Seq(Seq(T)), NEW x \in Seq(T), FlattenSeq(u) \in Seq(T)
               PROVE  FlattenSeq(Append(u, x)) \in Seq(T) /\ Append(u, x) \in Seq(Seq(T))
    OBVIOUS
  <2>1. PICK t \in Seq(Seq(T)) : t = Append(u, x)
    BY AppendProperties
  <2>2. PICK a \in Seq(T) : a = FlattenSeq(u)
    OBVIOUS
  <2>3. FlattenSeq(t) = a \o x
    BY <2>1, <2>2, FlattenAppend
  <2>4. a \o x \in Seq(T)
    BY ConcatProperties
  <2> QED BY <2>1, <2>3, <2>4
<1> HIDE DEF G
<1>3. Seq(Seq(T)) \subseteq G
  BY <1>1, <1>2, SeqSet
<1> QED BY <1>3 DEF G

\* The first sequence comes first.
LEMMA FlattenHead ==
  ASSUME NEW T, NEW x \in Seq(T), NEW s \in Seq(Seq(T)), NEW t, t = <<x>> \o s
  PROVE  FlattenSeq(t) = x \o FlattenSeq(s)
<1>0. \A a, y \in Seq(T) : (x \o a) \o y = x \o (a \o y)
  BY ConcatAssociative
<1>1. PICK h \in Seq(Seq(T)) : h = <<x>>
  <2>1. <<x>> \in Seq(Seq(T))
    OBVIOUS
  <2> QED BY <2>1
<1> DEFINE G == {u \in Seq(Seq(T)) : FlattenSeq(h \o u) = x \o FlattenSeq(u)}
<1>2. <<>> \in G
  <2>1. h \o <<>> = h /\ x \o <<>> = x
    BY ConcatEmptySeq
  <2>2. FlattenSeq(h) = x
    BY <1>1, FlattenOne
  <2> QED BY <2>1, <2>2, FlattenEmpty, EmptySeq
<1>3. \A u \in Seq(Seq(T)), y \in Seq(T) : u \in G => Append(u, y) \in G
  <2> SUFFICES ASSUME NEW u \in Seq(Seq(T)), NEW y \in Seq(T),
                      FlattenSeq(h \o u) = x \o FlattenSeq(u)
               PROVE  /\ FlattenSeq(h \o Append(u, y)) = x \o FlattenSeq(Append(u, y))
                      /\ Append(u, y) \in Seq(Seq(T))
    OBVIOUS
  <2>1. PICK v \in Seq(Seq(T)) : v = Append(u, y)
    BY AppendProperties
  <2>2. PICK a \in Seq(T) : a = FlattenSeq(u)
    BY FlattenType
  <2>3. FlattenSeq(v) = a \o y
    BY <2>1, <2>2, FlattenAppend
  <2>4. (x \o a) \o y = x \o (a \o y)
    BY <1>0
  <2>5. PICK w \in Seq(Seq(T)) : w = h \o u
    BY ConcatProperties
  <2>6. h \o v = Append(w, y)
    BY <2>1, <2>5, ConcatAppend
  <2>7. FlattenSeq(h \o v) = FlattenSeq(w) \o y
    BY <2>6, FlattenAppend
  <2> QED BY <2>1, <2>2, <2>3, <2>4, <2>5, <2>7
<1> HIDE DEF G
<1>4. Seq(Seq(T)) \subseteq G
  BY <1>2, <1>3, SeqSet
<1> QED BY <1>1, <1>4 DEF G
-----------------------------------------------------------------------------
(* Parts of sequences, in the form the proofs cite.                        *)

LEMMA OneOf ==
  ASSUME NEW T, NEW x \in T
  PROVE  <<x>> \in Seq(T) /\ Len(<<x>>) = 1 /\ <<x>>[1] = x
OBVIOUS

LEMMA TailIs ==
  ASSUME NEW T, NEW s \in Seq(T), NEW m \in Nat \ {0}, Len(s) = m
  PROVE  /\ Tail(s) \in Seq(T) /\ Len(Tail(s)) = m - 1
         /\ \A i \in 1 .. m - 1 : Tail(s)[i] = s[i + 1]
<1>1. s # <<>>
  BY EmptySeq
<1>2. /\ Tail(s) \in Seq(T) /\ Len(Tail(s)) = Len(s) - 1
      /\ \A i \in 1 .. Len(Tail(s)) : Tail(s)[i] = s[i + 1]
  BY <1>1, HeadTailProperties
<1> QED BY <1>2

\* What is left of a sequence from a position on.
LEMMA FromOn ==
  ASSUME NEW T, NEW w \in Seq(T), NEW k \in 1 .. Len(w), NEW m \in Nat, m = (Len(w) - k) + 1
  PROVE  /\ SubSeq(w, k, Len(w)) \in Seq(T) /\ Len(SubSeq(w, k, Len(w))) = m
         /\ \A i \in 1 .. m : SubSeq(w, k, Len(w))[i] = w[(k + i) - 1]
<1>1. PICK n \in Nat : n = Len(w) /\ \A i \in 1 .. n : w[i] \in T
  BY LenProperties, ElementOfSeq
<1>2. \A i \in k .. n : w[i] \in T
  BY <1>1
<1>3. k \in Int /\ n \in Int /\ k <= n
  BY <1>1
<1>4. /\ SubSeq(w, k, n) \in Seq(T)
      /\ Len(SubSeq(w, k, n)) = IF k <= n THEN n - k + 1 ELSE 0
      /\ \A i \in 1 .. n - k + 1 : SubSeq(w, k, n)[i] = w[k + i - 1]
  BY <1>2, <1>3, SubSeqProperties
<1> QED BY <1>1, <1>3, <1>4

LEMMA UpTo ==
  ASSUME NEW T, NEW w \in Seq(T), NEW m \in Nat, m <= Len(w)
  PROVE  /\ SubSeq(w, 1, m) \in Seq(T) /\ Len(SubSeq(w, 1, m)) = m
         /\ \A i \in 1 .. m : SubSeq(w, 1, m)[i] = w[i]
<1>1. \A i \in 1 .. m : w[i] \in T
  BY LenProperties, ElementOfSeq
<1> QED BY <1>1, SubSeqProperties

Regroup(a, b, c) == (a \o b) \o c = a \o (b \o c)

LEMMA Regrouped ==
  ASSUME NEW T, NEW a \in Seq(T), NEW b \in Seq(T), NEW c \in Seq(T) PROVE Regroup(a, b, c)
BY ConcatAssociative DEF Regroup
-----------------------------------------------------------------------------
LEMMA FlattenConcat ==
  ASSUME NEW T, NEW s \in Seq(Seq(T)), NEW t \in Seq(Seq(T))
  PROVE  FlattenSeq(s \o t) = FlattenSeq(s) \o FlattenSeq(t)
<1> DEFINE G == {u \in Seq(Seq(T)) : FlattenSeq(s \o u) = FlattenSeq(s) \o FlattenSeq(u)}
<1>0. PICK a \in Seq(T) : a = FlattenSeq(s)
  BY FlattenType
<1>1. <<>> \in G
  <2>1. s \o <<>> = s /\ a \o <<>> = a
    BY ConcatEmptySeq
  <2> QED BY <1>0, <2>1, FlattenEmpty, EmptySeq
<1>2. \A u \in Seq(Seq(T)), y \in Seq(T) : u \in G => Append(u, y) \in G
  <2> SUFFICES ASSUME NEW u \in Seq(Seq(T)), NEW y \in Seq(T),
                      FlattenSeq(s \o u) = a \o FlattenSeq(u)
               PROVE  /\ FlattenSeq(s \o Append(u, y)) = a \o FlattenSeq(Append(u, y))
                      /\ Append(u, y) \in Seq(Seq(T))
    BY <1>0
  <2>1. PICK v \in Seq(Seq(T)) : v = Append(u, y)
    BY AppendProperties
  <2>2. PICK b \in Seq(T) : b = FlattenSeq(u)
    BY FlattenType
  <2>3. FlattenSeq(v) = b \o y
    BY <2>1, <2>2, FlattenAppend
  <2>4. Regroup(a, b, y)
    BY Regrouped
  <2>5. PICK w \in Seq(Seq(T)) : w = s \o u
    BY ConcatProperties
  <2>6. s \o v = Append(w, y)
    <3>1. Lengthens(s, u, y)
      BY AppendLast
    <3> QED BY <3>1, <2>1, <2>5 DEF Lengthens
  <2>7. FlattenSeq(s \o v) = FlattenSeq(w) \o y
    BY <2>5, <2>6, FlattenAppend
  <2> QED BY <2>1, <2>2, <2>3, <2>4, <2>5, <2>7 DEF Regroup
<1> HIDE DEF G
<1>3. Seq(Seq(T)) \subseteq G
  BY <1>1, <1>2, SeqSet
<1> QED BY <1>3 DEF G

\* A sequence made of two, position by position.
Follows(r, f, g, n, m) ==
    /\ Len(r) = n + m /\ Len(f) = n /\ Len(g) = m
    /\ \A i \in 1 .. n : r[i] = f[i]
    /\ \A i \in 1 .. m : r[n + i] = g[i]

LEMMA Piecewise ==
  ASSUME NEW T, NEW r \in Seq(T), NEW f \in Seq(T), NEW g \in Seq(T),
         NEW n \in Nat, NEW m \in Nat, Follows(r, f, g, n, m)
  PROVE  r = f \o g
<1>1. PICK h \in Seq(T) : h = f \o g
  BY ConcatProperties
<1>2. /\ Len(h) = n + m
      /\ \A i \in 1 .. n + m : h[i] = IF i <= n THEN f[i] ELSE g[i - n]
  <2>1. /\ Len(h) = Len(f) + Len(g)
        /\ \A i \in 1 .. Len(f) + Len(g) : h[i] = IF i <= Len(f) THEN f[i] ELSE g[i - Len(f)]
    BY <1>1, ConcatProperties
  <2> QED BY <2>1 DEF Follows
<1>3. ASSUME NEW i \in 1 .. n + m PROVE r[i] = h[i]
  <2>1. CASE i <= n
    <3>1. i \in 1 .. n
      BY <2>1
    <3> QED BY <3>1, <2>1, <1>2 DEF Follows
  <2>2. CASE ~(i <= n)
    <3>1. PICK j \in 1 .. m : j = i - n
      BY <2>2
    <3>2. i = n + j
      BY <3>1
    <3> QED BY <3>1, <3>2, <2>2, <1>2 DEF Follows
  <2> QED BY <2>1, <2>2
<1>4. Len(r) = Len(h) /\ \A i \in 1 .. Len(r) : r[i] = h[i]
  BY <1>2, <1>3 DEF Follows
<1>5. r = h
  BY <1>4, SeqEqual
<1> QED BY <1>1, <1>5

LEMMA TwoOf ==
  ASSUME NEW T, NEW x \in T, NEW y \in T, NEW s, s = <<x, y>>
  PROVE  s \in Seq(T) /\ Len(s) = 2 /\ s[1] = x /\ s[2] = y /\ s = <<x>> \o <<y>>
<1>1. PICK a \in Seq(T), b \in Seq(T) : a = <<x>> /\ b = <<y>>
  BY OneOf
<1>2. s = Append(a, y) /\ s[1] = x /\ s[2] = y
  BY <1>1
<1>3. s \in Seq(T) /\ Len(s) = Len(a) + 1 /\ Append(a, y) = a \o <<y>>
  BY <1>2, AppendProperties, AppendIsConcat
<1>4. Len(a) = 1
  BY <1>1, OneOf
<1> QED BY <1>1, <1>2, <1>3, <1>4

Beginning(a, w, k) == Len(a) = k /\ \A i \in 1 .. k : a[i] = w[i]

LEMMA BeginningIs ==
  ASSUME NEW T, NEW w \in Seq(T), NEW k \in Nat, k <= Len(w)
  PROVE  \E a \in Seq(T) : a = SubSeq(w, 1, k) /\ Beginning(a, w, k)
<1>1. /\ SubSeq(w, 1, k) \in Seq(T) /\ Len(SubSeq(w, 1, k)) = k
      /\ \A i \in 1 .. k : SubSeq(w, 1, k)[i] = w[i]
  BY UpTo
<1> QED BY <1>1 DEF Beginning

\* A beginning of two sequences is one of the first, or goes on into the second.
LEMMA BeginningOf ==
  ASSUME NEW T, NEW u \in Seq(T), NEW v \in Seq(T), NEW k \in Nat
  PROVE  /\ k <= Len(u) => SubSeq(u \o v, 1, k) = SubSeq(u, 1, k)
         /\ \A j \in Nat : k = Len(u) + j /\ j <= Len(v) =>
               SubSeq(u \o v, 1, k) = u \o SubSeq(v, 1, j)
<1>1. PICK n \in Nat, m \in Nat : n = Len(u) /\ m = Len(v)
  BY LenProperties
<1>2. PICK w \in Seq(T) : w = u \o v
  BY ConcatProperties
<1>3. Len(w) = n + m /\ \A i \in 1 .. n + m : w[i] = IF i <= n THEN u[i] ELSE v[i - n]
  BY <1>1, <1>2, ConcatProperties
<1>4. ASSUME k <= n PROVE SubSeq(w, 1, k) = SubSeq(u, 1, k)
  <2>1. k <= Len(w) /\ k <= Len(u)
    BY <1>1, <1>3, <1>4
  <2>2. PICK a \in Seq(T) : a = SubSeq(w, 1, k) /\ Beginning(a, w, k)
    BY <2>1, BeginningIs
  <2>3. PICK b \in Seq(T) : b = SubSeq(u, 1, k) /\ Beginning(b, u, k)
    BY <2>1, BeginningIs
  <2>4. \A i \in 1 .. k : i \in 1 .. n + m /\ i <= n
    BY <1>4
  <2>5. \A i \in 1 .. k : a[i] = b[i]
    BY <2>2, <2>3, <2>4, <1>3 DEF Beginning
  <2>6. a = b
    BY <2>2, <2>3, <2>5, SeqEqual DEF Beginning
  <2> QED BY <2>2, <2>3, <2>6
<1>5. ASSUME NEW j \in Nat, k = n + j, j <= m PROVE SubSeq(w, 1, k) = u \o SubSeq(v, 1, j)
  <2>1. k <= Len(w) /\ j <= Len(v)
    BY <1>1, <1>3, <1>5
  <2>2. PICK a \in Seq(T) : a = SubSeq(w, 1, k) /\ Beginning(a, w, k)
    BY <2>1, BeginningIs
  <2>3. PICK b \in Seq(T) : b = SubSeq(v, 1, j) /\ Beginning(b, v, j)
    BY <2>1, BeginningIs
  <2>4. \A i \in 1 .. n : a[i] = u[i]
    <3> SUFFICES ASSUME NEW i \in 1 .. n PROVE a[i] = u[i]
      OBVIOUS
    <3>1. i \in 1 .. n + m /\ i \in 1 .. k /\ i <= n
      BY <1>5
    <3> QED BY <3>1, <1>3, <2>2 DEF Beginning
  <2>5. \A i \in 1 .. j : a[n + i] = b[i]
    <3> SUFFICES ASSUME NEW i \in 1 .. j PROVE a[n + i] = b[i]
      OBVIOUS
    <3>1. PICK l \in 1 .. n + m : l = n + i /\ l \in 1 .. k /\ ~(l <= n) /\ l - n = i
      BY <1>5
    <3>2. a[l] = w[l] /\ w[l] = v[i]
      BY <3>1, <1>3, <2>2 DEF Beginning
    <3> QED BY <3>1, <3>2, <2>3 DEF Beginning
  <2>6. Follows(a, u, b, n, j)
    BY <1>1, <1>5, <2>2, <2>3, <2>4, <2>5 DEF Follows, Beginning
  <2>7. a = u \o b
    BY <2>6, Piecewise
  <2> QED BY <2>2, <2>3, <2>7
<1> QED BY <1>1, <1>2, <1>4, <1>5

\* The text w stands in s, after n characters.
Stands(s, w, n) == n + Len(w) <= Len(s) /\ \A i \in 1 .. Len(w) : s[n + i] = w[i]

LEMMA StandsPart ==
  ASSUME NEW T, NEW s \in Seq(T), NEW w \in Seq(T), NEW n \in Nat, Stands(s, w, n),
         NEW k \in Nat, k <= Len(w)
  PROVE  SubSeq(s, n + 1, n + k) = SubSeq(w, 1, k)
<1>1. PICK l \in Nat, m \in Nat : l = Len(s) /\ m = Len(w) /\ n + m <= l
  BY LenProperties DEF Stands
<1>2. PICK b \in Seq(T) : b = SubSeq(w, 1, k) /\ Beginning(b, w, k)
  BY BeginningIs
<1>3. \A i \in n + 1 .. n + k : s[i] \in T
  <2>1. \A i \in n + 1 .. n + k : i \in 1 .. l
    BY <1>1
  <2> QED BY <2>1, <1>1, ElementOfSeq
<1>4. PICK x \in Int, y \in Int : x = n + 1 /\ y = n + k /\ (y - x) + 1 = k
                                /\ (IF x <= y THEN (y - x) + 1 ELSE 0) = k
  <2>1. /\ n + 1 \in Int /\ n + k \in Int /\ ((n + k) - (n + 1)) + 1 = k
        /\ (IF n + 1 <= n + k THEN ((n + k) - (n + 1)) + 1 ELSE 0) = k
    OBVIOUS
  <2> QED BY <2>1
<1>5. /\ SubSeq(s, x, y) \in Seq(T) /\ Len(SubSeq(s, x, y)) = (IF x <= y THEN y - x + 1 ELSE 0)
      /\ \A i \in 1 .. y - x + 1 : SubSeq(s, x, y)[i] = s[x + i - 1]
  BY <1>3, <1>4, SubSeqProperties
<1>6. PICK a \in Seq(T) : a = SubSeq(s, x, y) /\ Len(a) = k
                          /\ \A i \in 1 .. k : a[i] = s[(x + i) - 1]
  <2>1. \A i \in 1 .. k : SubSeq(s, x, y)[i] = s[(x + i) - 1]
    BY <1>4, <1>5
  <2>2. Len(SubSeq(s, x, y)) = k
    BY <1>4, <1>5
  <2> QED BY <1>5, <2>1, <2>2
<1>7. ASSUME NEW i \in 1 .. k PROVE a[i] = b[i]
  <2>1. (x + i) - 1 = n + i /\ i \in 1 .. m
    BY <1>1, <1>4
  <2>2. s[n + i] = w[i]
    BY <2>1, <1>1 DEF Stands
  <2> QED BY <2>1, <2>2, <1>2, <1>6 DEF Beginning
<1>8. a = b
  BY <1>2, <1>6, <1>7, SeqEqual DEF Beginning
<1> QED BY <1>2, <1>4, <1>6, <1>8

LEMMA StandsBoth ==
  ASSUME NEW T, NEW s \in Seq(T), NEW u \in Seq(T), NEW v \in Seq(T), NEW n \in Nat,
         Stands(s, u \o v, n), NEW m \in Nat, m = n + Len(u)
  PROVE  Stands(s, u, n) /\ Stands(s, v, m)
<1>1. PICK l \in Nat, a \in Nat, b \in Nat : l = Len(s) /\ a = Len(u) /\ b = Len(v)
  BY LenProperties
<1>2. PICK w \in Seq(T) : w = u \o v
  BY ConcatProperties
<1>3. Len(w) = a + b /\ \A i \in 1 .. a + b : w[i] = IF i <= a THEN u[i] ELSE v[i - a]
  BY <1>1, <1>2, ConcatProperties
<1>4. n + (a + b) <= l /\ \A i \in 1 .. a + b : s[n + i] = w[i]
  BY <1>1, <1>2, <1>3 DEF Stands
<1>5. m = n + a /\ n + a <= l /\ m + b <= l
  BY <1>1, <1>4
<1>6. ASSUME NEW i \in 1 .. a PROVE s[n + i] = u[i]
  <2>1. i \in 1 .. a + b /\ i <= a
    OBVIOUS
  <2>2. w[i] = u[i]
    BY <2>1, <1>3
  <2>3. s[n + i] = w[i]
    BY <2>1, <1>4
  <2> QED BY <2>2, <2>3
<1>7. ASSUME NEW i \in 1 .. b PROVE s[m + i] = v[i]
  <2>1. PICK j \in 1 .. a + b : j = a + i /\ ~(j <= a) /\ j - a = i /\ n + j = m + i
    BY <1>5
  <2>2. w[j] = v[i]
    BY <2>1, <1>3
  <2>3. s[n + j] = w[j]
    BY <2>1, <1>4
  <2> QED BY <2>1, <2>2, <2>3
<1> QED BY <1>1, <1>5, <1>6, <1>7 DEF Stands

StartsAs(w, u) == w[1] = u[1]

LEMMA ConcatFirst ==
  ASSUME NEW T, NEW u \in Seq(T), NEW v \in Seq(T), Len(u) = 1
  PROVE  StartsAs(u \o v, u)
<1>0. PICK w : w = u \o v
  OBVIOUS
<1>1. PICK r \in Nat : r = Len(v)
  BY LenProperties
<1>2. \A i \in 1 .. Len(u) + Len(v) : w[i] = IF i <= Len(u) THEN u[i] ELSE v[i - Len(u)]
  BY <1>0, ConcatProperties
<1>3. \A i \in 1 .. 1 + r : w[i] = IF i <= 1 THEN u[i] ELSE v[i - 1]
  BY <1>1, <1>2
<1>4. 1 \in 1 .. 1 + r /\ 1 <= 1
  BY <1>1
<1>5. w[1] = u[1]
  BY <1>3, <1>4
<1> QED BY <1>0, <1>5 DEF StartsAs

\* A sequence from a position on.
LEMMA Dropped ==
  ASSUME NEW T, NEW s \in Seq(T), NEW n \in Nat, NEW m \in Nat, NEW l, l = Len(s), n + m = l
  PROVE  /\ SubSeq(s, n + 1, l) \in Seq(T) /\ Len(SubSeq(s, n + 1, l)) = m
         /\ \A i \in 1 .. m : SubSeq(s, n + 1, l)[i] = s[n + i]
<1>1. \A i \in n + 1 .. l : s[i] \in T
  <2>1. \A i \in n + 1 .. l : i \in 1 .. l
    OBVIOUS
  <2> QED BY <2>1, ElementOfSeq
<1>2. PICK x \in Int, y \in Int : x = n + 1 /\ y = l /\ (y - x) + 1 = m
                                /\ (IF x <= y THEN (y - x) + 1 ELSE 0) = m
  <2>1. /\ n + 1 \in Int /\ l \in Int /\ (l - (n + 1)) + 1 = m
        /\ (IF n + 1 <= l THEN (l - (n + 1)) + 1 ELSE 0) = m
    OBVIOUS
  <2> QED BY <2>1
<1>3. /\ SubSeq(s, x, y) \in Seq(T) /\ Len(SubSeq(s, x, y)) = (IF x <= y THEN y - x + 1 ELSE 0)
      /\ \A i \in 1 .. y - x + 1 : SubSeq(s, x, y)[i] = s[x + i - 1]
  BY <1>1, <1>2, SubSeqProperties
<1>4. \A i \in 1 .. m : (x + i) - 1 = n + i
  BY <1>2
<1>5. \A i \in 1 .. m : SubSeq(s, x, y)[i] = s[n + i]
  BY <1>2, <1>3, <1>4
<1> QED BY <1>2, <1>3, <1>5

\* What is cut off behind the first of two sequences is the second.
CutAfter(w, u, v) ==
    SubSeq(w, 1, Len(u)) = u /\ SubSeq(w, Len(u) + 1, Len(w)) = v

LEMMA CutAfterIs ==
  ASSUME NEW T, NEW u \in Seq(T), NEW v \in Seq(T)
  PROVE  CutAfter(u \o v, u, v)
<1>1. PICK n \in Nat, m \in Nat : n = Len(u) /\ m = Len(v)
  BY LenProperties
<1>2. PICK w \in Seq(T) : w = u \o v
  BY ConcatProperties
<1>3. Len(w) = n + m /\ \A i \in 1 .. n + m : w[i] = IF i <= n THEN u[i] ELSE v[i - n]
  BY <1>1, <1>2, ConcatProperties
<1>4. SubSeq(w, 1, n) = u
  <2>1. SubSeq(u \o v, 1, n) = SubSeq(u, 1, n)
    <3>1. n <= Len(u)
      BY <1>1
    <3> QED BY <3>1, BeginningOf
  <2>2. SubSeq(u, 1, n) = u
    BY <1>1, SubSeqFull
  <2> QED BY <2>1, <2>2, <1>2
<1>5. PICK l \in Nat : l = n + m /\ l = Len(w)
  BY <1>3
<1>6. PICK r \in Seq(T) : /\ r = SubSeq(w, n + 1, l) /\ Len(r) = m
                          /\ \A i \in 1 .. m : r[i] = w[n + i]
  <2>1. /\ SubSeq(w, n + 1, l) \in Seq(T) /\ Len(SubSeq(w, n + 1, l)) = m
        /\ \A i \in 1 .. m : SubSeq(w, n + 1, l)[i] = w[n + i]
    BY <1>5, Dropped
  <2> QED BY <2>1
<1>7. ASSUME NEW i \in 1 .. m PROVE r[i] = v[i]
  <2>1. PICK j \in 1 .. n + m : j = n + i /\ ~(j <= n) /\ j - n = i
    OBVIOUS
  <2> QED BY <2>1, <1>3, <1>6
<1>8. r = v
  BY <1>1, <1>6, <1>7, SeqEqual
<1> QED BY <1>1, <1>2, <1>4, <1>5, <1>6, <1>8 DEF CutAfter

\* The same for a first line.
FirstLine(w, x, r) == w[1] = x /\ Tail(w) = r /\ SubSeq(w, 2, Len(w)) = r

LEMMA FirstLineIs ==
  ASSUME NEW T, NEW x \in T, NEW r \in Seq(T)
  PROVE  FirstLine(<<x>> \o r, x, r)
<1>1. PICK u \in Seq(T) : u = <<x>> /\ Len(u) = 1 /\ u[1] = x
  BY OneOf
<1>2. PICK m \in Nat : m = Len(r)
  BY LenProperties
<1>3. PICK w \in Seq(T) : w = u \o r
  BY ConcatProperties
<1>4. Len(w) = 1 + m /\ \A i \in 1 .. 1 + m : w[i] = IF i <= 1 THEN u[i] ELSE r[i - 1]
  BY <1>1, <1>2, <1>3, ConcatProperties
<1>5. w[1] = x
  <2>1. StartsAs(u \o r, u)
    BY <1>1, ConcatFirst
  <2> QED BY <2>1, <1>1, <1>3 DEF StartsAs
<1>6. SubSeq(w, 2, Len(w)) = r
  <2>1. CutAfter(u \o r, u, r)
    BY CutAfterIs
  <2>2. 1 + 1 = 2
    OBVIOUS
  <2> QED BY <2>1, <2>2, <1>1, <1>3 DEF CutAfter
<1>7. Tail(w) = r
  <2>1. PICK k \in Nat \ {0} : k = Len(w) /\ k - 1 = m
    BY <1>4
  <2>2. PICK t \in Seq(T) : t = Tail(w) /\ Len(t) = m /\ \A i \in 1 .. m : t[i] = w[i + 1]
    <3>1. /\ Tail(w) \in Seq(T) /\ Len(Tail(w)) = k - 1
          /\ \A i \in 1 .. k - 1 : Tail(w)[i] = w[i + 1]
      BY <2>1, TailIs
    <3> QED BY <3>1, <2>1
  <2>3. ASSUME NEW i \in 1 .. m PROVE t[i] = r[i]
    <3>1. PICK j \in 1 .. 1 + m : j = i + 1 /\ ~(j <= 1) /\ j - 1 = i
      OBVIOUS
    <3> QED BY <3>1, <2>2, <1>4
  <2>4. t = r
    BY <2>2, <2>3, <1>2, SeqEqual
  <2> QED BY <2>2, <2>4
<1> QED BY <1>1, <1>3, <1>5, <1>6, <1>7 DEF FirstLine

LEMMA SeqLarger ==
  ASSUME NEW S, NEW T, S \subseteq T, NEW s \in Seq(S) PROVE s \in Seq(T)
<1>1. PICK n \in Nat : n = Len(s) /\ s \in [1 .. n -> S]
  BY LenProperties
<1>2. s \in [1 .. n -> T]
  BY <1>1
<1> QED BY <1>2, SeqDef
-----------------------------------------------------------------------------
\* A loop of n turns, given what a turn makes of the state and its number.
Turns(a, n, F, f) == f = [i \in 0 .. n |-> IF i = 0 THEN a ELSE F[<<f[i - 1], i>>]]
Turning(S, n, F) == \A x \in S, i \in 1 .. n : F[<<x, i>>] \in S

LEMMA TurnsExist ==
  ASSUME NEW S, NEW a \in S, NEW n \in Nat, NEW F, Turning(S, n, F)
  PROVE  \E f \in [0 .. n -> S] : Turns(a, n, F, f)
<1> USE DEF Turns, Turning
<1> DEFINE Runs(k, f) == f = [i \in 0 .. k |-> IF i = 0 THEN a ELSE F[<<f[i - 1], i>>]]
           G == {k \in Nat : k <= n => \E f \in [0 .. k -> S] : Runs(k, f)}
<1>1. 0 \in G
  <2> DEFINE f == [i \in 0 .. 0 |-> a]
  <2>1. f \in [0 .. 0 -> S] /\ Runs(0, f)
    OBVIOUS
  <2> QED BY <2>1
<1>2. ASSUME NEW k \in G PROVE k + 1 \in G
  <2> SUFFICES ASSUME k + 1 <= n PROVE \E f \in [0 .. k + 1 -> S] : Runs(k + 1, f)
    OBVIOUS
  <2>1. PICK f \in [0 .. k -> S] : Runs(k, f)
    OBVIOUS
  <2> DEFINE g == [i \in 0 .. k + 1 |-> IF i <= k THEN f[i] ELSE F[<<f[i - 1], i>>]]
             h == [i \in 0 .. k + 1 |-> IF i = 0 THEN a ELSE F[<<g[i - 1], i>>]]
  <2>2. ASSUME NEW i \in 0 .. k + 1 PROVE g[i] = h[i] /\ g[i] \in S
    <3>1. CASE i = 0
      <4>1. f[0] = a
        BY <2>1
      <4> QED BY <3>1, <4>1
    <3>2. CASE i # 0 /\ i <= k
      <4>1. i \in 0 .. k /\ i - 1 \in 0 .. k /\ i - 1 \in 0 .. k + 1
        BY <3>2
      <4>2. f[i] = F[<<f[i - 1], i>>]
        BY <2>1, <3>2, <4>1
      <4>3. g[i - 1] = f[i - 1] /\ g[i] = f[i] /\ f[i] \in S
        BY <4>1, <3>2
      <4> QED BY <3>2, <4>2, <4>3
    <3>3. CASE i = k + 1
      <4>1. /\ i - 1 \in 0 .. k + 1 /\ i - 1 <= k /\ ~(i <= k) /\ i # 0
            /\ i \in 1 .. n /\ i - 1 \in 0 .. k
        BY <3>3
      <4>2. g[i - 1] = f[i - 1] /\ g[i] = F[<<f[i - 1], i>>] /\ f[i - 1] \in S
        BY <4>1
      <4> QED BY <4>1, <4>2
    <3> QED BY <3>1, <3>2, <3>3
  <2>3. g = h /\ g \in [0 .. k + 1 -> S]
    BY <2>2
  <2> HIDE DEF g
  <2>4. Runs(k + 1, g)
    BY <2>3
  <2> QED BY <2>3, <2>4
<1> HIDE DEF G
<1>3. G = Nat
  <2>1. G \subseteq Nat
    BY DEF G
  <2> QED BY <1>1, <1>2, <2>1, NatSet
<1>4. n \in G
  BY <1>3
<1> QED BY <1>4 DEF G

\* A loop of n turns gets from 0 to n.
LEMMA Reached ==
  ASSUME NEW n \in Nat, NEW G, 0 \in G, \A k \in Nat : k < n /\ k \in G => k + 1 \in G
  PROVE  n \in G
<1> DEFINE N == {k \in Nat : k <= n => k \in G}
<1>1. 0 \in N
  OBVIOUS
<1>2. ASSUME NEW k \in N PROVE k + 1 \in N
  <2>1. k + 1 <= n => k < n /\ k <= n
    OBVIOUS
  <2> QED BY <2>1
<1>3. N \subseteq Nat
  OBVIOUS
<1> HIDE DEF N
<1>4. N = Nat
  BY <1>1, <1>2, <1>3, NatSet
<1>5. n \in N
  BY <1>4
<1> QED BY <1>5 DEF N

\* A part of a sequence, with its bounds and its length by name.
LEMMA PartIs ==
  ASSUME NEW T, NEW s \in Seq(T), NEW m \in Nat \ {0}, NEW l \in Nat, l <= Len(s),
         NEW k \in Nat, m + k = l + 1
  PROVE  /\ SubSeq(s, m, l) \in Seq(T) /\ Len(SubSeq(s, m, l)) = k
         /\ \A i \in 1 .. k : SubSeq(s, m, l)[i] = s[(m + i) - 1]
<1>1. Len(s) \in Nat /\ l \in Int /\ m \in Int
  BY LenProperties
<1>2. \A i \in m .. l : s[i] \in T
  <2>1. \A i \in m .. l : i \in 1 .. Len(s)
    BY <1>1
  <2> QED BY <2>1, ElementOfSeq
<1>3. /\ SubSeq(s, m, l) \in Seq(T)
      /\ Len(SubSeq(s, m, l)) = IF m <= l THEN l - m + 1 ELSE 0
      /\ \A i \in 1 .. l - m + 1 : SubSeq(s, m, l)[i] = s[m + i - 1]
  BY <1>1, <1>2, SubSeqProperties
<1>4. l - m + 1 = k /\ (IF m <= l THEN l - m + 1 ELSE 0) = k
  BY <1>1
<1> QED BY <1>3, <1>4

\* A part of what is left of a sequence is a part of the sequence.
LEMMA Shifted ==
  ASSUME NEW T, NEW s \in Seq(T), NEW q \in Nat, NEW m \in Nat, NEW l, l = Len(s), q + m = l,
         NEW w, w = SubSeq(s, q + 1, l),
         NEW a \in Nat \ {0}, NEW b \in Nat, b <= m, NEW k \in Nat, a + k = b + 1,
         NEW x, x = q + a, NEW y, y = q + b
  PROVE  SubSeq(w, a, b) = SubSeq(s, x, y) /\ SubSeq(w, a, b) \in Seq(T)
<1>1. w \in Seq(T) /\ Len(w) = m /\ \A i \in 1 .. m : w[i] = s[q + i]
  <2>1. /\ SubSeq(s, q + 1, l) \in Seq(T) /\ Len(SubSeq(s, q + 1, l)) = m
        /\ \A i \in 1 .. m : SubSeq(s, q + 1, l)[i] = s[q + i]
    BY Dropped
  <2> QED BY <2>1
<1>2. PICK u \in Seq(T) :
         u = SubSeq(w, a, b) /\ Len(u) = k /\ \A i \in 1 .. k : u[i] = w[(a + i) - 1]
  <2>1. /\ SubSeq(w, a, b) \in Seq(T) /\ Len(SubSeq(w, a, b)) = k
        /\ \A i \in 1 .. k : SubSeq(w, a, b)[i] = w[(a + i) - 1]
    BY <1>1, PartIs
  <2> QED BY <2>1
<1>3. PICK v \in Seq(T) :
         v = SubSeq(s, x, y) /\ Len(v) = k /\ \A i \in 1 .. k : v[i] = s[(x + i) - 1]
  <2>1. x \in Nat \ {0} /\ y \in Nat /\ y <= Len(s) /\ x + k = y + 1
    OBVIOUS
  <2>2. /\ SubSeq(s, x, y) \in Seq(T) /\ Len(SubSeq(s, x, y)) = k
        /\ \A i \in 1 .. k : SubSeq(s, x, y)[i] = s[(x + i) - 1]
    BY <2>1, PartIs
  <2> QED BY <2>2
<1>4. ASSUME NEW i \in 1 .. k PROVE u[i] = v[i]
  <2>1. (a + i) - 1 \in 1 .. m /\ q + ((a + i) - 1) = (x + i) - 1
    OBVIOUS
  <2>2. u[i] = w[(a + i) - 1] /\ v[i] = s[(x + i) - 1]
    BY <1>2, <1>3
  <2>3. w[(a + i) - 1] = s[q + ((a + i) - 1)]
    BY <1>1, <2>1
  <2> QED BY <2>1, <2>2, <2>3
<1>5. u = v
  BY <1>2, <1>3, <1>4, SeqEqual
<1> QED BY <1>2, <1>3, <1>5

LEMMA ToSetConcat ==
  ASSUME NEW T, NEW s \in Seq(T), NEW t \in Seq(T)
  PROVE  ToSet(s \o t) = ToSet(s) \cup ToSet(t)
<1>1. /\ s \o t \in Seq(T) /\ Len(s \o t) = Len(s) + Len(t) /\ Len(s) \in Nat /\ Len(t) \in Nat
      /\ \A i \in 1 .. Len(s) + Len(t) :
            (s \o t)[i] = IF i <= Len(s) THEN s[i] ELSE t[i - Len(s)]
  BY ConcatProperties, LenProperties
<1>2. /\ DOMAIN s = 1 .. Len(s) /\ DOMAIN t = 1 .. Len(t)
      /\ DOMAIN (s \o t) = 1 .. Len(s) + Len(t)
  BY <1>1, LenProperties
<1> DEFINE r == s \o t
<1>3. \A i \in 1 .. Len(s) : i \in 1 .. Len(s) + Len(t) /\ r[i] = s[i]
  BY <1>1
<1>4. \A i \in 1 .. Len(t) : i + Len(s) \in 1 .. Len(s) + Len(t) /\ r[i + Len(s)] = t[i]
  BY <1>1
<1>5. \A i \in 1 .. Len(s) + Len(t) :
         \/ i \in 1 .. Len(s) /\ r[i] = s[i]
         \/ i - Len(s) \in 1 .. Len(t) /\ r[i] = t[i - Len(s)]
  BY <1>1
<1>6. DOMAIN r = 1 .. Len(s) + Len(t)
  BY <1>2
<1> HIDE DEF r
<1>7. ToSet(r) \subseteq ToSet(s) \cup ToSet(t)
  BY <1>2, <1>5, <1>6 DEF ToSet
<1>8. ToSet(s) \subseteq ToSet(r) /\ ToSet(t) \subseteq ToSet(r)
  BY <1>2, <1>3, <1>4, <1>6 DEF ToSet
<1> QED BY <1>7, <1>8 DEF r

\* What is in a flattened sequence is in one of the sequences it is made of.
LEMMA FlattenHas ==
  ASSUME NEW T
  PROVE  \A s \in Seq(Seq(T)), x \in T :
            x \in ToSet(FlattenSeq(s)) <=> \E i \in 1 .. Len(s) : x \in ToSet(s[i])
<1> DEFINE Has(s) == \A x \in T :
               x \in ToSet(FlattenSeq(s)) <=> \E i \in 1 .. Len(s) : x \in ToSet(s[i])
           G == {s \in Seq(Seq(T)) : Has(s)}
<1>1. <<>> \in G
  <2>1. FlattenSeq(<<>>) = <<>> /\ <<>> \in Seq(Seq(T)) /\ Len(<<>>) = 0 /\ ToSet(<<>>) = {}
    BY FlattenEmpty DEF ToSet
  <2> QED BY <2>1
<1>2. ASSUME NEW s \in Seq(Seq(T)), NEW x \in Seq(T), s \in G PROVE Append(s, x) \in G
  <2> DEFINE t == Append(s, x)
  <2>1. /\ t \in Seq(Seq(T)) /\ Len(t) = Len(s) + 1 /\ Len(s) \in Nat
        /\ \A i \in 1 .. Len(s) : t[i] = s[i] /\ t[Len(s) + 1] = x
    BY AppendProperties
  <2>2. t[Len(s) + 1] = x
    BY AppendProperties
  <2>3. FlattenSeq(t) = FlattenSeq(s) \o x
    BY FlattenAppend
  <2>4. FlattenSeq(s) \in Seq(T)
    BY FlattenType
  <2>5. ToSet(FlattenSeq(s) \o x) = ToSet(FlattenSeq(s)) \cup ToSet(x)
    BY <2>4, ToSetConcat
  <2> HIDE DEF t
  <2>6. ASSUME NEW y \in T
        PROVE  y \in ToSet(FlattenSeq(t)) <=> \E i \in 1 .. Len(t) : y \in ToSet(t[i])
    <3>1. y \in ToSet(FlattenSeq(s)) <=> \E i \in 1 .. Len(s) : y \in ToSet(s[i])
      BY <1>2
    <3>2. (\E i \in 1 .. Len(t) : y \in ToSet(t[i]))
          <=> (\E i \in 1 .. Len(s) : y \in ToSet(s[i])) \/ y \in ToSet(x)
      <4>1. \A i \in 1 .. Len(t) : i \in 1 .. Len(s) \/ i = Len(s) + 1
        BY <2>1
      <4>2. Len(s) + 1 \in 1 .. Len(t) /\ \A i \in 1 .. Len(s) : i \in 1 .. Len(t)
        BY <2>1
      <4> QED BY <2>1, <2>2, <4>1, <4>2
    <3> QED BY <2>3, <2>5, <3>1, <3>2
  <2> QED BY <2>1, <2>6 DEF t
<1> HIDE DEF G
<1>3. Seq(Seq(T)) \subseteq G
  BY <1>1, <1>2, SeqSet
<1> QED BY <1>3 DEF G

\* What a function makes of the elements of a sequence.
Mapped(F, s) == [i \in DOMAIN s |-> F[s[i]]]

LEMMA MappedType ==
  ASSUME NEW T, NEW U, NEW F \in [T -> U], NEW s \in Seq(T)
  PROVE  /\ Mapped(F, s) \in Seq(U) /\ Len(Mapped(F, s)) = Len(s)
         /\ \A i \in 1 .. Len(s) : Mapped(F, s)[i] = F[s[i]]
<1>1. Len(s) \in Nat /\ DOMAIN s = 1 .. Len(s)
  BY LenProperties
<1>2. \A i \in 1 .. Len(s) : F[s[i]] \in U
  BY ElementOfSeq
<1>3. Mapped(F, s) = [i \in 1 .. Len(s) |-> F[s[i]]]
  BY <1>1 DEF Mapped
<1>4. Mapped(F, s) \in [1 .. Len(s) -> U]
  BY <1>2, <1>3
<1> QED BY <1>1, <1>3, <1>4

LEMMA MappedEmpty == \A F : Mapped(F, <<>>) = <<>>
<1>1. \A F : Mapped(F, <<>>) = [i \in {} |-> F[<<>>[i]]]
  BY DEF Mapped
<1> QED BY <1>1

LEMMA MappedAppend ==
  ASSUME NEW T, NEW U, NEW F \in [T -> U], NEW s \in Seq(T), NEW x \in T
  PROVE  Mapped(F, Append(s, x)) = Append(Mapped(F, s), F[x])
<1>1. PICK n \in Nat : n = Len(s)
  BY LenProperties
<1>2. PICK r \in Seq(T) : /\ r = Append(s, x) /\ Len(r) = n + 1 /\ r[n + 1] = x
                          /\ \A i \in 1 .. n : r[i] = s[i]
  <2>1. /\ Append(s, x) \in Seq(T) /\ Len(Append(s, x)) = n + 1 /\ Append(s, x)[n + 1] = x
        /\ \A i \in 1 .. n : Append(s, x)[i] = s[i]
    BY <1>1, AppendProperties
  <2> QED BY <2>1
<1>3. PICK a \in Seq(U) : a = Mapped(F, s) /\ Len(a) = n /\ \A i \in 1 .. n : a[i] = F[s[i]]
  <2>1. /\ Mapped(F, s) \in Seq(U) /\ Len(Mapped(F, s)) = Len(s)
        /\ \A i \in 1 .. Len(s) : Mapped(F, s)[i] = F[s[i]]
    BY MappedType
  <2> QED BY <1>1, <2>1
<1>4. PICK b \in Seq(U) : b = Mapped(F, r) /\ Len(b) = n + 1 /\ \A i \in 1 .. n + 1 : b[i] = F[r[i]]
  <2>1. /\ Mapped(F, r) \in Seq(U) /\ Len(Mapped(F, r)) = Len(r)
        /\ \A i \in 1 .. Len(r) : Mapped(F, r)[i] = F[r[i]]
    BY MappedType
  <2> QED BY <1>2, <2>1
<1>5. F[x] \in U
  OBVIOUS
<1>6. PICK c \in Seq(U) : /\ c = Append(a, F[x]) /\ Len(c) = n + 1 /\ c[n + 1] = F[x]
                          /\ \A i \in 1 .. n : c[i] = a[i]
  <2>1. PICK y \in U : y = F[x]
    BY <1>5
  <2>2. /\ Append(a, y) \in Seq(U) /\ Len(Append(a, y)) = n + 1 /\ Append(a, y)[n + 1] = y
        /\ \A i \in 1 .. n : Append(a, y)[i] = a[i]
    BY <1>3, AppendProperties
  <2> QED BY <2>1, <2>2
<1>7. \A i \in 1 .. n + 1 : i \in 1 .. n \/ i = n + 1
  BY <1>1
<1>8. \A i \in 1 .. n + 1 : b[i] = c[i]
  BY <1>2, <1>3, <1>4, <1>6, <1>7
<1>9. b = c
  BY <1>4, <1>6, <1>8, SeqEqual
<1> QED BY <1>2, <1>3, <1>4, <1>6, <1>9
=============================================================================
