--------------------------- MODULE LibraryProofs ---------------------------
(***************************************************************************)
(* Proofs about the texts, the socket helpers of lib/sock.c and the        *)
(* configuration of lib/mconf.c, as parts of Library: for chat lines of    *)
(* any length; for vectors of any number of entries of any length and any  *)
(* transfers; for any blocks of options, in any order, any file and any    *)
(* command line.                                                           *)
(***************************************************************************)
EXTENDS Library, NatFacts, SequenceTheorems, FiniteSetTheorems, TLAPS

(* What FlattenSeq computes. *)

Joined(s, t) == s \o t

\* f is v flattened step by step, up to entry n.
Flattens(f, v, n) ==
    /\ n > 0 => f[1] = v[1]
    /\ \A i \in 2 .. n : f[i] = Joined(f[i - 1], v[i])

\* Such an f exists.
LEMMA FlattensExists ==
    ASSUME NEW T, NEW v \in Seq(Seq(T)), NEW n \in 1 .. Len(v)
    PROVE  \E f \in [1 .. n -> Seq(T)] : Flattens(f, v, n)
<1> DEFINE S == {m \in Nat : m + 1 <= n => \E f \in [1 .. m + 1 -> Seq(T)] : Flattens(f, v, m + 1)}
<1>1. 0 \in S
  <2>1. v[1] \in Seq(T)
    OBVIOUS
  <2>2. [i \in 1 .. 0 + 1 |-> v[1]] \in [1 .. 0 + 1 -> Seq(T)]
    BY <2>1
  <2>3. Flattens([i \in 1 .. 0 + 1 |-> v[1]], v, 0 + 1)
    BY DEF Flattens
  <2> QED
    BY <2>2, <2>3
<1>2. ASSUME NEW m \in Nat, m \in S PROVE m + 1 \in S
  <2> SUFFICES ASSUME m + 1 + 1 <= n
               PROVE  \E f \in [1 .. m + 1 + 1 -> Seq(T)] : Flattens(f, v, m + 1 + 1)
    OBVIOUS
  <2>1. PICK f \in [1 .. m + 1 -> Seq(T)] : Flattens(f, v, m + 1)
    BY <1>2
  <2>2. v[m + 2] \in Seq(T) /\ f[m + 1] \in Seq(T)
    OBVIOUS
  <2>3. PICK x \in Seq(T) : x = Joined(f[m + 1], v[m + 2])
    BY <2>2, ConcatProperties DEF Joined
  <2> DEFINE g == [i \in 1 .. m + 1 + 1 |-> IF i <= m + 1 THEN f[i] ELSE x]
  <2>4. g \in [1 .. m + 1 + 1 -> Seq(T)]
    BY <2>3
  <2>5. Flattens(g, v, m + 1 + 1)
    <3>1. g[1] = v[1]
      BY <2>1 DEF Flattens
    <3>2. ASSUME NEW i \in 2 .. m + 1 + 1 PROVE g[i] = Joined(g[i - 1], v[i])
      <4>1. CASE i <= m + 1
        <5>1. g[i] = f[i] /\ g[i - 1] = f[i - 1]
          BY <4>1
        <5>2. f[i] = Joined(f[i - 1], v[i])
          BY <4>1, <2>1 DEF Flattens
        <5> HIDE DEF g
        <5> QED
          BY <5>1, <5>2
      <4>2. CASE i = m + 2
        <5>1. i - 1 = m + 1 /\ g[i] = x /\ g[i - 1] = f[m + 1]
          BY <4>2
        <5> HIDE DEF g
        <5> QED
          BY <5>1, <4>2, <2>3
      <4> HIDE DEF g
      <4> QED
        BY <4>1, <4>2
    <3> QED
      BY <3>1, <3>2 DEF Flattens
  <2> QED
    BY <2>4, <2>5
<1> HIDE DEF S
<1>3. Nat \subseteq S
  BY <1>1, <1>2, NatInd
<1>4. n - 1 \in S
  BY <1>3
<1> QED
  BY <1>4 DEF S

\* There is only one.
LEMMA FlattensUnique ==
    ASSUME NEW v, NEW f, NEW g, NEW n \in Nat, Flattens(f, v, n), Flattens(g, v, n)
    PROVE  \A i \in 1 .. n : f[i] = g[i]
<1> DEFINE S == {m \in Nat : m + 1 <= n => f[m + 1] = g[m + 1]}
<1>1. 0 \in S
  BY DEF Flattens
<1>2. ASSUME NEW m \in Nat, m \in S PROVE m + 1 \in S
  <2> SUFFICES ASSUME m + 2 <= n PROVE f[m + 2] = g[m + 2]
    OBVIOUS
  <2>1. f[m + 1] = g[m + 1] /\ m + 2 \in 2 .. n /\ (m + 2) - 1 = m + 1
    BY <1>2
  <2> QED
    BY <2>1 DEF Flattens
<1> HIDE DEF S
<1>3. Nat \subseteq S
  BY <1>1, <1>2, NatInd
<1>4. ASSUME NEW i \in 1 .. n PROVE f[i] = g[i]
  <2>1. i - 1 \in S /\ (i - 1) + 1 = i
    BY <1>3
  <2> QED
    BY <2>1 DEF S
<1> QED
  BY <1>4

\* It is what FlattenSeq uses.
LEMMA FlatFlattens ==
    ASSUME NEW T, NEW v \in Seq(Seq(T)), v # <<>>,
           NEW f \in [1 .. Len(v) -> Seq(T)], Flattens(f, v, Len(v))
    PROVE  Flat(v) = f[Len(v)]
<1> DEFINE Is(g) == g = [i \in 1 .. Len(v) |-> IF i = 1 THEN v[i] ELSE Joined(g[i - 1], v[i])]
           h == CHOOSE g : Is(g)
<1>1. Len(v) \in Nat \ {0}
  BY EmptySeq
<1>2. Is(f)
  <2>1. \A i \in 1 .. Len(v) : f[i] = IF i = 1 THEN v[i] ELSE Joined(f[i - 1], v[i])
    BY <1>1 DEF Flattens
  <2> QED
    BY <2>1
<1>3. Is(h)
  BY <1>2
<1>4. Flat(v) = h[Len(v)]
  BY <1>1, Zenon DEF Flat, FlattenSeq, Joined
<1> HIDE DEF h
<1>5. Flattens(h, v, Len(v))
  BY <1>3, <1>1, SMTT(60) DEF Flattens
<1> QED
  BY <1>1, <1>4, <1>5, FlattensUnique

LEMMA SubSeqFacts ==
    ASSUME NEW U, NEW s \in Seq(U), NEW m \in 1 .. Len(s) + 1, NEW n \in m - 1 .. Len(s)
    PROVE  /\ SubSeq(s, m, n) \in Seq(U)
           /\ Len(SubSeq(s, m, n)) = n - m + 1
           /\ \A i \in 1 .. n - m + 1 : SubSeq(s, m, n)[i] = s[m + i - 1]
<1>1. \A i \in m .. n : s[i] \in U
  OBVIOUS
<1> QED
  BY <1>1, SubSeqProperties

\* The first n entries of v, flattened.
Prefix(v, n) == Flat(SubSeq(v, 1, n))

LEMMA PrefixFlattens ==
    ASSUME NEW T, NEW v \in Seq(Seq(T)), NEW n \in 1 .. Len(v),
           NEW f \in [1 .. Len(v) -> Seq(T)], Flattens(f, v, Len(v))
    PROVE  Prefix(v, n) = f[n]
<1>1. Len(v) \in Nat /\ n \in Nat /\ \A i \in 1 .. n : v[i] \in Seq(T)
  OBVIOUS
<1>2. PICK w \in Seq(Seq(T)) : w = SubSeq(v, 1, n)
  <2>1. 1 \in 1 .. Len(v) + 1 /\ n \in 1 - 1 .. Len(v)
    BY <1>1
  <2> QED
    BY <2>1, SubSeqFacts
<1>3. Len(w) = n /\ \A i \in 1 .. n : w[i] = v[i]
  <2>1. 1 \in 1 .. Len(v) + 1 /\ n \in 1 - 1 .. Len(v)
    BY <1>1
  <2>2. /\ Len(SubSeq(v, 1, n)) = n - 1 + 1
        /\ \A i \in 1 .. n - 1 + 1 : SubSeq(v, 1, n)[i] = v[1 + i - 1]
    BY <2>1, SubSeqFacts
  <2>3. n - 1 + 1 = n /\ \A i \in 1 .. n : 1 + i - 1 = i
    BY <1>1
  <2> QED
    BY <1>2, <2>2, <2>3
<1>4. PICK g \in [1 .. n -> Seq(T)] : \A i \in 1 .. n : g[i] = f[i]
  <2>1. \A i \in 1 .. n : f[i] \in Seq(T)
    <3>1. 1 .. n \subseteq 1 .. Len(v)
      BY <1>1
    <3> QED
      BY <3>1, Zenon
  <2>2. [i \in 1 .. n |-> f[i]] \in [1 .. n -> Seq(T)]
    BY <2>1, Zenon
  <2> QED
    BY <2>2
<1>5. Flattens(g, w, n)
  <2>1. g[1] = w[1]
    BY <1>1, <1>3, <1>4 DEF Flattens
  <2>2. ASSUME NEW i \in 2 .. n PROVE g[i] = Joined(g[i - 1], w[i])
    <3>1. i \in 1 .. n /\ i - 1 \in 1 .. n /\ i \in 2 .. Len(v)
      OBVIOUS
    <3>2. f[i] = Joined(f[i - 1], v[i])
      BY <3>1 DEF Flattens
    <3> QED
      BY <3>1, <3>2, <1>3, <1>4
  <2> QED
    BY <2>1, <2>2 DEF Flattens
<1>6. w # <<>>
  BY <1>3
<1>7. Flat(w) = g[n]
  BY <1>3, <1>5, <1>6, FlatFlattens
<1> QED
  BY <1>1, <1>2, <1>4, <1>7 DEF Prefix

LEMMA PrefixFacts ==
    ASSUME NEW T, NEW v \in Seq(Seq(T))
    PROVE  /\ Flat(v) \in Seq(T) /\ Prefix(v, Len(v)) = Flat(v)
           /\ Prefix(v, 0) = <<>>
           /\ \A n \in 0 .. Len(v) : Prefix(v, n) \in Seq(T)
           /\ \A n \in 1 .. Len(v) : Prefix(v, n) = Joined(Prefix(v, n - 1), v[n])
<1>1. Flat(<<>>) = <<>>
  BY DEF Flat, FlattenSeq
<1>2. Prefix(v, 0) = <<>>
  <2>1. SubSeq(v, 1, 0) = <<>>
    OBVIOUS
  <2> QED
    BY <1>1, <2>1 DEF Prefix
<1>3. Prefix(v, Len(v)) = Flat(v)
  BY SubSeqFull DEF Prefix
<1>4. CASE v = <<>>
  <2>1. Len(v) = 0 /\ Flat(v) = <<>> /\ <<>> \in Seq(T)
    BY <1>1, <1>4
  <2>2. 0 .. Len(v) = {0} /\ 1 .. Len(v) = {}
    BY <2>1
  <2>3. \A n \in 0 .. Len(v) : Prefix(v, n) \in Seq(T)
    BY <1>2, <2>1, <2>2, Zenon
  <2>4. \A n \in 1 .. Len(v) : Prefix(v, n) = Joined(Prefix(v, n - 1), v[n])
    BY <2>2, Zenon
  <2> QED
    BY <1>2, <1>3, <2>1, <2>3, <2>4, Zenon
<1>5. CASE v # <<>>
  <2>1. Len(v) \in Nat \ {0} /\ \A n \in 1 .. Len(v) : v[n] \in Seq(T)
    BY <1>5, EmptySeq
  <2>2. PICK f \in [1 .. Len(v) -> Seq(T)] : Flattens(f, v, Len(v))
    BY <2>1, FlattensExists, SMTT(60)
  <2>3. \A n \in 1 .. Len(v) : Prefix(v, n) = f[n]
    BY <2>2, PrefixFlattens
  <2>4. \A n \in 0 .. Len(v) : Prefix(v, n) \in Seq(T)
    <3> SUFFICES ASSUME NEW n \in 0 .. Len(v) PROVE Prefix(v, n) \in Seq(T)
      OBVIOUS
    <3>1. CASE n = 0
      <4>1. <<>> \in Seq(T)
        OBVIOUS
      <4> QED
        BY <1>2, <3>1, <4>1, Zenon
    <3>2. CASE n # 0
      <4>1. n \in 1 .. Len(v)
        BY <3>2
      <4> QED
        BY <4>1, <2>3
    <3> QED
      BY <3>1, <3>2
  <2>5. ASSUME NEW n \in 1 .. Len(v) PROVE Prefix(v, n) = Joined(Prefix(v, n - 1), v[n])
    <3>1. CASE n = 1
      <4>1. f[1] = v[1] /\ v[1] \in Seq(T)
        BY <2>1, <2>2 DEF Flattens
      <4>2. Joined(<<>>, v[1]) = v[1]
        BY <4>1, ConcatEmptySeq DEF Joined
      <4> QED
        BY <3>1, <4>1, <4>2, <1>2, <2>3
    <3>2. CASE n # 1
      <4>1. n \in 2 .. Len(v) /\ n - 1 \in 1 .. Len(v)
        BY <3>2
      <4>2. f[n] = Joined(f[n - 1], v[n])
        BY <4>1, <2>2 DEF Flattens
      <4> QED
        BY <4>1, <4>2, <2>3
    <3> QED
      BY <3>1, <3>2
  <2> QED
    <3>1. Flat(v) \in Seq(T)
      BY <1>3, <2>1, <2>4
    <3> QED
      BY <1>2, <1>3, <2>4, <2>5, <3>1, Zenon
<1> QED
  BY <1>4, <1>5

\* Where in the flattened vector the entries end: a length for every entry.
LEMMA PrefixLengths ==
    ASSUME NEW T, NEW v \in Seq(Seq(T))
    PROVE  \A n \in 1 .. Len(v) :
              /\ v[n] \in Seq(T) /\ Len(Prefix(v, n)) \in Nat /\ Len(Prefix(v, n - 1)) \in Nat
              /\ Len(Prefix(v, n)) = Len(Prefix(v, n - 1)) + Len(v[n])
<1> SUFFICES ASSUME NEW n \in 1 .. Len(v)
             PROVE  /\ v[n] \in Seq(T)
                    /\ Len(Prefix(v, n)) \in Nat /\ Len(Prefix(v, n - 1)) \in Nat
                    /\ Len(Prefix(v, n)) = Len(Prefix(v, n - 1)) + Len(v[n])
  OBVIOUS
<1>1. v[n] \in Seq(T) /\ n \in 0 .. Len(v) /\ n - 1 \in 0 .. Len(v)
  OBVIOUS
<1>2. Prefix(v, n) \in Seq(T) /\ Prefix(v, n - 1) \in Seq(T)
  BY <1>1, PrefixFacts
<1>3. Prefix(v, n) = Joined(Prefix(v, n - 1), v[n])
  BY PrefixFacts
<1>4. Len(Joined(Prefix(v, n - 1), v[n])) = Len(Prefix(v, n - 1)) + Len(v[n])
  BY <1>1, <1>2, ConcatProperties DEF Joined
<1>5. Len(Prefix(v, n)) \in Nat /\ Len(Prefix(v, n - 1)) \in Nat
  BY <1>2, LenProperties
<1> QED
  BY <1>1, <1>3, <1>4, <1>5, Zenon

LEMMA PrefixGrows ==
    ASSUME NEW T, NEW v \in Seq(Seq(T)), NEW m \in 0 .. Len(v), NEW n \in m .. Len(v)
    PROVE  Len(Prefix(v, m)) <= Len(Prefix(v, n))
<1> DEFINE S == {k \in Nat : m + k <= Len(v) => Len(Prefix(v, m)) <= Len(Prefix(v, m + k))}
<1>1. Len(v) \in Nat /\ \A k \in 0 .. Len(v) : Len(Prefix(v, k)) \in Nat
  BY PrefixFacts, LenProperties
<1>2. 0 \in S
  <2>1. m + 0 = m /\ Len(Prefix(v, m)) \in Nat
    BY <1>1
  <2> QED
    BY <2>1
<1>3. ASSUME NEW k \in Nat, k \in S PROVE k + 1 \in S
  <2> SUFFICES ASSUME m + (k + 1) <= Len(v)
               PROVE  Len(Prefix(v, m)) <= Len(Prefix(v, m + (k + 1)))
    OBVIOUS
  <2>1. PICK j \in 1 .. Len(v) : j = m + (k + 1)
    BY <1>1
  <2>2. j - 1 = m + k /\ j - 1 \in 0 .. Len(v) /\ j \in 0 .. Len(v)
    BY <2>1, <1>1
  <2>3. Len(Prefix(v, m)) <= Len(Prefix(v, j - 1))
    BY <1>3, <2>2
  <2>4. Len(Prefix(v, j)) = Len(Prefix(v, j - 1)) + Len(v[j]) /\ Len(v[j]) \in Nat
    <3>1. v[j] \in Seq(T)
      BY PrefixLengths
    <3> QED
      BY <3>1, PrefixLengths, LenProperties
  <2>5. Len(Prefix(v, m)) \in Nat /\ Len(Prefix(v, j)) \in Nat /\ Len(Prefix(v, j - 1)) \in Nat
    BY <1>1, <2>2
  <2>6. Len(Prefix(v, m)) <= Len(Prefix(v, j))
    <3>1. PICK a \in Nat, b \in Nat, c \in Nat, d \in Nat :
              a = Len(Prefix(v, m)) /\ b = Len(Prefix(v, j - 1)) /\ c = Len(Prefix(v, j)) /\ d = Len(v[j])
      BY <2>4, <2>5, Zenon
    <3>2. a <= b /\ c = b + d
      BY <2>3, <2>4, <3>1, Zenon
    <3>3. a <= c
      BY ONLY <3>2, a \in Nat, b \in Nat, c \in Nat, d \in Nat
    <3> QED
      BY <3>1, <3>3, Zenon
  <2> QED
    BY <2>1, <2>6
<1> HIDE DEF S
<1>4. n - m \in S
  <2>1. Nat \subseteq S
    BY <1>2, <1>3, NatInd
  <2> QED
    BY <1>1, <2>1
<1>5. m + (n - m) = n /\ n <= Len(v)
  BY <1>1
<1> QED
  BY <1>4, <1>5 DEF S
-----------------------------------------------------------------------------
(* What a transfer leaves of a vector. *)

\* The entries that k bytes use up are the first n of them.
LEMMA UsedUpFirst ==
    ASSUME NEW T, NEW v \in Seq(Seq(T)), NEW k \in Nat, k > 0
    PROVE  \E n \in 0 .. Len(v) :
              /\ UsedUp(v, k) = 1 .. n
              /\ Len(Prefix(v, n)) <= k
              /\ n < Len(v) => Len(Prefix(v, n)) >= k \/ Len(Prefix(v, n + 1)) > k
<1> DEFINE L(n) == Len(Prefix(v, n))
<1>1. Len(v) \in Nat /\ \A n \in 0 .. Len(v) : L(n) \in Nat
  BY PrefixFacts, LenProperties
<1>2. L(0) = 0
  BY PrefixFacts
<1>3. \A m \in 0 .. Len(v) : \A n \in m .. Len(v) : L(m) <= L(n)
  BY PrefixGrows
<1>4. \A n : n \in UsedUp(v, k) <=> n \in 1 .. Len(v) /\ L(n - 1) < k /\ L(n) <= k
  <2>1. DOMAIN v = 1 .. Len(v)
    OBVIOUS
  <2> QED
    BY <2>1, Zenon DEF UsedUp, Size, Prefix
<1> HIDE DEF L
<1>5. CASE UsedUp(v, k) = {}
  <2>1. UsedUp(v, k) = 1 .. 0 /\ L(0) <= k /\ 0 \in 0 .. Len(v)
    BY <1>1, <1>2, <1>5
  <2>2. 0 < Len(v) => L(0) >= k \/ L(0 + 1) > k
    <3> SUFFICES ASSUME 0 < Len(v), L(0) < k PROVE L(1) > k
      BY <1>2
    <3>1. 1 \in 1 .. Len(v) /\ L(1) \in Nat /\ 1 - 1 = 0
      BY <1>1
    <3>2. ~ (L(1) <= k)
      BY <1>4, <1>5, <3>1
    <3> QED
      BY <3>1, <3>2
  <2> QED
    BY <2>1, <2>2 DEF L
<1>6. CASE UsedUp(v, k) # {}
  <2>1. UsedUp(v, k) \subseteq Nat /\ \A x \in UsedUp(v, k) : x <= Len(v)
    BY <1>1, <1>4
  <2>2. PICK n \in UsedUp(v, k) : \A y \in UsedUp(v, k) : y <= n
    BY <1>1, <1>6, <2>1, NatMax
  <2>3. n \in 1 .. Len(v) /\ L(n - 1) < k /\ L(n) <= k
    BY <1>4, <2>2
  <2>4. ASSUME NEW m \in 1 .. n PROVE m \in UsedUp(v, k)
    <3>1. CASE m = n
      BY <2>2, <3>1
    <3>2. CASE m # n
      <4>1. /\ m \in 0 .. Len(v) /\ m - 1 \in 0 .. Len(v) /\ n - 1 \in 0 .. Len(v)
            /\ n - 1 \in m .. Len(v) /\ m \in m - 1 .. Len(v) /\ m \in 1 .. Len(v)
        BY <1>1, <2>3, <3>2
      <4>2. L(m) <= L(n - 1) /\ L(m - 1) <= L(m)
        BY <1>3, <4>1
      <4>3. L(m) \in Nat /\ L(m - 1) \in Nat /\ L(n - 1) \in Nat
        BY <1>1, <4>1
      <4>4. L(m - 1) < k /\ L(m) <= k
        BY <2>3, <4>2, <4>3
      <4> QED
        BY <1>4, <4>1, <4>4
    <3> QED
      BY <3>1, <3>2
  <2>5. UsedUp(v, k) = 1 .. n
    <3>1. \A y \in UsedUp(v, k) : y \in 1 .. n
      BY <1>4, <2>2, <2>3
    <3> QED
      BY <2>4, <3>1
  <2>6. n < Len(v) => L(n) >= k \/ L(n + 1) > k
    <3> SUFFICES ASSUME n < Len(v), L(n) < k PROVE L(n + 1) > k
      BY <1>1, <2>3
    <3>1. n + 1 \in 1 .. Len(v) /\ L(n + 1) \in Nat /\ (n + 1) - 1 = n
      BY <1>1, <2>3
    <3>2. n + 1 \notin UsedUp(v, k)
      BY <2>3, <2>5
    <3>3. ~ (L(n + 1) <= k)
      BY <1>4, <3>1, <3>2
    <3> QED
      BY <3>1, <3>3
  <2>7. n \in 0 .. Len(v)
    BY <2>3
  <2> QED
    BY <2>3, <2>5, <2>6, <2>7 DEF L
<1> QED
  BY <1>5, <1>6

LEMMA JoinedFacts ==
    ASSUME NEW T, NEW s \in Seq(T), NEW t \in Seq(T)
    PROVE  /\ Joined(s, t) \in Seq(T)
           /\ Len(Joined(s, t)) = Len(s) + Len(t)
           /\ SubSeq(Joined(s, t), 1, Len(s)) = s
           /\ Joined(s, <<>>) = s /\ Joined(<<>>, s) = s
<1>1. Joined(s, t) \in Seq(T) /\ Len(Joined(s, t)) = Len(s) + Len(t)
  BY ConcatProperties DEF Joined
<1>2. Joined(s, <<>>) = s /\ Joined(<<>>, s) = s
  BY ConcatEmptySeq DEF Joined
<1>3. SubSeq(Joined(s, t), 1, Len(s)) = s
  <2>1. PICK w \in Seq(T) : w = Joined(s, t)
    BY <1>1
  <2>2. Len(s) \in Nat /\ Len(t) \in Nat /\ Len(w) = Len(s) + Len(t)
    BY <1>1, <2>1, LenProperties
  <2>3. \A i \in 1 .. Len(s) : w[i] = s[i]
    BY <2>1, <2>2, ConcatProperties DEF Joined
  <2>4. SubSeq(w, 1, Len(s)) = s
    BY <2>2, <2>3
  <2> QED
    BY <2>1, <2>4
<1> QED
  BY <1>1, <1>2, <1>3

LEMMA JoinedAssoc ==
    ASSUME NEW T, NEW s \in Seq(T), NEW t \in Seq(T), NEW u \in Seq(T)
    PROVE  Joined(Joined(s, t), u) = Joined(s, Joined(t, u))
BY ConcatAssociative, SMTT(60) DEF Joined

\* w is v without its first n entries and the first c bytes of the next.
IsRest(w, v, n, c) ==
    /\ Len(w) = Len(v) - n
    /\ w[1] = SubSeq(v[n + 1], c + 1, Len(v[n + 1]))
    /\ \A i \in 2 .. Len(w) : w[i] = v[n + i]
Gone(v, n, c) == Joined(Prefix(v, n), SubSeq(v[n + 1], 1, c))

\* What is gone and what is left make the whole.
LEMMA GoneAndRest ==
    ASSUME NEW T, NEW v \in Seq(Seq(T)), NEW n \in 0 .. Len(v) - 1, NEW c \in 0 .. Len(v[n + 1]),
           NEW w \in Seq(Seq(T)), IsRest(w, v, n, c)
    PROVE  /\ Gone(v, n, c) \in Seq(T)
           /\ Len(Gone(v, n, c)) = Len(Prefix(v, n)) + c
           /\ Joined(Gone(v, n, c), Flat(w)) = Flat(v)
<1> DEFINE pre == Gone(v, n, c)
           a == SubSeq(v[n + 1], 1, c)
           b == SubSeq(v[n + 1], c + 1, Len(v[n + 1]))
<1>1. Len(v) \in Nat /\ n + 1 \in 1 .. Len(v) /\ n \in 0 .. Len(v) /\ v[n + 1] \in Seq(T)
  OBVIOUS
<1>2. Len(v[n + 1]) \in Nat
  BY <1>1, LenProperties
<1>3. a \in Seq(T) /\ Len(a) = c /\ b \in Seq(T) /\ Joined(a, b) = v[n + 1]
  <2>1. PICK x \in Seq(T) : x = v[n + 1]
    BY <1>1
  <2>2. c \in 0 .. Len(x) /\ Len(x) \in Nat
    BY <1>2, <2>1
  <2>3. /\ 1 \in 1 .. Len(x) + 1 /\ c \in 1 - 1 .. Len(x)
        /\ c + 1 \in 1 .. Len(x) + 1 /\ Len(x) \in (c + 1) - 1 .. Len(x)
        /\ Len(x) \in c .. Len(x) /\ c - 1 + 1 = c
    BY <2>2
  <2>4. SubSeq(x, 1, c) \in Seq(T) /\ Len(SubSeq(x, 1, c)) = c
    BY <2>3, SubSeqFacts
  <2>5. SubSeq(x, c + 1, Len(x)) \in Seq(T)
    BY <2>3, SubSeqFacts
  <2>6. SubSeq(x, 1, c) \o SubSeq(x, c + 1, Len(x)) = SubSeq(x, 1, Len(x))
    BY <2>3, ConcatAdjacentSubSeq
  <2>7. SubSeq(x, 1, Len(x)) = x
    BY SubSeqFull
  <2> QED
    BY <2>1, <2>4, <2>5, <2>6, <2>7 DEF Joined
<1> HIDE DEF a, b
<1>4. Prefix(v, n) \in Seq(T)
  BY <1>1, PrefixFacts
<1>5. pre = Joined(Prefix(v, n), a)
  BY DEF Gone, a
<1>6. pre \in Seq(T) /\ Len(pre) = Len(Prefix(v, n)) + c
  <2>1. PICK y \in Seq(T) : y = Prefix(v, n)
    BY <1>4
  <2>2. Joined(y, a) \in Seq(T) /\ Len(Joined(y, a)) = Len(y) + Len(a)
    BY <1>3, JoinedFacts, ZenonT(60)
  <2> QED
    BY <1>3, <1>5, <2>1, <2>2, Zenon
<1> HIDE DEF pre
<1>7. /\ Len(w) \in Nat \ {0} /\ Len(w) = Len(v) - n
      /\ \A i \in 1 .. Len(w) : w[i] \in Seq(T)
  BY <1>1, SMTT(60) DEF IsRest
<1> DEFINE S == {m \in Nat : m + 1 <= Len(w) => Joined(pre, Prefix(w, m + 1)) = Prefix(v, n + (m + 1))}
<1>8. 0 \in S
  <2>1. Prefix(w, 1) = Joined(Prefix(w, 0), w[1]) /\ Prefix(w, 0) = <<>>
    <3>1. 1 \in 1 .. Len(w) /\ 1 - 1 = 0
      BY <1>7
    <3> QED
      BY <3>1, PrefixFacts
  <2>2. w[1] = b
    BY DEF IsRest, b
  <2>3. Prefix(w, 1) = b
    BY <2>1, <2>2, <1>3, JoinedFacts
  <2>4. Joined(pre, b) = Joined(Prefix(v, n), v[n + 1])
    <3>1. PICK y \in Seq(T) : y = Prefix(v, n)
      BY <1>4
    <3>2. Joined(Joined(y, a), b) = Joined(y, Joined(a, b))
      BY <1>3, JoinedAssoc
    <3> QED
      BY <1>3, <1>5, <3>1, <3>2, Zenon
  <2>5. Prefix(v, n + 1) = Joined(Prefix(v, n), v[n + 1])
    <3>1. (n + 1) - 1 = n
      OBVIOUS
    <3> QED
      BY <1>1, <3>1, PrefixFacts
  <2> QED
    BY <2>3, <2>4, <2>5
<1>9. ASSUME NEW m \in Nat, m \in S PROVE m + 1 \in S
  <2> SUFFICES ASSUME m + 1 + 1 <= Len(w)
               PROVE  Joined(pre, Prefix(w, m + 1 + 1)) = Prefix(v, n + (m + 1 + 1))
    OBVIOUS
  <2>1. PICK i \in 2 .. Len(w) : i = m + 1 + 1
    BY <1>7
  <2>2. /\ i \in 1 .. Len(w) /\ i - 1 = m + 1 /\ i - 1 \in 0 .. Len(w)
        /\ n + i \in 1 .. Len(v) /\ (n + i) - 1 = n + (i - 1)
    BY <1>1, <1>7, <2>1
  <2>3. Joined(pre, Prefix(w, i - 1)) = Prefix(v, n + (i - 1))
    BY <1>9, <2>1, <2>2
  <2>4. w[i] = v[n + i] /\ w[i] \in Seq(T)
    BY <1>7, <2>2 DEF IsRest
  <2>5. Prefix(w, i) = Joined(Prefix(w, i - 1), w[i]) /\ Prefix(w, i - 1) \in Seq(T)
    BY <2>2, PrefixFacts
  <2>6. Prefix(v, n + i) = Joined(Prefix(v, (n + i) - 1), v[n + i])
    BY <2>2, PrefixFacts
  <2>7. Joined(pre, Joined(Prefix(w, i - 1), w[i])) = Joined(Joined(pre, Prefix(w, i - 1)), w[i])
    <3>1. PICK y \in Seq(T), z \in Seq(T) : y = Prefix(w, i - 1) /\ z = w[i]
      BY <2>4, <2>5
    <3>2. Joined(Joined(pre, y), z) = Joined(pre, Joined(y, z))
      BY <1>6, JoinedAssoc
    <3> QED
      BY <3>1, <3>2, Zenon
  <2>8. Joined(pre, Prefix(w, i)) = Prefix(v, n + i)
    BY <2>2, <2>3, <2>4, <2>5, <2>6, <2>7, Zenon
  <2> QED
    BY <2>1, <2>8
<1> HIDE DEF S
<1>10. Nat \subseteq S
  BY <1>8, <1>9, NatInd
<1>11. Joined(pre, Prefix(w, Len(w))) = Prefix(v, Len(v))
  <2>1. PICK m \in Nat : m + 1 = Len(w) /\ n + (m + 1) = Len(v)
    <3>1. Len(w) - 1 \in Nat /\ (Len(w) - 1) + 1 = Len(w) /\ n + ((Len(w) - 1) + 1) = Len(v)
      BY <1>1, <1>7
    <3> QED
      BY <3>1, Zenon
  <2>2. m + 1 <= Len(w)
    BY <1>7, <2>1
  <2>3. Joined(pre, Prefix(w, m + 1)) = Prefix(v, n + (m + 1))
    BY <1>10, <2>2 DEF S
  <2> QED
    BY <2>1, <2>3, Zenon
<1>12. Prefix(w, Len(w)) = Flat(w) /\ Prefix(v, Len(v)) = Flat(v)
  BY PrefixFacts
<1> QED
  BY <1>6, <1>11, <1>12 DEF pre

\* A vector whose first entry is replaced.
LEMMA NewFirst ==
    ASSUME NEW U, NEW r \in Seq(U), r # <<>>, NEW h \in U
    PROVE  /\ <<h>> \o Tail(r) \in Seq(U) /\ <<h>> \o Tail(r) # <<>>
           /\ Len(<<h>> \o Tail(r)) = Len(r)
           /\ (<<h>> \o Tail(r))[1] = h
           /\ \A i \in 2 .. Len(r) : (<<h>> \o Tail(r))[i] = r[i]
<1>1. PICK t \in Seq(U) : t = Tail(r)
  BY HeadTailProperties
<1>2. Len(r) \in Nat \ {0} /\ Len(t) = Len(r) - 1 /\ \A i \in 1 .. Len(t) : t[i] = r[i + 1]
  BY <1>1, HeadTailProperties, EmptySeq
<1>3. <<h>> \in Seq(U) /\ Len(<<h>>) = 1 /\ <<h>>[1] = h
  OBVIOUS
<1>4. PICK w \in Seq(U) : w = <<h>> \o t
  BY <1>3, ConcatProperties
<1>5. /\ Len(w) = 1 + Len(t)
      /\ \A i \in 1 .. 1 + Len(t) : w[i] = IF i <= 1 THEN <<h>>[i] ELSE t[i - 1]
  BY <1>3, <1>4, ConcatProperties
<1>6. Len(w) = Len(r) /\ w[1] = h /\ w # <<>>
  BY <1>2, <1>3, <1>5
<1>7. ASSUME NEW i \in 2 .. Len(r) PROVE w[i] = r[i]
  <2>1. i \in 1 .. 1 + Len(t) /\ ~(i <= 1) /\ i - 1 \in 1 .. Len(t) /\ (i - 1) + 1 = i
    BY <1>2
  <2>2. w[i] = t[i - 1] /\ t[i - 1] = r[(i - 1) + 1]
    BY <1>2, <1>5, <2>1
  <2> QED
    BY <2>1, <2>2
<1> QED
  BY <1>1, <1>4, <1>6, <1>7

\* If k ends between a and a + l, it ends inside, unless it ends at a.
LEMMA CutInside ==
    ASSUME NEW a \in Nat, NEW b \in Nat, NEW l \in Nat, NEW k \in Nat,
           b = a + l, a <= k, a >= k \/ b > k
    PROVE  k - a \in 0 .. l /\ (k - a = l => k - a = 0) /\ a + (k - a) = k
OBVIOUS

\* Advance takes the first k bytes away and nothing else, and a vector that does
\* not end in an empty entry has none at its end when something is left of it.
LEMMA AdvanceFacts ==
    ASSUME NEW T, NEW v \in Seq(Seq(T)), NEW k \in 1 .. Size(v)
    PROVE  /\ Advance(v, k) \in Seq(Seq(T))
           /\ Joined(SubSeq(Flat(v), 1, k), Flat(Advance(v, k))) = Flat(v)
           /\ Advance(v, k) # <<>> /\ Last(Advance(v, k)) = <<>> => v # <<>> /\ Last(v) = <<>>
<1>1. /\ Len(v) \in Nat /\ Flat(v) \in Seq(T) /\ Size(v) \in Nat /\ k \in Nat /\ k > 0
      /\ Prefix(v, Len(v)) = Flat(v)
  BY PrefixFacts, LenProperties DEF Size
<1>2. PICK n \in 0 .. Len(v) :
          /\ UsedUp(v, k) = 1 .. n
          /\ Len(Prefix(v, n)) <= k
          /\ n < Len(v) => Len(Prefix(v, n)) >= k \/ Len(Prefix(v, n + 1)) > k
  BY <1>1, UsedUpFirst
<1>3. Cardinality(UsedUp(v, k)) = n
  BY <1>2, FS_Interval
<1> DEFINE rest == SubSeq(v, n + 1, Len(v))
           cut == k - Len(Prefix(v, n))
<1>4. Advance(v, k) = IF rest = <<>> THEN <<>>
                      ELSE <<SubSeq(Head(rest), cut + 1, Len(Head(rest)))>> \o Tail(rest)
  BY <1>3, Zenon DEF Advance, Size, Prefix
<1>5. CASE n = Len(v)
  <2>1. rest = <<>>
    BY <1>1, <1>5
  <2>2. Len(Flat(v)) = k
    BY <1>1, <1>2, <1>5 DEF Size
  <2>3. SubSeq(Flat(v), 1, k) = Flat(v)
    BY <1>1, <2>2, SubSeqFull
  <2>4. Flat(<<>>) = <<>> /\ Joined(Flat(v), <<>>) = Flat(v)
    <3>1. Flat(<<>>) = <<>>
      BY DEF Flat, FlattenSeq
    <3> QED
      BY <1>1, <3>1, JoinedFacts
  <2>5. Advance(v, k) = <<>> /\ <<>> \in Seq(Seq(T))
    BY <1>4, <2>1
  <2> QED
    BY <2>3, <2>4, <2>5
<1>6. CASE n < Len(v)
  <2>1. n + 1 \in 1 .. Len(v) /\ n \in 0 .. Len(v) - 1 /\ (n + 1) - 1 = n
    BY <1>1, <1>6
  <2>2. /\ v[n + 1] \in Seq(T) /\ Len(Prefix(v, n + 1)) \in Nat /\ Len(Prefix(v, n)) \in Nat
        /\ Len(Prefix(v, n + 1)) = Len(Prefix(v, n)) + Len(v[n + 1])
    BY <2>1, PrefixLengths
  <2>3. Len(v[n + 1]) \in Nat
    BY <2>2, LenProperties
  <2>4. cut \in 0 .. Len(v[n + 1]) /\ (cut = Len(v[n + 1]) => cut = 0) /\ Len(Prefix(v, n)) + cut = k
    <3>1. PICK a \in Nat, b \in Nat, l \in Nat :
              a = Len(Prefix(v, n)) /\ b = Len(Prefix(v, n + 1)) /\ l = Len(v[n + 1])
      BY <2>2, <2>3, Zenon
    <3>2. b = a + l /\ a <= k /\ (a >= k \/ b > k)
      BY <1>2, <1>6, <2>2, <3>1, Zenon
    <3>3. k \in Nat
      BY <1>1, Zenon
    <3>4. k - a \in 0 .. l /\ (k - a = l => k - a = 0) /\ a + (k - a) = k
      BY <3>2, <3>3, CutInside, SMTT(60)
    <3> QED
      BY <3>1, <3>4, Zenon
  <2>5. /\ rest \in Seq(Seq(T)) /\ Len(rest) = Len(v) - n
        /\ \A i \in 1 .. Len(v) - n : rest[i] = v[n + i]
    <3>1. n + 1 \in 1 .. Len(v) + 1 /\ Len(v) \in (n + 1) - 1 .. Len(v) /\ Len(v) - (n + 1) + 1 = Len(v) - n
      BY <1>1, <2>1
    <3>2. /\ SubSeq(v, n + 1, Len(v)) \in Seq(Seq(T))
          /\ Len(SubSeq(v, n + 1, Len(v))) = Len(v) - (n + 1) + 1
          /\ \A i \in 1 .. Len(v) - (n + 1) + 1 : SubSeq(v, n + 1, Len(v))[i] = v[(n + 1) + i - 1]
      BY <3>1, SubSeqFacts
    <3>3. \A i \in 1 .. Len(v) - n : (n + 1) + i - 1 = n + i
      OBVIOUS
    <3> QED
      BY <3>1, <3>2, <3>3
  <2> HIDE DEF rest, cut
  <2>6. rest # <<>> /\ Head(rest) = v[n + 1]
    <3>1. PICK r \in Seq(Seq(T)) : r = rest
      BY <2>5
    <3>2. Len(r) = Len(v) - n /\ Len(v) - n \in Nat \ {0} /\ 1 \in 1 .. Len(v) - n /\ r[1] = v[n + 1]
      <4>1. Len(v) - n \in Nat \ {0} /\ 1 \in 1 .. Len(v) - n
        BY <1>1, <1>6
      <4> QED
        BY <2>5, <3>1, <4>1, Zenon
    <3>3. r # <<>> /\ Head(r) = r[1]
      BY <3>2
    <3> QED
      BY <3>1, <3>2, <3>3
  <2>7. PICK h \in Seq(T) : h = SubSeq(v[n + 1], cut + 1, Len(v[n + 1]))
    <3>1. cut + 1 \in 1 .. Len(v[n + 1]) + 1 /\ Len(v[n + 1]) \in (cut + 1) - 1 .. Len(v[n + 1])
      BY <2>3, <2>4
    <3> QED
      BY <2>2, <3>1, SubSeqFacts
  <2>8. PICK w \in Seq(Seq(T)) :
            /\ w = <<h>> \o Tail(rest) /\ w # <<>> /\ Len(w) = Len(rest) /\ w[1] = h
            /\ \A i \in 2 .. Len(rest) : w[i] = rest[i]
    <3>1. PICK r \in Seq(Seq(T)) : r = rest /\ r # <<>>
      BY <2>5, <2>6
    <3>2. PICK w \in Seq(Seq(T)) : w = <<h>> \o Tail(r)
      BY <3>1, NewFirst
    <3>3. w # <<>> /\ Len(w) = Len(r) /\ w[1] = h /\ \A i \in 2 .. Len(r) : w[i] = r[i]
      BY <3>1, <3>2, NewFirst
    <3> QED
      BY <3>1, <3>2, <3>3, Zenon
  <2>9. Advance(v, k) = w
    BY <1>4, <2>6, <2>7, <2>8, Zenon
  <2>10. IsRest(w, v, n, cut)
    <3>1. ASSUME NEW i \in 2 .. Len(w) PROVE w[i] = v[n + i]
      <4>1. Len(w) = Len(v) - n /\ i \in 2 .. Len(rest)
        BY <2>5, <2>8
      <4>2. i \in 1 .. Len(v) - n
        BY <4>1
      <4> QED
        BY <2>5, <2>8, <4>1, <4>2, Zenon
    <3> QED
      BY <2>5, <2>7, <2>8, <3>1, Zenon DEF IsRest
  <2>11. /\ Gone(v, n, cut) \in Seq(T) /\ Len(Gone(v, n, cut)) = k
         /\ Joined(Gone(v, n, cut), Flat(w)) = Flat(v)
    BY <2>1, <2>4, <2>10, GoneAndRest
  <2>12. SubSeq(Flat(v), 1, k) = Gone(v, n, cut)
    <3>1. PICK x \in Seq(T), y \in Seq(T) : x = Gone(v, n, cut) /\ y = Flat(w)
      BY <2>11, PrefixFacts
    <3>2. SubSeq(Joined(x, y), 1, Len(x)) = x
      BY JoinedFacts
    <3> QED
      BY <2>11, <3>1, <3>2, Zenon
  <2>13. Last(w) = <<>> => v # <<>> /\ Last(v) = <<>>
    <3> SUFFICES ASSUME Last(w) = <<>> PROVE v # <<>> /\ Last(v) = <<>>
      OBVIOUS
    <3>1. v # <<>> /\ Len(w) = Len(v) - n /\ w[Len(w)] = <<>>
      BY <1>1, <1>6, <2>5, <2>8 DEF Last
    <3>2. CASE Len(w) = 1
      <4>1. h = <<>> /\ n + 1 = Len(v)
        <5>1. w[1] = <<>> /\ w[1] = h
          BY <2>8, <3>1, <3>2, Zenon
        <5>2. n + 1 = Len(v)
          <6>1. PICK l \in Nat : l = Len(v) /\ l - n = 1
            BY <1>1, <3>1, <3>2, Zenon
          <6>2. n + 1 = l
            BY ONLY <6>1, n \in 0 .. Len(v)
          <6> QED
            BY <6>1, <6>2
        <5> QED
          BY <5>1, <5>2
      <4>2. Len(h) = 0
        BY <4>1
      <4>3. Len(h) = Len(v[n + 1]) - cut
        BY <2>2, <2>3, <2>4, <2>7, SMTT(60)
      <4>4. Len(v[n + 1]) = 0
        BY <2>3, <2>4, <4>2, <4>3
      <4>5. v[n + 1] = <<>>
        BY <2>2, <4>4, EmptySeq
      <4> QED
        BY <3>1, <4>1, <4>5 DEF Last
    <3>3. CASE Len(w) # 1
      <4>1. Len(w) \in 2 .. Len(rest) /\ Len(w) \in 1 .. Len(v) - n /\ n + Len(w) = Len(v)
        BY <1>1, <1>6, <2>5, <2>8, <3>1, <3>3, SMTT(60)
      <4>2. v[Len(v)] = <<>>
        BY <2>5, <2>8, <3>1, <4>1
      <4> QED
        BY <3>1, <4>2 DEF Last
    <3> QED
      BY <3>2, <3>3
  <2> QED
    BY <2>9, <2>11, <2>12, <2>13
<1> QED
  BY <1>5, <1>6
-----------------------------------------------------------------------------
(* The invariant of the socket helpers. *)

Byte == UNION {UNION {Range(Vector(l)[i]) : i \in DOMAIN l} : l \in Lengths}
Vectors == Seq(Seq(Byte))

SockTypes ==
    /\ fn \in {"none", "read_ms", "write_ms", "write_full_ms", "writev_full", "writev_full_ms"}
    /\ asked \in Vectors /\ iov \in Vectors /\ moved \in Seq(Byte)
    /\ nwritten \in Nat /\ room \in Nat
    /\ phase \in {"idle", "call", "poll", "done"}

\* A loop over a vector: what the kernel took followed by what is left is what
\* was asked for, the code has counted it right, and as long as it runs it has
\* an entry left.  No empty entry comes to the end.
Passing ==
    fn \in Vectored =>
        /\ Joined(moved, Flat(iov)) = Flat(asked)
        /\ nwritten = Len(moved)
        /\ Running => iov # <<>>
        /\ iov # <<>> /\ Last(iov) = <<>> => EmptyEnd

\* The other helpers make one transfer and return.
Untouched ==
    /\ fn \notin Vectored /\ Running => moved = <<>> /\ nwritten = 0 /\ iov = asked
    /\ fn = "none" => ~Running

SockInv == SockTypes /\ Passing /\ Untouched /\ WholeOrError

LEMMA VectorTypes ==
    ASSUME NEW l \in Lengths
    PROVE  Vector(l) \in Vectors /\ Len(Vector(l)) = Len(l)
<1>1. l \in Seq(Nat) /\ Len(l) \in Nat /\ DOMAIN l = 1 .. Len(l)
  BY SockIOAssumption
<1>2. ASSUME NEW i \in 1 .. Len(l) PROVE Vector(l)[i] \in Seq(Byte)
  <2>1. PICK x : x = [j \in 1 .. l[i] |-> Offset(l, i) + j]
    OBVIOUS
  <2>2. Vector(l)[i] = x
    BY <1>1, <2>1, Zenon DEF Vector
  <2>3. l[i] \in Nat /\ DOMAIN x = 1 .. l[i]
    BY <1>1, <2>1
  <2>4. \A j \in 1 .. l[i] : x[j] \in Byte
    <3>1. \A j \in 1 .. l[i] : x[j] \in Range(x)
      BY <2>3, Zenon DEF Range
    <3>2. Range(x) \in {Range(Vector(l)[k]) : k \in DOMAIN l}
      BY <1>1, <2>2
    <3>3. Range(x) \subseteq UNION {Range(Vector(l)[k]) : k \in DOMAIN l}
      BY <3>2, Zenon
    <3>4. UNION {Range(Vector(l)[k]) : k \in DOMAIN l} \subseteq Byte
      BY ZenonT(60) DEF Byte
    <3> QED
      BY <3>1, <3>3, <3>4, Zenon
  <2>5. x = [j \in 1 .. l[i] |-> x[j]]
    BY <2>1
  <2> QED
    BY <2>2, <2>3, <2>4, <2>5, SMTT(60)
<1>3. PICK v : v = Vector(l) /\ v = [i \in 1 .. Len(l) |-> v[i]] /\ \A i \in 1 .. Len(l) : v[i] \in Seq(Byte)
  <2>1. Vector(l) = [i \in 1 .. Len(l) |-> Vector(l)[i]]
    BY <1>1 DEF Vector
  <2> QED
    BY <1>2, <2>1
<1> HIDE DEF Vectors
<1>4. ASSUME NEW U, \A i \in 1 .. Len(l) : v[i] \in U PROVE v \in Seq(U) /\ Len(v) = Len(l)
  BY <1>1, <1>3, <1>4
<1> QED
  BY <1>3, <1>4 DEF Vectors

\* An empty entry at the end is all a running loop has left when no byte is.
LEMMA NothingLeft ==
    ASSUME NEW T, NEW v \in Seq(Seq(T)), v # <<>>, Size(v) = 0
    PROVE  Last(v) = <<>>
<1>1. Len(v) \in Nat \ {0}
  BY EmptySeq
<1>2. PICK n \in 1 .. Len(v) : n = Len(v)
  BY <1>1
<1>3. /\ v[n] \in Seq(T) /\ Len(Prefix(v, n)) \in Nat /\ Len(Prefix(v, n - 1)) \in Nat
      /\ Len(Prefix(v, n)) = Len(Prefix(v, n - 1)) + Len(v[n])
  BY PrefixLengths
<1>4. Len(Prefix(v, n)) = 0
  BY <1>2, PrefixFacts DEF Size
<1>5. Len(v[n]) \in Nat
  BY <1>3, LenProperties
<1>6. Len(v[n]) = 0
  <2>1. PICK a \in Nat, b \in Nat : a = Len(Prefix(v, n - 1)) /\ b = Len(v[n]) /\ 0 = a + b
    BY <1>3, <1>4, <1>5, Zenon
  <2>2. 0 = a + b
    BY <2>1, Zenon
  <2>3. b = 0
    BY ONLY <2>2, a \in Nat, b \in Nat
  <2> QED
    BY <2>1, <2>3, Zenon
<1> QED
  BY <1>2, <1>3, <1>6, EmptySeq DEF Last

LEMMA InitSockInv == SockIdle \/ SockInit => SockInv
<1>1. Flat(<<>>) = <<>>
  BY DEF Flat, FlattenSeq
<1>2. <<>> \in Vectors /\ <<>> \in Seq(Byte) /\ IsPrefix(<<>>, <<>>) /\ Len(<<>>) = 0
  BY DEF Vectors, IsPrefix
<1>3. ASSUME SockIdle PROVE SockInv
  <2>1. fn = "none" /\ phase = "idle" /\ asked = <<>> /\ iov = <<>> /\ moved = <<>> /\ nwritten = 0 /\ room = 0
    BY <1>3 DEF SockIdle
  <2>2. fn \notin Vectored /\ fn \notin Single /\ ~Running
    BY <2>1 DEF Vectored, Single, Running
  <2>3. SockTypes
    BY <1>2, <2>1 DEF SockTypes
  <2>4. WholeOrError
    <3>1. IsPrefix(moved, Flat(asked))
      BY <1>1, <1>2, <2>1
    <3> QED
      BY <2>2, <3>1 DEF WholeOrError
  <2> QED
    BY <2>2, <2>3, <2>4 DEF SockInv, Passing, Untouched
<1>4. ASSUME SockInit PROVE SockInv
  <2>1. PICK l \in Lengths :
          /\ asked = Vector(l)
          /\ fn \in Timed \cup Vectored
          /\ phase = IF fn \in Vectored /\ l = <<>> THEN "done" ELSE "call"
    BY <1>4 DEF SockInit
  <2>2. iov = asked /\ nwritten = 0 /\ result = 0 /\ moved = <<>> /\ room \in Nat
    BY <1>4, SockIOAssumption DEF SockInit
  <2>3. asked \in Vectors /\ Len(asked) = Len(l) /\ l \in Seq(Nat)
    BY <2>1, VectorTypes, SockIOAssumption
  <2>4. Flat(asked) \in Seq(Byte) /\ Size(asked) \in Nat
    BY <2>3, PrefixFacts, LenProperties DEF Vectors, Size
  <2>5. SockTypes
    BY <1>2, <2>1, <2>2, <2>3 DEF SockTypes, Timed, Vectored
  <2>6. Passing
    <3>1. Joined(moved, Flat(iov)) = Flat(asked) /\ nwritten = Len(moved)
      BY <1>2, <2>2, <2>4, JoinedFacts
    <3>2. fn \in Vectored /\ Running => iov # <<>>
      <4>1. fn \in Vectored /\ Running => l # <<>>
        BY <2>1 DEF Running
      <4>2. l # <<>> => Len(l) # 0
        BY <2>3
      <4> QED
        BY <2>2, <2>3, <4>1, <4>2
    <3>3. iov # <<>> /\ Last(iov) = <<>> => EmptyEnd
      BY <2>2 DEF EmptyEnd
    <3> QED
      BY <3>1, <3>2, <3>3, Zenon DEF Passing
  <2>7. Untouched
    BY <2>1, <2>2 DEF Untouched, Timed, Vectored
  <2>8. WholeOrError
    <3>1. IsPrefix(moved, Flat(asked))
      BY <2>2, <2>4 DEF IsPrefix
    <3>2. CASE phase # "done"
      BY <3>1, <3>2 DEF WholeOrError
    <3>3. CASE phase = "done"
      <4>1. fn \in Vectored /\ l = <<>>
        BY <2>1, <3>3
      <4>2. fn \notin Single
        BY <4>1 DEF Vectored, Single
      <4>3. asked = <<>>
        <5>1. Len(asked) = 0
          BY <2>3, <4>1
        <5> QED
          BY <2>3, <5>1, EmptySeq DEF Vectors
      <4>4. Size(asked) = 0 /\ moved = Flat(asked)
        BY <1>1, <1>2, <2>2, <4>3 DEF Size
      <4> QED
        BY <2>2, <3>1, <4>2, <4>4 DEF WholeOrError
    <3> QED
      BY <3>2, <3>3
  <2> QED
    BY <2>5, <2>6, <2>7, <2>8 DEF SockInv
<1> QED
  BY <1>3, <1>4

\* A step inside a running call that moves nothing.
LEMMA RunsOn ==
    ASSUME SockInv, Running, UNCHANGED <<fn, asked, iov, nwritten, moved>>, room' \in Nat,
           phase' \in {"call", "poll"}
    PROVE  SockInv'
<1>1. UNCHANGED fn /\ UNCHANGED asked /\ UNCHANGED iov /\ UNCHANGED nwritten /\ UNCHANGED moved
  OBVIOUS
<1>2. Running' /\ phase' # "done"
  BY DEF Running
<1>3. SockTypes'
  BY <1>1 DEF SockInv, SockTypes
<1>4. Passing'
  BY <1>1, <1>2, Zenon DEF SockInv, Passing, EmptyEnd
<1>5. Untouched'
  BY <1>1, <1>2, Zenon DEF SockInv, Untouched
<1>6. WholeOrError'
  BY <1>1, <1>2, Zenon DEF SockInv, WholeOrError
<1> QED
  BY <1>3, <1>4, <1>5, <1>6 DEF SockInv

\* A return that moves nothing, if what it returns is right.
LEMMA GivesUp ==
    ASSUME SockInv, Running, UNCHANGED <<fn, asked, iov, nwritten, moved, room>>, phase' = "done",
           fn \in Vectored \cup Single => WholeOrError'
    PROVE  SockInv'
<1>1. UNCHANGED fn /\ UNCHANGED asked /\ UNCHANGED iov /\ UNCHANGED nwritten /\ UNCHANGED moved /\ UNCHANGED room
  OBVIOUS
<1>2. ~Running'
  BY DEF Running
<1>3. SockTypes'
  BY <1>1 DEF SockInv, SockTypes
<1>4. Passing'
  BY <1>1, <1>2, Zenon DEF SockInv, Passing, EmptyEnd
<1>5. Untouched'
  BY <1>2, Zenon DEF Untouched
<1>6. WholeOrError'
  <2>1. CASE fn \in Vectored \cup Single
    BY <2>1
  <2>2. CASE fn \notin Vectored \cup Single
    BY <1>1, <2>2, Zenon DEF SockInv, WholeOrError
  <2> QED
    BY <2>1, <2>2
<1> QED
  BY <1>3, <1>4, <1>5, <1>6 DEF SockInv

\* A running loop over a vector has something left to move, or ends in an empty entry.
LEMMA Unfinished ==
    ASSUME SockInv, Running, fn \in Vectored
    PROVE  Len(moved) < Size(asked) \/ EmptyEnd
<1>1. /\ iov \in Vectors /\ asked \in Vectors /\ moved \in Seq(Byte)
      /\ Joined(moved, Flat(iov)) = Flat(asked) /\ iov # <<>>
      /\ Last(iov) = <<>> => EmptyEnd
  BY DEF SockInv, SockTypes, Passing
<1>2. Flat(iov) \in Seq(Byte)
  BY <1>1, PrefixFacts DEF Vectors
<1>3. Size(asked) = Len(moved) + Size(iov) /\ Len(moved) \in Nat /\ Size(iov) \in Nat
  <2>1. Len(Joined(moved, Flat(iov))) = Len(moved) + Len(Flat(iov))
    BY <1>1, <1>2, JoinedFacts
  <2>2. Len(moved) \in Nat /\ Len(Flat(iov)) \in Nat
    BY <1>1, <1>2, LenProperties
  <2> QED
    BY <1>1, <2>1, <2>2, Zenon DEF Size
<1>4. CASE Size(iov) = 0
  BY <1>1, <1>4, NothingLeft DEF Vectors
<1>5. CASE Size(iov) # 0
  BY <1>3, <1>5
<1> QED
  BY <1>4, <1>5

\* A call over a vector that fails reports what it may.
LEMMA VectoredFails ==
    ASSUME SockInv, Running, fn \in Vectored, UNCHANGED <<fn, asked, moved>>, phase' = "done", result' = -1
    PROVE  WholeOrError'
<1>1. UNCHANGED fn /\ UNCHANGED asked /\ UNCHANGED moved
  OBVIOUS
<1>2. fn' \notin Single
  BY <1>1 DEF Vectored, Single
<1>3. Len(moved') < Size(asked') \/ EmptyEnd'
  <2>1. Len(moved) < Size(asked) \/ EmptyEnd
    BY Unfinished
  <2>2. EmptyEnd => EmptyEnd'
    BY <1>1, Zenon DEF EmptyEnd
  <2> QED
    BY <1>1, <2>1, <2>2
<1>4. IsPrefix(moved, Flat(asked))'
  BY <1>1, Zenon DEF SockInv, WholeOrError
<1>5. ~(result' >= 0)
  OBVIOUS
<1> QED
  BY <1>2, <1>3, <1>4, <1>5, Zenon DEF WholeOrError

\* A single transfer that fails or moves nothing says so.
LEMMA SingleFails ==
    ASSUME SockInv, Running, fn \in Single, UNCHANGED <<fn, asked, moved>>, phase' = "done",
           \/ result' = 0
           \/ result' = -1 /\ (gone' \/ errno' = "EAGAIN")
    PROVE  WholeOrError'
<1>1. UNCHANGED fn /\ UNCHANGED asked /\ UNCHANGED moved
  OBVIOUS
<1>2. fn' \notin Vectored /\ fn \notin Vectored
  BY <1>1 DEF Vectored, Single
<1>3. moved = <<>>
  BY <1>2 DEF SockInv, Untouched
<1>4. moved' = <<>> /\ Len(moved') = 0
  BY <1>1, <1>3
<1>5. IsPrefix(moved, Flat(asked))'
  BY <1>1, Zenon DEF SockInv, WholeOrError
<1>6. CASE result' = 0
  BY <1>2, <1>4, <1>5, <1>6 DEF WholeOrError
<1>7. CASE result' = -1 /\ (gone' \/ errno' = "EAGAIN")
  <2>1. ~(result' >= 0)
    BY <1>7
  <2> QED
    BY <1>2, <1>4, <1>5, <1>7, <2>1, Zenon DEF WholeOrError
<1> QED
  BY <1>6, <1>7

LEMMA TransferSockInv ==
    ASSUME SockInv, Transfer
    PROVE  SockInv'
<1>1. /\ UNCHANGED fn /\ UNCHANGED asked
      /\ phase = "call" /\ room \in Nat /\ Running
      /\ iov \in Vectors /\ asked \in Vectors /\ moved \in Seq(Byte) /\ nwritten \in Nat
  BY DEF SockInv, SockTypes, Transfer, Running
<1>2. PICK k \in 1 .. Min({room, Size(iov)}) :
          /\ moved' = moved \o SubSeq(Flat(iov), 1, k)
          /\ room' = room - k
          /\ nwritten' = nwritten + Account(k)
          /\ iov' = Left(k)
          /\ IF Finished(Left(k)) THEN Return(nwritten') ELSE UNCHANGED <<phase, result>>
  BY Zenon DEF Transfer
<1>3. Flat(iov) \in Seq(Byte) /\ Size(iov) \in Nat /\ Flat(asked) \in Seq(Byte) /\ Size(asked) \in Nat
  BY <1>1, PrefixFacts, LenProperties DEF Vectors, Size
<1>4. k \in 1 .. Size(iov) /\ k \in 1 .. room /\ k \in Nat
  <2>1. PICK a \in Nat, b \in Nat : a = room /\ b = Size(iov)
    BY <1>1, <1>3
  <2>2. Min({a, b}) \in {a, b} /\ Min({a, b}) <= a /\ Min({a, b}) <= b
    <3>1. \E x \in {a, b} : \A y \in {a, b} : x =< y
      OBVIOUS
    <3> QED
      BY <3>1 DEF Min
  <2>3. k \in 1 .. a /\ k \in 1 .. b /\ k \in Nat
    <3>1. k \in 1 .. Min({a, b})
      BY <2>1
    <3> QED
      BY <2>2, <3>1
  <2> QED
    BY <2>1, <2>3
<1>5. room' \in Nat
  BY <1>1, <1>2, <1>4
<1>6. PICK s \in Seq(Byte) : s = SubSeq(Flat(iov), 1, k) /\ Len(s) = k
  <2>1. PICK f \in Seq(Byte) : f = Flat(iov) /\ k \in 1 .. Len(f) /\ Len(f) \in Nat
    BY <1>3, <1>4 DEF Size
  <2>2. 1 \in 1 .. Len(f) + 1 /\ k \in 1 - 1 .. Len(f) /\ k - 1 + 1 = k
    BY <2>1
  <2>3. SubSeq(f, 1, k) \in Seq(Byte) /\ Len(SubSeq(f, 1, k)) = k
    BY <2>2, SubSeqFacts
  <2> QED
    BY <2>1, <2>3
<1>7. moved' = Joined(moved, s) /\ moved' \in Seq(Byte) /\ Len(moved') = Len(moved) + k /\ Len(moved) \in Nat
  <2>1. moved' = Joined(moved, s)
    BY <1>2, <1>6 DEF Joined
  <2>2. Joined(moved, s) \in Seq(Byte) /\ Len(Joined(moved, s)) = Len(moved) + Len(s)
    BY <1>1, JoinedFacts
  <2> QED
    BY <1>1, <1>6, <2>1, <2>2, LenProperties
<1>8. CASE fn \in Vectored
  <2>1. Account(k) = k /\ Left(k) = Advance(iov, k) /\ fn' \notin Single /\ fn \in Vectored
    BY <1>1, <1>8 DEF Account, Left, Vectored, Single
  <2>2. /\ Joined(moved, Flat(iov)) = Flat(asked) /\ nwritten = Len(moved) /\ iov # <<>>
        /\ Last(iov) = <<>> => EmptyEnd
    BY <1>1, <1>8 DEF SockInv, Passing
  <2>3. /\ Advance(iov, k) \in Vectors
        /\ Joined(s, Flat(Advance(iov, k))) = Flat(iov)
        /\ Advance(iov, k) # <<>> /\ Last(Advance(iov, k)) = <<>> => Last(iov) = <<>>
    BY <1>1, <1>4, <1>6, AdvanceFacts DEF Vectors
  <2>4. PICK w \in Vectors : w = Advance(iov, k) /\ w = iov'
    BY <1>2, <2>1, <2>3
  <2>5. Flat(w) \in Seq(Byte)
    BY PrefixFacts DEF Vectors
  <2>6. Joined(moved', Flat(iov')) = Flat(asked')
    <3>1. Joined(Joined(moved, s), Flat(w)) = Joined(moved, Joined(s, Flat(w)))
      BY <1>1, <2>5, JoinedAssoc
    <3> QED
      BY <1>1, <1>7, <2>2, <2>3, <2>4, <3>1, Zenon
  <2>7. nwritten' = Len(moved')
    BY <1>2, <1>7, <2>1, <2>2
  <2>8. IsPrefix(moved, Flat(asked))'
    <3>1. PICK x \in Seq(Byte), y \in Seq(Byte) : x = moved' /\ y = Flat(iov')
      BY <1>7, <2>4, <2>5
    <3>2. SubSeq(Joined(x, y), 1, Len(x)) = x /\ Len(Joined(x, y)) = Len(x) + Len(y)
      BY JoinedFacts
    <3>3. SubSeq(x, 1, Len(x)) = x
      BY SubSeqFull
    <3>4. Len(x) \in Nat /\ Len(y) \in Nat /\ Len(x) <= Len(x) + Len(y)
      BY LenProperties
    <3>5. IsPrefix(x, Joined(x, y))
      BY <3>2, <3>3, <3>4 DEF IsPrefix
    <3> QED
      BY <2>6, <3>1, <3>5, Zenon
  <2>9. iov' # <<>> /\ Last(iov') = <<>> => EmptyEnd'
    <3>1. EmptyEnd => EmptyEnd'
      BY <1>1, Zenon DEF EmptyEnd
    <3> QED
      BY <2>2, <2>3, <2>4, <3>1
  <2>10. CASE iov' = <<>>
    <3>1. phase' = "done" /\ result' = nwritten'
      BY <1>2, <2>1, <2>10 DEF Finished, Return
    <3>2. ~Running'
      BY <3>1 DEF Running
    <3>3. Flat(iov') = <<>>
      <4>1. Flat(<<>>) = <<>>
        BY DEF Flat, FlattenSeq
      <4> QED
        BY <2>10, <4>1
    <3>4. moved' = Flat(asked')
      BY <1>7, <2>6, <3>3, JoinedFacts
    <3>5. result' = Size(asked')
      BY <2>7, <3>1, <3>4 DEF Size
    <3>6. SockTypes'
      BY <1>1, <1>5, <1>7, <2>4, <2>7, <3>1, LenProperties DEF SockInv, SockTypes
    <3>7. Passing' /\ Untouched'
      BY <2>6, <2>7, <2>9, <3>2, Zenon DEF Passing, Untouched
    <3>8. WholeOrError'
      <4>1. result' >= 0
        BY <1>1, <1>3, <3>5
      <4> QED
        BY <2>1, <2>8, <3>4, <3>5, <4>1, Zenon DEF WholeOrError
    <3> QED
      BY <3>6, <3>7, <3>8 DEF SockInv
  <2>11. CASE iov' # <<>>
    <3>1. phase' = "call"
      BY <1>1, <1>2, <2>1, <2>11 DEF Finished
    <3>2. fn' \in Vectored /\ fn' # "none"
      BY <1>1, <2>1 DEF Vectored
    <3>3. SockTypes'
      BY <1>1, <1>5, <1>7, <2>4, <2>7, <3>1, LenProperties DEF SockInv, SockTypes
    <3>4. Passing' /\ Untouched'
      BY <2>6, <2>7, <2>9, <2>11, <3>2, Zenon DEF Passing, Untouched
    <3>5. WholeOrError'
      BY <2>8, <3>1 DEF WholeOrError
    <3> QED
      BY <3>3, <3>4, <3>5 DEF SockInv
  <2> QED
    BY <2>10, <2>11
<1>9. CASE fn \notin Vectored
  <2>1. moved = <<>> /\ nwritten = 0 /\ iov = asked /\ fn \in {"read_ms", "write_ms", "write_full_ms"}
    BY <1>1, <1>9 DEF SockInv, SockTypes, Untouched, Vectored
  <2>2. /\ Left(k) = <<SubSeq(Flat(asked), nwritten + Account(k) + 1, Size(asked))>>
        /\ Account(k) \in Nat /\ (fn = "write_full_ms" => Account(k) = Size(asked))
        /\ (fn \in Single => Account(k) = k)
    BY <1>3, <1>4, <1>9 DEF Left, Account, Single
  <2>3. PICK h \in Seq(Byte) : Left(k) = <<h>> /\ (fn = "write_full_ms" => h = <<>>)
    <3>1. PICK f \in Seq(Byte), n \in Nat : /\ f = Flat(asked) /\ n = Account(k) + 1 /\ Len(f) \in Nat
                                            /\ Left(k) = <<SubSeq(f, n, Len(f))>>
      <4>1. nwritten + Account(k) + 1 = Account(k) + 1 /\ Account(k) + 1 \in Nat
        BY <2>1, <2>2
      <4> QED
        BY <1>3, <2>2, <4>1, Zenon DEF Size
    <3>2. \A i \in n .. Len(f) : f[i] \in Byte
      BY <2>2, <3>1, SMTT(60)
    <3>3. SubSeq(f, n, Len(f)) \in Seq(Byte)
      BY <3>1, <3>2, SubSeqProperties
    <3>4. fn = "write_full_ms" => SubSeq(f, n, Len(f)) = <<>>
      <4> SUFFICES ASSUME fn = "write_full_ms" PROVE SubSeq(f, n, Len(f)) = <<>>
        OBVIOUS
      <4>1. n = Len(f) + 1
        BY <2>2, <3>1, Zenon DEF Size
      <4>2. Len(f) < n
        BY <3>1, <4>1
      <4> QED
        BY <3>1, <4>2, SubSeqEmpty
    <3> QED
      BY <3>1, <3>3, <3>4
  <2>4. Finished(Left(k))
    <3>1. CASE fn \in Single
      BY <1>9, <3>1 DEF Finished
    <3>2. CASE fn = "write_full_ms"
      <4>1. Left(k) = <<h>> /\ h = <<>>
        BY <2>3, <3>2
      <4>2. Flat(<<h>>) = <<>>
        <5>1. PICK v \in Seq(Seq(Byte)) : v = <<h>>
          <6>1. ASSUME NEW U, h \in U PROVE <<h>> \in Seq(U)
            BY <6>1
          <6> QED
            BY <6>1
        <5>2. Len(v) = 1 /\ v[1] = <<>> /\ 1 \in 1 .. Len(v) /\ 1 - 1 = 0
          BY <4>1, <5>1
        <5>3. Prefix(v, 1) = Joined(Prefix(v, 0), v[1]) /\ Prefix(v, 0) = <<>> /\ Prefix(v, 1) = Flat(v)
          BY <5>2, PrefixFacts
        <5>4. Joined(<<>>, <<>>) = <<>>
          BY DEF Joined
        <5> QED
          BY <5>1, <5>2, <5>3, <5>4
      <4>3. Size(Left(k)) = 0
        BY <4>1, <4>2 DEF Size
      <4> QED
        BY <1>9, <4>3 DEF Finished
    <3> QED
      BY <2>1, <3>1, <3>2 DEF Single
  <2>5. phase' = "done" /\ result' = nwritten' /\ nwritten' = Account(k) /\ iov' = <<h>>
    BY <1>2, <2>1, <2>2, <2>3, <2>4 DEF Return
  <2>6. moved' = s /\ s = SubSeq(Flat(asked), 1, k)
    BY <1>6, <1>7, <2>1, JoinedFacts
  <2>7. fn' \notin Vectored /\ ~Running' /\ fn' = fn
    BY <1>1, <1>9, <2>5 DEF Running
  <2>8. SockTypes'
    <3>1. <<h>> \in Vectors
      BY DEF Vectors
    <3> QED
      BY <1>1, <1>5, <1>7, <2>2, <2>5, <3>1 DEF SockInv, SockTypes
  <2>9. Passing' /\ Untouched'
    BY <2>7 DEF Passing, Untouched
  <2>10. IsPrefix(moved, Flat(asked))'
    <3>1. PICK f \in Seq(Byte) : f = Flat(asked) /\ k \in 1 .. Len(f) /\ Len(f) \in Nat
      BY <1>3, <1>4, <2>1 DEF Size
    <3>2. k <= Len(f) /\ SubSeq(s, 1, k) = s /\ SubSeq(f, 1, k) = s
      BY <1>6, <2>6, <3>1, SubSeqFull
    <3>3. IsPrefix(s, f)
      BY <1>6, <3>2 DEF IsPrefix
    <3> QED
      BY <1>1, <2>6, <3>1, <3>3, Zenon
  <2>11. fn' \in Single => Len(moved') = result' /\ result' >= 0
    <3>1. Len(moved') = k /\ k >= 0
      BY <1>4, <1>6, <2>6
    <3> QED
      BY <2>2, <2>5, <2>7, <3>1
  <2>12. WholeOrError'
    BY <2>7, <2>10, <2>11, Zenon DEF WholeOrError
  <2> QED
    BY <2>8, <2>9, <2>12 DEF SockInv
<1> QED
  BY <1>8, <1>9

LEMMA ZeroSockInv ==
    ASSUME SockInv, Zero
    PROVE  SockInv'
<1>1. UNCHANGED <<fn, asked, iov, nwritten, moved, room>> /\ Running /\ phase = "call" /\ room' \in Nat
  BY DEF Zero, Running, SockInv, SockTypes
<1>2. CASE fn \notin Vectored
  <2>1. phase' = "done" /\ result' = 0
    BY <1>2 DEF Zero, Return
  <2>2. fn \in Vectored \cup Single => WholeOrError'
    BY <1>1, <1>2, <2>1, SingleFails
  <2> QED
    BY <1>1, <2>1, <2>2, GivesUp
<1>3. CASE fn \in Vectored
  <2>1. \/ phase' \in {"call", "poll"}
        \/ phase' = "done" /\ result' = -1
    BY <1>1, <1>3 DEF Zero, Return, OnEAGAIN
  <2>2. CASE phase' \in {"call", "poll"}
    BY <1>1, <2>2, RunsOn
  <2>3. CASE phase' = "done" /\ result' = -1
    <3>1. WholeOrError'
      BY <1>1, <1>3, <2>3, VectoredFails
    <3> QED
      BY <1>1, <2>3, <3>1, GivesUp
  <2> QED
    BY <2>1, <2>2, <2>3
<1> QED
  BY <1>2, <1>3

\* What the kinds of helpers return when they fail.
LEMMA FailureFacts ==
    /\ fn \in Vectored => Failure = -1 /\ fn \notin Single
    /\ fn \in Single => Failure = -1 /\ fn \notin Vectored /\ fn # "writev_full_ms"
BY DEF Failure, Vectored, Single

LEMMA FailsSockInv ==
    ASSUME SockInv, Fails
    PROVE  SockInv'
<1>1. /\ UNCHANGED <<fn, asked, iov, nwritten, moved, room>> /\ Running
      /\ phase' = "done" /\ result' = Failure /\ gone' = gone /\ gone
  BY DEF Fails, Running, Return
<1>2. fn \in Vectored => WholeOrError'
  BY <1>1, FailureFacts, VectoredFails
<1>3. fn \in Single => WholeOrError'
  BY <1>1, FailureFacts, SingleFails
<1> QED
  BY <1>1, <1>2, <1>3, GivesUp

LEMMA GiveUpSockInv ==
    ASSUME SockInv, GiveUp
    PROVE  SockInv'
<1>1. /\ UNCHANGED <<fn, asked, iov, nwritten, moved, room>> /\ Running
      /\ phase' = "done" /\ result' = Failure
  BY DEF GiveUp, Running, Return
<1>2. fn # "writev_full_ms" => errno' = "EAGAIN"
  BY DEF GiveUp, SetErrno
<1>3. fn \in Vectored => WholeOrError'
  BY <1>1, FailureFacts, VectoredFails
<1>4. fn \in Single => WholeOrError'
  BY <1>1, <1>2, FailureFacts, SingleFails
<1> QED
  BY <1>1, <1>3, <1>4, GivesUp

LEMMA OthersSockInv ==
    ASSUME SockInv, Interrupted \/ Blocks \/ Ready \/ PeerMoves \/ PeerGoes
    PROVE  SockInv'
<1>1. room \in Nat
  BY DEF SockInv, SockTypes
<1>2. CASE Interrupted
  BY <1>1, <1>2, RunsOn DEF Interrupted, Running
<1>3. CASE Blocks
  <2>1. phase' \in {"call", "poll"}
    BY <1>3 DEF Blocks, OnEAGAIN
  <2> QED
    BY <1>1, <1>3, <2>1, RunsOn DEF Blocks, Running
<1>4. CASE Ready
  BY <1>1, <1>4, RunsOn DEF Ready, Running
<1>5. CASE PeerMoves
  <2>1. room' \in Nat
    BY <1>1, <1>5 DEF PeerMoves
  <2> QED
    BY <1>5, <2>1, RunsOn DEF PeerMoves, Running
<1>6. CASE PeerGoes
  BY <1>1, <1>6, RunsOn DEF PeerGoes, Running
<1> QED
  BY <1>2, <1>3, <1>4, <1>5, <1>6

LEMMA IdleSockInv ==
    ASSUME SockInv, UNCHANGED sockVars
    PROVE  SockInv'
<1>1. /\ UNCHANGED fn /\ UNCHANGED asked /\ UNCHANGED iov /\ UNCHANGED nwritten /\ UNCHANGED errno
      /\ UNCHANGED phase /\ UNCHANGED result /\ UNCHANGED room /\ UNCHANGED moved /\ UNCHANGED gone
  BY DEF sockVars
<1>2. Running' <=> Running
  BY <1>1 DEF Running
<1>3. SockTypes'
  BY <1>1 DEF SockInv, SockTypes
<1>4. EmptyEnd' <=> EmptyEnd
  BY <1>1, Zenon DEF EmptyEnd
<1>5. Passing'
  BY <1>1, <1>2, <1>4, Zenon DEF SockInv, Passing
<1>6. Untouched'
  BY <1>1, <1>2, Zenon DEF SockInv, Untouched
<1>7. WholeOrError'
  BY <1>1, <1>4, Zenon DEF SockInv, WholeOrError
<1> QED
  BY <1>3, <1>5, <1>6, <1>7 DEF SockInv

LEMMA SpecSockInv == Spec => []SockInv
<1>1. Init => SockInv
  BY InitSockInv DEF Init
<1>2. SockInv /\ [Next]_vars => SockInv'
  <2> SUFFICES ASSUME SockInv, [Next]_vars PROVE SockInv'
    OBVIOUS
  <2>1. SockNext \/ UNCHANGED sockVars
    BY DEF Next, vars
  <2> QED
    BY <2>1, TransferSockInv, ZeroSockInv, FailsSockInv, GiveUpSockInv, OthersSockInv, IdleSockInv
       DEF SockNext, Call, Poll
<1> QED
  BY <1>1, <1>2, PTL DEF Spec

\* Whatever vector is handed over and however its transfer is cut up: the bytes
\* go through once and in order, a claim to have moved them all is true, and so
\* is an error (read_ms, write_ms, writev_full, writev_full_ms).
THEOREM SpecWholeOrError == Spec => []WholeOrError
<1>1. SockInv => WholeOrError
  BY DEF SockInv
<1> QED
  BY <1>1, SpecSockInv, PTL
-----------------------------------------------------------------------------
(* Sums. *)

\* f[i] is the sum of the first i numbers of s, up to n.
Sums(f, s, n) == f[0] = 0 /\ \A i \in 1 .. n : f[i] = f[i - 1] + s[i]

LEMMA SumsExists ==
    ASSUME NEW s \in Seq(Nat), NEW n \in 0 .. Len(s)
    PROVE  \E f \in [0 .. n -> Nat] : Sums(f, s, n)
<1> DEFINE S == {m \in Nat : m <= n => \E f \in [0 .. m -> Nat] : Sums(f, s, m)}
<1>1. 0 \in S
  <2>1. [i \in 0 .. 0 |-> 0] \in [0 .. 0 -> Nat]
    OBVIOUS
  <2>2. Sums([i \in 0 .. 0 |-> 0], s, 0)
    BY DEF Sums
  <2> QED
    BY <2>1, <2>2
<1>2. ASSUME NEW m \in Nat, m \in S PROVE m + 1 \in S
  <2> SUFFICES ASSUME m + 1 <= n PROVE \E f \in [0 .. m + 1 -> Nat] : Sums(f, s, m + 1)
    OBVIOUS
  <2>1. PICK f \in [0 .. m -> Nat] : Sums(f, s, m)
    BY <1>2
  <2>2. PICK x \in Nat : x = f[m] + s[m + 1]
    <3>1. f[m] \in Nat /\ s[m + 1] \in Nat
      OBVIOUS
    <3> QED
      BY <3>1
  <2> DEFINE g == [i \in 0 .. m + 1 |-> IF i <= m THEN f[i] ELSE x]
  <2>3. g \in [0 .. m + 1 -> Nat]
    OBVIOUS
  <2>4. g[0] = 0
    BY <2>1 DEF Sums
  <2>5. ASSUME NEW i \in 1 .. m + 1 PROVE g[i] = g[i - 1] + s[i]
    <3>1. CASE i <= m
      <4>1. g[i] = f[i] /\ g[i - 1] = f[i - 1]
        BY <3>1
      <4>2. f[i] = f[i - 1] + s[i]
        BY <2>1, <3>1 DEF Sums
      <4> HIDE DEF g
      <4> QED
        BY <4>1, <4>2
    <3>2. CASE i = m + 1
      <4>1. i - 1 = m /\ g[i] = x /\ g[i - 1] = f[m]
        BY <3>2
      <4> HIDE DEF g
      <4> QED
        BY <2>2, <3>2, <4>1
    <3> QED
      BY <3>1, <3>2
  <2> QED
    BY <2>3, <2>4, <2>5 DEF Sums
<1> HIDE DEF S
<1>3. Nat \subseteq S
  BY <1>1, <1>2, NatInd
<1>4. n \in Nat /\ n <= n
  BY LenProperties
<1> QED
  BY <1>3, <1>4 DEF S

LEMMA SumsUnique ==
    ASSUME NEW s, NEW f, NEW g, NEW n \in Nat, Sums(f, s, n), Sums(g, s, n)
    PROVE  f[n] = g[n]
<1> DEFINE S == {m \in Nat : m <= n => f[m] = g[m]}
<1>1. 0 \in S
  BY DEF Sums
<1>2. ASSUME NEW m \in Nat, m \in S PROVE m + 1 \in S
  <2> SUFFICES ASSUME m + 1 <= n PROVE f[m + 1] = g[m + 1]
    OBVIOUS
  <2>1. f[m] = g[m] /\ m + 1 \in 1 .. n /\ (m + 1) - 1 = m
    BY <1>2
  <2> QED
    BY <2>1 DEF Sums
<1> HIDE DEF S
<1>3. n \in S
  BY <1>1, <1>2, NatInd
<1> QED
  BY <1>3 DEF S

\* They are what Total adds up.
LEMMA TotalSums ==
    ASSUME NEW s \in Seq(Nat), NEW f \in [0 .. Len(s) -> Nat], Sums(f, s, Len(s))
    PROVE  Total(s) = f[Len(s)]
<1> DEFINE Is(g) == g = [i \in 0 .. Len(s) |-> IF i = 0 THEN 0 ELSE g[i - 1] + s[i]]
           h == CHOOSE g : Is(g)
<1>1. Len(s) \in Nat
  BY LenProperties
<1>2. Is(f)
  <2>1. \A i \in 0 .. Len(s) : f[i] = IF i = 0 THEN 0 ELSE f[i - 1] + s[i]
    BY <1>1 DEF Sums
  <2> QED
    BY <2>1
<1>3. Is(h)
  BY <1>2
<1>4. Total(s) = h[Len(s)]
  BY Zenon DEF Total
<1> HIDE DEF h
<1>5. Sums(h, s, Len(s))
  BY <1>1, <1>3 DEF Sums
<1> QED
  BY <1>1, <1>4, <1>5, SumsUnique

LEMMA TotalNat ==
    ASSUME NEW s \in Seq(Nat)
    PROVE  Total(s) \in Nat
<1>1. Len(s) \in Nat /\ Len(s) \in 0 .. Len(s)
  BY LenProperties
<1>2. PICK f \in [0 .. Len(s) -> Nat] : Sums(f, s, Len(s))
  BY <1>1, SumsExists
<1> QED
  BY <1>1, <1>2, TotalSums

LEMMA TotalJoined ==
    ASSUME NEW s \in Seq(Nat), NEW t \in Seq(Nat)
    PROVE  Total(Joined(s, t)) = Total(s) + Total(t)
<1>1. PICK m \in Nat, n \in Nat : m = Len(s) /\ n = Len(t)
  BY LenProperties
<1>2. PICK f \in [0 .. m -> Nat] : Sums(f, s, m) /\ Total(s) = f[m]
  <2>1. Len(s) \in 0 .. Len(s)
    BY <1>1
  <2> QED
    BY <1>1, <2>1, SumsExists, TotalSums
<1>3. PICK g \in [0 .. n -> Nat] : Sums(g, t, n) /\ Total(t) = g[n]
  <2>1. Len(t) \in 0 .. Len(t)
    BY <1>1
  <2> QED
    BY <1>1, <2>1, SumsExists, TotalSums
<1>4. PICK u \in Seq(Nat) : /\ u = Joined(s, t) /\ Len(u) = m + n
                            /\ \A i \in 1 .. m : u[i] = s[i]
                            /\ \A i \in m + 1 .. m + n : u[i] = t[i - m]
  <2>1. /\ Joined(s, t) \in Seq(Nat) /\ Len(Joined(s, t)) = m + n
        /\ \A i \in 1 .. m + n : Joined(s, t)[i] = IF i <= m THEN s[i] ELSE t[i - m]
    BY <1>1, ConcatProperties DEF Joined
  <2>2. PICK u \in Seq(Nat) : u = Joined(s, t)
    BY <2>1
  <2>3. \A i \in 1 .. m : u[i] = s[i]
    <3> SUFFICES ASSUME NEW i \in 1 .. m PROVE u[i] = s[i]
      OBVIOUS
    <3>1. i \in 1 .. m + n /\ i <= m
      OBVIOUS
    <3> QED
      BY <2>1, <2>2, <3>1, Zenon
  <2>4. \A i \in m + 1 .. m + n : u[i] = t[i - m]
    <3> SUFFICES ASSUME NEW i \in m + 1 .. m + n PROVE u[i] = t[i - m]
      OBVIOUS
    <3>1. i \in 1 .. m + n /\ ~(i <= m)
      OBVIOUS
    <3> QED
      BY <2>1, <2>2, <3>1, Zenon
  <2> QED
    BY <2>1, <2>2, <2>3, <2>4, Zenon
<1> DEFINE h == [i \in 0 .. m + n |-> IF i <= m THEN f[i] ELSE f[m] + g[i - m]]
<1>5. h \in [0 .. m + n -> Nat]
  OBVIOUS
<1>6. h[0] = 0
  BY <1>2 DEF Sums
<1>7. ASSUME NEW i \in 1 .. m + n PROVE h[i] = h[i - 1] + u[i]
  <2>1. CASE i <= m
    <3>1. h[i] = f[i] /\ h[i - 1] = f[i - 1] /\ u[i] = s[i]
      BY <1>4, <2>1, SMTT(60)
    <3>2. f[i] = f[i - 1] + s[i]
      BY <1>2, <2>1 DEF Sums
    <3> HIDE DEF h
    <3> QED
      BY <3>1, <3>2
  <2>2. CASE i = m + 1
    <3>1. h[i] = f[m] + g[1] /\ h[i - 1] = f[m] /\ u[i] = t[1]
      BY <1>4, <2>2, SMTT(60)
    <3>2. g[1] = g[1 - 1] + t[1] /\ g[0] = 0 /\ t[1] \in Nat
      <4>1. 1 \in 1 .. n
        BY <2>2
      <4> QED
        BY <1>1, <1>3, <4>1 DEF Sums
    <3> HIDE DEF h
    <3> QED
      BY <3>1, <3>2
  <2>3. CASE i > m + 1
    <3>1. PICK j \in 2 .. n : i - m = j /\ (i - 1) - m = j - 1
      BY <2>3
    <3>2. h[i] = f[m] + g[j] /\ h[i - 1] = f[m] + g[j - 1]
      <4>1. ~(i <= m) /\ ~(i - 1 <= m) /\ i \in 0 .. m + n /\ i - 1 \in 0 .. m + n
        BY <2>3
      <4> QED
        BY <3>1, <4>1, Zenon
    <3>3. u[i] = t[j]
      <4>1. i \in m + 1 .. m + n
        BY <2>3
      <4> QED
        BY <1>4, <3>1, <4>1
    <3>4. g[j] = g[j - 1] + t[j]
      <4>1. j \in 1 .. n
        OBVIOUS
      <4> QED
        BY <1>3, <4>1 DEF Sums
    <3>5. g[j - 1] \in Nat /\ t[j] \in Nat /\ f[m] \in Nat
      <4>1. j - 1 \in 0 .. n /\ j \in 1 .. Len(t) /\ m \in 0 .. m
        BY <1>1
      <4> QED
        BY <4>1, ElementOfSeq
    <3> HIDE DEF h
    <3> QED
      BY <3>2, <3>3, <3>4, <3>5, SMTT(60)
  <2> QED
    BY <2>1, <2>2, <2>3
<1>8. Total(u) = h[m + n]
  <2>1. Sums(h, u, m + n)
    BY <1>6, <1>7 DEF Sums
  <2> HIDE DEF h
  <2> QED
    BY <1>4, <1>5, <2>1, TotalSums
<1>9. h[m + n] = f[m] + g[n]
  <2>1. CASE n = 0
    <3>1. g[n] = 0 /\ h[m + n] = f[m] /\ f[m] \in Nat
      BY <1>3, <2>1 DEF Sums
    <3> QED
      BY <3>1
  <2>2. CASE n # 0
    BY <2>2
  <2> QED
    BY <2>1, <2>2
<1> HIDE DEF h
<1> QED
  BY <1>2, <1>3, <1>4, <1>8, <1>9

\* f[i] is what WithLong selects of the first i options, up to n.
Selects(f, opts, n) ==
    /\ f[0] = <<>>
    /\ \A i \in 1 .. n : f[i] = IF opts[i].long = None THEN f[i - 1] ELSE Append(f[i - 1], opts[i])

\* For every option, whether it is selected.
LongOnes(opts) == [i \in DOMAIN opts |-> IF opts[i].long = None THEN 0 ELSE 1]

LEMMA SelectsExists ==
    ASSUME NEW U, NEW opts \in Seq(U), NEW n \in 0 .. Len(opts)
    PROVE  \E f \in [0 .. n -> Seq(U)] : Selects(f, opts, n)
<1> DEFINE S == {m \in Nat : m <= n => \E f \in [0 .. m -> Seq(U)] : Selects(f, opts, m)}
<1>1. 0 \in S
  <2>1. [i \in 0 .. 0 |-> <<>>] \in [0 .. 0 -> Seq(U)]
    OBVIOUS
  <2>2. Selects([i \in 0 .. 0 |-> <<>>], opts, 0)
    BY DEF Selects
  <2> QED
    BY <2>1, <2>2
<1>2. ASSUME NEW m \in Nat, m \in S PROVE m + 1 \in S
  <2> SUFFICES ASSUME m + 1 <= n PROVE \E f \in [0 .. m + 1 -> Seq(U)] : Selects(f, opts, m + 1)
    OBVIOUS
  <2>1. PICK f \in [0 .. m -> Seq(U)] : Selects(f, opts, m)
    BY <1>2
  <2>2. PICK x \in Seq(U) : x = IF opts[m + 1].long = None THEN f[m] ELSE Append(f[m], opts[m + 1])
    <3>1. f[m] \in Seq(U) /\ opts[m + 1] \in U
      OBVIOUS
    <3>2. Append(f[m], opts[m + 1]) \in Seq(U)
      BY <3>1, AppendProperties
    <3> QED
      BY <3>1, <3>2
  <2> DEFINE g == [i \in 0 .. m + 1 |-> IF i <= m THEN f[i] ELSE x]
  <2>3. g \in [0 .. m + 1 -> Seq(U)]
    OBVIOUS
  <2>4. g[0] = <<>>
    BY <2>1 DEF Selects
  <2>5. ASSUME NEW i \in 1 .. m + 1
        PROVE  g[i] = IF opts[i].long = None THEN g[i - 1] ELSE Append(g[i - 1], opts[i])
    <3>1. CASE i <= m
      <4>1. g[i] = f[i] /\ g[i - 1] = f[i - 1] /\ i \in 1 .. m
        BY <3>1
      <4> HIDE DEF g
      <4> QED
        BY <2>1, <4>1, Zenon DEF Selects
    <3>2. CASE i = m + 1
      <4>1. i - 1 = m /\ g[i] = x /\ g[i - 1] = f[m]
        BY <3>2
      <4> HIDE DEF g
      <4> QED
        BY <2>2, <3>2, <4>1, Zenon
    <3> QED
      BY <3>1, <3>2
  <2> HIDE DEF g
  <2> QED
    BY <2>3, <2>4, <2>5, Zenon DEF Selects
<1> HIDE DEF S
<1>3. Nat \subseteq S
  BY <1>1, <1>2, NatInd
<1>4. n \in Nat /\ n <= n
  BY LenProperties
<1> QED
  BY <1>3, <1>4 DEF S

LEMMA SelectsUnique ==
    ASSUME NEW opts, NEW f, NEW g, NEW n \in Nat, Selects(f, opts, n), Selects(g, opts, n)
    PROVE  f[n] = g[n]
<1> DEFINE S == {m \in Nat : m <= n => f[m] = g[m]}
<1>1. 0 \in S
  BY DEF Selects
<1>2. ASSUME NEW m \in Nat, m \in S PROVE m + 1 \in S
  <2> SUFFICES ASSUME m + 1 <= n PROVE f[m + 1] = g[m + 1]
    OBVIOUS
  <2>1. f[m] = g[m] /\ m + 1 \in 1 .. n /\ (m + 1) - 1 = m
    BY <1>2
  <2> QED
    BY <2>1, Zenon DEF Selects
<1> HIDE DEF S
<1>3. n \in S
  BY <1>1, <1>2, NatInd
<1> QED
  BY <1>3 DEF S

LEMMA LongOnesType ==
    ASSUME NEW U, NEW opts \in Seq(U)
    PROVE  LongOnes(opts) \in Seq(Nat) /\ Len(LongOnes(opts)) = Len(opts)
BY DEF LongOnes

LEMMA WithLongSelects ==
    ASSUME NEW U, NEW opts \in Seq(U), NEW n \in Nat, n = Len(opts)
    PROVE  \E f \in [0 .. n -> Seq(U)] : Selects(f, opts, n) /\ WithLong(opts) = f[n]
<1>1. n = Len(opts) /\ n \in 0 .. Len(opts)
  OBVIOUS
<1>2. PICK f \in [0 .. n -> Seq(U)] : Selects(f, opts, n)
  BY <1>1, SelectsExists
<1>3. WithLong(opts) = f[n]
  <2> DEFINE Is(g) == g = [i \in 0 .. Len(opts) |->
                            IF i = 0 THEN <<>>
                            ELSE IF opts[i].long = None THEN g[i - 1] ELSE Append(g[i - 1], opts[i])]
             h == CHOOSE g : Is(g)
  <2>1. Is(f)
    <3>1. \A i \in 0 .. Len(opts) :
            f[i] = IF i = 0 THEN <<>>
                   ELSE IF opts[i].long = None THEN f[i - 1] ELSE Append(f[i - 1], opts[i])
      <4> SUFFICES ASSUME NEW i \in 0 .. n
                   PROVE  f[i] = IF i = 0 THEN <<>>
                                 ELSE IF opts[i].long = None THEN f[i - 1] ELSE Append(f[i - 1], opts[i])
        BY <1>1
      <4>1. CASE i = 0
        BY <1>2, <4>1 DEF Selects
      <4>2. CASE i # 0
        <5>1. i \in 1 .. n
          BY <4>2
        <5> QED
          BY <1>2, <4>2, <5>1, Zenon DEF Selects
      <4> QED
        BY <4>1, <4>2
    <3>2. f = [i \in 0 .. Len(opts) |-> f[i]]
      BY <1>1, SMTT(60)
    <3> QED
      BY <3>1, <3>2
  <2>2. Is(h)
    BY <2>1, ZenonT(60)
  <2>3. WithLong(opts) = h[Len(opts)]
    BY Zenon DEF WithLong
  <2> HIDE DEF h
  <2>4. Selects(h, opts, n)
    <3>1. h[0] = <<>>
      BY <1>1, <2>2
    <3>2. ASSUME NEW i \in 1 .. n
          PROVE  h[i] = IF opts[i].long = None THEN h[i - 1] ELSE Append(h[i - 1], opts[i])
      <4>1. i \in 0 .. Len(opts) /\ i # 0
        BY <1>1
      <4> QED
        BY <2>2, <4>1, Zenon
    <3> QED
      BY <3>1, <3>2, Zenon DEF Selects
  <2> QED
    BY <1>1, <1>2, <2>3, <2>4, SelectsUnique
<1> QED
  BY <1>2, <1>3

\* WithLong selects one option for every one in LongOnes.
LEMMA WithLongCounts ==
    ASSUME NEW U, NEW opts \in Seq(U)
    PROVE  /\ WithLong(opts) \in Seq(U)
           /\ Len(WithLong(opts)) = Total(LongOnes(opts))
<1>1. PICK n \in Nat : n = Len(opts) /\ n \in 0 .. Len(opts)
  BY LenProperties
<1>2. PICK f \in [0 .. n -> Seq(U)] : Selects(f, opts, n) /\ WithLong(opts) = f[n]
  BY <1>1, WithLongSelects
<1>3. WithLong(opts) = f[n]
  BY <1>2
<1>4. PICK ones \in Seq(Nat) : ones = LongOnes(opts) /\ Len(ones) = n
  BY <1>1, LongOnesType
<1> DEFINE g == [i \in 0 .. n |-> Len(f[i])]
<1>5. g \in [0 .. n -> Nat]
  <2>1. \A i \in 0 .. n : Len(f[i]) \in Nat
    BY LenProperties
  <2> QED
    BY <2>1
<1>6. g[0] = 0
  BY <1>2 DEF Selects
<1>7. ASSUME NEW i \in 1 .. n PROVE g[i] = g[i - 1] + ones[i]
  <2>1. i \in 0 .. n /\ i - 1 \in 0 .. n /\ i \in DOMAIN opts
    BY <1>1
  <2>2. f[i - 1] \in Seq(U) /\ opts[i] \in U /\ g[i] = Len(f[i]) /\ g[i - 1] = Len(f[i - 1])
    BY <1>1, <2>1, SMTT(60)
  <2>3. Len(Append(f[i - 1], opts[i])) = Len(f[i - 1]) + 1 /\ Len(f[i - 1]) \in Nat
    BY <2>2, AppendProperties, LenProperties
  <2>4. f[i] = IF opts[i].long = None THEN f[i - 1] ELSE Append(f[i - 1], opts[i])
    BY <1>2, Zenon DEF Selects
  <2>5. ones[i] = IF opts[i].long = None THEN 0 ELSE 1
    BY <1>4, <2>1, Zenon DEF LongOnes
  <2> HIDE DEF g
  <2>6. CASE opts[i].long = None
    BY <2>2, <2>3, <2>4, <2>5, <2>6
  <2>7. CASE opts[i].long # None
    <3>1. f[i] = Append(f[i - 1], opts[i]) /\ ones[i] = 1
      BY <2>4, <2>5, <2>7, Zenon
    <3> QED
      BY <2>2, <2>3, <3>1
  <2> QED
    BY <2>6, <2>7
<1>8. Total(ones) = g[n]
  <2>1. Sums(g, ones, n)
    BY <1>6, <1>7 DEF Sums
  <2> HIDE DEF g
  <2> QED
    BY <1>4, <1>5, <2>1, TotalSums
<1>9. g[n] = Len(f[n]) /\ f[n] \in Seq(U)
  OBVIOUS
<1> HIDE DEF g
<1> QED
  BY <1>3, <1>4, <1>8, <1>9
-----------------------------------------------------------------------------
(* The options of the blocks that were added. *)

AllBlocks == UNION {Range(t) : t \in Tables}
Entry == {[section |-> b.section, opt |-> o] : b \in AllBlocks, o \in Options}

LEMMA SeqByEntries ==
    ASSUME NEW U, NEW n \in Nat, NEW s, s = [i \in 1 .. n |-> s[i]], \A i \in 1 .. n : s[i] \in U
    PROVE  s \in Seq(U) /\ Len(s) = n
OBVIOUS

LEMMA JoinedEntries ==
    ASSUME NEW U, NEW s \in Seq(U), NEW t \in Seq(U), NEW m \in Nat, NEW n \in Nat,
           m = Len(s), n = Len(t)
    PROVE  /\ Joined(s, t) \in Seq(U) /\ Len(Joined(s, t)) = m + n
           /\ \A i \in 1 .. m + n : Joined(s, t)[i] = IF i <= m THEN s[i] ELSE t[i - m]
<1>1. Joined(s, t) \in Seq(U) /\ Len(Joined(s, t)) = m + n
  BY ConcatProperties DEF Joined
<1>2. \A i \in 1 .. m + n : Joined(s, t)[i] = IF i <= m THEN s[i] ELSE t[i - m]
  BY ConcatProperties DEF Joined
<1> QED
  BY <1>1, <1>2, Zenon

\* u is s followed by t.
Follows(u, s, t) ==
    /\ Len(u) = Len(s) + Len(t)
    /\ \A i \in 1 .. Len(s) : u[i] = s[i]
    /\ \A i \in 1 .. Len(t) : u[Len(s) + i] = t[i]

LEMMA JoinedFollows ==
    ASSUME NEW U, NEW s \in Seq(U), NEW t \in Seq(U)
    PROVE  Joined(s, t) \in Seq(U) /\ Follows(Joined(s, t), s, t)
<1>1. PICK m \in Nat, n \in Nat : m = Len(s) /\ n = Len(t)
  BY LenProperties
<1>2. /\ Joined(s, t) \in Seq(U) /\ Len(Joined(s, t)) = m + n
      /\ \A i \in 1 .. m + n : Joined(s, t)[i] = IF i <= m THEN s[i] ELSE t[i - m]
  BY <1>1, JoinedEntries
<1>3. ASSUME NEW i \in 1 .. m PROVE Joined(s, t)[i] = s[i]
  <2>1. i \in 1 .. m + n /\ i <= m
    OBVIOUS
  <2> QED
    BY <1>2, <2>1, Zenon
<1>4. ASSUME NEW i \in 1 .. n PROVE Joined(s, t)[m + i] = t[i]
  <2>1. m + i \in 1 .. m + n /\ ~(m + i <= m) /\ (m + i) - m = i
    OBVIOUS
  <2> QED
    BY <1>2, <2>1, Zenon
<1> QED
  BY <1>1, <1>2, <1>3, <1>4, Zenon DEF Follows

LEMMA JoinedIs ==
    ASSUME NEW U, NEW s \in Seq(U), NEW t \in Seq(U), NEW v \in Seq(U), Follows(v, s, t)
    PROVE  v = Joined(s, t)
<1>1. PICK u \in Seq(U) : u = Joined(s, t) /\ Follows(u, s, t)
  BY JoinedFollows
<1>2. PICK m \in Nat, n \in Nat : m = Len(s) /\ n = Len(t)
  BY LenProperties
<1>3. ASSUME NEW i \in 1 .. m + n PROVE u[i] = v[i]
  <2>1. CASE i <= m
    <3>1. i \in 1 .. m
      BY <2>1
    <3> QED
      BY <1>1, <1>2, <3>1, Zenon DEF Follows
  <2>2. CASE ~(i <= m)
    <3>1. PICK j \in 1 .. n : i = m + j
      <4>1. i - m \in 1 .. n /\ i = m + (i - m)
        BY <2>2
      <4> QED
        BY <4>1, Zenon
    <3> QED
      BY <1>1, <1>2, <3>1, Zenon DEF Follows
  <2> QED
    BY <2>1, <2>2
<1>4. Len(u) = m + n /\ Len(v) = m + n
  BY <1>1, <1>2 DEF Follows
<1>5. u = v
  BY <1>3, <1>4, SeqEqual
<1> QED
  BY <1>1, <1>5

\* The options of these blocks, one after the other.
OptionsOf(bs) == [i \in DOMAIN Entries(bs) |-> Entries(bs)[i].opt]

LEMMA BlockTypes ==
    ASSUME NEW b \in AllBlocks
    PROVE  /\ b.opts \in Seq(Options) /\ EntriesOf(b) \in Seq(Entry)
           /\ Len(EntriesOf(b)) = Len(b.opts)
           /\ \A i \in 1 .. Len(b.opts) :
                 EntriesOf(b)[i].section = b.section /\ EntriesOf(b)[i].opt = b.opts[i]
<1>1. PICK o \in Seq(Options) : o = b.opts
  <2>1. PICK t \in Tables : b \in Range(t)
    BY DEF AllBlocks
  <2> QED
    BY <2>1, ConfigAssumption
<1>2. DOMAIN o = 1 .. Len(o) /\ Len(o) \in Nat
  BY LenProperties
<1>3. \A i \in 1 .. Len(o) : [section |-> b.section, opt |-> o[i]] \in Entry
  BY <1>2, ElementOfSeq DEF Entry
<1>4. EntriesOf(b) = [i \in 1 .. Len(o) |-> [section |-> b.section, opt |-> o[i]]]
  BY <1>1, <1>2, Zenon DEF EntriesOf
<1>5. EntriesOf(b) \in Seq(Entry) /\ Len(EntriesOf(b)) = Len(o)
  BY <1>2, <1>3, <1>4
<1>6. \A i \in 1 .. Len(o) : EntriesOf(b)[i].section = b.section /\ EntriesOf(b)[i].opt = o[i]
  BY <1>4
<1> QED
  BY <1>1, <1>5, <1>6, Zenon

LEMMA EntriesAppend ==
    ASSUME NEW bs \in Seq(AllBlocks), NEW b \in AllBlocks
    PROVE  /\ Entries(bs) \in Seq(Entry)
           /\ Entries(Append(bs, b)) = Joined(Entries(bs), EntriesOf(b))
<1>1. ASSUME NEW cs \in Seq(AllBlocks)
      PROVE  \E v \in Seq(Seq(Entry)) : /\ Entries(cs) = Flat(v) /\ Len(v) = Len(cs)
                                        /\ \A i \in 1 .. Len(cs) : v[i] = EntriesOf(cs[i])
  <2>1. Len(cs) \in Nat /\ DOMAIN cs = 1 .. Len(cs) /\ \A i \in 1 .. Len(cs) : cs[i] \in AllBlocks
    BY LenProperties, ElementOfSeq
  <2>2. PICK v : v = [i \in 1 .. Len(cs) |-> EntriesOf(cs[i])]
    OBVIOUS
  <2>3. \A i \in 1 .. Len(cs) : v[i] = EntriesOf(cs[i]) /\ v[i] \in Seq(Entry)
    BY <2>1, <2>2, BlockTypes
  <2>4. ASSUME NEW U, \A i \in 1 .. Len(cs) : v[i] \in U PROVE v \in Seq(U) /\ Len(v) = Len(cs)
    BY <2>1, <2>2, <2>4
  <2>5. v \in Seq(Seq(Entry)) /\ Len(v) = Len(cs)
    BY <2>3, <2>4
  <2>6. Entries(cs) = Flat(v)
    BY <2>1, <2>2, Zenon DEF Entries, Flat
  <2> QED
    BY <2>3, <2>5, <2>6
<1>2. PICK n \in Nat : n = Len(bs)
  BY LenProperties
<1>3. PICK cs \in Seq(AllBlocks) : /\ cs = Append(bs, b) /\ Len(cs) = n + 1 /\ cs[n + 1] = b
                                   /\ \A i \in 1 .. n : cs[i] = bs[i]
  <2>1. PICK cs \in Seq(AllBlocks) : cs = Append(bs, b)
    BY AppendProperties
  <2>2. Len(cs) = n + 1 /\ cs[n + 1] = b /\ \A i \in 1 .. n : cs[i] = bs[i]
    BY <1>2, <2>1, AppendProperties
  <2> QED
    BY <2>1, <2>2
<1>4. PICK v \in Seq(Seq(Entry)) : /\ Entries(bs) = Flat(v) /\ Len(v) = n
                                   /\ \A i \in 1 .. n : v[i] = EntriesOf(bs[i])
  BY <1>1, <1>2
<1>5. PICK w \in Seq(Seq(Entry)) : /\ Entries(cs) = Flat(w) /\ Len(w) = n + 1
                                   /\ \A i \in 1 .. n + 1 : w[i] = EntriesOf(cs[i])
  BY <1>1, <1>3
<1>6. SubSeq(w, 1, n) = v
  <2>1. ASSUME NEW U, v \in Seq(U), w \in Seq(U), \A i \in 1 .. n : w[i] = v[i]
        PROVE  SubSeq(w, 1, n) = v
    <3>1. 1 \in 1 .. Len(w) + 1 /\ n \in 1 - 1 .. Len(w)
      BY <1>5
    <3>2. /\ SubSeq(w, 1, n) \in Seq(U) /\ Len(SubSeq(w, 1, n)) = n - 1 + 1
          /\ \A i \in 1 .. n - 1 + 1 : SubSeq(w, 1, n)[i] = w[1 + i - 1]
      BY <2>1, <3>1, SubSeqFacts
    <3>3. PICK x \in Seq(U) : x = SubSeq(w, 1, n)
      BY <3>2
    <3>4. n - 1 + 1 = n /\ \A i \in 1 .. n : 1 + i - 1 = i
      OBVIOUS
    <3>5. Len(x) = n /\ \A i \in 1 .. n : x[i] = v[i]
      BY <2>1, <3>2, <3>3, <3>4
    <3> QED
      BY <1>4, <2>1, <3>3, <3>5, SeqEqual
  <2>2. \A i \in 1 .. n : w[i] = v[i]
    BY <1>3, <1>4, <1>5
  <2> QED
    BY <2>1, <2>2
<1>7. Flat(w) = Joined(Flat(v), w[n + 1])
  <2>1. n + 1 \in 1 .. Len(w) /\ (n + 1) - 1 = n
    BY <1>5
  <2>2. Prefix(w, n + 1) = Joined(Prefix(w, n), w[n + 1]) /\ Prefix(w, Len(w)) = Flat(w)
    BY <2>1, PrefixFacts
  <2> QED
    BY <1>5, <1>6, <2>2 DEF Prefix
<1>8. w[n + 1] = EntriesOf(b)
  BY <1>3, <1>5
<1>9. Entries(bs) \in Seq(Entry)
  BY <1>4, PrefixFacts
<1> QED
  BY <1>3, <1>4, <1>5, <1>7, <1>8, <1>9, Zenon

LEMMA OptionsOfAppend ==
    ASSUME NEW bs \in Seq(AllBlocks), NEW b \in AllBlocks
    PROVE  OptionsOf(bs) \in Seq(Options) /\ OptionsOf(Append(bs, b)) = Joined(OptionsOf(bs), b.opts)
<1>1. \A e \in Entry : e.opt \in Options
  BY DEF Entry
<1>2. PICK es \in Seq(Entry) : es = Entries(bs)
  BY EntriesAppend
<1>3. PICK fs \in Seq(Entry) : /\ fs = EntriesOf(b) /\ Len(fs) = Len(b.opts)
                               /\ \A i \in 1 .. Len(b.opts) : fs[i].opt = b.opts[i]
  BY BlockTypes
<1>4. PICK gs \in Seq(Entry) : gs = Joined(es, fs) /\ Entries(Append(bs, b)) = gs
  BY <1>2, <1>3, EntriesAppend, JoinedFacts
<1>5. PICK m \in Nat, n \in Nat : m = Len(es) /\ n = Len(fs)
  BY LenProperties
<1>6. Len(gs) = m + n /\ (\A i \in 1 .. m : gs[i] = es[i]) /\ (\A i \in 1 .. n : gs[m + i] = fs[i])
  <2>1. Follows(gs, es, fs)
    BY <1>4, JoinedFollows
  <2> QED
    BY <1>5, <2>1, Zenon DEF Follows
<1>7. PICK os \in Seq(Options) : os = OptionsOf(bs) /\ Len(os) = m /\ \A i \in 1 .. m : os[i] = es[i].opt
  <2>1. PICK os : os = OptionsOf(bs) /\ os = [i \in 1 .. m |-> es[i].opt]
    BY <1>2, <1>5, LenProperties DEF OptionsOf
  <2>2. \A i \in 1 .. m : es[i].opt \in Options /\ os[i] = es[i].opt
    BY <1>1, <1>5, <2>1, ElementOfSeq
  <2>3. os = [i \in 1 .. m |-> os[i]]
    BY <2>1
  <2>4. os \in Seq(Options) /\ Len(os) = m
    BY <2>2, <2>3, SeqByEntries
  <2> QED
    BY <2>1, <2>2, <2>4, Zenon
<1>8. PICK bo \in Seq(Options) : bo = b.opts /\ Len(bo) = n /\ \A i \in 1 .. n : bo[i] = fs[i].opt
  BY <1>3, <1>5, BlockTypes
<1>9. PICK ps \in Seq(Options) : /\ ps = OptionsOf(Append(bs, b)) /\ Len(ps) = m + n
                                  /\ \A i \in 1 .. m + n : ps[i] = gs[i].opt
  <2>1. PICK ps : ps = OptionsOf(Append(bs, b)) /\ ps = [i \in 1 .. m + n |-> gs[i].opt]
    BY <1>4, <1>6, LenProperties DEF OptionsOf
  <2>2. \A i \in 1 .. m + n : gs[i].opt \in Options /\ ps[i] = gs[i].opt
    BY <1>1, <1>6, <2>1, ElementOfSeq
  <2>3. ps = [i \in 1 .. m + n |-> ps[i]] /\ m + n \in Nat
    BY <2>1
  <2>4. ps \in Seq(Options) /\ Len(ps) = m + n
    BY <2>2, <2>3, SeqByEntries
  <2> QED
    BY <2>1, <2>2, <2>4, Zenon
<1>10. ps = Joined(os, bo)
  <2>1. \A i \in 1 .. m : ps[i] = os[i]
    <3>1. \A i \in 1 .. m : i \in 1 .. m + n
      OBVIOUS
    <3> QED
      BY <1>6, <1>7, <1>9, <3>1, ZenonT(60)
  <2>2. \A i \in 1 .. n : ps[m + i] = bo[i]
    <3>1. \A i \in 1 .. n : m + i \in 1 .. m + n
      OBVIOUS
    <3> QED
      BY <1>6, <1>8, <1>9, <3>1, ZenonT(60)
  <2>3. Follows(ps, os, bo)
    BY <1>7, <1>8, <1>9, <2>1, <2>2, Zenon DEF Follows
  <2> QED
    BY <2>3, JoinedIs
<1> QED
  BY <1>7, <1>8, <1>9, <1>10, Zenon

\* The characters an option takes in opt_short.
CharsOf(opts) == [i \in DOMAIN opts |-> IF opts[i].short = 0 THEN 0 ELSE 1 + opts[i].args]

LEMMA CharsOfType ==
    ASSUME NEW opts \in Seq(Options)
    PROVE  /\ CharsOf(opts) \in Seq(Nat) /\ Len(CharsOf(opts)) = Len(opts)
           /\ Letters(opts) = Total(CharsOf(opts)) /\ AllChars(opts) = Total(CharsOf(opts))
<1>1. PICK c : c = CharsOf(opts)
  OBVIOUS
<1>2. PICK n \in Nat : n = Len(opts) /\ DOMAIN opts = 1 .. n
  BY LenProperties
<1>3. c = [i \in 1 .. n |-> IF opts[i].short = 0 THEN 0 ELSE 1 + opts[i].args]
  BY <1>1, <1>2, Zenon DEF CharsOf
<1>4. \A i \in 1 .. n : opts[i].args \in 0 .. 2
  <2>1. \A i \in 1 .. n : opts[i] \in Options
    BY <1>2
  <2> QED
    BY <2>1, ConfigAssumption
<1>5. \A i \in 1 .. n : c[i] \in Nat
  BY <1>3, <1>4
<1>6. c = [i \in 1 .. n |-> c[i]]
  BY <1>3
<1>7. c \in Seq(Nat) /\ Len(c) = n
  BY <1>5, <1>6, SeqByEntries
<1>8. Letters(opts) = Total(CharsOf(opts)) /\ AllChars(opts) = Total(CharsOf(opts))
  BY Zenon DEF Letters, AllChars, Chars, CharsOf
<1> QED
  BY <1>1, <1>2, <1>7, <1>8, Zenon

\* What is counted of two lists is counted of the one made of both.
LEMMA CountsAdd ==
    ASSUME NEW s \in Seq(Options), NEW t \in Seq(Options)
    PROVE  /\ Letters(Joined(s, t)) = Letters(s) + AllChars(t)
           /\ Len(WithLong(Joined(s, t))) = Len(WithLong(s)) + Len(WithLong(t))
           /\ Letters(s) \in Nat /\ AllChars(t) \in Nat
           /\ Len(WithLong(s)) \in Nat /\ Len(WithLong(t)) \in Nat
<1>1. PICK m \in Nat, n \in Nat : m = Len(s) /\ n = Len(t)
  BY LenProperties
<1>2. PICK u \in Seq(Options) : /\ u = Joined(s, t) /\ Len(u) = m + n
                                /\ \A i \in 1 .. m : u[i] = s[i]
                                /\ \A i \in 1 .. n : u[m + i] = t[i]
  <2>1. PICK u \in Seq(Options) : u = Joined(s, t) /\ Follows(u, s, t)
    BY JoinedFollows
  <2> QED
    BY <1>1, <2>1 DEF Follows
<1>3. CharsOf(u) = Joined(CharsOf(s), CharsOf(t))
  <2>1. PICK x \in Seq(Nat), y \in Seq(Nat), z \in Seq(Nat) :
            /\ x = CharsOf(s) /\ y = CharsOf(t) /\ z = CharsOf(u)
            /\ Len(x) = m /\ Len(y) = n /\ Len(z) = m + n
    BY <1>1, <1>2, CharsOfType
  <2>2. ASSUME NEW i \in 1 .. m PROVE z[i] = x[i]
    <3>1. i \in DOMAIN s /\ i \in DOMAIN u /\ u[i] = s[i]
      BY <1>1, <1>2, LenProperties
    <3> QED
      BY <2>1, <3>1, Zenon DEF CharsOf
  <2>3. ASSUME NEW i \in 1 .. n PROVE z[m + i] = y[i]
    <3>1. i \in DOMAIN t /\ m + i \in DOMAIN u /\ u[m + i] = t[i]
      BY <1>1, <1>2, LenProperties
    <3> QED
      BY <2>1, <3>1, Zenon DEF CharsOf
  <2>4. Follows(z, x, y)
    BY <2>1, <2>2, <2>3, Zenon DEF Follows
  <2>5. z = Joined(x, y)
    BY <2>4, JoinedIs
  <2> QED
    BY <2>1, <2>5, Zenon
<1>4. LongOnes(u) = Joined(LongOnes(s), LongOnes(t))
  <2>1. PICK x \in Seq(Nat), y \in Seq(Nat), z \in Seq(Nat) :
            /\ x = LongOnes(s) /\ y = LongOnes(t) /\ z = LongOnes(u)
            /\ Len(x) = m /\ Len(y) = n /\ Len(z) = m + n
    BY <1>1, <1>2, LongOnesType
  <2>2. ASSUME NEW i \in 1 .. m PROVE z[i] = x[i]
    <3>1. i \in DOMAIN s /\ i \in DOMAIN u /\ u[i] = s[i]
      BY <1>1, <1>2, LenProperties
    <3> QED
      BY <2>1, <3>1, Zenon DEF LongOnes
  <2>3. ASSUME NEW i \in 1 .. n PROVE z[m + i] = y[i]
    <3>1. i \in DOMAIN t /\ m + i \in DOMAIN u /\ u[m + i] = t[i]
      BY <1>1, <1>2, LenProperties
    <3> QED
      BY <2>1, <3>1, Zenon DEF LongOnes
  <2>4. Follows(z, x, y)
    BY <2>1, <2>2, <2>3, Zenon DEF Follows
  <2>5. z = Joined(x, y)
    BY <2>4, JoinedIs
  <2> QED
    BY <2>1, <2>5, Zenon
<1>5. /\ Total(CharsOf(u)) = Total(CharsOf(s)) + Total(CharsOf(t))
      /\ Total(CharsOf(s)) \in Nat /\ Total(CharsOf(t)) \in Nat
  BY <1>3, CharsOfType, TotalJoined, TotalNat
<1>6. /\ Total(LongOnes(u)) = Total(LongOnes(s)) + Total(LongOnes(t))
      /\ Total(LongOnes(s)) \in Nat /\ Total(LongOnes(t)) \in Nat
  BY <1>4, LongOnesType, TotalJoined, TotalNat
<1>7. /\ Letters(u) = Total(CharsOf(u)) /\ Letters(s) = Total(CharsOf(s))
      /\ AllChars(t) = Total(CharsOf(t))
  BY CharsOfType
<1>8. /\ Len(WithLong(u)) = Total(LongOnes(u)) /\ Len(WithLong(s)) = Total(LongOnes(s))
      /\ Len(WithLong(t)) = Total(LongOnes(t))
  BY WithLongCounts
<1> QED
  BY <1>2, <1>5, <1>6, <1>7, <1>8, Zenon
-----------------------------------------------------------------------------
(* The invariant of the blocks. *)

LEMMA MinFacts ==
    ASSUME NEW I, I \subseteq Nat, I # {}
    PROVE  Min(I) \in I /\ \A y \in I : Min(I) <= y
<1>1. \E x \in I : \A y \in I : x <= y
  BY NatMin
<1> QED
  BY <1>1, Zenon DEF Min

\* The place that mconf_add stops at, and that there is none.
LEMMA ConflictPlace ==
    ASSUME NEW b \in AllBlocks
    PROVE  /\ FirstConflict(b) \in 0 .. Len(b.opts)
           /\ FirstConflict(b) = 0 => \A i \in 1 .. Len(b.opts) : ~Conflict(b.section, b.opts[i])
<1> DEFINE I == {i \in 1 .. Len(b.opts) : Conflict(b.section, b.opts[i])}
<1>1. FirstConflict(b) = IF I # {} THEN Min(I) ELSE 0
  BY Zenon DEF FirstConflict, SelectInSeq
<1>2. Len(b.opts) \in Nat
  BY BlockTypes, LenProperties
<1>3. CASE I = {}
  <2>1. FirstConflict(b) = 0 /\ 0 \in 0 .. Len(b.opts)
    BY <1>1, <1>2, <1>3
  <2>2. \A i \in 1 .. Len(b.opts) : ~Conflict(b.section, b.opts[i])
    BY <1>3, Zenon
  <2> QED
    BY <2>1, <2>2
<1>4. CASE I # {}
  <2>1. I \subseteq Nat /\ I \subseteq 1 .. Len(b.opts)
    BY <1>2
  <2> HIDE DEF I
  <2>2. Min(I) \in I
    BY <1>4, <2>1, MinFacts
  <2>3. PICK f \in 1 .. Len(b.opts) : f = FirstConflict(b)
    BY <1>1, <1>4, <2>1, <2>2, Zenon
  <2>4. f \in 0 .. Len(b.opts) /\ f # 0
    BY <1>2
  <2> QED
    BY <2>3, <2>4
<1> QED
  BY <1>3, <1>4

LEMMA CountedType ==
    ASSUME NEW b \in AllBlocks
    PROVE  Counted(b) \in Seq(Options)
<1>1. PICK o \in Seq(Options) : \E f \in 0 .. Len(o) : o = b.opts /\ f = FirstConflict(b)
  BY BlockTypes, ConflictPlace
<1> PICK f \in 0 .. Len(o) : o = b.opts /\ f = FirstConflict(b)
  BY <1>1
<1>2. Counted(b) = IF f = 0 THEN o ELSE SubSeq(o, 1, f - 1)
  BY Zenon DEF Counted
<1>3. CASE f = 0
  BY <1>2, <1>3
<1>4. CASE f # 0
  <2>1. 1 \in 1 .. Len(o) + 1 /\ f - 1 \in 1 - 1 .. Len(o)
    BY <1>4, LenProperties
  <2>2. SubSeq(o, 1, f - 1) \in Seq(Options)
    BY <2>1, SubSeqFacts
  <2> QED
    BY <1>2, <1>4, <2>2
<1> QED
  BY <1>3, <1>4

TableTypes ==
    /\ toAdd \in Seq(AllBlocks) /\ blocks \in Seq(AllBlocks)
    /\ short_len \in Nat /\ long_count \in Nat
    /\ written \in Nat /\ Len(opt_long) \in Nat

\* What mconf_add has counted is enough for all it has kept.
EnoughCounted ==
    /\ Letters(AllOptions) <= short_len
    /\ Len(WithLong(AllOptions)) <= long_count

RoomInv == TableTypes /\ EnoughCounted /\ RoomForOptions

LEMMA NoOptions ==
    /\ Entries(<<>>) = <<>> /\ OptionsOf(<<>>) = <<>>
    /\ Letters(<<>>) = 0 /\ Len(WithLong(<<>>)) = 0
<1>1. PICK e \in Seq(Options) : e = <<>> /\ Len(e) = 0
  <2>1. <<>> \in Seq(Options) /\ Len(<<>>) = 0
    OBVIOUS
  <2> QED
    BY <2>1, Zenon
<1>2. Entries(<<>>) = <<>> /\ OptionsOf(<<>>) = <<>>
  <2>1. Flat(<<>>) = <<>>
    BY DEF Flat, FlattenSeq
  <2>2. PICK x : x = <<>>
    OBVIOUS
  <2>3. [i \in DOMAIN x |-> EntriesOf(x[i])] = <<>>
    BY <2>2
  <2>4. Entries(<<>>) = <<>>
    BY <2>1, <2>2, <2>3 DEF Entries, Flat
  <2> QED
    BY <2>4 DEF OptionsOf
<1>3. ASSUME NEW s \in Seq(Nat), Len(s) = 0 PROVE Total(s) = 0
  <2>1. PICK f \in [0 .. 0 -> Nat] : Sums(f, s, 0)
    <3>1. 0 \in 0 .. Len(s)
      BY <1>3
    <3> QED
      BY <3>1, SumsExists
  <2>2. Total(s) = f[0]
    BY <1>3, <2>1, TotalSums
  <2> QED
    BY <2>1, <2>2 DEF Sums
<1>4. Letters(e) = 0
  BY <1>1, <1>3, CharsOfType
<1>5. Len(WithLong(e)) = 0
  BY <1>1, <1>3, LongOnesType, WithLongCounts
<1> QED
  BY <1>1, <1>2, <1>4, <1>5

LEMMA EntriesTypes ==
    ASSUME NEW bs \in Seq(AllBlocks)
    PROVE  Entries(bs) \in Seq(Entry) /\ OptionsOf(bs) \in Seq(Options)
<1>1. CASE AllBlocks = {}
  <2>1. bs = <<>>
    BY <1>1
  <2>2. <<>> \in Seq(Entry) /\ <<>> \in Seq(Options)
    OBVIOUS
  <2> QED
    BY <2>1, <2>2, NoOptions
<1>2. CASE AllBlocks # {}
  BY <1>2, EntriesAppend, OptionsOfAppend
<1> QED
  BY <1>1, <1>2

LEMMA InitRoomInv == ConfigIdle \/ ConfigInit => RoomInv
<1> SUFFICES ASSUME ConfigIdle \/ ConfigInit PROVE RoomInv
  OBVIOUS
<1>1. ConfigStart /\ (toAdd = <<>> \/ toAdd \in Tables)
  BY DEF ConfigIdle, ConfigInit
<1>2. blocks = <<>> /\ short_len = 0 /\ long_count = 0 /\ written = 0 /\ opt_long = <<>>
  BY <1>1 DEF ConfigStart
<1>3. ASSUME NEW t \in Tables PROVE t \in Seq(AllBlocks)
  <2>1. t \in Seq(Range(t)) /\ Range(t) \subseteq AllBlocks
    BY ConfigAssumption, Zenon DEF AllBlocks
  <2> QED
    BY <2>1, SeqMonotonic
<1>4. TableTypes
  <2>1. <<>> \in Seq(AllBlocks) /\ Len(<<>>) \in Nat
    OBVIOUS
  <2>2. toAdd \in Seq(AllBlocks)
    BY <1>1, <1>3, <2>1, Zenon
  <2> QED
    BY <1>2, <2>1, <2>2 DEF TableTypes
<1>5. AllOptions = OptionsOf(blocks)
  BY Zenon DEF AllOptions, OptionsOf
<1>6. EnoughCounted
  BY <1>2, <1>5, NoOptions DEF EnoughCounted
<1>7. RoomForOptions
  BY <1>2 DEF RoomForOptions
<1> QED
  BY <1>4, <1>6, <1>7 DEF RoomInv

LEMMA AddRoomInv ==
    ASSUME RoomInv, mconf_add
    PROVE  RoomInv'
<1>1. PICK b \in AllBlocks : b = Head(toAdd) /\ Tail(toAdd) \in Seq(AllBlocks)
  BY HeadTailProperties DEF RoomInv, TableTypes, mconf_add
<1>2. /\ short_len' = short_len + AllChars(Counted(b))
      /\ long_count' = long_count + Len(WithLong(Counted(b)))
      /\ blocks' = IF FirstConflict(b) = 0 THEN Append(blocks, b) ELSE blocks
      /\ toAdd' = Tail(toAdd) /\ written' = written /\ opt_long' = opt_long
  BY <1>1 DEF mconf_add, tried
<1>3. PICK os \in Seq(Options) : os = OptionsOf(blocks)
  BY <1>1, OptionsOfAppend DEF RoomInv, TableTypes
<1>4. /\ Letters(Joined(os, Counted(b))) = Letters(os) + AllChars(Counted(b))
      /\ Len(WithLong(Joined(os, Counted(b)))) = Len(WithLong(os)) + Len(WithLong(Counted(b)))
      /\ Letters(os) \in Nat /\ AllChars(Counted(b)) \in Nat
      /\ Len(WithLong(os)) \in Nat /\ Len(WithLong(Counted(b))) \in Nat
  BY CountedType, CountsAdd
<1>5. AllOptions = os /\ AllOptions' = OptionsOf(blocks')
  BY <1>3, Zenon DEF AllOptions, OptionsOf
<1>6. Letters(os) <= short_len /\ Len(WithLong(os)) <= long_count /\ short_len \in Nat /\ long_count \in Nat
  BY <1>5 DEF RoomInv, EnoughCounted, TableTypes
<1>7. PICK c \in Nat, d \in Nat, x \in Nat, y \in Nat :
          /\ c = AllChars(Counted(b)) /\ d = Len(WithLong(Counted(b)))
          /\ x = Letters(os) /\ y = Len(WithLong(os))
  BY <1>4, Zenon
<1>8. TableTypes'
  <2>1. short_len' \in Nat /\ long_count' \in Nat
    BY <1>2, <1>6, <1>7, SMTT(60)
  <2>2. blocks' \in Seq(AllBlocks)
    BY <1>2, AppendProperties DEF RoomInv, TableTypes
  <2> QED
    BY <1>1, <1>2, <2>1, <2>2 DEF RoomInv, TableTypes
<1>9. EnoughCounted'
  <2>1. CASE FirstConflict(b) = 0
    <3>1. AllOptions' = Joined(os, Counted(b))
      <4>1. OptionsOf(Append(blocks, b)) = Joined(os, b.opts)
        BY <1>3, OptionsOfAppend DEF RoomInv, TableTypes
      <4> QED
        BY <1>2, <1>5, <2>1, <4>1 DEF Counted
    <3>2. Letters(AllOptions') = x + c /\ Len(WithLong(AllOptions')) = y + d
      BY <1>4, <1>7, <3>1, Zenon
    <3>3. x + c <= short_len' /\ y + d <= long_count'
      BY <1>2, <1>6, <1>7
    <3> QED
      BY <3>2, <3>3, Zenon DEF EnoughCounted, Letters, WithLong, Total
  <2>2. CASE FirstConflict(b) # 0
    <3>1. AllOptions' = os
      BY <1>2, <1>3, <1>5, <2>2
    <3>2. x <= short_len' /\ y <= long_count'
      BY <1>2, <1>6, <1>7
    <3> QED
      BY <1>7, <3>1, <3>2, Zenon DEF EnoughCounted
  <2> QED
    BY <2>1, <2>2
<1>10. RoomForOptions'
  <2>1. PICK w \in Nat, l \in Nat : w = written /\ l = Len(opt_long)
    BY DEF RoomInv, TableTypes
  <2>2. w <= short_len + 1 + 2 /\ l + 1 <= long_count + 1
    BY <2>1 DEF RoomInv, RoomForOptions
  <2>3. w <= short_len' + 1 + 2 /\ l + 1 <= long_count' + 1
    BY <1>2, <1>6, <1>7, <2>2, SMTT(60)
  <2> QED
    BY <1>2, <2>1, <2>3, Zenon DEF RoomForOptions
<1> QED
  BY <1>8, <1>9, <1>10 DEF RoomInv

LEMMA PrepareRoomInv ==
    ASSUME RoomInv, Prepare, UNCHANGED table
    PROVE  RoomInv'
<1>1. /\ UNCHANGED toAdd /\ UNCHANGED blocks /\ UNCHANGED short_len /\ UNCHANGED long_count
  BY DEF table
<1>2. AllOptions' = AllOptions /\ AllOptions = OptionsOf(blocks)
  BY <1>1, Zenon DEF AllOptions, OptionsOf
<1>3. PICK os \in Seq(Options) : os = AllOptions
  BY <1>2, EntriesTypes DEF RoomInv, TableTypes
<1>4. Letters(os) \in Nat /\ WithLong(os) \in Seq(Options) /\ Len(WithLong(os)) \in Nat
  BY CountsAdd, WithLongCounts
<1>5. PICK x \in Nat, long \in Seq(Options) : x = Letters(os) /\ long = WithLong(os)
  BY <1>4
<1>6. written' = 2 + x + 1 /\ Len(opt_long') = Len(long) /\ Len(long) \in Nat
  <2>1. written' = 2 + x + 1
    BY <1>3, <1>5 DEF Prepare
  <2>2. opt_long' = [i \in DOMAIN long |->
                       [name |-> long[i].long, args |-> long[i].args, val |-> opt_idx[long[i]]]]
    BY <1>3, <1>5, Zenon DEF Prepare
  <2>3. DOMAIN opt_long' = 1 .. Len(long) /\ Len(long) \in Nat
    BY <2>2, LenProperties
  <2>4. Len(opt_long') = Len(long)
    BY <2>2, <2>3
  <2> QED
    BY <2>1, <2>3, <2>4
<1>7. x <= short_len /\ Len(long) <= long_count /\ short_len \in Nat /\ long_count \in Nat
  BY <1>3, <1>5, Zenon DEF RoomInv, EnoughCounted, TableTypes
<1>8. TableTypes'
  BY <1>1, <1>6 DEF RoomInv, TableTypes
<1>9. EnoughCounted'
  BY <1>1, <1>2, Zenon DEF RoomInv, EnoughCounted
<1>10. RoomForOptions'
  BY <1>1, <1>6, <1>7 DEF RoomForOptions
<1> QED
  BY <1>8, <1>9, <1>10 DEF RoomInv

LEMMA OthersRoomInv ==
    ASSUME RoomInv, UNCHANGED table, UNCHANGED tried
    PROVE  RoomInv'
<1>1. /\ UNCHANGED toAdd /\ UNCHANGED blocks /\ UNCHANGED short_len /\ UNCHANGED long_count
      /\ UNCHANGED written /\ UNCHANGED opt_long
  BY DEF table, tried
<1>2. AllOptions' = AllOptions
  BY <1>1, Zenon DEF AllOptions
<1>3. TableTypes'
  BY <1>1, Zenon DEF RoomInv, TableTypes
<1>4. EnoughCounted'
  BY <1>1, <1>2, Zenon DEF RoomInv, EnoughCounted
<1>5. RoomForOptions'
  BY <1>1, Zenon DEF RoomInv, RoomForOptions
<1> QED
  BY <1>3, <1>4, <1>5 DEF RoomInv

LEMMA SpecRoomInv == Spec => []RoomInv
<1>1. Init => RoomInv
  BY InitRoomInv DEF Init
<1>2. RoomInv /\ [Next]_vars => RoomInv'
  <2> SUFFICES ASSUME RoomInv, [Next]_vars PROVE RoomInv'
    OBVIOUS
  <2>1. ConfigNext \/ UNCHANGED confVars
    BY DEF Next, vars
  <2>2. CASE mconf_add
    BY <2>2, AddRoomInv
  <2>3. CASE mconf_parse
    <3>1. UNCHANGED table /\ (Prepare \/ UNCHANGED tried)
      BY <2>3 DEF mconf_parse, tried
    <3> QED
      BY <3>1, PrepareRoomInv, OthersRoomInv
  <2>4. CASE EndOfFile
    <3>1. UNCHANGED table /\ (Prepare \/ UNCHANGED tried)
      BY <2>4 DEF EndOfFile, tried
    <3> QED
      BY <3>1, PrepareRoomInv, OthersRoomInv
  <2>5. CASE ReadLine \/ SkipWord \/ OptionItem \/ EndOfItems
    BY <2>5, OthersRoomInv DEF ReadLine, SkipWord, OptionItem, EndOfItems
  <2>6. CASE UNCHANGED confVars
    BY <2>6, OthersRoomInv DEF confVars
  <2> QED
    BY <2>1, <2>2, <2>3, <2>4, <2>5, <2>6 DEF ConfigNext
<1> QED
  BY <1>1, <1>2, PTL DEF Spec

\* Whatever blocks a program adds, and whichever of them are refused half-way:
\* the letters and the long names that mconf_parse_cmdline writes fit into the
\* memory it asked for (opt_short, opt_long).
THEOREM SpecRoomForOptions == Spec => []RoomForOptions
<1>1. RoomInv => RoomForOptions
  BY DEF RoomInv
<1> QED
  BY <1>1, SpecRoomInv, PTL
-----------------------------------------------------------------------------
(* The lines of the file. *)

\* SectionAt, WrongLine and what FirstError expects, of any lines and options.
SectionIn(ls, i) ==
    LET heads == {j \in 1 .. i : ls[j].is = "section"}
    IN  IF heads = {} THEN "" ELSE ls[Max(heads)].name
WrongIn(ls, added, i) ==
    \/ ls[i] = Error
    \/ ls[i].is = "pair"
       /\ ~\E e \in added : /\ e.opt.conf = ls[i].name /\ e.section = SectionIn(ls, i)
                            /\ Accepts(e.opt, ls[i].value)
Wrong(ls, added) == {i \in DOMAIN ls : WrongIn(ls, added, i)}
FirstWrong(ls, added) == IF Wrong(ls, added) = {} THEN 0 ELSE Min(Wrong(ls, added))

LEMMA MaxFacts ==
    ASSUME NEW I, NEW n \in Nat, I \subseteq 1 .. n, I # {}
    PROVE  Max(I) \in I /\ \A y \in I : y <= Max(I)
<1>1. I \subseteq Nat /\ \A y \in I : y <= n
  OBVIOUS
<1>2. \E x \in I : \A y \in I : y <= x
  BY <1>1, NatMax
<1>3. \E x \in I : \A y \in I : x >= y
  BY <1>1, <1>2
<1>4. Max(I) \in I /\ \A y \in I : Max(I) >= y
  BY <1>3, Zenon DEF Max
<1> QED
  BY <1>1, <1>4

\* The greatest of these places, after one place more.
LEMMA MaxNext ==
    ASSUME NEW n \in Nat, NEW I, I \subseteq 1 .. n
    PROVE  Max(I \cup {n + 1}) = n + 1
<1>1. PICK J : J = I \cup {n + 1}
  OBVIOUS
<1>2. \A y \in 1 .. n : y \in 1 .. n + 1 /\ y <= n
  OBVIOUS
<1>3. J \subseteq 1 .. n + 1 /\ J # {} /\ n + 1 \in J /\ n + 1 \in Nat
  <2>1. n + 1 \in 1 .. n + 1 /\ n + 1 \in Nat
    OBVIOUS
  <2> QED
    BY <1>1, <1>2, <2>1, Zenon
<1>4. PICK m \in 1 .. n + 1 : m = Max(J) /\ n + 1 <= m
  BY <1>3, MaxFacts, Zenon
<1>5. m = n + 1
  BY <1>4
<1> QED
  BY <1>1, <1>4, <1>5

\* A line further on does not change the section of an earlier one.
LEMMA SectionStays ==
    ASSUME NEW n \in Nat, NEW ls, NEW ms, \A j \in 1 .. n : ms[j] = ls[j], NEW i \in 0 .. n
    PROVE  SectionIn(ms, i) = SectionIn(ls, i)
<1> DEFINE H == {j \in 1 .. i : ls[j].is = "section"}
           G == {j \in 1 .. i : ms[j].is = "section"}
<1>1. \A j \in 1 .. i : j \in 1 .. n
  OBVIOUS
<1>2. H = G /\ H \subseteq 1 .. i /\ i \in Nat
  BY <1>1
<1>3. /\ SectionIn(ls, i) = IF H = {} THEN "" ELSE ls[Max(H)].name
      /\ SectionIn(ms, i) = IF G = {} THEN "" ELSE ms[Max(G)].name
  BY Zenon DEF SectionIn
<1> HIDE DEF H, G
<1>4. H # {} => Max(H) \in 1 .. n
  BY <1>1, <1>2, MaxFacts
<1>5. H # {} => ms[Max(H)] = ls[Max(H)]
  BY <1>4
<1>6. CASE H = {}
  BY <1>2, <1>3, <1>6
<1>7. CASE H # {}
  BY <1>2, <1>3, <1>5, <1>7
<1> QED
  BY <1>6, <1>7

\* The section after one line more.
LEMMA SectionNext ==
    ASSUME NEW n \in Nat, NEW ls, NEW ms, \A j \in 1 .. n : ms[j] = ls[j]
    PROVE  SectionIn(ms, n + 1) = IF ms[n + 1].is = "section" THEN ms[n + 1].name ELSE SectionIn(ls, n)
<1> DEFINE G == {j \in 1 .. n + 1 : ms[j].is = "section"}
           H == {j \in 1 .. n : ms[j].is = "section"}
<1>1. /\ SectionIn(ms, n + 1) = IF G = {} THEN "" ELSE ms[Max(G)].name
      /\ SectionIn(ms, n) = IF H = {} THEN "" ELSE ms[Max(H)].name
  BY Zenon DEF SectionIn
<1>2. SectionIn(ms, n) = SectionIn(ls, n)
  <2>1. n \in 0 .. n
    OBVIOUS
  <2> QED
    BY <2>1, SectionStays
<1>3. CASE ms[n + 1].is = "section"
  <2>1. n + 1 \in G /\ G \subseteq 1 .. n + 1 /\ n + 1 \in Nat
    BY <1>3
  <2> HIDE DEF G
  <2>2. Max(G) \in G /\ n + 1 <= Max(G)
    BY <2>1, MaxFacts
  <2>3. Max(G) = n + 1 /\ G # {}
    <3>1. PICK x \in 1 .. n + 1 : x = Max(G) /\ n + 1 <= x
      BY <2>1, <2>2, Zenon
    <3>2. x = n + 1
      BY <3>1
    <3> QED
      BY <2>1, <3>1, <3>2
  <2> QED
    BY <1>1, <1>3, <2>3
<1>4. CASE ms[n + 1].is # "section"
  <2>1. G = H
    <3>1. \A j \in 1 .. n + 1 : j \in 1 .. n \/ j = n + 1
      OBVIOUS
    <3>2. \A j \in 1 .. n : j \in 1 .. n + 1
      OBVIOUS
    <3> QED
      BY <1>4, <3>1, <3>2, Zenon
  <2> QED
    BY <1>1, <1>2, <1>4, <2>1, Zenon
<1> QED
  BY <1>3, <1>4

\* The first wrong line, after one line more.
LEMMA FirstWrongNext ==
    ASSUME NEW added, NEW U, NEW ls \in Seq(U), NEW l \in U
    PROVE  /\ FirstWrong(ls, added) \in Nat
           /\ FirstWrong(Append(ls, l), added) =
                 IF FirstWrong(ls, added) # 0 THEN FirstWrong(ls, added)
                 ELSE IF WrongIn(Append(ls, l), added, Len(ls) + 1) THEN Len(ls) + 1 ELSE 0
<1>1. PICK n \in Nat : n = Len(ls) /\ DOMAIN ls = 1 .. n
  BY LenProperties
<1>2. PICK ms \in Seq(U) : ms = Append(ls, l)
  BY AppendProperties
<1>3. Len(ms) = n + 1 /\ DOMAIN ms = 1 .. n + 1 /\ ms[n + 1] = l /\ \A j \in 1 .. n : ms[j] = ls[j]
  <2>1. Len(ms) = n + 1 /\ ms[n + 1] = l /\ \A j \in 1 .. n : ms[j] = ls[j]
    BY <1>1, <1>2, AppendProperties
  <2> QED
    BY <2>1, LenProperties
<1>4. ASSUME NEW i \in 1 .. n PROVE WrongIn(ms, added, i) <=> WrongIn(ls, added, i)
  <2>1. i \in 0 .. n
    OBVIOUS
  <2>2. SectionIn(ms, i) = SectionIn(ls, i) /\ ms[i] = ls[i]
    BY <1>3, <2>1, SectionStays
  <2> QED
    BY <2>2, Zenon DEF WrongIn
<1>5. PICK W, X : W = Wrong(ls, added) /\ X = Wrong(ms, added)
  OBVIOUS
<1>6. W \subseteq 1 .. n /\ W \subseteq Nat
  BY <1>1, <1>5 DEF Wrong
<1>7. X = W \cup {i \in {n + 1} : WrongIn(ms, added, i)}
  <2>1. \A j \in 1 .. n + 1 : j \in 1 .. n \/ j = n + 1
    OBVIOUS
  <2>2. n + 1 \in 1 .. n + 1 /\ \A j \in 1 .. n : j \in 1 .. n + 1
    OBVIOUS
  <2>3. \A i : i \in X <=> i \in 1 .. n + 1 /\ WrongIn(ms, added, i)
    BY <1>3, <1>5, Zenon DEF Wrong
  <2>4. \A i : i \in W <=> i \in 1 .. n /\ WrongIn(ls, added, i)
    BY <1>1, <1>5, Zenon DEF Wrong
  <2> QED
    BY <1>4, <2>1, <2>2, <2>3, <2>4, Zenon
<1>8. /\ FirstWrong(ls, added) = IF W = {} THEN 0 ELSE Min(W)
      /\ FirstWrong(ms, added) = IF X = {} THEN 0 ELSE Min(X)
  BY <1>5, Zenon DEF FirstWrong
<1>9. CASE W = {}
  <2>1. FirstWrong(ls, added) = 0
    BY <1>8, <1>9
  <2>2. CASE WrongIn(ms, added, n + 1)
    <3>1. X = {n + 1}
      BY <1>7, <1>9, <2>2
    <3>2. Min({n + 1}) = n + 1
      <4>1. {n + 1} \subseteq Nat /\ {n + 1} # {}
        OBVIOUS
      <4>2. Min({n + 1}) \in {n + 1}
        BY <4>1, MinFacts
      <4> QED
        BY <4>2
    <3>3. FirstWrong(ms, added) = n + 1
      BY <1>8, <3>1, <3>2
    <3> QED
      BY <1>1, <1>2, <2>1, <2>2, <3>3
  <2>3. CASE ~WrongIn(ms, added, n + 1)
    <3>1. X = {}
      BY <1>7, <1>9, <2>3
    <3> QED
      BY <1>1, <1>2, <1>8, <2>1, <2>3, <3>1
  <2> QED
    BY <2>2, <2>3
<1>10. CASE W # {}
  <2>1. PICK w \in W : w = Min(W) /\ \A y \in W : w <= y
    BY <1>6, <1>10, MinFacts, Zenon
  <2>2. w \in Nat /\ w # 0 /\ w <= n
    BY <1>6
  <2>3. X \subseteq Nat /\ X # {} /\ w \in X
    <3>1. w \in X
      BY <1>7, Zenon
    <3>2. n + 1 \in Nat
      OBVIOUS
    <3>3. \A y \in X : y \in Nat
      BY <1>6, <1>7, <3>2, Zenon
    <3> QED
      BY <3>1, <3>3, Zenon
  <2>4. PICK x \in X : x = Min(X) /\ \A y \in X : x <= y
    BY <2>3, MinFacts, Zenon
  <2>5. x = w
    <3>1. x \in Nat /\ x <= w
      BY <2>3, <2>4
    <3>2. x \in W
      BY <1>7, <2>2, <3>1
    <3> QED
      BY <2>1, <2>2, <3>1, <3>2
  <2> QED
    BY <1>2, <1>8, <1>10, <2>1, <2>2, <2>3, <2>4, <2>5
<1> QED
  BY <1>9, <1>10

\* An option of a section is the only one with its name in the file.
OneOption ==
    \A e, f \in Added :
        e.section = f.section /\ e.opt.conf = f.opt.conf /\ e.opt.conf # None => e.opt = f.opt

\* Lines are read once all blocks are added and the file is open.
FileInv ==
    /\ lines \in Seq(Lines)
    /\ OneOption
    /\ section = SectionIn(lines, Len(lines))
    /\ stage = "add" => lines = <<>> /\ error = 0
    /\ stage = "file" => error # -1
    /\ error # -1 => error = FirstWrong(lines, Added)

LEMMA AddedAppend ==
    ASSUME NEW bs \in Seq(AllBlocks), NEW b \in AllBlocks
    PROVE  Range(Entries(Append(bs, b))) = Range(Entries(bs)) \cup Range(EntriesOf(b))
<1>1. PICK x \in Seq(Entry), y \in Seq(Entry) : x = Entries(bs) /\ y = EntriesOf(b)
  BY EntriesAppend, BlockTypes
<1>2. Entries(Append(bs, b)) = x \o y
  BY <1>1, EntriesAppend DEF Joined
<1>3. Range(x \o y) = Range(x) \cup Range(y)
  BY RangeConcatenation
<1> QED
  BY <1>1, <1>2, <1>3, Zenon

LEMMA AddOneOption ==
    ASSUME TableTypes, OneOption, mconf_add
    PROVE  OneOption'
<1>1. PICK b \in AllBlocks : b = Head(toAdd)
  BY HeadTailProperties DEF TableTypes, mconf_add
<1>2. blocks' = IF FirstConflict(b) = 0 THEN Append(blocks, b) ELSE blocks
  BY <1>1 DEF mconf_add
<1>3. CASE FirstConflict(b) # 0
  <2>1. Added' = Added
    BY <1>2, <1>3 DEF Added
  <2> QED
    BY <2>1, Zenon DEF OneOption
<1>4. CASE FirstConflict(b) = 0
  <2>1. Added' = Added \cup Range(EntriesOf(b))
    BY <1>2, <1>4, AddedAppend DEF TableTypes, Added
  <2>2. PICK n \in Nat : n = Len(b.opts) /\ DOMAIN b.opts = 1 .. n
    BY BlockTypes, LenProperties
  <2>3. ASSUME NEW e \in Range(EntriesOf(b))
        PROVE  \E i \in 1 .. n : e.section = b.section /\ e.opt = b.opts[i]
    <3>1. DOMAIN EntriesOf(b) = 1 .. n
      BY <2>2, BlockTypes, LenProperties
    <3>2. PICK i \in 1 .. n : e = EntriesOf(b)[i]
      BY <3>1, Zenon DEF Range
    <3> QED
      BY <2>2, <3>2, BlockTypes
  <2>4. ASSUME NEW e \in Range(EntriesOf(b)), NEW f \in Added,
               e.section = f.section, e.opt.conf = f.opt.conf, e.opt.conf # None
        PROVE  FALSE
    <3>1. PICK i \in 1 .. n : e.section = b.section /\ e.opt = b.opts[i]
      BY <2>3
    <3>2. ~Conflict(b.section, b.opts[i])
      BY <1>4, <2>2, ConflictPlace
    <3>3. Conflict(b.section, b.opts[i])
      BY <2>4, <3>1, Zenon DEF Conflict
    <3> QED
      BY <3>2, <3>3
  <2>5. ASSUME NEW e \in Range(EntriesOf(b)), NEW f \in Range(EntriesOf(b)),
               e.opt.conf = f.opt.conf, e.opt.conf # None
        PROVE  e.opt = f.opt
    <3>1. PICK i \in 1 .. n : e.opt = b.opts[i]
      BY <2>3
    <3>2. PICK j \in 1 .. n : f.opt = b.opts[j]
      BY <2>3
    <3>3. PICK t \in Tables : b \in Range(t)
      BY DEF AllBlocks
    <3>4. i = j
      BY <2>2, <2>5, <3>1, <3>2, <3>3, NamesAssumption, ZenonT(60)
    <3> QED
      BY <3>1, <3>2, <3>4
  <2> SUFFICES ASSUME NEW e \in Added', NEW f \in Added',
                      e.section = f.section, e.opt.conf = f.opt.conf, e.opt.conf # None
               PROVE  e.opt = f.opt
    BY Zenon DEF OneOption
  <2>6. CASE e \in Added /\ f \in Added
    BY <2>6, Zenon DEF OneOption
  <2>7. CASE e \in Range(EntriesOf(b)) /\ f \in Added
    BY <2>4, <2>7
  <2>8. CASE e \in Added /\ f \in Range(EntriesOf(b))
    BY <2>4, <2>8
  <2>9. CASE e \in Range(EntriesOf(b)) /\ f \in Range(EntriesOf(b))
    BY <2>5, <2>9
  <2> QED
    BY <2>1, <2>6, <2>7, <2>8, <2>9
<1> QED
  BY <1>3, <1>4

\* ini_handler finds the option that the line is for, if there is one.
LEMMA HandledIs ==
    ASSUME TableTypes, OneOption, NEW sec, NEW l, l.name # None
    PROVE  \/ Handled(sec, l) = {} /\ \A e \in Added : ~(e.section = sec /\ e.opt.conf = l.name)
           \/ \E d \in Added :
                 /\ Handled(sec, l) = {d.opt} /\ d.section = sec /\ d.opt.conf = l.name
                 /\ \A e \in Added : e.section = sec /\ e.opt.conf = l.name => e.opt = d.opt
<1> DEFINE I == {i \in 1 .. Len(Entries(blocks)) :
                    Entries(blocks)[i].section = sec /\ Entries(blocks)[i].opt.conf = l.name}
           Hit == IF I # {} THEN Min(I) ELSE 0
<1>1. PICK n \in Nat : n = Len(Entries(blocks)) /\ DOMAIN Entries(blocks) = 1 .. n
  BY EntriesTypes, LenProperties DEF TableTypes
<1>2. Handled(sec, l) = IF Hit = 0 THEN {} ELSE {Entries(blocks)[Hit].opt}
  BY Zenon DEF Handled, SelectInSeq
<1>3. \A e : e \in Added <=> \E i \in 1 .. n : e = Entries(blocks)[i]
  BY <1>1, Zenon DEF Added, Range
<1>4. CASE I = {}
  <2>1. Handled(sec, l) = {}
    BY <1>2, <1>4
  <2>2. ASSUME NEW e \in Added, e.section = sec, e.opt.conf = l.name PROVE FALSE
    <3>1. PICK i \in 1 .. n : e = Entries(blocks)[i]
      BY <1>3, Zenon
    <3>2. i \in I
      BY <1>1, <2>2, <3>1, Zenon
    <3> QED
      BY <1>4, <3>2
  <2> QED
    BY <2>1, <2>2, Zenon
<1>5. CASE I # {}
  <2>1. I \subseteq 1 .. n /\ I \subseteq Nat
    BY <1>1
  <2>2. PICK h \in I : h = Hit /\ h # 0
    <3> HIDE DEF I
    <3>1. Min(I) \in I
      BY <1>5, <2>1, MinFacts
    <3>2. Min(I) # 0
      BY <2>1, <3>1
    <3> QED
      BY <1>5, <3>1, <3>2, Zenon
  <2>3. PICK d \in Added : d = Entries(blocks)[h] /\ d.section = sec /\ d.opt.conf = l.name
    <3>1. h \in 1 .. n /\ Entries(blocks)[h].section = sec /\ Entries(blocks)[h].opt.conf = l.name
      BY <2>1, Zenon
    <3> QED
      BY <1>3, <3>1, Zenon
  <2>4. Handled(sec, l) = {d.opt}
    BY <1>2, <2>2, <2>3, Zenon
  <2>5. \A e \in Added : e.section = sec /\ e.opt.conf = l.name => e.opt = d.opt
    BY <2>3, Zenon DEF OneOption
  <2> QED
    BY <2>3, <2>4, <2>5, Zenon
<1> QED
  BY <1>4, <1>5

\* A setter takes the value if and only if that of an option of that name does.
LEMMA HandledFacts ==
    ASSUME TableTypes, OneOption, NEW sec, NEW l, l.name # None
    PROVE  (\E o \in Handled(sec, l) : Accepts(o, l.value))
           <=> \E e \in Added : /\ e.opt.conf = l.name /\ e.section = sec
                                /\ Accepts(e.opt, l.value)
<1>1. CASE Handled(sec, l) = {} /\ \A e \in Added : ~(e.section = sec /\ e.opt.conf = l.name)
  BY <1>1, Zenon
<1>2. CASE \E d \in Added :
              /\ Handled(sec, l) = {d.opt} /\ d.section = sec /\ d.opt.conf = l.name
              /\ \A e \in Added : e.section = sec /\ e.opt.conf = l.name => e.opt = d.opt
  <2>1. PICK d \in Added :
            /\ Handled(sec, l) = {d.opt} /\ d.section = sec /\ d.opt.conf = l.name
            /\ \A e \in Added : e.section = sec /\ e.opt.conf = l.name => e.opt = d.opt
    BY <1>2
  <2> QED
    BY <2>1, Zenon
<1> QED
  BY <1>1, <1>2, HandledIs

\* A step that neither reads a line nor adds a block.
LEMMA OthersFileInv ==
    ASSUME FileInv, UNCHANGED blocks, UNCHANGED lines, UNCHANGED section,
           error' \in {error, -1}, stage' = "add" => stage = "add" /\ error' = error,
           stage' = "file" => stage \in {"add", "file"} /\ error' = error
    PROVE  FileInv'
<1>1. Added' = Added
  BY Zenon DEF Added
<1>2. OneOption'
  BY <1>1, Zenon DEF FileInv, OneOption
<1>3. section' = SectionIn(lines', Len(lines')) /\ lines' \in Seq(Lines)
  BY Zenon DEF FileInv
<1>4. stage' = "add" => lines' = <<>> /\ error' = 0
  BY Zenon DEF FileInv
<1>5. stage' = "file" => error' # -1
  <2>1. stage = "add" => error # -1
    BY DEF FileInv
  <2> QED
    BY <2>1 DEF FileInv
<1>6. error' # -1 => error' = FirstWrong(lines', Added')
  <2> SUFFICES ASSUME error' # -1 PROVE error' = FirstWrong(lines', Added')
    OBVIOUS
  <2>1. error' = error
    OBVIOUS
  <2> QED
    BY <1>1, <2>1, Zenon DEF FileInv
<1> QED
  BY <1>2, <1>3, <1>4, <1>5, <1>6, Zenon DEF FileInv

LEMMA AddFileInv ==
    ASSUME TableTypes, FileInv, mconf_add
    PROVE  FileInv'
<1>1. /\ UNCHANGED lines /\ UNCHANGED section /\ UNCHANGED error /\ UNCHANGED stage /\ stage = "add"
  BY DEF mconf_add, read
<1>2. lines = <<>> /\ error = 0
  BY <1>1 DEF FileInv
<1>3. OneOption'
  BY AddOneOption DEF FileInv
<1>4. FirstWrong(<<>>, Added') = 0
  <2>1. Wrong(<<>>, Added') = {}
    BY DEF Wrong
  <2> QED
    BY <2>1, Zenon DEF FirstWrong
<1> QED
  BY <1>1, <1>2, <1>3, <1>4 DEF FileInv

LEMMA LineFileInv ==
    ASSUME TableTypes, FileInv, ReadLine
    PROVE  FileInv'
<1>1. /\ UNCHANGED stage /\ stage = "file" /\ UNCHANGED blocks
      /\ error # -1 /\ lines \in Seq(Lines) /\ OneOption
      /\ error = FirstWrong(lines, Added) /\ section = SectionIn(lines, Len(lines))
  BY DEF ReadLine, table, FileInv
<1>2. PICK l \in Lines :
          /\ lines' = Append(lines, l)
          /\ section' = IF l.is = "section" THEN l.name ELSE section
          /\ IF l.is = "pair"
             THEN error' = IF \E o \in Handled(section, l) : Accepts(o, l.value)
                           THEN error ELSE OnError
             ELSE error' = IF l = Error THEN OnError ELSE error
  BY DEF ReadLine
<1>3. PICK n \in Nat : n = Len(lines)
  BY <1>1, LenProperties
<1>4. /\ lines' \in Seq(Lines) /\ Len(lines') = n + 1 /\ lines'[n + 1] = l
      /\ \A j \in 1 .. n : lines'[j] = lines[j]
  BY <1>1, <1>2, <1>3, AppendProperties
<1>5. section' = SectionIn(lines', n + 1)
  <2>1. SectionIn(lines', n + 1) = IF l.is = "section" THEN l.name ELSE SectionIn(lines, n)
    <3>1. PICK ms, ls : ms = lines' /\ ls = lines
      OBVIOUS
    <3>2. (\A j \in 1 .. n : ms[j] = ls[j]) /\ ms[n + 1] = l
      BY <1>4, <3>1, Zenon
    <3>3. SectionIn(ms, n + 1) = IF ms[n + 1].is = "section" THEN ms[n + 1].name ELSE SectionIn(ls, n)
      BY <3>2, SectionNext
    <3> QED
      BY <3>1, <3>2, <3>3, Zenon
  <2> QED
    BY <1>1, <1>2, <1>3, <2>1, Zenon
<1>6. Added' = Added
  BY <1>1, Zenon DEF Added
<1>7. OneOption'
  BY <1>1, <1>6, Zenon DEF OneOption
<1>8. PICK f \in Nat : /\ f = FirstWrong(lines, Added)
                       /\ FirstWrong(lines', Added) =
                            IF f # 0 THEN f ELSE IF WrongIn(lines', Added, n + 1) THEN n + 1 ELSE 0
  BY <1>1, <1>2, <1>3, FirstWrongNext, Zenon
<1>9. error' = IF WrongIn(lines', Added, n + 1) THEN OnError ELSE error
  <2>1. CASE l.is = "pair"
    <3>1. l.name # None /\ l # Error /\ section' = section
      BY <1>2, <2>1, NamesAssumption DEF Error
    <3>2. WrongIn(lines', Added, n + 1)
          <=> ~\E e \in Added : /\ e.opt.conf = l.name /\ e.section = section
                                /\ Accepts(e.opt, l.value)
      BY <1>4, <1>5, <2>1, <3>1, Zenon DEF WrongIn
    <3>3. (\E o \in Handled(section, l) : Accepts(o, l.value))
          <=> \E e \in Added : /\ e.opt.conf = l.name /\ e.section = section
                               /\ Accepts(e.opt, l.value)
      BY <1>1, <3>1, HandledFacts
    <3> QED
      BY <1>2, <2>1, <3>2, <3>3, Zenon
  <2>2. CASE l.is # "pair"
    <3>1. WrongIn(lines', Added, n + 1) <=> l = Error
      BY <1>4, <2>2, Zenon DEF WrongIn
    <3> QED
      BY <1>2, <2>2, <3>1, Zenon
  <2> QED
    BY <2>1, <2>2
<1>10. OnError = IF error = 0 THEN n + 1 ELSE error
  BY <1>3 DEF OnError
<1>11. error = f
  BY <1>1, <1>8
<1>12. error' = FirstWrong(lines', Added')
  <2>1. CASE WrongIn(lines', Added, n + 1)
    BY <1>6, <1>8, <1>9, <1>10, <1>11, <2>1, Zenon
  <2>2. CASE ~WrongIn(lines', Added, n + 1)
    BY <1>6, <1>8, <1>9, <1>11, <2>2, Zenon
  <2> QED
    BY <2>1, <2>2
<1>13. error' # -1
  <2>1. error' \in {f, n + 1}
    BY <1>9, <1>10, <1>11, Zenon
  <2> QED
    BY <2>1
<1> QED
  BY <1>1, <1>4, <1>5, <1>7, <1>12, <1>13 DEF FileInv

LEMMA InitFileInv == ConfigIdle \/ ConfigInit => FileInv
<1> SUFFICES ASSUME ConfigStart PROVE FileInv
  BY DEF ConfigIdle, ConfigInit
<1>1. blocks = <<>> /\ lines = <<>> /\ section = "" /\ error = 0
  BY DEF ConfigStart
<1>2. <<>> \in Seq(Lines) /\ Len(<<>>) = 0
  OBVIOUS
<1>3. SectionIn(<<>>, 0) = ""
  <2>1. PICK x : x = <<>>
    OBVIOUS
  <2>2. {j \in 1 .. 0 : x[j].is = "section"} = {}
    OBVIOUS
  <2> QED
    BY <2>1, <2>2, Zenon DEF SectionIn
<1>4. Added = {}
  <2>1. Entries(blocks) = <<>>
    BY <1>1, NoOptions
  <2> QED
    BY <2>1 DEF Added, Range
<1>5. FirstWrong(<<>>, Added) = 0
  <2>1. Wrong(<<>>, Added) = {}
    BY DEF Wrong
  <2> QED
    BY <2>1, Zenon DEF FirstWrong
<1>6. OneOption
  BY <1>4, Zenon DEF OneOption
<1>7. lines \in Seq(Lines) /\ section = SectionIn(lines, Len(lines))
  BY <1>1, <1>2, <1>3, Zenon
<1>8. error = FirstWrong(lines, Added)
  BY <1>1, <1>5, Zenon
<1>9. error # -1
  <2>1. 0 # -1
    OBVIOUS
  <2> QED
    BY <1>1, <2>1, Zenon
<1> QED
  BY <1>1, <1>6, <1>7, <1>8, <1>9, Zenon DEF FileInv

LEMMA SpecFileInv == Spec => []FileInv
<1>1. Init => FileInv
  BY InitFileInv DEF Init
<1>2. RoomInv /\ FileInv /\ [Next]_vars => FileInv'
  <2> SUFFICES ASSUME RoomInv, FileInv, [Next]_vars PROVE FileInv'
    OBVIOUS
  <2>1. ConfigNext \/ UNCHANGED confVars
    BY DEF Next, vars
  <2>2. CASE mconf_add
    BY <2>2, AddFileInv DEF RoomInv
  <2>3. CASE ReadLine
    BY <2>3, LineFileInv DEF RoomInv
  <2>4. CASE mconf_parse
    <3>1. UNCHANGED blocks /\ UNCHANGED lines /\ UNCHANGED section /\ stage = "add"
      BY <2>4 DEF mconf_parse, table
    <3>2. \/ UNCHANGED error /\ stage' \in {"help", "cmdline", "file"}
          \/ error' = -1 /\ stage' = "failed"
      BY <2>4 DEF mconf_parse, Prepare
    <3> QED
      BY <3>1, <3>2, OthersFileInv
  <2>5. CASE EndOfFile
    <3>1. UNCHANGED blocks /\ UNCHANGED lines /\ UNCHANGED section /\ UNCHANGED error
      BY <2>5 DEF EndOfFile, table, read
    <3>2. stage' \in {"cmdline", "failed"}
      BY <2>5 DEF EndOfFile, Prepare
    <3> QED
      BY <3>1, <3>2, OthersFileInv
  <2>6. CASE SkipWord \/ OptionItem \/ EndOfItems
    <3>1. UNCHANGED blocks /\ UNCHANGED lines /\ UNCHANGED section /\ UNCHANGED error
      BY <2>6 DEF SkipWord, OptionItem, EndOfItems, table, read
    <3>2. stage' \in {"cmdline", "failed", "done"}
      BY <2>6 DEF SkipWord, OptionItem, EndOfItems
    <3> QED
      BY <3>1, <3>2, OthersFileInv
  <2>7. CASE UNCHANGED confVars
    <3>1. /\ UNCHANGED blocks /\ UNCHANGED lines /\ UNCHANGED section /\ UNCHANGED error
          /\ UNCHANGED stage
      BY <2>7 DEF confVars, table, read
    <3> QED
      BY <3>1, OthersFileInv
  <2> QED
    BY <2>1, <2>2, <2>3, <2>4, <2>5, <2>6, <2>7 DEF ConfigNext
<1> QED
  BY <1>1, <1>2, SpecRoomInv, PTL DEF Spec

\* Whatever the file holds, and however many of its lines are wrong: the line
\* that mconf_parse reports is the first that is none or sets no option
\* (OnError, ini_handler).
THEOREM SpecFirstError == Spec => []FirstError
<1>1. FileInv => FirstError
  BY Zenon DEF FileInv, FirstError, FirstWrong, Wrong, WrongIn, WrongLine, SectionIn, SectionAt
<1> QED
  BY <1>1, SpecFileInv, PTL
-----------------------------------------------------------------------------
(* A line of a chat. *)
LEMMA MinIs ==
    ASSUME NEW I, I \subseteq Nat, NEW x \in I, \A y \in I : x <= y
    PROVE  Min(I) = x
<1>1. PICK m \in I : m = Min(I) /\ \A y \in I : m <= y
  BY MinFacts, Zenon
<1>2. m <= x /\ x <= m /\ m \in Nat /\ x \in Nat
  BY <1>1
<1>3. m = x
  BY <1>2
<1> QED
  BY <1>1, <1>3

\* The first of these places in a text of n bytes.
LEMMA FirstOfIs ==
    ASSUME NEW U, NEW t \in Seq(U), NEW n \in Nat, n = Len(t), NEW I, I \subseteq 1 .. n,
           NEW x \in I, \A y \in I : x <= y
    PROVE  FirstOf(I, t) = x
<1>1. PICK J : J = I \cup {n + 1}
  OBVIOUS
<1>2. J \subseteq Nat /\ x \in J /\ \A y \in J : x <= y
  <2>1. x \in Nat /\ x <= n + 1 /\ n + 1 \in Nat
    OBVIOUS
  <2>2. x \in J /\ \A y \in J : y \in I \/ y = n + 1
    BY <1>1, Zenon
  <2>3. \A y \in I : y \in Nat
    OBVIOUS
  <2> QED
    BY <2>1, <2>2, <2>3, Zenon
<1>3. Min(J) = x
  BY <1>2, MinIs
<1> QED
  BY <1>1, <1>3 DEF FirstOf, End

LEMMA ChatReadAll ==
    ASSUME NEW U, NEW t \in Seq(U)
    PROVE  ChatRead(t)
<1>1. PICK n \in Nat : n = Len(t) /\ DOMAIN t = 1 .. n
  BY LenProperties
<1> SUFFICES ASSUME NEW s \in 1 .. n, NEW e \in 1 .. n, Says(t, s, e)
             PROVE  ~Unknown(t) /\ Nick(t) = s /\ NickEnd(t) = e /\ Message(t) = e + 2
  BY <1>1, Zenon DEF ChatRead
<1>2. /\ s < e /\ e + 2 <= n /\ t[e] = ":" /\ t[e + 1] = " "
      /\ \A i \in s .. e - 1 : t[i] = "x"
      /\ \/ s = 1
         \/ t[1] = "[" /\ t[s - 1] = "]" /\ \A i \in 2 .. s - 2 : t[i] # "]"
  BY <1>1 DEF Says
<1> s \in Nat /\ e \in Nat /\ 1 <= s /\ s < e /\ e + 2 <= n
  <2>1. s < e /\ e + 2 <= n
    BY <1>2, Zenon
  <2> QED
    BY ONLY <2>1, n \in Nat, s \in 1 .. n, e \in 1 .. n
<1>3. ~Unknown(t) /\ Nick(t) = s
  <2>1. CASE s = 1
    <3>1. t[1] = "x"
      <4>1. 1 \in s .. e - 1
        BY <2>1
      <4> QED
        BY <1>2, <4>1, Zenon
    <3>2. t[1] # "["
      BY <3>1
    <3> QED
      BY <2>1, <3>2 DEF Unknown, Nick
  <2>2. CASE s # 1
    <3> DEFINE I == {i \in 1 .. n : t[i] = "]"}
    <3>1. t[1] = "[" /\ t[s - 1] = "]" /\ \A i \in 2 .. s - 2 : t[i] # "]"
      BY <1>2, <2>2
    <3>2. t[1] # "]"
      BY <3>1
    <3>3. s - 1 \in I
      BY <2>2, <3>1
    <3>4. \A i \in I : s - 1 <= i
      <4> SUFFICES ASSUME NEW i \in 1 .. n, t[i] = "]", ~(s - 1 <= i) PROVE FALSE
        OBVIOUS
      <4>1. i = 1 \/ i \in 2 .. s - 2
        OBVIOUS
      <4> QED
        BY <3>1, <3>2, <4>1
    <3>5. I \subseteq 1 .. n /\ TagEnd(t) = FirstOf(I, t)
      BY <1>1 DEF TagEnd
    <3> HIDE DEF I
    <3>6. TagEnd(t) = s - 1
      BY <1>1, <3>3, <3>4, <3>5, FirstOfIs
    <3>7. Nick(t) = s
      BY <3>1, <3>6 DEF Nick
    <3>8. ~Unknown(t)
      BY <1>1, <3>6 DEF Unknown, End
    <3> QED
      BY <3>7, <3>8
  <2> QED
    BY <2>1, <2>2
<1>4. NickEnd(t) = e
  <2> DEFINE I == {i \in s .. n : t[i] \in {NUL, ":", " "}}
  <2>1. e \in I /\ I \subseteq 1 .. n
    <3>1. e \in s .. n /\ s .. n \subseteq 1 .. n
      OBVIOUS
    <3> QED
      BY <1>2, <3>1, Zenon
  <2>2. \A i \in I : e <= i
    <3> SUFFICES ASSUME NEW i \in s .. n, t[i] \in {NUL, ":", " "}, ~(e <= i) PROVE FALSE
      OBVIOUS
    <3>1. t[i] = "x"
      <4>1. i \in s .. e - 1
        BY ONLY i \in s .. n, ~(e <= i), s \in Nat, e \in Nat, n \in Nat
      <4> QED
        BY <1>2, <4>1, Zenon
    <3> QED
      BY <3>1 DEF NUL
  <2>3. NickEnd(t) = FirstOf(I, t)
    BY <1>1, <1>3 DEF NickEnd
  <2> HIDE DEF I
  <2> QED
    BY <1>1, <2>1, <2>2, <2>3, FirstOfIs
<1>5. Stop(t) = e
  <2> DEFINE I == {i \in e .. n - 1 : t[i] = ":" \/ t[i + 1] = " "} \cup {n}
  <2>1. e \in I /\ I \subseteq Nat /\ \A i \in I : e <= i
    <3>1. e \in e .. n - 1
      OBVIOUS
    <3>2. \A i \in e .. n - 1 : i \in Nat /\ e <= i
      OBVIOUS
    <3>3. n \in Nat /\ e <= n
      OBVIOUS
    <3> QED
      BY <1>2, <3>1, <3>2, <3>3, Zenon
  <2>2. Stop(t) = Min(I)
    <3>1. e # n + 1
      OBVIOUS
    <3> QED
      BY <1>1, <1>4, <3>1 DEF Stop, End
  <2> HIDE DEF I
  <2> QED
    BY <2>1, <2>2, MinIs
<1>6. Message(t) = e + 2
  <2>1. Message(t) = IF e + 2 < n + 1 THEN e + 2 ELSE 0
    BY <1>1, <1>5, Zenon DEF Message, End
  <2>2. e + 2 < n + 1
    OBVIOUS
  <2> QED
    BY <2>1, <2>2
<1> QED
  BY <1>3, <1>4, <1>6

LEMMA SpecTexts == Spec => []\E U : text \in Seq(U)
<1> DEFINE V == UNION {Pieces(k) : k \in DOMAIN MaxLen}
           Inv == text \in Seq(V)
<1>1. Init => Inv
  <2>1. Init => text = <<>>
    BY DEF Init, TextsInit, TextsIdle
  <2> HIDE DEF V
  <2>2. <<>> \in Seq(V)
    OBVIOUS
  <2> QED
    BY <2>1, <2>2
<1>2. Inv /\ [Next]_vars => Inv'
  <2> SUFFICES ASSUME Inv, [Next]_vars PROVE Inv'
    OBVIOUS
  <2>1. UNCHANGED text \/ \E p \in V : text' = Append(text, p)
    BY Zenon DEF Next, TextsNext, vars, textVars
  <2> HIDE DEF V
  <2> QED
    BY <2>1
<1>3. Inv => \E U : text \in Seq(U)
  OBVIOUS
<1> QED
  BY <1>1, <1>2, <1>3, PTL DEF Spec

\* A chat line of any length that has the form "nick: message", with or without
\* a tag, is taken apart as that by rfx_chat::process.
THEOREM SpecLineRead == Spec => []LineRead
<1>1. (\E U : text \in Seq(U)) => LineRead
  BY ChatReadAll, Zenon DEF LineRead
<1> QED
  BY <1>1, SpecTexts, PTL
-----------------------------------------------------------------------------
(* A function that is applied again and again. *)

Iterates(f, g, x, n) == f[0] = x /\ \A k \in 1 .. n : f[k] = g[f[k - 1]]

\* What it makes of x exists, however often it is applied.
LEMMA IterExists ==
    ASSUME NEW S, NEW g \in [S -> S], NEW x \in S, NEW n \in Nat
    PROVE  \E f \in [0 .. n -> S] : Iterates(f, g, x, n)
<1> DEFINE P == {m \in Nat : \E f \in [0 .. m -> S] : Iterates(f, g, x, m)}
<1>1. 0 \in P
  <2>1. [i \in 0 .. 0 |-> x] \in [0 .. 0 -> S]
    OBVIOUS
  <2>2. Iterates([i \in 0 .. 0 |-> x], g, x, 0)
    BY DEF Iterates
  <2> QED
    BY <2>1, <2>2
<1>2. ASSUME NEW m \in Nat, m \in P PROVE m + 1 \in P
  <2>1. PICK f \in [0 .. m -> S] : Iterates(f, g, x, m)
    BY <1>2
  <2>2. PICK y \in S : y = g[f[m]]
    OBVIOUS
  <2> DEFINE h == [i \in 0 .. m + 1 |-> IF i <= m THEN f[i] ELSE y]
  <2>3. h \in [0 .. m + 1 -> S]
    OBVIOUS
  <2>4. h[0] = x
    BY <2>1 DEF Iterates
  <2>5. ASSUME NEW k \in 1 .. m + 1 PROVE h[k] = g[h[k - 1]]
    <3>1. CASE k <= m
      <4>1. h[k] = f[k] /\ h[k - 1] = f[k - 1] /\ k \in 1 .. m
        BY <3>1
      <4> HIDE DEF h
      <4> QED
        BY <2>1, <4>1, Zenon DEF Iterates
    <3>2. CASE k = m + 1
      <4>1. h[k] = y /\ h[k - 1] = f[m]
        BY <3>2
      <4> HIDE DEF h
      <4> QED
        BY <2>2, <4>1, Zenon
    <3> HIDE DEF h
    <3> QED
      BY <3>1, <3>2
  <2> HIDE DEF h
  <2>6. Iterates(h, g, x, m + 1)
    BY <2>4, <2>5, Zenon DEF Iterates
  <2> QED
    BY <2>3, <2>6
<1> HIDE DEF P
<1>3. n \in P
  BY <1>1, <1>2, NatInd
<1> QED
  BY <1>3 DEF P

(* The bytes of an escaped text. *)

\* How many of the places I come before place i.
Before(I, i) == {j \in I : j < i}
Rank(I, i) == Cardinality(Before(I, i))

LEMMA RankFacts ==
    ASSUME NEW n \in Nat, NEW I, I \subseteq 1 .. n
    PROVE  /\ IsFiniteSet(I) /\ Cardinality(I) \in Nat
           /\ \A i \in Nat : Rank(I, i) \in Nat /\ Rank(I, i) <= Cardinality(I)
           /\ Rank(I, 1) = 0 /\ Rank(I, n + 1) = Cardinality(I)
           /\ \A i \in I : \A k \in Nat :
                 i < k /\ (\A j \in I : ~(i < j /\ j < k)) => Rank(I, k) = Rank(I, i) + 1
           /\ \A i, k \in I : i < k => Rank(I, i) + 1 <= Rank(I, k)
<1>1. IsFiniteSet(I)
  <2>1. IsFiniteSet(1 .. n)
    BY FS_Interval
  <2>2. I \in SUBSET (1 .. n)
    OBVIOUS
  <2> QED
    BY <2>1, <2>2, FS_Subset
<1>2. ASSUME NEW i \in Nat PROVE IsFiniteSet(Before(I, i)) /\ Rank(I, i) \in Nat /\ Rank(I, i) <= Cardinality(I)
  <2>1. Before(I, i) \in SUBSET I
    BY DEF Before
  <2> QED
    BY <1>1, <2>1, FS_Subset, FS_CardinalityType DEF Rank
<1> \A j \in I : j \in Nat /\ 1 <= j /\ j <= n
  OBVIOUS
<1>3. Before(I, 1) = {} /\ Before(I, n + 1) = I
  <2>1. \A j \in I : ~(j < 1) /\ j < n + 1
    OBVIOUS
  <2> QED
    BY <2>1, Zenon DEF Before
<1>4. Rank(I, 1) = 0 /\ Rank(I, n + 1) = Cardinality(I)
  BY <1>3, FS_EmptySet, Zenon DEF Rank
<1>5. ASSUME NEW i \in I, NEW k \in Nat, i < k, \A j \in I : ~(i < j /\ j < k)
      PROVE  Rank(I, k) = Rank(I, i) + 1
  <2>1. Before(I, k) = Before(I, i) \cup {i} /\ i \notin Before(I, i)
    <3>1. ASSUME NEW j \in I PROVE j < k <=> j < i \/ j = i
      <4>1. ~(i < j /\ j < k)
        BY <1>5
      <4>2. i \in Nat /\ j \in Nat
        OBVIOUS
      <4> QED
        BY ONLY <1>5, <4>1, <4>2, k \in Nat
    <3>2. ~(i < i)
      OBVIOUS
    <3> QED
      BY <3>1, <3>2, Zenon DEF Before
  <2>2. IsFiniteSet(Before(I, i))
    BY <1>2
  <2> QED
    BY <2>1, <2>2, FS_AddElement, Zenon DEF Rank
<1>6. ASSUME NEW i \in I, NEW k \in I, i < k PROVE Rank(I, i) + 1 <= Rank(I, k)
  <2>1. Before(I, i) \cup {i} \in SUBSET Before(I, k) /\ i \notin Before(I, i)
    <3>1. ASSUME NEW j \in I PROVE j < i \/ j = i => j < k
      <4>1. i \in Nat /\ j \in Nat /\ k \in Nat
        OBVIOUS
      <4> QED
        BY ONLY <1>6, <4>1
    <3>2. ~(i < i)
      OBVIOUS
    <3> QED
      BY <3>1, <3>2, Zenon DEF Before
  <2>2. IsFiniteSet(Before(I, i)) /\ IsFiniteSet(Before(I, k))
    BY <1>2
  <2>3. Cardinality(Before(I, i) \cup {i}) = Cardinality(Before(I, i)) + 1
    BY <2>1, <2>2, FS_AddElement
  <2>4. Cardinality(Before(I, i) \cup {i}) <= Cardinality(Before(I, k))
    BY <2>1, <2>2, FS_Subset
  <2> QED
    BY <2>3, <2>4 DEF Rank
<1>7. Cardinality(I) \in Nat
  BY <1>1, FS_CardinalityType
<1> QED
  BY <1>1, <1>2, <1>4, <1>5, <1>6, <1>7, Zenon

\* From one byte to the next.
LEMMA StepFacts ==
    ASSUME NEW U, NEW t \in Seq(U), NEW n \in Nat, n = Len(t)
    PROVE  /\ Starts(t) \subseteq 1 .. n
           /\ 1 \in Starts(t) \cup {n + 1}
           /\ \A s \in Starts(t) :
                 /\ Step(t, s) = Skip(t, s) /\ Step(t, s) \in s + 1 .. n + 1
                 /\ Step(t, s) \in Starts(t) \cup {n + 1}
                 /\ \A j \in Starts(t) : ~(s < j /\ j < Step(t, s))
<1>1. DOMAIN t = 1 .. n
  BY LenProperties
<1>2. ASSUME NEW i \in 1 .. n, Escape(t, i)
      PROVE  i + 2 \in 1 .. n /\ ~Escape(t, i + 1) /\ ~Escape(t, i + 2)
  BY <1>2 DEF Escape, End, isxdigit
<1>3. \A i \in 1 .. n : i \in Starts(t) <=> \A j \in {i - 1, i - 2} : j \in 1 .. n => ~Escape(t, j)
  BY <1>1, Zenon DEF Starts
<1>4. Starts(t) \subseteq 1 .. n
  BY <1>1 DEF Starts
<1>5. 1 \in Starts(t) \cup {n + 1}
  <2>1. \A j \in {1 - 1, 1 - 2} : j \notin 1 .. n
    OBVIOUS
  <2>2. 1 \in 1 .. n \/ 1 = n + 1
    OBVIOUS
  <2> QED
    BY <1>3, <2>1, <2>2, Zenon
<1>6. ASSUME NEW s \in Starts(t)
      PROVE  /\ Step(t, s) = Skip(t, s) /\ Step(t, s) \in s + 1 .. n + 1
             /\ Step(t, s) \in Starts(t) \cup {n + 1}
             /\ \A j \in Starts(t) : ~(s < j /\ j < Step(t, s))
  <2> s \in 1 .. n /\ s \in Nat
    BY <1>4
  <2>1. CASE Escape(t, s)
    <3>1. Step(t, s) = s + 3 /\ Skip(t, s) = s + 3
      BY <2>1 DEF Step, Skip
    <3>2. s + 2 \in 1 .. n /\ ~Escape(t, s + 1) /\ ~Escape(t, s + 2)
      BY <1>2, <2>1
    <3>3. s + 3 \in Starts(t) \cup {n + 1}
      <4>1. CASE s + 3 \in 1 .. n
        <5>1. s + 3 - 1 = s + 2 /\ s + 3 - 2 = s + 1
          OBVIOUS
        <5> QED
          BY <1>3, <3>2, <4>1, <5>1
      <4>2. CASE s + 3 = n + 1
        BY <4>2
      <4> QED
        BY <3>2, <4>1, <4>2
    <3>4. s + 1 \notin Starts(t) /\ s + 2 \notin Starts(t)
      <4>1. s + 1 \in 1 .. n /\ s + 1 - 1 = s /\ s + 2 - 2 = s
        BY <3>2
      <4> QED
        BY <1>3, <2>1, <3>2, <4>1
    <3>5. ASSUME NEW j \in Starts(t), s < j, j < s + 3 PROVE FALSE
      <4>1. j \in Nat
        BY <1>4
      <4>2. j = s + 1 \/ j = s + 2
        BY <3>5, <4>1
      <4> QED
        BY <3>4, <4>2
    <3>6. s + 3 \in s + 1 .. n + 1
      BY <3>2
    <3> QED
      BY <3>1, <3>3, <3>5, <3>6
  <2>2. CASE ~Escape(t, s)
    <3>1. Step(t, s) = s + 1 /\ Skip(t, s) = s + 1
      BY <2>2 DEF Step, Skip
    <3>2. s + 1 \in Starts(t) \cup {n + 1}
      <4>1. CASE s + 1 \in 1 .. n
        <5>1. s + 1 - 1 = s /\ s + 1 - 2 = s - 1
          OBVIOUS
        <5> QED
          BY <1>3, <2>2, <4>1, <5>1
      <4> QED
        BY <4>1
    <3>3. ASSUME NEW j \in Starts(t), s < j, j < s + 1 PROVE FALSE
      <4>1. j \in Nat
        BY <1>4
      <4> QED
        BY <3>3, <4>1
    <3> QED
      BY <3>1, <3>2, <3>3
  <2> QED
    BY <2>1, <2>2
<1> QED
  BY <1>4, <1>5, <1>6

\* All the bytes that the text stands for, as UriRead lists them.
Whole(t) ==
    [k \in 1 .. Cardinality(Starts(t)) |->
        Decoded(t, CHOOSE i \in Starts(t) : Cardinality({j \in Starts(t) : j < i}) = k - 1)]

LEMMA WholeFacts ==
    ASSUME NEW U, NEW t \in Seq(U)
    PROVE  \E m \in Nat :
              /\ m = Cardinality(Starts(t)) /\ Len(Whole(t)) = m /\ DOMAIN Whole(t) = 1 .. m
              /\ Whole(t) \in Seq({Decoded(t, i) : i \in Starts(t)})
              /\ \A s \in Starts(t) : /\ Rank(Starts(t), s) + 1 \in 1 .. m
                                      /\ Whole(t)[Rank(Starts(t), s) + 1] = Decoded(t, s)
<1>1. PICK n \in Nat : n = Len(t)
  BY LenProperties
<1> DEFINE I == Starts(t)
           c(k) == CHOOSE i \in I : Rank(I, i) = k - 1
<1>2. I \subseteq 1 .. n
  BY <1>1, StepFacts
<1>7. Whole(t) = [k \in 1 .. Cardinality(I) |-> Decoded(t, c(k))]
  BY Zenon DEF Whole, Rank, Before
<1> HIDE DEF I
<1>3. PICK m \in Nat : m = Cardinality(I)
  BY <1>2, RankFacts
<1>4. \A i, k \in I : i < k => Rank(I, i) + 1 <= Rank(I, k)
  BY <1>2, RankFacts, Zenon
<1>5. \A i \in I : Rank(I, i) \in Nat /\ Rank(I, i) + 1 <= m
  <2>1. ASSUME NEW i \in I PROVE Rank(I, i) \in Nat /\ Rank(I, i) + 1 <= m
    <3>1. i \in Nat /\ i <= n /\ i < n + 1 /\ n + 1 \in Nat
      BY <1>2
    <3>2. Rank(I, i) \in Nat
      BY <1>2, <3>1, RankFacts
    <3>3. Rank(I, i) + 1 <= m
      <4>1. Before(I, i) \in SUBSET I /\ i \notin Before(I, i) /\ IsFiniteSet(I)
        <5>1. ~(i < i)
          BY <3>1
        <5> QED
          BY <1>2, <5>1, RankFacts DEF Before
      <4>2. Cardinality(Before(I, i)) <= m /\ Cardinality(Before(I, i)) # m
        BY <1>3, <4>1, FS_Subset
      <4> QED
        BY <3>2, <4>2 DEF Rank
    <3> QED
      BY <3>2, <3>3
  <2> QED
    BY <2>1
<1>6. \A i, k \in I : Rank(I, i) = Rank(I, k) => i = k
  <2>1. ASSUME NEW i \in I, NEW k \in I, Rank(I, i) = Rank(I, k) PROVE i = k
    <3>1. i \in Nat /\ k \in Nat
      BY <1>2
    <3>2. ~(i < k) /\ ~(k < i)
      <4>1. Rank(I, i) \in Nat
        BY <1>5
      <4>2. ~(Rank(I, i) + 1 <= Rank(I, k)) /\ ~(Rank(I, k) + 1 <= Rank(I, i))
        BY <2>1, <4>1
      <4> QED
        BY <1>4, <4>2, Zenon
    <3> QED
      BY <3>1, <3>2
  <2> QED
    BY <2>1
<1>8. ASSUME NEW s \in I
      PROVE  Rank(I, s) + 1 \in 1 .. m /\ Whole(t)[Rank(I, s) + 1] = Decoded(t, s)
  <2>1. Rank(I, s) \in Nat /\ Rank(I, s) + 1 <= m
    BY <1>5
  <2>2. Rank(I, s) + 1 \in 1 .. m /\ Rank(I, s) + 1 - 1 = Rank(I, s)
    BY <2>1
  <2>3. PICK k \in 1 .. m : k = Rank(I, s) + 1 /\ k - 1 = Rank(I, s)
    BY <2>1, <2>2
  <2>4. c(k) \in I /\ Rank(I, c(k)) = k - 1
    BY <2>3, Zenon
  <2>5. c(k) = s
    BY <1>6, <2>3, <2>4, Zenon
  <2> HIDE DEF c
  <2> QED
    BY <1>3, <1>7, <2>3, <2>5, Zenon
<1>9. \A k \in 1 .. m : \E s \in I : Rank(I, s) = k - 1
  <2> DEFINE f == [s \in I |-> Rank(I, s) + 1]
             J == {f[s] : s \in I}
  <2>1. f \in Injection(I, 1 .. m)
    <3>1. f \in [I -> 1 .. m]
      BY <1>8
    <3>2. \A i, k \in I : f[i] = f[k] => i = k
      <4>1. ASSUME NEW i \in I, NEW k \in I, f[i] = f[k] PROVE i = k
        <5>1. Rank(I, i) + 1 = Rank(I, k) + 1
          BY <4>1
        <5>2. Rank(I, i) \in Nat /\ Rank(I, k) \in Nat
          BY <1>5
        <5>3. Rank(I, i) = Rank(I, k)
          BY <5>1, <5>2
        <5> QED
          BY <1>6, <5>3
      <4> QED
        BY <4>1
    <3> QED
      BY <3>1, <3>2, Zenon DEF Injection, IsInjective
  <2>2. IsFiniteSet(1 .. m) /\ Cardinality(1 .. m) = m
    BY FS_Interval
  <2>3. f \in Surjection(I, 1 .. m)
    BY <1>3, <2>1, <2>2, FS_Injection
  <2>4. ASSUME NEW k \in 1 .. m PROVE \E s \in I : Rank(I, s) = k - 1
    <3>1. PICK s \in I : f[s] = k
      BY <2>3, Zenon DEF Surjection
    <3>2. Rank(I, s) + 1 = k /\ Rank(I, s) \in Nat
      BY <1>5, <3>1
    <3> QED
      BY <3>2
  <2> QED
    BY <2>4
<1>10. Whole(t) \in Seq({Decoded(t, i) : i \in I}) /\ Len(Whole(t)) = m /\ DOMAIN Whole(t) = 1 .. m
  <2> DEFINE w == [k \in 1 .. m |-> Decoded(t, c(k))]
             D == {Decoded(t, i) : i \in I}
  <2>1. ASSUME NEW k \in 1 .. m PROVE Decoded(t, c(k)) \in D
    <3>1. c(k) \in I
      BY <1>9
    <3> HIDE DEF c
    <3> QED
      BY <3>1
  <2> HIDE DEF c
  <2>2. Whole(t) = w
    BY <1>3, <1>7, Zenon
  <2> HIDE DEF D
  <2>3. w \in Seq(D) /\ Len(w) = m /\ DOMAIN w = 1 .. m
    BY <2>1
  <2> QED
    BY <2>2, <2>3, Zenon DEF D
<1> QED
  BY <1>3, <1>8, <1>10, Zenon DEF I

\* What is done at place r.s: r.len bytes, of which those with room are stored.
Kept(m, cap) == IF m <= cap THEN m ELSE cap
UriInv(t, cap, r) ==
    /\ r.s \in Starts(t) \cup {End(t)}
    /\ r.len = Rank(Starts(t), r.s)
    /\ r.dst = SubSeq(Whole(t), 1, Kept(r.len, cap))

LEMMA AppendNext ==
    ASSUME NEW D, NEW w \in Seq(D), NEW k \in Nat, k + 1 <= Len(w)
    PROVE  /\ SubSeq(w, 1, k) \in Seq(D)
           /\ Append(SubSeq(w, 1, k), w[k + 1]) = SubSeq(w, 1, k + 1)
<1>1. k \in 1 - 1 .. Len(w) /\ k + 1 \in 1 - 1 .. Len(w) /\ 1 \in 1 .. Len(w) + 1 /\ k + 1 \in 1 .. Len(w)
  BY LenProperties
<1>2. PICK a \in Seq(D) : /\ a = SubSeq(w, 1, k) /\ Len(a) = k
                          /\ \A i \in 1 .. k : a[i] = w[i]
  <2>1. /\ SubSeq(w, 1, k) \in Seq(D) /\ Len(SubSeq(w, 1, k)) = k - 1 + 1
        /\ \A i \in 1 .. k - 1 + 1 : SubSeq(w, 1, k)[i] = w[1 + i - 1]
    BY <1>1, SubSeqFacts
  <2>2. k - 1 + 1 = k /\ \A i \in 1 .. k : 1 + i - 1 = i
    OBVIOUS
  <2> QED
    BY <2>1, <2>2
<1>3. PICK b \in Seq(D) : /\ b = SubSeq(w, 1, k + 1) /\ Len(b) = k + 1
                          /\ \A i \in 1 .. k + 1 : b[i] = w[i]
  <2>1. /\ SubSeq(w, 1, k + 1) \in Seq(D) /\ Len(SubSeq(w, 1, k + 1)) = k + 1 - 1 + 1
        /\ \A i \in 1 .. k + 1 - 1 + 1 : SubSeq(w, 1, k + 1)[i] = w[1 + i - 1]
    BY <1>1, SubSeqFacts
  <2>2. k + 1 - 1 + 1 = k + 1 /\ \A i \in 1 .. k + 1 : 1 + i - 1 = i
    OBVIOUS
  <2> QED
    BY <2>1, <2>2
<1>4. PICK x \in D : x = w[k + 1]
  BY <1>1
<1>5. Append(a, x) = b
  <2>1. Append(a, x) \in Seq(D) /\ Len(Append(a, x)) = k + 1
    BY <1>2
  <2>2. ASSUME NEW i \in 1 .. k + 1 PROVE Append(a, x)[i] = b[i]
    <3>1. CASE i = k + 1
      BY <1>2, <1>3, <1>4, <3>1
    <3>2. CASE i \in 1 .. k
      BY <1>2, <1>3, <3>2
    <3>3. i = k + 1 \/ i \in 1 .. k
      BY ONLY k \in Nat, i \in 1 .. k + 1
    <3> QED
      BY <3>1, <3>2, <3>3, Zenon
  <2> QED
    BY <1>3, <2>1, <2>2, SeqEqual
<1> QED
  BY <1>2, <1>3, <1>4, <1>5, Zenon

LEMMA RoundUriInv ==
    ASSUME NEW U, NEW t \in Seq(U), NEW n \in Nat, n = Len(t), NEW cap \in Nat,
           NEW r \in [s : 1 .. n + 1, dst : Seq({Decoded(t, i) : i \in Starts(t)}), len : Nat],
           UriInv(t, cap, r)
    PROVE  /\ Round(t, cap, r) \in
                 [s : 1 .. n + 1, dst : Seq({Decoded(t, i) : i \in Starts(t)}), len : Nat]
           /\ UriInv(t, cap, Round(t, cap, r))
           /\ r.s = n + 1 => Round(t, cap, r) = r
           /\ r.s # n + 1 => Round(t, cap, r).s > r.s
<1> DEFINE I == Starts(t)
           D == {Decoded(t, i) : i \in I}
           S == [s : 1 .. n + 1, dst : Seq(D), len : Nat]
<1>1. CASE r.s = n + 1
  <2>1. Round(t, cap, r) = r
    BY <1>1 DEF Round, End
  <2> QED
    BY <1>1, <2>1
<1>2. CASE r.s # n + 1
  <2>1. PICK p \in I : p = r.s
    BY <1>2 DEF UriInv, End
  <2>2. p \in 1 .. n /\ I \subseteq 1 .. n
    BY StepFacts
  <2>3. PICK q \in p + 1 .. n + 1 : /\ q = Step(t, p) /\ q = Skip(t, p) /\ q \in I \cup {n + 1}
                                    /\ \A j \in I : ~(p < j /\ j < q)
    BY StepFacts
  <2>4. p \in Nat /\ q \in 1 .. n + 1 /\ p < q /\ q \in Nat
    BY <2>2
  <2>5. Rank(I, q) = Rank(I, p) + 1
    BY <2>2, <2>3, <2>4, RankFacts
  <2>6. PICK m \in Nat :
              /\ m = Cardinality(I) /\ Len(Whole(t)) = m /\ Whole(t) \in Seq(D)
              /\ Rank(I, p) + 1 \in 1 .. m /\ Whole(t)[Rank(I, p) + 1] = Decoded(t, p)
    BY WholeFacts
  <2>7. PICK k \in Nat : k = r.len /\ k = Rank(I, p) /\ k + 1 \in 1 .. m
    BY <2>1, <2>6 DEF UriInv
  <2>8. r.dst = SubSeq(Whole(t), 1, Kept(k, cap))
    BY <2>7 DEF UriInv
  <2>9. Decoded(t, p) \in D /\ r \in S /\ k + 1 \in Nat
    OBVIOUS
  <2>10. CASE k < cap
    <3>1. Round(t, cap, r) = [s |-> q, dst |-> Append(r.dst, Decoded(t, p)), len |-> k + 1]
      BY <1>2, <2>1, <2>3, <2>7, <2>10 DEF Round, End
    <3>2. Kept(k, cap) = k /\ Kept(k + 1, cap) = k + 1
      BY ONLY <2>10, k \in Nat, cap \in Nat DEF Kept
    <3>3. Append(r.dst, Decoded(t, p)) = SubSeq(Whole(t), 1, k + 1)
      BY <2>6, <2>7, <2>8, <3>2, AppendNext
    <3>4. Append(r.dst, Decoded(t, p)) \in Seq(D)
      BY <2>9
    <3> HIDE DEF I, D
    <3>5. PICK d \in Seq(D) : d = Append(r.dst, Decoded(t, p))
      BY <3>4
    <3>6. PICK z \in S : z = Round(t, cap, r) /\ z.s = q /\ z.dst = d /\ z.len = k + 1
      <4>1. [s |-> q, dst |-> d, len |-> k + 1] \in S
        BY <2>4, <2>9
      <4> QED
        BY <3>1, <3>5, <4>1
    <3>7. z.len = Rank(I, z.s) /\ z.s \in I \cup {n + 1}
          /\ z.dst = SubSeq(Whole(t), 1, Kept(z.len, cap))
      BY <2>3, <2>5, <2>7, <3>2, <3>3, <3>5, <3>6, Zenon
    <3>8. UriInv(t, cap, z)
      BY <3>7, Zenon DEF UriInv, I, End
    <3>9. z.s > r.s
      BY <2>1, <2>4, <3>6
    <3> QED
      BY <1>2, <3>6, <3>8, <3>9, Zenon DEF D, I
  <2>11. CASE ~(k < cap)
    <3>1. Round(t, cap, r) = [r EXCEPT !.s = q, !.len = k + 1]
      BY <1>2, <2>1, <2>3, <2>7, <2>11 DEF Round, End
    <3>2. Kept(k, cap) = cap /\ Kept(k + 1, cap) = cap
      BY ONLY <2>11, k \in Nat, cap \in Nat DEF Kept
    <3> HIDE DEF I, D
    <3>6. PICK z \in S : z = Round(t, cap, r) /\ z.s = q /\ z.dst = r.dst /\ z.len = k + 1
      <4>1. PICK z : z = [r EXCEPT !.s = q, !.len = k + 1]
        OBVIOUS
      <4>2. z \in S /\ z.s = q /\ z.dst = r.dst /\ z.len = k + 1
        BY ONLY <2>4, <2>9, <4>1
      <4> QED
        BY <3>1, <4>1, <4>2
    <3>7. z.len = Rank(I, z.s) /\ z.s \in I \cup {n + 1}
          /\ z.dst = SubSeq(Whole(t), 1, Kept(z.len, cap))
      BY <2>3, <2>5, <2>7, <2>8, <3>2, <3>6, Zenon
    <3>8. UriInv(t, cap, z)
      BY <3>7, Zenon DEF UriInv, I, End
    <3>9. z.s > r.s
      BY <2>1, <2>4, <3>6
    <3> QED
      BY <1>2, <3>6, <3>8, <3>9, Zenon DEF D, I
  <2> QED
    BY <2>10, <2>11
<1> QED
  BY <1>1, <1>2

LEMMA FirstUriInv ==
    ASSUME NEW U, NEW t \in Seq(U), NEW n \in Nat, n = Len(t), NEW cap \in Nat,
           NEW r, r = [s |-> 1, dst |-> <<>>, len |-> 0]
    PROVE  /\ r \in [s : 1 .. n + 1, dst : Seq({Decoded(t, i) : i \in Starts(t)}), len : Nat]
           /\ UriInv(t, cap, r)
<1>1. 1 \in Starts(t) \cup {n + 1} /\ Starts(t) \subseteq 1 .. n
  BY StepFacts
<1>2. Rank(Starts(t), 1) = 0
  BY <1>1, RankFacts
<1>3. SubSeq(Whole(t), 1, 0) = <<>>
  BY WholeFacts
<1>4. Kept(0, cap) = 0
  BY DEF Kept
<1>5. UriInv(t, cap, r)
  BY <1>1, <1>2, <1>3, <1>4 DEF UriInv, End
<1>6. 1 \in 1 .. n + 1
  OBVIOUS
<1> QED
  BY <1>5, <1>6

\* The loops of uri_decode on a text of n bytes.
Rounds(t, cap, n, f) ==
    f = [k \in 0 .. n |-> IF k = 0 THEN [s |-> 1, dst |-> <<>>, len |-> 0]
                          ELSE Round(t, cap, f[k - 1])]

LEMMA RoundsExist ==
    ASSUME NEW U, NEW t \in Seq(U), NEW n \in Nat, n = Len(t), NEW cap \in Nat
    PROVE  \E f : Rounds(t, cap, n, f)
<1> DEFINE R == [s : 1 .. n + 1, dst : Seq({Decoded(t, i) : i \in Starts(t)}), len : Nat]
           S == {r \in R : UriInv(t, cap, r)}
           g == [r \in S |-> Round(t, cap, r)]
           x == [s |-> 1, dst |-> <<>>, len |-> 0]
<1>1. x \in S
  BY FirstUriInv
<1>2. \A r \in S : Round(t, cap, r) \in S
  BY RoundUriInv, Zenon
<1> HIDE DEF S
<1>3. g \in [S -> S]
  BY <1>2
<1>4. PICK f \in [0 .. n -> S] : Iterates(f, g, x, n)
  <2> HIDE DEF g, x
  <2> QED
    BY <1>1, <1>3, IterExists
<1>5. \A k \in 1 .. n : f[k] = Round(t, cap, f[k - 1])
  <2>1. ASSUME NEW k \in 1 .. n PROVE f[k] = Round(t, cap, f[k - 1])
    <3>1. k - 1 \in 0 .. n
      OBVIOUS
    <3>2. f[k - 1] \in S
      BY <3>1
    <3>3. f[k] = g[f[k - 1]]
      BY <1>4, Zenon DEF Iterates
    <3> QED
      BY <3>2, <3>3
  <2> QED
    BY <2>1
<1>6. f[0] = x
  BY <1>4, Zenon DEF Iterates
<1>7. \A k \in 0 .. n : f[k] = IF k = 0 THEN x ELSE Round(t, cap, f[k - 1])
  <2>1. ASSUME NEW k \in 0 .. n PROVE f[k] = IF k = 0 THEN x ELSE Round(t, cap, f[k - 1])
    <3>1. k = 0 \/ (k # 0 /\ k \in 1 .. n)
      OBVIOUS
    <3> HIDE DEF x
    <3> QED
      BY <1>5, <1>6, <3>1, Zenon
  <2> QED
    BY <2>1
<1>8. f = [k \in 0 .. n |-> f[k]]
  OBVIOUS
<1> HIDE DEF x
<1>9. f = [k \in 0 .. n |-> IF k = 0 THEN x ELSE Round(t, cap, f[k - 1])]
  BY <1>7, <1>8
<1> QED
  BY <1>9, Zenon DEF Rounds, x

LEMMA RoundsUriInv ==
    ASSUME NEW U, NEW t \in Seq(U), NEW n \in Nat, n = Len(t), NEW cap \in Nat,
           NEW f, Rounds(t, cap, n, f)
    PROVE  /\ f[n] \in [s : 1 .. n + 1, dst : Seq({Decoded(t, i) : i \in Starts(t)}), len : Nat]
           /\ UriInv(t, cap, f[n]) /\ f[n].s = n + 1
<1> DEFINE R == [s : 1 .. n + 1, dst : Seq({Decoded(t, i) : i \in Starts(t)}), len : Nat]
           Good(r, m) == r \in R /\ UriInv(t, cap, r) /\ (r.s = n + 1 \/ r.s > m)
           S == {m \in Nat : m <= n => Good(f[m], m)}
<1>1. f[0] = [s |-> 1, dst |-> <<>>, len |-> 0]
  BY DEF Rounds
<1>2. ASSUME NEW m \in Nat, m + 1 <= n PROVE f[m + 1] = Round(t, cap, f[m])
  <2>1. m + 1 \in 0 .. n /\ m + 1 # 0 /\ m + 1 - 1 = m
    BY <1>2
  <2> QED
    BY <2>1 DEF Rounds
<1>3. 0 \in S
  <2>1. f[0] \in R /\ UriInv(t, cap, f[0])
    BY <1>1, FirstUriInv
  <2>2. f[0].s > 0
    BY <1>1
  <2> HIDE DEF R
  <2> QED
    BY <2>1, <2>2
<1>4. ASSUME NEW m \in Nat, m \in S PROVE m + 1 \in S
  <2> SUFFICES ASSUME m + 1 <= n PROVE Good(f[m + 1], m + 1)
    OBVIOUS
  <2>1. PICK r \in R : r = f[m] /\ UriInv(t, cap, r) /\ (r.s = n + 1 \/ r.s > m)
    <3>1. m <= n
      BY ONLY m \in Nat, n \in Nat, m + 1 <= n
    <3> HIDE DEF R
    <3>2. Good(f[m], m)
      BY <1>4, <3>1
    <3> QED
      BY <3>2, Zenon
  <2>2. PICK z : z = Round(t, cap, r) /\ z = f[m + 1]
    BY <1>2, <2>1
  <2>3. z \in R /\ UriInv(t, cap, z) /\ (r.s = n + 1 => z = r) /\ (r.s # n + 1 => z.s > r.s)
    <3>1. /\ Round(t, cap, r) \in R /\ UriInv(t, cap, Round(t, cap, r))
          /\ r.s = n + 1 => Round(t, cap, r) = r
          /\ r.s # n + 1 => Round(t, cap, r).s > r.s
      BY <2>1, RoundUriInv, SMTT(60)
    <3> HIDE DEF R
    <3> QED
      BY <2>2, <3>1, Zenon
  <2>4. r.s \in Nat /\ z.s \in Nat
    BY <2>3
  <2>5. z.s = n + 1 \/ z.s > m + 1
    BY <2>1, <2>3, <2>4
  <2> HIDE DEF R
  <2> QED
    BY <2>2, <2>3, <2>5
<1> HIDE DEF S
<1>5. n \in S
  BY <1>3, <1>4, NatInd
<1>6. Good(f[n], n)
  BY <1>5 DEF S
<1>7. f[n].s \in 1 .. n + 1
  BY <1>6
<1>8. f[n].s = n + 1
  BY <1>6, <1>7
<1> QED
  BY <1>6, <1>8, Zenon

LEMMA UriReadAll ==
    ASSUME NEW U, NEW t \in Seq(U)
    PROVE  UriRead(t)
<1>1. PICK n \in Nat : n = Len(t) /\ Starts(t) \subseteq 1 .. n
  BY LenProperties, StepFacts
<1>2. ASSUME NEW cap \in 0 .. Len(t) + 1
      PROVE  uri_decode(t, cap) = [dst |-> SubSeq(Whole(t), 1, Min({cap, Len(Whole(t))})),
                                   len |-> Len(Whole(t))]
  <2> cap \in Nat
    BY <1>1
  <2> DEFINE h == CHOOSE f : Rounds(t, cap, n, f)
  <2>1. Rounds(t, cap, n, h)
    BY <1>1, RoundsExist
  <2>2. uri_decode(t, cap) = [dst |-> h[n].dst, len |-> h[n].len]
    BY <1>1, Zenon DEF uri_decode, Rounds
  <2> HIDE DEF h
  <2>3. UriInv(t, cap, h[n]) /\ h[n].s = n + 1
    BY <1>1, <2>1, RoundsUriInv
  <2>4. PICK m \in Nat : m = Len(Whole(t)) /\ h[n].len = m
    <3>1. PICK m \in Nat : m = Len(Whole(t)) /\ m = Cardinality(Starts(t))
      BY WholeFacts
    <3>2. Rank(Starts(t), n + 1) = m
      BY <1>1, <3>1, RankFacts
    <3> QED
      BY <2>3, <3>1, <3>2 DEF UriInv
  <2>5. h[n].dst = SubSeq(Whole(t), 1, Kept(m, cap))
    BY <2>3, <2>4 DEF UriInv
  <2>6. Min({cap, m}) = Kept(m, cap)
    <3>1. {cap, m} \subseteq Nat /\ Kept(m, cap) \in {cap, m}
      BY Zenon DEF Kept
    <3>2. \A y \in {cap, m} : Kept(m, cap) <= y
      BY ONLY cap \in Nat, m \in Nat DEF Kept
    <3>3. PICK I : I = {cap, m}
      OBVIOUS
    <3>4. PICK x \in I : x = Kept(m, cap)
      BY <3>1, <3>3
    <3>5. I \subseteq Nat /\ \A y \in I : x <= y
      BY <3>1, <3>2, <3>3, <3>4, Zenon
    <3>6. Min(I) = x
      BY ONLY <3>5, MinIs
    <3> QED
      BY <3>3, <3>4, <3>6, Zenon
  <2> QED
    BY <2>2, <2>4, <2>5, <2>6, Zenon
<1> QED
  BY <1>2, Zenon DEF UriRead, Whole

\* A text of any length is decoded by uri_decode as the bytes it stands for, as
\* far as there is room for them, and all of them are counted.
THEOREM SpecUriWhole == Spec => []UriWhole
<1>1. (\E U : text \in Seq(U)) => UriWhole
  BY UriReadAll DEF UriWhole
<1> QED
  BY <1>1, SpecTexts, PTL
-----------------------------------------------------------------------------
(* The words of a command. *)

LEMMA FirstOfFacts ==
    ASSUME NEW t, NEW n \in Nat, n = Len(t), NEW I, I \subseteq 1 .. n
    PROVE  /\ FirstOf(I, t) \in I \cup {n + 1}
           /\ \A j \in I : ~(j < FirstOf(I, t))
<1>1. PICK J : J = I \cup {n + 1}
  OBVIOUS
<1>2. J \subseteq Nat /\ J # {} /\ \A j \in J : j \in Nat
  <2>1. n + 1 \in Nat /\ \A j \in I : j \in Nat
    BY ONLY n \in Nat, I \subseteq 1 .. n
  <2> QED
    BY <1>1, <2>1, Zenon
<1>3. FirstOf(I, t) = Min(J)
  BY <1>1 DEF FirstOf, End
<1>4. PICK m \in J : m = Min(J) /\ \A j \in J : m <= j
  BY <1>2, MinFacts, Zenon
<1>5. \A j \in J : ~(j < m)
  BY <1>2, <1>4
<1> QED
  BY <1>1, <1>3, <1>4, <1>5, Zenon

\* A place where no word goes on.
Border(t, p) == p = 1 \/ p = End(t) \/ t[p] \in Signs \cup {" "}
WordStart(t, m) == IF t[m] \in Signs THEN m + 1 ELSE m
FromHere(t, p) == FirstOf({j \in p .. Len(t) : t[j] # " "}, t)

\* The next word begins at the next place that is not blank.
LEMMA NextHead ==
    ASSUME NEW U, NEW t \in Seq(U), NEW n \in Nat, n = Len(t), NEW p \in 1 .. n + 1, Border(t, p)
    PROVE  /\ FromHere(t, p) \in p .. n + 1
           /\ FromHere(t, p) # n + 1 => FromHere(t, p) \in Heads(t)
           /\ \A j \in Heads(t) : ~(p <= j /\ j < FromHere(t, p))
<1> DEFINE I == {j \in p .. n : t[j] # " "}
           m == FromHere(t, p)
<1>1. DOMAIN t = 1 .. n
  BY LenProperties
<1>2. m = FirstOf(I, t)
  BY DEF FromHere
<1>3. I \subseteq 1 .. n /\ p \in Nat
  <2>1. p \in Nat /\ \A j \in p .. n : j \in 1 .. n
    BY ONLY n \in Nat, p \in 1 .. n + 1
  <2> QED
    BY <2>1, Zenon
<1> HIDE DEF m
<1>4. m \in I \cup {n + 1} /\ \A j \in I : ~(j < m)
  BY <1>2, <1>3, FirstOfFacts
<1>5. m \in p .. n + 1 /\ m \in Nat
  <2>1. m \in p .. n \/ m = n + 1
    BY <1>4, Zenon
  <2> QED
    BY ONLY <2>1, n \in Nat, p \in 1 .. n + 1
<1>6. \A j \in p .. n : j < m => t[j] = " "
  BY <1>4
<1>7. ASSUME NEW j \in Heads(t), p <= j, j < m PROVE FALSE
  <2>1. j \in 1 .. n /\ t[j] # " "
    BY <1>1, Zenon DEF Heads, Signs
  <2>2. j \in p .. n
    <3>1. j \in 1 .. n
      BY <2>1, Zenon
    <3> QED
      BY ONLY <1>7, <3>1, p \in 1 .. n + 1, n \in Nat
  <2> QED
    BY <1>6, <1>7, <2>1, <2>2
<1>8. ASSUME m # n + 1 PROVE m \in Heads(t)
  <2>1. m \in p .. n /\ m \in 1 .. n /\ t[m] # " "
    <3>1. m \in I
      BY <1>4, <1>8, Zenon
    <3> QED
      BY <1>3, <3>1, Zenon
  <2> SUFFICES ASSUME t[m] \notin Signs PROVE m = 1 \/ t[m - 1] = " "
    BY <1>1, <2>1, Zenon DEF Heads
  <2>2. CASE m = p
    <3>1. p # n + 1
      BY <1>8, <2>2
    <3> QED
      BY <2>1, <2>2, <3>1 DEF Border, End
  <2>3. CASE m # p
    <3>1. m - 1 \in p .. n /\ m - 1 < m
      <4>1. m \in p .. n /\ p \in Nat
        BY <1>3, <2>1, Zenon
      <4> QED
        BY ONLY <4>1, <2>3, n \in Nat
    <3> QED
      BY <1>6, <3>1
  <2> QED
    BY <2>2, <2>3
<1> QED
  BY <1>5, <1>7, <1>8 DEF m

\* And ends before the next blank or sign.
LEMMA NextBorder ==
    ASSUME NEW U, NEW t \in Seq(U), NEW n \in Nat, n = Len(t), NEW m \in Heads(t)
    PROVE  LET q == WordEnd(t, WordStart(t, m))
           IN  /\ m \in 1 .. n /\ q \in m + 1 .. n + 1 /\ Border(t, q)
               /\ \A j \in Heads(t) : ~(m < j /\ j < q)
<1> DEFINE w == WordStart(t, m)
           q == WordEnd(t, w)
           I == {j \in w .. n : t[j] \in Signs \cup {" "}}
<1>1. DOMAIN t = 1 .. n
  BY LenProperties
<1>2. m \in 1 .. n
  BY <1>1, Zenon DEF Heads
<1>12. t[m] \in Signs \/ t[m] # " "
  BY Zenon DEF Heads
<1>13. w \in {m, m + 1} /\ w \in Nat /\ w \in 1 .. n + 1 /\ (w = m => t[m] \notin Signs)
       /\ (w = m + 1 => t[m] \in Signs)
  <2>1. m \in Nat /\ m + 1 \in Nat /\ m \in 1 .. n + 1 /\ m + 1 \in 1 .. n + 1 /\ m # m + 1
    BY ONLY <1>2, n \in Nat
  <2> QED
    BY <2>1, Zenon DEF WordStart
<1>3. w \in {m, m + 1} /\ w \in Nat /\ w \in 1 .. n + 1
  BY <1>13, Zenon
<1>4. q = FirstOf(I, t)
  BY DEF WordEnd
<1> HIDE DEF w, q
<1>5. I \subseteq 1 .. n
  <2>1. \A j \in w .. n : j \in 1 .. n
    BY ONLY <1>3, n \in Nat
  <2> QED
    BY <2>1, Zenon
<1>6. q \in I \cup {n + 1} /\ \A j \in I : ~(j < q)
  BY <1>4, <1>5, FirstOfFacts
<1>7. q \in w .. n + 1 /\ q \in Nat
  <2>1. q \in w .. n \/ q = n + 1
    BY <1>6, Zenon
  <2> QED
    BY ONLY <2>1, <1>3, n \in Nat
<1>8. q # m
  <2>1. m \notin I
    <3>1. CASE w = m
      <4>1. t[m] \notin Signs \cup {" "}
        BY <1>12, <1>13, <3>1, Zenon
      <4> QED
        BY <4>1, Zenon
    <3>2. CASE w = m + 1
      <4>1. m \notin w .. n
        BY ONLY <1>2, <3>2, n \in Nat
      <4> QED
        BY <4>1, Zenon
    <3> QED
      BY <1>3, <3>1, <3>2, Zenon
  <2>2. m # n + 1
    BY ONLY <1>2, n \in Nat
  <2> QED
    BY <1>6, <2>1, <2>2, Zenon
<1>9. q \in m + 1 .. n + 1
  BY ONLY <1>2, <1>3, <1>7, <1>8, n \in Nat
<1>10. Border(t, q)
  BY <1>6 DEF Border, End
<1>11. ASSUME NEW j \in Heads(t), m < j, j < q PROVE FALSE
  <2>1. j \in 1 .. n /\ (t[j] \in Signs \/ (t[j] # " " /\ (j = 1 \/ t[j - 1] = " ")))
    BY <1>1, Zenon DEF Heads
  <2>2. j \in w .. n /\ j # 1 /\ j - 1 \in 1 .. n
    <3>1. j \in 1 .. n
      BY <2>1, Zenon
    <3> QED
      BY ONLY <1>2, <1>3, <1>11, <3>1, n \in Nat
  <2>3. t[j] \notin Signs
    BY <1>6, <1>11, <2>2
  <2>4. t[j - 1] = " "
    BY <2>1, <2>2, <2>3
  <2>5. CASE j - 1 = m
    <3>1. t[m] = " "
      BY <2>4, <2>5
    <3> QED
      BY <1>12, <3>1 DEF Signs
  <2>6. CASE j - 1 # m
    <3>1. j - 1 \in w .. n /\ j - 1 < q
      <4>1. j \in 1 .. n
        BY <2>1, Zenon
      <4> QED
        BY ONLY <1>2, <1>3, <1>7, <1>11, <4>1, <2>6, n \in Nat
    <3> QED
      BY <1>6, <2>4, <3>1
  <2> QED
    BY <2>5, <2>6
<1> QED
  BY <1>2, <1>9, <1>10, <1>11, Zenon DEF w, q

LEMMA MaskType ==
    ASSUME NEW w
    PROVE  parse_mask(w) \in SUBSET FullMask
<1>1. fload(Tail(w)) \in SUBSET FullMask
  BY DEF fload, FullMask, Items
<1> QED
  BY <1>1, Zenon DEF parse_mask

\* The words from the start of the text up to, not including, place p: they make
\* sense, and show the items that nm has.
AboutTo(t, item, p) == Before(About(t, item), p)
ShownTo(t, show, item, p) ==
    IF AboutTo(t, item, p) = {} THEN item \in show
    ELSE t[Max(AboutTo(t, item, p))] # "-"
         /\ item \in parse_mask(Word(t, Max(AboutTo(t, item, p))))
Understood(t, show, p, nm) ==
    /\ \A i \in Before(Heads(t), p) : Readable(Word(t, i))
    /\ \A item \in FullMask : item \in nm <=> ShownTo(t, show, item, p)

CommandInv(t, show, r) ==
    /\ Border(t, r.m)
    /\ r.read => Understood(t, show, r.m, r.nm)
    /\ ~r.read => \E i \in Heads(t) : ~Readable(Word(t, i))

\* Between two places where no word begins nothing is said.
LEMMA BeforeSame ==
    ASSUME NEW n \in Nat, NEW I, I \subseteq 1 .. n, NEW p \in Nat, NEW q \in Nat, p <= q,
           \A j \in I : ~(p <= j /\ j < q)
    PROVE  Before(I, q) = Before(I, p)
<1>1. ASSUME NEW j \in I PROVE j < q <=> j < p
  <2>1. j \in Nat /\ ~(p <= j /\ j < q)
    OBVIOUS
  <2> QED
    BY ONLY <2>1, p \in Nat, q \in Nat, p <= q
<1> QED
  BY <1>1, Zenon DEF Before

\* And with one word between them, that word.
LEMMA BeforeNext ==
    ASSUME NEW n \in Nat, NEW I, I \subseteq 1 .. n, NEW m \in 1 .. n, NEW q \in Nat, m < q,
           \A j \in I : ~(m < j /\ j < q)
    PROVE  /\ m \in I => Before(I, q) = Before(I, m) \cup {m}
           /\ m \in I => Max(Before(I, q)) = m
<1> m \in Nat
  OBVIOUS
<1>1. ASSUME NEW j \in I PROVE j < q <=> j < m \/ j = m
  <2>1. j \in Nat /\ ~(m < j /\ j < q)
    OBVIOUS
  <2> QED
    BY ONLY <2>1, m \in Nat, q \in Nat, m < q
<1>2. m \in I => Before(I, q) = Before(I, m) \cup {m}
  BY <1>1, Zenon DEF Before
<1>4. ASSUME m \in I PROVE Max(Before(I, q)) = m
  <2>1. PICK k \in Nat : k = m - 1 /\ k + 1 = m
    OBVIOUS
  <2>2. Before(I, m) \subseteq 1 .. k
    <3>1. \A j \in I : j < m => j \in 1 .. k
      BY <2>1
    <3> QED
      BY <3>1, Zenon DEF Before
  <2>3. Max(Before(I, m) \cup {k + 1}) = k + 1
    BY <2>2, MaxNext
  <2> QED
    BY <1>2, <1>4, <2>1, <2>3, Zenon
<1> QED
  BY <1>2, <1>4, Zenon

\* What the next word changes.
LEMMA WordUnderstood ==
    ASSUME NEW U, NEW t \in Seq(U), NEW show, NEW nm \in SUBSET FullMask,
           NEW m \in Heads(t), NEW q \in Nat, m < q, \A j \in Heads(t) : ~(m < j /\ j < q),
           NEW sign, sign = IF t[m] \in Signs THEN t[m] ELSE " ",
           Understood(t, show, m, nm), Readable(Word(t, m))
    PROVE  Understood(t, show, q, Combine(sign, nm, parse_mask(Word(t, m))))
<1> DEFINE d == parse_mask(Word(t, m))
<1>1. PICK n \in Nat : n = Len(t) /\ DOMAIN t = 1 .. n
  BY LenProperties
<1>2. Heads(t) \subseteq 1 .. n /\ m \in 1 .. n
  BY <1>1, Zenon DEF Heads
<1>7. q \in Nat /\ m < q /\ \A j \in Heads(t) : ~(m < j /\ j < q)
  OBVIOUS
<1>3. Before(Heads(t), q) = Before(Heads(t), m) \cup {m}
  BY ONLY <1>2, <1>7, m \in Heads(t), n \in Nat, BeforeNext
<1>4. \A i \in Before(Heads(t), q) : Readable(Word(t, i))
  BY <1>3, Zenon DEF Understood
<1>5. d \in SUBSET FullMask
  BY MaskType
<1>6. ASSUME NEW item \in FullMask
      PROVE  item \in Combine(sign, nm, d) <=> ShownTo(t, show, item, q)
  <2> DEFINE I == About(t, item)
  <2>1. I \subseteq Heads(t) /\ (m \in I <=> (t[m] \in Signs => item \in d))
    BY Zenon DEF About
  <2>2. I \subseteq 1 .. n /\ \A j \in I : ~(m < j /\ j < q)
    BY <1>2, <2>1, Zenon
  <2> HIDE DEF I
  <2>3. /\ m \in I => Max(Before(I, q)) = m /\ Before(I, q) # {}
        /\ m \notin I => Before(I, q) = Before(I, m)
    <3>1. PICK J : J = I
      OBVIOUS
    <3>2. J \subseteq 1 .. n /\ \A j \in J : ~(m < j /\ j < q)
      BY <2>2, <3>1, Zenon
    <3>3. m \in 1 .. n /\ q \in Nat /\ m < q
      BY <1>2
    <3>4. m \in J => Before(J, q) = Before(J, m) \cup {m}
      BY ONLY <3>2, <3>3, n \in Nat, BeforeNext
    <3>5. m \in J => Max(Before(J, q)) = m
      BY ONLY <3>2, <3>3, n \in Nat, BeforeNext
    <3>6. ASSUME m \notin J PROVE Before(J, q) = Before(J, m)
      <4>1. ASSUME NEW j \in J PROVE ~(m <= j /\ j < q)
        <5>1. j \in 1 .. n /\ j # m /\ ~(m < j /\ j < q)
          BY <3>2, <3>6, Zenon
        <5> QED
          BY ONLY <3>3, <5>1, n \in Nat
      <4>2. m \in Nat /\ m <= q
        BY ONLY <3>3
      <4> QED
        BY ONLY <3>2, <3>3, <4>1, <4>2, n \in Nat, BeforeSame
    <3> QED
      BY <3>1, <3>4, <3>5, <3>6, Zenon
  <2>4. item \in nm <=> ShownTo(t, show, item, m)
    BY Zenon DEF Understood
  <2>5. CASE m \in I
    <3>1. ShownTo(t, show, item, q) <=> t[m] # "-" /\ item \in d
      <4>1. AboutTo(t, item, q) # {} /\ Max(AboutTo(t, item, q)) = m
        BY <2>3, <2>5, Zenon DEF AboutTo, I
      <4> QED
        BY <4>1, Zenon DEF ShownTo
    <3>2. CASE t[m] = "+"
      BY <2>1, <2>5, <3>1, <3>2 DEF Combine, Signs
    <3>3. CASE t[m] = "-"
      BY <2>1, <2>5, <3>1, <3>3 DEF Combine, Signs
    <3>4. CASE t[m] \notin Signs
      BY <3>1, <3>4 DEF Combine, Signs
    <3> QED
      BY <3>2, <3>3, <3>4, Zenon DEF Signs
  <2>6. CASE m \notin I
    <3>1. ShownTo(t, show, item, q) <=> ShownTo(t, show, item, m)
      <4>1. AboutTo(t, item, q) = AboutTo(t, item, m)
        BY <2>3, <2>6, Zenon DEF AboutTo, I
      <4> QED
        BY <4>1, Zenon DEF ShownTo
    <3>2. t[m] \in Signs /\ item \notin d
      BY <2>1, <2>6, Zenon
    <3>3. item \in Combine(sign, nm, d) <=> item \in nm
      BY <3>2 DEF Combine, Signs
    <3> QED
      BY <2>4, <3>1, <3>3, Zenon
  <2> QED
    BY <2>5, <2>6
<1> QED
  BY <1>4, <1>6, Zenon DEF Understood

CommandRecord(n) == [m : 1 .. n + 1, read : BOOLEAN, nm : SUBSET FullMask]

LEMMA NextWordInv ==
    ASSUME NEW U, NEW t \in Seq(U), NEW n \in Nat, n = Len(t), NEW show,
           NEW r \in CommandRecord(n),
           CommandInv(t, show, r)
    PROVE  /\ NextWord(t, r) \in CommandRecord(n)
           /\ CommandInv(t, show, NextWord(t, r))
           /\ ~r.read \/ r.m = n + 1 => NextWord(t, r) = r
           /\ \/ ~NextWord(t, r).read
              \/ NextWord(t, r).m = n + 1
              \/ NextWord(t, r).m > r.m
<1> DEFINE R == CommandRecord(n)
           m == FromHere(t, r.m)
           w == WordStart(t, m)
           q == WordEnd(t, w)
           sign == IF t[m] \in Signs THEN t[m] ELSE " "
           d == parse_mask(Word(t, m))
<1>1. r.m \in 1 .. n + 1 /\ r.read \in BOOLEAN /\ r.nm \in SUBSET FullMask /\ Border(t, r.m)
  <2>1. Border(t, r.m)
    BY Zenon DEF CommandInv
  <2> QED
    BY <2>1 DEF CommandRecord
<1>2. /\ m \in r.m .. n + 1 /\ (m # n + 1 => m \in Heads(t))
      /\ \A j \in Heads(t) : ~(r.m <= j /\ j < m)
  BY <1>1, NextHead
<1>3. m \in 1 .. n + 1 /\ m \in Nat /\ r.m \in Nat /\ r.m <= m
  BY ONLY <1>1, <1>2, n \in Nat
<1>4. NextWord(t, r) = IF ~r.read THEN r
                       ELSE IF m = n + 1 THEN [r EXCEPT !.m = m]
                       ELSE IF ~Readable(Word(t, m)) THEN [r EXCEPT !.read = FALSE]
                       ELSE [r EXCEPT !.m = q, !.nm = Combine(sign, r.nm, d)]
  <2>1. (IF (IF t[m] \in Signs THEN t[m] ELSE " ") = " " THEN m ELSE m + 1) = w
    BY Zenon DEF WordStart, Signs
  <2>2. Word(t, m) = Part(t, w, q)
    BY Zenon DEF Word, WordStart
  <2> QED
    BY <2>1, <2>2, Zenon DEF NextWord, FromHere, End
<1> HIDE DEF m, w, q, sign, d
<1>5. CASE ~r.read
  BY <1>4, <1>5
<1>6. CASE r.read
  <2>1. Understood(t, show, m, r.nm)
    <3>1. \A I : I \subseteq Heads(t) => Before(I, m) = Before(I, r.m)
      <4>1. PICK k \in Nat : DOMAIN t = 1 .. k
        BY LenProperties
      <4>2. Heads(t) \subseteq 1 .. k
        BY <4>1, Zenon DEF Heads
      <4> QED
        BY <1>2, <1>3, <4>2, BeforeSame, Zenon
    <3>2. Before(Heads(t), m) = Before(Heads(t), r.m)
      BY <3>1
    <3>3. \A item : AboutTo(t, item, m) = AboutTo(t, item, r.m)
      BY <3>1, Zenon DEF AboutTo, About
    <3>4. Understood(t, show, r.m, r.nm)
      BY <1>6, Zenon DEF CommandInv
    <3> QED
      BY <3>2, <3>3, <3>4, Zenon DEF Understood, ShownTo
  <2>2. CASE m = n + 1
    <3>1. PICK z : z = [r EXCEPT !.m = m]
      OBVIOUS
    <3>2. z = NextWord(t, r)
      BY <1>4, <1>6, <2>2, <3>1
    <3>3. z \in R /\ z.m = m /\ z.read = r.read /\ z.nm = r.nm /\ (r.m = n + 1 => z = r)
      BY <1>3, <2>2, <3>1 DEF CommandRecord
    <3>4. CommandInv(t, show, z)
      BY <1>6, <2>1, <2>2, <3>3, Zenon DEF CommandInv, Border, End
    <3> QED
      BY <1>6, <2>2, <3>2, <3>3, <3>4, Zenon
  <2>3. CASE m # n + 1
    <3>1. m \in Heads(t) /\ r.m # n + 1
      <4>1. r.m # n + 1
        BY ONLY <1>2, <2>3, <1>3, n \in Nat
      <4> QED
        BY <1>2, <2>3, <4>1
    <3>2. CASE ~Readable(Word(t, m))
      <4>1. PICK z : z = [r EXCEPT !.read = FALSE]
        OBVIOUS
      <4>2. z = NextWord(t, r)
        BY <1>4, <1>6, <2>3, <3>2, <4>1
      <4>3. z \in R /\ z.m = r.m /\ z.read = FALSE
        BY <4>1 DEF CommandRecord
      <4>4. CommandInv(t, show, z)
        BY <1>1, <3>1, <3>2, <4>3, Zenon DEF CommandInv
      <4> QED
        BY <1>6, <3>1, <4>2, <4>3, <4>4, Zenon
    <3>3. CASE Readable(Word(t, m))
      <4>1. /\ m \in 1 .. n /\ q \in m + 1 .. n + 1 /\ Border(t, q)
            /\ \A j \in Heads(t) : ~(m < j /\ j < q)
        BY <3>1, NextBorder DEF q, w
      <4>2. q \in Nat /\ m < q /\ q \in 1 .. n + 1 /\ q > r.m
        BY ONLY <1>3, <4>1, n \in Nat
      <4>3. Understood(t, show, q, Combine(sign, r.nm, d))
        BY <1>1, <2>1, <3>1, <3>3, <4>1, <4>2, WordUnderstood DEF sign, d
      <4>4. Combine(sign, r.nm, d) \in SUBSET FullMask
        BY <1>1, MaskType DEF Combine, d
      <4>5. PICK z : z = [r EXCEPT !.m = q, !.nm = Combine(sign, r.nm, d)]
        OBVIOUS
      <4>6. z = NextWord(t, r)
        BY <1>4, <1>6, <2>3, <3>3, <4>5
      <4>7. z \in R /\ z.m = q /\ z.read = TRUE /\ z.nm = Combine(sign, r.nm, d)
        BY <1>6, <4>2, <4>4, <4>5 DEF CommandRecord
      <4>8. CommandInv(t, show, z)
        BY <4>1, <4>3, <4>7, Zenon DEF CommandInv
      <4> QED
        BY <1>6, <3>1, <4>2, <4>6, <4>7, <4>8, Zenon
    <3> QED
      BY <3>2, <3>3
  <2> QED
    BY <2>2, <2>3
<1> QED
  BY <1>1, <1>5, <1>6

\* The loop of loot_cmd on a text of n pieces.
Turns(t, show, n, f) ==
    f = [k \in 0 .. n |-> IF k = 0 THEN [m |-> 1, read |-> TRUE, nm |-> show]
                          ELSE NextWord(t, f[k - 1])]

LEMMA FirstCommandInv ==
    ASSUME NEW U, NEW t \in Seq(U), NEW n \in Nat, n = Len(t), NEW show \in SUBSET FullMask,
           NEW r, r = [m |-> 1, read |-> TRUE, nm |-> show]
    PROVE  /\ r \in CommandRecord(n)
           /\ CommandInv(t, show, r)
<1>1. PICK k \in Nat : DOMAIN t = 1 .. k
  BY LenProperties
<1>2. Heads(t) \subseteq 1 .. k
  BY <1>1, Zenon DEF Heads
<1>3. \A I : I \subseteq Heads(t) => Before(I, 1) = {}
  <2>1. \A j \in 1 .. k : ~(j < 1)
    OBVIOUS
  <2> QED
    BY <1>2, <2>1, Zenon DEF Before
<1>4. Before(Heads(t), 1) = {} /\ \A item : AboutTo(t, item, 1) = {}
  BY <1>3, Zenon DEF AboutTo, About
<1>5. Understood(t, show, 1, show)
  BY <1>4, Zenon DEF Understood, ShownTo
<1>6. r.m = 1 /\ r.read = TRUE /\ r.nm = show
  OBVIOUS
<1>7. CommandInv(t, show, r)
  BY <1>5, <1>6, Zenon DEF CommandInv, Border
<1>8. 1 \in 1 .. n + 1
  OBVIOUS
<1> QED
  BY <1>7, <1>8 DEF CommandRecord

LEMMA TurnsExist ==
    ASSUME NEW U, NEW t \in Seq(U), NEW n \in Nat, n = Len(t), NEW show \in SUBSET FullMask
    PROVE  \E f : Turns(t, show, n, f)
<1> DEFINE R == CommandRecord(n)
           S == {r \in R : CommandInv(t, show, r)}
           g == [r \in S |-> NextWord(t, r)]
           x == [m |-> 1, read |-> TRUE, nm |-> show]
<1>1. x \in S
  BY FirstCommandInv
<1>2. \A r \in S : NextWord(t, r) \in S
  BY NextWordInv, Zenon
<1> HIDE DEF S
<1>3. g \in [S -> S]
  BY <1>2
<1>4. PICK f \in [0 .. n -> S] : Iterates(f, g, x, n)
  <2> HIDE DEF g, x
  <2> QED
    BY <1>1, <1>3, IterExists
<1>5. \A k \in 1 .. n : f[k] = NextWord(t, f[k - 1])
  <2>1. ASSUME NEW k \in 1 .. n PROVE f[k] = NextWord(t, f[k - 1])
    <3>1. k - 1 \in 0 .. n
      OBVIOUS
    <3>2. f[k - 1] \in S
      BY <3>1
    <3>3. f[k] = g[f[k - 1]]
      BY <1>4, Zenon DEF Iterates
    <3> QED
      BY <3>2, <3>3
  <2> QED
    BY <2>1
<1>6. f[0] = x
  BY <1>4, Zenon DEF Iterates
<1>7. \A k \in 0 .. n : f[k] = IF k = 0 THEN x ELSE NextWord(t, f[k - 1])
  <2>1. ASSUME NEW k \in 0 .. n PROVE f[k] = IF k = 0 THEN x ELSE NextWord(t, f[k - 1])
    <3>1. k = 0 \/ (k # 0 /\ k \in 1 .. n)
      OBVIOUS
    <3> HIDE DEF x
    <3> QED
      BY <1>5, <1>6, <3>1, Zenon
  <2> QED
    BY <2>1
<1>8. f = [k \in 0 .. n |-> f[k]]
  OBVIOUS
<1> HIDE DEF x
<1>9. f = [k \in 0 .. n |-> IF k = 0 THEN x ELSE NextWord(t, f[k - 1])]
  BY <1>7, <1>8
<1> QED
  BY <1>9, Zenon DEF Turns, x

LEMMA TurnsCommandInv ==
    ASSUME NEW U, NEW t \in Seq(U), NEW n \in Nat, n = Len(t), NEW show \in SUBSET FullMask,
           NEW f, Turns(t, show, n, f)
    PROVE  /\ f[n] \in CommandRecord(n)
           /\ CommandInv(t, show, f[n]) /\ (f[n].read => f[n].m = n + 1)
<1> DEFINE R == CommandRecord(n)
           Good(r, k) == r \in R /\ CommandInv(t, show, r) /\ (~r.read \/ r.m = n + 1 \/ r.m > k)
           S == {k \in Nat : k <= n => Good(f[k], k)}
<1>1. f[0] = [m |-> 1, read |-> TRUE, nm |-> show]
  BY DEF Turns
<1>2. ASSUME NEW k \in Nat, k + 1 <= n PROVE f[k + 1] = NextWord(t, f[k])
  <2>1. k + 1 \in 0 .. n /\ k + 1 # 0 /\ k + 1 - 1 = k
    BY <1>2
  <2>2. \A j \in 0 .. n : j # 0 => f[j] = NextWord(t, f[j - 1])
    BY DEF Turns
  <2> QED
    BY <2>1, <2>2
<1>3. 0 \in S
  <2>1. f[0] \in R /\ CommandInv(t, show, f[0])
    BY <1>1, FirstCommandInv
  <2>2. f[0].m > 0
    BY <1>1
  <2> HIDE DEF R
  <2> QED
    BY <2>1, <2>2
<1>4. ASSUME NEW k \in Nat, k \in S PROVE k + 1 \in S
  <2> SUFFICES ASSUME k + 1 <= n PROVE Good(f[k + 1], k + 1)
    OBVIOUS
  <2>1. PICK r \in R : /\ r = f[k] /\ CommandInv(t, show, r)
                       /\ ~r.read \/ r.m = n + 1 \/ r.m > k
    <3>1. k <= n
      BY ONLY k \in Nat, n \in Nat, k + 1 <= n
    <3> HIDE DEF R
    <3>2. Good(f[k], k)
      BY <1>4, <3>1
    <3> QED
      BY <3>2, Zenon
  <2>2. PICK z : z = NextWord(t, r) /\ z = f[k + 1]
    BY <1>2, <2>1
  <2>3. /\ z \in R /\ CommandInv(t, show, z) /\ (~r.read \/ r.m = n + 1 => z = r)
        /\ ~z.read \/ z.m = n + 1 \/ z.m > r.m
    <3>1. /\ NextWord(t, r) \in R /\ CommandInv(t, show, NextWord(t, r))
          /\ ~r.read \/ r.m = n + 1 => NextWord(t, r) = r
          /\ ~NextWord(t, r).read \/ NextWord(t, r).m = n + 1 \/ NextWord(t, r).m > r.m
      BY <2>1, NextWordInv, Zenon
    <3> HIDE DEF R
    <3> QED
      BY <2>2, <3>1, Zenon
  <2>4. r.m \in Nat /\ z.m \in Nat
    BY <2>3 DEF CommandRecord
  <2>5. ~z.read \/ z.m = n + 1 \/ z.m > k + 1
    <3>1. CASE ~r.read \/ r.m = n + 1
      BY <2>3, <3>1
    <3>2. CASE r.m > k
      BY <2>3, <2>4, <3>2
    <3> QED
      BY <2>1, <3>1, <3>2
  <2> HIDE DEF R
  <2> QED
    BY <2>2, <2>3, <2>5, Zenon
<1> HIDE DEF S
<1>5. n \in S
  BY <1>3, <1>4, NatInd
<1>6. Good(f[n], n)
  BY <1>5 DEF S
<1>7. f[n].m \in 1 .. n + 1
  BY <1>6 DEF CommandRecord
<1>8. f[n].read => f[n].m = n + 1
  BY <1>6, <1>7
<1> QED
  BY <1>6, <1>8, Zenon

LEMMA CommandReadAll ==
    ASSUME NEW U, NEW t \in Seq(U), NEW show \in SUBSET FullMask
    PROVE  CommandAsSaid(t, show)
<1>1. PICK n \in Nat : n = Len(t) /\ DOMAIN t = 1 .. n
  BY LenProperties
<1> DEFINE h == CHOOSE f : Turns(t, show, n, f)
<1>2. Turns(t, show, n, h)
  BY <1>1, TurnsExist
<1>3. loot_cmd(t, show) = IF t = <<"info">> THEN [read |-> TRUE, show |-> show]
                         ELSE IF h[n].read THEN [read |-> TRUE, show |-> h[n].nm] ELSE Unread
  BY <1>1, Zenon DEF loot_cmd, Turns
<1> HIDE DEF h
<1>4. PICK r \in CommandRecord(n) :
        r = h[n] /\ CommandInv(t, show, r) /\ (r.read => r.m = n + 1)
  BY <1>1, <1>2, TurnsCommandInv, Zenon
<1>5. CASE r.read
  <2>1. Understood(t, show, n + 1, r.nm)
    BY <1>4, <1>5, Zenon DEF CommandInv
  <2>2. \A I : I \subseteq 1 .. n => Before(I, n + 1) = I
    <3>1. \A j \in 1 .. n : j < n + 1
      OBVIOUS
    <3> QED
      BY <3>1, Zenon DEF Before
  <2>3. Heads(t) \subseteq 1 .. n /\ \A item : About(t, item) \subseteq Heads(t)
    BY <1>1, Zenon DEF Heads, About
  <2>4. Before(Heads(t), n + 1) = Heads(t) /\ \A item : AboutTo(t, item, n + 1) = About(t, item)
    BY <2>2, <2>3, Zenon DEF AboutTo
  <2>5. \A i \in Heads(t) : Readable(Word(t, i))
    BY <2>1, <2>4, Zenon DEF Understood
  <2>6. \A item \in FullMask : item \in r.nm <=> Shown(t, show, item)
    BY <2>1, <2>4, Zenon DEF Understood, ShownTo, Shown
  <2>7. r.nm = {item \in FullMask : Shown(t, show, item)}
    <3>1. r.nm \in SUBSET FullMask
      BY DEF CommandRecord
    <3> QED
      BY <2>6, <3>1
  <2> QED
    BY <1>3, <1>4, <1>5, <2>5, <2>7, Zenon DEF CommandAsSaid
<1>6. CASE ~r.read
  <2>1. ~\A i \in Heads(t) : Readable(Word(t, i))
    BY <1>4, <1>6, Zenon DEF CommandInv
  <2> QED
    BY <1>3, <1>4, <1>6, <2>1, Zenon DEF CommandAsSaid
<1> QED
  BY <1>5, <1>6

\* A loot command of any length, however blanks and signs divide its words, does
\* what the last word about each item says, or nothing if a word makes no sense or
\* the text is a question.
THEOREM SpecCommandRead == Spec => []CommandRead
<1>1. (\E U : text \in Seq(U)) => CommandRead
  <2>1. FullMask \in SUBSET FullMask /\ {1, 3} \in SUBSET FullMask
    BY DEF FullMask, Items
  <2> QED
    BY <2>1, CommandReadAll, Zenon DEF CommandRead
<1> QED
  BY <1>1, SpecTexts, PTL
-----------------------------------------------------------------------------
(* A line of a file of options. *)

\* A part of a part.
LEMMA SubSub ==
    ASSUME NEW U, NEW t \in Seq(U), NEW n \in Nat, n = Len(t),
           NEW a \in 1 .. n + 1, NEW b \in a - 1 .. n,
           NEW c \in 1 .. b - a + 2, NEW d \in c - 1 .. b - a + 1,
           NEW e, e = a + c - 1, NEW f, f = a + d - 1
    PROVE  SubSeq(SubSeq(t, a, b), c, d) = SubSeq(t, e, f)
<1>1. /\ a \in Nat /\ b \in Int /\ c \in Nat /\ d \in Int /\ b - a + 1 \in Nat
      /\ e \in 1 .. n + 1 /\ f \in e - 1 .. n
      /\ c \in 1 .. (b - a + 1) + 1 /\ f - e + 1 = d - c + 1
  OBVIOUS
<1>2. PICK u \in Seq(U) : /\ u = SubSeq(t, a, b) /\ Len(u) = b - a + 1
                          /\ \A i \in 1 .. b - a + 1 : u[i] = t[a + i - 1]
  <2>1. /\ SubSeq(t, a, b) \in Seq(U) /\ Len(SubSeq(t, a, b)) = b - a + 1
        /\ \A i \in 1 .. b - a + 1 : SubSeq(t, a, b)[i] = t[a + i - 1]
    BY SubSeqFacts
  <2> QED
    BY <2>1, Zenon
<1>3. PICK x \in Seq(U) : /\ x = SubSeq(u, c, d) /\ Len(x) = d - c + 1
                          /\ \A i \in 1 .. d - c + 1 : x[i] = u[c + i - 1]
  <2>1. c \in 1 .. Len(u) + 1 /\ d \in c - 1 .. Len(u)
    BY <1>1, <1>2
  <2>2. /\ SubSeq(u, c, d) \in Seq(U) /\ Len(SubSeq(u, c, d)) = d - c + 1
        /\ \A i \in 1 .. d - c + 1 : SubSeq(u, c, d)[i] = u[c + i - 1]
    BY <2>1, SubSeqFacts
  <2> QED
    BY <2>2, Zenon
<1>4. PICK y \in Seq(U) : /\ y = SubSeq(t, e, f) /\ Len(y) = d - c + 1
                          /\ \A i \in 1 .. d - c + 1 : y[i] = t[e + i - 1]
  <2>1. e \in 1 .. Len(t) + 1 /\ f \in e - 1 .. Len(t)
    BY <1>1
  <2>2. /\ SubSeq(t, e, f) \in Seq(U) /\ Len(SubSeq(t, e, f)) = f - e + 1
        /\ \A i \in 1 .. f - e + 1 : SubSeq(t, e, f)[i] = t[e + i - 1]
    BY <2>1, SubSeqFacts
  <2>3. PICK y : y = SubSeq(t, e, f)
    OBVIOUS
  <2> QED
    BY <1>1, <2>2, <2>3
<1>5. ASSUME NEW i \in 1 .. d - c + 1 PROVE x[i] = y[i]
  <2>1. c + i - 1 \in 1 .. b - a + 1 /\ a + (c + i - 1) - 1 = e + i - 1
    OBVIOUS
  <2> QED
    BY <1>2, <1>3, <1>4, <2>1
<1>6. x = y
  BY <1>3, <1>4, <1>5, SeqEqual
<1> QED
  BY <1>2, <1>3, <1>4, <1>6

\* What is left without the blanks at an end.
LEMMA RstripIs ==
    ASSUME NEW U, NEW t \in Seq(U), NEW n \in Nat, n = Len(t), NEW k \in 0 .. n,
           \A i \in k + 1 .. n : t[i] = " ", k = 0 \/ t[k] # " "
    PROVE  rstrip(t) = SubSeq(t, 1, k)
<1>1. DOMAIN t = 1 .. n
  BY LenProperties
<1> DEFINE I == {i \in 1 .. n : t[i] # " "}
           J == I \cup {0}
<1>2. rstrip(t) = SubSeq(t, 1, Max(J))
  BY <1>1, Zenon DEF rstrip
<1>3. \A i \in I : i \in Nat /\ i <= k
  <2>1. \A i \in I : i \in 1 .. n /\ i \notin k + 1 .. n
    OBVIOUS
  <2>2. \A i \in 1 .. n : i \notin k + 1 .. n => i \in Nat /\ i <= k
    BY ONLY n \in Nat, k \in 0 .. n
  <2> QED
    BY <2>1, <2>2, Zenon
<1>4. k \in J
  <2>1. k = 0 \/ k \in 1 .. n
    BY ONLY n \in Nat, k \in 0 .. n
  <2> QED
    BY <2>1, Zenon
<1>5. \A i \in J : i \in Nat /\ i <= k
  <2>1. 0 \in Nat /\ 0 <= k
    BY ONLY k \in 0 .. n
  <2> QED
    BY <1>3, <2>1, Zenon
<1> HIDE DEF J
<1>6. \A i \in J : k >= i
  BY <1>5
<1>7. Max(J) \in J /\ \A i \in J : Max(J) >= i
  BY <1>4, <1>6, Zenon DEF Max
<1>8. Max(J) = k
  <2>1. PICK x \in J : x = Max(J)
    BY <1>7
  <2>2. x \in Nat /\ x <= k /\ x >= k
    BY <1>4, <1>5, <1>7, <2>1
  <2>3. k \in Nat
    BY ONLY k \in 0 .. n
  <2>4. x = k
    BY ONLY <2>2, <2>3
  <2> QED
    BY <2>1, <2>4
<1> QED
  BY <1>2, <1>8

LEMMA LskipIs ==
    ASSUME NEW U, NEW t \in Seq(U), NEW n \in Nat, n = Len(t), NEW a \in 1 .. n + 1,
           \A i \in 1 .. a - 1 : t[i] = " ", a = n + 1 \/ t[a] # " "
    PROVE  lskip(t) = SubSeq(t, a, n)
<1>1. DOMAIN t = 1 .. n
  BY LenProperties
<1> DEFINE I == {i \in 1 .. n : t[i] # " "}
<1>2. I \subseteq 1 .. n
  OBVIOUS
<1>3. PICK f : f = FirstOf(I, t)
  OBVIOUS
<1>4. f \in I \cup {n + 1} /\ \A j \in I : ~(j < f)
  BY <1>2, <1>3, FirstOfFacts
<1>5. f \in 1 .. n + 1
  <2>1. f \in 1 .. n \/ f = n + 1
    BY <1>4, Zenon
  <2> QED
    BY ONLY <2>1, n \in Nat
<1>6. ~(f < a)
  <2>1. f < a => f \in 1 .. a - 1 /\ f # n + 1
    BY ONLY <1>5, n \in Nat, a \in 1 .. n + 1
  <2>2. \A i \in I : t[i] # " "
    OBVIOUS
  <2> HIDE DEF I
  <2> QED
    BY <1>4, <2>1, <2>2
<1>7. ~(a < f)
  <2>1. a < f => a \in 1 .. n /\ a # n + 1
    BY ONLY <1>5, n \in Nat, a \in 1 .. n + 1
  <2>2. a < f => a \in I
    BY <2>1, Zenon
  <2> HIDE DEF I
  <2> QED
    BY <1>4, <2>2
<1>8. f = a
  BY ONLY <1>5, <1>6, <1>7, n \in Nat, a \in 1 .. n + 1
<1> QED
  BY <1>1, <1>3, <1>8, Zenon DEF lskip, FirstNonblank

\* The same of a part of a text.
LEMMA RstripPart ==
    ASSUME NEW U, NEW t \in Seq(U), NEW n \in Nat, n = Len(t),
           NEW a \in 1 .. n + 1, NEW b \in a - 1 .. n, NEW k \in a - 1 .. b,
           \A i \in k + 1 .. b : t[i] = " ", k = a - 1 \/ t[k] # " "
    PROVE  rstrip(SubSeq(t, a, b)) = SubSeq(t, a, k)
<1>1. PICK l, d : l = b - a + 1 /\ d = k - a + 1
  OBVIOUS
<1>2. l \in Nat /\ a \in Nat /\ b \in Int /\ k \in Int /\ d \in 0 .. l
  BY ONLY <1>1, n \in Nat, a \in 1 .. n + 1, b \in a - 1 .. n, k \in a - 1 .. b
<1>3. PICK u \in Seq(U) : /\ u = SubSeq(t, a, b) /\ Len(u) = l
                          /\ \A i \in 1 .. l : u[i] = t[a + i - 1]
  <2>1. /\ SubSeq(t, a, b) \in Seq(U) /\ Len(SubSeq(t, a, b)) = l
        /\ \A i \in 1 .. l : SubSeq(t, a, b)[i] = t[a + i - 1]
    BY <1>1, SubSeqFacts
  <2> QED
    BY <2>1, Zenon
<1>4. ASSUME NEW i \in d + 1 .. l PROVE u[i] = " "
  <2>1. i \in 1 .. l /\ a + i - 1 \in k + 1 .. b
    BY ONLY <1>2, <1>1, i \in d + 1 .. l
  <2> QED
    BY <1>3, <2>1
<1>5. d = 0 \/ u[d] # " "
  <2>1. d # 0 => d \in 1 .. l /\ a + d - 1 = k /\ k # a - 1
    BY ONLY <1>2, <1>1
  <2> QED
    BY <1>3, <2>1
<1>6. rstrip(u) = SubSeq(u, 1, d)
  BY <1>2, <1>3, <1>4, <1>5, RstripIs
<1>7. SubSeq(SubSeq(t, a, b), 1, d) = SubSeq(t, a, k)
  <2>1. 1 \in 1 .. b - a + 2 /\ d \in 1 - 1 .. b - a + 1 /\ a = a + 1 - 1 /\ k = a + d - 1
    BY ONLY <1>2, <1>1
  <2> QED
    BY ONLY <2>1, SubSub, n \in Nat, n = Len(t), t \in Seq(U), a \in 1 .. n + 1, b \in a - 1 .. n
<1> QED
  BY <1>3, <1>6, <1>7

LEMMA LskipPart ==
    ASSUME NEW U, NEW t \in Seq(U), NEW n \in Nat, n = Len(t),
           NEW a \in 1 .. n + 1, NEW b \in a - 1 .. n, NEW k \in a .. b + 1,
           \A i \in a .. k - 1 : t[i] = " ", k = b + 1 \/ t[k] # " "
    PROVE  lskip(SubSeq(t, a, b)) = SubSeq(t, k, b)
<1>1. PICK l, d : l = b - a + 1 /\ d = k - a + 1
  OBVIOUS
<1>2. l \in Nat /\ a \in Nat /\ b \in Int /\ k \in Int /\ d \in 1 .. l + 1
  BY ONLY <1>1, n \in Nat, a \in 1 .. n + 1, b \in a - 1 .. n, k \in a .. b + 1
<1>3. PICK u \in Seq(U) : /\ u = SubSeq(t, a, b) /\ Len(u) = l
                          /\ \A i \in 1 .. l : u[i] = t[a + i - 1]
  <2>1. /\ SubSeq(t, a, b) \in Seq(U) /\ Len(SubSeq(t, a, b)) = l
        /\ \A i \in 1 .. l : SubSeq(t, a, b)[i] = t[a + i - 1]
    BY <1>1, SubSeqFacts
  <2> QED
    BY <2>1, Zenon
<1>4. ASSUME NEW i \in 1 .. d - 1 PROVE u[i] = " "
  <2>1. i \in 1 .. l /\ a + i - 1 \in a .. k - 1
    BY ONLY <1>2, <1>1, i \in 1 .. d - 1
  <2> QED
    BY <1>3, <2>1
<1>5. d = l + 1 \/ u[d] # " "
  <2>1. d # l + 1 => d \in 1 .. l /\ a + d - 1 = k /\ k # b + 1
    BY ONLY <1>2, <1>1
  <2> QED
    BY <1>3, <2>1
<1>6. lskip(u) = SubSeq(u, d, l)
  BY <1>2, <1>3, <1>4, <1>5, LskipIs
<1>7. SubSeq(SubSeq(t, a, b), d, l) = SubSeq(t, k, b)
  <2>1. d \in 1 .. b - a + 2 /\ l \in d - 1 .. b - a + 1 /\ k = a + d - 1 /\ b = a + l - 1
    BY ONLY <1>2, <1>1
  <2> QED
    BY ONLY <2>1, SubSub, n \in Nat, n = Len(t), t \in Seq(U), a \in 1 .. n + 1, b \in a - 1 .. n
<1> QED
  BY <1>3, <1>6, <1>7

LEMMA FirstNonblankIs ==
    ASSUME NEW U, NEW t \in Seq(U), NEW n \in Nat, n = Len(t), NEW a \in 1 .. n,
           t[a] # " ", \A i \in 1 .. a - 1 : t[i] = " "
    PROVE  FirstNonblank(t) = a
<1> DEFINE I == {i \in DOMAIN t : t[i] # " "}
<1>1. DOMAIN t = 1 .. n
  BY LenProperties
<1>2. a \in I
  BY <1>1, Zenon
<1>3. \A i \in I : i \in 1 .. n /\ t[i] # " "
  BY <1>1, Zenon
<1> HIDE DEF I
<1>4. I \subseteq 1 .. n /\ \A i \in I : a <= i
  <2>1. \A i \in 1 .. n : a <= i \/ i \in 1 .. a - 1
    BY ONLY n \in Nat, a \in 1 .. n
  <2> QED
    BY <1>3, <2>1, Zenon
<1>5. FirstOf(I, t) = a
  BY <1>2, <1>4, FirstOfIs, Zenon
<1> QED
  BY <1>5 DEF FirstNonblank, I

\* The search from place a on stops at place k.
Stops(t, a, c, k) == t[k] = c \/ (a < k /\ t[k] = ";" /\ t[k - 1] = " ")

Searched(t, a, b, c) ==
    \E k \in a .. b + 1 :
       /\ find_char_or_comment(SubSeq(t, a, b), c) = k - a + 1
       /\ k = b + 1 \/ Stops(t, a, c, k)
       /\ \A i \in a .. k - 1 : ~Stops(t, a, c, i)
       /\ Finds(SubSeq(t, a, b), c) <=> k # b + 1 /\ t[k] = c

LEMMA FindInside ==
    ASSUME NEW U, NEW t \in Seq(U), NEW n \in Nat, n = Len(t),
           NEW a \in 1 .. n + 1, NEW b \in a - 1 .. n, NEW c
    PROVE  Searched(t, a, b, c)
<1> DEFINE l == b - a + 1
<1>1. l \in Nat /\ a \in Nat /\ b \in Int /\ b + 1 = a + l
  OBVIOUS
<1>2. PICK u \in Seq(U) : /\ u = SubSeq(t, a, b) /\ Len(u) = l
                          /\ \A i \in 1 .. l : u[i] = t[a + i - 1]
  <2>1. /\ SubSeq(t, a, b) \in Seq(U) /\ Len(SubSeq(t, a, b)) = l
        /\ \A i \in 1 .. l : SubSeq(t, a, b)[i] = t[a + i - 1]
    BY SubSeqFacts
  <2> QED
    BY <2>1, Zenon
<1>3. DOMAIN u = 1 .. l
  BY <1>2, LenProperties
<1> HIDE DEF l
<1>4. ASSUME NEW i \in 1 .. l
      PROVE  (u[i] = c \/ Comment(u, i)) <=> Stops(t, a, c, a + i - 1)
  <2>1. u[i] = t[a + i - 1]
    BY <1>2
  <2>2. CASE i = 1
    <3>1. a + i - 1 = a /\ ~(i > 1) /\ ~(a < a)
      BY ONLY <1>1, <2>2
    <3> QED
      BY <2>1, <3>1, Zenon DEF Comment, Stops
  <2>3. CASE i # 1
    <3>1. PICK k : k = a + i - 1
      OBVIOUS
    <3>2. i - 1 \in 1 .. l /\ a + (i - 1) - 1 = k - 1 /\ i > 1 /\ a < k
      BY ONLY <1>1, <2>3, <3>1, i \in 1 .. l
    <3>3. u[i - 1] = t[k - 1] /\ u[i] = t[k]
      BY <1>2, <2>1, <3>1, <3>2
    <3>4. Comment(u, i) <=> t[k] = ";" /\ t[k - 1] = " "
      BY <3>2, <3>3, Zenon DEF Comment
    <3>5. Stops(t, a, c, k) <=> t[k] = c \/ (t[k] = ";" /\ t[k - 1] = " ")
      BY <3>2, Zenon DEF Stops
    <3> QED
      BY <3>1, <3>3, <3>4, <3>5, Zenon
  <2> QED
    BY <2>2, <2>3
<1> DEFINE I == {i \in 1 .. l : u[i] = c \/ Comment(u, i)}
<1>5. PICK f : f = FirstOf(I, u)
  OBVIOUS
<1>6. find_char_or_comment(u, c) = f
  BY <1>3, <1>5, Zenon DEF find_char_or_comment
<1>7. f \in I \cup {l + 1} /\ \A j \in I : ~(j < f)
  <2>1. I \subseteq 1 .. l
    OBVIOUS
  <2> HIDE DEF I
  <2> QED
    BY <1>1, <1>2, <1>5, <2>1, FirstOfFacts
<1>8. f \in 1 .. l + 1
  <2>1. f \in 1 .. l \/ f = l + 1
    BY <1>7, Zenon
  <2> QED
    BY ONLY <2>1, <1>1
<1>9. PICK k : k = a + f - 1
  OBVIOUS
<1>10. /\ k \in a .. b + 1 /\ k = a + f - 1 /\ f = k - a + 1 /\ (k = b + 1 <=> f = l + 1)
      /\ (f = l + 1 <=> ~(f < l + 1))
  BY ONLY <1>1, <1>8, <1>9
<1>11. k = b + 1 \/ Stops(t, a, c, k)
  <2>1. CASE f = l + 1
    BY <1>10, <2>1
  <2>2. CASE f # l + 1
    <3>1. f \in 1 .. l /\ (u[f] = c \/ Comment(u, f))
      BY <1>7, <2>2, Zenon
    <3> QED
      BY <1>4, <1>10, <3>1
  <2> QED
    BY <2>1, <2>2
<1>12. ASSUME NEW i \in a .. k - 1 PROVE ~Stops(t, a, c, i)
  <2>1. PICK j \in 1 .. l : a + j - 1 = i /\ j < f
    <3>1. i - a + 1 \in 1 .. l /\ a + (i - a + 1) - 1 = i /\ i - a + 1 < f
      BY ONLY <1>1, <1>8, <1>10, i \in a .. k - 1
    <3> QED
      BY <3>1
  <2>2. ~(u[j] = c \/ Comment(u, j))
    BY <1>7, <2>1, Zenon
  <2> QED
    BY <1>4, <2>1, <2>2
<1>13. Finds(u, c) <=> k # b + 1 /\ t[k] = c
  <2>1. Finds(u, c) <=> f < l + 1 /\ u[f] = c
    BY <1>2, <1>6, Zenon DEF Finds, End
  <2>2. CASE f = l + 1
    BY <1>10, <2>1, <2>2
  <2>3. CASE f # l + 1
    <3>1. f \in 1 .. l
      BY ONLY <1>1, <1>8, <2>3
    <3>2. u[f] = t[k]
      BY <1>2, <1>10, <3>1
    <3> QED
      BY <1>10, <2>1, <2>3, <3>2, Zenon
  <2> QED
    BY <2>2, <2>3
<1>14. find_char_or_comment(SubSeq(t, a, b), c) = k - a + 1
  BY <1>2, <1>6, <1>10
<1> QED
  BY <1>2, <1>10, <1>11, <1>12, <1>13, <1>14, Zenon DEF Searched

\* A part is made of its bytes.
LEMMA PartFacts ==
    ASSUME NEW U, NEW t \in Seq(U), NEW n \in Nat, n = Len(t),
           NEW a \in 1 .. n + 1, NEW e \in a .. n + 1
    PROVE  /\ Part(t, a, e) \in Seq(U) /\ Len(Part(t, a, e)) = e - a
           /\ \A i \in 1 .. e - a : Part(t, a, e)[i] = t[a + i - 1]
<1>1. PICK b : b = e - 1
  OBVIOUS
<1>2. b \in a - 1 .. n /\ b - a + 1 = e - a
  BY <1>1
<1>3. /\ SubSeq(t, a, b) \in Seq(U) /\ Len(SubSeq(t, a, b)) = b - a + 1
      /\ \A i \in 1 .. b - a + 1 : SubSeq(t, a, b)[i] = t[a + i - 1]
  BY <1>2, SubSeqFacts
<1> QED
  BY <1>1, <1>2, <1>3, Zenon DEF Part

LEMMA PartPart ==
    ASSUME NEW U, NEW t \in Seq(U), NEW n \in Nat, n = Len(t),
           NEW a \in 1 .. n + 1, NEW b \in a - 1 .. n, NEW k \in a .. b + 1
    PROVE  Part(SubSeq(t, a, b), 1, k - a + 1) = Part(t, a, k)
<1>1. /\ 1 \in 1 .. b - a + 2 /\ (k - a + 1) - 1 \in 1 - 1 .. b - a + 1
      /\ a = a + 1 - 1 /\ k - 1 = a + ((k - a + 1) - 1) - 1
  BY ONLY n \in Nat, a \in 1 .. n + 1, b \in a - 1 .. n, k \in a .. b + 1
<1>2. SubSeq(SubSeq(t, a, b), 1, (k - a + 1) - 1) = SubSeq(t, a, k - 1)
  BY ONLY <1>1, SubSub, n \in Nat, n = Len(t), t \in Seq(U), a \in 1 .. n + 1, b \in a - 1 .. n
<1> QED
  BY <1>2, Zenon DEF Part

\* There is no comment from a to e.
LEMMA PlainPart ==
    ASSUME NEW U, NEW t \in Seq(U), NEW n \in Nat, n = Len(t),
           NEW a \in 1 .. n + 1, NEW e \in a .. n + 1
    PROVE  Plain(Part(t, a, e)) <=> \A i \in a + 1 .. e - 1 : ~(t[i - 1] = " " /\ t[i] = ";")
<1> DEFINE l == e - a
<1>1. l \in Nat /\ a \in Nat /\ e \in Nat
  OBVIOUS
<1>2. PICK u \in Seq(U) : /\ u = Part(t, a, e) /\ Len(u) = l
                          /\ \A i \in 1 .. l : u[i] = t[a + i - 1]
  <2>1. /\ Part(t, a, e) \in Seq(U) /\ Len(Part(t, a, e)) = l
        /\ \A i \in 1 .. l : Part(t, a, e)[i] = t[a + i - 1]
    BY PartFacts, ZenonT(60)
  <2> QED
    BY <2>1, Zenon
<1>3. Plain(u) <=> \A i \in 2 .. l : ~(u[i - 1] = " " /\ u[i] = ";")
  BY <1>2, Zenon DEF Plain
<1> HIDE DEF l
<1>4. ASSUME NEW i \in 2 .. l PROVE u[i] = t[a + i - 1] /\ u[i - 1] = t[a + i - 1 - 1]
  <2>1. i \in 1 .. l /\ i - 1 \in 1 .. l /\ a + (i - 1) - 1 = a + i - 1 - 1
    BY ONLY <1>1, i \in 2 .. l
  <2> QED
    BY <1>2, <2>1
<1>5. ASSUME Plain(u), NEW i \in a + 1 .. e - 1 PROVE ~(t[i - 1] = " " /\ t[i] = ";")
  <2>1. PICK j \in 2 .. l : a + j - 1 = i
    <3>1. i - a + 1 \in 2 .. l /\ a + (i - a + 1) - 1 = i
      BY ONLY <1>1, i \in a + 1 .. e - 1 DEF l
    <3> QED
      BY <3>1
  <2>2. a + j - 1 - 1 = i - 1
    BY <2>1
  <2>3. u[j] = t[i] /\ u[j - 1] = t[i - 1]
    BY <1>4, <2>1, <2>2, Zenon
  <2> QED
    BY <1>3, <1>5, <2>3, Zenon
<1>6. ASSUME \A i \in a + 1 .. e - 1 : ~(t[i - 1] = " " /\ t[i] = ";") PROVE Plain(u)
  <2> SUFFICES ASSUME NEW j \in 2 .. l PROVE ~(u[j - 1] = " " /\ u[j] = ";")
    BY <1>3
  <2>1. PICK k \in a + 1 .. e - 1 : k = a + j - 1
    <3>1. a + j - 1 \in a + 1 .. e - 1
      BY ONLY <1>1, j \in 2 .. l DEF l
    <3> QED
      BY <3>1
  <2>2. a + j - 1 - 1 = k - 1
    BY <2>1
  <2>3. u[j] = t[k] /\ u[j - 1] = t[k - 1]
    BY <1>4, <2>1, <2>2, Zenon
  <2> QED
    BY <1>6, <2>3, Zenon
<1> QED
  BY <1>2, <1>5, <1>6, Zenon

\* And only blanks.
LEMMA BlankPart ==
    ASSUME NEW U, NEW t \in Seq(U), NEW n \in Nat, n = Len(t),
           NEW a \in 1 .. n + 1, NEW e \in a .. n + 1
    PROVE  Blank(Part(t, a, e)) <=> \A i \in a .. e - 1 : t[i] = " "
<1> DEFINE l == e - a
<1>1. l \in Nat /\ a \in Nat /\ e \in Nat
  OBVIOUS
<1>2. PICK u \in Seq(U) : /\ u = Part(t, a, e) /\ Len(u) = l
                          /\ \A i \in 1 .. l : u[i] = t[a + i - 1]
  <2>1. /\ Part(t, a, e) \in Seq(U) /\ Len(Part(t, a, e)) = l
        /\ \A i \in 1 .. l : Part(t, a, e)[i] = t[a + i - 1]
    BY PartFacts, ZenonT(60)
  <2> QED
    BY <2>1, Zenon
<1>3. DOMAIN u = 1 .. l
  BY <1>2, LenProperties
<1>4. Blank(u) <=> \A i \in 1 .. l : u[i] = " "
  BY <1>3, Zenon DEF Blank
<1> HIDE DEF l
<1>5. ASSUME Blank(u), NEW i \in a .. e - 1 PROVE t[i] = " "
  <2>1. PICK j \in 1 .. l : a + j - 1 = i
    <3>1. i - a + 1 \in 1 .. l /\ a + (i - a + 1) - 1 = i
      BY ONLY <1>1, i \in a .. e - 1 DEF l
    <3> QED
      BY <3>1
  <2> QED
    BY <1>2, <1>4, <1>5, <2>1
<1>6. ASSUME \A i \in a .. e - 1 : t[i] = " " PROVE Blank(u)
  <2> SUFFICES ASSUME NEW j \in 1 .. l PROVE u[j] = " "
    BY <1>4
  <2>1. a + j - 1 \in a .. e - 1
    BY ONLY <1>1, j \in 1 .. l DEF l
  <2> QED
    BY <1>2, <1>6, <2>1
<1> QED
  BY <1>2, <1>5, <1>6, Zenon

\* The line goes from place a to place b.
Extent(t, a, b) ==
    /\ t[a] # " " /\ t[b] # " "
    /\ \A i \in 1 .. a - 1 : t[i] = " "
    /\ \A i \in b + 1 .. Len(t) : t[i] = " "

LEMMA LineExtent ==
    ASSUME NEW U, NEW t \in Seq(U), NEW n \in Nat, n = Len(t), ~Blank(t)
    PROVE  \E a, b \in 1 .. n :
              /\ a <= b /\ Extent(t, a, b) /\ lskip(rstrip(t)) = SubSeq(t, a, b)
              /\ FirstNonblank(t) = a
<1>1. DOMAIN t = 1 .. n
  BY LenProperties
<1> DEFINE I == {i \in 1 .. n : t[i] # " "}
<1>2. I # {} /\ I \subseteq 1 .. n
  BY <1>1, Zenon DEF Blank
<1>3. \A i \in 1 .. n : i \notin I => t[i] = " "
  OBVIOUS
<1>4. \A i \in I : t[i] # " "
  OBVIOUS
<1> HIDE DEF I
<1>5. PICK b \in I : \A y \in I : y <= b
  BY <1>2, MaxFacts
<1>6. PICK a \in I : \A y \in I : a <= y
  <2>1. I \subseteq Nat
    BY <1>2
  <2> QED
    BY <1>2, <2>1, MinFacts
<1>7. a \in 1 .. n /\ b \in 1 .. n /\ a <= b /\ t[a] # " " /\ t[b] # " "
  BY <1>2, <1>4, <1>5, Zenon
<1>8. a \in 1 .. n /\ b \in 1 .. n /\ a <= b
  BY <1>7, Zenon
<1>9. ASSUME NEW i \in 1 .. a - 1 PROVE t[i] = " "
  <2>1. i \in 1 .. n /\ ~(a <= i)
    BY ONLY i \in 1 .. a - 1, <1>8, n \in Nat
  <2> QED
    BY <1>3, <1>6, <2>1
<1>10. ASSUME NEW i \in b + 1 .. n PROVE t[i] = " "
  <2>1. i \in 1 .. n /\ ~(i <= b)
    BY ONLY i \in b + 1 .. n, <1>8, n \in Nat
  <2> QED
    BY <1>3, <1>5, <2>1
<1>11. Extent(t, a, b)
  BY <1>7, <1>9, <1>10, Zenon DEF Extent
<1>12. rstrip(t) = SubSeq(t, 1, b)
  <2>1. b \in 0 .. n
    BY ONLY <1>8, n \in Nat
  <2> QED
    BY <1>7, <1>10, <2>1, RstripIs
<1>13. lskip(SubSeq(t, 1, b)) = SubSeq(t, a, b)
  <2>1. 1 \in 1 .. n + 1 /\ b \in 1 - 1 .. n /\ a \in 1 .. b + 1
    BY ONLY <1>8, n \in Nat
  <2> QED
    BY <1>7, <1>9, <2>1, LskipPart, ZenonT(60)
<1>14. FirstNonblank(t) = a
  <2>1. t[a] # " " /\ \A i \in 1 .. a - 1 : t[i] = " "
    BY <1>7, <1>9, Zenon
  <2> QED
    BY <1>8, <2>1, FirstNonblankIs, Zenon
<1> QED
  BY <1>7, <1>11, <1>12, <1>13, <1>14, Zenon

\* What is made of it.
LEMMA LineCases ==
    ASSUME NEW U, NEW t \in Seq(U), NEW n \in Nat, n = Len(t),
           NEW a \in 1 .. n, NEW b \in 1 .. n, a <= b, lskip(rstrip(t)) = SubSeq(t, a, b)
    PROVE  LET start == SubSeq(t, a, b)
               inside == SubSeq(t, a + 1, b)
           IN  /\ t[a] \in {";", "#"} => Contents(t) = Nothing
               /\ t[a] = "[" =>
                     Contents(t) = IF Finds(inside, "]")
                                   THEN Section(Part(inside, 1, find_char_or_comment(inside, "]")))
                                   ELSE Error
               /\ t[a] \notin {"[", ";", "#"} =>
                     Contents(t) = IF Finds(start, "=") \/ Finds(start, ":")
                                   THEN Pair(rstrip(Part(start, 1, Separator(start))), Value(start))
                                   ELSE Error
<1>1. PICK s \in Seq(U) : /\ s = SubSeq(t, a, b) /\ Len(s) = b - a + 1
                          /\ s[1] = t[a] /\ s # <<>>
  <2>1. a \in 1 .. n + 1 /\ b \in a - 1 .. n /\ 1 \in 1 .. b - a + 1 /\ a + 1 - 1 = a /\ b - a + 1 # 0
    OBVIOUS
  <2>2. /\ SubSeq(t, a, b) \in Seq(U) /\ Len(SubSeq(t, a, b)) = b - a + 1
        /\ \A i \in 1 .. b - a + 1 : SubSeq(t, a, b)[i] = t[a + i - 1]
    BY <2>1, SubSeqFacts
  <2>3. PICK s : s = SubSeq(t, a, b)
    OBVIOUS
  <2>4. s \in Seq(U) /\ Len(s) = b - a + 1 /\ s[1] = t[a]
    BY <2>1, <2>2, <2>3
  <2>5. s # <<>>
    BY <2>1, <2>4
  <2> QED
    BY <2>3, <2>4, <2>5
<1>2. Tail(s) = SubSeq(t, a + 1, b)
  <2>1. Tail(s) = SubSeq(s, 2, b - a + 1)
    BY <1>1, HeadTailProperties
  <2>2. /\ a \in 1 .. n + 1 /\ b \in a - 1 .. n /\ 2 \in 1 .. b - a + 2
        /\ b - a + 1 \in 2 - 1 .. b - a + 1 /\ a + 2 - 1 = a + 1 /\ a + (b - a + 1) - 1 = b
    OBVIOUS
  <2>3. PICK d \in Int : d = b - a + 1
    OBVIOUS
  <2>4. SubSeq(SubSeq(t, a, b), 2, d) = SubSeq(t, a + 2 - 1, a + d - 1)
    BY <2>2, <2>3, SubSub
  <2> QED
    BY <1>1, <2>1, <2>2, <2>3, <2>4
<1>3. Contents(t) = IF s = <<>> \/ s[1] \in {";", "#"} THEN Nothing
                   ELSE IF s[1] = "["
                   THEN IF Finds(Tail(s), "]")
                        THEN Section(Part(Tail(s), 1, find_char_or_comment(Tail(s), "]")))
                        ELSE Error
                   ELSE IF Finds(s, "=") \/ Finds(s, ":")
                   THEN Pair(rstrip(Part(s, 1, Separator(s))), Value(s))
                   ELSE Error
  BY <1>1, Zenon DEF Contents
<1>4. s[1] \in {";", "#"} => Contents(t) = Nothing
  BY <1>1, <1>3
<1>5. s[1] = "[" =>
         Contents(t) = IF Finds(Tail(s), "]")
                       THEN Section(Part(Tail(s), 1, find_char_or_comment(Tail(s), "]")))
                       ELSE Error
  BY <1>1, <1>3
<1>6. s[1] \notin {"[", ";", "#"} =>
         Contents(t) = IF Finds(s, "=") \/ Finds(s, ":")
                       THEN Pair(rstrip(Part(s, 1, Separator(s))), Value(s))
                       ELSE Error
  BY <1>1, <1>3
<1> QED
  BY <1>1, <1>2, <1>4, <1>5, <1>6, Zenon

\* Nothing of a part stops the search: it has no comment and no c.
LEMMA NoStop ==
    ASSUME NEW U, NEW t \in Seq(U), NEW n \in Nat, n = Len(t),
           NEW a \in 1 .. n + 1, NEW e \in a .. n + 1, NEW c
    PROVE  (\A i \in a .. e - 1 : ~Stops(t, a, c, i)) <=>
              Plain(Part(t, a, e)) /\ \A i \in a .. e - 1 : t[i] # c
<1>1. Plain(Part(t, a, e)) <=> \A i \in a + 1 .. e - 1 : ~(t[i - 1] = " " /\ t[i] = ";")
  BY PlainPart
<1>2. \A i : i \in a + 1 .. e - 1 <=> i \in a .. e - 1 /\ a < i
  BY ONLY a \in 1 .. n + 1, e \in a .. n + 1, n \in Nat
<1> QED
  BY <1>1, <1>2, Zenon DEF Stops

\* Nothing is left between a place and the one before it.
LEMMA NoPart ==
    ASSUME NEW U, NEW t \in Seq(U), NEW n \in Nat, n = Len(t), NEW a \in 1 .. n + 1,
           NEW b, b = a - 1
    PROVE  SubSeq(t, a, b) = <<>>
<1>1. b \in a - 1 .. n /\ b - a + 1 = 0
  OBVIOUS
<1>2. SubSeq(t, a, b) \in Seq(U) /\ Len(SubSeq(t, a, b)) = b - a + 1
  BY <1>1, SubSeqFacts
<1> QED
  BY <1>1, <1>2, EmptySeq

\* Blanks are no line.
LEMMA BlankLine ==
    ASSUME NEW U, NEW t \in Seq(U), Blank(t)
    PROVE  Contents(t) = Nothing
<1>1. PICK n \in Nat : n = Len(t)
  BY LenProperties
<1>2. \A i \in 1 .. n : t[i] = " "
  BY <1>1, LenProperties DEF Blank
<1>3. rstrip(t) = SubSeq(t, 1, 0)
  <2>1. 0 \in 0 .. n /\ \A i : i \in 0 + 1 .. n => i \in 1 .. n
    BY ONLY n \in Nat
  <2>2. \A i \in 0 + 1 .. n : t[i] = " "
    BY <1>2, <2>1, Zenon
  <2> QED
    BY <1>1, <2>1, <2>2, RstripIs
<1>4. SubSeq(t, 1, 0) = <<>>
  <2>1. 1 \in 1 .. n + 1 /\ 0 = 1 - 1
    OBVIOUS
  <2> QED
    BY <1>1, <2>1, NoPart
<1>5. lskip(SubSeq(t, 1, 0)) = SubSeq(t, 1, 0)
  <2>1. /\ 1 \in 1 .. n + 1 /\ 0 \in 1 - 1 .. n /\ 1 \in 1 .. 0 + 1 /\ 1 = 0 + 1
        /\ \A i \in 1 .. 1 - 1 : t[i] = " "
    OBVIOUS
  <2> QED
    BY <1>1, <2>1, LskipPart
<1>6. PICK s : s = lskip(rstrip(t))
  OBVIOUS
<1>7. s = <<>>
  BY <1>3, <1>4, <1>5, <1>6
<1>8. Contents(t) = IF s = <<>> \/ s[1] \in {";", "#"} THEN Nothing
                   ELSE IF s[1] = "["
                   THEN IF Finds(Tail(s), "]")
                        THEN Section(Part(Tail(s), 1, find_char_or_comment(Tail(s), "]")))
                        ELSE Error
                   ELSE IF Finds(s, "=") \/ Finds(s, ":")
                   THEN Pair(rstrip(Part(s, 1, Separator(s))), Value(s))
                   ELSE Error
  BY <1>6, Zenon DEF Contents
<1> QED
  BY <1>7, <1>8

\* A section.
LEMMA SectionLine ==
    ASSUME NEW U, NEW t \in Seq(U), NEW n \in Nat, n = Len(t),
           NEW a \in 1 .. n, NEW b \in 1 .. n, a <= b, Extent(t, a, b),
           lskip(rstrip(t)) = SubSeq(t, a, b), t[a] = "["
    PROVE  /\ Contents(t) \in {Error} \cup {Section(Part(t, a + 1, e)) : e \in Closing(t, a)}
           /\ Contents(t) = Error <=> Closing(t, a) = {}
<1>1. PICK c : c = a + 1
  OBVIOUS
<1>2. c \in 1 .. n + 1 /\ b \in c - 1 .. n
  BY <1>1
<1>3. PICK k \in c .. b + 1 :
         /\ find_char_or_comment(SubSeq(t, c, b), "]") = k - c + 1
         /\ k = b + 1 \/ Stops(t, c, "]", k)
         /\ \A i \in c .. k - 1 : ~Stops(t, c, "]", i)
         /\ Finds(SubSeq(t, c, b), "]") <=> k # b + 1 /\ t[k] = "]"
  <2>1. Searched(t, c, b, "]")
    BY <1>2, FindInside
  <2> QED
    BY <2>1, Zenon DEF Searched
<1>4. ASSUME NEW e \in c .. n
      PROVE  e \in Closing(t, a) <=> t[e] = "]" /\ \A i \in c .. e - 1 : ~Stops(t, c, "]", i)
  <2>1. e \in c .. n + 1
    BY <1>2
  <2>2. (\A i \in c .. e - 1 : ~Stops(t, c, "]", i)) <=>
           Plain(Part(t, c, e)) /\ \A i \in c .. e - 1 : t[i] # "]"
    BY <1>2, <2>1, NoStop
  <2> QED
    BY <1>1, <2>2, Zenon DEF Closing
<1>5. Contents(t) = IF Finds(SubSeq(t, c, b), "]")
                    THEN Section(Part(SubSeq(t, c, b), 1, k - c + 1))
                    ELSE Error
  BY <1>1, <1>3, LineCases
<1>6. CASE k # b + 1 /\ t[k] = "]"
  <2>1. k \in c .. n
    BY ONLY <1>2, <1>6, k \in c .. b + 1, n \in Nat, a \in 1 .. n, b \in 1 .. n, <1>1
  <2>2. k \in Closing(t, a)
    BY <1>3, <1>4, <1>6, <2>1, Zenon
  <2>3. Part(SubSeq(t, c, b), 1, k - c + 1) = Part(t, c, k)
    BY <1>2, PartPart, Zenon
  <2>4. Contents(t) = Section(Part(t, c, k))
    BY <1>3, <1>5, <1>6, <2>3
  <2>5. Contents(t) # Error
    BY <2>4 DEF Section, Error
  <2> QED
    BY <1>1, <2>2, <2>4, <2>5, Zenon
<1>7. CASE ~(k # b + 1 /\ t[k] = "]")
  <2>1. Contents(t) = Error
    BY <1>3, <1>5, <1>7, Zenon
  <2>2. ASSUME NEW e \in Closing(t, a) PROVE FALSE
    <3>1. e \in c .. n /\ t[e] = "]"
      BY <1>1, <2>2, Zenon DEF Closing
    <3>2. \A i \in c .. e - 1 : ~Stops(t, c, "]", i)
      BY <1>4, <2>2, <3>1, Zenon
    <3>3. e \notin b + 1 .. n
      BY <3>1 DEF Extent
    <3>4. e \notin c .. k - 1
      BY <1>3, <3>1, Zenon DEF Stops
    <3>5. k # b + 1 => k \notin c .. e - 1
      BY <1>3, <3>2, Zenon
    <3>6. k = e /\ k # b + 1
      BY ONLY <1>2, <3>1, <3>3, <3>4, <3>5, <1>1, k \in c .. b + 1, n \in Nat, a \in 1 .. n, b \in 1 .. n
    <3> QED
      BY <1>7, <3>1, <3>6
  <2> QED
    BY <2>1, <2>2, Zenon
<1> QED
  BY <1>6, <1>7, Zenon

\* The name and the separator are where they are found.
LEMMA NameFound ==
    ASSUME NEW U, NEW t \in Seq(U), NEW n \in Nat, n = Len(t),
           NEW a \in 1 .. n, NEW b \in 1 .. n, a <= b, Extent(t, a, b),
           NEW s \in 1 .. n, NEW p \in 1 .. n, NamePlace(t, s, p)
    PROVE  /\ s = a /\ p \in a .. b
           /\ Finds(SubSeq(t, a, b), "=") \/ Finds(SubSeq(t, a, b), ":")
           /\ Separator(SubSeq(t, a, b)) = p - a + 1
<1>1. a \in 1 .. n + 1 /\ b \in a - 1 .. n /\ s \in 1 .. n + 1 /\ p \in 1 .. n + 1 /\ 1 \in 1 .. n + 1
  OBVIOUS
<1>2. /\ s <= p /\ Blank(Part(t, 1, s)) /\ t[s] # " "
      /\ t[p] = "=" \/ t[p] = ":"
      /\ t[p] # "=" => \A i \in p .. n : t[i] = "=" => ~Plain(Part(t, s, i))
      /\ Plain(Part(t, s, p)) /\ \A i \in s .. p - 1 : t[i] # "=" /\ t[i] # t[p]
  BY Zenon DEF NamePlace
<1>3. s = a
  <2>1. s \in 1 .. n + 1
    BY <1>1
  <2>2. \A i \in 1 .. s - 1 : t[i] = " "
    BY <1>1, <1>2, <2>1, BlankPart
  <2>3. a \notin 1 .. s - 1
    BY <2>2 DEF Extent
  <2>4. s \notin 1 .. a - 1
    BY <1>2 DEF Extent
  <2> QED
    BY ONLY <2>3, <2>4, a \in 1 .. n, s \in 1 .. n, n \in Nat
<1>4. p \in a .. b
  <2>1. p \notin b + 1 .. n
    BY <1>2 DEF Extent
  <2>2. s <= p
    BY <1>2, Zenon
  <2> QED
    BY ONLY <2>2, <1>3, <2>1, n \in Nat, a \in 1 .. n, b \in 1 .. n, p \in 1 .. n
<1>5. ASSUME NEW c, \A i \in a .. p - 1 : t[i] # c
      PROVE  \A i \in a .. p - 1 : ~Stops(t, a, c, i)
  <2>1. p \in a .. n + 1
    BY <1>4
  <2> QED
    BY <1>1, <1>2, <1>3, <1>5, <2>1, NoStop
<1>6. PICK k \in a .. b + 1 :
         /\ find_char_or_comment(SubSeq(t, a, b), "=") = k - a + 1
         /\ k = b + 1 \/ Stops(t, a, "=", k)
         /\ \A i \in a .. k - 1 : ~Stops(t, a, "=", i)
         /\ Finds(SubSeq(t, a, b), "=") <=> k # b + 1 /\ t[k] = "="
  <2>1. Searched(t, a, b, "=")
    BY <1>1, FindInside
  <2> QED
    BY <2>1, Zenon DEF Searched
<1>7. PICK m \in a .. b + 1 :
         /\ find_char_or_comment(SubSeq(t, a, b), ":") = m - a + 1
         /\ m = b + 1 \/ Stops(t, a, ":", m)
         /\ \A i \in a .. m - 1 : ~Stops(t, a, ":", i)
         /\ Finds(SubSeq(t, a, b), ":") <=> m # b + 1 /\ t[m] = ":"
  <2>1. Searched(t, a, b, ":")
    BY <1>1, FindInside
  <2> QED
    BY <2>1, Zenon DEF Searched
<1>8. \A i \in a .. p - 1 : ~Stops(t, a, "=", i)
  BY <1>2, <1>3, <1>5
<1>9. k \in p .. b + 1
  <2>1. k # b + 1 => k \notin a .. p - 1
    BY <1>6, <1>8, Zenon
  <2> QED
    BY ONLY <1>4, <2>1, k \in a .. b + 1, n \in Nat, a \in 1 .. n, b \in 1 .. n
<1>10. CASE t[p] = "="
  <2>1. p \notin a .. k - 1
    BY <1>6, <1>10, Zenon DEF Stops
  <2>2. k = p /\ k # b + 1
    BY ONLY <1>4, <1>9, <2>1, n \in Nat, a \in 1 .. n, b \in 1 .. n
  <2>3. Finds(SubSeq(t, a, b), "=")
    BY <1>6, <1>10, <2>2
  <2>4. Separator(SubSeq(t, a, b)) = find_char_or_comment(SubSeq(t, a, b), "=")
    BY <2>3, Zenon DEF Separator
  <2> QED
    BY <1>3, <1>4, <1>6, <2>2, <2>3, <2>4, Zenon
<1>11. CASE t[p] # "="
  <2>1. t[p] = ":" /\ \A i \in a .. p - 1 : t[i] # ":"
    BY <1>2, <1>3, <1>11
  <2>2. \A i \in a .. p - 1 : ~Stops(t, a, ":", i)
    BY <1>5, <2>1
  <2>3. m # b + 1 => m \notin a .. p - 1
    BY <1>7, <2>2, Zenon
  <2>4. p \notin a .. m - 1
    BY <1>7, <2>1, Zenon DEF Stops
  <2>5. m = p /\ m # b + 1
    BY ONLY <1>4, <2>3, <2>4, m \in a .. b + 1, n \in Nat, a \in 1 .. n, b \in 1 .. n
  <2>6. Finds(SubSeq(t, a, b), ":")
    BY <1>7, <2>1, <2>5
  <2>7. ~Finds(SubSeq(t, a, b), "=")
    <3> SUFFICES ASSUME k # b + 1, t[k] = "=" PROVE FALSE
      BY <1>6, Zenon
    <3>1. k \in p .. n /\ k \in a .. n + 1
      BY ONLY <1>4, <1>9, k # b + 1, n \in Nat, a \in 1 .. n, b \in 1 .. n
    <3>2. ~Plain(Part(t, a, k))
      BY <1>2, <1>3, <1>11, <3>1
    <3>3. Plain(Part(t, a, k))
      BY <1>1, <1>6, <3>1, NoStop
    <3> QED
      BY <3>2, <3>3
  <2>8. Separator(SubSeq(t, a, b)) = find_char_or_comment(SubSeq(t, a, b), ":")
    BY <2>7, Zenon DEF Separator
  <2> QED
    BY <1>3, <1>4, <1>7, <2>5, <2>6, <2>8, Zenon
<1> QED
  BY <1>10, <1>11

LEMMA PairFound ==
    ASSUME NEW U, NEW t \in Seq(U), NEW n \in Nat, n = Len(t),
           NEW a \in 1 .. n, NEW b \in 1 .. n, a <= b, Extent(t, a, b),
           t[a] \notin {"[", ";", "#"},
           Finds(SubSeq(t, a, b), "=") \/ Finds(SubSeq(t, a, b), ":")
    PROVE  IsPair(t)
<1>1. a \in 1 .. n + 1 /\ b \in a - 1 .. n /\ 1 \in 1 .. n + 1
  BY ONLY n \in Nat, a \in 1 .. n, b \in 1 .. n, a <= b
<1>2. DOMAIN t = 1 .. n
  BY LenProperties
<1>3. PICK k \in a .. b + 1 :
         /\ find_char_or_comment(SubSeq(t, a, b), "=") = k - a + 1
         /\ k = b + 1 \/ Stops(t, a, "=", k)
         /\ \A i \in a .. k - 1 : ~Stops(t, a, "=", i)
         /\ Finds(SubSeq(t, a, b), "=") <=> k # b + 1 /\ t[k] = "="
  <2>1. Searched(t, a, b, "=")
    BY <1>1, FindInside
  <2> QED
    BY <2>1, Zenon DEF Searched
<1>4. PICK m \in a .. b + 1 :
         /\ find_char_or_comment(SubSeq(t, a, b), ":") = m - a + 1
         /\ m = b + 1 \/ Stops(t, a, ":", m)
         /\ \A i \in a .. m - 1 : ~Stops(t, a, ":", i)
         /\ Finds(SubSeq(t, a, b), ":") <=> m # b + 1 /\ t[m] = ":"
  <2>1. Searched(t, a, b, ":")
    BY <1>1, FindInside
  <2> QED
    BY <2>1, Zenon DEF Searched
<1>5. Blank(Part(t, 1, a))
  <2>1. a \in 1 .. n + 1 /\ \A i \in 1 .. a - 1 : t[i] = " "
    BY <1>1, Zenon DEF Extent
  <2> QED
    BY <1>1, <2>1, BlankPart
<1>6. t[a] \notin {" ", "[", ";", "#"}
  BY DEF Extent
<1>7. CASE k # b + 1 /\ t[k] = "="
  <2>1. k \in 1 .. n /\ a <= k /\ k \in a .. n + 1
    BY ONLY <1>1, <1>7, k \in a .. b + 1, n \in Nat, a \in 1 .. n, b \in 1 .. n
  <2>2. Plain(Part(t, a, k)) /\ \A i \in a .. k - 1 : t[i] # "="
    BY <1>1, <1>3, <2>1, NoStop
  <2>3. NamePlace(t, a, k)
    BY <1>5, <1>6, <1>7, <2>1, <2>2, Zenon DEF NamePlace
  <2> QED
    BY <1>2, <2>1, <2>3, Zenon DEF IsPair
<1>8. CASE ~(k # b + 1 /\ t[k] = "=")
  <2>1. m # b + 1 /\ t[m] = ":"
    BY <1>3, <1>4, <1>8
  <2>2. m \in 1 .. n /\ a <= m /\ m \in a .. n + 1
    BY ONLY <1>1, <2>1, m \in a .. b + 1, n \in Nat, a \in 1 .. n, b \in 1 .. n
  <2>3. Plain(Part(t, a, m)) /\ \A i \in a .. m - 1 : t[i] # ":"
    BY <1>1, <1>4, <2>2, NoStop
  <2>4. k # b + 1 => Stops(t, a, ":", k)
    BY <1>3, <1>8, Zenon DEF Stops
  <2>5. k # b + 1 => k \notin a .. m - 1
    BY <1>4, <2>4, Zenon
  <2>6. ASSUME NEW i \in a .. b, t[i] = "=" PROVE k \in a .. i - 1
    <3>1. i \notin a .. k - 1
      BY <1>3, <2>6, Zenon DEF Stops
    <3>2. k # i
      <4>1. i # b + 1
        BY ONLY i \in a .. b, a \in 1 .. n, b \in 1 .. n, n \in Nat
      <4> QED
        BY <1>8, <2>6, <4>1
    <3> QED
      BY ONLY <3>1, <3>2, k \in a .. b + 1, i \in a .. b, n \in Nat, a \in 1 .. n, b \in 1 .. n
  <2>7. \A i \in a .. m - 1 : t[i] # "="
    <3> SUFFICES ASSUME NEW i \in a .. m - 1, t[i] = "=" PROVE FALSE
      BY Zenon
    <3>1. i \in a .. b
      BY ONLY i \in a .. m - 1, m \in a .. b + 1, n \in Nat, a \in 1 .. n, b \in 1 .. n
    <3>2. k \in a .. i - 1
      BY <2>6, <3>1
    <3>3. k # b + 1 /\ k \in a .. m - 1
      BY ONLY <3>1, <3>2, i \in a .. m - 1, m \in a .. b + 1, n \in Nat, a \in 1 .. n, b \in 1 .. n
    <3> QED
      BY <2>5, <3>3
  <2>8. ASSUME NEW i \in m .. n, t[i] = "=", Plain(Part(t, a, i)) PROVE FALSE
    <3>1. i \notin b + 1 .. n
      BY <2>8 DEF Extent
    <3>2. i \in a .. b /\ i \in a .. n + 1
      BY ONLY <3>1, <2>2, i \in m .. n, n \in Nat, a \in 1 .. n, b \in 1 .. n
    <3>3. k \in a .. i - 1
      BY <2>6, <2>8, <3>2
    <3>4. k # b + 1
      BY ONLY <3>2, <3>3, n \in Nat, a \in 1 .. n, b \in 1 .. n
    <3>5. t[k] # "=" /\ Stops(t, a, "=", k)
      BY <1>3, <1>8, <3>4
    <3>6. k \in a + 1 .. i - 1 /\ t[k] = ";" /\ t[k - 1] = " "
      <4>1. a < k
        BY <3>5, Zenon DEF Stops
      <4>2. a < k /\ t[k] = ";" /\ t[k - 1] = " "
        BY <3>5, Zenon DEF Stops
      <4>3. k \in a + 1 .. i - 1
        BY ONLY <3>2, <3>3, <4>1, n \in Nat, a \in 1 .. n, b \in 1 .. n
      <4> QED
        BY <4>2, <4>3
    <3>7. \A j \in a + 1 .. i - 1 : ~(t[j - 1] = " " /\ t[j] = ";")
      BY <1>1, <2>8, <3>2, PlainPart
    <3> QED
      BY <3>6, <3>7, Zenon
  <2>9. NamePlace(t, a, m)
    <3>1. \A i \in m .. Len(t) : t[i] = "=" => ~Plain(Part(t, a, i))
      BY <2>8
    <3>2. \A i \in a .. m - 1 : t[i] # "=" /\ t[i] # t[m]
      BY <2>1, <2>3, <2>7
    <3> QED
      BY <1>5, <1>6, <2>1, <2>2, <2>3, <3>1, <3>2, Zenon DEF NamePlace
  <2> QED
    BY <1>2, <2>2, <2>9, Zenon DEF IsPair
<1> QED
  BY <1>7, <1>8

\* What may follow a value, from place w on: blanks, or blanks and a comment.
Trailing(t, w) ==
    \/ \A i \in w .. Len(t) : t[i] = " "
    \/ \E j \in w + 1 .. Len(t) : t[j] = ";" /\ \A i \in w .. j - 1 : t[i] = " "

LEMMA TrailerPart ==
    ASSUME NEW U, NEW t \in Seq(U), NEW n \in Nat, n = Len(t), NEW w \in 1 .. n + 1,
           Trailer(Part(t, w, End(t)))
    PROVE  Trailing(t, w)
<1>1. PICK e : e = n + 1
  OBVIOUS
<1> DEFINE l == e - w
<1>2. l \in Nat /\ e \in w .. n + 1 /\ e - 1 = n
  BY <1>1
<1>3. PICK u \in Seq(U) : /\ u = Part(t, w, e) /\ Len(u) = l
                          /\ \A i \in 1 .. l : u[i] = t[w + i - 1]
  <2>1. /\ Part(t, w, e) \in Seq(U) /\ Len(Part(t, w, e)) = l
        /\ \A i \in 1 .. l : Part(t, w, e)[i] = t[w + i - 1]
    BY <1>2, PartFacts, ZenonT(60)
  <2> QED
    BY <2>1, Zenon
<1>4. Blank(u) \/ \E i \in 2 .. l : u[i] = ";" /\ Blank(Part(u, 1, i))
  BY <1>1, <1>3, Zenon DEF Trailer, End
<1> HIDE DEF l
<1>5. CASE Blank(u)
  <2>1. \A i \in w .. e - 1 : t[i] = " "
    BY <1>2, <1>3, <1>5, BlankPart
  <2> QED
    BY <1>2, <2>1 DEF Trailing
<1>6. ASSUME NEW i \in 2 .. l, u[i] = ";", Blank(Part(u, 1, i))
      PROVE  \E j \in w + 1 .. n : t[j] = ";" /\ \A k \in w .. j - 1 : t[k] = " "
  <2>1. PICK j \in w + 1 .. n : j = w + i - 1
    <3>1. w + i - 1 \in w + 1 .. n
      BY ONLY i \in 2 .. l, w \in 1 .. n + 1, n \in Nat, <1>1 DEF l
    <3> QED
      BY <3>1
  <2>2. i \in 1 .. l /\ 1 \in 1 .. l + 1 /\ i \in 1 .. l + 1
    BY ONLY i \in 2 .. l, <1>2
  <2>3. t[j] = ";"
    BY <1>3, <1>6, <2>1, <2>2
  <2>4. \A k \in 1 .. i - 1 : u[k] = " "
    <3>1. l = Len(u) /\ u \in Seq(U) /\ Blank(Part(u, 1, i))
      BY <1>3, <1>6
    <3> QED
      BY ONLY <1>2, <2>2, <3>1, BlankPart
  <2>5. ASSUME NEW k \in w .. j - 1 PROVE t[k] = " "
    <3>1. PICK m \in 1 .. i - 1 : k = w + m - 1
      <4>1. k - w + 1 \in 1 .. i - 1 /\ k = w + (k - w + 1) - 1
        BY ONLY k \in w .. j - 1, <2>1, i \in 2 .. l, <1>2, <1>1, w \in 1 .. n + 1, n \in Nat
      <4> QED
        BY <4>1
    <3>2. m \in 1 .. l
      BY ONLY m \in 1 .. i - 1, i \in 2 .. l, <1>2
    <3> QED
      BY <1>3, <2>4, <3>1, <3>2
  <2> QED
    BY <2>3, <2>5, Zenon
<1> QED
  BY <1>4, <1>5, <1>6, Zenon DEF Trailing

\* A value has no blanks at its ends.
LEMMA TrimPart ==
    ASSUME NEW U, NEW t \in Seq(U), NEW n \in Nat, n = Len(t),
           NEW v \in 1 .. n + 1, NEW w \in v .. n + 1, v # w, Trim(Part(t, v, w))
    PROVE  t[v] # " " /\ t[w - 1] # " "
<1> DEFINE l == w - v
<1>1. l \in Nat /\ 1 \in 1 .. l /\ l \in 1 .. l /\ v + 1 - 1 = v /\ v + l - 1 = w - 1
  OBVIOUS
<1>2. PICK u \in Seq(U) : /\ u = Part(t, v, w) /\ Len(u) = l
                          /\ \A i \in 1 .. l : u[i] = t[v + i - 1]
  <2>1. /\ Part(t, v, w) \in Seq(U) /\ Len(Part(t, v, w)) = l
        /\ \A i \in 1 .. l : Part(t, v, w)[i] = t[v + i - 1]
    BY PartFacts, ZenonT(60)
  <2> QED
    BY <2>1, Zenon
<1> HIDE DEF l
<1>3. u # <<>>
  BY <1>1, <1>2
<1>4. u[1] # " " /\ u[Len(u)] # " "
  BY <1>2, <1>3, Zenon DEF Trim
<1>5. u[1] = t[v] /\ u[l] = t[w - 1]
  BY <1>1, <1>2
<1> QED
  BY <1>2, <1>4, <1>5

\* A value that is read is plain, and it is empty only if nothing follows the
\* separator: a comment there would be read as the value.
LEMMA ValueReadFacts ==
    ASSUME NEW U, NEW t \in Seq(U), NEW n \in Nat, n = Len(t),
           NEW p \in 1 .. n, NEW c, c = p + 1,
           NEW v \in p + 1 .. n + 1, NEW w \in v .. n + 1, ValueRead(t, p, v, w)
    PROVE  /\ Blank(Part(t, c, v)) /\ Trim(Part(t, v, w)) /\ Plain(Part(t, v, w))
           /\ Trailer(Part(t, w, End(t)))
           /\ v = w => \A i \in c .. n : t[i] = " "
<1>1. /\ c \in 1 .. n + 1 /\ v \in c .. n + 1 /\ v \in 1 .. n + 1
      /\ w \in 1 .. n + 1 /\ w \in c .. n + 1
  BY ONLY n \in Nat, p \in 1 .. n, c = p + 1, v \in p + 1 .. n + 1, w \in v .. n + 1
<1>2. Blank(Part(t, c, v)) /\ Trim(Part(t, v, w)) /\ Trailer(Part(t, w, End(t)))
  BY Zenon DEF ValueRead, ValuePlace, CommentPlace
<1>3. CASE CommentFirst(t, p)
  <2>1. CommentPlace(t, p, v, w)
    BY <1>3, Zenon DEF ValueRead
  <2>2. v # w /\ Plain(Part(t, v, w))
    BY <2>1, Zenon DEF CommentPlace
  <2> QED
    BY <1>2, <2>2, Zenon
<1>4. CASE ~CommentFirst(t, p)
  <2>1. Plain(Part(t, c, w))
    BY <1>4, Zenon DEF ValueRead, ValuePlace
  <2>2. Plain(Part(t, v, w))
    <3>1. \A i \in c + 1 .. w - 1 : ~(t[i - 1] = " " /\ t[i] = ";")
      BY <1>1, <2>1, PlainPart
    <3>2. \A i \in v + 1 .. w - 1 : i \in c + 1 .. w - 1
      BY ONLY <1>1, n \in Nat
    <3>3. \A i \in v + 1 .. w - 1 : ~(t[i - 1] = " " /\ t[i] = ";")
      BY <3>1, <3>2, Zenon
    <3> QED
      BY <1>1, <3>3, PlainPart
  <2>3. \A i \in c .. v - 1 : t[i] = " "
    BY <1>1, <1>2, BlankPart
  <2>4. ASSUME v = w, NEW j \in w + 1 .. n, t[j] = ";", \A i \in w .. j - 1 : t[i] = " "
        PROVE  FALSE
    <3>1. j \in p + 2 .. n /\ j \in c .. n + 1
      BY ONLY <1>1, c = p + 1, p \in 1 .. n, n \in Nat, v = w, j \in w + 1 .. n
    <3>2. \A i \in c .. j - 1 : i \in c .. v - 1 \/ i \in w .. j - 1
      BY ONLY <1>1, n \in Nat, v = w, j \in w + 1 .. n
    <3>3. \A i \in c .. j - 1 : t[i] = " "
      BY <2>3, <2>4, <3>2, Zenon
    <3>4. Blank(Part(t, c, j))
      BY <1>1, <3>1, <3>3, BlankPart
    <3> QED
      BY <1>4, <2>4, <3>1, <3>4, Zenon DEF CommentFirst
  <2>5. ASSUME v = w PROVE \A i \in c .. n : t[i] = " "
    <3>1. Trailing(t, w)
      BY <1>1, <1>2, TrailerPart
    <3>2. \A i \in w .. n : t[i] = " "
      BY <2>4, <2>5, <3>1, Zenon DEF Trailing
    <3>3. \A i \in c .. n : i \in c .. v - 1 \/ i \in w .. n
      BY ONLY <1>1, <2>5, n \in Nat
    <3> QED
      BY <2>3, <3>2, <3>3, Zenon
  <2> QED
    BY <1>2, <2>2, <2>5, Zenon
<1> QED
  BY <1>3, <1>4

\* The value is read without the blanks around it and what follows.
LEMMA ValueFound ==
    ASSUME NEW U, NEW t \in Seq(U), NEW n \in Nat, n = Len(t), \A i \in 1 .. n : t[i] # "NUL",
           NEW a \in 1 .. n, NEW b \in 1 .. n, a <= b, Extent(t, a, b),
           NEW p \in a .. b, t[p] # " ", Separator(SubSeq(t, a, b)) = p - a + 1,
           NEW v \in p + 1 .. n + 1, NEW w \in v .. n + 1, ValueRead(t, p, v, w)
    PROVE  Value(SubSeq(t, a, b)) = Part(t, v, w)
<1>1. PICK c \in 1 .. n + 1 : c = p + 1
  <2>1. p + 1 \in 1 .. n + 1
    BY ONLY n \in Nat, a \in 1 .. n, b \in 1 .. n, p \in a .. b
  <2> QED
    BY <2>1
<1>2. /\ a \in 1 .. n + 1 /\ b \in a - 1 .. n /\ b \in c - 1 .. n /\ c \in a .. b + 1
      /\ v \in c .. n + 1 /\ v \in 1 .. n + 1 /\ w \in 1 .. n + 1
  BY ONLY <1>1, n \in Nat, a \in 1 .. n, b \in 1 .. n, p \in a .. b, a <= b,
          v \in p + 1 .. n + 1, w \in v .. n + 1
<1>3. /\ Blank(Part(t, c, v)) /\ Trim(Part(t, v, w)) /\ Plain(Part(t, v, w))
      /\ Trailer(Part(t, w, End(t)))
      /\ v = w => \A i \in c .. n : t[i] = " "
  <2>1. p \in 1 .. n
    BY ONLY n \in Nat, a \in 1 .. n, b \in 1 .. n, p \in a .. b
  <2> QED
    BY ONLY <1>1, <2>1, ValueReadFacts, n \in Nat, t \in Seq(U), n = Len(t), v \in p + 1 .. n + 1,
            w \in v .. n + 1, ValueRead(t, p, v, w), ZenonT(60)
<1>4. \A i \in c .. v - 1 : t[i] = " "
  BY <1>2, <1>3, BlankPart
<1>5. PICK s : s = SubSeq(t, a, b)
  OBVIOUS
<1>6. SubSeq(s, Separator(s) + 1, Len(s)) = SubSeq(t, c, b)
  <2>1. /\ (p - a + 1) + 1 \in 1 .. b - a + 2 /\ b - a + 1 \in ((p - a + 1) + 1) - 1 .. b - a + 1
        /\ c = a + ((p - a + 1) + 1) - 1 /\ b = a + (b - a + 1) - 1
    BY ONLY <1>1, n \in Nat, a \in 1 .. n, b \in 1 .. n, p \in a .. b, a <= b
  <2>2. SubSeq(SubSeq(t, a, b), (p - a + 1) + 1, b - a + 1) = SubSeq(t, c, b)
    BY ONLY <1>2, <2>1, SubSub, n \in Nat, n = Len(t), t \in Seq(U)
  <2>3. Len(s) = b - a + 1
    BY <1>2, <1>5, SubSeqFacts
  <2> QED
    BY <1>5, <2>2, <2>3
<1>7. PICK x : x = lskip(SubSeq(t, c, b))
  OBVIOUS
<1>8. Value(s) = rstrip(Part(x, 1, find_char_or_comment(x, "NUL")))
  BY <1>6, <1>7, Zenon DEF Value
<1>9. CASE v = w
  <2>1. Part(t, v, w) = <<>>
    <3>1. w - 1 = v - 1
      BY <1>9
    <3>2. SubSeq(t, v, w - 1) = <<>>
      BY <1>2, <3>1, NoPart
    <3> QED
      BY <3>2 DEF Part
  <2>2. b = p /\ b = c - 1
    <3>1. b \notin c .. n
      BY <1>3, <1>9 DEF Extent
    <3> QED
      BY ONLY <1>1, <3>1, n \in Nat, a \in 1 .. n, b \in 1 .. n, p \in a .. b
  <2>3. x = SubSeq(t, c, b)
    <3>1. c \in c .. b + 1 /\ c = b + 1 /\ \A i : i \notin c .. c - 1
      BY ONLY <1>2, <2>2, c \in 1 .. n + 1, n \in Nat, b \in 1 .. n
    <3>2. \A i \in c .. c - 1 : t[i] = " "
      BY <3>1, Zenon
    <3>3. lskip(SubSeq(t, c, b)) = SubSeq(t, c, b)
      <4>1. c = b + 1 \/ t[c] # " "
        BY <3>1, Zenon
      <4>2. b \in c - 1 .. n /\ c \in c .. b + 1
        BY <1>2, <3>1, Zenon
      <4> QED
        BY ONLY <3>2, <4>1, <4>2, LskipPart, n \in Nat, n = Len(t), t \in Seq(U), c \in 1 .. n + 1
    <3> QED
      BY <1>7, <3>3, Zenon
  <2>4. SubSeq(t, c, b) = <<>>
    BY <1>2, <2>2, NoPart
  <2>5. PICK k \in c .. b + 1 : find_char_or_comment(SubSeq(t, c, b), "NUL") = k - c + 1
    <3>1. Searched(t, c, b, "NUL")
      BY <1>2, FindInside
    <3> QED
      BY <3>1, Zenon DEF Searched
  <2>6. k = c /\ Part(SubSeq(t, c, b), 1, k - c + 1) = Part(t, c, k)
    <3>1. k = c
      BY ONLY <1>1, <2>2, k \in c .. b + 1, b \in 1 .. n, n \in Nat
    <3> QED
      BY <1>2, <3>1, PartPart
  <2>7. Part(t, c, k) = SubSeq(t, c, b)
    BY <2>2, <2>6 DEF Part
  <2>8. rstrip(SubSeq(t, c, b)) = SubSeq(t, c, b)
    <3>1. b \in c - 1 .. b /\ \A i : i \notin b + 1 .. b
      BY ONLY b \in 1 .. n, n \in Nat, <2>2, c \in 1 .. n + 1
    <3>2. \A i \in b + 1 .. b : t[i] = " "
      BY <3>1, Zenon
    <3> QED
      BY <1>2, <2>2, <3>1, <3>2, RstripPart, ZenonT(60)
  <2> QED
    BY <1>5, <1>8, <2>1, <2>3, <2>4, <2>5, <2>6, <2>7, <2>8
<1>10. CASE v # w
  <2>1. t[v] # " " /\ t[w - 1] # " "
    BY <1>2, <1>3, <1>10, TrimPart
  <2>2. w \in v + 1 .. b + 1 /\ v \in c .. b + 1 /\ b \in v - 1 .. n
    <3>1. w - 1 \notin b + 1 .. n
      BY <2>1 DEF Extent
    <3> QED
      BY ONLY <1>1, <1>2, <1>10, <3>1, n \in Nat, a \in 1 .. n, b \in 1 .. n, w \in v .. n + 1
  <2>3. x = SubSeq(t, v, b)
    <3>1. lskip(SubSeq(t, c, b)) = SubSeq(t, v, b)
      <4>1. v = b + 1 \/ t[v] # " "
        BY <2>1, Zenon
      <4>2. b \in c - 1 .. n /\ v \in c .. b + 1
        BY <1>2, <2>2, Zenon
      <4> QED
        BY ONLY <1>4, <4>1, <4>2, LskipPart, n \in Nat, n = Len(t), t \in Seq(U), c \in 1 .. n + 1
    <3> QED
      BY <1>7, <3>1, Zenon
  <2>4. PICK k \in v .. b + 1 :
           /\ find_char_or_comment(SubSeq(t, v, b), "NUL") = k - v + 1
           /\ k = b + 1 \/ Stops(t, v, "NUL", k)
           /\ \A i \in v .. k - 1 : ~Stops(t, v, "NUL", i)
    <3>1. Searched(t, v, b, "NUL")
      BY <1>2, <2>2, FindInside
    <3> QED
      BY <3>1, Zenon DEF Searched
  <2>5. Value(s) = rstrip(Part(t, v, k))
    <3>1. Part(SubSeq(t, v, b), 1, k - v + 1) = Part(t, v, k)
      BY <1>2, <2>2, PartPart
    <3> QED
      BY <1>8, <2>3, <2>4, <3>1
  <2>6. w <= k
    <3>1. \A i \in v .. w - 1 : ~Stops(t, v, "NUL", i)
      <4>1. \A i \in v .. w - 1 : i \in 1 .. n
        BY ONLY <1>2, <2>2, n \in Nat, b \in 1 .. n
      <4>2. \A i \in v .. w - 1 : t[i] # "NUL"
        BY <4>1, Zenon
      <4> QED
        BY <1>2, <1>3, <4>2, NoStop
    <3>2. k # b + 1 => k \notin v .. w - 1
      BY <2>4, <3>1, Zenon
    <3> QED
      BY ONLY <1>2, <2>2, <3>2, n \in Nat, b \in 1 .. n, k \in v .. b + 1
  <2>7. \A i \in w .. k - 1 : t[i] = " "
    <3>1. CASE \A i \in w .. n : t[i] = " "
      <4>1. \A i \in w .. k - 1 : i \in w .. n
        BY ONLY <1>2, <2>2, n \in Nat, b \in 1 .. n, k \in v .. b + 1
      <4> QED
        BY <3>1, <4>1, Zenon
    <3>2. ASSUME NEW j \in w + 1 .. n, t[j] = ";", \A i \in w .. j - 1 : t[i] = " "
          PROVE  \A i \in w .. k - 1 : t[i] = " "
      <4>1. j - 1 \in w .. j - 1 /\ v < j /\ j \in v .. n
        BY ONLY <1>2, <2>2, j \in w + 1 .. n, n \in Nat, b \in 1 .. n
      <4>2. Stops(t, v, "NUL", j)
        BY <3>2, <4>1 DEF Stops
      <4>3. j \notin v .. k - 1
        BY <2>4, <4>2, Zenon
      <4>4. \A i \in w .. k - 1 : i \in w .. j - 1
        BY ONLY <1>2, <2>2, <4>1, <4>3, j \in w + 1 .. n, n \in Nat, b \in 1 .. n, k \in v .. b + 1
      <4> QED
        BY <3>2, <4>4, Zenon
    <3>3. Trailing(t, w)
      BY <1>2, <1>3, TrailerPart
    <3> QED
      BY <3>1, <3>2, <3>3, Zenon DEF Trailing
  <2>8. rstrip(SubSeq(t, v, k - 1)) = SubSeq(t, v, w - 1)
    <3>1. PICK f, g : f = k - 1 /\ g = w - 1
      OBVIOUS
    <3>2. f \in v - 1 .. n /\ g \in v - 1 .. f /\ g + 1 = w
      BY ONLY <1>2, <2>2, <2>6, <3>1, n \in Nat, b \in 1 .. n, k \in v .. b + 1
    <3>3. (\A i \in g + 1 .. f : t[i] = " ") /\ t[g] # " "
      BY <2>1, <2>7, <3>1, <3>2
    <3>4. rstrip(SubSeq(t, v, f)) = SubSeq(t, v, g)
      BY <1>2, <3>2, <3>3, RstripPart
    <3> QED
      BY <3>1, <3>4
  <2> QED
    BY <1>5, <2>5, <2>8 DEF Part
<1> QED
  BY <1>9, <1>10

LEMMA IniReadAll ==
    ASSUME NEW t \in Seq(IniBytes)
    PROVE  AsSaid(t, Contents(t))
<1>1. PICK n \in Nat : n = Len(t)
  BY LenProperties
<1>2. DOMAIN t = 1 .. n /\ \A i \in 1 .. n : t[i] # "NUL"
  <2>1. DOMAIN t = 1 .. n /\ \A i \in 1 .. n : t[i] \in IniBytes
    BY <1>1, LenProperties, ElementOfSeq
  <2>2. "NUL" \notin IniBytes
    BY DEF IniBytes
  <2> QED
    BY <2>1, <2>2, Zenon
<1>3. CASE Blank(t)
  <2>1. Contents(t) = Nothing
    BY <1>3, BlankLine
  <2> QED
    BY <1>3, <2>1, Zenon DEF AsSaid
<1>4. CASE ~Blank(t)
  <2>1. PICK a \in 1 .. n, b \in 1 .. n :
           /\ a <= b /\ Extent(t, a, b) /\ lskip(rstrip(t)) = SubSeq(t, a, b)
           /\ FirstNonblank(t) = a
    BY <1>1, <1>4, LineExtent
  <2>2. /\ t[a] \in {";", "#"} => Contents(t) = Nothing
        /\ t[a] \notin {"[", ";", "#"} =>
              Contents(t) = IF Finds(SubSeq(t, a, b), "=") \/ Finds(SubSeq(t, a, b), ":")
                            THEN Pair(rstrip(Part(SubSeq(t, a, b), 1, Separator(SubSeq(t, a, b)))),
                                      Value(SubSeq(t, a, b)))
                            ELSE Error
    BY <1>1, <2>1, LineCases
  <2>3. t[a] = "[" =>
           /\ Contents(t) \in {Error} \cup {Section(Part(t, a + 1, e)) : e \in Closing(t, a)}
           /\ Contents(t) = Error <=> Closing(t, a) = {}
    BY <1>1, <2>1, SectionLine
  <2>4. ASSUME t[a] \notin {"[", ";", "#"}, NEW s \in 1 .. n, NEW p \in 1 .. n, NamePlace(t, s, p),
               NEW v \in p + 1 .. n + 1, NEW w \in v .. n + 1, ValueRead(t, p, v, w)
        PROVE  Contents(t) = Pair(rstrip(Part(t, s, p)), Part(t, v, w))
    <3>1. /\ s = a /\ p \in a .. b
          /\ Finds(SubSeq(t, a, b), "=") \/ Finds(SubSeq(t, a, b), ":")
          /\ Separator(SubSeq(t, a, b)) = p - a + 1
      <4>1. a <= b /\ Extent(t, a, b) /\ NamePlace(t, s, p)
        BY <2>1, <2>4, Zenon
      <4> QED
        BY ONLY <1>1, <4>1, NameFound, n \in Nat, t \in Seq(IniBytes),
                a \in 1 .. n, b \in 1 .. n, s \in 1 .. n, p \in 1 .. n
    <3>2. t[p] # " "
      BY <2>4, Zenon DEF NamePlace
    <3>3. Value(SubSeq(t, a, b)) = Part(t, v, w)
      <4>1. a <= b /\ Extent(t, a, b) /\ ValueRead(t, p, v, w)
        BY <2>1, <2>4, Zenon
      <4>2. /\ p \in a .. b /\ Separator(SubSeq(t, a, b)) = p - a + 1
            /\ \A i \in 1 .. n : t[i] # "NUL"
        BY <1>2, <3>1, Zenon
      <4> QED
        BY ONLY <1>1, <4>2, <3>2, <4>1, ValueFound, n \in Nat, t \in Seq(IniBytes),
                a \in 1 .. n, b \in 1 .. n, v \in p + 1 .. n + 1, w \in v .. n + 1, ZenonT(60)
    <3>4. Part(SubSeq(t, a, b), 1, p - a + 1) = Part(t, a, p)
      <4>1. a \in 1 .. n + 1 /\ b \in a - 1 .. n /\ p \in a .. b + 1
        BY ONLY <2>1, <3>1, n \in Nat, a \in 1 .. n, b \in 1 .. n
      <4> QED
        BY <1>1, <4>1, PartPart
    <3> QED
      BY <2>2, <2>4, <3>1, <3>3, <3>4, Zenon
  <2>5. ASSUME t[a] \notin {"[", ";", "#"}, ~IsPair(t) PROVE Contents(t) = Error
    <3>1. ~(Finds(SubSeq(t, a, b), "=") \/ Finds(SubSeq(t, a, b), ":"))
      BY <1>1, <2>1, <2>5, PairFound
    <3> QED
      BY <2>2, <2>5, <3>1, Zenon
  <2>6. End(t) = n + 1 /\ DOMAIN t = 1 .. n
    BY <1>1, <1>2 DEF End
  <2>7. CASE t[a] \in {";", "#"}
    BY <1>4, <2>1, <2>2, <2>7, Zenon DEF AsSaid
  <2>8. CASE t[a] = "["
    BY <1>4, <2>1, <2>3, <2>8 DEF AsSaid
  <2>9. CASE t[a] \notin {"[", ";", "#"}
    <3>1. /\ \A s, p \in DOMAIN t : NamePlace(t, s, p) =>
                \A v \in p + 1 .. End(t) : \A w \in v .. End(t) :
                    ValueRead(t, p, v, w) =>
                        Contents(t) = Pair(rstrip(Part(t, s, p)), Part(t, v, w))
          /\ ~IsPair(t) => Contents(t) = Error
      BY <2>4, <2>5, <2>6, <2>9
    <3> QED
      BY <1>4, <2>1, <2>9, <3>1, Zenon DEF AsSaid
  <2> QED
    BY <2>7, <2>8, <2>9
<1> QED
  BY <1>3, <1>4

\* A line of a file of options is one of these.
LEMMA SpecIniTexts == Spec => [](kind = "ini" => text \in Seq(IniBytes))
<1> DEFINE Inv == kind = "ini" => text \in Seq(IniBytes)
<1>1. Init => Inv
  <2>1. Init => text = <<>>
    BY DEF Init, TextsInit, TextsIdle
  <2> QED
    BY <2>1, EmptySeq
<1>2. Inv /\ [Next]_vars => Inv'
  <2> SUFFICES ASSUME Inv, [Next]_vars PROVE Inv'
    OBVIOUS
  <2>1. UNCHANGED <<kind, text>> \/ \E p \in Pieces(kind) : text' = Append(text, p) /\ kind' = kind
    BY Zenon DEF Next, TextsNext, vars, textVars
  <2>2. kind = "ini" => Pieces(kind) = IniBytes
    BY DEF Pieces
  <2> QED
    BY <2>1, <2>2, AppendProperties
<1> QED
  BY <1>1, <1>2, PTL DEF Spec

\* So it is without the byte order mark.
LEMMA AfterBomText ==
    ASSUME NEW n, NEW t \in Seq(IniBytes)
    PROVE  AfterBom(n, t) \in Seq(IniBytes)
<1>1. t # <<>> => Tail(t) \in Seq(IniBytes)
  BY HeadTailProperties
<1> QED
  BY <1>1, Zenon DEF AfterBom

\* A line of any length, the first of a file or a later one, is taken by
\* ini_parse_file as the comment, the section, the name and value, or the error
\* that it is, except that a comment right behind a separator and a blank is taken
\* for the value.
THEOREM SpecIniLineRead == Spec => []IniLineRead
<1>1. (kind = "ini" => text \in Seq(IniBytes)) => IniLineRead
  <2> SUFFICES ASSUME text \in Seq(IniBytes), NEW n \in {1, 2}
               PROVE  IniAsSaid(n, text)
    BY Zenon DEF IniLineRead
  <2>1. PICK t \in Seq(IniBytes) : t = AfterBom(n, text)
    BY AfterBomText
  <2>2. AsSaid(t, Contents(t))
    BY IniReadAll
  <2> QED
    BY <2>1, <2>2, Zenon DEF IniAsSaid, ini_line
<1> QED
  BY <1>1, SpecIniTexts, PTL
-----------------------------------------------------------------------------
(* The last word about an option. *)

\* Whether a text writes a part of an option or its mark.
Affects(o, v, p) == p \in Writes(o, v) \cup Marks(o, v)

\* InFile and OnLine, of any lines and any items.
InFileOf(ls, e, p) ==
    {i \in DOMAIN ls : /\ ls[i].is = "pair" /\ ls[i].name = e.opt.conf
                       /\ SectionIn(ls, i) = e.section /\ Affects(e.opt, ls[i].value, p)}
Regards(x, o, p) ==
    /\ Affects(o, x.arg, p)
    /\ \/ x.letter # 0 /\ x.letter = o.short
       \/ x.name # None /\ x.name = o.long
OnLineOf(sd, o, p) == {i \in DOMAIN sd : Regards(sd[i], o, p)}

\* The last word about a part, and whether there is one about the option.
FileWord(ls, e, p) ==
    IF InFileOf(ls, e, p) # {} THEN Wrote(e.opt, ls[Max(InFileOf(ls, e, p))].value, p)
    ELSE PartOf(e.opt, e.opt.default, p)
LastWord(sd, ls, e, p) ==
    IF OnLineOf(sd, e.opt, p) # {} THEN Wrote(e.opt, sd[Max(OnLineOf(sd, e.opt, p))].arg, p)
    ELSE FileWord(ls, e, p)
Mentioned(sd, ls, e, p) == OnLineOf(sd, e.opt, p) # {} \/ InFileOf(ls, e, p) # {}

\* With one line more in the file, after n lines.
FileWordGrows(ls, l, n, e, p) ==
    LET new == /\ l.is = "pair" /\ l.name = e.opt.conf
               /\ SectionIn(ls, n) = e.section /\ Affects(e.opt, l.value, p)
    IN  /\ FileWord(Append(ls, l), e, p) =
              IF new THEN Wrote(e.opt, l.value, p) ELSE FileWord(ls, e, p)
        /\ InFileOf(Append(ls, l), e, p) # {} <=> new \/ InFileOf(ls, e, p) # {}

LEMMA FileWordNext ==
    ASSUME NEW U, NEW ls \in Seq(U), NEW l \in U, NEW e, NEW p, NEW n \in Nat, n = Len(ls)
    PROVE  FileWordGrows(ls, l, n, e, p)
<1> DEFINE new == /\ l.is = "pair" /\ l.name = e.opt.conf
                  /\ SectionIn(ls, n) = e.section /\ Affects(e.opt, l.value, p)
<1>1. DOMAIN ls = 1 .. n
  BY LenProperties
<1>2. PICK ms \in Seq(U) : ms = Append(ls, l)
  BY AppendProperties
<1>3. DOMAIN ms = 1 .. n + 1 /\ ms[n + 1] = l /\ \A j \in 1 .. n : ms[j] = ls[j]
  <2>1. Len(ms) = n + 1 /\ ms[n + 1] = l /\ \A j \in 1 .. n : ms[j] = ls[j]
    BY <1>2, AppendProperties
  <2> QED
    BY <2>1, LenProperties
<1>4. PICK I, J : I = InFileOf(ls, e, p) /\ J = InFileOf(ms, e, p)
  OBVIOUS
<1>5. I \subseteq 1 .. n
  BY <1>1, <1>4, Zenon DEF InFileOf
<1>6. ASSUME NEW i \in 1 .. n PROVE i \in I <=> i \in J
  <2>1. i \in 0 .. n /\ i \in 1 .. n + 1
    OBVIOUS
  <2>2. SectionIn(ms, i) = SectionIn(ls, i) /\ ms[i] = ls[i]
    BY <1>3, <2>1, SectionStays
  <2> QED
    BY <1>1, <1>3, <1>4, <2>1, <2>2, Zenon DEF InFileOf
<1>7. n + 1 \in J <=> new
  <2>1. n + 1 \in 1 .. n + 1
    OBVIOUS
  <2>2. l.is = "pair" => SectionIn(ms, n + 1) = SectionIn(ls, n)
    <3>1. SectionIn(ms, n + 1) = IF l.is = "section" THEN l.name ELSE SectionIn(ls, n)
      BY <1>3, SectionNext
    <3> QED
      BY <3>1
  <2> QED
    BY <1>3, <1>4, <2>1, <2>2, Zenon DEF InFileOf
<1> HIDE DEF new
<1>8. J = IF new THEN I \cup {n + 1} ELSE I
  <2>1. \A j \in 1 .. n + 1 : j \in 1 .. n \/ j = n + 1
    OBVIOUS
  <2>2. \A i \in J : i \in 1 .. n + 1
    BY <1>3, <1>4, Zenon DEF InFileOf
  <2>3. \A i \in I : i \in J
    BY <1>5, <1>6
  <2>4. \A i \in J : i \in I \/ i = n + 1
    BY <1>6, <2>1, <2>2, Zenon
  <2>5. CASE new
    <3>1. J = I \cup {n + 1}
      BY <1>7, <2>3, <2>4, <2>5
    <3> QED
      BY <2>5, <3>1, Zenon
  <2>6. CASE ~new
    <3>1. J = I
      BY <1>7, <2>3, <2>4, <2>6
    <3> QED
      BY <2>6, <3>1, Zenon
  <2> QED
    BY <2>5, <2>6
<1>9. /\ FileWord(ls, e, p) = IF I # {} THEN Wrote(e.opt, ls[Max(I)].value, p)
             ELSE PartOf(e.opt, e.opt.default, p)
      /\ FileWord(ms, e, p) = IF J # {} THEN Wrote(e.opt, ms[Max(J)].value, p)
             ELSE PartOf(e.opt, e.opt.default, p)
  BY <1>4, Zenon DEF FileWord
<1>10. CASE new
  <2>1. Max(J) = n + 1 /\ J # {}
    BY <1>5, <1>8, <1>10, MaxNext
  <2>2. FileWord(ms, e, p) = Wrote(e.opt, l.value, p)
    BY <1>3, <1>9, <2>1
  <2> QED
    BY <1>2, <1>4, <1>10, <2>1, <2>2, Zenon DEF FileWordGrows, new
<1>11. CASE ~new
  <2>1. J = I
    BY <1>8, <1>11
  <2>2. I # {} => Max(I) \in 1 .. n
    BY <1>5, MaxFacts
  <2>3. I # {} => ms[Max(I)] = ls[Max(I)]
    BY <1>3, <2>2, Zenon
  <2>4. FileWord(ms, e, p) = FileWord(ls, e, p)
    <3>1. FileWord(ms, e, p) = IF I # {} THEN Wrote(e.opt, ms[Max(I)].value, p)
             ELSE PartOf(e.opt, e.opt.default, p)
      BY <1>9, <2>1
    <3> QED
      BY <1>9, <2>3, <3>1
  <2> QED
    BY <1>2, <1>4, <1>11, <2>1, <2>4, Zenon DEF FileWordGrows, new
<1> QED
  BY <1>10, <1>11

\* With one item more on the command line.
LEMMA LastWordNext ==
    ASSUME NEW U, NEW sd \in Seq(U), NEW x \in U, NEW ls, NEW e, NEW p
    PROVE  /\ LastWord(Append(sd, x), ls, e, p) =
                 IF Regards(x, e.opt, p) THEN Wrote(e.opt, x.arg, p) ELSE LastWord(sd, ls, e, p)
           /\ Mentioned(Append(sd, x), ls, e, p) <=> Regards(x, e.opt, p) \/ Mentioned(sd, ls, e, p)
<1>1. PICK n \in Nat : n = Len(sd) /\ DOMAIN sd = 1 .. n
  BY LenProperties
<1>2. PICK sx \in Seq(U) : sx = Append(sd, x)
  BY AppendProperties
<1>3. DOMAIN sx = 1 .. n + 1 /\ sx[n + 1] = x /\ \A j \in 1 .. n : sx[j] = sd[j]
  <2>1. Len(sx) = n + 1 /\ sx[n + 1] = x /\ \A j \in 1 .. n : sx[j] = sd[j]
    BY <1>1, <1>2, AppendProperties
  <2> QED
    BY <2>1, LenProperties
<1>4. PICK I, J : I = OnLineOf(sd, e.opt, p) /\ J = OnLineOf(sx, e.opt, p)
  OBVIOUS
<1>5. I \subseteq 1 .. n
  BY <1>1, <1>4, Zenon DEF OnLineOf
<1>6. J = IF Regards(x, e.opt, p) THEN I \cup {n + 1} ELSE I
  <2>1. n + 1 \in 1 .. n + 1 /\ \A j \in 1 .. n : j \in 1 .. n + 1
    OBVIOUS
  <2>2. \A j \in 1 .. n + 1 : j \in 1 .. n \/ j = n + 1
    OBVIOUS
  <2>3. \A i : i \in I <=> i \in 1 .. n /\ Regards(sd[i], e.opt, p)
    BY <1>1, <1>4, Zenon DEF OnLineOf
  <2>4. \A i : i \in J <=> i \in 1 .. n + 1 /\ Regards(sx[i], e.opt, p)
    BY <1>3, <1>4, Zenon DEF OnLineOf
  <2>5. \A i \in 1 .. n : i \in I <=> i \in J
    BY <1>3, <2>1, <2>3, <2>4, Zenon
  <2>6. n + 1 \in J <=> Regards(x, e.opt, p)
    BY <1>3, <2>1, <2>4, Zenon
  <2>7. \A i \in J : i \in I \/ i = n + 1
    BY <2>2, <2>4, <2>5, Zenon
  <2>8. \A i \in I : i \in J
    BY <1>5, <2>5
  <2>9. CASE Regards(x, e.opt, p)
    <3>1. J = I \cup {n + 1}
      BY <2>6, <2>7, <2>8, <2>9
    <3> QED
      BY <2>9, <3>1, Zenon
  <2>10. CASE ~Regards(x, e.opt, p)
    <3>1. J = I
      BY <2>6, <2>7, <2>8, <2>10
    <3> QED
      BY <2>10, <3>1, Zenon
  <2> QED
    BY <2>9, <2>10
<1>7. /\ LastWord(sd, ls, e, p) =
            IF I # {} THEN Wrote(e.opt, sd[Max(I)].arg, p) ELSE FileWord(ls, e, p)
      /\ LastWord(sx, ls, e, p) =
            IF J # {} THEN Wrote(e.opt, sx[Max(J)].arg, p) ELSE FileWord(ls, e, p)
      /\ Mentioned(sd, ls, e, p) <=> I # {} \/ InFileOf(ls, e, p) # {}
      /\ Mentioned(sx, ls, e, p) <=> J # {} \/ InFileOf(ls, e, p) # {}
  BY <1>4, Zenon DEF LastWord, Mentioned
<1>8. CASE Regards(x, e.opt, p)
  <2>1. Max(J) = n + 1 /\ J # {}
    BY <1>5, <1>6, <1>8, MaxNext
  <2>2. LastWord(sx, ls, e, p) = Wrote(e.opt, x.arg, p)
    BY <1>3, <1>7, <2>1
  <2> QED
    BY <1>2, <1>7, <1>8, <2>1, <2>2, Zenon
<1>9. CASE ~Regards(x, e.opt, p)
  <2>1. J = I
    BY <1>6, <1>9
  <2>2. I # {} => Max(I) \in 1 .. n
    BY <1>5, MaxFacts
  <2>3. I # {} => sx[Max(I)] = sd[Max(I)]
    BY <1>3, <2>2, Zenon
  <2>4. LastWord(sx, ls, e, p) = LastWord(sd, ls, e, p)
    <3>1. LastWord(sx, ls, e, p) =
              IF I # {} THEN Wrote(e.opt, sx[Max(I)].arg, p) ELSE FileWord(ls, e, p)
      BY <1>7, <2>1
    <3> QED
      BY <1>7, <2>3, <3>1
  <2> QED
    BY <1>2, <1>7, <1>9, <2>1, <2>4, Zenon
<1> QED
  BY <1>8, <1>9

-----------------------------------------------------------------------------
(* What tells the options apart. *)

\* No two options share a letter or a long name.
Distinct ==
    \A e, f \in Added :
        \/ e.opt.short = f.opt.short /\ e.opt.short # 0
        \/ e.opt.long = f.opt.long /\ e.opt.long # None
        => e = f

\* An option is in one section.
OneSection == \A e, f \in Added : e.opt = f.opt => e.section = f.section

\* All options are from the blocks of one program.
OneProgram ==
    \E t \in Tables \cup {<<>>} :
        /\ Range(toAdd) \subseteq Range(t)
        /\ \A e \in Added : \E c \in Range(t) : e.section = c.section /\ e.opt \in Range(c.opts)

NamesInv == Distinct /\ OneSection /\ OneProgram

LEMMA BlockEntries ==
    ASSUME NEW b \in AllBlocks, NEW e \in Range(EntriesOf(b))
    PROVE  \E i \in 1 .. Len(b.opts) :
              /\ e.section = b.section /\ e.opt = b.opts[i]
              /\ e = [section |-> b.section, opt |-> b.opts[i]]
<1>1. PICK o \in Seq(Options) : o = b.opts
  BY BlockTypes
<1>2. DOMAIN o = 1 .. Len(o)
  BY LenProperties
<1>3. EntriesOf(b) = [i \in 1 .. Len(o) |-> [section |-> b.section, opt |-> o[i]]]
  BY <1>1, <1>2, Zenon DEF EntriesOf
<1>4. PICK i \in 1 .. Len(o) : e = [section |-> b.section, opt |-> o[i]]
  BY <1>3 DEF Range
<1> QED
  BY <1>1, <1>4

\* The options a step adds are those of the next block, and only if none of
\* them is in conflict.
LEMMA AddedGrows ==
    ASSUME TableTypes, mconf_add
    PROVE  \E b \in AllBlocks :
              /\ b = Head(toAdd) /\ b \in Range(toAdd) /\ Range(toAdd') \subseteq Range(toAdd)
              /\ \/ FirstConflict(b) # 0 /\ Added' = Added
                 \/ FirstConflict(b) = 0 /\ Added' = Added \cup Range(EntriesOf(b))
<1>1. PICK b \in AllBlocks : b = Head(toAdd)
  BY HeadTailProperties DEF TableTypes, mconf_add
<1>2. b \in Range(toAdd) /\ Range(toAdd') \subseteq Range(toAdd)
  <2>1. PICK s \in Seq(AllBlocks) : s = toAdd /\ s # <<>> /\ toAdd' = Tail(s)
    BY DEF TableTypes, mconf_add
  <2>2. PICK n \in Nat : n = Len(s) /\ n # 0 /\ DOMAIN s = 1 .. n
    BY <2>1, LenProperties, EmptySeq
  <2>3. /\ Tail(s) \in Seq(AllBlocks) /\ Len(Tail(s)) = n - 1
        /\ \A i \in 1 .. n - 1 : Tail(s)[i] = s[i + 1]
    BY <2>1, <2>2, HeadTailProperties
  <2>4. DOMAIN Tail(s) = 1 .. n - 1
    BY <2>3, LenProperties
  <2>5. 1 \in 1 .. n /\ \A i \in 1 .. n - 1 : i + 1 \in 1 .. n
    BY <2>2
  <2>6. b = s[1]
    BY <1>1, <2>1, HeadTailProperties
  <2>7. b \in Range(s)
    BY <2>2, <2>5, <2>6, Zenon DEF Range
  <2>8. \A i \in 1 .. n - 1 : Tail(s)[i] \in Range(s)
    BY <2>2, <2>3, <2>5, Zenon DEF Range
  <2>9. Range(Tail(s)) \subseteq Range(s)
    BY <2>4, <2>8, Zenon DEF Range
  <2>10. Range(toAdd') = Range(Tail(s))
    BY <2>1
  <2> QED
    BY <2>1, <2>7, <2>9, <2>10
<1>3. blocks' = IF FirstConflict(b) = 0 THEN Append(blocks, b) ELSE blocks
  BY <1>1 DEF mconf_add
<1>4. CASE FirstConflict(b) # 0
  <2>1. Added' = Added
    BY <1>3, <1>4 DEF Added
  <2> QED
    BY <1>1, <1>2, <1>4, <2>1
<1>5. CASE FirstConflict(b) = 0
  <2>1. Added' = Added \cup Range(EntriesOf(b))
    BY <1>3, <1>5, AddedAppend DEF TableTypes, Added
  <2> QED
    BY <1>1, <1>2, <1>5, <2>1
<1> QED
  BY <1>4, <1>5

\* What mconf_add counts of a block is the block up to the first conflict.
LEMMA CountedPlaces ==
    ASSUME NEW b \in AllBlocks
    PROVE  /\ FirstConflict(b) = 0 => Counted(b) = b.opts
           /\ Len(Counted(b)) <= Len(b.opts)
           /\ \A i \in 1 .. Len(Counted(b)) :
                 Counted(b)[i] = b.opts[i] /\ ~Conflict(b.section, b.opts[i])
<1>1. PICK o \in Seq(Options), f \in 0 .. Len(b.opts) : o = b.opts /\ f = FirstConflict(b)
  BY BlockTypes, ConflictPlace
<1>2. PICK n \in Nat : n = Len(o)
  BY LenProperties
<1>3. Counted(b) = IF f = 0 THEN o ELSE SubSeq(o, 1, f - 1)
  BY <1>1, Zenon DEF Counted
<1>4. CASE f = 0
  <2>1. \A i \in 1 .. n : ~Conflict(b.section, b.opts[i])
    BY <1>1, <1>2, <1>4, ConflictPlace
  <2> QED
    BY <1>1, <1>2, <1>3, <1>4, <2>1
<1>5. CASE f # 0
  <2>1. f \in 1 .. n /\ 1 \in 1 .. n + 1 /\ f - 1 \in 1 - 1 .. n /\ (f - 1) - 1 + 1 = f - 1
    BY <1>1, <1>2, <1>5
  <2>2. /\ Len(Counted(b)) = f - 1
        /\ \A i \in 1 .. f - 1 : Counted(b)[i] = o[i]
    <3>1. /\ Len(SubSeq(o, 1, f - 1)) = f - 1
          /\ \A i \in 1 .. f - 1 : SubSeq(o, 1, f - 1)[i] = o[1 + i - 1]
      BY <1>2, <2>1, SubSeqFacts
    <3>2. \A i \in 1 .. f - 1 : 1 + i - 1 = i
      OBVIOUS
    <3> QED
      BY <1>3, <1>5, <3>1, <3>2
  <2> DEFINE I == {i \in 1 .. n : Conflict(b.section, b.opts[i])}
  <2>3. f = IF I # {} THEN Min(I) ELSE 0
    BY <1>1, <1>2, Zenon DEF FirstConflict, SelectInSeq
  <2>4. I \subseteq Nat /\ I # {} /\ f = Min(I)
    BY <1>5, <2>3
  <2>5. \A i \in 1 .. n : i \notin I => ~Conflict(b.section, b.opts[i])
    OBVIOUS
  <2> HIDE DEF I
  <2>6. \A y \in I : f <= y
    BY <2>4, MinFacts
  <2>7. \A i \in 1 .. f - 1 : i \in 1 .. n /\ ~(f <= i)
    BY <2>1
  <2>8. \A i \in 1 .. f - 1 : ~Conflict(b.section, b.opts[i])
    BY <2>5, <2>6, <2>7, Zenon
  <2>9. f - 1 <= n
    BY <2>1
  <2> QED
    BY <1>1, <1>2, <1>5, <2>2, <2>8, <2>9
<1> QED
  BY <1>4, <1>5

LEMMA AddNamesInv ==
    ASSUME TableTypes, NamesInv, mconf_add
    PROVE  NamesInv'
<1>1. PICK b \in AllBlocks :
          /\ b \in Range(toAdd) /\ Range(toAdd') \subseteq Range(toAdd)
          /\ \/ FirstConflict(b) # 0 /\ Added' = Added
             \/ FirstConflict(b) = 0 /\ Added' = Added \cup Range(EntriesOf(b))
  BY AddedGrows, Zenon
<1>2. PICK t \in Tables \cup {<<>>} :
          /\ Range(toAdd) \subseteq Range(t)
          /\ \A e \in Added : \E c \in Range(t) : e.section = c.section /\ e.opt \in Range(c.opts)
  BY Zenon DEF NamesInv, OneProgram
<1>3. b \in Range(t)
  BY <1>1, <1>2
<1>4. t \in Tables
  <2>1. Range(<<>>) = {}
    BY DEF Range
  <2> QED
    BY <1>3, <2>1
<1>5. CASE Added' = Added
  <2>1. Distinct' /\ OneSection'
    BY <1>5, Zenon DEF NamesInv, Distinct, OneSection
  <2>2. OneProgram'
    <3>1. Range(toAdd)' \subseteq Range(t)
      BY <1>1, <1>2
    <3> QED
      BY <1>2, <1>5, <3>1, Zenon DEF OneProgram
  <2> QED
    BY <2>1, <2>2 DEF NamesInv
<1>6. CASE FirstConflict(b) = 0 /\ Added' = Added \cup Range(EntriesOf(b))
  <2>1. PICK n \in Nat : n = Len(b.opts) /\ DOMAIN b.opts = 1 .. n
    BY BlockTypes, LenProperties
  <2>2. \A e \in Range(EntriesOf(b)) : \E i \in 1 .. n :
            /\ e.section = b.section /\ e.opt = b.opts[i] /\ ~Conflict(b.section, b.opts[i])
            /\ e = [section |-> b.section, opt |-> b.opts[i]]
    <3>1. \A i \in 1 .. n : ~Conflict(b.section, b.opts[i])
      BY <1>6, <2>1, ConflictPlace
    <3> QED
      BY <2>1, <3>1, BlockEntries, Zenon
  <2>3. \A e \in Range(EntriesOf(b)) : \A f \in Added :
            /\ ~(e.opt.short = f.opt.short /\ e.opt.short # 0)
            /\ ~(e.opt.long = f.opt.long /\ e.opt.long # None)
    <3> SUFFICES ASSUME NEW e \in Range(EntriesOf(b)), NEW f \in Added
                 PROVE  /\ ~(e.opt.short = f.opt.short /\ e.opt.short # 0)
                        /\ ~(e.opt.long = f.opt.long /\ e.opt.long # None)
      OBVIOUS
    <3>1. PICK i \in 1 .. n : e.opt = b.opts[i] /\ ~Conflict(b.section, b.opts[i])
      BY <2>2, Zenon
    <3> QED
      BY <3>1, Zenon DEF Conflict
  <2>4. \A e, f \in Range(EntriesOf(b)) :
            \/ e.opt.short = f.opt.short /\ e.opt.short # 0
            \/ e.opt.long = f.opt.long /\ e.opt.long # None
            => e = f
    <3> SUFFICES ASSUME NEW e \in Range(EntriesOf(b)), NEW f \in Range(EntriesOf(b)),
                        \/ e.opt.short = f.opt.short /\ e.opt.short # 0
                        \/ e.opt.long = f.opt.long /\ e.opt.long # None
                 PROVE  e = f
      BY Zenon
    <3>1. PICK i \in 1 .. n : /\ e.opt = b.opts[i]
                              /\ e = [section |-> b.section, opt |-> b.opts[i]]
      BY <2>2, Zenon
    <3>2. PICK j \in 1 .. n : /\ f.opt = b.opts[j]
                              /\ f = [section |-> b.section, opt |-> b.opts[j]]
      BY <2>2, Zenon
    <3>3. i = j
      BY <1>3, <1>4, <2>1, <3>1, <3>2, NamesAssumption, Zenon
    <3> QED
      BY <3>1, <3>2, <3>3, Zenon
  <2>5. Distinct'
    <3> SUFFICES ASSUME NEW e \in Added', NEW f \in Added',
                        \/ e.opt.short = f.opt.short /\ e.opt.short # 0
                        \/ e.opt.long = f.opt.long /\ e.opt.long # None
                 PROVE  e = f
      BY Zenon DEF Distinct
    <3>1. CASE e \in Added /\ f \in Added
      BY <3>1, Zenon DEF NamesInv, Distinct
    <3>2. CASE e \in Range(EntriesOf(b)) /\ f \in Added
      BY <2>3, <3>2, Zenon
    <3>3. CASE e \in Added /\ f \in Range(EntriesOf(b))
      BY <2>3, <3>3, Zenon
    <3>4. CASE e \in Range(EntriesOf(b)) /\ f \in Range(EntriesOf(b))
      BY <2>4, <3>4, Zenon
    <3> QED
      BY <1>6, <3>1, <3>2, <3>3, <3>4
  <2>6. \A e \in Range(EntriesOf(b)) : e.section = b.section /\ e.opt \in Range(b.opts)
    BY <2>1, <2>2, Zenon DEF Range
  <2>7. \A e \in Added' : \E c \in Range(t) : e.section = c.section /\ e.opt \in Range(c.opts)
    <3> SUFFICES ASSUME NEW e \in Added'
                 PROVE  \E c \in Range(t) : e.section = c.section /\ e.opt \in Range(c.opts)
      OBVIOUS
    <3>1. CASE e \in Added
      BY <1>2, <3>1, Zenon
    <3>2. CASE e \in Range(EntriesOf(b))
      BY <1>3, <2>6, <3>2, Zenon
    <3> QED
      BY <1>6, <3>1, <3>2
  <2>8. OneProgram'
    <3>1. Range(toAdd)' \subseteq Range(t)
      BY <1>1, <1>2
    <3> QED
      BY <2>7, <3>1, Zenon DEF OneProgram
  <2>9. OneSection'
    <3> SUFFICES ASSUME NEW e \in Added', NEW f \in Added', e.opt = f.opt
                 PROVE  e.section = f.section
      BY Zenon DEF OneSection
    <3>1. PICK c \in Range(t) : e.section = c.section /\ e.opt \in Range(c.opts)
      BY <2>7, Zenon
    <3>2. PICK d \in Range(t) : f.section = d.section /\ f.opt \in Range(d.opts)
      BY <2>7, Zenon
    <3>3. e.opt \in Range(c.opts) \cap Range(d.opts)
      BY <3>1, <3>2
    <3>4. e.opt.short # 0 \/ e.opt.long # None \/ c.section = d.section
      BY <1>4, <3>3, NamesAssumption, Zenon
    <3>5. CASE c.section = d.section
      BY <3>1, <3>2, <3>5, Zenon
    <3>6. CASE e.opt.short # 0 \/ e.opt.long # None
      BY <2>5, <3>6, Zenon DEF Distinct
    <3> QED
      BY <3>4, <3>5, <3>6
  <2> QED
    BY <2>5, <2>8, <2>9 DEF NamesInv
<1> QED
  BY <1>1, <1>5, <1>6

LEMMA OthersNamesInv ==
    ASSUME NamesInv, UNCHANGED blocks, UNCHANGED toAdd
    PROVE  NamesInv'
<1>1. Added' = Added
  BY Zenon DEF Added
<1>2. Distinct' /\ OneSection'
  BY <1>1, Zenon DEF NamesInv, Distinct, OneSection
<1>3. OneProgram'
  BY <1>1, Zenon DEF NamesInv, OneProgram
<1> QED
  BY <1>2, <1>3 DEF NamesInv

LEMMA InitNamesInv == ConfigIdle \/ ConfigInit => NamesInv
<1> SUFFICES ASSUME ConfigIdle \/ ConfigInit PROVE NamesInv
  OBVIOUS
<1>1. ConfigStart /\ toAdd \in Tables \cup {<<>>}
  BY DEF ConfigIdle, ConfigInit
<1>2. Added = {}
  <2>1. Entries(blocks) = <<>>
    BY <1>1, NoOptions DEF ConfigStart
  <2> QED
    BY <2>1 DEF Added, Range
<1> QED
  BY <1>1, <1>2, Zenon DEF NamesInv, Distinct, OneSection, OneProgram

-----------------------------------------------------------------------------
(* The numbers of the options. *)

\* For every option, whether it is numbered.
Unlettered(opts) ==
    [i \in DOMAIN opts |-> IF opts[i].long # None /\ opts[i].short = 0 THEN 1 ELSE 0]

\* f[i] is how many of the first i options are numbered, up to n.
CountsNumbered(f, opts, n) ==
    /\ \A i \in 0 .. n : Numbered(SubSeq(opts, 1, i)) = f[i]
    /\ Numbered(opts) = f[n]
    /\ \A i, j \in 0 .. n : i <= j => f[i] <= f[j]
    /\ \A i \in 1 .. n : opts[i].long # None /\ opts[i].short = 0 => f[i] = f[i - 1] + 1

\* The number of an option depends on those before it only.
LEMMA NumberedPrefix ==
    ASSUME NEW U, NEW opts \in Seq(U), NEW n \in Nat, n = Len(opts)
    PROVE  \E f \in [0 .. n -> Nat] : CountsNumbered(f, opts, n)
<1>1. DOMAIN opts = 1 .. n /\ n \in 0 .. n
  BY LenProperties
<1>2. PICK u \in Seq(Nat) : /\ u = Unlettered(opts) /\ Len(u) = n
                            /\ \A i \in 1 .. n : u[i] = IF opts[i].long # None /\ opts[i].short = 0
                                                        THEN 1 ELSE 0
  <2>1. Unlettered(opts) = [i \in 1 .. n |-> IF opts[i].long # None /\ opts[i].short = 0 THEN 1 ELSE 0]
    BY <1>1, Zenon DEF Unlettered
  <2> QED
    BY <2>1
<1>3. PICK f \in [0 .. n -> Nat] : Sums(f, u, n)
  BY <1>1, <1>2, SumsExists
<1>4. \A i \in 1 .. n : f[i] = f[i - 1] + u[i]
  BY <1>3, Zenon DEF Sums
<1>5. ASSUME NEW i \in 0 .. n PROVE Numbered(SubSeq(opts, 1, i)) = f[i]
  <2>1. PICK s \in Seq(U) : /\ s = SubSeq(opts, 1, i) /\ Len(s) = i
                            /\ \A j \in 1 .. i : s[j] = opts[j]
    <3>1. 1 \in 1 .. n + 1 /\ i \in 1 - 1 .. n /\ i - 1 + 1 = i /\ \A j \in 1 .. i : 1 + j - 1 = j
      OBVIOUS
    <3>2. /\ SubSeq(opts, 1, i) \in Seq(U) /\ Len(SubSeq(opts, 1, i)) = i - 1 + 1
          /\ \A j \in 1 .. i - 1 + 1 : SubSeq(opts, 1, i)[j] = opts[1 + j - 1]
      BY <3>1, SubSeqFacts
    <3>3. PICK s \in Seq(U) : s = SubSeq(opts, 1, i)
      BY <3>2
    <3>4. Len(s) = i /\ \A j \in 1 .. i : s[j] = opts[j]
      BY <3>1, <3>2, <3>3
    <3> QED
      BY <3>3, <3>4, Zenon
  <2>2. DOMAIN s = 1 .. i /\ \A j \in 1 .. i : j \in 1 .. n
    BY <2>1, LenProperties
  <2>3. PICK v \in Seq(Nat) : v = Unlettered(s) /\ Len(v) = i /\ \A j \in 1 .. i : v[j] = u[j]
    <3>1. Unlettered(s) = [j \in 1 .. i |-> u[j]]
      BY <1>2, <2>1, <2>2 DEF Unlettered
    <3>2. \A j \in 1 .. i : u[j] \in Nat
      BY <1>2, <2>2
    <3>3. PICK v : v = [j \in 1 .. i |-> u[j]]
      OBVIOUS
    <3>4. v \in Seq(Nat) /\ Len(v) = i /\ \A j \in 1 .. i : v[j] = u[j]
      BY <3>2, <3>3
    <3> QED
      BY <3>1, <3>3, <3>4, Zenon
  <2>4. Numbered(s) = Total(v)
    BY <2>3, Zenon DEF Numbered, Unlettered
  <2>5. PICK g \in [0 .. i -> Nat] : Sums(g, v, i) /\ Total(v) = g[i]
    <3>1. i \in 0 .. i
      OBVIOUS
    <3> QED
      BY <2>3, <3>1, SumsExists, TotalSums
  <2>6. Sums(f, v, i)
    BY <1>3, <2>2, <2>3, Zenon DEF Sums
  <2>7. f[i] = g[i]
    <3>1. i \in Nat
      OBVIOUS
    <3>2. Sums(g, v, i)
      BY <2>5
    <3> QED
      BY ONLY <2>6, <3>1, <3>2, SumsUnique, ZenonT(60)
  <2> QED
    BY <2>1, <2>4, <2>5, <2>7
<1>6. Numbered(opts) = f[n]
  <2>1. Numbered(opts) = Total(u)
    BY <1>2, Zenon DEF Numbered, Unlettered
  <2> QED
    BY <1>2, <1>3, <2>1, TotalSums
<1>7. ASSUME NEW i \in 0 .. n, NEW j \in 0 .. n, i <= j PROVE f[i] <= f[j]
  <2> DEFINE S == {m \in Nat : i <= m /\ m <= n => f[i] <= f[m]}
  <2>1. 0 \in S
    <3> SUFFICES ASSUME i <= 0 PROVE f[i] <= f[0]
      OBVIOUS
    <3>1. i = 0 /\ f[0] \in Nat
      OBVIOUS
    <3> QED
      BY <3>1
  <2>2. ASSUME NEW m \in Nat, m \in S PROVE m + 1 \in S
    <3> SUFFICES ASSUME i <= m + 1, m + 1 <= n PROVE f[i] <= f[m + 1]
      OBVIOUS
    <3>1. CASE i = m + 1
      <4>1. f[i] \in Nat
        OBVIOUS
      <4> QED
        BY <3>1, <4>1
    <3>2. CASE i <= m
      <4>1. f[i] <= f[m]
        BY <2>2, <3>2
      <4>2. m + 1 \in 1 .. n /\ (m + 1) - 1 = m /\ m \in 0 .. n /\ m + 1 \in 0 .. n
        OBVIOUS
      <4>3. f[m + 1] = f[m] + u[m + 1] /\ u[m + 1] \in Nat
        BY <1>2, <1>4, <4>2
      <4>4. f[i] \in Nat /\ f[m] \in Nat
        BY <4>2
      <4> QED
        BY <4>1, <4>3, <4>4
    <3> QED
      BY <3>1, <3>2
  <2> HIDE DEF S
  <2>3. Nat \subseteq S
    BY <2>1, <2>2, NatInd
  <2>4. j \in Nat /\ j <= n
    OBVIOUS
  <2>5. j \in S
    BY <2>3, <2>4
  <2> QED
    BY <1>7, <2>4, <2>5 DEF S
<1>8. ASSUME NEW i \in 1 .. n, opts[i].long # None /\ opts[i].short = 0 PROVE f[i] = f[i - 1] + 1
  <2>1. u[i] = 1
    BY <1>2, <1>8, Zenon
  <2> QED
    BY <1>4, <2>1
<1>9. CountsNumbered(f, opts, n)
  BY <1>5, <1>6, <1>7, <1>8, Zenon DEF CountsNumbered
<1> QED
  BY <1>9

\* The numbers that mconf_add gives to the options of a block are new, and no two
\* options get the same.
LEMMA IndexFacts ==
    ASSUME NEW opts \in Seq(Options), long_idx \in Nat
    PROVE  /\ Numbered(opts) \in Nat
           /\ \A o \in Range(opts) : o.long # None /\ o.short = 0 =>
                 Index(opts, o) \in long_idx .. long_idx + Numbered(opts) - 1
           /\ \A o, p \in Range(opts) :
                 /\ o.long # None /\ o.short = 0 /\ p.long # None /\ p.short = 0
                 /\ Index(opts, o) = Index(opts, p)
                 => o = p
<1>1. PICK n \in Nat : n = Len(opts) /\ DOMAIN opts = 1 .. n
  BY LenProperties
<1>0. PICK f \in [0 .. n -> Nat] : CountsNumbered(f, opts, n)
  BY <1>1, NumberedPrefix
<1>2. /\ \A i \in 0 .. n : Numbered(SubSeq(opts, 1, i)) = f[i]
      /\ Numbered(opts) = f[n]
      /\ \A i, j \in 0 .. n : i <= j => f[i] <= f[j]
      /\ \A i \in 1 .. n : opts[i].long # None /\ opts[i].short = 0 => f[i] = f[i - 1] + 1
  BY <1>0, Zenon DEF CountsNumbered
<1>3. \A i \in 1 .. n : i - 1 \in 0 .. n /\ i \in 0 .. n /\ f[i] \in Nat /\ f[i - 1] \in Nat
  OBVIOUS
<1>4. n \in 0 .. n /\ f[n] \in Nat
  OBVIOUS
<1>5. ASSUME NEW o \in Range(opts), o.long # None, o.short = 0
      PROVE  \E k \in 1 .. n : /\ opts[k] = o /\ Index(opts, o) = long_idx + f[k - 1]
                               /\ f[k] = f[k - 1] + 1
  <2> DEFINE I == {i \in 1 .. Len(opts) : opts[i] = o}
  <2>1. SelectInSeq(opts, LAMBDA p : p = o) = IF I # {} THEN Min(I) ELSE 0
    BY Zenon DEF SelectInSeq
  <2>2. I # {} /\ I \subseteq 1 .. n
    BY <1>1 DEF Range
  <2>3. I \subseteq Nat
    BY <2>2
  <2>4. \A i \in I : opts[i] = o
    OBVIOUS
  <2>5. Index(opts, o) =
            long_idx + Numbered(SubSeq(opts, 1, (IF I # {} THEN Min(I) ELSE 0) - 1))
    BY <1>5, <2>1, Zenon DEF Index
  <2> HIDE DEF I
  <2>6. PICK k \in I : k = Min(I)
    BY <2>2, <2>3, MinFacts
  <2>7. Index(opts, o) = long_idx + Numbered(SubSeq(opts, 1, k - 1))
    BY <2>2, <2>5, <2>6
  <2>8. k \in 1 .. n /\ opts[k] = o
    BY <2>2, <2>4
  <2>9. k - 1 \in 0 .. n
    BY <1>3, <2>8
  <2>10. Numbered(SubSeq(opts, 1, k - 1)) = f[k - 1]
    BY <1>2, <2>9, Zenon
  <2>11. f[k] = f[k - 1] + 1
    BY <1>2, <1>5, <2>8, Zenon
  <2> QED
    BY <2>7, <2>8, <2>10, <2>11, Zenon
<1>6. ASSUME NEW o \in Range(opts), o.long # None, o.short = 0
      PROVE  Index(opts, o) \in long_idx .. long_idx + Numbered(opts) - 1
  <2>1. PICK k \in 1 .. n : Index(opts, o) = long_idx + f[k - 1] /\ f[k] = f[k - 1] + 1
    BY <1>5, <1>6, Zenon
  <2>2. f[k] <= f[n]
    <3>1. k \in 0 .. n /\ k <= n
      OBVIOUS
    <3> QED
      BY <1>2, <1>4, <3>1, Zenon
  <2>3. f[k] \in Nat /\ f[k - 1] \in Nat /\ Numbered(opts) = f[n]
    BY <1>2, <1>3
  <2> QED
    BY ONLY <1>4, <2>1, <2>2, <2>3, long_idx \in Nat
<1>7. ASSUME NEW o \in Range(opts), o.long # None, o.short = 0,
             NEW p \in Range(opts), p.long # None, p.short = 0,
             Index(opts, o) = Index(opts, p)
      PROVE  o = p
  <2>1. PICK k \in 1 .. n : /\ opts[k] = o /\ Index(opts, o) = long_idx + f[k - 1]
                            /\ f[k] = f[k - 1] + 1
    BY <1>5, <1>7, Zenon
  <2>2. PICK m \in 1 .. n : /\ opts[m] = p /\ Index(opts, p) = long_idx + f[m - 1]
                            /\ f[m] = f[m - 1] + 1
    BY <1>5, <1>7, Zenon
  <2>3. /\ f[k] \in Nat /\ f[k - 1] \in Nat /\ f[m] \in Nat /\ f[m - 1] \in Nat
        /\ k - 1 \in 0 .. n /\ k \in 0 .. n /\ m - 1 \in 0 .. n /\ m \in 0 .. n
    BY <1>3
  <2>4. f[k - 1] = f[m - 1]
    <3>1. long_idx + f[k - 1] = long_idx + f[m - 1]
      BY <1>7, <2>1, <2>2, Zenon
    <3> QED
      BY ONLY <2>3, <3>1, long_idx \in Nat
  <2>5. (k <= m - 1 => f[k] <= f[m - 1]) /\ (m <= k - 1 => f[m] <= f[k - 1])
    BY <1>2, <2>3, Zenon
  <2>6. ~(k <= m - 1) /\ ~(m <= k - 1)
    BY ONLY <2>1, <2>2, <2>3, <2>4, <2>5
  <2>7. k = m
    BY <2>6
  <2> QED
    BY <2>1, <2>2, <2>7
<1> QED
  BY <1>2, <1>4, <1>6, <1>7, Zenon

\* An option with a letter has its number from it, the others have numbers of
\* their own.
NumbersInv ==
    /\ long_idx \in Nat /\ long_idx >= 256
    /\ \A e \in Added : e.opt.long # None =>
          IF e.opt.short # 0 THEN opt_idx[e.opt] = e.opt.short
          ELSE opt_idx[e.opt] \in 256 .. long_idx - 1
    /\ \A e, f \in Added :
          /\ e.opt.long # None /\ e.opt.short = 0 /\ f.opt.long # None /\ f.opt.short = 0
          /\ opt_idx[e.opt] = opt_idx[f.opt]
          => e.opt = f.opt

LEMMA AddedTypes ==
    ASSUME TableTypes, NEW e \in Added
    PROVE  e.opt \in Options /\ e = [section |-> e.section, opt |-> e.opt]
<1>1. PICK es \in Seq(Entry) : es = Entries(blocks)
  BY EntriesTypes DEF TableTypes
<1>2. e \in Entry
  BY <1>1, RangeOfSeq DEF Added
<1> QED
  BY <1>2 DEF Entry

LEMMA AddNumbersInv ==
    ASSUME TableTypes, NumbersInv, mconf_add
    PROVE  NumbersInv'
<1>1. PICK b \in AllBlocks :
          /\ b = Head(toAdd)
          /\ \/ FirstConflict(b) # 0 /\ Added' = Added
             \/ FirstConflict(b) = 0 /\ Added' = Added \cup Range(EntriesOf(b))
  BY AddedGrows, Zenon
<1>2. PICK c \in Seq(Options), n \in Nat : c = Counted(b) /\ n = Len(c) /\ DOMAIN c = 1 .. n
  BY CountedType, LenProperties
<1>3. PICK N \in Nat : N = Numbered(c)
  BY IndexFacts DEF NumbersInv
<1>4. /\ \A o \in Range(c) : o.long # None /\ o.short = 0 =>
             Index(c, o) \in long_idx .. long_idx + N - 1
      /\ \A o, p \in Range(c) :
             /\ o.long # None /\ o.short = 0 /\ p.long # None /\ p.short = 0
             /\ Index(c, o) = Index(c, p)
             => o = p
  BY <1>3, IndexFacts DEF NumbersInv
<1>5. /\ long_idx' = long_idx + N
      /\ opt_idx' = [o \in Options |-> IF o \in Range(c) /\ o.long # None
                                       THEN Index(c, o) ELSE opt_idx[o]]
  BY <1>1, <1>2, <1>3, Zenon DEF mconf_add
<1>6. /\ \A o \in Options : o \in Range(c) /\ o.long # None => opt_idx'[o] = Index(c, o)
      /\ \A o \in Options : o \notin Range(c) => opt_idx'[o] = opt_idx[o]
  BY <1>5
<1>7. ASSUME NEW e \in Added, e.opt.long # None
      PROVE  e.opt \in Options /\ opt_idx'[e.opt] = opt_idx[e.opt]
  <2>1. e.opt \notin Range(c)
    <3> SUFFICES ASSUME e.opt \in Range(c) PROVE FALSE
      OBVIOUS
    <3>1. PICK i \in 1 .. n : e.opt = c[i]
      BY <1>2, Zenon DEF Range
    <3>2. e.opt = b.opts[i] /\ ~Conflict(b.section, b.opts[i])
      BY <1>2, <3>1, CountedPlaces
    <3> QED
      BY <1>7, <3>2, Zenon DEF Conflict
  <2> QED
    BY <1>6, <2>1, AddedTypes
<1>8. ASSUME NEW e \in Added', e \notin Added, e.opt.long # None
      PROVE  /\ e.opt \in Range(c) /\ opt_idx'[e.opt] = Index(c, e.opt)
  <2>1. FirstConflict(b) = 0 /\ e \in Range(EntriesOf(b))
    BY <1>1, <1>8, Zenon
  <2>2. c = b.opts
    BY <1>2, <2>1, CountedPlaces
  <2>3. PICK i \in 1 .. Len(b.opts) : e.opt = b.opts[i]
    BY <2>1, BlockEntries, Zenon
  <2>4. i \in 1 .. n /\ e.opt = c[i]
    BY <1>2, <2>2, <2>3
  <2>5. e.opt \in Range(c) /\ e.opt \in Options
    BY <1>2, <2>4 DEF Range
  <2> QED
    BY <1>6, <1>8, <2>5
<1>9. long_idx' \in Nat /\ long_idx' >= 256
  BY <1>5 DEF NumbersInv
<1>10. long_idx \in Nat /\ long_idx >= 256
  BY DEF NumbersInv
<1>11. ASSUME NEW e \in Added', e.opt.long # None
       PROVE  IF e.opt.short # 0 THEN opt_idx'[e.opt] = e.opt.short
              ELSE opt_idx'[e.opt] \in 256 .. long_idx' - 1
  <2>1. CASE e \in Added
    <3>1. opt_idx'[e.opt] = opt_idx[e.opt]
      BY <1>7, <1>11, <2>1
    <3>2. IF e.opt.short # 0 THEN opt_idx[e.opt] = e.opt.short
          ELSE opt_idx[e.opt] \in 256 .. long_idx - 1
      BY <1>11, <2>1, Zenon DEF NumbersInv
    <3>3. \A x \in 256 .. long_idx - 1 : x \in 256 .. long_idx' - 1
      BY ONLY <1>5, <1>10, N \in Nat
    <3> QED
      BY <3>1, <3>2, <3>3, Zenon
  <2>2. CASE e \notin Added
    <3>1. e.opt \in Range(c) /\ opt_idx'[e.opt] = Index(c, e.opt)
      BY <1>8, <1>11, <2>2
    <3>2. CASE e.opt.short # 0
      <4>1. Index(c, e.opt) = e.opt.short
        BY <3>2, Zenon DEF Index
      <4> QED
        BY <3>1, <3>2, <4>1, Zenon
    <3>3. CASE e.opt.short = 0
      <4>1. Index(c, e.opt) \in long_idx .. long_idx + N - 1
        BY <1>4, <1>11, <3>1, <3>3, Zenon
      <4>2. \A x \in long_idx .. long_idx + N - 1 : x \in 256 .. long_idx' - 1
        BY ONLY <1>5, <1>10, N \in Nat
      <4> QED
        BY <3>1, <3>3, <4>1, <4>2, Zenon
    <3> QED
      BY <3>2, <3>3
  <2> QED
    BY <2>1, <2>2
<1>12. ASSUME NEW e \in Added', NEW f \in Added', e.opt.long # None, e.opt.short = 0,
              f.opt.long # None, f.opt.short = 0, opt_idx'[e.opt] = opt_idx'[f.opt]
       PROVE  e.opt = f.opt
  <2>1. ASSUME NEW g \in Added, g.opt.long # None, g.opt.short = 0
        PROVE  opt_idx'[g.opt] \in 256 .. long_idx - 1
    <3>1. opt_idx[g.opt] \in 256 .. long_idx - 1
      BY <2>1, Zenon DEF NumbersInv
    <3> QED
      BY <1>7, <2>1, <3>1, Zenon
  <2>2. ASSUME NEW g \in Added', g \notin Added, g.opt.long # None, g.opt.short = 0
        PROVE  opt_idx'[g.opt] \in long_idx .. long_idx + N - 1
    <3>1. g.opt \in Range(c) /\ opt_idx'[g.opt] = Index(c, g.opt)
      BY <1>8, <2>2
    <3> QED
      BY <1>4, <2>2, <3>1, Zenon
  <2>3. ~(\E x \in 256 .. long_idx - 1 : x \in long_idx .. long_idx + N - 1)
    BY <1>10
  <2>4. CASE e \in Added /\ f \in Added
    <3>1. opt_idx[e.opt] = opt_idx[f.opt]
      BY <1>7, <1>12, <2>4, Zenon
    <3> QED
      BY <1>12, <2>4, <3>1, Zenon DEF NumbersInv
  <2>5. CASE e \notin Added /\ f \notin Added
    <3>1. /\ e.opt \in Range(c) /\ opt_idx'[e.opt] = Index(c, e.opt)
          /\ f.opt \in Range(c) /\ opt_idx'[f.opt] = Index(c, f.opt)
      BY <1>8, <1>12, <2>5
    <3> QED
      BY <1>4, <1>12, <3>1, Zenon
  <2>6. CASE e \in Added /\ f \notin Added
    BY <1>12, <2>1, <2>2, <2>3, <2>6, Zenon
  <2>7. CASE e \notin Added /\ f \in Added
    BY <1>12, <2>1, <2>2, <2>3, <2>7, Zenon
  <2> QED
    BY <2>4, <2>5, <2>6, <2>7
<1> QED
  BY <1>9, <1>11, <1>12, Zenon DEF NumbersInv

-----------------------------------------------------------------------------
(* What getopt_long reports. *)

\* WithLong selects options that have a long name.
LEMMA WithLongEntries ==
    ASSUME NEW U, NEW opts \in Seq(U)
    PROVE  WithLong(opts) \in Seq({o \in Range(opts) : o.long # None})
<1>1. PICK n \in Nat : n = Len(opts) /\ DOMAIN opts = 1 .. n
  BY LenProperties
<1>2. PICK f \in [0 .. n -> Seq(U)] : Selects(f, opts, n) /\ WithLong(opts) = f[n]
  BY <1>1, WithLongSelects
<1> DEFINE V == {o \in Range(opts) : o.long # None}
           S == {m \in Nat : m <= n => f[m] \in Seq(V)}
<1>3. 0 \in S
  <2>1. f[0] = <<>>
    BY <1>2 DEF Selects
  <2> HIDE DEF V
  <2> QED
    BY <2>1
<1>4. ASSUME NEW m \in Nat, m \in S PROVE m + 1 \in S
  <2> SUFFICES ASSUME m + 1 <= n PROVE f[m + 1] \in Seq(V)
    OBVIOUS
  <2>1. f[m] \in Seq(V) /\ m + 1 \in 1 .. n /\ (m + 1) - 1 = m
    BY <1>4
  <2>2. f[m + 1] = IF opts[m + 1].long = None THEN f[m] ELSE Append(f[m], opts[m + 1])
    BY <1>2, <2>1, Zenon DEF Selects
  <2>3. opts[m + 1].long # None => opts[m + 1] \in V
    BY <1>1, <2>1, Zenon DEF Range
  <2> HIDE DEF V, S
  <2>4. opts[m + 1] \in V => Append(f[m], opts[m + 1]) \in Seq(V)
    BY <2>1, AppendProperties
  <2> QED
    BY <2>1, <2>2, <2>3, <2>4, Zenon
<1> HIDE DEF S
<1>5. n \in S
  BY <1>3, <1>4, NatInd
<1> QED
  BY <1>2, <1>5 DEF S

\* The table for getopt_long has long names of options, with their numbers.
Prepared ==
    /\ stage = "add" => opt_long = <<>>
    /\ \A i \in 1 .. Len(opt_long) : \E e \in Added :
          /\ e.opt.long # None
          /\ opt_long[i].name = e.opt.long /\ opt_long[i].val = opt_idx[e.opt]

LEMMA PreparePrepared ==
    ASSUME TableTypes, Prepare, UNCHANGED blocks, UNCHANGED opt_idx
    PROVE  Prepared'
<1>1. PICK es \in Seq(Entry) : es = Entries(blocks)
  BY EntriesTypes DEF TableTypes
<1>2. PICK os \in Seq(Options) : os = OptionsOf(blocks) /\ os = AllOptions
  <2>1. AllOptions = OptionsOf(blocks)
    BY Zenon DEF AllOptions, OptionsOf
  <2> QED
    BY <2>1, EntriesTypes DEF TableTypes
<1>3. \A o \in Range(os) : \E e \in Added : o = e.opt
  <2>1. os = [i \in DOMAIN es |-> es[i].opt]
    BY <1>1, <1>2, Zenon DEF OptionsOf
  <2>2. \A o \in Range(os) : \E i \in DOMAIN es : o = es[i].opt
    BY <2>1 DEF Range
  <2>3. \A i \in DOMAIN es : es[i] \in Added
    BY <1>1, Zenon DEF Added, Range
  <2> QED
    BY <2>2, <2>3, Zenon
<1>4. PICK long \in Seq({o \in Range(os) : o.long # None}) : long = WithLong(os)
  BY WithLongEntries
<1>5. PICK m \in Nat : m = Len(long) /\ DOMAIN long = 1 .. m
  BY LenProperties
<1>6. \A i \in 1 .. m : long[i] \in Range(os) /\ long[i].long # None
  <2>1. \A i \in 1 .. m : long[i] \in {o \in Range(os) : o.long # None}
    BY <1>5, ElementOfSeq
  <2> QED
    BY <2>1
<1>7. /\ stage' = "cmdline"
      /\ opt_long' = [i \in 1 .. m |->
                         [name |-> long[i].long, args |-> long[i].args, val |-> opt_idx[long[i]]]]
  BY <1>2, <1>4, <1>5, Zenon DEF Prepare
<1>8. Len(opt_long') = m /\ \A i \in 1 .. m : /\ opt_long'[i].name = long[i].long
                                              /\ opt_long'[i].val = opt_idx[long[i]]
  BY <1>7
<1>9. Added' = Added
  BY Zenon DEF Added
<1>10. ASSUME NEW i \in 1 .. m
       PROVE  \E e \in Added' : /\ e.opt.long # None
                                /\ opt_long'[i].name = e.opt.long /\ opt_long'[i].val = opt_idx'[e.opt]
  <2>1. PICK e \in Added : long[i] = e.opt
    BY <1>3, <1>6, Zenon
  <2>2. opt_idx' = opt_idx
    OBVIOUS
  <2> QED
    BY <1>6, <1>8, <1>9, <2>1, <2>2, Zenon
<1>11. stage' # "add"
  BY <1>7
<1> QED
  BY <1>8, <1>10, <1>11, Zenon DEF Prepared

\* An item of the command line.
IsItem(it) ==
    /\ it.dashes \in 0 .. 2
    /\ it.dashes = 1 => it.name = None
    /\ it.dashes = 2 => it.letter = 0 /\ it.name # None

\* What getopt_long returns for it.
Reported(it) == IF it.dashes = 2 THEN opt_long[ByName(it.name)].val ELSE it.letter

\* The loop of mconf_parse_cmdline finds the option that has the letter or the
\* long name.
LEMMA MeantFacts ==
    ASSUME TableTypes, NamesInv, NumbersInv, Prepared,
           NEW it, IsItem(it), it.dashes # 0, ~NotKnown(it), NEW e \in Added
    PROVE  Reported(it) # LetterC /\ e.opt \in Meant(it, Reported(it))
           <=> \/ it.letter # 0 /\ it.letter = e.opt.short
               \/ it.name # None /\ it.name = e.opt.long
<1>0. PICK c : c = Reported(it)
  OBVIOUS
<1>1. e.opt \in Options
  BY AddedTypes
<1>2. e.opt \in Meant(it, c) <=> \/ e.opt.short # 0 /\ e.opt.short = c
                                 \/ it.dashes = 2 /\ e.opt.long # None /\ opt_idx[e.opt] = c
  BY <1>1, Zenon DEF Meant
<1>3. \A f \in Added : f.opt.short \in 0 .. 255 /\ f.opt.short # LetterC
  <2>1. \A f \in Added : f.opt \in Options
    BY AddedTypes
  <2>2. \A o \in Options : o.short \in 0 .. 255 \ {LetterC}
    BY ConfigAssumption, Zenon
  <2>3. \A x \in 0 .. 255 \ {LetterC} : x \in 0 .. 255 /\ x # LetterC
    OBVIOUS
  <2> QED
    BY <2>1, <2>2, <2>3, Zenon
<1>4. CASE it.dashes = 1
  <2>1. it.name = None /\ c = it.letter /\ it.dashes # 2
    BY <1>0, <1>4 DEF IsItem, Reported
  <2> QED
    BY <1>0, <1>2, <1>3, <2>1, Zenon
<1>5. CASE it.dashes = 2
  <2>1. it.letter = 0 /\ it.name # None /\ it.dashes # 1
    BY <1>5 DEF IsItem
  <2> DEFINE I == {i \in 1 .. Len(opt_long) : opt_long[i].name = it.name}
  <2>2. ByName(it.name) = IF I # {} THEN Min(I) ELSE 0
    BY Zenon DEF ByName, SelectInSeq
  <2>3. ByName(it.name) # 0
    BY <2>1, Zenon DEF NotKnown
  <2>4. I \subseteq Nat /\ I # {}
    BY <2>2, <2>3
  <2>5. \A i \in I : i \in 1 .. Len(opt_long) /\ opt_long[i].name = it.name
    OBVIOUS
  <2> HIDE DEF I
  <2>6. PICK k \in I : k = ByName(it.name)
    BY <2>2, <2>4, MinFacts
  <2>7. PICK d \in Added : /\ d.opt.long # None /\ opt_long[k].name = d.opt.long
                           /\ opt_long[k].val = opt_idx[d.opt]
    BY <2>5, Zenon DEF Prepared
  <2>8. it.name = d.opt.long /\ c = opt_idx[d.opt]
    BY <1>0, <1>5, <2>5, <2>6, <2>7, Zenon DEF Reported
  <2>9. long_idx \in Nat /\ long_idx >= 256
    BY DEF NumbersInv
  <2>10. \A f \in Added : f.opt.long # None =>
            \/ f.opt.short # 0 /\ opt_idx[f.opt] = f.opt.short
            \/ f.opt.short = 0 /\ opt_idx[f.opt] \in 256 .. long_idx - 1
    BY Zenon DEF NumbersInv
  <2>11. \A x \in 256 .. long_idx - 1 : x \notin 0 .. 255
    BY <2>9
  <2>12. LetterC \in 0 .. 255
    BY DEF LetterC
  <2>13. c # LetterC
    BY <1>3, <2>7, <2>8, <2>10, <2>11, <2>12, ZenonT(60)
  <2>14. it.name = e.opt.long => e = d
    BY <2>1, <2>7, <2>8, Zenon DEF NamesInv, Distinct
  <2>15. e.opt.short # 0 /\ e.opt.short = c => e = d
    <3> SUFFICES ASSUME e.opt.short # 0, e.opt.short = c PROVE e = d
      BY Zenon
    <3>1. c \in 0 .. 255
      BY <1>3, Zenon
    <3>2. c = d.opt.short
      BY <2>7, <2>8, <2>10, <2>11, <3>1, Zenon
    <3> QED
      BY <3>2, Zenon DEF NamesInv, Distinct
  <2>16. e.opt.long # None /\ opt_idx[e.opt] = c => e = d
    <3> SUFFICES ASSUME e.opt.long # None, opt_idx[e.opt] = c PROVE e = d
      BY Zenon
    <3>1. CASE e.opt.short # 0
      <4>1. e.opt.short = c
        BY <2>10, <3>1, Zenon
      <4> QED
        BY <2>15, <3>1, <4>1, Zenon
    <3>2. CASE e.opt.short = 0
      <4>1. c \in 256 .. long_idx - 1
        BY <2>10, <3>2, Zenon
      <4>2. d.opt.short = 0
        BY <1>3, <2>7, <2>8, <2>10, <2>11, <4>1, Zenon
      <4>3. e.opt = d.opt
        BY <2>7, <2>8, <3>2, <4>2, Zenon DEF NumbersInv
      <4> QED
        BY <2>7, <4>3, Zenon DEF NamesInv, Distinct
    <3> QED
      BY <3>1, <3>2
  <2>17. e.opt \in Meant(it, c) <=> e = d
    BY <1>2, <1>5, <2>7, <2>8, <2>15, <2>16, Zenon
  <2>18. it.name # None /\ it.name = e.opt.long <=> e = d
    BY <2>1, <2>8, <2>14, Zenon
  <2> QED
    BY <1>0, <2>1, <2>13, <2>17, <2>18, Zenon
<1>6. it.dashes = 1 \/ it.dashes = 2
  BY DEF IsItem
<1> QED
  BY <1>4, <1>5, <1>6

-----------------------------------------------------------------------------
(* Values. *)

\* Every part of an option is as its last word says, and the option is marked if
\* there is a word that marks it.
WordOf(e) ==
    /\ \A p \in Parts(e.opt) : PartOf(e.opt, value[e.opt], p) = LastWord(said, lines, e, p)
    /\ e.opt \in is_set <=> Mentioned(said, lines, e, "is_set")

\* Nothing is set before the file is read.
WordInv ==
    /\ argv \in ArgLists \cup {<<>>} /\ optind \in Nat
    /\ \E U : said \in Seq(U)
    /\ stage \in {"add", "file"} => said = <<>>
    /\ stage = "add" => is_set = {} /\ \A o \in Options : value[o] = o.default
    /\ \A e \in Added : WordOf(e)

ConfigInv == NamesInv /\ NumbersInv /\ Prepared /\ WordInv

LEMMA NothingSaid ==
    ASSUME NEW ls, NEW e, NEW p
    PROVE  /\ LastWord(<<>>, ls, e, p) = FileWord(ls, e, p)
           /\ Mentioned(<<>>, ls, e, p) <=> InFileOf(ls, e, p) # {}
<1>1. OnLineOf(<<>>, e.opt, p) = {}
  BY DEF OnLineOf
<1> QED
  BY <1>1, Zenon DEF LastWord, Mentioned

LEMMA NothingRead ==
    ASSUME NEW e, NEW p
    PROVE  /\ LastWord(<<>>, <<>>, e, p) = PartOf(e.opt, e.opt.default, p)
           /\ ~Mentioned(<<>>, <<>>, e, p)
<1>1. InFileOf(<<>>, e, p) = {}
  BY DEF InFileOf
<1>2. FileWord(<<>>, e, p) = PartOf(e.opt, e.opt.default, p)
  BY <1>1, Zenon DEF FileWord
<1> QED
  BY <1>1, <1>2, NothingSaid, Zenon

\* The mark is no part of what is stored.
LEMMA MarkIsNoPart == ASSUME NEW o PROVE "is_set" \notin Parts(o)
<1>1. \A n \in Range(prioritynames) : n[1] # "is_set"
  BY DEF Range, prioritynames
<1> QED
  BY <1>1 DEF Parts

LEMMA AffectsFacts ==
    ASSUME NEW o, NEW v, NEW p \in Parts(o)
    PROVE  /\ Affects(o, v, p) <=> p \in Writes(o, v)
           /\ Affects(o, v, "is_set") <=> Accepts(o, v)
<1>1. "is_set" \notin Parts(o)
  BY MarkIsNoPart
<1>2. p \notin Marks(o, v)
  BY <1>1 DEF Marks
<1>3. Writes(o, v) \subseteq Parts(o)
  BY Zenon DEF Writes
<1>4. "is_set" \in Marks(o, v) <=> Accepts(o, v)
  BY DEF Marks
<1> QED
  BY <1>1, <1>2, <1>3, <1>4 DEF Affects

\* A setter makes the same of a part it writes, whatever was stored before, and
\* leaves the others.
LEMMA SetFacts ==
    ASSUME NEW o, NEW old, NEW v, NEW p \in Parts(o)
    PROVE  PartOf(o, Set(o, old, v).value, p) =
               IF p \in Writes(o, v) THEN Wrote(o, v, p) ELSE PartOf(o, old, p)
<1> DEFINE new(m) == PartOf(o, Set(o, m, v).value, p)
<1>0. Wrote(o, v, p) = new(o.default)
  BY Zenon DEF Wrote
<1>1. CASE o.type = "logopts"
  <2>1. \A m : Set(o, m, v).value = Set(o, old, v).value
    BY <1>1 DEF Set, mconf_set_logopts, Accepted, Rejected
  <2>2. p \in Writes(o, v)
    BY <1>1 DEF Writes
  <2> QED
    BY <1>0, <2>1, <2>2
<1>2. CASE o.type = "loglevel"
  <2>1. PICK N, I, c : /\ N = Named(AsLevels(v)) /\ I = PutIn(AsLevels(v))
                       /\ c = Code(prioritynames, p)
    OBVIOUS
  <2>2. I \subseteq N
    BY <2>1 DEF PutIn
  <2>3. ASSUME NEW m PROVE new(m) = (c \in (m \ N) \cup I)
    BY <1>2, <2>1 DEF PartOf, Set, mconf_set_loglevel
  <2>4. PartOf(o, old, p) = (c \in old)
    BY <1>2, <2>1 DEF PartOf
  <2>5. p \in Writes(o, v) <=> c \in N
    BY <1>2, <2>1 DEF Writes
  <2> QED
    BY <1>0, <2>2, <2>3, <2>4, <2>5
<1>3. CASE o.type # "logopts" /\ o.type # "loglevel"
  <2>1. ASSUME NEW m PROVE new(m) = IF v \in o.accepts THEN v ELSE m
    BY <1>3 DEF PartOf, Set, Accepted, Rejected
  <2>2. PartOf(o, old, p) = old
    BY <1>3 DEF PartOf
  <2>3. p \in Writes(o, v) <=> v \in o.accepts
    BY <1>3 DEF Writes, Accepts, Set, Accepted, Rejected
  <2> QED
    BY <1>0, <2>1, <2>2, <2>3
<1> QED
  BY <1>1, <1>2, <1>3

\* What the setters of these options do to one option.
LEMMA StoreFacts ==
    ASSUME NEW opts, NEW v, Store(opts, v), NEW o \in Options
    PROVE  /\ \A p \in Parts(o) :
                 PartOf(o, value'[o], p) = IF o \in opts /\ Affects(o, v, p) THEN Wrote(o, v, p)
                                           ELSE PartOf(o, value[o], p)
           /\ o \in is_set' <=> o \in is_set \/ (o \in opts /\ Affects(o, v, "is_set"))
<1>1. value'[o] = IF o \in opts THEN Set(o, value[o], v).value ELSE value[o]
  BY DEF Store
<1>2. o \in is_set' <=> o \in is_set \/ (o \in opts /\ Accepts(o, v))
  BY DEF Store
<1>3. Affects(o, v, "is_set") <=> Accepts(o, v)
  <2>1. \E p : p \in Parts(o)
    BY DEF Parts, Range, prioritynames
  <2> QED
    BY <2>1, AffectsFacts
<1>4. ASSUME NEW p \in Parts(o)
      PROVE  PartOf(o, value'[o], p) = IF o \in opts /\ Affects(o, v, p) THEN Wrote(o, v, p)
                                       ELSE PartOf(o, value[o], p)
  <2>1. PartOf(o, Set(o, value[o], v).value, p) =
            IF p \in Writes(o, v) THEN Wrote(o, v, p) ELSE PartOf(o, value[o], p)
    BY SetFacts
  <2>2. Affects(o, v, p) <=> p \in Writes(o, v)
    BY AffectsFacts
  <2> QED
    BY <1>1, <2>1, <2>2, Zenon
<1> QED
  BY <1>2, <1>3, <1>4, Zenon

\* A step that sets no option and adds none.
LEMMA OthersConfigInv ==
    ASSUME ConfigInv, UNCHANGED table, UNCHANGED stored, UNCHANGED lines, UNCHANGED said,
           UNCHANGED argv, optind' \in Nat,
           stage' = "add" => stage = "add", stage' = "file" => stage \in {"add", "file"},
           UNCHANGED opt_long \/ (TableTypes /\ Prepare)
    PROVE  ConfigInv'
<1>1. /\ UNCHANGED blocks /\ UNCHANGED toAdd /\ UNCHANGED long_idx /\ UNCHANGED opt_idx
      /\ UNCHANGED value /\ UNCHANGED is_set
  BY DEF table, stored
<1>2. Added' = Added
  BY <1>1, Zenon DEF Added
<1>3. NamesInv'
  BY <1>1, OthersNamesInv DEF ConfigInv
<1>4. NumbersInv'
  BY <1>1, <1>2, Zenon DEF ConfigInv, NumbersInv
<1>5. Prepared'
  <2>1. CASE UNCHANGED opt_long
    BY <1>1, <1>2, <2>1, Zenon DEF ConfigInv, Prepared
  <2>2. CASE TableTypes /\ Prepare
    BY <1>1, <2>2, PreparePrepared
  <2> QED
    BY <2>1, <2>2
<1>6. WordInv'
  <2>1. /\ argv' \in ArgLists \cup {<<>>} /\ optind' \in Nat
        /\ \E U : said' \in Seq(U)
    BY DEF ConfigInv, WordInv
  <2>2. stage' \in {"add", "file"} => said' = <<>>
    BY DEF ConfigInv, WordInv
  <2>3. stage' = "add" => is_set' = {} /\ \A o \in Options : value'[o] = o.default
    BY <1>1, Zenon DEF ConfigInv, WordInv
  <2>4. \A e \in Added' : WordOf(e)'
    BY <1>1, <1>2, Zenon DEF ConfigInv, WordInv, WordOf
  <2> QED
    BY <2>1, <2>2, <2>3, <2>4, Zenon DEF WordInv
<1> QED
  BY <1>3, <1>4, <1>5, <1>6 DEF ConfigInv

LEMMA AddConfigInv ==
    ASSUME TableTypes, FileInv, ConfigInv, mconf_add, TableTypes'
    PROVE  ConfigInv'
<1>1. /\ stage = "add" /\ UNCHANGED stage /\ UNCHANGED argv /\ UNCHANGED optind /\ UNCHANGED said
      /\ UNCHANGED opt_long /\ UNCHANGED value /\ UNCHANGED is_set /\ UNCHANGED lines
  BY DEF mconf_add, program, tried, stored, read
<1>2. said = <<>> /\ lines = <<>> /\ is_set = {} /\ \A o \in Options : value[o] = o.default
  BY <1>1 DEF ConfigInv, WordInv, FileInv
<1>3. opt_long' = <<>>
  BY <1>1 DEF ConfigInv, Prepared
<1>4. Prepared'
  <2>1. \A i \in 1 .. Len(opt_long') : FALSE
    BY <1>3
  <2> QED
    BY <1>3, <2>1, Zenon DEF Prepared
<1>5. WordInv'
  <2>1. \A e \in Added' : e.opt \in Options
    <3>1. PICK es \in Seq(Entry) : es = Entries(blocks')
      BY EntriesTypes DEF TableTypes
    <3>2. \A e \in Added' : e \in Entry
      BY <3>1, RangeOfSeq DEF Added
    <3> QED
      BY <3>2 DEF Entry
  <2>2. \A e \in Added' : WordOf(e)'
    <3> SUFFICES ASSUME NEW e \in Added' PROVE WordOf(e)'
      OBVIOUS
    <3>1. value'[e.opt] = e.opt.default /\ e.opt \notin is_set'
      BY <1>1, <1>2, <2>1
    <3>2. \A p : /\ LastWord(said', lines', e, p) = PartOf(e.opt, e.opt.default, p)
                 /\ ~Mentioned(said', lines', e, p)
      BY <1>1, <1>2, NothingRead, Zenon
    <3> QED
      BY <3>1, <3>2, Zenon DEF WordOf
  <2>3. /\ argv' \in ArgLists \cup {<<>>} /\ optind' \in Nat
        /\ \E U : said' \in Seq(U)
    BY <1>1 DEF ConfigInv, WordInv
  <2>4. said' = <<>> /\ is_set' = {} /\ \A o \in Options : value'[o] = o.default
    BY <1>1, <1>2, Zenon
  <2> QED
    BY <2>2, <2>3, <2>4, Zenon DEF WordInv
<1> QED
  BY <1>4, <1>5, AddNamesInv, AddNumbersInv DEF ConfigInv

LEMMA LineConfigInv ==
    ASSUME TableTypes, FileInv, ConfigInv, ReadLine
    PROVE  ConfigInv'
<1>1. /\ stage = "file" /\ UNCHANGED stage /\ UNCHANGED argv /\ UNCHANGED optind /\ UNCHANGED said
      /\ UNCHANGED opt_long /\ UNCHANGED blocks /\ UNCHANGED toAdd /\ UNCHANGED long_idx
      /\ UNCHANGED opt_idx
  BY DEF ReadLine, program, table, tried
<1>2. said = <<>> /\ lines \in Seq(Lines) /\ section = SectionIn(lines, Len(lines)) /\ OneOption
  BY <1>1 DEF ConfigInv, WordInv, FileInv
<1>3. PICK l \in Lines :
          /\ lines' = Append(lines, l)
          /\ IF l.is = "pair" THEN Store(Handled(section, l), l.value) ELSE UNCHANGED stored
  BY DEF ReadLine
<1>4. PICK n \in Nat : n = Len(lines)
  BY <1>2, LenProperties
<1>5. Added' = Added
  BY <1>1, Zenon DEF Added
<1>6. NamesInv'
  BY <1>1, OthersNamesInv DEF ConfigInv
<1>7. NumbersInv'
  BY <1>1, <1>5, Zenon DEF ConfigInv, NumbersInv
<1>8. Prepared'
  BY <1>1, <1>5, Zenon DEF ConfigInv, Prepared
<1>9. ASSUME NEW e \in Added PROVE WordOf(e)'
  <2> DEFINE meant == l.is = "pair" /\ l.name = e.opt.conf /\ section = e.section
             new(p) == meant /\ Affects(e.opt, l.value, p)
  <2>1. ASSUME NEW p
        PROVE  /\ LastWord(said', lines', e, p) =
                     IF new(p) THEN Wrote(e.opt, l.value, p) ELSE LastWord(said, lines, e, p)
               /\ Mentioned(said', lines', e, p) <=> new(p) \/ Mentioned(said, lines, e, p)
    <3>1. PICK ls \in Seq(Lines) : ls = lines
      BY <1>2
    <3>2. n = Len(ls)
      BY <1>4, <3>1
    <3>3. FileWordGrows(ls, l, n, e, p)
      BY <3>2, FileWordNext
    <3>4. SectionIn(ls, n) = section /\ lines' = Append(ls, l)
      BY <1>2, <1>3, <1>4, <3>1, Zenon
    <3>5. /\ FileWord(lines', e, p) =
                IF new(p) THEN Wrote(e.opt, l.value, p) ELSE FileWord(lines, e, p)
          /\ InFileOf(lines', e, p) # {} <=> new(p) \/ InFileOf(lines, e, p) # {}
      BY <3>1, <3>3, <3>4, Zenon DEF FileWordGrows
    <3>6. /\ LastWord(said', lines', e, p) = FileWord(lines', e, p)
          /\ Mentioned(said', lines', e, p) <=> InFileOf(lines', e, p) # {}
          /\ LastWord(said, lines, e, p) = FileWord(lines, e, p)
          /\ Mentioned(said, lines, e, p) <=> InFileOf(lines, e, p) # {}
      BY <1>1, <1>2, NothingSaid, Zenon
    <3> HIDE DEF new
    <3> QED
      BY <3>5, <3>6
  <2>2. /\ \A p \in Parts(e.opt) : PartOf(e.opt, value[e.opt], p) = LastWord(said, lines, e, p)
        /\ e.opt \in is_set <=> Mentioned(said, lines, e, "is_set")
    BY Zenon DEF ConfigInv, WordInv, WordOf
  <2>3. /\ \A p \in Parts(e.opt) :
              PartOf(e.opt, value'[e.opt], p) =
                  IF new(p) THEN Wrote(e.opt, l.value, p) ELSE PartOf(e.opt, value[e.opt], p)
        /\ e.opt \in is_set' <=> e.opt \in is_set \/ new("is_set")
    <3>1. CASE l.is = "pair"
      <4>1. l.name # None
        BY <3>1, NamesAssumption
      <4>2. e.opt \in Handled(section, l) <=> e.section = section /\ e.opt.conf = l.name
        <5>1. CASE Handled(section, l) = {} /\ \A f \in Added : ~(f.section = section /\ f.opt.conf = l.name)
          BY <5>1, Zenon
        <5>2. CASE \E d \in Added :
                      /\ Handled(section, l) = {d.opt} /\ d.section = section /\ d.opt.conf = l.name
                      /\ \A f \in Added : f.section = section /\ f.opt.conf = l.name => f.opt = d.opt
          <6>1. PICK d \in Added :
                      /\ Handled(section, l) = {d.opt} /\ d.section = section /\ d.opt.conf = l.name
                      /\ \A f \in Added : f.section = section /\ f.opt.conf = l.name => f.opt = d.opt
            BY <5>2
          <6>2. e.opt = d.opt => e.section = d.section
            BY Zenon DEF ConfigInv, NamesInv, OneSection
          <6> QED
            BY <6>1, <6>2, Zenon
        <5> QED
          BY <1>2, <4>1, <5>1, <5>2, HandledIs
      <4>3. e.opt \in Options
        BY AddedTypes
      <4>4. Store(Handled(section, l), l.value)
        BY <1>3, <3>1
      <4>5. e.opt \in Handled(section, l) <=> meant
        BY <3>1, <4>2, Zenon
      <4>6. /\ \A p \in Parts(e.opt) :
                  PartOf(e.opt, value'[e.opt], p) =
                      IF e.opt \in Handled(section, l) /\ Affects(e.opt, l.value, p)
                      THEN Wrote(e.opt, l.value, p) ELSE PartOf(e.opt, value[e.opt], p)
            /\ e.opt \in is_set' <=>
                  \/ e.opt \in is_set
                  \/ e.opt \in Handled(section, l) /\ Affects(e.opt, l.value, "is_set")
        BY <4>3, <4>4, StoreFacts
      <4> HIDE DEF meant
      <4> QED
        BY <4>5, <4>6, Zenon
    <3>2. CASE l.is # "pair"
      <4>1. UNCHANGED value /\ UNCHANGED is_set
        BY <1>3, <3>2 DEF stored
      <4> QED
        BY <3>2, <4>1, Zenon
    <3> QED
      BY <3>1, <3>2
  <2> HIDE DEF new
  <2> QED
    BY <2>1, <2>2, <2>3, Zenon DEF WordOf
<1>10. WordInv'
  <2>1. /\ argv' \in ArgLists \cup {<<>>} /\ optind' \in Nat /\ said' = <<>> /\ stage' # "add"
        /\ \E U : said' \in Seq(U)
    BY <1>1, <1>2 DEF ConfigInv, WordInv
  <2> QED
    BY <1>5, <1>9, <2>1, Zenon DEF WordInv
<1> QED
  BY <1>6, <1>7, <1>8, <1>10 DEF ConfigInv

LEMMA ItemConfigInv ==
    ASSUME TableTypes, ConfigInv, OptionItem
    PROVE  ConfigInv'
<1>1. /\ stage = "cmdline" /\ UNCHANGED argv /\ UNCHANGED table /\ UNCHANGED opt_long
      /\ UNCHANGED lines /\ optind < Len(argv) /\ optind \in Nat
  BY DEF OptionItem, program, tried, read, ConfigInv, WordInv
<1>2. PICK it : it = argv[optind + 1] /\ it.dashes > 0
  BY DEF OptionItem
<1>3. IsItem(it)
  <2>1. argv # <<>>
    BY <1>1
  <2>2. PICK av \in ArgLists : av = argv
    BY <2>1 DEF ConfigInv, WordInv
  <2>3. av \in Seq(Range(av)) /\ \A x \in Range(av) : IsItem(x)
    BY ItemsAssumption, Zenon DEF IsItem
  <2>4. optind + 1 \in DOMAIN av
    BY <1>1, <2>2, <2>3, LenProperties
  <2> QED
    BY <1>2, <2>2, <2>3, <2>4, Zenon DEF Range
<1>4. PICK arg, c : /\ arg = IF Separate(it) THEN Text(argv[optind + 2]) ELSE it.arg
                    /\ c = Reported(it)
  OBVIOUS
<1>5. IF Bad(it)
      THEN stage' = "failed" /\ UNCHANGED <<stored, optind, said>>
      ELSE /\ optind' = optind + IF Separate(it) THEN 2 ELSE 1
           /\ said' = Append(said, [letter |-> it.letter, name |-> it.name, arg |-> arg])
           /\ IF c = LetterC THEN UNCHANGED stored ELSE Store(Meant(it, c), arg)
           /\ UNCHANGED stage
  BY <1>2, <1>4, Zenon DEF OptionItem, Reported
<1>6. CASE Bad(it)
  <2>1. UNCHANGED stored /\ UNCHANGED said /\ optind' \in Nat /\ stage' = "failed"
    BY <1>1, <1>5, <1>6
  <2>2. stage' # "add" /\ stage' # "file"
    BY <2>1
  <2> QED
    BY <1>1, <2>1, <2>2, OthersConfigInv
<1>7. CASE ~Bad(it)
  <2>1. UNCHANGED blocks /\ UNCHANGED toAdd /\ UNCHANGED long_idx /\ UNCHANGED opt_idx
    BY <1>1 DEF table
  <2>2. Added' = Added
    BY <2>1, Zenon DEF Added
  <2>3. stage' = "cmdline" /\ optind' \in Nat
    <3>1. stage' = "cmdline" /\ optind' = optind + IF Separate(it) THEN 2 ELSE 1
      BY <1>1, <1>5, <1>7
    <3> QED
      BY <1>1, <3>1
  <2>4. NamesInv'
    BY <2>1, OthersNamesInv DEF ConfigInv
  <2>5. NumbersInv'
    BY <2>1, <2>2, Zenon DEF ConfigInv, NumbersInv
  <2>6. stage' # "add" /\ stage' # "file"
    BY <2>3
  <2>7. Prepared'
    BY <1>1, <2>1, <2>2, <2>6, Zenon DEF ConfigInv, Prepared
  <2>8. PICK x : x = [letter |-> it.letter, name |-> it.name, arg |-> arg]
    OBVIOUS
  <2>9. x.letter = it.letter /\ x.name = it.name /\ x.arg = arg
    BY <2>8
  <2>10. PICK U : said \in Seq(U)
    BY Zenon DEF ConfigInv, WordInv
  <2>11. PICK V : V = U \cup {x}
    OBVIOUS
  <2>12. x \in V /\ said \in Seq(V)
    <3>1. U \subseteq V
      BY <2>11
    <3> QED
      BY <2>10, <2>11, <3>1, SeqMonotonic
  <2>13. said' = Append(said, x)
    BY <1>5, <1>7, <2>8
  <2>14. said' \in Seq(V)
    BY <2>12, <2>13, AppendProperties
  <2>15. ASSUME NEW e \in Added PROVE WordOf(e)'
    <3>1. ASSUME NEW p
          PROVE  /\ LastWord(said', lines', e, p) =
                       IF Regards(x, e.opt, p) THEN Wrote(e.opt, arg, p)
                       ELSE LastWord(said, lines, e, p)
                 /\ Mentioned(said', lines', e, p)
                       <=> Regards(x, e.opt, p) \/ Mentioned(said, lines, e, p)
      <4>1. PICK sd \in Seq(V) : sd = said
        BY <2>12
      <4>2. PICK ls : ls = lines
        OBVIOUS
      <4>3. /\ LastWord(Append(sd, x), ls, e, p) =
                  IF Regards(x, e.opt, p) THEN Wrote(e.opt, x.arg, p) ELSE LastWord(sd, ls, e, p)
            /\ Mentioned(Append(sd, x), ls, e, p)
                  <=> Regards(x, e.opt, p) \/ Mentioned(sd, ls, e, p)
        BY <2>12, LastWordNext
      <4>4. said' = Append(sd, x) /\ lines' = ls
        BY <1>1, <2>13, <4>1, <4>2
      <4> QED
        BY <2>9, <4>1, <4>2, <4>3, <4>4, Zenon
    <3>2. /\ \A p \in Parts(e.opt) : PartOf(e.opt, value[e.opt], p) = LastWord(said, lines, e, p)
          /\ e.opt \in is_set <=> Mentioned(said, lines, e, "is_set")
      BY Zenon DEF ConfigInv, WordInv, WordOf
    <3>3. ~NotKnown(it) /\ it.dashes # 0
      BY <1>2, <1>7 DEF Bad
    <3>4. c # LetterC /\ e.opt \in Meant(it, c)
          <=> \/ it.letter # 0 /\ it.letter = e.opt.short
              \/ it.name # None /\ it.name = e.opt.long
      BY <1>3, <1>4, <3>3, MeantFacts DEF ConfigInv
    <3>5. \A p : Regards(x, e.opt, p)
                 <=> c # LetterC /\ e.opt \in Meant(it, c) /\ Affects(e.opt, arg, p)
      BY <2>9, <3>4, Zenon DEF Regards
    <3>6. CASE c = LetterC
      <4>1. UNCHANGED value /\ UNCHANGED is_set
        BY <1>5, <1>7, <3>6 DEF stored
      <4>2. \A p : ~Regards(x, e.opt, p)
        BY <3>5, <3>6, Zenon
      <4> QED
        BY <3>1, <3>2, <4>1, <4>2, Zenon DEF WordOf
    <3>7. CASE c # LetterC
      <4>1. e.opt \in Options
        BY AddedTypes
      <4>2. Store(Meant(it, c), arg)
        BY <1>5, <1>7, <3>7
      <4>3. /\ \A p \in Parts(e.opt) :
                  PartOf(e.opt, value'[e.opt], p) =
                      IF e.opt \in Meant(it, c) /\ Affects(e.opt, arg, p)
                      THEN Wrote(e.opt, arg, p) ELSE PartOf(e.opt, value[e.opt], p)
            /\ e.opt \in is_set' <=>
                  e.opt \in is_set \/ (e.opt \in Meant(it, c) /\ Affects(e.opt, arg, "is_set"))
        BY <4>1, <4>2, StoreFacts
      <4> QED
        BY <3>1, <3>2, <3>5, <3>7, <4>3, Zenon DEF WordOf
    <3> QED
      BY <3>6, <3>7
  <2>16. WordInv'
    <3>1. argv' \in ArgLists \cup {<<>>}
      BY <1>1 DEF ConfigInv, WordInv
    <3>2. stage' \notin {"add", "file"}
      BY <2>6
    <3> QED
      BY <2>2, <2>3, <2>6, <2>14, <2>15, <3>1, <3>2, Zenon DEF WordInv
  <2> QED
    BY <2>4, <2>5, <2>7, <2>16 DEF ConfigInv
<1> QED
  BY <1>6, <1>7

LEMMA InitConfigInv == ConfigIdle \/ ConfigInit => ConfigInv
<1> SUFFICES ASSUME ConfigIdle \/ ConfigInit PROVE ConfigInv
  OBVIOUS
<1>1. ConfigStart /\ argv \in ArgLists \cup {<<>>}
  BY DEF ConfigIdle, ConfigInit
<1>2. /\ blocks = <<>> /\ long_idx = 256 /\ opt_long = <<>> /\ is_set = {} /\ optind = 0
      /\ value = [o \in Options |-> o.default] /\ said = <<>>
  BY <1>1 DEF ConfigStart
<1>3. Added = {}
  <2>1. Entries(blocks) = <<>>
    BY <1>2, NoOptions
  <2> QED
    BY <2>1 DEF Added, Range
<1>4. NamesInv
  BY InitNamesInv
<1>5. NumbersInv
  <2>1. long_idx \in Nat /\ long_idx >= 256
    BY <1>2
  <2> QED
    BY <1>3, <2>1, Zenon DEF NumbersInv
<1>6. Prepared
  <2>1. \A i \in 1 .. Len(opt_long) : FALSE
    BY <1>2
  <2> QED
    BY <1>2, <2>1, Zenon DEF Prepared
<1>7. WordInv
  <2>1. optind \in Nat /\ (\E U : said \in Seq(U)) /\ \A o \in Options : value[o] = o.default
    BY <1>2
  <2> QED
    BY <1>1, <1>2, <1>3, <2>1, Zenon DEF WordInv
<1> QED
  BY <1>4, <1>5, <1>6, <1>7 DEF ConfigInv

LEMMA SpecConfigInv == Spec => []ConfigInv
<1>1. Init => ConfigInv
  BY InitConfigInv DEF Init
<1>2. RoomInv /\ RoomInv' /\ FileInv /\ ConfigInv /\ [Next]_vars => ConfigInv'
  <2> SUFFICES ASSUME RoomInv, RoomInv', FileInv, ConfigInv, [Next]_vars PROVE ConfigInv'
    OBVIOUS
  <2>0. optind \in Nat
    BY DEF ConfigInv, WordInv
  <2>1. ConfigNext \/ UNCHANGED confVars
    BY DEF Next, vars
  <2>2. CASE mconf_add
    BY <2>2, AddConfigInv DEF RoomInv
  <2>3. CASE ReadLine
    BY <2>3, LineConfigInv DEF RoomInv
  <2>4. CASE OptionItem
    BY <2>4, ItemConfigInv DEF RoomInv
  <2>5. CASE mconf_parse
    <3>1. /\ UNCHANGED table /\ UNCHANGED stored /\ UNCHANGED lines /\ UNCHANGED said
          /\ UNCHANGED argv /\ UNCHANGED optind /\ stage = "add"
          /\ UNCHANGED opt_long \/ Prepare
          /\ stage' \in {"help", "cmdline", "file", "failed"}
      BY <2>5 DEF mconf_parse, Prepare, program, tried
    <3> QED
      BY <2>0, <3>1, OthersConfigInv DEF RoomInv
  <2>6. CASE EndOfFile
    <3>1. /\ UNCHANGED table /\ UNCHANGED stored /\ UNCHANGED lines /\ UNCHANGED said
          /\ UNCHANGED argv /\ UNCHANGED optind
          /\ UNCHANGED opt_long \/ Prepare
          /\ stage' \in {"cmdline", "failed"}
      BY <2>6 DEF EndOfFile, Prepare, program, tried, read
    <3> QED
      BY <2>0, <3>1, OthersConfigInv DEF RoomInv
  <2>7. CASE SkipWord \/ EndOfItems
    <3>1. /\ UNCHANGED table /\ UNCHANGED stored /\ UNCHANGED lines /\ UNCHANGED said
          /\ UNCHANGED argv /\ UNCHANGED opt_long /\ optind' \in {optind, optind + 1}
          /\ stage = "cmdline" /\ stage' \in {"cmdline", "done"}
      BY <2>7 DEF SkipWord, EndOfItems, program, tried, read
    <3> QED
      BY <2>0, <3>1, OthersConfigInv
  <2>8. CASE UNCHANGED confVars
    <3>1. /\ UNCHANGED table /\ UNCHANGED stored /\ UNCHANGED lines /\ UNCHANGED said
          /\ UNCHANGED argv /\ UNCHANGED opt_long /\ UNCHANGED optind /\ UNCHANGED stage
      BY <2>8 DEF confVars, program, tried, read
    <3> QED
      BY <2>0, <3>1, OthersConfigInv
  <2> QED
    BY <2>1, <2>2, <2>3, <2>4, <2>5, <2>6, <2>7, <2>8 DEF ConfigNext
<1> QED
  BY <1>1, <1>2, SpecRoomInv, SpecFileInv, PTL DEF Spec

\* Whatever blocks a program adds, whatever the file and the command line hold, and
\* for every type of setter: each part of an option is what the last text that writes
\* it has made of it, on the command line or else in its section of the file, by its
\* letter or its long name, also if that text was refused, and the option is marked as
\* set if a text was accepted (ini_handler, mconf_parse_cmdline, opt_idx,
\* mconf_set_logopts, mconf_set_loglevel).
THEOREM SpecLastWordWins == Spec => []LastWordWins
<1>1. ConfigInv => LastWordWins
  <2> SUFFICES ASSUME ConfigInv, NEW e \in Added
               PROVE  /\ \A p \in Parts(e.opt) :
                            LET online == OnLine(e.opt, p)
                                infile == InFile(e, p)
                            IN  PartOf(e.opt, value[e.opt], p) =
                                   CASE online # {} -> Wrote(e.opt, said[Max(online)].arg, p)
                                     [] online = {} /\ infile # {} ->
                                            Wrote(e.opt, lines[Max(infile)].value, p)
                                     [] OTHER -> PartOf(e.opt, e.opt.default, p)
                      /\ e.opt \in is_set <=>
                            OnLine(e.opt, "is_set") \cup InFile(e, "is_set") # {}
    BY Zenon DEF LastWordWins
  <2>1. \A p : OnLine(e.opt, p) = OnLineOf(said, e.opt, p)
    BY Zenon DEF OnLine, OnLineOf, Regards, Affects
  <2>2. \A p : InFile(e, p) = InFileOf(lines, e, p)
    BY Zenon DEF InFile, InFileOf, SectionAt, SectionIn, Affects
  <2>3. WordOf(e)
    BY Zenon DEF ConfigInv, WordInv
  <2>4. ASSUME NEW p \in Parts(e.opt), NEW A, NEW B, A = OnLine(e.opt, p), B = InFile(e, p)
        PROVE  PartOf(e.opt, value[e.opt], p) =
                   CASE A # {} -> Wrote(e.opt, said[Max(A)].arg, p)
                     [] A = {} /\ B # {} -> Wrote(e.opt, lines[Max(B)].value, p)
                     [] OTHER -> PartOf(e.opt, e.opt.default, p)
    <3>1. PartOf(e.opt, value[e.opt], p) =
              IF A # {} THEN Wrote(e.opt, said[Max(A)].arg, p)
              ELSE IF B # {} THEN Wrote(e.opt, lines[Max(B)].value, p)
                   ELSE PartOf(e.opt, e.opt.default, p)
      BY <2>1, <2>2, <2>3, <2>4, Zenon DEF WordOf, LastWord, FileWord
    <3> QED
      BY <3>1
  <2>5. e.opt \in is_set <=> OnLine(e.opt, "is_set") \cup InFile(e, "is_set") # {}
    <3>1. e.opt \in is_set <=> OnLine(e.opt, "is_set") # {} \/ InFile(e, "is_set") # {}
      BY <2>1, <2>2, <2>3, Zenon DEF WordOf, Mentioned
    <3> QED
      BY <3>1
  <2> QED
    BY <2>4, <2>5
<1> QED
  BY <1>1, SpecConfigInv, PTL
=============================================================================
