--------------------------- MODULE SessionProofs ---------------------------
(***************************************************************************)
(* Proofs about Session, for any number of packets, any filters, any       *)
(* delays, and any sizes of the window and of the kernel's buffer.         *)
(***************************************************************************)
EXTENDS Session, NatFacts, FiniteSetTheorems, TLAPS

\* What the source of d may send and recvq::recv has not read.
Unread(d) == {Input[d][i] : i \in nin[d] + 1 .. Len(Input[d])}

(***************************************************************************)
(* L, R[d] and Q[d] are the packets of the delayed queue, of the receive   *)
(* queue and of the send queue of d, U[d] those not read yet, r the        *)
(* reference counts: no packet is in two of them, what the filters will    *)
(* inject around a packet not filtered yet is in none, and a packet has    *)
(* one reference if it is in a list.                                       *)
(***************************************************************************)
InList(p, L, R, Q) == p \in L \/ \E d \in Dirs : p \in R[d] \/ p \in Q[d]
Unmade(x, L, Q) == \A p \in Injected(x) : p \notin L /\ \A d \in Dirs : p \notin Q[d]
Apart(L, R, Q, U, r) ==
    /\ \A d \in Dirs : \A p \in R[d] : p \in Range(Input[d]) /\ p \notin U[d]
    /\ \A d \in Dirs : \A p \in U[d] : p \in Range(Input[d])
    /\ \A p \in L : \A d \in Dirs : p \notin Range(Input[d]) /\ p \notin Q[d]
    /\ \A d, e \in Dirs : \A p \in Q[d] : p \notin R[e] /\ p \notin U[e] /\ (d # e => p \notin Q[e])
    /\ \A d \in Dirs : \A x \in R[d] : Unmade(x, L, Q)
    /\ \A d \in Dirs : \A x \in U[d] : Unmade(x, L, Q)
    /\ \A p \in Packets : r[p] = IF InList(p, L, R, Q) THEN 1 ELSE 0

Ranges(f) == [d \in Dirs |-> Range(f[d])]
Unreads == [d \in Dirs |-> Unread(d)]

Types ==
    /\ given \in [Dirs -> Seq(Packets)] /\ nin \in [Dirs -> Nat]
    /\ wire \in [Dirs -> Seq(Packets)] /\ nout \in [Dirs -> Nat]
    /\ fin \in [Dirs -> BOOLEAN] /\ gone \in [Dirs -> BOOLEAN]
    /\ rdshut \in [Dirs -> BOOLEAN] /\ eof \in [Dirs -> BOOLEAN] /\ broken \in [Dirs -> BOOLEAN]
    /\ inw \in [Dirs -> BOOLEAN] /\ outw \in [Dirs -> BOOLEAN]
    /\ wrshut \in [Dirs -> {"no", "whole", "broken"}]
    /\ rcvq \in [Dirs -> Seq(Packets)] /\ pq \in [Dirs -> Seq(Packets)] /\ win \in [Dirs -> Seq(Packets)]
    /\ live \in BOOLEAN
    /\ dq \in Seq(Packets)
    /\ ticking \subseteq Packets
    /\ has_new \in BOOLEAN
    /\ refc \in [Packets -> Int]
    /\ pc \in {"idle", "filter", "other", "check"}
    /\ cur \in Dirs

\* The kernel holds what the destination has not read, as far as it has room.
Buffered == \A d \in Dirs : nout[d] <= Len(wire[d]) /\ Len(wire[d]) <= nout[d] + SNDBUF

\* A source sends its input in order; the pipe has read part of it.
Sent ==
    \A d \in Dirs :
        /\ nin[d] <= Len(given[d]) /\ Len(given[d]) <= Len(Input[d])
        /\ \A i \in 1 .. Len(given[d]) : given[d][i] = Input[d][i]

\* No packet is twice in a list.
Single == IsInjective(dq) /\ \A d \in Dirs : IsInjective(rcvq[d]) /\ IsInjective(pq[d])

Linked == Apart(Range(dq), Ranges(rcvq), Ranges(pq), Unreads, refc)

\* Timers run for what is in the delayed queue, or will when the callback has
\* filtered everything.
Timed == (pc = "filter" /\ has_new) \/ ticking = Range(dq)

\* A pipe is read until its source has ended, and is written while it has
\* something to write; in the middle of a callback it may still be about to be.
Awake(d) == pq[d] # <<>> /\ ~broken[d] => outw[d]
Watched ==
    /\ \A d \in Dirs : (eof[d] => ~inw[d]) /\ (live /\ ~eof[d] => inw[d])
    /\ live /\ pc \in {"idle", "check"} => \A d \in Dirs : Awake(d)
    /\ live /\ pc = "other" => Awake(cur)

\* A stream ends when its source has ended it and all of it was read, or when
\* the pipe is broken; it is passed on as whole when nothing of it is left.
Ended ==
    \A d \in Dirs :
        /\ rdshut[d] => broken[d]
        /\ eof[d] /\ ~broken[d] => fin[d] /\ nin[d] = Len(given[d])
        /\ wrshut[d] = "whole" =>
              /\ eof[d] /\ fin[d] /\ nin[d] = Len(given[d]) /\ rcvq[d] = <<>>
              /\ \A p \in Range(pq[d]) : p \notin Range(Input[d])

IInv == Types /\ Buffered /\ Sent /\ Single /\ Linked /\ Timed /\ Watched /\ Ended
-----------------------------------------------------------------------------
(* Sequences.                                                              *)

LEMMA RangeFacts ==
    ASSUME NEW T, NEW s \in Seq(T)
    PROVE  /\ Range(s) \subseteq T
           /\ \A x : x \in Range(s) <=> \E i \in 1 .. Len(s) : s[i] = x
           /\ IsInjective(s) <=> \A i, j \in 1 .. Len(s) : s[i] = s[j] => i = j
           /\ (Range(s) = {}) <=> (s = <<>>)
<1>1. DOMAIN s = 1 .. Len(s) /\ Len(s) \in Nat /\ \A i \in 1 .. Len(s) : s[i] \in T
  OBVIOUS
<1>2. Range(s) = {} => s = <<>>
  <2>1. Range(s) = {} => 1 .. Len(s) = {}
    BY <1>1 DEF Range
  <2> QED
    BY <1>1, <2>1
<1>3. \A x : x \in Range(s) <=> \E i \in 1 .. Len(s) : s[i] = x
  BY <1>1 DEF Range
<1>4. IsInjective(s) <=> \A i, j \in 1 .. Len(s) : s[i] = s[j] => i = j
  BY <1>1 DEF IsInjective
<1>5. s = <<>> => Range(s) = {}
  BY DEF Range
<1>6. Range(s) \subseteq T
  BY <1>1 DEF Range
<1> QED
  BY <1>2, <1>3, <1>4, <1>5, <1>6

LEMMA FirstFacts ==
    ASSUME NEW T, NEW s \in Seq(T), NEW n \in Int
    PROVE  /\ First(s, n) \in Seq(T)
           /\ Len(First(s, n)) = IF n < 0 THEN 0 ELSE IF n <= Len(s) THEN n ELSE Len(s)
           /\ \A i \in 1 .. Len(First(s, n)) : First(s, n)[i] = s[i]
BY DEF First, Smaller

LEMMA AfterFacts ==
    ASSUME NEW T, NEW s \in Seq(T), NEW n \in Nat
    PROVE  /\ After(s, n) \in Seq(T)
           /\ Len(After(s, n)) = IF n <= Len(s) THEN Len(s) - n ELSE 0
           /\ \A i \in 1 .. Len(After(s, n)) : After(s, n)[i] = s[i + n]
BY DEF After

\* The first packets of a list, and the rest.
LEMMA CutFacts ==
    ASSUME NEW T, NEW s \in Seq(T), IsInjective(s), NEW n \in 0 .. Len(s)
    PROVE  /\ Range(First(s, n)) \subseteq Range(s)
           /\ Range(After(s, n)) = Range(s) \ Range(First(s, n))
           /\ IsInjective(After(s, n))
<1> DEFINE f == First(s, n)
           a == After(s, n)
<1>1. n \in Nat /\ n \in Int /\ Len(s) \in Nat
  OBVIOUS
<1>2. f \in Seq(T) /\ Len(f) = n /\ \A i \in 1 .. n : f[i] = s[i]
  BY <1>1, FirstFacts
<1>3. a \in Seq(T) /\ Len(a) = Len(s) - n /\ \A i \in 1 .. Len(s) - n : a[i] = s[i + n]
  BY <1>1, AfterFacts
<1> HIDE DEF f, a
<1>4. \A i, j \in 1 .. Len(s) : s[i] = s[j] => i = j
  BY RangeFacts
<1>5. \A x : x \in Range(s) <=> \E i \in 1 .. Len(s) : s[i] = x
  BY RangeFacts
<1>6. \A x : x \in Range(f) <=> \E i \in 1 .. n : s[i] = x
  <2>1. \A x : x \in Range(f) <=> \E i \in 1 .. Len(f) : f[i] = x
    BY <1>2, RangeFacts
  <2> QED
    BY <1>2, <2>1
<1>7. \A x : x \in Range(a) <=> \E i \in n + 1 .. Len(s) : s[i] = x
  <2>1. \A x : x \in Range(a) <=> \E i \in 1 .. Len(a) : a[i] = x
    BY <1>3, RangeFacts
  <2>2. ASSUME NEW x, NEW i \in 1 .. Len(s) - n, a[i] = x PROVE \E j \in n + 1 .. Len(s) : s[j] = x
    <3>1. i + n \in n + 1 .. Len(s) /\ s[i + n] = x
      BY <1>1, <1>3, <2>2
    <3> QED
      BY <3>1
  <2>3. ASSUME NEW x, NEW i \in n + 1 .. Len(s), s[i] = x PROVE \E j \in 1 .. Len(s) - n : a[j] = x
    <3>1. i - n \in 1 .. Len(s) - n /\ a[i - n] = s[(i - n) + n] /\ (i - n) + n = i
      BY <1>1, <1>3
    <3> QED
      BY <2>3, <3>1
  <2> QED
    BY <1>3, <2>1, <2>2, <2>3
<1>8. Range(f) \subseteq Range(s)
  BY <1>1, <1>5, <1>6
<1>9. Range(a) = Range(s) \ Range(f)
  <2>1. \A i \in 1 .. Len(s) : i \in 1 .. n \/ i \in n + 1 .. Len(s)
    BY <1>1
  <2>2. \A i \in 1 .. n : i \in 1 .. Len(s)
    BY <1>1
  <2>3. \A i \in n + 1 .. Len(s) : i \in 1 .. Len(s) /\ i \notin 1 .. n
    BY <1>1
  <2> QED
    BY <1>4, <1>5, <1>6, <1>7, <2>1, <2>2, <2>3
<1>10. \A i, j \in 1 .. Len(a) : a[i] = a[j] => i = j
  BY <1>1, <1>3, <1>4
<1>12. IsInjective(a)
  BY <1>3, <1>10, RangeFacts
<1> QED
  BY <1>8, <1>9, <1>12 DEF f, a

LEMMA FirstInjective ==
    ASSUME NEW T, NEW s \in Seq(T), IsInjective(s), NEW n \in Int
    PROVE  Range(First(s, n)) \subseteq Range(s) /\ IsInjective(First(s, n))
<1> DEFINE f == First(s, n)
<1>1. f \in Seq(T) /\ Len(f) <= Len(s) /\ Len(f) \in Nat /\ Len(s) \in Nat /\ \A i \in 1 .. Len(f) : f[i] = s[i]
  BY FirstFacts
<1> HIDE DEF f
<1>2. \A i, j \in 1 .. Len(s) : s[i] = s[j] => i = j
  BY RangeFacts
<1>3. \A x : x \in Range(s) <=> \E i \in 1 .. Len(s) : s[i] = x
  BY RangeFacts
<1>4. \A x : x \in Range(f) <=> \E i \in 1 .. Len(f) : f[i] = x
  BY <1>1, RangeFacts
<1>5. \A i \in 1 .. Len(f) : i \in 1 .. Len(s)
  BY <1>1
<1>6. IsInjective(f)
  BY <1>1, <1>2, <1>5, RangeFacts
<1> QED
  BY <1>1, <1>3, <1>4, <1>5, <1>6 DEF f

\* One list behind another.
LEMMA ConcatFacts ==
    ASSUME NEW T, NEW s \in Seq(T), NEW t \in Seq(T)
    PROVE  /\ s \o t \in Seq(T)
           /\ Range(s \o t) = Range(s) \cup Range(t)
           /\ IsInjective(s) /\ IsInjective(t) /\ Range(s) \cap Range(t) = {} => IsInjective(s \o t)
<1> DEFINE u == s \o t
<1>1. /\ u \in Seq(T) /\ Len(u) = Len(s) + Len(t) /\ Len(s) \in Nat /\ Len(t) \in Nat
      /\ \A i \in 1 .. Len(s) : u[i] = s[i]
      /\ \A i \in Len(s) + 1 .. Len(s) + Len(t) : u[i] = t[i - Len(s)]
  OBVIOUS
<1>2. \A x : x \in Range(s) <=> \E i \in 1 .. Len(s) : s[i] = x
  BY RangeFacts
<1>3. \A x : x \in Range(t) <=> \E i \in 1 .. Len(t) : t[i] = x
  BY RangeFacts
<1>4. \A x : x \in Range(u) <=> \E i \in 1 .. Len(u) : u[i] = x
  BY <1>1, RangeFacts
<1> HIDE DEF u
<1>5. \A i \in 1 .. Len(u) : i \in 1 .. Len(s) \/ (i \in Len(s) + 1 .. Len(s) + Len(t) /\ i - Len(s) \in 1 .. Len(t))
  BY <1>1
<1>6. ASSUME NEW x, x \in Range(u) PROVE x \in Range(s) \cup Range(t)
  <2>1. PICK i \in 1 .. Len(u) : u[i] = x
    BY <1>4, <1>6
  <2> QED
    BY <1>1, <1>2, <1>3, <1>5, <2>1
<1>7. ASSUME NEW x, x \in Range(s) PROVE x \in Range(u)
  <2>1. PICK i \in 1 .. Len(s) : s[i] = x
    BY <1>2, <1>7
  <2>2. i \in 1 .. Len(u) /\ u[i] = x
    BY <1>1, <2>1
  <2> QED
    BY <1>4, <2>2
<1>8. ASSUME NEW x, x \in Range(t) PROVE x \in Range(u)
  <2>1. PICK i \in 1 .. Len(t) : t[i] = x
    BY <1>3, <1>8
  <2>2. i + Len(s) \in Len(s) + 1 .. Len(s) + Len(t) /\ (i + Len(s)) - Len(s) = i /\ i + Len(s) \in 1 .. Len(u)
    BY <1>1
  <2>3. u[i + Len(s)] = x
    BY <1>1, <2>1, <2>2
  <2> QED
    BY <1>4, <2>2, <2>3
<1>9. ASSUME IsInjective(s), IsInjective(t), Range(s) \cap Range(t) = {} PROVE IsInjective(u)
  <2>1. \A i, j \in 1 .. Len(s) : s[i] = s[j] => i = j
    BY <1>9, RangeFacts
  <2>2. \A i, j \in 1 .. Len(t) : t[i] = t[j] => i = j
    BY <1>9, RangeFacts
  <2>3. \A i \in 1 .. Len(s), j \in 1 .. Len(t) : s[i] # t[j]
    BY <1>2, <1>3, <1>9
  <2>4. ASSUME NEW i \in 1 .. Len(u), NEW j \in 1 .. Len(u), u[i] = u[j] PROVE i = j
    <3>1. CASE i \in 1 .. Len(s) /\ j \in 1 .. Len(s)
      BY <1>1, <2>1, <2>4, <3>1
    <3>2. CASE i \in 1 .. Len(s) /\ j \notin 1 .. Len(s)
      BY <1>1, <1>5, <2>3, <2>4, <3>2
    <3>3. CASE i \notin 1 .. Len(s) /\ j \in 1 .. Len(s)
      BY <1>1, <1>5, <2>3, <2>4, <3>3
    <3>4. CASE i \notin 1 .. Len(s) /\ j \notin 1 .. Len(s)
      <4>1. t[i - Len(s)] = t[j - Len(s)] /\ i - Len(s) \in 1 .. Len(t) /\ j - Len(s) \in 1 .. Len(t)
        BY <1>1, <1>5, <2>4, <3>4
      <4>2. i - Len(s) = j - Len(s)
        BY <2>2, <4>1
      <4> QED
        BY <1>1, <4>2
    <3> QED
      BY <3>1, <3>2, <3>3, <3>4
  <2> QED
    BY <1>1, <2>4, RangeFacts
<1> QED
  BY <1>1, <1>6, <1>7, <1>8, <1>9 DEF u

\* A packet joins a list.
LEMMA AppendFacts ==
    ASSUME NEW T, NEW s \in Seq(T), NEW x \in T
    PROVE  /\ Append(s, x) \in Seq(T)
           /\ Range(Append(s, x)) = Range(s) \cup {x}
           /\ IsInjective(s) /\ x \notin Range(s) => IsInjective(Append(s, x))
<1>1. Append(s, x) = s \o <<x>> /\ <<x>> \in Seq(T)
  OBVIOUS
<1>2. Range(<<x>>) = {x} /\ IsInjective(<<x>>)
  <2>1. Len(<<x>>) = 1 /\ <<x>>[1] = x /\ DOMAIN <<x>> = 1 .. 1
    OBVIOUS
  <2> QED
    BY <2>1 DEF Range, IsInjective
<1> QED
  BY <1>1, <1>2, ConcatFacts, SMTT(60)

\* The first packet of a list is taken.
LEMMA TailFacts ==
    ASSUME NEW T, NEW s \in Seq(T), IsInjective(s), s # <<>>
    PROVE  /\ Head(s) \in Range(s) /\ Head(s) \in T
           /\ Tail(s) \in Seq(T) /\ IsInjective(Tail(s))
           /\ Range(Tail(s)) = Range(s) \ {Head(s)}
<1>1. /\ 1 \in 0 .. Len(s) /\ 1 \in 1 .. Len(s) /\ 1 \in Int /\ Head(s) = s[1] /\ Tail(s) \in Seq(T)
      /\ Len(s) \in Nat /\ ~(1 < 0) /\ 1 <= Len(s)
  OBVIOUS
<1>2. Tail(s) = After(s, 1)
  BY DEF After
<1>3. Range(First(s, 1)) = {s[1]}
  <2>0. PICK n \in Int : n = 1
    OBVIOUS
  <2> DEFINE f == First(s, n)
  <2>1. f \in Seq(T) /\ Len(f) = n /\ \A i \in 1 .. Len(f) : f[i] = s[i]
    BY <1>1, <2>0, FirstFacts
  <2>2. \A x : x \in Range(f) <=> \E i \in 1 .. Len(f) : f[i] = x
    BY <2>1, RangeFacts
  <2> HIDE DEF f
  <2>3. Range(f) = {s[1]}
    BY <2>0, <2>1, <2>2
  <2> QED
    BY <2>0, <2>3 DEF f
<1>4. s[1] \in Range(s) /\ s[1] \in T
  BY <1>1, RangeFacts
<1>5. IsInjective(After(s, 1)) /\ Range(After(s, 1)) = Range(s) \ Range(First(s, 1))
  <2>1. \A n \in 0 .. Len(s) : IsInjective(After(s, n)) /\ Range(After(s, n)) = Range(s) \ Range(First(s, n))
    BY CutFacts
  <2> QED
    BY <1>1, <2>1
<1> QED
  BY <1>1, <1>2, <1>3, <1>4, <1>5

\* Select is well defined: there is a function that picks element by element.
LEMMA PickedExist ==
    ASSUME NEW s \in Seq(Packets), NEW S
    PROVE  \E f \in [0 .. Len(s) -> Seq(Packets)] :
             f = [i \in 0 .. Len(s) |-> IF i = 0 THEN <<>> ELSE Pick(f[i - 1], s[i], S)]
<1> DEFINE B == Seq(Packets)
           Steps(n, f) == f[0] = <<>> /\ \A i \in 1 .. n : f[i] = Pick(f[i - 1], s[i], S)
           Good(n) == \E f \in [0 .. n -> B] : Steps(n, f)
           G == {n \in Nat : n <= Len(s) => Good(n)}
<1>1. Len(s) \in Nat /\ \A i \in 1 .. Len(s) : s[i] \in Packets
  OBVIOUS
<1>2. \A q \in B, i \in 1 .. Len(s) : Pick(q, s[i], S) \in B
  BY <1>1 DEF Pick
<1>3. <<>> \in B
  OBVIOUS
<1> HIDE DEF B
<1>4. 0 \in G
  <2>1. [i \in 0 .. 0 |-> <<>>] \in [0 .. 0 -> B] /\ Steps(0, [i \in 0 .. 0 |-> <<>>])
    BY <1>3
  <2> QED
    BY <2>1
<1>5. ASSUME NEW n \in Nat, n \in G PROVE n + 1 \in G
  <2> SUFFICES ASSUME n + 1 <= Len(s) PROVE Good(n + 1)
    <3> HIDE DEF Good
    <3> QED
      OBVIOUS
  <2>0. Good(n)
    <3> HIDE DEF Good
    <3> QED
      BY <1>1, <1>5
  <2>1. PICK f \in [0 .. n -> B] : Steps(n, f)
    BY <2>0
  <2> DEFINE next == Pick(f[n], s[n + 1], S)
             g == [i \in 0 .. n + 1 |-> IF i = n + 1 THEN next ELSE f[i]]
  <2>2. next \in B
    <3>1. n + 1 \in 1 .. Len(s) /\ f[n] \in B
      BY <1>1
    <3> QED
      BY <1>2, <3>1
  <2> HIDE DEF next
  <2>3. g[n + 1] = next /\ \A i \in 0 .. n : g[i] = f[i]
    <3>1. n + 1 \in 0 .. n + 1 /\ \A i \in 0 .. n : i \in 0 .. n + 1 /\ i # n + 1
      OBVIOUS
    <3> QED
      BY <3>1, Zenon
  <2>4. g \in [0 .. n + 1 -> B]
    BY <2>2
  <2> HIDE DEF g
  <2>5. ASSUME NEW i \in 1 .. n + 1 PROVE g[i] = Pick(g[i - 1], s[i], S)
    <3>1. CASE i = n + 1
      BY <2>3, <3>1 DEF next
    <3>2. CASE i # n + 1
      <4>1. i \in 1 .. n /\ i \in 0 .. n /\ i - 1 \in 0 .. n
        BY <3>2
      <4> QED
        BY <2>1, <2>3, <4>1
    <3> QED
      BY <3>1, <3>2
  <2>6. g[0] = <<>>
    BY <2>1, <2>3
  <2> QED
    BY <2>4, <2>5, <2>6
<1>6. Len(s) \in G
  <2> HIDE DEF G
  <2> QED
    BY <1>1, <1>4, <1>5, NatInd
<1>7. Good(Len(s))
  <2> HIDE DEF Good
  <2> QED
    BY <1>1, <1>6
<1>8. PICK f \in [0 .. Len(s) -> B] : Steps(Len(s), f)
  BY <1>7
<1>9. ASSUME NEW i \in 0 .. Len(s)
      PROVE  f[i] = IF i = 0 THEN <<>> ELSE Pick(f[i - 1], s[i], S)
  BY <1>1, <1>8
<1>10. f = [i \in 0 .. Len(s) |-> IF i = 0 THEN <<>> ELSE Pick(f[i - 1], s[i], S)]
  BY <1>9
<1> QED
  BY <1>10, Zenon DEF B

LEMMA PickedDef ==
    ASSUME NEW s \in Seq(Packets), NEW S
    PROVE  Picked(s, S) = [i \in 0 .. Len(s) |-> IF i = 0 THEN <<>> ELSE Pick(Picked(s, S)[i - 1], s[i], S)]
BY PickedExist, ZenonT(60) DEF Picked

\* What is selected from a list is that part of it, in its order.
LEMMA SelectFacts ==
    ASSUME NEW s \in Seq(Packets), NEW S
    PROVE  /\ Select(s, S) \in Seq(Packets)
           /\ Range(Select(s, S)) = Range(s) \cap S
           /\ IsInjective(s) => IsInjective(Select(s, S))
<1> DEFINE f == Picked(s, S)
           Part(n) == \A x : x \in Range(f[n]) <=> x \in S /\ \E i \in 1 .. n : s[i] = x
           G == {n \in Nat : n <= Len(s) =>
                    /\ f[n] \in Seq(Packets)
                    /\ Part(n)
                    /\ IsInjective(s) => IsInjective(f[n])}
<1>1. Len(s) \in Nat /\ \A i \in 1 .. Len(s) : s[i] \in Packets
  OBVIOUS
<1>2. \A i \in 0 .. Len(s) : f[i] = IF i = 0 THEN <<>> ELSE Pick(f[i - 1], s[i], S)
  BY PickedDef
<1> HIDE DEF f
<1>3. 0 \in G
  <2>1. f[0] = <<>>
    BY <1>1, <1>2
  <2>2. f[0] \in Seq(Packets) /\ Range(f[0]) = {} /\ IsInjective(f[0])
    BY <2>1 DEF Range, IsInjective
  <2> QED
    BY <2>2
<1>4. ASSUME NEW n \in Nat, n \in G PROVE n + 1 \in G
  <2> SUFFICES ASSUME n + 1 <= Len(s)
               PROVE  /\ f[n + 1] \in Seq(Packets)
                      /\ Part(n + 1)
                      /\ IsInjective(s) => IsInjective(f[n + 1])
    OBVIOUS
  <2>0. PICK x0 : x0 = s[n + 1]
    OBVIOUS
  <2>1. n + 1 \in 1 .. Len(s) /\ n + 1 \in 0 .. Len(s) /\ n + 1 # 0 /\ (n + 1) - 1 = n /\ x0 \in Packets
    BY <1>1, <2>0
  <2>2. f[n + 1] = IF x0 \in S THEN Append(f[n], x0) ELSE f[n]
    BY <1>2, <2>0, <2>1 DEF Pick
  <2>3. f[n] \in Seq(Packets) /\ Part(n) /\ (IsInjective(s) => IsInjective(f[n]))
    BY <1>1, <1>4
  <2>4. \A i : i \in 1 .. n + 1 <=> i \in 1 .. n \/ i = n + 1
    OBVIOUS
  <2>5. CASE x0 \in S
    <3>1. f[n + 1] = Append(f[n], x0)
      BY <2>2, <2>5
    <3>3. f[n + 1] \in Seq(Packets) /\ Range(f[n + 1]) = Range(f[n]) \cup {x0}
      BY <2>1, <2>3, <3>1, AppendFacts
    <3>4. Part(n + 1)
      BY <2>0, <2>3, <2>4, <2>5, <3>3
    <3>5. ASSUME IsInjective(s) PROVE IsInjective(f[n + 1])
      <4>1. \A i \in 1 .. n : s[i] # x0
        BY <1>1, <2>0, <2>1, <3>5, RangeFacts
      <4>2. x0 \notin Range(f[n])
        BY <2>3, <4>1
      <4> QED
        BY <2>1, <2>3, <3>1, <3>5, <4>2, AppendFacts
    <3> QED
      BY <3>3, <3>4, <3>5
  <2>6. CASE x0 \notin S
    <3>1. f[n + 1] = f[n]
      BY <2>2, <2>6
    <3>2. Part(n + 1)
      BY <2>0, <2>3, <2>4, <2>6, <3>1
    <3> HIDE DEF Part
    <3> QED
      BY <2>3, <3>1, <3>2
  <2> QED
    BY <2>5, <2>6
<1>5. Len(s) \in G
  <2> HIDE DEF G
  <2> QED
    BY <1>1, <1>3, <1>4, NatInd
<1>6. f[Len(s)] \in Seq(Packets) /\ Part(Len(s)) /\ (IsInjective(s) => IsInjective(f[Len(s)]))
  BY <1>1, <1>5
<1>7. Range(f[Len(s)]) = Range(s) \cap S
  BY <1>6, RangeFacts
<1> QED
  BY <1>6, <1>7 DEF Select, f
-----------------------------------------------------------------------------
(* Where packets are.                                                      *)

Sets == [Dirs -> SUBSET Packets]

LEMMA DirFacts ==
    /\ \A d \in Dirs : Other(d) \in Dirs /\ Other(d) # d
    /\ \A d, e \in Dirs : e = d \/ e = Other(d)
    /\ CLI_TO_SRV \in Dirs /\ SRV_TO_CLI \in Dirs /\ CLI_TO_SRV # SRV_TO_CLI
BY DEF Dirs, CLI_TO_SRV, SRV_TO_CLI, Other

LEMMA InputsApart ==
    /\ \A d, e \in Dirs : d # e => \A p \in Range(Input[d]) : p \notin Range(Input[e])
    /\ \A x \in Packets : \A p \in Injected(x) : \A d \in Dirs : p \notin Range(Input[d])
    /\ \A x, y \in Packets : x # y => \A p \in Injected(x) : p \notin Injected(y)
<1>1. ASSUME NEW d \in Dirs, NEW e \in Dirs, d # e, NEW p \in Range(Input[d]), p \in Range(Input[e]) PROVE FALSE
  <2>1. Input[d] \in Seq(Packets) /\ Input[e] \in Seq(Packets)
    BY SessionAssumption
  <2>2. PICK i \in 1 .. Len(Input[d]) : Input[d][i] = p
    BY <2>1, RangeFacts
  <2>3. PICK j \in 1 .. Len(Input[e]) : Input[e][j] = p
    BY <1>1, <2>1, RangeFacts
  <2> QED
    BY <1>1, <2>2, <2>3, IdentityAssumption
<1>2. \A x \in Packets : \A p \in Injected(x) : \A d \in Dirs : p \notin Range(Input[d])
  BY IdentityAssumption
<1>3. \A x, y \in Packets : x # y => \A p \in Injected(x) : p \notin Injected(y)
  BY IdentityAssumption
<1> QED
  BY <1>1, <1>2, <1>3

\* The kernel takes the packets S of the send queue of d.
Shorter(Q, d, S) == [Q EXCEPT ![d] = Q[d] \ S]
Unref(r, S) == [p \in Packets |-> IF p \in S THEN r[p] - 1 ELSE r[p]]

LEMMA ApartSent ==
    ASSUME NEW L, NEW R \in Sets, NEW Q \in Sets, NEW U \in Sets, NEW r \in [Packets -> Int],
           Apart(L, R, Q, U, r), NEW d \in Dirs, NEW S \in SUBSET Q[d]
    PROVE  Apart(L, R, Shorter(Q, d, S), U, Unref(r, S))
<1> DEFINE Q1 == [Q EXCEPT ![d] = Q[d] \ S]
           r1 == [p \in Packets |-> IF p \in S THEN r[p] - 1 ELSE r[p]]
<1>1. /\ \A e \in Dirs : \A p : p \in Q1[e] <=> p \in Q[e] /\ (e = d => p \notin S)
      /\ \A p \in Packets : r1[p] = IF p \in S THEN r[p] - 1 ELSE r[p]
  BY DEF Sets
<1> HIDE DEF Q1, r1
<1>2. \A e \in Dirs : Q1[e] \subseteq Q[e]
  BY <1>1
<1>3. ASSUME NEW p \in Packets PROVE r1[p] = IF InList(p, L, R, Q1) THEN 1 ELSE 0
  <2>1. r[p] = IF InList(p, L, R, Q) THEN 1 ELSE 0
    BY DEF Apart
  <2>2. CASE p \in S
    <3>1. InList(p, L, R, Q)
      BY <2>2 DEF InList
    <3>2. p \notin L /\ \A e \in Dirs : p \notin R[e] /\ p \notin Q1[e]
      BY <1>1, <2>2 DEF Apart
    <3>3. ~InList(p, L, R, Q1)
      BY <3>2 DEF InList
    <3> QED
      BY <1>1, <2>1, <2>2, <3>1, <3>3
  <2>3. CASE p \notin S
    <3>1. InList(p, L, R, Q) <=> InList(p, L, R, Q1)
      BY <1>1, <2>3 DEF InList
    <3> QED
      BY <1>1, <2>1, <2>3, <3>1
  <2> QED
    BY <2>2, <2>3
<1>4. Apart(L, R, Q1, U, r1)
  BY <1>2, <1>3 DEF Apart, Unmade
<1> QED
  BY <1>4, Zenon DEF Q1, r1, Shorter, Unref

\* A delayed packet joins the send queue of d.
Longer(Q, d, x) == [Q EXCEPT ![d] = Q[d] \cup {x}]

LEMMA ApartEmitted ==
    ASSUME NEW L, NEW R \in Sets, NEW Q \in Sets, NEW U \in Sets, NEW r \in [Packets -> Int],
           Apart(L, R, Q, U, r), NEW d \in Dirs, NEW x \in L
    PROVE  Apart(L \ {x}, R, Longer(Q, d, x), U, r)
<1> DEFINE Q1 == [Q EXCEPT ![d] = Q[d] \cup {x}]
           L1 == L \ {x}
<1>1. \A e \in Dirs : \A p : p \in Q1[e] <=> p \in Q[e] \/ (e = d /\ p = x)
  BY DEF Sets
<1>2. \A p : p \in L1 <=> p \in L /\ p # x
  OBVIOUS
<1> HIDE DEF Q1, L1
<1>3. ASSUME NEW p \in Packets PROVE InList(p, L, R, Q) <=> InList(p, L1, R, Q1)
  BY <1>1, <1>2 DEF InList
<1>4. \A y : Unmade(y, L, Q) => Unmade(y, L1, Q1)
  BY <1>1, <1>2 DEF Unmade
<1>5. \A d1, e \in Dirs : \A p \in Q1[d1] : p \notin R[e] /\ p \notin U[e] /\ (d1 # e => p \notin Q1[e])
  BY <1>1 DEF Apart
<1>6. \A p \in L1 : \A e \in Dirs : p \notin Range(Input[e]) /\ p \notin Q1[e]
  BY <1>1, <1>2 DEF Apart
<1>7. Apart(L1, R, Q1, U, r)
  BY <1>3, <1>4, <1>5, <1>6 DEF Apart
<1> QED
  BY <1>7, Zenon DEF Q1, L1, Longer

\* The packets N are read from the source of d.
LEMMA ApartRead ==
    ASSUME NEW L, NEW R \in Sets, NEW Q \in Sets, NEW U \in Sets, NEW r \in [Packets -> Int],
           Apart(L, R, Q, U, r), NEW d \in Dirs, NEW N \in SUBSET U[d]
    PROVE  Apart(L, [R EXCEPT ![d] = R[d] \cup N], Q, [U EXCEPT ![d] = U[d] \ N],
                 [p \in Packets |-> IF p \in N THEN 1 ELSE r[p]])
<1> DEFINE R1 == [R EXCEPT ![d] = R[d] \cup N]
           U1 == [U EXCEPT ![d] = U[d] \ N]
           r1 == [p \in Packets |-> IF p \in N THEN 1 ELSE r[p]]
<1>1. /\ \A e \in Dirs : \A p : p \in R1[e] <=> p \in R[e] \/ (e = d /\ p \in N)
      /\ \A e \in Dirs : \A p : p \in U1[e] <=> p \in U[e] /\ (e = d => p \notin N)
      /\ \A p \in Packets : r1[p] = IF p \in N THEN 1 ELSE r[p]
  BY DEF Sets
<1> HIDE DEF R1, U1, r1
<1>2. \A p \in Packets : InList(p, L, R1, Q) <=> p \in N \/ InList(p, L, R, Q)
  BY <1>1 DEF InList
<1>3. \A e \in Dirs : \A p \in R1[e] : (p \in R[e] \/ p \in U[e]) /\ p \notin U1[e]
  BY <1>1 DEF Apart
<1>4. \A e \in Dirs : \A p \in U1[e] : p \in U[e]
  BY <1>1
<1>5. \A p \in Packets : r1[p] = IF InList(p, L, R1, Q) THEN 1 ELSE 0
  BY <1>1, <1>2 DEF Apart
<1>6. Apart(L, R1, Q, U1, r1)
  BY <1>3, <1>4, <1>5 DEF Apart
<1> QED
  BY <1>6 DEF R1, U1, r1

\* Packet x of the receive queue of c goes to its send queue or is freed, and
\* what the filters inject around it goes to the send queues (A) and the delayed
\* one (B).
Moves(x, c, A, B, Q, Q1, r, r1) ==
    /\ \A p : p \in Injected(x) <=> p \in B \/ \E d \in Dirs : p \in A[d]
    /\ \A d \in Dirs : \A p \in A[d] : p \notin B /\ \A e \in Dirs : d # e => p \notin A[e]
    /\ \A d \in Dirs : Q1[d] = Q[d] \cup A[d] \cup (IF d = c /\ ~Drop[x] THEN {x} ELSE {})
    /\ \A p \in Packets : r1[p] = IF p \in Injected(x) THEN 1
                                   ELSE IF p = x /\ Drop[x] THEN r[p] - 1
                                   ELSE r[p]

LEMMA ApartFiltered ==
    ASSUME NEW L, NEW R \in Sets, NEW Q \in Sets, NEW U \in Sets, NEW r \in [Packets -> Int],
           Apart(L, R, Q, U, r), NEW c \in Dirs, NEW x \in R[c],
           NEW A \in Sets, NEW B \in SUBSET Packets,
           NEW Q1, NEW r1, Moves(x, c, A, B, Q, Q1, r, r1)
    PROVE  Apart(L \cup B, [R EXCEPT ![c] = R[c] \ {x}], Q1, U, r1)
<1> DEFINE R1 == [R EXCEPT ![c] = R[c] \ {x}]
           L1 == L \cup B
<1>0. /\ \A p : p \in Injected(x) <=> p \in B \/ \E d \in Dirs : p \in A[d]
      /\ \A d \in Dirs : \A p \in A[d] : p \notin B /\ \A e \in Dirs : d # e => p \notin A[e]
      /\ \A d \in Dirs : \A p : p \in Q1[d] <=> p \in Q[d] \/ p \in A[d] \/ (p = x /\ d = c /\ ~Drop[x])
      /\ \A p \in Packets : r1[p] = IF p \in Injected(x) THEN 1
                                     ELSE IF p = x /\ Drop[x] THEN r[p] - 1
                                     ELSE r[p]
  BY DEF Moves
<1>1. \A e \in Dirs : \A p : p \in R1[e] <=> p \in R[e] /\ (e = c => p # x)
  BY DEF Sets
<1>2. \A p : p \in L1 <=> p \in L \/ p \in B
  OBVIOUS
<1> HIDE DEF R1, L1
<1>3. x \in Packets /\ x \in Range(Input[c])
  BY DEF Sets, Apart
<1>4. \A d, e \in Dirs : d # e => \A p \in Range(Input[d]) : p \notin Range(Input[e])
  BY InputsApart
<1>5. \A p \in Packets : \A d \in Dirs : \A q \in Injected(p) : q \notin Range(Input[d])
  BY InputsApart
<1>6. \A p, q \in Packets : p # q => \A y \in Injected(p) : y \notin Injected(q)
  BY InputsApart
<1>7. /\ \A d \in Dirs : \A p \in R1[d] : p \in R[d] /\ p # x /\ p \in Range(Input[d]) /\ p \notin U[d]
      /\ \A d \in Dirs : \A p \in U[d] : p # x /\ p \in Range(Input[d])
      /\ x \notin L /\ \A e \in Dirs : x \notin Q[e] /\ x \notin R1[e]
      /\ \A p \in Injected(x) : p # x /\ p \notin L /\ \A d \in Dirs : p \notin Q[d]
  <2>1. \A d \in Dirs : \A p \in R[d] : p \in Range(Input[d]) /\ p \notin U[d]
    BY DEF Apart
  <2>2. \A d \in Dirs : \A p \in U[d] : p \in Range(Input[d])
    BY DEF Apart
  <2>3. \A d \in Dirs : \A p \in R1[d] : p \in R[d] /\ p # x
    BY <1>1, <1>3, <1>4, <2>1
  <2>4. \A d \in Dirs : \A p \in U[d] : p # x
    BY <1>3, <1>4, <2>1, <2>2
  <2>5. Unmade(x, L, Q) /\ x \notin L /\ \A e \in Dirs : x \notin Q[e]
    BY <1>3 DEF Apart
  <2>6. \A p \in Injected(x) : p # x /\ p \notin L /\ \A d \in Dirs : p \notin Q[d]
    BY <1>3, <1>5, <2>5 DEF Unmade
  <2> QED
    BY <2>1, <2>2, <2>3, <2>4, <2>5, <2>6
<1>8. \A d \in Dirs : \A p : p \in Q1[d] <=> p \in Q[d] \/ p \in A[d] \/ (p = x /\ d = c /\ ~Drop[x])
  BY <1>0
<1>9. \A p \in L1 : \A d \in Dirs : p \notin Range(Input[d]) /\ p \notin Q1[d]
  <2> SUFFICES ASSUME NEW p \in L1, NEW d \in Dirs PROVE p \notin Range(Input[d]) /\ p \notin Q1[d]
    OBVIOUS
  <2>1. CASE p \in L
    <3>1. p \notin Range(Input[d]) /\ p \notin Q[d]
      BY <2>1 DEF Apart
    <3>2. p \notin A[d] /\ p # x
      BY <1>0, <1>7, <2>1
    <3> QED
      BY <1>8, <3>1, <3>2
  <2>2. CASE p \in B
    <3>1. p \in Injected(x) /\ p \notin A[d]
      BY <1>0, <2>2
    <3> QED
      BY <1>3, <1>5, <1>7, <1>8, <3>1
  <2> QED
    BY <1>2, <2>1, <2>2
<1>10. \A d, e \in Dirs : \A p \in Q1[d] : p \notin R1[e] /\ p \notin U[e] /\ (d # e => p \notin Q1[e])
  <2> SUFFICES ASSUME NEW d \in Dirs, NEW e \in Dirs, NEW p \in Q1[d]
               PROVE  p \notin R1[e] /\ p \notin U[e] /\ (d # e => p \notin Q1[e])
    OBVIOUS
  <2>1. CASE p \in Q[d]
    <3>1. p \notin Injected(x) /\ p # x /\ p \notin R[e] /\ p \notin U[e] /\ (d # e => p \notin Q[e])
      BY <1>7, <2>1 DEF Apart
    <3> QED
      BY <1>0, <1>1, <1>8, <3>1
  <2>2. CASE p \in A[d]
    <3>1. p \in Injected(x) /\ p \notin Range(Input[e])
      BY <1>0, <1>3, <1>5, <2>2
    <3>2. p \notin Q[e] /\ p # x
      BY <1>7, <3>1
    <3>3. d # e => p \notin A[e]
      BY <1>0, <2>2
    <3> QED
      BY <1>7, <1>8, <3>1, <3>2, <3>3
  <2>3. CASE p = x /\ d = c /\ ~Drop[x]
    <3>1. x \notin Injected(x) /\ x \notin U[e] /\ x \notin R1[e] /\ x \notin Q[e]
      BY <1>7
    <3> QED
      BY <1>0, <1>8, <2>3, <3>1
  <2> QED
    BY <1>8, <2>1, <2>2, <2>3
<1>11. ASSUME NEW y \in Packets, y # x, Unmade(y, L, Q), NEW d \in Dirs, y \in Range(Input[d]) PROVE Unmade(y, L1, Q1)
  <2> SUFFICES ASSUME NEW p \in Injected(y)
               PROVE  p \notin L1 /\ \A e \in Dirs : p \notin Q1[e]
    BY DEF Unmade
  <2>2. p \notin L /\ \A e \in Dirs : p \notin Q[e]
    BY <1>11 DEF Unmade
  <2>3. p \notin Injected(x) /\ p # x
    BY <1>3, <1>5, <1>6, <1>11
  <2> QED
    BY <1>0, <1>2, <1>8, <2>2, <2>3
<1>12. /\ \A d \in Dirs : \A y \in R1[d] : Unmade(y, L1, Q1)
       /\ \A d \in Dirs : \A y \in U[d] : Unmade(y, L1, Q1)
  <2>1. /\ \A d \in Dirs : \A y \in R1[d] : y \in Packets /\ Unmade(y, L, Q)
        /\ \A d \in Dirs : \A y \in U[d] : y \in Packets /\ Unmade(y, L, Q)
    BY <1>7 DEF Apart, Sets
  <2> QED
    BY <1>7, <1>11, <2>1
<1>13. ASSUME NEW p \in Packets PROVE r1[p] = IF InList(p, L1, R1, Q1) THEN 1 ELSE 0
  <2>1. r[p] = IF InList(p, L, R, Q) THEN 1 ELSE 0
    BY DEF Apart
  <2>2. CASE p \in Injected(x)
    <3>1. InList(p, L1, R1, Q1)
      BY <1>0, <1>2, <1>8, <2>2 DEF InList
    <3> QED
      BY <1>0, <2>2, <3>1
  <2>3. CASE p \notin Injected(x) /\ p = x
    <3>1. r[p] = 1
      BY <2>1, <2>3 DEF InList
    <3>2. CASE Drop[x]
      <4>1. x \notin L /\ x \notin Injected(x) /\ \A e \in Dirs : x \notin Q[e] /\ x \notin R1[e]
        BY <1>7
      <4>2. ~InList(x, L1, R1, Q1)
        BY <1>0, <1>2, <1>8, <3>2, <4>1 DEF InList
      <4> QED
        BY <1>0, <2>3, <3>1, <3>2, <4>2
    <3>3. CASE ~Drop[x]
      <4>1. x \in Q1[c]
        BY <1>8, <3>3
      <4>2. InList(x, L1, R1, Q1)
        BY <4>1 DEF InList
      <4> QED
        BY <1>0, <2>3, <3>1, <3>3, <4>2
    <3> QED
      BY <3>2, <3>3
  <2>4. CASE p \notin Injected(x) /\ p # x
    <3>1. InList(p, L, R, Q) <=> InList(p, L1, R1, Q1)
      BY <1>0, <1>1, <1>2, <1>8, <2>4 DEF InList
    <3> QED
      BY <1>0, <2>1, <2>4, <3>1
  <2> QED
    BY <2>2, <2>3, <2>4
<1>14. Apart(L1, R1, Q1, U, r1)
  BY <1>7, <1>9, <1>10, <1>12, <1>13 DEF Apart
<1> QED
  BY <1>14 DEF L1, R1
-----------------------------------------------------------------------------
(* Writing a pipe.                                                         *)

LEMMA ForFacts ==
    ASSUME NEW V, NEW f \in [Dirs -> V], NEW d \in Dirs, NEW x \in V
    PROVE  /\ For(f, d, x) \in [Dirs -> V] /\ For(f, d, x)[d] = x
           /\ \A e \in Dirs : e # d => For(f, d, x)[e] = f[e]
BY DEF For

LEMMA ConcatLen ==
    ASSUME NEW T, NEW s \in Seq(T), NEW t \in Seq(T)
    PROVE  s \o t \in Seq(T) /\ Len(s \o t) = Len(s) + Len(t)
OBVIOUS

LEMMA ModFacts == ASSUME NEW a \in Nat, NEW b \in Nat, b > 0 PROVE a % b \in 0 .. b - 1
OBVIOUS

\* The window sendq::send writes from, all the entries it could write, and what
\* is left of them after n were.
Window(v, q) == IF v = <<>> THEN First(q, WRIVCNT) ELSE v
Entries(w, q) == w \o After(q, Len(w))
Remainder(w, e, n) ==
    IF n - Len(w) < 0 THEN After(w, n)
    ELSE First(After(e, n), WRIVCNT - ((n - Len(w)) % WRIVCNT))

LEMMA EntriesFacts ==
    ASSUME NEW q \in Seq(Packets), NEW w \in Seq(Packets)
    PROVE  Entries(w, q) \in Seq(Packets) /\ Len(Entries(w, q)) >= Len(q) /\ Len(Entries(w, q)) >= Len(w)
<1>1. Len(w) \in Nat /\ Len(q) \in Nat
  OBVIOUS
<1>2. PICK t \in Seq(Packets) : t = After(q, Len(w)) /\ Len(t) = IF Len(w) <= Len(q) THEN Len(q) - Len(w) ELSE 0
  BY <1>1, AfterFacts
<1>3. w \o t \in Seq(Packets) /\ Len(w \o t) = Len(w) + Len(t)
  OBVIOUS
<1> QED
  BY <1>1, <1>2, <1>3 DEF Entries

\* Nothing is left only if everything was written.
LEMMA RemainderFacts ==
    ASSUME NEW w \in Seq(Packets), NEW e \in Seq(Packets), NEW n \in Nat, n <= Len(e)
    PROVE  /\ Remainder(w, e, n) \in Seq(Packets)
           /\ Remainder(w, e, n) = <<>> => n = Len(e)
<1>1. WRIVCNT \in Nat /\ WRIVCNT > 0 /\ Len(w) \in Nat /\ Len(e) \in Nat
  BY SessionAssumption
<1>2. CASE n - Len(w) < 0
  <2>1. After(w, n) \in Seq(Packets) /\ Len(After(w, n)) = Len(w) - n
    BY <1>1, <1>2, AfterFacts
  <2>2. After(w, n) # <<>>
    BY <1>1, <1>2, <2>1
  <2> QED
    BY <1>2, <2>1, <2>2 DEF Remainder
<1>3. CASE ~(n - Len(w) < 0)
  <2>1. PICK m \in Int : m = WRIVCNT - ((n - Len(w)) % WRIVCNT) /\ m > 0
    <3>1. n - Len(w) \in Nat
      BY <1>1, <1>3
    <3>2. (n - Len(w)) % WRIVCNT \in 0 .. WRIVCNT - 1
      BY <1>1, <3>1, ModFacts
    <3> QED
      BY <1>1, <3>2
  <2>2. PICK t \in Seq(Packets) : t = After(e, n) /\ Len(t) = Len(e) - n
    BY <1>1, AfterFacts
  <2>3. First(t, m) \in Seq(Packets) /\ Len(First(t, m)) = IF m < 0 THEN 0 ELSE IF m <= Len(t) THEN m ELSE Len(t)
    BY <2>1, FirstFacts
  <2>4. First(t, m) = <<>> => Len(t) = 0
    BY <1>1, <2>1, <2>2, <2>3
  <2>5. Remainder(w, e, n) = First(t, m)
    BY <1>3, <2>1, <2>2 DEF Remainder
  <2> QED
    BY <1>1, <2>2, <2>3, <2>4, <2>5
<1> QED
  BY <1>2, <1>3

Passes(d, q, r, n) ==
    /\ pq' = [pq EXCEPT ![d] = After(q, n)]
    /\ refc' = [p \in Packets |-> IF p \in Range(First(q, n)) THEN r[p] - 1 ELSE r[p]]

\* handle_write_event passes the first n packets of the list q to the kernel; a
\* pipe that has more to write and is not broken is watched, and the end of the
\* stream is passed on when nothing is left.
LEMMA WriteFacts ==
    ASSUME Types, Buffered, NEW d \in Dirs, NEW q \in Seq(Packets), NEW r \in [Packets -> Int],
           handle_write_event(d, q, r)
    PROVE  /\ /\ wire' \in [Dirs -> Seq(Packets)] /\ pq' \in [Dirs -> Seq(Packets)]
              /\ win' \in [Dirs -> Seq(Packets)] /\ refc' \in [Packets -> Int]
              /\ broken' \in [Dirs -> BOOLEAN] /\ rdshut' \in [Dirs -> BOOLEAN]
              /\ outw' \in [Dirs -> BOOLEAN] /\ wrshut' \in [Dirs -> {"no", "whole", "broken"}]
           /\ Len(wire[d]) <= Len(wire'[d]) /\ Len(wire'[d]) <= nout[d] + SNDBUF
           /\ \E n \in 0 .. Len(q) : Passes(d, q, r, n)
           /\ \A e \in Dirs : e # d =>
                 /\ wire'[e] = wire[e] /\ pq'[e] = pq[e] /\ broken'[e] = broken[e]
                 /\ rdshut'[e] = rdshut[e] /\ outw'[e] = outw[e] /\ wrshut'[e] = wrshut[e]
           /\ broken[d] => broken'[d]
           /\ rdshut'[d] => rdshut[d] \/ broken'[d]
           /\ pq'[d] # <<>> /\ ~broken'[d] => outw'[d]
           /\ wrshut'[d] = "whole" =>
                 wrshut[d] = "whole" \/ (eof[d] /\ rcvq[d] = <<>> /\ ~broken[d] /\ pq'[d] = <<>>)
<1> DEFINE w == IF win[d] = <<>> THEN First(q, WRIVCNT) ELSE win[d]
           entries == w \o After(q, Len(w))
           n == IF WriteFails(d) THEN 0 ELSE Smaller(Room(d), Len(q))
           more == n - Len(w)
           left == IF more < 0 THEN After(w, n) ELSE First(After(entries, n), WRIVCNT - (more % WRIVCNT))
           failed == q # <<>> /\ WriteFails(d)
           stop == failed \/ left = <<>>
<1>1. /\ wire' = For(wire, d, wire[d] \o First(entries, n))
      /\ pq' = For(pq, d, After(q, n))
      /\ refc' = [p \in Packets |-> IF p \in Range(First(q, n)) THEN r[p] - 1 ELSE r[p]]
      /\ win' = For(win, d, left)
      /\ broken' = For(broken, d, broken[d] \/ failed)
      /\ rdshut' = For(rdshut, d, rdshut[d] \/ failed)
      /\ outw' = For(outw, d, Watches(d, stop))
      /\ wrshut' = For(wrshut, d, IF wrshut[d] # "no" \/ ~Ends(d, stop) THEN wrshut[d]
                                  ELSE IF broken[d] \/ failed THEN "broken" ELSE "whole")
  BY Zenon DEF handle_write_event
<1>2. /\ wire[d] \in Seq(Packets) /\ nout[d] \in Nat /\ win[d] \in Seq(Packets) /\ Len(q) \in Nat
      /\ nout[d] <= Len(wire[d]) /\ Len(wire[d]) <= nout[d] + SNDBUF /\ SNDBUF \in Nat
  BY SessionAssumption DEF Types, Buffered
<1>3. n \in 0 .. Len(q) /\ (WriteFails(d) \/ n <= SNDBUF - (Len(wire[d]) - nout[d])) /\ (WriteFails(d) => n = 0)
  BY <1>2 DEF Smaller, Room
<1> HIDE DEF n
<1>4. /\ entries \in Seq(Packets) /\ left \in Seq(Packets)
      /\ Len(entries) >= Len(q)
      /\ left = <<>> => n = Len(q)
  <2>1. w = Window(win[d], q) /\ entries = Entries(w, q) /\ left = Remainder(w, entries, n)
    BY Zenon DEF Window, Entries, Remainder
  <2> HIDE DEF w, entries, more, left
  <2>2. WRIVCNT \in Int
    BY SessionAssumption
  <2>3. w \in Seq(Packets)
    BY <1>2, <2>1, <2>2, FirstFacts DEF Window
  <2>4. entries \in Seq(Packets) /\ Len(entries) >= Len(q)
    BY <2>1, <2>3, EntriesFacts
  <2>5. n \in Nat /\ n <= Len(entries) /\ n <= Len(q) /\ Len(entries) \in Nat
    BY <1>2, <1>3, <2>4, SMTT(60)
  <2>6. left \in Seq(Packets) /\ (left = <<>> => n = Len(entries))
    BY <2>1, <2>3, <2>4, <2>5, RemainderFacts
  <2> QED
    BY <1>2, <2>4, <2>5, <2>6
<1> HIDE DEF w, entries, more, left
<1>5. /\ First(entries, n) \in Seq(Packets) /\ Len(First(entries, n)) = n
      /\ After(q, n) \in Seq(Packets) /\ Len(After(q, n)) = Len(q) - n
  <2>1. n \in Int /\ n \in Nat /\ ~(n < 0) /\ n <= Len(q) /\ n <= Len(entries) /\ Len(entries) \in Nat
    BY <1>2, <1>3, <1>4, SMTT(60)
  <2> QED
    BY <1>4, <2>1, FirstFacts, AfterFacts
<1>6. wire' \in [Dirs -> Seq(Packets)] /\ wire'[d] = wire[d] \o First(entries, n)
  <2>1. wire[d] \o First(entries, n) \in Seq(Packets)
    BY <1>2, <1>5, ConcatLen
  <2>2. wire \in [Dirs -> Seq(Packets)]
    BY DEF Types
  <2>3. PICK x \in Seq(Packets) : x = wire[d] \o First(entries, n)
    BY <2>1
  <2>4. wire' = For(wire, d, x)
    BY <1>1, <2>3
  <2>5. wire' \in [Dirs -> Seq(Packets)] /\ wire'[d] = x
    BY <2>2, <2>4 DEF For
  <2> QED
    BY <2>3, <2>5
<1>7. Len(wire[d]) <= Len(wire'[d]) /\ Len(wire'[d]) <= nout[d] + SNDBUF
  <2>1. Len(wire[d] \o First(entries, n)) = Len(wire[d]) + n
    BY <1>2, <1>5, ConcatLen
  <2>2. n = 0 \/ n <= SNDBUF - (Len(wire[d]) - nout[d])
    BY <1>3
  <2>3. Len(wire[d]) \in Nat /\ n \in Nat
    BY <1>2, <1>3
  <2> QED
    BY <1>2, <1>6, <2>1, <2>2, <2>3, SMTT(60)
<1>8. pq' \in [Dirs -> Seq(Packets)] /\ pq'[d] = After(q, n) /\ pq' = [pq EXCEPT ![d] = After(q, n)]
  <2>1. pq \in [Dirs -> Seq(Packets)]
    BY DEF Types
  <2> QED
    BY <1>1, <1>5, <2>1, ForFacts DEF For
<1>9. refc' \in [Packets -> Int] /\ win' \in [Dirs -> Seq(Packets)]
  <2>1. win \in [Dirs -> Seq(Packets)] /\ refc \in [Packets -> Int]
    BY DEF Types
  <2>2. win' \in [Dirs -> Seq(Packets)]
    BY <1>1, <1>4, <2>1, ForFacts
  <2>3. refc' \in [Packets -> Int]
    BY <1>1
  <2> QED
    BY <2>2, <2>3
<1>10. /\ broken' \in [Dirs -> BOOLEAN] /\ broken'[d] = (broken[d] \/ failed)
       /\ rdshut' \in [Dirs -> BOOLEAN] /\ rdshut'[d] = (rdshut[d] \/ failed)
  <2> HIDE DEF failed
  <2> QED
    BY <1>1, Zenon DEF Types, For
<1>11. outw' \in [Dirs -> BOOLEAN] /\ outw'[d] = ~stop
  <2> HIDE DEF stop
  <2> QED
    BY <1>1, Zenon DEF Types, For, Watches
<1>12. /\ wrshut' \in [Dirs -> {"no", "whole", "broken"}]
       /\ wrshut'[d] = IF wrshut[d] # "no" \/ ~Ends(d, stop) THEN wrshut[d]
                       ELSE IF broken[d] \/ failed THEN "broken" ELSE "whole"
  <2> HIDE DEF stop, failed
  <2> QED
    BY <1>1 DEF Types, For
<1>13. \A e \in Dirs : e # d =>
          /\ wire'[e] = wire[e] /\ pq'[e] = pq[e] /\ broken'[e] = broken[e]
          /\ rdshut'[e] = rdshut[e] /\ outw'[e] = outw[e] /\ wrshut'[e] = wrshut[e]
  <2> HIDE DEF stop, failed
  <2>1. \A e \in Dirs : e # d => /\ wire'[e] = wire[e] /\ pq'[e] = pq[e] /\ wrshut'[e] = wrshut[e]
    BY <1>1 DEF Types, For
  <2>2. \A e \in Dirs : e # d => /\ broken'[e] = broken[e] /\ rdshut'[e] = rdshut[e] /\ outw'[e] = outw[e]
    BY <1>1, Zenon DEF Types, For
  <2> QED
    BY <2>1, <2>2
<1>14. n = Len(q) => pq'[d] = <<>>
  BY <1>2, <1>5, <1>8
<1>15. failed \/ left = <<>> \/ outw'[d]
  BY <1>11
<1>16. pq'[d] # <<>> /\ ~broken'[d] => outw'[d]
  BY <1>4, <1>10, <1>14, <1>15, Zenon
<1>17. wrshut'[d] = "whole" =>
          wrshut[d] = "whole" \/ (eof[d] /\ rcvq[d] = <<>> /\ ~broken[d] /\ pq'[d] = <<>>)
  <2>1. CASE wrshut[d] # "no" \/ ~Ends(d, stop)
    BY <1>12, <2>1, Zenon
  <2>2. CASE ~(wrshut[d] # "no" \/ ~Ends(d, stop)) /\ ~(broken[d] \/ failed)
    <3>1. left = <<>> /\ eof[d] /\ rcvq[d] = <<>> /\ ~broken[d]
      BY <2>2, Zenon DEF Ends
    <3> QED
      BY <1>4, <1>14, <3>1, Zenon
  <2>3. CASE ~(wrshut[d] # "no" \/ ~Ends(d, stop)) /\ (broken[d] \/ failed)
    BY <1>12, <2>3
  <2> QED
    BY <2>1, <2>2, <2>3
<1>18. (broken[d] => broken'[d]) /\ (rdshut'[d] => rdshut[d] \/ broken'[d])
  BY <1>10
<1>19. \E m \in 0 .. Len(q) : Passes(d, q, r, m)
  BY <1>1, <1>3, <1>8 DEF Passes
<1> HIDE DEF stop, failed
<1> QED
  BY <1>6, <1>7, <1>8, <1>9, <1>10, <1>11, <1>12, <1>13, <1>16, <1>17, <1>18, <1>19
-----------------------------------------------------------------------------
(* The invariant holds initially, and the peers keep it.                   *)

LEMMA EmptyFacts == Range(<<>>) = {} /\ IsInjective(<<>>) /\ \A T : <<>> \in Seq(T)
BY DEF Range, IsInjective

LEMMA RangesFacts ==
    ASSUME NEW f \in [Dirs -> Seq(Packets)]
    PROVE  Ranges(f) \in Sets /\ \A d \in Dirs : Ranges(f)[d] = Range(f[d])
<1>1. \A d \in Dirs : Range(f[d]) \in SUBSET Packets
  BY RangeFacts
<1> QED
  BY <1>1 DEF Ranges, Sets

LEMMA UnreadFacts ==
    ASSUME nin \in [Dirs -> Nat]
    PROVE  /\ Unreads \in Sets
           /\ \A d \in Dirs : Unreads[d] = Unread(d)
           /\ \A d \in Dirs : \A p : p \in Unread(d) <=> \E i \in nin[d] + 1 .. Len(Input[d]) : Input[d][i] = p
           /\ \A d \in Dirs : \A p \in Unread(d) : p \in Range(Input[d])
<1>1. ASSUME NEW d \in Dirs, NEW i \in nin[d] + 1 .. Len(Input[d])
      PROVE  Input[d][i] \in Range(Input[d]) /\ Input[d][i] \in Packets
  <2>1. Input[d] \in Seq(Packets) /\ nin[d] \in Nat /\ Len(Input[d]) \in Nat
    BY SessionAssumption
  <2>2. i \in 1 .. Len(Input[d])
    BY <2>1
  <2> QED
    BY <2>1, <2>2, RangeFacts
<1>2. \A d \in Dirs : \A p : p \in Unread(d) <=> \E i \in nin[d] + 1 .. Len(Input[d]) : Input[d][i] = p
  BY DEF Unread
<1>3. \A d \in Dirs : \A p \in Unread(d) : p \in Range(Input[d]) /\ p \in Packets
  BY <1>1, <1>2
<1>4. \A d \in Dirs : Unreads[d] = Unread(d)
  BY DEF Unreads
<1>5. Unreads \in [Dirs -> SUBSET Packets]
  BY <1>3 DEF Unreads
<1> QED
  BY <1>2, <1>3, <1>4, <1>5 DEF Sets

LEMMA InitIInv == Init => IInv
<1> SUFFICES ASSUME Init PROVE IInv
  OBVIOUS
<1>1. \A x : \A d \in Dirs : Everywhere(x)[d] = x
  BY DEF Everywhere
<1>2. /\ given = Everywhere(<<>>) /\ nin = Everywhere(0) /\ wire = Everywhere(<<>>) /\ nout = Everywhere(0)
      /\ fin = Everywhere(FALSE) /\ gone = Everywhere(FALSE) /\ rdshut = Everywhere(FALSE)
      /\ wrshut = Everywhere("no") /\ eof = Everywhere(FALSE) /\ broken = Everywhere(FALSE)
      /\ inw = Everywhere(TRUE) /\ outw = Everywhere(FALSE)
      /\ rcvq = Everywhere(<<>>) /\ pq = Everywhere(<<>>) /\ win = Everywhere(<<>>)
      /\ live = TRUE /\ dq = <<>> /\ ticking = {} /\ has_new = FALSE
      /\ refc = [p \in Packets |-> 0] /\ pc = "idle" /\ cur = CLI_TO_SRV
  BY Zenon DEF Init
<1>3. Types
  <2>1. \A V : \A x \in V : Everywhere(x) \in [Dirs -> V]
    BY DEF Everywhere
  <2>2. /\ given \in [Dirs -> Seq(Packets)] /\ wire \in [Dirs -> Seq(Packets)]
        /\ rcvq \in [Dirs -> Seq(Packets)] /\ pq \in [Dirs -> Seq(Packets)] /\ win \in [Dirs -> Seq(Packets)]
        /\ dq \in Seq(Packets)
    BY <1>2, <2>1, EmptyFacts, Zenon
  <2>3. nin \in [Dirs -> Nat] /\ nout \in [Dirs -> Nat]
    BY <1>2, <2>1
  <2>4. /\ fin \in [Dirs -> BOOLEAN] /\ gone \in [Dirs -> BOOLEAN] /\ rdshut \in [Dirs -> BOOLEAN]
        /\ eof \in [Dirs -> BOOLEAN] /\ broken \in [Dirs -> BOOLEAN]
        /\ inw \in [Dirs -> BOOLEAN] /\ outw \in [Dirs -> BOOLEAN]
    BY <1>2, <2>1, Zenon
  <2>5. wrshut \in [Dirs -> {"no", "whole", "broken"}]
    BY <1>2, <2>1, Zenon
  <2>6. live \in BOOLEAN /\ has_new \in BOOLEAN
    BY <1>2, Zenon
  <2>7. ticking \subseteq Packets /\ refc \in [Packets -> Int]
    BY <1>2
  <2>8. pc \in {"idle", "filter", "other", "check"} /\ cur \in Dirs
    BY <1>2, DirFacts
  <2> QED
    BY <2>2, <2>3, <2>4, <2>5, <2>6, <2>7, <2>8, Zenon DEF Types
<1>4. \A d \in Dirs : /\ given[d] = <<>> /\ nin[d] = 0 /\ wire[d] = <<>> /\ nout[d] = 0
                      /\ rcvq[d] = <<>> /\ pq[d] = <<>> /\ wrshut[d] = "no"
  BY <1>1, <1>2, Zenon
<1>5. \A d \in Dirs : ~rdshut[d] /\ ~eof[d] /\ inw[d]
  BY <1>1, <1>2, Zenon
<1>6. Buffered /\ Sent
  BY <1>4, SessionAssumption DEF Buffered, Sent
<1>7. Single
  BY <1>2, <1>4, EmptyFacts DEF Single
<1>8. Linked
  <2>1. \A d \in Dirs : Ranges(rcvq)[d] = {} /\ Ranges(pq)[d] = {}
    BY <1>4, EmptyFacts DEF Ranges
  <2>2. \A d \in Dirs : \A p \in Unreads[d] : p \in Range(Input[d])
    BY <1>3, UnreadFacts DEF Types
  <2>3. Range(dq) = {}
    BY <1>2, EmptyFacts
  <2>4. \A p \in Packets : refc[p] = 0 /\ ~InList(p, Range(dq), Ranges(rcvq), Ranges(pq))
    BY <1>2, <2>1, <2>3 DEF InList
  <2>5. \A x : Unmade(x, Range(dq), Ranges(pq))
    BY <2>1, <2>3 DEF Unmade
  <2> QED
    BY <2>1, <2>2, <2>3, <2>4, <2>5 DEF Linked, Apart
<1>9. Timed
  BY <1>2, EmptyFacts DEF Timed
<1>10. Watched
  BY <1>2, <1>4, <1>5 DEF Watched, Awake
<1>11. Ended
  BY <1>4, <1>5 DEF Ended
<1> QED
  BY <1>3, <1>6, <1>7, <1>8, <1>9, <1>10, <1>11 DEF IInv

\* What the peers do does not concern the lists.
LEMMA WorldKeeps ==
    ASSUME IInv, UNCHANGED <<nin, dq, rcvq, pq, refc, ticking, has_new, pc, cur, eof, inw, live, broken, outw>>
    PROVE  Single' /\ Linked' /\ Timed' /\ Watched'
<1>1. Single'
  BY DEF IInv, Single
<1>2. Linked'
  BY DEF IInv, Linked, Ranges, Unreads, Unread
<1>3. Timed' /\ Watched'
  BY DEF IInv, Timed, Watched, Awake
<1> QED
  BY <1>1, <1>2, <1>3

LEMMA WorldIInv == ASSUME IInv, World PROVE IInv'
<1>1. PICK d \in Dirs : PeerSend(d) \/ PeerRead(d) \/ PeerShutdown(d) \/ PeerGone(d)
  BY DEF World
<1>2. UNCHANGED <<nin, wire, rdshut, wrshut, pipes, live, dq, ticking, has_new, refc, pc, cur>>
  BY <1>1 DEF PeerSend, PeerRead, PeerShutdown, PeerGone
<1>3. UNCHANGED <<nin, wire, rdshut, wrshut, eof, broken, inw, outw, rcvq, pq, win, live, dq, ticking, has_new, refc, pc, cur>>
  BY <1>2 DEF pipes
<1>4. Single' /\ Linked' /\ Timed' /\ Watched'
  BY <1>3, WorldKeeps
<1>5. /\ given \in [Dirs -> Seq(Packets)] /\ nout \in [Dirs -> Nat] /\ nin \in [Dirs -> Nat]
      /\ wire \in [Dirs -> Seq(Packets)] /\ Input \in [Dirs -> Seq(Packets)]
      /\ fin \in [Dirs -> BOOLEAN] /\ gone \in [Dirs -> BOOLEAN]
  BY SessionAssumption DEF IInv, Types
<1>6. ASSUME given' \in [Dirs -> Seq(Packets)], nout' \in [Dirs -> Nat], fin' \in [Dirs -> BOOLEAN],
             gone' \in [Dirs -> BOOLEAN]
      PROVE  Types'
  BY <1>3, <1>6 DEF IInv, Types
<1>7. CASE PeerSend(d)
  <2>1. /\ UNCHANGED <<fin, gone, nout>> /\ ~fin[d] /\ Len(given[d]) < Len(Input[d])
        /\ given' = For(given, d, Append(given[d], Input[d][Len(given[d]) + 1]))
    BY <1>7 DEF PeerSend
  <2>2. given[d] \in Seq(Packets) /\ Input[d] \in Seq(Packets) /\ Len(given[d]) \in Nat /\ Len(Input[d]) \in Nat
    BY <1>5
  <2>3. Len(given[d]) + 1 \in 1 .. Len(Input[d])
    BY <2>1, <2>2
  <2>4. PICK g \in Seq(Packets) : /\ g = Append(given[d], Input[d][Len(given[d]) + 1])
                                  /\ Len(g) = Len(given[d]) + 1
                                  /\ \A i \in 1 .. Len(given[d]) : g[i] = given[d][i]
                                  /\ g[Len(given[d]) + 1] = Input[d][Len(given[d]) + 1]
    <3>1. Input[d][Len(given[d]) + 1] \in Packets
      BY <2>2, <2>3
    <3>2. \A t \in Seq(Packets), x \in Packets :
            /\ Append(t, x) \in Seq(Packets) /\ Len(Append(t, x)) = Len(t) + 1
            /\ \A i \in 1 .. Len(t) : Append(t, x)[i] = t[i]
            /\ Append(t, x)[Len(t) + 1] = x
      OBVIOUS
    <3> QED
      BY <2>2, <3>1, <3>2, ZenonT(60)
  <2>5. given' = For(given, d, g)
    BY <2>1, <2>4
  <2>6. given' \in [Dirs -> Seq(Packets)] /\ given'[d] = g /\ \A e \in Dirs : e # d => given'[e] = given[e]
    BY <1>5, <2>5 DEF For
  <2>7. Types'
    BY <1>5, <1>6, <2>1, <2>6
  <2>8. Buffered'
    BY <1>3, <2>1 DEF IInv, Buffered
  <2>9. Sent'
    <3>1. \A e \in Dirs : e # d => /\ nin'[e] <= Len(given'[e]) /\ Len(given'[e]) <= Len(Input[e])
                                    /\ \A i \in 1 .. Len(given'[e]) : given'[e][i] = Input[e][i]
      BY <1>3, <2>6 DEF IInv, Sent
    <3>2. nin[d] <= Len(given[d]) /\ nin[d] \in Nat /\ \A i \in 1 .. Len(given[d]) : given[d][i] = Input[d][i]
      BY <1>5 DEF IInv, Sent
    <3>3. nin'[d] <= Len(given'[d]) /\ Len(given'[d]) <= Len(Input[d])
      BY <1>3, <2>1, <2>2, <2>4, <2>6, <3>2
    <3>4. \A i \in 1 .. Len(g) : g[i] = Input[d][i]
      BY <2>2, <2>4, <3>2
    <3> QED
      BY <2>6, <3>1, <3>3, <3>4 DEF Sent
  <2>10. Ended'
    <3>1. ~(eof[d] /\ ~broken[d]) /\ wrshut[d] # "whole"
      BY <2>1 DEF IInv, Ended
    <3> QED
      BY <1>3, <2>1, <2>6, <3>1 DEF IInv, Ended
  <2> QED
    BY <1>4, <2>7, <2>8, <2>9, <2>10 DEF IInv
<1>8. CASE PeerRead(d)
  <2>1. UNCHANGED <<given, fin, gone>> /\ nout' = For(nout, d, nout[d] + 1) /\ nout[d] < Len(wire[d])
    BY <1>8 DEF PeerRead
  <2>2. nout' \in [Dirs -> Nat] /\ nout'[d] = nout[d] + 1 /\ \A e \in Dirs : e # d => nout'[e] = nout[e]
    BY <1>5, <2>1 DEF For
  <2>3. Types'
    BY <1>5, <1>6, <2>1, <2>2
  <2>4. \A e \in Dirs : nout[e] \in Nat /\ Len(wire[e]) \in Nat /\ nout[e] <= Len(wire[e]) /\ Len(wire[e]) <= nout[e] + SNDBUF
    BY <1>5 DEF IInv, Buffered
  <2>5. Buffered'
    <3>1. SNDBUF \in Nat
      BY SessionAssumption
    <3>2. ASSUME NEW e \in Dirs PROVE nout'[e] <= Len(wire[e]) /\ Len(wire[e]) <= nout'[e] + SNDBUF
      BY <2>1, <2>2, <2>4, <3>1
    <3> QED
      BY <1>3, <3>2 DEF Buffered
  <2>6. Sent' /\ Ended'
    BY <1>3, <2>1 DEF IInv, Sent, Ended
  <2> QED
    BY <1>4, <2>3, <2>5, <2>6 DEF IInv
<1>9. CASE PeerShutdown(d)
  <2>1. UNCHANGED <<given, gone, nout>> /\ fin' = For(fin, d, TRUE)
    BY <1>9 DEF PeerShutdown
  <2>2. fin' \in [Dirs -> BOOLEAN] /\ \A e \in Dirs : fin[e] => fin'[e]
    BY <1>5, <2>1, Zenon DEF For
  <2>3. Types'
    BY <1>5, <1>6, <2>1, <2>2
  <2>4. Buffered' /\ Sent'
    BY <1>3, <2>1 DEF IInv, Buffered, Sent
  <2>5. Ended'
    BY <1>3, <2>1, <2>2 DEF IInv, Ended
  <2> QED
    BY <1>4, <2>3, <2>4, <2>5 DEF IInv
<1>10. CASE PeerGone(d)
  <2>1. /\ fin' = For(fin, d, TRUE) /\ gone' = For(gone, Other(d), TRUE) /\ UNCHANGED nout
        /\ given' = given \/ given' = For(given, d, First(given[d], nin[d]))
    BY <1>10 DEF PeerGone
  <2>2. fin' \in [Dirs -> BOOLEAN] /\ fin'[d] /\ \A e \in Dirs : fin[e] => fin'[e]
    BY <1>5, <2>1, Zenon DEF For
  <2>3. gone' \in [Dirs -> BOOLEAN]
    BY <1>5, <2>1, Zenon DEF For
  <2>4. nin[d] \in Nat /\ nin[d] \in Int /\ given[d] \in Seq(Packets) /\ Len(given[d]) \in Nat /\ nin[d] <= Len(given[d])
    BY <1>5 DEF IInv, Sent
  <2>5. PICK g \in Seq(Packets) : g = First(given[d], nin[d]) /\ Len(g) = nin[d] /\ \A i \in 1 .. Len(g) : g[i] = given[d][i]
    BY <2>4, FirstFacts
  <2>6. /\ given' \in [Dirs -> Seq(Packets)] /\ (given'[d] = given[d] \/ given'[d] = g)
        /\ \A e \in Dirs : e # d => given'[e] = given[e]
    BY <1>5, <2>1, <2>5 DEF For
  <2>7. Types'
    BY <1>5, <1>6, <2>1, <2>2, <2>3, <2>6
  <2>8. Buffered'
    BY <1>3, <2>1 DEF IInv, Buffered
  <2>9. Sent'
    <3>1. \A e \in Dirs : e # d => /\ nin'[e] <= Len(given'[e]) /\ Len(given'[e]) <= Len(Input[e])
                                    /\ \A i \in 1 .. Len(given'[e]) : given'[e][i] = Input[e][i]
      BY <1>3, <2>6, SMTT(60) DEF IInv, Sent
    <3>2. /\ nin[d] <= Len(given[d]) /\ Len(given[d]) <= Len(Input[d]) /\ Len(Input[d]) \in Nat
          /\ \A i \in 1 .. Len(given[d]) : given[d][i] = Input[d][i]
      BY <1>5 DEF IInv, Sent
    <3>3. /\ nin'[d] <= Len(given'[d]) /\ Len(given'[d]) <= Len(Input[d])
          /\ \A i \in 1 .. Len(given'[d]) : given'[d][i] = Input[d][i]
      BY <1>3, <2>4, <2>5, <2>6, <3>2
    <3> QED
      BY <3>1, <3>3 DEF Sent
  <2>10. Ended'
    <3>1. nin[d] = Len(given[d]) => nin'[d] = Len(given'[d])
      BY <1>3, <2>5, <2>6
    <3> QED
      BY <1>3, <2>2, <2>6, <3>1 DEF IInv, Ended
  <2> QED
    BY <1>4, <2>7, <2>8, <2>9, <2>10 DEF IInv
<1> QED
  BY <1>1, <1>7, <1>8, <1>9, <1>10
-----------------------------------------------------------------------------
(* Reading a pipe.                                                         *)

LEMMA ReadIInv == ASSUME IInv, NEW d \in Dirs, ReadEvent(d) PROVE IInv'
<1> DEFINE new == After(given[d], nin[d])
           ended == fin[d] \/ rdshut[d]
<1>1. /\ nin' = For(nin, d, Len(given[d]))
      /\ rcvq' = For(rcvq, d, rcvq[d] \o new)
      /\ refc' = [p \in Packets |-> IF p \in Range(new) THEN 1 ELSE refc[p]]
      /\ eof' = For(eof, d, eof[d] \/ ended)
      /\ inw' = For(inw, d, inw[d] /\ ~ended)
      /\ pc' = "filter" /\ cur' = d /\ pc = "idle" /\ inw[d]
      /\ UNCHANGED <<given, fin, gone, wire, nout, rdshut, wrshut, broken, outw, pq, win, live, dq, ticking, has_new>>
  BY Zenon DEF ReadEvent, handle_read_event
<1>2. /\ given \in [Dirs -> Seq(Packets)] /\ nin \in [Dirs -> Nat] /\ rcvq \in [Dirs -> Seq(Packets)]
      /\ pq \in [Dirs -> Seq(Packets)] /\ dq \in Seq(Packets)
      /\ refc \in [Packets -> Int] /\ Input \in [Dirs -> Seq(Packets)]
      /\ given[d] \in Seq(Packets) /\ rcvq[d] \in Seq(Packets) /\ Input[d] \in Seq(Packets)
      /\ nin[d] \in Nat /\ Len(given[d]) \in Nat /\ Len(Input[d]) \in Nat
  BY SessionAssumption, SMTT(60) DEF IInv, Types
<1>3. /\ nin[d] <= Len(given[d]) /\ Len(given[d]) <= Len(Input[d])
      /\ \A i \in 1 .. Len(given[d]) : given[d][i] = Input[d][i]
  BY DEF IInv, Sent
<1>4. \A i, j \in 1 .. Len(Input[d]) : Input[d][i] = Input[d][j] => i = j
  BY IdentityAssumption
<1>5. /\ new \in Seq(Packets) /\ Len(new) = Len(given[d]) - nin[d]
      /\ \A i \in 1 .. Len(new) : new[i] = Input[d][i + nin[d]]
  <2>1. /\ new \in Seq(Packets) /\ Len(new) = Len(given[d]) - nin[d]
        /\ \A i \in 1 .. Len(new) : new[i] = given[d][i + nin[d]]
    BY <1>2, <1>3, AfterFacts
  <2> HIDE DEF new
  <2>2. \A i \in 1 .. Len(new) : i + nin[d] \in 1 .. Len(given[d])
    <3>1. Len(given[d]) \in Nat /\ nin[d] \in Nat
      BY <1>2
    <3> QED
      BY <2>1, <3>1
  <2> QED
    BY <1>3, <2>1, <2>2
<1> HIDE DEF new
<1>6. \A p : p \in Range(new) <=> \E i \in nin[d] + 1 .. Len(given[d]) : Input[d][i] = p
  <2>1. \A p : p \in Range(new) <=> \E i \in 1 .. Len(new) : new[i] = p
    BY <1>5, RangeFacts
  <2>2. ASSUME NEW p, NEW i \in 1 .. Len(new), new[i] = p
        PROVE  \E j \in nin[d] + 1 .. Len(given[d]) : Input[d][j] = p
    <3>1. i + nin[d] \in nin[d] + 1 .. Len(given[d]) /\ Input[d][i + nin[d]] = p
      BY <1>2, <1>5, <2>2, SMTT(60)
    <3> QED
      BY <3>1
  <2>3. ASSUME NEW p, NEW j \in nin[d] + 1 .. Len(given[d]), Input[d][j] = p
        PROVE  \E i \in 1 .. Len(new) : new[i] = p
    <3>1. j - nin[d] \in 1 .. Len(new) /\ (j - nin[d]) + nin[d] = j
      BY <1>2, <1>5, SMTT(60)
    <3> QED
      BY <1>5, <2>3, <3>1
  <2> QED
    BY <2>1, <2>2, <2>3
<1>7. IsInjective(new)
  <2>1. \A i, j \in 1 .. Len(new) : new[i] = new[j] => i = j
    <3>1. \A i \in 1 .. Len(new) : i + nin[d] \in 1 .. Len(Input[d])
      <4>1. Len(given[d]) \in Nat /\ nin[d] \in Nat /\ Len(Input[d]) \in Nat /\ Len(given[d]) <= Len(Input[d])
        BY <1>2, <1>3
      <4>2. Len(new) = Len(given[d]) - nin[d]
        BY <1>5
      <4> QED
        BY <4>1, <4>2
    <3>2. \A i, j \in 1 .. Len(new) : new[i] = new[j] => i + nin[d] = j + nin[d]
      BY <1>4, <1>5, <3>1
    <3> QED
      BY <1>2, <3>2
  <2> QED
    BY <1>5, <2>1, RangeFacts
<1>8. /\ nin' \in [Dirs -> Nat] /\ nin'[d] = Len(given[d]) /\ \A e \in Dirs : e # d => nin'[e] = nin[e]
  BY <1>1, <1>2 DEF For
<1>9. \A e \in Dirs : \A p : p \in Unread(e) <=> \E i \in nin[e] + 1 .. Len(Input[e]) : Input[e][i] = p
  BY <1>2, UnreadFacts
<1>10. \A e \in Dirs : \A p : p \in Unread(e)' <=> \E i \in nin'[e] + 1 .. Len(Input[e]) : Input[e][i] = p
  BY DEF Unread
<1>11. \A p \in Range(new) : p \in Unread(d)
  <2>1. \A i \in nin[d] + 1 .. Len(given[d]) : i \in nin[d] + 1 .. Len(Input[d])
    BY <1>2, <1>3
  <2> QED
    BY <1>6, <1>9, <2>1
<1>12. Unread(d)' = Unread(d) \ Range(new)
  <2>1. \A i \in Len(given[d]) + 1 .. Len(Input[d]) :
            /\ i \in nin[d] + 1 .. Len(Input[d]) /\ i \in 1 .. Len(Input[d]) /\ i \notin nin[d] + 1 .. Len(given[d])
    BY <1>2, <1>3
  <2>2. \A i \in nin[d] + 1 .. Len(given[d]) : i \in 1 .. Len(Input[d])
    BY <1>2, <1>3
  <2>3. \A i \in nin[d] + 1 .. Len(Input[d]) : i \in nin[d] + 1 .. Len(given[d]) \/ i \in Len(given[d]) + 1 .. Len(Input[d])
    BY <1>2, <1>3
  <2>4. ASSUME NEW p, p \in Unread(d)' PROVE p \in Unread(d) /\ p \notin Range(new)
    <3>1. PICK i \in Len(given[d]) + 1 .. Len(Input[d]) : Input[d][i] = p
      BY <1>8, <1>10, <2>4
    <3>2. p \in Unread(d)
      BY <1>9, <2>1, <3>1
    <3>3. \A j \in nin[d] + 1 .. Len(given[d]) : Input[d][j] # p
      BY <1>4, <2>1, <2>2, <3>1
    <3> QED
      BY <1>6, <3>2, <3>3
  <2>5. ASSUME NEW p \in Unread(d), p \notin Range(new) PROVE p \in Unread(d)'
    <3>1. PICK i \in nin[d] + 1 .. Len(Input[d]) : Input[d][i] = p
      BY <1>9
    <3>2. i \in Len(given[d]) + 1 .. Len(Input[d])
      BY <1>6, <2>3, <2>5, <3>1
    <3> QED
      BY <1>8, <1>10, <3>1, <3>2
  <2> QED
    BY <2>4, <2>5
<1>13. Unreads' = [Unreads EXCEPT ![d] = Unreads[d] \ Range(new)]
  <2>1. \A e \in Dirs : Unread(e)' = IF e = d THEN Unread(d) \ Range(new) ELSE Unread(e)
    BY <1>8, <1>12 DEF Unread
  <2>2. Unreads' = [e \in Dirs |-> Unread(e)'] /\ Unreads = [e \in Dirs |-> Unread(e)]
    BY DEF Unreads
  <2>3. \A e \in Dirs : Unreads'[e] = Unread(e)' /\ Unreads[e] = Unread(e)
    BY <2>2
  <2> QED
    BY <2>1, <2>2, <2>3
<1>14. /\ rcvq' \in [Dirs -> Seq(Packets)] /\ rcvq'[d] = rcvq[d] \o new /\ \A e \in Dirs : e # d => rcvq'[e] = rcvq[e]
  <2>1. PICK x \in Seq(Packets) : x = rcvq[d] \o new
    BY <1>2, <1>5, ConcatLen
  <2>2. rcvq' = For(rcvq, d, x)
    BY <1>1, <2>1
  <2> QED
    BY <1>2, <2>1, <2>2 DEF For
<1>15. Apart(Range(dq), Ranges(rcvq), Ranges(pq), Unreads, refc)
  BY DEF IInv, Linked
<1>16. Range(rcvq[d]) \cap Range(new) = {}
  <2>1. \A p \in Ranges(rcvq)[d] : p \notin Unreads[d]
    BY <1>15 DEF Apart
  <2>2. Ranges(rcvq)[d] = Range(rcvq[d]) /\ Unreads[d] = Unread(d)
    BY DEF Ranges, Unreads
  <2> QED
    BY <1>11, <2>1, <2>2
<1>17. Range(rcvq'[d]) = Range(rcvq[d]) \cup Range(new) /\ IsInjective(rcvq'[d])
  <2>1. IsInjective(rcvq[d])
    BY DEF IInv, Single
  <2> QED
    BY <1>2, <1>5, <1>7, <1>14, <1>16, <2>1, ConcatFacts
<1>18. Ranges(rcvq)' = [Ranges(rcvq) EXCEPT ![d] = Ranges(rcvq)[d] \cup Range(new)]
  <2>1. \A e \in Dirs : Range(rcvq'[e]) = IF e = d THEN Range(rcvq[d]) \cup Range(new) ELSE Range(rcvq[e])
    BY <1>14, <1>17
  <2>2. Ranges(rcvq)' = [e \in Dirs |-> Range(rcvq'[e])] /\ Ranges(rcvq) = [e \in Dirs |-> Range(rcvq[e])]
    BY DEF Ranges
  <2> QED
    BY <2>1, <2>2
<1>19. Linked'
  <2>1. Ranges(rcvq) \in Sets /\ Ranges(pq) \in Sets /\ Unreads \in Sets
    BY <1>2, RangesFacts, UnreadFacts
  <2>2. Range(new) \in SUBSET Unreads[d]
    BY <1>11 DEF Unreads
  <2>3. Apart(Range(dq), [Ranges(rcvq) EXCEPT ![d] = Ranges(rcvq)[d] \cup Range(new)], Ranges(pq),
              [Unreads EXCEPT ![d] = Unreads[d] \ Range(new)],
              [p \in Packets |-> IF p \in Range(new) THEN 1 ELSE refc[p]])
    <3>1. PICK R \in Sets : R = Ranges(rcvq)
      BY <2>1
    <3>2. PICK Q \in Sets : Q = Ranges(pq)
      BY <2>1
    <3>3. PICK U \in Sets : U = Unreads
      BY <2>1
    <3>4. PICK L, N : L = Range(dq) /\ N = Range(new)
      OBVIOUS
    <3>5. PICK r \in [Packets -> Int] : r = refc
      BY <1>2
    <3>6. Apart(L, R, Q, U, r) /\ N \in SUBSET U[d]
      BY <1>15, <2>2, <3>1, <3>2, <3>3, <3>4, <3>5
    <3>7. Apart(L, [R EXCEPT ![d] = R[d] \cup N], Q, [U EXCEPT ![d] = U[d] \ N],
                [p \in Packets |-> IF p \in N THEN 1 ELSE r[p]])
      BY <3>6, ApartRead, SMTT(60)
    <3> QED
      BY <3>1, <3>2, <3>3, <3>4, <3>5, <3>7
  <2>4. Ranges(pq)' = Ranges(pq) /\ dq' = dq
    BY <1>1 DEF Ranges
  <2> QED
    BY <1>1, <1>13, <1>18, <2>3, <2>4, Zenon DEF Linked
<1>20. /\ eof' \in [Dirs -> BOOLEAN] /\ eof'[d] = (eof[d] \/ ended) /\ \A e \in Dirs : e # d => eof'[e] = eof[e]
       /\ inw' \in [Dirs -> BOOLEAN] /\ inw'[d] = (inw[d] /\ ~ended) /\ \A e \in Dirs : e # d => inw'[e] = inw[e]
  <2> HIDE DEF ended
  <2> QED
    BY <1>1, Zenon DEF For, IInv, Types
<1>21. refc' \in [Packets -> Int]
  BY <1>1, <1>2
<1>22. Types'
  BY <1>1, <1>8, <1>14, <1>20, <1>21 DEF IInv, Types
<1>23. Buffered' /\ Timed'
  BY <1>1 DEF IInv, Buffered, Timed
<1>24. Sent'
  <2>1. \A e \in Dirs : nin'[e] <= Len(given[e])
    <3>1. \A e \in Dirs : e # d => nin'[e] <= Len(given[e])
      BY <1>8 DEF IInv, Sent
    <3>2. nin'[d] <= Len(given[d])
      BY <1>2, <1>8
    <3> QED
      BY <3>1, <3>2
  <2> QED
    BY <1>1, <2>1 DEF IInv, Sent
<1>25. Single'
  BY <1>1, <1>14, <1>17 DEF IInv, Single
<1>26. ~eof[d]
  BY <1>1 DEF IInv, Watched
<1>27. Watched'
  <2>1. \A e \in Dirs : (eof'[e] => ~inw'[e]) /\ (live /\ ~eof'[e] => inw'[e])
    <3> HIDE DEF ended
    <3>1. \A e \in Dirs : (eof[e] => ~inw[e]) /\ (live /\ ~eof[e] => inw[e])
      BY DEF IInv, Watched
    <3> QED
      BY <1>1, <1>20, <1>26, <3>1
  <2> QED
    BY <1>1, <2>1 DEF Watched
<1>28. Ended'
  <2>1. wrshut[d] # "whole" /\ (rdshut[d] => broken[d])
    BY <1>26 DEF IInv, Ended
  <2>2. eof'[d] /\ ~broken[d] => fin[d]
    BY <1>20, <1>26, <2>1
  <2>3. \A e \in Dirs : e # d =>
            UNCHANGED <<rdshut[e], broken[e], eof[e], fin[e], nin[e], given[e], wrshut[e], rcvq[e], pq[e]>>
    BY <1>1, <1>8, <1>14, <1>20
  <2>4. UNCHANGED <<rdshut[d], broken[d], fin[d], given[d], wrshut[d], pq[d]>> /\ nin'[d] = Len(given'[d])
    BY <1>1, <1>8
  <2>5. ASSUME NEW e \in Dirs
        PROVE /\ rdshut'[e] => broken'[e]
              /\ eof'[e] /\ ~broken'[e] => fin'[e] /\ nin'[e] = Len(given'[e])
              /\ wrshut'[e] = "whole" =>
                    /\ eof'[e] /\ fin'[e] /\ nin'[e] = Len(given'[e]) /\ rcvq'[e] = <<>>
                    /\ \A p \in Range(pq'[e]) : p \notin Range(Input[e])
    <3>1. CASE e = d
      BY <2>1, <2>2, <2>4, <3>1
    <3>2. CASE e # d
      BY <2>3, <3>2 DEF IInv, Ended
    <3> QED
      BY <3>1, <3>2
  <2> QED
    BY <2>5 DEF Ended
<1> QED
  BY <1>19, <1>22, <1>23, <1>24, <1>25, <1>27, <1>28 DEF IInv
-----------------------------------------------------------------------------
(* Filtering a packet.                                                     *)

LEMMA TakenFacts ==
    ASSUME NEW src \in Seq(Packets), IsInjective(src), NEW d \in Dirs, NEW n \in Nat
    PROVE  /\ Taken(src, d, n) \in Seq(Packets) /\ IsInjective(Taken(src, d, n))
           /\ \A x \in Range(Taken(src, d, n)) : x \in Range(src) /\ Dir[x] = d
<1> DEFINE S == {p \in Packets \ Delayed : Dir[p] = d}
<1>1. PICK t \in Seq(Packets) : t = Select(src, S) /\ IsInjective(t) /\ Range(t) = Range(src) \cap S
  BY SelectFacts
<1>2. PICK m \in Int : m = WRIVCNT - n
  BY SessionAssumption
<1>3. First(t, m) \in Seq(Packets) /\ IsInjective(First(t, m)) /\ Range(First(t, m)) \subseteq Range(t)
  BY <1>1, FirstFacts, FirstInjective
<1>4. Taken(src, d, n) = First(t, m)
  BY <1>1, <1>2 DEF Taken
<1> QED
  BY <1>1, <1>3, <1>4

LEMMA UntakenFacts ==
    ASSUME NEW src \in Seq(Packets), IsInjective(src), NEW taken
    PROVE  /\ Untaken(src, taken) \in Seq(Packets) /\ IsInjective(Untaken(src, taken))
           /\ \A x : x \in Range(Untaken(src, taken)) <=> x \in Range(src) /\ \A d \in Dirs : x \notin Range(taken[d])
<1> DEFINE S == {p \in Packets : \A d \in Dirs : p \notin Range(taken[d])}
<1>1. Select(src, S) \in Seq(Packets) /\ IsInjective(Select(src, S)) /\ Range(Select(src, S)) = Range(src) \cap S
  BY SelectFacts
<1>2. Range(src) \subseteq Packets
  BY RangeFacts
<1>3. Untaken(src, taken) = Select(src, S)
  BY DEF Untaken
<1> QED
  BY <1>1, <1>2, <1>3

\* The pipes take what taken says from the list src; what is left of both lists.
Takes(taken, src) == \A d \in Dirs : \E n \in Nat : taken[d] = Taken(src, d, n)
Left(p, pre, post) == Untaken(Pre[p], pre) \o Untaken(Post[p], post)

LEMMA TakesFacts ==
    ASSUME NEW src \in Seq(Packets), IsInjective(src), NEW taken, Takes(taken, src)
    PROVE  /\ \A d \in Dirs : /\ taken[d] \in Seq(Packets) /\ IsInjective(taken[d])
                              /\ \A x \in Range(taken[d]) : x \in Range(src) /\ Dir[x] = d
           /\ \E u \in Seq(Packets) :
                 /\ u = Untaken(src, taken) /\ IsInjective(u)
                 /\ \A x : x \in Range(u) <=> x \in Range(src) /\ \A d \in Dirs : x \notin Range(taken[d])
<1>1. ASSUME NEW d \in Dirs
      PROVE  /\ taken[d] \in Seq(Packets) /\ IsInjective(taken[d])
             /\ \A x \in Range(taken[d]) : x \in Range(src) /\ Dir[x] = d
  <2>1. PICK n \in Nat : taken[d] = Taken(src, d, n)
    BY DEF Takes
  <2>2. /\ Taken(src, d, n) \in Seq(Packets) /\ IsInjective(Taken(src, d, n))
        /\ \A x \in Range(Taken(src, d, n)) : x \in Range(src) /\ Dir[x] = d
    BY TakenFacts
  <2> QED
    BY <2>1, <2>2, Zenon
<1>2. /\ Untaken(src, taken) \in Seq(Packets) /\ IsInjective(Untaken(src, taken))
      /\ \A x : x \in Range(Untaken(src, taken)) <=> x \in Range(src) /\ \A d \in Dirs : x \notin Range(taken[d])
  BY UntakenFacts
<1> QED
  BY <1>1, <1>2

\* What the filters inject around p goes to the pipes of its directions, and the
\* rest to the delayed queue.
Shared(p, pre, post, later) ==
    /\ \A d \in Dirs : /\ pre[d] \in Seq(Packets) /\ IsInjective(pre[d])
                       /\ post[d] \in Seq(Packets) /\ IsInjective(post[d])
                       /\ Range(pre[d]) \cap Range(post[d]) = {}
                       /\ \A x \in Range(pre[d]) \cup Range(post[d]) : x \in Injected(p) /\ Dir[x] = d
    /\ later \in Seq(Packets) /\ IsInjective(later)
    /\ \A x \in Injected(p) : x \in Range(later) \/ \E d \in Dirs : x \in Range(pre[d]) \cup Range(post[d])
    /\ \A x \in Range(later) : /\ x \in Injected(p)
                               /\ \A d \in Dirs : x \notin Range(pre[d]) /\ x \notin Range(post[d])

LEMMA InjectedFacts ==
    ASSUME NEW p \in Packets, NEW pre, NEW post, Takes(pre, Pre[p]), Takes(post, Post[p])
    PROVE  Shared(p, pre, post, Left(p, pre, post))
<1>1. /\ Pre[p] \in Seq(Packets) /\ Post[p] \in Seq(Packets) /\ IsInjective(Pre[p]) /\ IsInjective(Post[p])
      /\ \A x : ~(x \in Range(Pre[p]) /\ x \in Range(Post[p]))
  BY SessionAssumption, IdentityAssumption
<1>2. \A x : x \in Injected(p) <=> x \in Range(Pre[p]) \/ x \in Range(Post[p])
  BY DEF Injected
<1>3. \A d \in Dirs : /\ pre[d] \in Seq(Packets) /\ IsInjective(pre[d])
                      /\ \A x \in Range(pre[d]) : x \in Range(Pre[p]) /\ Dir[x] = d
  BY <1>1, TakesFacts
<1>4. \A d \in Dirs : /\ post[d] \in Seq(Packets) /\ IsInjective(post[d])
                      /\ \A x \in Range(post[d]) : x \in Range(Post[p]) /\ Dir[x] = d
  BY <1>1, TakesFacts
<1>5. PICK u \in Seq(Packets) :
          /\ u = Untaken(Pre[p], pre) /\ IsInjective(u)
          /\ \A x : x \in Range(u) <=> x \in Range(Pre[p]) /\ \A d \in Dirs : x \notin Range(pre[d])
  BY <1>1, TakesFacts
<1>6. PICK v \in Seq(Packets) :
          /\ v = Untaken(Post[p], post) /\ IsInjective(v)
          /\ \A x : x \in Range(v) <=> x \in Range(Post[p]) /\ \A d \in Dirs : x \notin Range(post[d])
  BY <1>1, TakesFacts
<1>7. PICK later : later = Left(p, pre, post) /\ later = u \o v
  BY <1>5, <1>6 DEF Left
<1>8. later \in Seq(Packets) /\ IsInjective(later) /\ Range(later) = Range(u) \cup Range(v)
  <2>1. Range(u) \cap Range(v) = {}
    BY <1>1, <1>5, <1>6
  <2> QED
    BY <1>5, <1>6, <1>7, <2>1, ConcatFacts
<1>9. \A d \in Dirs : Range(pre[d]) \cap Range(post[d]) = {}
  BY <1>1, <1>3, <1>4
<1>10. \A d \in Dirs : \A x \in Range(pre[d]) \cup Range(post[d]) : x \in Injected(p) /\ Dir[x] = d
  BY <1>2, <1>3, <1>4
<1>11. \A x \in Injected(p) : x \in Range(later) \/ \E d \in Dirs : x \in Range(pre[d]) \cup Range(post[d])
  BY <1>2, <1>5, <1>6, <1>8
<1>12. \A x \in Range(later) : x \in Injected(p) /\ \A d \in Dirs : x \notin Range(pre[d]) /\ x \notin Range(post[d])
  BY <1>1, <1>2, <1>3, <1>4, <1>5, <1>6, <1>8
<1> QED
  BY <1>3, <1>4, <1>7, <1>8, <1>9, <1>10, <1>11, <1>12 DEF Shared

\* The list of a pipe after p was filtered: what was there, and what comes before
\* p, p itself and what comes after.
Joined(q, a, i, b) == q \o a \o i \o b

LEMMA QueuedFacts ==
    ASSUME NEW q \in Seq(Packets), NEW a \in Seq(Packets), NEW i \in Seq(Packets), NEW b \in Seq(Packets)
    PROVE  /\ Joined(q, a, i, b) \in Seq(Packets)
           /\ Range(Joined(q, a, i, b)) = Range(q) \cup (Range(a) \cup Range(b)) \cup Range(i)
           /\ /\ IsInjective(q) /\ IsInjective(a) /\ IsInjective(i) /\ IsInjective(b)
              /\ Range(q) \cap Range(a) = {} /\ Range(q) \cap Range(i) = {} /\ Range(q) \cap Range(b) = {}
              /\ Range(a) \cap Range(i) = {} /\ Range(a) \cap Range(b) = {} /\ Range(i) \cap Range(b) = {}
              => IsInjective(Joined(q, a, i, b))
<1>1. PICK s \in Seq(Packets) : /\ s = q \o a /\ Range(s) = Range(q) \cup Range(a)
                                /\ IsInjective(q) /\ IsInjective(a) /\ Range(q) \cap Range(a) = {} => IsInjective(s)
  BY ConcatFacts
<1>2. PICK t \in Seq(Packets) : /\ t = s \o i /\ Range(t) = Range(s) \cup Range(i)
                                /\ IsInjective(s) /\ IsInjective(i) /\ Range(s) \cap Range(i) = {} => IsInjective(t)
  BY ConcatFacts
<1>3. PICK u \in Seq(Packets) : /\ u = t \o b /\ Range(u) = Range(t) \cup Range(b)
                                /\ IsInjective(t) /\ IsInjective(b) /\ Range(t) \cap Range(b) = {} => IsInjective(u)
  BY ConcatFacts
<1>4. u = Joined(q, a, i, b)
  BY <1>1, <1>2, <1>3 DEF Joined
<1>5. Range(u) = Range(q) \cup (Range(a) \cup Range(b)) \cup Range(i)
  BY <1>1, <1>2, <1>3
<1>6. ASSUME IsInjective(q), IsInjective(a), IsInjective(i), IsInjective(b),
             Range(q) \cap Range(a) = {}, Range(q) \cap Range(i) = {}, Range(q) \cap Range(b) = {},
             Range(a) \cap Range(i) = {}, Range(a) \cap Range(b) = {}, Range(i) \cap Range(b) = {}
      PROVE  IsInjective(u)
  <2>1. IsInjective(s)
    BY <1>1, <1>6
  <2>2. IsInjective(t)
    BY <1>1, <1>2, <1>6, <2>1
  <2>3. Range(t) \cap Range(b) = {}
    BY <1>1, <1>2, <1>6
  <2> QED
    BY <1>3, <1>6, <2>2, <2>3
<1> QED
  BY <1>4, <1>5, <1>6

LEMMA SingletonFacts ==
    ASSUME NEW x \in Packets
    PROVE  <<x>> \in Seq(Packets) /\ Range(<<x>>) = {x} /\ IsInjective(<<x>>)
<1>1. <<x>> \in Seq(Packets) /\ Len(<<x>>) = 1 /\ <<x>>[1] = x /\ DOMAIN <<x>> = 1 .. 1
  OBVIOUS
<1> QED
  BY <1>1 DEF Range, IsInjective

LEMMA FilterIInv == ASSUME IInv, filter PROVE IInv'
<1> DEFINE p == Head(rcvq[cur])
           pre == [d \in Dirs |-> Taken(Pre[p], d, Len(win[d]))]
           post == [d \in Dirs |-> Taken(Post[p], d, Len(win[d]) + Len(pre[d]))]
           itself == [d \in Dirs |-> IF d = cur /\ ~Drop[p] THEN <<p>> ELSE <<>>]
           later == Untaken(Pre[p], pre) \o Untaken(Post[p], post)
<1>1. /\ pc = "filter" /\ rcvq[cur] # <<>>
      /\ rcvq' = For(rcvq, cur, Tail(rcvq[cur]))
      /\ pq' = [d \in Dirs |-> pq[d] \o pre[d] \o itself[d] \o post[d]]
      /\ win' = [d \in Dirs |-> win[d] \o pre[d] \o post[d]]
      /\ dq' = dq \o later
      /\ has_new' = (has_new \/ later # <<>>)
      /\ refc' = Filtered(p)
      /\ UNCHANGED <<world, eof, broken, inw, outw, live, ticking, pc, cur>>
  BY ZenonT(60) DEF filter
<1>2. UNCHANGED <<given, nin, fin, gone, wire, nout, rdshut, wrshut, eof, broken, inw, outw, live, ticking, pc, cur>>
  BY <1>1 DEF world
<1>3. /\ cur \in Dirs /\ rcvq \in [Dirs -> Seq(Packets)] /\ pq \in [Dirs -> Seq(Packets)] /\ win \in [Dirs -> Seq(Packets)]
      /\ dq \in Seq(Packets) /\ refc \in [Packets -> Int] /\ nin \in [Dirs -> Nat] /\ has_new \in BOOLEAN
      /\ Drop \in [Packets -> BOOLEAN] /\ Pre[p] = Pre[p]
  BY SessionAssumption DEF IInv, Types
<1>4. /\ p \in Range(rcvq[cur]) /\ p \in Packets /\ Tail(rcvq[cur]) \in Seq(Packets)
      /\ IsInjective(Tail(rcvq[cur])) /\ Range(Tail(rcvq[cur])) = Range(rcvq[cur]) \ {p}
  <2>1. IsInjective(rcvq[cur]) /\ rcvq[cur] \in Seq(Packets)
    BY <1>3 DEF IInv, Single
  <2> QED
    BY <1>1, <2>1, TailFacts
<1> HIDE DEF p
<1>5. /\ rcvq' \in [Dirs -> Seq(Packets)] /\ rcvq'[cur] = Tail(rcvq[cur])
      /\ \A e \in Dirs : e # cur => rcvq'[e] = rcvq[e]
  <2>1. PICK t \in Seq(Packets) : t = Tail(rcvq[cur])
    BY <1>4
  <2>2. rcvq' = For(rcvq, cur, t)
    BY <1>1, <2>1
  <2>3. /\ rcvq' \in [Dirs -> Seq(Packets)] /\ rcvq'[cur] = t
        /\ \A e \in Dirs : e # cur => rcvq'[e] = rcvq[e]
    BY <1>3, <2>2 DEF For
  <2> QED
    BY <2>1, <2>3
<1>6. Pre[p] \in Seq(Packets) /\ Post[p] \in Seq(Packets) /\ IsInjective(Pre[p]) /\ IsInjective(Post[p])
  BY <1>4, SessionAssumption, IdentityAssumption
<1>7. Takes(pre, Pre[p])
  <2>1. \A d \in Dirs : pre[d] = Taken(Pre[p], d, Len(win[d])) /\ Len(win[d]) \in Nat
    BY <1>3
  <2> QED
    BY <2>1 DEF Takes
<1>8. \A d \in Dirs : pre[d] \in Seq(Packets)
  <2> HIDE DEF pre
  <2> QED
    BY <1>6, <1>7, TakesFacts
<1>9. Takes(post, Post[p])
  <2>1. \A d \in Dirs : Len(win[d]) + Len(pre[d]) \in Nat
    BY <1>3, <1>8
  <2> HIDE DEF pre
  <2>2. \A d \in Dirs : post[d] = Taken(Post[p], d, Len(win[d]) + Len(pre[d]))
    OBVIOUS
  <2> HIDE DEF post
  <2> QED
    BY <2>1, <2>2 DEF Takes
<1>10. later = Left(p, pre, post)
  BY Zenon DEF Left
<1> HIDE DEF pre, post, later
<1>11. /\ \A d \in Dirs : /\ pre[d] \in Seq(Packets) /\ IsInjective(pre[d])
                          /\ post[d] \in Seq(Packets) /\ IsInjective(post[d])
                          /\ Range(pre[d]) \cap Range(post[d]) = {}
                          /\ \A x \in Range(pre[d]) \cup Range(post[d]) : x \in Injected(p) /\ Dir[x] = d
       /\ later \in Seq(Packets) /\ IsInjective(later)
       /\ \A x \in Injected(p) : x \in Range(later) \/ \E d \in Dirs : x \in Range(pre[d]) \cup Range(post[d])
       /\ \A x \in Range(later) : /\ x \in Injected(p)
                                  /\ \A d \in Dirs : x \notin Range(pre[d]) /\ x \notin Range(post[d])
  <2>1. Shared(p, pre, post, later)
    BY <1>4, <1>7, <1>9, <1>10, InjectedFacts
  <2> QED
    BY <2>1 DEF Shared
<1>12. \A d \in Dirs : /\ itself[d] \in Seq(Packets) /\ IsInjective(itself[d])
                       /\ Range(itself[d]) = IF d = cur /\ ~Drop[p] THEN {p} ELSE {}
  <2>1. \A d \in Dirs : itself[d] = IF d = cur /\ ~Drop[p] THEN <<p>> ELSE <<>>
    OBVIOUS
  <2> HIDE DEF itself
  <2> QED
    BY <1>4, <2>1, SingletonFacts, EmptyFacts
<1> HIDE DEF itself
<1>13. Apart(Range(dq), Ranges(rcvq), Ranges(pq), Unreads, refc)
  BY DEF IInv, Linked
<1>14. /\ Ranges(rcvq) \in Sets /\ Ranges(pq) \in Sets /\ Unreads \in Sets
       /\ \A d \in Dirs : Ranges(rcvq)[d] = Range(rcvq[d]) /\ Ranges(pq)[d] = Range(pq[d])
  BY <1>3, RangesFacts, UnreadFacts
<1>15. /\ p \in Range(Input[cur])
       /\ \A d \in Dirs : p \notin Range(pq[d]) /\ \A x \in Injected(p) : x \notin Range(pq[d])
       /\ \A x \in Injected(p) : x # p /\ x \notin Range(dq)
  <2>1. p \in Ranges(rcvq)[cur]
    BY <1>3, <1>4, <1>14
  <2>2. Unmade(p, Range(dq), Ranges(pq)) /\ p \in Range(Input[cur]) /\ \A d \in Dirs : p \notin Ranges(pq)[d]
    BY <1>3, <1>13, <2>1 DEF Apart
  <2>3. \A x \in Injected(p) : x # p
    BY <1>3, <1>4, <2>2, InputsApart
  <2> QED
    BY <1>14, <2>2, <2>3 DEF Unmade
<1>16. \A d \in Dirs : /\ pq'[d] \in Seq(Packets) /\ IsInjective(pq'[d])
                       /\ Range(pq'[d]) = Range(pq[d]) \cup (Range(pre[d]) \cup Range(post[d])) \cup Range(itself[d])
  <2> SUFFICES ASSUME NEW d \in Dirs
               PROVE  /\ pq'[d] \in Seq(Packets) /\ IsInjective(pq'[d])
                      /\ Range(pq'[d]) = Range(pq[d]) \cup (Range(pre[d]) \cup Range(post[d])) \cup Range(itself[d])
    OBVIOUS
  <2>1. pq'[d] = pq[d] \o pre[d] \o itself[d] \o post[d]
    BY <1>1, Zenon
  <2>2. PICK q, a, i, b \in Seq(Packets) : q = pq[d] /\ a = pre[d] /\ i = itself[d] /\ b = post[d]
    BY <1>3, <1>11, <1>12
  <2>3. /\ Range(q) \cap Range(a) = {} /\ Range(q) \cap Range(i) = {} /\ Range(q) \cap Range(b) = {}
        /\ Range(a) \cap Range(i) = {} /\ Range(a) \cap Range(b) = {} /\ Range(i) \cap Range(b) = {}
    <3>1. Range(q) \cap Range(a) = {} /\ Range(q) \cap Range(b) = {}
      BY <1>11, <1>15, <2>2
    <3>2. Range(i) \subseteq {p}
      BY <1>12, <2>2
    <3>3. p \notin Range(q) /\ p \notin Range(a) /\ p \notin Range(b)
      BY <1>11, <1>15, <2>2
    <3>4. Range(a) \cap Range(b) = {}
      BY <1>11, <2>2
    <3> QED
      BY <3>1, <3>2, <3>3, <3>4
  <2>4. IsInjective(q) /\ IsInjective(a) /\ IsInjective(i) /\ IsInjective(b)
    BY <1>11, <1>12, <2>2 DEF IInv, Single
  <2>5. /\ Joined(q, a, i, b) \in Seq(Packets) /\ IsInjective(Joined(q, a, i, b))
        /\ Range(Joined(q, a, i, b)) = Range(q) \cup (Range(a) \cup Range(b)) \cup Range(i)
    BY <2>3, <2>4, QueuedFacts, SMTT(60)
  <2>6. pq'[d] = Joined(q, a, i, b)
    BY <2>1, <2>2, Zenon DEF Joined
  <2> QED
    BY <2>2, <2>5, <2>6, Zenon
<1>17. pq' \in [Dirs -> Seq(Packets)]
  <2>1. DOMAIN pq' = Dirs /\ pq' = [d \in DOMAIN pq' |-> pq'[d]]
    BY <1>1
  <2> QED
    BY <1>16, <2>1
<1>18. win' \in [Dirs -> Seq(Packets)]
  <2>1. \A d \in Dirs : win[d] \o pre[d] \o post[d] \in Seq(Packets)
    <3>1. ASSUME NEW q \in Seq(Packets), NEW a \in Seq(Packets), NEW b \in Seq(Packets) PROVE q \o a \o b \in Seq(Packets)
      OBVIOUS
    <3> QED
      BY <1>3, <1>11, <3>1
  <2> QED
    BY <1>1, <2>1, Zenon
<1>19. dq' \in Seq(Packets) /\ IsInjective(dq') /\ Range(dq') = Range(dq) \cup Range(later)
  <2>1. IsInjective(dq) /\ Range(dq) \cap Range(later) = {}
    BY <1>11, <1>15 DEF IInv, Single
  <2> QED
    BY <1>1, <1>3, <1>11, <2>1, ConcatFacts
<1>20. \A q \in Packets : refc'[q] = IF q \in Injected(p) THEN 1
                                     ELSE IF q = p /\ Drop[p] THEN refc[q] - 1
                                     ELSE refc[q]
  BY <1>1 DEF Filtered
<1>21. refc' \in [Packets -> Int]
  <2>1. refc' = Filtered(p)
    BY <1>1
  <2> QED
    BY <1>3, <2>1 DEF Filtered
<1>22. Linked'
  <2>1. PICK A \in Sets : \A d \in Dirs : A[d] = Range(pre[d]) \cup Range(post[d])
    <3>1. \A d \in Dirs : Range(pre[d]) \cup Range(post[d]) \in SUBSET Packets
      BY <1>11, RangeFacts
    <3>2. [d \in Dirs |-> Range(pre[d]) \cup Range(post[d])] \in Sets
      BY <3>1 DEF Sets
    <3> QED
      BY <3>2
  <2>2. PICK B \in SUBSET Packets : B = Range(later)
    BY <1>11, RangeFacts
  <2>3. PICK Q \in Sets : Q = Ranges(pq)
    BY <1>14
  <2>4. PICK R \in Sets : R = Ranges(rcvq)
    BY <1>14
  <2>5. PICK U \in Sets : U = Unreads
    BY <1>14
  <2>6. PICK r \in [Packets -> Int] : r = refc
    BY <1>3
  <2>7. PICK Q1, r1, L, x, c : Q1 = Ranges(pq') /\ r1 = refc' /\ L = Range(dq) /\ x = p /\ c = cur
    OBVIOUS
  <2>8. Apart(L, R, Q, U, r) /\ c \in Dirs /\ x \in R[c]
    BY <1>3, <1>4, <1>13, <1>14, <2>3, <2>4, <2>5, <2>6, <2>7
  <2>9. \A q : q \in Injected(x) <=> q \in B \/ \E d \in Dirs : q \in A[d]
    BY <1>11, <2>1, <2>2, <2>7
  <2>10. \A d \in Dirs : \A q \in A[d] : q \notin B /\ \A e \in Dirs : d # e => q \notin A[e]
    <3>1. \A d \in Dirs : \A q \in A[d] : Dir[q] = d
      BY <1>11, <2>1
    <3>2. \A d \in Dirs : \A q \in A[d] : q \notin B
      BY <1>11, <2>1, <2>2
    <3> QED
      BY <3>1, <3>2
  <2>11. \A d \in Dirs : Q1[d] = Q[d] \cup A[d] \cup (IF d = c /\ ~Drop[x] THEN {x} ELSE {})
    <3>1. \A d \in Dirs : Q1[d] = Range(pq'[d]) /\ Q[d] = Range(pq[d])
      BY <2>3, <2>7 DEF Ranges
    <3> QED
      BY <1>12, <1>16, <2>1, <2>7, <3>1, ZenonT(60)
  <2>12. \A q \in Packets : r1[q] = IF q \in Injected(x) THEN 1
                                    ELSE IF q = x /\ Drop[x] THEN r[q] - 1
                                    ELSE r[q]
    BY <1>20, <2>6, <2>7
  <2>13. Apart(L \cup B, [R EXCEPT ![c] = R[c] \ {x}], Q1, U, r1)
    <3>1. Moves(x, c, A, B, Q, Q1, r, r1)
      BY <2>9, <2>10, <2>11, <2>12 DEF Moves
    <3> QED
      BY <2>8, <3>1, ApartFiltered
  <2>14. Ranges(rcvq)' = [R EXCEPT ![c] = R[c] \ {x}]
    <3>1. \A e \in Dirs : Range(rcvq'[e]) = IF e = c THEN R[c] \ {x} ELSE R[e]
      BY <1>3, <1>4, <1>5, <1>14, <2>4, <2>7
    <3>2. Ranges(rcvq)' = [e \in Dirs |-> Range(rcvq'[e])] /\ R = [e \in Dirs |-> R[e]]
      BY <2>4 DEF Ranges
    <3> QED
      BY <3>1, <3>2
  <2>15. Range(dq') = L \cup B /\ Ranges(pq)' = Q1 /\ Unreads' = U /\ refc' = r1
    BY <1>2, <1>19, <2>2, <2>5, <2>7 DEF Ranges, Unreads, Unread
  <2> QED
    BY <2>13, <2>14, <2>15, Zenon DEF Linked
<1>23. has_new' \in BOOLEAN
  BY <1>1, Zenon
<1>24. Types'
  BY <1>2, <1>5, <1>17, <1>18, <1>19, <1>21, <1>23 DEF IInv, Types
<1>25. Buffered' /\ Sent'
  BY <1>2 DEF IInv, Buffered, Sent
<1>26. Single'
  BY <1>3, <1>4, <1>5, <1>16, <1>19 DEF IInv, Single
<1>27. Timed'
  <2>1. CASE later # <<>> \/ has_new
    BY <1>1, <1>2, <2>1 DEF Timed
  <2>2. CASE later = <<>> /\ ~has_new
    BY <1>2, <1>19, <2>2, EmptyFacts DEF IInv, Timed
  <2> QED
    BY <2>1, <2>2
<1>28. Watched'
  BY <1>1, <1>2 DEF IInv, Watched
<1>29. Ended'
  <2>1. ASSUME NEW d \in Dirs, wrshut[d] = "whole"
        PROVE  rcvq'[d] = <<>> /\ \A x \in Range(pq'[d]) : x \notin Range(Input[d])
    <3>1. rcvq[d] = <<>> /\ \A x \in Range(pq[d]) : x \notin Range(Input[d])
      BY <2>1 DEF IInv, Ended
    <3>2. d # cur
      BY <1>1, <3>1
    <3>3. Range(itself[d]) = {}
      BY <1>12, <3>2
    <3>4. \A x \in Injected(p) : x \notin Range(Input[d])
      BY <1>4, InputsApart
    <3> QED
      <4>1. rcvq'[d] = <<>>
        BY <1>5, <3>1, <3>2
      <4>2. \A x \in Range(pq'[d]) : x \in Range(pq[d]) \/ x \in Injected(p)
        <5>1. Range(pq'[d]) = Range(pq[d]) \cup (Range(pre[d]) \cup Range(post[d])) \cup Range(itself[d])
          BY <1>16, Zenon
        <5>2. \A x \in Range(pre[d]) \cup Range(post[d]) : x \in Injected(p)
          BY <1>11, Zenon
        <5> QED
          BY <3>3, <5>1, <5>2
      <4> QED
        BY <3>1, <3>4, <4>1, <4>2
  <2> QED
    BY <1>2, <2>1 DEF IInv, Ended
<1> QED
  BY <1>22, <1>24, <1>25, <1>26, <1>27, <1>28, <1>29 DEF IInv
-----------------------------------------------------------------------------
(* Writing a pipe keeps the invariant.                                     *)

LEMMA WriteTypes ==
    ASSUME IInv, NEW d \in Dirs, NEW q \in Seq(Packets), NEW r \in [Packets -> Int],
           handle_write_event(d, q, r),
           UNCHANGED <<given, nin, fin, gone, nout, eof, inw, rcvq, live>>,
           dq' \in Seq(Packets), ticking' \subseteq Packets, has_new' \in BOOLEAN,
           pc' \in {"idle", "filter", "other", "check"}, cur' \in Dirs
    PROVE  Types' /\ Buffered' /\ Sent'
<1>1. Types /\ Buffered
  BY DEF IInv
<1>2. /\ /\ wire' \in [Dirs -> Seq(Packets)] /\ pq' \in [Dirs -> Seq(Packets)]
         /\ win' \in [Dirs -> Seq(Packets)] /\ refc' \in [Packets -> Int]
         /\ broken' \in [Dirs -> BOOLEAN] /\ rdshut' \in [Dirs -> BOOLEAN]
         /\ outw' \in [Dirs -> BOOLEAN] /\ wrshut' \in [Dirs -> {"no", "whole", "broken"}]
      /\ Len(wire[d]) <= Len(wire'[d]) /\ Len(wire'[d]) <= nout[d] + SNDBUF
      /\ \A e \in Dirs : e # d => wire'[e] = wire[e]
  BY <1>1, WriteFacts
<1>3. Types'
  BY <1>1, <1>2 DEF Types
<1>4. Buffered'
  <2>1. Len(wire[d]) \in Nat /\ Len(wire'[d]) \in Nat /\ nout[d] \in Nat /\ nout[d] <= Len(wire[d])
    <3>1. wire \in [Dirs -> Seq(Packets)] /\ nout \in [Dirs -> Nat] /\ nout[d] <= Len(wire[d])
      BY <1>1 DEF Types, Buffered
    <3>2. wire[d] \in Seq(Packets) /\ wire'[d] \in Seq(Packets) /\ nout[d] \in Nat
      BY <1>2, <3>1, Zenon
    <3> QED
      BY <3>1, <3>2
  <2>2. nout[d] <= Len(wire'[d])
    BY <1>2, <2>1
  <2> QED
    BY <1>1, <1>2, <2>2 DEF Buffered
<1>5. Sent'
  BY DEF IInv, Sent
<1> QED
  BY <1>3, <1>4, <1>5

\* The packets of the send queues where pipe d has the list q.
Lists(Q, d, q) == Q[d] = Range(q) /\ \A e \in Dirs : e # d => Q[e] = Range(pq[e])

LEMMA WriteLinked ==
    ASSUME IInv, NEW d \in Dirs, NEW q \in Seq(Packets), NEW r \in [Packets -> Int],
           handle_write_event(d, q, r), UNCHANGED <<nin, rcvq>>,
           IsInjective(q), IsInjective(dq'), NEW Q \in Sets, Lists(Q, d, q),
           Apart(Range(dq'), Ranges(rcvq), Q, Unreads, r)
    PROVE  /\ Single' /\ Linked'
           /\ \A p \in Range(pq'[d]) : p \in Range(q)
<1>1. Types /\ Buffered
  BY DEF IInv
<1>0. PICK n \in 0 .. Len(q) : Passes(d, q, r, n)
  BY <1>1, WriteFacts
<1>2. /\ pq' = [pq EXCEPT ![d] = After(q, n)]
      /\ refc' = [p \in Packets |-> IF p \in Range(First(q, n)) THEN r[p] - 1 ELSE r[p]]
  BY <1>0 DEF Passes
<1>3. /\ Range(First(q, n)) \subseteq Range(q)
      /\ Range(After(q, n)) = Range(q) \ Range(First(q, n))
      /\ IsInjective(After(q, n))
  BY CutFacts
<1>4. pq \in [Dirs -> Seq(Packets)] /\ rcvq \in [Dirs -> Seq(Packets)] /\ nin \in [Dirs -> Nat]
  BY <1>1 DEF Types
<1>5. pq'[d] = After(q, n) /\ \A e \in Dirs : e # d => pq'[e] = pq[e]
  BY <1>2, <1>4
<1>6. Single'
  BY <1>3, <1>5 DEF IInv, Single
<1>7. PICK S \in SUBSET Q[d] : S = Range(First(q, n))
  BY <1>3 DEF Lists
<1>8. Ranges(pq)' = [Q EXCEPT ![d] = Q[d] \ S]
  <2>1. \A e \in Dirs : Range(pq'[e]) = IF e = d THEN Q[d] \ S ELSE Q[e]
    BY <1>3, <1>5, <1>7 DEF Lists
  <2>2. Ranges(pq)' = [e \in Dirs |-> Range(pq'[e])] /\ Q = [e \in Dirs |-> Q[e]]
    BY DEF Ranges, Sets
  <2> QED
    BY <2>1, <2>2
<1>9. refc' = [p \in Packets |-> IF p \in S THEN r[p] - 1 ELSE r[p]]
  BY <1>2, <1>7
<1>10. Linked'
  <2>1. PICK R \in Sets : R = Ranges(rcvq)
    BY <1>4, RangesFacts
  <2>2. PICK U \in Sets : U = Unreads
    BY <1>4, UnreadFacts
  <2>3. PICK L : L = Range(dq')
    OBVIOUS
  <2>4. Apart(L, R, Q, U, r)
    BY <2>1, <2>2, <2>3
  <2>5. Apart(L, R, Shorter(Q, d, S), U, Unref(r, S))
    BY <2>4, ApartSent
  <2>6. Ranges(rcvq)' = R /\ Unreads' = U
    BY <2>1, <2>2 DEF Ranges, Unreads, Unread
  <2> QED
    BY <1>8, <1>9, <2>3, <2>5, <2>6, Zenon DEF Linked, Shorter, Unref
<1> QED
  BY <1>3, <1>5, <1>6, <1>10

LEMMA WriteEnded ==
    ASSUME IInv, NEW d \in Dirs, NEW q \in Seq(Packets), NEW r \in [Packets -> Int],
           handle_write_event(d, q, r), UNCHANGED <<given, nin, fin, eof, rcvq>>,
           wrshut[d] = "whole" => \A p \in Range(q) : p \notin Range(Input[d]),
           \A p \in Range(pq'[d]) : p \in Range(q)
    PROVE  Ended'
<1>1. Types /\ Buffered
  BY DEF IInv
<1>2. /\ \A e \in Dirs : e # d =>
            /\ pq'[e] = pq[e] /\ broken'[e] = broken[e]
            /\ rdshut'[e] = rdshut[e] /\ wrshut'[e] = wrshut[e]
      /\ broken[d] => broken'[d]
      /\ rdshut'[d] => rdshut[d] \/ broken'[d]
      /\ wrshut'[d] = "whole" =>
            wrshut[d] = "whole" \/ (eof[d] /\ rcvq[d] = <<>> /\ ~broken[d] /\ pq'[d] = <<>>)
  BY <1>1, WriteFacts
<1>3. ASSUME NEW e \in Dirs
      PROVE  /\ rdshut'[e] => broken'[e]
             /\ eof[e] /\ ~broken'[e] => fin[e] /\ nin[e] = Len(given[e])
             /\ wrshut'[e] = "whole" =>
                   /\ eof[e] /\ fin[e] /\ nin[e] = Len(given[e]) /\ rcvq[e] = <<>>
                   /\ \A p \in Range(pq'[e]) : p \notin Range(Input[e])
  <2>1. /\ rdshut[e] => broken[e]
        /\ eof[e] /\ ~broken[e] => fin[e] /\ nin[e] = Len(given[e])
        /\ wrshut[e] = "whole" =>
              /\ eof[e] /\ fin[e] /\ nin[e] = Len(given[e]) /\ rcvq[e] = <<>>
              /\ \A p \in Range(pq[e]) : p \notin Range(Input[e])
    BY DEF IInv, Ended
  <2>2. CASE e # d
    BY <1>2, <2>1, <2>2
  <2>3. CASE e = d
    <3>1. rdshut'[d] => broken'[d]
      BY <1>2, <2>1, <2>3
    <3>2. eof[d] /\ ~broken'[d] => fin[d] /\ nin[d] = Len(given[d])
      BY <1>2, <2>1, <2>3
    <3>3. ASSUME wrshut'[d] = "whole"
          PROVE  /\ eof[d] /\ fin[d] /\ nin[d] = Len(given[d]) /\ rcvq[d] = <<>>
                 /\ \A p \in Range(pq'[d]) : p \notin Range(Input[d])
      <4>1. CASE wrshut[d] = "whole"
        BY <2>1, <2>3, <4>1
      <4>2. CASE eof[d] /\ rcvq[d] = <<>> /\ ~broken[d] /\ pq'[d] = <<>>
        BY <2>1, <2>3, <4>2, EmptyFacts
      <4> QED
        BY <1>2, <3>3, <4>1, <4>2
    <3> QED
      BY <2>3, <3>1, <3>2, <3>3
  <2> QED
    BY <2>2, <2>3
<1> QED
  BY <1>3 DEF Ended

\* A written pipe is watched if it needs to be, and the other as before.
LEMMA WriteAwake ==
    ASSUME IInv, NEW d \in Dirs, NEW q \in Seq(Packets), NEW r \in [Packets -> Int],
           handle_write_event(d, q, r)
    PROVE  /\ pq'[d] # <<>> /\ ~broken'[d] => outw'[d]
           /\ \A e \in Dirs : e # d => UNCHANGED <<pq[e], broken[e], outw[e]>>
<1>1. Types /\ Buffered
  BY DEF IInv
<1> QED
  BY <1>1, WriteFacts

LEMMA WriteKeeps ==
    ASSUME IInv, NEW d \in Dirs, handle_write_event(d, pq[d], refc),
           UNCHANGED <<given, nin, fin, gone, nout, eof, inw, rcvq, live, dq>>,
           ticking' \subseteq Packets, has_new' \in BOOLEAN,
           pc' \in {"idle", "filter", "other", "check"}, cur' \in Dirs
    PROVE  Types' /\ Buffered' /\ Sent' /\ Single' /\ Linked' /\ Ended'
<1>1. PICK q \in Seq(Packets) : q = pq[d]
  BY DEF IInv, Types
<1>2. PICK r \in [Packets -> Int] : r = refc
  BY DEF IInv, Types
<1>3. handle_write_event(d, q, r)
  BY <1>1, <1>2
<1>4. dq \in Seq(Packets) /\ pq \in [Dirs -> Seq(Packets)]
  BY DEF IInv, Types
<1>5. dq' \in Seq(Packets)
  BY <1>4
<1>6. Types' /\ Buffered' /\ Sent'
  BY <1>3, <1>5, WriteTypes
<1>7. IsInjective(q) /\ IsInjective(dq')
  BY <1>1 DEF IInv, Single
<1>8. PICK Q \in Sets : Q = Ranges(pq)
  BY <1>4, RangesFacts
<1>9. Lists(Q, d, q)
  BY <1>1, <1>8 DEF Ranges, Lists
<1>10. Apart(Range(dq'), Ranges(rcvq), Q, Unreads, r)
  BY <1>2, <1>8 DEF IInv, Linked
<1>11. Single' /\ Linked' /\ \A p \in Range(pq'[d]) : p \in Range(q)
  BY <1>3, <1>7, <1>9, <1>10, WriteLinked
<1>12. wrshut[d] = "whole" => \A p \in Range(q) : p \notin Range(Input[d])
  BY <1>1 DEF IInv, Ended
<1>13. Ended'
  BY <1>3, <1>11, <1>12, WriteEnded
<1> QED
  BY <1>6, <1>11, <1>13

LEMMA WriteOwnIInv == ASSUME IInv, WriteOwn PROVE IInv'
<1>1. /\ pc = "filter" /\ pc' = "other" /\ has_new' = FALSE /\ ticking' = Started
      /\ handle_write_event(cur, pq[cur], refc)
      /\ UNCHANGED <<given, nin, fin, gone, nout, eof, inw, rcvq, live, dq, cur>>
  BY DEF WriteOwn
<1>2. cur \in Dirs /\ dq \in Seq(Packets) /\ pq[cur] \in Seq(Packets) /\ refc \in [Packets -> Int]
  BY DEF IInv, Types
<1>3. ticking' = Range(dq)
  BY <1>1 DEF IInv, Timed, Started
<1>4. ticking' \subseteq Packets /\ has_new' \in BOOLEAN /\ pc' \in {"idle", "filter", "other", "check"} /\ cur' \in Dirs
  BY <1>1, <1>2, <1>3, RangeFacts
<1>5. Types' /\ Buffered' /\ Sent' /\ Single' /\ Linked' /\ Ended'
  BY <1>1, <1>2, <1>4, WriteKeeps
<1>6. Timed'
  BY <1>1, <1>3 DEF Timed
<1>7. Watched'
  <2>1. pq'[cur] # <<>> /\ ~broken'[cur] => outw'[cur]
    BY <1>1, <1>2, WriteAwake
  <2>2. \A e \in Dirs : (eof'[e] => ~inw'[e]) /\ (live' /\ ~eof'[e] => inw'[e])
    BY <1>1 DEF IInv, Watched
  <2> QED
    BY <1>1, <2>1, <2>2 DEF Watched, Awake
<1> QED
  BY <1>5, <1>6, <1>7 DEF IInv

LEMMA WriteOtherIInv == ASSUME IInv, WriteOther PROVE IInv'
<1> DEFINE d == Other(cur)
<1>1. /\ pc = "other" /\ pc' = "check"
      /\ handle_write_event(d, pq[d], refc)
      /\ UNCHANGED <<given, nin, fin, gone, nout, eof, inw, rcvq, live, dq, ticking, has_new, cur>>
  BY DEF WriteOther
<1>2. cur \in Dirs /\ d \in Dirs /\ d # cur /\ \A e \in Dirs : e = d \/ e = cur
  BY DirFacts DEF IInv, Types
<1> HIDE DEF d
<1>3. pq[d] \in Seq(Packets) /\ refc \in [Packets -> Int]
  BY <1>2 DEF IInv, Types
<1>4. ticking' \subseteq Packets /\ has_new' \in BOOLEAN /\ pc' \in {"idle", "filter", "other", "check"} /\ cur' \in Dirs
  BY <1>1 DEF IInv, Types
<1>5. Types' /\ Buffered' /\ Sent' /\ Single' /\ Linked' /\ Ended'
  BY <1>1, <1>2, <1>4, WriteKeeps
<1>6. Timed'
  BY <1>1 DEF IInv, Timed
<1>7. Watched'
  <2>1. /\ pq'[d] # <<>> /\ ~broken'[d] => outw'[d]
        /\ UNCHANGED <<pq[cur], broken[cur], outw[cur]>>
    BY <1>1, <1>2, <1>3, WriteAwake
  <2>2. \A e \in Dirs : (eof'[e] => ~inw'[e]) /\ (live' /\ ~eof'[e] => inw'[e])
    BY <1>1 DEF IInv, Watched
  <2>3. live => Awake(cur)
    BY <1>1 DEF IInv, Watched
  <2>4. live' => \A e \in Dirs : Awake(e)'
    BY <1>1, <1>2, <2>1, <2>3 DEF Awake
  <2> QED
    BY <1>1, <2>2, <2>4 DEF Watched
<1> QED
  BY <1>5, <1>6, <1>7 DEF IInv

LEMMA WriteEventIInv == ASSUME IInv, NEW d \in Dirs, WriteEvent(d) PROVE IInv'
<1>1. /\ pc = "idle" /\ pc' = "check" /\ cur' = d
      /\ handle_write_event(d, pq[d], refc)
      /\ UNCHANGED <<given, nin, fin, gone, nout, eof, inw, rcvq, live, dq, ticking, has_new>>
  BY DEF WriteEvent
<1>2. pq[d] \in Seq(Packets) /\ refc \in [Packets -> Int]
  BY DEF IInv, Types
<1>3. ticking' \subseteq Packets /\ has_new' \in BOOLEAN /\ pc' \in {"idle", "filter", "other", "check"} /\ cur' \in Dirs
  BY <1>1 DEF IInv, Types
<1>4. Types' /\ Buffered' /\ Sent' /\ Single' /\ Linked' /\ Ended'
  BY <1>1, <1>3, WriteKeeps
<1>5. Timed'
  BY <1>1 DEF IInv, Timed
<1>6. Watched'
  <2>1. /\ pq'[d] # <<>> /\ ~broken'[d] => outw'[d]
        /\ \A e \in Dirs : e # d => UNCHANGED <<pq[e], broken[e], outw[e]>>
    BY <1>1, <1>2, WriteAwake
  <2>2. \A e \in Dirs : (eof'[e] => ~inw'[e]) /\ (live' /\ ~eof'[e] => inw'[e])
    BY <1>1 DEF IInv, Watched
  <2>3. live => \A e \in Dirs : Awake(e)
    BY <1>1 DEF IInv, Watched
  <2>4. live' => \A e \in Dirs : Awake(e)'
    BY <1>1, <2>1, <2>3 DEF Awake
  <2> QED
    BY <1>1, <2>2, <2>4 DEF Watched
<1> QED
  BY <1>4, <1>5, <1>6 DEF IInv

LEMMA TimeoutIInv == ASSUME IInv, NEW p \in Packets, timeout_cb(p) PROVE IInv'
<1> DEFINE d == Dir[p]
<1>1. /\ pc = "idle" /\ p \in ticking
      /\ dq' = Select(dq, Packets \ {p})
      /\ ticking' = ticking \ {p}
      /\ handle_write_event(d, Append(pq[d], p), Emitted(p))
      /\ UNCHANGED <<given, nin, fin, gone, nout, eof, inw, rcvq, live, has_new, pc, cur>>
  BY DEF timeout_cb
<1>2. /\ d \in Dirs /\ dq \in Seq(Packets) /\ pq \in [Dirs -> Seq(Packets)] /\ rcvq \in [Dirs -> Seq(Packets)]
      /\ refc \in [Packets -> Int] /\ nin \in [Dirs -> Nat] /\ pq[d] \in Seq(Packets)
      /\ ticking \subseteq Packets /\ has_new \in BOOLEAN /\ cur \in Dirs
  BY SessionAssumption DEF IInv, Types
<1> HIDE DEF d
<1>3. ticking = Range(dq) /\ p \in Range(dq)
  BY <1>1 DEF IInv, Timed
<1>4. Emitted(p) = refc
  <2>1. \A x \in Packets : Emitted(p)[x] = refc[x]
    BY <1>2 DEF Emitted
  <2>2. Emitted(p) = [x \in Packets |-> Emitted(p)[x]] /\ refc = [x \in Packets |-> refc[x]]
    BY <1>2 DEF Emitted
  <2> QED
    BY <2>1, <2>2
<1>5. dq' \in Seq(Packets) /\ IsInjective(dq') /\ Range(dq') = Range(dq) \ {p}
  <2>1. Select(dq, Packets \ {p}) \in Seq(Packets) /\ IsInjective(Select(dq, Packets \ {p}))
        /\ Range(Select(dq, Packets \ {p})) = Range(dq) \cap (Packets \ {p})
    BY <1>2, SelectFacts DEF IInv, Single
  <2>2. Range(dq) \subseteq Packets
    BY <1>2, RangeFacts
  <2> QED
    BY <1>1, <2>1, <2>2
<1>6. Apart(Range(dq), Ranges(rcvq), Ranges(pq), Unreads, refc)
  BY DEF IInv, Linked
<1>7. p \notin Range(pq[d]) /\ \A e \in Dirs : p \notin Range(Input[e])
  <2>1. p \notin Ranges(pq)[d] /\ \A e \in Dirs : p \notin Range(Input[e])
    BY <1>2, <1>3, <1>6 DEF Apart
  <2> QED
    BY <1>2, <2>1 DEF Ranges
<1>8. PICK q \in Seq(Packets) : q = Append(pq[d], p) /\ Range(q) = Range(pq[d]) \cup {p} /\ IsInjective(q)
  <2>1. IsInjective(pq[d])
    BY <1>2 DEF IInv, Single
  <2> QED
    BY <1>2, <1>7, <2>1, AppendFacts
<1>9. PICK r \in [Packets -> Int] : r = refc
  BY <1>2
<1>10. handle_write_event(d, q, r)
  BY <1>1, <1>4, <1>8, <1>9
<1>11. PICK Q \in Sets : Lists(Q, d, q) /\ Apart(Range(dq'), Ranges(rcvq), Q, Unreads, r)
  <2>1. PICK R \in Sets : R = Ranges(rcvq)
    BY <1>2, RangesFacts
  <2>2. PICK Q0 \in Sets : Q0 = Ranges(pq)
    BY <1>2, RangesFacts
  <2>3. PICK U \in Sets : U = Unreads
    BY <1>2, UnreadFacts
  <2>4. PICK L : L = Range(dq)
    OBVIOUS
  <2>5. Apart(L, R, Q0, U, r) /\ p \in L
    BY <1>3, <1>6, <1>9, <2>1, <2>2, <2>3, <2>4
  <2>6. Apart(L \ {p}, R, Longer(Q0, d, p), U, r)
    BY <1>2, <2>5, ApartEmitted
  <2>7. Longer(Q0, d, p) \in Sets /\ Lists(Longer(Q0, d, p), d, q)
    <3>1. \A e \in Dirs : Q0[e] = Range(pq[e])
      BY <2>2 DEF Ranges
    <3>2. Longer(Q0, d, p) \in Sets
      BY <1>2 DEF Longer, Sets
    <3>3. Longer(Q0, d, p)[d] = Q0[d] \cup {p} /\ \A e \in Dirs : e # d => Longer(Q0, d, p)[e] = Q0[e]
      BY <1>2 DEF Longer, Sets
    <3> QED
      BY <1>2, <1>8, <3>1, <3>2, <3>3 DEF Lists
  <2>8. Range(dq') = L \ {p}
    BY <1>5, <2>4
  <2>9. Apart(Range(dq'), Ranges(rcvq), Longer(Q0, d, p), Unreads, r)
    BY <2>1, <2>3, <2>6, <2>8, Zenon
  <2> QED
    BY <2>7, <2>9
<1>12. Single' /\ Linked' /\ \A x \in Range(pq'[d]) : x \in Range(q)
  BY <1>1, <1>2, <1>5, <1>8, <1>10, <1>11, WriteLinked
<1>13. Types' /\ Buffered' /\ Sent'
  <2>1. ticking' \subseteq Packets /\ has_new' \in BOOLEAN /\ pc' \in {"idle", "filter", "other", "check"} /\ cur' \in Dirs
    BY <1>1, <1>2
  <2> QED
    BY <1>1, <1>2, <1>5, <1>10, <2>1, WriteTypes
<1>14. Ended'
  <2>1. wrshut[d] = "whole" => \A x \in Range(q) : x \notin Range(Input[d])
    BY <1>2, <1>7, <1>8 DEF IInv, Ended
  <2> QED
    BY <1>1, <1>2, <1>10, <1>12, <2>1, WriteEnded
<1>15. Timed'
  BY <1>1, <1>3, <1>5 DEF Timed
<1>16. Watched'
  <2>1. /\ pq'[d] # <<>> /\ ~broken'[d] => outw'[d]
        /\ \A e \in Dirs : e # d => UNCHANGED <<pq[e], broken[e], outw[e]>>
    BY <1>2, <1>10, WriteAwake
  <2>2. \A e \in Dirs : (eof'[e] => ~inw'[e]) /\ (live' /\ ~eof'[e] => inw'[e])
    BY <1>1 DEF IInv, Watched
  <2>3. live => \A e \in Dirs : Awake(e)
    BY <1>1 DEF IInv, Watched
  <2>4. live' => \A e \in Dirs : Awake(e)'
    BY <1>1, <2>1, <2>3 DEF Awake
  <2> QED
    BY <1>1, <2>2, <2>4 DEF Watched
<1> QED
  BY <1>12, <1>13, <1>14, <1>15, <1>16 DEF IInv
-----------------------------------------------------------------------------
(* The end of a callback, and of the session.                              *)

Occurs(s, p) == Cardinality({i \in 1 .. Len(s) : s[i] = p})

LEMMA OccursFacts ==
    ASSUME NEW s \in Seq(Packets), IsInjective(s), NEW p
    PROVE  Occurs(s, p) = IF p \in Range(s) THEN 1 ELSE 0
<1> DEFINE I == {i \in 1 .. Len(s) : s[i] = p}
<1>1. CASE p \in Range(s)
  <2>1. PICK i \in 1 .. Len(s) : s[i] = p
    BY <1>1, RangeFacts
  <2>2. \A j \in 1 .. Len(s) : s[j] = p => j = i
    BY <2>1, RangeFacts
  <2>3. I = {i}
    BY <2>1, <2>2
  <2> QED
    BY <1>1, <2>3, FS_Singleton DEF Occurs
<1>2. CASE p \notin Range(s)
  <2>1. I = {}
    BY <1>2, RangeFacts
  <2> QED
    BY <1>2, <2>1, FS_EmptySet DEF Occurs
<1> QED
  BY <1>1, <1>2

\* A packet is in one list at most, and its reference count says so.
LEMMA HoldersFacts ==
    ASSUME IInv, NEW p \in Packets
    PROVE  refc[p] = Holders(p) /\ Holders(p) \in {0, 1}
<1> DEFINE C == CLI_TO_SRV
           S == SRV_TO_CLI
<1>1. C \in Dirs /\ S \in Dirs /\ C # S /\ \A d \in Dirs : d = C \/ d = S
  BY DEF Dirs, CLI_TO_SRV, SRV_TO_CLI
<1>2. dq \in Seq(Packets) /\ rcvq \in [Dirs -> Seq(Packets)] /\ pq \in [Dirs -> Seq(Packets)]
  BY DEF IInv, Types
<1>3. IsInjective(dq) /\ \A d \in Dirs : IsInjective(rcvq[d]) /\ IsInjective(pq[d])
  BY DEF IInv, Single
<1>4. Holders(p) = Occurs(dq, p) + Occurs(rcvq[C], p) + Occurs(rcvq[S], p) + Occurs(pq[C], p) + Occurs(pq[S], p)
  BY DEF Holders, Occurs
<1> HIDE DEF C, S
<1>5. /\ Occurs(dq, p) = IF p \in Range(dq) THEN 1 ELSE 0
      /\ \A d \in Dirs : /\ Occurs(rcvq[d], p) = IF p \in Range(rcvq[d]) THEN 1 ELSE 0
                         /\ Occurs(pq[d], p) = IF p \in Range(pq[d]) THEN 1 ELSE 0
  BY <1>2, <1>3, OccursFacts
<1>6. \A d \in Dirs : Ranges(rcvq)[d] = Range(rcvq[d]) /\ Ranges(pq)[d] = Range(pq[d])
  BY DEF Ranges
<1>7. Apart(Range(dq), Ranges(rcvq), Ranges(pq), Unreads, refc)
  BY DEF IInv, Linked
<1>8. /\ \A d \in Dirs : p \in Range(rcvq[d]) => p \in Range(Input[d])
      /\ p \in Range(dq) => \A d \in Dirs : p \notin Range(Input[d]) /\ p \notin Range(pq[d])
      /\ \A d, e \in Dirs : p \in Range(pq[d]) => p \notin Range(rcvq[e]) /\ (d # e => p \notin Range(pq[e]))
  BY <1>6, <1>7 DEF Apart
<1>9. \A d, e \in Dirs : d # e /\ p \in Range(Input[d]) => p \notin Range(Input[e])
  BY InputsApart
<1>10. refc[p] = IF p \in Range(dq) \/ \E d \in Dirs : p \in Range(rcvq[d]) \/ p \in Range(pq[d]) THEN 1 ELSE 0
  BY <1>6, <1>7 DEF Apart, InList
<1>11. CASE p \in Range(dq)
  BY <1>1, <1>4, <1>5, <1>8, <1>10, <1>11
<1>12. CASE p \notin Range(dq) /\ \E d \in Dirs : p \in Range(rcvq[d])
  <2>1. PICK d \in Dirs : p \in Range(rcvq[d])
    BY <1>12
  <2>2. /\ \A e \in Dirs : e # d => p \notin Range(rcvq[e])
        /\ \A e \in Dirs : p \notin Range(pq[e])
    BY <1>8, <1>9, <2>1
  <2> QED
    BY <1>1, <1>4, <1>5, <1>10, <1>12, <2>1, <2>2
<1>13. CASE p \notin Range(dq) /\ \A d \in Dirs : p \notin Range(rcvq[d])
  BY <1>1, <1>4, <1>5, <1>8, <1>10, <1>13
<1> QED
  BY <1>11, <1>12, <1>13

LEMMA CheckIInv == ASSUME IInv, Check PROVE IInv'
<1>1. /\ pc = "check" /\ pc' = "idle"
      /\ UNCHANGED <<given, nin, fin, gone, wire, nout, rdshut, wrshut, has_new, cur>>
  BY DEF Check, world
<1>2. ticking = Range(dq)
  BY <1>1 DEF IInv, Timed
<1>3. CASE done
  <2>1. /\ live' = FALSE /\ inw' = Everywhere(FALSE) /\ outw' = Everywhere(FALSE)
        /\ rcvq' = Everywhere(<<>>) /\ pq' = Everywhere(<<>>) /\ win' = Everywhere(<<>>)
        /\ dq' = <<>> /\ ticking' = {}
        /\ refc' = [p \in Packets |-> refc[p] - Holders(p)]
        /\ UNCHANGED <<eof, broken>>
    BY <1>3, Zenon DEF Check
  <2>2. \A x : \A d \in Dirs : Everywhere(x)[d] = x
    BY DEF Everywhere
  <2>3. \A d \in Dirs : rcvq'[d] = <<>> /\ pq'[d] = <<>>
    BY <2>1, <2>2, Zenon
  <2>4. \A d \in Dirs : ~inw'[d]
    BY <2>1, <2>2, Zenon
  <2>5. \A p \in Packets : refc'[p] = 0
    <3>1. \A p \in Packets : refc[p] = Holders(p) /\ Holders(p) \in {0, 1}
      BY HoldersFacts
    <3>2. \A p \in Packets : refc'[p] = refc[p] - Holders(p)
      BY <2>1, Zenon
    <3> QED
      BY <3>1, <3>2
  <2>6. refc' \in [Packets -> Int]
    <3>1. DOMAIN refc' = Packets /\ refc' = [p \in DOMAIN refc' |-> refc'[p]]
      BY <2>1
    <3> QED
      BY <2>5, <3>1
  <2>7. Types'
    <3>1. \A V : \A x \in V : Everywhere(x) \in [Dirs -> V]
      BY DEF Everywhere
    <3>2. rcvq' \in [Dirs -> Seq(Packets)] /\ pq' \in [Dirs -> Seq(Packets)] /\ win' \in [Dirs -> Seq(Packets)] /\ dq' \in Seq(Packets)
      BY <2>1, <3>1, EmptyFacts, Zenon
    <3>3. inw' \in [Dirs -> BOOLEAN] /\ outw' \in [Dirs -> BOOLEAN] /\ live' \in BOOLEAN
      BY <2>1, <3>1, Zenon
    <3>4. ticking' \subseteq Packets
      BY <2>1
    <3> QED
      BY <1>1, <2>1, <2>6, <3>2, <3>3, <3>4 DEF IInv, Types
  <2>8. Buffered' /\ Sent'
    BY <1>1 DEF IInv, Buffered, Sent
  <2>9. Single'
    BY <2>1, <2>3, EmptyFacts DEF Single
  <2>10. Linked'
    <3>1. \A d \in Dirs : Ranges(rcvq)'[d] = {} /\ Ranges(pq)'[d] = {}
      BY <2>3, EmptyFacts DEF Ranges
    <3>2. Range(dq') = {}
      BY <2>1, EmptyFacts
    <3>3. \A d \in Dirs : \A p \in Unreads'[d] : p \in Range(Input[d])
      <4>1. \A d \in Dirs : \A p \in Unread(d) : p \in Range(Input[d])
        BY UnreadFacts DEF IInv, Types
      <4> QED
        BY <1>1, <4>1 DEF Unreads, Unread
    <3>4. PICK L, R, Q, U, r : L = Range(dq') /\ R = Ranges(rcvq') /\ Q = Ranges(pq') /\ U = Unreads' /\ r = refc'
      OBVIOUS
    <3>5. L = {} /\ (\A d \in Dirs : R[d] = {} /\ Q[d] = {}) /\ \A d \in Dirs : \A p \in U[d] : p \in Range(Input[d])
      BY <3>1, <3>2, <3>3, <3>4
    <3>6. \A p \in Packets : r[p] = 0
      BY <2>5, <3>4
    <3>7. Apart(L, R, Q, U, r)
      BY <3>5, <3>6 DEF Apart, InList, Unmade
    <3> QED
      BY <3>4, <3>7, Zenon DEF Linked
  <2>11. Timed'
    BY <2>1, EmptyFacts DEF Timed
  <2>12. Watched'
    BY <2>1, <2>4 DEF Watched
  <2>13. Ended'
    BY <1>1, <2>1, <2>3, EmptyFacts DEF IInv, Ended
  <2> QED
    BY <2>7, <2>8, <2>9, <2>10, <2>11, <2>12, <2>13 DEF IInv
<1>4. CASE ~done
  <2>1. UNCHANGED <<live, eof, broken, inw, outw, rcvq, pq, win, dq, ticking, refc>>
    BY <1>4 DEF Check, pipes
  <2>2. Types'
    BY <1>1, <2>1 DEF IInv, Types
  <2>3. Buffered' /\ Sent' /\ Single' /\ Ended'
    BY <1>1, <2>1 DEF IInv, Buffered, Sent, Single, Ended
  <2>4. Linked'
    BY <1>1, <2>1 DEF IInv, Linked, Ranges, Unreads, Unread
  <2>5. Timed' /\ Watched'
    BY <1>1, <1>2, <2>1 DEF IInv, Timed, Watched, Awake
  <2> QED
    BY <2>2, <2>3, <2>4, <2>5 DEF IInv
<1> QED
  BY <1>3, <1>4

LEMMA StutterIInv == ASSUME IInv, UNCHANGED vars PROVE IInv'
<1>1. UNCHANGED <<given, nin, fin, gone, wire, nout, rdshut, wrshut, eof, broken, inw, outw, rcvq, pq, win,
                  live, dq, ticking, has_new, refc, pc, cur>>
  BY DEF vars, world, pipes
<1>2. Types'
  BY <1>1 DEF IInv, Types
<1>3. Buffered' /\ Sent' /\ Ended'
  BY <1>1 DEF IInv, Buffered, Sent, Ended
<1>4. Single' /\ Linked' /\ Timed' /\ Watched'
  BY <1>1, WorldKeeps
<1> QED
  BY <1>2, <1>3, <1>4 DEF IInv

LEMMA NextIInv == IInv /\ [Next]_vars => IInv'
<1> SUFFICES ASSUME IInv, [Next]_vars PROVE IInv'
  OBVIOUS
<1>1. CASE World
  BY <1>1, WorldIInv
<1>2. CASE \E d \in Dirs : ReadEvent(d) \/ WriteEvent(d)
  BY <1>2, ReadIInv, WriteEventIInv
<1>3. CASE filter
  BY <1>3, FilterIInv
<1>4. CASE WriteOwn
  BY <1>4, WriteOwnIInv
<1>5. CASE WriteOther
  BY <1>5, WriteOtherIInv
<1>6. CASE Check
  BY <1>6, CheckIInv
<1>7. CASE \E p \in Packets : timeout_cb(p)
  BY <1>7, TimeoutIInv
<1>8. CASE UNCHANGED vars
  BY <1>8, StutterIInv
<1> QED
  BY <1>1, <1>2, <1>3, <1>4, <1>5, <1>6, <1>7, <1>8 DEF Next, Callback
-----------------------------------------------------------------------------
(* The theorems.                                                           *)

\* In every reachable state a packet is where its history says, timers and
\* watchers are as the callbacks leave them, and a stream ends when it may.
THEOREM SpecIInv == Spec => []IInv
<1>1. Init => IInv
  BY InitIInv
<1>2. IInv /\ [Next]_vars => IInv'
  BY NextIInv
<1> QED
  BY <1>1, <1>2, PTL DEF Spec

\* Every variable keeps its type; no reference count of pkt_unref goes below 0.
THEOREM SpecTypeOK == Spec => []TypeOK
<1>1. IInv => TypeOK
  <2> SUFFICES ASSUME IInv PROVE TypeOK
    OBVIOUS
  <2>1. \A p \in Packets : refc[p] \in Nat
    BY HoldersFacts
  <2>2. refc \in [Packets -> Nat]
    <3>1. refc \in [Packets -> Int]
      BY DEF IInv, Types
    <3> QED
      BY <2>1, <3>1
  <2>3. Types
    BY DEF IInv
  <2> QED
    BY <2>2, <2>3, Zenon DEF Types, TypeOK
<1> QED
  BY <1>1, SpecIInv, PTL

\* Between callbacks everything that waits has an event that will continue it:
\* handle_write_event leaves the write watcher active while the kernel has not
\* taken everything, and delayed_queue::start runs a timer for every new packet.
THEOREM SpecNoLostWakeup == Spec => []NoLostWakeup
<1>1. IInv => NoLostWakeup
  BY DEF IInv, Timed, Watched, Awake, NoLostWakeup
<1> QED
  BY <1>1, SpecIInv, PTL

\* A packet is in one list at most and has one reference for it: pkt_unref frees
\* it when it leaves its last list and not before.
THEOREM SpecOneHolder == Spec => []OneHolder
<1>1. IInv => OneHolder
  <2> SUFFICES ASSUME IInv, NEW p \in Packets PROVE refc[p] = Holders(p) /\ Holders(p) <= 1
    BY DEF OneHolder
  <2>1. refc[p] = Holders(p) /\ Holders(p) \in {0, 1}
    BY HoldersFacts
  <2> QED
    BY <2>1
<1> QED
  BY <1>1, SpecIInv, PTL

\* handle_write_event calls shutdown(SHUT_WR) on a whole stream only when nothing
\* of it is left to read, to filter or to send.
THEOREM SpecHalfCloseLast == Spec => []HalfCloseLast
<1>1. IInv => HalfCloseLast
  <2> SUFFICES ASSUME IInv, NEW d \in Dirs, wrshut[d] = "whole"
               PROVE  nin[d] = Len(given[d]) /\ Range(given[d]) \cap Range(rcvq[d] \o pq[d]) = {}
    BY DEF HalfCloseLast
  <2>1. /\ nin[d] = Len(given[d]) /\ rcvq[d] = <<>>
        /\ \A p \in Range(pq[d]) : p \notin Range(Input[d])
    BY DEF IInv, Ended
  <2>2. given[d] \in Seq(Packets) /\ rcvq[d] \in Seq(Packets) /\ pq[d] \in Seq(Packets) /\ Input[d] \in Seq(Packets)
    BY SessionAssumption DEF IInv, Types
  <2>3. Range(rcvq[d] \o pq[d]) = Range(pq[d])
    BY <2>1, <2>2, ConcatFacts, EmptyFacts
  <2>4. \A p \in Range(given[d]) : p \in Range(Input[d])
    <3>1. /\ Len(given[d]) <= Len(Input[d]) /\ Len(given[d]) \in Nat /\ Len(Input[d]) \in Nat
          /\ \A i \in 1 .. Len(given[d]) : given[d][i] = Input[d][i]
      BY <2>2 DEF IInv, Sent
    <3>2. \A p : p \in Range(given[d]) <=> \E i \in 1 .. Len(given[d]) : given[d][i] = p
      BY <2>2, RangeFacts
    <3>3. \A p : p \in Range(Input[d]) <=> \E i \in 1 .. Len(Input[d]) : Input[d][i] = p
      BY <2>2, RangeFacts
    <3>4. \A i \in 1 .. Len(given[d]) : i \in 1 .. Len(Input[d])
      BY <3>1
    <3> QED
      BY <3>1, <3>2, <3>3, <3>4
  <2> QED
    BY <2>1, <2>3, <2>4
<1> QED
  BY <1>1, SpecIInv, PTL

\* Only a timer leaves a session behind whose pipes are done: the callbacks of
\* the sockets look at rf_session::done before they return.
THEOREM SpecOrphanedByTimerOnly == Spec => OrphanedByTimerOnly
<1>1. IInv /\ [Next]_vars => [~Abandoned /\ Abandoned' => \E p \in ticking : ticking' = ticking \ {p}]_vars
  <2> SUFFICES ASSUME IInv, Next, ~Abandoned, Abandoned' PROVE \E p \in ticking : ticking' = ticking \ {p}
    OBVIOUS
  <2>1. /\ live' /\ pc' = "idle"
        /\ \A d \in Dirs : broken'[d] \/ (eof'[d] /\ rcvq'[d] \o pq'[d] = <<>>)
    BY DEF Abandoned
  <2>2. CASE World
    <3>1. UNCHANGED <<live, pc, pipes>>
      BY <2>2 DEF World, PeerSend, PeerRead, PeerShutdown, PeerGone
    <3> QED
      BY <3>1 DEF Abandoned, pipes
  <2>3. CASE Check
    <3>1. ~done /\ UNCHANGED <<broken, eof, rcvq, pq>>
      BY <2>1, <2>3 DEF Check, pipes
    <3>2. PICK d \in Dirs : ~pipe_done(d)
      BY <3>1 DEF done
    <3>3. rcvq[d] \o pq[d] = <<>> => rcvq[d] = <<>> /\ pq[d] = <<>>
      <4>1. PICK s, t \in Seq(Packets) : s = rcvq[d] /\ t = pq[d]
        BY DEF IInv, Types
      <4>2. s \o t = <<>> => s = <<>> /\ t = <<>>
        <5>1. Len(s \o t) = Len(s) + Len(t) /\ Len(s) \in Nat /\ Len(t) \in Nat
          OBVIOUS
        <5>2. s \o t = <<>> => Len(s \o t) = 0
          OBVIOUS
        <5>3. s \o t = <<>> => Len(s) = 0 /\ Len(t) = 0
          BY <5>1, <5>2
        <5> QED
          BY <5>3
      <4> QED
        BY <4>1, <4>2
    <3> QED
      BY <2>1, <3>1, <3>2, <3>3 DEF pipe_done
  <2>4. CASE \E p \in Packets : timeout_cb(p)
    BY <2>4 DEF timeout_cb
  <2>5. CASE filter \/ WriteOwn \/ WriteOther \/ \E d \in Dirs : ReadEvent(d) \/ WriteEvent(d)
    <3>1. pc' # "idle"
      BY <2>5, ZenonT(60) DEF filter, WriteOwn, WriteOther, ReadEvent, WriteEvent
    <3> QED
      BY <2>1, <3>1, SMTT(60)
  <2> QED
    BY <2>2, <2>3, <2>4, <2>5 DEF Next, Callback
<1>2. Spec => [][Next]_vars
  BY PTL DEF Spec
<1> QED
  BY <1>1, <1>2, SpecIInv, PTL DEF OrphanedByTimerOnly
-----------------------------------------------------------------------------
(* Without a delayed packet no session is left behind.                     *)

\* Between callbacks everything that was read is filtered, and unless a timer ran
\* a session that still exists has a pipe that is not done.
Filtering == \A d \in Dirs : rcvq[d] # <<>> => pc = "filter" /\ d = cur
Undone == live /\ pc = "idle" => ~done

LEMMA NextFiltering == ASSUME IInv, Filtering, [Next]_vars PROVE Filtering'
<1>0. /\ rcvq \in [Dirs -> Seq(Packets)] /\ cur \in Dirs
  BY DEF IInv, Types
<1>1. CASE World \/ UNCHANGED vars
  <2>1. UNCHANGED <<pc, cur, rcvq>>
    BY <1>1 DEF World, PeerSend, PeerRead, PeerShutdown, PeerGone, vars, pipes
  <2> QED
    BY <2>1 DEF Filtering
<1>2. CASE filter
  <2>1. pc' = "filter" /\ cur' = cur /\ rcvq' = For(rcvq, cur, Tail(rcvq[cur]))
    BY <1>2 DEF filter
  <2> QED
    BY <1>0, <2>1 DEF Filtering, For
<1>3. ASSUME NEW d \in Dirs, ReadEvent(d) PROVE Filtering'
  <2>1. pc = "idle" /\ pc' = "filter" /\ cur' = d /\ \A e \in Dirs : e # d => rcvq'[e] = rcvq[e]
    BY <1>0, <1>3 DEF ReadEvent, handle_read_event, For
  <2> QED
    BY <2>1 DEF Filtering
<1>4. CASE WriteOwn
  <2>1. UNCHANGED <<rcvq, cur>> /\ rcvq[cur] = <<>>
    BY <1>4, Zenon DEF WriteOwn
  <2> QED
    BY <2>1 DEF Filtering
<1>5. CASE WriteOther \/ (\E d \in Dirs : WriteEvent(d)) \/ \E p \in Packets : timeout_cb(p)
  <2>1. UNCHANGED rcvq /\ pc # "filter"
    BY <1>5, ZenonT(60) DEF WriteOther, WriteEvent, timeout_cb
  <2> QED
    BY <2>1 DEF Filtering
<1>6. CASE Check
  <2>1. pc # "filter" /\ (rcvq' = rcvq \/ rcvq' = Everywhere(<<>>))
    BY <1>6 DEF Check, pipes
  <2> QED
    BY <2>1 DEF Filtering, Everywhere
<1> QED
  BY <1>1, <1>2, <1>3, <1>4, <1>5, <1>6 DEF Next, Callback

LEMMA NextUndone == ASSUME IInv, Undone, dq = <<>>, [Next]_vars PROVE Undone'
<1>1. CASE World \/ UNCHANGED vars
  <2>1. UNCHANGED <<live, pc, broken, eof, rcvq, pq>>
    BY <1>1 DEF World, PeerSend, PeerRead, PeerShutdown, PeerGone, vars, pipes
  <2> QED
    BY <2>1 DEF Undone, done, pipe_done
<1>2. CASE Check
  <2>1. live' => ~done /\ UNCHANGED <<broken, eof, rcvq, pq>>
    BY <1>2 DEF Check, pipes
  <2> QED
    BY <2>1 DEF Undone, done, pipe_done
<1>3. CASE \E p \in Packets : timeout_cb(p)
  <2>1. pc = "idle" /\ \E p \in Packets : p \in ticking
    BY <1>3, Zenon DEF timeout_cb
  <2>2. ticking = {}
    BY <2>1, EmptyFacts DEF IInv, Timed
  <2> QED
    BY <2>1, <2>2
<1>4. CASE filter \/ WriteOwn \/ WriteOther \/ \E d \in Dirs : ReadEvent(d) \/ WriteEvent(d)
  <2>1. pc' # "idle"
    BY <1>4, ZenonT(60) DEF filter, WriteOwn, WriteOther, ReadEvent, WriteEvent
  <2> QED
    BY <2>1 DEF Undone
<1> QED
  BY <1>1, <1>2, <1>3, <1>4 DEF Next, Callback

\* As long as the delayed queue is empty every session that exists can still be
\* called and is not done: cli_io_cb and srv_io_cb look at rf_session::done before
\* they return, and timeout_cb, which does not, never runs.
THEOREM SpecNoOrphan == Spec /\ [](dq = <<>>) => []NoOrphan
<1>1. Init => Filtering /\ Undone
  BY DirFacts DEF Init, Everywhere, Filtering, Undone, done, pipe_done
<1>2. IInv /\ Filtering /\ Undone /\ dq = <<>> /\ [Next]_vars => Filtering' /\ Undone'
  BY NextFiltering, NextUndone
<1>3. IInv /\ Filtering /\ Undone => NoOrphan
  <2> SUFFICES ASSUME IInv, Filtering, Undone, live, pc = "idle"
               PROVE  /\ \E d \in Dirs : ~(broken[d] \/ (eof[d] /\ pq[d] = <<>>))
                      /\ ticking # {} \/ \E d \in Dirs : inw[d] \/ outw[d]
    BY DEF NoOrphan
  <2>1. \A d \in Dirs : rcvq[d] = <<>>
    BY DEF Filtering
  <2>2. PICK d \in Dirs : ~broken[d] /\ ~(eof[d] /\ pq[d] = <<>>)
    BY <2>1 DEF Undone, done, pipe_done
  <2>3. inw[d] \/ outw[d]
    BY <2>2 DEF IInv, Watched, Awake
  <2> QED
    BY <2>2, <2>3
<1> QED
  BY <1>1, <1>2, <1>3, SpecIInv, PTL DEF Spec
-----------------------------------------------------------------------------
(* What is selected from one list behind another.                          *)

Cat(s, t) == s \o t

LEMMA CatFacts ==
    ASSUME NEW s \in Seq(Packets), NEW t \in Seq(Packets)
    PROVE  /\ Cat(s, t) \in Seq(Packets) /\ Len(Cat(s, t)) = Len(s) + Len(t)
           /\ \A i \in 1 .. Len(s) : Cat(s, t)[i] = s[i]
           /\ \A i \in 1 .. Len(t) : Cat(s, t)[i + Len(s)] = t[i]
BY DEF Cat

LEMMA SameSeq ==
    ASSUME NEW s \in Seq(Packets), NEW t \in Seq(Packets), Len(s) = Len(t), \A i \in 1 .. Len(s) : s[i] = t[i]
    PROVE  s = t
OBVIOUS

LEMMA CatAssoc ==
    ASSUME NEW s \in Seq(Packets), NEW t \in Seq(Packets), NEW u \in Seq(Packets)
    PROVE  Cat(Cat(s, t), u) = Cat(s, Cat(t, u))
BY DEF Cat

LEMMA CatEmpty == ASSUME NEW s \in Seq(Packets) PROVE Cat(s, <<>>) = s /\ Cat(<<>>, s) = s
BY DEF Cat

LEMMA CatAppend ==
    ASSUME NEW s \in Seq(Packets), NEW t \in Seq(Packets), NEW x \in Packets
    PROVE  Cat(s, Append(t, x)) = Append(Cat(s, t), x)
BY DEF Cat

\* Cutting a list and joining it again.
LEMMA CatCut ==
    ASSUME NEW s \in Seq(Packets), NEW n \in 0 .. Len(s)
    PROVE  Cat(First(s, n), After(s, n)) = s
<1>1. /\ n \in Int /\ n \in Nat /\ Len(s) \in Nat /\ n <= Len(s) /\ ~(n < 0)
  OBVIOUS
<1>2. PICK f \in Seq(Packets) : f = First(s, n) /\ Len(f) = n /\ \A i \in 1 .. n : f[i] = s[i]
  BY <1>1, FirstFacts
<1>3. PICK a \in Seq(Packets) : a = After(s, n) /\ Len(a) = Len(s) - n /\ \A i \in 1 .. Len(s) - n : a[i] = s[i + n]
  BY <1>1, AfterFacts
<1>4. PICK c \in Seq(Packets) :
          /\ c = Cat(f, a) /\ Len(c) = Len(f) + Len(a)
          /\ \A i \in 1 .. Len(f) : c[i] = f[i]
          /\ \A i \in 1 .. Len(a) : c[i + Len(f)] = a[i]
  BY CatFacts
<1>5. Len(c) = Len(s)
  BY <1>1, <1>2, <1>3, <1>4
<1>6. ASSUME NEW i \in 1 .. Len(c) PROVE c[i] = s[i]
  <2>1. CASE i <= n
    BY <1>1, <1>2, <1>4, <1>5, <2>1
  <2>2. CASE ~(i <= n)
    <3>1. PICK j \in 1 .. Len(s) - n : j = i - n /\ i = j + n
      BY <1>1, <1>5, <2>2
    <3>2. c[j + Len(f)] = a[j] /\ a[j] = s[j + n]
      BY <1>3, <1>4, <3>1
    <3> QED
      BY <1>2, <3>1, <3>2
  <2> QED
    BY <2>1, <2>2
<1> QED
  BY <1>2, <1>3, <1>4, <1>5, <1>6, SameSeq

LEMMA SelectEmpty == ASSUME NEW S PROVE Select(<<>>, S) = <<>>
<1>0. PICK s \in Seq(Packets) : s = <<>>
  BY EmptyFacts, Zenon
<1>1. s = <<>> /\ Len(s) = 0
  BY <1>0
<1>2. Picked(s, S)[0] = <<>>
  <2>1. 0 \in 0 .. Len(s)
    BY <1>1
  <2> QED
    BY <2>1, PickedDef
<1> QED
  BY <1>1, <1>2 DEF Select

LEMMA SelectAppend ==
    ASSUME NEW s \in Seq(Packets), NEW x \in Packets, NEW S
    PROVE  Select(Append(s, x), S) = Pick(Select(s, S), x, S)
<1> DEFINE t == Append(s, x)
           f == Picked(s, S)
           g == Picked(t, S)
           G == {n \in Nat : n <= Len(s) => g[n] = f[n]}
<1>1. t \in Seq(Packets) /\ Len(t) = Len(s) + 1 /\ Len(s) \in Nat /\ t[Len(s) + 1] = x /\ \A i \in 1 .. Len(s) : t[i] = s[i]
  OBVIOUS
<1> HIDE DEF t
<1>2. \A i \in 0 .. Len(s) : f[i] = IF i = 0 THEN <<>> ELSE Pick(f[i - 1], s[i], S)
  BY PickedDef
<1>3. \A i \in 0 .. Len(t) : g[i] = IF i = 0 THEN <<>> ELSE Pick(g[i - 1], t[i], S)
  BY <1>1, PickedDef
<1> HIDE DEF f, g
<1>4. 0 \in G
  BY <1>1, <1>2, <1>3
<1>5. ASSUME NEW n \in Nat, n \in G PROVE n + 1 \in G
  <2> SUFFICES ASSUME n + 1 <= Len(s) PROVE g[n + 1] = f[n + 1]
    OBVIOUS
  <2>1. n + 1 \in 1 .. Len(s) /\ n + 1 \in 0 .. Len(s) /\ n + 1 \in 0 .. Len(t) /\ (n + 1) - 1 = n /\ n + 1 # 0 /\ n <= Len(s)
    BY <1>1
  <2>2. f[n + 1] = Pick(f[n], s[n + 1], S) /\ g[n + 1] = Pick(g[n], t[n + 1], S)
    BY <1>2, <1>3, <2>1
  <2>3. g[n] = f[n] /\ t[n + 1] = s[n + 1]
    BY <1>1, <1>5, <2>1
  <2> QED
    BY <2>2, <2>3
<1>6. g[Len(s)] = f[Len(s)]
  <2>1. Len(s) \in G
    <3> HIDE DEF G
    <3> QED
      BY <1>1, <1>4, <1>5, NatInd
  <2> QED
    BY <1>1, <2>1
<1>7. g[Len(s) + 1] = Pick(g[Len(s)], t[Len(s) + 1], S)
  <2>1. Len(s) + 1 \in 0 .. Len(t) /\ (Len(s) + 1) - 1 = Len(s) /\ Len(s) + 1 # 0
    BY <1>1
  <2> QED
    BY <1>3, <2>1
<1>8. g[Len(t)] = Pick(f[Len(s)], x, S)
  BY <1>1, <1>6, <1>7
<1> QED
  BY <1>8, Zenon DEF Select, f, g, t

\* The selection from a list behind another is the one selection behind the other.
LEMMA SelectCat ==
    ASSUME NEW s \in Seq(Packets), NEW t \in Seq(Packets), NEW S
    PROVE  Select(Cat(s, t), S) = Cat(Select(s, S), Select(t, S))
<1> DEFINE Splits(u) == Select(Cat(s, u), S) = Cat(Select(s, S), Select(u, S))
           G == {n \in Nat : \A u \in Seq(Packets) : Len(u) = n => Splits(u)}
<1>1. Select(s, S) \in Seq(Packets)
  BY SelectFacts
<1>2. 0 \in G
  <2>1. Splits(<<>>)
    BY <1>1, CatEmpty, SelectEmpty
  <2>2. \A u \in Seq(Packets) : Len(u) = 0 => u = <<>>
    OBVIOUS
  <2> HIDE DEF Splits
  <2> QED
    BY <2>1, <2>2
<1>3. ASSUME NEW n \in Nat, n \in G PROVE n + 1 \in G
  <2> SUFFICES ASSUME NEW u \in Seq(Packets), Len(u) = n + 1 PROVE Splits(u)
    OBVIOUS
  <2>1. PICK v \in Seq(Packets), x \in Packets : u = Append(v, x) /\ Len(v) = n
    <3>1. SubSeq(u, 1, n) \in Seq(Packets) /\ u[n + 1] \in Packets /\ Len(SubSeq(u, 1, n)) = n
          /\ u = Append(SubSeq(u, 1, n), u[n + 1])
      OBVIOUS
    <3> QED
      BY <3>1
  <2>2. Select(Cat(s, v), S) = Cat(Select(s, S), Select(v, S))
    BY <1>3, <2>1
  <2>3. PICK a, b, c \in Seq(Packets) : a = Select(s, S) /\ b = Select(v, S) /\ c = Cat(s, v)
    BY <2>1, SelectFacts, CatFacts
  <2>4. Select(u, S) = Pick(b, x, S) /\ Select(Cat(s, u), S) = Pick(Cat(a, b), x, S)
    <3>1. Select(u, S) = Pick(b, x, S)
      BY <2>1, <2>3, SelectAppend
    <3>2. Cat(s, u) = Append(c, x)
      BY <2>1, <2>3, CatAppend
    <3>3. Select(Append(c, x), S) = Pick(Select(c, S), x, S)
      BY SelectAppend
    <3> QED
      BY <2>2, <2>3, <3>1, <3>2, <3>3
  <2>5. Pick(Cat(a, b), x, S) = Cat(a, Pick(b, x, S))
    BY CatAppend DEF Pick
  <2> QED
    BY <2>3, <2>4, <2>5
<1>4. Len(t) \in G
  <2>1. Len(t) \in Nat
    OBVIOUS
  <2> HIDE DEF G
  <2> QED
    BY <1>2, <1>3, <2>1, NatInd
<1> QED
  BY <1>4

\* What none or all of is selected.
LEMMA SelectNone ==
    ASSUME NEW s \in Seq(Packets), NEW S, \A x \in Range(s) : x \notin S
    PROVE  Select(s, S) = <<>>
<1>1. PICK t \in Seq(Packets) : t = Select(s, S) /\ Range(t) = Range(s) \cap S
  BY SelectFacts
<1>2. Range(t) = {}
  BY <1>1
<1> QED
  BY <1>1, <1>2, RangeFacts

LEMMA SelectOne ==
    ASSUME NEW x \in Packets, NEW S
    PROVE  Select(<<x>>, S) = IF x \in S THEN <<x>> ELSE <<>>
<1>0. PICK e \in Seq(Packets) : e = <<>>
  BY EmptyFacts, Zenon
<1>1. Append(e, x) = <<x>>
  BY <1>0
<1>2. Select(Append(e, x), S) = Pick(Select(e, S), x, S)
  BY SelectAppend
<1> QED
  BY <1>0, <1>1, <1>2, SelectEmpty DEF Pick
-----------------------------------------------------------------------------
(* While the window is the front of the list.                              *)

\* The front of a list is still its front when a packet is appended.
LEMMA FirstAppend ==
    ASSUME NEW q \in Seq(Packets), NEW w \in Seq(Packets), w = First(q, Len(w)), NEW x \in Packets
    PROVE  w = First(Append(q, x), Len(w))
<1>1. Len(w) \in Nat /\ Len(w) \in Int /\ ~(Len(w) < 0) /\ Len(q) \in Nat
  OBVIOUS
<1>2. /\ Append(q, x) \in Seq(Packets) /\ Len(Append(q, x)) = Len(q) + 1
      /\ \A i \in 1 .. Len(q) : Append(q, x)[i] = q[i]
  OBVIOUS
<1> DEFINE t == Append(q, x)
<1> HIDE DEF t
<1>3. Len(w) <= Len(q) /\ \A i \in 1 .. Len(w) : w[i] = q[i]
  BY <1>1, FirstFacts
<1>4. PICK f \in Seq(Packets) : f = First(t, Len(w)) /\ Len(f) = Len(w) /\ \A i \in 1 .. Len(f) : f[i] = t[i]
  <2>1. t \in Seq(Packets) /\ Len(w) <= Len(t)
    BY <1>1, <1>2, <1>3 DEF t
  <2> QED
    BY <1>1, <2>1, FirstFacts
<1>5. \A i \in 1 .. Len(w) : i \in 1 .. Len(q)
  BY <1>1, <1>3
<1>6. w = f
  BY <1>2, <1>3, <1>4, <1>5, SameSeq DEF t
<1> QED
  BY <1>4, <1>6 DEF t

\* Then the entries sendq::send writes are the packets of the list.
LEMMA AlignedEntries ==
    ASSUME NEW q \in Seq(Packets), NEW v \in Seq(Packets), v = First(q, Len(v))
    PROVE  Entries(Window(v, q), q) = q
<1>1. PICK w \in Seq(Packets), n \in 0 .. Len(q) : w = Window(v, q) /\ w = First(q, n) /\ Len(w) = n
  <2>1. CASE v = <<>>
    <3>1. WRIVCNT \in Nat /\ WRIVCNT \in Int /\ ~(WRIVCNT < 0) /\ Len(q) \in Nat
      BY SessionAssumption
    <3>2. PICK f \in Seq(Packets) : f = First(q, WRIVCNT) /\ Len(f) = IF WRIVCNT <= Len(q) THEN WRIVCNT ELSE Len(q)
      BY <3>1, FirstFacts
    <3>3. Len(f) \in 0 .. Len(q) /\ Smaller(WRIVCNT, Len(q)) = Len(f) /\ Smaller(Len(f), Len(q)) = Len(f)
      BY <3>1, <3>2 DEF Smaller
    <3>4. f = First(q, Len(f))
      BY <3>2, <3>3 DEF First
    <3> QED
      BY <2>1, <3>2, <3>3, <3>4 DEF Window
  <2>2. CASE v # <<>>
    <3>1. Len(v) \in Nat /\ Len(v) \in Int /\ ~(Len(v) < 0) /\ Len(q) \in Nat
      OBVIOUS
    <3>2. Len(v) <= Len(q)
      BY <3>1, FirstFacts
    <3> QED
      BY <2>2, <3>1, <3>2 DEF Window
  <2> QED
    BY <2>1, <2>2
<1>2. Entries(w, q) = Cat(First(q, n), After(q, n))
  BY <1>1 DEF Entries, Cat
<1> QED
  BY <1>1, <1>2, CatCut

\* handle_write_event moves the first n packets of the list to the wire.
LEMMA AlignedWrite ==
    ASSUME Types, Buffered, NEW d \in Dirs, NEW q \in Seq(Packets),
           WriteFails(d) \/ win[d] = First(q, Len(win[d])),
           NEW r \in [Packets -> Int], handle_write_event(d, q, r)
    PROVE  \E n \in 0 .. Len(q) :
              /\ wire' = For(wire, d, Cat(wire[d], First(q, n)))
              /\ pq' = For(pq, d, After(q, n))
              /\ refc' = [p \in Packets |-> IF p \in Range(First(q, n)) THEN r[p] - 1 ELSE r[p]]
              /\ wrshut[d] # "no" => n = 0 /\ wrshut'[d] = wrshut[d]
<1> DEFINE w == IF win[d] = <<>> THEN First(q, WRIVCNT) ELSE win[d]
           entries == w \o After(q, Len(w))
           n == IF WriteFails(d) THEN 0 ELSE Smaller(Room(d), Len(q))
<1>1. /\ wire' = For(wire, d, wire[d] \o First(entries, n))
      /\ pq' = For(pq, d, After(q, n))
      /\ refc' = [p \in Packets |-> IF p \in Range(First(q, n)) THEN r[p] - 1 ELSE r[p]]
  BY Zenon DEF handle_write_event
<1>2. entries = Entries(Window(win[d], q), q) /\ win[d] \in Seq(Packets)
  BY Zenon DEF Entries, Window, Types
<1>3. n \in 0 .. Len(q)
  <2>1. /\ wire[d] \in Seq(Packets) /\ nout[d] \in Nat /\ Len(q) \in Nat
        /\ nout[d] <= Len(wire[d]) /\ Len(wire[d]) <= nout[d] + SNDBUF /\ SNDBUF \in Nat
    BY SessionAssumption DEF Types, Buffered
  <2> QED
    BY <2>1 DEF Smaller, Room
<1>4. wrshut[d] # "no" => n = 0 /\ wrshut'[d] = wrshut[d]
  <2>1. \E t, x : wrshut' = For(wrshut, d, IF wrshut[d] # "no" \/ ~Ends(d, t) THEN wrshut[d] ELSE x)
    BY Zenon DEF handle_write_event
  <2> QED
    BY <2>1 DEF WriteFails, For, Types
<1>5. WriteFails(d) => n = 0
  OBVIOUS
<1> HIDE DEF w, entries, n
<1>6. First(entries, n) = First(q, n)
  <2>1. CASE win[d] = First(q, Len(win[d]))
    <3>1. entries = q
      BY <1>2, <2>1, AlignedEntries
    <3> QED
      BY <3>1
  <2>2. CASE WriteFails(d)
    <3>1. n = 0
      BY <1>5, <2>2
    <3>2. ASSUME NEW s \in Seq(Packets) PROVE First(s, 0) = <<>>
      <4>1. First(s, 0) \in Seq(Packets) /\ Len(First(s, 0)) = 0
        BY FirstFacts
      <4> QED
        BY <4>1
    <3>3. WRIVCNT \in Int
      BY SessionAssumption
    <3>4. Window(win[d], q) \in Seq(Packets)
      BY <1>2, <3>3, FirstFacts DEF Window
    <3>5. entries \in Seq(Packets)
      BY <1>2, <3>4, EntriesFacts
    <3> QED
      BY <3>1, <3>2, <3>5
  <2> QED
    BY <2>1, <2>2
<1>7. wire' = For(wire, d, Cat(wire[d], First(q, n)))
  BY <1>1, <1>6, Zenon DEF Cat
<1> QED
  BY <1>1, <1>3, <1>4, <1>7

\* What is in the delayed queue was injected, and a deleted session has nothing
\* that calls it.
Later == \A p \in Range(dq) : \E x \in Packets : p \in Injected(x)
Dead == ~live => pc = "idle" /\ ticking = {} /\ \A d \in Dirs : ~inw[d] /\ ~outw[d]

\* What filter does to the lists.
Feeds(p, pre, post) ==
    /\ rcvq[cur] = Cat(<<p>>, Tail(rcvq[cur])) /\ p \in Range(rcvq[cur])
    /\ rcvq' = For(rcvq, cur, Tail(rcvq[cur])) /\ Tail(rcvq[cur]) \in Seq(Packets)
    /\ \A d \in Dirs :
          /\ pre[d] \in Seq(Packets) /\ post[d] \in Seq(Packets)
          /\ \A x \in Range(pre[d]) \cup Range(post[d]) : x \in Injected(p)
          /\ pq'[d] = Joined(pq[d], pre[d], IF d = cur /\ ~Drop[p] THEN <<p>> ELSE <<>>, post[d])
    /\ \A x \in Range(dq') : x \in Range(dq) \/ x \in Injected(p)

LEMMA FilterFeeds == ASSUME IInv, filter PROVE \E p \in Packets : \E pre, post : Feeds(p, pre, post)
<1> DEFINE p == Head(rcvq[cur])
           pre == [d \in Dirs |-> Taken(Pre[p], d, Len(win[d]))]
           post == [d \in Dirs |-> Taken(Post[p], d, Len(win[d]) + Len(pre[d]))]
           itself == [d \in Dirs |-> IF d = cur /\ ~Drop[p] THEN <<p>> ELSE <<>>]
           later == Untaken(Pre[p], pre) \o Untaken(Post[p], post)
<1>1. /\ rcvq[cur] # <<>>
      /\ rcvq' = For(rcvq, cur, Tail(rcvq[cur]))
      /\ pq' = [d \in Dirs |-> pq[d] \o pre[d] \o itself[d] \o post[d]]
      /\ dq' = dq \o later
  BY ZenonT(60) DEF filter
<1>2. /\ rcvq[cur] \in Seq(Packets) /\ IsInjective(rcvq[cur]) /\ cur \in Dirs
      /\ win \in [Dirs -> Seq(Packets)] /\ dq \in Seq(Packets)
  BY DEF IInv, Types, Single
<1>3. p \in Range(rcvq[cur]) /\ p \in Packets /\ Tail(rcvq[cur]) \in Seq(Packets)
  BY <1>1, <1>2, TailFacts
<1>4. rcvq[cur] = Cat(<<p>>, Tail(rcvq[cur]))
  <2>1. \A s \in Seq(Packets) : s # <<>> => s = <<Head(s)>> \o Tail(s)
    OBVIOUS
  <2> QED
    BY <1>1, <1>2, <2>1 DEF Cat
<1> HIDE DEF p
<1>5. Pre[p] \in Seq(Packets) /\ Post[p] \in Seq(Packets) /\ IsInjective(Pre[p]) /\ IsInjective(Post[p])
  BY <1>3, SessionAssumption, IdentityAssumption
<1>6. Takes(pre, Pre[p])
  <2>1. \A d \in Dirs : pre[d] = Taken(Pre[p], d, Len(win[d])) /\ Len(win[d]) \in Nat
    BY <1>2
  <2> QED
    BY <2>1 DEF Takes
<1>7. \A d \in Dirs : pre[d] \in Seq(Packets)
  <2> HIDE DEF pre
  <2> QED
    BY <1>5, <1>6, TakesFacts
<1>8. Takes(post, Post[p])
  <2>1. \A d \in Dirs : Len(win[d]) + Len(pre[d]) \in Nat
    BY <1>2, <1>7
  <2> HIDE DEF pre
  <2>2. \A d \in Dirs : post[d] = Taken(Post[p], d, Len(win[d]) + Len(pre[d]))
    OBVIOUS
  <2> HIDE DEF post
  <2> QED
    BY <2>1, <2>2 DEF Takes
<1>9. later = Left(p, pre, post)
  BY Zenon DEF Left
<1>10. \A d \in Dirs : pq'[d] = Joined(pq[d], pre[d], IF d = cur /\ ~Drop[p] THEN <<p>> ELSE <<>>, post[d])
  <2>1. \A d \in Dirs : itself[d] = IF d = cur /\ ~Drop[p] THEN <<p>> ELSE <<>>
    OBVIOUS
  <2> HIDE DEF pre, post, itself
  <2>2. \A d \in Dirs : pq'[d] = pq[d] \o pre[d] \o itself[d] \o post[d]
    BY <1>1, Zenon
  <2> QED
    BY <2>1, <2>2, Zenon DEF Joined
<1> HIDE DEF pre, post, later
<1>11. Shared(p, pre, post, later)
  BY <1>3, <1>6, <1>8, <1>9, InjectedFacts
<1>12. \A d \in Dirs : /\ pre[d] \in Seq(Packets) /\ post[d] \in Seq(Packets)
                       /\ \A x \in Range(pre[d]) \cup Range(post[d]) : x \in Injected(p)
  BY <1>11 DEF Shared
<1>13. \A x \in Range(dq') : x \in Range(dq) \/ x \in Injected(p)
  <2>1. later \in Seq(Packets) /\ \A x \in Range(later) : x \in Injected(p)
    BY <1>11 DEF Shared
  <2>2. Range(dq') = Range(dq) \cup Range(later)
    BY <1>1, <1>2, <2>1, ConcatFacts
  <2> QED
    BY <2>1, <2>2
<1> QED
  BY <1>1, <1>3, <1>4, <1>10, <1>12, <1>13, ZenonT(60) DEF Feeds

LEMMA NextLaterDead == ASSUME IInv, Later, Dead, [Next]_vars PROVE Later' /\ Dead'
<1>0. live \in BOOLEAN /\ dq \in Seq(Packets) /\ inw \in [Dirs -> BOOLEAN] /\ outw \in [Dirs -> BOOLEAN]
  BY DEF IInv, Types
<1>1. CASE World \/ UNCHANGED vars
  <2>1. UNCHANGED <<live, pc, dq, ticking, inw, outw>>
    BY <1>1 DEF World, PeerSend, PeerRead, PeerShutdown, PeerGone, vars, pipes
  <2> QED
    BY <2>1 DEF Later, Dead
<1>2. CASE filter
  <2>1. pc = "filter" /\ live' = live
    BY <1>2 DEF filter
  <2>2. Later'
    BY <1>2, FilterFeeds DEF Feeds, Later
  <2> QED
    BY <2>1, <2>2 DEF Dead
<1>3. ASSUME NEW d \in Dirs, ReadEvent(d) \/ WriteEvent(d) PROVE Later' /\ Dead'
  <2>1. UNCHANGED <<live, dq>> /\ (inw[d] \/ outw[d])
    BY <1>3, Zenon DEF ReadEvent, WriteEvent
  <2> QED
    BY <1>3, <2>1 DEF Later, Dead
<1>4. CASE WriteOwn \/ WriteOther
  <2>1. UNCHANGED <<live, dq>> /\ pc # "idle"
    BY <1>4, Zenon DEF WriteOwn, WriteOther
  <2> QED
    BY <2>1 DEF Later, Dead
<1>5. CASE Check
  <2>1. pc = "check" /\ (dq' = dq \/ dq' = <<>>)
    BY <1>5 DEF Check
  <2>2. Later'
    BY <2>1, EmptyFacts DEF Later
  <2>3. ~live' => pc' = "idle" /\ ticking' = {} /\ inw' = Everywhere(FALSE) /\ outw' = Everywhere(FALSE)
    <3>1. live
      BY <2>1 DEF Dead
    <3>2. CASE done
      BY <1>5, <3>2 DEF Check
    <3>3. CASE ~done
      BY <1>5, <3>1, <3>3 DEF Check
    <3> QED
      BY <3>2, <3>3
  <2> QED
    BY <2>2, <2>3 DEF Dead, Everywhere
<1>6. ASSUME NEW p \in Packets, timeout_cb(p) PROVE Later' /\ Dead'
  <2>1. p \in ticking /\ live' = live /\ dq' = Select(dq, Packets \ {p})
    BY <1>6, Zenon DEF timeout_cb
  <2>2. Range(dq') \subseteq Range(dq)
    BY <1>0, <2>1, SelectFacts
  <2> QED
    BY <2>1, <2>2 DEF Later, Dead
<1> QED
  BY <1>1, <1>2, <1>3, <1>4, <1>5, <1>6 DEF Next, Callback

\* A step that writes pipe d moves the first n packets of q, which is its list or
\* that list and a packet of the delayed queue, to the wire.
Queue(d, q) ==
    \/ q = pq[d] /\ dq' = dq
    \/ \E p \in Range(dq) : q = Append(pq[d], p) /\ Range(dq') = Range(dq) \ {p}
Sends(d, q, n) ==
    /\ n \in 0 .. Len(q)
    /\ wire' = For(wire, d, Cat(wire[d], First(q, n))) /\ pq' = For(pq, d, After(q, n))
    /\ \A p \in Packets : refc'[p] = IF p \in Range(First(q, n)) THEN refc[p] - 1 ELSE refc[p]
    /\ UNCHANGED <<given, nin, fin, rcvq, live>>
Shuts(d, n) ==
    /\ wrshut' \in [Dirs -> {"no", "whole", "broken"}]
    /\ \A e \in Dirs : e # d => wrshut'[e] = wrshut[e]
    /\ wrshut[d] # "no" => n = 0 /\ wrshut'[d] = wrshut[d]
    /\ wrshut'[d] = "whole" =>
          wrshut[d] = "whole" \/ (eof[d] /\ rcvq[d] = <<>> /\ ~broken[d] /\ pq'[d] = <<>>)

LEMMA QueueSends ==
    ASSUME Types, Buffered, Aligned, NEW d \in Dirs, NEW q \in Seq(Packets), Queue(d, q),
           NEW r, r = refc, handle_write_event(d, q, r), UNCHANGED <<given, nin, fin, rcvq, live>>
    PROVE  \E n : Sends(d, q, n) /\ Shuts(d, n)
<1>1. pq[d] \in Seq(Packets) /\ win[d] \in Seq(Packets) /\ dq \in Seq(Packets) /\ r \in [Packets -> Int]
  BY DEF Types
<1>2. WriteFails(d) \/ win[d] = First(q, Len(win[d]))
  <2> SUFFICES ASSUME ~WriteFails(d) PROVE win[d] = First(q, Len(win[d]))
    OBVIOUS
  <2>1. win[d] = First(pq[d], Len(win[d]))
    BY DEF Aligned
  <2>2. Range(dq) \subseteq Packets
    BY <1>1, RangeFacts
  <2>3. CASE q = pq[d]
    BY <2>1, <2>3
  <2>4. ASSUME NEW p \in Range(dq), q = Append(pq[d], p) PROVE win[d] = First(q, Len(win[d]))
    <3>1. p \in Packets
      BY <2>2
    <3>2. win[d] = First(Append(pq[d], p), Len(win[d]))
      BY <1>1, <2>1, <3>1, FirstAppend
    <3> QED
      BY <2>4, <3>2
  <2> QED
    BY <2>3, <2>4 DEF Queue
<1>3. PICK n \in 0 .. Len(q) :
          /\ wire' = For(wire, d, Cat(wire[d], First(q, n)))
          /\ pq' = For(pq, d, After(q, n))
          /\ refc' = [p \in Packets |-> IF p \in Range(First(q, n)) THEN r[p] - 1 ELSE r[p]]
          /\ wrshut[d] # "no" => n = 0 /\ wrshut'[d] = wrshut[d]
  BY <1>1, <1>2, AlignedWrite
<1>4. Shuts(d, n)
  <2>1. /\ wrshut' \in [Dirs -> {"no", "whole", "broken"}]
        /\ \A e \in Dirs : e # d => wrshut'[e] = wrshut[e]
        /\ wrshut'[d] = "whole" =>
              wrshut[d] = "whole" \/ (eof[d] /\ rcvq[d] = <<>> /\ ~broken[d] /\ pq'[d] = <<>>)
    BY <1>1, WriteFacts
  <2> QED
    BY <1>3, <2>1 DEF Shuts
<1>5. Sends(d, q, n)
  BY <1>3 DEF Sends
<1> QED
  BY <1>4, <1>5

Writing == WriteOwn \/ WriteOther \/ (\E d \in Dirs : WriteEvent(d)) \/ \E p \in Packets : timeout_cb(p)

LEMMA WritingSends ==
    ASSUME IInv, Dead, Aligned, Writing
    PROVE  live /\ \E d \in Dirs : \E q \in Seq(Packets) : \E n : Queue(d, q) /\ Sends(d, q, n) /\ Shuts(d, n)
<1>1. /\ Types /\ Buffered /\ cur \in Dirs /\ pq \in [Dirs -> Seq(Packets)] /\ dq \in Seq(Packets)
      /\ Other(cur) \in Dirs /\ refc \in [Packets -> Int]
  BY DirFacts DEF IInv, Types
<1>2. CASE WriteOwn
  <2>1. pc = "filter" /\ handle_write_event(cur, pq[cur], refc) /\ UNCHANGED <<given, nin, fin, rcvq, live, dq>>
    BY <1>2, Zenon DEF WriteOwn
  <2>2. Queue(cur, pq[cur])
    BY <2>1 DEF Queue
  <2> QED
    BY <1>1, <2>1, <2>2, QueueSends DEF Dead
<1>3. CASE WriteOther
  <2> DEFINE d == Other(cur)
  <2>1. pc = "other" /\ handle_write_event(d, pq[d], refc) /\ UNCHANGED <<given, nin, fin, rcvq, live, dq>>
    BY <1>3, Zenon DEF WriteOther
  <2> HIDE DEF d
  <2>2. Queue(d, pq[d]) /\ d \in Dirs
    BY <1>1, <2>1 DEF Queue, d
  <2> QED
    BY <1>1, <2>1, <2>2, QueueSends DEF Dead
<1>4. ASSUME NEW d \in Dirs, WriteEvent(d)
      PROVE  live /\ \E q \in Seq(Packets) : \E n : Queue(d, q) /\ Sends(d, q, n) /\ Shuts(d, n)
  <2>1. outw[d] /\ handle_write_event(d, pq[d], refc) /\ UNCHANGED <<given, nin, fin, rcvq, live, dq>>
    BY <1>4, Zenon DEF WriteEvent
  <2>2. Queue(d, pq[d])
    BY <2>1 DEF Queue
  <2> QED
    BY <1>1, <2>1, <2>2, QueueSends DEF Dead
<1>5. ASSUME NEW p \in Packets, timeout_cb(p)
      PROVE  live /\ \E d \in Dirs : \E q \in Seq(Packets) : \E n : Queue(d, q) /\ Sends(d, q, n) /\ Shuts(d, n)
  <2>1. /\ pc = "idle" /\ p \in ticking /\ dq' = Select(dq, Packets \ {p})
        /\ handle_write_event(Dir[p], Append(pq[Dir[p]], p), Emitted(p))
        /\ UNCHANGED <<given, nin, fin, rcvq, live>>
    BY <1>5, Zenon DEF timeout_cb
  <2>2a. PICK d \in Dirs, q \in Seq(Packets) : \E r : d = Dir[p] /\ q = Append(pq[d], p) /\ r = Emitted(p)
    <3>1. Dir[p] \in Dirs
      BY SessionAssumption
    <3>2. Append(pq[Dir[p]], p) \in Seq(Packets)
      BY <1>1, <3>1
    <3> QED
      BY <3>1, <3>2
  <2>2. PICK r : d \in Dirs /\ q \in Seq(Packets) /\ d = Dir[p] /\ q = Append(pq[d], p) /\ r = Emitted(p)
    BY <2>2a
  <2>3. r = refc
    BY <1>1, <2>2 DEF Emitted
  <2>4. p \in Range(dq)
    BY <2>1 DEF IInv, Timed
  <2>5. Range(dq') = Range(dq) \ {p}
    <3>1. Range(dq') = Range(dq) \cap (Packets \ {p}) /\ Range(dq) \subseteq Packets
      BY <1>1, <2>1, SelectFacts, RangeFacts
    <3> QED
      BY <3>1
  <2>6. Queue(d, q)
    BY <2>2, <2>4, <2>5 DEF Queue
  <2>7. handle_write_event(d, q, r)
    BY <2>1, <2>2
  <2> QED
    BY <1>1, <2>1, <2>3, <2>6, <2>7, QueueSends DEF Dead
<1> QED
  BY <1>2, <1>3, <1>4, <1>5 DEF Writing

\* What is on the wire and in the list of a pipe, without what was injected, and
\* what of the packets read is kept, are what is kept of all that was read; and what
\* is on the wire is the front of it.
Through(d) == Cat(wire[d], pq[d])
Arrived(d) == Kept(First(given[d], nin[d]))
Flow == live => \A d \in Dirs : Cat(Relayed(Through(d)), Kept(rcvq[d])) = Arrived(d)
Ahead == \A d \in Dirs : \E rest \in Seq(Packets) : Arrived(d) = Cat(Relayed(wire[d]), rest)

LEMMA KeptFacts ==
    ASSUME NEW s \in Seq(Packets), NEW t \in Seq(Packets)
    PROVE  /\ Kept(s) \in Seq(Packets) /\ Relayed(s) \in Seq(Packets)
           /\ Kept(Cat(s, t)) = Cat(Kept(s), Kept(t)) /\ Relayed(Cat(s, t)) = Cat(Relayed(s), Relayed(t))
BY SelectFacts, SelectCat DEF Kept, Relayed

\* Nothing of what is injected is relayed.
LEMMA RelayedInjected ==
    ASSUME NEW s \in Seq(Packets), \A p \in Range(s) : \E x \in Packets : p \in Injected(x)
    PROVE  Relayed(s) = <<>>
<1> DEFINE S == {p \in Packets : \A x \in Packets : p \notin Injected(x)}
<1>1. \A p \in Range(s) : p \notin S
  OBVIOUS
<1> HIDE DEF S
<1>2. Select(s, S) = <<>>
  BY <1>1, SelectNone
<1> QED
  BY <1>2 DEF Relayed, S

\* A packet read is relayed if it is kept.
LEMMA RelayedItself ==
    ASSUME NEW p \in Packets, NEW d \in Dirs, p \in Range(Input[d])
    PROVE  Relayed(IF ~Drop[p] THEN <<p>> ELSE <<>>) = Kept(<<p>>)
<1>1. \A x \in Packets : p \notin Injected(x)
  BY InputsApart
<1>2. Drop[p] \in BOOLEAN
  BY SessionAssumption
<1>3. CASE Drop[p]
  BY <1>3, SelectOne, SelectEmpty DEF Relayed, Kept
<1>4. CASE ~Drop[p]
  BY <1>1, <1>4, SelectOne DEF Relayed, Kept
<1> QED
  BY <1>2, <1>3, <1>4

LEMMA InitFlow == Init => Flow /\ Ahead
<1> SUFFICES ASSUME Init PROVE Flow /\ Ahead
  OBVIOUS
<1>1. \A d \in Dirs : given[d] = <<>> /\ nin[d] = 0 /\ wire[d] = <<>> /\ rcvq[d] = <<>> /\ pq[d] = <<>>
  BY Zenon DEF Init, Everywhere
<1>2. PICK e \in Seq(Packets) : e = <<>>
  BY EmptyFacts, Zenon
<1>3. First(e, 0) = e /\ Cat(e, e) = e /\ Kept(e) = e /\ Relayed(e) = e
  <2>1. First(e, 0) = e
    BY <1>2 DEF First, Smaller
  <2> QED
    BY <1>2, <2>1, CatEmpty, SelectEmpty DEF Kept, Relayed
<1> QED
  BY <1>1, <1>2, <1>3 DEF Flow, Ahead, Through, Arrived

\* While a session exists, what is on the wire is the front of what arrived.
LEMMA FlowAhead == ASSUME Types, live, Flow PROVE Ahead
<1> SUFFICES ASSUME NEW d \in Dirs PROVE \E rest \in Seq(Packets) : Arrived(d) = Cat(Relayed(wire[d]), rest)
  BY DEF Ahead
<1>1. PICK w, q, t \in Seq(Packets) : w = wire[d] /\ q = pq[d] /\ t = rcvq[d]
  BY DEF Types
<1>2. Arrived(d) = Cat(Relayed(Cat(w, q)), Kept(t))
  BY <1>1 DEF Flow, Through
<1>3. PICK a, b, c \in Seq(Packets) : a = Relayed(w) /\ b = Relayed(q) /\ c = Kept(t) /\ Relayed(Cat(w, q)) = Cat(a, b)
  BY KeptFacts
<1>4. Arrived(d) = Cat(a, Cat(b, c)) /\ Cat(b, c) \in Seq(Packets)
  BY <1>2, <1>3, CatAssoc, CatFacts
<1> QED
  BY <1>1, <1>3, <1>4

\* Writing a pipe changes nothing of what is on the wire and in its list.
LEMMA SendsThrough ==
    ASSUME Types, NEW d \in Dirs, NEW q \in Seq(Packets), NEW n, Sends(d, q, n)
    PROVE  /\ Through(d)' = Cat(wire[d], q)
           /\ \A e \in Dirs : e # d => Through(e)' = Through(e) /\ wire'[e] = wire[e]
           /\ wire'[d] = Cat(wire[d], First(q, n)) /\ pq'[d] = After(q, n)
           /\ wire' \in [Dirs -> Seq(Packets)] /\ pq' \in [Dirs -> Seq(Packets)]
<1>1. PICK w, f, a \in Seq(Packets) : w = wire[d] /\ f = First(q, n) /\ a = After(q, n) /\ Cat(f, a) = q
  <2>1. n \in Int /\ n \in Nat
    BY DEF Sends
  <2> QED
    BY <2>1, FirstFacts, AfterFacts, CatCut DEF Types, Sends
<1>2. wire' = For(wire, d, Cat(w, f)) /\ pq' = For(pq, d, a)
  BY <1>1 DEF Sends
<1>0. wire \in [Dirs -> Seq(Packets)] /\ pq \in [Dirs -> Seq(Packets)]
  BY DEF Types
<1>3. PICK x \in Seq(Packets) : x = Cat(w, f) /\ Cat(x, a) = Cat(w, q)
  <2>1. Cat(w, f) \in Seq(Packets)
    BY CatFacts
  <2>2. Cat(Cat(w, f), a) = Cat(w, Cat(f, a))
    BY CatAssoc
  <2> QED
    BY <1>1, <2>1, <2>2
<1>4. wire' \in [Dirs -> Seq(Packets)] /\ wire'[d] = x /\ \A e \in Dirs : e # d => wire'[e] = wire[e]
  <2>1. wire' = For(wire, d, x)
    BY <1>2, <1>3
  <2> QED
    BY <1>0, <2>1 DEF For
<1>5. pq' \in [Dirs -> Seq(Packets)] /\ pq'[d] = a /\ \A e \in Dirs : e # d => pq'[e] = pq[e]
  <2>1. pq' = For(pq, d, a)
    BY <1>2
  <2> QED
    BY <1>0, <2>1 DEF For
<1> QED
  BY <1>1, <1>3, <1>4, <1>5 DEF Through

LEMMA WritingFlow ==
    ASSUME Types, Later, Flow, NEW d \in Dirs, NEW q \in Seq(Packets), NEW n, Queue(d, q), Sends(d, q, n)
    PROVE  Flow'
<1>1. PICK w, v \in Seq(Packets) : w = wire[d] /\ v = pq[d] /\ Cat(w, v) \in Seq(Packets)
  BY CatFacts DEF Types
<1>2. Relayed(Cat(w, q)) = Relayed(Cat(w, v))
  <2>1. CASE q = v
    BY <2>1
  <2>2. ASSUME NEW p \in Range(dq), q = Append(v, p) PROVE Relayed(Cat(w, q)) = Relayed(Cat(w, v))
    <3>1. p \in Packets /\ \E x \in Packets : p \in Injected(x)
      BY RangeFacts DEF Types, Later
    <3> DEFINE S == {y \in Packets : \A x \in Packets : y \notin Injected(x)}
    <3>2. p \notin S
      BY <3>1
    <3> HIDE DEF S
    <3>3. Cat(w, q) = Append(Cat(w, v), p)
      BY <2>2, <3>1, CatAppend
    <3>4. Select(Append(Cat(w, v), p), S) = Pick(Select(Cat(w, v), S), p, S)
      BY <1>1, <3>1, SelectAppend
    <3> QED
      BY <3>2, <3>3, <3>4 DEF Relayed, Pick, S
  <2> QED
    BY <1>1, <2>1, <2>2 DEF Queue
<1>3. \A e \in Dirs : Relayed(Through(e)') = Relayed(Through(e))
  BY <1>1, <1>2, SendsThrough, ZenonT(60) DEF Through
<1>4. \A e \in Dirs : Relayed(Through(e))' = Relayed(Through(e)')
  BY DEF Relayed
<1>5. UNCHANGED <<given, nin, rcvq, live>>
  BY DEF Sends
<1>6. \A e \in Dirs : Kept(rcvq[e])' = Kept(rcvq[e]) /\ Arrived(e)' = Arrived(e)
  BY <1>5 DEF Kept, Arrived
<1> QED
  BY <1>3, <1>4, <1>5, <1>6 DEF Flow

\* What filter adds to the lists was injected, but for the packet it takes.
LEMMA FilterFlow == ASSUME IInv, Flow, filter PROVE Flow'
<1> SUFFICES ASSUME live, NEW d \in Dirs PROVE Cat(Relayed(Through(d)), Kept(rcvq[d]))' = Arrived(d)
  <2>1. UNCHANGED <<live, given, nin>>
    BY DEF filter, world
  <2>2. \A d \in Dirs : Arrived(d)' = Arrived(d)
    BY <2>1 DEF Arrived, Kept
  <2> QED
    BY <2>1, <2>2 DEF Flow
<1>1a. PICK p \in Packets : \E pre, post : Feeds(p, pre, post)
  BY FilterFeeds
<1>1. PICK pre, post : p \in Packets /\ Feeds(p, pre, post)
  BY <1>1a
<1>2. PICK w, q, t, u \in Seq(Packets) : w = wire[d] /\ q = pq[d] /\ t = rcvq[d] /\ u = rcvq'[d]
  <2>1. rcvq'[d] \in Seq(Packets)
    BY <1>1 DEF Feeds, For, IInv, Types
  <2> QED
    BY <2>1, SMTT(60) DEF IInv, Types
<1>3. wire' = wire
  BY DEF filter, world
<1>4. PICK a, b, i \in Seq(Packets) :
          /\ a = pre[d] /\ b = post[d] /\ i = IF d = cur /\ ~Drop[p] THEN <<p>> ELSE <<>>
          /\ pq'[d] = Joined(q, a, i, b) /\ Relayed(a) = <<>> /\ Relayed(b) = <<>>
  <2>1. /\ pre[d] \in Seq(Packets) /\ post[d] \in Seq(Packets)
        /\ \A x \in Range(pre[d]) \cup Range(post[d]) : x \in Injected(p)
        /\ pq'[d] = Joined(pq[d], pre[d], IF d = cur /\ ~Drop[p] THEN <<p>> ELSE <<>>, post[d])
    BY <1>1, Zenon DEF Feeds
  <2>2. Relayed(pre[d]) = <<>> /\ Relayed(post[d]) = <<>>
    BY <2>1, RelayedInjected
  <2>3. (IF d = cur /\ ~Drop[p] THEN <<p>> ELSE <<>>) \in Seq(Packets)
    OBVIOUS
  <2> QED
    BY <1>2, <2>1, <2>2, <2>3
<1>5. Relayed(Cat(w, Joined(q, a, i, b))) = Cat(Relayed(Cat(w, q)), Relayed(i))
  <2>1. PICK v \in Seq(Packets) : v = Cat(w, q)
    BY CatFacts
  <2>2. Cat(w, Joined(q, a, i, b)) = Cat(Cat(Cat(v, a), i), b)
    <3>1. PICK x \in Seq(Packets) : x = Cat(q, a)
      BY CatFacts
    <3>2. PICK y \in Seq(Packets) : y = Cat(x, i)
      BY CatFacts
    <3>3. Joined(q, a, i, b) = Cat(y, b)
      BY <3>1, <3>2, Zenon DEF Joined, Cat
    <3>4. Cat(w, Cat(y, b)) = Cat(Cat(w, y), b)
      BY CatAssoc
    <3>5. Cat(w, y) = Cat(Cat(w, x), i)
      BY <3>2, CatAssoc
    <3>6. Cat(w, x) = Cat(v, a)
      BY <2>1, <3>1, CatAssoc
    <3> QED
      BY <3>3, <3>4, <3>5, <3>6
  <2>3. PICK x \in Seq(Packets) : x = Cat(v, a) /\ Relayed(x) = Cat(Relayed(v), Relayed(a))
    BY CatFacts, KeptFacts
  <2>4. PICK y \in Seq(Packets) : y = Cat(x, i) /\ Relayed(y) = Cat(Relayed(x), Relayed(i))
    BY CatFacts, KeptFacts
  <2>5. Relayed(Cat(y, b)) = Cat(Relayed(y), Relayed(b))
    BY KeptFacts
  <2>6. Relayed(v) \in Seq(Packets) /\ Relayed(x) \in Seq(Packets) /\ Relayed(y) \in Seq(Packets)
    BY KeptFacts
  <2>7. Relayed(x) = Relayed(v)
    BY <1>4, <2>3, <2>6, CatEmpty
  <2>8. Relayed(Cat(y, b)) = Relayed(y)
    BY <1>4, <2>5, <2>6, CatEmpty
  <2> QED
    BY <2>1, <2>2, <2>3, <2>4, <2>7, <2>8
<1>6. Cat(Relayed(i), Kept(u)) = Kept(t)
  <2>0. Kept(u) \in Seq(Packets)
    BY KeptFacts
  <2>1. CASE d = cur
    <3>1. PICK o \in Seq(Packets) : o = <<p>>
      BY SingletonFacts
    <3>2. t = Cat(o, u)
      BY <1>1, <1>2, <2>1, <3>1 DEF Feeds, For, IInv, Types
    <3>3. Kept(t) = Cat(Kept(o), Kept(u))
      BY <3>2, KeptFacts
    <3>4. p \in Range(Input[d])
      <4>1. p \in Ranges(rcvq)[cur]
        BY <1>1, <2>1 DEF Feeds, Ranges
      <4> QED
        BY <2>1, <4>1 DEF IInv, Linked, Apart
    <3>5. Relayed(i) = Kept(o)
      <4>1. i = IF ~Drop[p] THEN <<p>> ELSE <<>>
        BY <1>4, <2>1
      <4> QED
        BY <3>1, <3>4, <4>1, RelayedItself
    <3> QED
      BY <3>3, <3>5
  <2>2. CASE d # cur
    <3>1. u = t
      BY <1>1, <1>2, <2>2 DEF Feeds, For, IInv, Types
    <3>2. i = <<>> /\ Relayed(<<>>) = <<>>
      BY <1>4, <2>2, SelectEmpty DEF Relayed
    <3> QED
      BY <2>0, <3>1, <3>2, CatEmpty
  <2> QED
    BY <2>1, <2>2
<1>7. PICK x, y, z \in Seq(Packets) : x = Relayed(Cat(w, q)) /\ y = Relayed(i) /\ z = Kept(u)
  BY CatFacts, KeptFacts
<1>8. Cat(Cat(x, y), z) = Cat(x, Kept(t))
  BY <1>6, <1>7, CatAssoc
<1>9. Cat(x, Kept(t)) = Arrived(d)
  BY <1>2, <1>7 DEF Flow, Through
<1>10. Relayed(Through(d))' = Cat(x, y) /\ Kept(rcvq[d])' = z
  <2>1. Through(d)' = Cat(w, Joined(q, a, i, b))
    BY <1>2, <1>3, <1>4 DEF Through
  <2>2. Relayed(Through(d))' = Relayed(Through(d)') /\ Kept(rcvq[d])' = Kept(rcvq'[d])
    BY DEF Relayed, Kept
  <2> QED
    BY <1>2, <1>5, <1>7, <2>1, <2>2
<1> QED
  BY <1>8, <1>9, <1>10

\* The source may send more or lose what was not read: what arrived is the same.
LEMMA ArrivedStays ==
    ASSUME IInv, IInv', NEW d \in Dirs, nin'[d] = nin[d]
    PROVE  Arrived(d)' = Arrived(d)
<1>1. PICK s, t \in Seq(Packets), n \in Nat : s = given[d] /\ t = given'[d] /\ n = nin[d]
  BY DEF IInv, Types
<1>2. /\ n <= Len(s) /\ Len(s) \in Nat /\ Len(s) <= Len(Input[d]) /\ \A i \in 1 .. Len(s) : s[i] = Input[d][i]
      /\ n <= Len(t) /\ Len(t) \in Nat /\ Len(t) <= Len(Input[d]) /\ \A i \in 1 .. Len(t) : t[i] = Input[d][i]
  BY <1>1 DEF IInv, Sent
<1>3. PICK f \in Seq(Packets) : f = First(s, n) /\ Len(f) = n /\ \A i \in 1 .. Len(f) : f[i] = s[i]
  BY <1>2, FirstFacts
<1>4. PICK g \in Seq(Packets) : g = First(t, n) /\ Len(g) = n /\ \A i \in 1 .. Len(g) : g[i] = t[i]
  BY <1>2, FirstFacts
<1>5. \A i \in 1 .. n : i \in 1 .. Len(s) /\ i \in 1 .. Len(t)
  BY <1>2
<1>6. f = g
  BY <1>2, <1>3, <1>4, <1>5, SameSeq
<1>7. Arrived(d)' = Kept(First(given'[d], nin'[d]))
  BY DEF Arrived, Kept
<1> QED
  BY <1>1, <1>3, <1>4, <1>6, <1>7 DEF Arrived

LEMMA QuietFlow ==
    ASSUME IInv, IInv', Flow, UNCHANGED <<nin, wire, pq, rcvq>>, live' => live
    PROVE  Flow'
<1>1. \A d \in Dirs : Arrived(d)' = Arrived(d)
  BY ArrivedStays
<1>2. \A d \in Dirs : Relayed(Through(d))' = Relayed(Through(d)) /\ Kept(rcvq[d])' = Kept(rcvq[d])
  BY DEF Relayed, Through, Kept
<1> QED
  BY <1>1, <1>2 DEF Flow

LEMMA ReadFlow == ASSUME IInv, IInv', Flow, NEW d \in Dirs, ReadEvent(d) PROVE Flow'
<1>1. /\ nin' = For(nin, d, Len(given[d]))
      /\ rcvq' = For(rcvq, d, rcvq[d] \o After(given[d], nin[d]))
      /\ UNCHANGED <<given, wire, pq, live>>
  BY Zenon DEF ReadEvent, handle_read_event
<1>2. PICK s, t \in Seq(Packets), n \in Nat : s = given[d] /\ t = rcvq[d] /\ n = nin[d]
  BY DEF IInv, Types
<1>3. n \in 0 .. Len(s) /\ Len(s) \in Nat
  BY <1>2 DEF IInv, Sent
<1>4. PICK f, a \in Seq(Packets) : f = First(s, n) /\ a = After(s, n) /\ Cat(f, a) = s
  BY <1>3, FirstFacts, AfterFacts, CatCut
<1>5. /\ nin'[d] = Len(s) /\ rcvq'[d] = Cat(t, a)
      /\ \A e \in Dirs : e # d => nin'[e] = nin[e] /\ rcvq'[e] = rcvq[e]
  <2>1. nin' = For(nin, d, Len(s)) /\ rcvq' = For(rcvq, d, Cat(t, a)) /\ nin \in [Dirs -> Nat] /\ rcvq \in [Dirs -> Seq(Packets)]
    BY <1>1, <1>2, <1>4 DEF Cat, IInv, Types
  <2> QED
    BY <2>1 DEF For
<1>6. ASSUME NEW e \in Dirs, e # d, live PROVE Cat(Relayed(Through(e)), Kept(rcvq[e]))' = Arrived(e)'
  <2>1. Arrived(e)' = Arrived(e)
    BY <1>5, <1>6, ArrivedStays
  <2>2. Relayed(Through(e))' = Relayed(Through(e)) /\ Kept(rcvq[e])' = Kept(rcvq[e])
    BY <1>1, <1>5, <1>6 DEF Relayed, Through, Kept
  <2> QED
    BY <1>6, <2>1, <2>2 DEF Flow
<1>7. ASSUME live PROVE Cat(Relayed(Through(d)), Kept(rcvq[d]))' = Arrived(d)'
  <2>1. Arrived(d)' = Kept(s)
    <3>1. First(s, Len(s)) = s
      BY <1>3 DEF First, Smaller
    <3>2. Arrived(d)' = Kept(First(given'[d], nin'[d]))
      BY DEF Arrived, Kept
    <3> QED
      BY <1>1, <1>2, <1>5, <3>1, <3>2
  <2>2. PICK x, y, z \in Seq(Packets) : x = Relayed(Through(d)) /\ y = Kept(t) /\ z = Kept(a)
    <3>1. Through(d) \in Seq(Packets)
      BY CatFacts DEF Through, IInv, Types
    <3> QED
      BY <3>1, KeptFacts
  <2>3. Kept(s) = Cat(Kept(f), z) /\ Kept(Cat(t, a)) = Cat(y, z)
    BY <1>4, <2>2, KeptFacts
  <2>4. Kept(f) = Cat(x, y)
    BY <1>2, <1>4, <1>7, <2>2 DEF Flow, Arrived
  <2>5. Cat(x, Cat(y, z)) = Cat(Cat(x, y), z)
    BY CatAssoc
  <2>6. Relayed(Through(d))' = x /\ Kept(rcvq[d])' = Cat(y, z)
    <3>1. Through(d)' = Through(d)
      BY <1>1 DEF Through
    <3>2. Relayed(Through(d))' = Relayed(Through(d)') /\ Kept(rcvq[d])' = Kept(rcvq'[d])
      BY DEF Relayed, Kept
    <3> QED
      BY <1>5, <2>2, <2>3, <3>1, <3>2
  <2> QED
    BY <2>1, <2>3, <2>4, <2>5, <2>6
<1> QED
  BY <1>1, <1>6, <1>7 DEF Flow

LEMMA NextFlow == ASSUME IInv, IInv', Aligned, Later, Dead, Flow, [Next]_vars PROVE Flow'
<1>1. CASE World \/ UNCHANGED vars
  <2>1. UNCHANGED <<nin, wire, pq, rcvq, live>>
    BY <1>1 DEF World, PeerSend, PeerRead, PeerShutdown, PeerGone, vars, world, pipes
  <2> QED
    BY <2>1, QuietFlow
<1>2. CASE filter
  BY <1>2, FilterFlow
<1>3. ASSUME NEW d \in Dirs, ReadEvent(d) PROVE Flow'
  BY <1>3, ReadFlow
<1>4. CASE Check
  <2>1. UNCHANGED <<nin, wire>> /\ (~live' \/ UNCHANGED <<live, pq, rcvq>>)
    BY <1>4 DEF Check, world, pipes
  <2> QED
    BY <2>1, QuietFlow DEF Flow
<1>5. CASE Writing
  <2>1a. PICK d \in Dirs, q \in Seq(Packets) : \E n : Queue(d, q) /\ Sends(d, q, n)
    BY <1>5, WritingSends
  <2>1. PICK n : d \in Dirs /\ q \in Seq(Packets) /\ Queue(d, q) /\ Sends(d, q, n)
    BY <2>1a
  <2> QED
    BY <2>1, WritingFlow DEF IInv
<1> QED
  BY <1>1, <1>2, <1>3, <1>4, <1>5 DEF Next, Callback, Writing

\* Nothing passes through a deleted session.
LEMMA NextDead ==
    ASSUME IInv, IInv', Dead, [Next]_vars, ~live'
    PROVE  wire' = wire /\ \A d \in Dirs : Arrived(d)' = Arrived(d)
<1>1. CASE World \/ UNCHANGED vars \/ Check
  <2>1. UNCHANGED <<nin, wire>>
    BY <1>1 DEF World, PeerSend, PeerRead, PeerShutdown, PeerGone, Check, vars, world
  <2> QED
    BY <2>1, ArrivedStays
<1>2. CASE filter \/ WriteOwn \/ WriteOther
  <2>1. live' = live /\ pc # "idle"
    BY <1>2, ZenonT(60) DEF filter, WriteOwn, WriteOther
  <2> QED
    BY <2>1 DEF Dead
<1>3. ASSUME NEW d \in Dirs, ReadEvent(d) \/ WriteEvent(d) PROVE FALSE
  <2>1. live' = live /\ (inw[d] \/ outw[d])
    BY <1>3, Zenon DEF ReadEvent, WriteEvent
  <2> QED
    BY <2>1 DEF Dead
<1>4. ASSUME NEW p \in Packets, timeout_cb(p) PROVE FALSE
  <2>1. live' = live /\ p \in ticking
    BY <1>4, Zenon DEF timeout_cb
  <2> QED
    BY <2>1 DEF Dead
<1> QED
  BY <1>1, <1>2, <1>3, <1>4 DEF Next, Callback

\* In every state of the aligned specification.
AInv == IInv /\ Aligned /\ Later /\ Dead /\ Flow /\ Ahead

LEMMA LiveAhead == IInv /\ live /\ Flow => Ahead
BY FlowAhead DEF IInv

\* While the window of sendq is the front of its list, what is on the wire, in the
\* send queue and in the receive queue is, injected and dropped packets apart, what
\* was read from the source, in its order.
THEOREM AlignedAInv == AlignedSpec => []AInv
<1>1. Init => IInv /\ Aligned /\ Later /\ Dead /\ Flow /\ Ahead
  <2> SUFFICES ASSUME Init PROVE Aligned /\ Later /\ Dead
    BY InitIInv, InitFlow
  <2>1. Aligned
    <3>1. First(<<>>, 0) = <<>>
      BY DEF First, Smaller
    <3> QED
      BY <3>1 DEF Init, Everywhere, Aligned
  <2>2. Later /\ Dead
    BY EmptyFacts DEF Init, Later, Dead
  <2> QED
    BY <2>1, <2>2
<1>2. IInv /\ Later /\ Dead /\ [Next]_vars => IInv' /\ Later' /\ Dead'
  BY NextIInv, NextLaterDead
<1>3. Aligned /\ [Next /\ Aligned']_vars => Aligned' /\ [Next]_vars
  BY DEF Aligned, WriteFails, vars, world, pipes
<1>4. IInv /\ IInv' /\ Aligned /\ Later /\ Dead /\ Flow /\ [Next]_vars => Flow'
  BY NextFlow
<1>5. IInv /\ live /\ Flow => Ahead
  BY LiveAhead
<1>6. IInv /\ IInv' /\ Dead /\ Ahead /\ [Next]_vars => live' \/ Ahead'
  <2> SUFFICES ASSUME IInv, IInv', Dead, Ahead, [Next]_vars, ~live' PROVE Ahead'
    OBVIOUS
  <2>1. wire' = wire /\ \A d \in Dirs : Arrived(d)' = Arrived(d)
    BY NextDead
  <2>2. \A d \in Dirs : Relayed(wire[d])' = Relayed(wire[d])
    BY <2>1 DEF Relayed
  <2> QED
    BY <2>1, <2>2 DEF Ahead
<1>7. IInv /\ Aligned /\ Later /\ Dead /\ Flow /\ Ahead => AInv
  BY DEF AInv
<1> QED
  BY <1>1, <1>2, <1>3, <1>4, <1>5, <1>6, <1>7, PTL DEF AlignedSpec
-----------------------------------------------------------------------------
(* The aligned specification implements the relay.                         *)

Given == [d \in Dirs |-> Kept(given[d])]
Passed == [d \in Dirs |-> Relayed(wire[d])]
Shut == [d \in Dirs |-> wrshut[d] = "whole"]

LEMMA RelayGive ==
    ASSUME NEW d \in Dirs, NEW p \in Packets, ~fin[d], Given' = [Given EXCEPT ![d] = Append(@, p)],
           UNCHANGED <<fin, Passed, Shut>>
    PROVE  Promise!Next
BY Zenon DEF Promise!Next, Promise!Give, Given, Passed, Shut

LEMMA RelayStop ==
    ASSUME NEW d \in Dirs, NEW n \in 0 .. Len(Given[d]), n >= Len(Passed[d]), fin' = [fin EXCEPT ![d] = TRUE],
           Given' = [Given EXCEPT ![d] = SubSeq(@, 1, n)], UNCHANGED <<Passed, Shut>>
    PROVE  Promise!Next
BY Zenon DEF Promise!Next, Promise!Stop, Given, Passed, Shut

LEMMA RelayPass ==
    ASSUME NEW d \in Dirs, NEW n \in 0 .. Len(Given[d]), n > Len(Passed[d]), ~Shut[d],
           Passed' = [Passed EXCEPT ![d] = SubSeq(Given[d], 1, n)], UNCHANGED <<Given, fin, Shut>>
    PROVE  Promise!Next
BY Zenon DEF Promise!Next, Promise!Pass, Given, Passed, Shut

LEMMA RelayEnd ==
    ASSUME NEW d \in Dirs, fin[d], Passed' = [Passed EXCEPT ![d] = Given[d]],
           Shut' = [Shut EXCEPT ![d] = TRUE], UNCHANGED <<Given, fin>>
    PROVE  Promise!Next
BY Zenon DEF Promise!Next, Promise!End, Given, Passed, Shut

LEMMA CatFront ==
    ASSUME NEW s \in Seq(Packets), NEW t \in Seq(Packets)
    PROVE  s = SubSeq(Cat(s, t), 1, Len(s)) /\ Len(s) \in 0 .. Len(Cat(s, t))
<1>1. PICK c \in Seq(Packets) : c = Cat(s, t) /\ Len(c) = Len(s) + Len(t) /\ \A i \in 1 .. Len(s) : c[i] = s[i]
  BY CatFacts
<1>2. Len(s) \in Nat /\ Len(t) \in Nat
  OBVIOUS
<1>3. Len(s) \in 0 .. Len(c)
  BY <1>1, <1>2
<1>4. s = SubSeq(c, 1, Len(s))
  BY <1>1, <1>2, <1>3
<1> QED
  BY <1>1, <1>3, <1>4

\* What arrived is the front of what was sent, so what was passed on is too.
LEMMA GivenFacts ==
    ASSUME IInv, Ahead, NEW d \in Dirs
    PROVE  /\ Kept(given[d]) \in Seq(Packets) /\ Relayed(wire[d]) \in Seq(Packets) /\ Arrived(d) \in Seq(Packets)
           /\ Arrived(d) = SubSeq(Kept(given[d]), 1, Len(Arrived(d)))
           /\ Len(Arrived(d)) \in 0 .. Len(Kept(given[d]))
           /\ Relayed(wire[d]) = SubSeq(Kept(given[d]), 1, Len(Relayed(wire[d])))
           /\ Len(Relayed(wire[d])) \in 0 .. Len(Kept(given[d]))
           /\ Len(Relayed(wire[d])) <= Len(Arrived(d))
<1>1. PICK s, w \in Seq(Packets), n \in Nat : s = given[d] /\ w = wire[d] /\ n = nin[d]
  BY DEF IInv, Types
<1>2. n \in 0 .. Len(s) /\ n \in Int
  BY <1>1 DEF IInv, Sent
<1>3. PICK f, a \in Seq(Packets) : f = First(s, n) /\ a = After(s, n) /\ Cat(f, a) = s
  BY <1>2, FirstFacts, AfterFacts, CatCut
<1>4. PICK x, y, z \in Seq(Packets) : x = Relayed(w) /\ y = Kept(f) /\ z = Kept(a) /\ Kept(s) = Cat(y, z)
  BY <1>3, KeptFacts
<1>5. Arrived(d) = y
  BY <1>1, <1>3, <1>4 DEF Arrived
<1>6. PICK rest \in Seq(Packets) : y = Cat(x, rest)
  BY <1>1, <1>4, <1>5 DEF Ahead
<1>7. PICK u \in Seq(Packets) : u = Cat(rest, z) /\ Kept(s) = Cat(x, u)
  <2>1. Cat(rest, z) \in Seq(Packets)
    BY CatFacts
  <2>2. Cat(Cat(x, rest), z) = Cat(x, Cat(rest, z))
    BY CatAssoc
  <2> QED
    BY <1>4, <1>6, <2>1, <2>2
<1>8. Kept(s) \in Seq(Packets)
  BY KeptFacts
<1>9. y = SubSeq(Kept(s), 1, Len(y)) /\ Len(y) \in 0 .. Len(Kept(s))
  <2>1. y = SubSeq(Cat(y, z), 1, Len(y)) /\ Len(y) \in 0 .. Len(Cat(y, z))
    BY CatFront
  <2> QED
    BY <1>4, <2>1, Zenon
<1>10. x = SubSeq(Kept(s), 1, Len(x)) /\ Len(x) \in 0 .. Len(Kept(s))
  <2>1. x = SubSeq(Cat(x, u), 1, Len(x)) /\ Len(x) \in 0 .. Len(Cat(x, u))
    BY CatFront
  <2> QED
    BY <1>7, <2>1, Zenon
<1>11. Len(x) <= Len(y)
  BY <1>6, CatFront
<1> QED
  BY <1>1, <1>4, <1>5, <1>8, <1>9, <1>10, <1>11

\* What was passed on is the front of what was given.
Front ==
    \A d \in Dirs : /\ Kept(given[d]) \in Seq(Packets)
                    /\ Relayed(wire[d]) = SubSeq(Kept(given[d]), 1, Len(Relayed(wire[d])))
                    /\ Len(Relayed(wire[d])) \in 0 .. Len(Kept(given[d]))

LEMMA AInvFront == AInv => Front
BY GivenFacts DEF AInv, Front

\* What the step does where the relay can see it.
LEMMA RelaySees ==
    /\ \A d \in Dirs : Given[d] = Kept(given[d]) /\ Passed[d] = Relayed(wire[d]) /\ Shut[d] = (wrshut[d] = "whole")
    /\ \A d \in Dirs : /\ Given'[d] = Kept(given'[d]) /\ Passed'[d] = Relayed(wire'[d])
                       /\ Shut'[d] = (wrshut'[d] = "whole")
    /\ wire' = wire => Passed' = Passed
    /\ wrshut' = wrshut => Shut' = Shut
    /\ given' = given => Given' = Given
    /\ DOMAIN Given = Dirs /\ DOMAIN Given' = Dirs /\ DOMAIN Passed = Dirs /\ DOMAIN Passed' = Dirs
    /\ DOMAIN Shut = Dirs /\ DOMAIN Shut' = Dirs
    /\ Given = [d \in Dirs |-> Given[d]] /\ Given' = [d \in Dirs |-> Given'[d]]
    /\ Passed = [d \in Dirs |-> Passed[d]] /\ Passed' = [d \in Dirs |-> Passed'[d]]
    /\ Shut = [d \in Dirs |-> Shut[d]] /\ Shut' = [d \in Dirs |-> Shut'[d]]
BY Zenon DEF Given, Passed, Shut, Kept, Relayed

\* The peers: a packet given is kept or not; a source that stops may lose what
\* was not read.
LEMMA WorldRelays == ASSUME AInv, AInv', World PROVE Promise!Next \/ UNCHANGED <<Given, fin, Passed, Shut>>
<1>1. /\ given \in [Dirs -> Seq(Packets)] /\ fin \in [Dirs -> BOOLEAN] /\ IInv /\ Ahead
  BY DEF AInv, IInv, Types
<1>2. UNCHANGED <<wire, wrshut>>
  BY DEF World, PeerSend, PeerRead, PeerShutdown, PeerGone
<1>3. Passed' = Passed /\ Shut' = Shut
  BY <1>2, RelaySees
<1>4. ASSUME NEW d \in Dirs, PeerSend(d) PROVE Promise!Next \/ UNCHANGED <<Given, fin, Passed, Shut>>
  <2>1. PICK s \in Seq(Packets), x \in Packets :
            /\ s = given[d] /\ given' = For(given, d, Append(s, x)) /\ ~fin[d] /\ fin' = fin
    <3>1. /\ given[d] \in Seq(Packets) /\ Input[d] \in Seq(Packets) /\ Len(given[d]) < Len(Input[d])
          /\ given' = For(given, d, Append(given[d], Input[d][Len(given[d]) + 1])) /\ ~fin[d] /\ fin' = fin
      BY <1>1, <1>4, SessionAssumption DEF PeerSend
    <3>2. Len(given[d]) + 1 \in 1 .. Len(Input[d])
      BY <3>1
    <3> QED
      BY <3>1, <3>2
  <2>2. Kept(Append(s, x)) = Pick(Kept(s), x, {p \in Packets : ~Drop[p]})
    BY SelectAppend DEF Kept
  <2>3. given'[d] = Append(s, x) /\ \A e \in Dirs : e # d => given'[e] = given[e]
    BY <1>1, <2>1 DEF For
  <2>4. \A e \in Dirs : Given'[e] = IF e = d THEN Kept(Append(s, x)) ELSE Given[e]
    <3>1. \A e \in Dirs : Given'[e] = Kept(given'[e]) /\ Given[e] = Kept(given[e])
      BY RelaySees
    <3> QED
      BY <2>3, <3>1, Zenon
  <2>5. Given[d] = Kept(s)
    BY <2>1, RelaySees
  <2>6. CASE Drop[x]
    <3>1. Kept(Append(s, x)) = Kept(s)
      BY <2>2, <2>6 DEF Pick
    <3>2. Given' = Given
      BY <2>4, <2>5, <3>1, RelaySees
    <3> QED
      BY <1>3, <2>1, <3>2
  <2>7. CASE ~Drop[x]
    <3>1. Kept(Append(s, x)) = Append(Kept(s), x)
      BY <2>2, <2>7 DEF Pick
    <3>2. Given' = [Given EXCEPT ![d] = Append(@, x)]
      BY <2>4, <2>5, <3>1, RelaySees
    <3> QED
      BY <1>3, <2>1, <3>2, RelayGive
  <2> QED
    BY <2>6, <2>7
<1>5. ASSUME NEW d \in Dirs, fin' = For(fin, d, TRUE),
             given' = given \/ given' = For(given, d, First(given[d], nin[d]))
      PROVE  Promise!Next
  <2>1. PICK k \in Seq(Packets) : k = Kept(given[d]) /\ k = Given[d] /\ Len(k) \in Nat /\ SubSeq(k, 1, Len(k)) = k
    <3>1. Kept(given[d]) \in Seq(Packets)
      BY <1>1, KeptFacts
    <3>2. \A s \in Seq(Packets) : SubSeq(s, 1, Len(s)) = s /\ Len(s) \in Nat
      OBVIOUS
    <3> QED
      BY <3>1, <3>2, RelaySees
  <2>2. PICK a, w \in Seq(Packets) :
            /\ a = Arrived(d) /\ w = Relayed(wire[d]) /\ w = Passed[d]
            /\ a = SubSeq(k, 1, Len(a)) /\ Len(a) \in 0 .. Len(k) /\ Len(w) \in 0 .. Len(k) /\ Len(w) <= Len(a)
    BY <1>1, <2>1, GivenFacts, RelaySees
  <2>3. fin' = [fin EXCEPT ![d] = TRUE]
    BY <1>5 DEF For
  <2>4. CASE given' = given
    <3>1. Given' = [Given EXCEPT ![d] = SubSeq(@, 1, Len(k))]
      BY <2>1, <2>4, RelaySees
    <3>2. Len(k) \in 0 .. Len(Given[d]) /\ Len(k) >= Len(Passed[d])
      BY <2>1, <2>2
    <3> QED
      BY <1>3, <2>3, <3>1, <3>2, RelayStop
  <2>5. CASE given' = For(given, d, First(given[d], nin[d]))
    <3>1. given'[d] = First(given[d], nin[d]) /\ \A e \in Dirs : e # d => given'[e] = given[e]
      BY <1>1, <2>5 DEF For
    <3>2. Given'[d] = a /\ \A e \in Dirs : e # d => Given'[e] = Given[e]
      BY <2>2, <3>1, RelaySees DEF Arrived
    <3>3. Given' = [Given EXCEPT ![d] = SubSeq(@, 1, Len(a))]
      BY <2>1, <2>2, <3>2, RelaySees
    <3>4. Len(a) \in 0 .. Len(Given[d]) /\ Len(a) >= Len(Passed[d])
      BY <2>1, <2>2
    <3> QED
      BY <1>3, <2>3, <3>3, <3>4, RelayStop
  <2> QED
    BY <1>5, <2>4, <2>5
<1>6. ASSUME NEW d \in Dirs, PeerRead(d) PROVE UNCHANGED <<Given, fin, Passed, Shut>>
  BY <1>3, <1>6, RelaySees DEF PeerRead
<1>7. ASSUME NEW d \in Dirs, PeerShutdown(d) \/ PeerGone(d) PROVE Promise!Next
  BY <1>5, <1>7 DEF PeerShutdown, PeerGone
<1> QED
  BY <1>4, <1>6, <1>7 DEF World

\* Writing: the next packets are passed on, and with the last of them the end.
LEMMA WritingRelays == ASSUME AInv, AInv', Front', Writing PROVE Promise!Next \/ UNCHANGED <<Given, fin, Passed, Shut>>
<1>1. /\ IInv /\ Dead /\ Aligned /\ IInv' /\ Flow' /\ Ahead' /\ Types /\ wrshut \in [Dirs -> {"no", "whole", "broken"}]
      /\ wire \in [Dirs -> Seq(Packets)]
  BY DEF AInv, IInv, Types
<1>2a. PICK d \in Dirs, q \in Seq(Packets) : \E n : live /\ Queue(d, q) /\ Sends(d, q, n) /\ Shuts(d, n)
  BY <1>1, WritingSends
<1>2. PICK n : d \in Dirs /\ q \in Seq(Packets) /\ live /\ Queue(d, q) /\ Sends(d, q, n) /\ Shuts(d, n)
  BY <1>2a
<1>3. UNCHANGED <<given, nin, fin, rcvq, live>> /\ n \in 0 .. Len(q)
  BY <1>2 DEF Sends
<1>4. Given' = Given
  BY <1>3, RelaySees
<1>5. /\ wire'[d] = Cat(wire[d], First(q, n)) /\ pq'[d] = After(q, n) /\ Through(d)' = Cat(wire'[d], pq'[d])
      /\ wire'[d] \in Seq(Packets)
      /\ \A e \in Dirs : e # d => wire'[e] = wire[e]
  BY <1>1, <1>2, SendsThrough DEF Through
<1>6. PICK w, v, f \in Seq(Packets) : w = Relayed(wire[d]) /\ v = Relayed(wire'[d]) /\ f = Relayed(First(q, n)) /\ v = Cat(w, f)
  <2>1. n \in Int /\ wire[d] \in Seq(Packets)
    BY <1>1, <1>3
  <2>2. First(q, n) \in Seq(Packets)
    BY <2>1, FirstFacts
  <2>3. PICK x, y \in Seq(Packets) : x = wire[d] /\ y = First(q, n) /\ wire'[d] = Cat(x, y)
    BY <1>5, <2>1, <2>2
  <2>4. Relayed(Cat(x, y)) = Cat(Relayed(x), Relayed(y)) /\ Relayed(x) \in Seq(Packets) /\ Relayed(y) \in Seq(Packets)
    BY KeptFacts
  <2>5. Relayed(wire'[d]) \in Seq(Packets)
    BY <1>5, KeptFacts
  <2> QED
    BY <2>3, <2>4, <2>5
<1>7. /\ Passed[d] = w /\ Passed'[d] = v /\ (\A e \in Dirs : e # d => Passed'[e] = Passed[e])
      /\ \A e \in Dirs : e # d => Shut'[e] = Shut[e]
  <2>1. \A e \in Dirs : Passed'[e] = Relayed(wire'[e]) /\ Passed[e] = Relayed(wire[e])
    BY RelaySees
  <2>2. \A e \in Dirs : Shut'[e] = (wrshut'[e] = "whole") /\ Shut[e] = (wrshut[e] = "whole")
    BY RelaySees
  <2>3. \A e \in Dirs : e # d => Shut'[e] = Shut[e]
    BY <1>2, <2>2, Zenon DEF Shuts
  <2> QED
    BY <1>5, <1>6, <2>1, <2>3, Zenon
<1>8. PICK k \in Seq(Packets) :
          /\ k = Given[d] /\ k = Kept(given[d]) /\ v = SubSeq(k, 1, Len(v)) /\ Len(v) \in 0 .. Len(k)
  <2>1. /\ Kept(given[d])' \in Seq(Packets) /\ Relayed(wire[d])' = SubSeq(Kept(given[d])', 1, Len(Relayed(wire[d])'))
        /\ Len(Relayed(wire[d])') \in 0 .. Len(Kept(given[d])')
    BY DEF Front
  <2>2. Kept(given[d])' = Kept(given[d]) /\ Relayed(wire[d])' = v
    BY <1>3, <1>6 DEF Kept, Relayed
  <2> QED
    BY <2>1, <2>2, RelaySees
<1>9. CASE Shut'[d] /\ ~Shut[d]
  <2>1. wrshut'[d] = "whole" /\ wrshut[d] # "whole"
    BY <1>9, RelaySees
  <2>2. eof[d] /\ rcvq[d] = <<>> /\ ~broken[d] /\ pq'[d] = <<>>
    BY <1>2, <2>1 DEF Shuts
  <2>3. fin[d] /\ nin[d] = Len(given[d])
    BY <1>1, <2>2 DEF IInv, Ended
  <2>4. v = k
    <3>1. Arrived(d)' = Kept(given[d])
      <4>1. First(given[d], nin[d]) = given[d]
        <5>1. PICK s \in Seq(Packets) : s = given[d]
          BY <1>1 DEF IInv, Types
        <5>2. First(s, Len(s)) = s
          BY DEF First, Smaller
        <5> QED
          BY <2>3, <5>1, <5>2
      <4>2. Arrived(d)' = Kept(First(given'[d], nin'[d]))
        BY DEF Arrived, Kept
      <4> QED
        BY <1>3, <4>1, <4>2
    <3>2. Cat(Relayed(Through(d)'), Kept(rcvq'[d])) = Arrived(d)'
      <4>1. Cat(Relayed(Through(d)), Kept(rcvq[d]))' = Arrived(d)'
        BY <1>1, <1>2, <1>3 DEF Flow
      <4> QED
        BY <4>1 DEF Relayed, Kept
    <3>3. Through(d)' = wire'[d] /\ Kept(rcvq'[d]) = <<>>
      BY <1>3, <1>5, <2>2, CatEmpty, SelectEmpty DEF Kept
    <3> QED
      BY <1>6, <1>8, <3>1, <3>2, <3>3, CatEmpty
  <2>5. Passed' = [Passed EXCEPT ![d] = Given[d]]
    BY <1>7, <1>8, <2>4, RelaySees
  <2>6. Shut' = [Shut EXCEPT ![d] = TRUE]
    <3>1. Shut'[d] = TRUE
      BY <2>1, RelaySees
    <3> QED
      BY <1>7, <3>1, RelaySees
  <2> QED
    BY <1>3, <1>4, <2>3, <2>5, <2>6, RelayEnd
<1>10. CASE ~(Shut'[d] /\ ~Shut[d])
  <2>1. Shut' = Shut
    <3>1. wrshut[d] = "whole" => wrshut'[d] = "whole"
      BY <1>2 DEF Shuts
    <3>2. Shut'[d] = Shut[d]
      BY <1>10, <3>1, RelaySees
    <3> QED
      BY <1>7, <3>2, RelaySees
  <2>2. CASE v = w
    <3>1. Passed' = Passed
      BY <1>7, <2>2, RelaySees
    <3> QED
      BY <1>3, <1>4, <2>1, <3>1
  <2>3. CASE v # w
    <3>1. Len(v) > Len(w)
      <4>1. f # <<>>
        BY <1>6, <2>3, CatEmpty
      <4>2. Len(f) > 0 /\ Len(v) = Len(w) + Len(f) /\ Len(w) \in Nat
        <5>0. Len(Cat(w, f)) = Len(w) + Len(f)
          BY CatFacts
        <5>1. Len(Cat(w, f)) = Len(w) + Len(f) /\ Len(w) \in Nat /\ Len(f) \in Nat
          BY <5>0
        <5>2. Len(f) # 0
          BY <4>1
        <5> QED
          BY <1>6, <5>1, <5>2
      <4> QED
        BY <4>2
    <3>2. ~Shut[d]
      <4> SUFFICES ASSUME Shut[d] PROVE FALSE
        OBVIOUS
      <4>1. wrshut[d] = "whole"
        BY RelaySees
      <4>2. n = 0
        BY <1>2, <4>1 DEF Shuts
      <4>3. First(q, n) = <<>>
        BY <4>2 DEF First, Smaller
      <4>4. f = <<>>
        BY <1>6, <4>3, SelectEmpty DEF Relayed
      <4> QED
        BY <1>6, <2>3, <4>4, CatEmpty
    <3>3. Passed' = [Passed EXCEPT ![d] = SubSeq(Given[d], 1, Len(v))]
      BY <1>7, <1>8, RelaySees
    <3>4. Len(v) \in 0 .. Len(Given[d]) /\ Len(v) > Len(Passed[d])
      BY <1>7, <1>8, <3>1
    <3> QED
      BY <1>3, <1>4, <2>1, <3>2, <3>3, <3>4, RelayPass
  <2> QED
    BY <2>2, <2>3
<1> QED
  BY <1>9, <1>10

LEMMA NextRelays ==
    ASSUME AInv, AInv', Front', [Next]_vars
    PROVE  Promise!Next \/ UNCHANGED <<Given, fin, Passed, Shut>>
<1>1. CASE World
  BY <1>1, WorldRelays
<1>2. CASE Writing
  BY <1>2, WritingRelays
<1>3. CASE filter \/ Check \/ (\E d \in Dirs : ReadEvent(d)) \/ UNCHANGED vars
  <2>1. UNCHANGED <<given, fin, wire, wrshut>>
    BY <1>3, ZenonT(60) DEF filter, Check, ReadEvent, vars, world
  <2> QED
    BY <2>1, RelaySees
<1> QED
  BY <1>1, <1>2, <1>3 DEF Next, Callback, Writing

\* A session whose windows stay the front of their lists implements the relay, with
\* any filters, delays and sizes: rf_session::filter and proxy_pipe::handle_write_event
\* pass each stream on in order, without loss or repetition, and end it last.
THEOREM AlignedImplementsRelay == AlignedSpec => ImplementsRelay
<1>1. Init => Promise!Init
  <2> SUFFICES ASSUME Init PROVE Promise!Init
    OBVIOUS
  <2>1. \A d \in Dirs : given[d] = <<>> /\ wire[d] = <<>> /\ wrshut[d] = "no" /\ fin = [e \in Dirs |-> FALSE]
    BY Zenon DEF Init, Everywhere
  <2>2. Kept(<<>>) = <<>> /\ Relayed(<<>>) = <<>>
    BY SelectEmpty DEF Kept, Relayed
  <2>3. \A d \in Dirs : Kept(given[d]) = <<>> /\ Relayed(wire[d]) = <<>> /\ (wrshut[d] = "whole") = FALSE
    BY <2>1, <2>2
  <2>4. Given = [d \in Dirs |-> <<>>] /\ Passed = [d \in Dirs |-> <<>>] /\ Shut = [d \in Dirs |-> FALSE]
    BY <2>3, Zenon DEF Given, Passed, Shut
  <2> QED
    BY <2>1, <2>4, DirFacts, Zenon DEF Promise!Init, Given, Passed, Shut
<1>2. AInv /\ AInv' /\ Front' /\ [Next]_vars =>
          [Promise!Next]_<<[d \in Dirs |-> Kept(given[d])], fin, [d \in Dirs |-> Relayed(wire[d])],
                           [d \in Dirs |-> wrshut[d] = "whole"]>>
  <2> SUFFICES ASSUME AInv, AInv', Front', [Next]_vars
               PROVE  Promise!Next \/ UNCHANGED <<[d \in Dirs |-> Kept(given[d])], fin, [d \in Dirs |-> Relayed(wire[d])],
                                                  [d \in Dirs |-> wrshut[d] = "whole"]>>
    OBVIOUS
  <2> QED
    BY NextRelays, Zenon DEF Given, Passed, Shut
<1>3. AInv => Front
  BY AInvFront
<1>4. [Next /\ Aligned']_vars => [Next]_vars
  OBVIOUS
<1> QED
  BY <1>1, <1>2, <1>3, <1>4, AlignedAInv, PTL DEF AlignedSpec, ImplementsRelay, Promise!Spec
-----------------------------------------------------------------------------
(* No packet reaches its destination twice.                                *)

\* The packets in a list or not read yet, and those that are still to be made.
Here(y) == y \in Range(dq) \/ \E d \in Dirs : y \in Range(rcvq[d]) \/ y \in Range(pq[d]) \/ y \in Unread(d)
Coming(x) == \E d \in Dirs : x \in Range(rcvq[d]) \/ x \in Unread(d)
Known(y) == Here(y) \/ \E x \in Packets : Coming(x) /\ y \in Injected(x)
Once == \A d \in Dirs : IsInjective(wire[d]) /\ \A p \in Range(wire[d]) : ~Known(p)

\* A step makes no packet known that was not.
LEMMA NextKnown ==
    ASSUME IInv, IInv', Dead, Aligned, [Next]_vars, NEW y, Known(y)'
    PROVE  Known(y)
<1>0. /\ nin \in [Dirs -> Nat] /\ nin' \in [Dirs -> Nat] /\ rcvq \in [Dirs -> Seq(Packets)] /\ pq \in [Dirs -> Seq(Packets)]
      /\ cur \in Dirs /\ dq \in Seq(Packets)
  BY DEF IInv, Types
<1> SUFFICES /\ \A x \in Packets : Coming(x)' => Coming(x)
             /\ Here(y)' => Known(y)
  BY DEF Known
<1>1. ASSUME UNCHANGED nin PROVE \A d \in Dirs : Unread(d)' = Unread(d)
  BY <1>1 DEF Unread
<1>2. CASE World \/ UNCHANGED vars
  <2>1. UNCHANGED <<nin, rcvq, pq, dq>>
    BY <1>2 DEF World, PeerSend, PeerRead, PeerShutdown, PeerGone, vars, world, pipes
  <2> QED
    BY <1>1, <2>1 DEF Known, Here, Coming
<1>3. CASE Check
  <2>1. UNCHANGED nin /\ (UNCHANGED <<rcvq, pq, dq>> \/ (dq' = <<>> /\ rcvq' = Everywhere(<<>>) /\ pq' = Everywhere(<<>>)))
    BY <1>3 DEF Check, world, pipes
  <2>2. CASE UNCHANGED <<rcvq, pq, dq>>
    BY <1>1, <2>1, <2>2 DEF Known, Here, Coming
  <2>3. CASE dq' = <<>> /\ rcvq' = Everywhere(<<>>) /\ pq' = Everywhere(<<>>)
    <3>1. Range(dq') = {} /\ \A d \in Dirs : Range(rcvq'[d]) = {} /\ Range(pq'[d]) = {}
      BY <2>3, EmptyFacts DEF Everywhere
    <3> QED
      BY <1>1, <2>1, <3>1 DEF Known, Here, Coming
  <2> QED
    BY <2>1, <2>2, <2>3
<1>4. CASE filter
  <2>1. UNCHANGED nin
    BY <1>4 DEF filter, world
  <2>2a. PICK p \in Packets : \E pre, post : Feeds(p, pre, post)
    BY <1>4, FilterFeeds
  <2>2. PICK pre, post : p \in Packets /\ Feeds(p, pre, post)
    BY <2>2a
  <2>3. Coming(p)
    BY <1>0, <2>2 DEF Feeds, Coming
  <2>4. \A d \in Dirs : \A x \in Range(rcvq'[d]) : x \in Range(rcvq[d])
    <3>1. rcvq[cur] # <<>>
      BY <1>4 DEF filter
    <3>2. Range(Tail(rcvq[cur])) \subseteq Range(rcvq[cur])
      BY <1>0, <3>1, TailFacts DEF IInv, Single
    <3> QED
      BY <1>0, <2>2, <3>2, SMTT(60) DEF Feeds, For
  <2>5. \A d \in Dirs : \A x \in Range(pq'[d]) : x \in Range(pq[d]) \/ x \in Injected(p) \/ x = p
    <3> SUFFICES ASSUME NEW d \in Dirs, NEW x \in Range(pq'[d]) PROVE x \in Range(pq[d]) \/ x \in Injected(p) \/ x = p
      OBVIOUS
    <3>1. PICK i : i = IF d = cur /\ ~Drop[p] THEN <<p>> ELSE <<>>
      OBVIOUS
    <3>2. i \in Seq(Packets) /\ Range(i) \subseteq {p}
      BY <3>1, SingletonFacts, EmptyFacts
    <3>3. /\ pre[d] \in Seq(Packets) /\ post[d] \in Seq(Packets)
          /\ \A z \in Range(pre[d]) \cup Range(post[d]) : z \in Injected(p)
          /\ pq'[d] = Joined(pq[d], pre[d], i, post[d])
      BY <2>2, <3>1, Zenon DEF Feeds
    <3>4. Range(pq'[d]) = Range(pq[d]) \cup (Range(pre[d]) \cup Range(post[d])) \cup Range(i)
      <4>1. PICK q, a, b \in Seq(Packets) : q = pq[d] /\ a = pre[d] /\ b = post[d]
        BY <1>0, <3>3
      <4>2. Range(Joined(q, a, i, b)) = Range(q) \cup (Range(a) \cup Range(b)) \cup Range(i)
        BY <3>2, QueuedFacts
      <4> QED
        BY <3>3, <4>1, <4>2
    <3> QED
      BY <3>2, <3>3, <3>4
  <2>6. \A x \in Range(dq') : x \in Range(dq) \/ x \in Injected(p)
    BY <2>2 DEF Feeds
  <2>7. Known(p) /\ \A x \in Injected(p) : Known(x)
    BY <2>3 DEF Known, Here, Coming
  <2>8. \A x \in Packets : Coming(x)' => Coming(x)
    BY <1>1, <2>1, <2>4 DEF Coming
  <2>9. Here(y)' => Here(y) \/ y \in Injected(p) \/ y = p
    BY <1>1, <2>1, <2>4, <2>5, <2>6 DEF Here
  <2> QED
    BY <2>7, <2>8, <2>9 DEF Known
<1>5. ASSUME NEW d \in Dirs, ReadEvent(d)
      PROVE  (\A x \in Packets : Coming(x)' => Coming(x)) /\ (Here(y)' => Known(y))
  <2>1. /\ nin' = For(nin, d, Len(given[d]))
        /\ rcvq' = For(rcvq, d, rcvq[d] \o After(given[d], nin[d]))
        /\ UNCHANGED <<pq, dq>>
    BY <1>5, Zenon DEF ReadEvent, handle_read_event
  <2>2. PICK s \in Seq(Packets), n \in Nat, a \in Seq(Packets) :
            /\ s = given[d] /\ n = nin[d] /\ a = After(s, n) /\ n <= Len(s) /\ Len(s) <= Len(Input[d])
            /\ \A i \in 1 .. Len(s) : s[i] = Input[d][i]
            /\ Len(a) = Len(s) - n /\ \A i \in 1 .. Len(a) : a[i] = s[i + n]
    <3>1. /\ given[d] \in Seq(Packets) /\ nin[d] \in Nat /\ nin[d] <= Len(given[d]) /\ Len(given[d]) <= Len(Input[d])
          /\ \A i \in 1 .. Len(given[d]) : given[d][i] = Input[d][i]
      BY DEF IInv, Types, Sent
    <3>2. PICK s \in Seq(Packets), n \in Nat : s = given[d] /\ n = nin[d]
      BY <3>1
    <3>3. PICK a \in Seq(Packets) : a = After(s, n) /\ Len(a) = Len(s) - n /\ \A i \in 1 .. Len(a) : a[i] = s[i + n]
      BY <3>1, <3>2, AfterFacts
    <3> QED
      BY <3>1, <3>2, <3>3
  <2>3. Len(Input[d]) \in Nat /\ Len(s) \in Nat
    BY SessionAssumption
  <2>4. \A x \in Range(a) : x \in Unread(d)
    <3> SUFFICES ASSUME NEW x \in Range(a) PROVE x \in Unread(d)
      OBVIOUS
    <3>1. PICK i \in 1 .. Len(a) : a[i] = x
      BY RangeFacts
    <3>2. i + n \in 1 .. Len(s) /\ i + n \in n + 1 .. Len(Input[d])
      BY <2>2, <2>3
    <3>3. Input[d][i + n] = x
      BY <2>2, <3>1, <3>2
    <3> QED
      BY <2>2, <3>2, <3>3 DEF Unread
  <2>5. Range(rcvq'[d]) = Range(rcvq[d]) \cup Range(a) /\ \A e \in Dirs : e # d => rcvq'[e] = rcvq[e]
    <3>1. rcvq' = For(rcvq, d, rcvq[d] \o a)
      BY <2>1, <2>2
    <3>2. rcvq'[d] = rcvq[d] \o a /\ \A e \in Dirs : e # d => rcvq'[e] = rcvq[e]
      BY <1>0, <3>1 DEF For
    <3>3. Range(rcvq[d] \o a) = Range(rcvq[d]) \cup Range(a)
      BY <1>0, ConcatFacts
    <3> QED
      BY <3>2, <3>3
  <2>6. \A e \in Dirs : \A x : x \in Unread(e)' => x \in Unread(e)
    <3> SUFFICES ASSUME NEW e \in Dirs, NEW x, x \in Unread(e)' PROVE x \in Unread(e)
      OBVIOUS
    <3>1. PICK i \in nin'[e] + 1 .. Len(Input[e]) : Input[e][i] = x
      BY DEF Unread
    <3>2. nin[e] <= nin'[e] /\ nin[e] \in Nat /\ nin'[e] \in Nat /\ Len(Input[e]) \in Nat
      <4>1. nin' = For(nin, d, Len(s)) /\ Input[e] \in Seq(Packets)
        BY <2>1, <2>2, SessionAssumption
      <4>2. nin'[d] = Len(s) /\ (e # d => nin'[e] = nin[e])
        BY <1>0, <4>1 DEF For
      <4>3. nin[e] \in Nat /\ nin'[e] \in Nat /\ Len(Input[e]) \in Nat
        BY <1>0, <4>1
      <4> QED
        BY <2>2, <4>2, <4>3
    <3>3. i \in nin[e] + 1 .. Len(Input[e])
      BY <3>2
    <3> QED
      BY <3>1, <3>3 DEF Unread
  <2> QED
    BY <2>1, <2>4, <2>5, <2>6 DEF Known, Here, Coming
<1>6. CASE Writing
  <2>1a. PICK d \in Dirs, q \in Seq(Packets) : \E n : Queue(d, q) /\ Sends(d, q, n)
    BY <1>6, WritingSends
  <2>1. PICK n : d \in Dirs /\ q \in Seq(Packets) /\ Queue(d, q) /\ Sends(d, q, n)
    BY <2>1a
  <2>2. UNCHANGED <<nin, rcvq>> /\ n \in 0 .. Len(q)
    BY <2>1 DEF Sends
  <2>3. \A x \in Range(q) : x \in Range(pq[d]) \/ x \in Range(dq)
    <3>1. CASE q = pq[d]
      BY <3>1
    <3>2. ASSUME NEW p \in Range(dq), q = Append(pq[d], p) PROVE \A x \in Range(q) : x \in Range(pq[d]) \/ x \in Range(dq)
      <4>1. p \in Packets /\ pq[d] \in Seq(Packets)
        BY <1>0, RangeFacts
      <4>2. Range(Append(pq[d], p)) = Range(pq[d]) \cup {p}
        BY <4>1, AppendFacts
      <4> QED
        BY <3>2, <4>2
    <3> QED
      BY <2>1, <3>1, <3>2 DEF Queue
  <2>4. Range(dq') \subseteq Range(dq)
    BY <2>1 DEF Queue
  <2>5. pq'[d] = After(q, n) /\ \A e \in Dirs : e # d => pq'[e] = pq[e]
    BY <1>0, <2>1 DEF Sends, For
  <2>6. Range(After(q, n)) \subseteq Range(q)
    <3>1. n \in Nat /\ n <= Len(q) /\ Len(q) \in Nat
      BY <2>2
    <3>2. PICK a \in Seq(Packets) : a = After(q, n) /\ Len(a) = Len(q) - n /\ \A i \in 1 .. Len(a) : a[i] = q[i + n]
      BY <3>1, AfterFacts
    <3>3. \A i \in 1 .. Len(a) : i + n \in 1 .. Len(q)
      BY <3>1, <3>2
    <3>4. \A x \in Range(a) : \E i \in 1 .. Len(a) : a[i] = x
      BY RangeFacts
    <3>5. \A i \in 1 .. Len(q) : q[i] \in Range(q)
      BY RangeFacts
    <3> QED
      BY <3>2, <3>3, <3>4, <3>5
  <2> QED
    BY <1>1, <2>2, <2>3, <2>4, <2>5, <2>6 DEF Known, Here, Coming
<1> QED
  BY <1>2, <1>3, <1>4, <1>5, <1>6 DEF Next, Callback, Writing

\* What is written was in a list once, and is in none afterwards.
LEMMA WritingOnce == ASSUME AInv, AInv', Once, Writing PROVE Once'
<1>1. /\ IInv /\ IInv' /\ Dead /\ Aligned /\ Types /\ dq \in Seq(Packets) /\ rcvq \in [Dirs -> Seq(Packets)]
      /\ wire \in [Dirs -> Seq(Packets)] /\ pq \in [Dirs -> Seq(Packets)] /\ nin \in [Dirs -> Nat]
  BY DEF AInv, IInv, Types
<1>2a. PICK d \in Dirs, q \in Seq(Packets) : \E n : Queue(d, q) /\ Sends(d, q, n)
  BY <1>1, WritingSends
<1>2. PICK n : d \in Dirs /\ q \in Seq(Packets) /\ Queue(d, q) /\ Sends(d, q, n)
  BY <1>2a
<1>3. UNCHANGED <<nin, rcvq>> /\ n \in 0 .. Len(q) /\ n \in Int
  BY <1>2 DEF Sends
<1>4. \A x \in Range(q) : x \in Packets /\ (x \in Range(pq[d]) \/ x \in Range(dq)) /\ IsInjective(q)
  <2>1. CASE q = pq[d]
    BY <1>1, <2>1, RangeFacts DEF IInv, Single
  <2>2. ASSUME NEW p \in Range(dq), q = Append(pq[d], p)
        PROVE  \A x \in Range(q) : x \in Packets /\ (x \in Range(pq[d]) \/ x \in Range(dq)) /\ IsInjective(q)
    <3>1. p \in Packets /\ pq[d] \in Seq(Packets) /\ IsInjective(pq[d]) /\ Range(pq[d]) \subseteq Packets
      BY <1>1, RangeFacts DEF IInv, Single
    <3>2. p \notin Range(pq[d])
      BY <1>1 DEF IInv, Linked, Apart, Ranges
    <3>3. Range(Append(pq[d], p)) = Range(pq[d]) \cup {p} /\ IsInjective(Append(pq[d], p))
      BY <3>1, <3>2, AppendFacts
    <3> QED
      BY <2>2, <3>1, <3>3
  <2> QED
    BY <1>2, <2>1, <2>2 DEF Queue
<1>5. PICK f \in Seq(Packets) : f = First(q, n) /\ Range(f) \subseteq Range(q) /\ IsInjective(f)
  <2>1. CASE Range(q) = {}
    <3>1. q = <<>>
      BY <2>1, RangeFacts
    <3>2. First(q, n) = q
      BY <1>3, <3>1 DEF First, Smaller
    <3> QED
      BY <3>1, <3>2, EmptyFacts
  <2>2. CASE Range(q) # {}
    BY <1>3, <1>4, <2>2, FirstFacts, FirstInjective
  <2> QED
    BY <2>1, <2>2
<1>6. wire'[d] = Cat(wire[d], f) /\ \A e \in Dirs : e # d => wire'[e] = wire[e]
  BY <1>1, <1>2, <1>5, SendsThrough
<1>7. \A x \in Range(f) : ~Known(x)'
  <2> SUFFICES ASSUME NEW x \in Range(f), Known(x)' PROVE FALSE
    OBVIOUS
  <2>1. x \in Packets /\ (x \in Range(pq[d]) \/ x \in Range(dq))
    BY <1>4, <1>5
  <2>2. Apart(Range(dq), Ranges(rcvq), Ranges(pq), Unreads, refc)
    BY <1>1 DEF IInv, Linked
  <2>3. \A e \in Dirs : /\ Ranges(rcvq)[e] = Range(rcvq[e]) /\ Ranges(pq)[e] = Range(pq[e]) /\ Unreads[e] = Unread(e)
                        /\ \A p \in Unread(e) : p \in Range(Input[e])
    BY <1>1, RangesFacts, UnreadFacts
  <2>4. \A e \in Dirs : x \notin Unread(e)
    BY <2>1, <2>2, <2>3 DEF Apart
  <2>5. \A z : Coming(z) => x \notin Injected(z)
    <3>1. \A e \in Dirs : \A z : z \in Range(rcvq[e]) \/ z \in Unread(e) => Unmade(z, Range(dq), Ranges(pq))
      BY <2>2, <2>3 DEF Apart
    <3> QED
      BY <2>1, <2>3, <3>1 DEF Coming, Unmade
  <2>6. refc[x] = 1
    BY <2>1, <2>2, <2>3 DEF Apart, InList
  <2>7. refc'[x] = 0
    <3>1. refc'[x] = refc[x] - 1
      BY <1>2, <1>5, <2>1 DEF Sends
    <3> QED
      BY <2>6, <3>1
  <2>8. ~InList(x, Range(dq'), Ranges(rcvq'), Ranges(pq'))
    <3>1. Apart(Range(dq'), Ranges(rcvq'), Ranges(pq'), Unreads', refc')
      BY <1>1 DEF IInv, Linked, Ranges
    <3> QED
      BY <2>1, <2>7, <3>1 DEF Apart
  <2>9. x \notin Range(dq') /\ \A e \in Dirs : x \notin Range(rcvq'[e]) /\ x \notin Range(pq'[e])
    <3>1. \A e \in Dirs : Ranges(rcvq')[e] = Range(rcvq'[e]) /\ Ranges(pq')[e] = Range(pq'[e])
      BY DEF Ranges
    <3> QED
      BY <2>8, <3>1 DEF InList
  <2>10. \A e \in Dirs : Unread(e)' = Unread(e)
    BY <1>3 DEF Unread
  <2>11. \A z : Coming(z)' => Coming(z)
    BY <1>3, <2>10 DEF Coming
  <2> QED
    BY <2>4, <2>5, <2>9, <2>10, <2>11 DEF Known, Here
<1>8. \A x \in Range(f) : Known(x)
  BY <1>4, <1>5 DEF Known, Here
<1>9. \A x : Known(x)' => Known(x)
  <2>1. [Next]_vars
    BY DEF Next, Callback, Writing
  <2> QED
    BY <1>1, <2>1, NextKnown
<1>10. Range(wire'[d]) = Range(wire[d]) \cup Range(f) /\ IsInjective(wire'[d])
  <2>1. IsInjective(wire[d]) /\ Range(wire[d]) \cap Range(f) = {}
    BY <1>8 DEF Once
  <2>2. wire[d] \in Seq(Packets)
    BY <1>1
  <2>3. PICK w \in Seq(Packets) : w = wire[d]
    BY <2>2
  <2>4. Range(w \o f) = Range(w) \cup Range(f) /\ IsInjective(w \o f)
    BY <1>5, <2>1, <2>3, ConcatFacts
  <2>5. wire'[d] = w \o f
    BY <1>6, <2>3 DEF Cat
  <2> QED
    BY <2>3, <2>4, <2>5
<1> QED
  BY <1>6, <1>7, <1>9, <1>10 DEF Once

LEMMA NextOnce == ASSUME AInv, AInv', Once, [Next]_vars PROVE Once'
<1>1. CASE Writing
  BY <1>1, WritingOnce
<1>2. CASE World \/ filter \/ Check \/ (\E d \in Dirs : ReadEvent(d)) \/ UNCHANGED vars
  <2>1. wire' = wire
    BY <1>2, ZenonT(60) DEF World, PeerSend, PeerRead, PeerShutdown, PeerGone, filter, Check, ReadEvent, vars, world
  <2>2. \A x : Known(x)' => Known(x)
    BY NextKnown DEF AInv
  <2> QED
    BY <2>1, <2>2 DEF Once
<1> QED
  BY <1>1, <1>2 DEF Next, Callback, Writing

\* Then sendq::send writes no packet twice either, injected ones included.
THEOREM AlignedSentOnce == AlignedSpec => []SentOnce
<1>1. Init => Once
  <2> SUFFICES ASSUME Init PROVE Once
    OBVIOUS
  <2>1. \A d \in Dirs : wire[d] = <<>>
    BY Zenon DEF Init, Everywhere
  <2> QED
    BY <2>1, EmptyFacts DEF Once
<1>2. AInv /\ AInv' /\ Once /\ [Next]_vars => Once'
  BY NextOnce
<1>3. AInv /\ Once => SentOnce
  <2> SUFFICES ASSUME AInv, Once, NEW d \in Dirs
               PROVE  \A i, j \in 1 .. Len(wire[d]) : wire[d][i] = wire[d][j] => i = j
    BY DEF SentOnce
  <2>1. wire[d] \in Seq(Packets) /\ IsInjective(wire[d])
    BY DEF AInv, IInv, Types, Once
  <2> QED
    BY <2>1, RangeFacts
<1>4. [Next /\ Aligned']_vars => [Next]_vars
  OBVIOUS
<1> QED
  BY <1>1, <1>2, <1>3, <1>4, AlignedAInv, PTL DEF AlignedSpec
=============================================================================
