-------------------------- MODULE RecvQueueProofs --------------------------
(***************************************************************************)
(* Proofs about RecvQueue, for every stream of frames whatever their       *)
(* lengths, every size of the header and every size of the buffer.         *)
(***************************************************************************)
EXTENDS RecvQueue, NatFacts, TLAPS

\* Frame i of which the first n bytes have been read.
Part(i, n) == [len |-> Frames[i],
               data |-> [j \in 0 .. Frames[i] - 1 |-> IF j < n THEN Start[i] + j ELSE Unset]]

\* The frame that is being read, and the place in the stream up to which bytes
\* have been put into packets or kept.
Cur == Len(pq) + 1
Place == Start[Cur] + rd_pos

\* A place r in a frame of length n behind its header and before its end, if it
\* has room for both.
Inside(r, n) == HDR <= r /\ (r < n \/ (r = HDR /\ n < HDR))

\* The packets that were pushed are the first frames, and the packet that is
\* being read is a part of the next one that has its header and is not complete,
\* or has nothing but a header too long for it.
Parsed ==
    /\ pq \in Seq({Frame(i) : i \in 1 .. Len(Frames)})
    /\ FramesRecovered
    /\ rd_pos \in Nat
    /\ rd # NULL => /\ Len(pq) < Len(Frames) /\ rd = Part(Cur, rd_pos)
                    /\ Inside(rd_pos, Frames[Cur])
    /\ rd = NULL => rd_pos < HDR

\* The first r bytes of a header buffer are those of the stream from place s on.
Begins(a, s, r) ==
    a \in [0 .. HDR - 1 -> Int] /\ \A j \in 0 .. r - 1 : a[j] = s + j

\* Outside a packet, the beginning of a header that has been read is in rd_buf.
HeaderKept ==
    /\ rd_buf \in [0 .. HDR - 1 -> Int]
    /\ rd = NULL => Begins(rd_buf, Start[Cur], rd_pos)
    /\ phase = "extract" /\ rd = NULL => rd_pos = 0

\* Every byte taken from the socket is in a packet, kept, or left in buf.
Accounted ==
    /\ pos \in 0 .. StreamLen /\ from \in Nat /\ bytes \in Nat
    /\ phase \in {"idle", "read", "extract", "overrun"}
    /\ phase = "extract" => from = Place /\ pos = from + bytes /\ bytes > 0
    /\ phase \in {"idle", "read"} => pos = Place
    /\ phase = "overrun" => Beyond

IInv == Parsed /\ HeaderKept /\ Accounted
-----------------------------------------------------------------------------

\* A frame has at least its header.
LEMMA SizeProperties ==
    /\ Len(Frames) \in Nat /\ HDR \in Nat
    /\ \A i \in 1 .. Len(Frames) : Size(i) \in Nat /\ Size(i) >= HDR
BY RecvQueueAssumption DEF Size

\* There is a function that adds the sizes of the frames up.
LEMMA StartExists ==
    \E f \in [1 .. Len(Frames) + 1 -> Nat] :
        f = [i \in 1 .. Len(Frames) + 1 |-> IF i = 1 THEN 0 ELSE f[i - 1] + Size(i - 1)]
<1> DEFINE Sums(n, f) == f[1] = 0 /\ \A i \in 2 .. n + 1 : f[i] = f[i - 1] + Size(i - 1)
           S == {n \in Nat : n <= Len(Frames) => \E f \in [1 .. n + 1 -> Nat] : Sums(n, f)}
<1>1. 0 \in S
  <2>1. [i \in 1 .. 0 + 1 |-> 0] \in [1 .. 0 + 1 -> Nat] /\ Sums(0, [i \in 1 .. 0 + 1 |-> 0])
    OBVIOUS
  <2> QED
    BY <2>1
<1>2. ASSUME NEW n \in Nat, n \in S PROVE n + 1 \in S
  <2> SUFFICES ASSUME n + 1 <= Len(Frames)
               PROVE  \E g \in [1 .. n + 2 -> Nat] : Sums(n + 1, g)
    OBVIOUS
  <2>1. Len(Frames) \in Nat /\ Size(n + 1) \in Nat
    BY SizeProperties
  <2>2. PICK f \in [1 .. n + 1 -> Nat] : Sums(n, f)
    BY <1>2, <2>1
  <2> DEFINE g == [i \in 1 .. n + 2 |-> IF i = n + 2 THEN f[n + 1] + Size(n + 1) ELSE f[i]]
  <2>3. g \in [1 .. n + 2 -> Nat]
    BY <2>1, <2>2
  <2>4. g[n + 2] = f[n + 1] + Size(n + 1) /\ \A i \in 1 .. n + 1 : g[i] = f[i]
    <3>1. n + 2 \in 1 .. n + 2 /\ \A i \in 1 .. n + 1 : i \in 1 .. n + 2 /\ i # n + 2
      OBVIOUS
    <3> QED
      BY <3>1, Zenon
  <2> HIDE DEF g
  <2>5. Sums(n + 1, g)
    <3>1. g[1] = 0
      BY <2>2, <2>4
    <3>2. ASSUME NEW i \in 2 .. n + 2 PROVE g[i] = g[i - 1] + Size(i - 1)
      <4>1. CASE i = n + 2
        BY <2>4, <4>1
      <4>2. CASE i # n + 2
        <5>1. i \in 2 .. n + 1 /\ i \in 1 .. n + 1 /\ i - 1 \in 1 .. n + 1
          BY <4>2
        <5> QED
          BY <2>2, <2>4, <5>1
      <4> QED
        BY <4>1, <4>2
    <3> QED
      BY <3>1, <3>2
  <2> QED
    BY <2>3, <2>5
<1>3. Len(Frames) \in Nat
  BY SizeProperties
<1>4. Len(Frames) \in S
  <2> HIDE DEF S
  <2> QED
    BY <1>1, <1>2, <1>3, NatInd
<1>5. PICK f \in [1 .. Len(Frames) + 1 -> Nat] : Sums(Len(Frames), f)
  BY <1>3, <1>4
<1>6. ASSUME NEW i \in 1 .. Len(Frames) + 1
      PROVE  f[i] = IF i = 1 THEN 0 ELSE f[i - 1] + Size(i - 1)
  BY <1>3, <1>5
<1>7. f = [i \in 1 .. Len(Frames) + 1 |-> IF i = 1 THEN 0 ELSE f[i - 1] + Size(i - 1)]
  BY <1>6
<1> QED
  BY <1>7

\* Start is that function.
LEMMA StartDef ==
    Start = [i \in 1 .. Len(Frames) + 1 |-> IF i = 1 THEN 0 ELSE Start[i - 1] + Size(i - 1)]
BY StartExists, Zenon DEF Start

\* Where the frames start.
LEMMA StartProperties ==
    /\ Start \in [1 .. Len(Frames) + 1 -> Nat]
    /\ Start[1] = 0
    /\ \A i \in 1 .. Len(Frames) : Start[i + 1] = Start[i] + Size(i)
<1>1. Len(Frames) \in Nat /\ \A i \in 1 .. Len(Frames) : Size(i) \in Nat
  BY SizeProperties
<1> DEFINE S == {n \in Nat : n + 1 <= Len(Frames) + 1 => Start[n + 1] \in Nat}
<1>2. \A i \in 1 .. Len(Frames) + 1 : Start[i] = IF i = 1 THEN 0 ELSE Start[i - 1] + Size(i - 1)
  BY StartDef
<1>3. Start[1] = 0
  BY <1>1, <1>2
<1>4. ASSUME NEW i \in 1 .. Len(Frames) PROVE Start[i + 1] = Start[i] + Size(i)
  <2>1. i + 1 \in 1 .. Len(Frames) + 1 /\ i + 1 # 1 /\ (i + 1) - 1 = i
    BY <1>1
  <2> QED
    BY <1>2, <2>1
<1>5. 0 \in S
  BY <1>3
<1>6. ASSUME NEW n \in Nat, n \in S PROVE n + 1 \in S
  <2> SUFFICES ASSUME n + 2 <= Len(Frames) + 1 PROVE Start[(n + 1) + 1] \in Nat
    BY <1>1
  <2>1. n + 1 \in 1 .. Len(Frames)
    BY <1>1
  <2>2. Start[(n + 1) + 1] = Start[n + 1] + Size(n + 1)
    BY <1>4, <2>1
  <2>3. Start[n + 1] \in Nat
    BY <1>1, <1>6
  <2> QED
    BY <1>1, <2>1, <2>2, <2>3
<1>7. Nat \subseteq S
  <2> HIDE DEF S
  <2> QED
    BY <1>5, <1>6, NatInd
<1>8. ASSUME NEW i \in 1 .. Len(Frames) + 1 PROVE Start[i] \in Nat
  <2>1. i - 1 \in Nat /\ (i - 1) + 1 = i /\ i <= Len(Frames) + 1
    BY <1>1
  <2>2. i - 1 \in S
    BY <1>7, <2>1
  <2> QED
    BY <2>1, <2>2
<1>9. Start \in [1 .. Len(Frames) + 1 -> Nat]
  BY <1>8, StartDef
<1> QED
  BY <1>3, <1>4, <1>9

\* A later frame starts after all of an earlier one.
LEMMA StartGrows ==
    \A i, j \in 1 .. Len(Frames) + 1 : i < j => Start[i] + HDR <= Start[j]
<1>1. Len(Frames) \in Nat /\ HDR \in Nat
      /\ \A i \in 1 .. Len(Frames) : Size(i) \in Nat /\ Size(i) >= HDR
  BY SizeProperties
<1> SUFFICES ASSUME NEW i \in 1 .. Len(Frames) + 1
             PROVE  \A j \in 1 .. Len(Frames) + 1 : i < j => Start[i] + HDR <= Start[j]
  OBVIOUS
<1> DEFINE S == {n \in Nat : i + 1 + n <= Len(Frames) + 1 => Start[i] + HDR <= Start[i + 1 + n]}
<1>2. 0 \in S
  <2> SUFFICES ASSUME i + 1 <= Len(Frames) + 1 PROVE Start[i] + HDR <= Start[i + 1]
    BY <1>1
  <2>1. i \in 1 .. Len(Frames)
    BY <1>1
  <2> QED
    BY <1>1, <2>1, StartProperties, SMTT(60)
<1>3. ASSUME NEW n \in Nat, n \in S PROVE n + 1 \in S
  <2> SUFFICES ASSUME i + 1 + (n + 1) <= Len(Frames) + 1
               PROVE  Start[i] + HDR <= Start[i + 1 + (n + 1)]
    OBVIOUS
  <2> DEFINE k == i + 1 + n
  <2>1. k \in 1 .. Len(Frames) /\ i + 1 + (n + 1) = k + 1 /\ k <= Len(Frames) + 1
        /\ k \in 1 .. Len(Frames) + 1
    BY <1>1
  <2>2. Start[i] + HDR <= Start[k]
    BY <1>3, <2>1
  <2> HIDE DEF k
  <2>3. Start[k + 1] = Start[k] + Size(k) /\ Start[k] \in Nat /\ Start[i] \in Nat
    BY <1>1, <2>1, StartProperties
  <2>4. Start[i] + HDR <= Start[k + 1]
    BY <1>1, <2>1, <2>2, <2>3, SMTT(60)
  <2> QED
    BY <2>1, <2>4
<1>4. Nat \subseteq S
  <2> HIDE DEF S
  <2> QED
    BY <1>2, <1>3, NatInd
<1>5. ASSUME NEW j \in 1 .. Len(Frames) + 1, i < j PROVE Start[i] + HDR <= Start[j]
  <2>1. j - i - 1 \in Nat /\ i + 1 + (j - i - 1) = j
    BY <1>1, <1>5
  <2>2. j - i - 1 \in S
    BY <1>4, <2>1
  <2> QED
    BY <2>1, <2>2
<1> QED
  BY <1>5

\* The header of frame i tells its length: no two frames start at one place.
LEMMA LengthOfFrame ==
    ASSUME NEW i \in 1 .. Len(Frames)
    PROVE  LengthIn(HeaderAt(Start[i])) = Frames[i]
<1>1. Len(Frames) \in Nat /\ HDR \in Nat \ {0}
  BY RecvQueueAssumption
<1>2. ASSUME NEW k \in 1 .. Len(Frames), HeaderAt(Start[i]) = HeaderAt(Start[k])
      PROVE  k = i
  <2>1. i \in 1 .. Len(Frames) + 1 /\ k \in 1 .. Len(Frames) + 1
    BY <1>1
  <2>2. Start[i] \in Nat /\ Start[k] \in Nat
    BY <2>1, StartProperties
  <2>3. HeaderAt(Start[i])[0] = Start[i] /\ HeaderAt(Start[k])[0] = Start[k]
    BY <1>1, <2>2 DEF HeaderAt
  <2>4. ~ (i < k) /\ ~ (k < i)
    BY <1>1, <1>2, <2>1, <2>2, <2>3, StartGrows
  <2> QED
    BY <2>1, <2>4
<1>3. (CHOOSE k \in 1 .. Len(Frames) : HeaderAt(Start[i]) = HeaderAt(Start[k])) = i
  BY <1>2
<1> QED
  BY <1>3 DEF LengthIn
-----------------------------------------------------------------------------
LEMMA Consts ==
    /\ HDR \in Nat /\ HDR > 0 /\ Len(Frames) \in Nat
    /\ \A i \in 1 .. Len(Frames) : Frames[i] \in Nat
BY RecvQueueAssumption

\* Where the frame that is being read starts, and how much of the stream follows.
LEMMA CurStart ==
    ASSUME Parsed
    PROVE  /\ Cur \in 1 .. Len(Frames) + 1 /\ Len(pq) \in Nat
           /\ Start[Cur] \in Nat /\ Place \in Nat
           /\ Len(pq) < Len(Frames) => /\ Cur \in 1 .. Len(Frames)
                                       /\ Start[Cur + 1] = Start[Cur] + Size(Cur)
                                       /\ Frames[Cur] \in Nat
           /\ ~ (Len(pq) < Len(Frames)) => Start[Cur] = StreamLen
<1>1. Len(pq) \in Nat /\ Len(pq) <= Len(Frames) /\ rd_pos \in Nat
  BY DEF Parsed, FramesRecovered
<1>2. Cur \in 1 .. Len(Frames) + 1
  BY <1>1, Consts DEF Cur
<1>3. Start[Cur] \in Nat
  BY <1>2, StartProperties
<1>4. Len(pq) < Len(Frames) => Cur \in 1 .. Len(Frames)
  BY <1>1, Consts DEF Cur
<1>5. ~ (Len(pq) < Len(Frames)) => Cur = Len(Frames) + 1
  BY <1>1, Consts DEF Cur
<1> QED
  BY <1>1, <1>2, <1>3, <1>4, <1>5, StartProperties, Consts, SMTT(60) DEF Place, StreamLen

\* A part is a packet, and a part that is complete is the frame.
LEMMA PartProperties ==
    ASSUME NEW i \in 1 .. Len(Frames), NEW n \in Nat
    PROVE  /\ Part(i, n).len = Frames[i]
           /\ Part(i, n) # NULL
           /\ Part(i, Frames[i]) = Frame(i)
<1>1. Part(i, n).len = Frames[i]
  BY DEF Part
<1>2. Part(i, n) # NULL
  <2>1. NULL.len = -1
    BY DEF NULL, Unset
  <2> QED
    BY <1>1, <2>1, Consts
<1>3. Part(i, Frames[i]) = Frame(i)
  <2>1. [j \in 0 .. Frames[i] - 1 |-> IF j < Frames[i] THEN Start[i] + j ELSE Unset]
        = [j \in 0 .. Frames[i] - 1 |-> Start[i] + j]
    BY Consts
  <2> QED
    BY <2>1 DEF Part, Frame
<1> QED
  BY <1>1, <1>2, <1>3

\* pkt_new makes a part of the header of a frame.
LEMMA NewPart ==
    ASSUME NEW i \in 1 .. Len(Frames)
    PROVE  pkt_new(HeaderAt(Start[i])) = Part(i, HDR)
<1>1. LengthIn(HeaderAt(Start[i])) = Frames[i]
  BY LengthOfFrame
<1>2. \A j \in 0 .. Frames[i] - 1 :
        (IF j < HDR THEN HeaderAt(Start[i])[j] ELSE Unset) = IF j < HDR THEN Start[i] + j ELSE Unset
  BY Consts DEF HeaderAt
<1> QED
  BY <1>1, <1>2 DEF pkt_new, Part

\* Copying the next bytes of a frame into a part makes it a longer part.
LEMMA CopyPart ==
    ASSUME NEW i \in 1 .. Len(Frames), NEW n \in Nat, NEW c \in Nat, Start[i] \in Nat
    PROVE  [Part(i, n) EXCEPT !.data = Copied(@, n, Start[i] + n, c)] = Part(i, n + c)
<1> DEFINE D(m) == [j \in 0 .. Frames[i] - 1 |-> IF j < m THEN Start[i] + j ELSE Unset]
<1>1. Copied(D(n), n, Start[i] + n, c) = D(n + c)
  <2>1. DOMAIN D(n) = 0 .. Frames[i] - 1
    OBVIOUS
  <2>2. ASSUME NEW j \in 0 .. Frames[i] - 1
        PROVE  (IF j \in n .. n + c - 1 THEN Start[i] + n + j - n ELSE D(n)[j]) = D(n + c)[j]
    BY Consts
  <2> QED
    BY <2>1, <2>2 DEF Copied
<1>2. Part(i, n) = [len |-> Frames[i], data |-> D(n)]
      /\ Part(i, n + c) = [len |-> Frames[i], data |-> D(n + c)]
  BY DEF Part
<1> HIDE DEF D
<1>3. [Part(i, n) EXCEPT !.data = Copied(@, n, Start[i] + n, c)]
      = [len |-> Frames[i], data |-> Copied(D(n), n, Start[i] + n, c)]
  BY <1>2
<1> QED
  BY <1>1, <1>2, <1>3

\* Copying the next bytes of a header into rd_buf keeps those that were there.
LEMMA CopyHeader ==
    ASSUME NEW a, NEW s \in Nat, NEW r \in Nat, NEW n \in Nat,
           Begins(a, s, r), r + n <= HDR
    PROVE  Begins(Copied(a, r, s + r, n), s, r + n)
<1> DEFINE b == [j \in 0 .. HDR - 1 |-> IF j \in r .. r + n - 1 THEN s + r + j - r ELSE a[j]]
<1>1. Copied(a, r, s + r, n) = b
  BY DEF Copied, Begins
<1>2. b \in [0 .. HDR - 1 -> Int]
  BY Consts DEF Begins
<1>3. ASSUME NEW j \in 0 .. r + n - 1 PROVE b[j] = s + j
  <2>1. j \in 0 .. HDR - 1
    BY Consts
  <2>2. CASE j \in r .. r + n - 1
    BY <2>1, <2>2
  <2>3. CASE j \in 0 .. r - 1
    BY <2>1, <2>3 DEF Begins
  <2> QED
    BY <2>2, <2>3
<1> HIDE DEF b
<1>4. Begins(b, s, r + n)
  BY <1>2, <1>3 DEF Begins
<1> QED
  BY <1>1, <1>4, Zenon

\* A header that is there to its last byte is the one at its place.
LEMMA WholeHeader == ASSUME NEW a, NEW s, Begins(a, s, HDR) PROVE a = HeaderAt(s)
BY DEF Begins, HeaderAt

\* A part of the current frame is pushed when it is complete, and the place in
\* the stream is the one after the part either way.
LEMMA PushParsed ==
    ASSUME Parsed, Len(pq) < Len(Frames), NEW n \in Nat,
           (n = Frames[Cur] /\ HDR <= n) \/ Inside(n, Frames[Cur]),
           PushIfFull(Part(Cur, n), n)
    PROVE  /\ Parsed'
           /\ Place' = Start[Cur] + n
           /\ rd' = NULL => rd_pos' = 0
<1> DEFINE i == Cur
<1>1. /\ i \in 1 .. Len(Frames) /\ i = Len(pq) + 1 /\ Len(pq) \in Nat /\ Start[i] \in Nat
      /\ Start[i + 1] = Start[i] + Size(i) /\ Frames[i] \in Nat
  BY CurStart DEF Cur
<1>2. Part(i, n).len = Frames[i] /\ Part(i, n) # NULL /\ Part(i, Frames[i]) = Frame(i)
  BY <1>1, PartProperties
<1> HIDE DEF i
<1>3. CASE n = Frames[i]
  <2>1. pq' = Append(pq, Frame(i)) /\ rd' = NULL /\ rd_pos' = 0
    BY <1>2, <1>3 DEF PushIfFull, i
  <2>2. pq \in Seq({Frame(k) : k \in 1 .. Len(Frames)}) /\ Frame(i) \in {Frame(k) : k \in 1 .. Len(Frames)}
    BY <1>1 DEF Parsed
  <2>3. /\ pq' \in Seq({Frame(k) : k \in 1 .. Len(Frames)})
        /\ Len(pq') = Len(pq) + 1 /\ pq'[Len(pq) + 1] = Frame(i)
        /\ \A k \in 1 .. Len(pq) : pq'[k] = pq[k]
    BY <2>1, <2>2
  <2>4. FramesRecovered'
    <3>1. Len(pq') <= Len(Frames)
      BY <1>1, <2>3, Consts
    <3>2. ASSUME NEW k \in 1 .. Len(pq') PROVE pq'[k] = Frame(k)
      <4>1. k = i \/ k \in 1 .. Len(pq)
        BY <1>1, <2>3
      <4> QED
        BY <1>1, <2>3, <4>1 DEF Parsed, FramesRecovered
    <3> QED
      BY <3>1, <3>2 DEF FramesRecovered, Frame
  <2>5. Place' = Start[i] + n
    <3>1. HDR <= n
      BY <1>3 DEF Inside, i
    <3>2. Size(i) = n
      BY <1>1, <1>3, <3>1, Consts DEF Size
    <3>3. Cur' = i + 1
      BY <1>1, <2>3 DEF Cur
    <3> QED
      BY <1>1, <2>1, <3>2, <3>3 DEF Place
  <2>6. Parsed'
    BY <2>1, <2>3, <2>4, Consts DEF Parsed
  <2> QED
    BY <2>1, <2>5, <2>6 DEF i
<1>4. CASE n # Frames[i]
  <2>1. pq' = pq /\ rd' = Part(i, n) /\ rd_pos' = n
    BY <1>2, <1>4 DEF PushIfFull, i
  <2>2. Cur' = Cur /\ FramesRecovered'
    BY <2>1 DEF Cur, Parsed, FramesRecovered
  <2>3. Place' = Start[i] + n
    BY <2>1, <2>2 DEF Place, i
  <2>4. Inside(n, Frames[i])
    BY <1>4 DEF i
  <2>5. Parsed'
    BY <1>1, <1>2, <2>1, <2>2, <2>4 DEF Parsed, i
  <2> QED
    BY <1>2, <2>1, <2>3, <2>5 DEF i
<1> QED
  BY <1>3, <1>4

\* Where the code computes rd->len - rd_pos and that is not too small, the packet
\* being read has its header and is not complete.
LEMMA NotBeyond ==
    ASSUME IInv, rd # NULL, ~Beyond
    PROVE  /\ Len(pq) < Len(Frames) /\ Cur \in 1 .. Len(Frames) /\ Frames[Cur] \in Nat
           /\ rd = Part(Cur, rd_pos) /\ rd.len = Frames[Cur]
           /\ rd_pos \in Nat /\ HDR <= rd_pos /\ rd_pos < Frames[Cur]
<1>1. /\ Len(pq) < Len(Frames) /\ rd = Part(Cur, rd_pos) /\ Inside(rd_pos, Frames[Cur])
      /\ rd_pos \in Nat
  BY DEF IInv, Parsed
<1>2. Cur \in 1 .. Len(Frames) /\ Frames[Cur] \in Nat
  BY <1>1, CurStart DEF IInv
<1>3. rd.len = Frames[Cur]
  BY <1>1, <1>2, PartProperties
<1>4. rd_pos <= Frames[Cur]
  BY <1>1, <1>2, <1>3 DEF Beyond
<1>5. HDR <= rd_pos /\ rd_pos < Frames[Cur]
  BY <1>1, <1>2, <1>4, Consts DEF Inside
<1> QED
  BY <1>1, <1>2, <1>3, <1>5
-----------------------------------------------------------------------------
LEMMA InitIInv == Init => IInv
<1> SUFFICES ASSUME Init PROVE IInv
  OBVIOUS
<1>1. Cur = 1 /\ Place = 0
  BY StartProperties DEF Init, Cur, Place
<1>2. Parsed
  BY Consts DEF Init, Parsed, FramesRecovered
<1>3. HeaderKept
  BY Consts DEF Init, HeaderKept, Begins, Unset
<1>4. StreamLen \in Nat
  <2>1. Len(Frames) + 1 \in 1 .. Len(Frames) + 1
    BY Consts
  <2> QED
    BY <2>1, StartProperties DEF StreamLen
<1>5. Accounted
  BY <1>1, <1>4 DEF Init, Accounted
<1> QED
  BY <1>2, <1>3, <1>5 DEF IInv

\* recv() is called and returns.
LEMMA CallIInv == ASSUME IInv, Recv \/ WouldBlock \/ Eof PROVE IInv'
<1>1. UNCHANGED <<pq, rd, rd_pos, rd_buf, pos, from, bytes>> /\ phase \in {"idle", "read"} /\ phase' \in {"idle", "read"}
  BY DEF Recv, WouldBlock, Eof
<1>2. Cur' = Cur /\ Place' = Place
  BY <1>1 DEF Cur, Place
<1>3. Parsed'
  BY <1>1, <1>2 DEF IInv, Parsed, FramesRecovered
<1>4. HeaderKept' /\ Accounted'
  BY <1>1, <1>2 DEF IInv, HeaderKept, Accounted
<1> QED
  BY <1>3, <1>4 DEF IInv

\* What follows a part that was pushed or is read on: rd_buf holds nothing.
LEMMA PushKept ==
    ASSUME rd' = NULL => rd_pos' = 0, rd_buf' \in [0 .. HDR - 1 -> Int]
    PROVE  HeaderKept'
BY DEF HeaderKept, Begins

\* readv returns less than is missing of the packet, or of the header.
LEMMA ReadvShort ==
    ASSUME IInv, NEW n \in 1 .. StreamLen - pos, Readv(n), n < Wanted
    PROVE  IInv'
<1>1. /\ phase = "read" /\ pos' = pos + n /\ rd_pos' = rd_pos + n
      /\ UNCHANGED <<pq, from, bytes, phase>>
      /\ pos = Place /\ pos \in 0 .. StreamLen /\ from \in Nat /\ bytes \in Nat
  BY DEF Readv, IInv, Accounted
<1>2. /\ Cur \in 1 .. Len(Frames) + 1 /\ Start[Cur] \in Nat /\ Cur' = Cur
      /\ rd_pos \in Nat /\ StreamLen \in Nat /\ n \in Nat /\ n > 0
  <2>1. Len(Frames) + 1 \in 1 .. Len(Frames) + 1
    BY Consts
  <2>2. StreamLen \in Nat
    BY <2>1, StartProperties DEF StreamLen
  <2> QED
    BY <1>1, <2>2, CurStart DEF IInv, Parsed, Cur
<1>3. Place' = Place + n
  BY <1>1, <1>2, SMTT(60) DEF Place
<1>4. Accounted'
  BY <1>1, <1>2, <1>3 DEF Accounted
<1>5. CASE rd # NULL
  <2>1. /\ rd' = [rd EXCEPT !.data = Copied(@, rd_pos, pos, n)] /\ UNCHANGED rd_buf
        /\ n < rd.len - rd_pos
    BY <1>5 DEF Readv, Wanted
  <2>2. /\ Len(pq) < Len(Frames) /\ rd = Part(Cur, rd_pos) /\ HDR <= rd_pos /\ rd_pos < Frames[Cur]
        /\ Cur \in 1 .. Len(Frames) /\ Frames[Cur] \in Nat
    BY <1>5, NotBeyond DEF Readv
  <2>3. rd.len = Frames[Cur]
    BY <1>5, NotBeyond DEF Readv
  <2>4. rd' = Part(Cur, rd_pos + n)
    BY <1>1, <1>2, <2>1, <2>2, CopyPart DEF Place
  <2>5. rd' # NULL
    BY <1>2, <2>2, <2>4, PartProperties
  <2>6. Parsed'
    <3>1. Inside(rd_pos', Frames[Cur]) /\ rd_pos' \in Nat
      BY <1>1, <1>2, <2>1, <2>2, <2>3, Consts, SMTT(60) DEF Inside
    <3>2. FramesRecovered' /\ pq' \in Seq({Frame(i) : i \in 1 .. Len(Frames)})
      BY <1>1 DEF IInv, Parsed, FramesRecovered
    <3> QED
      BY <1>1, <1>2, <2>2, <2>4, <2>5, <3>1, <3>2 DEF Parsed
  <2>7. HeaderKept'
    BY <2>1, <2>5, PushKept DEF IInv, HeaderKept
  <2> QED
    BY <1>4, <2>6, <2>7 DEF IInv
<1>6. CASE rd = NULL
  <2>1. /\ rd_buf' = Copied(rd_buf, rd_pos, pos, n) /\ UNCHANGED rd /\ n < HDR - rd_pos
    BY <1>6 DEF Readv, Wanted
  <2>2. rd_pos' < HDR
    BY <1>1, <1>2, <2>1, Consts
  <2>3. Parsed'
    BY <1>1, <1>2, <1>6, <2>1, <2>2 DEF IInv, Parsed, FramesRecovered
  <2>4. HeaderKept'
    <3>1. Begins(rd_buf, Start[Cur], rd_pos)
      BY <1>6 DEF IInv, HeaderKept
    <3>2. rd_pos + n <= HDR /\ pos = Start[Cur] + rd_pos
      BY <1>1, <1>2, <2>2, Consts DEF Place
    <3>3. Begins(Copied(rd_buf, rd_pos, Start[Cur] + rd_pos, n), Start[Cur], rd_pos + n)
      BY <1>2, <3>1, <3>2, CopyHeader
    <3>4. Begins(rd_buf', Start[Cur'], rd_pos')
      BY <1>1, <1>2, <2>1, <3>2, <3>3
    <3> QED
      BY <1>1, <3>4 DEF HeaderKept, Begins
  <2> QED
    BY <1>4, <2>3, <2>4 DEF IInv
<1> QED
  BY <1>5, <1>6

\* The rest of the stream holds a header only if there is another frame.
LEMMA MoreFrames ==
    ASSUME Parsed, NEW k \in Nat, Start[Cur] < k, k <= StreamLen
    PROVE  Len(pq) < Len(Frames)
BY CurStart

\* readv returns all that is missing of the packet or of the header, and perhaps more.
LEMMA ReadvFull ==
    ASSUME IInv, NEW n \in 1 .. StreamLen - pos, Readv(n), ~ (n < Wanted)
    PROVE  IInv'
<1>1. /\ phase = "read" /\ pos' = pos + n
      /\ from' = pos + Wanted /\ bytes' = n - Wanted
      /\ phase' = IF n = Wanted THEN "read" ELSE "extract"
      /\ pos = Place /\ pos \in 0 .. StreamLen
  BY DEF Readv, IInv, Accounted
<1>2. /\ Parsed /\ Cur \in 1 .. Len(Frames) + 1 /\ Start[Cur] \in Nat
      /\ rd_pos \in Nat /\ StreamLen \in Nat /\ n \in Nat /\ pos' \in 0 .. StreamLen
  <2>1. Len(Frames) + 1 \in 1 .. Len(Frames) + 1
    BY Consts
  <2>2. StreamLen \in Nat
    BY <2>1, StartProperties DEF StreamLen
  <2> QED
    BY <1>1, <2>2, CurStart DEF IInv, Parsed
<1>6. pos = Start[Cur] + rd_pos
  BY <1>1 DEF Place
<1>3. ASSUME Place' = pos + Wanted, Wanted \in Nat PROVE Accounted'
  BY <1>1, <1>2, <1>3 DEF Accounted
<1>4. CASE rd # NULL
  <2>1. /\ Len(pq) < Len(Frames) /\ rd = Part(Cur, rd_pos) /\ HDR <= rd_pos /\ rd_pos < Frames[Cur]
        /\ Cur \in 1 .. Len(Frames) /\ Frames[Cur] \in Nat
    BY <1>4, NotBeyond DEF Readv
  <2>2. rd.len = Frames[Cur]
    BY <1>4, NotBeyond DEF Readv
  <2>3. Wanted = Frames[Cur] - rd_pos /\ Wanted \in Nat /\ rd_pos + Wanted = Frames[Cur]
    BY <1>2, <1>4, <2>1, <2>2, SMTT(60) DEF Wanted
  <2>4. /\ PushIfFull([rd EXCEPT !.data = Copied(@, rd_pos, pos, Wanted)], rd.len)
        /\ UNCHANGED rd_buf
    BY <1>4 DEF Readv
  <2>5. [rd EXCEPT !.data = Copied(@, rd_pos, pos, Wanted)] = Part(Cur, Frames[Cur])
    <3>1. [Part(Cur, rd_pos) EXCEPT !.data = Copied(@, rd_pos, Start[Cur] + rd_pos, Wanted)]
          = Part(Cur, rd_pos + Wanted)
      BY <1>2, <2>1, <2>3, CopyPart, SMTT(60)
    <3> QED
      BY <1>6, <2>1, <2>3, <3>1
  <2>6. PushIfFull(Part(Cur, Frames[Cur]), Frames[Cur])
    BY <2>2, <2>4, <2>5
  <2>7. Parsed' /\ Place' = Start[Cur] + Frames[Cur] /\ (rd' = NULL => rd_pos' = 0)
    <3>1. HDR <= Frames[Cur]
      BY <1>2, <2>1, Consts
    <3> QED
      BY <1>2, <2>1, <2>6, <3>1, PushParsed
  <2>8. HeaderKept'
    BY <2>4, <2>7, PushKept DEF IInv, HeaderKept
  <2>9. Place' = pos + Wanted
    <3>1. Start[Cur] + Frames[Cur] = (Start[Cur] + rd_pos) + Wanted
      BY <1>2, <2>1, <2>3, SMTT(60)
    <3> QED
      BY <1>6, <2>7, <3>1
  <2> QED
    BY <1>3, <2>3, <2>7, <2>8, <2>9 DEF IInv
<1>5. CASE rd = NULL
  <2>1. /\ Wanted = HDR - rd_pos /\ Wanted \in Nat /\ rd_pos + Wanted = HDR
    BY <1>2, <1>5, Consts DEF Wanted, Parsed
  <2>2. Len(pq) < Len(Frames)
    <3>1. Start[Cur] < pos' /\ pos' <= StreamLen /\ pos' \in Nat
      <4>1. Wanted <= n /\ pos' = pos + n
        BY <1>1, <1>2, <2>1
      <4> QED
        BY <1>2, <1>6, <2>1, <4>1, Consts, SMTT(60)
    <3> QED
      BY <1>2, <3>1, MoreFrames
  <2>3. /\ Cur \in 1 .. Len(Frames) /\ Frames[Cur] \in Nat
        /\ (HDR = Frames[Cur] /\ HDR <= HDR) \/ Inside(HDR, Frames[Cur])
    BY <1>2, <2>2, CurStart, Consts DEF Inside
  <2>4. rd_buf' = Copied(rd_buf, rd_pos, pos, Wanted) /\ PushIfFull(pkt_new(rd_buf'), HDR)
    BY <1>5 DEF Readv
  <2>5. rd_buf' = HeaderAt(Start[Cur]) /\ rd_buf' \in [0 .. HDR - 1 -> Int]
    <3>1. Begins(rd_buf, Start[Cur], rd_pos)
      BY <1>5 DEF IInv, HeaderKept
    <3>2. rd_pos + Wanted <= HDR
      BY <2>1, Consts
    <3>3. Begins(Copied(rd_buf, rd_pos, Start[Cur] + rd_pos, Wanted), Start[Cur], rd_pos + Wanted)
      BY <1>2, <2>1, <3>1, <3>2, CopyHeader
    <3>4. Begins(rd_buf', Start[Cur], HDR)
      BY <1>6, <2>1, <2>4, <3>3
    <3> QED
      BY <3>4, WholeHeader DEF Begins
  <2>6. PushIfFull(Part(Cur, HDR), HDR)
    BY <2>3, <2>4, <2>5, NewPart
  <2>7. Parsed' /\ Place' = Start[Cur] + HDR /\ (rd' = NULL => rd_pos' = 0)
    BY <1>2, <2>2, <2>3, <2>6, PushParsed, Consts
  <2>8. HeaderKept'
    BY <2>5, <2>7, PushKept
  <2>9. Place' = pos + Wanted
    BY <1>2, <1>6, <2>1, <2>7, Consts, SMTT(60)
  <2> QED
    BY <1>3, <2>1, <2>7, <2>8, <2>9 DEF IInv
<1> QED
  BY <1>4, <1>5

\* One iteration over what readv left in buf.
LEMMA ExtractIInv == ASSUME IInv, Extract PROVE IInv'
<1>1. /\ phase = "extract" /\ from = Place /\ pos = from + bytes /\ bytes \in Nat /\ bytes > 0
      /\ pos \in 0 .. StreamLen /\ from \in Nat /\ UNCHANGED pos
      /\ phase' = IF bytes' = 0 THEN "read" ELSE "extract"
  BY DEF Extract, IInv, Accounted
<1>2. Parsed /\ Cur \in 1 .. Len(Frames) + 1 /\ Start[Cur] \in Nat /\ rd_pos \in Nat
  BY CurStart DEF IInv, Parsed
<1>3. ASSUME NEW c \in Nat, c <= bytes, Place' = from + c, from' = from + c, bytes' = bytes - c
      PROVE  Accounted'
  BY <1>1, <1>3 DEF Accounted
<1>4. CASE rd # NULL
  <2> DEFINE c == Smaller(bytes, rd.len - rd_pos)
  <2>1. /\ Len(pq) < Len(Frames) /\ rd = Part(Cur, rd_pos) /\ HDR <= rd_pos /\ rd_pos < Frames[Cur]
        /\ Cur \in 1 .. Len(Frames) /\ Frames[Cur] \in Nat
    BY <1>4, NotBeyond DEF Extract
  <2>2. rd.len = Frames[Cur]
    BY <1>4, NotBeyond DEF Extract
  <2>3. c \in Nat /\ c <= bytes /\ rd_pos + c <= Frames[Cur] /\ rd_pos + c >= HDR
    BY <1>1, <1>2, <2>1, <2>2, Consts, SMTT(60) DEF Smaller
  <2>4. /\ PushIfFull([rd EXCEPT !.data = Copied(@, rd_pos, from, c)], rd_pos + c)
        /\ from' = from + c /\ bytes' = bytes - c /\ UNCHANGED rd_buf
    BY <1>4 DEF Extract
  <2> HIDE DEF c
  <2>5. [rd EXCEPT !.data = Copied(@, rd_pos, from, c)] = Part(Cur, rd_pos + c)
    BY <1>1, <1>2, <2>1, <2>3, CopyPart, SMTT(60) DEF Place
  <2>6. PushIfFull(Part(Cur, rd_pos + c), rd_pos + c)
    BY <2>4, <2>5
  <2>7. Parsed' /\ Place' = Start[Cur] + (rd_pos + c) /\ (rd' = NULL => rd_pos' = 0)
    <3>1. /\ rd_pos + c \in Nat
          /\ (rd_pos + c = Frames[Cur] /\ HDR <= rd_pos + c) \/ Inside(rd_pos + c, Frames[Cur])
      BY <1>2, <2>1, <2>3, Consts DEF Inside
    <3> QED
      BY <1>2, <2>1, <2>3, <2>6, <3>1, PushParsed
  <2>8. HeaderKept'
    BY <2>4, <2>7, PushKept DEF IInv, HeaderKept
  <2>9. Place' = from + c
    BY <1>1, <1>2, <2>3, <2>7, SMTT(60) DEF Place
  <2> QED
    BY <1>3, <2>3, <2>4, <2>7, <2>8, <2>9 DEF IInv
<1>5. CASE rd = NULL /\ bytes >= HDR
  <2>1. rd_pos = 0 /\ from = Start[Cur]
    BY <1>1, <1>2, <1>5 DEF IInv, HeaderKept, Place
  <2>2. /\ PushIfFull(pkt_new(HeaderAt(from)), rd_pos + HDR)
        /\ from' = from + HDR /\ bytes' = bytes - HDR /\ UNCHANGED rd_buf
    BY <1>5, Consts, <1>1 DEF Extract
  <2>3. Len(pq) < Len(Frames)
    <3>1. Start[Cur] < pos /\ pos <= StreamLen /\ pos \in Nat
      BY <1>1, <1>2, <2>1
    <3> QED
      BY <1>2, <3>1, MoreFrames
  <2>4. /\ Cur \in 1 .. Len(Frames) /\ Frames[Cur] \in Nat
        /\ (HDR = Frames[Cur] /\ HDR <= HDR) \/ Inside(HDR, Frames[Cur])
    BY <1>2, <2>3, CurStart, Consts DEF Inside
  <2>5. PushIfFull(Part(Cur, HDR), HDR)
    <3>1. rd_pos + HDR = HDR
      BY <2>1, Consts
    <3> QED
      BY <2>1, <2>2, <2>4, <3>1, NewPart
  <2>6. Parsed' /\ Place' = Start[Cur] + HDR /\ (rd' = NULL => rd_pos' = 0)
    BY <1>2, <2>3, <2>4, <2>5, PushParsed, Consts
  <2>7. HeaderKept'
    BY <2>2, <2>6, PushKept DEF IInv, HeaderKept
  <2> QED
    BY <1>3, <1>5, <2>1, <2>2, <2>6, <2>7, Consts DEF IInv
<1>6. CASE rd = NULL /\ bytes < HDR
  <2>1. rd_pos = 0 /\ from = Start[Cur]
    BY <1>1, <1>2, <1>6 DEF IInv, HeaderKept, Place
  <2>2. /\ rd_buf' = Copied(rd_buf, rd_pos, from, bytes) /\ rd_pos' = rd_pos + bytes /\ bytes' = 0
        /\ UNCHANGED <<rd, pq, from>>
    BY <1>1, <1>6, Consts DEF Extract
  <2>3. rd_pos' = bytes /\ rd_pos' \in Nat /\ rd_pos' < HDR /\ phase' = "read" /\ Cur' = Cur
    BY <1>1, <1>6, <2>1, <2>2 DEF Cur
  <2>4. Parsed'
    BY <1>2, <1>6, <2>2, <2>3 DEF Parsed, FramesRecovered
  <2>5. Begins(rd_buf', Start[Cur], rd_pos')
    <3>1. Begins(rd_buf, Start[Cur], rd_pos)
      BY <1>6 DEF IInv, HeaderKept
    <3>2. rd_pos + bytes <= HDR /\ from = Start[Cur] + rd_pos
      BY <1>1, <1>2, <1>6, <2>1, Consts
    <3>3. Begins(Copied(rd_buf, rd_pos, Start[Cur] + rd_pos, bytes), Start[Cur], rd_pos + bytes)
      BY <1>1, <1>2, <3>1, <3>2, CopyHeader
    <3> QED
      BY <2>2, <3>2, <3>3
  <2>6. HeaderKept'
    BY <2>3, <2>5 DEF HeaderKept, Begins
  <2>7. Accounted'
    BY <1>1, <1>2, <2>1, <2>2, <2>3 DEF Accounted, Place
  <2> QED
    BY <2>4, <2>6, <2>7 DEF IInv
<1> QED
  BY <1>1, <1>4, <1>5, <1>6, Consts

\* The program leaves what the code describes.
LEMMA OverrunIInv == ASSUME IInv, Overrun PROVE IInv'
<1>1. UNCHANGED <<pq, rd, rd_pos, rd_buf, pos, from, bytes>> /\ Beyond /\ phase' = "overrun"
  BY DEF Overrun
<1>2. Cur' = Cur /\ Beyond'
  BY <1>1 DEF Cur, Beyond
<1>3. Parsed'
  BY <1>1, <1>2 DEF IInv, Parsed, FramesRecovered
<1>4. HeaderKept' /\ Accounted'
  BY <1>1, <1>2 DEF IInv, HeaderKept, Accounted
<1> QED
  BY <1>3, <1>4 DEF IInv

LEMMA NextIInv == IInv /\ [Next]_vars => IInv'
<1> SUFFICES ASSUME IInv, [Next]_vars PROVE IInv'
  OBVIOUS
<1>1. CASE UNCHANGED vars
  <2>1. UNCHANGED <<pos, rd, rd_buf, rd_pos, pq, from, bytes, phase>>
    BY <1>1 DEF vars
  <2>2. Cur' = Cur /\ Place' = Place /\ Beyond' = Beyond
    BY <2>1 DEF Cur, Place, Beyond
  <2> QED
    BY <2>1, <2>2 DEF IInv, Parsed, FramesRecovered, HeaderKept, Accounted
<1>2. CASE Next
  BY <1>2, CallIInv, ReadvShort, ReadvFull, ExtractIInv, OverrunIInv DEF Next
<1> QED
  BY <1>1, <1>2

LEMMA SpecIInv == Spec => []IInv
BY InitIInv, NextIInv, PTL DEF Spec
-----------------------------------------------------------------------------
\* The packets pushed are the frames of the stream, in order and with their own
\* bytes, however readv cuts the stream and wherever the buffer ends.
THEOREM SpecFramesRecovered == Spec => []FramesRecovered
<1>1. IInv => FramesRecovered
  BY DEF IInv, Parsed
<1> QED
  BY <1>1, SpecIInv, PTL

\* When recv() returns no complete frame is held back and no byte is lost,
\* except that a frame too short for its header stays where it is.
THEOREM SpecNothingHeldBack == Spec => []NothingHeldBack
<1>1. IInv => NothingHeldBack
  <2> SUFFICES ASSUME IInv, phase = "idle"
               PROVE  /\ pos = Start[Len(pq) + 1] + rd_pos
                      /\ Len(pq) < Len(Frames) /\ ~TooShort => pos < Start[Len(pq) + 2]
    BY DEF NothingHeldBack
  <2>1. pos = Start[Len(pq) + 1] + rd_pos
    BY DEF IInv, Accounted, Place, Cur
  <2>2. ASSUME Len(pq) < Len(Frames), ~TooShort PROVE pos < Start[Len(pq) + 2]
    <3>1. /\ Start[Cur + 1] = Start[Cur] + Size(Cur) /\ Frames[Cur] \in Nat
          /\ Start[Cur] \in Nat /\ Len(pq) \in Nat
      BY <2>2, CurStart DEF IInv
    <3>2. Frames[Cur] >= HDR
      BY <2>2, <3>1, Consts DEF TooShort, Cur
    <3>3. Size(Cur) = Frames[Cur]
      BY <3>1, <3>2, Consts DEF Size
    <3>4. rd_pos < Frames[Cur] /\ rd_pos \in Nat
      BY <3>1, <3>2, Consts DEF IInv, Parsed, Inside
    <3>5. Cur + 1 = Len(pq) + 2
      BY <3>1 DEF Cur
    <3>6. pos = Start[Cur] + rd_pos
      BY <2>1 DEF Cur
    <3>7. pos < Start[Cur + 1]
      BY <3>1, <3>3, <3>4, <3>6
    <3> QED
      BY <3>5, <3>7
  <2> QED
    BY <2>1, <2>2
<1> QED
  BY <1>1, SpecIInv, PTL

\* No byte is written outside the header buffer, and none outside the packet
\* unless the length in its own header does not cover that header, which
\* proxy.cpp:128 and 150 do not look at; rd_pos is zero where the code says so.
THEOREM SpecWritesInBounds == Spec => []WritesInBounds
<1>1. IInv => WritesInBounds
  <2> SUFFICES ASSUME IInv PROVE WritesInBounds
    OBVIOUS
  <2>1. ASSUME rd # NULL PROVE rd_pos \in HDR .. rd.len - 1 \/ TooShort
    <3>1. CASE Beyond
      <4>1. /\ Len(pq) < Len(Frames) /\ rd = Part(Cur, rd_pos) /\ Inside(rd_pos, Frames[Cur])
            /\ rd_pos \in Nat
        BY <2>1 DEF IInv, Parsed
      <4>2. Cur \in 1 .. Len(Frames) /\ Frames[Cur] \in Nat
        BY <4>1, CurStart DEF IInv
      <4>3. rd.len = Frames[Cur]
        BY <4>1, <4>2, PartProperties
      <4>4. Frames[Cur] < HDR
        BY <3>1, <4>1, <4>2, <4>3, Consts DEF Beyond, Inside
      <4> QED
        BY <4>1, <4>4 DEF TooShort, Cur
    <3>2. CASE ~Beyond
      BY <2>1, <3>2, NotBeyond, Consts
    <3> QED
      BY <3>1, <3>2
  <2>2. ASSUME rd = NULL PROVE rd_pos \in 0 .. HDR - 1
    BY <2>2, Consts DEF IInv, Parsed
  <2>3. ASSUME phase = "overrun" PROVE TooShort
    <3>1. rd # NULL /\ rd_pos > rd.len
      BY <2>3 DEF IInv, Accounted, Beyond
    <3>2. rd_pos \in Nat
      BY DEF IInv, Parsed
    <3>3. rd.len \in Nat
      <4>1. Cur \in 1 .. Len(Frames) /\ rd = Part(Cur, rd_pos) /\ Frames[Cur] \in Nat
        BY <3>1, CurStart DEF IInv, Parsed
      <4> QED
        BY <3>2, <4>1, PartProperties
    <3> QED
      BY <2>1, <3>1, <3>2, <3>3, Consts
  <2> QED
    BY <2>1, <2>2, <2>3 DEF WritesInBounds, IInv, HeaderKept
<1> QED
  BY <1>1, SpecIInv, PTL
=============================================================================
