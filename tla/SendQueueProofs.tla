-------------------------- MODULE SendQueueProofs --------------------------
(***************************************************************************)
(* Proofs about SendQueue, for every set of packets, size of packets and   *)
(* capacity of the window.                                                 *)
(***************************************************************************)
EXTENDS SendQueue, SequenceTheorems, TLAPS

\* A window is filled only while a call of send() that found something to
\* send is still looping.
SendingHasWork == phase = "sending" => svc > 0

\* The strengthening of the safety invariants that every operation preserves.
IInv ==
    /\ TypeOK
    /\ WindowInBounds
    /\ NoDanglingIov
    /\ FramesStayWhole
    /\ SendingHasWork

-----------------------------------------------------------------------------
\* A fresh entry covers its packet from the first byte.
LEMMA WholeIs == \A p : Whole(p).pkt = p /\ Whole(p).off = 0
BY DEF Whole

\* Filled writes the new entries and leaves every other slot of svbuf alone.
LEMMA FilledIs ==
    ASSUME NEW buf \in [Slots -> Iov \cup {Garbage}], NEW at \in Nat,
           NEW ps \in Seq(Packets), at + Len(ps) <= WRIVCNT
    PROVE  /\ Filled(buf, at, ps) \in [Slots -> Iov \cup {Garbage}]
           /\ \A i \in 1 .. Len(ps) : Filled(buf, at, ps)[at + i - 1] = Whole(ps[i])
           /\ \A i \in Slots : i < at => Filled(buf, at, ps)[i] = buf[i]
<1> WRIVCNT \in Nat
  BY SendQueueAssumption
<1>1. \A i \in Slots : i \in at .. at + Len(ps) - 1 => Whole(ps[i - at + 1]) \in Iov
  BY DEF Slots, Whole, Iov
<1>2. Filled(buf, at, ps) \in [Slots -> Iov \cup {Garbage}]
  BY <1>1 DEF Filled
<1>3. \A i \in 1 .. Len(ps) : Filled(buf, at, ps)[at + i - 1] = Whole(ps[i])
  BY DEF Filled, Slots
<1>4. \A i \in Slots : i < at => Filled(buf, at, ps)[i] = buf[i]
  BY DEF Filled, Slots
<1> QED
  BY <1>2, <1>3, <1>4

\* A new window holds whole packets, entry i for packet i of the list.
LEMMA RefillIs ==
    ASSUME TypeOK, NEW q \in Seq(Packets), Refill(q)
    PROVE  /\ sv' = 0
           /\ svc' = Smaller(WRIVCNT, Len(q))
           /\ svc' \in 0 .. WRIVCNT
           /\ svc' <= Len(q)
           /\ svbuf' \in [Slots -> Iov \cup {Garbage}]
           /\ \A i \in 1 .. svc' : svbuf'[sv' + i - 1] = Whole(q[i])
<1> WRIVCNT \in Nat \ {0}
  BY SendQueueAssumption
<1> DEFINE n == Smaller(WRIVCNT, Len(q))
           ps == SubSeq(q, 1, n)
<1>1. n \in 0 .. WRIVCNT /\ n <= Len(q)
  BY DEF Smaller
<1>2. ps \in Seq(Packets) /\ Len(ps) = n /\ \A i \in 1 .. n : ps[i] = q[i]
  BY <1>1
<1>3. sv' = 0 /\ svc' = n /\ svbuf' = Filled(svbuf, 0, ps)
  BY DEF Refill
<1>4. svbuf \in [Slots -> Iov \cup {Garbage}]
  BY DEF TypeOK
<1> HIDE DEF n, ps
<1>5. /\ Filled(svbuf, 0, ps) \in [Slots -> Iov \cup {Garbage}]
      /\ \A i \in 1 .. Len(ps) : Filled(svbuf, 0, ps)[0 + i - 1] = Whole(ps[i])
  <2>1. 0 \in Nat /\ 0 + Len(ps) <= WRIVCNT
    BY <1>1, <1>2
  <2> QED
    BY <2>1, <1>2, <1>4, FilledIs
<1> QED
  BY <1>1, <1>2, <1>3, <1>5 DEF n

\* pull(): the window is moved to the start of svbuf and the new entries
\* follow it.
LEMMA PullIs ==
    ASSUME IInv, NEW src \in Batches, pull(src)
    PROVE  \E taken \in Seq(Packets) :
             /\ pq' = pq \o taken
             /\ fed' = fed \o taken
             /\ svc' = svc + Len(taken)
             /\ sv' = 0
             /\ svc' <= WRIVCNT
             /\ svbuf' \in [Slots -> Iov \cup {Garbage}]
             /\ \A i \in Live : svbuf'[i - 1] = svbuf[sv + i - 1]
             /\ \A i \in 1 .. Len(taken) : svbuf'[svc + i - 1] = Whole(taken[i])
<1> WRIVCNT \in Nat \ {0} /\ src \in Seq(Packets)
  BY SendQueueAssumption
<1> USE DEF IInv, TypeOK, WindowInBounds
<1> DEFINE base == Moved
           taken == SubSeq(src, 1, Smaller(Room, Len(src)))
<1>1. /\ taken \in Seq(Packets)
      /\ svc + Len(taken) <= WRIVCNT
  BY DEF pull, Smaller, Room
<1>2. /\ base \in [Slots -> Iov \cup {Garbage}]
      /\ \A i \in Live : base[i - 1] = svbuf[sv + i - 1]
  BY DEF Slots, Live, Moved
<1>3. /\ svbuf' = Filled(base, svc, taken)
      /\ sv' = IF svc # 0 THEN 0 ELSE sv
      /\ svc' = svc + Len(taken)
      /\ pq' = pq \o taken
      /\ fed' = fed \o taken
  BY DEF pull
<1>4. sv' = 0
  BY <1>3
<1> HIDE DEF taken, base
<1>5. /\ Filled(base, svc, taken) \in [Slots -> Iov \cup {Garbage}]
      /\ \A i \in 1 .. Len(taken) : Filled(base, svc, taken)[svc + i - 1] = Whole(taken[i])
      /\ \A i \in Slots : i < svc => Filled(base, svc, taken)[i] = base[i]
  BY <1>1, <1>2, FilledIs, SMTT(60)
<1>6. \A i \in Live : svbuf'[i - 1] = svbuf[sv + i - 1]
  BY <1>2, <1>3, <1>5 DEF Slots, Live
<1> QED
  BY <1>1, <1>3, <1>4, <1>5, <1>6
-----------------------------------------------------------------------------
\* The empty queue of the constructor.
LEMMA InitIInv == Init => IInv
<1> SUFFICES ASSUME Init PROVE IInv
  OBVIOUS
<1> WRIVCNT \in Nat \ {0}
  BY SendQueueAssumption
<1> USE DEF Init
<1>1. TypeOK
  <2>1. svbuf \in [Slots -> Iov \cup {Garbage}]
    OBVIOUS
  <2>2. tail \in Iov \cup {Boundary}
    OBVIOUS
  <2>3. pq \in Seq(Packets) /\ sent \in Seq(Packets) /\ fed \in Seq(Packets)
    OBVIOUS
  <2>4. sv \in Nat /\ svc \in Nat /\ phase \in {"idle", "sending"} /\ err \in BOOLEAN
    OBVIOUS
  <2> QED
    BY ONLY <2>1, <2>2, <2>3, <2>4 DEF TypeOK
<1>2. WindowInBounds /\ NoDanglingIov /\ FramesStayWhole /\ SendingHasWork
  BY DEF WindowInBounds, NoDanglingIov, FramesStayWhole, SendingHasWork, Live
<1> QED
  BY <1>1, <1>2 DEF IInv

\* A packet joins the list behind the ones the window points to.
LEMMA PushOutIInv == ASSUME IInv, NEW p \in Packets, push_out(p) PROVE IInv'
<1> USE DEF IInv, push_out
<1>1. TypeOK'
  BY DEF TypeOK
<1>2. NoDanglingIov'
  <2> SUFFICES ASSUME NEW i \in Live
               PROVE  \E j \in i .. Len(pq') : pq'[j] = svbuf[sv + i - 1].pkt
    BY DEF NoDanglingIov, Live
  <2>1. PICK j \in i .. Len(pq) : pq[j] = svbuf[sv + i - 1].pkt
    BY DEF NoDanglingIov
  <2>2. j \in i .. Len(pq') /\ pq'[j] = pq[j]
    BY DEF TypeOK, Live
  <2> QED
    BY <2>1, <2>2
<1>3. WindowInBounds' /\ FramesStayWhole' /\ SendingHasWork'
  BY DEF WindowInBounds, FramesStayWhole, SendingHasWork, Live
<1> QED
  BY <1>1, <1>2, <1>3

\* The injected packets get their entries behind the moved window.
LEMMA PullIInv == ASSUME IInv, NEW src \in Batches, pull(src) PROVE IInv'
<1>1. PICK taken \in Seq(Packets) :
             /\ pq' = pq \o taken
             /\ fed' = fed \o taken
             /\ svc' = svc + Len(taken)
             /\ sv' = 0
             /\ svc' <= WRIVCNT
             /\ svbuf' \in [Slots -> Iov \cup {Garbage}]
             /\ \A i \in Live : svbuf'[i - 1] = svbuf[sv + i - 1]
             /\ \A i \in 1 .. Len(taken) : svbuf'[svc + i - 1] = Whole(taken[i])
  BY PullIs
<1>2. UNCHANGED <<phase, err, sent, tail>> /\ phase = "idle"
  BY DEF pull
<1> WRIVCNT \in Nat \ {0}
  BY SendQueueAssumption
<1> TypeOK /\ svc \in Nat /\ sv \in Nat /\ pq \in Seq(Packets)
  BY DEF IInv, TypeOK
<1>3. TypeOK'
  BY <1>1, <1>2 DEF TypeOK
<1>4. \A i \in Live' : i \in Live \/ (i - svc \in 1 .. Len(taken) /\ svbuf'[i - 1] = Whole(taken[i - svc]))
  <2> SUFFICES ASSUME NEW i \in Live', i \notin Live
               PROVE  i - svc \in 1 .. Len(taken) /\ svbuf'[i - 1] = Whole(taken[i - svc])
    OBVIOUS
  <2>1. i - svc \in 1 .. Len(taken) /\ svc + (i - svc) - 1 = i - 1
    BY <1>1 DEF Live
  <2> QED
    BY <1>1, <2>1
<1>5. WindowInBounds'
  BY <1>1 DEF WindowInBounds, IInv
<1>6. NoDanglingIov'
  <2> SUFFICES ASSUME NEW i \in Live'
               PROVE  \E j \in i .. Len(pq') : pq'[j] = svbuf'[sv' + i - 1].pkt
    BY DEF NoDanglingIov, Live
  <2> i \in Nat /\ sv' + i - 1 = i - 1
    BY <1>1 DEF Live
  <2>1. CASE i \in Live
    <3>1. PICK j \in i .. Len(pq) : pq[j] = svbuf[sv + i - 1].pkt
      BY <2>1 DEF IInv, NoDanglingIov
    <3>2. j \in i .. Len(pq') /\ pq'[j] = pq[j]
      BY <1>1, <2>1, <3>1 DEF Live
    <3> QED
      BY <1>1, <2>1, <3>1, <3>2
  <2>2. CASE i \notin Live
    <3>1. i - svc \in 1 .. Len(taken) /\ svbuf'[i - 1].pkt = taken[i - svc]
      BY <1>4, <2>2, WholeIs
    <3>2. svc <= Len(pq)
      BY DEF IInv, NoDanglingIov, Live
    <3> DEFINE j == Len(pq) + (i - svc)
    <3>3. j \in i .. Len(pq') /\ pq'[j] = taken[i - svc]
      BY <1>1, <3>1, <3>2
    <3> QED
      BY <3>1, <3>3
  <2> QED
    BY <2>1, <2>2
<1>7. FramesStayWhole'
  <2>1. tail' # Boundary => svc' > 0 /\ svbuf'[sv'] = tail'
    <3> SUFFICES ASSUME tail # Boundary PROVE svc' > 0 /\ svbuf'[0] = tail
      BY <1>1, <1>2
    <3>1. svc > 0 /\ svbuf[sv] = tail
      BY DEF IInv, FramesStayWhole
    <3>2. 1 \in Live /\ svbuf'[1 - 1] = svbuf[sv + 1 - 1]
      BY <1>1, <3>1, SMTT(60) DEF Live
    <3> QED
      BY <1>1, <3>1, <3>2
  <2>2. ASSUME NEW i \in Live', i > 1 \/ tail' = Boundary
        PROVE  svbuf'[sv' + i - 1].off = 0
    <3>1. sv' + i - 1 = i - 1
      BY <1>1 DEF Live
    <3>2. CASE i \in Live
      BY <1>1, <1>2, <2>2, <3>1, <3>2 DEF IInv, FramesStayWhole
    <3>3. CASE i \notin Live
      BY <1>4, <3>1, <3>3, WholeIs
    <3> QED
      BY <3>2, <3>3
  <2> QED
    BY <2>1, <2>2 DEF FramesStayWhole
<1>8. SendingHasWork'
  BY <1>2 DEF SendingHasWork
<1> QED
  BY <1>3, <1>5, <1>6, <1>7, <1>8 DEF IInv

\* A window just refilled from the list, with the stream between two packets.
LEMMA RefillIInv ==
    ASSUME TypeOK, TypeOK', Refill(pq'), tail' = Boundary
    PROVE  WindowInBounds' /\ NoDanglingIov' /\ FramesStayWhole'
<1> WRIVCNT \in Nat \ {0}
  BY SendQueueAssumption
<1>1. pq' \in Seq(Packets)
  BY DEF TypeOK
<1>2. /\ sv' = 0
      /\ svc' \in 0 .. WRIVCNT
      /\ svc' <= Len(pq')
      /\ \A i \in 1 .. svc' : svbuf'[sv' + i - 1] = Whole(pq'[i])
  BY <1>1, RefillIs
<1>3. WindowInBounds'
  <2>1. sv' = 0
    BY <1>2
  <2>2. svc' \in Nat /\ svc' <= WRIVCNT
    BY <1>2
  <2>3. \A v \in Nat : v <= WRIVCNT => 0 + v <= WRIVCNT
    OBVIOUS
  <2>4. sv' + svc' <= WRIVCNT
    BY ONLY <2>1, <2>2, <2>3, Zenon
  <2> QED
    BY <2>1, <2>4 DEF WindowInBounds
<1>4. NoDanglingIov'
  <2> SUFFICES ASSUME NEW i \in 1 .. svc'
               PROVE  \E j \in i .. Len(pq') : pq'[j] = svbuf'[sv' + i - 1].pkt
    BY DEF NoDanglingIov, Live
  <2>1. svbuf'[sv' + i - 1].pkt = pq'[i]
    BY <1>2, WholeIs
  <2>2. i \in i .. Len(pq')
    BY <1>1, <1>2
  <2> QED
    BY <2>1, <2>2
<1>5. FramesStayWhole'
  <2>1. \A i \in Live' : svbuf'[sv' + i - 1].off = 0
    BY <1>2, WholeIs, ZenonT(60) DEF Live
  <2> QED
    BY <2>1 DEF FramesStayWhole
<1> QED
  BY <1>3, <1>4, <1>5

\* send() is entered with an empty window, or with the one it left.
LEMMA SendBeginIInv == ASSUME IInv, SendBegin PROVE IInv'
<1> WRIVCNT \in Nat \ {0}
  BY SendQueueAssumption
<1> TypeOK /\ pq \in Seq(Packets) /\ svc \in Nat
  BY DEF IInv, TypeOK
<1>1. UNCHANGED <<pq, err, sent, tail, fed>> /\ phase' = "sending"
  BY DEF SendBegin
<1>2. CASE svc = 0
  <2>1. Refill(pq)
    BY <1>2 DEF SendBegin
  <2>2. /\ sv' = 0
        /\ svc' = Smaller(WRIVCNT, Len(pq))
        /\ svc' \in 0 .. WRIVCNT
        /\ svbuf' \in [Slots -> Iov \cup {Garbage}]
    BY <2>1, RefillIs
  <2>3. svc' > 0
    BY <2>2 DEF SendBegin, Smaller
  <2>4. TypeOK'
    BY <1>1, <2>2 DEF TypeOK
  <2>5. tail' = Boundary
    BY <1>1, <1>2 DEF IInv, FramesStayWhole
  <2> QED
    BY <1>1, <2>1, <2>3, <2>4, <2>5, RefillIInv DEF IInv, SendingHasWork
<1>3. CASE svc # 0
  <2>1. UNCHANGED <<sv, svc, svbuf>>
    BY <1>3 DEF SendBegin
  <2> QED
    BY <1>1, <1>3, <2>1
       DEF IInv, TypeOK, WindowInBounds, NoDanglingIov, FramesStayWhole, SendingHasWork, Live
<1> QED
  BY <1>2, <1>3

\* What the kernel took is sent, and the list loses as many packets.
LEMMA WritevTypes ==
    ASSUME IInv, NEW k \in 0 .. svc, NEW r \in Nat, Writev(k, r)
    PROVE  /\ sent' \in Seq(Packets)
           /\ k <= Len(pq)
           /\ pq' \in Seq(Packets)
           /\ Len(pq') = Len(pq) - k
           /\ \A i \in 1 .. Len(pq') : pq'[i] = pq[k + i]
<1> TypeOK /\ pq \in Seq(Packets) /\ svc \in Nat /\ sent \in Seq(Packets)
  BY DEF IInv, TypeOK
<1>1. k <= Len(pq)
  BY DEF IInv, NoDanglingIov, Live
<1>2. \A i \in 1 .. k : svbuf[sv + i - 1].pkt \in Packets
  BY DEF IInv, NoDanglingIov, Live
<1>3. [i \in 1 .. k |-> svbuf[sv + i - 1].pkt] \in Seq(Packets)
  BY <1>2
<1>4. sent' \in Seq(Packets)
  BY <1>3 DEF Writev
<1>5. pq' = SubSeq(pq, k + 1, Len(pq))
  BY DEF Writev, Drop, Discards
<1>6. pq' \in Seq(Packets) /\ Len(pq') = Len(pq) - k
  BY <1>1, <1>5
<1>7. \A i \in 1 .. Len(pq') : pq'[i] = pq[k + i]
  BY <1>1, <1>5, <1>6
<1> QED
  BY <1>1, <1>4, <1>6, <1>7

\* A writev that uses up the whole window makes send() take a new one.
LEMMA WritevAll ==
    ASSUME IInv, NEW k \in 0 .. svc, NEW r \in Nat, Writev(k, r), k = svc
    PROVE  IInv'
<1>1. /\ sent' \in Seq(Packets)
      /\ pq' \in Seq(Packets)
  BY WritevTypes
<1>2. Refill(pq') /\ tail' = Boundary /\ UNCHANGED <<err, fed>>
  BY DEF Writev
<1>3. phase' = IF svc' = 0 THEN "idle" ELSE "sending"
  BY DEF Writev
<1>4. TypeOK
  BY DEF IInv
<1>5. /\ sv' = 0
      /\ svc' \in 0 .. WRIVCNT
      /\ svbuf' \in [Slots -> Iov \cup {Garbage}]
  BY <1>1, <1>2, <1>4, RefillIs
<1>6. svc' \in Nat
  BY <1>5, SendQueueAssumption
<1>7. TypeOK'
  BY <1>1, <1>2, <1>3, <1>4, <1>5, <1>6 DEF TypeOK
<1>8. SendingHasWork'
  BY <1>3, <1>6 DEF SendingHasWork
<1> QED
  BY <1>2, <1>4, <1>7, <1>8, RefillIInv DEF IInv

\* A writev that leaves part of the window: its head moves forward.
LEMMA WritevSome ==
    ASSUME IInv, NEW k \in 0 .. svc, NEW r \in Nat, Writev(k, r), k < svc
    PROVE  IInv'
<1> WRIVCNT \in Nat \ {0}
  BY SendQueueAssumption
<1> TypeOK /\ pq \in Seq(Packets) /\ svc \in Nat /\ sv \in Nat /\ sv + svc <= WRIVCNT
  BY DEF IInv, TypeOK, WindowInBounds
<1>1. /\ sent' \in Seq(Packets)
      /\ k <= Len(pq)
      /\ pq' \in Seq(Packets)
      /\ Len(pq') = Len(pq) - k
      /\ \A i \in 1 .. Len(pq') : pq'[i] = pq[k + i]
  BY WritevTypes
<1>2. /\ sv' = sv + k
      /\ svc' = svc - k
      /\ svbuf' = [svbuf EXCEPT ![sv + k] = Advanced(svbuf[sv + k], r)]
      /\ tail' = IF r > 0 THEN [pkt |-> svbuf[sv + k].pkt, off |-> svbuf[sv + k].off + r]
                 ELSE Boundary
      /\ phase' = IF svc' = 0 THEN "idle" ELSE "sending"
      /\ UNCHANGED <<err, fed>>
  BY DEF Writev
<1>3. sv' \in Nat /\ svc' \in Nat /\ svc' > 0 /\ sv + k \in Slots
  BY <1>2 DEF Slots
<1>4. svbuf \in [Slots -> Iov \cup {Garbage}] /\ svbuf[sv + k] \in Iov
  <2>1. svbuf \in [Slots -> Iov \cup {Garbage}]
    BY DEF TypeOK
  <2>2. k + 1 \in Live /\ sv + (k + 1) - 1 = sv + k
    BY DEF Live
  <2>3. svbuf[sv + k].pkt \in Packets
    <3>1. PICK j \in k + 1 .. Len(pq) : pq[j] = svbuf[sv + (k + 1) - 1].pkt
      BY <2>2 DEF IInv, NoDanglingIov
    <3> QED
      BY <2>2, <3>1
  <2>4. svbuf[sv + k] \in Iov \/ svbuf[sv + k] = Garbage
    BY <1>3, <2>1
  <2>5. Garbage.pkt \in Packets => Garbage \in Iov
    BY DEF Garbage, Iov
  <2> QED
    BY <2>1, <2>3, <2>4, <2>5
<1>5. /\ svbuf'[sv + k] = Advanced(svbuf[sv + k], r)
      /\ \A i \in Slots : i # sv + k => svbuf'[i] = svbuf[i]
      /\ svbuf' \in [Slots -> Iov \cup {Garbage}]
  <2>1. Advanced(svbuf[sv + k], r) \in Iov
    BY <1>4, SMTT(60) DEF Iov, Advanced
  <2> QED
    BY <1>2, <1>3, <1>4, <2>1
<1>6. /\ svbuf'[sv + k].pkt = svbuf[sv + k].pkt
      /\ svbuf'[sv + k].off = svbuf[sv + k].off + r
      /\ svbuf[sv + k].off \in Nat
      /\ svbuf'[sv + k] \in Iov
      /\ svbuf'[sv + k] = [pkt |-> svbuf[sv + k].pkt, off |-> svbuf[sv + k].off + r]
  BY <1>4, <1>5, SMTT(60) DEF Iov, Advanced
<1>7. \A i \in Live' : /\ k + i \in Live
                       /\ sv' + i - 1 = sv + (k + i) - 1
                       /\ sv' + i - 1 \in Slots
                       /\ i > 1 => sv' + i - 1 # sv + k
                       /\ i = 1 => sv' + i - 1 = sv + k
  BY <1>2 DEF Live, Slots
<1>8. TypeOK'
  <2>1. tail' \in Iov \cup {Boundary}
    BY <1>2, <1>6
  <2> QED
    BY <1>1, <1>2, <1>3, <1>5, <2>1 DEF TypeOK
<1>9. WindowInBounds'
  BY <1>2, <1>3 DEF WindowInBounds
<1>10. NoDanglingIov'
  <2> SUFFICES ASSUME NEW i \in Live'
               PROVE  \E j \in i .. Len(pq') : pq'[j] = svbuf'[sv' + i - 1].pkt
    BY DEF NoDanglingIov, Live
  <2>1. PICK j \in k + i .. Len(pq) : pq[j] = svbuf[sv' + i - 1].pkt
    BY <1>7 DEF IInv, NoDanglingIov
  <2>2. svbuf'[sv' + i - 1].pkt = svbuf[sv' + i - 1].pkt
    BY <1>5, <1>6, <1>7
  <2>3. i \in Nat /\ i > 0
    BY <1>3 DEF Live
  <2>4. j - k \in i .. Len(pq') /\ pq'[j - k] = pq[j]
    BY <1>1, <2>1, <2>3, SMTT(60)
  <2> QED
    BY <2>1, <2>2, <2>4
<1>11. FramesStayWhole'
  <2>1. tail' # Boundary => svc' > 0 /\ svbuf'[sv'] = tail'
    BY <1>2, <1>3, <1>6
  <2>2. ASSUME NEW i \in Live', i > 1 \/ tail' = Boundary
        PROVE  svbuf'[sv' + i - 1].off = 0
    <3>1. CASE i > 1
      <4>1. svbuf'[sv' + i - 1] = svbuf[sv + (k + i) - 1]
        BY <1>5, <1>7, <3>1
      <4>2. k + i \in Live /\ k + i > 1
        BY <1>7, <3>1 DEF Live
      <4> QED
        BY <4>1, <4>2 DEF IInv, FramesStayWhole
    <3>2. CASE i = 1 /\ tail' = Boundary
      <4>1. r = 0
        <5>1. SUFFICES ASSUME r > 0 PROVE FALSE
          OBVIOUS
        <5>2. svbuf'[sv + k] = Boundary
          BY <1>2, <1>6, <3>2, <5>1
        <5>3. svbuf'[sv + k].off = 0
          BY <5>2 DEF Boundary
        <5> QED
          BY <1>6, <5>1, <5>3
      <4>2. k > 0
        BY <4>1 DEF Writev
      <4>3. k + 1 \in Live /\ k + 1 > 1 /\ sv + (k + 1) - 1 = sv + k
        BY <4>2 DEF Live
      <4>4. svbuf[sv + k].off = 0
        BY <4>3 DEF IInv, FramesStayWhole
      <4> QED
        BY <1>6, <1>7, <3>2, <4>1, <4>4
    <3> QED
      BY <2>2, <3>1, <3>2 DEF Live
  <2> QED
    BY <2>1, <2>2 DEF FramesStayWhole
<1>12. SendingHasWork'
  BY <1>3 DEF SendingHasWork
<1> QED
  BY <1>8, <1>9, <1>10, <1>11, <1>12 DEF IInv

\* send() returns because of EAGAIN or an error: only phase and err change.
LEMMA ReturnIInv == ASSUME IInv, WouldBlock \/ SendFails PROVE IInv'
<1>1. UNCHANGED <<pq, svbuf, sv, svc, sent, tail, fed>> /\ phase' = "idle" /\ err' \in BOOLEAN
  BY DEF WouldBlock, SendFails, IInv, TypeOK
<1> QED
  BY <1>1 DEF IInv, TypeOK, WindowInBounds, NoDanglingIov, FramesStayWhole, SendingHasWork, Live

\* A step that leaves every variable alone.
LEMMA StutterIInv == ASSUME IInv, UNCHANGED vars PROVE IInv'
BY DEF vars, IInv, TypeOK, WindowInBounds, NoDanglingIov, FramesStayWhole, SendingHasWork, Live

\* Every operation of the class preserves the invariant.
LEMMA NextIInv == IInv /\ [Next]_vars => IInv'
<1> SUFFICES ASSUME IInv, [Next]_vars PROVE IInv'
  OBVIOUS
<1>1. ASSUME NEW p \in Packets, push_out(p) PROVE IInv'
  BY <1>1, PushOutIInv
<1>2. ASSUME NEW src \in Batches, pull(src) PROVE IInv'
  BY <1>2, PullIInv
<1>3. CASE SendBegin
  BY <1>3, SendBeginIInv
<1>4. ASSUME NEW k \in 0 .. svc,
             NEW r \in 0 .. (IF k < svc THEN Left(k + 1) ELSE 0),
             Writev(k, r)
      PROVE  IInv'
  <2>1. k \in Int /\ svc \in Nat /\ r \in Nat
    BY DEF IInv, TypeOK
  <2>2. k = svc \/ k < svc
    BY <2>1
  <2> QED
    BY <1>4, <2>1, <2>2, WritevAll, WritevSome
<1>5. CASE WouldBlock \/ SendFails
  BY <1>5, ReturnIInv
<1>6. CASE UNCHANGED vars
  BY <1>6, StutterIInv
<1> QED
  BY <1>1, <1>2, <1>3, <1>4, <1>5, <1>6 DEF Next, Send

\* Every reachable state of the send queue satisfies the invariant, whatever
\* the packets, their sizes and the capacity of the window.
THEOREM SpecIInv == Spec => []IInv
<1>1. Init => IInv
  BY InitIInv
<1>2. IInv /\ [Next]_vars => IInv'
  BY NextIInv
<1> QED
  BY <1>1, <1>2, PTL DEF Spec

\* sendq's fields keep their types: entries are made of packets, an index never
\* becomes negative.
THEOREM SpecTypeOK == Spec => []TypeOK
<1>1. IInv => TypeOK
  BY DEF IInv
<1> QED
  BY <1>1, SpecIInv, PTL

\* svbuf is never indexed outside its WRIVCNT slots by the live window.
THEOREM SpecWindowInBounds == Spec => []WindowInBounds
<1>1. IInv => WindowInBounds
  BY DEF IInv
<1> QED
  BY <1>1, SpecIInv, PTL

\* No writev is ever given memory of a packet pqh_discard() has released.
THEOREM SpecNoDanglingIov == Spec => []NoDanglingIov
<1>1. IInv => NoDanglingIov
  BY DEF IInv
<1> QED
  BY <1>1, SpecIInv, PTL

\* The byte stream is always a sequence of whole packets and at most one
\* begun packet, whose rest is what send() writes next.
THEOREM SpecFramesStayWhole == Spec => []FramesStayWhole
<1>1. IInv => FramesStayWhole
  BY DEF IInv
<1> QED
  BY <1>1, SpecIInv, PTL
-----------------------------------------------------------------------------
\* Where packets are injected only while every listed packet has its entry,
\* entry i belongs to packet i of the list.
Aligned == \A i \in Live : i <= Len(pq) /\ svbuf[sv + i - 1].pkt = pq[i]

AInv == IInv /\ Aligned /\ SentInOrder

\* Cutting a sequence in two and joining the parts gives it back.
LEMMA CutJoin ==
    ASSUME NEW S, NEW a \in Seq(S), NEW s \in Seq(S), NEW k \in 0 .. Len(s)
    PROVE  (a \o SubSeq(s, 1, k)) \o SubSeq(s, k + 1, Len(s)) = a \o s
<1>1. SubSeq(s, 1, k) \in Seq(S) /\ SubSeq(s, k + 1, Len(s)) \in Seq(S)
  OBVIOUS
<1>2. SubSeq(s, 1, k) \o SubSeq(s, k + 1, Len(s)) = SubSeq(s, 1, Len(s))
  <2>1. 1 \in 1 .. Len(s) + 1 /\ k \in 1 - 1 .. Len(s) /\ Len(s) \in k .. Len(s)
    OBVIOUS
  <2> QED
    BY <2>1, ConcatAdjacentSubSeq, Zenon
<1>3. SubSeq(s, 1, Len(s)) = s
  BY SubSeqFull
<1> DEFINE l == SubSeq(s, 1, k)
           r == SubSeq(s, k + 1, Len(s))
<1>4. l \o r = s
  BY <1>2, <1>3, Zenon
<1>5. l \in Seq(S) /\ r \in Seq(S)
  BY <1>1
<1> HIDE DEF l, r
<1>6. (a \o l) \o r = a \o (l \o r)
  BY <1>5, ConcatAssociative, SMTT(60)
<1>7. (a \o l) \o r = a \o s
  BY <1>4, <1>6
<1> QED
  BY <1>7 DEF l, r

\* A fresh window is aligned.
LEMMA RefillAligned ==
    ASSUME TypeOK, pq' \in Seq(Packets), Refill(pq')
    PROVE  Aligned'
<1>1. /\ svc' <= Len(pq')
      /\ svc' \in 0 .. WRIVCNT
      /\ \A i \in 1 .. svc' : svbuf'[sv' + i - 1] = Whole(pq'[i])
  BY RefillIs
<1> SUFFICES ASSUME NEW i \in 1 .. svc'
             PROVE  i <= Len(pq') /\ svbuf'[sv' + i - 1].pkt = pq'[i]
  BY DEF Aligned, Live
<1>2. i <= Len(pq')
  BY <1>1, SendQueueAssumption
<1>3. svbuf'[sv' + i - 1].pkt = pq'[i]
  BY <1>1, WholeIs
<1> QED
  BY <1>2, <1>3

\* A packet pushed behind the window disturbs neither.
LEMMA PushOutAligned == ASSUME AInv, NEW p \in Packets, push_out(p) PROVE Aligned' /\ SentInOrder'
<1> TypeOK /\ pq \in Seq(Packets) /\ sent \in Seq(Packets) /\ svc \in Nat
  BY DEF AInv, IInv, TypeOK
<1> USE DEF push_out
<1>1. ASSUME NEW i \in Live
      PROVE  i <= Len(pq') /\ svbuf[sv + i - 1].pkt = pq'[i]
  BY DEF AInv, Aligned, Live
<1>2. Append(sent \o pq, p) = sent \o Append(pq, p)
  <2>1. Append(sent \o pq, p) = (sent \o pq) \o <<p>> /\ Append(pq, p) = pq \o <<p>>
    OBVIOUS
  <2> QED
    BY <2>1, ConcatAssociative, <<p>> \in Seq(Packets), SMTT(60)
<1> QED
  BY <1>1, <1>2 DEF AInv, Aligned, SentInOrder, Live

\* Injected behind a window that covers the whole list, the new entries fall
\* in step with the new packets.
LEMMA PullAligned ==
    ASSUME AInv, NEW src \in Batches, svc = Len(pq), pull(src)
    PROVE  Aligned' /\ SentInOrder'
<1> TypeOK /\ pq \in Seq(Packets) /\ sent \in Seq(Packets) /\ svc \in Nat /\ sv \in Nat
  BY DEF AInv, IInv, TypeOK
<1>1. PICK taken \in Seq(Packets) :
             /\ pq' = pq \o taken
             /\ fed' = fed \o taken
             /\ svc' = svc + Len(taken)
             /\ sv' = 0
             /\ svc' <= WRIVCNT
             /\ svbuf' \in [Slots -> Iov \cup {Garbage}]
             /\ \A i \in Live : svbuf'[i - 1] = svbuf[sv + i - 1]
             /\ \A i \in 1 .. Len(taken) : svbuf'[svc + i - 1] = Whole(taken[i])
  BY PullIs DEF AInv
<1>2. ASSUME NEW i \in Live'
      PROVE  i <= Len(pq') /\ svbuf'[sv' + i - 1].pkt = pq'[i]
  <2>1. i \in Nat /\ i > 0 /\ i <= Len(pq') /\ sv' + i - 1 = i - 1
    BY <1>1 DEF Live
  <2>2. CASE i \in Live
    <3>1. svbuf'[i - 1] = svbuf[sv + i - 1] /\ svbuf[sv + i - 1].pkt = pq[i]
      BY <1>1, <2>2 DEF AInv, Aligned
    <3>2. pq'[i] = pq[i]
      BY <1>1, <2>2 DEF Live
    <3> QED
      BY <2>1, <3>1, <3>2
  <2>3. CASE i \notin Live
    <3>1. i - svc \in 1 .. Len(taken) /\ svc + (i - svc) - 1 = i - 1
      BY <1>1, <2>3 DEF Live
    <3>2. svbuf'[i - 1] = Whole(taken[i - svc])
      BY <1>1, <3>1
    <3>3. pq'[i] = taken[i - svc]
      BY <1>1, <2>1, <3>1
    <3> QED
      BY <2>1, <3>2, <3>3, WholeIs
  <2> QED
    BY <2>2, <2>3
<1>3. sent' = sent
  BY DEF pull
<1>4. (sent \o pq) \o taken = sent \o (pq \o taken)
  BY ConcatAssociative, SMTT(60)
<1>5. SentInOrder'
  BY <1>1, <1>3, <1>4 DEF AInv, SentInOrder
<1> QED
  BY <1>2, <1>5 DEF Aligned

\* The packets whose entries writev used up are the ones the list loses.
LEMMA WritevAligned ==
    ASSUME AInv, NEW k \in 0 .. svc, NEW r \in Nat, Writev(k, r)
    PROVE  /\ sent' = sent \o SubSeq(pq, 1, k)
           /\ pq' = SubSeq(pq, k + 1, Len(pq))
           /\ fed' = fed
           /\ k <= Len(pq)
           /\ Aligned'
           /\ SentInOrder'
<1> IInv /\ TypeOK /\ WRIVCNT \in Nat /\ pq \in Seq(Packets) /\ sent \in Seq(Packets) /\ svc \in Nat
    /\ sv \in Nat /\ sv + svc <= WRIVCNT /\ svbuf \in [Slots -> Iov \cup {Garbage}]
  BY SendQueueAssumption DEF AInv, IInv, TypeOK, WindowInBounds
<1>1. /\ k <= Len(pq)
      /\ pq' \in Seq(Packets)
      /\ Len(pq') = Len(pq) - k
      /\ \A i \in 1 .. Len(pq') : pq'[i] = pq[k + i]
  BY WritevTypes
<1>2. /\ sent' = sent \o [i \in 1 .. k |-> svbuf[sv + i - 1].pkt]
      /\ pq' = SubSeq(pq, k + 1, Len(pq))
      /\ fed' = fed
  BY DEF Writev, Drop, Discards
<1>3. [i \in 1 .. k |-> svbuf[sv + i - 1].pkt] = SubSeq(pq, 1, k)
  <2>1. \A i \in 1 .. k : svbuf[sv + i - 1].pkt = pq[i]
    BY DEF AInv, Aligned, Live
  <2>2. SubSeq(pq, 1, k) = [i \in 1 .. k |-> pq[i]]
    BY <1>1
  <2> QED
    BY <2>1, <2>2
<1>4. SentInOrder'
  <2>1. sent' \o pq' = sent \o pq
    <3>1. k \in 0 .. Len(pq)
      BY <1>1
    <3>2. (sent \o SubSeq(pq, 1, k)) \o SubSeq(pq, k + 1, Len(pq)) = sent \o pq
      BY <3>1, CutJoin, Zenon
    <3> QED
      BY <1>2, <1>3, <3>2, Zenon
  <2> QED
    BY <1>2, <2>1 DEF AInv, SentInOrder
<1>5. Aligned'
  <2>1. CASE k = svc
    <3>1. Refill(pq')
      BY <2>1 DEF Writev
    <3> QED
      BY <1>1, <3>1, RefillAligned
  <2>2. CASE k < svc
    <3>1. /\ sv' = sv + k
          /\ svc' = svc - k
          /\ svbuf' = [svbuf EXCEPT ![sv + k] = Advanced(svbuf[sv + k], r)]
      BY <2>2 DEF Writev
    <3> SUFFICES ASSUME NEW i \in Live'
                 PROVE  i <= Len(pq') /\ svbuf'[sv' + i - 1].pkt = pq'[i]
      BY DEF Aligned
    <3>2. /\ i \in Nat /\ i > 0 /\ k + i \in Live /\ sv' + i - 1 = sv + (k + i) - 1
          /\ sv + (k + i) - 1 \in Slots
      BY <2>2, <3>1 DEF Live, Slots
    <3>3. k + i <= Len(pq) /\ svbuf[sv + (k + i) - 1].pkt = pq[k + i]
      BY <3>2 DEF AInv, Aligned
    <3>4. svbuf'[sv + (k + i) - 1].pkt = svbuf[sv + (k + i) - 1].pkt
      <4>1. CASE i > 1
        BY <3>1, <3>2, <4>1
      <4>2. CASE i = 1
        <5>1. sv + (k + i) - 1 = sv + k /\ sv + k \in Slots
          BY <3>2, <4>2
        <5>2. svbuf[sv + k].pkt \in Packets
          <6>1. k + 1 \in 1 .. Len(pq) /\ svbuf[sv + k].pkt = pq[k + 1]
            BY <3>2, <3>3, <4>2, <5>1
          <6> QED
            BY <6>1
        <5>3. svbuf[sv + k] \in Iov
          <6>1. svbuf[sv + k] \in Iov \/ svbuf[sv + k] = Garbage
            BY <5>1
          <6>2. Garbage.pkt \in Packets => Garbage \in Iov
            BY DEF Iov, Garbage
          <6> QED
            BY <5>2, <6>1, <6>2
        <5>4. svbuf'[sv + k] = Advanced(svbuf[sv + k], r)
          BY <3>1, <5>1
        <5> QED
          BY <5>1, <5>3, <5>4 DEF Iov, Advanced
      <4> QED
        BY <3>2, <4>1, <4>2
    <3>5. i <= Len(pq') /\ pq'[i] = pq[k + i]
      BY <1>1, <3>2, <3>3
    <3> QED
      BY <3>2, <3>3, <3>4, <3>5
  <2> QED
    BY <2>1, <2>2
<1> QED
  BY <1>1, <1>2, <1>3, <1>4, <1>5

\* Entering and leaving send() moves no packet.
LEMMA ReturnAligned ==
    ASSUME AInv, SendBegin \/ WouldBlock \/ SendFails \/ UNCHANGED vars
    PROVE  Aligned' /\ SentInOrder' /\ UNCHANGED <<pq, sent, fed>>
<1> TypeOK /\ pq \in Seq(Packets)
  BY DEF AInv, IInv, TypeOK
<1>1. UNCHANGED <<pq, sent, fed>>
  BY DEF SendBegin, WouldBlock, SendFails, vars
<1>2. CASE SendBegin /\ svc = 0
  <2>1. Refill(pq')
    BY <1>1, <1>2 DEF SendBegin
  <2> QED
    BY <1>1, <2>1, RefillAligned DEF AInv, SentInOrder
<1>3. CASE ~(SendBegin /\ svc = 0)
  <2>1. UNCHANGED <<sv, svc, svbuf>>
    BY <1>3 DEF SendBegin, WouldBlock, SendFails, vars
  <2> QED
    BY <1>1, <2>1 DEF AInv, Aligned, SentInOrder, Live
<1> QED
  BY <1>2, <1>3

\* Every step of the disciplined queue is a step of the plain one, and keeps
\* window, list and history in agreement.
LEMMA AlignedNextAInv == AInv /\ [AlignedNext]_vars => AInv'
<1> SUFFICES ASSUME AInv, [AlignedNext]_vars PROVE AInv'
  OBVIOUS
<1>1. IInv'
  <2>1. [Next]_vars
    BY DEF AlignedNext, Next
  <2> QED
    BY <2>1, NextIInv DEF AInv
<1>2. ASSUME NEW p \in Packets, push_out(p) PROVE Aligned' /\ SentInOrder'
  BY <1>2, PushOutAligned
<1>3. ASSUME NEW src \in Batches, svc = Len(pq), pull(src) PROVE Aligned' /\ SentInOrder'
  BY <1>3, PullAligned
<1>4. ASSUME NEW k \in 0 .. svc,
             NEW r \in 0 .. (IF k < svc THEN Left(k + 1) ELSE 0),
             Writev(k, r)
      PROVE  Aligned' /\ SentInOrder'
  BY <1>4, WritevAligned, r \in Nat
<1>5. ASSUME SendBegin \/ WouldBlock \/ SendFails \/ UNCHANGED vars
      PROVE  Aligned' /\ SentInOrder'
  BY <1>5, ReturnAligned
<1>6. Aligned' /\ SentInOrder'
  BY <1>2, <1>3, <1>4, <1>5 DEF AlignedNext, Send
<1> QED
  BY <1>1, <1>6 DEF AInv

LEMMA InitAInv == Init => AInv
<1> SUFFICES ASSUME Init PROVE Aligned /\ SentInOrder
  BY InitIInv DEF AInv
<1>1. Aligned
  BY DEF Init, Aligned, Live
<1>2. SentInOrder
  BY DEF Init, SentInOrder
<1> QED
  BY <1>1, <1>2

\* Where nothing is injected into a backlog, every packet handed to the queue
\* leaves exactly once and in the order it was handed over, through partial
\* writes, EAGAIN and refills of the window.
THEOREM AlignedSentInOrder == AlignedSpec => []SentInOrder
<1>1. AInv => SentInOrder
  BY DEF AInv
<1> QED
  BY <1>1, InitAInv, AlignedNextAInv, PTL DEF AlignedSpec

\* Every step of the disciplined queue is a step of the abstract stream: it
\* takes packets in, or lets the oldest ones leave.
LEMMA StepRefines == ASSUME AInv, [AlignedNext]_vars PROVE [Stream!Next]_<<pq, sent>>
<1> TypeOK /\ pq \in Seq(Packets) /\ sent \in Seq(Packets)
  BY DEF AInv, IInv, TypeOK
<1> SUFFICES Stream!Next \/ UNCHANGED <<pq, sent>>
  OBVIOUS
<1>1. ASSUME NEW more \in Seq(Packets), pq' = pq \o more, sent' = sent PROVE Stream!Enqueue
  <2>1. pq' \in Seq(Packets) /\ Len(pq') >= Len(pq)
    BY <1>1
  <2>2. SubSeq(pq', 1, Len(pq)) = pq
    BY <1>1
  <2> QED
    BY <1>1, <2>1, <2>2 DEF Stream!Enqueue
<1>2. ASSUME NEW p \in Packets, push_out(p) PROVE Stream!Next
  <2>1. pq' = pq \o <<p>> /\ sent' = sent
    BY <1>2 DEF push_out
  <2>2. <<p>> \in Seq(Packets)
    OBVIOUS
  <2> QED
    BY <1>1, <2>1, <2>2 DEF Stream!Next
<1>3. ASSUME NEW src \in Batches, svc = Len(pq), pull(src) PROVE Stream!Next
  <2>1. PICK taken \in Seq(Packets) : pq' = pq \o taken
    BY <1>3, PullIs DEF AInv
  <2>2. sent' = sent
    BY <1>3 DEF pull
  <2> QED
    BY <1>1, <2>1, <2>2 DEF Stream!Next
<1>4. ASSUME NEW k \in 0 .. svc,
             NEW r \in 0 .. (IF k < svc THEN Left(k + 1) ELSE 0),
             Writev(k, r)
      PROVE  Stream!Next
  <2>1. /\ sent' = sent \o SubSeq(pq, 1, k)
        /\ pq' = SubSeq(pq, k + 1, Len(pq))
        /\ k <= Len(pq)
    BY <1>4, WritevAligned, r \in Nat
  <2>2. k \in 0 .. Len(pq)
    BY <2>1
  <2> QED
    BY <2>1, <2>2 DEF Stream!Next, Stream!Emit
<1>5. ASSUME SendBegin \/ WouldBlock \/ SendFails \/ UNCHANGED vars
      PROVE  UNCHANGED <<pq, sent>>
  BY <1>5, ReturnAligned
<1> QED
  BY <1>2, <1>3, <1>4, <1>5 DEF AlignedNext, Send

\* The send queue implements the abstract stream of packets.
THEOREM AlignedImplementsStream == AlignedSpec => ImplementsStream
<1>1. Init => Stream!Init
  BY DEF Init, Stream!Init
<1>2. AInv /\ [AlignedNext]_vars => [Stream!Next]_<<pq, sent>>
  BY StepRefines
<1> QED
  BY <1>1, <1>2, InitAInv, AlignedNextAInv, PTL DEF AlignedSpec, ImplementsStream, Stream!Spec
=============================================================================
