----------------------------- MODULE SendQueue -----------------------------
(***************************************************************************)
(* sendq of proxy.h / proxy.cpp: the packets of one direction on their way *)
(* to a non-blocking socket, and the window of iovec entries that writev   *)
(* is called with.                                                         *)
(*                                                                         *)
(* The entries live in svbuf[WRIVCNT]; the live ones are svbuf[sv] ..      *)
(* svbuf[sv + svc - 1].  An entry is a pointer into a queued packet, so    *)
(* the class is right only if the window and the list agree: send()        *)
(* discards the first packet of the LIST for every ENTRY the kernel took.  *)
(*                                                                         *)
(* A call of send() is a loop over writev: it starts with SendBegin and    *)
(* every further step of it is one system call, after which the loop goes  *)
(* on or returns.  No other operation of the class runs before it returned *)
(* (phase = "sending"): the event loop is single threaded.                 *)
(***************************************************************************)
EXTENDS Integers, Sequences, Functions

CONSTANTS Packets,      \* identities of packets
          Size,         \* Size[p]: rf_packet.len, the bytes of p on the wire
          WRIVCNT,      \* capacity of svbuf (64 in pktq.h)
          Batches       \* the lists of packets injected by one call

ASSUME SendQueueAssumption ==
    /\ Size \in [Packets -> Nat \ {0}]
    /\ WRIVCNT \in Nat \ {0}
    /\ Batches \subseteq Seq(Packets)

VARIABLES pq,           \* sendq.pq
          svbuf,        \* sendq.svbuf, indexed from 0
          sv,           \* sendq.sv - sendq.svbuf
          svc,          \* sendq.svc
          phase,        \* "sending" while send() is looping
          err,          \* the socket is dead: every later writev fails
          sent,         \* packets whose last byte the kernel has taken
          tail,         \* the packet cut short at the end of the byte stream
          fed           \* history: packets handed over, in the order of the calls

vars == <<pq, svbuf, sv, svc, phase, err, sent, tail, fed>>
-----------------------------------------------------------------------------
\* An iovec: iov_base = pkt->data + off, iov_len = pkt->len - off.
Iov == [pkt : Packets, off : Nat]
Garbage == [pkt |-> "uninitialised", off |-> 0]

\* The stream ends between two packets, or after `off' bytes of `pkt'.
Boundary == [pkt |-> "none", off |-> 0]

Slots == 0 .. WRIVCNT - 1
Live == 1 .. svc            \* the i-th live entry is svbuf[sv + i - 1]
Smaller(a, b) == IF a <= b THEN a ELSE b
Drop(s, k) == SubSeq(s, k + 1, Len(s))
Whole(p) == [pkt |-> p, off |-> 0]

Init ==
    /\ pq = <<>>
    /\ svbuf = [i \in Slots |-> Garbage]
    /\ sv = 0
    /\ svc = 0
    /\ phase = "idle"
    /\ err = FALSE
    /\ sent = <<>>
    /\ tail = Boundary
    /\ fed = <<>>

\* svbuf after the entries of ps were written to it from slot `at' on.
Filled(buf, at, ps) ==
    [i \in Slots |-> IF i \in at .. at + Len(ps) - 1 THEN Whole(ps[i - at + 1])
                                                     ELSE buf[i]]

\* A new window is taken from the head of the list: the two fill loops of send().
Refill(q) ==
    LET n == Smaller(WRIVCNT, Len(q))
    IN  /\ sv' = 0
        /\ svc' = n
        /\ svbuf' = Filled(svbuf, 0, SubSeq(q, 1, n))

-----------------------------------------------------------------------------
\* proxy_pipe::push_out: the packet joins the list; no entry is made for it.
push_out(p) ==
    /\ phase = "idle"
    /\ p \notin Range(fed)
    /\ pq' = Append(pq, p)
    /\ fed' = Append(fed, p)
    /\ UNCHANGED <<svbuf, sv, svc, phase, err, sent, tail>>

\* The slots pull() may fill, and with the fault that it counts the live ones.
RoomFaulty == WRIVCNT
Room == WRIVCNT - svc

\* svbuf after pull() moved the live entries to its start, and with the fault
\* that only sv is moved.
MovedFaulty == svbuf
Moved == IF sv # 0 /\ svc # 0
         THEN [i \in Slots |-> IF i < svc THEN svbuf[sv + i] ELSE svbuf[i]]
         ELSE svbuf

(***************************************************************************)
(* sendq::pull, called by proxy_pipe::inject.  src holds the packets of    *)
(* the caller's list that are of this direction, without delay and not     *)
(* dropped: pqh_pull passes over the others.  As many as the window has    *)
(* room for join the list AND get an entry; the window is moved back to    *)
(* the start of svbuf first.                                               *)
(***************************************************************************)
pull(src) ==
    /\ phase = "idle"
    /\ Range(src) \cap Range(fed) = {}
    /\ svc < WRIVCNT
    /\ LET taken == SubSeq(src, 1, Smaller(Room, Len(src)))
       IN  /\ svbuf' = Filled(Moved, svc, taken)
           /\ sv' = IF svc # 0 THEN 0 ELSE sv
           /\ svc' = svc + Len(taken)
           /\ pq' = pq \o taken
           /\ fed' = fed \o taken
    /\ UNCHANGED <<phase, err, sent, tail>>

\* send() is entered.  With nothing to send it returns 0 at once.
SendBegin ==
    /\ phase = "idle"
    /\ pq # <<>>
    /\ IF svc = 0 THEN Refill(pq) ELSE UNCHANGED <<sv, svc, svbuf>>
    /\ phase' = "sending"
    /\ UNCHANGED <<pq, err, sent, tail, fed>>

\* The number of bytes the i-th live entry still covers.
Left(i) == Size[svbuf[sv + i - 1].pkt] - svbuf[sv + i - 1].off

\* An entry after the kernel took r of its bytes, and with the fault that the
\* bytes are given back.
AdvancedFaulty(e, r) == [e EXCEPT !.off = @ - r]
Advanced(e, r) == [e EXCEPT !.off = @ + r]

\* The packets send() discards for k used-up entries and r bytes of the next
\* one, and with the fault that it discards for every entry touched.
DiscardsFaulty(k, r) == IF r > 0 THEN k + 1 ELSE k
Discards(k, r) == k

(***************************************************************************)
(* writev returns bytes > 0: k entries are used up and r bytes of the next *)
(* one are.  Every result a writev over this window can have is such a     *)
(* pair.  Each used-up entry discards the first packet of the list; when   *)
(* the window is empty the next one is made, and when the list is empty    *)
(* too send() returns 0.                                                   *)
(***************************************************************************)
Writev(k, r) ==
    /\ phase = "sending"
    /\ ~err
    /\ k + r > 0
    /\ IF k < svc THEN r < Left(k + 1) ELSE r = 0
    /\ sent' = sent \o [i \in 1 .. k |-> svbuf[sv + i - 1].pkt]
    /\ pq' = Drop(pq, Discards(k, r))
    /\ IF k = svc
       THEN /\ Refill(pq')
            /\ tail' = Boundary
       ELSE /\ sv' = sv + k
            /\ svc' = svc - k
            /\ svbuf' = [svbuf EXCEPT ![sv + k] = Advanced(@, r)]
            /\ tail' = IF r > 0 THEN [pkt |-> svbuf[sv + k].pkt, off |-> svbuf[sv + k].off + r]
                       ELSE Boundary
    /\ phase' = IF svc' = 0 THEN "idle" ELSE "sending"
    /\ UNCHANGED <<err, fed>>

\* writev fails with EAGAIN: send() returns svc.  (EINTR only repeats the call.)
WouldBlock ==
    /\ phase = "sending"
    /\ ~err
    /\ phase' = "idle"
    /\ UNCHANGED <<pq, svbuf, sv, svc, err, sent, tail, fed>>

\* writev fails with any other error: send() returns -1.
SendFails ==
    /\ phase = "sending"
    /\ err' = TRUE
    /\ phase' = "idle"
    /\ UNCHANGED <<pq, svbuf, sv, svc, sent, tail, fed>>

Send ==
    \/ SendBegin
    \/ \E k \in 0 .. svc : \E r \in 0 .. (IF k < svc THEN Left(k + 1) ELSE 0) : Writev(k, r)
    \/ WouldBlock
    \/ SendFails

Next ==
    \/ \E p \in Packets : push_out(p)
    \/ \E src \in Batches : pull(src)
    \/ Send

Spec == Init /\ [][Next]_vars

(***************************************************************************)
(* The discipline that makes the window and the list agree: a packet is    *)
(* injected only while every listed packet has its entry.  A session whose *)
(* filters inject nothing keeps it; main.cpp does not enforce it.          *)
(***************************************************************************)
AlignedNext ==
    \/ \E p \in Packets : push_out(p)
    \/ \E src \in Batches : svc = Len(pq) /\ pull(src)
    \/ Send

AlignedSpec == Init /\ [][AlignedNext]_vars
-----------------------------------------------------------------------------
TypeOK ==
    /\ pq \in Seq(Packets)
    /\ svbuf \in [Slots -> Iov \cup {Garbage}]
    /\ sv \in Nat
    /\ svc \in Nat
    /\ phase \in {"idle", "sending"}
    /\ err \in BOOLEAN
    /\ sent \in Seq(Packets)
    /\ tail \in Iov \cup {Boundary}
    /\ fed \in Seq(Packets)

\* The live entries stay inside svbuf through every move, refill and partial
\* write of sendq, and an empty window is at the start of svbuf: the guard of
\* pull(), which then moves nothing, relies on it.
WindowInBounds ==
    /\ sv + svc <= WRIVCNT
    /\ svc = 0 => sv = 0

\* Every live entry points into a packet that is still in the list, no nearer
\* to its head than the entry is to the head of the window: discarding the
\* head of the list for each used-up entry never frees memory an entry needs,
\* even where window and list do not agree.
NoDanglingIov ==
    \A i \in Live : \E j \in i .. Len(pq) : pq[j] = svbuf[sv + i - 1].pkt

\* The peer never sees a torn packet: if the byte stream ends inside a packet,
\* the head of the window is the rest of that very packet, and any other entry
\* is a whole packet; pull()'s move of the window preserves this.
FramesStayWhole ==
    /\ tail # Boundary => svc > 0 /\ svbuf[sv] = tail
    /\ \A i \in Live : i > 1 \/ tail = Boundary => svbuf[sv + i - 1].off = 0

\* Everything handed over leaves once and in the order it was handed over.
SentInOrder == fed = sent \o pq

\* The queue implements the abstract stream of packets.
Stream == INSTANCE PacketStream WITH queue <- pq
ImplementsStream == Stream!Spec
=============================================================================
