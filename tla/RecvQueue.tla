----------------------------- MODULE RecvQueue -----------------------------
(***************************************************************************)
(* recvq of proxy.h / proxy.cpp: the packets of a byte stream are put      *)
(* together again from the pieces readv returns.                           *)
(*                                                                         *)
(* The stream is a sequence of frames; a frame starts with a header of HDR *)
(* bytes (2 for its length, 2 for its type).  The length is meant to count *)
(* the header, but nobody looks whether it does: it may be any number.     *)
(* A byte is identified by its place in the stream, so "the right bytes in *)
(* the right packet" can be said without their values.                     *)
(*                                                                         *)
(* One readv is one step; the loop that extracts packets from buf is one   *)
(* step per iteration (phase = "extract").                                 *)
(***************************************************************************)
EXTENDS Integers, Sequences

CONSTANTS Frames,       \* the lengths of the frames of the stream, in order
          HDR,          \* sizeof(rd_buf), 4
          BUF           \* sizeof(buf), 8192

ASSUME RecvQueueAssumption ==
    /\ HDR \in Nat \ {0}
    /\ BUF \in Nat \ {0}
    /\ Frames \in Seq(Nat)

VARIABLES pos,          \* bytes of the stream taken from the socket
          rd,           \* recvq.rd: the packet being read, or NULL
          rd_buf,       \* recvq.rd_buf
          rd_pos,       \* recvq.rd_pos
          pq,           \* recvq.pq: every packet pushed so far
          from, bytes,  \* p and bytes: what is left in buf starts at `from'
          phase,        \* where recv() is
          ended         \* recv() has returned false

vars == <<pos, rd, rd_buf, rd_pos, pq, from, bytes, phase, ended>>
-----------------------------------------------------------------------------
\* The bytes of frame i: those its length says, and its header in any case.
Size(i) == IF Frames[i] < HDR THEN HDR ELSE Frames[i]

\* Start[i] is the place of the first byte of frame i.
Start[i \in 1 .. Len(Frames) + 1] == IF i = 1 THEN 0 ELSE Start[i - 1] + Size(i - 1)
StreamLen == Start[Len(Frames) + 1]

Unset == -1
NULL == [len |-> Unset, data |-> <<>>]
Smaller(a, b) == IF a <= b THEN a ELSE b

\* Byte places o, o + 1, ...: a header that is complete in buf.
HeaderAt(o) == [i \in 0 .. HDR - 1 |-> o + i]

\* GET_INT16 of a header h: the length of the frame h is the header of.  Bytes
\* that are no header yield some number.
LengthIn(h) ==
    IF \E i \in 1 .. Len(Frames) : h = HeaderAt(Start[i])
    THEN Frames[CHOOSE i \in 1 .. Len(Frames) : h = HeaderAt(Start[i])]
    ELSE HDR

\* pkt_new for header h: the packet starts with the header, the rest is not set.
\* Of a header longer than the packet, the rest is written behind the packet.
pkt_new(h) ==
    [len |-> LengthIn(h),
     data |-> [i \in 0 .. LengthIn(h) - 1 |-> IF i < HDR THEN h[i] ELSE Unset]]

\* memcpy of n bytes of the stream, starting with byte o, to a[at]; with the
\* fault that what is there already is overwritten.
CopiedFaulty(a, at, o, n) ==
    [i \in DOMAIN a |-> IF i < n THEN o + i ELSE a[i]]
Copied(a, at, o, n) ==
    [i \in DOMAIN a |-> IF i \in at .. at + n - 1 THEN o + i - at ELSE a[i]]

Init ==
    /\ pos = 0
    /\ rd = NULL
    /\ rd_buf = [i \in 0 .. HDR - 1 |-> Unset]
    /\ rd_pos = 0
    /\ pq = <<>>
    /\ from = 0 /\ bytes = 0
    /\ phase = "idle"
    /\ ended = FALSE

\* A packet of which n bytes are there is pushed if that is all of it; with the
\* faults that a packet without a body is not looked at again, and that rd_pos is
\* not reset.  A packet shorter than its header never is: n is beyond its end.
PushLater(pkt, n) ==
    IF n = pkt.len /\ n > HDR
    THEN pq' = Append(pq, pkt) /\ rd' = NULL /\ rd_pos' = 0
    ELSE pq' = pq /\ rd' = pkt /\ rd_pos' = n
PushNoReset(pkt, n) ==
    IF n = pkt.len
    THEN pq' = Append(pq, pkt) /\ rd' = NULL /\ rd_pos' = n
    ELSE pq' = pq /\ rd' = pkt /\ rd_pos' = n
PushIfFull(pkt, n) ==
    IF n = pkt.len
    THEN pq' = Append(pq, pkt) /\ rd' = NULL /\ rd_pos' = 0
    ELSE pq' = pq /\ rd' = pkt /\ rd_pos' = n
-----------------------------------------------------------------------------
\* The read event calls recv().
Recv ==
    /\ phase = "idle"
    /\ ~ended
    /\ phase' = "read"
    /\ UNCHANGED <<pos, rd, rd_buf, rd_pos, pq, from, bytes, ended>>

\* The header that pkt_new wrote goes beyond the end of the packet being read.
Beyond == rd # NULL /\ rd_pos > rd.len

\* rv[0].iov_len: what is missing of the packet, or of the header.
Wanted == (IF rd # NULL THEN rd.len ELSE HDR) - rd_pos

\* readv returns n > 0 bytes, as many as the socket happens to have.
Readv(n) ==
    /\ phase = "read"
    /\ ~Beyond
    /\ n <= Wanted + BUF
    /\ pos' = pos + n
    /\ IF n < Wanted
       THEN \* more bytes are needed to complete the part
            /\ rd_pos' = rd_pos + n
            /\ IF rd # NULL
               THEN rd' = [rd EXCEPT !.data = Copied(@, rd_pos, pos, n)] /\ UNCHANGED rd_buf
               ELSE rd_buf' = Copied(rd_buf, rd_pos, pos, n) /\ UNCHANGED rd
            /\ UNCHANGED <<pq, from, bytes, phase>>
       ELSE /\ IF rd # NULL
               THEN \* the packet is complete
                    /\ PushIfFull([rd EXCEPT !.data = Copied(@, rd_pos, pos, Wanted)], rd.len)
                    /\ UNCHANGED rd_buf
               ELSE \* the header is complete
                    /\ rd_buf' = Copied(rd_buf, rd_pos, pos, Wanted)
                    /\ PushIfFull(pkt_new(rd_buf'), HDR)
            /\ from' = pos + Wanted
            /\ bytes' = n - Wanted
            /\ phase' = IF n = Wanted THEN "read" ELSE "extract"
    /\ UNCHANGED ended

\* One iteration of the loop over buf: bytes of the packet being read, the
\* header of the next one, or the beginning of a header that is kept for the
\* next readv.
Extract ==
    /\ phase = "extract"
    /\ ~Beyond
    /\ \/ /\ rd # NULL
          /\ LET c == Smaller(bytes, rd.len - rd_pos)
             IN  /\ PushIfFull([rd EXCEPT !.data = Copied(@, rd_pos, from, c)], rd_pos + c)
                 /\ from' = from + c
                 /\ bytes' = bytes - c
          /\ UNCHANGED rd_buf
       \/ /\ rd = NULL
          /\ bytes >= HDR
          /\ PushIfFull(pkt_new(HeaderAt(from)), rd_pos + HDR)
          /\ from' = from + HDR
          /\ bytes' = bytes - HDR
          /\ UNCHANGED rd_buf
       \/ /\ rd = NULL
          /\ bytes < HDR
          /\ rd_buf' = Copied(rd_buf, rd_pos, from, bytes)
          /\ rd_pos' = rd_pos + bytes
          /\ bytes' = 0
          /\ UNCHANGED <<rd, pq, from>>
    /\ phase' = IF bytes' = 0 THEN "read" ELSE "extract"
    /\ UNCHANGED <<pos, ended>>

\* Where Readv and Extract compute rd->len - rd_pos, that is a huge number: readv
\* or memcpy writes far behind the packet, and what the program does from there on
\* the code does not say.
Overrun ==
    /\ Beyond
    /\ phase = "extract" \/ (phase = "read" /\ pos < StreamLen)
    /\ phase' = "overrun"
    /\ UNCHANGED <<pos, rd, rd_buf, rd_pos, pq, from, bytes, ended>>

\* readv fails with EAGAIN: recv() returns true.
WouldBlock ==
    /\ phase = "read"
    /\ phase' = "idle"
    /\ UNCHANGED <<pos, rd, rd_buf, rd_pos, pq, from, bytes, ended>>

\* End of the stream or an error, possibly in the middle of a frame: recv()
\* returns false and is not called again.
Eof ==
    /\ phase = "read"
    /\ phase' = "idle"
    /\ ended' = TRUE
    /\ UNCHANGED <<pos, rd, rd_buf, rd_pos, pq, from, bytes>>

Next ==
    \/ Recv
    \/ \E n \in 1 .. StreamLen - pos : Readv(n)
    \/ Extract
    \/ Overrun
    \/ WouldBlock
    \/ Eof

Spec == Init /\ [][Next]_vars
-----------------------------------------------------------------------------
\* The packet that frame i should become.
Frame(i) == [len |-> Frames[i], data |-> [j \in 0 .. Frames[i] - 1 |-> Start[i] + j]]

TypeOK ==
    /\ pos \in 0 .. StreamLen
    /\ rd.len \in Nat \cup {Unset} /\ (rd # NULL => rd.data \in [0 .. rd.len - 1 -> Nat \cup {Unset}])
    /\ rd_buf \in [0 .. HDR - 1 -> Nat \cup {Unset}]
    /\ rd_pos \in Nat
    /\ \A i \in 1 .. Len(pq) : pq[i].data \in [0 .. pq[i].len - 1 -> Nat]
    /\ from \in Nat /\ bytes \in 0 .. BUF
    /\ phase \in {"idle", "read", "extract", "overrun"}
    /\ ended \in BOOLEAN

\* The length of the frame that comes next does not cover its header.
TooShort == Len(pq) < Len(Frames) /\ Frames[Len(pq) + 1] < HDR

\* However the stream is cut into reads, the packets pushed are its frames, in
\* order and with their own bytes at their places.
FramesRecovered ==
    /\ Len(pq) <= Len(Frames)
    /\ \A i \in 1 .. Len(pq) : pq[i] = Frame(i)

\* When recv() returns no complete frame is held back: the bytes not in a
\* pushed packet are the beginning of the next frame, and they are all kept.
\* A frame too short for its header is not pushed even when its header is there.
NothingHeldBack ==
    phase = "idle" =>
        /\ pos = Start[Len(pq) + 1] + rd_pos
        /\ Len(pq) < Len(Frames) /\ ~TooShort => pos < Start[Len(pq) + 2]

\* readv, memcpy and pkt_new stay inside the header buffer and inside the packet
\* unless the length in the header of that very frame is too short for the header
\* (proxy.cpp:128 and 150 take any length: that frame, and no other bytes of any
\* stream, makes them write beyond the packet); and a header that is cut by the end
\* of the buffer finds rd_buf empty (proxy.cpp:149, "rd_pos is always zero at this
\* point").
WritesInBounds ==
    /\ rd = NULL => rd_pos \in 0 .. HDR - 1
    /\ rd # NULL => rd_pos \in HDR .. rd.len - 1 \/ TooShort
    /\ phase = "overrun" => TooShort
    /\ phase = "extract" /\ rd = NULL => rd_pos = 0
=============================================================================
