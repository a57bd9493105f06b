------------------------------- MODULE SockIO -------------------------------
(***************************************************************************)
(* The helpers of lib/sock.c that move a buffer through a non-blocking     *)
(* descriptor: read_ms, write_ms, write_full_ms, writev_full and           *)
(* writev_full_ms.  A call goes on while the peer drains (or fills) the    *)
(* descriptor, signals arrive and the peer goes away.                      *)
(*                                                                         *)
(* A byte is known by its place in the buffer.  What is left to move is a  *)
(* vector of entries, each a sequence of places; a plain buffer is a       *)
(* vector of one entry.                                                    *)
(***************************************************************************)
EXTENDS Integers, Sequences, SequencesExt

CONSTANTS Lengths,      \* vectors of entry lengths a caller may hand over
          Room,         \* bytes the descriptor takes (or holds) at most
          MaxSignals    \* bound of the number of signals in a call

ASSUME SockIOAssumption ==
    Lengths \subseteq Seq(Nat) /\ Room \in Nat /\ MaxSignals \in Nat

VARIABLES
    fn,         \* the helper that was called
    asked,      \* the vector it was called with
    iov,        \* the entries left
    nwritten,   \* bytes it believes to have moved (pos in write_full_ms)
    errno,      \* left by whatever failed last, also before the call
    phase,      \* "idle", about to make its "call", in "poll", or "done"
    result,     \* what it returned
    room,       \* bytes the next call can move
    moved,      \* places the kernel took (or gave), in this order
    signals,    \* signals that arrived
    gone        \* the peer is gone

sockVars == <<fn, asked, iov, nwritten, errno, phase, result, room, moved, signals, gone>>

Single == {"read_ms", "write_ms"}
Vectored == {"writev_full", "writev_full_ms"}
Timed == {"read_ms", "write_ms", "write_full_ms", "writev_full_ms"}
-----------------------------------------------------------------------------
Flat(v) == FlattenSeq(v)
Size(v) == Len(Flat(v))

\* The vector of the given entry lengths, its bytes numbered through.
Offset(lengths, i) == FoldSeq(+, 0, SubSeq(lengths, 1, i - 1))
Vector(lengths) ==
    [i \in DOMAIN lengths |-> [j \in 1 .. lengths[i] |-> Offset(lengths, i) + j]]

\* Entries are used up in turn while bytes are left to account for; an empty
\* entry behind the last of these bytes stays.
UsedUpFaulty(v, k) == {n \in DOMAIN v : Size(SubSeq(v, 1, n)) < k}
UsedUp(v, k) == {n \in DOMAIN v : Size(SubSeq(v, 1, n - 1)) < k /\ Size(SubSeq(v, 1, n)) <= k}

\* What is left of a vector when k bytes of it are gone.
Advance(v, k) ==
    LET n == Cardinality(UsedUp(v, k))
        rest == SubSeq(v, n + 1, Len(v))
        cut == k - Size(SubSeq(v, 1, n))
    IN  IF rest = <<>> THEN <<>>
        ELSE <<SubSeq(Head(rest), cut + 1, Len(Head(rest)))>> \o Tail(rest)

\* write_full_ms accounts for the whole buffer whatever was written.
Account(k) == IF fn = "write_full_ms" THEN Size(asked) ELSE k

\* What the loop has left to do.
Left(k) ==
    IF fn \in Vectored THEN Advance(iov, k)
    ELSE <<SubSeq(Flat(asked), nwritten + Account(k) + 1, Size(asked))>>

\* The loop has come to its end.
Finished(left) == IF fn \in Vectored THEN left = <<>> ELSE fn \in Single \/ Size(left) = 0
-----------------------------------------------------------------------------
SockIdle ==
    /\ fn = "none" /\ asked = <<>> /\ iov = <<>> /\ nwritten = 0 /\ errno = "none"
    /\ phase = "idle" /\ result = 0 /\ room = 0 /\ moved = <<>> /\ signals = 0 /\ gone = FALSE

\* A call, with the errno of some earlier one.  A loop over an empty vector is
\* over before it begins.
SockInit ==
    /\ \E lengths \in Lengths :
          /\ asked = Vector(lengths)
          /\ fn \in Timed \cup Vectored
          /\ fn \notin Vectored => Len(lengths) = 1
          /\ phase = IF fn \in Vectored /\ lengths = <<>> THEN "done" ELSE "call"
    /\ iov = asked
    /\ nwritten = 0 /\ result = 0
    /\ errno \in {"none", "EAGAIN"}
    /\ room \in 0 .. Room
    /\ moved = <<>> /\ signals = 0 /\ gone = FALSE

\* Where the loop goes on when the call would block; writev_full tries at once.
OnEAGAINFaulty == IF fn \in Vectored THEN "call" ELSE "poll"
OnEAGAIN == IF fn = "writev_full" THEN "call" ELSE "poll"

Return(r) == phase' = "done" /\ result' = r

\* A write that moves nothing because there is nothing to write succeeds.
Moves == Size(iov) > 0

\* The system call moves some of the bytes.
Transfer ==
    /\ phase = "call" /\ Moves /\ room > 0
    /\ fn # "read_ms" => ~gone
    /\ \E k \in 1 .. Min({room, Size(iov)}) :
          /\ moved' = moved \o SubSeq(Flat(iov), 1, k)
          /\ room' = room - k
          /\ nwritten' = nwritten + Account(k)
          /\ iov' = Left(k)
          /\ IF Finished(Left(k)) THEN Return(nwritten')
             ELSE UNCHANGED <<phase, result>>
    /\ UNCHANGED <<fn, asked, errno, signals, gone>>

\* It returns zero: nothing to move, or the end of what is read.  The loops over
\* a vector take this for a failure and look at an errno it did not set.
Zero ==
    /\ phase = "call"
    /\ Moves => fn = "read_ms" /\ gone /\ room = 0
    /\ IF fn \notin Vectored THEN Return(0)
       ELSE CASE errno = "EINTR" -> UNCHANGED <<phase, result>>
              [] errno = "EAGAIN" -> phase' = OnEAGAIN /\ UNCHANGED result
              [] OTHER -> Return(-1)
    /\ UNCHANGED <<fn, asked, iov, nwritten, errno, room, moved, signals, gone>>

\* It is interrupted by a signal and repeated.
Interrupted ==
    /\ phase = "call" /\ Moves /\ signals < MaxSignals
    /\ signals' = signals + 1
    /\ errno' = "EINTR"
    /\ UNCHANGED <<fn, asked, iov, nwritten, phase, result, room, moved, gone>>

\* It would block.
Blocks ==
    /\ phase = "call" /\ Moves /\ room = 0 /\ ~gone
    /\ errno' = "EAGAIN"
    /\ phase' = OnEAGAIN
    /\ UNCHANGED <<fn, asked, iov, nwritten, result, room, moved, signals, gone>>

\* What a failed call returns: write_full_ms what it has accounted for.
Failure == IF fn = "write_full_ms" THEN nwritten ELSE -1

\* It fails because the peer is gone.
Fails ==
    /\ phase = "call" /\ Moves /\ gone /\ fn # "read_ms"
    /\ errno' = "EPIPE"
    /\ Return(Failure)
    /\ UNCHANGED <<fn, asked, iov, nwritten, room, moved, signals, gone>>

\* poll() says that the descriptor is ready.
Ready ==
    /\ phase = "poll" /\ (room > 0 \/ gone)
    /\ phase' = "call"
    /\ UNCHANGED <<fn, asked, iov, nwritten, errno, result, room, moved, signals, gone>>

\* poll() times out, is interrupted, or reports nothing but an error: the call is
\* given up.  The plain loops report a time-out whatever it was.
SetErrno(e) == IF fn = "writev_full_ms" THEN e ELSE "EAGAIN"

GiveUp ==
    /\ phase = "poll"
    /\ \/ room = 0 /\ ~gone /\ errno' = SetErrno(errno) /\ UNCHANGED signals
       \/ gone /\ fn # "read_ms" /\ errno' = SetErrno(errno) /\ UNCHANGED signals
       \/ signals < MaxSignals /\ errno' = SetErrno("EINTR") /\ signals' = signals + 1
    /\ Return(Failure)
    /\ UNCHANGED <<fn, asked, iov, nwritten, room, moved, gone>>

Running == phase \in {"call", "poll"}

\* The peer reads (or sends) a byte, and goes away.
PeerMoves ==
    /\ Running /\ ~gone /\ room < Room
    /\ room' = room + 1
    /\ UNCHANGED <<fn, asked, iov, nwritten, errno, phase, result, moved, signals, gone>>

PeerGoes ==
    /\ Running /\ ~gone
    /\ gone' = TRUE
    /\ UNCHANGED <<fn, asked, iov, nwritten, errno, phase, result, room, moved, signals>>

Call == Transfer \/ Zero \/ Interrupted \/ Blocks \/ Fails
Poll == Ready \/ GiveUp
SockNext == Call \/ Poll \/ PeerMoves \/ PeerGoes

\* The helper runs on, and poll() returns when the descriptor is ready or its
\* time is over; nothing is assumed of the peer.
SockFairness == WF_sockVars(Call) /\ WF_sockVars(Poll)

SockSpec == SockInit /\ [][SockNext]_sockVars /\ SockFairness
-----------------------------------------------------------------------------
EmptyEnd == asked # <<>> /\ Last(asked) = <<>>

\* However a call is cut up, by partial transfers, signals and time-outs, the
\* bytes go through once and in order.  A helper that claims to have moved the
\* vector has moved all of it and returns its length; one that returns an error
\* has not (unless an empty entry ends the vector); a single transfer tells how
\* much it moved, and that its time was over if the peer is still there
\* (lib/sock.c:115, 141, 185).
WholeOrError ==
    /\ IsPrefix(moved, Flat(asked))
    /\ phase = "done" /\ fn \in Vectored =>
          IF result >= 0 THEN result = Size(asked) /\ moved = Flat(asked)
          ELSE Len(moved) < Size(asked) \/ EmptyEnd
    /\ phase = "done" /\ fn \in Single =>
          IF result >= 0 THEN Len(moved) = result
          ELSE moved = <<>> /\ (~gone => errno = "EAGAIN")

\* lib/sock.c:168, "On error returns number of bytes that were successfully
\* sent.  That means error condition for this function is result != len": what
\* write_full_ms returns is what was sent.
CountIsSent == phase = "done" /\ fn = "write_full_ms" => result = Len(moved)

\* A helper with a time-out returns, whatever the peer does (a vector that ends
\* in an empty entry apart, on which the loop may never end).
Returns == fn \in Timed /\ ~EmptyEnd ~> phase \in {"idle", "done"}
=============================================================================
