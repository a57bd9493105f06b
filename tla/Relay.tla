------------------------------- MODULE Relay -------------------------------
(***************************************************************************)
(* What a session of the proxy promises to the two peers about the packets *)
(* they send: each direction is a reliable stream.  The destination gets a *)
(* prefix of what the source sent, and it is told that the stream has      *)
(* ended only after it was given all of it.                                *)
(***************************************************************************)
EXTENDS Naturals, Sequences

CONSTANTS Dirs,         \* the directions of a session
          Packets

VARIABLES given,        \* given[d]: what the source of d has sent
          fin,          \* fin[d]: the source of d will send no more
          passed,       \* passed[d]: what was passed on to the destination
          shut          \* shut[d]: the end of d was passed on

Init ==
    /\ given = [d \in Dirs |-> <<>>]
    /\ fin = [d \in Dirs |-> FALSE]
    /\ passed = [d \in Dirs |-> <<>>]
    /\ shut = [d \in Dirs |-> FALSE]

Give(d, p) ==
    /\ ~fin[d]
    /\ given' = [given EXCEPT ![d] = Append(@, p)]
    /\ UNCHANGED <<fin, passed, shut>>

\* The source stops; if it breaks off, what was not passed on yet may be lost.
Stop(d, n) ==
    /\ n >= Len(passed[d])
    /\ fin' = [fin EXCEPT ![d] = TRUE]
    /\ given' = [given EXCEPT ![d] = SubSeq(@, 1, n)]
    /\ UNCHANGED <<passed, shut>>

\* The next packets are passed on, before the end of the stream is.
Pass(d, n) ==
    /\ ~shut[d]
    /\ n > Len(passed[d])
    /\ passed' = [passed EXCEPT ![d] = SubSeq(given[d], 1, n)]
    /\ UNCHANGED <<given, fin, shut>>

\* The last packets are passed on, and with them the end of the stream.
End(d) ==
    /\ fin[d]
    /\ passed' = [passed EXCEPT ![d] = given[d]]
    /\ shut' = [shut EXCEPT ![d] = TRUE]
    /\ UNCHANGED <<given, fin>>

Next ==
    \E d \in Dirs :
        \/ \E p \in Packets : Give(d, p)
        \/ \E n \in 0 .. Len(given[d]) : Stop(d, n) \/ Pass(d, n)
        \/ End(d)

Spec == Init /\ [][Next]_<<given, fin, passed, shut>>
=============================================================================
