---------------------------- MODULE PacketStream ----------------------------
(***************************************************************************)
(* What one direction of a proxied connection promises: packets are taken  *)
(* in, and leave whole, once each and in the order they were taken in.     *)
(* The send queue of proxy.cpp is shown to implement it.                   *)
(***************************************************************************)
EXTENDS Naturals, Sequences

CONSTANT Packets        \* every packet there may ever be

VARIABLES queue,        \* packets taken in whose last byte has not left
          sent          \* packets whose last byte has left, in that order

Init == queue = <<>> /\ sent = <<>>

\* A caller hands over packets to be sent after all earlier ones.
Enqueue ==
    /\ queue' \in Seq(Packets)
    /\ Len(queue') >= Len(queue)
    /\ SubSeq(queue', 1, Len(queue)) = queue
    /\ UNCHANGED sent

\* The last bytes of the k oldest packets leave.
Emit(k) ==
    /\ sent' = sent \o SubSeq(queue, 1, k)
    /\ queue' = SubSeq(queue, k + 1, Len(queue))

Next ==
    \/ Enqueue
    \/ \E k \in 0 .. Len(queue) : Emit(k)

Spec == Init /\ [][Next]_<<queue, sent>>
=============================================================================
