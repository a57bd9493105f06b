---------------------------- MODULE MCSendQueue ----------------------------
(* SendQueue on instances small enough for TLC. *)
EXTENDS SendQueue, TLC

\* Every packet is as long as two partial writes can cut it.
MCSize == [p \in Packets |-> 2]

\* One or two packets are injected at a time.
MCBatches == {<<p>> : p \in Packets}
             \cup {<<p, q>> : <<p, q>> \in {t \in Packets \X Packets : t[1] # t[2]}}

MCSymmetry == Permutations(Packets)
=============================================================================
