------------------------------ MODULE Library ------------------------------
(***************************************************************************)
(* The parts of the program that share no state with the proxy's event     *)
(* loop or with each other: the texts it reads, the socket helpers and the *)
(* configuration.  A behaviour is one of one of them, the others being     *)
(* idle, so that one run looks at each in turn.                            *)
(***************************************************************************)
EXTENDS Texts, SockIO, Config

vars == <<textVars, sockVars, confVars>>

Init ==
    \/ TextsInit /\ SockIdle /\ ConfigIdle
    \/ TextsIdle /\ SockInit /\ ConfigIdle
    \/ TextsIdle /\ SockIdle /\ ConfigInit

Next ==
    \/ TextsNext /\ UNCHANGED <<sockVars, confVars>>
    \/ SockNext /\ UNCHANGED <<textVars, confVars>>
    \/ ConfigNext /\ UNCHANGED <<textVars, sockVars>>

Spec == Init /\ [][Next]_vars

FairSpec == Spec /\ SockFairness
=============================================================================
