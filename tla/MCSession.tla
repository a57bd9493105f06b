----------------------------- MODULE MCSession -----------------------------
(***************************************************************************)
(* Session on instances small enough for TLC.  The command a of the client *)
(* is dropped and answered by r; the packet c of the server makes q go to  *)
(* the server first; b, d and e are just relayed.                          *)
(***************************************************************************)
EXTENDS Session, TLC

CONSTANTS a, b, c, d, e, r, q

Dropped(ps) == [p \in Packets |-> p \in ps]
Nothing == [p \in Packets |-> <<>>]

\* c2s: a; s2c: c, d.
InputOne == CLI_TO_SRV :> <<a>> @@ SRV_TO_CLI :> <<c, d>>
\* c2s: a; s2c: c, d, e: enough for a backlog behind the window.
InputBacklog == CLI_TO_SRV :> <<a>> @@ SRV_TO_CLI :> <<c, d, e>>
\* The same backlog, and a packet that follows a.
InputBoth == CLI_TO_SRV :> <<a, b>> @@ SRV_TO_CLI :> <<c, d, e>>

DirOf == [p \in Packets |-> IF p \in {a, b, q} THEN CLI_TO_SRV ELSE SRV_TO_CLI]

DropInject == Dropped({a})
PostInject == [Nothing EXCEPT ![a] = <<r>>]
PreInject == [Nothing EXCEPT ![c] = <<q>>]
=============================================================================
