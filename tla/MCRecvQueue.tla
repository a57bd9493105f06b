---------------------------- MODULE MCRecvQueue ----------------------------
(* RecvQueue on a stream of a few short frames. *)
EXTENDS RecvQueue

\* Frames that are only a header, between frames with a body, and at last one
\* whose length does not cover its header, with another one behind it.
MCFrames == <<6, 4, 9, 4, 4, 5, 2, 6>>
=============================================================================
