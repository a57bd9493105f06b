------------------------------- MODULE Places -------------------------------
(* Places in a text, counted from 1; the end of a text is a place, too. *)
EXTENDS Integers, Sequences, FiniteSetsExt

End(t) == Len(t) + 1

\* The first of the given places, or the end.
FirstOf(places, t) == Min(places \cup {End(t)})

\* The bytes from place i up to, not including, place j.
Part(t, i, j) == SubSeq(t, i, j - 1)
=============================================================================
