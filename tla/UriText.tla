------------------------------ MODULE UriText ------------------------------
(***************************************************************************)
(* uri_decode: "%" and two hexadecimal digits stand for one byte, every    *)
(* other byte for itself.  Only the first room bytes are stored, but the   *)
(* length returned is that of all of them.                                 *)
(***************************************************************************)
EXTENDS Places, SequencesExt

\* "z" is any byte that is neither "%" nor a digit.
UriBytes == {"%", "1", "f", "z"}

isxdigit(c) == c \in {"1", "f"}
xdigit2i(c) == IF c = "1" THEN 1 ELSE 15

Escape(t, i) == t[i] = "%" /\ i + 2 < End(t) /\ isxdigit(t[i + 1]) /\ isxdigit(t[i + 2])

\* The place after the byte at i, when it is stored and when it is skipped.
Step(t, i) == IF Escape(t, i) THEN i + 3 ELSE i + 1
SkipFaulty(t, i) == i + 1
Skip(t, i) == IF Escape(t, i) THEN i + 3 ELSE i + 1

Decoded(t, i) ==
    IF Escape(t, i) THEN 16 * xdigit2i(t[i + 1]) + xdigit2i(t[i + 2]) ELSE t[i]

\* One round of the loops: a byte is stored while there is room, else only counted.
Round(t, room, r) ==
    IF r.s = End(t) THEN r
    ELSE IF r.len < room
    THEN [s |-> Step(t, r.s), dst |-> Append(r.dst, Decoded(t, r.s)), len |-> r.len + 1]
    ELSE [r EXCEPT !.s = Skip(t, r.s), !.len = r.len + 1]

\* No text takes more rounds than it has bytes.
uri_decode(t, room) ==
    LET after[n \in 0 .. Len(t)] ==
            IF n = 0 THEN [s |-> 1, dst |-> <<>>, len |-> 0]
            ELSE Round(t, room, after[n - 1])
        end == after[Len(t)]
    IN  [dst |-> end.dst, len |-> end.len]
-----------------------------------------------------------------------------
\* The places where a decoded byte begins: all but those inside an escape.
Starts(t) == {i \in DOMAIN t : \A j \in {i - 1, i - 2} \cap DOMAIN t : ~Escape(t, j)}

\* Whatever the room, the length is the number of all decoded bytes and the
\* first of them are stored, so a second call with this room gets everything.
UriRead(t) ==
    LET whole == [n \in 1 .. Cardinality(Starts(t)) |->
                     Decoded(t, CHOOSE i \in Starts(t) :
                                   Cardinality({j \in Starts(t) : j < i}) = n - 1)]
    IN  \A room \in 0 .. Len(t) + 1 :
            uri_decode(t, room) = [dst |-> SubSeq(whole, 1, Min({room, Len(whole)})),
                                   len |-> Len(whole)]
=============================================================================
