------------------------------ MODULE ChatLine ------------------------------
(***************************************************************************)
(* How rfx_chat::process takes a chat packet apart: the nick, possibly     *)
(* after a tag in brackets, and the message.  A text is what the packet    *)
(* holds from the place of the nick on.                                    *)
(***************************************************************************)
EXTENDS Places

NUL == "NUL"
ChatBytes == {"x", "[", "]", ":", " ", NUL}
-----------------------------------------------------------------------------
\* The place of the "]" that ends the tag, if there is a tag.
TagEnd(t) == FirstOf({i \in DOMAIN t : t[i] = "]"}, t)

\* The tag is not closed, or nothing follows it: the packet is left alone.
Unknown(t) == t[1] = "[" /\ TagEnd(t) + 1 >= End(t)

\* The first byte of the nick, and with the fault that the bracket is taken for
\* a part of it.
NickFaulty(t) == IF t[1] = "[" THEN TagEnd(t) ELSE 1
Nick(t) == IF t[1] = "[" THEN TagEnd(t) + 1 ELSE 1

\* The byte after the nick.
NickEnd(t) == FirstOf({i \in Nick(t) .. Len(t) : t[i] \in {NUL, ":", " "}}, t)

\* Where the search for the separator stops, and the first byte of the message;
\* 0 where the code makes up the message "<ERROR>".
Stop(t) ==
    IF NickEnd(t) = End(t) THEN End(t)
    ELSE Min({i \in NickEnd(t) .. Len(t) - 1 : t[i] = ":" \/ t[i + 1] = " "} \cup {Len(t)})
Message(t) == IF Stop(t) + 2 < End(t) THEN Stop(t) + 2 ELSE 0
-----------------------------------------------------------------------------
\* The nick is t[s] .. t[e - 1], followed by ": " and a message.
Says(t, s, e) ==
    /\ s < e /\ e + 2 <= Len(t)
    /\ t[e] = ":" /\ t[e + 1] = " "
    /\ \A i \in s .. e - 1 : t[i] = "x"
    /\ \/ s = 1
       \/ t[1] = "[" /\ t[s - 1] = "]" /\ \A i \in 2 .. s - 2 : t[i] # "]"

ChatRead(t) ==
    \A s, e \in DOMAIN t : Says(t, s, e) =>
        ~Unknown(t) /\ Nick(t) = s /\ NickEnd(t) = e /\ Message(t) = e + 2

\* The places where a separator could be.
Separators(t) == {i \in NickEnd(t) .. Len(t) - 2 : t[i] = ":" /\ t[i + 1] = " "}
=============================================================================
