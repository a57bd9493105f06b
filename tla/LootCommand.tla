---------------------------- MODULE LootCommand ----------------------------
(***************************************************************************)
(* The text of a loot command: words, each possibly after a sign, that     *)
(* name sets of items to show.  A text is a sequence of pieces that no     *)
(* blank or sign divides, so that pieces next to each other make up one    *)
(* word, as in "0x" "1" "f" or in the unreadable "none" "none".            *)
(*                                                                         *)
(* Scaled: there are Items items instead of 65536 and an unsigned has      *)
(* UintSize values instead of 2^32.                                        *)
(***************************************************************************)
EXTENDS Places, SequencesExt

Items == 16
UintSize == 256

Signs == {"+", "-"}
LootPieces == Signs \cup {" ", "all", "none", "@", "f", "0x", "1", "info"}

\* A mask is the set of the items it has a bit for.
FullMask == 0 .. Items - 1

\* The one file there is, drop/list-f.bin.
fload(name) == IF name = <<"f">> THEN {1, 2} ELSE {}
Exists(name) == name = <<"f">>

\* The leading hexadecimal digits of a piece, and whether it is nothing else.
Digits(p) ==
    CASE p = "1" -> <<1>> [] p = "f" -> <<15>> [] p = "all" -> <<10>> [] p = "0x" -> <<0>>
      [] OTHER -> <<>>
IsNumber(p) == p \in {"1", "f"}

\* The number that the leading digits of these pieces make up.
HexOf(w) ==
    LET stop == FirstOf({i \in DOMAIN w : ~IsNumber(w[i])}, w)
        digits == FlattenSeq([i \in 1 .. Min({stop, Len(w)}) |-> Digits(w[i])])
    IN  FoldLeft(LAMBDA id, digit : (16 * id + digit) % UintSize, 0, digits)

Readable(w) ==
    \/ w \in {<<"all">>, <<"none">>}
    \/ Len(w) > 1 /\ w[1] = "@" /\ Exists(Tail(w))
    \/ Len(w) > 1 /\ w[1] = "0x"

\* An item outside the mask is no item.
parse_mask(w) ==
    CASE w = <<"all">> -> FullMask
      [] w = <<"none">> -> {}
      [] w[1] = "@" -> fload(Tail(w))
      [] OTHER -> {HexOf(Tail(w))} \cap FullMask

\* What a word does to the mask, after its sign.
CombineFaulty(sign, nm, d) == IF sign = "-" THEN nm \ d ELSE nm \cup d
Combine(sign, nm, d) ==
    CASE sign = "+" -> nm \cup d
      [] sign = "-" -> nm \ d
      [] OTHER -> d

WordEnd(t, i) == FirstOf({j \in i .. Len(t) : t[j] \in Signs \cup {" "}}, t)

Unread == [read |-> FALSE, show |-> {}]

\* One round of the loop of loot_cmd: the next word from place r.m on changes
\* r.nm, unless it makes no sense.
NextWord(t, r) ==
    LET m == FirstOf({j \in r.m .. Len(t) : t[j] # " "}, t)
        sign == IF t[m] \in Signs THEN t[m] ELSE " "
        w == IF sign = " " THEN m ELSE m + 1
        word == Part(t, w, WordEnd(t, w))
    IN  IF ~r.read THEN r
        ELSE IF m = End(t) THEN [r EXCEPT !.m = m]
        ELSE IF ~Readable(word) THEN [r EXCEPT !.read = FALSE]
        ELSE [r EXCEPT !.m = WordEnd(t, w), !.nm = Combine(sign, r.nm, parse_mask(word))]

\* Nothing is shown or hidden unless every word makes sense, and nothing by a text
\* that only asks what is.
loot_cmd(t, show) ==
    LET after[n \in 0 .. Len(t)] ==
            IF n = 0 THEN [m |-> 1, read |-> TRUE, nm |-> show] ELSE NextWord(t, after[n - 1])
        end == after[Len(t)]
    IN  IF t = <<"info">> THEN [read |-> TRUE, show |-> show]
        ELSE IF end.read THEN [read |-> TRUE, show |-> end.nm] ELSE Unread

\* The number in the answer of a command that was understood.
count(nm) == Cardinality(nm)
-----------------------------------------------------------------------------
\* A word begins at every sign, and at every other piece that stands at the
\* start of the text or after a blank.
Heads(t) ==
    {i \in DOMAIN t : t[i] \in Signs \/ (t[i] # " " /\ (i = 1 \/ t[i - 1] = " "))}

Word(t, i) ==
    LET w == IF t[i] \in Signs THEN i + 1 ELSE i IN Part(t, w, WordEnd(t, w))

\* The words that say anything about an item: a word without a sign is about
\* every item, one with a sign about those it names.
About(t, item) ==
    {i \in Heads(t) : t[i] \in Signs => item \in parse_mask(Word(t, i))}

\* An item is shown if the last word about it adds or names it, as before if
\* there is none; and as before, whatever the other words say, if one of them
\* cannot be read.
Shown(t, show, item) ==
    IF About(t, item) = {} THEN item \in show
    ELSE LET i == Max(About(t, item))
         IN  t[i] # "-" /\ item \in parse_mask(Word(t, i))

\* "info" is a question only when there is nothing else in the text.
CommandAsSaid(t, show) ==
    loot_cmd(t, show) =
        IF t = <<"info">> THEN [read |-> TRUE, show |-> show]
        ELSE IF \A i \in Heads(t) : Readable(Word(t, i))
        THEN [read |-> TRUE, show |-> {item \in FullMask : Shown(t, show, item)}]
        ELSE Unread
=============================================================================
