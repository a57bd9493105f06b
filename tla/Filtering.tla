----------------------------- MODULE Filtering -----------------------------
(***************************************************************************)
(* What the filters of a session promise about the packets they are given: *)
(* everything is passed on, except the items the player does not want to   *)
(* see and the commands the player typed; a command is obeyed and answered *)
(* once.                                                                   *)
(***************************************************************************)
EXTENDS Naturals, Sequences

CONSTANTS Packets,
          Items,        \* kinds of loot
          Kind,         \* Kind[p]: "item", "command", "private", "said" or "other"
          ItemOf,       \* ItemOf[p]: the item that packet p shows
          Words,        \* Words[p]: the words of command p, each an op and an arg
          Named,        \* Named[arg]: the items an argument names
          Unreadable    \* the arguments that make no sense

VARIABLES show,         \* the items the player wants to see
          loaded,       \* the plugins the session has at the moment
          todo,         \* packets not filtered yet
          passed,       \* packets passed on, in order
          replies       \* the answers sent to the player, in order

Plugins == {"chat", "loot", "debug"}

Init ==
    /\ show = Items
    /\ loaded \subseteq Plugins
    /\ todo = Packets
    /\ passed = <<>>
    /\ replies = <<>>

\* The last word that names item i, or starts anew, decides about i.
Wanted(i, words) ==
    LET deciding == {k \in 1 .. Len(words) : words[k].op = "set" \/ i \in Named[words[k].arg]}
        last == CHOOSE k \in deciding : \A j \in deciding : j <= k
    IN  IF deciding = {} THEN i \in show
        ELSE words[last].op # "sub" /\ i \in Named[words[last].arg]

\* A command with a word that makes no sense changes nothing.
Handle(p) ==
    LET command == Kind[p] = "command" /\ {"chat", "loot"} \subseteq loaded
        hidden == Kind[p] = "item" /\ "loot" \in loaded /\ ItemOf[p] \notin show
        sound == \A k \in 1 .. Len(Words[p]) : Words[p][k].arg \notin Unreadable
    IN  /\ p \in todo
        /\ todo' = todo \ {p}
        /\ passed' = IF command \/ hidden THEN passed ELSE Append(passed, p)
        /\ replies' = IF command THEN Append(replies, IF sound THEN "ok" ELSE "error") ELSE replies
        /\ show' = IF command /\ sound THEN {i \in Items : Wanted(i, Words[p])} ELSE show
        /\ UNCHANGED loaded

\* A plugin could not be loaded again, or can be.
Reload ==
    /\ loaded' \subseteq Plugins
    /\ UNCHANGED <<show, todo, passed, replies>>

Next == Reload \/ \E p \in Packets : Handle(p)

Spec == Init /\ [][Next]_<<show, loaded, todo, passed, replies>>
=============================================================================
