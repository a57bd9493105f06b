--------------------------- MODULE MCFilterChain ---------------------------
(* FilterChain on a few packets of every kind. *)
EXTENDS FilterChain, TLC

CONSTANTS i, j, k,                      \* loot codes
          seen, add, swap, bad, hello, shout

W(o, a) == [op |-> o, arg |-> a]
MCNamed == "all" :> Items @@ "none" :> {} @@ "0x-i" :> {i} @@ "@list" :> {i, j} @@ "junk" :> {}

MCKind ==
    [p \in Packets |-> IF p \in {seen} THEN "item"
                       ELSE IF p \in {add, swap, bad} THEN "command"
                       ELSE IF p = hello THEN "private"
                       ELSE IF p = shout THEN "said"
                       ELSE "other"]
MCItemOf == [p \in Packets |-> i]

\* add: "-all +@list -0x.."; swap: "none +0x.. @list -none"; bad: "none junk".
MCWords ==
    [p \in Packets |->
        IF p = add THEN <<W("sub", "all"), W("add", "@list"), W("sub", "0x-i")>>
        ELSE IF p = swap THEN <<W("set", "none"), W("add", "0x-i"), W("set", "@list"), W("sub", "none")>>
        ELSE IF p = bad THEN <<W("set", "none"), W("set", "junk")>>
        ELSE <<>>]
=============================================================================
