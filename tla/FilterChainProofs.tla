------------------------- MODULE FilterChainProofs -------------------------
(***************************************************************************)
(* Proofs about FilterChain, for every set of packets, of items and of     *)
(* commands of any length: the reference counts, and that the chain        *)
(* implements Filtering.                                                   *)
(***************************************************************************)
EXTENDS FilterChain, NatFacts, FiniteSetTheorems, TLAPS

\* What the packet that is being filtered calls for, given what is loaded.
Speaks == Kind[pkt] \in {"command", "private", "said"} /\ "chat" \in loaded
Command == Kind[pkt] = "command" /\ "chat" \in loaded /\ "loot" \in loaded
Hidden == Kind[pkt] = "item" /\ "loot" \in loaded /\ ItemOf[pkt] \notin before
Sound == \A k \in 1 .. Len(Words[pkt]) : Words[pkt][k].arg \notin Unreadable

\* Whether word k decides about item i, and whether i is wanted after the words
\* if it was in the mask: the last word that decides about it says so.
Decides(words, i, k) == words[k].op = "set" \/ i \in Named[words[k].arg]
Wants(mask, i, words) ==
    LET deciding == {k \in 1 .. Len(words) : Decides(words, i, k)}
        last == CHOOSE k \in deciding : \A j \in deciding : j <= k
    IN  IF deciding = {} THEN i \in mask
        ELSE words[last].op # "sub" /\ i \in Named[words[last].arg]

\* The mask after the command, and the answer.
NewShow == IF Sound THEN {i \in Items : Wants(before, i, Words[pkt])} ELSE before
Answer == IF Sound THEN "ok" ELSE "error"

\* The events there can be.
ChatEvent == [what |-> IF Kind[pkt] = "said" THEN "WCHAT_SENT" ELSE "PRIV_SENT",
              source |-> pkt,
              text |-> IF Kind[pkt] = "command" THEN "loot" ELSE "friend"]
ReplyEvent == [what |-> "SEND_REPLY", source |-> NULL, text |-> Answer]

\* The stages a packet goes through.
Resting ==
    /\ phase = "idle" /\ pkt = NULL /\ at = 1
    /\ evq = <<>> /\ ev = NoEvent /\ post = <<>>
Looking ==              \* the filters look at the packet
    /\ phase = "packet" /\ show = before
    /\ evq = IF at > 1 /\ Speaks THEN <<ChatEvent>> ELSE <<>>
    /\ ev = NoEvent /\ post = <<>>
    /\ drop <=> at = 3 /\ Hidden
Saying ==               \* what the player said is an event nobody has handled
    /\ phase = "events" /\ show = before /\ Speaks
    /\ \/ evq = <<ChatEvent>> /\ ev = NoEvent /\ at = 1
       \/ evq = <<>> /\ ev = ChatEvent /\ (at = 3 => ~Command)
    /\ post = <<>>
    /\ ~drop
Obeyed ==               \* the command was obeyed, its answer is an event
    /\ phase = "events" /\ at = 1 /\ Command /\ drop /\ show = NewShow
    /\ \/ evq = <<ReplyEvent>> /\ ev = NoEvent
       \/ evq = <<>> /\ ev = ReplyEvent
    /\ post = <<>>
Settled ==              \* there are no more events
    /\ phase = "events" /\ at = 1 /\ evq = <<>> /\ ev = NoEvent
    /\ IF Command THEN drop /\ show = NewShow /\ post = <<Answer>>
       ELSE (drop <=> Hidden) /\ show = before /\ post = <<>>

Stages ==
    \/ Resting
    \/ pkt \in Packets /\ (Looking \/ Saying \/ Obeyed \/ Settled)

Types ==
    /\ show \subseteq Items /\ before \subseteq Items
    /\ loaded \in SUBSET Plugins
    /\ todo \subseteq Packets
    /\ drop \in BOOLEAN
    /\ refc \in [Packets -> Nat]
    /\ at \in 1 .. 3
    /\ passed \in Seq(Packets)
    /\ replies \in Seq({"ok", "error"})

\* A packet is to be filtered, being filtered, or has been.
Once == \A p \in todo \cup {pkt} : p \notin Range(passed) /\ (p \in todo => p # pkt)

\* Who holds a reference: the session while it filters the packet and once it
\* has passed it on, and the one event there can be about it.
Told == evq = <<ChatEvent>> \/ ev = ChatEvent
Counted ==
    \A p \in Packets :
        refc[p] = (IF p = pkt /\ Told THEN 1 ELSE 0)
                  + (IF p = pkt \/ p \in Range(passed) THEN 1 ELSE 0)

IInv == Types /\ Stages /\ Once /\ Counted
-----------------------------------------------------------------------------
(* What a command does to the mask.                                        *)

Word == [op : {"set", "add", "sub"}, arg : Args]
CommandWords == Seq(Word)

\* A word sets, extends or reduces the mask by the items it names.
LEMMA AppliedSets ==
    ASSUME NEW mask \in SUBSET Items, NEW w \in Word
    PROVE  /\ Applied(mask, w) \in SUBSET Items
           /\ \A i \in Items : i \in Applied(mask, w) <=>
                IF w.op = "set" \/ i \in Named[w.arg] THEN w.op # "sub" /\ i \in Named[w.arg]
                ELSE i \in mask
<1>1. Named[w.arg] \subseteq Items /\ w.op \in {"set", "add", "sub"}
  BY FilterChainAssumption DEF Word
<1>2. CASE w.op = "set"
  <2>1. Applied(mask, w) = Named[w.arg]
    BY <1>2 DEF Applied
  <2> QED
    BY <1>1, <1>2, <2>1
<1>3. CASE w.op = "add"
  <2>1. Applied(mask, w) = mask \cup Named[w.arg]
    BY <1>3 DEF Applied
  <2> QED
    BY <1>1, <1>3, <2>1
<1>4. CASE w.op = "sub"
  <2>1. Applied(mask, w) = mask \ Named[w.arg]
    BY <1>4 DEF Applied
  <2> QED
    BY <1>1, <1>4, <2>1
<1> QED
  BY <1>1, <1>2, <1>3, <1>4

\* nm is well defined: there is a function that applies the words one by one.
LEMMA MasksExist ==
    ASSUME NEW words \in CommandWords, show \subseteq Items
    PROVE  \E f \in [0 .. Len(words) -> SUBSET Items] :
             f = [k \in 0 .. Len(words) |-> IF k = 0 THEN show ELSE Applied(f[k - 1], words[k])]
<1> DEFINE Steps(n, f) == f[0] = show /\ \A k \in 1 .. n : f[k] = Applied(f[k - 1], words[k])
           S == {n \in Nat : n <= Len(words) => \E f \in [0 .. n -> SUBSET Items] : Steps(n, f)}
<1>1. Len(words) \in Nat /\ \A k \in 1 .. Len(words) : words[k] \in Word
  BY DEF CommandWords
<1>2. 0 \in S
  <2>1. [k \in 0 .. 0 |-> show] \in [0 .. 0 -> SUBSET Items] /\ Steps(0, [k \in 0 .. 0 |-> show])
    OBVIOUS
  <2> QED
    BY <2>1
<1>3. ASSUME NEW n \in Nat, n \in S PROVE n + 1 \in S
  <2> SUFFICES ASSUME n + 1 <= Len(words)
               PROVE  \E g \in [0 .. n + 1 -> SUBSET Items] : Steps(n + 1, g)
    OBVIOUS
  <2>1. PICK f \in [0 .. n -> SUBSET Items] : Steps(n, f)
    BY <1>1, <1>3
  <2> DEFINE next == Applied(f[n], words[n + 1])
             g == [k \in 0 .. n + 1 |-> IF k = n + 1 THEN next ELSE f[k]]
  <2>2. next \in SUBSET Items
    <3>1. n + 1 \in 1 .. Len(words) /\ f[n] \in SUBSET Items
      BY <1>1
    <3> QED
      BY <1>1, <3>1, AppliedSets
  <2>3. g[n + 1] = next /\ \A k \in 0 .. n : g[k] = f[k]
    <3>1. n + 1 \in 0 .. n + 1 /\ \A k \in 0 .. n : k \in 0 .. n + 1 /\ k # n + 1
      OBVIOUS
    <3> HIDE DEF next
    <3> QED
      BY <3>1, Zenon
  <2>4. g \in [0 .. n + 1 -> SUBSET Items]
    <3> HIDE DEF next
    <3> QED
      BY <2>2
  <2> HIDE DEF g
  <2>5. Steps(n + 1, g)
    <3>1. g[0] = show
      BY <2>1, <2>3
    <3>2. ASSUME NEW k \in 1 .. n + 1 PROVE g[k] = Applied(g[k - 1], words[k])
      <4>1. CASE k = n + 1
        BY <2>3, <4>1
      <4>2. CASE k # n + 1
        <5>1. k \in 1 .. n /\ k \in 0 .. n /\ k - 1 \in 0 .. n
          BY <4>2
        <5> QED
          BY <2>1, <2>3, <5>1
      <4> QED
        BY <4>1, <4>2
    <3> QED
      BY <3>1, <3>2
  <2> QED
    BY <2>4, <2>5
<1>4. Len(words) \in S
  <2> HIDE DEF S
  <2> QED
    BY <1>1, <1>2, <1>3, NatInd
<1>5. PICK f \in [0 .. Len(words) -> SUBSET Items] : Steps(Len(words), f)
  BY <1>1, <1>4
<1>6. ASSUME NEW k \in 0 .. Len(words)
      PROVE  f[k] = IF k = 0 THEN show ELSE Applied(f[k - 1], words[k])
  BY <1>1, <1>5
<1>7. f = [k \in 0 .. Len(words) |-> IF k = 0 THEN show ELSE Applied(f[k - 1], words[k])]
  BY <1>6
<1> QED
  BY <1>7

\* Masks(words) is that function.
LEMMA MasksDef ==
    ASSUME NEW words \in CommandWords, show \subseteq Items
    PROVE  Masks(words) = [k \in 0 .. Len(words) |->
                             IF k = 0 THEN show ELSE Applied(Masks(words)[k - 1], words[k])]
BY MasksExist, Zenon DEF Masks

\* A command of any length leaves the mask that its last deciding words say.
LEMMA CommandMask ==
    ASSUME NEW words \in CommandWords, show \subseteq Items
    PROVE  Masks(words)[Len(words)] = {i \in Items : Wants(show, i, words)}
<1> DEFINE m == Masks(words)
           Last(i, n, l) == /\ Decides(words, i, l) /\ \A j \in 1 .. n : Decides(words, i, j) => j <= l
           Says(i, n) ==
              \/ i \in show /\ \A j \in 1 .. n : ~Decides(words, i, j)
              \/ \E l \in 1 .. n : Last(i, n, l) /\ words[l].op # "sub" /\ i \in Named[words[l].arg]
           S == {n \in Nat : n <= Len(words) =>
                    /\ m[n] \in SUBSET Items
                    /\ \A i \in Items : i \in m[n] <=> Says(i, n)}
<1>1. Len(words) \in Nat /\ \A k \in 1 .. Len(words) : words[k] \in Word
  BY DEF CommandWords
<1>2. \A k \in 0 .. Len(words) : m[k] = IF k = 0 THEN show ELSE Applied(m[k - 1], words[k])
  BY MasksDef
<1> HIDE DEF m
<1>3. 0 \in S
  <2>1. m[0] = show
    BY <1>1, <1>2
  <2> QED
    BY <2>1
<1>4. ASSUME NEW n \in Nat, n \in S PROVE n + 1 \in S
  <2> SUFFICES ASSUME n + 1 <= Len(words)
               PROVE  /\ m[n + 1] \in SUBSET Items
                      /\ \A i \in Items : i \in m[n + 1] <=> Says(i, n + 1)
    OBVIOUS
  <2>1. n + 1 \in 1 .. Len(words) /\ n + 1 \in 0 .. Len(words) /\ n + 1 # 0 /\ (n + 1) - 1 = n
    BY <1>1
  <2>2. m[n + 1] = Applied(m[n], words[n + 1]) /\ words[n + 1] \in Word
    BY <1>1, <1>2, <2>1
  <2>3. m[n] \in SUBSET Items /\ \A i \in Items : i \in m[n] <=> Says(i, n)
    BY <1>1, <1>4
  <2>4. m[n + 1] \in SUBSET Items
    BY <2>2, <2>3, AppliedSets
  <2>5. ASSUME NEW i \in Items PROVE i \in m[n + 1] <=> Says(i, n + 1)
    <3>1. i \in m[n + 1] <=>
            IF Decides(words, i, n + 1)
            THEN words[n + 1].op # "sub" /\ i \in Named[words[n + 1].arg]
            ELSE i \in m[n]
      BY <2>2, <2>3, AppliedSets DEF Decides
    <3>2. CASE Decides(words, i, n + 1)
      <4>1. n + 1 \in 1 .. n + 1 /\ Last(i, n + 1, n + 1)
        BY <3>2
      <4>2. \A l \in 1 .. n + 1 : Last(i, n + 1, l) => l = n + 1
        BY <3>2
      <4> HIDE DEF Last
      <4> QED
        BY <3>1, <3>2, <4>1, <4>2
    <3>3. CASE ~Decides(words, i, n + 1)
      <4>1. \A j \in 1 .. n + 1 : j \in 1 .. n \/ j = n + 1
        OBVIOUS
      <4>2. \A j \in 1 .. n : j \in 1 .. n + 1
        OBVIOUS
      <4>3. \A l : Last(i, n + 1, l) <=> Last(i, n, l)
        BY <3>3, <4>1, <4>2, Zenon
      <4>4. ~ Last(i, n + 1, n + 1)
        BY <3>3
      <4> HIDE DEF Last
      <4>5. Says(i, n + 1) <=> Says(i, n)
        BY <3>3, <4>1, <4>2, <4>3, <4>4
      <4> HIDE DEF Says
      <4> QED
        BY <2>3, <3>1, <3>3, <4>5
    <3> QED
      BY <3>2, <3>3
  <2> QED
    BY <2>4, <2>5
<1>5. Len(words) \in S
  <2> HIDE DEF S
  <2> QED
    BY <1>1, <1>3, <1>4, NatInd
<1>6. m[Len(words)] \in SUBSET Items /\ \A i \in Items : i \in m[Len(words)] <=> Says(i, Len(words))
  BY <1>1, <1>5
<1>7. ASSUME NEW i \in Items PROVE Says(i, Len(words)) <=> Wants(show, i, words)
  <2> DEFINE deciding == {k \in 1 .. Len(words) : Decides(words, i, k)}
             last == CHOOSE k \in deciding : \A j \in deciding : j <= k
  <2>1. CASE deciding = {}
    <3>1. \A j \in 1 .. Len(words) : ~Decides(words, i, j)
      BY <2>1
    <3>2. Wants(show, i, words) <=> i \in show
      BY <2>1 DEF Wants
    <3> QED
      BY <3>1, <3>2
  <2>2. CASE deciding # {}
    <3>1. deciding \subseteq Nat /\ \A x \in deciding : x <= Len(words)
      BY <1>1
    <3>2. \E k \in deciding : \A j \in deciding : j <= k
      <4> HIDE DEF deciding
      <4> QED
        BY <1>1, <2>2, <3>1, NatMax
    <3>3. last \in deciding /\ \A j \in deciding : j <= last
      <4> HIDE DEF deciding
      <4> QED
        BY <3>2
    <3>4. Wants(show, i, words) <=> words[last].op # "sub" /\ i \in Named[words[last].arg]
      BY <2>2, Zenon DEF Wants
    <3> HIDE DEF last
    <3>5. last \in 1 .. Len(words) /\ Last(i, Len(words), last)
      BY <3>3
    <3>6. \A l \in 1 .. Len(words) : Last(i, Len(words), l) => l = last
      BY <1>1, <3>5
    <3>7. Decides(words, i, last)
      BY <3>5
    <3> HIDE DEF Last
    <3> QED
      BY <3>4, <3>5, <3>6, <3>7
  <2> QED
    BY <2>1, <2>2
<1> HIDE DEF Says
<1> QED
  BY <1>6, <1>7 DEF m
-----------------------------------------------------------------------------
(* The stages of a packet.                                                 *)

LEMMA ChainFacts == Len(Chain) = 3 /\ Chain[1] = "chat" /\ Chain[2] = "loot" /\ Chain[3] = "debug"
BY DEF Chain

LEMMA EventFacts ==
    /\ ChatEvent.what \in {"WCHAT_SENT", "PRIV_SENT"} /\ ChatEvent.source = pkt
    /\ ChatEvent.what = "WCHAT_SENT" <=> Kind[pkt] = "said"
    /\ ChatEvent.text = "loot" <=> Kind[pkt] = "command"
    /\ ReplyEvent.what = "SEND_REPLY" /\ ReplyEvent.source = NULL /\ ReplyEvent.text = Answer
    /\ NoEvent.what = "none" /\ NoEvent.source = NULL
BY DEF ChatEvent, ReplyEvent, NoEvent

LEMMA EventsDiffer == ChatEvent # NoEvent /\ ReplyEvent # NoEvent /\ ChatEvent # ReplyEvent
BY EventFacts

\* A packet that is passed on joins those that were.
LEMMA RangeAppend ==
    ASSUME NEW T, NEW s \in Seq(T), NEW x \in T
    PROVE  Range(Append(s, x)) = Range(s) \cup {x}
<1>1. /\ Append(s, x) \in Seq(T) /\ Len(Append(s, x)) = Len(s) + 1
      /\ \A k \in 1 .. Len(s) : Append(s, x)[k] = s[k]
      /\ Append(s, x)[Len(s) + 1] = x /\ Len(s) \in Nat
      /\ DOMAIN s = 1 .. Len(s) /\ DOMAIN Append(s, x) = 1 .. Len(s) + 1
  OBVIOUS
<1>2. \A k : k \in 1 .. Len(s) + 1 <=> k \in 1 .. Len(s) \/ k = Len(s) + 1
  BY <1>1
<1> QED
  BY <1>1, <1>2 DEF Range

\* What a packet calls for does not change while it is filtered.
LEMMA SameCalls ==
    ASSUME UNCHANGED <<pkt, loaded, before>>
    PROVE  /\ ChatEvent' = ChatEvent /\ ReplyEvent' = ReplyEvent /\ NewShow' = NewShow
           /\ Answer' = Answer
           /\ Speaks' <=> Speaks
           /\ Command' <=> Command
           /\ Hidden' <=> Hidden
BY DEF ChatEvent, ReplyEvent, NewShow, Answer, Sound, Speaks, Command, Hidden, Wants, Decides

LEMMA InitIInv == Init => IInv
<1> SUFFICES ASSUME Init PROVE IInv
  OBVIOUS
<1>1. Types
  <2>1. show \subseteq Items /\ before \subseteq Items /\ todo \subseteq Packets /\ loaded \in SUBSET Plugins
    BY DEF Init
  <2>2. drop \in BOOLEAN
    BY Zenon DEF Init
  <2>3. refc \in [Packets -> Nat] /\ at \in 1 .. 3
    BY DEF Init
  <2>4. passed \in Seq(Packets) /\ replies \in Seq({"ok", "error"})
    BY DEF Init
  <2> QED
    BY <2>1, <2>2, <2>3, <2>4, Zenon DEF Types
<1>2. Stages
  BY DEF Init, Stages, Resting
<1>3. Range(passed) = {}
  BY DEF Init, Range
<1>4. Once
  BY <1>3, FilterChainAssumption DEF Init, Once
<1>5. Counted
  BY <1>3, FilterChainAssumption, EventsDiffer DEF Init, Counted, Told
<1> QED
  BY <1>1, <1>2, <1>4, <1>5 DEF IInv

LEMMA ReloadIInv == ASSUME IInv, Reload PROVE IInv'
<1>1. Resting /\ UNCHANGED <<show, todo, pkt, drop, refc, evq, ev, at, post, phase, passed, replies, before>>
  BY DEF Reload, IInv, Stages, Looking, Saying, Obeyed, Settled
<1>2. Types'
  BY <1>1 DEF Reload, IInv, Types
<1>3. ChatEvent' = ChatEvent
  BY <1>1 DEF ChatEvent
<1> QED
  BY <1>1, <1>2, <1>3 DEF IInv, Stages, Resting, Once, Counted, Told

LEMMA BeginIInv == ASSUME IInv, NEW p \in Packets, Begin(p) PROVE IInv'
<1>1. Resting
  BY DEF Begin, IInv, Stages, Looking, Saying, Obeyed, Settled
<1>2. Types'
  <2>1. /\ show' \subseteq Items /\ before' \subseteq Items /\ todo' \subseteq Packets
        /\ loaded' \in SUBSET Plugins
        /\ passed' \in Seq(Packets) /\ replies' \in Seq({"ok", "error"})
    BY DEF Begin, IInv, Types
  <2>2. drop' \in BOOLEAN
    BY Zenon DEF Begin
  <2>3. refc' \in [Packets -> Nat] /\ at' \in 1 .. 3
    BY DEF Begin, IInv, Types
  <2> QED
    BY <2>1, <2>2, <2>3, Zenon DEF Types
<1>3. ChatEvent' # NoEvent /\ evq = <<>> /\ evq # <<ChatEvent'>> /\ ev = NoEvent
  BY <1>1 DEF ChatEvent, NoEvent, Resting
<1>4. Stages'
  <2>1. drop' = FALSE /\ at' = 1 /\ phase' = "packet" /\ pkt' = p /\ before' = show
        /\ UNCHANGED <<show, evq, ev, post>>
    BY DEF Begin
  <2>2. Looking'
    BY <1>1, <2>1 DEF Looking, Resting
  <2> QED
    BY <2>1, <2>2 DEF Stages
<1>5. Once'
  BY DEF Begin, IInv, Once
<1>6. Counted'
  <2>1. ~Told' /\ pkt' = p /\ UNCHANGED passed
    BY <1>3 DEF Begin, Told
  <2>2. ~Told /\ pkt = NULL /\ p \notin Range(passed)
    BY <1>1, EventsDiffer DEF Resting, Told, Begin, IInv, Once
  <2>3. \A q \in Packets : refc'[q] = IF q = p THEN 1 ELSE refc[q]
    BY DEF Begin, IInv, Types
  <2>4. \A q \in Packets : q # NULL
    BY FilterChainAssumption
  <2> QED
    BY <2>1, <2>2, <2>3, <2>4 DEF IInv, Counted
<1> QED
  BY <1>2, <1>4, <1>5, <1>6 DEF IInv

\* Every filter looks at the packet, in the order of the chain.
LEMMA PacketIInv == ASSUME IInv, ProcessPacket PROVE IInv'
<1>1. /\ pkt \in Packets /\ Looking /\ UNCHANGED <<show, loaded, todo, pkt, ev, post, passed, replies, before>>
      /\ at \in 1 .. 3 /\ refc \in [Packets -> Nat] /\ drop \in BOOLEAN
  BY DEF ProcessPacket, IInv, Stages, Resting, Saying, Obeyed, Settled, Types
<1>2. /\ ChatEvent' = ChatEvent /\ ReplyEvent' = ReplyEvent /\ NewShow' = NewShow
      /\ Answer' = Answer /\ (Speaks' <=> Speaks) /\ (Command' <=> Command) /\ (Hidden' <=> Hidden)
  BY <1>1, SameCalls
<1>3. Once'
  BY <1>1 DEF IInv, Once
<1>4. CASE at = 1
  <2>1. at' = 2 /\ phase' = "packet"
    BY <1>1, <1>4, ChainFacts DEF ProcessPacket, Looking
  <2>2. evq = <<>> /\ ~drop /\ ev = NoEvent
    BY <1>1, <1>4 DEF Looking
  <2>3. CASE Speaks
    <3>1. Chat
      BY <1>4, <2>3, ChainFacts DEF ProcessPacket, Speaks
    <3>2. evq' = <<ChatEvent>> /\ refc' = Fired(pkt) /\ UNCHANGED drop
      BY <2>2, <2>3, <3>1 DEF Chat, Speaks, ChatEvent
    <3>3. Types'
      BY <1>1, <2>1, <3>2 DEF IInv, Types, Fired
    <3>4. Stages'
      BY <1>1, <1>2, <2>1, <2>2, <2>3, <3>2 DEF Stages, Looking
    <3>5. Counted'
      <4>1. ~Told /\ Told'
        BY <1>2, <2>2, <3>2, EventsDiffer DEF Told
      <4>2. \A q \in Packets : refc'[q] = IF q = pkt THEN refc[q] + 1 ELSE refc[q]
        BY <1>1, <3>2 DEF Fired
      <4> QED
        BY <1>1, <4>1, <4>2 DEF IInv, Counted
    <3> QED
      BY <1>3, <3>3, <3>4, <3>5 DEF IInv
  <2>4. CASE ~Speaks
    <3>1. UNCHANGED <<evq, refc, drop>>
      BY <1>4, <2>4, ChainFacts DEF ProcessPacket, Chat, Speaks
    <3>2. Types' /\ Stages'
      BY <1>1, <1>2, <2>1, <2>2, <2>4, <3>1 DEF IInv, Types, Stages, Looking
    <3>3. Counted'
      BY <1>1, <1>2, <3>1 DEF IInv, Counted, Told
    <3> QED
      BY <1>3, <3>2, <3>3 DEF IInv
  <2> QED
    BY <2>3, <2>4
<1>5. CASE at = 2
  <2>1. at' = 3 /\ phase' = "packet" /\ UNCHANGED <<evq, refc>>
    BY <1>1, <1>5, ChainFacts DEF ProcessPacket, Looking, Loot
  <2>2. drop' \in BOOLEAN /\ (drop' <=> Hidden) /\ ~drop
    BY <1>1, <1>5, ChainFacts DEF ProcessPacket, Looking, Loot, Hidden
  <2>3. Types' /\ Stages'
    BY <1>1, <1>2, <1>5, <2>1, <2>2 DEF IInv, Types, Stages, Looking
  <2>4. Counted'
    BY <1>1, <1>2, <2>1 DEF IInv, Counted, Told
  <2> QED
    BY <1>3, <2>3, <2>4 DEF IInv
<1>6. CASE at = 3
  <2>1. at' = 1 /\ phase' = "events" /\ UNCHANGED <<evq, refc, drop>>
    BY <1>1, <1>6, ChainFacts DEF ProcessPacket
  <2>2. Types'
    BY <1>1, <2>1 DEF IInv, Types
  <2>3. Counted'
    BY <1>1, <1>2, <2>1 DEF IInv, Counted, Told
  <2>4. drop <=> Hidden
    BY <1>1, <1>6 DEF Looking
  <2>5. CASE Speaks
    <3>1. ~drop
      BY <2>4, <2>5 DEF Speaks, Hidden
    <3>2. Saying'
      BY <1>1, <1>2, <1>6, <2>1, <2>5, <3>1 DEF Saying, Looking
    <3> QED
      BY <1>1, <1>3, <2>2, <2>3, <3>2 DEF IInv, Stages
  <2>6. CASE ~Speaks
    <3>1. ~Command
      BY <2>6 DEF Speaks, Command
    <3>2. Settled'
      BY <1>1, <1>2, <2>1, <2>4, <2>6, <3>1 DEF Settled, Looking
    <3> QED
      BY <1>1, <1>3, <2>2, <2>3, <3>2 DEF IInv, Stages
  <2> QED
    BY <2>5, <2>6
<1> QED
  BY <1>1, <1>4, <1>5, <1>6
\* The next event is taken from the queue: there is only one.
LEMMA PopIInv == ASSUME IInv, PopEvent PROVE IInv'
<1>1. /\ UNCHANGED <<show, loaded, todo, pkt, drop, refc, at, post, phase, passed, replies, before>>
      /\ ev' = Head(evq) /\ evq' = Tail(evq) /\ ev = NoEvent /\ evq # <<>> /\ phase = "events"
  BY DEF PopEvent
<1>2. /\ ChatEvent' = ChatEvent /\ ReplyEvent' = ReplyEvent /\ NewShow' = NewShow
      /\ Answer' = Answer /\ (Speaks' <=> Speaks) /\ (Command' <=> Command) /\ (Hidden' <=> Hidden)
  BY <1>1, SameCalls
<1>3. Types' /\ Once'
  BY <1>1 DEF IInv, Types, Once
<1>4. CASE Saying
  <2>1. evq = <<ChatEvent>> /\ at = 1
    BY <1>1, <1>4 DEF Saying
  <2>2. evq' = <<>> /\ ev' = ChatEvent
    BY <1>1, <2>1
  <2>3. Saying'
    BY <1>1, <1>2, <1>4, <2>1, <2>2 DEF Saying
  <2>4. Told /\ Told'
    BY <1>2, <2>1, <2>2 DEF Told
  <2>5. pkt \in Packets
    BY <1>1 DEF IInv, Stages, Resting
  <2> QED
    BY <1>1, <1>3, <2>3, <2>4, <2>5 DEF IInv, Stages, Counted
<1>5. CASE Obeyed
  <2>1. evq = <<ReplyEvent>>
    BY <1>1, <1>5 DEF Obeyed
  <2>2. evq' = <<>> /\ ev' = ReplyEvent
    BY <1>1, <2>1
  <2>3. Obeyed'
    BY <1>1, <1>2, <1>5, <2>2 DEF Obeyed
  <2>4. ~Told /\ ~Told'
    BY <1>1, <1>2, <2>1, <2>2, EventsDiffer DEF Told
  <2>5. pkt \in Packets
    BY <1>1 DEF IInv, Stages, Resting
  <2> QED
    BY <1>1, <1>3, <2>3, <2>4, <2>5 DEF IInv, Stages, Counted
<1> QED
  BY <1>1, <1>4, <1>5 DEF IInv, Stages, Resting, Looking, Settled

\* What the player said goes down the chain; only rfx_loot may handle it, and
\* only if it is a command.
LEMMA SaidIInv == ASSUME IInv, ProcessEvent, Saying, pkt \in Packets PROVE IInv'
<1>1. /\ UNCHANGED <<loaded, todo, pkt, phase, passed, replies, before>>
      /\ evq = <<>> /\ ev = ChatEvent /\ (at = 3 => ~Command) /\ ~drop /\ post = <<>> /\ show = before
      /\ phase = "events" /\ Speaks
  BY DEF ProcessEvent, Saying
<1>2. /\ ChatEvent' = ChatEvent /\ ReplyEvent' = ReplyEvent /\ NewShow' = NewShow
      /\ Answer' = Answer /\ (Speaks' <=> Speaks) /\ (Command' <=> Command) /\ (Hidden' <=> Hidden)
  BY <1>1, SameCalls
<1>3. ~SendsReply /\ (ObeysCommand /\ Chain[at] \in loaded <=> at = 2 /\ Command)
  BY <1>1, EventFacts, ChainFacts DEF SendsReply, ObeysCommand, Command, Speaks, IInv, Types
<1>4. /\ at \in 1 .. 3 /\ refc \in [Packets -> Nat] /\ loaded \in SUBSET Plugins /\ todo \subseteq Packets
      /\ show \subseteq Items /\ before \subseteq Items
      /\ passed \in Seq(Packets) /\ replies \in Seq({"ok", "error"})
  BY DEF IInv, Types
<1>5. Once'
  BY <1>1 DEF IInv, Once
<1>6. Told /\ ev # NoEvent
  BY <1>1, EventsDiffer DEF Told
<1>7. ASSUME refc' = Deleted, ~Told' PROVE refc' \in [Packets -> Nat] /\ Counted'
  <2>1. ev.source = pkt
    BY <1>1, EventFacts
  <2>2. refc[pkt] = 2
    BY <1>6 DEF IInv, Counted
  <2>3. \A q \in Packets : refc'[q] = IF q = pkt THEN refc[q] - 1 ELSE refc[q]
    BY <1>7, <2>1 DEF Deleted
  <2>4. refc' \in [Packets -> Nat]
    BY <1>4, <1>7, <2>1, <2>2 DEF Deleted
  <2> QED
    BY <1>1, <1>6, <1>7, <2>2, <2>3, <2>4 DEF IInv, Counted
<1>8. CASE at = 2 /\ Command
  <2> DEFINE done == loot_cmd(Words[ev.source])
  <2>1. /\ show' = done.show
        /\ evq' = Append(evq, [what |-> "SEND_REPLY", source |-> NULL, text |-> done.reply])
        /\ drop' = TRUE /\ post' = post /\ ev' = NoEvent /\ at' = 1 /\ refc' = Deleted
    BY <1>3, <1>8, Zenon DEF ProcessEvent
  <2>2. ev.source = pkt
    BY <1>1, EventFacts
  <2>3. Words[pkt] \in CommandWords
    BY FilterChainAssumption DEF CommandWords, Word
  <2>4. done = IF Sound THEN [show |-> Masks(Words[pkt])[Len(Words[pkt])], reply |-> "ok"]
               ELSE [show |-> show, reply |-> "error"]
    BY <2>2 DEF loot_cmd, Sound
  <2>5. Masks(Words[pkt])[Len(Words[pkt])] = {i \in Items : Wants(before, i, Words[pkt])}
    BY <1>1, <1>4, <2>3, CommandMask
  <2>6. done.show = NewShow /\ done.reply = Answer
    BY <1>1, <2>4, <2>5 DEF NewShow, Answer
  <2> HIDE DEF done
  <2>7. evq' = <<ReplyEvent>> /\ show' = NewShow
    BY <1>1, <2>1, <2>6 DEF ReplyEvent
  <2>8. show' \subseteq Items
    BY <1>4, <2>7 DEF NewShow
  <2>9. ~Told'
    <3>1. evq'[1] = ReplyEvent /\ <<ChatEvent>>[1] = ChatEvent
      BY <2>7
    <3>2. evq' # <<ChatEvent>> /\ ev' # ChatEvent
      BY <2>1, <3>1, EventsDiffer
    <3> QED
      BY <1>2, <3>2, Zenon DEF Told
  <2>10. refc' \in [Packets -> Nat] /\ Counted'
    BY <1>7, <2>1, <2>9
  <2>11. drop' \in BOOLEAN /\ at' \in 1 .. 3 /\ drop'
    BY <2>1
  <2>12. Types'
    BY <1>1, <1>4, <2>8, <2>10, <2>11, Zenon DEF Types
  <2>13. Obeyed'
    BY <1>1, <1>2, <1>8, <2>1, <2>7, <2>11 DEF Obeyed
  <2> QED
    BY <1>1, <1>5, <2>10, <2>12, <2>13 DEF IInv, Stages
<1>9. CASE ~(at = 2 /\ Command) /\ at # 3
  <2>1. UNCHANGED <<show, evq, drop, post, ev, refc>> /\ at' = at + 1
    BY <1>3, <1>9, ChainFacts DEF ProcessEvent
  <2>2. Types'
    BY <1>1, <1>4, <1>9, <2>1 DEF IInv, Types
  <2>3. Counted'
    BY <1>1, <1>2, <2>1 DEF IInv, Counted, Told
  <2>4. Saying'
    BY <1>1, <1>2, <1>4, <1>9, <2>1 DEF Saying
  <2> QED
    BY <1>1, <1>5, <2>2, <2>3, <2>4 DEF IInv, Stages
<1>10. CASE at = 3
  <2>1. UNCHANGED <<show, evq, drop, post>> /\ ev' = NoEvent /\ at' = 1 /\ refc' = Deleted
    BY <1>3, <1>10, ChainFacts DEF ProcessEvent
  <2>2. ~Told'
    BY <1>1, <1>2, <2>1, EventsDiffer DEF Told
  <2>3. refc' \in [Packets -> Nat] /\ Counted'
    BY <1>7, <2>1, <2>2
  <2>4. Types'
    BY <1>1, <1>4, <2>1, <2>3 DEF IInv, Types
  <2>5. ~Hidden
    BY <1>1 DEF Speaks, Hidden
  <2>6. Settled'
    BY <1>1, <1>2, <1>10, <2>1, <2>5 DEF Settled
  <2> QED
    BY <1>1, <1>5, <2>3, <2>4, <2>6 DEF IInv, Stages
<1> QED
  BY <1>8, <1>9, <1>10

\* The first filter of the chain handles an answer; it is about no packet.
LEMMA AnswerIInv == ASSUME IInv, ProcessEvent, Obeyed, pkt \in Packets PROVE IInv'
<1>1. /\ UNCHANGED <<loaded, todo, pkt, phase, passed, replies, before>>
      /\ evq = <<>> /\ ev = ReplyEvent /\ at = 1 /\ drop /\ post = <<>> /\ show = NewShow
      /\ phase = "events" /\ Command
  BY DEF ProcessEvent, Obeyed
<1>2. /\ ChatEvent' = ChatEvent /\ ReplyEvent' = ReplyEvent /\ NewShow' = NewShow
      /\ Answer' = Answer /\ (Speaks' <=> Speaks) /\ (Command' <=> Command) /\ (Hidden' <=> Hidden)
  BY <1>1, SameCalls
<1>3. SendsReply /\ ~ObeysCommand /\ Chain[at] \in loaded
  BY <1>1, EventFacts, ChainFacts DEF SendsReply, ObeysCommand, Command
<1>4. /\ UNCHANGED <<show, evq, drop>> /\ post' = Append(post, ev.text)
      /\ ev' = NoEvent /\ at' = 1 /\ refc' = Deleted
  BY <1>3 DEF ProcessEvent
<1>5. post' = <<Answer>>
  BY <1>1, <1>4, EventFacts
<1>6. refc \in [Packets -> Nat] /\ \A q \in Packets : q # ev.source
  BY <1>1, EventFacts, FilterChainAssumption DEF IInv, Types
<1>7. refc' = refc
  BY <1>4, <1>6 DEF Deleted
<1>8. Types'
  BY <1>1, <1>4, <1>7 DEF IInv, Types
<1>9. ~Told /\ ~Told'
  BY <1>1, <1>2, <1>4, EventsDiffer DEF Told
<1>10. Counted' /\ Once'
  BY <1>1, <1>7, <1>9 DEF IInv, Counted, Once
<1>11. Settled'
  BY <1>1, <1>2, <1>4, <1>5 DEF Settled
<1> QED
  BY <1>1, <1>8, <1>10, <1>11 DEF IInv, Stages

LEMMA EventIInv == ASSUME IInv, ProcessEvent PROVE IInv'
<1>1. pkt \in Packets /\ (Saying \/ Obeyed)
  BY DEF ProcessEvent, IInv, Stages, Resting, Looking, Settled
<1> QED
  BY <1>1, SaidIInv, AnswerIInv

\* The packet is passed on, or freed with the last reference to it.
LEMMA FinishIInv == ASSUME IInv, Finish PROVE IInv'
<1>1. pkt \in Packets /\ Settled
  BY EventsDiffer DEF Finish, IInv, Stages, Resting, Looking, Saying, Obeyed
<1>2. /\ UNCHANGED <<show, loaded, todo, drop, evq, ev, at, before>>
      /\ evq = <<>> /\ ev = NoEvent /\ pkt' = NULL /\ phase' = "idle" /\ post' = <<>>
      /\ passed' = (IF drop THEN passed ELSE Append(passed, pkt))
      /\ refc' = (IF drop THEN [refc EXCEPT ![pkt] = @ - 1] ELSE refc)
      /\ replies' = replies \o post
  BY DEF Finish
<1>3. ~Told /\ ~Told'
  <2>1. ChatEvent' # NoEvent
    BY DEF ChatEvent, NoEvent
  <2> QED
    BY <1>2, <2>1, EventsDiffer DEF Told
<1>4. pkt \notin Range(passed) /\ refc[pkt] = 1 /\ refc \in [Packets -> Nat] /\ passed \in Seq(Packets)
  BY <1>1, <1>3 DEF IInv, Once, Counted, Types
<1>5. passed' \in Seq(Packets) /\ refc' \in [Packets -> Nat]
  BY <1>1, <1>2, <1>4
<1>6. replies' \in Seq({"ok", "error"})
  <2>1. Answer \in {"ok", "error"} /\ (post = <<Answer>> \/ post = <<>>)
    BY <1>1 DEF Settled, Answer
  <2>2. post \in Seq({"ok", "error"})
    <3>1. \A T : \A a \in T : <<a>> \in Seq(T) /\ <<>> \in Seq(T)
      OBVIOUS
    <3> QED
      BY <2>1, <3>1, Zenon
  <2> QED
    BY <1>2, <2>2 DEF IInv, Types
<1>7. Types'
  BY <1>2, <1>5, <1>6 DEF IInv, Types
<1>8. Range(passed') = IF drop THEN Range(passed) ELSE Range(passed) \cup {pkt}
  BY <1>1, <1>2, <1>4, RangeAppend, ZenonT(60)
<1>9. \A q \in Packets : refc'[q] = IF drop /\ q = pkt THEN 0 ELSE refc[q]
  BY <1>1, <1>2, <1>4
<1>10. NULL \notin Packets
  BY FilterChainAssumption
<1>11. Stages'
  BY <1>1, <1>2 DEF Stages, Resting, Settled
<1>12. NULL \notin Range(passed')
  <2>1. Range(passed) \subseteq Packets
    BY <1>4 DEF Range
  <2> QED
    BY <1>1, <1>8, <1>10, <2>1
<1>13. todo \subseteq Packets /\ \A p \in todo : p \notin Range(passed) /\ p # pkt
  BY DEF IInv, Types, Once
<1>14. Once'
  <2>1. \A p \in todo : p \notin Range(passed') /\ p # NULL
    BY <1>8, <1>10, <1>13
  <2> QED
    BY <1>2, <1>12, <2>1 DEF Once
<1>15. Counted'
  <2>1. ASSUME NEW q \in Packets
        PROVE  refc'[q] = IF q \in Range(passed') THEN 1 ELSE 0
    <3>1. refc[q] = IF q = pkt \/ q \in Range(passed) THEN 1 ELSE 0
      BY <1>3 DEF IInv, Counted
    <3> QED
      BY <1>4, <1>8, <1>9, <3>1
  <2> QED
    BY <1>2, <1>3, <1>10, <2>1 DEF Counted
<1> QED
  BY <1>7, <1>11, <1>14, <1>15 DEF IInv

LEMMA StutterIInv == ASSUME IInv, UNCHANGED vars PROVE IInv'
<1>1. UNCHANGED <<show, loaded, todo, pkt, drop, refc, evq, ev, at, post, phase, passed, replies, before>>
  BY DEF vars
<1>2. /\ ChatEvent' = ChatEvent /\ ReplyEvent' = ReplyEvent /\ NewShow' = NewShow
      /\ Answer' = Answer /\ (Speaks' <=> Speaks) /\ (Command' <=> Command) /\ (Hidden' <=> Hidden)
  BY <1>1, SameCalls
<1>3. Types' /\ Once'
  BY <1>1 DEF IInv, Types, Once
<1>4. Counted'
  BY <1>1, <1>2 DEF IInv, Counted, Told
<1>5. Stages'
  BY <1>1, <1>2 DEF IInv, Stages, Resting, Looking, Saying, Obeyed, Settled
<1> QED
  BY <1>3, <1>4, <1>5 DEF IInv

\* Every step keeps the invariant.
LEMMA NextIInv == IInv /\ [Next]_vars => IInv'
<1> SUFFICES ASSUME IInv, [Next]_vars PROVE IInv'
  OBVIOUS
<1>1. CASE Reload
  BY <1>1, ReloadIInv
<1>2. CASE \E p \in Packets : Begin(p)
  BY <1>2, BeginIInv
<1>3. CASE ProcessPacket
  BY <1>3, PacketIInv
<1>4. CASE PopEvent
  BY <1>4, PopIInv
<1>5. CASE ProcessEvent
  BY <1>5, EventIInv
<1>6. CASE Finish
  BY <1>6, FinishIInv
<1>7. CASE UNCHANGED vars
  BY <1>7, StutterIInv
<1> QED
  BY <1>1, <1>2, <1>3, <1>4, <1>5, <1>6, <1>7 DEF Next

\* The inductive invariant of the filter chain.
THEOREM SpecIInv == Spec => []IInv
BY InitIInv, NextIInv, PTL DEF Spec
-----------------------------------------------------------------------------
(* What follows from the invariant.                                        *)

\* How many events of a queue of at most one are about a packet.
LEMMA EventsAbout ==
    ASSUME NEW e, NEW p
    PROVE  /\ Cardinality({k \in 1 .. Len(<<>>) : <<>>[k].source = p}) = 0
           /\ Cardinality({k \in 1 .. Len(<<e>>) : <<e>>[k].source = p}) = IF p = e.source THEN 1 ELSE 0
<1>1. {k \in 1 .. Len(<<>>) : <<>>[k].source = p} = {}
  OBVIOUS
<1>2. \A k : k \in 1 .. Len(<<e>>) <=> k = 1
  OBVIOUS
<1>3. <<e>>[1] = e
  OBVIOUS
<1>4. {k \in 1 .. Len(<<e>>) : <<e>>[k].source = p} = IF p = e.source THEN {1} ELSE {}
  <2>1. CASE p = e.source
    BY <1>2, <1>3, <2>1
  <2>2. CASE p # e.source
    BY <1>2, <1>3, <2>2
  <2> QED
    BY <2>1, <2>2
<1> QED
  BY <1>1, <1>4, FS_EmptySet, FS_Singleton, SMTT(60)

LEMMA CountedRefs == IInv => RefsMatch
<1> SUFFICES ASSUME IInv, NEW p \in Packets
             PROVE  refc[p] = Cardinality({k \in 1 .. Len(evq) : evq[k].source = p})
                              + (IF p = ev.source THEN 1 ELSE 0)
                              + (IF p = pkt \/ p \in Range(passed) THEN 1 ELSE 0)
  BY DEF RefsMatch
<1>1. refc[p] = (IF p = pkt /\ Told THEN 1 ELSE 0) + (IF p = pkt \/ p \in Range(passed) THEN 1 ELSE 0)
  BY DEF IInv, Counted
<1>2. p # NULL
  BY FilterChainAssumption
<1>3. \/ evq = <<>> /\ ev \in {NoEvent, ReplyEvent} /\ ~Told
      \/ evq = <<>> /\ ev = ChatEvent
      \/ evq = <<ChatEvent>> /\ ev = NoEvent
      \/ evq = <<ReplyEvent>> /\ ev = NoEvent /\ ~Told
  <2>1. ReplyEvent # ChatEvent /\ NoEvent # ChatEvent /\ <<ReplyEvent>> # <<ChatEvent>> /\ <<>> # <<ChatEvent>>
    <3>1. <<ReplyEvent>>[1] = ReplyEvent /\ <<ChatEvent>>[1] = ChatEvent
      OBVIOUS
    <3> QED
      BY <3>1, EventsDiffer
  <2> QED
    BY <2>1 DEF IInv, Stages, Resting, Looking, Saying, Obeyed, Settled, Told
<1>4. CASE evq = <<>> /\ ev \in {NoEvent, ReplyEvent} /\ ~Told
  <2>1. p # ev.source
    BY <1>2, <1>4, EventFacts
  <2>2. Cardinality({k \in 1 .. Len(evq) : evq[k].source = p}) = 0
    BY <1>4, EventsAbout, ZenonT(60)
  <2> QED
    BY <1>1, <1>4, <2>1, <2>2
<1>5. CASE evq = <<>> /\ ev = ChatEvent
  <2>1. ev.source = pkt /\ Told
    BY <1>5, EventFacts DEF Told
  <2>2. Cardinality({k \in 1 .. Len(evq) : evq[k].source = p}) = 0
    BY <1>5, EventsAbout, ZenonT(60)
  <2> QED
    BY <1>1, <2>1, <2>2
<1>6. CASE evq = <<ChatEvent>> /\ ev = NoEvent
  <2>1. ChatEvent.source = pkt /\ Told /\ p # ev.source
    BY <1>2, <1>6, EventFacts DEF Told
  <2>2. Cardinality({k \in 1 .. Len(evq) : evq[k].source = p}) = IF p = ChatEvent.source THEN 1 ELSE 0
    BY <1>6, EventsAbout
  <2> QED
    BY <1>1, <2>1, <2>2
<1>7. CASE evq = <<ReplyEvent>> /\ ev = NoEvent /\ ~Told
  <2>1. p # ReplyEvent.source /\ p # ev.source
    BY <1>2, <1>7, EventFacts
  <2>2. Cardinality({k \in 1 .. Len(evq) : evq[k].source = p}) = IF p = ReplyEvent.source THEN 1 ELSE 0
    BY <1>7, EventsAbout
  <2> QED
    BY <1>1, <1>7, <2>1, <2>2
<1> QED
  BY <1>3, <1>4, <1>5, <1>6, <1>7

\* For any packets and any reloads between them: every reference to a packet is
\* counted, so a packet lives while an event or the session still uses it, and
\* one that was dropped is freed (rf_packet_ref, rf_packet_unref).
THEOREM SpecRefsMatch == Spec => []RefsMatch
BY SpecIInv, CountedRefs, PTL

LEMMA InitPromise == Init => Promise!Init
BY DEF Init, Promise!Init, Plugins, Promise!Plugins

\* The packet is done with: this is where the promise about it is kept.
LEMMA FinishPromise == ASSUME IInv, Finish PROVE Promise!Handle(pkt)
<1>1. pkt \in Packets /\ Settled
  BY EventsDiffer DEF Finish, IInv, Stages, Resting, Looking, Saying, Obeyed
<1>2. /\ UNCHANGED <<show, loaded, todo, drop>> /\ phase = "events" /\ phase' = "idle"
      /\ passed' = (IF drop THEN passed ELSE Append(passed, pkt))
      /\ replies' = replies \o post
  BY DEF Finish
<1>3. pkt \notin todo /\ replies \in Seq({"ok", "error"})
  BY DEF IInv, Once, Types
<1>4. /\ Command <=> Kind[pkt] = "command" /\ {"chat", "loot"} \subseteq loaded
      /\ Hidden <=> Kind[pkt] = "item" /\ "loot" \in loaded /\ ItemOf[pkt] \notin before
      /\ drop <=> Command \/ Hidden
  BY <1>1 DEF Settled, Command, Hidden
<1>5. replies' = IF Command THEN Append(replies, Answer) ELSE replies
  BY <1>1, <1>2, <1>3 DEF Settled
<1>6. \A i : Promise!Wanted(i, Words[pkt]) <=> Wants(before, i, Words[pkt])
  BY <1>2 DEF Promise!Wanted, Wants, Decides
<1>7. show' = IF Command /\ Sound THEN {i \in Items : Promise!Wanted(i, Words[pkt])} ELSE before
  <2>1. show' = IF Command THEN NewShow ELSE before
    BY <1>1, <1>2 DEF Settled
  <2>2. {i \in Items : Promise!Wanted(i, Words[pkt])} = {i \in Items : Wants(before, i, Words[pkt])}
    BY <1>6
  <2> QED
    BY <2>1, <2>2 DEF NewShow
<1>8. (IF phase' = "idle" THEN todo' ELSE todo' \cup {pkt'}) =
      (IF phase = "idle" THEN todo ELSE todo \cup {pkt}) \ {pkt}
  BY <1>2, <1>3
<1> QED
  BY <1>2, <1>4, <1>5, <1>7, <1>8 DEF Promise!Handle, Sound, Answer

LEMMA NextPromise ==
    IInv /\ [Next]_vars =>
        [Promise!Next]_<<IF phase = "idle" THEN show ELSE before, loaded,
                         IF phase = "idle" THEN todo ELSE todo \cup {pkt}, passed, replies>>
<1> DEFINE seen == <<IF phase = "idle" THEN show ELSE before, loaded,
                     IF phase = "idle" THEN todo ELSE todo \cup {pkt}, passed, replies>>
<1> SUFFICES ASSUME IInv, [Next]_vars PROVE Promise!Next \/ UNCHANGED seen
  OBVIOUS
<1>1. CASE Reload
  <2>1. Promise!Reload
    BY <1>1 DEF Reload, Promise!Reload, Plugins, Promise!Plugins
  <2> QED
    BY <2>1 DEF Promise!Next
<1>2. CASE \E p \in Packets : Begin(p)
  <2>1. PICK p \in Packets : Begin(p)
    BY <1>2
  <2>2. todo' \cup {pkt'} = todo /\ before' = show /\ phase = "idle" /\ phase' = "packet"
        /\ UNCHANGED <<loaded, passed, replies>>
    BY <2>1 DEF Begin
  <2> QED
    BY <2>2
<1>3. CASE ProcessPacket \/ PopEvent \/ ProcessEvent
  <2>1. /\ phase # "idle" /\ phase' # "idle"
        /\ UNCHANGED <<loaded, todo, pkt, passed, replies, before>>
    BY <1>3 DEF ProcessPacket, PopEvent, ProcessEvent
  <2> QED
    BY <2>1
<1>4. CASE Finish
  <2>1. pkt \in Packets
    BY <1>4 DEF Finish, IInv, Stages, Resting
  <2> QED
    BY <1>4, <2>1, FinishPromise DEF Promise!Next
<1>5. CASE UNCHANGED vars
  BY <1>5 DEF vars
<1> QED
  BY <1>1, <1>2, <1>3, <1>4, <1>5 DEF Next

\* For any packets, and commands of any number of words: whatever events the
\* filters exchange and whichever of them are loaded, each packet is passed on,
\* dropped, obeyed and answered as Filtering says (rfx_filter_chain::process,
\* rfx_loot::loot_cmd).
THEOREM SpecImplementsFiltering == Spec => ImplementsFiltering
<1>1. Init => Promise!Init
  BY InitPromise
<1>2. IInv /\ [Next]_vars => [Promise!Next]_<<IF phase = "idle" THEN show ELSE before, loaded,
                         IF phase = "idle" THEN todo ELSE todo \cup {pkt}, passed, replies>>
  BY NextPromise
<1> QED
  BY <1>1, <1>2, SpecIInv, PTL DEF Spec, ImplementsFiltering, Promise!Spec
=============================================================================
