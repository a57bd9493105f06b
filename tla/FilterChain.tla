---------------------------- MODULE FilterChain ----------------------------
(***************************************************************************)
(* rfx_filter_chain of main.cpp with the filters the proxy is shipped with *)
(* (rfx_chat, rfx_loot, rfx_debug) and the events they exchange (evq.cpp). *)
(*                                                                         *)
(* A packet goes down the chain; the filters may set its drop bit and fire *)
(* events about it.  Then every event goes down the chain, handling one    *)
(* may fire the next, and each event holds a reference to the packet it is *)
(* about.  One step is one filter looking at one packet or event.          *)
(*                                                                         *)
(* Between two packets plugins may be reloaded; a filter that could not be *)
(* loaded is passed over, and what it remembers is kept (PluginModule).    *)
(***************************************************************************)
EXTENDS Integers, Sequences, FiniteSets, Functions

CONSTANTS Packets,
          Items,        \* loot codes
          Kind,         \* Kind[p]: what pkt->type says
          ItemOf,       \* ItemOf[p]: the code in a packet of kind "item"
          Words,        \* Words[p]: the text of a message to the nick "loot"
          Named,        \* Named[arg]: the mask parse_mask makes of arg
          Unreadable    \* the arguments parse_mask rejects

Kinds == {"item", "command", "private", "said", "other"}
Args == DOMAIN Named
NULL == "none"

ASSUME FilterChainAssumption ==
    /\ NULL \notin Packets
    /\ Kind \in [Packets -> Kinds]
    /\ ItemOf \in [Packets -> Items]
    /\ Words \in [Packets -> Seq([op : {"set", "add", "sub"}, arg : Args])]
    /\ Named \in [Args -> SUBSET Items]
    /\ Unreadable \subseteq Args

VARIABLES show,         \* loot_state.show of the rfx_loot of this session
          loaded,       \* the filters whose rfx_instance.flt is not NULL
          todo,         \* packets the session has not filtered yet
          pkt,          \* the packet being filtered
          drop,         \* pkt->drop
          refc,         \* refc[p]: rf_packet.refc
          evq,          \* the events fired and not handled
          ev,           \* the event being handled
          at,           \* the place in the chain
          post,         \* the packets to be sent after pkt
          phase,        \* "idle", "packet" or "events"
          passed,       \* packets passed on, in order
          replies,      \* the replies sent to the client
          before        \* history: show when the packet came

vars == <<show, loaded, todo, pkt, drop, refc, evq, ev, at, post, phase, passed, replies, before>>
-----------------------------------------------------------------------------
Plugins == {"chat", "loot", "debug"}
Chain == <<"chat", "loot", "debug">>            \* the order of load_plugins
NoEvent == [what |-> "none", source |-> NULL, text |-> NULL]

Init ==
    /\ show = Items
    /\ loaded \in SUBSET Plugins
    /\ todo = Packets
    /\ pkt = NULL /\ drop = FALSE
    /\ refc = [p \in Packets |-> 0]
    /\ evq = <<>> /\ ev = NoEvent
    /\ at = 1
    /\ post = <<>>
    /\ phase = "idle"
    /\ passed = <<>> /\ replies = <<>>
    /\ before = Items

\* plugins_check_cb, between two callbacks of the session.
Reload ==
    /\ phase = "idle"
    /\ loaded' \in SUBSET Plugins \ {loaded}
    /\ UNCHANGED <<show, todo, pkt, drop, refc, evq, ev, at, post, phase, passed, replies, before>>

\* rf_session::filter takes the next packet that was read.
Begin(p) ==
    /\ phase = "idle"
    /\ p \in todo
    /\ todo' = todo \ {p}
    /\ pkt' = p /\ drop' = FALSE
    /\ refc' = [refc EXCEPT ![p] = 1]
    /\ at' = 1
    /\ phase' = "packet"
    /\ before' = show
    /\ UNCHANGED <<show, loaded, evq, ev, post, passed, replies>>
-----------------------------------------------------------------------------
\* The reference counts after an event about p was made.
Fired(p) == [refc EXCEPT ![p] = @ + 1]

\* rfx_chat::process(pkt): what the player says is an event.
Chat ==
    IF Kind[pkt] \in {"command", "private", "said"}
    THEN /\ evq' = Append(evq, [what |-> IF Kind[pkt] = "said" THEN "WCHAT_SENT" ELSE "PRIV_SENT",
                                source |-> pkt,
                                text |-> IF Kind[pkt] = "command" THEN "loot" ELSE "friend"])
         /\ refc' = Fired(pkt)
         /\ UNCHANGED drop
    ELSE UNCHANGED <<evq, refc, drop>>

\* rfx_loot::process(pkt): an item that is not to be shown is dropped.
Loot ==
    /\ drop' = IF Kind[pkt] = "item" THEN ItemOf[pkt] \notin show ELSE drop
    /\ UNCHANGED <<evq, refc>>

\* One filter of the chain looks at the packet; none of them breaks.
ProcessPacket ==
    /\ phase = "packet"
    /\ IF "chat" = Chain[at] /\ Chain[at] \in loaded THEN Chat
       ELSE IF "loot" = Chain[at] /\ Chain[at] \in loaded THEN Loot
       ELSE UNCHANGED <<evq, refc, drop>>
    /\ IF at < Len(Chain) THEN at' = at + 1 /\ UNCHANGED phase
       ELSE at' = 1 /\ phase' = "events"
    /\ UNCHANGED <<show, loaded, todo, pkt, ev, post, passed, replies, before>>
-----------------------------------------------------------------------------
\* evqhead_t::pop_front.
PopEvent ==
    /\ phase = "events"
    /\ ev = NoEvent /\ evq # <<>>
    /\ ev' = Head(evq)
    /\ evq' = Tail(evq)
    /\ UNCHANGED <<show, loaded, todo, pkt, drop, refc, at, post, phase, passed, replies, before>>

\* The mask nm after one word of a command, and with the fault that a word
\* without a sign adds.
AppliedFaulty(nm, w) == IF w.op = "sub" THEN nm \ Named[w.arg] ELSE nm \cup Named[w.arg]
Applied(nm, w) ==
    CASE w.op = "set" -> Named[w.arg]
      [] w.op = "add" -> nm \cup Named[w.arg]
      [] w.op = "sub" -> nm \ Named[w.arg]

\* nm after each word of a command: it starts as the mask that is in force.
Masks(words) ==
    LET nm[k \in 0 .. Len(words)] == IF k = 0 THEN show ELSE Applied(nm[k - 1], words[k])
    IN  nm

\* rfx_loot::loot_cmd: nm replaces the mask if every word could be read.
loot_cmd(words) ==
    IF \E k \in 1 .. Len(words) : words[k].arg \in Unreadable
    THEN [show |-> show, reply |-> "error"]
    ELSE [show |-> Masks(words)[Len(words)], reply |-> "ok"]

\* rfx_loot::process(ev): a message to the nick "loot" is a command.
ObeysCommand == Chain[at] = "loot" /\ ev.what = "PRIV_SENT" /\ ev.text = "loot"

\* rfx_chat::process(ev): a reply becomes a message to the client.
SendsReply == Chain[at] = "chat" /\ ev.what = "SEND_REPLY"

\* The reference counts after the event being handled was deleted, and with the
\* fault that the event keeps its reference.
DeletedFaulty == refc
Deleted == [p \in Packets |-> IF p = ev.source THEN refc[p] - 1 ELSE refc[p]]

\* One filter of the chain looks at the event; one that handles it breaks.
ProcessEvent ==
    /\ phase = "events"
    /\ ev # NoEvent
    /\ LET handles == Chain[at] \in loaded /\ (ObeysCommand \/ SendsReply)
       IN  /\ IF handles /\ ObeysCommand
              THEN LET done == loot_cmd(Words[ev.source])
                   IN  /\ show' = done.show
                       /\ evq' = Append(evq, [what |-> "SEND_REPLY", source |-> NULL, text |-> done.reply])
                       /\ drop' = TRUE
              ELSE UNCHANGED <<show, evq, drop>>
           /\ post' = IF handles /\ SendsReply THEN Append(post, ev.text) ELSE post
           /\ IF handles \/ at = Len(Chain)
              THEN ev' = NoEvent /\ at' = 1 /\ refc' = Deleted
              ELSE at' = at + 1 /\ UNCHANGED <<ev, refc>>
    /\ UNCHANGED <<loaded, todo, pkt, phase, passed, replies, before>>

\* rf_session::filter goes on: the packet is passed on or freed, and so are the
\* packets in post.
Finish ==
    /\ phase = "events"
    /\ ev = NoEvent /\ evq = <<>>
    /\ passed' = IF drop THEN passed ELSE Append(passed, pkt)
    /\ refc' = IF drop THEN [refc EXCEPT ![pkt] = @ - 1] ELSE refc
    /\ replies' = replies \o post
    /\ post' = <<>>
    /\ pkt' = NULL
    /\ phase' = "idle"
    /\ UNCHANGED <<show, loaded, todo, drop, evq, ev, at, before>>

Next ==
    \/ Reload
    \/ \E p \in Packets : Begin(p)
    \/ ProcessPacket
    \/ PopEvent \/ ProcessEvent
    \/ Finish

Spec == Init /\ [][Next]_vars
-----------------------------------------------------------------------------
Events == [what : {"PRIV_SENT", "WCHAT_SENT", "SEND_REPLY"},
           source : Packets \cup {NULL},
           text : {"loot", "friend", "ok", "error"}]

TypeOK ==
    /\ show \subseteq Items /\ before \subseteq Items
    /\ loaded \in SUBSET Plugins
    /\ todo \subseteq Packets
    /\ pkt \in Packets \cup {NULL}
    /\ drop \in BOOLEAN
    /\ refc \in [Packets -> Nat]
    /\ evq \in Seq(Events) /\ ev \in Events \cup {NoEvent}
    /\ at \in 1 .. Len(Chain)
    /\ post \in Seq({"ok", "error"}) /\ replies \in Seq({"ok", "error"})
    /\ phase \in {"idle", "packet", "events"}
    /\ passed \in Seq(Packets)

\* A packet is referenced by the session that filters it or has passed it on,
\* and by every event about it: it exists while an event can still drop it, and
\* it is freed when it was dropped and the last event is gone.
RefsMatch ==
    \A p \in Packets :
        refc[p] = Cardinality({k \in 1 .. Len(evq) : evq[k].source = p})
                  + (IF p = ev.source THEN 1 ELSE 0)
                  + (IF p = pkt \/ p \in Range(passed) THEN 1 ELSE 0)

\* The chain of filters, with its events and its reloads, does to each packet
\* what the abstract filtering says.
Promise == INSTANCE Filtering WITH
    show <- IF phase = "idle" THEN show ELSE before,
    todo <- IF phase = "idle" THEN todo ELSE todo \cup {pkt}
ImplementsFiltering == Promise!Spec
=============================================================================
