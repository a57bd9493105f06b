------------------------------ MODULE Session ------------------------------
(***************************************************************************)
(* A proxied connection: rf_session of main.cpp with its two proxy_pipes   *)
(* (proxy.cpp), its delayed queue and the callbacks that libev runs for    *)
(* it, between two peers and the kernel's socket buffers.                  *)
(*                                                                         *)
(* Direction d goes from the peer Src(d) to the peer Dst(d).  libev runs   *)
(* one callback at a time; a callback is a sequence of steps, one for each *)
(* system call it makes (pc), and the peers and the kernel may move        *)
(* between any two of them.  Packets are moved whole here: partial writes  *)
(* are the matter of SendQueue.                                            *)
(*                                                                         *)
(* The filters are given by what they do to a packet (Drop, Pre, Post).    *)
(***************************************************************************)
EXTENDS Integers, Sequences, FiniteSets, Functions

CONSTANTS Packets,      \* identities of packets: sent by a peer or injected
          Input,        \* Input[d]: what the source of d may send, in order
          Drop,         \* Drop[p]: the filters set pkt->drop
          Pre, Post,    \* Pre[p], Post[p]: the packets they inject around p
          Dir,          \* Dir[p]: direction of an injected packet
          Delayed,      \* the injected packets with delay > 0
          WRIVCNT,      \* capacity of the window of sendq
          SNDBUF        \* packets the kernel buffers for a peer

CLI_TO_SRV == 0
SRV_TO_CLI == 1
Dirs == {CLI_TO_SRV, SRV_TO_CLI}
Other(d) == 1 - d
Injected(p) == Range(Pre[p]) \cup Range(Post[p])

ASSUME SessionAssumption ==
    /\ Input \in [Dirs -> Seq(Packets)]
    /\ Drop \in [Packets -> BOOLEAN]
    /\ Pre \in [Packets -> Seq(Packets)]
    /\ Post \in [Packets -> Seq(Packets)]
    /\ Dir \in [Packets -> Dirs]
    /\ Delayed \subseteq Packets
    /\ WRIVCNT \in Nat \ {0}
    /\ SNDBUF \in Nat \ {0}

\* Every packet that is read or injected is an object of its own (pkt_new).
ASSUME IdentityAssumption ==
    /\ \A d, e \in Dirs : \A i \in 1 .. Len(Input[d]), j \in 1 .. Len(Input[e]) :
            Input[d][i] = Input[e][j] => d = e /\ i = j
    /\ \A p \in Packets :
            /\ IsInjective(Pre[p]) /\ IsInjective(Post[p])
            /\ Range(Pre[p]) \cap Range(Post[p]) = {}
            /\ \A d \in Dirs : Injected(p) \cap Range(Input[d]) = {}
            /\ \A q \in Packets \ {p} : Injected(p) \cap Injected(q) = {}

VARIABLES
    given,      \* given[d]: what the source of d has sent and was not lost
    nin,        \* nin[d]: how much of it recvq::recv has read
    fin,        \* fin[d]: the source of d has shut down its side or is gone
    gone,       \* gone[d]: the destination of d is gone, writing to it fails
    wire,       \* wire[d]: what the kernel has taken for the destination of d
    nout,       \* nout[d]: how much of it the destination has read
    rdshut,     \* rdshut[d]: shutdown(in.fd, SHUT_RD) was called
    wrshut,     \* wrshut[d]: shutdown(out.fd, SHUT_WR) was called: "no", or first
                \* when the pipe was "whole" or when it was "broken"
    live,       \* the rf_session object exists
    eof,        \* eof[d]: PIPE_EOF
    broken,     \* broken[d]: PIPE_BROKEN
    inw, outw,  \* inw[d], outw[d]: the watchers proxy_pipe::in and out are active
    rcvq,       \* rcvq[d]: recvq.pq
    pq,         \* pq[d]: sendq.pq
    win,        \* win[d]: the packets the live entries of svbuf point to
    dq,         \* the packets of the delayed queue
    ticking,    \* those of them whose timer is active
    has_new,    \* delayed_queue::has_new
    refc,       \* refc[p]: rf_packet.refc, 0 once freed
    pc, cur     \* the callback being run and the pipe it was called for

world == <<given, nin, fin, gone, wire, nout, rdshut, wrshut>>
pipes == <<eof, broken, inw, outw, rcvq, pq, win>>
vars == <<world, pipes, live, dq, ticking, has_new, refc, pc, cur>>
-----------------------------------------------------------------------------
Smaller(a, b) == IF a <= b THEN a ELSE b
First(s, n) == SubSeq(s, 1, Smaller(n, Len(s)))
After(s, n) == SubSeq(s, n + 1, Len(s))

\* The elements of s that are in S, of its first i elements and of all of it
\* (SelectSeq takes an operator, about which the provers cannot reason).
Pick(t, x, S) == IF x \in S THEN Append(t, x) ELSE t
Picked(s, S) ==
    LET picked[i \in 0 .. Len(s)] == IF i = 0 THEN <<>> ELSE Pick(picked[i - 1], s[i], S)
    IN  picked
Select(s, S) == Picked(s, S)[Len(s)]

For(f, d, x) == [f EXCEPT ![d] = x]
Everywhere(x) == [d \in Dirs |-> x]

Init ==
    /\ given = Everywhere(<<>>) /\ nin = Everywhere(0)
    /\ wire = Everywhere(<<>>) /\ nout = Everywhere(0)
    /\ fin = Everywhere(FALSE) /\ gone = Everywhere(FALSE)
    /\ rdshut = Everywhere(FALSE) /\ wrshut = Everywhere("no")
    /\ eof = Everywhere(FALSE) /\ broken = Everywhere(FALSE)
    /\ inw = Everywhere(TRUE) /\ outw = Everywhere(FALSE)
    /\ rcvq = Everywhere(<<>>) /\ pq = Everywhere(<<>>) /\ win = Everywhere(<<>>)
    /\ live = TRUE
    /\ dq = <<>> /\ ticking = {}
    /\ has_new = FALSE
    /\ refc = [p \in Packets |-> 0]
    /\ pc = "idle" /\ cur = CLI_TO_SRV

-----------------------------------------------------------------------------
(* The peers and the kernel.  What the peers send once the session is      *)
(* closed does not concern it.                                             *)

PeerSend(d) ==
    /\ live
    /\ ~fin[d]
    /\ Len(given[d]) < Len(Input[d])
    /\ given' = For(given, d, Append(given[d], Input[d][Len(given[d]) + 1]))
    /\ UNCHANGED <<nin, fin, gone, wire, nout, rdshut, wrshut, pipes, live, dq, ticking, has_new, refc, pc, cur>>

\* A peer has read the next packet.
PeerRead(d) ==
    /\ ~gone[d]
    /\ nout[d] < Len(wire[d])
    /\ nout' = For(nout, d, nout[d] + 1)
    /\ UNCHANGED <<given, nin, fin, gone, wire, rdshut, wrshut, pipes, live, dq, ticking, has_new, refc, pc, cur>>

\* The source of d shuts down its sending side and goes on reading.
PeerShutdown(d) ==
    /\ live
    /\ ~fin[d]
    /\ fin' = For(fin, d, TRUE)
    /\ UNCHANGED <<given, nin, gone, wire, nout, rdshut, wrshut, pipes, live, dq, ticking, has_new, refc, pc, cur>>

\* The source of d closes its connection, or resets it: then what the proxy
\* has not read is lost.
PeerGone(d) ==
    /\ live
    /\ ~gone[Other(d)]
    /\ fin' = For(fin, d, TRUE)
    /\ gone' = For(gone, Other(d), TRUE)
    /\ \/ given' = given
       \/ given' = For(given, d, First(given[d], nin[d]))
    /\ UNCHANGED <<nin, wire, nout, rdshut, wrshut, pipes, live, dq, ticking, has_new, refc, pc, cur>>

World == \E d \in Dirs : PeerSend(d) \/ PeerRead(d) \/ PeerShutdown(d) \/ PeerGone(d)

Readable(d) == nin[d] < Len(given[d]) \/ fin[d] \/ rdshut[d]
WriteFails(d) == gone[d] \/ wrshut[d] # "no"
Room(d) == SNDBUF - (Len(wire[d]) - nout[d])
Writable(d) == WriteFails(d) \/ Room(d) > 0
-----------------------------------------------------------------------------
(***************************************************************************)
(* proxy_pipe::handle_read_event: recvq::recv reads until the socket has   *)
(* no more (EAGAIN) or has ended.                                          *)
(***************************************************************************)
handle_read_event(d) ==
    LET new == After(given[d], nin[d])
        ended == fin[d] \/ rdshut[d]
    IN  /\ nin' = For(nin, d, Len(given[d]))
        /\ rcvq' = For(rcvq, d, rcvq[d] \o new)
        /\ refc' = [p \in Packets |-> IF p \in Range(new) THEN 1 ELSE refc[p]]
        /\ eof' = For(eof, d, eof[d] \/ ended)
        /\ inw' = For(inw, d, inw[d] /\ ~ended)

\* Whether handle_write_event passes the end of the stream on, and with the
\* fault that it does not wait for the queue.
EndsFaulty(d, stop) == eof[d]
Ends(d, stop) == stop /\ eof[d] /\ rcvq[d] = <<>>

\* Whether the write watcher is active after handle_write_event, and with the
\* fault that a backlog does not start it.
WatchesFaulty(d, stop) == outw[d] /\ ~stop
Watches(d, stop) == ~stop

(***************************************************************************)
(* proxy_pipe::handle_write_event(d) where q is the list of the pipe and r *)
(* the reference counts.  sendq::send takes a window from the list if it   *)
(* has none, passes the entries to the kernel until it has no room, and    *)
(* for every entry the kernel took discards the first packet of the list.  *)
(***************************************************************************)
handle_write_event(d, q, r) ==
    LET w == IF win[d] = <<>> THEN First(q, WRIVCNT) ELSE win[d]
        entries == w \o After(q, Len(w))    \* later windows are taken from the rest
        n == IF WriteFails(d) THEN 0 ELSE Smaller(Room(d), Len(q))
        more == n - Len(w)
        left == IF more < 0 THEN After(w, n)
                ELSE First(After(entries, n), WRIVCNT - (more % WRIVCNT))
        failed == q # <<>> /\ WriteFails(d)
        stop == failed \/ left = <<>>
    IN  /\ wire' = For(wire, d, wire[d] \o First(entries, n))
        /\ pq' = For(pq, d, After(q, n))
        /\ refc' = [p \in Packets |-> IF p \in Range(First(q, n)) THEN r[p] - 1 ELSE r[p]]
        /\ win' = For(win, d, left)
        /\ broken' = For(broken, d, broken[d] \/ failed)
        /\ rdshut' = For(rdshut, d, rdshut[d] \/ failed)
        /\ outw' = For(outw, d, Watches(d, stop))
        /\ wrshut' = For(wrshut, d, IF wrshut[d] # "no" \/ ~Ends(d, stop) THEN wrshut[d]
                                    ELSE IF broken[d] \/ failed THEN "broken" ELSE "whole")

\* proxy_pipe::done and rf_session::done, and the latter with the fault that
\* it waits for a broken pipe to drain.
pipe_done(d) == broken[d] \/ (eof[d] /\ rcvq[d] = <<>> /\ pq[d] = <<>>)
doneFaulty == \A d \in Dirs : pipe_done(d) /\ pq[d] = <<>>
done == \A d \in Dirs : pipe_done(d)

\* The lists p is in.
Holders(p) ==
    LET In(s) == Cardinality({i \in 1 .. Len(s) : s[i] = p})
    IN  In(dq) + In(rcvq[CLI_TO_SRV]) + In(rcvq[SRV_TO_CLI]) + In(pq[CLI_TO_SRV]) + In(pq[SRV_TO_CLI])

-----------------------------------------------------------------------------
(* The steps of a callback.                                                *)

\* What proxy_pipe::inject (sendq::pull, pqh_pull) moves from the list src to
\* pipe d whose window has n entries: as many of the packets of its direction
\* without delay as there is room for.
Taken(src, d, n) ==
    First(Select(src, {p \in Packets \ Delayed : Dir[p] = d}), WRIVCNT - n)

\* What delayed_queue::pull finds in src after that, for both pipes.
Untaken(src, taken) ==
    Select(src, {p \in Packets : \A d \in Dirs : p \notin Range(taken[d])})

\* The reference counts after p was filtered: the injected packets are new, and
\* p is freed if dropped; with the fault that it is kept.
FilteredFaulty(p) ==
    [q \in Packets |-> IF q \in Injected(p) THEN 1 ELSE refc[q]]
Filtered(p) ==
    [q \in Packets |-> IF q \in Injected(p) THEN 1
                       ELSE IF q = p /\ Drop[p] THEN refc[q] - 1
                       ELSE refc[q]]

(***************************************************************************)
(* One round of rf_session::filter: the oldest packet p read goes through  *)
(* the filters; what they inject before it, p itself unless dropped, and   *)
(* what they inject after it are queued.                                   *)
(***************************************************************************)
filter ==
    /\ pc = "filter"
    /\ rcvq[cur] # <<>>
    /\ LET p == Head(rcvq[cur])
           pre == [d \in Dirs |-> Taken(Pre[p], d, Len(win[d]))]
           post == [d \in Dirs |-> Taken(Post[p], d, Len(win[d]) + Len(pre[d]))]
           itself == [d \in Dirs |-> IF d = cur /\ ~Drop[p] THEN <<p>> ELSE <<>>]
           later == Untaken(Pre[p], pre) \o Untaken(Post[p], post)
       IN  /\ rcvq' = For(rcvq, cur, Tail(rcvq[cur]))
           /\ pq' = [d \in Dirs |-> pq[d] \o pre[d] \o itself[d] \o post[d]]
           /\ win' = [d \in Dirs |-> win[d] \o pre[d] \o post[d]]
           /\ dq' = dq \o later
           /\ has_new' = (has_new \/ later # <<>>)
           /\ refc' = Filtered(p)
    /\ UNCHANGED <<world, eof, broken, inw, outw, live, ticking, pc, cur>>

\* cli_io_cb / srv_io_cb with EV_READ: the pipe is read.
ReadEvent(d) ==
    /\ pc = "idle"
    /\ inw[d] /\ Readable(d)
    /\ handle_read_event(d)
    /\ pc' = "filter" /\ cur' = d
    /\ UNCHANGED <<given, fin, gone, wire, nout, rdshut, wrshut, broken, outw, pq, win, live, dq, ticking, has_new>>

\* The running timers after delayed_queue::start, and with the fault that it
\* starts none.
StartedFaulty == ticking
Started == IF has_new THEN Range(dq) ELSE ticking

\* ... then, everything being filtered, the new timers are started and the
\* pipe is written ...
WriteOwn ==
    /\ pc = "filter"
    /\ rcvq[cur] = <<>>
    /\ ticking' = Started
    /\ has_new' = FALSE
    /\ handle_write_event(cur, pq[cur], refc)
    /\ pc' = "other"
    /\ UNCHANGED <<given, nin, fin, gone, nout, eof, inw, rcvq, live, dq, cur>>

\* ... and so is the other one.
WriteOther ==
    /\ pc = "other"
    /\ handle_write_event(Other(cur), pq[Other(cur)], refc)
    /\ pc' = "check"
    /\ UNCHANGED <<given, nin, fin, gone, nout, eof, inw, rcvq, live, dq, ticking, has_new, cur>>

\* cli_io_cb / srv_io_cb with EV_WRITE.
WriteEvent(d) ==
    /\ pc = "idle"
    /\ outw[d] /\ Writable(d)
    /\ handle_write_event(d, pq[d], refc)
    /\ pc' = "check" /\ cur' = d
    /\ UNCHANGED <<given, nin, fin, gone, nout, eof, inw, rcvq, live, dq, ticking, has_new>>

\* Both callbacks end here: a session whose pipes are done is stopped and deleted.
Check ==
    /\ pc = "check"
    /\ pc' = "idle"
    /\ IF done
       THEN /\ live' = FALSE
            /\ inw' = Everywhere(FALSE) /\ outw' = Everywhere(FALSE)
            /\ rcvq' = Everywhere(<<>>) /\ pq' = Everywhere(<<>>) /\ win' = Everywhere(<<>>)
            /\ dq' = <<>> /\ ticking' = {}
            /\ refc' = [p \in Packets |-> refc[p] - Holders(p)]
            /\ UNCHANGED <<eof, broken>>
       ELSE UNCHANGED <<live, pipes, dq, ticking, refc>>
    /\ UNCHANGED <<world, has_new, cur>>

\* The reference counts timeout_cb(p) leaves, discarded packets apart: pkt_ref
\* by emit(), pkt_unref by ~delayed_pkt; with the fault that emit() takes none.
EmittedFaulty(p) == [refc EXCEPT ![p] = @ - 1]
Emitted(p) == [refc EXCEPT ![p] = @ + 1 - 1]

\* delayed_queue::timeout_cb and rf_delayed_queue::emit: the packet gets one
\* more reference, joins the list of its pipe, which is written, and loses the
\* reference of the delayed queue.  This callback does not look at done().
timeout_cb(p) ==
    /\ pc = "idle"
    /\ p \in ticking
    /\ dq' = Select(dq, Packets \ {p})
    /\ ticking' = ticking \ {p}
    /\ handle_write_event(Dir[p], Append(pq[Dir[p]], p), Emitted(p))
    /\ UNCHANGED <<given, nin, fin, gone, nout, eof, inw, rcvq, live, has_new, pc, cur>>

Callback ==
    \/ \E d \in Dirs : ReadEvent(d) \/ WriteEvent(d)
    \/ filter \/ WriteOwn \/ WriteOther \/ Check
    \/ \E p \in Packets : timeout_cb(p)

Next == World \/ Callback

Spec == Init /\ [][Next]_vars

\* The same for as long as the window of every pipe that can still be written is
\* the front of its list: filter adds what is injected to both, and behind a
\* backlog that makes them differ.
Aligned == \A d \in Dirs : WriteFails(d) \/ win[d] = First(pq[d], Len(win[d]))
AlignedSpec == Init /\ [][Next /\ Aligned']_vars

\* libev runs every callback whose event persists, and a peer that is there
\* reads what arrives; a peer need not send or close.
Fairness ==
    /\ \A d \in Dirs : WF_vars(ReadEvent(d)) /\ WF_vars(WriteEvent(d)) /\ WF_vars(PeerRead(d))
    /\ WF_vars(filter \/ WriteOwn \/ WriteOther \/ Check)
    /\ WF_vars(\E p \in Packets : timeout_cb(p))

AlignedFairSpec == AlignedSpec /\ Fairness
-----------------------------------------------------------------------------
TypeOK ==
    /\ given \in [Dirs -> Seq(Packets)] /\ nin \in [Dirs -> Nat]
    /\ wire \in [Dirs -> Seq(Packets)] /\ nout \in [Dirs -> Nat]
    /\ fin \in [Dirs -> BOOLEAN] /\ gone \in [Dirs -> BOOLEAN]
    /\ rdshut \in [Dirs -> BOOLEAN] /\ eof \in [Dirs -> BOOLEAN] /\ broken \in [Dirs -> BOOLEAN]
    /\ inw \in [Dirs -> BOOLEAN] /\ outw \in [Dirs -> BOOLEAN]
    /\ wrshut \in [Dirs -> {"no", "whole", "broken"}]
    /\ rcvq \in [Dirs -> Seq(Packets)] /\ pq \in [Dirs -> Seq(Packets)] /\ win \in [Dirs -> Seq(Packets)]
    /\ live \in BOOLEAN
    /\ dq \in Seq(Packets)
    /\ ticking \subseteq Packets
    /\ has_new \in BOOLEAN
    /\ refc \in [Packets -> Nat]
    /\ pc \in {"idle", "filter", "other", "check"}
    /\ cur \in Dirs

\* Between callbacks everything the session still has to do has an event that
\* will make it do it: a queued packet an active write watcher (unless the pipe
\* is broken), a source that has not ended an active read watcher, a delayed
\* packet a running timer; a deleted session has no running timer.
NoLostWakeup ==
    pc = "idle" =>
        /\ live => \A d \in Dirs : /\ pq[d] # <<>> /\ ~broken[d] => outw[d]
                                   /\ ~eof[d] => inw[d]
        /\ ticking = Range(dq)

\* A packet is in at most one list, as its only link field demands, and its
\* reference count says so at every step, so it is freed exactly when it
\* leaves its last list, deletion of the session included.
OneHolder == \A p \in Packets : refc[p] = Holders(p) /\ Holders(p) <= 1

\* The end of a stream is passed on (SHUT_WR) only when nothing of that stream
\* is left to read, to filter or to send.
HalfCloseLast ==
    \A d \in Dirs : wrshut[d] = "whole" =>
        /\ nin[d] = Len(given[d])
        /\ Range(given[d]) \cap Range(rcvq[d] \o pq[d]) = {}

\* A session none of whose packets was ever delayed, by its filter or for want of
\* room in the window, and that still exists can still be called: some watcher or
\* timer is active, and it is not one that should have been deleted by now.
NoOrphan ==
    live /\ pc = "idle" =>
        /\ \E d \in Dirs : ~(broken[d] \/ (eof[d] /\ pq[d] = <<>>))
        /\ ticking # {} \/ \E d \in Dirs : inw[d] \/ outw[d]

\* Nothing but a timer can leave a session behind whose pipes are done: every
\* other callback deletes it in the step that makes it so (main.cpp:646, 667;
\* timeout_cb, main.cpp:563, does not look).
Abandoned ==
    live /\ pc = "idle" /\ \A d \in Dirs : broken[d] \/ (eof[d] /\ rcvq[d] \o pq[d] = <<>>)
OrphanedByTimerOnly ==
    [][~Abandoned /\ Abandoned' => \E p \in ticking : ticking' = ticking \ {p}]_vars

\* No packet reaches its destination twice.
SentOnce ==
    \A d \in Dirs : \A i, j \in 1 .. Len(wire[d]) : wire[d][i] = wire[d][j] => i = j

\* When both peers have ended their streams the session is deleted.
EndsInTheEnd == (\A d \in Dirs : fin[d]) ~> ~live

\* As long as nothing is injected behind a backlog (AlignedFairSpec), what a peer
\* sends and the filters keep is read by the other peer, unless one of them goes
\* away.  Without that premise sendq::pull lets a packet replace another one
\* that was relayed, and that one never arrives.
Delivered ==
    \A d \in Dirs : \A p \in {Input[d][i] : i \in 1 .. Len(Input[d])} :
        p \in Range(given[d]) /\ ~Drop[p] ~> \/ p \in Range(First(wire[d], nout[d]))
                                             \/ \E e \in Dirs : gone[e]

\* What filters inject apart, and without what they drop, the session implements
\* the relay, under the same premise (AlignedSpec): without it a relayed packet is
\* missing from what was passed on and later ones follow.
Kept(s) == Select(s, {p \in Packets : ~Drop[p]})
Relayed(s) == Select(s, {p \in Packets : \A x \in Packets : p \notin Injected(x)})
Promise == INSTANCE Relay WITH
    given <- [d \in Dirs |-> Kept(given[d])],
    passed <- [d \in Dirs |-> Relayed(wire[d])],
    shut <- [d \in Dirs |-> wrshut[d] = "whole"]
ImplementsRelay == Promise!Spec
=============================================================================
