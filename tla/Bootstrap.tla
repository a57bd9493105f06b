----------------------------- MODULE Bootstrap -----------------------------
(***************************************************************************)
(* How a client becomes a session: cli_connect_cb and struct bootstrap of  *)
(* main.cpp.  A client is accepted, a connection to the server is begun,   *)
(* and a write watcher and a timer race for its end.  The descriptors are  *)
(* numbers the kernel uses again, so closing one twice, or keeping one     *)
(* that was closed, would hit another client.                              *)
(*                                                                         *)
(* libev collects what is pending (Poll) and then runs the callbacks in    *)
(* some order.  Stopping a watcher clears what is pending for it; a timer  *)
(* without repeat is stopped before its callback runs.                     *)
(***************************************************************************)
EXTENDS Integers, Sequences

CONSTANTS Clients,
          MaxFd         \* descriptors 1 .. MaxFd are left to the process

ASSUME BootstrapAssumption == MaxFd \in Nat

VARIABLES backlog,      \* clients in the queue of the listening socket
          fdtab,        \* fdtab[f]: what descriptor f is open for, or Free
          answer,       \* answer[c]: what connect() for client c has come to
          boot,         \* boot[c]: the bootstrap object for client c, or None
          session,      \* session[c]: the descriptors its rf_session has, or None
          io, timeout,  \* the clients whose bootstrap.io / .timeout is active
          due,          \* those of timeout whose time is up
          pending,      \* the callbacks libev has yet to run in this round
          phase,        \* "loop", or "accept" inside cli_connect_cb
          fate          \* fate[c]: what has become of the client

vars == <<backlog, fdtab, answer, boot, session, io, timeout, due, pending, phase, fate>>
-----------------------------------------------------------------------------
Fds == 1 .. MaxFd
Free == [side |-> "free", of |-> "nobody"]
None == [cli |-> 0, srv |-> 0]
IoOf(c) == [what |-> "io", of |-> c]
TimerOf(c) == [what |-> "timer", of |-> c]
Listen == [what |-> "listen", of |-> "nobody"]

\* The kernel opens the lowest free descriptor, or fails.
Lowest(free) == IF free = {} THEN -1 ELSE CHOOSE f \in free : \A g \in free : f <= g
FreeFds == {f \in Fds : fdtab[f] = Free}

Init ==
    /\ backlog = <<>>
    /\ fdtab = [f \in Fds |-> Free]
    /\ answer = [c \in Clients |-> "none"]
    /\ boot = [c \in Clients |-> None] /\ session = [c \in Clients |-> None]
    /\ io = {} /\ timeout = {} /\ due = {}
    /\ pending = {}
    /\ phase = "loop"
    /\ fate = [c \in Clients |-> "new"]

\* A table after the descriptors of o were closed, and with the fault that the
\* one of the server is forgotten.
ClosedFaulty(tab, o) == [f \in Fds |-> IF f = o.cli THEN Free ELSE tab[f]]
Closed(tab, o) == [f \in Fds |-> IF f \in {o.cli, o.srv} THEN Free ELSE tab[f]]

\* fdtab after o was opened for client c.
Opened(o, c) ==
    [f \in Fds |-> IF f = o.cli THEN [side |-> "cli", of |-> c]
                   ELSE IF f = o.srv THEN [side |-> "srv", of |-> c]
                   ELSE fdtab[f]]
-----------------------------------------------------------------------------
(* The clients, the server and time.                                       *)

Arrive(c) ==
    /\ fate[c] = "new"
    /\ backlog' = Append(backlog, c)
    /\ fate' = [fate EXCEPT ![c] = "waiting"]
    /\ UNCHANGED <<fdtab, answer, boot, session, io, timeout, due, pending, phase>>

\* The server accepts, or the connection fails, before or after that.
Answer(c) ==
    /\ \/ answer[c] = "begun" /\ answer' = [answer EXCEPT ![c] = "made"]
       \/ answer[c] \in {"begun", "made"} /\ answer' = [answer EXCEPT ![c] = "failed"]
    /\ UNCHANGED <<backlog, fdtab, boot, session, io, timeout, due, pending, phase, fate>>

\* rf_conn_timeout seconds have passed.
TimeIsUp(c) ==
    /\ c \in timeout \ due
    /\ due' = due \cup {c}
    /\ UNCHANGED <<backlog, fdtab, answer, boot, session, io, timeout, pending, phase, fate>>
-----------------------------------------------------------------------------
\* libev begins a round: it looks what is ready and what is due.
Poll ==
    /\ phase = "loop" /\ pending = {}
    /\ pending' = {IoOf(c) : c \in {b \in io : answer[b] # "begun"}}
                  \cup {TimerOf(c) : c \in due}
                  \cup (IF backlog # <<>> THEN {Listen} ELSE {})
    /\ timeout' = timeout \ due
    /\ due' = {}
    /\ UNCHANGED <<backlog, fdtab, answer, boot, session, io, phase, fate>>

cli_connect_cb ==
    /\ phase = "loop" /\ Listen \in pending
    /\ pending' = pending \ {Listen}
    /\ phase' = "accept"
    /\ UNCHANGED <<backlog, fdtab, answer, boot, session, io, timeout, due, fate>>

\* Whether the server's socket may be used.
Usable(fd) == fd # -1

(***************************************************************************)
(* One iteration of its loop: accept() succeeds; then socket() fails, or   *)
(* set_nonblock() or connect() does, and what was opened until then is     *)
(* closed again; or connect() is under way, or has succeeded at once.      *)
(***************************************************************************)
Accept ==
    /\ phase = "accept"
    /\ backlog # <<>> /\ FreeFds # {}
    /\ LET c == Head(backlog)
           cli == Lowest(FreeFds)
           o == [cli |-> cli, srv |-> Lowest(FreeFds \ {cli})]
       IN  /\ backlog' = Tail(backlog)
           /\ \/ /\ fate' = [fate EXCEPT ![c] = "dropped"]
                 /\ \E p \in {o, [o EXCEPT !.srv = -1]} : fdtab' = Closed(Opened(p, c), p)
                 /\ UNCHANGED <<answer, boot, session, io, timeout>>
              \/ /\ Usable(o.srv)
                 /\ fdtab' = Opened(o, c)
                 /\ \/ /\ answer' = [answer EXCEPT ![c] = "begun"]
                       /\ boot' = [boot EXCEPT ![c] = o]
                       /\ io' = io \cup {c} /\ timeout' = timeout \cup {c}
                       /\ fate' = [fate EXCEPT ![c] = "connecting"]
                       /\ UNCHANGED session
                    \/ /\ answer' = [answer EXCEPT ![c] = "made"]
                       /\ session' = [session EXCEPT ![c] = o]
                       /\ fate' = [fate EXCEPT ![c] = "proxied"]
                       /\ UNCHANGED <<boot, io, timeout>>
    /\ UNCHANGED <<due, pending, phase>>

\* accept() fails: nobody is waiting, or no descriptor is left.
AcceptFails ==
    /\ phase = "accept"
    /\ backlog = <<>> \/ FreeFds = {}
    /\ phase' = "loop"
    /\ UNCHANGED <<backlog, fdtab, answer, boot, session, io, timeout, due, pending, fate>>

\* The callbacks that stopping both watchers of a bootstrap takes back; with
\* the fault that the timer is left running.
StoppedFaulty(c) == {IoOf(c)}
Stopped(c) == {IoOf(c), TimerOf(c)}

\* Both watchers of c are stopped and its bootstrap is deleted.
Delete(c) ==
    /\ pending' = pending \ Stopped(c)
    /\ io' = io \ {c}
    /\ timeout' = IF TimerOf(c) \in Stopped(c) THEN timeout \ {c} ELSE timeout
    /\ due' = due \cap timeout'
    /\ boot' = [boot EXCEPT ![c] = None]

\* bootstrap::io_cb: SO_ERROR tells what connect() has come to.
io_cb(c) ==
    /\ phase = "loop" /\ IoOf(c) \in pending
    /\ Delete(c)
    /\ IF answer[c] = "made"
       THEN /\ session' = [session EXCEPT ![c] = boot[c]]
            /\ fate' = [fate EXCEPT ![c] = "proxied"]
            /\ UNCHANGED fdtab
       ELSE /\ fdtab' = Closed(fdtab, boot[c])
            /\ fate' = [fate EXCEPT ![c] = "dropped"]
            /\ UNCHANGED session
    /\ UNCHANGED <<backlog, answer, phase>>

\* The test ev_is_pending(&b->io), and with the faults that it is not made, and
\* that it asks whether the watcher is active.
AnsweredFaulty(c) == FALSE
AnsweredActive(c) == c \in io
Answered(c) == IoOf(c) \in pending

\* bootstrap::tmr_cb: an answer that is pending is left to io_cb.
tmr_cb(c) ==
    /\ phase = "loop" /\ TimerOf(c) \in pending
    /\ IF Answered(c)
       THEN /\ pending' = pending \ {TimerOf(c)}
            /\ UNCHANGED <<fdtab, boot, io, timeout, due, fate>>
       ELSE /\ Delete(c)
            /\ fdtab' = Closed(fdtab, boot[c])
            /\ fate' = [fate EXCEPT ![c] = "dropped"]
    /\ UNCHANGED <<backlog, answer, session, phase>>

\* ~rf_session, at the end of one of its callbacks.
EndSession(c) ==
    /\ phase = "loop"
    /\ session[c] # None
    /\ fdtab' = Closed(fdtab, session[c])
    /\ session' = [session EXCEPT ![c] = None]
    /\ fate' = [fate EXCEPT ![c] = "ended"]
    /\ UNCHANGED <<backlog, answer, boot, io, timeout, due, pending, phase>>

Loop ==
    \/ Poll
    \/ cli_connect_cb \/ Accept \/ AcceptFails
    \/ \E c \in Clients : io_cb(c) \/ tmr_cb(c)

Next ==
    \/ Loop
    \/ \E c \in Clients : Arrive(c) \/ Answer(c) \/ TimeIsUp(c) \/ EndSession(c)

Spec == Init /\ [][Next]_vars

\* The loop runs and time passes; nobody else need do anything.
FairSpec == Spec /\ WF_vars(Loop) /\ \A c \in Clients : WF_vars(TimeIsUp(c))
-----------------------------------------------------------------------------
TypeOK ==
    /\ backlog \in Seq(Clients)
    /\ fdtab \in [Fds -> [side : {"cli", "srv"}, of : Clients] \cup {Free}]
    /\ answer \in [Clients -> {"none", "begun", "made", "failed"}]
    /\ boot \in [Clients -> [cli : Fds, srv : Fds] \cup {None}]
    /\ session \in [Clients -> [cli : Fds, srv : Fds] \cup {None}]
    /\ io \subseteq Clients /\ timeout \subseteq Clients /\ due \subseteq timeout
    /\ pending \subseteq [what : {"io", "timer"}, of : Clients] \cup {Listen}
    /\ phase \in {"loop", "accept"}
    /\ fate \in [Clients -> {"new", "waiting", "connecting", "proxied", "dropped", "ended"}]

\* A descriptor is open exactly as long as the bootstrap or the session of its
\* client has it: none is leaked, none is used after it was closed (and perhaps
\* opened for another client), and a client has one owner.
FdsOwned ==
    /\ \A c \in Clients :
        /\ boot[c] = None \/ session[c] = None
        /\ \A o \in {boot[c], session[c]} \ {None} :
              /\ fdtab[o.cli] = [side |-> "cli", of |-> c]
              /\ fdtab[o.srv] = [side |-> "srv", of |-> c]
    /\ \A f \in Fds \ FreeFds :
        \E o \in {boot[fdtab[f].of], session[fdtab[f].of]} \ {None} :
              f = IF fdtab[f].side = "cli" THEN o.cli ELSE o.srv

\* No callback can run for a bootstrap that was deleted, and one that exists
\* will be ended: its socket is watched, and its timer runs or has been called
\* while the answer was pending.
WatchersMatch ==
    /\ io = {c \in Clients : boot[c] # None}
    /\ timeout \cup {p.of : p \in pending \ {Listen}} \subseteq io
    /\ io \subseteq timeout \cup {p.of : p \in pending \ {Listen}}

\* A client whose server has answered by the time libev looked is not given up
\* for the timeout that was due in the same round.
AnswerWins ==
    [][\A c \in Clients : boot[c] # None /\ answer[c] = "made" /\ IoOf(c) \in pending
                          => fate'[c] # "dropped"]_vars

\* No client is left connecting for ever, however silent the server is.
Resolved == \A c \in Clients : fate[c] = "connecting" ~> fate[c] \in {"proxied", "dropped", "ended"}
=============================================================================
