-------------------------- MODULE BootstrapProofs --------------------------
(***************************************************************************)
(* Proofs about Bootstrap, for every set of clients and every number of    *)
(* descriptors.                                                            *)
(***************************************************************************)
EXTENDS Bootstrap, NatFacts, TLAPS

\* A client is queued at most once and only until it is accepted; its fate tells
\* which object it has.
FateTells ==
    /\ \A j \in 1 .. Len(backlog) : fate[backlog[j]] = "waiting"
    /\ \A j, k \in 1 .. Len(backlog) : backlog[j] = backlog[k] => j = k
    /\ \A c \in Clients : boot[c] # None => fate[c] = "connecting"
    /\ \A c \in Clients : session[c] # None => fate[c] = "proxied"

\* FdsOwned, said of the entries of fdtab one by one.
CliEnd(c) == [side |-> "cli", of |-> c]
SrvEnd(c) == [side |-> "srv", of |-> c]
Owned ==
    /\ \A c \in Clients : boot[c] = None \/ session[c] = None
    /\ \A c \in Clients : boot[c] # None =>
          fdtab[boot[c].cli] = CliEnd(c) /\ fdtab[boot[c].srv] = SrvEnd(c)
    /\ \A c \in Clients : session[c] # None =>
          fdtab[session[c].cli] = CliEnd(c) /\ fdtab[session[c].srv] = SrvEnd(c)
    /\ \A f \in Fds, c \in Clients :
          /\ fdtab[f] = CliEnd(c) => f = boot[c].cli \/ f = session[c].cli
          /\ fdtab[f] = SrvEnd(c) => f = boot[c].srv \/ f = session[c].srv

\* WatchersMatch, said of the clients one by one.
Watched ==
    /\ \A c \in Clients : c \in io <=> boot[c] # None
    /\ \A c \in Clients :
          c \in io <=> c \in timeout \/ IoOf(c) \in pending \/ TimerOf(c) \in pending

IInv == TypeOK /\ Owned /\ Watched /\ FateTells
-----------------------------------------------------------------------------
\* The two ends of the clients are all different, and none of them is Free.
LEMMA EndsDiffer ==
    ASSUME NEW c, NEW d
    PROVE  /\ CliEnd(c) # SrvEnd(d) /\ CliEnd(c) # Free /\ SrvEnd(c) # Free
           /\ CliEnd(c) = CliEnd(d) => c = d
           /\ SrvEnd(c) = SrvEnd(d) => c = d
<1>1. CliEnd(c).side = "cli" /\ CliEnd(c).of = c /\ CliEnd(d).of = d
  BY DEF CliEnd
<1>2. SrvEnd(c).side = "srv" /\ SrvEnd(c).of = c /\ SrvEnd(d).of = d /\ SrvEnd(d).side = "srv"
  BY DEF SrvEnd
<1>3. Free.side = "free"
  BY DEF Free
<1> QED
  BY <1>1, <1>2, <1>3

\* What an entry of fdtab can be.
LEMMA EntryKinds ==
    ASSUME TypeOK, NEW f \in Fds
    PROVE  fdtab[f] = Free \/ \E c \in Clients : fdtab[f] = CliEnd(c) \/ fdtab[f] = SrvEnd(c)
BY DEF TypeOK, CliEnd, SrvEnd

\* What an object has: two descriptors, or none.
LEMMA ObjectKinds ==
    ASSUME TypeOK, NEW c \in Clients
    PROVE  /\ boot[c] # None => boot[c].cli \in Fds /\ boot[c].srv \in Fds
           /\ session[c] # None => session[c].cli \in Fds /\ session[c].srv \in Fds
           /\ boot[c] = None => boot[c].cli = 0 /\ boot[c].srv = 0
           /\ session[c] = None => session[c].cli = 0 /\ session[c].srv = 0
BY DEF TypeOK, None

\* The two ways of saying who owns the descriptors are the same.
LEMMA OwnedSame == ASSUME TypeOK PROVE FdsOwned <=> Owned
<1> USE BootstrapAssumption
<1>1. ASSUME Owned PROVE FdsOwned
  <2>1. ASSUME NEW f \in Fds \ FreeFds
        PROVE  \E o \in {boot[fdtab[f].of], session[fdtab[f].of]} \ {None} :
                  f = IF fdtab[f].side = "cli" THEN o.cli ELSE o.srv
    <3>1. PICK c \in Clients : fdtab[f] = CliEnd(c) \/ fdtab[f] = SrvEnd(c)
      BY EntryKinds DEF FreeFds
    <3>2. f # 0
      BY DEF Fds
    <3>3. CASE fdtab[f] = CliEnd(c)
      <4>1. fdtab[f].side = "cli" /\ fdtab[f].of = c
        BY <3>3 DEF CliEnd
      <4> QED
        BY <1>1, <3>2, <3>3, <4>1, ObjectKinds DEF Owned
    <3>4. CASE fdtab[f] = SrvEnd(c)
      <4>1. fdtab[f].side = "srv" /\ fdtab[f].of = c
        BY <3>4 DEF SrvEnd
      <4> QED
        BY <1>1, <3>2, <3>4, <4>1, ObjectKinds DEF Owned
    <3> QED
      BY <3>1, <3>3, <3>4
  <2> QED
    BY <1>1, <2>1 DEF FdsOwned, Owned, CliEnd, SrvEnd
<1>2. ASSUME FdsOwned PROVE Owned
  <2>1. ASSUME NEW f \in Fds, NEW c \in Clients, fdtab[f] = CliEnd(c)
        PROVE  f = boot[c].cli \/ f = session[c].cli
    <3>1. fdtab[f].side = "cli" /\ fdtab[f].of = c
      BY <2>1 DEF CliEnd
    <3>2. f \in Fds \ FreeFds
      BY <2>1, EndsDiffer DEF FreeFds
    <3> QED
      BY <1>2, <3>1, <3>2 DEF FdsOwned
  <2>2. ASSUME NEW f \in Fds, NEW c \in Clients, fdtab[f] = SrvEnd(c)
        PROVE  f = boot[c].srv \/ f = session[c].srv
    <3>1. fdtab[f].side = "srv" /\ fdtab[f].of = c
      BY <2>2 DEF SrvEnd
    <3>2. f \in Fds \ FreeFds
      BY <2>2, EndsDiffer DEF FreeFds
    <3> QED
      BY <1>2, <3>1, <3>2 DEF FdsOwned
  <2> QED
    BY <1>2, <2>1, <2>2, ZenonT(60) DEF FdsOwned, Owned, CliEnd, SrvEnd
<1> QED
  BY <1>1, <1>2

\* The kernel opens a descriptor that is free.
LEMMA LowestFree ==
    ASSUME NEW free, free \subseteq Fds
    PROVE  free # {} => Lowest(free) \in free
<1>1. free \subseteq Nat
  BY BootstrapAssumption DEF Fds
<1> QED
  BY <1>1, NatMin DEF Lowest

\* The callbacks of the clients are all different.
LEMMA CallbacksDiffer ==
    ASSUME NEW c, NEW d
    PROVE  /\ IoOf(c) # TimerOf(d) /\ IoOf(c) # Listen /\ TimerOf(c) # Listen
           /\ IoOf(c) = IoOf(d) => c = d
           /\ TimerOf(c) = TimerOf(d) => c = d
<1>1. IoOf(c).what = "io" /\ IoOf(c).of = c /\ IoOf(d).of = d
  BY DEF IoOf
<1>2. TimerOf(c).what = "timer" /\ TimerOf(c).of = c /\ TimerOf(d).of = d /\ TimerOf(d).what = "timer"
  BY DEF TimerOf
<1>3. Listen.what = "listen"
  BY DEF Listen
<1> QED
  BY <1>1, <1>2, <1>3

\* The two ways of saying that the watchers match are the same.
LEMMA WatchedSame == ASSUME TypeOK PROVE WatchersMatch <=> Watched
<1> DEFINE called == {p.of : p \in pending \ {Listen}}
<1>1. \A c \in Clients : c \in called <=> IoOf(c) \in pending \/ TimerOf(c) \in pending
  <2> TAKE c \in Clients
  <2>1. ASSUME c \in called PROVE IoOf(c) \in pending \/ TimerOf(c) \in pending
    <3>1. PICK p \in pending \ {Listen} : p.of = c
      BY <2>1
    <3>2. p \in [what : {"io", "timer"}, of : Clients]
      BY DEF TypeOK
    <3> QED
      BY <3>1, <3>2 DEF IoOf, TimerOf
  <2>2. ASSUME IoOf(c) \in pending PROVE c \in called
    <3>1. IoOf(c).of = c
      BY DEF IoOf
    <3> QED
      BY <2>2, <3>1, CallbacksDiffer
  <2>3. ASSUME TimerOf(c) \in pending PROVE c \in called
    <3>1. TimerOf(c).of = c
      BY DEF TimerOf
    <3> QED
      BY <2>3, <3>1, CallbacksDiffer
  <2> QED
    BY <2>1, <2>2, <2>3
<1>2. called \subseteq Clients
  BY DEF TypeOK
<1>3. io \subseteq Clients /\ timeout \subseteq Clients
  BY DEF TypeOK
<1>4. WatchersMatch <=>
        /\ io = {c \in Clients : boot[c] # None}
        /\ timeout \cup called \subseteq io
        /\ io \subseteq timeout \cup called
  BY DEF WatchersMatch
<1> HIDE DEF called
<1> QED
  BY <1>1, <1>2, <1>3, <1>4 DEF Watched
-----------------------------------------------------------------------------
LEMMA InitIInv == Init => IInv
<1> SUFFICES ASSUME Init PROVE IInv
  OBVIOUS
<1>1. TypeOK
  BY DEF Init, TypeOK
<1>2. Owned
  BY EndsDiffer DEF Init, Owned
<1>3. Watched /\ FateTells
  BY DEF Init, Watched, FateTells
<1> QED
  BY <1>1, <1>2, <1>3 DEF IInv

\* The clients, the server, time and libev: no descriptor is opened or closed.
LEMMA ArriveIInv == ASSUME IInv, NEW c \in Clients, Arrive(c) PROVE IInv'
<1>1. TypeOK'
  BY DEF IInv, TypeOK, Arrive
<1>2. Owned' /\ Watched'
  BY DEF IInv, Owned, Watched, Arrive
<1>3. FateTells'
  <2>1. backlog \in Seq(Clients) /\ fate[c] = "new" /\ fate' = [fate EXCEPT ![c] = "waiting"]
        /\ backlog' = Append(backlog, c) /\ fate \in [Clients -> {"new", "waiting", "connecting", "proxied", "dropped", "ended"}]
    BY DEF IInv, TypeOK, Arrive
  <2>2. \A j \in 1 .. Len(backlog) : backlog[j] # c
    BY <2>1 DEF IInv, FateTells
  <2>3. /\ Len(backlog') = Len(backlog) + 1 /\ backlog'[Len(backlog) + 1] = c
        /\ \A j \in 1 .. Len(backlog) : backlog'[j] = backlog[j]
    BY <2>1
  <2>4. \A j \in 1 .. Len(backlog') : fate'[backlog'[j]] = "waiting"
    BY <2>1, <2>2, <2>3 DEF IInv, FateTells
  <2>5. \A j, k \in 1 .. Len(backlog') : backlog'[j] = backlog'[k] => j = k
    BY <2>1, <2>2, <2>3 DEF IInv, FateTells
  <2>6. \A d \in Clients : (boot'[d] # None => fate'[d] = "connecting")
                           /\ (session'[d] # None => fate'[d] = "proxied")
    BY <2>1 DEF IInv, FateTells, Arrive
  <2> QED
    BY <2>4, <2>5, <2>6 DEF FateTells
<1> QED
  BY <1>1, <1>2, <1>3 DEF IInv

LEMMA OutsideIInv ==
    ASSUME IInv, NEW c \in Clients, Answer(c) \/ TimeIsUp(c)
    PROVE  IInv'
<1>1. TypeOK'
  BY DEF IInv, TypeOK, Answer, TimeIsUp
<1>2. Owned' /\ Watched' /\ FateTells'
  BY DEF IInv, Owned, Watched, FateTells, Answer, TimeIsUp
<1> QED
  BY <1>1, <1>2 DEF IInv

\* Every timer that is due is called in the round that finds it due.
LEMMA PollIInv == ASSUME IInv, Poll PROVE IInv'
<1>1. TypeOK'
  BY DEF IInv, TypeOK, Poll, IoOf, TimerOf
<1>2. Owned' /\ FateTells'
  BY DEF IInv, Owned, FateTells, Poll
<1>3. Watched'
  <2>1. \A c \in Clients : /\ IoOf(c) \in pending' <=> c \in io /\ answer[c] # "begun"
                           /\ TimerOf(c) \in pending' <=> c \in due
    BY CallbacksDiffer DEF Poll
  <2> QED
    BY <2>1 DEF Watched, IInv, TypeOK, Poll
<1> QED
  BY <1>1, <1>2, <1>3 DEF IInv

LEMMA ListenIInv == ASSUME IInv, cli_connect_cb \/ AcceptFails PROVE IInv'
<1>1. TypeOK'
  BY DEF IInv, TypeOK, cli_connect_cb, AcceptFails
<1>2. Owned' /\ FateTells'
  BY DEF IInv, Owned, FateTells, cli_connect_cb, AcceptFails
<1>3. Watched'
  BY CallbacksDiffer DEF IInv, Watched, cli_connect_cb, AcceptFails
<1> QED
  BY <1>1, <1>2, <1>3 DEF IInv

\* What was opened for a client and is closed again leaves the table as it was.
LEMMA OpenedAndClosed ==
    ASSUME TypeOK, NEW c, NEW p, NEW cli, NEW srv,
           p.cli = cli, p.srv = srv,
           \A f \in Fds : f = cli \/ f = srv => fdtab[f] = Free
    PROVE  Closed(Opened(p, c), p) = fdtab
<1>1. fdtab = [f \in Fds |-> fdtab[f]]
  BY DEF TypeOK
<1>2. \A f \in Fds : /\ f = cli \/ f = srv => fdtab[f] = Free
                     /\ f # cli /\ f # srv => Opened(p, c)[f] = fdtab[f]
  BY DEF Opened
<1> QED
  BY <1>1, <1>2 DEF Closed

\* A client is accepted, and dropped, given a bootstrap, or given a session.
LEMMA AcceptIInv == ASSUME IInv, Accept PROVE IInv'
<1> DEFINE c == Head(backlog)
           cli == Lowest(FreeFds)
           srv == Lowest(FreeFds \ {cli})
           o == [cli |-> cli, srv |-> srv]
<1>1. /\ c \in Clients /\ fate[c] = "waiting" /\ boot[c] = None /\ session[c] = None
      /\ backlog' = Tail(backlog)
  <2>1. backlog \in Seq(Clients) /\ backlog # <<>> /\ backlog' = Tail(backlog)
    BY DEF IInv, TypeOK, Accept
  <2>2. c = backlog[1] /\ c \in Clients /\ 1 \in 1 .. Len(backlog)
    BY <2>1
  <2> QED
    BY <2>1, <2>2 DEF IInv, FateTells
<1>2. /\ backlog' \in Seq(Clients)
      /\ \A j \in 1 .. Len(backlog') : fate[backlog'[j]] = "waiting" /\ backlog'[j] # c
      /\ \A j, k \in 1 .. Len(backlog') : backlog'[j] = backlog'[k] => j = k
  <2>1. backlog \in Seq(Clients) /\ backlog # <<>>
    BY DEF IInv, TypeOK, Accept
  <2>2. /\ backlog' \in Seq(Clients) /\ Len(backlog') = Len(backlog) - 1
        /\ \A j \in 1 .. Len(backlog') : backlog'[j] = backlog[j + 1]
        /\ Len(backlog) \in Nat \ {0} /\ c = backlog[1]
    BY <1>1, <2>1
  <2>3. \A j \in 1 .. Len(backlog') : j + 1 \in 1 .. Len(backlog) /\ j + 1 # 1
    BY <2>2
  <2>4. 1 \in 1 .. Len(backlog)
    BY <2>2
  <2>5. \A j \in 1 .. Len(backlog') : fate[backlog'[j]] = "waiting" /\ backlog'[j] # c
    BY <2>2, <2>3, <2>4 DEF IInv, FateTells
  <2>6. \A j, k \in 1 .. Len(backlog') : backlog'[j] = backlog'[k] => j = k
    BY <2>2, <2>3 DEF IInv, FateTells
  <2> QED
    BY <2>2, <2>5, <2>6
<1>3. cli \in Fds /\ fdtab[cli] = Free
  <2>1. FreeFds \subseteq Fds /\ FreeFds # {}
    BY DEF FreeFds, Accept
  <2>2. cli \in FreeFds
    BY <2>1, LowestFree
  <2> QED
    BY <2>2 DEF FreeFds
<1>4. srv = -1 \/ (srv \in Fds /\ fdtab[srv] = Free /\ srv # cli)
  <2> DEFINE rest == FreeFds \ {cli}
  <2>1. rest \subseteq Fds
    BY DEF FreeFds
  <2> HIDE DEF rest
  <2>2. rest = {} => Lowest(rest) = -1
    BY DEF Lowest
  <2>3. rest # {} => Lowest(rest) \in rest
    BY <2>1, LowestFree
  <2>4. \A f \in rest : f \in Fds /\ fdtab[f] = Free /\ f # cli
    BY DEF FreeFds, rest
  <2>5. srv = Lowest(rest)
    BY DEF rest
  <2> HIDE DEF cli, srv
  <2> QED
    BY <2>2, <2>3, <2>4, <2>5
<1>5. CASE /\ fate' = [fate EXCEPT ![c] = "dropped"]
           /\ \E p \in {o, [o EXCEPT !.srv = -1]} : fdtab' = Closed(Opened(p, c), p)
           /\ UNCHANGED <<answer, boot, session, io, timeout>>
  <2>1. UNCHANGED <<fdtab, due, pending, phase>>
    <3>1. PICK p \in {o, [o EXCEPT !.srv = -1]} : fdtab' = Closed(Opened(p, c), p)
      BY <1>5
    <3>2. p.cli = cli /\ p.srv \in {srv, -1}
      OBVIOUS
    <3>3. -1 \notin Fds
      BY BootstrapAssumption DEF Fds
    <3> HIDE DEF c, cli, srv, o
    <3>4. fdtab' = fdtab
      BY <1>3, <1>4, <3>1, <3>2, <3>3, OpenedAndClosed DEF IInv
    <3> QED
      BY <3>4 DEF Accept
  <2>2. TypeOK'
    BY <1>1, <1>2, <1>5, <2>1 DEF IInv, TypeOK
  <2>3. Owned' /\ Watched'
    BY <1>5, <2>1 DEF IInv, Owned, Watched
  <2>4. FateTells'
    BY <1>1, <1>2, <1>5 DEF IInv, TypeOK, FateTells
  <2> QED
    BY <2>2, <2>3, <2>4 DEF IInv
<1>6. CASE /\ Usable(srv)
           /\ fdtab' = Opened(o, c)
           /\ \/ /\ answer' = [answer EXCEPT ![c] = "begun"]
                 /\ boot' = [boot EXCEPT ![c] = o]
                 /\ io' = io \cup {c} /\ timeout' = timeout \cup {c}
                 /\ fate' = [fate EXCEPT ![c] = "connecting"]
                 /\ UNCHANGED session
              \/ /\ answer' = [answer EXCEPT ![c] = "made"]
                 /\ session' = [session EXCEPT ![c] = o]
                 /\ fate' = [fate EXCEPT ![c] = "proxied"]
                 /\ UNCHANGED <<boot, io, timeout>>
  <2> HIDE DEF c, cli, srv
  <2>1. UNCHANGED <<due, pending, phase>>
    BY DEF Accept
  <2>2. srv \in Fds /\ fdtab[srv] = Free /\ srv # cli
    BY <1>4, <1>6 DEF Usable
  <2>3. /\ o.cli = cli /\ o.srv = srv /\ o # None /\ o \in [cli : Fds, srv : Fds]
    BY <1>3, <2>2, BootstrapAssumption DEF None, Fds
  <2>4. /\ fdtab' \in [Fds -> [side : {"cli", "srv"}, of : Clients] \cup {Free}]
        /\ fdtab'[cli] = CliEnd(c) /\ fdtab'[srv] = SrvEnd(c)
        /\ \A f \in Fds \ {cli, srv} : fdtab'[f] = fdtab[f]
    BY <1>1, <1>3, <1>6, <2>2, <2>3 DEF Opened, CliEnd, SrvEnd, IInv, TypeOK
  <2> HIDE DEF o
  <2>5. TypeOK'
    <3>1. /\ boot' \in [Clients -> [cli : Fds, srv : Fds] \cup {None}]
          /\ session' \in [Clients -> [cli : Fds, srv : Fds] \cup {None}]
      BY <1>1, <1>6, <2>3 DEF IInv, TypeOK
    <3>2. /\ answer' \in [Clients -> {"none", "begun", "made", "failed"}]
          /\ fate' \in [Clients -> {"new", "waiting", "connecting", "proxied", "dropped", "ended"}]
      BY <1>1, <1>6 DEF IInv, TypeOK
    <3>3. io' \subseteq Clients /\ timeout' \subseteq Clients /\ due' \subseteq timeout'
      BY <1>1, <1>6, <2>1 DEF IInv, TypeOK
    <3>4. /\ pending' \subseteq [what : {"io", "timer"}, of : Clients] \cup {Listen}
          /\ phase' \in {"loop", "accept"}
      BY <2>1 DEF IInv, TypeOK
    <3> QED
      BY ONLY <1>2, <2>4, <3>1, <3>2, <3>3, <3>4 DEF TypeOK
  <2>6. Owned'
    <3>1. \A d \in Clients : boot[d] # None =>
             {boot[d].cli, boot[d].srv} \subseteq Fds \ {cli, srv}
      BY <1>3, <2>2, ObjectKinds, EndsDiffer DEF IInv, Owned
    <3>2. \A d \in Clients : session[d] # None =>
             {session[d].cli, session[d].srv} \subseteq Fds \ {cli, srv}
      BY <1>3, <2>2, ObjectKinds, EndsDiffer DEF IInv, Owned
    <3>3. CASE boot' = [boot EXCEPT ![c] = o] /\ UNCHANGED session
      <4>1. boot'[c] = o /\ \A d \in Clients \ {c} : boot'[d] = boot[d]
        BY <1>1, <3>3 DEF IInv, TypeOK
      <4>2. \A d \in Clients : boot'[d] # None =>
              fdtab'[boot'[d].cli] = CliEnd(d) /\ fdtab'[boot'[d].srv] = SrvEnd(d)
        BY <2>3, <2>4, <3>1, <4>1 DEF IInv, Owned
      <4>3. \A d \in Clients : session'[d] # None =>
              fdtab'[session'[d].cli] = CliEnd(d) /\ fdtab'[session'[d].srv] = SrvEnd(d)
        BY <2>4, <3>2, <3>3 DEF IInv, Owned
      <4>4. \A f \in Fds, d \in Clients :
              /\ fdtab'[f] = CliEnd(d) => f = boot'[d].cli \/ f = session'[d].cli
              /\ fdtab'[f] = SrvEnd(d) => f = boot'[d].srv \/ f = session'[d].srv
        BY <1>1, <2>3, <2>4, <3>3, <4>1, EndsDiffer, ObjectKinds, BootstrapAssumption, SMTT(60)
           DEF IInv, Owned, Fds
      <4> QED
        BY <1>1, <3>3, <4>1, <4>2, <4>3, <4>4 DEF IInv, Owned
    <3>4. CASE session' = [session EXCEPT ![c] = o] /\ UNCHANGED boot
      <4>1. session'[c] = o /\ \A d \in Clients \ {c} : session'[d] = session[d]
        BY <1>1, <3>4 DEF IInv, TypeOK
      <4>2. \A d \in Clients : session'[d] # None =>
              fdtab'[session'[d].cli] = CliEnd(d) /\ fdtab'[session'[d].srv] = SrvEnd(d)
        BY <2>3, <2>4, <3>2, <4>1 DEF IInv, Owned
      <4>3. \A d \in Clients : boot'[d] # None =>
              fdtab'[boot'[d].cli] = CliEnd(d) /\ fdtab'[boot'[d].srv] = SrvEnd(d)
        BY <2>4, <3>1, <3>4 DEF IInv, Owned
      <4>4. \A f \in Fds, d \in Clients :
              /\ fdtab'[f] = CliEnd(d) => f = boot'[d].cli \/ f = session'[d].cli
              /\ fdtab'[f] = SrvEnd(d) => f = boot'[d].srv \/ f = session'[d].srv
        BY <1>1, <2>3, <2>4, <3>4, <4>1, EndsDiffer, ObjectKinds, BootstrapAssumption, SMTT(60)
           DEF IInv, Owned, Fds
      <4> QED
        BY <1>1, <3>4, <4>1, <4>2, <4>3, <4>4 DEF IInv, Owned
    <3> QED
      BY <1>6, <3>3, <3>4
  <2>7. Watched'
    <3>1. CASE /\ boot' = [boot EXCEPT ![c] = o]
               /\ io' = io \cup {c} /\ timeout' = timeout \cup {c}
      <4>1. \A d \in Clients : boot'[d] = IF d = c THEN o ELSE boot[d]
        BY <3>1 DEF IInv, TypeOK
      <4> QED
        BY <1>1, <2>1, <2>3, <3>1, <4>1 DEF IInv, Watched
    <3>2. CASE UNCHANGED <<boot, io, timeout>>
      BY <2>1, <3>2 DEF IInv, Watched
    <3> QED
      BY <1>6, <3>1, <3>2
  <2>8. FateTells'
    <3>1. \A d \in Clients \ {c} : /\ fate'[d] = fate[d] /\ boot'[d] = boot[d]
                                   /\ session'[d] = session[d]
      BY <1>1, <1>6 DEF IInv, TypeOK
    <3>2. /\ boot'[c] # None => fate'[c] = "connecting"
          /\ session'[c] # None => fate'[c] = "proxied"
      BY <1>1, <1>6 DEF IInv, TypeOK
    <3>3. \A j \in 1 .. Len(backlog') : backlog'[j] \in Clients
      BY <1>2
    <3> QED
      BY <1>2, <3>1, <3>2, <3>3 DEF IInv, FateTells
  <2> QED
    BY <2>5, <2>6, <2>7, <2>8 DEF IInv
<1> QED
  BY <1>5, <1>6 DEF Accept

\* A bootstrap is deleted: its watchers are stopped and nothing is pending for it.
LEMMA DeleteWatched ==
    ASSUME IInv, NEW c \in Clients, Delete(c)
    PROVE  /\ Watched'
           /\ boot'[c] = None /\ \A d \in Clients \ {c} : boot'[d] = boot[d]
           /\ boot' \in [Clients -> [cli : Fds, srv : Fds] \cup {None}]
           /\ io' \subseteq Clients /\ timeout' \subseteq Clients /\ due' \subseteq timeout'
           /\ pending' \subseteq [what : {"io", "timer"}, of : Clients] \cup {Listen}
<1>1. /\ pending' = pending \ {IoOf(c), TimerOf(c)} /\ io' = io \ {c}
      /\ timeout' = timeout \ {c} /\ due' = due \cap timeout'
      /\ boot' = [boot EXCEPT ![c] = None]
  BY DEF Delete, Stopped
<1>2. /\ boot'[c] = None /\ \A d \in Clients \ {c} : boot'[d] = boot[d]
      /\ boot' \in [Clients -> [cli : Fds, srv : Fds] \cup {None}]
  BY <1>1 DEF IInv, TypeOK
<1>3. Watched'
  BY <1>1, <1>2, CallbacksDiffer DEF IInv, Watched
<1> QED
  BY <1>1, <1>2, <1>3 DEF IInv, TypeOK

\* The descriptors of the object o of client c are closed and it is forgotten.
LEMMA CloseOwned ==
    ASSUME IInv, NEW c \in Clients, NEW o \in {boot[c], session[c]}, o # None,
           fdtab' = Closed(fdtab, o),
           boot'[c] = None, session'[c] = None,
           \A d \in Clients \ {c} : boot'[d] = boot[d] /\ session'[d] = session[d]
    PROVE  Owned' /\ fdtab' \in [Fds -> [side : {"cli", "srv"}, of : Clients] \cup {Free}]
<1>1. o.cli \in Fds /\ o.srv \in Fds /\ fdtab[o.cli] = CliEnd(c) /\ fdtab[o.srv] = SrvEnd(c)
  BY ObjectKinds DEF IInv, Owned
<1>2. /\ fdtab' \in [Fds -> [side : {"cli", "srv"}, of : Clients] \cup {Free}]
      /\ \A f \in Fds : fdtab'[f] = IF f = o.cli \/ f = o.srv THEN Free ELSE fdtab[f]
  BY DEF Closed, IInv, TypeOK
<1>3. \A f \in Fds : fdtab[f] = CliEnd(c) \/ fdtab[f] = SrvEnd(c) => f = o.cli \/ f = o.srv
  BY ObjectKinds, BootstrapAssumption DEF IInv, Owned, Fds
<1>4. \A f \in Fds, d \in Clients :
        /\ fdtab'[f] = CliEnd(d) => f = boot'[d].cli \/ f = session'[d].cli
        /\ fdtab'[f] = SrvEnd(d) => f = boot'[d].srv \/ f = session'[d].srv
  BY <1>2, <1>3, EndsDiffer DEF IInv, Owned
<1>5. \A d \in Clients : boot'[d] # None =>
        fdtab'[boot'[d].cli] = CliEnd(d) /\ fdtab'[boot'[d].srv] = SrvEnd(d)
  <2> SUFFICES ASSUME NEW d \in Clients, boot'[d] # None
               PROVE  fdtab'[boot'[d].cli] = CliEnd(d) /\ fdtab'[boot'[d].srv] = SrvEnd(d)
    OBVIOUS
  <2>1. d # c /\ boot'[d] = boot[d]
    OBVIOUS
  <2>2. fdtab[boot[d].cli] = CliEnd(d) /\ fdtab[boot[d].srv] = SrvEnd(d)
    BY <2>1 DEF IInv, Owned
  <2>3. boot[d].cli \in Fds \ {o.cli, o.srv} /\ boot[d].srv \in Fds \ {o.cli, o.srv}
    BY <1>1, <2>1, <2>2, EndsDiffer, ObjectKinds DEF IInv
  <2> QED
    BY <1>2, <2>1, <2>2, <2>3
<1>6. \A d \in Clients : session'[d] # None =>
        fdtab'[session'[d].cli] = CliEnd(d) /\ fdtab'[session'[d].srv] = SrvEnd(d)
  <2> SUFFICES ASSUME NEW d \in Clients, session'[d] # None
               PROVE  fdtab'[session'[d].cli] = CliEnd(d) /\ fdtab'[session'[d].srv] = SrvEnd(d)
    OBVIOUS
  <2>1. d # c /\ session'[d] = session[d]
    OBVIOUS
  <2>2. fdtab[session[d].cli] = CliEnd(d) /\ fdtab[session[d].srv] = SrvEnd(d)
    BY <2>1 DEF IInv, Owned
  <2>3. session[d].cli \in Fds \ {o.cli, o.srv} /\ session[d].srv \in Fds \ {o.cli, o.srv}
    BY <1>1, <2>1, <2>2, EndsDiffer, ObjectKinds DEF IInv
  <2> QED
    BY <1>2, <2>1, <2>2, <2>3
<1>7. \A d \in Clients : boot'[d] = None \/ session'[d] = None
  BY DEF IInv, Owned
<1> QED
  BY <1>2, <1>4, <1>5, <1>6, <1>7 DEF Owned

\* The fate of the one client that a callback decides about is told by its objects.
LEMMA FateDecided ==
    ASSUME IInv, NEW c \in Clients, NEW what, fate[c] # "waiting",
           fate' = [fate EXCEPT ![c] = what], UNCHANGED backlog,
           boot'[c] = None, session'[c] # None => what = "proxied",
           \A d \in Clients \ {c} : boot'[d] = boot[d] /\ session'[d] = session[d]
    PROVE  FateTells'
<1>1. fate'[c] = what /\ \A d \in Clients \ {c} : fate'[d] = fate[d]
  BY DEF IInv, TypeOK
<1>2. \A j \in 1 .. Len(backlog) : backlog[j] \in Clients \ {c}
  BY DEF IInv, TypeOK, FateTells
<1> QED
  BY <1>1, <1>2 DEF IInv, FateTells

LEMMA IoIInv == ASSUME IInv, NEW c \in Clients, io_cb(c) PROVE IInv'
<1>1. /\ boot[c] # None /\ session[c] = None /\ fate[c] = "connecting"
      /\ boot[c] \in [cli : Fds, srv : Fds]
  BY DEF IInv, TypeOK, Watched, Owned, FateTells, io_cb
<1>2. Delete(c) /\ UNCHANGED <<backlog, answer, phase>>
  BY DEF io_cb
<1>3. CASE /\ session' = [session EXCEPT ![c] = boot[c]]
           /\ fate' = [fate EXCEPT ![c] = "proxied"]
           /\ UNCHANGED fdtab
  <2>1. /\ session'[c] = boot[c] /\ \A d \in Clients \ {c} : session'[d] = session[d]
        /\ session' \in [Clients -> [cli : Fds, srv : Fds] \cup {None}]
    BY <1>1, <1>3 DEF IInv, TypeOK
  <2>2. TypeOK'
    <3>1. fate' \in [Clients -> {"new", "waiting", "connecting", "proxied", "dropped", "ended"}]
      BY <1>3 DEF IInv, TypeOK
    <3> QED
      BY <1>2, <1>3, <2>1, <3>1, DeleteWatched DEF IInv, TypeOK
  <2>3. Owned'
    <3>1. \A d \in Clients : boot'[d] = None \/ session'[d] = None
      BY <1>2, <2>1, DeleteWatched DEF IInv, Owned
    <3>2. \A d \in Clients : session'[d] # None =>
            fdtab'[session'[d].cli] = CliEnd(d) /\ fdtab'[session'[d].srv] = SrvEnd(d)
      BY <1>1, <1>3, <2>1 DEF IInv, Owned
    <3>3. \A d \in Clients : boot'[d] # None =>
            fdtab'[boot'[d].cli] = CliEnd(d) /\ fdtab'[boot'[d].srv] = SrvEnd(d)
      BY <1>2, <1>3, DeleteWatched DEF IInv, Owned
    <3>4. \A f \in Fds, d \in Clients :
            /\ fdtab'[f] = CliEnd(d) => f = boot'[d].cli \/ f = session'[d].cli
            /\ fdtab'[f] = SrvEnd(d) => f = boot'[d].srv \/ f = session'[d].srv
      BY <1>1, <1>2, <1>3, <2>1, DeleteWatched, ObjectKinds, BootstrapAssumption
         DEF IInv, Owned, Fds
    <3> QED
      BY <3>1, <3>2, <3>3, <3>4 DEF Owned
  <2>4. FateTells'
    BY <1>1, <1>2, <1>3, <2>1, DeleteWatched, FateDecided
  <2> QED
    BY <1>2, <2>2, <2>3, <2>4, DeleteWatched DEF IInv
<1>4. CASE /\ fdtab' = Closed(fdtab, boot[c])
           /\ fate' = [fate EXCEPT ![c] = "dropped"]
           /\ UNCHANGED session
  <2>1. /\ boot'[c] = None /\ session'[c] = None
        /\ \A d \in Clients \ {c} : boot'[d] = boot[d] /\ session'[d] = session[d]
    BY <1>1, <1>2, <1>4, DeleteWatched
  <2>2. Owned' /\ fdtab' \in [Fds -> [side : {"cli", "srv"}, of : Clients] \cup {Free}]
    BY <1>1, <1>4, <2>1, CloseOwned
  <2>3. FateTells'
    BY <1>1, <1>2, <1>4, <2>1, FateDecided
  <2>4. TypeOK'
    <3>1. fate' \in [Clients -> {"new", "waiting", "connecting", "proxied", "dropped", "ended"}]
      BY <1>4 DEF IInv, TypeOK
    <3> QED
      BY <1>2, <1>4, <2>2, <3>1, DeleteWatched DEF IInv, TypeOK
  <2> QED
    BY <1>2, <2>2, <2>3, <2>4, DeleteWatched DEF IInv
<1> QED
  BY <1>3, <1>4 DEF io_cb

\* A timeout gives the client up, unless its answer is pending.
LEMMA TimerIInv == ASSUME IInv, NEW c \in Clients, tmr_cb(c) PROVE IInv'
<1>1. /\ boot[c] # None /\ session[c] = None /\ fate[c] = "connecting"
      /\ c \in io
  BY DEF IInv, TypeOK, Watched, Owned, FateTells, tmr_cb
<1>2. UNCHANGED <<backlog, answer, session, phase>>
  BY DEF tmr_cb
<1>3. CASE /\ Answered(c)
           /\ pending' = pending \ {TimerOf(c)}
           /\ UNCHANGED <<fdtab, boot, io, timeout, due, fate>>
  <2>1. TypeOK'
    BY <1>2, <1>3 DEF IInv, TypeOK
  <2>2. Owned' /\ FateTells'
    BY <1>2, <1>3 DEF IInv, Owned, FateTells
  <2>3. Watched'
    BY <1>1, <1>3, CallbacksDiffer DEF IInv, Watched, Answered
  <2> QED
    BY <2>1, <2>2, <2>3 DEF IInv
<1>4. CASE /\ Delete(c)
           /\ fdtab' = Closed(fdtab, boot[c])
           /\ fate' = [fate EXCEPT ![c] = "dropped"]
  <2>1. /\ boot'[c] = None /\ session'[c] = None
        /\ \A d \in Clients \ {c} : boot'[d] = boot[d] /\ session'[d] = session[d]
    BY <1>1, <1>2, <1>4, DeleteWatched
  <2>2. Owned' /\ fdtab' \in [Fds -> [side : {"cli", "srv"}, of : Clients] \cup {Free}]
    BY <1>1, <1>4, <2>1, CloseOwned
  <2>3. FateTells'
    BY <1>1, <1>2, <1>4, <2>1, FateDecided
  <2>4. TypeOK'
    <3>1. fate' \in [Clients -> {"new", "waiting", "connecting", "proxied", "dropped", "ended"}]
      BY <1>4 DEF IInv, TypeOK
    <3> QED
      BY <1>2, <1>4, <2>2, <3>1, DeleteWatched DEF IInv, TypeOK
  <2> QED
    BY <1>4, <2>2, <2>3, <2>4, DeleteWatched DEF IInv
<1> QED
  BY <1>3, <1>4 DEF tmr_cb

LEMMA EndIInv == ASSUME IInv, NEW c \in Clients, EndSession(c) PROVE IInv'
<1>1. /\ session[c] # None /\ boot[c] = None /\ fate[c] = "proxied"
      /\ fdtab' = Closed(fdtab, session[c])
      /\ fate' = [fate EXCEPT ![c] = "ended"]
      /\ session' = [session EXCEPT ![c] = None]
      /\ UNCHANGED <<backlog, answer, boot, io, timeout, due, pending, phase>>
  BY DEF IInv, Owned, FateTells, EndSession
<1>2. /\ boot'[c] = None /\ session'[c] = None
      /\ \A d \in Clients \ {c} : boot'[d] = boot[d] /\ session'[d] = session[d]
      /\ session' \in [Clients -> [cli : Fds, srv : Fds] \cup {None}]
  BY <1>1 DEF IInv, TypeOK
<1>3. Owned' /\ fdtab' \in [Fds -> [side : {"cli", "srv"}, of : Clients] \cup {Free}]
  BY <1>1, <1>2, CloseOwned
<1>4. FateTells'
  BY <1>1, <1>2, FateDecided
<1>5. TypeOK'
  <2>1. fate' \in [Clients -> {"new", "waiting", "connecting", "proxied", "dropped", "ended"}]
    BY <1>1 DEF IInv, TypeOK
  <2> QED
    BY <1>1, <1>2, <1>3, <2>1 DEF IInv, TypeOK
<1>6. Watched'
  BY <1>1 DEF IInv, Watched
<1> QED
  BY <1>3, <1>4, <1>5, <1>6 DEF IInv

LEMMA NextIInv == IInv /\ [Next]_vars => IInv'
<1> SUFFICES ASSUME IInv, [Next]_vars PROVE IInv'
  OBVIOUS
<1>1. CASE UNCHANGED vars
  BY <1>1 DEF vars, IInv, TypeOK, Owned, Watched, FateTells
<1>2. CASE Next
  BY <1>2, ArriveIInv, OutsideIInv, PollIInv, ListenIInv, AcceptIInv, IoIInv, TimerIInv, EndIInv
     DEF Next, Loop
<1> QED
  BY <1>1, <1>2

LEMMA SpecIInv == Spec => []IInv
BY InitIInv, NextIInv, PTL DEF Spec
-----------------------------------------------------------------------------
\* Every open descriptor has exactly one owner and every owner its descriptors,
\* however descriptor numbers are used again and whatever order answers,
\* timeouts and new clients come in.
THEOREM SpecFdsOwned == Spec => []FdsOwned
<1>1. IInv => FdsOwned
  BY OwnedSame DEF IInv
<1> QED
  BY <1>1, SpecIInv, PTL

\* The watchers, and what libev has pending, are those of the bootstraps that exist.
THEOREM SpecWatchersMatch == Spec => []WatchersMatch
<1>1. IInv => WatchersMatch
  BY WatchedSame DEF IInv
<1> QED
  BY <1>1, SpecIInv, PTL

\* No step drops a client whose server had answered when libev looked.
THEOREM SpecAnswerWins == Spec => AnswerWins
<1> DEFINE Wins == \A c \in Clients : boot[c] # None /\ answer[c] = "made" /\ IoOf(c) \in pending
                                      => fate'[c] # "dropped"
<1>1. ASSUME IInv, [Next]_vars PROVE [Wins]_vars
  <2> SUFFICES ASSUME Next, NEW c \in Clients,
                      boot[c] # None, answer[c] = "made", IoOf(c) \in pending
               PROVE  fate'[c] # "dropped"
    BY <1>1
  <2>1. fate[c] = "connecting" /\ fate \in [Clients -> {"new", "waiting", "connecting", "proxied", "dropped", "ended"}]
    BY <1>1 DEF IInv, FateTells, TypeOK
  <2>2. ASSUME NEW d \in Clients, NEW what, fate' = [fate EXCEPT ![d] = what],
               d # c \/ what # "dropped"
        PROVE  fate'[c] # "dropped"
    BY <2>1, <2>2
  <2>3. ASSUME NEW d \in Clients, io_cb(d) \/ tmr_cb(d)
        PROVE  fate'[c] # "dropped"
    BY <2>1, <2>2, <2>3 DEF io_cb, tmr_cb, Answered
  <2>4. CASE Accept
    <3>1. backlog \in Seq(Clients) /\ backlog # <<>>
      BY <1>1, <2>4 DEF IInv, TypeOK, Accept
    <3>2. Head(backlog) \in Clients /\ Head(backlog) = backlog[1] /\ 1 \in 1 .. Len(backlog)
      BY <3>1
    <3>3. Head(backlog) # c
      BY <1>1, <2>1, <3>2 DEF IInv, FateTells
    <3> QED
      BY <2>2, <2>4, <3>2, <3>3 DEF Accept
  <2>5. CASE Poll \/ cli_connect_cb \/ AcceptFails
    BY <2>1, <2>5 DEF Poll, cli_connect_cb, AcceptFails
  <2>6. ASSUME NEW d \in Clients, Arrive(d) \/ Answer(d) \/ TimeIsUp(d) \/ EndSession(d)
        PROVE  fate'[c] # "dropped"
    BY <2>1, <2>2, <2>6 DEF Arrive, Answer, TimeIsUp, EndSession
  <2> QED
    BY <2>3, <2>4, <2>5, <2>6 DEF Next, Loop
<1> QED
  BY <1>1, SpecIInv, PTL DEF Spec, AnswerWins
=============================================================================
