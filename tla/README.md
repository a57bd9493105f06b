# rfx: specifications and proofs

`proxy` is a man-in-the-middle for the RF Online protocol. It accepts clients, connects each one to the game server,
cuts both byte streams into packets, sends every packet through a chain of plugin filters, which may drop it or inject
others, and passes the result on. It is one single-threaded process around a libev event loop; everything that is hard
about it comes from non-blocking sockets, from the order in which callbacks, peers and files move, and from plugins
that are replaced while sessions run.

This directory models that program in TLA+, checks the models with TLC, and proves with TLAPS that the queues, the session, the
filter chain, the plugins, the connection set-up, the socket helpers, the configuration and the readers of texts are right for every size.
`PROJECT.json` is the index: components, runs, the lines each definition stands for, hazards, findings, theorems.

## 1. The system

| component | state it keeps | operations | interacts with |
|---|---|---|---|
| `sendq` (proxy.cpp) | list of packets `pq`; window `svbuf`, `sv`, `svc` of iovecs into it | `send`, `pull`, `push_out` | `proxy_pipe`, the socket |
| `recvq` (proxy.cpp) | packet being read `rd`, header buffer, position; list of whole packets | `recv` | `proxy_pipe`, the socket |
| `proxy_pipe` (proxy.cpp) | EOF / BROKEN bits, read and write watcher | `handle_read_event`, `handle_write_event`, `done` | its two queues, libev |
| `rf_session` (main.cpp) | two pipes, filter chain, delayed queue | `cli_io_cb`, `srv_io_cb`, `filter`, deletion | all of the above |
| `delayed_queue` (main.cpp) | packets with a timer each, `has_new` | `pull`, `start`, `stop`, `timeout_cb`, `emit` | the session's pipes |
| `rfx_module`, `rfx_instance` (main.cpp) | mapped image, factory, time stamp, saved states | `load`, `reload`, `need_reload`, `new_instance` | the file system, every session's chain |
| `rfx_filter_chain`, `evq` | filters of a session, queue of events | both `process` | plugins, `rf_session::filter` |
| `rfx_chat`, `rfx_loot`, `rfx_debug` | loot mask | `process` of packets and events, `loot_cmd` | chain, events, injected packets |
| `bootstrap`, `cli_connect_cb` (main.cpp) | the two descriptors of a client being connected, watcher and timer | `io_cb`, `tmr_cb`, accept loop | kernel, `proxy_run` |
| `pktq` (pktq.c) | reference count and one link per packet | `pqh_*`, `pkt_ref`, `pkt_unref` | everybody |
| `lib/sock.c` | what is left of a buffer or vector | `read_ms`, `write_ms`, `write_full_ms`, `writev_full`, `writev_full_ms` | a non-blocking descriptor, its peer, signals |
| `lib/mconf.c` | blocks of options, counts and numbers for `getopt_long`, values | `mconf_init`, `mconf_add`, `mconf_parse`, setters and getters | `lib/ini.c`, `getopt_long` |
| `lib/ini.c` | section and first error | `ini_parse_file` | `ini_handler` |
| `lib/misc.c` | - | `uri_decode`, `xdigit2i`, dump, hash, clock | - |

The last four are the project's own library `libutil.a`; the proxy calls only its address and socket option helpers.

What is hard here, by kind (every item with its line is in `hazards`):

* **two structures that must agree**: the window of iovecs and the list of packets of `sendq` are kept in step by
  counting; injections enter both, relayed packets only the list;
* **cuts**: a stream is read and written in arbitrary pieces;
* **order and half-close**: the end of a stream must not overtake its packets; both pipes are written in every callback;
* **wake-ups**: a watcher that is stopped must be started again by whoever adds work, in another callback;
* **termination**: the session is deleted by the last callback that has something to do, or never;
* **replacement at run time**: code is unloaded under the feet of running sessions, the file changes between system calls;
* **texts**: lines, commands and values are cut at separators that may be anywhere, also at the very end;
* **counting before checking**: `mconf_add` counts the options of a block that it then refuses; the socket helpers account for
  what the kernel took by what they believe it took;
* **races in one round of the loop**: answer and timeout of a connection; descriptors are reused at once.

What makes each component correct: `sendq` - everything leaves once, whole and in order; `recvq` - exactly the frames of
the stream come out; session - each direction is a reliable stream, half-close is passed on last, nothing is stranded,
the session ends; plugins - no stale code, no lost state, no session without filters; chain - a command is obeyed once
and never forwarded, only hidden items vanish; bootstrap - every descriptor has exactly one owner, and every client is
served or dropped; socket helpers - a buffer goes through whole or the caller is told, within the time-out; configuration - every
part of an option is what the last text that writes it made of it, and the tables for `getopt_long` fit their buffers.

## 2. Modules

| module | models | detail |
|---|---|---|
| `SendQueue` | `sendq`, with `pqh_pull`, `pqh_discard` | every result of `writev` is a step |
| `PacketStream` | what `sendq` promises | abstract specification |
| `SendQueueProofs` | - | invariants and refinement, by TLAPS |
| `RecvQueue` | `recvq::recv` | bytes are identified by their place in the stream |
| `Session` | `rf_session`, `proxy_pipe`, `delayed_queue`, reference counts | callbacks as sequences of steps, between two peers and the kernel |
| `Relay` | what a session promises | abstract specification |
| `FilterChain` | `rfx_filter_chain`, `evq`, `rfx_chat`, `rfx_loot`, `rfx_debug` | one step per filter looking at one packet or event |
| `Filtering` | what the filters promise | abstract specification, one step per packet |
| `ChatLine` | how `rfx_chat` takes a line apart | pure operators over a text |
| `LootCommand` | `loot_cmd`, `parse_mask` | the same, against "the last word about an item" |
| `UriText` | `uri_decode` | the same, against the places where a decoded byte begins |
| `IniLine` | a line in `ini_parse_file` | the same, against a grammar of lines |
| `ConfValues` | setters and getters of `lib/mconf.c` | the same, setter after getter |
| `Places` | - | places in a text, for the modules above |
| `Texts` | - | every short text of each kind, made piece by piece, and the properties of the five modules |
| `SockIO` | the read and write loops of `lib/sock.c` | every result of the system call and of `poll` is a step, between a peer and signals |
| `Config` | `lib/mconf.c` with `lib/ini.c` | blocks, lines of the file and items of the command line as steps |
| `Library` | - | `Texts`, `SockIO` and `Config` in one specification |
| `PluginModule` | `rfx_module`, `rfx_instance` | system calls of a reload as steps |
| `Bootstrap` | `bootstrap`, `cli_connect_cb` | rounds of libev, descriptor table |
| `RecvQueueProofs`, `SessionProofs`, `FilterChainProofs`, `PluginProofs`, `BootstrapProofs` | - | the theorems of section 4 about the module of that name |
| `LibraryProofs` | - | the theorems about `Texts`, `SockIO` and `Config`, as parts of `Library` |
| `NatFacts` | - | induction, least and greatest numbers, for the proofs |
| `MCSendQueue`, `MCRecvQueue`, `MCSession`, `MCFilterChain`, `MCLibrary` | - | constants of the instances |

How they fit together: `Session` takes `sendq` as a window and a list of whole packets; `SendQueue` is the same queue
with partial writes. `Session` takes `recvq` as "everything that has arrived, packet by packet", which is what
`RecvQueue` shows. `Session` gives filters by their effect (`Drop`, `Pre`, `Post`); `FilterChain` shows where that
effect comes from and takes the presence of plugins and the survival of their state from `PluginModule`. `Bootstrap`
ends where `Session` begins (`proxy_run`). `FilterChain` takes the words of a command as given; `LootCommand` shows how a text
becomes words. `Config` takes a line as what `IniLine` makes of it, and calls the setters of `ConfValues` for the options of the log;
for the other types it takes the texts a setter accepts as given, since those store all of a text or nothing. `Library` is a disjoint union: a behaviour is one of `Texts`, of `SockIO` or of `Config`, the other two idle,
because these parts share no state.

Operators whose name ends in `Faulty` (and `PushLater`, `PushNoReset`,
`AnsweredActive`) are plausible mistakes in the operator defined after them. No specification uses them; putting one
in its place makes TLC find the property violated that `PROJECT.json` pairs it with.

### Correspondence

**SendQueue.** `pq`, `svbuf`, `sv` (an index), `svc` are the members. `phase = "sending"` is the inside of the loop of
`send()`: `SendBegin` is its start with the first fill, `Writev(k, r)` one successful `writev` that uses up `k` entries and
`r` bytes of the next, `WouldBlock` and `SendFails` its other ends; EINTR only repeats the call. `push_out` and `pull` are
the two ways in. `sent`, `tail` are what the kernel has got; `fed` is a history of what was handed over.

**RecvQueue.** `pos` counts bytes taken from the socket, `from`/`bytes` are `p` and `bytes` of the code. `Readv(n)` is one
`readv`, `Extract` one iteration of the loop over `buf`. Uninitialised buffer bytes are `Unset`. The length of a frame is any
number, because the code takes it from the wire without a look: a frame whose length does not cover its own header becomes a packet with the header
written over its end (`Beyond`), and where the code then computes `rd->len - rd_pos`, which wraps, the model ends (`Overrun`): from there on
the code does not say what the program does.

**Session.** `win[d]` holds the packets the live iovecs point to, `pq[d]` the list; `pc` is where the callback is: after
`ReadEvent` come rounds of `filter`, then `WriteOwn` (with the start of new timers), `WriteOther` and `Check`; a
`WriteEvent` goes to `Check`; `timeout_cb` is one step and has no check, as in the code. Between any two steps the peers
may send, read, shut down or go away; going away may lose what was not read. `wrshut[d]` also remembers whether the pipe
was whole when SHUT_WR was issued. One `send()` is one step here.

**FilterChain.** A packet is filtered by `Begin`, one `ProcessPacket` per filter, then `PopEvent` and one `ProcessEvent` per
filter until no event is left, then `Finish`. Masks are sets of loot codes. `Words[p]` is the text of a command as the words
`loot_cmd` cuts it into, `Named` and `Unreadable` what `parse_mask` makes of an argument.

**PluginModule.** `Unload`, `Open`, `Finish` are the parts of `reload()`/`load()` between which the file may change
(before `dlopen`, between `dlopen` and `stat`). `filter_new` and `tstamp` start with any value, because the constructor does
not set them; calling through a wild `filter_new` ends in the phase `"crashed"`. `memory`/`st` are the state in the filter and
the saved one, `want` the history of what the filter was told, `raced` the history of whether the file changed where no
time stamp can tell.

**Bootstrap.** `pending` is what libev has collected in this round (`Poll`); callbacks run in any order, which covers libev's.
Stopping a watcher clears its pending event, and a one-shot timer is stopped before its callback: both are how libev
works. `Accept` is one iteration of the accept loop with all its outcomes; on those that fail after `accept()`, with or without the second
descriptor, what was opened is closed again in the step, so a close that is missing or one too many there breaks `FdsOwned`.

**Texts.** A text is a sequence of classes of bytes (or, for loot commands, of pieces no blank or sign divides); everything the code
compares with is a class of its own, everything else one class `x` or `z`; `BOM` is the byte order mark
that counts for nothing at the start of a file. The word `info` of `loot_cmd` is a piece of its own. Loops over a text are functions that repeat one round (`Round` of `uri_decode`,
`NextWord` of `loot_cmd`), searches are the first place of a set.
Sizes are scaled: 16 items, 8-bit unsigned numbers, and the suffixes k, m, g as shifts by 2, 4, 6.

**SockIO.** `fn` is the helper, `iov` what is left of its vector (a plain buffer is a vector of one entry), `nwritten` what the code
believes, `moved` what the kernel really took. `phase` is `"call"` before the system call and `"poll"` inside `poll()`. `Transfer`, `Zero`,
`Interrupted`, `Blocks`, `Fails` are the results of the call, `Ready` and `GiveUp` those of `poll()`. errno survives from earlier calls,
and the vector loops read it after a `writev` that returned 0, as in the code.

**Config.** `mconf_init` is `ConfigInit` (it only looks at its arguments), each `mconf_add` one step; `mconf_parse` then goes to the file (`ReadLine`,
`EndOfFile`) and the command line (`SkipWord`, `OptionItem`, `EndOfItems`). `short_len`, `long_count`, `long_idx` are the members, `written`
and `opt_long` what is written into the buffers they size. An item of the command line is given by its dashes, its name and what is attached;
grouped letters, abbreviated long names and `--` of `getopt_long` are left out. An option has one of three types of setter, and `Store` calls it: `mconf_set_logopts`, which clears
the option before it looks for the facility; `mconf_set_loglevel`, which works name by name and stops at the first it does not know; or one that takes a whole text or refuses it (`accepts`). What a refused
text has written stays, and only `is_set` tells. `Remarked` and `Lists` say what the last two setters see in a text.

## 3. Runs

| run | instance | shows |
|---|---|---|
| `SendQueue` | 5 packets of 2 bytes, window of 3, injections of 1 or 2 packets, symmetric packets | window in bounds, no dangling iovec, no torn packet, with window and list out of step too |
| `SendQueueAligned` | 4 packets, window of 2, `AlignedSpec` | sent in order and once; implements `PacketStream` |
| `Session` | c2s: a, b; s2c: c, d, e; reply r to a; window of 4, socket buffer of 1; `AlignedFairSpec` | as long as nothing is injected behind a backlog that the window does not hold: implements `Relay`; delivery; the session ends; never without a watcher |
| `SessionDelayed` | c2s: a; s2c: c, d; reply r to a, delayed; q injected before c; window of 1 (smaller than the backlog); `Spec` | no lost wake-up, reference counts equal list membership, half-close last, only a timer can leave a finished session behind |
| `SessionReply` | c2s: a; s2c: c, d, e; reply r; `Spec` | **violated**: r is sent twice and a relayed packet is lost |
| `RecvQueue` | frames of 6, 4, 9, 4, 4, 5 bytes, one of length 2, one of 6 behind it; buffer of 11 | the frames are recovered whatever the cuts, none is held back, and nothing but the frame of length 2 makes a copy leave its buffer |
| `PluginModule` | 2 sessions, 3 versions of the file, clock up to 4, `FairSpec` | no stale code, state survives, no session unfiltered, no needless reload, a change is noticed unless it fell between `dlopen` and `stat` or into the second of the time stamp, loaded in the end |
| `Bootstrap` | 3 clients, 5 descriptors, `FairSpec` | every descriptor owned once, watchers match objects, answer beats timeout, nobody waits for ever |
| `FilterChain` | 6 packets (an item, three commands, one of them unreadable, two messages), plugins absent at times | implements `Filtering`; references are right |
| `Library` | texts of up to 6 (chat, uri), 5 (loot, ini) pieces, every 8-bit value; 9 vectors of up to 4 bytes, descriptor of 2, one signal; 3 programs, every command line of up to 2 items out of 17, file and command line up to 4 together; `FairSpec` | each text is read as it says, values read back, buffers move whole or fail, helpers with a time-out return, the last word wins part by part, tables fit, the first error is reported |
| `ChatLineGap` | the same instance | **violated**: the first ": " is not what ends the search |
| `WriteFullCount` | the same instance | **violated**: `write_full_ms` reports 3 bytes of which 1 was sent |

**Bounds.** `WRIVCNT` is 64 in the code; the behaviours that matter are a full window, a window smaller than the backlog, one
that starts in the middle of `svbuf`, and a refill, and 2 or 3 entries with 4 or 5 packets have them all (the theorems hold
for every value). Two bytes per packet suffice because a packet is either untouched, cut, or gone. In `RecvQueue` a
buffer of 11 bytes holds one, several, or part of the frames, among them frames of a header only. A socket buffer of one packet
makes every second write block. In `Session` the server's three packets are enough for a backlog that is not in the window when the
reply is injected (without the premise of `AlignedFairSpec` TLC refutes `ImplementsRelay` and `Delivered` on this very instance), and for
injections that meet an empty list, a list that is all in the window, a pipe that is half closed and one that is broken. Injections before a packet, delays and a window
too small for the backlog are in `SessionDelayed`. In `RecvQueue` the frame that is too short comes last but one, so that everything before it is
seen to be unharmed. In `PluginModule` a load takes effect more than a second after
the change, so 4 ticks and 3 versions allow a good load, a failing and a good one again. With 5 descriptors two clients
fit, the third finds one free descriptor: enough for accept() but not for socket(). In `Library` the texts are long enough
for two words with signs and blanks, a tag with an empty nick, a name, separator, value and comment, two escapes with the buffer
full between them; the vectors have empty entries at the start, in the middle and at the end, and two partial writes inside one entry; in the second program
a block is refused after its first option was counted, then numbers are handed out again; the third has the options of the log, which are set by
accepted texts, by a facility that does not exist and by a list whose second name does not. `MaxTime`, `MaxVersion`, `MaxFd`, `MaxLen`,
`MaxSignals`, `MaxWords` and the lengths of `Input` are the only bounds, each named in its module.

**Deadlock** is not checked: a session that is over, a clock that has reached its bound and a list of packets that was used up
legitimately have no next step. What must not stop is stated as liveness, `NoLostWakeup` and `NoOrphan`.

**Fairness.** Libev calls a callback whose event persists, and a callback runs to its end: weak fairness of the callbacks and their
steps. A peer that is there reads (weak fairness of `PeerRead`); it never has to send or to close. `AlignedFairSpec` is the same fairness for
the behaviours that keep windows and lists in step; a fair behaviour that would have to bring them out of step is not among them, and this is what the premise says. In `PluginModule` the check
comes every second and time passes, in `Bootstrap` the loop runs and timers expire; neither the server nor a client has to do
anything. In `SockIO` the helper runs on and `poll()` returns once the descriptor is ready or the time is over; nothing is assumed of
the peer, and `writev_full`, which has no time-out and spins, is excepted from `Returns`.

**Findings** (quoted in `PROJECT.json`):

1. `SessionReply`: `sendq::pull` makes an iovec for an injected packet although older packets of the list have none yet
   (they were queued while the window was not empty). `send()` then discards the wrong packets: the injected one is sent twice, a relayed
   one is freed unsent. `SendQueueAligned` shows that nothing else is wrong: while injections meet a list whose packets all
   have an entry, the queue is correct, and that is proved.
2. `ChatLineGap`: the loop condition of the separator search is the negation of an `or` where an `and` is meant.
3. `WriteFullCount`: `write_full_ms` advances by `len` instead of by what was written.

Met on the way, each an exception by name in a property or outside of all of them:

* a session whose last event is a delayed packet is never deleted (`timeout_cb` does not look at `done()`; `OrphanedByTimerOnly` says that
  this is the only way); SHUT_WR is issued while packets of that direction may still be injected;
* `recvq::recv` hands any length from the wire to `pkt_new`, whose comment supposes that it includes the header (pktq.c:9); the exception in `WritesInBounds`;
* a comment behind the separator of a line, with nothing but blanks between, is taken for the value: `ini_parse_file` skips the blanks before it looks for a comment and so does not see
  the blank that makes it one (ini.c:137; include/ini.h:21 and ini.c:40-42 say that a `;` after a blank begins a comment); the exception `CommentFirst` in `IniLineRead`;
* `load()` takes the time stamp after mapping the file, so a file replaced in between is never noticed (the exception in `ChangeNoticed`);
  a client that connects after a failed first load calls through an uninitialised pointer;
* `writev_full` and `writev_full_ms` never use up an empty entry at the end of a vector (the exceptions in `WholeOrError` and `Returns`);
  `nonblock_connect` returns -1 when `connect()` succeeds at once; `read_file_to_string` reads every piece to the start of its buffer;
* a refused list of log levels is applied up to the bad name, and a refused facility clears the old one (`mconf_set_loglevel`,
  `mconf_set_logopts`), and on the command line nobody is told (mconf.c:562): `LastWordWins` states what is left; `--conf=file` names the file in `mconf_init` and is then rejected by `getopt_long`, which does not know it; two options of one block with
  the same name are not taken for a conflict; `mconf_help_msg` does not end if a word of a comment is wider than its column.

## 4. Proofs

Every theorem holds for every value of the constants its module's assumptions allow. The assumptions are types, and these:
packets have bytes (`SendQueueAssumption`); the packets the peers send and those the
filters make are different ones, each made once (`IdentityAssumption`: a packet is an object, not its contents); `NULL` is no packet and
`NoState` no state; the options of the log take an argument, as the macros of `include/mconf.h` give them (`SettersAssumption`); a block of options has a name (for the file, a letter, a long name) once, and an option that only the file can set is in one section, both of which `mconf_add` does
not check and the tables it is given have to see to (`NamesAssumption`); an item of the command line has a letter or a name, as its dashes say (`ItemsAssumption`).
TLC evaluates them on every run.

**SendQueueProofs.** `SpecTypeOK`, `SpecWindowInBounds`, `SpecNoDanglingIov`, `SpecFramesStayWhole`: the invariants of the run `SendQueue`.
`AlignedSentInOrder` and `AlignedImplementsStream`: under `AlignedSpec` the queue sends in order and implements `PacketStream`.
The inductive invariant `IInv` is the conjunction of these four and `SendingHasWork` (a loop of `send()` still running has a
window). They need each other: a refill fits `svbuf` only when it follows on a window that is in bounds, and a call that sends everything leaves
nothing torn only because the loop it belongs to had a window. `NoDanglingIov` does not say that
entry i belongs to packet i, which is false in this code, but that its packet is at i or later in the list: this much survives every step,
since an injection appends to both and a partial send takes as many from the front of one as of the other.
For `AlignedSpec` the invariant `AInv` is `IInv`, `SentInOrder` and `Aligned`, which says that the live entries belong to the
first packets of the list, one by one: that is what lets "discard the head of the list" mean "discard what was sent".

**RecvQueueProofs.** `SpecFramesRecovered`, `SpecNothingHeldBack`, `SpecWritesInBounds`, for frames of any length, those too short for their header included; the third
names these as its exception (`TooShort`), and says that only they lead to `Overrun`. `IInv` places the parser in the stream: `Parsed` (the packets
pushed are the first frames, and the packet or header being read is the beginning of the next, `Inside` it or with nothing but a header that is longer than the packet), `HeaderKept` (a header that is split over two reads is in
`rd_buf`) and `Accounted` (position in the stream = what is in packets + what is kept + what is left in `buf`). Without the last the
code would not know that the bytes it copies belong where it copies them; without the second the length it allocates by could be anything.
`Start` adds the frame lengths up; that such a function exists, grows and meets each frame once is proved by induction.

**SessionProofs.** `SpecTypeOK`, `SpecNoLostWakeup`, `SpecOneHolder`, `SpecHalfCloseLast` and the action property `SpecOrphanedByTimerOnly`. `IInv`
is `Types`; `Buffered` and `Sent` (socket buffers); `Single` and `Linked` (no list has a packet twice, all lists are disjoint, what is still to come from a peer
or to be made by a filter is in none of them, and `refc` is 1 for what is in a list and 0 for the rest); `Timed` (a timer for every delayed packet, except for new ones
inside a callback); `Watched` (a write watcher wherever something waits, except in the callback that is about to write); `Ended` (EOF, and SHUT_WR of a whole stream,
come after its packets). `OneHolder` alone is not inductive: that a packet that arrives or is injected is in no list yet is known only from what has not
happened yet, hence `Linked`. `HalfCloseLast` needs `Ended`, since what may still be injected after SHUT_WR must not come from the stream.
`Select`, the part of a list that `pqh_pull` takes, is a recursive function and its facts (subset, order, no duplicates, append) are proved by induction.
`SpecNoOrphan`: no session is left without an event for as long as the delayed queue stays empty (`[](dq = <<>>)`), that is as long as no filter delays a packet and no
injection is larger than the room in the window, whose rest goes there too; with a packet in it, the first point of "Met on the way" shows that it can be.
`AlignedImplementsRelay` and `AlignedSentOnce` are about `AlignedSpec`, the steps after which the write window of each direction that can still be written
is the front of its list (`Aligned`); without that premise finding 1 breaks both.
The run `Session` checks the first under the same premise. The idea is that a write moves packets from the front of `pq` to the end of `wire` and so leaves
`wire` followed by `pq` as it was (`Sends`), when the packets it discards are those it sent, which is what `Aligned` says. `AInv` is then `IInv` with `Flow` (what has
gone and what waits to go, followed by what is read but not filtered, is what has arrived, injected packets left out), `Ahead` (the same of the wire alone, which also holds
once the session is gone), `Later` (only injected packets are delayed) and `Dead` (a deleted session has no watchers). Every step of the peers, of `filter` and of a write is then a step of
`Relay` or a stutter. `SentOnce` follows from `Once`: what is on the wire is in no list, is not to come and is not what a packet still to come would inject.

**FilterChainProofs.** `SpecRefsMatch`, and `SpecImplementsFiltering`: the chain with its event queue is a refinement of `Filtering`, where a packet is handled in
one step. `IInv` says for each stage of a packet (`Looking`, `Saying`, `Obeyed`, `Settled`) what has been decided and which one event is on its way, so that
the decisive step maps to the step of `Filtering` and all others to stutters. `Masks` goes through the words of a command; that its result is "the last word
about an item" is proved for any number of words.

**PluginProofs.** `SpecNoStaleCode`, `SpecStateSurvives`, `SpecNoSessionUnfiltered`, `SpecNoNeedlessReload`, `SpecChangeNoticed`. Besides the first two, `IInv` has
`PhaseMatches` (what is mapped in each part of a reload), `Manned` (which sessions have a filter), `NoFuture` and `StampTells`, the relation of time stamp,
mapped version and file that the constructor does not establish and `load()` does.

**BootstrapProofs.** `SpecFdsOwned`, `SpecWatchersMatch` and the action property `SpecAnswerWins`. `Owned` and `Watched` say client by client what the two invariants say
as sets; `FateTells` adds that a client has a bootstrap, a session or neither according to what has become of it, without which accept() could
overwrite an owner. `OpenedAndClosed` says that a failure after accept() leaves the table of descriptors as it was.

**LibraryProofs.** About `Texts`, for texts of any length: `SpecLineRead`, `SpecUriWhole`, `SpecCommandRead`, `SpecIniLineRead`. About `SockIO`: `SpecWholeOrError`. About `Config`:
`SpecRoomForOptions`, `SpecFirstError`, `SpecLastWordWins`.

*Texts.* A text has no steps in the specification, so the invariant is one of the loop that reads it: `IterExists` shows that a function which repeats a round exists and
has the values one expects, and induction over the rounds does the rest. For `uri_decode`, `UriInv` says that the place reached begins a byte and that the bytes counted and stored are
those that begin before it; the bytes are numbered by `Rank`, how many begin before a place. For `loot_cmd`, `CommandInv` says that the place reached is a `Border` between words and that
the mask is `Understood`: each item as the last word before that place about it says. The lines of chat and of the file are read by searches: the proofs find the places
(`FirstOfIs`, `LineExtent`, `Searched`) where the grammar of the line says a part ends, and show that the searches stop there and nowhere before. `SpecIniLineRead` has the one exception
that the code makes to its grammar, and says what is read in that case too (`CommentFirst`, `CommentPlace`).

*SockIO.* `SockInv` says of a loop over a vector that
what the kernel took followed by what is left of the vector is what was asked for (`Passing`), that the code has counted it right, and that a loop that still runs has an entry left;
of the other helpers, that nothing has moved while they run (`Untouched`). Without the first part a return of the right count would not mean the right bytes. It rests on
`AdvanceFacts`, what the loop that steps over the entries leaves of a vector, for empty entries too, and on facts about flattened sequences by induction.

*Config.* For `RoomForOptions`, `RoomInv` adds `EnoughCounted`: the counts cover every option that was kept, and more after a block that was refused half-way. The sums of
`mconf_add` (by block) and of `mconf_parse_cmdline` (over all blocks) are brought together by `CountsAdd`. For `FirstError`, `FileInv` adds `OneOption` (in a section no two
options have the same name in the file), which is what `mconf_check_conflict` is for and what makes "`ini_handler` sets the first" the same as "some option takes it",
the section the parser is in, and that no line is read before the last block is added.
For `LastWordWins`, `ConfigInv` is four facts. `NamesInv`: no letter, long name or name of a section belongs to two options, which is what `mconf_check_conflict` and
`NamesAssumption` are for. `NumbersInv`: the numbers handed out for long names without a letter are those from `long_idx` on, in the order of the options,
each once, after a block refused half-way as well. `Prepared`: the table for `getopt_long` has what was handed out. `WordInv`: each part of each option (`Parts`: a text; facility and flag; each level of the mask) is what the last text that writes it (`Writes`) made of it so far, the
command line after the file, and the option is marked exactly if a text about it was accepted. `SetFacts` is what makes the parts independent: a setter leaves the parts that it
does not write as they were, and what it makes of the others depends on the text alone, which is shown for each of the setters, for texts they refuse too. Without the first two an item of the command line could be taken for another option (`MeantFacts`).

Each proof has a lemma per action, and one under it per conjunct the action can disturb; the induction rule of `NatFacts` is about sets,
since a rule with an operator parameter cannot be instantiated by these provers.

**Only model-checked:**

* Liveness under fairness (`Delivered`, `EndsInTheEnd`, `LoadedInTheEnd`, `Resolved`, `Returns`), which is outside this prover.
* `ReadsBack` of `ConfValues`. It is about the values of one scaled width and two tables of names, with no constant a theorem would be more general in, and
  the run `Library` goes through all of them; powers of two and folds are also beyond these provers.

Every other property of the passing runs is a theorem; `NoOrphan` and `ImplementsRelay`, and of `SendQueue` `SentInOrder` and `ImplementsStream`, under the
conditions named above.

## 5. Not modelled

* `lib/daemonize.c` (fork, pid file), `tools/` (scripts); `include/queue.h` is vendored and appears as sequences, the ring buffer is not used.
* Of `lib/sock.c`: addresses, socket options and `nonblock_connect`. Of `lib/mconf.c`: the layout of the help message, `mconf_free`, the
  memory of the string type and getters whose text does not fit. Of `lib/misc.c`: everything but `uri_decode`; dump, clock and hash are straight-line
  computations without a promise to check them against. Of `lib/ini.c`: lines of 200 bytes and more, section names of 50 and more.
* Output: `pkt_dump`, logging, `desc`, the `show` bit; address parsing; the text of replies; the contents of the files `loot_mask::fload` reads, and that `parse_mask` cuts their names at 64 bytes.
* What happens after a frame too short for its header has made `recv` write out of bounds; spurious events, a plugin file that is overwritten in place, allocation failure.
* In `Session`: partial writes (see `SendQueue`), and frames not yet complete (see `RecvQueue`).

## 6. Plan

Done: the modules of section 2 and the proofs of section 4. What would be worth adding:

1. A composition of `Session` with `SendQueue`'s window, so that partial writes and half-close meet in one model.
2. The width of values in `ConfValues` as a constant, with the setters and getters of numbers proved for every width.
