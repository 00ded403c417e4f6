# Verification of the SNI-spoofing relay

The program accepts TCP clients, opens a connection of its own to one fixed
server for each, and before it relays the first byte injects a fake TLS
ClientHello into that connection. The fake carries a sequence number *below* the
one the server expects, so a middlebox reads its harmless server name while the
server discards it as old data and acknowledges. The acknowledgement opens the
gate for the client's own bytes.

This directory models the program in TLA+, checks the models with TLC on small
instances, and proves the central safety results for all instances with TLAPS.
File and line numbers refer to the repository's source.

| file | content |
|---|---|
| `Desync.tla` | the desync: handlers, injector thread, executor threads, kernel TCP, server, network |
| `RelayGate.tla` | abstract specification of what the desync promises each client |
| `DesyncProofs.tla` | inductive invariant, safety theorems, refinement `Desync => RelayGate` |
| `Relay.tla` | the event loop under the relay: two tasks per client, the selector, reused file numbers |
| `Pipes.tla` | abstract specification of what the relay promises each client |
| `RelayProofs.tla` | inductive invariant of the data, refinement `Relay => Pipes` |
| `RelayEventProofs.tla` | inductive invariants of the selector and the loop's list: events reach the task that waits, waiters stay registered, no task is forgotten, connects fail for a reason |
| `AdapterMonitor.tla` | the life of the injector: address poll, start, stop, restart, handler prologue |
| `AdapterMonitorProofs.tla` | its types, and that the injector follows the address |
| `RawEngine.tla` | the raw-socket engine's memories: echo counters and the window of seen packets, two threads |
| `RawEngineProofs.tla` | its inductive invariant and six theorems |
| `Codec.tla` | the packet codec in lengths and sums: `parse`, `to_bytes`, `_checksum`, the ClientHello |
| `CodecProofs.tla` | two folds are enough, what the words of a packet add up to, and the lengths survive a round trip |
| `CaptureFilter.tla` | the way of one packet: the BPF program, the flow filters of `recv()`, and the fake made of it; WinDivert's filter as reference |
| `CaptureFilterProofs.tla` | the filters agree for every packet, and every fake parses and verifies |
| `Updater.tla` | the OpenWRT update: `update.sh`, `install.sh`, the rpcd method and the page that polls it |
| `UpdaterProofs.tla` | its inductive invariants and six theorems |
| `MC*.tla`, `*.cfg` | instances for TLC |
| `PROJECT.json` | components, runs, mutants, source map, findings, hazards, theorems |

## 1. Inventory

### Components, their state and operations

| component | source | state | operations |
|---|---|---|---|
| Desync state machine | `fake_tcp.py`, `monitor_connection.py` | per connection: `monitor`, `syn_seq`, `syn_ack_seq`, `sch_fake_sent`, `fake_sent`, `t2a_msg`, `t2a_event`, `thread_lock`, two sockets | `inject`, `on_inbound_packet`, `on_outbound_packet`, `on_unexpected_packet`, `fake_send_thread` |
| Injector loop | `injecter.py` | the engine | `run`: receive, judge, repeat; ends on `OSError` |
| Connection handler | `main.py:172-252` | `fake_injective_connections`, its place in the coroutine | `handle`: check address, bind, register, connect, wait 2 s, relay; `report_desync_timeout` |
| Relay loops | `main.py:143-169` | two tasks per client | `relay_main_loop`: receive, send, close both |
| Adapter monitor | `main.py:458-561` | `INTERFACE_IPV4`, `fake_tcp_injector`, `injector_thread`, `last_ip`, `last_restart` | `monitor_adapter_loop`, `start_injector`, `stop_injector`, `run_injector_safe` |
| Raw-socket engine | `engines/raw_socket_engine.py` | two sockets, `_injected`, `_seen`, `_seen_order` | `open`, `recv` (filters), `send`, `close` |
| Scapy and WinDivert engines | `engines/scapy_engine.py`, `windivert_engine.py` | handles, `_injected` | the same contract, `engines/base.py` |
| Packet codec | `utils/rawpacket.py` | none | `parse`, field setters, `to_bytes`, checksum |
| ClientHello template | `utils/packet_templates.py` | none | `get_client_hello_with` |
| Address discovery | `utils/network_tools.py`, `platform_utils.py`, `main.py:365-384` | none | `resolve_bind_ip` |
| Configuration, menu, socket options, listener | `main.py` | constants after start-up | read once; `main` accepts |
| procd service | `openwrt/sni-spoof.init` | `config.json` | start, reload, respawn, `check` |
| Updater and installer | `openwrt/update.sh`, `install.sh` | program and backup directories, log | `apply`, `rollback` |
| rpcd backend and LuCI page | `openwrt/luci-app-sni-spoof` | pid file, log | `update`, `update_status`, polling |

### How they interact

* **Event loop** — all handlers and relay loops; they interleave only at `await`.
* **Injector thread** — blocks in `engine.recv`, looks a packet's connection up in
  the dictionary the loop writes, takes the connection's `thread_lock`, changes the
  connection object, *closes the loop's sockets*, and wakes the loop with
  `call_soon_threadsafe`.
* **Executor threads** — one `fake_send_thread` call per connection, under the same
  lock, calling `engine.send` while the injector is in `engine.recv`.
* **Monitor thread** — polls the outbound address every 2 s and replaces the
  injector, through module globals without a lock.
* **Kernel** — owns the real connection; the capture sees its packets before or
  after the threads have acted, and the network loses, repeats and reorders them.
* **OpenWRT** — procd restarts the process; the updater replaces it.

### What is hard, and what makes each part correct

The hard behaviours are listed line by line under `hazards` in `PROJECT.json`.
In short:

| component | hard because | correct when |
|---|---|---|
| Desync | four kinds of thread share one object; the handler clears `monitor` *without* the lock; packets stay captured after the verdict; the 2 s timer races the verdict; sequence numbers wrap | the gate opens only after the fake's send has ended; a verdict is final; a relayed connection is left alone; the server's stream stays clean; no client is left hanging |
| Adapter monitor | globals without a lock; `close()` does not wake a blocked `recvfrom()`; the address the handlers use is up to 2 s old | after any history of the WAN, one injector watches the address handlers bind to |
| Relay loops | two tasks close each other's sockets while the selector still has them, and the next client gets their numbers | bytes are forwarded in order; events reach the task that waits for them; a client that leaves is released |
| Packet codec | lengths of options, padding and an odd payload; a checksum nobody tests until a server drops the fake | what is emitted parses as what was meant, and verifies |
| Raw engine | every sent packet comes back, once per device; copies must be dropped, retransmissions must not; counters shared by threads | each transmission is judged once; the fake never is |
| Updater | steps on a disk that may lose power; several files outside the program directory | there is always a complete version that starts |

## 2. The models

### `Desync` — the core

**State.** `conn[c]` is the `FakeInjectiveConnection`; `connections` the
dictionary; `thread_lock`, `sock`, `peer_sock` the shared objects; `pc[c]` the
point `handle()` has reached; `inj_at`/`inj_pkt` the injector thread and the packet
in its hand; `task[c]` the `fake_send_thread` call. `tcp[c]` and `srv[c]` are the
two TCP ends, `net` the packets in flight (a set: reordering is free), `capture` the
captured packets not yet returned by `recv()`. `fakes`, `emitted` and `polluted`
are history: sends attempted, fakes that left the machine, servers that took a
byte of a fake for data.

**Actions.** One action per stretch of code no other thread can see into:

| code | actions |
|---|---|
| `handle()` | `Accept`, `SockConnect`, `Poll`, `Connected`, `ConnectFails`, `WakeVerified`, `WakeAborted`, `Timeout`, `Finally`, `RelayData` |
| `TcpInjector.run`, `inject` | `Recv` (with the dictionary lookup), `AcquireLock` (with the second look at `monitor`), `Judge` = `OnSyn`, `OnSynAck`, `OnFinalAck`, `OnFakeAck`, `OnUnexpected` |
| `fake_send_thread` | `TaskLock`, `MarkSent` (`fake_sent = True`), `SendFake` |
| kernel, server, network | `Deliver` (`KernelSynAck`, `KernelOther`, `Server`), `ConnectGivesUp` |
| faults | `Lose`, `Miss`, `RetransmitSyn`, `RetransmitSynAck`, `Reset`, `ServerForgets`; a failing send in `SendFake` |

`Judge` tests the packet against the four `...Expected` predicates, which carry
the comparisons of `on_inbound_packet` and `on_outbound_packet` with their
32-bit wrap-around; everything else is `OnUnexpected`. The handler's `Finally`
may fall between `AcquireLock` and `Judge`, as in the code. `Timeout` also makes
`report_desync_timeout`'s `Diagnosis`: it reads the object without the lock and names
the first milestone that is missing, or is suppressed by the rate limit.

**Abstractions.** Packets carry a class (the flag combinations the code tells
apart), a sequence and an acknowledgement number; payload is the length
`FakeLen`. The engine is represented by what it lets through: it absorbs the
echo of the fake, and a packet it wrongly swallows (for instance a retransmission
it takes for a copy) is a `Miss`. Connections are told apart by identity; a
reused port is not modelled. The executor has no bound of 64: a queued task is
only delayed, and every delay is allowed. The injector is always running and
the bind address stays valid (these are `AdapterMonitor`'s subject). A fake may
still leave after the handler has given up, since `Finally` does not take the lock:
the code allows it, and so do `Desync` and `RelayGate`.

### `RelayGate` — the promise

Per client a `phase` (new, gated, open, refused) and the number of `attempts` to
send the fake. The gate opens once, only after exactly one attempt, and never for
a refused client. `Desync` implements it under the mapping `Phase(c)`, `fakes`.

### `Relay` — the event loop under the relay

**State.** `fd` and `open` are the sockets with their file numbers; `sel` is asyncio's
selector: per number the task that waits to read and to write (`key`), what the
kernel reports of the number (`epoll`), and the handles that were cancelled. `ready`,
`batch`, `cur` are the loop's list of callbacks, how many of them belong to this
iteration, and the running task. `at`, `fut`, `buf` are each task's place, its future
and the data in its hand. `con`, `rx`, `end` belong to the kernel; `wrote`, `sent`,
`inherited` are history.

**Actions.** A task is named by the socket it reads: `<<c, "in">>` is `handle()` and
the relay it awaits, `<<c, "out">>` is `oti_task`.

| code | actions |
|---|---|
| asyncio's `_run_once` | `Select` (in any order), `Resume` (a task starts or goes on, after `RemoveHandler`), `Callback` = `ConnectCallback`, `RecvCallback`, `SendCallback`, `Cancelled` |
| `handle()` | `Accept`, `Connect` (socket, `sock_connect`), `WaitVerdict` and `ActOnVerdict` (in `Resume`) |
| `relay_main_loop` | `SockRecv`, `SockSendall`, `Leave` (the `finally` that closes both) |
| injector | `Verdict`, `Abort` (`on_unexpected_packet` closes both sockets from its own thread) |
| kernel and peers | `Answer`, `PeerWrites`, `PeerReads`, `PeerEnds` |

`close()` makes the kernel forget the number; asyncio keeps the key and the task that
waits. The next socket gets the lowest free number (`OpenSocket`), and what
`selector.modify()` does with a key the kernel no longer knows is `AddHandler`: where
the events stay the same nobody tells the kernel, and where they change
`epoll_ctl` raises (`Raises`).

**Abstractions.** Data are numbered segments; a send buffer holds `Room` of them. The
desync is reduced to its verdict (`Desync` is its model), and `bind` is left out. Peers act
between two callbacks: what they do during one is seen by its next call all the same.
The listener takes at most `MaxAtOnce` clients at a time, so the file numbers of the
instance are those of the relays; a client does not count any more once one of its
tasks is about to close its sockets (`Parting`). A server that closes first leaves `handle()` in
"recv" for ever: the client's socket is closed under its `sock_recv`, and nobody wakes it.

### `Pipes` — what the relay promises

Two pipes per client. `Deliver` passes on a further piece of what was written at the
other end, in order, without gap or repetition; `Break` breaks both pipes of a client
at once, and what is still in them is lost: the code promises no more. `Relay`
implements it with `written = wrote`, `delivered = sent`, `broken = Sock \ open`.

### `AdapterMonitor` — the injector's life

**State.** The three globals; the monitor's local variables and place (`mon`); for
each injector thread its place in `run_injector_safe` and the state of its engine;
each client's place in the prologue of `handle()` with the address its socket is
`bound` to and the one it is registered under (`src_ip`); the WAN's address; whether
the process is `alive`.

**Actions.** `StartMonitor`, `Tick` (with `Resolve` and the four branches of the
loop in `Decide`), `NothingToStop`, `CloseEngine` and `ClearInjector` (`stop_injector`), `Publish`,
`Spawn`; `Register`, `OpenEngine`, `EngineFails`, `LastPacket`, `End`
(`run_injector_safe` and `run`); `CheckAddress`, `Bind`, `BindRaises`,
`RegisterConnection`; `BackOff`, `WanChanges`, `Respawn`. `stop_injector` leaves
a thread that is inside `recvfrom()` asleep until one more packet of its
address arrives: that is what Linux does on an `AF_PACKET` socket. Ticks that
change nothing are left out.

**Abstractions.** One engine, the raw one. The pinned `INTERFACE` literal, the menu
and Ctrl-C are left out. `Prompt` says that an injector thread starts and ends
within the 2 s between two polls.

### `RawEngine` — what the engine hides

**State.** `injected`, `seen`, `seen_order` are the engine's `_injected`, `_seen`,
`_seen_order`; `sender[f]` is the place of the executor thread in `send()`; `echo`
the place of the injector thread between reading a count and storing it. `coming`
holds the copies the capture has yet to return, `log` (history) what `recv()`
returned.

**Actions.** `Transmit` (a control packet passes 1 to `MaxTaps` devices, first time
or retransmission); `Count`, `CheckBound`, `Clear`, `SendTo` (`send()`, a failing
`sendto` being zero copies); `ReadCount`, `StoreCount` (the echo clause of `recv()`,
in two steps because `send()` may clear the dictionary in between); `Filter` (payload
clause, duplicate clause, `_remember`). Copies of different packets arrive in any
order.

**Abstractions.** A packet is its direction and signature, so copies and
retransmissions are equal. Each fake is sent once: its sequence number and port
are those of its connection. Packets of other flows are `CaptureFilter`'s subject,
the client's data is dropped by the same clause as a fake whose count is used up.
This module justifies two assumptions of `Desync`: the echo of a fake never
reaches `Judge` (`FakeNeverJudged`), and what is held back is a repeated packet
(`HeldBackLately`), which `Desync` treats as a `Miss`.

### `Codec` and `CaptureFilter` — the way of one packet

One packet goes through the eleven instructions of `_build_bpf()`, executed as the
kernel does (`Kernel`, a load beyond the end rejects), or straight to `recv()` when
`SNI_NO_BPF=1` or the program could not be attached; `Recv` then applies the clauses
of `recv()` to a packet that is neither an echo nor a copy. `build_filter` is the
filter the WinDivert engine installs. If what was delivered is the handshake ACK,
`SendFake` is `fake_send_thread` with `send()`: the ClientHello for one of `Names`
replaces the payload, and `to_bytes` computes the lengths and the checksum.

**Abstractions.** Addresses and ports are values. A frame is known by its captured
length, its IP version and the length fields of its headers (`Shapes`), a payload by its length; of
the bytes only the sum matters, that of the words before the payload being any
of `Bases`. `WordSum` halves where `_checksum` goes from word to word: the sum is the
same, and the recursion is shallower. A name longer than 219 bytes makes
`struct.pack` raise in `handle()`, which exits the process: `SendFake` is not enabled
for it.

### `Updater` — what is on the flash between two steps

**State.** `prog` and `backup` are `/opt/sni-spoof` and `/opt/sni-spoof.bak`, each
the release of every file in it; `outside` the init script and the LuCI files.
`pc`, `tag`, `copied`, `todo`, `rc` belong to each running `cmd_apply` (with
`install.sh` under it). `log` holds the codes of the `EXIT:` lines in the log file,
`tee` the updaters that write into that very file (rpcd removes it, and a `tee` that
has it open goes on writing into the removed one), `pid` the live process the pid
file names, `daemons` the children of `start-stop-daemon` that have not written it
yet. `service` is the version `main.py` runs, `origin` (history) the tree the latest
update found.

**Actions.** Every command that changes a file is a step: `Unlink`, `CopyBackup`,
`InstallFile`, `Remove` work file by file, `Restore` is the `mv`. `cp` and `mv` whose
destination has come back copy *into* it, as they do. Every early return and every
failure under `set -e` is an action (`FetchFails`, `BackupFails`, `InstallFails`,
`ImportFails`). The page side is `Ask` (the test for a running update), `ClearLog`,
`StartStopDaemon` (tests again, forks), `Launch` (the child writes the pid file),
and then the status. `method_update_status` greps the log for `EXIT:`, greps it again for
`EXIT:0` and then looks for the process: three steps (`ReadFinished`, `ReadSuccess`,
`ReadRunning`), between which an updater may write or a start may remove or truncate the
log. `ReadRunning` is also where `followUpdate()` asks again or `runUpdate()` says how the
update ended; a first read that finds nothing leads to another request and is left out.
`Catch` is the `.catch` of `runUpdate()`. `CommandLine` starts an updater without any of
these. An updater writes its `EXIT:` line (`Finish`) before it ends (`Exit`). `Kill`,
`KillShell`, `PowerCut` and `Respawn` may happen at any moment.

**History.** `ended[g]` holds the codes of the updates that have ended since page `g` removed
the log, `torn` the pages under whose reads the log was removed or truncated, `stray`
whether a request that had found no updater removed the log of one.

**Abstractions.** Releases differ in every file, and a file is written in one step:
a half-written file and a missing one are as incomplete as a mixed tree. A directory
exists if it has a file. A release in `Broken` is one the import check rejects; what
the check says of a mixed tree is left open, and it may fail for reasons of its own.
Packages, UCI and the rpcd reload are only chances to fail. The service is enabled, and its
restart succeeds: `update.sh` ignores one that fails (`|| true`), and then the service is
not what is installed until procd starts it again. What is written is taken to be on
the flash at once. Neither script calls `sync`: a file system that delays its writes may lose
the new tree although the old one has been deleted (`update.sh:207`), and `WorkingCopy`
says nothing of that. A kill ends `cmd_apply`, its `tee` or both (`Kill`), or the shell the pid
file names and nothing below it (`KillShell`), for `cmd_apply` runs in a subshell of a
pipeline. A child that outlives its `cmd_apply`, `cp` or `install.sh`, goes on to its end and
holds the pipe open, so that `tee` and the shell stay until then: the kill is as good as one
at that later moment.

## 3. The runs

| run | instance | checks | shows |
|---|---|---|---|
| `faults` | 1 connection, ISN 0, 2 faults, timer at any time, fairness | `TypeOK`, `FakeBeforeRelay`, `RelayUndisturbed`, `ServerStreamClean`, `VerdictOnce`, `KeepsGate`, `NoFakeReportTrue`, `ClientNeverStalls` | every interleaving of threads, packets and faults keeps the safety properties and implements `RelayGate`; what the timeout reports of the fake is true; every accepted client is relayed or closed |
| `benign` | 2 connections, wrapping ISNs, no faults, fairness, deadlock checked | `BenignRelays` | without faults both clients are relayed |
| `verdict` | 1 connection, 2 faults | `VerdictMeansFakeSent` **violated** | finding 1 |
| `relays` | 2 clients one after the other (the second from the moment the first is about to close), 3 numbers, 2 segments, room for 1, 1 trouble, fairness | `TypeOK`, `NothingLost`, `WaitersRegistered`, `OwnEvents`, `NoTaskForgotten`, `ConnectErrorExplained`, `KeepsPipes`, `Released` | each relay is two pipes that break together; no event and no wake-up goes astray although numbers are reused; a connect is reported as failed for one of four reasons; a client that ends is released |
| `stale` | the same, 1 segment, no trouble, no fairness | `ConnectErrorIsReal` **violated** | finding 5 |
| `flaps` | 2 addresses, 2 WAN changes, 1 failing call, 1 client, 1 respawn, fairness | `TypeOK`, `InjectorFollowsAddress`, `Recovers` | the monitor always ends with an injector on the current address |
| `watchers` | the same, no fairness | `OneWatcher` **violated** | finding 2 |
| `bind` | the same, no fairness | `HandleNeverRaises` **violated** | finding 3 |
| `parity` | every packet over 3 hosts, 2 ports, 2 protocols, 180 shapes, with and without BPF; 3 lengths of FAKE_SNI, 4 fillings, 7 sums | `TypeOK`, `FilterParity`, `FakeParses`, `FakeVerifies` | raw engine and WinDivert accept the same packets; every fake parses with the lengths its headers say, and verifies |
| `echoes` | 3 fakes, 4 control packets, window 3, bound 1, 2 echoes counted per send, up to 2 copies | `TypeOK`, `FakeNeverJudged`, `WindowOK`, `RepeatsFarApart`, `HeldBackLately`, `InjectedBounded` | the engine shows each packet as WinDivert would, as long as copies arrive within the window |
| `updates` | 2 files, 3 releases (one broken), 1 updater at a time, 1 page, 2 updates, 1 power cut, 1 kill, fairness | `TypeOK`, `WorkingCopy`, `AllOrNothing`, `ServiceIsInstalled`, `SuccessIsReal`, `PageTellsTruth`, `PageEnds` | an update of a working router keeps a working copy at every moment and is all or nothing; a page never shows a stale success, tells the truth if the log is left alone while it reads, and does end |
| `overlap` | 3 files, 2 releases, 2 updaters, 2 pages, no interruption | `NoHalfCopiedTree` **violated** | finding 4 |

Every property of a passing run has a mutant in `PROJECT.json`: a plausible bug,
written next to the definition it replaces, under which TLC finds the
property violated.

### Bounds, and why they are enough

* `SeqMod = 8`, `FakeLen = 3`: with ISN 0 (`faults`) the fake's number,
  `syn_seq + 1 - FakeLen`, lies beyond the wrap; with ISN 7 (`benign`, `verdict`)
  `syn_seq + 1` and `syn_ack_seq + 1` do. The properties depend on the modulus in no
  other way, and the proofs hold for every modulus and set of ISNs.
* One connection in the runs with faults: connections share only the injector
  thread and the capture queue. A second connection can only delay the first
  (`benign` has two), and a delay is already arbitrary when the timer is.
* `MaxTrouble = 2`: two faults reach a lost packet together with its
  retransmission, a duplicate SYN-ACK before and after the fake, a failed send
  followed by a reset.
* `Prompt` (Desync): in `benign` the timer fires only when nothing else can happen
  to the connection; otherwise 2 s may elapse at any moment. `verdict`
  uses it too, so the finding is not an artefact of a slow machine.
* `MaxChanges = 2`, two addresses: a loss and a return, or two changes; with the
  failing call, a third. `Spawn` waits for a free one of the five thread
  identities (`Free # {}`); `Recovers` shows that it never waits for ever.
* `MaxRespawns = 1`: procd allows five within an hour; what a fresh process does
  does not depend on how many there were.
* `parity` is exhaustive over addresses, ports and protocols: the filters compare
  two addresses, one port and one protocol, and one more value of each is all they can
  tell apart. The shapes have both IP versions, headers with and without options, an IP header that is
  too short, frames that are cut or padded and a total length of 0. The names are 11,
  219 and 220 bytes long: the template pads to 219, and a longer name raises. The sums
  carry never, once and twice; the fillings make a ClientHello of odd length count in
  each byte of a word.
* `relays`: the second client inherits one or both numbers of the first one; the third
  number lets its handler start in the very iteration of the loop that closes the
  first one's sockets, so that a handle in the list is cancelled by its successor; two
  segments with room for one make `sock_sendall` wait with data in its hand; one
  trouble is an abort, a refusal or a reset. The proofs hold for all of them.
* `echoes`: the window is cut when a fourth packet arrives and the first can then
  come again; with one entry allowed and three fakes the counters are cleared while
  echoes are to come, and the entry that `recv()` puts back is reached (without the
  `+ 1` in `InjectedBounded` the run fails). Real values are 512, 1024 and 4; the
  proofs hold for all. Fakes are interchangeable, and so are control packets.
* `updates`: two files give a tree that is old, new, mixed or partly removed, in either
  order (`overlap` has three); two updates, a cut and a kill reach an update that follows an interrupted
  one. One updater at a time is an assumption, not a bound: `overlap` shows that
  the properties need it, the theorems state it, and only the page's guard and the
  user's patience provide it. A page that is reloaded counts as another page. One page is
  enough to have its status torn: a start on the command line truncates the
  log as well as another page's removes it; `SuccessIsNeverStale` holds for any number of
  updaters and pages.

Deadlock is not checked where the system may stop: a handler whose socket was
closed under `sock_connect` waits for ever (`faults`, `verdict`), a machine whose WAN
no longer changes has nothing to do (the `Adapter` runs), and so has an engine
without packets (`parity`, `echoes`) and a relay without traffic, or one whose
remaining task waits on a closed socket (`relays`, `stale`).

### Fairness, and why the code justifies it

Weak fairness of the injector, of each handler, of each executor task, of delivery
and of the kernel's connect timeout: threads and coroutines are scheduled by
the operating system and the event loop, a packet in flight is delivered or lost (a
fault), and a lock is held for a bounded stretch of code. The timer is part of the
handler. Nothing is owed of faults or of new clients. In `AdapterMonitor` the poll,
the back-off clock, procd and a thread that has code to run are fair; packets,
failures and WAN changes are not owed, so an injector blocked on a closed socket may
stay there for ever. In `Relay` the loop is fair (one thread, `Loop`), and so is what
others owe it, `Owed`: the kernel answers a connect, the desync reaches a verdict
within its 2 s, and a peer reads what it was sent. Nobody owes a client, a byte or the
end of a stream. One condition for all of `Owed` is enough, because each of these
things happens finitely often. In `Updater` processes run, requests are answered and an open
page polls every 2 s; nobody has to start an update, and `PageEnds` gives up once an
updater has been killed or the log of one was removed while it ran.

## 4. The proofs

`DesyncProofs` proves, for every set of connections, modulus, fake length, set of
ISNs and number of faults (assumption `DesyncAssumption`: a positive modulus, a
fake between 1 and the modulus, ISNs in range, a natural number of faults; and
`NoPacketAssumption`: the null packet is no packet):

| theorem | statement |
|---|---|
| `TypeCorrect` | `Spec => []TypeOK` |
| `FakeIsFirst` | `Spec => []FakeBeforeRelay` |
| `RelayKeepsSockets` | `Spec => []RelayUndisturbed` |
| `VerdictIsFinal` | `Spec => VerdictOnce` |
| `ReportIsTrue` | `Spec => NoFakeReportTrue` |
| `Refinement` | `Spec => KeepsGate` (`Desync` implements `RelayGate`) |
| `StreamIsClean` | `Spec => []ServerStreamClean` |
| `OnlyFaultsMislead` | `Spec => [](trouble = 0 => VerdictMeansFakeSent)` |

**Argument.** None of the properties is inductive: that the relay waits for the
fake depends on who holds the lock while `fake_sent` is set but the packet is not
out. `IInv` adds it, in five parts:

* `LockInv` — a connection's lock is held by exactly the thread that works under it;
* `TaskInv` — `sch_fake_sent`, `fake_sent` and `fakes` tell how far the task is;
* `VerdictInv` — a monitored connection, or one being judged, has no verdict; a
  good verdict implies the send has ended (since `fake_sent` is only visible to
  `Judge` once the executor has released the lock);
* `HandlerInv` — the handler acts on the verdict, and a socket is closed only after
  a bad verdict or by a handler that gave up;
* `IdleInv` — nothing touches a connection before it is registered.

`InvInit` and `InvNext` show it inductive, with a lemma per kind of thread and a
step per conjunct an action can disturb; actions of the environment leave its
variables alone (`InvUntouched`). The safety theorems follow from `IInv`, the
action property and the refinement from `IInv` and the step.

`StreamIsClean` needs to know where the number of the fake comes from. `WireInv` follows
the ISN from the kernel to the server: a SYN in flight, captured or in the injector's
hand carries the kernel's ISN, `syn_seq` is that ISN once it is set, and so is what the
server noted (`irs`); a fake carries `ISN + 1 - FakeLen` (`Numbered`), so it ends right
before the byte the server waits for, which can only take it for old data. The
arithmetic is modulo a symbolic `SeqMod`.

`OnlyFaultsMislead` bounds finding 1. The verdict means that the fake was *called to be*
sent; `SentInv` adds that a send which is over has put a packet on the wire or was
counted as a fault. So the documented meaning holds until the first fault.

`RawEngineProofs` proves, for every window of at least two, every bound and number
of echoes per send, every set of control packets and finite set of fakes
(`RawEngineAssumption`): `TypeCorrect`, `FakeHidden` (`[]FakeNeverJudged`),
`WindowConsistent` (`[]WindowOK`), `CopiesAreDropped` (`[]RepeatsFarApart`),
`NothingElseIsHeldBack` (`HeldBackLately`) and `CountersBounded`
(`[]InjectedBounded`). **Argument.** That a repeated packet is far from its first
delivery is not inductive; `TailInv` says what the window is: the end of `log`, and
at least `Gap` of it whenever something has been cut off. `RememberCuts` describes a
delivery as cutting off nothing or half a window, and the window lemmas follow
from it. A count stays within its type because a fake is counted once
(`CountInv`). For the bound, `BoundInv` counts the entry `recv()` has in its hand
as present; then `StoreCount` adds nothing.

`RelayProofs` proves, for every set of clients, every finite set of file numbers and
every size of buffer (`RelayAssumption`), `NoLoss` (`[]NothingLost`) and
`Refinement` (`Spec => KeepsPipes`: `Relay` implements `Pipes`). **Argument.** That
what was received is what was sent, and the rest is on its way, needs to know which
task holds data when. `DataInv` adds: `Early`, the two sockets of a client are opened
one after the other and closed together, and nothing passes before the relay starts;
`Hand`, a task that goes for more data has empty hands; and `Space`, the kernel never holds
more than it has room for. Every action is a lemma that shows both `DataInv'` and the
step of `Pipes` it maps to (`PipeStep`).

`RelayEventProofs` goes on to the selector, under the same assumption. It proves

| theorem | statement |
|---|---|
| `EventsReachTheirTask` | `Spec => []OwnEvents` |
| `WaitersStayRegistered` | `Spec => []WaitersRegistered` |
| `NoLostWakeup` | `Spec => []NoTaskForgotten` |
| `ConnectReportHasReason` | `Spec => []ConnectErrorExplained` |
| `TypeCorrect` | `Spec => []TypeOK` |

*Events.* Whatever numbers are reused, and whichever stale keys remain, an event
the kernel reports is handed to the task that waits for the socket which has the number
now. It holds because of what `AddHandler` refuses. `Keys` says that a key names a task that waits for a socket
which has, or had, that number; `Heard` that what the kernel reports of a number is
awaited on an open socket; `AllOrNone` that the kernel reports of a number all that
asyncio has a key for, or nothing, which is why a stale key makes `epoll_ctl` fail
and never listens for the newcomer; `Numbers` that two open sockets have different
numbers, for which the lowest free number has to exist (by well-foundedness of the
naturals).

*The list.* A task leaves the selector in two steps: the kernel reports it, and a
callback runs later. `ListInv` says what an item of `ready` may assume about its
task when its turn comes (`Fits`), that a task has one item at most, that what the kernel
reported is in this iteration's batch, and that a task has a future exactly while it
waits for a socket. `Select` needs the set of reported tasks to be finite: there
are no more than keys.

*Waiters.* That a waiter keeps its key is threatened by `RemoveHandler`, which removes
whoever is registered at the number *now*. `TurnInv` shows that this never hits the next
client unless that client inherited a key. `Held`: a task on the list which will take its
handle out finds its own there, or was cancelled, or its socket is closed and the failed
registration of a newcomer has wiped the key. `Young`: before a task whose socket was
closed has had its turn, the next socket with its number gets no further than the
connect, because its own turns come later on the list. `One` and `Own` describe the old keys: a
number has one at most, and an open socket whose client did not inherit has none.

*Wake-ups.* `Caring` is `NoTaskForgotten` over the whole list; it rests on `ListInv`. The step that
matters is `WaitVerdict`: a verdict may come before its task waits for it, and then the
task has to put itself on the list again.

*Reports.* `ConnectErrorExplained` needs the whole history of a connect. `Excusing(c)`: a
future that failed, and the socket closed under the connect, have one of the four
causes; what the selector reported of a connect it reported after the server's
answer, since a reset cannot come before it; and before the connect there was no
answer. A connection that is reset after it came up and before the loop has looked at it
fails too: `_sock_connect_cb` raises what `SO_ERROR` holds (`con[c] = "reset"`). Most actions only do to a client what `Minor` allows, which keeps `Excusing`.

*Types.* `TypeInv` bounds the streams by what the peers wrote, and shows that only tasks are
cancelled, which `RemoveHandler` owes to its look at the key.

`AdapterMonitorProofs` proves `TypeCorrect` and, under `Prompt`, `FollowsAddress`
(`[]InjectorFollowsAddress`), for every set of addresses, threads and clients and
every number of changes and failures. **Argument.** `FollowInv`: a thread is only
starting while the monitor sleeps, and for the published address; from the moment
the monitor has stopped an injector to the next start none is registered; and the
registered one, while the monitor sleeps, has the address of the latest tick.

`CaptureFilterProofs` proves `Parity` (`[]FilterParity`), `TypeCorrect`,
`FakeIsReadable` (`[]FakeParses`) and `FakeIsAccepted` (`[]FakeVerifies`) for all sets of hosts, ports, protocols, shapes and
names, if the flow's two ends differ (`DirectionsDiffer`) header lengths are counted in words and
a frame was captured whole (`ShapesAssumption`), the fillings are bytes, and the words
before the payload are at most the 6 of the pseudo header and 30 of a TCP header
(`SumsAssumption`): `Known` says what the kernel knows of the
packet at each instruction, `RecvClauses` that the clauses of `recv()` together are
WinDivert's filter, and the lengths follow a packet through `parse`, the template
and `to_bytes`. It rests on `CodecProofs`: two folds leave at most 16 bits of any sum
of up to 65535 words (`TwoFolds`), so the receiver accepts what `_checksum` computes
(`ChecksumVerifies`); the words of any string of bytes add up to at most
65535 per word (`WordSumBound`), so a fake stays far below that limit; building and parsing are inverse (`RoundTrip`); and the
ClientHello has 517 bytes whatever the name (`HelloLength`).

`UpdaterProofs` proves `TypeCorrect`, `WorkingCopySafe` (`[]WorkingCopy`),
`UpdateIsAtomic` (`[]AllOrNothing`), `ServiceFollowsTree` (`[]ServiceIsInstalled`),
`SuccessIsNeverStale` (`[]SuccessIsReal`) and `PageIsTruthful` (`PageTellsTruth`) for every
number of files, releases, pages, updates and interruptions (`UpdaterAssumption`);
`TypeCorrect` and `SuccessIsNeverStale` for any number of updaters at once, the others under
the hypothesis that `Updaters` has at most one member. **Argument.** `WorkingCopy` alone
says nothing of *which* of the two directories is whole at a given step. `IInv` ties
that to the stage: the tree is as found until the backup equals it (`Kept`), the
backup stays until the whole new tree has passed the import check (`Progress`),
and the rollback removes the tree only if the backup is a complete one
(`Restoring`). `AlwaysACopy` collects the stages into the property, which then
carries over the idle time after an end, a kill or a power cut (`EndKeeps`). For the
page, `Logged` says that a log with an `EXIT:` line is the log of an update that has
ended and after which none has begun, `Heard` that a page that has read a code is not
older than the update that wrote it, and `Fresh` that what it has read still stands in the
log unless that was torn. The last condition is part of `PageTellsTruth` because the code
needs it: without it the page may lie (section 5).

`WordSum` is a recursive function. That it is defined at all (`TotalsExist`), and what it is
bounded by, is an induction over the length of the pieces it is made of; the library's induction theorem takes
an operator as a parameter, so `CodecProofs` states induction over a *set* of numbers
(`Induction`) and derives it from the least element of a non-empty set. What
`WordSum` computes is left to TLC: the theorems only use its bound.

**Only model-checked:** the liveness properties (`ClientNeverStalls`,
`BenignRelays`, `Recovers`, `Released`, `PageEnds`), since liveness and ENABLED are
outside this prover's reach. Every other property of a passing run is the statement of a
theorem. The violated properties of section 5 are counterexamples, and nothing to prove;
`OnlyFaultsMislead`, `ConnectReportHasReason` and `PageIsTruthful` say how far three of them
reach.

## 5. Findings

1. **A verdict without a fake** (`fake_tcp.py:60`, run `verdict`). `fake_sent` is
   set before a send whose exception nobody sees; any pure ACK then counts as the
   acknowledgement of a fake that never left, and the real ClientHello is relayed
   unprotected.
2. **Two injectors after a flap** (`main.py:479`, run `watchers`). A stopped
   injector that sleeps in `recvfrom()` wakes with the first packet after the same
   address has returned and clears the global that names its successor; the monitor
   starts another one. From then on every handshake ACK is judged twice and every
   connection is torn down. (On Linux, closing an `AF_PACKET` socket
   leaves another thread's `recvfrom` asleep until the next packet.)
3. **A client at the wrong moment ends the process** (`main.py:193, 250`, run
   `bind`). Within 2 s of an address change `bind` raises, and the handler exits the
   whole process.
4. **Two updates at once leave a half-copied tree** (`update.sh:185`, run
   `overlap`). `update.sh apply` takes no lock, and the test in the rpcd method only
   sees updaters rpcd has started and that have already written the pid file. Both
   updaters use one backup directory; when both fail, the second rollback restores
   a backup the first had not finished.
5. **A client inherits a dead relay's file number** (`main.py:161`, run `stale`). The
   end of one direction closes both sockets while the other task still waits in
   `sock_recv` for one of them. The kernel forgets the number, asyncio's selector
   keeps the key. The next connection with that number cannot be registered:
   `sock_connect` raises `FileNotFoundError` out of `epoll_ctl`, and the handler
   reports that it could not connect (`main.py:205`) and drops the client, though the
   server answers. With clients one after the other, on Python 3.11, every second
   pair fails. `ConnectReportHasReason` names all the causes of that report: a server that
   refused, a connection reset before the loop had looked at it, such a number, and an
   abort by the injector. Under the last two the report is wrong.

More things the model shows without a run of their own:

* `report_desync_timeout` is only called after `sock_connect` succeeded, so a SYN-ACK did
  arrive; "never answered with SYN-ACK" (`main.py:306`) is printed exactly when the
  *capture* missed it.
* A `FAKE_SNI` of more than 219 bytes makes the template's `struct.pack` raise in
  `handle()`, which exits the process with the first client.
* When the server closes first, `handle()` sleeps in `sock_recv` on a socket the other task
  has closed: it never ends, and "Client disconnected" is never printed.
* **A failure that was none.** A status finds `EXIT:` in the log (`luci.sni-spoof:105`),
  another start truncates or removes the log, and the search for `EXIT:0` (line 106) finds
  nothing: the page says "The update failed. The previous version was restored; see the log
  for details." (`settings.js:96`) after an update that succeeded, with one updater at a
  time. `PageTellsTruth` without `g \notin torn` is violated.
* **A page that polls for ever.** Of two requests that both find no updater
  (`luci.sni-spoof:75`), the second may remove the log (line 90) that the first one's updater
  writes to, and start none itself. The `EXIT:` line goes into the removed file, although
  "its presence means it is done" (line 104). `PageEnds` without `stray` is violated.
* A rollback does not restore the init script and the LuCI files, which is why
  `AllOrNothing` says nothing of `outside` after a failure, although the page says "The
  previous version was restored".
* An update that follows an interrupted one begins by deleting the backup, the only
  complete copy there is: if it fails too, no complete release is left (a state of the
  instance `updates`).

`Recovers` is not in conflict with 2 and 3: it says that *some* injector watches
the address and counts a respawned process as recovered.

## 6. Not modelled, and why

* **Address lookup, socket options, menu, configuration, self test**: system calls
  and output without state; their results are inputs of `AdapterMonitor`.
* **Scapy**: the fallback of macOS and BSD, marked experimental by its author. It has
  no memory of seen packets and sends through the library, so that what it shows
  depends on libpcap and on Scapy, not on this code. **WinDivert**: only its filter.
* **Field values of a packet**: the codec is modelled in lengths and sums. Addresses,
  ports, flags and sequence numbers are copied by it, and are modelled where a filter
  or the state machine looks at them. `ServerHelloMaker` and the template's parsers
  are never called.
* **Shutdown** on Ctrl-C: the process ends, and the kernel with it closes what is open.
* **A reused local port** (`main.py:242`): a new connection with the four-tuple of
  one the injector has just closed. Connections have an identity in `Desync`.
* **Packages, UCI values, LuCI form**: their content does not influence the steps of
  an update.

## 7. Order of work, and what is left

The modules were written in this order, each with its instance, its mutants and then
its proofs: `Desync` with `RelayGate`; `AdapterMonitor`; `RawEngine` and
`CaptureFilter`; `Updater`; `Codec`; `Relay` with `Pipes`.

Left:

* port reuse in `Desync`, as a connection whose identity returns while packets of its
  predecessor are in flight;
* the reads of `INTERFACE_IPV4` in `handle()` and an injector that is stopped before it has
  opened its sockets: both are in `AdapterMonitor`, and no property speaks of them yet;
* an update that follows an interrupted one, and what is outside the program directory
  after a rollback: both are states of `Updater` of which no property promises anything.
