# A verification project for usque-rs-bsd

usque-rs-bsd is a MASQUE (CONNECT-IP over HTTP/3 over QUIC) client for FreeBSD: it registers a device,
keeps a TUN interface, and moves IP packets between that interface and one QUIC connection to one of
several endpoints. This directory holds TLA+ specifications of the parts of the program that keep
state, the TLC configurations that check them on small instances, and TLAPS proofs of what matters most.
Paths are relative to the repository; `masque.rs` is `src/api/masque.rs`, and so on.

    tlc -workers 2 -config pump_upload.cfg PacketPump      # one run
    tlapm PacketPumpProofs.tla                             # one proof module

## 1. Inventory

| Part | State it keeps | Operations | Hard behaviour |
|---|---|---|---|
| Supervisor, `masque/supervisor.rs` | `endpoint_index`, `pending_pkt` | `maintain_native_tun` | every failure of a session returns here; rotation; the packet that woke an idle tunnel must outlive failed attempts |
| MASQUE session, `masque.rs`, `masque/handshake.rs` | QUIC and HTTP/3 connection, `session_established` | `run_tunnel_session`, `complete_quic_handshake`, `wait_connect_response` | a dozen ways out, some of them between an announcement and its retraction; a deadline that is looked at between waits of quiche's choosing; events that arrive together |
| Packet pump, `masque.rs` `data_loop` | `tx_queue`, two channels, deadlines | TUN reader task, loop, `queue_tx_datagrams`, `drain_incoming_datagrams` | two tasks in parallel, bounded queues, backpressure, burst budgets, an aborted task that is not awaited |
| TUN device, `native_tun.rs` | MTU, IPv6 address, both cached | `apply_path_mtu`, `set_ipv6_enabled` | several system calls, each may fail |
| UDP batch I/O, `masque/udp.rs` | reused buffers, lengths and send times | `flush_quic`, `drain_quic`, socket-buffer tuning | partial `sendmmsg`, pacing, readiness |
| Device-state reporter, `device_state.rs` | watch channel, metrics lock | `connected`, `disconnected`, `update_tunnel_metrics`, `run_reporter` | a task that reads two pieces of state one after the other and awaits HTTPS in between |
| Registration, `commands.rs` with `cloudflare.rs`, `mesh.rs`, `access.rs` | the account on the server | `register`, `mesh_register`, `enroll`, version refresh | a network call and a file write that must agree, and may each fail |
| Configuration, `config.rs` | `config.json` | `load`, `save`, `save_sensitive`, `select_endpoints_from_config` | the file is truncated before it is rewritten |
| Path MTU, `masque.rs` with `timing.rs`, `icmp.rs` | `applied_pmtu`, the interface's MTU | apply a discovery, refuse a packet, revalidate | a packet accepted under one MTU meets the space of another path |
| Startup, `commands.rs` `run_tunnel` | what has been done so far | check options, refresh, probe, reporter, interface | checks and effects alternate, a failure may come after any of them |
| Framing, packet rewriting (`connect_ip.rs`, `packet.rs`) | none | pure functions | boundaries |
| Statistics, hooks (`stats.rs`, `hooks.rs`) | counters, child processes | `spawn_stats_task`, `run_hook` | detached tasks |
| MDM parser, host telemetry, command line (`mdm.rs`, `freebsd_telemetry.rs`, `main.rs`, `internal.rs`) | none that outlives a call | | |

The parts meet in five places. `run_tunnel` prepares what the supervisor is given. The supervisor calls the session and gets back only an error and whether
`session_established` was set. The session calls the pump, which calls `apply_path_mtu` on the device the
supervisor restores afterwards. The session tells the reporter `connected` and `disconnected`; the pump
feeds it metrics. The pump's two tasks share two channels. Nothing else is shared, so each part is a module
and what it sees of the others is a few actions.

`PROJECT.json` lists the components, the hazards at their lines, and which property watches which.

## 2. Modules

### TunDevice and TunnelSupervisor

`TunDevice` is `native_tun.rs`: `tunMtu`, `ipv6` and `job`, the call of `apply_path_mtu` in progress. The call is
not atomic in the model because it is not atomic for the host: each system call is a step, and each may fail and
end the call.

`TunnelSupervisor` EXTENDS it with `maintain_native_tun` and `run_tunnel_session`. `pc` says where the single
task stands; one action is one stretch of code between two awaits or two observable effects.

| pc | code | actions |
|---|---|---|
| `top` | first `apply_path_mtu` of an iteration | `DeviceStep`, `DeviceFault`, `Exit`, `StartAttempt` |
| `idle` | `recv_packet` while on demand | `OutboundActivity`, `TunClosed` |
| `dial` | TLS material, quiche configuration, socket, first flight | `Dial`, `DialFails` |
| `handshake` | `complete_quic_handshake`, key pin, HTTP/3 and CONNECT request | `HandshakeDone`, `HandshakeFails` |
| `connect` | `wait_connect_response` | `ConnectAccepted`, `ConnectRefused` |
| `probe`, `pending` | activation probe, captured packet | `OpeningSent`, `PendingFails` |
| `online` | `data_loop` and the teardown after it | `PathMtuFound`, `PathMtuApplied`, `SessionEnds` |
| `restore`, `sleep` | second `apply_path_mtu`, rotation, delay | `SelectNext`, `Exit`, `Wake` |

Endpoints are the environment: each is up, refuses the connection, rejects the request or answers nothing, and may
change its mind at most `MaxFaults` times, a budget it shares with local faults. `last` is a history variable.

`TunnelPath` is what the host is promised of the interface, with three variables and no endpoints, handshakes or
system calls. `PathSpec` is `TunnelPath!Spec` under the mapping at the end of `TunnelSupervisor`: a session begins
with the 2xx answer and is over when the conservative interface is back.

### PacketPump

Two processes. The reader (`rpc`) takes a buffer from the recycle channel, a packet from the device, and hands it to
the channel. The loop (`mpc`) goes through the stages of one iteration: `receive` (drain the socket, flush, poll
HTTP/3), `deliver`, `collect` (channel to `tx_queue`, one `try_recv` at a time because the reader runs in between),
`queue` (`queue_tx_datagrams`, one item at a time), `control` (flush, end, or continue), `select`. quiche is what the
loop can see of it: a bounded DATAGRAM queue, a congestion window, a receive queue, timers, and a state. Packets are
numbers, so order, loss and duplication are visible; `read`, `dropped` and `sent` are history.

`LossyFifo` is the promise: accept at one end, deliver prefixes at the other, drop only while open, and lose what is
inside at the end. `FifoSpec` is `LossyFifo!Spec` with the four queues read as one.

### H3Session

The HTTP/3 streams of one session, from `wait_connect_response` to the end of `data_loop`, looked at where `PacketPump`
has a single choice. `streams` is what the peer sent and quiche has not given out; `HasHeaders`, `HasData`,
`HasFinished`, `HasReset` are the contract of `quiche::h3::Connection::poll` as the code relies on it: headers first, one
Data until the body has been read, Finished only behind the body. `Terminates` is `connect_ip_termination_reason`;
`Flush` is `flush_h3_stats_report` with its three answers; `StartReport`, `ContinueReport` and `NoReport` are the middle of
`data_loop`. `delivered` is history.

### UdpBatch and SocketTuning

`UdpBatch` is `udp.rs` on FreeBSD. The three arrays by slot are `tx_buffers`, `tx_lens` and `tx_at`, kept apart because
the code keeps them apart and a receive overwrites one of them. `pc` walks through `flush_quic` (`fill`, `pace`, `send`,
`writable`) and `drain_quic` (`receive`); `wait` is the rest of the program. `readable` and `writable` are Tokio's marks:
`try_io` calls the kernel only under the mark and clears it only if the kernel answered EAGAIN. `Transmit` and `Arrive`
are the kernel.

`SocketTuning` is `tune_socket_buffer` as a transition system, one attempt per step, so that its termination is a
question. Defaults, limits and targets are all chosen in `TuneInit`.

### DeviceReporter

Two tasks. The tunnel's side is the order in which `run_tunnel_session` and `data_loop` call the reporter: `connected`,
metrics, metrics cleared, `disconnected`, or the early return of section 6. The reporter's side is `run_reporter`: woken
by the channel or the heartbeat (`Changed`, `Heartbeat`), it reads the state, then the metrics (`SendReport`), then awaits
the request (`posts`), which is processed or not (`Processed`, `NotProcessed`). A session is a number, so a report that
mixes two sessions is visible. `server` is the inventory entry.

### Registration

Each command is a process `p` with a `job`; `server` is the account and `file` is `config.json`, shared without a lock, as
in the code. `Truncate` and `Write` are the two halves of `fs::write`. `Killed` may strike anywhere. A
configuration counts as backed when its device exists and its key and version were once accepted. `alone` is history.

### Handshake

`TunnelSupervisor` takes `complete_quic_handshake` and `wait_connect_response` as one step each; `Handshake` opens them. Both
are a `select!` between a datagram (`Receive`) and a sleep (`TimerFires`), followed by a flush. `Tick` is a unit of time. The
sleep is what quiche asks for: `Timeouts` is `conn.timeout()` or the fallback, `closeIn` the idle or draining timer behind it.
`Receive` may establish the connection, close or reset it, and bring up to `MaxEvents` HTTP/3 events at once; `Verdict` is the
first of them that makes `poll`'s loop return. `Verify` is the key pin with the request behind it. The deadline is looked at in
`ResponseFlushed`, where the code looks at it. `heard` is history.

### PathMtu

The part of `data_loop` that `PacketPump` leaves out: `Discovered` and `CapTunMtu` are `timing.rs`, `Apply` is the call of
`apply_path_mtu` (one step here, system call by system call in `TunDevice`; after `ApplyFails` the MTU is the old or the new one), `QueueDatagram` with `Refusal` the two outcomes
of a packet in `queue_tx_datagrams`, `Revalidate` the timer that makes quiche search again. `Probed` and `PathChanges` are
quiche and the network; `HostSends` reads packets of any size the interface admits at that moment, which may be refused much
later. `told.settled` records whether a discovery had been applied then.

### TunnelStartup

`run_tunnel` from the command line to the supervisor, stage by stage (`at`), over every command line of `Command`. What a
stage asks of the file or of the network is chosen there; `did` is what others could see of it. `Workable` is `DeviceConfig` and
`SupervisorConfig`, the assumptions of the modules behind it. The private key of the file is decoded only after the
interface exists, so `CreateInterface` may still be refused.

### TunnelSystem

The tunnel task and the reporter task together. Its tunnel side is `TunnelSupervisor` itself: `SessionAnnounced`,
`UpdateTunnelMetrics`, `ClearMetrics` and `DisconnectedAnnounced` are steps of it with the call on the reporter that the code
makes there, and `Unheard` are all the others. Its reporter side is `DeviceReporter`, instantiated with `ReporterPhase`, which
reads off the supervisor's state what `DeviceReporter` calls its phase. `ReporterSpec` says that the one implements
the other, the early return of section 6 included. `DeviceReporter` has an account of the tunnel task of its own, small
enough for three sessions; here that account is shown to be the program's.

### EndpointSelection and Keeping

`select_endpoints_from_config` on every configuration that `SelectInit` offers, turn by turn: `turn` is where the three nested
loops are (peer, family, port), `Offer` is one pass of the innermost (push unless `seen`), `SkipFamily` the `continue`,
`Refuse` the two `?`, `Finish` the check and the stable sort behind the loops. The reference it is compared with has no loops:
`Places` are the places where the configuration names an endpoint, `Named` what it names there, `Precedes` the order of two
endpoints. The host name of an endpoint takes no part in its selection and is left out.

`Keeping` has the one loop over data that several modules need: `Keep(s, S)` is what a loop keeps of `s` when it skips
everything outside `S` (the `filter` of the ports, the stable sort read as three passes, the datagrams that fit a buffer). It is
written as a recursive function of the position, because `SelectSeq` of the standard modules, whose test is an operator,
cannot be reasoned about with the prover.

### MCSetup

`MCSetup` holds the port lists, and joins `EndpointSelection`, `SocketTuning`, `TunnelStartup`, `Handshake` and `PathMtu`
for TLC, which share no variable: a behaviour is one of the five, and the variables of the others stand still.

## 3. Runs

| Run | Constants that matter | What it shows |
|---|---|---|
| `supervisor_on_demand` | three endpoints, on demand, path discovery, an IPv6 tunnel, MTUs on both sides of 1280, two faults | `Ipv6NeedsMinMtu`, `OnDemandHasPacket`, `FallbackOnlyAfterFailure`, `PendingSurvivesFailure`, `PathSpec` |
| `supervisor_mesh` | `TunnelSystem`: always reconnecting, finite idle timeout, probe, two endpoints, two faults, two sessions, the reporter beside it | `LifecyclePaired`, `EventuallyEstablished`, `ReporterSpec`, `InventoryFollowsTunnel` |
| `pump_upload` | pool 3, queue 2, bursts 1 and 2, DATAGRAM queue 2, window 1, five packets, one oversize, one refused | `BufferConservation`, `EveryPacketAccounted`, `ReaderDrained`, `NoStrandedPackets`, `FifoSpec` |
| `pump_progress` | an endless download against a receive budget of two, three deadlines | `UploadProgress`, `DeadlinesMetWhenQuiet` |
| `h3_session` | CONNECT stream and one report of three parts | `AuxiliaryIsolated`, `ReportsWhole`, `TerminationSeen`, `ReportsGoOn` |
| `udp_batch` | batches of two, send buffer of one, four datagrams, two arrivals of any kind, a deadline | `WireExact`, `NotBeforeItsTime`, `ReceivedExact`, `AwaitsWithCause`, `ComesToRest` |
| `reporter` | three sessions | `StatsNotOlder`, `InventoryNotBackwards` |
| `registration` | two processes, two versions, three keys, one fault | `ConfigIsBacked`, `CompletedAgrees`, `RefreshReachesVersion` |
| `setup` | `MCSetup`: every command line over two MTUs and three periods; up to two peers, two IPv4 addresses, one IPv6, two keys, five lists of ports; every buffer size up to 16 granules; a deadline of 3, idle timeout of 0 or 4, two events a datagram; paths with room for 3, 4 or 6 against an interface of 3 to 4 | `FailsClosed`, `SelectedAsDefined`, `TunedAsFarAsPossible`, `OnlyPinnedEndpoint`, `AnswerDecides`, `GivesUpInTime`, `ResponseWaitEnds`, `SilenceIsNoticed`, `TooBigIsUseful`, `MtuFollowsPath` |
| `finding_*` | see section 6 | one violated property each |

`PROJECT.json` says of each run in a sentence what it shows. The type invariants are proved (section 5) rather than checked
in every run.

The bounds are the smallest at which every queue can be full while the next one is not, a burst can end with items
left, rotation can wrap around and return to the preferred endpoint, and a fault can follow a fault. In `pump_upload`
five packets are more than the pool, the channel and `tx_queue` hold together, so every limit is reached with one
packet outstanding. In `udp_batch` a batch is larger than the send buffer, so partial sends are the rule, and four
datagrams need a second batch in the same buffers. In `registration` three keys allow two commands that
each make one; two versions allow an upgrade and a downgrade; the file may be of another version from the start, so the
one fault is free for a kill or a failure in the refresh. In `h3_session` a report of three parts can be
taken whole, in two unequal pieces, or one by one. In `reporter` three sessions let the channel
swallow a whole one. Two or three endpoints and two faults give a wrap, a return after a session, and an endpoint that
changes while it is being dialled. In `supervisor_mesh` two sessions suffice for what the watch channel can
do wrong to the inventory, a missed change and a lost report, because the reporter's own properties are checked with three.
In `setup` the lists of ports have a port to ignore, both special ports, their inverse order and a repeated port, and two peers
may share an address, a key or both. There the idle timeout is one more than the deadline, so that the
last wait overruns it; two events let an answer arrive behind another event, and a second one behind the answer; the three
spaces leave an interface below its initial MTU, at its largest, and capped. The proofs of section 5 remove the bounds for the safety properties.

The runs turn deadlock checking off, because each of these systems may stop: the supervisor when the TUN device fails,
the pump and `H3Session` when the session ends, `UdpBatch` when the socket fails, the reporter when its clients are gone,
`Registration` when no command is left that the bounds allow, the parts of `MCSetup` with their result.

## 4. Fairness

`FairSpec` of `TunnelSupervisor` is weak fairness of `Progress`: the single task runs, and an endpoint that answers does
so in the end. Nothing in `Chance` is fair: endpoints need not change, packets need not arrive, sessions need not end.

`FairSpec` of `PacketPump`: weak fairness of each task (tokio's multi-threaded runtime polls a woken task), of
acknowledgements (a peer that never acknowledges ends the connection, which `SelectTimer` models) and of the timers.
Between the branches of `select!` nothing is fair. It starts at a random branch, but `masque.rs:817` makes a new sleep in
each pass, and tokio rounds a sleep up to the next tick of a millisecond, so even one of length zero is pending when first
polled: a socket that is readable each time wins each time. Two more facts are assumed. `QuicTimerNext`: a QUIC timer that one sleep has
left is at zero at the top of the next pass, hence the earliest when a sleep next elapses. `ClosedPeerStops`: a peer that
has closed the connection sends only finitely many packets more (RFC 9000, 10.2); otherwise they would hold back the timer
that ends the draining connection. The network, the reader's packets and the end of the session have no fairness.
`FairSelectSpec` adds strong fairness of `SelectTimer`, which tokio does not give. Only `finding_keepalive_starved` uses it,
to show that its starvation does not depend on the order of the branches, for `select!` is not reached at all.

`H3Session`: the task and the timers run, and a peer that keeps a report stream open grants it credit in the end; the
peer never has to answer, send or end anything. `UdpBatch`: the task is polled when it can go on or when its socket is
marked readable, the clock advances, the kernel transmits; nothing arrives by fairness. `Registration`: a started process
runs to its next step, `run_tunnel` is started again now and then, and the
server does not refuse or miss every attempt (strong fairness of `EnrollKey`).

`FairSystemSpec`: weak fairness of the tunnel task, of the reporter task and of its interval; a request is answered or fails,
which is an assumption about the network, for the POST has no timeout of its own (see the hazards); and not every
report is lost (strong fairness of `Processed`). `UpdateTunnelMetrics` and the end of a session are not fair.

`HandshakeFairness`: weak fairness of the task, and strong fairness of `Tick`: time passes, although each datagram that
interrupts a wait disables it for a moment. The endpoint and the socket have none. `PathMtuFairness`: the loop runs; quiche and
the path have none.

## 5. Proofs

| Module | About | Listed theorems |
|---|---|---|
| `TunnelProofs` | `TunnelSupervisor`, `TunnelSystem` | type, inductive invariant, six properties, two refinements, what the composition inherits |
| `PacketPumpProofs` | `PacketPump` | type, inductive invariant, four properties, one refinement, the bound of a pass |
| `DeviceReporterProofs` | `DeviceReporter` | type, two properties |
| `RegistrationProofs` | `Registration` | type, two properties |
| `UdpBatchProofs` | `UdpBatch` | type, inductive invariant, four properties |
| `H3SessionProofs` | `H3Session` | type, two properties |
| `SetupProofs` | the five parts of `MCSetup` | types, seven properties, the end of the tuning and of a silent exchange |
| `KeepingProofs` | `Keeping` | lemmas for `UdpBatchProofs` and `SetupProofs` |

Every safety property that a passing run checks is stated by a theorem.

`TunnelProofs`, first part, proves for every endpoint list, set of MTUs and configuration that the ASSUMEs allow:
`TypeOK`, `Ipv6NeedsMinMtu`, `OfflineIsConservative`, `OnDemandHasPacket`, `FallbackOnlyAfterFailure`,
`PendingSurvivesFailure`, `LifecyclePaired` for tunnels that never wait for traffic, and `PathSpec`. None of them is
inductive. `Ipv6NeedsMinMtu` needs to know, at every step inside `apply_path_mtu`, what the earlier steps did
(`DeviceInv`); `OfflineIsConservative` needs that the job in progress at `top` and `restore` asks for the initial
configuration and how far it is (`CapacityInv`); the other two relate `index`, `last` and `pending` to `pc`
(`RotationInv`, `OnDemandInv`). `IInv` is the conjunction; `InductiveInvariant` proves it. `PairedUnlessDetached` says for every
configuration that the failure section 6 shows is the only way past the teardown: unless a statistics task has been detached,
everything is paired.

Its second part is about the two tasks together. `ImplementsSupervisor`: every step of `TunnelSystem` is a step of the supervisor or
leaves its variables alone, so the composition has all of the above (`SupervisorOfTheSystem`, `AlwaysPairedInTheSystem`).
`ImplementsReporter` proves `ReporterSpec` for every configuration and any number of sessions. The invariant (`CallInv`) says
that an attempt has no session yet and that `disconnected` is only cut in two behind `data_loop`; then every step of the
supervisor is one of the tunnel steps of `DeviceReporter`, or none. `ReportsOfTheSystem` draws the conclusion: the theorems of
`DeviceReporterProofs`, instantiated with `ReporterPhase`, hold of the two tasks together. `ChannelHoldsLastAnnouncement` ties the
two halves: the supervisor's history variable `reported` is what the watch channel holds.

`PacketPumpProofs` proves, for every pool, queue, burst and window, `TypeOK`, `BufferConservation`, `ReaderDrained` and
`NoStrandedPackets`. The strengthening ties `rpc` to `held`, conserves buffers, says that a closed reader has left nothing
behind it in the channel, and that a full DATAGRAM queue after a flush means the window is used up.
The same module proves `FifoSpec` and `EveryPacketAccounted` from it, with lemmas about moving an item from the
head of one sequence to the tail of the next and about the members of a sequence. `PassesEnd` is termination as a safety property:
`PassLeft`, a number between 0 and 2 * TxQueueLen + 6, falls with every step of a pass, and nobody but the loop changes it.

`DeviceReporterProofs` proves `TypeOK`, `StatsNotOlder` and `InventoryNotBackwards` for any number of sessions. A report
is built from two reads, so the invariant orders everything in flight along the tunnel's history: what the service holds
is not after what a pending report says, nor that after what the reporter has read, nor that after the channel.

`RegistrationProofs` proves `TypeOK`, `ConfigIsBacked` and `CompletedAgrees` for any number of concurrent processes, releases, keys and
faults. The invariant adds that whatever a command is about to save is backed already (`SavesBacked`); it is kept because
the server only learns (`Preserved`), so one process cannot invalidate what another is about to write. For `CompletedAgrees`
the invariant (`AloneInv`) says that beside a process that is alone no other runs, that what it will save keeps what it
found (`Keeps`), that the account has its key from the accepted update on, and the file its configuration from the write on.

`UdpBatchProofs` proves `TypeOK`, `WireExact`, `NotBeforeItsTime`, `AwaitsWithCause` and `ReceivedExact` for every batch size, send buffer and
number of datagrams. `BatchInv` says that the slots hold the last `batch.count` datagrams made, with their lengths and times,
that the kernel has exactly those before `batch.sent`, and that what is between `batch.start` and `batch.end` is due. `Receive`
writes `tx_lens` too, which is harmless because no slot counts then. `MarksTrue` relates Tokio's marks to the kernel. For
`ReceivedExact`, keeping from one batch and then from the next is keeping from both (`KeepConcat`), and a length that is not
zero is a datagram that fits (`BatchReceived`, `KeepAlike`).

`H3SessionProofs` proves `TypeOK`, `AuxiliaryIsolated` and `ReportsWhole`, for bodies of any size and any number of reports:
`written` is the length of what the peer has, which is a prefix of the body, and every older report is whole or stopped.

`SetupProofs` has the five modules of `MCSetup`. `FailsClosed`: at each stage the checks behind it have passed
(`Passed`). `TunedAsFarAsPossible`: accepted sizes are at most the limit and `high` is above it; the midpoint, rounded
down, is less than a granule below the middle (`RoundedDown`, `MidpointBounds`), so the search stops within two granules, for
any granularity. `OnlyPinnedEndpoint` and `AnswerDecides`: no stage behind the pin is reached without it (`PinInv`), and
nothing that decides has been heard while a wait goes on (`Undecided`). `GivesUpInTime`: a wait begins before the
deadline, and what is left of it bounds the rest (`WaitInv`). `SilenceEndsByCounting`: with an idle timeout a wait is at
most what is left of that timer (`TimerInv`), so the stage, the time left, the turns left and the wait itself fall in
lexicographic order. `TooBigIsUseful`: during a burst `applied` is what quiche has found,
so the interface's MTU is the space less the prefix, or less (`MtuInv`). `TuningEnds`: `TuneLeft` falls with every attempt to set a size.

`SelectedAsDefined` is about what three loops and a sort do to a list of any length. The invariant (`SelectInv`) says that what has
been pushed is what is named at the places behind `turn`, each endpoint once, in the order of the first place that names it
(`Pushed`), and that the peers behind it are usable; `NextTurn` shows that a turn passes exactly one place. The sort is three
passes of `Keep`; that `Keep` keeps members and their order makes it stable (`SortedStably`).

`KeepingProofs` is induction over data, which the library's induction theorems do not offer here, because they take the
induction hypothesis as an operator. It goes through sets instead: a set of numbers with a member has a least one (`LeastMember`,
from the well-foundedness of the numbers), so the set of counterexamples is empty (`BoundedInduction`). With it the recursive
function `Kept` is shown to exist and to satisfy its recursion (`KeptDefined`, `KeptTurn`), and `Keep` to have the members of the
sequence that are in the set (`KeepMembers`), taken at rising places (`KeptPlaces`), and to distribute over concatenation
(`KeepConcat`).

The theorems assume the ASSUMEs of the modules, which TLC evaluates in every run: `DeviceConfig`,
`SupervisorConfig` (`Workable` of `TunnelStartup` shows that `run_tunnel` establishes it), `PumpConfig` (how `run_tunnel_session`
clamps the sizes), `UdpBatchConfig`, `SocketTuningConfig`, `HandshakeConfig`, `PathMtuConfig`, `StartupConfig`, `ReporterConfig`,
`SystemConfig`, `RegistrationConfig` and H3Session's (the types of the bounds). `SelectionConfig` (the types of the port lists and
options, and that a blank and an unusable value are neither addresses nor keys) joins them.

Left to TLC: every liveness property, because the prover has no rules for fairness and ENABLED: `EventuallyEstablished`,
`InventoryFollowsTunnel`, `UploadProgress`, `DeadlinesMetWhenQuiet`, `ResponseWaitEnds`, `SilenceIsNoticed`, `MtuFollowsPath`,
`TerminationSeen`, `ReportsGoOn`, `RefreshReachesVersion`, `ComesToRest`. Where a loop ends by its own counting, `TuningEnds`,
`PassesEnd`, `SilenceEndsByCounting` and `GivesUpInTime` prove the bound.


## 6. Where code and documentation disagree

* `finding_lifecycle`: `masque.rs:494`. An on-demand tunnel that fails to send the packet that woke it returns through `?`
  after `reporter.connected`, the connect hook and the statistics task. The session stays reported as connected.
  README.md:340 promises updates for observed disconnect events. A tunnel with `--always-reconnect`, which captures no
  such packet, pairs everything (`AlwaysPaired`), and this is the only way (`PairedUnlessDetached`).
* `finding_silent_endpoint`: `handshake.rs:75`. A client has no QUIC idle timeout, and the handshake has no deadline of its
  own: an endpoint that answers nothing is never given up, against README.md:533.
* `finding_keepalive_starved`: `masque.rs:777`. Deadlines are looked at only in `select!`, which a full receive budget
  skips; against the comment at `masque.rs:637`. A socket that is readable whenever `select!` is entered has the same effect
  without a full budget (section 4). What does hold is that PING and revalidation are met once nothing more arrives
  (`DeadlinesMetWhenQuiet`): the loop then rests, also with packets queued behind a draining connection.

Two more disagreements were met while modelling and have no run of their own. Saving truncates before it writes
(`config.rs:98`), so a refresh whose save stops short leaves no configuration and no private key, against
docs/PORT_STATUS.md:27 ("failure leaves it unchanged"): `SaveFails` after `Truncate` in `Registration`. And `udp.rs:360` does
not search below the first size it tries, nor nearer than two granules when the target is not aligned, against the
comment at `udp.rs:357` and the test at `udp.rs:541`: `TunedAsFarAsPossible` states what does hold.

Two things that read like a deadline are weaker than they read, and the properties say what holds. The ten seconds for the
CONNECT response (`handshake.rs:108`) are looked at before a wait begins, so the last wait may last as long as quiche's longest
timer, the idle timeout (90 seconds by default on a Mesh node), on top of them (`GivesUpInTime`). A Packet Too Big (`masque.rs:973`) names the MTU of the interface; it is below the size of the refused packet once a
discovery has been applied (`TooBigIsUseful`), and need not be before.

## 7. Not modelled

* The bytes: CONNECT-IP framing, checksums, ICMP messages, HTTP headers, JSON, PEM and XML.
* quiche, tokio, reqwest and the kernel, except for what the code can observe of them.
* The one-second telemetry sample inside `data_loop`, the counters of `stats.rs` and the pacing diagnostics of `udp.rs`.
* The UDP path for systems without `sendmmsg`, which sends datagram by datagram.
* Reading and prompting for credentials, the Access login, request construction and response decoding: single calls, whose
  outcomes `Registration` and `TunnelStartup` choose.
* A second reader of the TUN device: the aborted one of `data_loop` may still take a packet that the supervisor or the next
  reader waits for. `PacketPump` has the packet it takes, and nobody it is taken from.
* A POST whose connection broke and which the service handles only after a later one: `InventoryNotBackwards` is about the
  order in which the reporter sends.
* Which of two accepted keys should stay: `ConfigIsBacked` says that a saved key was accepted, and a slower process may save
  an older accepted one over it. `CompletedAgrees` therefore speaks of a command that ran alone.
* `--disable-pmtud` in `PathMtu`, where nothing is discovered and the interface keeps its MTU.
* Host telemetry, the MDM parser, key generation, the command line, the shell scripts: no state, or one that a single call keeps.

Four hazards have no property, each with its reason in `PROJECT.json`: a report stream without credit (`masque.rs:656`), the
truncated configuration (`config.rs:98`), a running tunnel whose key another command replaces (`commands.rs:784`), a POST
without an answer (`device_state.rs:330`). In each the code has nothing that would make a property hold, and no document
promises one that a run could refute.

## 8. Plan

The order was: supervisor with device, the packet pump, their abstract specifications and proofs; the parts around them
(reporter, registration, UDP, endpoints, HTTP/3); then the exchange with the endpoint, the path MTU, the startup, and the
composition of supervisor and reporter, with their proofs; then the proofs about data (endpoint selection, received datagrams),
what the composition inherits, and the loops that end by counting. What is left:

| Proofs to come | Argument |
|---|---|
| one attempt, promised by `Handshake` and used by `TunnelSupervisor` | an abstract attempt (asked only behind the pin, accepted only by a 2xx, given up only with a cause) that both implement |
| `PathMtu` under `TunDevice` | `Apply` is a completed job of the device, `ApplyFails` a failed one |
