# tc: TLA+ models and proofs

tc is a self-hosted voice chat: a server that keeps channels over TLS/TCP and
relays encrypted voice datagrams over UDP, a terminal client, and a desktop
client that reuses the terminal client's library. This directory holds TLA+
models of the server, of both clients and of the audio path between them, the
TLC configurations that check them, and TLAPS proofs of their main properties.
Paths below are relative to the repository root.

## 1. Inventory

| Component | State | Operations | Meets |
|---|---|---|---|
| Server registry, `crates/server/src/state.rs` | clients, their channel, UDP address and identity key; channels, their UDP addresses, voice keys and creation times; UDP tokens; a lock-free copy of each channel's addresses | register/remove client, set key, rename, create/join/leave channel, echo test, register UDP by token, cleanup | called by the TCP handlers, the UDP relay and the maintenance loop, one lock for each method |
| Control plane, `crates/server/src/tcp.rs` | one handler and one bounded queue per connection, rate buckets | handshake, a handler per client message, broadcasts, disconnect | registry (several locked calls per message, awaits between them), queues of all other connections |
| UDP relay, `crates/server/src/udp.rs` | per-source budgets | hello → ACK, keepalive, fan-out of a voice packet to the cached addresses | registry (`register_udp_by_token`), cache (read without the lock) |
| Rate limiting, `crates/server/src/rate_limit.rs` | buckets per connection and per IP with reference counts | consume, track, untrack, sweep | control plane |
| Startup, maintenance, shutdown, `crates/server/src/main.rs` | timers | creates persistent channels, runs cleanup periodically, stops | all of the above |
| Playout, `crates/client/src/playout.rs` | per sender: jitter ring, stray counter, jitter estimate, Idle/Playing, hold, depth history; a mixer over senders; the output level | push, pop, render, prune, pump | fed by the receive task, pulled by the audio device |
| Capture and receive tasks, `crates/client/src/voice.rs` | sequence counter, VAD gate, pre-roll, hello retry and re-hello back-off | hello handshake, send, keepalive, receive | relay, playout, audio devices |
| Client connection, `crates/client/src/network.rs` | reader and writer tasks, bounded queues, heartbeat | connect, send, receive, give up | control plane, terminal and desktop clients |
| Terminal client, `crates/client/src/main.rs`, `tui.rs` | session, echo deadline, reconnect | commands, server messages, timers | connection, voice |
| Desktop backend, `apps/desktop/src-tauri/src/` | connection handle, drain task, voice actor and its last parameters | connect/disconnect, drain, voice start/stop/rebuild, echo timer | connection, voice, user interface |
| Protocol, configuration, invites, `crates/shared/src/` | none | encodings and parsing | everyone |
| Audio devices, `crates/client/src/audio.rs` | two halves of a call, a lock-free ring, the playback queue, signals between callback and pump | open, fail, rebuild, drain | playout, capture, desktop supervisor |
| Settings and trust, `crates/client/src/settings.rs`, `tls.rs` | `tc.toml`, certificate pins, the server name the verifier uses | load, save, verify, `/trust`, export and import | both clients, on one file |
| Direct messages and levels of the desktop, `dm.rs`, `history.rs`, `fast_levels.rs`, `dm.ts` | history files, open thread, live levels | file, fetch, notify, copy | drain task, window, capture and receive tasks |
| Signal processing, codec, identity, server TLS, shell, user interface, load test | devices, files, windows | I/O and floating-point work | |

What is hard in it:

* The registry holds the same fact in several places (a client's channel, the
  channel's addresses, the token, the relay's cache, the DM index, the key), and
  every method must keep them together. Membership starts over TCP and voice
  starts later over UDP, so a join, a hello, a leave and a cleanup of different
  clients interleave. A hello may be late, repeated or from a new port, and a
  client may reconnect before its old connection is noticed to be dead.
* Handlers of the control plane call the registry several times per message and
  queue what they saw after the lock is released.
* Voice datagrams are lost, duplicated and reordered. A ring that aliases
  sequence numbers has to survive that, a sender that starts over at 1, a
  jump ahead, and an output that pulls at its own pace.
* Timers (echo test, re-hello, reconnect, the maintenance interval) fire after
  the state they were armed for has changed.
* Tasks are aborted by others: an abort ends a task that waits, while one that
  is running goes on to its next await.
* The pump and the device callback, and the levels' writers and readers, share
  state without a lock.

What makes each component correct:

* registry: voice goes only to members, and to all of them; a token admits only
  to the channel its holder is in; the cache agrees with the registry; nobody
  from an earlier session holds the key in use; a DM reaches only the owner of
  the key; abandoned channels disappear and used ones do not;
* control plane: once the handlers are done, a client shows the channel and the
  members the server has; no change of the channel list goes unannounced; a
  chat is shown in the room it was written in;
* relay: a datagram goes to the peers read for it, and back to its sender in an
  echo test only;
* rate limiting: an IP never gets more than its budget, by reconnecting either;
* frames: what was written whole is delivered, once and in order, however the
  stream is split, and a healthy peer never overflows the buffer;
* sessions: what is shown, what the server has and where the microphone streams
  agree once nothing is on its way; a lost connection comes back if and only if
  it is wanted; a sound check ends;
* a call's link and devices: the relay learns the present port; a half that
  broke is rebuilt and the default device followed;
* capture: the frames near speech are sent and no others; paranoid mode's
  traffic does not depend on what is said;
* playout: the ring holds only packets of its window; what is buffered is
  decoded, in order and once; a sender is heard again soon after a restart or a
  gap; a short talkspurt is played and silence disarms the tick; the output
  neither starves nor piles up; the shown levels are current;
* stores: a pin was really shown by its server; settings survive a restart; a DM
  is filed once and shown in its thread; a copied level is not older than its
  version.

`PROJECT.json` lists the components with their status and every hazard at its
line with the properties aimed at it.

## 2. Modules

| Module | Content | Checked by | Proved in |
|---|---|---|---|
| `ServerState` | the registry | `MCServerState` | `ServerStateProofs` |
| `VoiceRooms` | what the registry promises about voice | | |
| `ServerRooms` | the mapping of the registry to `VoiceRooms` | `MCServerState` | `ServerStateProofs` |
| `RateLimit` | token buckets per IP and connection | `MCRateLimit` | `RateLimitProofs` |
| `ControlPlane` | connection handlers and what clients make of their messages | `MCServerTasks` | `ServerTasksProofs` |
| `UdpRelay` | a relay worker and its batched sends | `MCServerTasks` | `ServerTasksProofs` |
| `Frames` | length-prefixed frames over a byte stream | `MCConnection` | `ConnectionProofs` |
| `ClientSession` | the terminal client's session and connection | `MCConnection` | `ConnectionProofs` |
| `DesktopSession` | the desktop's commands, drain tasks and voice actor | `MCDesktop` | `DesktopProofs` |
| `VoiceLink` | a call's handshake, re-hello and keepalive over UDP | `MCCallLink` | |
| `AudioHalves` | a call's devices and the supervisor that rebuilds them | `MCCallLink` | |
| `Capture` | microphone to send task: gate, pre-roll, paranoid mode | `MCMedia` | `MediaProofs` |
| `Mixer` | all senders of a channel and their levels | `MCMedia` | `MediaProofs` |
| `OutputPath` | pump, ring and device callback | `MCMedia` | `MediaProofs` |
| `Playout` | one sender's ring and stream, and the network before it | `MCPlayout` | `PlayoutProofs` |
| `TrustStore` | the settings file and the certificate pins | `MCStores` | `StoresProofs` |
| `DirectMessages` | the desktop's DMs: files, events, thread | `MCStores` | `StoresProofs` |
| `LiveLevels` | the levels of a call and the lane that copies them | `MCStores` | `StoresProofs` |

How they fit together: each module leaves to another what its own questions do
not tell apart, and says so in its header. `ControlPlane` reduces the registry to
what the handlers announce; `UdpRelay` takes an arbitrary cache, which
`ServerState` shows to be the right one; `VoiceLink` composes the client's
tasks, the network and the relay's registration; the two sessions reduce
the server to the channel it has each connection in and its answers;
`Mixer` reduces `Playout`'s ring to its depth, and `OutputPath` reduces the
mixer to whether anybody plays.

*Scenario modules.* `MCServerTasks`, `MCConnection`, `MCCallLink`, `MCMedia` and
`MCStores` check several modules, or one module with several parameters, in one
run: the initial state chooses a scenario (`part`), the next-state relation is
that of the scenario's instance, and the variables of the others keep their
initial values. A property of a scenario is stated under its `part`; an action or
temporal property may go without, where the initial states of the other scenarios
satisfy it for good. The instances' assumptions are the `ASSUME` of the scenario
module. In `MCServerTasks`, `MCMedia` and `MCStores` the parameters of the components
are CONSTANTS, functions of the scenario where it has values of its own
(`Control(s) == INSTANCE ControlPlane WITH Public <- Public[s], ...`), and the run's
values are definitions (`MCPublic`) that the configuration assigns: the proofs about
these modules hold for all values, the run has one of them.

Operators marked *Mutant* in a comment are variants of the definition after
them, each a plausible mistake in the code it models; no specification uses
them. They record which property notices which mistake.

### ServerState

Every method of `ServerState` holds the one `RwLock` for its whole body, so each
is one action. A method that fails changes nothing, so its error conditions are
the guard.

| Variable | Code |
|---|---|
| `clients`, `channel`, `udpAddr`, `pubkey` | `Inner.clients` and the fields of `ClientInfo` |
| `pubkeyIndex` | `Inner.pubkey_index` |
| `channels`, `participants` | `Inner.channels`: which ids exist, the UDP addresses of each |
| `keyHolders` | `Inner.channel_keys` (see below) |
| `aged` | `Inner.channel_created_at` |
| `udpTokens`, `young` | `Inner.udp_tokens` |
| `peerCache` | `ServerState.peer_cache`, the snapshot (`ArcSwap`) the relay loads without the lock |
| `session` | ghost: who joined since the channel was last unoccupied |

| Action | Method |
|---|---|
| `RegisterClient`, `RemoveClient` | `register_client`, `remove_client` |
| `SetPubkey` | `set_pubkey` |
| `CreateChannel` | `create_channel`, with a name or a generated id (`create_persistent_channel` runs at startup and is `Init`) |
| `JoinChannel`, `LeaveChannel` | `join_channel`, `leave_channel` |
| `StartEchoTest` | `start_echo_test` |
| `RegisterUdpByToken` | `register_udp_by_token` |
| `CleanupEmptyChannels` | `cleanup_with` |
| `ChannelAges`, `TokenAges` | the passing of time |

Abstractions of data: a timestamp is reduced to whether its period has elapsed.
A random 256-bit key is represented by the set of connections it was handed to:
minting a key empties the set, and two minted keys are taken to differ. An
absent cache entry and an empty one are the same to their only reader and are
one value here. An address is canonicalised to an IP by the function `IpOf`, a
parameter. Display names are left out: `ControlPlane` has them.

### VoiceRooms, ServerRooms

`VoiceRooms` says what a user may rely on, without tokens, caches, keys or
timers: clients enter and leave rooms, a client in a room listens at one address
of its own IP, its address leaves with it, a room is closed with its last
address. `ServerRooms` maps `at` to `channel`, `adr` to `udpAddr`, `open` to
`channels` and `heard` to the relay's `peerCache`, so the refinement also says
that the lock-free copy shows no state a room could not be in.

### ControlPlane

A connection's task makes one atomic call of the registry and then performs
effects one by one (`send_to`, `broadcast_to_channel`, `broadcast_channel_list`),
each under locks of its own. The action of a handler therefore makes the call
and leaves the rest in `task`; `Perform` takes the effects one at a time and the
other connections run in between. `view` is the state `handle_server_message`
of the client reaches from the messages queued for it; a slow client's queue may
be full at any time (`dropped`). `raced` marks clients whose join overlapped
another change of the roster, see disagreement 2.

### UdpRelay

`relay_loop` with `BatchSender`: the peers are read from the cache once per
datagram; `sendmmsg`, `sendmsg_x` and the plain loop are the three platforms; the
headers of the previous batch are reused when the peer list is the same. The
cache is replaced between any two steps.

### Frames

A byte is its offset in the stream and the pending buffer a length. Actions: the
encoder, a writer that hands over a frame in pieces and may die inside one, a
reader that takes any number of bytes up to its buffer, the overflow check,
`extract_frames` one frame at a time until what is left is no whole frame
(`ExtractDone`), the handler for one frame of the batch (`HandleOne`), end of stream
and idle timer.

### ClientSession

Each `network::connect` makes a connection with a writer, a reader and a
heartbeat task and two bounded queues. The event loop of `main.rs` takes one
branch at a time: a typed command, a message, the echo deadline, a reconnect.
Connections break, connects are refused and answers are dropped on a full queue
(`missed`) at any time, up to `MaxFaults`. The server carries a command out or answers
it with an error and changes nothing (`Refused`): for the rate of the connection or of
its address (tcp.rs:271), or because the registry does not allow it. `stayed` records the
connections whose `leave` was refused and that have not been let out since.

### DesktopSession

Commands (`connect`, `disconnect`, `join`, `create`, `leave`, the sound check) are
sequences of steps, one for each critical section or await. A drain task handles
the messages of a connection, tears the session down when it ends, sleeps and
redials. The voice actor serves its queue (`Start`, `Stop`, `EchoStart`,
`EchoStop`) and restarts a call that failed to start when it is asked for a
snapshot. `AbortDrain` is `JoinHandle::abort`: a parked task is gone, a running one
goes on to its next await (`aborting`, counted by `lates`). The server answers, refuses
and drops as in `ClientSession`.

### VoiceLink, AudioHalves

`VoiceLink` has the handshake of `start_voice`, the re-hello task, the capture
thread as the source of packets, the send task whose timeout is the keepalive, the
receive task, and a network that loses, repeats and reorders; `NatRebind` moves
the socket to another port. Starting may fail, and a thread may end, as in the
code. `AudioHalves` has the host's devices and default, the error callback, the
starvation watchdog of the capture thread, `rebuild_capture` and
`rebuild_playback`, and the supervisor's poll, restart and announcement.

### Capture, Mixer, OutputPath

`Capture` takes frames through mute, paranoid mode and the voice gate with its
pre-roll ring and hangover, numbers them and hands them over through a bounded
queue on which the thread blocks; the user's switches change in between. Three
histories (the frames taken, those that reached the gate, the packets) are what
its properties compare. `Mixer`
creates, limits and prunes streams, renders a frame of every playing one, and
publishes the levels when they moved. `OutputPath` makes every load and store of
the shared atomics a step of its own, between the pump's passes and the device's
callbacks, and swaps the device under both.

### TrustStore, DirectMessages, LiveLevels

`TrustStore`: a program loads the file when it starts and writes the whole of it
from memory; a connect sets the one server name the verifier will use and then
awaits the handshake. Two settings stand for all (one always written, one
written only when on) and `desk` for what only the desktop knows. A crash inside
a save leaves an empty file. `DirectMessages`: the drain task files a line and
then tells the window; a thread is filled by a history request and by events at
once; `connect` aborts the task, perhaps too late. I/O errors are left out, and a
thread is a set of lines. `LiveLevels`: two writers store a level and then bump
the version; the lane copies version, own level and peers one after the other; the
end of a call clears the levels and aborts the writers.

### Playout

The receive task owns the engine, so handling a packet and rendering one frame
are one action each; they interleave freely.

| Variable | Code |
|---|---|
| `sent`, `restarts` | the capture thread's `seq` counter, which starts at 1 with every pipeline |
| `slots`, `nextSeq`, `started`, `provisional`, `outOfWindow` | the fields of `JitterBuffer`; 0 marks an empty slot, as in the code |
| `target` | `target_frames(jitter_ms)` |
| `playing`, `idleWait`, `hold`, `depths` | `SenderStream.state`, `first_idle_arrival`, `hold`, `depths` |
| `lastOut`, `epoch`, `newest`, `deaf` | ghosts: last decoding, buffer resets, newest arrival, refusals in a row since the sender's last start |

| Action | Code |
|---|---|
| `Send`, `Restart` | the capture loop; a pipeline that is torn down and started again |
| `OnPacket` = `DropLate`, `DropStray`, `ResetTo` or `Store` | `on_packet`, with every exit of `JitterBuffer::push`: late; too far ahead but not yet often enough; restart or resync; stored, perhaps re-anchoring |
| `Render` = `RenderIdle` or `RenderPlaying` | `SenderStream::render`: keep buffering or start from the oldest packet; play (accelerating when the buffer stays deep), conceal a hole, expand an underrun, go idle |
| `Prune` | `prune`, the stream's TTL |

Abstractions of data: the jitter estimate decides only the target depth, so an
observed arrival moves `target` anywhere in its clamp range. An `Instant` is
reduced to the two questions asked of it. Samples are left out; whether a frame
is quiet and how many frames the output wants are free choices. Sequence numbers
keep their wrap-around: arithmetic is modulo `SeqMod`, 2^32 in the code.

Bounds, all named constants: `MaxSent`, `MaxRestarts`, `Reorder` (how many
packets late a datagram may arrive), `MaxPull`.

### RateLimit

The map of IP entries is behind a mutex, so each method is atomic. A connection's
own two buckets belong to its reader loop, which consults the three in turn
without waiting in between.

| Variable | Code |
|---|---|
| `entries`, `refcount`, `ipBucket`, `lastActive` | `IpRateLimiter.map` and the fields of `IpEntry` |
| `cmdBucket`, `createBucket` | `cmd_limiter` and `create_limiter` of `reader_loop` |
| `connected`, `now` | connections between `track` and `untrack`; the clock |
| `windowFrom`, `passed` | ghosts: a window of time, chosen freely at the start, and what each IP got past its bucket in it |

| Action | Code |
|---|---|
| `Connect`, `Disconnect` | `track` with the reader loop's fresh buckets; `untrack` with their end |
| `Request` | the rate check of `reader_loop`, for plain and for creating messages |
| `SweepIdle` | `sweep_idle` from the maintenance loop |
| `Tick` | the passing of time |

Abstractions of data: time is a count of ticks and the `f64` content of a bucket
a natural number, of which a request takes `Cost`, so that a rate below one
request per tick can be expressed; rounding is left out. `Ping` and `Hello` are
not limited and touch nothing here.

## 3. Runs

| Run | Module | Checks | States |
|---|---|---|---|
| `ServerSharedIp` | `MCServerState` | `TypeOK`, `TokensFollowMembership`, `CacheCoherent`, `VoiceOnlyToMembers`, `DmRouteSound`, `ForwardSecrecy`, `ImplementsVoiceRooms` | 313 496 |
| `ServerOwnIps` | `MCServerState` | `VoiceReachesMembers`, `VoiceChannelSurvives`, `AbandonedChannelsReaped` | 22 912 |
| `ServerOrphan` | `MCServerState` | `ChannelOutlivesMembers`, which is violated | |
| `PlayoutRing` | `MCPlayout` | `WindowSound`, `DeafnessBounded`, `NothingDiscarded`, `DecodedInOrder` | 324 238 |
| `PlayoutLive` | `MCPlayout` | `BufferedIsPlayed`, `TickDisarms` | 40 162 |
| `RateBudget` | `MCRateLimit` | `IpBudget` | 117 159 |
| `ServerTasks` | `MCServerTasks` | `ViewExactUnlessRaced`, `ListRefreshPending`, `ChatInItsRoom`, `SentToThePeersRead` | 912 850 |
| `Connection` | `MCConnection` | `DeliveredExactly`, `NoOverflow`, `WrittenIsDelivered`, `RoomAgreement`, `Recovers` | 215 285 |
| `Desktop` | `MCDesktop` | `VoiceFollowsChannel`, `NeverReconnectsUnwanted`, `SoundCheckEnds` | 204 055 |
| `CallLink` | `MCCallLink` | `RebindHeals`, `BrokenHalfRebuilt`, `FollowsDefault` | 41 784 |
| `Media` | `MCMedia` | `GateIsWindow`, `ConstantRate`, `LevelHeld`, `LevelsCurrent` | 722 158 |
| `Stores` | `MCStores` | `PinTruth`, `RestartKeeps`, `DmKeptAndShown`, `SnapshotNeverOlder` | 1 686 583 |

*ServerSharedIp* has two clients behind one NAT with two UDP addresses that
either may come to use, two identity keys, a persistent, a dynamic and an echo
channel, and limits that are reached. Two clients are enough for a departure to
meet a join or a hello, two tokens for a stale one to meet a fresh one, two
channels for a wrong fan-out.

*ServerOwnIps* gives two clients an IP each, the first with two ports. The
properties need it: with a shared IP one client may come to use the address of
another, and the departure of either then removes it for both. That is a limit
of the design, so the properties carry `DistinctIps` as a hypothesis.

*PlayoutRing* has a ring of three slots with `ReanchorMax` 1 and `ResyncAfter` 2
(15, 7 and 3 in the code), eleven packets, arrivals up to three packets late (a
whole ring, so that indices alias) and one restart. Eleven packets are more than
three rings, so that every class of arrival happens before and after a restart,
one farther back than two rings included, and a receiver could exceed the bound
of `DeafnessBounded`: how many new packets in a row a receiver refuses after a
restart or a gap, 3·15 + 2 = 47 with the code's constants, just under a second of
speech. *PlayoutLive* lets the target and the pull vary, which the liveness
properties depend on.

*RateBudget* has two connections of one IP, six ticks and a TTL of three, so that
a bucket is drained, abandoned, swept and drained again within a window, and a
request costs two ticks' refill, so that fractions of a request occur.

*ServerTasks* plays three scenarios of two connections: joins, leaves, renames and
hang-ups in a lobby with a client that misses messages; public, private and echo
channels that come and go; a client that moves between two rooms while the other
chats. Two connections and four or five commands let every handler be
interrupted by every other between any two of its effects. The relay has three
addresses, a voice and an echo channel, every platform and at most one address
that cannot be reached; three addresses are the fewest with which two peer lists
of one length differ. Names are chosen so that a roster of names tells
the clients apart.

*Connection* splits three frames of lengths 0, 1, 3 (the largest) and 4 (too
large) into reads in every way, with a two-byte prefix that may itself be split.
The session has a typing scenario, where every command meets a message queue of
two, and a faulty one, where two connects, connections or answers fail. The server may
refuse every command of either; two commands, with the join that follows a created
channel and the end of an echo test, are enough for a leave to be refused and a later
request to be granted.

*Desktop* has four commands in any order, one after the other, one fault and one
late abort. Commands do not overlap: with two connects in progress
`NeverReconnectsUnwanted` is false (disagreement 7). The properties exclude what a
late abort breaks (disagreement 6): the voice until the end of the behaviour, the reconnect of the
aborted task, and the sound check it was to end.

*CallLink*'s network moves the socket once after a burst of speech; paranoid
mode is left out, because in it the keepalive never fires (disagreement 5). The
microphone, the half with the watchdog, has two devices, two changes of the host,
two acts of the user and a failure; a rebuild that the capture thread misses
disarms its watchdog (disagreement 8) and is excluded by `BrokenHalfRebuilt`.

*Media*: a pre-roll of three with a hangover of two over seven frames, so that
the ring wraps and two words are close or far; paranoid mode with every switch
flipped and a frame that does not encode; three senders for two streams; and
two devices, one asking for a third of a frame or a frame, one at two thirds of the rate
asking for two or four frames at a time. `OutputPath` assumes that the device makes at most
`MaxSkips` callbacks after a top-up before the next, and that the pump pushes at most
`MaxMeets` frames while one callback drains: the receive task wakes every few
milliseconds. `OutputSized` requires the first bound to be one and the buffers to have room
for the devices' requests, here with four frames the largest they have. `Mixer` assumes that a stream is idle long before its TTL.

*Stores*: two servers and two certificates, one renewal, one crash inside a
save, three connects of the terminal client or two of the desktop, for one
program on the file (two are disagreement 9). The threads of two people with a history
of one line in one session, and a second server with a connect that may be
late. Two calls with two levels written in each.

Deadlock is checked in the server runs of `MCServerState` and in `RateBudget`.
In the others the system may stop: everyone hangs up, the user does nothing, the
sender has sent everything, or a call is over.

### Fairness

*Registry.* `main.rs` runs cleanup on an interval timer, and time passes:
weak fairness of `CleanupEmptyChannels` and of `ChannelAges`. Nothing is assumed
of clients.

*Playout.* The receive task's tick is armed while anything is buffered or
playing, and the output device keeps pulling, eventually also after the
longest lead has passed: weak fairness of `Render` and of `RenderAfterWait`.
Nothing is assumed of the sender or the network.

*Connection.* The runtime polls the reader's task while there are bytes or an end
to read, the event loop and the tasks of each connection; timers fire. The
writer, the user and the faults are free; the idle timer is not relied on.

*Desktop.* The runtime polls commands, drain tasks and timers that can go on, an
abort takes effect at the next await, the actor's thread serves its queue and is
polled for snapshots, and the server answers.

*CallLink.* The tasks of the call are scheduled, and the user pauses. Of the hellos
and ACKs sent again and again some get through: strong fairness of their
delivery. For devices, the level pump asks for a snapshot five times a second
and the capture thread looks every 2 ms. The throttles of the supervisor are
choices, so weak fairness says only that they do not refuse for ever.

The other runs check safety only.

### Disagreements met while modelling

A run records the first; the others were met while the models were written, are
contained in them, and bound the properties as said above.

1. **A channel can be destroyed under a member** (`ServerOrphan`).
   `leave_channel` and `remove_client` destroy a channel when its set of *UDP
   addresses* is empty, while a client that joined over TCP and whose hello has
   not arrived is still in it. Comments in `tcp.rs` say the channel goes with its
   last member. The client stays in a channel that no longer exists, and its
   later hello registers nothing. `VoiceChannelSurvives` is the part that holds.
2. *Control plane.* `handle_join_channel` queues its snapshot of the members after
   the lock: a join or leave in between is queued before it and overwritten by it
   (tcp.rs:451), hence `raced`. Of two concurrent list refreshes the older may be
   queued last (tcp.rs:724); `ListRefreshPending` says that the last *read* is
   never outdated. `remove_client` drops the DM route of a key that a newer
   connection of the same user has announced (state.rs:186).
3. *Relay.* `sendmmsg` stops at the first address that fails and its count is
   ignored (udp.rs:163), and on macOS only a failure, not a partial result, falls back
   to the loop (udp.rs:314): `SentToThePeersRead` promises all peers only when all
   can be reached.
4. *Terminal client.* `/leave` and the end of an echo test change what the client
   shows before the server has answered (main.rs:729). The server may refuse
   either for its rate (tcp.rs:295), of which all connections of an address share
   one bucket, and prints an error only: the client then shows no channel and the
   server keeps it in one, counted and listed for the others, and refuses its next
   join (state.rs:285), until a later `/leave` is granted or the connection ends.
   (The desktop goes on showing the channel, without its voice.)
   `RoomAgreement` names the refused leave (`stayed`) and an echo test, which shows no
   channel anyway, as the only cases. An answer dropped on a full queue
   (tcp.rs:762) leaves the client where it was before it, hence `missed`.
   A full message queue ends the reader without a marker, so the
   loop is never told (network.rs:159); the heartbeat of a replaced connection
   keeps it open (main.rs:867); a connection lost between rejoining and its answer
   forgets the channel (main.rs:328); the echo deadline survives `/leave` and
   leaves the next channel (main.rs:174); a failed voice start leaves the client in
   the echo channel (main.rs:1045); `/reconnect` clears `voice_active` and keeps the
   voice handle (main.rs:869), so `RoomAgreement` speaks of voice that is shown as
   active; the server IP stays after a failed reconnect (main.rs:900).
5. *Keepalive.* It is sent when the send task has been idle for an interval, which
   in paranoid mode is never (voice.rs:874): a NAT rebind then lasts. If the encoder
   cannot be created the capture thread ends and the keepalive with it, hence
   `capture` in `RebindHeals`.
6. *Late aborts.* A drain task that runs when it is aborted may still queue `Start`
   after the `Stop` of a disconnect (drain.rs:498), leave an echo test without a
   timer (drain.rs:437), file a message under the next server (drain.rs:303), or
   publish levels after they were cleared (voice.rs:1360). Comments at
   commands.rs:108 and voice.rs:1358 exclude it.
7. *Overlapping commands.* Two connects in progress both install a drain task, and
   only one can be aborted later (commands.rs:148); they share the name the
   verifier pins under (tls.rs:58), so `PinTruth` is stated for one at a time. A
   sound check cancelled early leaves its timer, which leaves the next channel
   (drain.rs:459). An import replaces the server address of a live session
   (commands.rs:351).
8. *Devices.* A start replaces the supervisor, so a change of devices before its
   first poll is never reported (voice_actor.rs:426, :349); a device chosen during
   a call is not in the parameters of a restart (voice_actor.rs:488); a rebuild
   between two looks of the capture thread leaves its watchdog disarmed
   (voice.rs:575).
9. *Settings.* A changed certificate is pinned and accepted, where a comment and
   STACK.md say rejected (tls.rs:111); the terminal client saves an empty set of pins
   with every setting (main.rs:1425) and removes the desktop's settings
   (main.rs:1430); clearing the only pin is not saved (main.rs:1366).
10. *Audio.* Mute and paranoid mode leave the pre-roll as it is, which is then sent
   before the next word (voice.rs:649, :668): `GateIsWindow` is about frames that
   reach the gate. A loss hint is updated with the tier only (voice.rs:741). A
   queue that empties exactly at the end of a callback is not faded out
   (audio.rs:361). The lane takes the version it attaches to as seen
   (fast_levels.rs:76), hence the open gate in `SnapshotNeverOlder`.
11. *Playout.* `pop` compares a slot with `next_seq` without the `!= 0` test made
   everywhere else (playout.rs:256), so at the wrap of the counter, after 2.7 years
   of speech, an empty slot counts as a packet.
12. *Direct messages.* The answers of `openDm` and `sendDm` go to whichever thread is
   open by then (dm.ts:10), and a line that could not be sent is not filed
   (dm.rs:99), where dm.rs:81 says it is.

## 4. Proofs

TLC checks the instances above; TLAPS proves the following for every value of the
constants that satisfies the `ASSUME`s.

`ServerStateProofs`, from `AddressAssumption` (what `IpOf` maps, `None` is no
address, key or channel), `ChannelAssumption` (kinds of channels are disjoint,
persistent ones are public, finitely many channels and TCP addresses) and
`LimitAssumption` (limits are naturals and the persistent channels fit):

| Theorem | Says | Inductive invariant |
|---|---|---|
| `TypeCorrect` | `[]TypeOK` | `TypeOK` |
| `VoiceIsolation` | tokens follow membership, the cache is coherent, voice goes only to members | `Isolation`, the conjunction of the three |
| `TokensFollow`, `CacheFollows` | `[]TokensFollowMembership`, `[]CacheCoherent` | parts of `Isolation` |
| `KeysAreForwardSecret` | `[]ForwardSecrecy` | `Secrecy` = `ForwardSecrecy` and `UnoccupiedKeysUnknown` |
| `PersistentKeysAgree` | `[]PersistentKeyAgreement` | itself, with `Isolation` |
| `DmRoutesAreSound` | `[]DmRouteSound` | itself |
| `VoiceReaches` | `[]VoiceReachesMembers` | `Reach` = `VoiceReachesMembers` and `AddressesOwned` |
| `VoiceChannelsSurvive` | the action property `VoiceChannelSurvives` | `Isolation`, `Reach` |
| `LimitsHold` | `[]WithinLimits` | itself |

Why the strengthenings are needed. `VoiceOnlyToMembers` alone is not inductive:
a hello inserts the sender's address into the channel its *token* names, which is
the client's channel only because tokens follow membership, and the cache must
equal the registry for a departure to clean it. `ForwardSecrecy` speaks of
occupied channels; a dynamic channel reaches its next session through an
unoccupied one, and must do so with a key nobody holds, which is true because a
channel whose members are all gone has an empty fan-out (`Isolation`) and was
therefore destroyed. `VoiceReachesMembers` needs the fact that a registered
address carries its owner's IP, so that with distinct IPs no other client's
departure removes it. `RemoveClient` and `LeaveChannel` share their argument:
`Departure(c)` is what both do to the channel, and the departure lemmas are stated about it.

`PlayoutProofs`, from `RingAssumption` (four rings fit the sequence space, the
re-anchor distance is below the ring size) and `PlayoutAssumption` (ranges):

| Theorem | Says | Inductive invariant |
|---|---|---|
| `TypeCorrect` | `[]TypeOK` | `TypeOK` |
| `RingIsSound` | `[]WindowSound`, across a wrap of the counter too | `RingInv` = `TypeOK`, `WindowSound` and `UnstartedEmpty` |
| `DecodingIsOrdered` | `DecodedInOrder` | `RingInv`, and `Ordered` under `NoWrap` |
| `BufferedIsDecoded` | `NothingDiscarded` | the same |
| `DeafnessIsBounded` | `[]DeafnessBounded` | these, and `Hearing` under `NoWrap` |

The ring proof rests on lemmas about modular arithmetic: two numbers of one
window with one index are equal (`ResidueUnique`), and moving the start forward
within the window keeps later members in it (`WrapCloser`). `UnstartedEmpty` says a
stream without its first packet has an empty ring, without which the anchor set
by that packet could leave something behind. `Ordered` bounds `nextSeq` and the
slots by what was sent and puts the last decoding before `nextSeq`. `Hearing`
splits the packets refused in a row into late ones and strays. While packets are
refused nothing is stored, so `nextSeq` stops at most a ring further on; the late
ones are distinct numbers in the three rings before that place, and the strays are
in the counter whose limit makes the ring resync. These, and the three properties, assume
`NoWrap`, that a sender sends fewer than about 2^31
packets (more than a year of uninterrupted speech): disagreement 11 shows
that they are false beyond it.

`RateLimitProofs`, from `ConnAssumption` (every connection has an IP, finitely many
connections), `BucketAssumption` (ranges) and `TtlAssumption`, that an empty
bucket fills up within the TTL after which an unused one is dropped. In the code
that is 60 requests of burst against 30 per second for 300 seconds.

| Theorem | Says | Inductive invariant |
|---|---|---|
| `TypeCorrect` | `[]TypeOK` | `TypeOK` |
| `ConnectionsAreCounted` | `[]CountedWhileConnected` | itself |
| `BudgetIsKept` | `[]IpBudget` | `Solvent`, with the two above |

`IpBudget` says nothing of what is left in the bucket and is not inductive.
`Solvent` says that what was spent in the window *plus what is available now* is
within the allowance. A request moves from one to the other, a tick adds at most
the rate to both sides, and a sweep followed by a fresh bucket adds nothing
because the swept bucket was full (`SweptIsFull`, which is where `TtlAssumption`
and the order of last refill and last use in `TypeOK` enter). That `check` never
finds an IP without an entry comes from `CountedWhileConnected`.

In the same module, from the same assumptions: `RegistryImplementsRooms`,
`Spec => ImplementsVoiceRooms`, for any clients, addresses and channels, shared IPs
included. `Init` maps to `Init`, and each method maps to a step of `VoiceRooms` or
does not show (`StepIsRoomStep`). The step of a hello needs `Isolation`: its token
names the channel its holder is in, and the cache is the registry's set. A
disconnect of a client outside needs one more invariant, `OutsideSilent`: a client
in no channel has no address.

`ConnectionProofs`, from `FramesAssumption` (a frame and a read fit the pending buffer:
4 + 65536 + 8192 bytes against 131072 in the code) and `ScenarioAssumption` (ranges;
`Echo` and `None` are no channels):

| Theorem | Says | Inductive invariant |
|---|---|---|
| `ReaderAligned` | the pending buffer is the stream from the end of the last frame cut | `Place` = `Offsets`, `Spaced` and `Aligned` |
| `ReaderInStream` | only frames that were sent are cut | `Place` |
| `BufferBounded` | `[]NoOverflow`: the overflow check ends no connection | `NoOverflow`, with `Place` |
| `FramesDelivered` | `[]DeliveredExactly`: what was written whole reaches the handler, once and in order | `Exact`, with `Place` |
| `RoomsAgree` | `[]RoomAgreement`, whatever the queues hold, the commands are and the server refuses | `SessionInv` = `SessionTypes`, `Held`, `ClosedLast`, `RetryOutside` and `Follows` |

`Aligned` alone is not inductive: that cutting a frame moves the place by the
bytes it removes needs each end to lie one prefix and one payload behind the one
before (`Spaced`), and every offset to be a number in order (`Offsets`). `Exact`
says of each frame cut whether the handler has looked at it or it is still in the
batch, of which the last is the last one cut (`Batched`); that the ones looked at
were delivered unless they did not decode (`Looked`); and that a reader waits only
when the next frame is incomplete (`Waiting`).

`RoomAgreement` speaks of a client with nothing on its way; `Follows` says what holds
while something is. Taking the queue and the wire of the connection in use as one
stream (`Unread`), the last message in it that moves the client names the channel
the server has it in (`Latest`); a channel is entered only after the one before was
left, and the first is entered from outside (`Alternates`), which is what an echo
test needs, whose message changes nothing that is shown; and with no such message
left, what is shown is right, unless the client still has to be let out of a channel
it already shows as left, or was refused that (`Shown`, `Leaving`, `stayed`). An answer
of the server joins the end of that stream, or it was dropped, and `Follows` says nothing
more of the connection if it moved the client (`Tells`); a refusal moves nobody, and only
of a leave does it leave the client in a channel it does not show. The other parts carry this over a
reconnect: the marker that ends a stream is its last message (`ClosedLast`), so that
between it and the next connection nothing brings the client into a channel
(`RetryOutside`).

`ServerTasksProofs`, from `TasksAssumption` (public and private channels are
disjoint, `None` is no channel, client or name, the maintenance task is no client) and
`NamesAssumption`: no two connections have or choose the same name. The server does
not enforce the second, and without it a roster of names cannot tell two clients
apart, so `ViewExactUnlessRaced` would be about the wrong thing.

| Theorem | Says | Inductive invariant |
|---|---|---|
| `ListRefreshed` | `[]ListRefreshPending` | `ListInv`, with `ControlInv` |
| `ViewsExact` | `[]ViewExactUnlessRaced` | `TasksInv` = `ControlInv`, `ListInv`, `RoomInv` and `RosterInv` |
| `ChatShownInItsRoom` | the action property `ChatInItsRoom` | `RoomInv`, with `ControlInv` |
| `RelayedToPeers` | `[]SentToThePeersRead`, for any finite number of addresses | `RelayInv` = `RelayTypes`, `SourceLeftOut` and the property |

`EveryStep` first reduces each of the handlers' steps to an event told by the *set* of
effects a task has still to perform; that a task never has two effects of one kind
(`TaskShape`) is what makes the set enough. `ControlInv` says which effects can be
pending and what the registry holds meanwhile: a task that still has to announce a
join is of a connection that is in that channel, because its handler takes no other
command before it is done. `RoomInv`: a client shows the channel it is in, or a
message that tells it is still to come. `RosterInv` looks at one pair of clients
c, d at a time: what c shows of d is right, or d's task owes c exactly one
message, and applying it makes it right, whatever the other handlers do in
between; a snapshot of the members that is on its way is still true unless its
join was raced.

`RelayedToPeers` is about `UdpRelay`. `SourceLeftOut` says that the source of the datagram
at hand is among the peers read for it in an echo test only, and holds because the
filter leaves the excluded address out (`WithoutLeavesOut`). The filter is a
recursive function; what it returns is shown by induction over its index, with the
library's theorem that strict inclusion of finite sets is well-founded
(`UpFromZero`), since its induction theorems cannot be instantiated here.

`StoresProofs`, from `StoresAssumption` (ranges; `None` is no certificate, setting,
server or peer). `TrustStore` is taken with one program on the file and one handshake in flight at a
time; with two, disagreements 7 and 9 show that the properties are false.

| Theorem | Says | Inductive invariant |
|---|---|---|
| `LaneSnapshot` | `[]SnapshotNeverOlder` | `LaneInv` |
| `PinsAreTrue` | `[]PinTruth` | `TrustInv` = `TrustTypes`, `AllShown`, `OneFlight` and `Restorable` |
| `RestartsKeep` | `[]RestartKeeps` | the same |
| `DmsKeptAndShown` | `[]DmKeptAndShown` | `DmInv` = `Once`, `OneSession` and `ThreadFilled` |

`LaneInv` is about the lane in the middle of its copy: what it has copied is that of
the version it loaded, or the version has moved on, or a writer that stored a level
has its bump still to come. `OneFlight` says that the name the verifier pins
under is the server of the only handshake in flight; `AllShown` follows the pins
through memory, file and backup; `Restorable` that what is in the file gives, with the defaults
for what is left out, what is in memory. `Once` says that a message waits in one
place (the channel, the drain task, a task aborted too late, a command) or is
on file, and nowhere twice; `ThreadFilled`, that a line on file is in the open
thread, on its way there, or covered by a history request that is out.

`MediaProofs`, from `MediaAssumption` (ranges, and a stream is idle long before its
TTL); for the gate, `ThresholdStays`: the user does not switch the gate off and on
during the call; and for the output, `OutputSized`: the pump wakes up between two
callbacks, and the highest low-water mark a device's requests lead to leaves room in
the ring, the queue and the jitter ring (`Sized`). With the code's sizes (ring of 8
frames, cap of 15, jitter ring of 15, target of 10) and two frames pushed while a
callback drains, that is every device asking for up to 4 frames, 80 ms, at a time.

| Theorem | Says | Inductive invariant |
|---|---|---|
| `LevelsAreCurrent` | `[]LevelsCurrent` | `MixerInv` = `MixerTypes`, `InTime` and `Published` |
| `OnePacketPerFrame` | `[]ConstantRate` | `CallInv` and `RateInv` = `Numbered`, `MutedIsSilence` and `ParanoidInOnePlace` |
| `GateSendsSpeech` | `[]GateIsWindow` | `CallInv` and `GateInv` = `Counts`, `Forgotten` and `SentAreNear` |
| `OutputLevelHeld` | `[]LevelHeld`, for devices of any rates and requests | `OutputInv` = `OutputTypes`, `Places`, `Overlap`, `Asked`, `Seen`, `Bounded` and `Provided` |

A prune of an audible stream would change the levels without publishing them;
`InTime` excludes it by the stream's age: without packets it waits, plays its
buffer and expands for at most `MaxLead + MaxBuf + HoldFrames` frames before it is
idle. `CallInv` says that the ring holds the last frames that reached the gate, in order,
which `LastOnes` proves of a push with the modular arithmetic of the slots.
`GateIsWindow` alone is not inductive in either direction. `Counts` ties the
hangover counter to the last loud frame, and says that the ring is empty as long
as it runs; `Forgotten`, that a frame which left the ring unsent is a whole
pre-roll behind, so that no later loud frame can be near it. `ConstantRate` counts
packets; `ParanoidInOnePlace` says where the one packet of a frame is, and a gated frame
that is flushed later is never one of paranoid mode.

`LevelHeld` says nothing of why the level holds. `Provided` does, for one direction: a pass
that met no callback ends with more in ring and queue than the largest request so
far, because its mark is that request and a frame more (`Asked`) and the level it
read is the true one (`Seen`); the frame more is what may be left in the ring when the
callback stops popping. `Overlap` says that a pass which met a callback is known to
have. `Bounded` is the other direction: a pass that meets a callback may push once more for
every sample the callback moved behind its back, but it goes by the level before
that callback and no older one, so ring and queue together stay below twice a
mark and a frame, and the frames pushed during the drain. That popping a frame
moves as much out of the ring as into the queue, whatever the device's rate, is
`ConvertedFrame`, from the division of the two rates.

`DesktopProofs`, from `DesktopAssumption` (ranges, distinct names) and, for both
theorems, `OneCommand`: the user gives a command when the one before is done.

| Theorem | Says | Inductive invariant |
|---|---|---|
| `OnlyWantedReconnects` | the action property `NeverReconnectsUnwanted`, late aborts included | `TaskInv` = `Types`, `Tracked`, `HandleWanted` and `StopAsked` |
| `VoiceFollows` | `[]VoiceFollowsChannel` | `VoiceInv` = `TaskInv` and, while no abort was late, `SessionInv` |

`Tracked`: a drain task that was not aborted is the one whose handle `AppCore` holds,
or the one a `connect` has just spawned, so aborting the handle leaves none.
`SessionInv` is about the order in which starts and stops reach the actor. `Settles`
says what the actor will hold once it has served its queue, told by the last start or stop in
it; `QueueFollows`, that this is the session shown or nothing, unless a task or a
command is about to queue one more; `AsksForShown`, that the task then asks for
what is shown; `StartAsked`, that a reply reaches the task that waits for it and
no other step of a later task.

The theorems whose statement is not a property of a run (`PersistentKeysAgree`,
`LimitsHold`, `ConnectionsAreCounted`, the types of `Playout` and `RateLimit`,
`ReaderAligned`, `ReaderInStream`) are the parts the others rest on, or hold beside
them.

Only model-checked: everything under fairness (`AbandonedChannelsReaped`,
`BufferedIsPlayed`, `TickDisarms`, `WrittenIsDelivered`, `Recovers`, `SoundCheckEnds`,
`RebindHeals`, `BrokenHalfRebuilt`, `FollowsDefault`), which the proof system does not
handle.

## 5. Plan

What was planned as modules is modelled, and what was planned as proofs is proved,
as is every safety property of the passing runs. What is worth adding, in order of
importance:

1. Weaker assumptions for two theorems: `GateSendsSpeech` is about a threshold that is
   not switched during the call, `VoiceFollows` about a user who waits for each command.
2. The link of `ServerState` and `UdpRelay`: the relay's theorem takes an arbitrary
   cache, and the registry's says which it is; one statement over both would name
   the channel's members.

## 6. Not modelled

Shutdown of the server; TLS and the identity keys (cryptography: fresh keys and
tokens are taken to be distinct); metrics; invite links, and the layout of the
voice and hello datagrams, pure encodings with unit tests; codec, gain, noise
suppression, limiter and resampling, which change samples only; the
adaptation of the encoder to the loss measured; line editing and drawing of
the terminal; hotkeys, tray, overlay, windows and update check, which drive the operating
system; the web UI, which serves files; the user interface beyond the DM thread,
which draws what the backend reports; the server address of a settings import;
the load test.

## 7. Running

    tlc -config ServerSharedIp.cfg MCServerState     # likewise ServerOwnIps, ServerOrphan
    tlc -config PlayoutRing.cfg MCPlayout            # likewise PlayoutLive
    tlc -config RateBudget.cfg MCRateLimit
    tlc -config ServerTasks.cfg MCServerTasks
    tlc -config Connection.cfg MCConnection
    tlc -config Desktop.cfg MCDesktop
    tlc -config CallLink.cfg MCCallLink
    tlc -config Media.cfg MCMedia
    tlc -config Stores.cfg MCStores
    tlapm ServerStateProofs.tla                      # likewise the other *Proofs modules
