# A verification project for HT2MP

HT2MP adds a multiplayer mode to the PC game *Hard Truck 2: King of the Road*.
A **coordinator** keeps the list of players and passes their states on over
ENet/UDP. On each player's computer a 64-bit **sidecar** talks to the
coordinator and, through a named pipe, to a 32-bit **bridge** that was injected
into the game. The bridge reads the local player's state from the game's memory
and makes the game create and move one truck for every remote player.

This directory holds TLA+ modules that model this program, configurations that
model-check them with TLC, and theorems about them that TLAPS checks. Paths such
as `apps/coordinator/session.cpp` are relative to the repository.
`PROJECT.json` maps every definition to the lines it models.

    tlc -workers 2 -config MCRelay.cfg MCCrowdedRelay     # one run
    tlapm CoordinatorProofs.tla                              # the proofs

## 1. The system

### 1.1 Who talks to whom

    game thread  <-- shared memory -->  bridge worker  <-- pipe -->  sidecar  <-- ENet -->  coordinator
     (king.exe)    queue, latches,       (bridge.cpp)              (one thread)           (one thread)
                   published indices                                                   other sidecars ...

* Sidecar and coordinator exchange packets on two ENet channels. Channel 0 is
  reliable and ordered (hello, welcome, membership, disconnect). Channel 1 is
  sequenced and may lose packets (player states, snapshots). **The channels do
  not wait for each other.**
* Sidecar and bridge exchange frames over a pipe, in order, until it breaks.
* In the game's process two threads meet: the bridge's pipe worker puts commands
  in a queue, and the game's own thread, in detours of game functions, drains
  it. Detours on the game's thread (and on others, by mistake) read small
  published indices.

### 1.2 Components

| Component | State | Operations | What is hard |
|---|---|---|---|
| **Coordinator session** (`session.cpp`) | members with identity, latest state, times of accepted states; next player id | accept, receive (ping, leave, state), disconnect, tick | every route of join and leave must reach every queue in the right order; identity of states; rate window; wrap of sequence numbers; chunks |
| **Coordinator event loop** (`main.cpp`) | routing tables, running | ENet connect, receive, disconnect; dispatch; orderly shutdown | membership and routing are two tables; rejected transports outlive their membership; a killed coordinator starts with player ids from 1 |
| **Network client** (`net/client.cpp`) | state of one connection, identity, reason of rejection | start, poll, send_state, disconnect | a poll drains *all* ready ENet events into one batch; the connect timeout races the welcome |
| **Network adapter** (`network_adapter.cpp`) | roster of remotes, retry delay, session id, terminal | pump, handle_event, handle_message, update_liveness, first sample | late states, reconnect to the same process or another, ids used again, silence and return, terminal or retryable errors |
| **Sidecar** (`run.cpp`, `main.cpp`) | options, the pipe, the game's process, stop requests | check options, start the game and the injector, handshake, pump, give up | who ends the session, and for good or not; the game is running before the other programs have checked the options |
| **Pipe worker and bootstrap** (`bridge.cpp`) | mode, handshake, which parts are installed | bootstrap, one frame at a time, forward the sample, supervise | parts fail one by one; safe mode is a latch, the mode is not; it stops the game thread's parts without waiting for it |
| **Telemetry** (`telemetry.cpp`) | a slot for one sample, the last known presence | tick detour, publish, take | try-lock against the worker; a foreign thread in the tick |
| **Auto enter** (`auto_enter.cpp`) | a state machine advanced by three threads | check, dispatch, world ready, disarm | an event sent twice, or after it was called off |
| **Online world** (`online_world.cpp`) | suppression, safe-mode latch, sanitized | suppress, clamp and restore counts, sanitize | a failure must stop the writes and not the suppression; missions create actors behind the hooks |
| **Remote command queue** (`remote_command_queue.cpp`) | list of controls, a FIFO of states per identity | push spawn, state, despawn; try-drain | try-lock that fails; overflow; states left behind by an earlier life |
| **Remote actor backend** (`remote_actor_backend.cpp`) | slots, bindings, published indices, the safe-mode latch | tick with a visit per slot; detours of saving, registry reset, frame writes, object acquisition, shadows, scene reads | the game removes actors and replaces vehicles by itself; native calls fail half-way; saves on another thread; safe mode requested from anywhere |
| **Remote actor registry** (`remote_actor_registry.cpp`) | bindings; a collision index under a seqlock | insert, erase, publish, contains | a reader that gives up after three attempts |
| **Pose timeline** (`remote_pose_timeline.cpp`) | ring of samples, statistics per second, playback position | push, evaluate, reset | the offset between two clocks from late arrivals; warp, re-anchor, hold; teleports between samples |
| **Staging** (`staging.cpp`) | the runtime tree, its backup, the incoming tree | prove, seal, swap, recover, validate, seed | two processes at once; a kill between two renames |
| **Launcher** (`apps/launcher`) | a session with its shutdown event, the worker, the driver profile | play, disconnect, close; edit the profile | closing at any moment; the only good profile and the only good backup |
| **Injector** (`apps/injector32`) | two allocations and two threads in the game | check, load, bootstrap | waits time out while the threads go on |
| **Codecs** (`protocol/codec.cpp`, `ipc/codec.cpp`, `pipe_server.cpp`) | none | encode, decode, validate | writer and reader of a message are separate code; the packet limit |
| **Simulator, tools, game readers** | test clients; tables of offsets | - | sequential, data |

What makes a component correct is stated with its module below. `PROJECT.json`
lists the hazards one by one, each at the line where it bites, with the
properties that would notice.

## 2. The modules

| Module | Extends | Models |
|---|---|---|
| `Session` | | the coordinator's handlers with the dispatch of their routes |
| `Coordinator` | `Session` | the session against transports that do what they like, and *ideal readers* of its queues |
| `CoordinatorProofs` | `Coordinator` | readers converge and are never confused |
| `StateRelay` | `Session` | the session's traffic in states, with time, rates and claims of any identity |
| `StateRelayProofs` | `StateRelay` | states are genuine, limited, in order, and snapshots complete |
| `Sidecar` | `Session` | network client, adapter and main loop, one step per handler |
| `Relay` | `Sidecar` | coordinator, network and one sidecar together, with faults |
| `CrowdedRelay` | `Relay` | the same with one history variable: did the session have more players than the sidecar has actors for |
| `RelayProofs` | `CrowdedRelay` | actors match the roster, the relay implements the feed, the coordinator is never accused without cause, and only states overtake |
| `CommandQueue` | | the bridge's queue |
| `ActorBackend` | `CommandQueue` | pipe worker, queue, game thread and game together |
| `ActorBackendProofs` | `ActorBackend` | slots, states, detours, frame writes and saves stay right |
| `RosterFeed` | | the abstract specification of the membership a sidecar is given; `Relay` implements it |
| `RosterFeedProofs` | `RosterFeed` | the feed converges and moves in single steps |
| `Timeline` | | the playback of one remote actor |
| `Codec` | | the layouts of all packets and frames as written and as read, limits, validators |
| `Stream` | `Timeline`, `Codec` | one player's states from his game to another's screen |
| `StreamProofs` | `Stream` | the playback never slides back, poses cross a jump only when its mark is lost; the stream implements the playback, is never ahead of the sender and carries every state |
| `Telemetry`, `AutoEnter`, `OnlineWorld` | | three parts of the bridge, each with the steps of every thread |
| `Bridge` | these three | bootstrap, pipe worker and tick detour around them |
| `BridgeProofs` | `Bridge` | stopping, reporting presence, dispatching and sanitizing |
| `Staging` | | any number of processes that stage one runtime |
| `Options` | | four checks of one request, and the request's way from the first to the last |
| `Injector` | `Options` | the injector and its threads inside the game |
| `Launch` | `Staging`, `Injector` | launcher, sidecar, injector, game and console together |
| `LaunchProofs` | `Launch` | staging alone, and the session around it, keep runtime, profile, options and memory safe |
| `MC...` | one of the above | model values and symmetry for TLC |

Inside a module a definition whose comment says *Mutant of X* is a wrong version
of X: TLC finds the property it is paired with violated when X is replaced by
it, which shows that the property depends on X.

### 2.1 Session

The coordinator is one thread: it serves one ENet event, sends the routes this
produced, and calls `Session::tick`. So an action is a whole handler with its
dispatch: `Connect`, `Accept`, `Refuse`, `RejectPacket`, `ReceiveDisconnect`,
`TransportLost`, `ReceivePing`, `RejectSpoof`, `IgnoreState`, `RelayState`,
`Tick`, and for the process `Shutdown`, `Crash`, `Start`.

* `registered` are the keys of the routing tables of `main.cpp`, `members` is
  `Session::peers_`. They differ between CONNECT and hello.
* `rel[c]` and `unrel[c]` are the packets on their way to transport `c` on the
  two channels. "closed" in `rel` is the end of the transport after
  `enet_peer_disconnect_later`.
* `Accept` puts the roster behind the welcome in any order, because the code
  iterates over an `unordered_map`.
* `PeerJoined` and `SpawnMetadata` always travel as a pair and mean the same to
  their reader, so they are one packet here.
* The clock moves in `Advance`, and `Tick` is an action of its own: the code
  reads the clock again before it ticks, so anything may have come in between.

Abstracted: vehicle and paint are part of the incarnation; the environment in a
snapshot is its time; a connection's id is used again once no table and no
packet refers to it (the code counts in 64 bits). Left out: the limit of
128 transports in the ENet host; exit code 6 when a reliable packet cannot be
queued; the heartbeat's texts.

### 2.2 Coordinator: what the membership stream promises

`view[c]` is the roster that an ideal reader assembles from the packets it has
read. Three properties:

* `TypeOK`: types, and a member is always routed.
* `RosterConverges`: a member that has read its queue knows exactly the others.
  No join or leave is lost, doubled or swapped by the routes of `accept` and
  `disconnect`, whoever comes and goes while the reader is behind.
* `ReadersNeverConfused`: at no moment does a reader know two peers of one name
  or id. The sidecar ends its session over either (`network_adapter.cpp:473-486`),
  so a `PeerLeft` must precede the `PeerJoined` that uses the name again *on
  every queue*.

`PeersDistinct` (no two members with one name or id; at most `MaxPlayers`) is local to
`accept` and is proved without a run of its own.

### 2.3 StateRelay: whose states arrive, in what order, how many

Members send states with any claimed identity and sequence number.

* `FeedOrdered`: on one channel another's states only get newer, across direct
  fan-out, snapshots and the wrap of the sequence number; only a snapshot may
  repeat one.
* `RateBound`: no window of one second, wherever it starts, holds more accepted
  states of a member than the limit.
* `SnapshotComplete`: each fresh player is in exactly one packet.

`NoImpersonation` (what reaches others was sent by the player it is about) is one guard
followed to the readers; it is proved without a run.

### 2.4 Sidecar and Relay: one session from end to end

`Sidecar` splits the thread of `run.cpp` where the rest of the system can come
in between: `ConnectNew`, `PollBegin`, one `Service...` per ENet event,
`PollEnd` or `ConnectTimeout`, then one `Handle...` per event of the batch, then
`PumpEnd` (silence). The point of the split is the **batch**: events are handled
only after all of them were polled, while `handle_message` asks for the state
the client has *now*.

`actors` are the actors that the spawn and despawn frames written to the pipe
leave alive in the bridge. `fault` remembers why the adapter gave up.

`Relay` adds the coordinator, other players that follow the protocol, packet
loss on channel 1, broken transports, crash and restart of the coordinator.

* `ActorsMatchRoster`: while the pipe lives, the actors in the game are those of
  the remotes that the roster calls spawned: one per player, none of a peer that
  left, of an earlier incarnation or of an earlier session, at most `MaxRemotes`.
* `NeverAccused`: the checks with which `handle_message` accuses the coordinator
  of a broken stream never fire against this coordinator, with one exception. A
  session takes up to 64 players (`types.hpp:20-21`) and a sidecar shows seven of
  them (`network_adapter.hpp:23-26`), so the check for a peer too many
  (`network_adapter.cpp:489-492`) ends the session of a sidecar in a large room, as
  `network_adapter_tests.cpp:284-296` demands. It may do so *only then*: `crowded`
  says that the coordinator had more members than actors and one since the sidecar
  dialled. That a ghost, a missed leave or an id used again does not fill the table
  is what is checked.
* `OnlyOvertakingViolates`: what the coordinator sends reliably never makes the
  client's own protocol check fail; the client fails only on a state that was read
  before the welcome or after the end, on the channel that does not wait. (Such a
  state ends the session for good, which `transport_tests.cpp:296-352` asserts.)
* `FeedSpec` (refinement): coordinator, network and sidecar implement
  `RosterFeed`. There the coordinator's roster travels to its reader as a
  sequence of rosters, each one change after the one before; transports, hellos,
  batches, lost connections and restarts are gone. The mapping reads the roster
  from `members`, the reader's from `remotes`, and the sequence between them from
  the packets on channel 0 and the events of the batch. `RosterFeedProofs` proves
  of every such feed that a reader that has seen all of it knows the roster, so
  the convergence of an admitted sidecar needs no property of its own.
* `ReconnectsAfterCrash` (liveness): if the coordinator stays up from some time
  on, the sidecar ends up admitted and stays so.
* `RestartIsReconnectable`: what a comment promises and the code does not do
  (section 6).

Time in the sidecar is not counted: silence, the retry delay and the connect
timeout may each pass whenever the code looks at them. Left out: the client
never sends `Ping`; trace files; the option that switches actors off.

### 2.5 CommandQueue and ActorBackend: remote trucks in the game

`CommandQueue` is `RemoteCommandQueue` under its lock. FIFOs are a function from
the identities in use; the entry of an identity outlives a drain with the number
of its last state, as in the code.

`ActorBackend` has four actors:

* the **sidecar's stream** (`Sendable`): spawn, states, repeated datagrams,
  despawn and spawn again, under the same incarnation or another. This is what
  `Sidecar` writes; that it does is argued here and not proved (section 4);
* the **pipe worker**: `Take` looks at the safe-mode latch, `Push` enqueues
  later. In between it may hold the queue's lock, so a drain may fail;
* the **game thread**: `TickBegin` drains and applies the batch, then one
  `Visit...` per slot, `todo` being those still to come; `TickInSafeMode`; the
  detours `PreSave`, `PreRegistryReset`, `FrameWriteFails`, `ShadowFails`,
  `SceneReadFails`, `AcquireObjects`, `ConstructorObjects`, which the game calls
  for the vehicles of armed slots, by mistake also on another thread. Every
  native call may fail where the code checks it (`Faults`); creating an actor
  fails in three different ways (`CreatesNothing`, `AppearanceFails`,
  `AcquisitionFails`) that leave different things behind;
* the **game** between ticks: it removes an actor, replaces its vehicle, moves
  the local player to another room or out of the world, saves.

Properties:

* `SlotsFollowCommands`: with no control pending, the slots are those of the
  players last spawned and not despawned, each in its newest life.
* `NoStateOfAnotherLife`: a slot never holds a state sent before its spawn,
  although a batch applies all controls before any state and a player may come
  back under the same identity.
* `ActorsAreHeld`: outside safe mode every actor the bridge created is held by a
  slot.
* `DetoursSeeSlots`: the published actors and vehicles are those of the slots.
* `ArmedVehiclesExist`: when a tick ends outside safe mode, frame writes are
  armed only for vehicles the game still has.
* `SavesAreClean`: a remote actor in a save implies safe mode.
* `SafeModeEmpties` (liveness): safe mode empties slots and indices, for good.

`life` numbers the spawns of a player so that properties can tell lives apart;
no action reads it. Abstracted: slots are keyed by identity and visited in any
order (the code's order is that of the array); poses are "there is one";
whether the vehicle of an actor is found by the resolver is a choice; the retry
delay may or may not have passed. Left out: a state whose vehicle differs from its
spawn's (safe mode); hooking, and the arithmetic of what a frame write stores. The
numbers of vehicles and actors are not given to
the game's own objects, so the reuse of an address by one of these is not seen.
The seqlock of the collision index is one step.

### 2.6 Bridge: the bridge's threads

`Bridge` puts the tick detour of the game thread (in stages: sample, world,
sanitizer, actors), the pipe worker (in stages: frames, sample, supervision) and
the game's own doings between ticks side by side. The stages are where the code
releases a lock or reads a flag another thread writes: the worker takes the
sample's lock in one step and the sample in the next, it stops telemetry in one
step and disarms auto enter, having read its state, in the next; the menu's
detour checks in one and claims by compare-exchange in the next. `Started` is
`initialize_impl`: which parts are asked for, which verify, and what each failure
takes down with it.

* `TelemetryStops`: once the worker has stopped telemetry at most two more
  samples leave, the pending one and that of the tick in progress.
* `PresenceTold`: the bridge forgets that the player was in the world only when
  the others were told; a transition whose try-lock failed is tried again.
* `DispatchedOnce`: the two menu events are sent once at most, and their dispatch
  does not begin after auto enter was disarmed.
* `SuppressionOutlivesFailure`, `CountsRestored`, `SanitizedIsEmpty`: safe mode
  stops the bridge's writes and does not hand traffic back to the game; the
  target counts are the game's own after every creation, unless the write itself
  failed; a tick that claims a sanitized world has left no stock actor.
* `LatchIsReported` (liveness): `SetObserverMode` may announce an active bridge
  over a latch that was set before (`bridge.cpp:593`); a status with mode safe or
  the end of the pipe follows.

Remote actors are a latch here (they are `ActorBackend`'s); the sidecar sends
what `run.cpp` sends; times are choices.

### 2.7 Staging, Options, Injector, Launch: from the button to the game

`Staging` has one action per file operation of `stage_game` that another process
can see, `Throw` for a failure before the commit, `Kill` anywhere. Trees are
records: complete or not, with known digests or not, sealed or not, from which
source, with which save files. `Launch` adds the launcher's window and its
detached worker, `run_staged_game` of the sidecar, the injector with its two
remote threads, the game that saves and ends, and a console from which the
runtime is staged, seeded or started by hand. `Options` follows the switches of a
run through the sidecar's command line, the injector's, the injector's request
and the bridge's flags.

* `TargetWhole`: what stands under the runtime's name is complete, proved and
  sealed.
* `LastGoodSurvives`: a whole runtime, once there, is always somewhere: under its
  name or in a backup.
* `GoodProfileSurvives`: between games no preparation of the driver profile,
  failed or killed, loses both the good profile and its good backup.
* `DisconnectHonoured` (liveness): a disconnect or a closed window ends the
  session wherever it is.
* `RemoteMemoryLives`: no thread in the game reads memory that was freed.
* `NeverRefused`: what the first check lets through, the later ones accept; a
  game is never started for a request the injector or the bridge then refuses.

What these leave out on purpose: `GoodProfileSurvives` does not speak of a step of
staging (a new runtime has no profile) or of a seed that is renamed over a
profile made since it was counted. `DisconnectHonoured` excludes
an event that is gone: when the launcher's *process* ends between starting the
sidecar and the sidecar's `CreateEventW` (`run.cpp:680`), the last handle closes,
the sidecar creates a new, clear event of that name, and the game starts.

### 2.8 Timeline, Codec, Stream: one player on another's screen

`Timeline` is `RemotePoseTimeline`: the ring of samples, the statistics per
second (least offset between the clocks, worst jitter and interval), and a frame,
which computes the ideal position, moves the playback clock towards it by a
limited share of the elapsed time or re-anchors it, and shows, extrapolates or
holds. A pose is the set of samples it is made from.

`Codec` writes every packet and frame down twice, as the encoder writes it and as
the decoder reads it, field by field with widths; whether a message is carried
follows from sizes, limits and equality. `Flaw` is the part of a state that is
out of bounds, and each of the four validators on the way objects to some flaws.

`Stream` runs samples through all of it: `Publish`, `PublishHidden` and
`Unpublished`, the worker's single slot, the network up (`LoseUp`), the
coordinator's `FanOut` and `Snapshot`, a channel that loses packets (`LoseDown`),
`Receive` with the sidecar's filters and the bridge's FIFO, `Apply`, `Frame`. The
sender's clock differs from the receiver's by `Skew`; the sidecar stamps the arrival
of a packet at any moment between its capture and its arrival at the bridge, which
replaces a stamp that is too old.

A teleport or an absence of the player is a *leap*. One sample tells of it, its
*marker*: the one with the teleport flag (`local_world_observer.cpp:699-709` raises
it once, against the sample before), or the one that hides him. `leap` counts the
leaps of the player in each sample, and `lost` holds those whose marker is gone:
never published because the worker held the lock (`telemetry.cpp:202-203`, which
nothing tries again for a teleport), overwritten in `g_latest` by the next sample,
lost by the network, refused, dropped from a full FIFO, or rejected by the playback.
Of several copies the first one lost counts until another gets through. Both are
ghosts: no guard reads them.

* `StreamIsCarried`: no message is too long, is read otherwise than written, or
  is refused by anybody but the side that made it.
* `NeverAheadOfSender`: what is displayed lies at least the smallest delay before
  the sender's clock.
* `PlaybackNeverSlidesBack`: from frame to frame the playback position does not
  go back, unless it is re-anchored by more than the resync threshold.
* `PoseIsJustified`: what a displayed pose is made from, and the sample it moves to
  next, lie in one room and on one side of every jump of the player *whose marker was
  not lost*, corrections included; and it is not extrapolated further than allowed.
  When the marker is lost, `evaluate_raw` has nothing else to go by (it does not look
  at the distance) and does blend across the jump: the vehicle slides over the map
  for one interval. The property says that this is the only way.

One life of one actor is followed, and membership is given; a batch is applied state
by state. A sample that is published late or not at all and is no marker is as one
never taken.

## 3. The runs

Times are for two workers.

| Run | Configuration | Distinct states | Shows |
|---|---|---|---|
| `membership` | `MCCoordinator.cfg` | 89,041 (20 s) | four transports connect, are refused, leave, break the protocol and vanish in every order over two processes; a reader of the membership packets always rebuilds the coordinator's table and is never confused |
| `relay` | `MCRelay.cfg` | 2,010,354 (2 min) | lost transports, timeouts, stops and restarts with the same player ids, another player under the sidecar's own name: actors, roster and table agree, the sidecar never accuses the coordinator of what it did not do, and its client fails only on states that overtook |
| `relay_crowded` | `MCCrowdedRelay.cfg` | 1,682,038 (2 min) | two other players and room for one, over crashes and losses: a peer too many is complained of only when there was one |
| `relay_reconnects` | `MCRelayCrash.cfg` | 172,001 (80 s) | liveness (the sidecar is admitted again and stays so) and refinement: coordinator, network and sidecar implement `RosterFeed` |
| `relay_stopped` | `MCRelayStopped.cfg` | violation | finding 1: an orderly shutdown polled in one batch with a snapshot makes the sidecar give up for good |
| `state_relay` | `MCStateRelay.cfg` | 1,162,806 (75 s) | states are in order, no faster than the limit, and snapshots complete, across the wrap of the sequence number |
| `actors_return` | `MCActorBackend.cfg` | 175,328 (75 s) | one player leaves and returns while the queue is full, calls into the game fail and the game saves on either thread: slots, states, actors and saves stay right; safe mode empties everything |
| `actors_pair` | `MCActorPair.cfg` | 1,329,937 (2.5 min) | two players whose actors the game removes and whose vehicles it replaces: what is published to the detours is what the slots hold, and frame writes are armed only for vehicles that are there |
| `actors_orphan` | `MCActorOrphan.cfg` | violation | finding 2: an actor linked before its creation fails is held by no slot |
| `bridge` | `MCBridge.cfg` | 1,119,149 (3 min) | bootstrap with any part failing, the pipe worker against the tick, worlds that come and go: stopping, sanitizing, reporting and auto enter keep their promises |
| `launch` | `MCLaunch.cfg` | 329,447 (50 s) | two launches against sidecar, injector, game and one command by hand, with failures and kills at every step: no runtime, profile or disconnect is lost, and what the command line accepts the game does not refuse |
| `stream` | `MCStream.cfg` | 1,498,980 (1.5 min) | samples over loss both ways, delay, repetition, teleports, samples never published, stamps that are replaced and a clock that differs: the playback clock neither runs ahead nor slides back, a pose crosses a jump only when its marker was lost, and every message of both protocols is read as it was written |

Bounds, and why they are enough for what they are used for:

* `membership`: three names, three admissions per process, two processes. The
  smallest instance in which a peer leaves and its name returns while a reader
  is still behind, a reader joins a roster of two, and both refusals occur. The
  theorems (section 5) remove these bounds for all of its properties.
* Relay runs: two transports for the sidecar (the old may linger while the new is
  admitted), one other player, three player ids per process, at most two
  processes, batches of at most two events. Two events suffice for a message and
  the event that changes the state it is judged by. `StateRoom = 1`: one datagram
  on the wire may still overtake or follow any reliable packet. The constraint
  `Followed` stops at the end of the batch in which the pipe was closed; nothing
  is claimed about what comes after. `relay_reconnects` leaves datagrams out: the
  refinement and the liveness are about channel 0. `relay` has room for all
  (`MaxPlayers = MaxRemotes + 1`), `relay_crowded` has not: three players against one
  actor stand for 64 against seven. It leaves datagrams and the second transport out,
  since its question is about membership alone; the theorem (5.8) has no such bound.
* State runs: sequence numbers of two bits, so that they wrap and half of the
  range (ambiguous) occurs; a chunk of one, so that chunks are full, and empty
  when nobody is fresh; a channel of two datagrams.
* Actor runs: three pending controls and FIFOs of one, so that a game that does
  not tick overflows the one and drops the oldest of the other; two actor
  numbers, so that one left behind and one in use coexist; two vehicles per
  actor, so that one is replaced.
* `bridge`: one native and one mission actor, a pipe of one frame and one frame a
  turn: the worker can be at any stage at any stage of the tick, which is what
  the properties are about. Bootstrap is tried with every set of failing parts.
* `launch`: two sources (a changed source must not be trusted), two launches (the
  second meets what the first left), one command or update on the console, at any
  point between; a `stage` by hand races only the first launch (`LastAlone`), and
  the second meets its result. `Nested` is empty: a nested source fails like a
  changed one.
  `Quiet` and `Reopen` keep an injector and a sidecar of an earlier launch from
  running into the next; a run by hand has no launcher beside it.
  The sidecar starts king.exe whether or not one runs; of two games the model follows
  the new one.
* `stream`: a clock of four ticks with one tick to a bucket and two buckets, so
  that statistics expire; a ring of two, a FIFO of one, sequence numbers of four
  bits that wrap at the second sample; a skew of two; a stamp is
  replaced when it is two ticks old; teleports, room changes, absences, samples not
  published and flawed samples count together against `MaxJumps`, which is one. One
  jump is enough for a pose to be blended across it: that this happens for a lost
  marker was checked by looking for it.
  Warps are one third and one of the elapsed time, so that slow warp rounds to
  nothing and fast warp does not.
* `CHECK_DEADLOCK FALSE` everywhere but in `bridge`: the bounds end every
  behaviour (no more player ids, no more processes, no more lives), and a sidecar
  that gave up or a coordinator that was stopped is a legitimate end.

Symmetry is used in runs of invariants and action properties, never in runs with
liveness.

Fairness:

* `Relay!FairSpec`. The sidecar's thread loops every few milliseconds: weak
  fairness of `Thread`. ENet retransmits reliable packets and gives up peers that
  do not answer; a dial, a handshake, the service of a packet and of a hello and
  the end of a transport the sidecar has left are each delayed by other events
  but never for ever: strong fairness of these. Nothing is assumed of the
  coordinator's operator, of crashes or of other players; `<>[]running` is a
  premise of the property.
* `ActorBackend!FairSpec`. The game keeps running its AI tick and the worker
  pushes what it holds. Nothing is assumed of commands, detours or the game.
* `Bridge!FairSpec`. The pipe worker is a thread that polls: weak fairness of its
  steps, and strong fairness of its report on the actors, which is due every 2.5
  seconds and can be put off only by other work of the same thread. Nothing is
  assumed of the game or the sidecar.
* `Launch!FairSpec`. Weak fairness of the launcher (its worker, its messages, the
  end of a closed window) and of the sidecar, each of whose waits has a timeout.
  The injector may hang (the sidecar kills it), the game may hang, and the user
  does what he likes.

## 4. What is done and what is left

Done: every module of section 2, each with its runs, and a theorem for every
safety property the passing runs check and two more (2.2, 2.3), the refinement of `RosterFeed` by `Relay`
included.

Left, in order of worth:

1. The step from `Relay`'s `actors` to `ActorBackend`'s `Sendable` as a refinement:
   what `Sidecar` writes is what `ActorBackend` assumes. `ActorsMatchRoster` and its
   theorem say it of the set of actors; the order of states and controls in the pipe
   is what is missing.
2. `CollisionIndex`: the seqlock of `remote_actor_registry.cpp:80-150`, a writer
   and readers that give up after three attempts. *No reader returns a pair that
   was never published together.*
3. `replication.cpp`: capture and application of a vehicle's state with its
   owner's checks.
4. The liveness properties for every value of the constants; they need a prover
   that handles ENABLED.

## 5. What is proved

The theorems are about the specifications without fairness (`Spec`); runs with
liveness use `FairSpec`, which is `Spec` and fairness, so the theorems hold of it
as well. TLC checks every property named here on a small instance (section 3).

### 5.1 The coordinator

`CoordinatorProofs` proves, for every set of connections, names and incarnations
and every value of the numeric constants that `SessionAssumption` allows:

| Theorem | States |
|---|---|
| `Invariance` | `Spec => []IInv` |
| `TypeCorrect` | `Spec => []TypeOK` |
| `DistinctPeers` | `Spec => []PeersDistinct` |
| `RosterConvergence` | `Spec => []RosterConverges` |
| `NeverConfused` | `Spec => []ReadersNeverConfused` |

Assumptions: `SessionAssumption` (numbers are naturals, watched transports are
transports, limits are not zero), and `IsFiniteSet` is not needed of the
constants: the members are finite because each step adds one at most.

`RosterConverges` is not inductive: it speaks of empty queues only, and says
nothing of how a queue becomes empty. The strengthening `IInv` has four parts:
types; `MembersOK` (ids below the next one, distinct ids and names);
`PeersDistinct`; and `QueuesOK`, which relates for every member the packets still
queued, the roster its reader has so far, and the coordinator's table:

* *announced*: each other member is known to the reader or will be;
* *plausible*: each announcement in the queue is of a present member or is
  followed by its leave, each leave is of an id that is gone for good, and the
  welcome can only be first;
* *revoked*: each peer the reader knows is a member or its leave is queued.

With an empty queue the first and the third say that roster and table are equal.
That the leave comes *after* the announcement needs that ids are never handed
out twice, which is why `MembersOK` belongs to the invariant. The lemmas
`QueueJoin`, `QueueLeave`, `QueuePong`, ... show that each way a queue changes
preserves the relation; the proof of the step then has one case per action.

`ReadersNeverConfused` needs a second layer. `IInv` says *that* the leave of a peer
that is gone is queued; here its place in the queue matters. `Clear` says of one queue
that of two announcements which clash (one id or one name) the first is declared
gone between them, that a peer the reader knows is declared gone before one that
clashes with it is announced, and that the reader's own identity clashes with none.
A join appends a peer that clashes with no member; whoever clashed with it is no
member any more, so by `IInv` the leave is queued already, and a leave is never of
an id that will be used again. `QueuesClear` (every queue is `Clear`) is inductive
relative to `IInv`.

### 5.2 The feed

`RosterFeedProofs`: `FeedConverges` (a reader that has seen everything sees the
roster, and what is on its way has no gap) and `FeedOneByOne` (the view changes
by one player or is emptied), for any set of players. The invariant is types,
convergence and single steps together: that the next roster differs in one player
needs that all of those on their way do. That `Relay` implements the feed is proved
in 5.8, so both hold of what coordinator, network and sidecar do together.

### 5.3 Traffic in states

`StateRelayProofs`, for any number of connections and players, any rate limit and
window, any range of sequence numbers and any size of a snapshot's packet:

| Theorem | States |
|---|---|
| `Invariance` | `Spec => []IInv` |
| `RateIsLimited` | `Spec => []RateBound` |
| `NeverImpersonated` | `Spec => []NoImpersonation` |
| `FeedsKeepOrder` | `Spec => []FeedOrdered` |
| `SnapshotsAreComplete` | `Spec => []SnapshotComplete` |

* The rate: the session forgets the times that have left the window and compares
  the number of the others with the limit. `RatesOK` says that its list is the end
  of the true history, that what it forgot was out of the window, and that the
  first and last of `RateLimit + 1` accepted states in a row are a window apart;
  `RateBound`, for a window at *any* place, follows by counting.
* Impersonation: what is stored for a member, not only what was sent on, is of
  that member (`TruthOK`).
* Order: in each channel a player's states get newer up to the one the coordinator
  keeps (`FeedOK`); the next one sent is newer than that, or the same one in a
  snapshot. "Newer" is not transitive round the circle of sequence numbers, so the
  order is one of consecutive datagrams about a player.
* Completeness of a snapshot is a lemma about chunks of a set (`ChunksComplete`)
  and needs no invariant but types.

Assumptions: `SessionAssumption`, and `NoStateAssumption` ("no state yet" is not a
state; the code uses an optional).

### 5.4 Staging and the session around it

`LaunchProofs` begins with staging alone, for any number of processes, sources and
save names:
`RuntimeIsWhole` (`StagingSpec => []TargetWhole`) and `RuntimeIsNeverLost`
(`StagingSpec => LastGoodSurvives`). The first needs what a process holds at each
step (`Held`: from sealing on its incoming tree is genuine). The second is not
inductive: a backup that is being removed could be the last whole runtime. The
invariant adds that whenever somebody removes a backup, a whole runtime is under
the name, in the backup of a process that is not removing, or left behind.

It then carries both over to the whole session, where launcher, game and
console change the save files and stage side by side, and adds what only the whole
can promise, for any sources, commands and number of launches:

| Theorem | States |
|---|---|
| `SessionInvariance` | `Spec => []LInv` |
| `SessionTypes` | `Spec => []TypeOK` |
| `SessionRuntimeIsWhole` | `Spec => []TargetWhole` |
| `SessionRuntimeIsNeverLost` | `Spec => LastGoodSurvives` |
| `StartedIsAccepted` | `Spec => []NeverRefused` |
| `ThreadsReadLiveMemory` | `Spec => []RemoteMemoryLives` |
| `ProfileIsNeverLost` | `Spec => GoodProfileSurvives` |

`LInv` adds to the invariant of staging: types; `Pinned`, that a tree somebody has
a file open in stays in place; `Alone`, which of worker, sidecar and injector can
be at work together; `Agreed`, that the options a program holds come from a command
the first check let through; and `Awaited`, what each thread in the game may still
read at each step of the injector. That a timed-out wait leaves its memory
allocated (`injector.cpp:570-575`) is what makes the last one inductive.
Assumptions: those of staging, and `LaunchAssumption` (launcher and console are
stagers, and the five kinds of file exist).

### 5.5 Playback and stream

`StreamProofs` begins with the playback alone: `NeverSlidesBack`
(`TimelineSpec => PlaybackNeverSlidesBack`), for all delays, thresholds, warps,
samples and frame times. The invariant (`TimelineInv`) is that statistics are numbers
and that what is displayed is the playback
position; the argument is that the warp's limit is a share of the elapsed time,
so a warped position is not before the one it started from.

`TrajectoryIsUnbroken` (`TimelineSpec => []Unbroken`): of the samples the playback
accepted, those that are buffered or displayed are of one room, none but the first
has the teleport flag, and none is newer than the last one accepted. Corrections blend
a pose with the one displayed before, so the displayed samples must be part of the
invariant. It speaks of flags, and so of samples that arrived; what the player really
did is the business of the next theorems.

The rest composes the playback with everything between two games:

| Theorem | States |
|---|---|
| `StreamIsTyped` | `StreamSpec => []StreamInv` |
| `DisplayedIsPast` | `StreamSpec => []NeverAheadOfSender` |
| `StreamImplementsTimeline` | `StreamSpec => TimelineSpec` |
| `StreamNeverSlidesBack` | `StreamSpec => PlaybackNeverSlidesBack` |
| `StreamIsInOrder` | `StreamSpec => []InOrder` |
| `PosesAreJustified` | `StreamSpec => []PoseIsJustified` |
| `StatesAreCarried` | `StreamSpec => []StreamIsCarried`, if a full snapshot and a state fit |

`NeverAheadOfSender` is not inductive. `StreamInv` says where the bound comes from:
every packet on the wire was sent by now on the sender's clock, every state in
the FIFO and in the ring was received after it was sent, so no offset in the
statistics is below the true one (`-Skew`); the ideal position is then at least
`MinDelay` behind the sender, and a warped one lies between the ideal and one that
was behind already. A hold before anything was played is the one case in which
the playback position is not a bound of itself; there the target is past the
newest sample, so the sender's clock is positive. Assumptions: `TimelineAssumption`,
`NoneAssumption` and `StreamAssumption` (numbers are naturals, `MinDelay <= MaxDelay`,
the skew is an integer). `DisplayedIsPast` needs nothing of the
coordinator but that it does not make up states.

`PoseIsJustified` is a theorem of `StreamSpec` and not of `TimelineSpec`: whether a
pose crosses a jump is a matter of what became of the jump's marker on the whole way.
`InOrder` says that whatever waits in the FIFO, on the channel, at the coordinator and
at the sender is in the order of its capture, because the channel is sequenced and a
snapshot repeats the newest state only; that of two such samples with one leap count
at most the first marks it; and that the playback is nowhere further ahead of them
than extrapolation may go (the position outlives a buffer that is given up). The
sequence numbers play no part in this, so it holds round their wrap as well.
`Accounted` then follows each leap: one the playback has not got to is still on its
way in its marker, or is lost; and those between a sample that is buffered or
displayed and the newest one are lost. A marker that arrives ends what is displayed
(`Unbroken` supplies that nothing older stays), so only a lost one can be in between.
`NoneAssumption` and `NoneIsNoState` say that "no sample" is neither a sample nor a
state.

`StatesAreCarried` is about every layout of `Codec` at once. The size of a layout
is a sum over its fields, and a snapshot's is one over as many states as are in it,
so it is measured by lemmas (`SizeJoined`, `SizeOfArray`, `SizeOfState`,
`SizeOfStates`, ...) and not by evaluation: a state takes 378 bytes, in a packet as
in a frame, and the snapshot's own part 54. The hypotheses are
what the limits of the code have to satisfy,

    HeaderSize + 54 + 378 * MaxSnapshotPlayers <= MaxPacketSize    378 <= MaxPayload

and with its 12, 3 and 1200 the first is an equation: a packet that holds a
snapshot of three states has no byte left. From them `PacketsAreCarried`,
`SnapshotsAreCarried` and `FramesAreCarried` follow. The part about refusal has an
invariant of its own, `NothingRefused`: what has left the sender is in bounds for
the strictest of the four validators.

### 5.6 The bridge

`BridgeProofs`, for any requests, batches, pipe bounds and stock actors:

| Theorem | States |
|---|---|
| `BridgeInvariance` | `Spec => []BInv` |
| `BridgeTypes` | `Spec => []TypeOK` |
| `StopsForwarding` | `Spec => []TelemetryStops` |
| `SanitizedHolds` | `Spec => []SanitizedIsEmpty` |
| `CountsComeBack` | `Spec => []CountsRestored` |
| `PresenceIsTold` | `Spec => []PresenceTold` |
| `DispatchesOnce` | `Spec => DispatchedOnce` |
| `SuppressionStays` | `Spec => SuppressionOutlivesFailure` |

`TelemetryStops` counts two samples; `Counting` says which: the pending one and that
of the tick that has begun. That telemetry which was stopped stays so needs the
order of frames: the request to observe is the sidecar's first (`Letters`), so a
worker that has taken a frame is not asked again (`Stopping`). `Fresh` says that
before the bootstrap there is nothing to stop, `Offered` that telemetry the sidecar
may ask for was never off, `Armed` what auto enter's one attempt depends on.
No assumption on constants.

### 5.7 The remote actors

`ActorBackendProofs`, for any players, incarnations, lives, vehicles and sizes of
the queue and the tables:

| Theorem | States |
|---|---|
| `ActorInvariance` | `Spec => []AInv` |
| `ActorTypes` | `Spec => []TypeOK` |
| `SlotsAreThePlayers` | `Spec => []SlotsFollowCommands` |
| `StatesAreOfTheirLife` | `Spec => []NoStateOfAnotherLife` |
| `DetoursAgree` | `Spec => []DetoursSeeSlots` |
| `ArmedVehiclesAreThere` | `Spec => ArmedVehiclesExist` |
| `NothingIsOrphaned` | `Spec => []ActorsAreHeld`, if `"acquire"` is not in `Faults` |
| `SavesStayClean` | `Spec => []SavesAreClean`, if `"acquire"` is not in `Faults` |

The hypothesis of the last two is finding 2: with that fault they are false, which
`actors_orphan` shows; without it they hold for every combination of the others.

None of the properties is inductive. `AInv` follows a life from one end to the
other:

* *The sender's side.* `Pushed` are the lives (identity and number) that the queue
  was told of; what the worker has taken and not pushed yet was the last word about
  its player (`Fetched`).
* *The queue.* `Path` says that the pending controls, applied one after the other,
  lead from the lives the slots have to those of `Pushed` (`Followed`); and each
  state in a ring is of a life in `Pushed` (`Rings`): a despawn drops the ring, so
  no state of an earlier life waits behind it. That is why a batch may apply all
  its controls before any state.
* *The game's side.* Slots and world are typed and finite, the published actors and
  vehicles are those of the slots (`Published`), no two slots share an actor
  (`Distinct`), and a slot that was visited in the tick under way is armed for a
  vehicle that is there or not at all (`Armed`).

In safe mode only the game's side remains: commands are refused from then on.
`ActorsAreHeld` and `SavesAreClean` are proved inductive together with `AInv`.

`apply_batch` is two folds over a batch of any length. What they leave behind is
proved by induction over the number of commands applied, for a *set* of numbers
(`Ascent`, from the least element of a set of naturals), which needs no operator as
a parameter. What a tick does is proved visit by visit: a visit replaces one slot
(`Visited`) and keeps its actor if it has one (`Lasts`), and one lemma
says that every such step keeps the invariant (`VisitKeeps`); a batch, a purge, safe
mode and the reset of the registry change all slots at once (`Swept`, `SweepKeeps`).

Assumptions: `QueueAssumption` (sizes are positive, and sequence numbers have a range
of two at least, so that consecutive ones differ; the code's is 2^32) and
`BackendAssumption` (there is an incarnation; "idle" is not a command).

### 5.8 The relay

`RelayProofs`, for any transports, names, incarnations, numbers of players,
processes and datagrams on the way:

| Theorem | States |
|---|---|
| `RelayTypes` | `Spec => []TypeOK` |
| `ActorsAreTheRosters` | `Spec => []ActorsMatchRoster` |
| `RelayImplementsFeed` | `Spec => FeedSpec` |
| `CoordinatorIsNeverAccused` | `CrowdSpec => []NeverAccused` |
| `OnlyStatesOvertake` | `Spec => OnlyOvertakingViolates` |

`MaxPlayers` and `MaxRemotes` are any two numbers: nothing is assumed of the 64 players
that `session.cpp:22` admits at most and the seven actors of a sidecar.

`RelayTypes` and `ActorsAreTheRosters` need one step of the adapter at a time (`SideOK`: types, a roster
within its bound, and the actors that match it). The refinement and `NeverAccused` need
all that is between the coordinator's table and the adapter's at once. `RelayOK` adds

* `ClientOK`, the order in a batch: a connected event is the first, messages follow,
  and the adapter has its session once it has read that event;
* `ConnOK`, the transport in use: its member is the sidecar, a hello on its way is the
  present one, and all packets and datagrams on it and in the batch are in the terms of
  one welcome (the session, and the id the sidecar was given).

What the coordinator may do to a transport in one step is one of five things
(`Served`): nothing about membership (`Quiet`), admit it (`Admitting`), tell it of a
peer that joins (`Joining`) or leaves (`Leaving`), or end it (`Ending`). Each of the
coordinator's handlers is shown to be one of them for every transport, so that
everything after that has five cases and not one per handler.

The refinement maps the sequence of rosters on their way to what the messages on
their way (`Way`: the batch, then channel 0) will make of the adapter's roster, one
after the other (`Rosters`, a recursive function over the messages). Lemmas say how
this sequence changes when a message is added at its end, read at its front, or does
not touch the roster; the `Lag` lemmas say it of the five cases above and of each step
of the sidecar, and the `Feed` lemmas conclude that the step is one of the feed's or
changes nothing in it. The welcome puts a whole roster on the way at once; that it
arrives peer by peer, in any order, is `Ascent`. The invariant of `RosterFeedProofs`
is used through an INSTANCE under the same mapping (`FedOK`): it says that the last
roster on the way is the coordinator's table, which is what makes the next join or
leave a single change.

`NeverAccused` then has little left to show. An adapter accuses when a join is of a
peer it knows, of its own id or name, or of one too many, when a leave is of nobody,
and so on. `GoodLag` says that every roster on the way, not only the last, is one
nobody could object to, and is larger than the adapter's table only if the session is
`crowded`; for each message this is one look at the roster before it and the one
after.

`OnlyOvertakingViolates` needs the order on channel 0 (`Ordered`): as long as the
client is connecting, the first packet in its transport is the welcome or a refusal,
and nothing follows the end.

Assumptions: `SessionAssumption`, `NoStateAssumption`, `SidecarAssumption` (the
sidecar's transports are watched, "no connection" is not a connection) and
`RelayAssumption` (names of others are names, sequence numbers have room).

### 5.9 Only model-checked

Liveness under fairness, which is out of the prover's reach as everything with
ENABLED is: `ReconnectsAfterCrash`, `SafeModeEmpties`, `LatchIsReported`,
`DisconnectHonoured`. The properties of the two runs that expect a violation are
refuted, not proved.

Induction with an operator as a parameter, as the library states it, is out of
reach. Where a proof needs induction it is over a set of numbers (`SetInduction`,
`ByInduction`, 5.7's least element), along a function that is known to exist at each
length (`RunExists`), or hidden in an invariant.

## 6. Where the code and its text disagree

1. **An orderly restart can end a sidecar's session for good**
   (`relay_stopped`). `Client::poll` drains all ENet events before the adapter
   handles the first, and `handle_message` asks for the client's state *after*
   the batch. If a snapshot or a membership packet is polled together with the
   `server_shutdown` notice, the packet is refused as "outside an admitted
   session", `pump` fails and `run.cpp:907-917` closes the pipe.
   `client.hpp:54` calls an orderly restart reconnectable.
2. **An actor can be left behind** (`actors_orphan`). `createNewPlayer` has
   linked the actor into the game; when `acquirePlayerId` fails and leaves no
   id, `create_actor` forgets the actor and asks for no safe mode
   (`remote_actor_backend.cpp:816-825`); the loop tries again a second later
   and creates another. A failed change of model a few lines above asks for safe
   mode, "never leave a half-created stock actor behind". `docs/OVERVIEW.md:33`
   promises that on errors the module stops and removes the vehicles it created.
   With the Steam online world the sanitizer removes the actor after the next tick,
   since no slot owns it; without it nobody does.
   For this reason `"acquire"` is not among the faults of the other actor runs.

## 7. What is not modelled

* The game's memory (`src/game`): offsets, signatures, pattern scans and reads of
  `king.exe`. Tables of data without a transition of their own.
* The numbers: poses, quaternions, the records of a driver profile, digests.
  `Timeline` keeps times and which samples a pose comes from.
* The simulator and the tools, which drive the coordinator in tests; the settings,
  drawing and languages of the launcher; installing hooks; diagnostics and logs.
* `replication.cpp` beyond its latch, and the focus-loss handler.
* The seqlock of the collision index (section 4), and the reuse of a freed
  vehicle's address by the game.
* A reliable packet ENet cannot queue, which ends the coordinator (exit code 6),
  and the limit of 128 transports.
* Reads of the pipe's handshake that never return (`pipe_server.cpp:95-158`).
* Win32 and ENet themselves: they are modelled from how the code uses them
  (a reliable ordered channel, a lossy sequenced one, the end of a transport;
  a pipe that delivers frames in order until it breaks; a lock with a try; an
  event that goes with its last handle; an atomic rename).
