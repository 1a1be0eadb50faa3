-------------------------------- MODULE Bridge --------------------------------
(***************************************************************************)
(* The bridge in the game process: bootstrap, the pipe worker (bridge.cpp) *)
(* and the tick detour (telemetry.cpp) with what the tick calls.           *)
(*                                                                         *)
(*   The game thread runs one tick in stages, `tick`; between two ticks    *)
(*   the game loads and leaves worlds, creates traffic, shows its menu.    *)
(*   The worker runs its loop in stages, `worker`: the sidecar's frames,   *)
(*   the sample, the supervision.  To give up takes it two steps, since    *)
(*   the disarming of auto enter reads and then writes.                    *)
(*   The sidecar is external here; it sends what run.cpp sends, in that    *)
(*   order, and may be gone at any moment.                                 *)
(*                                                                         *)
(* The remote actors are ActorBackend's; here they are a latch.  Times     *)
(* (due reports, sample cadence) are choices.  Left out: malformed and     *)
(* unknown frames (the sidecar sends none; the former end as EnterSafeMode *)
(* does), SetObserverMode(false) (nobody sends it), actor diagnostics,     *)
(* status texts.                                                           *)
(***************************************************************************)
EXTENDS Telemetry, AutoEnter, OnlineWorld, Sequences

CONSTANTS
  Requests,  \* sets of bootstrap flags the sidecar may ask for
  MaxBatch,  \* frames the worker takes in a turn (16)
  MaxInbox   \* bound: frames in the pipe

ASSUME BridgeAssumption ==
  /\ Requests \subseteq SUBSET {"telemetry", "actors", "online", "auto",
                                "steam"}
  /\ MaxBatch \in Nat \ {0} /\ MaxInbox \in Nat \ {0}

VARIABLES
  boot,        \* g_initialization_state: "new", "initializing", "ready"
  pipe,        \* the bridge's end: "none", "open", "closed"
  ready,       \* BridgeReady as it was sent: mode and capabilities
  mode,        \* g_mode
  actors,      \* g_ready of the remote actors
  actorsSafe,  \* their safe-mode latch
  replicating, \* g_enabled of replication.cpp
  tick,        \* where the game thread is in a tick, "game" between two
  seen,        \* the tick's local_world_ready
  inWorld,     \* the local player is in a world
  worker,      \* where the worker is in its loop
  handled,     \* frames of the current turn
  leaving,     \* what the worker remembers while it gives up
  inbox,       \* frames the sidecar has written
  sidecar,     \* "starting", "up", "leaving", "gone"
  warned,      \* a status with mode safe was written
  last,        \* the last sample written to the pipe
  late         \* samples written since the worker disarmed, up to 3

bootVars == <<boot, ready, actors>>
tickVars == <<tick, seen, inWorld>>
pipeVars == <<inbox, sidecar>>
outVars == <<warned, last, late>>
workerVars == <<worker, handled, leaving, mode, pipe>>
vars == <<telemetryVars, autoVars, onlineVars, stock, bootVars, actorsSafe,
          replicating, tickVars, workerVars, pipeVars, outVars>>

Mode == {"safe", "observer", "active"}
Capability == {"telemetry", "auto", "actors", "online", "replication"}
Frame == {"observer", "remote", "environment", "safe"}
NotLeaving == [armed |-> FALSE, online |-> FALSE, ends |-> FALSE]

-----------------------------------------------------------------------------
(* Bootstrap, on the injector's remote thread.                             *)

(* What installs when the flags are `req` and the parts in `good` verify   *)
(* and get their hooks.  A part that fails removes the hooks it created.   *)
TelemetryInstalls(req, good) == "telemetry" \in req /\ "hook" \in good

AutoInstalls(req, good) ==
  TelemetryInstalls(req, good) /\ "auto" \in req \cap good

ActorsInstall(req, good) ==
  TelemetryInstalls(req, good) /\ "actors" \in req \cap good

WorldInstalls(req, good) ==
  ActorsInstall(req, good) /\ "steam" \in req /\ "online" \in req \cap good

HornInstalls(good) == "horn" \in good

(* Lights, wheels, weather and the horn: all or nothing.                   *)
ReplicationInstalls(good) == "replication" \in good /\ HornInstalls(good)

(* initialize_impl of telemetry.cpp.  A rejected online world, or          *)
(* replication, ends in safe mode; only the former also stops the          *)
(* telemetry, and neither disarms auto enter.                              *)
Started(req, good) ==
  LET world == WorldInstalls(req, good)
      writes == IF "online" \in req THEN world ELSE ActorsInstall(req, good)
      replicates == writes /\ "steam" \in req
      rejected ==
        TelemetryInstalls(req, good) /\ "online" \in req /\ ~world
      fails == rejected \/ (replicates /\ ~ReplicationInstalls(good))
      passive == ~TelemetryInstalls(req, good) \/ fails
  IN [mode |-> IF passive THEN "safe"
               ELSE IF writes THEN "active" ELSE "observer",
      caps |-> IF passive THEN {}
               ELSE {"telemetry"}
                    \cup (IF AutoInstalls(req, good) THEN {"auto"} ELSE {})
                    \cup (IF writes THEN {"actors"} ELSE {})
                    \cup (IF world THEN {"online"} ELSE {})
                    \cup (IF replicates THEN {"replication"} ELSE {}),
      enabled |-> TelemetryInstalls(req, good) /\ ~rejected,
      latched |-> fails,
      replicating |-> replicates /\ ~fails]

(* Ht2mpBootstrap: a request that is refused, or a pipe that cannot be     *)
(* opened, leaves the state at "initializing", and a second request finds  *)
(* it so.                                                                  *)
BootstrapRefused ==
  /\ boot = "new"
  /\ boot' = "initializing"
  /\ sidecar' = "gone"
  /\ UNCHANGED <<telemetryVars, autoVars, onlineVars, stock, ready, actors,
                 actorsSafe, replicating, tickVars, workerVars, inbox, outVars>>

(* bootstrap_impl.  A worker that does not start stops what was started,   *)
(* all but the online world.                                               *)
Bootstrap(req, good, starts) ==
  LET s == Started(req, good)
  IN /\ boot = "new"
     /\ boot' = IF starts THEN "ready" ELSE "initializing"
     /\ pipe' = IF starts THEN "open" ELSE "closed"
     /\ worker' = IF starts THEN "handshake" ELSE "ended"
     /\ sidecar' = IF starts THEN "starting" ELSE "gone"
     /\ ready' = [mode |-> s.mode, caps |-> s.caps]
     /\ mode' = s.mode
     /\ hooked' = TelemetryInstalls(req, good)
     /\ enabled' = (s.enabled /\ starts)
     /\ auto' = IF AutoInstalls(req, good) /\ starts THEN "armed" ELSE "disabled"
     /\ actors' = ActorsInstall(req, good)
     /\ actorsSafe' = (s.latched \/ ~starts)
     /\ replicating' = (s.replicating /\ starts)
     /\ online' = WorldInstalls(req, good)
     /\ onlineSafe' = s.latched
     /\ UNCHANGED <<wasIn, latest, locked, mismatch, menu, attempts, disarmed,
                    failed, sanitized, creating, clamped, stock, tickVars,
                    handled, leaving, inbox, outVars>>

-----------------------------------------------------------------------------
(* The game between two ticks.                                             *)

gameIdle == tick = "game"

EnterWorld ==
  /\ gameIdle /\ ~inWorld /\ ~creating
  /\ inWorld' = TRUE
  /\ UNCHANGED <<telemetryVars, autoVars, onlineVars, stock, bootVars,
                 actorsSafe, replicating, tick, seen, workerVars, pipeVars,
                 outVars>>

LeaveWorld ==
  /\ gameIdle /\ inWorld /\ ~creating
  /\ inWorld' = FALSE
  /\ RegistryReset
  /\ UNCHANGED <<telemetryVars, autoVars, bootVars, actorsSafe, replicating,
                 tick, seen, workerVars, pipeVars, outVars>>

Traffic ==
  /\ gameIdle /\ inWorld
  /\ NativeTraffic \/ MissionTraffic
  /\ UNCHANGED <<telemetryVars, autoVars, bootVars, actorsSafe, replicating,
                 tickVars, workerVars, pipeVars, outVars>>

(* A failure of the detour's also latches the remote actors, and with them *)
(* replication.                                                            *)
CreatePlayersRegular(fails) ==
  /\ gameIdle /\ inWorld
  /\ CreateRegular(fails) \/ CreatedRegular(fails)
  /\ actorsSafe' = (actorsSafe \/ fails)
  /\ replicating' = (replicating /\ ~fails)
  /\ UNCHANGED <<telemetryVars, autoVars, bootVars, tickVars, workerVars,
                 pipeVars, outVars>>

(* The menu's detours run between two ticks or, while the game loads,      *)
(* around them.                                                            *)
Menu ==
  /\ \/ CheckMenu /\ ~inWorld
     \/ ClaimDispatch
     \/ FinishDispatch
  /\ UNCHANGED <<telemetryVars, onlineVars, stock, bootVars, actorsSafe,
                 replicating, tickVars, workerVars, pipeVars, outVars>>

(* fail of replication.cpp: lights, weather or the horn.                   *)
ReplicationFails ==
  /\ replicating /\ gameIdle
  /\ replicating' = FALSE /\ actorsSafe' = TRUE
  /\ UNCHANGED <<telemetryVars, autoVars, onlineVars, stock, bootVars,
                 tickVars, workerVars, pipeVars, outVars>>

-----------------------------------------------------------------------------
(* PostAiTickDetour.                                                       *)

(* Mutant of Poll: telemetry that was stopped is polled all the same.      *)
PollAnyway ==
  \/ /\ inWorld
     /\ tick' = "publish"
     /\ UNCHANGED <<telemetryVars, seen>>
  \/ /\ ~inWorld
     /\ tick' = "after" /\ seen' = FALSE
     /\ IF wasIn THEN PublishHidden ELSE UNCHANGED <<latest, wasIn>>
     /\ UNCHANGED <<hooked, enabled, locked, mismatch>>

(* poll_after_original up to the sample: in a world one is due or not, out *)
(* of a world the transition is published.                                 *)
Poll ==
  \/ /\ enabled /\ inWorld
     /\ tick' = "publish"
     /\ UNCHANGED <<telemetryVars, seen>>
  \/ /\ ~(enabled /\ inWorld)
     /\ tick' = "after" /\ seen' = FALSE
     /\ IF enabled /\ wasIn THEN PublishHidden ELSE UNCHANGED <<latest, wasIn>>
     /\ UNCHANGED <<hooked, enabled, locked, mismatch>>

(* The tick begins on the thread that owns it.                             *)
TickBegins ==
  /\ gameIdle /\ ~creating /\ hooked
  /\ Poll
  /\ UNCHANGED <<autoVars, onlineVars, stock, bootVars, actorsSafe,
                 replicating, inWorld, workerVars, pipeVars, outVars>>

(* The tick on a foreign thread: telemetry stops, both latches are set.    *)
ForeignTick ==
  /\ gameIdle /\ hooked /\ ~mismatch
  /\ mismatch' = TRUE /\ enabled' = FALSE
  /\ LatchOnline
  /\ actorsSafe' = TRUE /\ replicating' = FALSE
  /\ UNCHANGED <<hooked, wasIn, latest, locked, autoVars, stock, bootVars,
                 tickVars, workerVars, pipeVars, outVars>>

(* The rest of poll_after_original in a world: the sample, if one is due,  *)
(* with the state of the vehicle captured (a capture that fails stops      *)
(* replication), auto enter told, the world noted.                         *)
Publish(due, captured) ==
  /\ tick = "publish"
  /\ tick' = "after" /\ seen' = TRUE
  /\ IF due THEN PublishSample ELSE UNCHANGED latest
  /\ wasIn' = TRUE
  /\ WorldReady
  /\ replicating' = (replicating /\ captured)
  /\ actorsSafe' = (actorsSafe \/ (replicating /\ ~captured))
  /\ UNCHANGED <<hooked, enabled, locked, mismatch, onlineVars, stock,
                 bootVars, inWorld, workerVars, pipeVars, outVars>>

(* TickReplication and the first half of TickSteamOnlineWorld.             *)
TickWorld ==
  /\ tick = "after"
  /\ IF Active /\ seen
     THEN tick' = "sanitize" /\ UNCHANGED <<onlineVars, stock>>
     ELSE tick' = "actors" /\ OutsideWorld
  /\ UNCHANGED <<telemetryVars, autoVars, bootVars, actorsSafe, replicating,
                 seen, inWorld, workerVars, pipeVars, outVars>>

Sanitize ==
  /\ tick = "sanitize"
  /\ tick' = "actors"
  /\ \/ SanitizeRegistry /\ UNCHANGED <<actorsSafe, replicating>>
     \/ SanitizeFails /\ actorsSafe' = TRUE /\ replicating' = FALSE
  /\ UNCHANGED <<telemetryVars, autoVars, bootVars, seen, inWorld, workerVars,
                 pipeVars, outVars>>

(* TickGogRemoteActors: nothing that matters here, or a failure.           *)
TickActors ==
  /\ tick = "actors"
  /\ tick' = "game"
  /\ \/ UNCHANGED <<actorsSafe, replicating>>
     \/ /\ actors /\ ~actorsSafe
        /\ actorsSafe' = TRUE /\ replicating' = FALSE
  /\ UNCHANGED <<telemetryVars, autoVars, onlineVars, stock, bootVars, seen,
                 inWorld, workerVars, pipeVars, outVars>>

-----------------------------------------------------------------------------
(* The pipe worker.                                                        *)

Written == sidecar # "gone"

(* The worker stops telemetry and looks at auto enter; next it disarms.    *)
GiveUp(latchesOnline, ends) ==
  /\ DisableTelemetry
  /\ leaving' = [armed |-> auto = "armed", online |-> latchesOnline,
                 ends |-> ends]
  /\ worker' = "disarm"

(* The rest of every way of giving up: the latches, the mode, the status   *)
(* or the end of the pipe.                                                 *)
Disarming ==
  /\ worker = "disarm"
  /\ Disarm(leaving.armed)
  /\ actorsSafe' = TRUE /\ replicating' = FALSE
  /\ IF leaving.online THEN LatchOnline ELSE UNCHANGED onlineVars
  /\ mode' = "safe"
  /\ warned' = (warned \/ (~leaving.ends /\ Written))
  /\ worker' = IF leaving.ends THEN "ended"
               ELSE IF Written THEN "control" ELSE "quit"
  /\ pipe' = IF leaving.ends THEN "closed" ELSE pipe
  /\ leaving' = NotLeaving
  /\ UNCHANGED <<telemetryVars, stock, bootVars, tickVars, handled, pipeVars,
                 last, late>>

(* The end of pipe_worker.  The online world is not latched: its           *)
(* suppression stays, and so does its sanitizer.                           *)
Quit ==
  /\ worker = "quit"
  /\ GiveUp(FALSE, TRUE)
  /\ UNCHANGED <<autoVars, onlineVars, stock, bootVars, actorsSafe,
                 replicating, tickVars, handled, mode, pipe, pipeVars, outVars>>

(* send_handshake.                                                         *)
Handshake ==
  /\ worker = "handshake"
  /\ worker' = IF Written THEN "control" ELSE "quit"
  /\ warned' = (warned \/ (Written /\ mode = "safe"))
  /\ UNCHANGED <<telemetryVars, autoVars, onlineVars, stock, bootVars,
                 actorsSafe, replicating, tickVars, handled, leaving, mode, pipe,
                 pipeVars, last, late>>

workerElse == <<telemetryVars, autoVars, stock, bootVars, tickVars, leaving,
                pipe, sidecar, last, late>>

(* fail_remote_command.                                                    *)
CommandFails ==
  /\ actorsSafe' = TRUE /\ replicating' = FALSE
  /\ LatchOnline
  /\ mode' = "safe" /\ warned' = (warned \/ Written)
  /\ worker' = IF Written THEN "control" ELSE "quit"
  /\ UNCHANGED workerElse

CommandQueued ==
  /\ UNCHANGED <<actorsSafe, replicating, onlineVars, mode, warned, worker,
                 workerElse>>

(* A spawn, sample or despawn: refused once the actors are in safe mode,   *)
(* or when the queue is full.                                              *)
RemoteFrame ==
  \/ CommandFails
  \/ actors /\ ~actorsSafe /\ CommandQueued

(* An environment is refused once replication is off.                      *)
EnvironmentFrame == IF replicating THEN CommandQueued ELSE CommandFails

(* Mutant of ObserverFrame: actors are taken for granted.                  *)
ObserverFrameActive ==
  /\ EnableTelemetry
  /\ mode' = IF TelemetryCanStart THEN "active" ELSE "safe"
  /\ warned' = (warned \/ (~TelemetryCanStart /\ Written))
  /\ worker' = IF Written THEN "control" ELSE "quit"
  /\ UNCHANGED <<autoVars, onlineVars, stock, bootVars, actorsSafe,
                 replicating, tickVars, leaving, pipe, sidecar, last, late>>

(* SetObserverMode(true).  The mode follows from the actors' hooks; their  *)
(* latch is not looked at.                                                 *)
ObserverFrame ==
  /\ EnableTelemetry
  /\ mode' = IF ~TelemetryCanStart THEN "safe"
             ELSE IF actors THEN "active" ELSE "observer"
  /\ warned' = (warned \/ (~TelemetryCanStart /\ Written))
  /\ worker' = IF Written THEN "control" ELSE "quit"
  /\ UNCHANGED <<autoVars, onlineVars, stock, bootVars, actorsSafe,
                 replicating, tickVars, leaving, pipe, sidecar, last, late>>

(* EnterSafeMode.                                                          *)
SafeFrame ==
  /\ GiveUp(TRUE, FALSE)
  /\ UNCHANGED <<autoVars, onlineVars, stock, bootVars, actorsSafe,
                 replicating, tickVars, mode, pipe, sidecar, outVars>>

(* process_available_control: one frame.                                   *)
Control ==
  /\ worker = "control" /\ inbox # <<>> /\ handled < MaxBatch
  /\ inbox' = Tail(inbox)
  /\ handled' = handled + 1
  /\ CASE Head(inbox) = "remote" -> RemoteFrame
       [] Head(inbox) = "environment" -> EnvironmentFrame
       [] Head(inbox) = "observer" -> ObserverFrame
       [] Head(inbox) = "safe" -> SafeFrame

(* No whole frame is there, or it was the last of this turn; or the pipe   *)
(* is broken.                                                              *)
ControlEnds ==
  /\ worker = "control"
  /\ handled' = 0
  /\ worker' = IF Written THEN "consume" ELSE "quit"
  /\ UNCHANGED <<telemetryVars, autoVars, onlineVars, stock, bootVars,
                 actorsSafe, replicating, tickVars, leaving, mode, pipe,
                 pipeVars, outVars>>

ConsumeBegins ==
  /\ worker = "consume"
  /\ LockSlot
  /\ worker' = "copy"
  /\ UNCHANGED <<autoVars, onlineVars, stock, bootVars, actorsSafe,
                 replicating, tickVars, handled, leaving, mode, pipe, pipeVars,
                 outVars>>

(* The sample is forwarded whatever the mode is.                           *)
ConsumeEnds ==
  /\ worker = "copy"
  /\ TakeSample
  /\ IF latest = "none" THEN worker' = "watch" /\ UNCHANGED <<last, late>>
     ELSE IF ~Written THEN worker' = "quit" /\ UNCHANGED <<last, late>>
     ELSE /\ worker' = "watch"
          /\ last' = latest
          /\ late' = IF disarmed /\ late < 3 THEN late + 1 ELSE late
  /\ UNCHANGED <<autoVars, onlineVars, stock, bootVars, actorsSafe,
                 replicating, tickVars, handled, leaving, mode, pipe, pipeVars,
                 warned>>

(* A foreign thread has run the tick.                                      *)
WatchThread ==
  /\ worker = "watch"
  /\ mode \in {"observer", "active"} /\ mismatch
  /\ GiveUp(TRUE, FALSE)
  /\ UNCHANGED <<autoVars, onlineVars, stock, bootVars, actorsSafe,
                 replicating, tickVars, handled, mode, pipe, pipeVars, outVars>>

WatchesWorld == mode = "active" /\ online

(* The online world has failed: one report, and the worker ends.           *)
WatchWorld ==
  /\ worker = "watch" /\ ~(mode # "safe" /\ mismatch)
  /\ WatchesWorld /\ onlineSafe
  /\ warned' = (warned \/ Written)
  /\ GiveUp(FALSE, TRUE)
  /\ UNCHANGED <<autoVars, onlineVars, stock, bootVars, actorsSafe,
                 replicating, tickVars, handled, mode, pipe, pipeVars, last,
                 late>>

(* Mutant of WatchActors: the latch is looked at in observer mode.         *)
WatchActorsObserving ==
  /\ mode = "observer" /\ actors
  /\ warned' = (warned \/ (actorsSafe /\ Written))
  /\ mode' = IF Written /\ actorsSafe THEN "safe" ELSE mode

(* The report on the remote actors, when it is due.                        *)
WatchActors ==
  /\ mode = "active" /\ actors
  /\ warned' = (warned \/ (actorsSafe /\ Written))
  /\ mode' = IF Written /\ actorsSafe THEN "safe" ELSE mode

Watch ==
  /\ worker = "watch" /\ ~(mode # "safe" /\ mismatch)
  /\ ~(WatchesWorld /\ onlineSafe)
  /\ \/ WatchActors /\ worker' = IF Written THEN "control" ELSE "quit"
     \/ UNCHANGED <<warned, mode>> /\ worker' = "control"
     \/ ~Written /\ worker' = "quit" /\ UNCHANGED <<warned, mode>>
  /\ UNCHANGED <<telemetryVars, autoVars, onlineVars, stock, bootVars,
                 actorsSafe, replicating, tickVars, handled, leaving, pipe,
                 pipeVars, last, late>>

-----------------------------------------------------------------------------
(* The sidecar (external to the bridge): SetObserverMode(true) once, when  *)
(* the bridge has telemetry, then commands as the capabilities allow,      *)
(* EnterSafeMode last.                                                     *)

sidecarElse == <<telemetryVars, autoVars, onlineVars, stock, bootVars,
                 actorsSafe, replicating, tickVars, workerVars, outVars>>

SidecarStarts ==
  /\ sidecar = "starting" /\ worker \notin {"none", "handshake"}
  /\ sidecar' = IF "telemetry" \in ready.caps THEN "up" ELSE "leaving"
  /\ inbox' = IF "telemetry" \in ready.caps THEN <<"observer">> ELSE <<"safe">>
  /\ UNCHANGED sidecarElse

SidecarSends ==
  /\ sidecar = "up" /\ Len(inbox) < MaxInbox
  /\ \E f \in {"remote", "environment", "safe"} :
       /\ f = "remote" => "actors" \in ready.caps
       /\ f = "environment" => "replication" \in ready.caps
       /\ inbox' = Append(inbox, f)
       /\ sidecar' = IF f = "safe" THEN "leaving" ELSE "up"
  /\ UNCHANGED sidecarElse

SidecarGone ==
  /\ sidecar \in {"starting", "up", "leaving"}
  /\ sidecar' = "gone" /\ inbox' = <<>>
  /\ UNCHANGED sidecarElse

-----------------------------------------------------------------------------
Init ==
  /\ hooked = FALSE /\ enabled = FALSE /\ wasIn = FALSE /\ latest = "none"
  /\ locked = FALSE /\ mismatch = FALSE
  /\ auto = "disabled" /\ menu = "idle" /\ attempts = 0 /\ disarmed = FALSE
  /\ online = FALSE /\ onlineSafe = FALSE /\ failed = FALSE
  /\ sanitized = FALSE /\ creating = FALSE /\ clamped = FALSE
  /\ stock = {}
  /\ boot = "new" /\ ready = [mode |-> "safe", caps |-> {}]
  /\ actors = FALSE /\ actorsSafe = FALSE /\ replicating = FALSE
  /\ tick = "game" /\ seen = FALSE /\ inWorld = FALSE
  /\ worker = "none" /\ handled = 0 /\ leaving = NotLeaving /\ mode = "safe" /\ pipe = "none"
  /\ inbox = <<>> /\ sidecar = "starting"
  /\ warned = FALSE /\ last = "none" /\ late = 0

Part == {"hook", "auto", "actors", "online", "replication", "horn"}

WorkerStep ==
  \/ Handshake \/ Control \/ ControlEnds \/ ConsumeBegins \/ ConsumeEnds
  \/ WatchThread \/ WatchWorld \/ Watch \/ Disarming \/ Quit

GameStep ==
  \/ EnterWorld \/ LeaveWorld \/ Traffic \/ Menu \/ ReplicationFails
  \/ \E fails \in BOOLEAN : CreatePlayersRegular(fails)

TickStep ==
  \/ TickBegins \/ TickWorld \/ Sanitize \/ TickActors
  \/ \E due, captured \in BOOLEAN : (captured \/ due) /\ Publish(due, captured)

Next ==
  \/ BootstrapRefused
  \/ \E req \in Requests, good \in SUBSET Part, starts \in BOOLEAN :
       Bootstrap(req, good, starts)
  \/ WorkerStep \/ TickStep \/ ForeignTick
  \/ boot # "new" /\ GameStep
  \/ SidecarStarts \/ SidecarSends \/ SidecarGone

Spec == Init /\ [][Next]_vars

(* The worker is a thread of its own that never waits for long, and its    *)
(* report on the actors comes due every 2.5 seconds.                       *)
Fairness == WF_vars(WorkerStep) /\ SF_vars(Watch /\ WatchActors)

FairSpec == Spec /\ Fairness

-----------------------------------------------------------------------------
(* Properties.                                                             *)

(* The kinds of every variable; a mode of a bridge without actors is never *)
(* "active".                                                               *)
TypeOK ==
  /\ TelemetryTypeOK /\ AutoTypeOK /\ OnlineTypeOK
  /\ boot \in {"new", "initializing", "ready"}
  /\ ready \in [mode : Mode, caps : SUBSET Capability]
  /\ mode \in Mode /\ (mode = "active" => actors)
  /\ {actors, actorsSafe, replicating, seen, inWorld, warned}
       \subseteq BOOLEAN
  /\ tick \in {"game", "publish", "after", "sanitize", "actors"}
  /\ worker \in {"none", "handshake", "control", "consume", "copy", "watch",
                 "disarm", "quit", "ended"}
  /\ handled \in 0..MaxBatch
  /\ leaving \in [armed : BOOLEAN, online : BOOLEAN, ends : BOOLEAN]
  /\ pipe \in {"none", "open", "closed"}
  /\ sidecar \in {"starting", "up", "leaving", "gone"}
  /\ inbox \in Seq(Frame) /\ Len(inbox) <= MaxInbox
  /\ last \in Sample \cup {"none"}
  /\ late \in 0..3

(* A bridge told to stop, or that stopped of its own accord, forwards two  *)
(* samples at most: the one it had pending and the one of a tick that had  *)
(* seen telemetry enabled.  (EnterSafeMode: telemetry stops at once, but   *)
(* neither thread waits for the other.)                                    *)
TelemetryStops == late <= 2

(* Auto enter presses the two buttons at most once, and never begins to    *)
(* once the worker has disarmed it.                                        *)
DispatchedOnce ==
  [][attempts' > attempts => attempts = 0 /\ ~disarmed]_vars

(* Once the online world is installed, nothing but mission code adds stock *)
(* actors, whatever fails later ("never hand stock spawning back").        *)
SuppressionOutlivesFailure ==
  [][online => stock' \subseteq stock \cup Mission]_vars

(* A tick of an online world that has not failed and claims to be          *)
(* sanitized has left no stock actor.  (Safe mode may come between the     *)
(* check and the claim; the claim then stays, but nobody reads it.)        *)
SanitizedIsEmpty == tick = "actors" /\ Active /\ sanitized => stock = {}

(* Out of CreatePlayersRegular the game has its own target counts again,   *)
(* except after a failure that was counted.                                *)
CountsRestored == ~creating /\ clamped => failed

(* A bridge that says "active" while its actors are in safe mode (the mode *)
(* is set without a look at their latch) corrects itself: a status with    *)
(* mode safe is written, or the pipe ends.                                 *)
LatchIsReported ==
  mode = "active" /\ actorsSafe /\ pipe = "open"
    ~> warned \/ pipe = "closed"

(* While telemetry runs, the bridge takes the player for out of the world  *)
(* only if the newest sample, pending or written, does not show the player *)
(* in it: the transition is tried again after a try-lock that failed, and  *)
(* no peer is left with a vehicle that stands still.                       *)
PresenceTold ==
  enabled /\ ~wasIn /\ Written =>
    (IF latest = "none" THEN last ELSE latest) # "visible"
=============================================================================
