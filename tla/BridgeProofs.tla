----------------------------- MODULE BridgeProofs -----------------------------
(***************************************************************************)
(* The bridge for any requests, batches, pipe bounds and stock actors: a   *)
(* bridge told to stop forwards two samples at most, the player's presence *)
(* is told, auto enter dispatches once, the game's counts come back, and   *)
(* traffic stays suppressed.                                               *)
(*                                                                         *)
(* What the argument needs beyond these: nothing runs before the bootstrap *)
(* (Fresh); the sidecar's request for telemetry is its first frame, so the *)
(* worker that has taken a frame cannot be asked to start again (Letters); *)
(* what was stopped stays so unless the worker is asked again, which a     *)
(* foreign thread or the worker's end rule out (Stopping); the samples     *)
(* still to come are the pending one and the one of the tick that has      *)
(* begun (Counting); and telemetry the sidecar may ask for has never been  *)
(* off (Offered).                                                          *)
(***************************************************************************)
EXTENDS Bridge, TLAPS

\* Before the bootstrap there is no worker, no hook and no sample.
Fresh ==
    boot = "new" =>
       /\ worker = "none" /\ tick = "game" /\ ~hooked
       /\ attempts = 0 /\ ~disarmed /\ menu = "idle"
       /\ latest = "none" /\ last = "none"
       /\ inbox = <<>> /\ sidecar \in {"starting", "gone"}

\* The request to observe is the sidecar's first frame and never its second.
Letters ==
    /\ sidecar = "starting" => inbox = <<>>
    /\ \A i \in 1..Len(inbox) : inbox[i] = "observer" => i = 1

Observing == \E i \in 1..Len(inbox) : inbox[i] = "observer"

\* The sidecar has asked for telemetry, or has yet to begin.
Restarts == sidecar = "starting" \/ Observing

\* The worker takes no frame any more.
Ending == worker = "ended" \/ (worker = "disarm" /\ leaving.ends)

\* Told to stop, or stopping of its own accord.
Stopped == worker = "disarm" \/ disarmed

Stopping == Stopped => ~enabled /\ (~Restarts \/ mismatch \/ Ending)

\* The samples that may still be written once the worker has stopped.
Counting ==
    /\ ~disarmed => late = 0
    /\ Stopped => late + (IF latest # "none" THEN 1 ELSE 0)
                       + (IF tick = "publish" THEN 1 ELSE 0) <= 2

\* Telemetry that the sidecar may still ask for is on, or cannot be started.
Offered ==
    Observing \/ (sidecar = "starting" /\ "telemetry" \in ready.caps)
        => enabled \/ mismatch \/ ~hooked \/ Ending \/ boot = "new"

\* Auto enter is armed once, and the worker that leaves has seen it armed.
Armed ==
    auto = "armed" => /\ attempts = 0 /\ ~disarmed
                      /\ worker = "disarm" => leaving.armed

BInv ==
    /\ TypeOK /\ Fresh /\ Letters /\ Stopping /\ Counting /\ Offered /\ Armed
    /\ PresenceTold /\ CountsRestored /\ SanitizedIsEmpty

-----------------------------------------------------------------------------
(* Which steps there are.                                                  *)

\* A frame is a failure, a refusal or a success of a command, the request to
\* observe, or the request for safe mode (bridge.cpp:513-676).
LEMMA ControlSteps ==
    ASSUME TypeOK, Control
    PROVE  /\ worker = "control" /\ Len(inbox) > 0
           /\ inbox' = Tail(inbox) /\ handled' = handled + 1 /\ handled < MaxBatch
           /\ \/ CommandFails
              \/ CommandQueued
              \/ inbox[1] = "observer" /\ ObserverFrame
              \/ SafeFrame
<1>1. inbox \in Seq(Frame) /\ inbox # <<>>
  BY DEF TypeOK, Control
<1>2. Len(inbox) > 0 /\ Head(inbox) = inbox[1] /\ Head(inbox) \in Frame
  BY <1>1
<1>3. CASE Head(inbox) = "remote"
  BY <1>2, <1>3 DEF Control, RemoteFrame
<1>4. CASE Head(inbox) = "environment"
  BY <1>2, <1>4 DEF Control, EnvironmentFrame
<1>5. CASE Head(inbox) = "observer"
  BY <1>2, <1>5 DEF Control
<1>6. CASE Head(inbox) = "safe"
  BY <1>2, <1>6 DEF Control
<1> QED
  BY <1>2, <1>3, <1>4, <1>5, <1>6 DEF Frame

\* What the bootstrap installed stays: nothing is installed or removed later.
LEMMA InstalledOnce ==
    ASSUME TypeOK, [Next]_vars
    PROVE  \/ UNCHANGED <<bootVars, hooked>>
           \/ BootstrapRefused
           \/ \E req \in Requests, good \in SUBSET Part, starts \in BOOLEAN :
                 Bootstrap(req, good, starts)
<1>1. CASE Control
  BY <1>1, ControlSteps
  DEF CommandFails, CommandQueued, ObserverFrame, SafeFrame, GiveUp, DisableTelemetry,
      EnableTelemetry, workerElse, bootVars, telemetryVars
<1>2. CASE \/ Handshake \/ ControlEnds \/ ConsumeBegins \/ ConsumeEnds
           \/ WatchThread \/ WatchWorld \/ Watch \/ Disarming \/ Quit
  BY <1>2 DEF Handshake, ControlEnds, ConsumeBegins, ConsumeEnds, WatchThread,
              WatchWorld, Watch, Disarming, Quit, GiveUp, DisableTelemetry, LockSlot,
              TakeSample, bootVars, telemetryVars
<1>3. CASE TickBegins \/ TickWorld \/ Sanitize \/ TickActors \/ ForeignTick
  BY <1>3 DEF TickBegins, Poll, TickWorld, Sanitize, TickActors, ForeignTick, bootVars,
              telemetryVars
<1>4. CASE \E due, captured \in BOOLEAN : Publish(due, captured)
  BY <1>4 DEF Publish, bootVars
<1>5. CASE \/ EnterWorld \/ LeaveWorld \/ Traffic \/ Menu \/ ReplicationFails
           \/ \E fails \in BOOLEAN : CreatePlayersRegular(fails)
  BY <1>5 DEF EnterWorld, LeaveWorld, Traffic, Menu, ReplicationFails,
              CreatePlayersRegular, bootVars, telemetryVars
<1>6. CASE SidecarStarts \/ SidecarSends \/ SidecarGone \/ UNCHANGED vars
  BY <1>6 DEF SidecarStarts, SidecarSends, SidecarGone, sidecarElse, vars, bootVars,
              telemetryVars
<1> QED
  BY <1>1, <1>2, <1>3, <1>4, <1>5, <1>6 DEF Next, WorkerStep, TickStep, GameStep

\* Until the bootstrap only it can happen, or the sidecar goes.
LEMMA FreshSteps ==
    ASSUME BInv, boot = "new", [Next]_vars
    PROVE  \/ BootstrapRefused
           \/ \E req \in Requests, good \in SUBSET Part, starts \in BOOLEAN :
                 Bootstrap(req, good, starts)
           \/ SidecarGone \/ UNCHANGED vars
<1>1. /\ worker = "none" /\ tick = "game" /\ ~hooked
      /\ sidecar \in {"starting", "gone"}
  BY DEF BInv, Fresh
<1>2. ~WorkerStep
  BY <1>1 DEF WorkerStep, Handshake, Control, ControlEnds, ConsumeBegins, ConsumeEnds,
              WatchThread, WatchWorld, Watch, Disarming, Quit
<1>3. ~TickStep /\ ~ForeignTick
  BY <1>1 DEF TickStep, ForeignTick, TickBegins, TickWorld, Sanitize, TickActors, Publish
<1>4. ~SidecarStarts /\ ~SidecarSends
  BY <1>1 DEF SidecarStarts, SidecarSends
<1> QED
  BY <1>2, <1>3, <1>4 DEF Next

\* Nobody is bootstrapped twice, and a bridge is new until then.
LEMMA FreshKeeps == BInv /\ [Next]_vars => Fresh'
<1> SUFFICES ASSUME BInv, [Next]_vars, boot' = "new"
             PROVE  Fresh'
  BY DEF Fresh
<1>1. boot = "new"
  BY InstalledOnce DEF BInv, BootstrapRefused, Bootstrap, bootVars
<1>2. Fresh
  BY DEF BInv
<1>3. CASE SidecarGone
  BY <1>1, <1>2, <1>3
  DEF Fresh, SidecarGone, sidecarElse, workerVars, tickVars, telemetryVars, autoVars,
      outVars
<1>4. CASE UNCHANGED vars
  BY <1>1, <1>2, <1>4
  DEF Fresh, vars, workerVars, tickVars, telemetryVars, autoVars, outVars, pipeVars
<1>5. ~BootstrapRefused
  BY DEF BootstrapRefused
<1>6. \A req, good, starts : ~Bootstrap(req, good, starts)
  BY DEF Bootstrap
<1> QED
  BY <1>1, <1>3, <1>4, <1>5, <1>6, FreshSteps

-----------------------------------------------------------------------------
(* The sidecar's frames.                                                   *)

\* Who touches the pipe.
LEMMA PipeSteps ==
    ASSUME TypeOK, [Next]_vars
    PROVE  \/ UNCHANGED pipeVars
           \/ Control \/ SidecarStarts \/ SidecarSends \/ SidecarGone
           \/ BootstrapRefused
           \/ \E req \in Requests, good \in SUBSET Part, starts \in BOOLEAN :
                 Bootstrap(req, good, starts)
<1>1. CASE \/ Handshake \/ ControlEnds \/ ConsumeBegins \/ ConsumeEnds
           \/ WatchThread \/ WatchWorld \/ Watch \/ Disarming \/ Quit
  BY <1>1 DEF Handshake, ControlEnds, ConsumeBegins, ConsumeEnds, WatchThread,
              WatchWorld, Watch, Disarming, Quit
<1>2. CASE TickBegins \/ TickWorld \/ Sanitize \/ TickActors \/ ForeignTick
  BY <1>2 DEF TickBegins, TickWorld, Sanitize, TickActors, ForeignTick
<1>3. CASE \E due, captured \in BOOLEAN : Publish(due, captured)
  BY <1>3 DEF Publish
<1>4. CASE \/ EnterWorld \/ LeaveWorld \/ Traffic \/ Menu \/ ReplicationFails
           \/ \E fails \in BOOLEAN : CreatePlayersRegular(fails)
  BY <1>4 DEF EnterWorld, LeaveWorld, Traffic, Menu, ReplicationFails,
              CreatePlayersRegular
<1>5. CASE UNCHANGED vars
  BY <1>5 DEF vars
<1> QED
  BY <1>1, <1>2, <1>3, <1>4, <1>5 DEF Next, WorkerStep, TickStep, GameStep

\* Taking a frame leaves the sidecar and moves the others up.
LEMMA ControlTakes ==
    ASSUME TypeOK, Letters, Control
    PROVE  Letters' /\ ~Restarts' /\ sidecar' = sidecar /\ sidecar # "starting"
<1>1. inbox \in Seq(Frame) /\ Len(inbox) > 0 /\ inbox' = Tail(inbox)
  BY ControlSteps DEF TypeOK
<1>2. sidecar' = sidecar
  BY ControlSteps
  DEF CommandFails, CommandQueued, ObserverFrame, SafeFrame, workerElse
<1>3. sidecar # "starting"
  <2>1. Len(<<>>) = 0
    OBVIOUS
  <2> QED
    BY <1>1, <2>1 DEF Letters
<1>4. \A i \in 1..Len(inbox') : inbox'[i] # "observer"
  <2>1. Len(inbox') = Len(inbox) - 1
    BY <1>1
  <2>2. \A i \in 1..Len(inbox') : i + 1 \in 1..Len(inbox) /\ inbox'[i] = inbox[i + 1]
    BY <1>1, <2>1
  <2> QED
    BY <2>1, <2>2, <1>1 DEF Letters
<1> QED
  BY <1>2, <1>3, <1>4 DEF Letters, Restarts, Observing

\* The sidecar asks to observe first, or never (run.cpp:749-786).
LEMMA LettersKeep == BInv /\ [Next]_vars => Letters'
<1> SUFFICES ASSUME BInv, [Next]_vars
             PROVE  Letters'
  OBVIOUS
<1>1. TypeOK /\ Letters /\ Fresh
  BY DEF BInv
<1>2. CASE UNCHANGED pipeVars
  BY <1>1, <1>2 DEF Letters, pipeVars
<1>3. CASE SidecarStarts
  <2>1. sidecar' # "starting" /\ \E f \in Frame : inbox' = <<f>>
    BY <1>3 DEF SidecarStarts, Frame
  <2>2. Len(inbox') = 1
    BY <2>1
  <2> QED
    BY <2>1, <2>2 DEF Letters
<1>4. CASE SidecarSends
  <2>1. PICK f \in {"remote", "environment", "safe"} : inbox' = Append(inbox, f)
    BY <1>4 DEF SidecarSends
  <2>2. sidecar' # "starting"
    BY <1>4 DEF SidecarSends
  <2>3. inbox \in Seq(Frame) /\ f \in Frame
    BY <1>1 DEF TypeOK, Frame
  <2>4. ASSUME NEW i \in 1..Len(inbox'), inbox'[i] = "observer"
        PROVE  i = 1
    <3>1. i \in 1..Len(inbox) /\ inbox[i] = "observer"
      BY <2>1, <2>3, <2>4
    <3> QED
      BY <1>1, <3>1 DEF Letters
  <2> QED
    BY <2>2, <2>4 DEF Letters
<1>5. CASE SidecarGone \/ BootstrapRefused
  <2>1. sidecar' = "gone" /\ (inbox' = <<>> \/ inbox' = inbox)
    BY <1>5 DEF SidecarGone, BootstrapRefused
  <2>2. Len(<<>>) = 0
    OBVIOUS
  <2> QED
    BY <1>1, <2>1, <2>2 DEF Letters
<1>6. CASE \E req \in Requests, good \in SUBSET Part, starts \in BOOLEAN :
              Bootstrap(req, good, starts)
  <2>1. boot = "new" /\ inbox' = inbox
    BY <1>6 DEF Bootstrap
  <2>2. inbox = <<>> /\ Len(<<>>) = 0
    BY <1>1, <2>1 DEF Fresh
  <2> QED
    BY <2>1, <2>2 DEF Letters
<1> QED
  BY <1>1, <1>2, <1>3, <1>4, <1>5, <1>6, PipeSteps, ControlTakes

\* A sidecar that has nothing more to ask never asks again.
LEMMA RestartsFalls ==
    ASSUME BInv, [Next]_vars, boot # "new", ~Restarts
    PROVE  ~Restarts'
<1>1. TypeOK /\ Letters
  BY DEF BInv
<1>2. CASE UNCHANGED pipeVars
  BY <1>2 DEF Restarts, Observing, pipeVars
<1>3. ~SidecarStarts
  BY DEF SidecarStarts, Restarts
<1>4. CASE SidecarSends
  <2>1. PICK f \in {"remote", "environment", "safe"} : inbox' = Append(inbox, f)
    BY <1>4 DEF SidecarSends
  <2>2. sidecar' # "starting" /\ inbox \in Seq(Frame) /\ f \in Frame
    BY <1>1, <1>4 DEF SidecarSends, TypeOK, Frame
  <2>3. ~Observing'
    BY <2>1, <2>2 DEF Restarts, Observing
  <2> QED
    BY <2>2, <2>3 DEF Restarts
<1>5. CASE SidecarGone
  <2>1. sidecar' = "gone" /\ inbox' = <<>> /\ Len(<<>>) = 0
    BY <1>5 DEF SidecarGone
  <2> QED
    BY <2>1 DEF Restarts, Observing
<1>6. ~BootstrapRefused /\ \A req, good, starts : ~Bootstrap(req, good, starts)
  BY DEF BootstrapRefused, Bootstrap
<1> QED
  BY <1>1, <1>2, <1>3, <1>4, <1>5, <1>6, PipeSteps, ControlTakes

-----------------------------------------------------------------------------
(* Stopping and starting.                                                  *)

\* What the game thread and the sidecar leave to the worker; a foreign thread is
\* the only one of their steps that stops telemetry.
LEMMA OthersLeave ==
    ASSUME TypeOK, [Next]_vars, boot # "new", ~WorkerStep
    PROVE  /\ UNCHANGED <<workerVars, disarmed, last, late>>
           /\ mismatch => mismatch'
           /\ enabled' => enabled
           /\ enabled => enabled' \/ mismatch'
<1> USE DEF workerVars, outVars, autoVars, telemetryVars
<1>1. CASE TickBegins
  <2>1. UNCHANGED <<enabled, mismatch>>
    BY <1>1 DEF TickBegins, Poll
  <2>2. UNCHANGED <<workerVars, disarmed, last, late>>
    BY <1>1 DEF TickBegins
  <2> QED
    BY <2>1, <2>2
<1>2. CASE TickWorld \/ Sanitize \/ TickActors
  BY <1>2 DEF TickWorld, Sanitize, TickActors
<1>3. CASE ForeignTick
  BY <1>3 DEF ForeignTick
<1>4. CASE \E due, captured \in BOOLEAN : Publish(due, captured)
  BY <1>4 DEF Publish, WorldReady
<1>5. CASE \/ EnterWorld \/ LeaveWorld \/ Traffic \/ ReplicationFails
           \/ \E fails \in BOOLEAN : CreatePlayersRegular(fails)
  BY <1>5 DEF EnterWorld, LeaveWorld, Traffic, ReplicationFails, CreatePlayersRegular
<1>6. CASE Menu
  BY <1>6 DEF Menu, CheckMenu, ClaimDispatch, FinishDispatch
<1>7. CASE SidecarStarts \/ SidecarSends \/ SidecarGone
  BY <1>7 DEF SidecarStarts, SidecarSends, SidecarGone, sidecarElse
<1>8. CASE UNCHANGED vars
  BY <1>8 DEF vars
<1>9. ~BootstrapRefused /\ \A req, good, starts : ~Bootstrap(req, good, starts)
  BY DEF BootstrapRefused, Bootstrap
<1> QED
  BY <1>1, <1>2, <1>3, <1>4, <1>5, <1>6, <1>7, <1>8, <1>9 DEF Next, TickStep, GameStep

\* The worker's steps that neither give up, nor disarm, nor start telemetry.
LEMMA WorkerGoesOn ==
    ASSUME \/ Control /\ (CommandFails \/ CommandQueued)
           \/ Handshake \/ ControlEnds \/ ConsumeBegins \/ ConsumeEnds \/ Watch
    PROVE  /\ UNCHANGED <<enabled, wasIn, mismatch, hooked, leaving, autoVars, tick>>
           /\ worker \notin {"disarm", "ended"} /\ worker' \notin {"disarm", "ended"}
<1>1. CASE Control /\ (CommandFails \/ CommandQueued)
  BY <1>1 DEF Control, CommandFails, CommandQueued, workerElse, telemetryVars, tickVars
<1>2. CASE ConsumeBegins \/ ConsumeEnds
  BY <1>2 DEF ConsumeBegins, ConsumeEnds, LockSlot, TakeSample, tickVars
<1>3. CASE Handshake \/ ControlEnds \/ Watch
  BY <1>3 DEF Handshake, ControlEnds, Watch, telemetryVars, tickVars
<1> QED
  BY <1>1, <1>2, <1>3

LEMMA WorkerSteps ==
    ASSUME TypeOK, WorkerStep
    PROVE  \/ Control /\ (CommandFails \/ CommandQueued)
           \/ Handshake \/ ControlEnds \/ ConsumeBegins \/ ConsumeEnds \/ Watch
           \/ Control /\ inbox[1] = "observer" /\ ObserverFrame
           \/ Control /\ SafeFrame
           \/ WatchThread \/ WatchWorld \/ Quit \/ Disarming
BY ControlSteps DEF WorkerStep

\* A bridge that stops stays stopped (bridge.cpp:561-628, telemetry.cpp:586-602).
LEMMA StoppingKeeps == BInv /\ [Next]_vars => Stopping'
<1> SUFFICES ASSUME BInv, [Next]_vars, Stopped'
             PROVE  ~enabled' /\ (~Restarts' \/ mismatch' \/ Ending')
  BY DEF Stopping
<1>1. TypeOK /\ Fresh /\ Letters /\ Stopping
  BY DEF BInv
<1>2. boot # "new"
  <2> SUFFICES ASSUME boot = "new"
               PROVE  FALSE
    OBVIOUS
  <2>1. worker = "none" /\ ~disarmed
    BY <1>1 DEF Fresh
  <2>2. worker' # "disarm" /\ disarmed' = disarmed
    BY <2>1, FreshSteps
    DEF BootstrapRefused, Bootstrap, SidecarGone, sidecarElse, vars, workerVars, autoVars
  <2> QED
    BY <2>1, <2>2 DEF Stopped
<1>3. ~Restarts => ~Restarts'
  BY <1>2, RestartsFalls
<1>4. CASE ~WorkerStep
  <2>1. Stopped /\ ~enabled' /\ (mismatch => mismatch') /\ (Ending => Ending')
    BY <1>1, <1>2, <1>4, OthersLeave DEF Stopped, Stopping, Ending, workerVars
  <2> QED
    BY <1>1, <1>3, <2>1 DEF Stopping
<1>5. CASE \/ Control /\ (CommandFails \/ CommandQueued)
           \/ Handshake \/ ControlEnds \/ ConsumeBegins \/ ConsumeEnds \/ Watch
  <2>1. /\ UNCHANGED <<enabled, mismatch, disarmed>> /\ ~Ending
        /\ worker' # "disarm"
    BY <1>5, WorkerGoesOn DEF Ending, autoVars
  <2> QED
    BY <1>1, <1>3, <2>1 DEF Stopping, Stopped
<1>6. CASE Control /\ inbox[1] = "observer" /\ ObserverFrame
  <2>1. /\ worker = "control" /\ worker' # "disarm" /\ disarmed' = disarmed
        /\ mismatch' = mismatch /\ enabled' = (hooked /\ ~mismatch)
    BY <1>6 DEF Control, ObserverFrame, EnableTelemetry, TelemetryCanStart, autoVars
  <2>2. Restarts
    BY <1>1, <1>6, ControlSteps DEF Restarts, Observing, TypeOK
  <2> QED
    BY <1>1, <2>1, <2>2 DEF Stopping, Stopped, Ending
<1>7. CASE Control /\ SafeFrame
  BY <1>1, <1>7, ControlTakes DEF SafeFrame, GiveUp, DisableTelemetry
<1>8. CASE WatchThread
  BY <1>8 DEF WatchThread, GiveUp, DisableTelemetry
<1>9. CASE WatchWorld \/ Quit
  BY <1>9 DEF WatchWorld, Quit, GiveUp, DisableTelemetry, Ending
<1>10. CASE Disarming
  <2>1. /\ Stopped /\ UNCHANGED <<enabled, mismatch>>
        /\ leaving.ends => worker' = "ended"
        /\ worker = "disarm"
    BY <1>10 DEF Disarming, Stopped, telemetryVars
  <2> QED
    BY <1>1, <1>3, <2>1 DEF Stopping, Ending
<1> QED
  BY <1>1, <1>4, <1>5, <1>6, <1>7, <1>8, <1>9, <1>10, WorkerSteps

\* Telemetry that was offered is on until it is stopped for good
\* (telemetry.cpp:586-602, run.cpp:778-786).
LEMMA OfferedKeeps == BInv /\ [Next]_vars => Offered'
<1> SUFFICES ASSUME BInv, [Next]_vars, boot' # "new",
                    Observing' \/ (sidecar' = "starting" /\ "telemetry" \in ready.caps')
             PROVE  enabled' \/ mismatch' \/ ~hooked' \/ Ending'
  BY DEF Offered
<1>1. TypeOK /\ Fresh /\ Letters /\ Offered
  BY DEF BInv
<1>2. CASE boot = "new"
  <2>1. inbox = <<>> /\ Len(<<>>) = 0
    BY <1>1, <1>2 DEF Fresh
  <2>2. ~SidecarGone /\ ~UNCHANGED vars
    BY <1>2 DEF SidecarGone, sidecarElse, vars, bootVars
  <2>3. CASE BootstrapRefused
    BY <2>1, <2>3 DEF BootstrapRefused, Observing
  <2>4. CASE \E req \in Requests, good \in SUBSET Part, starts \in BOOLEAN :
                Bootstrap(req, good, starts)
    <3> PICK req \in Requests, good \in SUBSET Part, starts \in BOOLEAN :
             Bootstrap(req, good, starts)
      BY <2>4
    <3>1. inbox' = inbox /\ (sidecar' = "starting" => starts)
      BY DEF Bootstrap
    <3>2. "telemetry" \in ready.caps' /\ starts
      BY <2>1, <3>1 DEF Observing
    <3>3. ready' = [mode |-> Started(req, good).mode, caps |-> Started(req, good).caps]
      BY DEF Bootstrap
    <3>4. "telemetry" \in Started(req, good).caps
      BY <3>2, <3>3
    <3>5. Started(req, good).enabled
      BY <3>4 DEF Started
    <3> QED
      BY <3>2, <3>5 DEF Bootstrap
  <2> QED
    BY <1>2, <2>2, <2>3, <2>4, FreshSteps
<1>3. CASE boot # "new"
  <2>1. UNCHANGED <<bootVars, hooked>>
    BY <1>1, <1>3, InstalledOnce DEF BootstrapRefused, Bootstrap
  <2>2. Observing \/ (sidecar = "starting" /\ "telemetry" \in ready.caps)
    <3>1. CASE UNCHANGED pipeVars
      BY <2>1, <3>1 DEF pipeVars, bootVars, Observing
    <3>2. ~Control
      BY <1>1, ControlTakes DEF Restarts
    <3>3. CASE SidecarStarts
      <4>1. sidecar = "starting" /\ sidecar' # "starting" /\ ready' = ready
        BY <2>1, <3>3 DEF SidecarStarts, bootVars
      <4>2. CASE "telemetry" \in ready.caps
        BY <4>1, <4>2
      <4>3. CASE "telemetry" \notin ready.caps
        <5>1. inbox' = <<"safe">>
          BY <3>3, <4>3 DEF SidecarStarts
        <5> QED
          BY <4>1, <5>1 DEF Observing
      <4> QED
        BY <4>2, <4>3
    <3>4. CASE SidecarSends
      <4>1. PICK f \in {"remote", "environment", "safe"} : inbox' = Append(inbox, f)
        BY <3>4 DEF SidecarSends
      <4>2. sidecar' # "starting" /\ inbox \in Seq(Frame) /\ f \in Frame
        BY <1>1, <3>4 DEF SidecarSends, TypeOK, Frame
      <4> QED
        BY <4>1, <4>2 DEF Observing
    <3>5. ~SidecarGone
      <4>1. Len(<<>>) = 0
        OBVIOUS
      <4> QED
        BY <4>1 DEF SidecarGone, Observing
    <3>6. ~BootstrapRefused /\ \A req, good, starts : ~Bootstrap(req, good, starts)
      BY <1>3 DEF BootstrapRefused, Bootstrap
    <3> QED
      BY <1>1, <3>1, <3>2, <3>3, <3>4, <3>5, <3>6, PipeSteps
  <2>3. enabled \/ mismatch \/ ~hooked \/ Ending
    BY <1>1, <1>3, <2>2 DEF Offered
  <2>4. ~Control
    BY <1>1, ControlTakes DEF Restarts
  <2>5. CASE ~WorkerStep
    BY <1>1, <1>3, <2>1, <2>3, <2>5, OthersLeave DEF Ending, workerVars
  <2>6. CASE Handshake \/ ControlEnds \/ ConsumeBegins \/ ConsumeEnds \/ Watch
    BY <2>3, <2>6, WorkerGoesOn DEF Ending
  <2>7. CASE WatchThread \/ WatchWorld \/ Quit
    BY <2>7 DEF WatchThread, WatchWorld, Quit, GiveUp, DisableTelemetry, Ending
  <2>8. CASE Disarming
    <3>1. /\ UNCHANGED <<enabled, mismatch, hooked>> /\ worker = "disarm"
          /\ leaving.ends => worker' = "ended"
      BY <2>8 DEF Disarming, telemetryVars
    <3> QED
      BY <2>3, <3>1 DEF Ending
  <2> QED
    BY <1>1, <2>4, <2>5, <2>6, <2>7, <2>8, WorkerSteps
<1> QED
  BY <1>2, <1>3

-----------------------------------------------------------------------------
(* The samples on their way.                                               *)

\* With telemetry off, a tick only uses up what was on its way
\* (telemetry.cpp:202-334).
LEMMA PendingFalls ==
    ASSUME TypeOK, [Next]_vars, boot # "new", ~WorkerStep, ~enabled
    PROVE  /\ latest' # "none" => latest # "none" \/ tick = "publish"
           /\ tick' = "publish" => tick = "publish" /\ latest' = latest
<1> USE DEF tickVars, telemetryVars
<1>1. CASE TickBegins
  BY <1>1 DEF TickBegins, Poll
<1>2. CASE TickWorld \/ Sanitize \/ TickActors
  BY <1>2 DEF TickWorld, Sanitize, TickActors
<1>3. CASE ForeignTick
  BY <1>3 DEF ForeignTick
<1>4. CASE \E due, captured \in BOOLEAN : Publish(due, captured)
  BY <1>4 DEF Publish
<1>5. CASE \/ EnterWorld \/ LeaveWorld \/ Traffic \/ Menu \/ ReplicationFails
           \/ \E fails \in BOOLEAN : CreatePlayersRegular(fails)
  BY <1>5 DEF EnterWorld, LeaveWorld, Traffic, Menu, ReplicationFails,
              CreatePlayersRegular
<1>6. CASE SidecarStarts \/ SidecarSends \/ SidecarGone \/ UNCHANGED vars
  BY <1>6 DEF SidecarStarts, SidecarSends, SidecarGone, sidecarElse, vars
<1>7. ~BootstrapRefused /\ \A req, good, starts : ~Bootstrap(req, good, starts)
  BY DEF BootstrapRefused, Bootstrap
<1> QED
  BY <1>1, <1>2, <1>3, <1>4, <1>5, <1>6, <1>7 DEF Next, TickStep, GameStep

\* The worker writes what is pending, once each (bridge.cpp:748-756).
LEMMA WorkerCounts ==
    ASSUME TypeOK, WorkerStep
    PROVE  /\ UNCHANGED tick
           /\ \/ UNCHANGED <<latest, late>>
              \/ /\ ConsumeEnds /\ latest' = "none"
                 /\ \/ late' = late
                    \/ latest # "none" /\ disarmed /\ late' = late + 1
<1>1. CASE ConsumeEnds
  BY <1>1 DEF ConsumeEnds, TakeSample, tickVars
<1>2. CASE Handshake \/ ControlEnds \/ ConsumeBegins \/ Watch
  BY <1>2 DEF Handshake, ControlEnds, ConsumeBegins, LockSlot, Watch, tickVars,
              telemetryVars, outVars
<1>3. CASE Control /\ (CommandFails \/ CommandQueued)
  BY <1>3 DEF CommandFails, CommandQueued, workerElse, tickVars, telemetryVars
<1>4. CASE Control /\ ObserverFrame
  BY <1>4 DEF ObserverFrame, EnableTelemetry, tickVars
<1>5. CASE (Control /\ SafeFrame) \/ WatchThread \/ WatchWorld \/ Quit \/ Disarming
  BY <1>5 DEF SafeFrame, WatchThread, WatchWorld, Quit, Disarming, GiveUp,
              DisableTelemetry, tickVars, telemetryVars, outVars
<1> QED
  BY <1>1, <1>2, <1>3, <1>4, <1>5, WorkerSteps

LEMMA CountingKeeps == BInv /\ [Next]_vars => Counting'
<1> SUFFICES ASSUME BInv, [Next]_vars
             PROVE  Counting'
  OBVIOUS
<1>1. TypeOK /\ Fresh /\ Counting /\ Stopping /\ late \in 0..3
  BY DEF BInv, TypeOK
<1>2. CASE boot = "new"
  <2>1. worker = "none" /\ ~disarmed
    BY <1>1, <1>2 DEF Fresh
  <2>2. worker' # "disarm" /\ UNCHANGED <<disarmed, late>>
    BY <1>2, <2>1, FreshSteps
    DEF BootstrapRefused, Bootstrap, SidecarGone, sidecarElse, vars, workerVars, autoVars,
        outVars
  <2> QED
    BY <1>1, <2>1, <2>2 DEF Stopped, Counting
<1>3. CASE boot # "new" /\ ~WorkerStep
  <2>1. UNCHANGED <<disarmed, late, worker>>
    BY <1>1, <1>3, OthersLeave DEF workerVars
  <2>2. Stopped => ~enabled
    BY <1>1 DEF Stopping
  <2>3. Stopped => /\ latest' # "none" => latest # "none" \/ tick = "publish"
                   /\ tick' = "publish" => tick = "publish" /\ latest' = latest
    BY <1>1, <1>3, <2>2, PendingFalls
  <2> QED
    BY <1>1, <2>1, <2>3 DEF Stopped, Counting
<1>4. CASE WorkerStep
  <2>1. CASE Disarming
    <3>1. UNCHANGED <<latest, late, tick>> /\ Stopped /\ disarmed'
      BY <2>1 DEF Disarming, Disarm, telemetryVars, tickVars, Stopped
    <3> QED
      BY <1>1, <3>1 DEF Counting, Stopped
  <2>2. CASE ~Disarming
    <3>1. disarmed' = disarmed
      BY <1>1, <1>4, <2>2, WorkerSteps, WorkerGoesOn
      DEF ObserverFrame, SafeFrame, WatchThread, WatchWorld, Quit, autoVars
    <3>2. CASE UNCHANGED <<latest, late>>
      <4>1. UNCHANGED tick
        BY <1>1, <1>4, WorkerCounts
      <4>2. ~disarmed => late' = 0
        BY <1>1, <3>2 DEF Counting
      <4> QED
        BY <1>1, <3>1, <3>2, <4>1, <4>2 DEF Counting, Stopped
    <3>3. CASE ConsumeEnds
      <4>1. /\ UNCHANGED tick /\ latest' = "none"
            /\ \/ late' = late
               \/ latest # "none" /\ disarmed /\ late' = late + 1
        BY <1>1, <1>4, <3>3, WorkerCounts DEF ConsumeEnds, TakeSample
      <4>2. worker' # "disarm"
        BY <3>3, WorkerGoesOn
      <4> QED
        BY <1>1, <3>1, <4>1, <4>2 DEF Counting, Stopped
    <3> QED
      BY <1>1, <1>4, <3>2, <3>3, WorkerCounts
  <2> QED
    BY <2>1, <2>2
<1> QED
  BY <1>2, <1>3, <1>4

-----------------------------------------------------------------------------
(* Auto enter.                                                             *)

\* Who touches its state.
LEMMA AutoSteps ==
    ASSUME TypeOK, [Next]_vars
    PROVE  \/ UNCHANGED autoVars
           \/ Disarming \/ (boot # "new" /\ Menu)
           \/ /\ tick = "publish" /\ WorldReady
              /\ UNCHANGED workerVars
           \/ \E req \in Requests, good \in SUBSET Part, starts \in BOOLEAN :
                 Bootstrap(req, good, starts)
<1>1. CASE \/ Control /\ (CommandFails \/ CommandQueued)
           \/ Handshake \/ ControlEnds \/ ConsumeBegins \/ ConsumeEnds \/ Watch
  BY <1>1, WorkerGoesOn
<1>2. CASE \/ Control /\ (ObserverFrame \/ SafeFrame)
           \/ WatchThread \/ WatchWorld \/ Quit
  BY <1>2 DEF ObserverFrame, SafeFrame, WatchThread, WatchWorld, Quit
<1>3. CASE TickBegins \/ TickWorld \/ Sanitize \/ TickActors \/ ForeignTick
  BY <1>3 DEF TickBegins, TickWorld, Sanitize, TickActors, ForeignTick
<1>4. CASE \E due, captured \in BOOLEAN : Publish(due, captured)
  BY <1>4 DEF Publish
<1>5. CASE \/ EnterWorld \/ LeaveWorld \/ Traffic \/ ReplicationFails
           \/ \E fails \in BOOLEAN : CreatePlayersRegular(fails)
  BY <1>5 DEF EnterWorld, LeaveWorld, Traffic, ReplicationFails, CreatePlayersRegular
<1>6. CASE SidecarStarts \/ SidecarSends \/ SidecarGone \/ UNCHANGED vars
  BY <1>6 DEF SidecarStarts, SidecarSends, SidecarGone, sidecarElse, vars
<1>7. CASE BootstrapRefused
  BY <1>7 DEF BootstrapRefused
<1> QED
  BY <1>1, <1>2, <1>3, <1>4, <1>5, <1>6, <1>7, WorkerSteps DEF Next, TickStep, GameStep

\* The worker that leaves disarms what it has seen armed, and nothing arms it
\* again (auto_enter.cpp:304-338, bridge.cpp:862-872).
LEMMA ArmedKeeps == BInv /\ [Next]_vars => Armed'
<1> SUFFICES ASSUME BInv, [Next]_vars, auto' = "armed"
             PROVE  attempts' = 0 /\ ~disarmed' /\ (worker' = "disarm" => leaving'.armed)
  BY DEF Armed
<1>1. TypeOK /\ Fresh /\ Armed
  BY DEF BInv
<1>2. CASE \E req \in Requests, good \in SUBSET Part, starts \in BOOLEAN :
              Bootstrap(req, good, starts)
  BY <1>1, <1>2 DEF Bootstrap, Fresh
<1>3. CASE boot # "new" /\ Menu
  BY <1>1, <1>3 DEF Menu, CheckMenu, ClaimDispatch, FinishDispatch, Armed, workerVars
<1>4. ~WorldReady
  BY DEF WorldReady
<1>5. ~Disarming
  BY <1>1 DEF Disarming, Disarm, Armed
<1>6. CASE UNCHANGED autoVars
  <2>1. auto = "armed" /\ attempts' = 0 /\ ~disarmed'
    BY <1>1, <1>6 DEF Armed, autoVars
  <2>2. CASE (Control /\ SafeFrame) \/ WatchThread \/ WatchWorld \/ Quit
    <3>1. PICK o, e : leaving' = [armed |-> auto = "armed", online |-> o, ends |-> e]
      BY <2>2 DEF SafeFrame, WatchThread, WatchWorld, Quit, GiveUp
    <3>2. leaving'.armed = (auto = "armed")
      BY <3>1
    <3> QED
      BY <2>1, <3>2
  <2>3. CASE \/ Control /\ (CommandFails \/ CommandQueued)
             \/ Handshake \/ ControlEnds \/ ConsumeBegins \/ ConsumeEnds \/ Watch
    BY <2>1, <2>3, WorkerGoesOn
  <2>4. CASE Control /\ ObserverFrame
    BY <2>1, <2>4 DEF ObserverFrame
  <2>5. CASE ~WorkerStep
    <3>1. CASE boot # "new"
      BY <1>1, <2>1, <2>5, <3>1, OthersLeave DEF Armed, workerVars
    <3>2. CASE boot = "new"
      BY <1>1, <2>1, <3>2, FreshSteps
      DEF Fresh, BootstrapRefused, Bootstrap, SidecarGone, sidecarElse, vars, workerVars
    <3> QED
      BY <3>1, <3>2
  <2> QED
    BY <1>1, <1>5, <2>2, <2>3, <2>4, <2>5, WorkerSteps
<1> QED
  BY <1>1, <1>2, <1>3, <1>4, <1>5, <1>6, AutoSteps

\* Only a dispatch claimed from the armed state counts (auto_enter.cpp:192-197).
LEMMA ClaimsCount ==
    BInv /\ [Next]_vars => (attempts' > attempts => attempts = 0 /\ ~disarmed)
<1> SUFFICES ASSUME BInv, [Next]_vars, attempts' > attempts
             PROVE  attempts = 0 /\ ~disarmed
  OBVIOUS
<1>1. TypeOK /\ Armed /\ attempts \in 0..1
  BY DEF BInv, TypeOK, AutoTypeOK
<1>2. attempts' # attempts
  BY <1>1
<1>3. CASE Menu
  BY <1>1, <1>2, <1>3 DEF Menu, CheckMenu, ClaimDispatch, FinishDispatch, Armed
<1> QED
  BY <1>1, <1>2, <1>3, AutoSteps DEF Disarming, Disarm, WorldReady, Bootstrap, autoVars

-----------------------------------------------------------------------------
(* The player's presence.                                                  *)

Newest == IF latest = "none" THEN last ELSE latest

\* A world that was left is told again until it is (telemetry.cpp:246-294), and
\* telemetry is only asked to start while it runs.
LEMMA PresenceKeeps == BInv /\ [Next]_vars => PresenceTold'
<1> SUFFICES ASSUME BInv, [Next]_vars, enabled', ~wasIn', Written'
             PROVE  Newest' # "visible"
  BY DEF PresenceTold, Newest
<1>1. TypeOK /\ Fresh /\ Letters /\ PresenceTold /\ Offered /\ Stopping
  BY DEF BInv
<1>2. CASE boot = "new"
  <2>1. latest = "none" /\ last = "none"
    BY <1>1, <1>2 DEF Fresh
  <2>2. UNCHANGED <<latest, last>>
    BY <1>2, FreshSteps
    DEF BootstrapRefused, Bootstrap, SidecarGone, sidecarElse, vars, telemetryVars, outVars
  <2> QED
    BY <2>1, <2>2 DEF Newest
<1>3. ASSUME enabled, ~wasIn, Written, UNCHANGED <<latest, last>>
      PROVE  Newest' # "visible"
  BY <1>1, <1>3 DEF PresenceTold, Newest
<1>4. boot # "new" => Written
  <2> SUFFICES ASSUME boot # "new", ~Written
               PROVE  FALSE
    OBVIOUS
  <2>1. CASE UNCHANGED pipeVars
    BY <2>1 DEF Written, pipeVars
  <2>2. CASE Control
    BY <1>1, <2>2, ControlTakes DEF Written
  <2>3. CASE SidecarStarts \/ SidecarSends \/ SidecarGone
    BY <2>3 DEF SidecarStarts, SidecarSends, SidecarGone, Written
  <2>4. ~BootstrapRefused /\ \A req, good, starts : ~Bootstrap(req, good, starts)
    BY DEF BootstrapRefused, Bootstrap
  <2> QED
    BY <1>1, <2>1, <2>2, <2>3, <2>4, PipeSteps
<1>5. CASE boot # "new" /\ WorkerStep
  <2>1. CASE ConsumeEnds
    <3>1. enabled /\ ~wasIn
      <4>1. enabled' = enabled /\ wasIn' = wasIn
        BY <2>1, WorkerGoesOn
      <4> QED
        BY <4>1
    <3>2. Newest # "visible"
      BY <1>1, <1>4, <1>5, <3>1 DEF PresenceTold, Newest
    <3>3. Newest' = Newest
      BY <1>4, <1>5, <2>1 DEF ConsumeEnds, TakeSample, Newest
    <3> QED
      BY <3>2, <3>3
  <2>2. CASE \/ Control /\ (CommandFails \/ CommandQueued)
             \/ Handshake \/ ControlEnds \/ ConsumeBegins \/ Watch
    <3>1. enabled /\ ~wasIn
      <4>1. enabled' = enabled /\ wasIn' = wasIn
        BY <2>2, WorkerGoesOn
      <4> QED
        BY <4>1
    <3>2. UNCHANGED <<latest, last>>
      BY <2>2 DEF CommandFails, CommandQueued, workerElse, Handshake, ControlEnds,
                  ConsumeBegins, LockSlot, Watch, telemetryVars, outVars
    <3> QED
      BY <1>3, <1>4, <1>5, <3>1, <3>2
  <2>3. CASE Control /\ inbox[1] = "observer" /\ ObserverFrame
    <3>1. /\ UNCHANGED <<latest, last, wasIn>> /\ hooked /\ ~mismatch
      BY <2>3 DEF ObserverFrame, EnableTelemetry, TelemetryCanStart
    <3>2. Observing /\ ~Ending
      BY <1>1, <2>3, ControlSteps DEF Observing, Ending, TypeOK
    <3>3. enabled
      BY <1>1, <1>5, <3>1, <3>2 DEF Offered
    <3> QED
      BY <1>3, <1>4, <1>5, <3>1, <3>3
  <2>4. ~((Control /\ SafeFrame) \/ WatchThread \/ WatchWorld \/ Quit)
    BY DEF SafeFrame, WatchThread, WatchWorld, Quit, GiveUp, DisableTelemetry
  <2>5. CASE Disarming
    BY <1>3, <1>4, <1>5, <2>5 DEF Disarming, telemetryVars
  <2> QED
    BY <1>1, <1>5, <2>1, <2>2, <2>3, <2>4, <2>5, WorkerSteps
<1>6. CASE boot # "new" /\ ~WorkerStep
  <2>1. enabled /\ Written /\ last' = last
    BY <1>1, <1>4, <1>6, OthersLeave
  <2>2. CASE TickBegins
    <3>1. CASE UNCHANGED telemetryVars
      BY <1>3, <2>1, <3>1 DEF telemetryVars
    <3>2. CASE UNCHANGED <<latest, wasIn>>
      BY <1>3, <2>1, <3>2
    <3>3. CASE PublishHidden
      BY <3>3 DEF PublishHidden, Newest
    <3> QED
      BY <2>2, <3>1, <3>2, <3>3 DEF TickBegins, Poll
  <2>3. ~ForeignTick /\ \A due, captured : ~Publish(due, captured)
    BY DEF ForeignTick, Publish
  <2>4. CASE TickWorld \/ Sanitize \/ TickActors
    BY <1>3, <2>1, <2>4 DEF TickWorld, Sanitize, TickActors, telemetryVars
  <2>5. CASE \/ EnterWorld \/ LeaveWorld \/ Traffic \/ Menu \/ ReplicationFails
             \/ \E fails \in BOOLEAN : CreatePlayersRegular(fails)
    BY <1>3, <2>1, <2>5 DEF EnterWorld, LeaveWorld, Traffic, Menu, ReplicationFails,
                            CreatePlayersRegular, telemetryVars
  <2>6. CASE SidecarStarts \/ SidecarSends \/ SidecarGone \/ UNCHANGED vars
    BY <1>3, <2>1, <2>6 DEF SidecarStarts, SidecarSends, SidecarGone, sidecarElse, vars,
                            telemetryVars
  <2>7. ~BootstrapRefused /\ \A req, good, starts : ~Bootstrap(req, good, starts)
    BY <1>6 DEF BootstrapRefused, Bootstrap
  <2> QED
    BY <1>6, <2>2, <2>3, <2>4, <2>5, <2>6, <2>7 DEF Next, TickStep, GameStep
<1> QED
  BY <1>2, <1>5, <1>6

-----------------------------------------------------------------------------
(* The world without traffic.                                              *)

\* Who touches it, and at which point of the tick.
LEMMA WorldSteps ==
    ASSUME TypeOK, [Next]_vars
    PROVE  \/ /\ UNCHANGED stock
              /\ UNCHANGED onlineVars \/ LatchOnline
              /\ tick' = "actors" => tick = "actors"
           \/ /\ tick = "game" /\ tick' = tick
              /\ \/ RegistryReset \/ NativeTraffic \/ MissionTraffic
                 \/ \E fails \in BOOLEAN : CreateRegular(fails) \/ CreatedRegular(fails)
           \/ tick = "after" /\ OutsideWorld
           \/ tick = "sanitize" /\ (SanitizeRegistry \/ SanitizeFails)
           \/ \E req \in Requests, good \in SUBSET Part, starts \in BOOLEAN :
                 Bootstrap(req, good, starts)
<1> USE DEF tickVars
<1>1. CASE \/ Handshake \/ ControlEnds \/ ConsumeBegins \/ ConsumeEnds
           \/ WatchThread \/ WatchWorld \/ Watch \/ Quit
  BY <1>1 DEF Handshake, ControlEnds, ConsumeBegins, ConsumeEnds, WatchThread,
              WatchWorld, Watch, Quit
<1>2. CASE Disarming
  BY <1>2 DEF Disarming
<1>3. CASE Control
  BY <1>3, ControlSteps
  DEF CommandFails, CommandQueued, ObserverFrame, SafeFrame, workerElse
<1>4. CASE TickBegins \/ ForeignTick
  BY <1>4 DEF TickBegins, Poll, ForeignTick
<1>5. CASE TickWorld
  BY <1>5 DEF TickWorld
<1>6. CASE Sanitize
  BY <1>6 DEF Sanitize
<1>7. CASE TickActors
  BY <1>7 DEF TickActors
<1>8. CASE \E due, captured \in BOOLEAN : Publish(due, captured)
  BY <1>8 DEF Publish
<1>9. CASE EnterWorld \/ Menu \/ ReplicationFails
  BY <1>9 DEF EnterWorld, Menu, ReplicationFails
<1>10. CASE \/ LeaveWorld \/ Traffic
            \/ \E fails \in BOOLEAN : CreatePlayersRegular(fails)
  BY <1>10 DEF LeaveWorld, Traffic, CreatePlayersRegular, gameIdle
<1>11. CASE SidecarStarts \/ SidecarSends \/ SidecarGone \/ UNCHANGED vars
  BY <1>11 DEF SidecarStarts, SidecarSends, SidecarGone, sidecarElse, vars
<1>12. CASE BootstrapRefused
  BY <1>12 DEF BootstrapRefused
<1> QED
  BY <1>1, <1>2, <1>3, <1>4, <1>5, <1>6, <1>7, <1>8, <1>9, <1>10, <1>11, <1>12
  DEF Next, WorkerStep, TickStep, GameStep

\* A world is called sanitized by the scan alone, after which only a failure or
\* the tick's end can come (online_world.cpp:490-509 and 661-701).
LEMMA SanitizedKeeps == BInv /\ [Next]_vars => SanitizedIsEmpty'
<1> SUFFICES ASSUME BInv, [Next]_vars, tick' = "actors", online', ~onlineSafe', sanitized'
             PROVE  stock' = {}
  BY DEF SanitizedIsEmpty, Active
<1>1. TypeOK /\ Fresh /\ SanitizedIsEmpty
  BY DEF BInv
<1>2. CASE UNCHANGED stock /\ UNCHANGED onlineVars /\ tick = "actors"
  BY <1>1, <1>2 DEF SanitizedIsEmpty, Active, onlineVars
<1>3. ~LatchOnline /\ ~SanitizeFails
  BY DEF LatchOnline, SanitizeFails, FailRuntime
<1>4. ~OutsideWorld
  <2> SUFFICES ASSUME OutsideWorld
               PROVE  FALSE
    OBVIOUS
  <2>1. online' = online /\ onlineSafe' = onlineSafe
    BY DEF OutsideWorld
  <2>2. Active
    BY <2>1 DEF Active
  <2>3. sanitized' = (sanitized /\ ~Active)
    BY DEF OutsideWorld
  <2>4. sanitized' = FALSE
    BY <2>2, <2>3
  <2> QED
    BY <2>4
<1>5. \A req, good, starts : ~Bootstrap(req, good, starts)
  BY <1>1 DEF Bootstrap, Fresh, tickVars
<1>6. CASE SanitizeRegistry
  BY <1>6 DEF SanitizeRegistry
<1> QED
  BY <1>1, <1>2, <1>3, <1>4, <1>5, <1>6, WorldSteps

\* The counts are clamped around the original only, and written back whatever
\* became of it, unless the write itself failed (online_world.cpp:251-292).
LEMMA CountsKeep == BInv /\ [Next]_vars => CountsRestored'
<1> SUFFICES ASSUME BInv, [Next]_vars, ~creating', clamped'
             PROVE  failed'
  BY DEF CountsRestored
<1>1. TypeOK /\ CountsRestored
  BY DEF BInv
<1>2. ASSUME UNCHANGED <<creating, clamped, failed>>
      PROVE  failed'
  BY <1>1, <1>2 DEF CountsRestored
<1>3. CASE UNCHANGED onlineVars \/ LatchOnline
  BY <1>2, <1>3 DEF onlineVars, LatchOnline
<1>4. CASE RegistryReset \/ NativeTraffic \/ MissionTraffic \/ OutsideWorld \/ SanitizeRegistry
  BY <1>2, <1>4 DEF RegistryReset, NativeTraffic, MissionTraffic, OutsideWorld,
                    SanitizeRegistry, onlineVars
<1>5. CASE SanitizeFails
  BY <1>5 DEF SanitizeFails, FailRuntime
<1>6. ASSUME NEW fails \in BOOLEAN, CreateRegular(fails)
      PROVE  failed'
  BY <1>6 DEF CreateRegular, FailRuntime
<1>7. ASSUME NEW fails \in BOOLEAN, CreatedRegular(fails)
      PROVE  failed'
  BY <1>7 DEF CreatedRegular
<1>8. CASE \E req \in Requests, good \in SUBSET Part, starts \in BOOLEAN :
              Bootstrap(req, good, starts)
  BY <1>2, <1>8 DEF Bootstrap
<1> QED
  BY <1>1, <1>3, <1>4, <1>5, <1>6, <1>7, <1>8, WorldSteps

\* With the hooks installed the game's own creation does nothing, failed or not
\* (online_world.cpp:143-149 and 294-355).
LEMMA OnlyMissionsAdd ==
    BInv /\ [Next]_vars => (online => stock' \subseteq stock \cup Mission)
<1> SUFFICES ASSUME BInv, [Next]_vars, online
             PROVE  stock' \subseteq stock \cup Mission
  OBVIOUS
<1>1. TypeOK
  BY DEF BInv
<1>2. CASE stock' \subseteq stock
  BY <1>2
<1>3. ~NativeTraffic
  BY DEF NativeTraffic, Suppressed
<1>4. CASE MissionTraffic
  BY <1>4 DEF MissionTraffic
<1>5. ASSUME \/ RegistryReset \/ OutsideWorld \/ SanitizeRegistry \/ SanitizeFails
             \/ \E fails \in BOOLEAN : CreateRegular(fails) \/ CreatedRegular(fails)
             \/ \E req \in Requests, good \in SUBSET Part, starts \in BOOLEAN :
                   Bootstrap(req, good, starts)
      PROVE  stock' \subseteq stock
  BY <1>5 DEF RegistryReset, OutsideWorld, SanitizeRegistry, SanitizeFails, CreateRegular,
              CreatedRegular, Bootstrap
<1> QED
  BY <1>1, <1>2, <1>3, <1>4, <1>5, WorldSteps

-----------------------------------------------------------------------------
(* Types.                                                                  *)

\* The local player's telemetry.
LEMMA TelemetryTyped == BInv /\ [Next]_vars => TelemetryTypeOK'
<1> SUFFICES ASSUME BInv, [Next]_vars
             PROVE  TelemetryTypeOK'
  OBVIOUS
<1>1. TypeOK /\ TelemetryTypeOK
  BY DEF BInv, TypeOK
<1>2. CASE UNCHANGED telemetryVars
  BY <1>1, <1>2 DEF TelemetryTypeOK, telemetryVars
<1>3. CASE \E req \in Requests, good \in SUBSET Part, starts \in BOOLEAN :
              Bootstrap(req, good, starts)
  <2> PICK req \in Requests, good \in SUBSET Part, starts \in BOOLEAN :
           Bootstrap(req, good, starts)
    BY <1>3
  <2>1. hooked' = TelemetryInstalls(req, good)
    BY DEF Bootstrap
  <2>2. hooked' \in BOOLEAN
    BY <2>1 DEF TelemetryInstalls
  <2>3. enabled' = (Started(req, good).enabled /\ starts)
    BY DEF Bootstrap
  <2>4. enabled' \in BOOLEAN
    BY <2>3
  <2>5. UNCHANGED <<wasIn, latest, locked, mismatch>>
    BY DEF Bootstrap
  <2> QED
    BY <1>1, <2>2, <2>4, <2>5 DEF TelemetryTypeOK
<1>4. CASE TickBegins
  <2>1. UNCHANGED <<hooked, enabled, locked, mismatch>>
    BY <1>4 DEF TickBegins, Poll, telemetryVars
  <2>2. wasIn' \in {wasIn, locked} /\ latest' \in {latest, "hidden"}
    BY <1>4 DEF TickBegins, Poll, PublishHidden, telemetryVars
  <2> QED
    BY <1>1, <2>1, <2>2 DEF TelemetryTypeOK, Sample
<1>5. CASE ForeignTick
  BY <1>1, <1>5 DEF ForeignTick, TelemetryTypeOK
<1>6. CASE \E due, captured \in BOOLEAN : Publish(due, captured)
  <2>1. /\ UNCHANGED <<hooked, enabled, locked, mismatch>> /\ wasIn' = TRUE
        /\ latest' \in {latest, "visible"}
    BY <1>6 DEF Publish, PublishSample
  <2> QED
    BY <1>1, <2>1 DEF TelemetryTypeOK, Sample
<1>7. CASE ConsumeBegins \/ ConsumeEnds
  BY <1>1, <1>7 DEF ConsumeBegins, ConsumeEnds, LockSlot, TakeSample, TelemetryTypeOK
<1>8. CASE (Control /\ SafeFrame) \/ WatchThread \/ WatchWorld \/ Quit
  <2>1. DisableTelemetry
    BY <1>8 DEF SafeFrame, WatchThread, WatchWorld, Quit, GiveUp
  <2> QED
    BY <1>1, <2>1 DEF DisableTelemetry, TelemetryTypeOK
<1>9. CASE Control /\ ObserverFrame
  <2>1. enabled' = TelemetryCanStart /\ UNCHANGED <<hooked, wasIn, latest, locked, mismatch>>
    BY <1>9 DEF ObserverFrame, EnableTelemetry
  <2>2. enabled' \in BOOLEAN
    BY <2>1 DEF TelemetryCanStart
  <2> QED
    BY <1>1, <2>1, <2>2 DEF TelemetryTypeOK
<1>10. CASE \/ Control /\ (CommandFails \/ CommandQueued)
            \/ Handshake \/ ControlEnds \/ Watch \/ Disarming
  BY <1>2, <1>10 DEF CommandFails, CommandQueued, workerElse, Handshake, ControlEnds,
                     Watch, Disarming
<1>11. CASE TickWorld \/ Sanitize \/ TickActors \/ BootstrapRefused
  BY <1>2, <1>11 DEF TickWorld, Sanitize, TickActors, BootstrapRefused
<1>12. CASE \/ EnterWorld \/ LeaveWorld \/ Traffic \/ Menu \/ ReplicationFails
            \/ \E fails \in BOOLEAN : CreatePlayersRegular(fails)
  BY <1>2, <1>12 DEF EnterWorld, LeaveWorld, Traffic, Menu, ReplicationFails,
                     CreatePlayersRegular
<1>13. CASE SidecarStarts \/ SidecarSends \/ SidecarGone \/ UNCHANGED vars
  BY <1>2, <1>13 DEF SidecarStarts, SidecarSends, SidecarGone, sidecarElse, vars
<1> QED
  BY <1>1, <1>3, <1>4, <1>5, <1>6, <1>7, <1>8, <1>9, <1>10, <1>11, <1>12, <1>13,
     WorkerSteps DEF Next, TickStep, GameStep

\* Auto enter: one attempt at most, since only the armed state is claimed.
LEMMA AutoTyped == BInv /\ [Next]_vars => AutoTypeOK'
<1> SUFFICES ASSUME BInv, [Next]_vars
             PROVE  AutoTypeOK'
  OBVIOUS
<1>1. TypeOK /\ AutoTypeOK /\ Armed
  BY DEF BInv, TypeOK
<1>2. CASE UNCHANGED autoVars
  BY <1>1, <1>2 DEF AutoTypeOK, autoVars
<1>3. CASE Disarming
  <2>1. auto' \in {"disabled", auto} /\ disarmed' = TRUE /\ UNCHANGED <<menu, attempts>>
    BY <1>3 DEF Disarming, Disarm
  <2> QED
    BY <1>1, <2>1 DEF AutoTypeOK
<1>4. CASE Menu
  BY <1>1, <1>4 DEF Menu, CheckMenu, ClaimDispatch, FinishDispatch, AutoTypeOK, Armed
<1>5. CASE WorldReady
  <2>1. auto' \in {"world_ready", auto} /\ UNCHANGED <<menu, attempts, disarmed>>
    BY <1>5 DEF WorldReady
  <2> QED
    BY <1>1, <2>1 DEF AutoTypeOK
<1>6. CASE \E req \in Requests, good \in SUBSET Part, starts \in BOOLEAN :
              Bootstrap(req, good, starts)
  <2>1. auto' \in {"armed", "disabled"} /\ UNCHANGED <<menu, attempts, disarmed>>
    BY <1>6 DEF Bootstrap
  <2> QED
    BY <1>1, <2>1 DEF AutoTypeOK
<1> QED
  BY <1>1, <1>2, <1>3, <1>4, <1>5, <1>6, AutoSteps

\* The online world.
LEMMA OnlineTyped == BInv /\ [Next]_vars => OnlineTypeOK'
<1> SUFFICES ASSUME BInv, [Next]_vars
             PROVE  OnlineTypeOK'
  OBVIOUS
<1>1. TypeOK /\ OnlineTypeOK
  BY DEF BInv, TypeOK
<1>2. CASE UNCHANGED stock /\ (UNCHANGED onlineVars \/ LatchOnline)
  BY <1>1, <1>2 DEF OnlineTypeOK, onlineVars, LatchOnline
<1>3. CASE NativeTraffic \/ MissionTraffic
  <2>1. UNCHANGED onlineVars
    BY <1>3 DEF NativeTraffic, MissionTraffic
  <2>2. stock' \subseteq Native \cup Mission
    BY <1>1, <1>3 DEF NativeTraffic, MissionTraffic, OnlineTypeOK
  <2> QED
    BY <1>1, <2>1, <2>2 DEF OnlineTypeOK, onlineVars
<1>4. CASE RegistryReset \/ OutsideWorld \/ SanitizeRegistry
  <2>1. UNCHANGED <<online, onlineSafe, failed, creating, clamped>> /\ stock' \in {stock, {}}
    BY <1>4 DEF RegistryReset, OutsideWorld, SanitizeRegistry
  <2>2. sanitized' \in BOOLEAN
    BY <1>4 DEF RegistryReset, OutsideWorld, SanitizeRegistry
  <2> QED
    BY <1>1, <2>1, <2>2 DEF OnlineTypeOK
<1>5. CASE SanitizeFails
  <2>1. FailRuntime /\ stock' \subseteq stock
    BY <1>5 DEF SanitizeFails
  <2> QED
    BY <1>1, <2>1 DEF OnlineTypeOK, FailRuntime
<1>6. ASSUME NEW fails \in BOOLEAN, CreateRegular(fails)
      PROVE  OnlineTypeOK'
  BY <1>1, <1>6 DEF CreateRegular, FailRuntime, OnlineTypeOK
<1>7. ASSUME NEW fails \in BOOLEAN, CreatedRegular(fails)
      PROVE  OnlineTypeOK'
  <2>1. /\ UNCHANGED <<online, stock>> /\ creating' = FALSE /\ clamped' = fails
    BY <1>7 DEF CreatedRegular
  <2>2. failed' \in BOOLEAN /\ onlineSafe' \in BOOLEAN /\ sanitized' \in BOOLEAN
    BY <1>7 DEF CreatedRegular
  <2> QED
    BY <1>1, <2>1, <2>2 DEF OnlineTypeOK
<1>8. CASE \E req \in Requests, good \in SUBSET Part, starts \in BOOLEAN :
              Bootstrap(req, good, starts)
  <2> PICK req \in Requests, good \in SUBSET Part, starts \in BOOLEAN :
           Bootstrap(req, good, starts)
    BY <1>8
  <2>1. online' = WorldInstalls(req, good) /\ onlineSafe' = Started(req, good).latched
    BY DEF Bootstrap
  <2>2. online' \in BOOLEAN
    BY <2>1 DEF WorldInstalls
  <2>3. onlineSafe' \in BOOLEAN
    BY <2>1 DEF Started
  <2>4. UNCHANGED <<failed, sanitized, creating, clamped, stock>>
    BY DEF Bootstrap
  <2> QED
    BY <1>1, <2>2, <2>3, <2>4 DEF OnlineTypeOK
<1> QED
  BY <1>1, <1>2, <1>3, <1>4, <1>5, <1>6, <1>7, <1>8, WorldSteps

\* What the bootstrap installed, and the mode, active only with actors.
ModeTyped ==
    /\ boot \in {"new", "initializing", "ready"}
    /\ ready \in [mode : Mode, caps : SUBSET Capability]
    /\ mode \in Mode /\ (mode = "active" => actors)
    /\ actors \in BOOLEAN

LEMMA ModeKeeps == BInv /\ [Next]_vars => ModeTyped'
<1> SUFFICES ASSUME BInv, [Next]_vars
             PROVE  ModeTyped'
  OBVIOUS
<1>1. TypeOK /\ ModeTyped
  BY DEF BInv, TypeOK, ModeTyped
<1>2. CASE \E req \in Requests, good \in SUBSET Part, starts \in BOOLEAN :
              Bootstrap(req, good, starts)
  <2> PICK req \in Requests, good \in SUBSET Part, starts \in BOOLEAN :
           Bootstrap(req, good, starts)
    BY <1>2
  <2> DEFINE s == Started(req, good)
  <2>1. /\ boot' \in {"initializing", "ready"}
        /\ ready' = [mode |-> s.mode, caps |-> s.caps] /\ mode' = s.mode
        /\ actors' = ActorsInstall(req, good)
    BY DEF Bootstrap
  <2>2. s.mode \in Mode /\ s.caps \subseteq Capability
    BY DEF Started, Mode, Capability
  <2>3. s.mode = "active" => ActorsInstall(req, good)
    BY DEF Started, WorldInstalls
  <2> HIDE DEF s
  <2>4. actors' \in BOOLEAN
    BY <2>1 DEF ActorsInstall
  <2> QED
    BY <2>1, <2>2, <2>3, <2>4 DEF ModeTyped
<1>3. CASE BootstrapRefused
  BY <1>1, <1>3 DEF BootstrapRefused, ModeTyped, workerVars
<1>4. CASE UNCHANGED <<bootVars, hooked>>
  <2>1. ASSUME mode' \in {mode, "safe"} \/ (mode' = "active" /\ actors) \/ mode' = "observer"
        PROVE  ModeTyped'
    BY <1>1, <1>4, <2>1 DEF ModeTyped, Mode, bootVars
  <2>2. CASE ~WorkerStep
    <3>1. CASE boot # "new"
      BY <1>1, <2>1, <2>2, <3>1, OthersLeave DEF workerVars
    <3>2. CASE boot = "new"
      BY <1>4, <2>1, <3>2, FreshSteps
      DEF BootstrapRefused, Bootstrap, SidecarGone, sidecarElse, vars, workerVars, bootVars
    <3> QED
      BY <3>1, <3>2
  <2>3. CASE Control
    BY <1>1, <2>1, <2>3, ControlSteps
    DEF CommandFails, CommandQueued, ObserverFrame, SafeFrame
  <2>4. CASE \/ Handshake \/ ControlEnds \/ ConsumeBegins \/ ConsumeEnds
             \/ WatchThread \/ WatchWorld \/ Quit
    BY <2>1, <2>4 DEF Handshake, ControlEnds, ConsumeBegins, ConsumeEnds, WatchThread,
                      WatchWorld, Quit
  <2>5. CASE Disarming
    BY <2>1, <2>5 DEF Disarming
  <2>6. CASE Watch
    BY <2>1, <2>6 DEF Watch, WatchActors
  <2> QED
    BY <2>2, <2>3, <2>4, <2>5, <2>6 DEF WorkerStep
<1> QED
  BY <1>1, <1>2, <1>3, <1>4, InstalledOnce

\* The latches and what the tick has seen.
Latches ==
    /\ actorsSafe \in BOOLEAN /\ replicating \in BOOLEAN /\ seen \in BOOLEAN
    /\ inWorld \in BOOLEAN /\ warned \in BOOLEAN

LEMMA LatchesKeep == BInv /\ [Next]_vars => Latches'
<1> SUFFICES ASSUME BInv, [Next]_vars
             PROVE  Latches'
  OBVIOUS
<1>1. TypeOK /\ Latches
  BY DEF BInv, TypeOK, Latches
<1>2. ASSUME actorsSafe' \in BOOLEAN, replicating' \in BOOLEAN, UNCHANGED <<seen, inWorld>>,
             warned' \in BOOLEAN
      PROVE  Latches'
  BY <1>1, <1>2 DEF Latches
<1>3. CASE Control
  <2>1. CASE CommandFails
    BY <1>2, <2>1 DEF CommandFails, workerElse, tickVars
  <2>2. CASE CommandQueued
    BY <1>1, <1>2, <2>2 DEF CommandQueued, workerElse, tickVars, Latches
  <2>3. CASE ObserverFrame
    BY <1>1, <1>2, <2>3 DEF ObserverFrame, tickVars, Latches
  <2>4. CASE SafeFrame
    BY <1>1, <1>2, <2>4 DEF SafeFrame, tickVars, outVars, Latches
  <2> QED
    BY <1>1, <1>3, <2>1, <2>2, <2>3, <2>4, ControlSteps
<1>4. CASE ControlEnds \/ ConsumeBegins \/ ConsumeEnds \/ WatchThread \/ Quit
  BY <1>1, <1>2, <1>4 DEF ControlEnds, ConsumeBegins, ConsumeEnds, WatchThread, Quit,
                          tickVars, outVars, Latches
<1>5. CASE Handshake \/ WatchWorld
  <2>1. UNCHANGED <<actorsSafe, replicating, seen, inWorld>>
    BY <1>5 DEF Handshake, WatchWorld, tickVars
  <2>2. warned' \in BOOLEAN
    BY <1>5 DEF Handshake, WatchWorld
  <2> QED
    BY <1>1, <1>2, <2>1, <2>2 DEF Latches
<1>6. CASE Watch
  <2>1. UNCHANGED <<actorsSafe, replicating, seen, inWorld>>
    BY <1>6 DEF Watch, tickVars
  <2>2. warned' = warned \/ WatchActors
    BY <1>6 DEF Watch
  <2>3. warned' \in BOOLEAN
    BY <1>1, <2>2 DEF WatchActors, Latches
  <2> QED
    BY <1>1, <1>2, <2>1, <2>3 DEF Latches
<1>7. CASE Disarming
  <2>1. actorsSafe' = TRUE /\ replicating' = FALSE /\ UNCHANGED <<seen, inWorld>>
    BY <1>7 DEF Disarming, tickVars
  <2>2. warned' \in BOOLEAN
    BY <1>7 DEF Disarming
  <2> QED
    BY <1>2, <2>1, <2>2
<1>8. CASE TickBegins
  BY <1>1, <1>8 DEF TickBegins, Poll, outVars, Latches
<1>9. CASE TickWorld \/ ForeignTick \/ ReplicationFails \/ Menu
  BY <1>1, <1>9 DEF TickWorld, ForeignTick, ReplicationFails, Menu, tickVars, outVars,
                    Latches
<1>10. CASE Sanitize \/ TickActors
  BY <1>1, <1>10 DEF Sanitize, TickActors, outVars, Latches
<1>11. CASE \E due, captured \in BOOLEAN : Publish(due, captured)
  <2> PICK due \in BOOLEAN, captured \in BOOLEAN : Publish(due, captured)
    BY <1>11
  <2>1. seen' = TRUE /\ UNCHANGED <<inWorld, warned>>
    BY DEF Publish, outVars
  <2>2. replicating' \in BOOLEAN /\ actorsSafe' \in BOOLEAN
    BY DEF Publish
  <2> QED
    BY <1>1, <2>1, <2>2 DEF Latches
<1>12. CASE EnterWorld \/ LeaveWorld \/ Traffic
  BY <1>1, <1>12 DEF EnterWorld, LeaveWorld, Traffic, tickVars, outVars, Latches
<1>13. CASE \E fails \in BOOLEAN : CreatePlayersRegular(fails)
  <2> PICK fails \in BOOLEAN : CreatePlayersRegular(fails)
    BY <1>13
  <2>1. replicating' \in BOOLEAN /\ actorsSafe' \in BOOLEAN
    BY DEF CreatePlayersRegular
  <2>2. UNCHANGED <<seen, inWorld, warned>>
    BY DEF CreatePlayersRegular, tickVars, outVars
  <2> QED
    BY <1>1, <2>1, <2>2 DEF Latches
<1>14. CASE SidecarStarts \/ SidecarSends \/ SidecarGone \/ UNCHANGED vars
  BY <1>1, <1>14 DEF SidecarStarts, SidecarSends, SidecarGone, sidecarElse, vars, tickVars,
                     outVars, Latches
<1>15. CASE BootstrapRefused
  BY <1>1, <1>15 DEF BootstrapRefused, tickVars, outVars, Latches
<1>16. CASE \E req \in Requests, good \in SUBSET Part, starts \in BOOLEAN :
               Bootstrap(req, good, starts)
  <2> PICK req \in Requests, good \in SUBSET Part, starts \in BOOLEAN :
           Bootstrap(req, good, starts)
    BY <1>16
  <2>1. /\ actorsSafe' = (Started(req, good).latched \/ ~starts)
        /\ replicating' = (Started(req, good).replicating /\ starts)
        /\ UNCHANGED <<seen, inWorld, warned>>
    BY DEF Bootstrap, tickVars, outVars
  <2>2. actorsSafe' \in BOOLEAN /\ replicating' \in BOOLEAN
    BY <2>1
  <2> QED
    BY <1>1, <2>1, <2>2 DEF Latches
<1> QED
  BY <1>3, <1>4, <1>5, <1>6, <1>7, <1>8, <1>9, <1>10, <1>11, <1>12, <1>13, <1>14, <1>15,
     <1>16 DEF Next, WorkerStep, TickStep, GameStep

\* Where the tick and the worker are.
Places ==
    /\ tick \in {"game", "publish", "after", "sanitize", "actors"}
    /\ worker \in {"none", "handshake", "control", "consume", "copy", "watch",
                   "disarm", "quit", "ended"}
    /\ handled \in 0..MaxBatch
    /\ leaving \in [armed : BOOLEAN, online : BOOLEAN, ends : BOOLEAN]
    /\ pipe \in {"none", "open", "closed"}

LEMMA PlacesKeep == BInv /\ [Next]_vars => Places'
<1> SUFFICES ASSUME BInv, [Next]_vars
             PROVE  Places'
  OBVIOUS
<1>1. TypeOK /\ Places /\ MaxBatch \in Nat \ {0}
  BY BridgeAssumption DEF BInv, TypeOK, Places
<1>2. ASSUME tick' \in {"game", "publish", "after", "sanitize", "actors"},
             UNCHANGED <<worker, handled, leaving, pipe>>
      PROVE  Places'
  BY <1>1, <1>2 DEF Places
<1>3. ASSUME UNCHANGED <<tick, leaving, pipe>>, handled' \in {handled, 0},
             worker' \in {worker, "control", "consume", "copy", "watch", "quit"}
      PROVE  Places'
  BY <1>1, <1>3 DEF Places
<1>4. ASSUME NEW latches \in BOOLEAN, NEW ends \in BOOLEAN, GiveUp(latches, ends),
             UNCHANGED <<tick, pipe>>, handled' \in 0..MaxBatch
      PROVE  Places'
  <2>1. leaving' \in [armed : BOOLEAN, online : BOOLEAN, ends : BOOLEAN]
    <3>1. (auto = "armed") \in BOOLEAN
      OBVIOUS
    <3> QED
      BY <1>4, <3>1 DEF GiveUp
  <2> QED
    BY <1>1, <1>4, <2>1 DEF Places, GiveUp
<1>5. CASE Control
  <2>1. handled' = handled + 1 /\ handled < MaxBatch /\ handled' \in 0..MaxBatch
    BY <1>1, <1>5, ControlSteps DEF Places
  <2>2. CASE SafeFrame
    BY <1>4, <2>1, <2>2 DEF SafeFrame, tickVars
  <2>3. CASE CommandFails \/ CommandQueued \/ ObserverFrame
    <3>1. /\ UNCHANGED <<tick, leaving, pipe>>
          /\ worker' \in {worker, "control", "quit"}
      BY <2>3 DEF CommandFails, CommandQueued, ObserverFrame, workerElse, tickVars
    <3> QED
      BY <1>1, <2>1, <3>1 DEF Places
  <2> QED
    BY <1>1, <1>5, <2>2, <2>3, ControlSteps
<1>6. CASE Handshake \/ ControlEnds \/ ConsumeBegins \/ ConsumeEnds \/ Watch
  BY <1>3, <1>6 DEF Handshake, ControlEnds, ConsumeBegins, ConsumeEnds, Watch, tickVars
<1>7. CASE WatchThread \/ WatchWorld \/ Quit
  <2>1. UNCHANGED <<tick, pipe, handled>> /\ handled' \in 0..MaxBatch
    BY <1>1, <1>7 DEF WatchThread, WatchWorld, Quit, tickVars, Places
  <2> QED
    BY <1>4, <1>7, <2>1 DEF WatchThread, WatchWorld, Quit
<1>8. CASE Disarming
  <2>1. /\ worker' \in {"ended", "control", "quit"} /\ pipe' \in {"closed", pipe}
        /\ leaving' = NotLeaving /\ UNCHANGED <<tick, handled>>
    BY <1>8 DEF Disarming, tickVars
  <2> QED
    BY <1>1, <2>1 DEF Places, NotLeaving
<1>9. CASE TickBegins \/ TickWorld \/ Sanitize \/ TickActors
  BY <1>2, <1>9 DEF TickBegins, Poll, TickWorld, Sanitize, TickActors, workerVars
<1>10. CASE \E due, captured \in BOOLEAN : Publish(due, captured)
  BY <1>2, <1>10 DEF Publish, workerVars
<1>11. CASE UNCHANGED tick /\ UNCHANGED workerVars
  BY <1>1, <1>2, <1>11 DEF Places, workerVars
<1>12. CASE \/ EnterWorld \/ LeaveWorld \/ Traffic \/ Menu \/ ReplicationFails \/ ForeignTick
            \/ \E fails \in BOOLEAN : CreatePlayersRegular(fails)
  BY <1>11, <1>12 DEF EnterWorld, LeaveWorld, Traffic, Menu, ReplicationFails, ForeignTick,
                      CreatePlayersRegular, tickVars
<1>13. CASE SidecarStarts \/ SidecarSends \/ SidecarGone \/ UNCHANGED vars \/ BootstrapRefused
  BY <1>11, <1>13 DEF SidecarStarts, SidecarSends, SidecarGone, sidecarElse, vars,
                      BootstrapRefused, tickVars
<1>14. CASE \E req \in Requests, good \in SUBSET Part, starts \in BOOLEAN :
               Bootstrap(req, good, starts)
  <2>1. /\ worker' \in {"handshake", "ended"} /\ pipe' \in {"open", "closed"}
        /\ UNCHANGED <<tick, handled, leaving>>
    BY <1>14 DEF Bootstrap, tickVars
  <2> QED
    BY <1>1, <2>1 DEF Places
<1> QED
  BY <1>5, <1>6, <1>7, <1>8, <1>9, <1>10, <1>12, <1>13, <1>14
  DEF Next, WorkerStep, TickStep, GameStep

\* The pipe holds whole frames, within its bound.
PipeTyped ==
    /\ sidecar \in {"starting", "up", "leaving", "gone"}
    /\ inbox \in Seq(Frame) /\ Len(inbox) <= MaxInbox

LEMMA PipeKeeps == BInv /\ [Next]_vars => PipeTyped'
<1> SUFFICES ASSUME BInv, [Next]_vars
             PROVE  PipeTyped'
  OBVIOUS
<1>1. TypeOK /\ Letters /\ PipeTyped /\ MaxInbox \in Nat \ {0}
  BY BridgeAssumption DEF BInv, TypeOK, PipeTyped
<1>2. CASE UNCHANGED pipeVars
  BY <1>1, <1>2 DEF PipeTyped, pipeVars
<1>3. CASE Control
  <2>1. inbox' = Tail(inbox) /\ Len(inbox) > 0 /\ sidecar' = sidecar
    BY <1>1, <1>3, ControlSteps, ControlTakes
  <2>2. inbox' \in Seq(Frame) /\ Len(inbox') = Len(inbox) - 1
    BY <1>1, <2>1 DEF PipeTyped
  <2> QED
    BY <1>1, <2>1, <2>2 DEF PipeTyped
<1>4. CASE SidecarStarts
  <2>1. PICK f \in Frame : inbox' = <<f>>
    BY <1>4 DEF SidecarStarts, Frame
  <2>2. inbox' \in Seq(Frame) /\ Len(inbox') = 1
    BY <2>1
  <2>3. sidecar' \in {"up", "leaving"}
    BY <1>4 DEF SidecarStarts
  <2> QED
    BY <1>1, <2>2, <2>3 DEF PipeTyped
<1>5. CASE SidecarSends
  <2>1. PICK f \in {"remote", "environment", "safe"} :
           inbox' = Append(inbox, f) /\ sidecar' \in {"up", "leaving"}
    BY <1>5 DEF SidecarSends
  <2>2. f \in Frame /\ Len(inbox) < MaxInbox
    BY <1>5 DEF SidecarSends, Frame
  <2>3. inbox' \in Seq(Frame) /\ Len(inbox') = Len(inbox) + 1
    BY <1>1, <2>1, <2>2 DEF PipeTyped
  <2> QED
    BY <1>1, <2>1, <2>2, <2>3 DEF PipeTyped
<1>6. CASE SidecarGone \/ BootstrapRefused
  <2>1. sidecar' = "gone" /\ inbox' \in {<<>>, inbox}
    BY <1>6 DEF SidecarGone, BootstrapRefused
  <2>2. CASE inbox' = inbox
    BY <1>1, <2>1, <2>2 DEF PipeTyped
  <2>3. CASE inbox' = <<>>
    <3>1. inbox' \in Seq(Frame) /\ Len(inbox') = 0
      BY <2>3
    <3> QED
      BY <1>1, <2>1, <3>1 DEF PipeTyped
  <2> QED
    BY <2>1, <2>2, <2>3
<1>7. CASE \E req \in Requests, good \in SUBSET Part, starts \in BOOLEAN :
              Bootstrap(req, good, starts)
  <2>1. sidecar' \in {"starting", "gone"} /\ inbox' = inbox
    BY <1>7 DEF Bootstrap
  <2> QED
    BY <1>1, <2>1 DEF PipeTyped
<1> QED
  BY <1>1, <1>2, <1>3, <1>4, <1>5, <1>6, <1>7, PipeSteps

\* What was written.
LEMMA WrittenTyped ==
    BInv /\ [Next]_vars => last' \in Sample \cup {"none"} /\ late' \in 0..3
<1> SUFFICES ASSUME BInv, [Next]_vars
             PROVE  last' \in Sample \cup {"none"} /\ late' \in 0..3
  OBVIOUS
<1>1. /\ TypeOK /\ last \in Sample \cup {"none"} /\ late \in 0..3
      /\ latest \in Sample \cup {"none"}
  BY DEF BInv, TypeOK, TelemetryTypeOK
<1>2. CASE ConsumeEnds
  <2>1. last' \in {last, latest}
    BY <1>2 DEF ConsumeEnds
  <2>2. late' = late \/ (late < 3 /\ late' = late + 1)
    BY <1>2 DEF ConsumeEnds
  <2> QED
    BY <1>1, <2>1, <2>2
<1>3. CASE UNCHANGED <<last, late>>
  BY <1>1, <1>3
<1>4. CASE Control
  BY <1>1, <1>3, <1>4, ControlSteps
  DEF CommandFails, CommandQueued, ObserverFrame, SafeFrame, workerElse, outVars
<1>5. CASE \/ Handshake \/ ControlEnds \/ ConsumeBegins
           \/ WatchThread \/ WatchWorld \/ Watch \/ Disarming \/ Quit
  BY <1>3, <1>5 DEF Handshake, ControlEnds, ConsumeBegins, WatchThread,
                    WatchWorld, Watch, Disarming, Quit, outVars
<1>6. CASE boot # "new" /\ ~WorkerStep
  BY <1>1, <1>3, <1>6, OthersLeave
<1>7. CASE boot = "new"
  BY <1>3, <1>7, FreshSteps
  DEF BootstrapRefused, Bootstrap, SidecarGone, sidecarElse, vars, outVars
<1> QED
  BY <1>2, <1>4, <1>5, <1>6, <1>7 DEF WorkerStep

LEMMA TypesKeep == BInv /\ [Next]_vars => TypeOK'
BY TelemetryTyped, AutoTyped, OnlineTyped, ModeKeeps, LatchesKeep, PlacesKeep, PipeKeeps,
   WrittenTyped DEF TypeOK, ModeTyped, Latches, Places, PipeTyped

-----------------------------------------------------------------------------
(* The theorems.                                                           *)

\* The process before its bootstrap.
LEMMA BridgeInit == Init => BInv
<1> SUFFICES ASSUME Init
             PROVE  BInv
  OBVIOUS
<1>1. inbox = <<>> /\ inbox \in Seq(Frame) /\ Len(inbox) = 0
  BY DEF Init
<1>2. TelemetryTypeOK /\ AutoTypeOK /\ OnlineTypeOK
  <2>1. TelemetryTypeOK
    <3>1. {hooked, enabled, wasIn, locked, mismatch} \subseteq BOOLEAN
      BY DEF Init
    <3>2. latest = "none"
      BY DEF Init
    <3> QED
      BY <3>1, <3>2 DEF TelemetryTypeOK
  <2>2. AutoTypeOK
    <3>1. auto = "disabled" /\ menu = "idle" /\ attempts = 0
      BY DEF Init
    <3>2. disarmed \in BOOLEAN
      BY DEF Init
    <3>3. attempts \in 0..1
      BY <3>1
    <3> QED
      BY <3>1, <3>2, <3>3 DEF AutoTypeOK
  <2>3. OnlineTypeOK
    <3>1. {online, onlineSafe, failed, sanitized, creating, clamped} \subseteq BOOLEAN
      BY DEF Init
    <3>2. stock = {}
      BY DEF Init
    <3> QED
      BY <3>1, <3>2 DEF OnlineTypeOK
  <2> QED
    BY <2>1, <2>2, <2>3
<1>3. /\ ready \in [mode : Mode, caps : SUBSET Capability]
      /\ leaving \in [armed : BOOLEAN, online : BOOLEAN, ends : BOOLEAN]
  BY DEF Init, Mode, NotLeaving
<1>4. TypeOK
  <2>1. /\ boot = "new" /\ mode = "safe" /\ ~actors /\ ~actorsSafe /\ ~replicating
        /\ ~seen /\ ~inWorld /\ ~warned
    BY DEF Init
  <2>2. {actors, actorsSafe, replicating, seen, inWorld, warned} \subseteq BOOLEAN
    BY DEF Init
  <2>3. /\ tick = "game" /\ worker = "none" /\ handled = 0 /\ pipe = "none"
        /\ sidecar = "starting" /\ last = "none" /\ late = 0
    BY DEF Init
  <2>4. handled \in 0..MaxBatch /\ Len(inbox) <= MaxInbox /\ mode \in Mode
    BY <1>1, <2>1, <2>3, BridgeAssumption DEF Mode
  <2>5. late \in 0..3
    BY <2>3
  <2> QED
    BY <1>1, <1>2, <1>3, <2>1, <2>2, <2>3, <2>4, <2>5 DEF TypeOK
<1>5. Fresh /\ Letters /\ Armed
  BY <1>1 DEF Init, Fresh, Letters, Armed
<1>6. Stopping /\ Counting /\ Offered
  BY <1>1 DEF Init, Stopping, Stopped, Counting, Offered
<1>7. PresenceTold /\ CountsRestored /\ SanitizedIsEmpty
  BY DEF Init, PresenceTold, CountsRestored, SanitizedIsEmpty
<1> QED
  BY <1>4, <1>5, <1>6, <1>7 DEF BInv

LEMMA BridgeKeeps == BInv /\ [Next]_vars => BInv'
BY TypesKeep, FreshKeeps, LettersKeep, StoppingKeeps, CountingKeeps, OfferedKeeps, ArmedKeeps,
   PresenceKeeps, CountsKeep, SanitizedKeeps DEF BInv

\* The invariant of the bridge: its ten parts hold together, whatever the game
\* thread, the worker and the sidecar do in whatever order.
THEOREM BridgeInvariance == Spec => []BInv
<1>1. BInv /\ [Next]_vars => BInv'
  BY BridgeKeeps
<1> QED
  BY <1>1, BridgeInit, PTL DEF Spec

\* Types, one attempt of auto enter, never more frames than the pipe's bound, and
\* no mode "active" without actors (bridge.cpp:492-511 and 561-628).
THEOREM BridgeTypes == Spec => []TypeOK
<1>1. BInv => TypeOK
  BY DEF BInv
<1> QED
  BY <1>1, BridgeInvariance, PTL

\* A bridge that was told to stop, or stopped of its own accord, forwards two
\* samples at most, although neither thread waits for the other (bridge.cpp:603-628,
\* telemetry.cpp:574-584 and 635-638).
THEOREM StopsForwarding == Spec => []TelemetryStops
<1>1. BInv => TelemetryStops
  <2> SUFFICES ASSUME BInv
               PROVE  late <= 2
    BY DEF TelemetryStops
  <2>1. late \in 0..3 /\ Counting
    BY DEF BInv, TypeOK
  <2> QED
    BY <2>1 DEF Counting, Stopped
<1> QED
  BY <1>1, BridgeInvariance, PTL

\* A tick of a working online world that claims the world sanitized has left no
\* stock actor (online_world.cpp:490-509 and 661-688).
THEOREM SanitizedHolds == Spec => []SanitizedIsEmpty
<1>1. BInv => SanitizedIsEmpty
  BY DEF BInv
<1> QED
  BY <1>1, BridgeInvariance, PTL

\* The game's own traffic counts are back whenever CreatePlayersRegular is over,
\* unless the failure to write them was counted (online_world.cpp:251-292).
THEOREM CountsComeBack == Spec => []CountsRestored
<1>1. BInv => CountsRestored
  BY DEF BInv
<1> QED
  BY <1>1, BridgeInvariance, PTL

\* While telemetry runs, nobody is left with a vehicle of a player the bridge
\* takes for gone (telemetry.cpp:246-294).
THEOREM PresenceIsTold == Spec => []PresenceTold
<1>1. BInv => PresenceTold
  BY DEF BInv
<1> QED
  BY <1>1, BridgeInvariance, PTL

\* The menu's two events are dispatched once at most, and not begun after the
\* worker disarmed auto enter (auto_enter.cpp:192-215 and 332-338).
THEOREM DispatchesOnce == Spec => DispatchedOnce
<1>1. BInv /\ [Next]_vars => [attempts' > attempts => attempts = 0 /\ ~disarmed]_vars
  BY ClaimsCount
<1> QED
  BY <1>1, BridgeInvariance, PTL DEF Spec, DispatchedOnce

\* Once the online world is installed, only missions add stock actors, whatever
\* fails later (online_world.cpp:143-149 and 294-355).
THEOREM SuppressionStays == Spec => SuppressionOutlivesFailure
<1>1. BInv /\ [Next]_vars => [online => stock' \subseteq stock \cup Mission]_vars
  BY OnlyMissionsAdd
<1> QED
  BY <1>1, BridgeInvariance, PTL DEF Spec, SuppressionOutlivesFailure

=============================================================================
