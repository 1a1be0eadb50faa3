-------------------------------- MODULE Launch --------------------------------
(***************************************************************************)
(* One online session from the launcher's button to the game and back.     *)
(*                                                                         *)
(*   window   the launcher's UI thread (apps/launcher/main.cpp, status.cpp)*)
(*   worker   its detached launch_worker thread: it stages the runtime,    *)
(*            prepares the driver profile (profile_editor.cpp), starts the *)
(*            sidecar and waits for its end                                *)
(*   sidecar  ht2mp-client run (apps/client/run.cpp) up to the end of its  *)
(*            loop; what the loop relays is module Sidecar                 *)
(*   injector ht2mp-injector32, module Injector                            *)
(*   console  `ht2mp-client stage` or `seed-driver` run by hand beside it  *)
(*                                                                         *)
(* They share the runtime tree (module Staging), a named shutdown event    *)
(* and the game process.  The launcher may be closed or killed at any      *)
(* moment, which kills the worker where it stands, and opened again once   *)
(* its sidecar is over.                                                    *)
(***************************************************************************)
EXTENDS Staging, Injector

CONSTANTS MaxLaunch, MaxConsole   \* bounds of this model

\* Who stages, and the names the game and the launcher give to saves.
ASSUME LaunchAssumption ==
    /\ {"launcher", "console"} \subseteq Stager
    /\ {"driver", "backup", "legacy", "other", "temporary"} \subseteq SaveName

VARIABLES
    window,     \* "open", "closing" or "gone"
    active,     \* RunState::active_
    worker,     \* where launch_worker is, and the source it is to use
    event,      \* the shutdown event: its state and who holds a handle
    sidecar,    \* where run_staged_game is
    options,    \* what the sidecar was asked for, until it is checked again
    game,       \* "none", "up" or "saving"
    seeder,     \* seed_staged_driver: "none" or "counted"
    launches, consoles

sharedVars == <<active, worker, event, options, game>>
vars == <<stagingVars, injectorVars, window, active, worker, event, sidecar,
          options, game, seeder, launches, consoles>>

WorkerStep == {"none", "asked", "validating", "staging", "template", "guard",
               "keeping", "editing", "replacing", "legacy", "lastplayer",
               "recheck", "spawning", "monitoring", "done"}

SidecarStep == {"none", "starting", "checked", "armed", "idling", "modules",
                "injecting", "greeting", "playing", "closing", "over"}

Holder == {"window", "worker", "sidecar"}

TypeOK ==
    /\ exact \subseteq Source
    /\ target \in Place
    /\ \A p \in Stager : /\ stager[p].at \in Step
                         /\ stager[p].incoming \in Place
                         /\ stager[p].backup \in Place
    /\ leftover \subseteq BOOLEAN
    /\ InjectorTypeOK
    /\ window \in {"open", "closing", "gone"}
    /\ active \in BOOLEAN
    /\ worker.at \in WorkerStep /\ worker.from \in Source \cup {None}
    /\ event.state \in {"none", "clear", "set"} /\ event.holders \subseteq Holder
    /\ (event.state = "none") <=> (event.holders = {})
    /\ sidecar \in SidecarStep
    /\ options \in RunOption \cup {NoOptions}
    /\ game \in {"none", "up", "saving"}
    /\ seeder \in {"none", "counted"}

NoEvent == [state |-> "none", holders |-> {}]

Init ==
    /\ StagingInit /\ exact = Source \ Nested
    /\ InjectorInit
    /\ window = "open" /\ active = FALSE
    /\ worker = [at |-> "none", from |-> None]
    /\ event = NoEvent
    /\ sidecar = "none" /\ options = NoOptions
    /\ game = "none" /\ seeder = "none"
    /\ launches = 0 /\ consoles = 0

-----------------------------------------------------------------------------
\* Kernel object: it goes with its last handle.
Without(e, who) ==
    LET rest == e.holders \ who
    IN  [state |-> IF rest = {} THEN "none" ELSE e.state, holders |-> rest]

GameUp == game # "none"

\* A file of the tree is open, so its directory cannot be renamed.
InUse == GameUp \/ worker.at = "keeping"

Drivers(tree) == {n \in {"driver", "legacy", "other"} : tree.save[n] # "none"}

Saved(name, content) ==
    target' = [target EXCEPT !.save[name] = content]

GoodSave(tree) == tree.save["driver"] = "good" \/ tree.save["backup"] = "good"

-----------------------------------------------------------------------------
(* The window.                                                             *)

\* Bound of this model: whatever an earlier session left at work, its injector
\* is over when the next one begins.
Quiet == ~Injecting

\* Bound of this model: a stage by hand is over before the last launch begins.
LastAlone == launches + 1 < MaxLaunch \/ stager["console"].at = "idle"

\* begin_launch: a fresh event, one handle for the window, one for the worker.
Play(s) ==
    /\ window = "open" /\ ~active /\ Quiet
    /\ launches < MaxLaunch /\ LastAlone
    /\ launches' = launches + 1
    /\ active' = TRUE
    /\ event' = [state |-> "clear", holders |-> {"window", "worker"}]
    /\ worker' = [at |-> "asked", from |-> s]
    /\ UNCHANGED <<stagingVars, injectorVars, window, sidecar, options, game,
                   seeder, consoles>>

\* The disconnect button.
Disconnect ==
    /\ window = "open" /\ "window" \in event.holders
    /\ event' = [event EXCEPT !.state = "set"]
    /\ UNCHANGED <<stagingVars, injectorVars, window, active, worker, sidecar,
                   options, game, seeder, launches, consoles>>

\* kSidecarDoneMessage; the worker's thread and its handle are gone by now.
Done ==
    /\ window = "open" /\ worker.at = "done"
    /\ active' = FALSE
    /\ event' = Without(event, {"window", "worker"})
    /\ worker' = [at |-> "none", from |-> None]
    /\ UNCHANGED <<stagingVars, injectorVars, window, sidecar, options, game,
                   seeder, launches, consoles>>

\* WM_CLOSE and WM_DESTROY: the event is set and the window's handle dropped.
CloseWindow ==
    /\ window = "open"
    /\ window' = "closing"
    /\ event' = IF "window" \in event.holders
                THEN Without([event EXCEPT !.state = "set"], {"window"})
                ELSE event
    /\ UNCHANGED <<stagingVars, injectorVars, active, worker, sidecar, options,
                   game, seeder, launches, consoles>>

\* The process ends: after its window, or killed. The worker dies where it is.
LauncherEnds ==
    /\ window # "gone"
    /\ window' = "gone" /\ active' = FALSE
    /\ worker' = [at |-> "none", from |-> None]
    /\ event' = Without(event, {"window", "worker"})
    /\ IF stager["launcher"].at = "idle" THEN UNCHANGED stagingVars
       ELSE Leave("launcher") /\ UNCHANGED <<exact, target>>
    /\ UNCHANGED <<injectorVars, sidecar, options, game, seeder, launches,
                   consoles>>

\* The single-instance mutex admits one launcher at a time.  Bound of this
\* model: an earlier launcher's sidecar is over by then.
Reopen ==
    /\ window = "gone" /\ sidecar = "none" /\ Quiet /\ launches < MaxLaunch
    /\ window' = "open"
    /\ UNCHANGED <<stagingVars, injectorVars, sharedVars, sidecar, seeder,
                   launches, consoles>>

-----------------------------------------------------------------------------
(* The worker.                                                             *)

At(step) == worker.at = step
Move(step) == worker' = [worker EXCEPT !.at = step]

workerRest == <<window, active, event, options, game, seeder, launches, consoles>>

\* The first look at the event, then at the process list.
Asked ==
    /\ At("asked")
    /\ IF event.state = "set" \/ GameUp
       THEN worker' = [at |-> "done", from |-> None]
       ELSE Move("validating")
    /\ UNCHANGED <<stagingVars, injectorVars, sidecar, workerRest>>

\* prepare_runtime: keep a valid runtime made from the chosen source.
ValidateRuntime ==
    /\ At("validating")
    /\ IF Validated(target) /\ target.source = worker.from
       THEN /\ worker' = [at |-> "template", from |-> None]
            /\ UNCHANGED stagingVars
       ELSE /\ worker' = [at |-> "staging", from |-> None]
            /\ StartStage("launcher", worker.from)
    /\ UNCHANGED <<injectorVars, sidecar, workerRest>>

Staged ==
    /\ At("staging")
    /\ Move(IF stager["launcher"].at = "staged" THEN "template" ELSE "done")
    /\ Finish("launcher")
    /\ UNCHANGED <<injectorVars, sidecar, workerRest>>

\* find_template: bundled, or any profile of the source.
FindTemplate ==
    /\ At("template")
    /\ \/ Move("guard")
       \/ Move("done")
    /\ UNCHANGED <<stagingVars, injectorVars, sidecar, workerRest>>

\* The runtime's own profile kept as the backup without a look at it.
GuardUnlooked ==
    /\ At("guard")
    /\ IF GameUp \/ target = None THEN Move("done") /\ UNCHANGED target
       ELSE IF target.save["driver"] # "none"
            THEN Move("keeping") /\ Saved("backup", "torn")
            ELSE (Move("editing") \/ Move("done")) /\ UNCHANGED target
    /\ UNCHANGED <<exact, stager, leftover, injectorVars, sidecar, workerRest>>

\* prepare_online_profile begins: no game may be running; the profile to start
\* from is the runtime's own if it is good, and that one is kept as the backup,
\* else the backup, else the template.
Guard ==
    /\ At("guard")
    /\ IF GameUp \/ target = None THEN Move("done") /\ UNCHANGED target
       ELSE IF target.save["driver"] = "good"
            THEN Move("keeping") /\ Saved("backup", "torn")
            ELSE /\ \/ Move("editing")
                    \/ target.save["backup"] # "good" /\ Move("done")
                 /\ UNCHANGED target
    /\ UNCHANGED <<exact, stager, leftover, injectorVars, sidecar, workerRest>>

\* CopyFile of the good profile over the backup ends, or fails half way.
Keep ==
    /\ At("keeping")
    /\ \/ Move("editing") /\ Saved("backup", "good")
       \/ Move("done") /\ UNCHANGED target
    /\ UNCHANGED <<exact, stager, leftover, injectorVars, sidecar, workerRest>>

\* The temporary copy: every complete slot edited, committed and read back.
Edit ==
    /\ At("editing")
    /\ IF target = None THEN Move("done") /\ UNCHANGED target
       ELSE \/ Move("replacing") /\ Saved("temporary", "good")
            \/ Move("done") /\ Saved("temporary", "none")
    /\ UNCHANGED <<exact, stager, leftover, injectorVars, sidecar, workerRest>>

\* MoveFileEx over the profile.
Replace ==
    /\ At("replacing")
    /\ IF target = None \/ target.save["temporary"] # "good"
       THEN Move("done") /\ UNCHANGED target
       ELSE \/ /\ Move("legacy")
               /\ target' = [target EXCEPT !.save["driver"] = "good",
                                           !.save["temporary"] = "none"]
            \/ Move("done") /\ Saved("temporary", "none")
    /\ UNCHANGED <<exact, stager, leftover, injectorVars, sidecar, workerRest>>

\* The obsolete HT2MP.pl1 would make the driver ambiguous.
DropLegacy ==
    /\ At("legacy")
    /\ IF target = None THEN Move("lastplayer") /\ UNCHANGED target
       ELSE \/ Move("lastplayer") /\ Saved("legacy", "none")
            \/ target.save["legacy"] # "none" /\ Move("done") /\ UNCHANGED target
    /\ UNCHANGED <<exact, stager, leftover, injectorVars, sidecar, workerRest>>

\* write_last_player, through a temporary file.
LastPlayer ==
    /\ At("lastplayer")
    /\ \/ target # None /\ Move("recheck")
       \/ Move("done")
    /\ UNCHANGED <<stagingVars, injectorVars, sidecar, workerRest>>

\* The second look at the event, before the sidecar exists.
Recheck ==
    /\ At("recheck")
    /\ Move(IF event.state = "set" THEN "done" ELSE "spawning")
    /\ UNCHANGED <<stagingVars, injectorVars, sidecar, workerRest>>

Spawn ==
    /\ At("spawning")
    /\ \/ /\ Move("monitoring")
          /\ sidecar' = "starting"
          /\ options' = RunOptions(LauncherCommand(62, 0))
       \/ Move("done") /\ UNCHANGED <<sidecar, options>>
    /\ UNCHANGED <<stagingVars, injectorVars, window, active, event, game,
                   seeder, launches, consoles>>

\* monitor_sidecar: its output ends, then its process.
Monitored ==
    /\ At("monitoring") /\ sidecar = "over"
    /\ Move("done")
    /\ sidecar' = "none"
    /\ UNCHANGED <<stagingVars, injectorVars, workerRest>>

WorkerNext ==
    \/ Asked \/ ValidateRuntime \/ Staged \/ FindTemplate \/ Guard \/ Keep
    \/ Edit \/ Replace \/ DropLegacy \/ LastPlayer \/ Recheck \/ Spawn \/ Monitored
    \/ StageStep("launcher", InUse) /\ UNCHANGED <<injectorVars, sidecar, worker,
                                                   workerRest>>

-----------------------------------------------------------------------------
(* The sidecar.                                                            *)

sidecarRest == <<window, active, worker, seeder, launches, consoles>>

\* The process ends: its handles close, and the pipe with them.  An injector it
\* started goes on.
Over ==
    /\ sidecar' = "over"
    /\ event' = Without(event, {"sidecar"})
    /\ options' = IF injector = "checking" THEN options ELSE NoOptions

Go(step) == sidecar' = step /\ UNCHANGED <<event, options>>

\* Run by hand, with no launcher about.
ConsoleRun(o) ==
    /\ window = "gone" /\ sidecar = "none" /\ Quiet /\ consoles < MaxConsole
    /\ sidecar' = "starting"
    /\ options' = o
    /\ consoles' = consoles + 1
    /\ UNCHANGED <<stagingVars, injectorVars, window, active, worker, event,
                   game, seeder, launches>>

\* Only a validated runtime with exactly one driver is started.
CheckRuntime ==
    /\ sidecar = "starting"
    /\ IF /\ Validated(target)
          /\ options.autoEnter => \E n \in SaveName : Drivers(target) = {n}
       THEN Go("checked")
       ELSE Over
    /\ UNCHANGED <<stagingVars, injectorVars, game, sidecarRest>>

\* CreateEvent opens the launcher's event, or creates one of that name.
Arm ==
    /\ sidecar = "checked"
    /\ \/ /\ sidecar' = "armed"
          /\ event' = [state   |-> IF event.state = "none" THEN "clear" ELSE event.state,
                       holders |-> event.holders \cup {"sidecar"}]
          /\ UNCHANGED options
       \/ Over
    /\ UNCHANGED <<stagingVars, injectorVars, game, sidecarRest>>

\* The pipe, then king.exe, whether or not an earlier one still runs.  Bound: of two
\* the new one is followed from here.
StartGame ==
    /\ sidecar = "armed"
    /\ \/ Over /\ UNCHANGED <<game, injectorVars>>
       \/ /\ target # None
          /\ game' = "up"
          /\ injector' = "none" /\ remote' = NoRemote
          /\ Go("idling")
    /\ UNCHANGED <<stagingVars, sidecarRest>>

\* WaitForInputIdle; a game that is late is left to itself.
GameIdle ==
    /\ sidecar = "idling"
    /\ Go("modules") \/ Over
    /\ UNCHANGED <<stagingVars, injectorVars, game, sidecarRest>>

ModulesLoaded ==
    /\ sidecar = "modules"
    /\ \/ Over /\ UNCHANGED injector
       \/ GameUp /\ Go("injecting") /\ injector' = "checking"
    /\ UNCHANGED <<stagingVars, remote, game, sidecarRest>>

\* run_injector: its exit code, or thirty seconds and the injector is killed.
Injected ==
    /\ sidecar = "injecting"
    /\ \/ injector = "ok" /\ Go("greeting") /\ UNCHANGED injectorVars
       \/ injector \in {"refused", "failed"} /\ Over /\ UNCHANGED injectorVars
       \/ InjectorKilled /\ Over
    /\ UNCHANGED <<stagingVars, game, sidecarRest>>

\* The authenticated handshake, the capability checks, the network's start.
Greet ==
    /\ sidecar = "greeting"
    /\ \/ Over
       \/ GameUp /\ Go("playing")
    /\ UNCHANGED <<stagingVars, injectorVars, game, sidecarRest>>

\* A loop that only waits for the game.
LoopEndsWithGame ==
    /\ sidecar = "playing" /\ ~GameUp
    /\ Over
    /\ UNCHANGED <<stagingVars, injectorVars, game, sidecarRest>>

\* The loop ends with the event or with the game.
LoopEnds ==
    /\ sidecar = "playing"
    /\ \/ event.state = "set" /\ Go("closing")
       \/ ~GameUp /\ Over
    /\ UNCHANGED <<stagingVars, injectorVars, game, sidecarRest>>

\* WM_CLOSE to the game, and at most fifteen seconds of waiting.
Closed ==
    /\ sidecar = "closing"
    /\ Over
    /\ UNCHANGED <<stagingVars, injectorVars, game, sidecarRest>>

\* Ctrl+C, the task manager.
SidecarKilled ==
    /\ sidecar \notin {"none", "over"}
    /\ Over
    /\ UNCHANGED <<stagingVars, injectorVars, game, sidecarRest>>

\* A sidecar whose launcher is gone is waited for by nobody.
Unwatched ==
    /\ sidecar = "over" /\ worker.at # "monitoring"
    /\ sidecar' = "none"
    /\ UNCHANGED <<stagingVars, injectorVars, sharedVars, window, seeder,
                   launches, consoles>>

InjectorNext ==
    /\ InjectorStep(options, GameUp)
    /\ options' = NoOptions
    /\ UNCHANGED <<stagingVars, window, active, worker, event, sidecar, game,
                   seeder, launches, consoles>>

SidecarNext ==
    \/ CheckRuntime \/ Arm \/ StartGame \/ GameIdle \/ ModulesLoaded
    \/ Injected \/ Greet \/ LoopEnds \/ Closed \/ Unwatched

-----------------------------------------------------------------------------
(* The game, and the console beside the launcher.                          *)

RemoteNext ==
    /\ GameUp /\ RemoteStep
    /\ UNCHANGED <<stagingVars, sharedVars, window, sidecar, seeder, launches,
                   consoles>>

\* Saving rewrites the driver in place; a game that ends meanwhile tears it.
GameSaves ==
    /\ GameUp
    /\ \/ game = "up" /\ game' = "saving" /\ Saved("driver", "torn")
       \/ game = "saving" /\ game' = "up" /\ Saved("driver", "good")
    /\ UNCHANGED <<exact, stager, leftover, injectorVars, window, active, worker,
                   event, sidecar, options, seeder, launches, consoles>>

GameEnds ==
    /\ GameUp
    /\ game' = "none"
    /\ remote' = NoRemote
    /\ UNCHANGED <<stagingVars, injector, window, active, worker, event, sidecar,
                   options, seeder, launches, consoles>>

consoleRest == <<injectorVars, sharedVars, window, sidecar, launches>>

ConsoleStage(s) ==
    /\ launches < MaxLaunch
    /\ consoles < MaxConsole /\ consoles' = consoles + 1
    /\ StartStage("console", s)
    /\ UNCHANGED <<consoleRest, seeder>>

ConsoleStageStep ==
    /\ StageStep("console", InUse) \/ Finish("console") \/ Kill("console")
    /\ UNCHANGED <<consoleRest, seeder, consoles>>

\* seed_staged_driver: refuse a runtime that has a driver.
SeedCount ==
    /\ consoles < MaxConsole /\ consoles' = consoles + 1
    /\ seeder = "none"
    /\ Validated(target) /\ Drivers(target) = {}
    /\ seeder' = "counted"
    /\ UNCHANGED <<stagingVars, consoleRest>>

\* The copy is compared with the seed, whatever the seed is, and renamed over the
\* destination; the name is the seed's own.  What a save of another name than
\* the driver's holds is looked at by nothing here.
SeedCommit ==
    /\ seeder = "counted"
    /\ seeder' = "none"
    /\ \/ UNCHANGED target
       \/ /\ target # None
          /\ \/ \E c \in {"good", "torn"} : Saved("driver", c)
             \/ \E n \in {"legacy", "other"} : Saved(n, "good")
    /\ UNCHANGED <<exact, stager, leftover, consoleRest, consoles>>

Update ==
    /\ consoles < MaxConsole /\ consoles' = consoles + 1
    /\ \E s \in Source : SourceUpdated(s)
    /\ UNCHANGED <<consoleRest, seeder>>

Next ==
    \/ \E s \in Source : Play(s) \/ ConsoleStage(s)
    \/ Disconnect \/ Done \/ CloseWindow \/ LauncherEnds \/ Reopen
    \/ WorkerNext \/ SidecarNext \/ SidecarKilled \/ InjectorNext
    \/ \E o \in AcceptedOptions : ConsoleRun(o)
    \/ RemoteNext \/ GameSaves \/ GameEnds
    \/ ConsoleStageStep \/ SeedCount \/ SeedCommit \/ Update

Spec == Init /\ [][Next]_vars

\* The launcher: its worker, the window's messages, the end of a closed window.
LauncherNext == WorkerNext \/ Done \/ (window = "closing" /\ LauncherEnds)

\* The scheduler runs the launcher and the sidecar, and every wait of theirs has
\* a timeout.  Nothing is asked of the user, the injector, the game or the console.
Fairness == WF_vars(LauncherNext) /\ WF_vars(SidecarNext)

FairSpec == Spec /\ Fairness

-----------------------------------------------------------------------------
\* Between games, and as long as the tree stays, a player who has a good driver
\* profile or a good backup of it keeps one: no failed or killed preparation
\* loses both (profile_editor.cpp:828-885).  A seed renamed over a profile that
\* was made since its count is outside this promise.
GoodProfileSurvives ==
    [][ (game = "none" /\ target # None /\ target' # None
           /\ GoodSave(target) /\ stager' = stager /\ seeder' = seeder)
        => GoodSave(target') ]_vars

\* A disconnect or a closed window stops a launch wherever it is: no sidecar is
\* left that would start the game or keep it connected.  (The event is clear
\* again when its last handle went before the sidecar opened it.)
DisconnectHonoured ==
    event.state = "set" ~> (worker.at = "none" /\ sidecar = "none")
                           \/ event.state = "clear"

\* Once the game runs, the switches that started it are never what the
\* injector or the bridge refuse (run.cpp:306-348, main.cpp:321-423).
NeverRefused == injector # "refused"
=============================================================================
