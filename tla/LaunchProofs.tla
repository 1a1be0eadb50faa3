----------------------------- MODULE LaunchProofs -----------------------------
(***************************************************************************)
(* Staging, and the online session that stages, for any number of sources, *)
(* processes, launches and commands.                                       *)
(*                                                                         *)
(* Staging: what stands under the runtime's name is always a whole copy,   *)
(* and the last whole runtime is never lost.  The second needs the         *)
(* inductive part: a backup being removed is not the last whole runtime,   *)
(* because its remover has committed a new one, which is under the         *)
(* runtime's name still, or in the backup of a process that is not         *)
(* removing, or left behind by one that died.                              *)
(*                                                                         *)
(* The session: the shared state is well typed, the runtime stays a whole  *)
(* copy although the game and the worker write into it, no preparation     *)
(* loses the last good profile, no started game is refused by the          *)
(* injector, and no thread in the game reads freed memory.  The invariant  *)
(* has five parts: the staging transactions' own, the types, what keeps    *)
(* the tree in place while a file of it is open, which of the launcher's   *)
(* worker, the sidecar and the injector can be at work at once, and what   *)
(* the game's threads still need at each step of the injector.             *)
(***************************************************************************)
EXTENDS Launch, TLAPS

-----------------------------------------------------------------------------
(* Staging.                                                                *)

State == [at: Step, incoming: Place, backup: Place]

Types ==
    /\ exact \subseteq Source
    /\ target \in Place
    /\ stager \in [Stager -> State]
    /\ leftover \subseteq BOOLEAN

\* What a process holds at each step of its transaction.
Held ==
    \A p \in Stager :
       /\ stager[p].at \in {"idle", "copying", "proving", "sealing", "sealed",
                            "displacing"} => stager[p].backup = None
       /\ stager[p].at \in {"copying", "proving"} => stager[p].incoming \in Tree
       /\ stager[p].at = "sealing" =>
             stager[p].incoming \in Tree /\ Genuine(stager[p].incoming)
       /\ stager[p].at \in {"sealed", "displacing", "committing"} =>
             stager[p].incoming \in Tree /\ Whole(stager[p].incoming)

       /\ stager[p].at = "removing" => stager[p].backup \in Tree
       /\ stager[p].at \in {"committing", "discarding", "restoring"} =>
             stager[p].backup = None \/ Whole(stager[p].backup)

\* A whole runtime that nobody is about to delete.
Kept ==
    \/ Whole(target)
    \/ \E p \in Stager : stager[p].at # "removing" /\ Whole(stager[p].backup)
    \/ TRUE \in leftover

RemovingIsSafe == (\E p \in Stager : stager[p].at = "removing") => Kept

IInv == Types /\ Held /\ TargetWhole /\ RemovingIsSafe

\* No process holds anything before the first stage (staging.cpp:846).
LEMMA InitHolds == StagingInit => IInv
BY DEF StagingInit, IInv, Types, Held, TargetWhole, RemovingIsSafe, Place, State, Idle,
       Step

\* A tree just made is a tree (staging.cpp:924-979).
LEMMA IncomingIsTree ==
    ASSUME NEW s \in Source, NEW files \in {"some", "all"}, NEW genuine \in BOOLEAN
    PROVE  Incoming(s, files, genuine) \in Tree
BY DEF Incoming, Tree, NoSaves, Content

\* One step of one process keeps each part, and a kept runtime stays kept
\* (staging.cpp:388-436, 846-1048).
LEMMA StepKeeps ==
    ASSUME IInv, NEW p \in Stager, NEW inUse \in BOOLEAN,
           \/ \E s \in Source : StartStage(p, s)
           \/ StageStep(p, inUse) \/ Finish(p) \/ Kill(p)
    PROVE  Types' /\ Held' /\ TargetWhole' /\ (Kept => Kept') /\ RemovingIsSafe'
<1> USE DEF IInv
<1>a. /\ exact \subseteq Source
      /\ target \in Place /\ stager \in [Stager -> State] /\ leftover \subseteq BOOLEAN
      /\ stager[p] \in State
  BY DEF Types
<1>1. CASE \E s \in Source : StartStage(p, s)
  <2> PICK s \in Source : StartStage(p, s)
    BY <1>1
  <2> DEFINE fresh == Incoming(s, "some", FALSE)
  <2>1. fresh \in Tree
    BY IncomingIsTree
  <2>2. Put(p, "copying", fresh, None) \/ Put(p, "failed", None, None)
    BY DEF StartStage
  <2>3. stager[p].at = "idle" /\ UNCHANGED <<exact, target, leftover>>
    BY DEF StartStage
  <2> HIDE DEF fresh
  <2>4. Types'
    BY <1>a, <2>1, <2>2, <2>3 DEF Types, State, Put, Place, Step
  <2>5. Held'
    BY <1>a, <2>1, <2>2, <2>3 DEF Held, State, Put
  <2>6. TargetWhole'
    BY <2>3 DEF TargetWhole, Whole, Genuine, Sealed
  <2>7. Kept => Kept'
    BY <1>a, <2>2, <2>3 DEF Kept, Held, State, Put, Whole, Genuine, Sealed
  <2>8. RemovingIsSafe'
    BY <1>a, <2>2, <2>3, <2>7 DEF RemovingIsSafe, State, Put
  <2> QED
    BY <2>4, <2>5, <2>6, <2>7, <2>8
<1>2. CASE Copy(p)
  <2>1. /\ stager[p].at = "proving" \/ stager[p].at = "copying"
        /\ stager[p].incoming \in Tree
        /\ UNCHANGED <<exact, target, leftover>>
    BY <1>2 DEF Copy, Held
  <2> DEFINE made == Incoming(stager[p].incoming.source, "all",
                              stager[p].incoming.source \in exact)
  <2>2. Put(p, "proving", made, stager[p].backup)
    BY <1>2 DEF Copy
  <2>3. made \in Tree
    <3>1. stager[p].incoming.source \in Source
      BY <2>1 DEF Tree
    <3> QED
      BY <3>1, IncomingIsTree, (stager[p].incoming.source \in exact) \in BOOLEAN
  <2> HIDE DEF made
  <2>4. stager[p].at = "copying" /\ stager[p].backup = None
    BY <1>2 DEF Copy, Held
  <2>5. Types'
    BY <1>a, <2>1, <2>2, <2>3 DEF Types, State, Put, Place, Step
  <2>6. Held'
    BY <1>a, <2>2, <2>3, <2>4 DEF Held, State, Put
  <2>7. Kept => Kept'
    BY <1>a, <2>1, <2>2, <2>4 DEF Kept, State, Put, Whole, Genuine, Sealed
  <2>8. RemovingIsSafe' /\ TargetWhole'
    BY <1>a, <2>1, <2>2, <2>7 DEF RemovingIsSafe, TargetWhole, Whole, Genuine,
                                  Sealed, State, Put
  <2> QED
    BY <2>5, <2>6, <2>7, <2>8
<1>3. ASSUME NEW at \in Step \ {"removing"},
             Goto(p, at), UNCHANGED <<exact, target, leftover>>,
             \/ stager[p].at = "proving" /\ at = "sealing"
                  /\ Genuine(stager[p].incoming)
             \/ stager[p].at = "sealed" /\ at \in {"displacing", "committing"}
             \/ at = "discarding" /\ stager[p].at \in {"copying", "proving",
                   "sealing", "sealed", "displacing", "committing"}
             \/ at = "failed"
      PROVE  Types' /\ Held' /\ TargetWhole' /\ (Kept => Kept') /\ RemovingIsSafe'
  <2>1. stager' = [stager EXCEPT ![p] = [stager[p] EXCEPT !.at = at]]
    BY <1>3 DEF Goto
  <2>2. Types'
    BY <1>a, <1>3, <2>1 DEF Types, State, Put
  <2>3. Held'
    BY <1>a, <1>3, <2>1 DEF Held, State, Put
  <2>4. Kept => Kept'
    BY <1>a, <1>3, <2>1 DEF Kept, State, Put, Whole, Genuine, Sealed
  <2>5. RemovingIsSafe' /\ TargetWhole'
    BY <1>a, <1>3, <2>1, <2>4 DEF RemovingIsSafe, TargetWhole, Whole, Genuine,
                                  Sealed, State, Put
  <2> QED
    BY <2>2, <2>3, <2>4, <2>5
<1>4. CASE Prove(p) \/ Look(p) \/ Throw(p)
  BY <1>3, <1>4 DEF Prove, Look, Throw, Step
<1>5. CASE Seal(p)
  <2>1. /\ stager[p].at = "sealing" /\ stager[p].backup = None
        /\ stager[p].incoming \in Tree /\ Genuine(stager[p].incoming)
        /\ UNCHANGED <<exact, target, leftover>>
    BY <1>5 DEF Seal, Held
  <2> DEFINE done == [stager[p].incoming EXCEPT !.sealed = TRUE]
  <2>2. Put(p, "sealed", done, stager[p].backup)
    BY <1>5 DEF Seal
  <2>3. done \in Tree /\ Whole(done)
    BY <2>1, NoneAssumption DEF Tree, Whole, Genuine, Sealed
  <2> HIDE DEF done
  <2>4. Types'
    BY <1>a, <2>1, <2>2, <2>3 DEF Types, State, Put, Place, Step
  <2>5. Held'
    BY <1>a, <2>1, <2>2, <2>3 DEF Held, State, Put
  <2>6. Kept => Kept'
    BY <1>a, <2>1, <2>2 DEF Kept, State, Put, Whole, Genuine, Sealed
  <2>7. RemovingIsSafe' /\ TargetWhole'
    BY <1>a, <2>1, <2>2, <2>6 DEF RemovingIsSafe, TargetWhole, Whole, Genuine,
                                  Sealed, State, Put
  <2> QED
    BY <2>4, <2>5, <2>6, <2>7
<1>6. CASE Displace(p, inUse)
  <2>1. CASE target = None \/ inUse
    BY <1>3, <1>6, <2>1 DEF Displace, Step
  <2>2. CASE ~(target = None \/ inUse)
    <3>1. /\ Put(p, "committing", stager[p].incoming, target)
          /\ target' = None /\ UNCHANGED <<exact, leftover>>
          /\ stager[p].at = "displacing" /\ stager[p].backup = None
      BY <1>6, <1>a, <2>2 DEF Displace, State, Put, Held
    <3>2. Whole(target)
      BY <2>2 DEF TargetWhole
    <3>3. Types'
      BY <1>a, <3>1 DEF Types, State, Put, Place, Step
    <3>4. Held'
      BY <1>a, <3>1, <3>2 DEF Held, State, Put
    <3>5. Kept'
      BY <1>a, <3>1, <3>2 DEF Kept, State, Put, Whole, Genuine, Sealed
    <3>6. TargetWhole'
      BY <3>1 DEF TargetWhole
    <3> QED
      BY <3>3, <3>4, <3>5, <3>6 DEF RemovingIsSafe
  <2> QED
    BY <2>1, <2>2
<1>7. CASE Commit(p)
  <2>1. CASE target # None
    BY <1>3, <1>7, <2>1 DEF Commit, Step
  <2>2. CASE target = None
    <3>1. /\ target' = stager[p].incoming /\ UNCHANGED <<exact, leftover>>
          /\ Whole(stager[p].incoming) /\ stager[p].incoming \in Tree
      BY <1>7, <2>2 DEF Commit, Held
    <3>2. PICK at \in {"staged", "removing"} :
             /\ Put(p, at, None, stager[p].backup)
             /\ at = "removing" => stager[p].backup \in Tree
      BY <1>7, <1>a, <2>2 DEF Commit, State, Put, Place
    <3>3. Types'
      BY <1>a, <3>1, <3>2 DEF Types, State, Put, Place, Step
    <3>4. Held'
      BY <1>a, <3>2 DEF Held, State, Put
    <3>5. TargetWhole' /\ Kept'
      BY <3>1 DEF TargetWhole, Kept, Whole, Genuine, Sealed
    <3> QED
      BY <3>3, <3>4, <3>5 DEF RemovingIsSafe
  <2> QED
    BY <2>1, <2>2
<1>8. CASE RemoveBackup(p)
  <2>1. /\ stager[p].at = "removing" /\ stager[p].backup \in Tree
        /\ UNCHANGED <<exact, target, leftover>>
    BY <1>8 DEF RemoveBackup, Held
  <2>2. CASE Goto(p, "failed")
    BY <1>3, <2>1, <2>2 DEF Step
  <2>3. ASSUME NEW at \in {"removing", "staged"}, NEW left \in Place,
               Put(p, at, None, left), at = "removing" => left \in Tree
        PROVE  Types' /\ Held' /\ TargetWhole' /\ (Kept => Kept') /\ RemovingIsSafe'
    <3>2. Kept
      BY <2>1 DEF RemovingIsSafe
    <3>3. Types'
      BY <1>a, <2>1, <2>3 DEF Types, State, Put, Step, Place
    <3>4. Held'
      BY <1>a, <2>1, <2>3 DEF Held, State, Put
    <3>5. Kept'
      BY <1>a, <2>1, <2>3, <3>2 DEF Kept, State, Put, Whole, Genuine, Sealed
    <3>6. TargetWhole'
      BY <2>1 DEF TargetWhole, Whole, Genuine, Sealed
    <3> QED
      BY <3>3, <3>4, <3>5, <3>6 DEF RemovingIsSafe
  <2>4. [stager[p].backup EXCEPT !.files = "some"] \in Tree
    BY <2>1 DEF Tree
  <2> QED
    BY <1>8, <2>2, <2>3, <2>4 DEF RemoveBackup, Place
<1>9. CASE Discard(p)
  <2>1. PICK at \in {"failed", "restoring"} : Put(p, at, None, stager[p].backup)
    BY <1>9 DEF Discard
  <2>2. stager[p].at = "discarding" /\ UNCHANGED <<exact, target, leftover>>
    BY <1>9 DEF Discard
  <2>3. Types'
    BY <1>a, <2>1, <2>2 DEF Types, State, Put, Place, Step
  <2>4. Held'
    BY <1>a, <2>1, <2>2 DEF Held, State, Put
  <2>5. Kept => Kept'
    BY <1>a, <2>1, <2>2 DEF Kept, State, Put, Whole, Genuine, Sealed
  <2>6. RemovingIsSafe' /\ TargetWhole'
    BY <1>a, <2>1, <2>2, <2>5 DEF RemovingIsSafe, TargetWhole, Whole, Genuine,
                                  Sealed, State, Put
  <2> QED
    BY <2>3, <2>4, <2>5, <2>6
<1>10. CASE Restore(p)
  <2>1. CASE Goto(p, "failed") /\ UNCHANGED <<exact, target, leftover>>
    BY <1>3, <2>1 DEF Step
  <2>2. CASE /\ target = None /\ target' = stager[p].backup
             /\ Put(p, "failed", None, None)
    <3>1. stager[p].at = "restoring" /\ UNCHANGED <<exact, leftover>>
      BY <1>10 DEF Restore
    <3>2. Types'
      BY <1>a, <2>2, <3>1 DEF Types, State, Put, Place, Step
    <3>3. Held'
      BY <1>a, <2>2, <3>1 DEF Held, State, Put
    <3>4. Kept => Kept'
      BY <1>a, <2>2, <3>1 DEF Kept, State, Put, Whole, Genuine, Sealed
    <3>5. RemovingIsSafe'
      BY <1>a, <2>2, <3>1, <3>4 DEF RemovingIsSafe, State, Put
    <3>6. TargetWhole'
      BY <2>2, <3>1 DEF Held, TargetWhole, Whole, Genuine, Sealed
    <3> QED
      BY <3>2, <3>3, <3>4, <3>5, <3>6
  <2> QED
    BY <1>10, <2>1, <2>2 DEF Restore
<1>11. CASE Finish(p) \/ Kill(p)
  <2>1. /\ Put(p, "idle", None, None)
        /\ leftover' = IF stager[p].backup = None THEN leftover
                        ELSE leftover \cup {Whole(stager[p].backup)}
        /\ UNCHANGED <<exact, target>>
    BY <1>11 DEF Finish, Kill, Leave
  <2>2. Types'
    BY <1>a, <2>1 DEF Types, State, Put, Place, Step, Whole, Genuine
  <2>3. Held'
    BY <1>a, <2>1 DEF Held, State, Put
  <2>4. Kept => Kept'
    BY <1>a, <2>1 DEF Kept, State, Put, Whole, Genuine, Sealed
  <2>5. RemovingIsSafe' /\ TargetWhole'
    BY <1>a, <2>1, <2>4 DEF RemovingIsSafe, TargetWhole, Whole, Genuine, Sealed,
                            State, Put
  <2> QED
    BY <2>2, <2>3, <2>4, <2>5
<1> QED
  BY <1>1, <1>2, <1>4, <1>5, <1>6, <1>7, <1>8, <1>9, <1>10, <1>11 DEF StageStep

\* A step of any process, or an update of a source, keeps the invariant.
LEMMA NextKeeps == IInv /\ [StagingNext]_stagingVars => IInv' /\ (Kept => Kept')
<1> SUFFICES ASSUME IInv, [StagingNext]_stagingVars
             PROVE  IInv' /\ (Kept => Kept')
  OBVIOUS
<1>1. CASE \E p \in Stager : ProcessStep(p)
  <2> PICK p \in Stager : ProcessStep(p)
    BY <1>1
  <2> PICK inUse \in BOOLEAN : \/ \E s \in Source : StartStage(p, s)
                               \/ StageStep(p, inUse) \/ Finish(p) \/ Kill(p)
    BY DEF ProcessStep
  <2>1. Types' /\ Held' /\ TargetWhole' /\ (Kept => Kept') /\ RemovingIsSafe'
    BY StepKeeps
  <2> QED
    BY <2>1 DEF IInv
<1>2. CASE \E s \in Source : SourceUpdated(s)
  BY <1>2 DEF SourceUpdated, IInv, Types, Held, TargetWhole, RemovingIsSafe, Kept,
              Whole, Genuine, Sealed
<1>3. CASE UNCHANGED stagingVars
  BY <1>3 DEF stagingVars, IInv, Types, Held, TargetWhole, RemovingIsSafe, Kept,
              Whole, Genuine, Sealed
<1> QED
  BY <1>1, <1>2, <1>3 DEF StagingNext

\* With the invariant, a whole runtime anywhere is one that nobody deletes.
LEMMA WholeIsKept == IInv => (WholeSomewhere <=> Kept)
BY DEF IInv, RemovingIsSafe, WholeSomewhere, Kept

\* What is under the runtime's name is complete, proved and sealed
\* (staging.cpp:981-1029).
THEOREM RuntimeIsWhole == StagingSpec => []TargetWhole
<1>1. IInv /\ [StagingNext]_stagingVars => IInv'
  BY NextKeeps
<1>2. IInv => TargetWhole
  BY DEF IInv
<1> QED
  BY <1>1, <1>2, InitHolds, PTL DEF StagingSpec

\* However many processes stage, fail and die, the last whole runtime stays on
\* the disk (staging.cpp:388-436, 1024-1044).
THEOREM RuntimeIsNeverLost == StagingSpec => LastGoodSurvives
<1>1. IInv /\ [StagingNext]_stagingVars => IInv'
  BY NextKeeps
<1>2. IInv /\ IInv' /\ [StagingNext]_stagingVars
         => [WholeSomewhere => WholeSomewhere']_stagingVars
  <2>1. IInv' => (WholeSomewhere' <=> Kept')
    BY WholeIsKept, PTL
  <2> QED
    BY <2>1, NextKeeps, WholeIsKept
<1> QED
  BY <1>1, <1>2, InitHolds, PTL DEF StagingSpec, LastGoodSurvives

-----------------------------------------------------------------------------
(* The session.                                                            *)

Shape ==
    /\ window \in {"open", "closing", "gone"}
    /\ active \in BOOLEAN
    /\ worker \in [at: WorkerStep, from: Source \cup {None}]
    /\ event \in [state: {"none", "clear", "set"}, holders: SUBSET Holder]
    /\ (event.state = "none") <=> (event.holders = {})
    /\ sidecar \in SidecarStep
    /\ options \in RunOption \cup {NoOptions}
    /\ game \in {"none", "up", "saving"}
    /\ seeder \in {"none", "counted"}
    /\ InjectorTypeOK
    /\ worker.at \in {"asked", "validating"} => worker.from \in Source

\* An open file pins the runtime's directory.
Pinned == InUse => target # None

\* Steps of the worker before there is a sidecar.
Preparing == worker.at \notin {"none", "monitoring", "done"}

\* Steps of the sidecar before it calls the injector.
Before == {"starting", "checked", "armed", "idling", "modules"}

\* A closed launcher has no worker; a sidecar with a launcher about is the one
\* its worker waits for; the window knows of its worker; and while a launch is
\* under way up to the call of the injector, no earlier injector is.
Alone ==
    /\ window = "gone" => worker.at = "none"
    /\ window # "gone" /\ worker.at # "monitoring" => sidecar = "none"
    /\ active <=> worker.at # "none"
    /\ Preparing => ~Injecting
    /\ sidecar \in Before => ~Injecting

\* The switches a run was accepted with are the ones its injector will check.
Agreed ==
    /\ sidecar \in Before \/ injector = "checking"
          => options \in RunOption /\ Bootable(options)
    /\ NeverRefused

\* What the injector knows of its threads at each of its steps.
Awaited ==
    /\ injector \in {"none", "checking"} => remote = NoRemote
    /\ sidecar \in {"idling", "modules"} => injector = "none"
    /\ injector = "loading" => remote.boot = "none"
    /\ injector = "naming" => remote.load # "running" /\ remote.boot = "none"
    /\ injector = "booting" => remote.load # "running"
    /\ RemoteMemoryLives

LInv == IInv /\ Shape /\ Pinned /\ Alone /\ Agreed /\ Awaited

-----------------------------------------------------------------------------
(* What a run may be asked for.                                            *)

\* The fields of the options a command becomes (client/main.cpp:446-463).
LEMMA OptionsTyped ==
    ASSUME NEW c \in Command
    PROVE  RunOptions(c) \in RunOption
<1>1. c.edition \in Edition /\ c.vehicle \in Vehicle /\ c.paint \in Paint
  BY DEF Command
<1>2. WantsTelemetry(c) \in BOOLEAN /\ WantsActors(c) \in BOOLEAN
  BY DEF WantsTelemetry, WantsActors
<1>3. (IF "vehicle" \in c.on THEN c.vehicle ELSE NoVehicle) \in Vehicle \cup {NoVehicle}
  BY <1>1
<1>4. (IF "paint" \in c.on THEN c.paint ELSE 0) \in {0} \cup Paint
  BY <1>1
<1> QED
  BY <1>1, <1>2, <1>3, <1>4 DEF RunOptions, RunOption

\* Options are bootable when they say of themselves what the three later checks
\* ask (injector32/main.cpp:71-194, injector.cpp:421-463,
\* runtime_validation.cpp:9-80).
LEMMA WhenBootable ==
    ASSUME NEW o \in RunOption,
           o.diagnostics => o.telemetry /\ o.edition = "gog" /\ ~o.actors,
           o.actors => o.telemetry,
           o.autoEnter => o.telemetry,
           o.online => o.edition = "steam" /\ o.actors,
           Appearance(o) => o.edition = "steam",
           ~Appearance(o) => o.paint = 0
    PROVE  Bootable(o)
<1>1. /\ o.telemetry \in BOOLEAN /\ o.diagnostics \in BOOLEAN /\ o.actors \in BOOLEAN
      /\ o.online \in BOOLEAN /\ o.autoEnter \in BOOLEAN /\ o.edition \in {"gog", "steam"}
      /\ o.vehicle \in {62, 87, 65535} /\ o.paint \in {0, 3}
  BY DEF RunOption, Edition, Vehicle, Paint, NoVehicle
<1>2. Passed(o) = o
  <2>1. CASE Appearance(o)
    BY <2>1 DEF Passed
  <2>2. CASE ~Appearance(o)
    <3>1. o.paint = 0
      BY <2>2
    <3>2. [o EXCEPT !.paint = 0] = o
      BY <3>1 DEF RunOption
    <3> QED
      BY <2>2, <3>2 DEF Passed
  <2> QED
    BY <2>1, <2>2
<1>3. Appearance(o) => o.vehicle \in 62..87 /\ o.paint \in 0..3
  BY <1>1 DEF Appearance, NoVehicle
<1>4. InjectorParses(o) /\ InjectorAccepts(o)
  BY <1>1, <1>3 DEF InjectorParses, InjectorAccepts
<1>5. BootstrapAccepts(o)
  <2> DEFINE flags == BootstrapFlags(o)
             world == flags \cap {"npc-suppression", "background-tick"}
  <2>1. /\ "observer-only" \in flags
        /\ "telemetry" \in flags <=> o.telemetry
        /\ "diagnostics" \in flags <=> o.diagnostics
        /\ "actors" \in flags <=> o.actors
        /\ "npc-suppression" \in flags <=> o.online
        /\ "background-tick" \in flags <=> o.online
        /\ "appearance" \in flags <=> Appearance(o)
        /\ "auto-enter" \in flags <=> o.autoEnter
    BY DEF BootstrapFlags
  <2> HIDE DEF flags
  <2>2. world = IF o.online THEN {"npc-suppression", "background-tick"} ELSE {}
    BY <2>1
  <2>3. /\ flags \cap {"diagnostics", "auto-enter", "actors"} # {} => "telemetry" \in flags
        /\ ~({"actors", "diagnostics"} \subseteq flags)
    BY <2>1
  <2>4. world # {} => {"telemetry", "actors"} \subseteq flags
    BY <2>1, <2>2
  <2>5. world # {} \/ "appearance" \in flags => o.edition = "steam"
    BY <2>1, <2>2
  <2>6. /\ "appearance" \in flags => o.vehicle \in 62..87 /\ o.paint \in 0..3
        /\ "appearance" \notin flags => ~Appearance(o) /\ o.paint = 0
    BY <1>3, <2>1
  <2>7. world \in {{}, {"npc-suppression", "background-tick"}}
    BY <2>2
  <2> HIDE DEF world
  <2> QED
    BY <2>1, <2>3, <2>4, <2>5, <2>6, <2>7 DEF BootstrapAccepts, flags, world
<1> QED
  BY <1>2, <1>4, <1>5 DEF Bootable

\* What `run` accepts, injector and bridge accept (client/main.cpp:321-423).
LEMMA AcceptedIsBootable ==
    ASSUME NEW o \in AcceptedOptions
    PROVE  o \in RunOption /\ Bootable(o)
<1>1. PICK c \in Command : CommandAccepts(c) /\ o = RunOptions(c)
  BY DEF AcceptedOptions
<1>2. o \in RunOption
  BY <1>1, OptionsTyped
<1>3. /\ o.edition = c.edition
      /\ o.telemetry = WantsTelemetry(c)
      /\ o.diagnostics = ("gog-diagnostics" \in c.on)
      /\ o.actors = WantsActors(c)
      /\ o.online = ("online" \in c.on)
      /\ o.autoEnter = ("auto-enter" \in c.on)
      /\ o.vehicle = IF "vehicle" \in c.on THEN c.vehicle ELSE NoVehicle
      /\ o.paint = IF "paint" \in c.on THEN c.paint ELSE 0
  BY <1>1 DEF RunOptions
<1>4. Appearance(o) <=> "vehicle" \in c.on
  BY <1>3 DEF Appearance, Command, Vehicle, NoVehicle
<1>5. /\ "online" \in c.on => WantsActors(c)
      /\ WantsActors(c) => WantsTelemetry(c)
      /\ "auto-enter" \in c.on => WantsTelemetry(c)
  BY DEF WantsActors, WantsTelemetry
<1>6. /\ "online" \in c.on => c.edition = "steam"
      /\ "paint" \in c.on => "vehicle" \in c.on
      /\ "gog-diagnostics" \in c.on => WantsTelemetry(c) /\ ~WantsActors(c)
      /\ "gog-diagnostics" \in c.on => c.edition = "gog"
      /\ "vehicle" \in c.on => c.edition = "steam"
  BY <1>1 DEF CommandAccepts
<1> QED
  BY <1>2, <1>3, <1>4, <1>5, <1>6, WhenBootable

\* The launcher's own command is one of them (launcher/main.cpp:163-183).
LEMMA LauncherIsAccepted ==
    LET o == RunOptions(LauncherCommand(62, 0))
    IN  o \in RunOption /\ Bootable(o)
<1> DEFINE c == LauncherCommand(62, 0)
<1>1. /\ c.edition = "steam"
      /\ c.on = {"online", "server", "vehicle", "paint", "auto-enter"}
  BY DEF LauncherCommand
<1>2. c \in Command
  BY DEF LauncherCommand, Command, Edition, Switch, Vehicle, Paint
<1> HIDE DEF c
<1>3. CommandAccepts(c)
  BY <1>1 DEF CommandAccepts
<1> QED
  BY <1>2, <1>3, AcceptedIsBootable DEF AcceptedOptions, c

-----------------------------------------------------------------------------
(* The injector and its threads.                                           *)

\* A step that leaves them alone, or takes the sidecar to where it has none.
LEMMA AwaitedStays ==
    ASSUME Awaited, UNCHANGED injectorVars,
           sidecar' \in {"idling", "modules"} => sidecar \in {"idling", "modules"}
    PROVE  Awaited'
BY DEF Awaited, RemoteMemoryLives, injectorVars

\* A step of the injector frees nothing that a thread still reads
\* (injector.cpp:464-662).
LEMMA InjectorKeepsAwaited ==
    ASSUME LInv, InjectorNext
    PROVE  Awaited'
<1> USE DEF Awaited, RemoteMemoryLives, Return, Free, NoRemote, Memory, Thread
<1>1. LInv /\ sidecar' = sidecar /\ InjectorTypeOK
  BY DEF InjectorNext, LInv, Shape
<1>2. /\ remote \in [path: Memory, load: Thread, loaded: BOOLEAN,
                     block: Memory, boot: Thread, booted: BOOLEAN]
      /\ Awaited
  BY <1>1 DEF InjectorTypeOK, LInv
<1>3. sidecar \notin {"idling", "modules"}
  BY <1>1, <1>2 DEF InjectorNext, InjectorStep, Check, LoadEnds, Bootstrap, BootEnds
<1>4. CASE Check(options, GameUp)
  <2>1. remote = NoRemote
    BY <1>2, <1>4 DEF Check
  <2>2. remote.path = "none" /\ remote.block = "none" /\ remote.boot = "none"
    BY <2>1
  <2>3. \/ remote' = remote /\ injector' \in {"refused", "failed"}
        \/ injector' = "loading"
             /\ remote' = [remote EXCEPT !.path = "live", !.load = "running"]
    <3>1. ASSUME NEW result, Return(result, {})
          PROVE  remote' = remote /\ injector' = result
      BY <1>2, <2>2, <3>1
    <3> HIDE DEF NoRemote, Free, Return, Awaited
    <3> QED
      BY <1>4, <3>1 DEF Check
  <2> HIDE DEF NoRemote
  <2>4. CASE remote' = remote /\ injector' \in {"refused", "failed"}
    BY <1>1, <1>2, <1>3, <2>2, <2>4
  <2>5. CASE injector' = "loading"
               /\ remote' = [remote EXCEPT !.path = "live", !.load = "running"]
    BY <1>1, <1>2, <1>3, <2>2, <2>5
  <2> QED
    BY <2>3, <2>4, <2>5
<1>5. CASE LoadEnds
  BY <1>1, <1>2, <1>3, <1>5 DEF LoadEnds
<1>6. CASE Bootstrap(GameUp)
  BY <1>1, <1>2, <1>3, <1>6 DEF Bootstrap
<1>7. CASE BootEnds
  BY <1>1, <1>2, <1>3, <1>7 DEF BootEnds
<1> QED
  BY <1>4, <1>5, <1>6, <1>7 DEF InjectorNext, InjectorStep

\* Nor does a step of the game's threads, or the game's end.
LEMMA GameKeepsAwaited ==
    ASSUME LInv, RemoteNext \/ GameEnds
    PROVE  Awaited'
<1>1. /\ remote \in [path: Memory, load: Thread, loaded: BOOLEAN,
                     block: Memory, boot: Thread, booted: BOOLEAN]
      /\ Awaited
  BY DEF LInv, Shape, InjectorTypeOK
<1>2. sidecar' = sidecar /\ injector' = injector
  BY DEF RemoteNext, GameEnds, RemoteStep, RemoteLoads, RemoteCopies, RemoteBoots
<1>3. CASE GameEnds
  BY <1>1, <1>2, <1>3 DEF GameEnds, Awaited, RemoteMemoryLives, NoRemote
<1>4. CASE RemoteLoads
  <2>1. PICK ok \in BOOLEAN : remote' = [remote EXCEPT !.load = "done", !.loaded = ok]
    BY <1>4 DEF RemoteLoads
  <2> QED
    BY <1>1, <1>2, <1>4, <2>1 DEF RemoteLoads, Awaited, RemoteMemoryLives, NoRemote
<1>5. CASE RemoteCopies
  BY <1>1, <1>2, <1>5 DEF RemoteCopies, Awaited, RemoteMemoryLives, NoRemote
<1>6. CASE RemoteBoots
  <2>1. PICK ok \in BOOLEAN : remote' = [remote EXCEPT !.boot = "done", !.booted = ok]
    BY <1>6 DEF RemoteBoots
  <2> QED
    BY <1>1, <1>2, <1>6, <2>1 DEF RemoteBoots, Awaited, RemoteMemoryLives, NoRemote
<1> QED
  BY <1>3, <1>4, <1>5, <1>6 DEF RemoteNext, RemoteStep

\* The sidecar starts each injector in a game with no thread of an earlier one,
\* and killing it runs no destructor (run.cpp:405-473, 690-717).
LEMMA SidecarKeepsAwaited ==
    ASSUME LInv, SidecarNext \/ SidecarKilled
    PROVE  Awaited'
<1>1. Awaited
  BY DEF LInv
<1>2. CASE StartGame \/ ModulesLoaded
  BY <1>1, <1>2 DEF StartGame, ModulesLoaded, Awaited, RemoteMemoryLives, NoRemote,
                    Over, Go, injectorVars
<1>3. CASE Injected
  BY <1>1, <1>3 DEF Injected, InjectorKilled, Injecting, Awaited, RemoteMemoryLives,
                    Over, Go, injectorVars
<1>4. CASE \/ CheckRuntime \/ Arm \/ Greet \/ LoopEnds \/ Closed \/ Unwatched
           \/ GameIdle \/ SidecarKilled
  BY <1>1, <1>4, AwaitedStays
  DEF CheckRuntime, Arm, Greet, LoopEnds, Closed, Unwatched, GameIdle, SidecarKilled,
      Over, Go
<1> QED
  BY <1>2, <1>3, <1>4 DEF SidecarNext

LEMMA AwaitedKeeps == LInv /\ [Next]_vars => Awaited'
<1> SUFFICES ASSUME LInv, [Next]_vars
             PROVE  Awaited'
  OBVIOUS
<1>1. Awaited
  BY DEF LInv
<1>2. CASE \/ \E s \in Source : Play(s) \/ ConsoleStage(s)
           \/ Disconnect \/ Done \/ CloseWindow \/ LauncherEnds \/ Reopen
           \/ \E o \in AcceptedOptions : ConsoleRun(o)
           \/ GameSaves \/ ConsoleStageStep \/ SeedCount \/ SeedCommit \/ Update
  BY <1>1, <1>2, AwaitedStays
  DEF Play, ConsoleStage, consoleRest, Disconnect, Done, CloseWindow, LauncherEnds,
      Reopen, ConsoleRun, GameSaves, ConsoleStageStep, SeedCount, SeedCommit, Update,
      injectorVars
<1>3. CASE WorkerNext
  BY <1>1, <1>3, AwaitedStays
  DEF WorkerNext, Asked, ValidateRuntime, Staged, FindTemplate, Guard, Keep, Edit,
      Replace, DropLegacy, LastPlayer, Recheck, Spawn, Monitored
<1>4. CASE UNCHANGED vars
  BY <1>1, <1>4, AwaitedStays DEF vars
<1> QED
  BY <1>2, <1>3, <1>4, InjectorKeepsAwaited, GameKeepsAwaited, SidecarKeepsAwaited
  DEF Next

-----------------------------------------------------------------------------
(* Who is at work at once, and with which switches.                        *)

\* The launcher's worker: a sidecar appears only when every earlier one and its
\* injector are over (launcher/main.cpp:326-380).
LEMMA WorkerKeepsAlone ==
    ASSUME LInv, WorkerNext
    PROVE  Alone' /\ Agreed'
<1>1. Alone /\ Agreed /\ worker \in [at: WorkerStep, from: Source \cup {None}]
  BY DEF LInv, Shape
<1>2. UNCHANGED <<window, active, injector>>
  BY DEF WorkerNext, Asked, ValidateRuntime, Staged, FindTemplate, Guard, Keep, Edit,
         Replace, DropLegacy, LastPlayer, Recheck, Spawn, Monitored, workerRest,
         injectorVars
<1>3. Injecting' = Injecting
  BY <1>2 DEF Injecting
<1>4. ASSUME Preparing, worker'.at # "none", UNCHANGED <<sidecar, options>>
      PROVE  Alone' /\ Agreed'
  BY <1>1, <1>2, <1>3, <1>4 DEF Alone, Agreed, Preparing, Before, NeverRefused
<1>5. CASE \/ Asked \/ ValidateRuntime \/ Staged \/ FindTemplate \/ Guard \/ Keep
           \/ Edit \/ Replace \/ DropLegacy \/ LastPlayer \/ Recheck
  <2>1. Preparing /\ UNCHANGED <<sidecar, options>>
    BY <1>5 DEF Asked, ValidateRuntime, Staged, FindTemplate, Guard, Keep, Edit,
                Replace, DropLegacy, LastPlayer, Recheck, At, workerRest, Preparing
  <2>2. worker'.at # "none"
    BY <1>1, <1>5
    DEF Asked, ValidateRuntime, Staged, FindTemplate, Guard, Keep, Edit,
        Replace, DropLegacy, LastPlayer, Recheck, Move
  <2> QED
    BY <1>4, <2>1, <2>2
<1>6. CASE Spawn
  <2>1. Preparing /\ ~Injecting /\ window # "gone"
    BY <1>1, <1>6 DEF Spawn, At, Preparing, Alone
  <2>2. CASE /\ Move("monitoring") /\ sidecar' = "starting"
             /\ options' = RunOptions(LauncherCommand(62, 0))
    <3>1. options' \in RunOption /\ Bootable(options')
      BY <2>2, LauncherIsAccepted
    <3>2. worker'.at = "monitoring"
      BY <1>1, <2>2 DEF Move
    <3> QED
      BY <1>1, <1>2, <1>3, <2>1, <2>2, <3>1, <3>2
      DEF Alone, Agreed, Preparing, Before, NeverRefused
  <2>3. CASE Move("done") /\ UNCHANGED <<sidecar, options>>
    BY <1>1, <1>4, <2>1, <2>3 DEF Move
  <2> QED
    BY <1>6, <2>2, <2>3 DEF Spawn
<1>7. CASE Monitored
  <2>1. /\ worker.at = "monitoring" /\ worker'.at = "done"
        /\ sidecar' = "none" /\ options' = options
    BY <1>1, <1>7 DEF Monitored, At, Move, workerRest
  <2> QED
    BY <1>1, <1>2, <1>3, <2>1 DEF Alone, Agreed, Preparing, Before, NeverRefused
<1>8. CASE UNCHANGED <<injectorVars, sidecar, worker, workerRest>>
  BY <1>1, <1>2, <1>3, <1>8
  DEF Alone, Agreed, Preparing, Before, NeverRefused, workerRest
<1> QED
  BY <1>5, <1>6, <1>7, <1>8 DEF WorkerNext

\* The sidecar keeps its switches until the injector has read them
\* (run.cpp:651-728, 405-473).
LEMMA SidecarKeepsAlone ==
    ASSUME LInv, SidecarNext \/ SidecarKilled
    PROVE  Alone' /\ Agreed'
<1>1. Alone /\ Agreed /\ Awaited
  BY DEF LInv
<1>2. UNCHANGED <<window, active, worker>>
  BY DEF SidecarNext, SidecarKilled, CheckRuntime, Arm, StartGame, GameIdle,
         ModulesLoaded, Injected, Greet, LoopEnds, Closed, Unwatched, sidecarRest,
         sharedVars
<1>3. ASSUME sidecar # "none", sidecar' \in Before => sidecar \in Before,
             sidecar' \in Before => options' = options,
             \/ injector' = injector
             \/ injector' \in {"none", "killed"}
             \/ injector' = "checking" /\ options' = options /\ sidecar \in Before
                  /\ sidecar' \notin Before,
             injector' = "checking" => options' = options
      PROVE  Alone' /\ Agreed'
  <2>1. worker.at = "monitoring" \/ window = "gone"
    BY <1>1, <1>3 DEF Alone
  <2>2. Injecting' => Injecting \/ sidecar' \notin Before
    BY <1>3 DEF Injecting
  <2>3. Alone'
    BY <1>1, <1>2, <1>3, <2>1, <2>2 DEF Alone, Preparing
  <2>4. sidecar' \in Before \/ injector' = "checking"
           => (sidecar \in Before \/ injector = "checking") /\ options' = options
    BY <1>3
  <2>5. Agreed'
    BY <1>1, <1>3, <2>4 DEF Agreed, NeverRefused
  <2> QED
    BY <2>3, <2>5
<1>4. ASSUME sidecar # "none", injector' = injector, Over
      PROVE  Alone' /\ Agreed'
  BY <1>3, <1>4 DEF Over, Before
<1>5. ASSUME NEW step \in {"checked", "idling", "modules", "greeting", "playing",
                           "closing"},
             sidecar # "none", injector' = injector, Go(step),
             step \in Before => sidecar \in Before
      PROVE  Alone' /\ Agreed'
  BY <1>3, <1>5 DEF Go, Before
<1>6. CASE CheckRuntime \/ GameIdle \/ Greet \/ LoopEnds \/ Closed
  BY <1>4, <1>5, <1>6
  DEF CheckRuntime, GameIdle, Greet, LoopEnds, Closed, Before, injectorVars
<1>7. CASE Arm
  BY <1>3, <1>4, <1>7 DEF Arm, Before, injectorVars
<1>8. CASE StartGame
  BY <1>3, <1>4, <1>8 DEF StartGame, Go, Before, injectorVars
<1>9. CASE ModulesLoaded
  BY <1>3, <1>4, <1>9 DEF ModulesLoaded, Go, Before
<1>10. CASE Injected
  <2>1. CASE InjectorKilled /\ Over
    BY <1>3, <1>10, <2>1 DEF Injected, InjectorKilled, Over, Before
  <2> QED
    BY <1>4, <1>5, <1>10, <2>1 DEF Injected, injectorVars, Before
<1>11. CASE Unwatched
  BY <1>1, <1>11
  DEF Unwatched, Alone, Agreed, Preparing, Before, Injecting, NeverRefused,
      sharedVars, injectorVars
<1>12. CASE SidecarKilled
  BY <1>4, <1>12 DEF SidecarKilled, injectorVars
<1> QED
  BY <1>6, <1>7, <1>8, <1>9, <1>10, <1>11, <1>12 DEF SidecarNext

\* The injector works only when nothing before it does, and finds its switches
\* as the command line accepted them (injector.cpp:421-463).
LEMMA InjectorKeepsAlone ==
    ASSUME LInv, InjectorNext
    PROVE  Alone' /\ Agreed'
<1>1. Alone /\ Agreed /\ UNCHANGED <<window, active, worker, sidecar>>
  BY DEF LInv, InjectorNext
<1>2. Injecting
  BY DEF InjectorNext, InjectorStep, Check, LoadEnds, Bootstrap, BootEnds, Injecting
<1>3. injector' \notin {"refused", "checking"}
  BY <1>1 DEF InjectorNext, InjectorStep, Check, LoadEnds, Bootstrap, BootEnds, Return,
              Agreed
<1> QED
  BY <1>1, <1>2, <1>3 DEF Alone, Agreed, Preparing, NeverRefused

LEMMA AloneKeeps == LInv /\ [Next]_vars => Alone' /\ Agreed'
<1> SUFFICES ASSUME LInv, [Next]_vars
             PROVE  Alone' /\ Agreed'
  OBVIOUS
<1>1. Alone /\ Agreed /\ Shape
  BY DEF LInv
<1>2. ASSUME UNCHANGED <<window, active, worker, sidecar, injector, options>>
      PROVE  Alone' /\ Agreed'
  BY <1>1, <1>2 DEF Alone, Agreed, Preparing, Before, Injecting, NeverRefused
<1>3. CASE \/ \E s \in Source : ConsoleStage(s)
           \/ Disconnect \/ RemoteNext \/ GameSaves \/ GameEnds \/ ConsoleStageStep
           \/ SeedCount \/ SeedCommit \/ Update \/ UNCHANGED vars
  <2>1. CASE RemoteNext
    BY <1>2, <2>1 DEF RemoteNext, RemoteStep, RemoteLoads, RemoteCopies, RemoteBoots,
                      sharedVars
  <2>2. CASE UNCHANGED vars
    BY <1>2, <2>2 DEF vars, injectorVars
  <2>3. CASE \/ \E s \in Source : ConsoleStage(s)
             \/ Disconnect \/ GameSaves \/ GameEnds \/ ConsoleStageStep
             \/ SeedCount \/ SeedCommit \/ Update
    BY <1>2, <2>3
    DEF ConsoleStage, Disconnect, GameSaves, GameEnds, ConsoleStageStep,
        SeedCount, SeedCommit, Update, consoleRest, injectorVars, sharedVars
  <2> QED
    BY <1>3, <2>1, <2>2, <2>3
<1>4. CASE \E s \in Source : Play(s)
  <2>1. /\ window = "open" /\ ~active /\ ~Injecting /\ worker'.at = "asked"
        /\ active' = TRUE /\ UNCHANGED <<injector, window, sidecar, options>>
    BY <1>4 DEF Play, Quiet, injectorVars
  <2>2. worker.at # "monitoring" => sidecar = "none"
    BY <1>1, <2>1 DEF Alone
  <2>3. worker.at = "none"
    BY <1>1, <2>1 DEF Alone
  <2> QED
    BY <1>1, <2>1, <2>2, <2>3 DEF Alone, Agreed, Preparing, Before, Injecting, NeverRefused
<1>5. CASE Done \/ LauncherEnds \/ CloseWindow \/ Reopen
  BY <1>1, <1>5
  DEF Done, LauncherEnds, CloseWindow, Reopen, Alone, Agreed, Preparing, Before,
      Injecting, NeverRefused, injectorVars, sharedVars
<1>6. CASE \E o \in AcceptedOptions : ConsoleRun(o)
  <2>1. /\ window = "gone" /\ ~Injecting /\ sidecar' = "starting"
        /\ options' \in RunOption /\ Bootable(options')
        /\ UNCHANGED <<injector, window, active, worker>>
    BY <1>6, AcceptedIsBootable DEF ConsoleRun, Quiet, injectorVars
  <2> QED
    BY <1>1, <2>1 DEF Alone, Agreed, Preparing, Before, Injecting, NeverRefused
<1> QED
  BY <1>3, <1>4, <1>5, <1>6, WorkerKeepsAlone, SidecarKeepsAlone, InjectorKeepsAlone
  DEF Next

-----------------------------------------------------------------------------
(* The runtime tree.                                                       *)

\* One step of one staging process, as Launch composes them.
Transacted ==
    \E p \in Stager :
       \/ \E s \in Source : StartStage(p, s)
       \/ StageStep(p, InUse) \/ Finish(p) \/ Kill(p)

\* The game or the launcher writes a save: the rest of the tree stays.
Rewritten ==
    /\ target # None
    /\ \E saves \in [SaveName -> Content] : target' = [target EXCEPT !.save = saves]
    /\ UNCHANGED <<exact, stager, leftover>>

\* Writing one save into a tree (profile_editor.cpp:824-896).
LEMMA SavedRewrites ==
    ASSUME target \in Tree, NEW n \in SaveName, NEW c \in Content, Saved(n, c),
           UNCHANGED <<exact, stager, leftover>>
    PROVE  Rewritten /\ target' \in Tree /\ target'.save = [target.save EXCEPT ![n] = c]
<1>1. target # None
  BY NoneAssumption
<1> DEFINE saves == [target.save EXCEPT ![n] = c]
<1>2. target.save \in [SaveName -> Content]
  BY DEF Tree
<1>3. saves \in [SaveName -> Content]
  BY <1>2
<1>4. target' = [target EXCEPT !.save = saves]
  BY DEF Saved
<1> HIDE DEF saves
<1>5. target' \in Tree /\ target'.save = saves
  BY <1>3, <1>4 DEF Tree
<1> QED
  BY <1>1, <1>3, <1>4, <1>5 DEF Rewritten, saves

\* The worker's preparation of the profile (profile_editor.cpp:786-896).
LEMMA WorkerOnTree ==
    ASSUME LInv, Guard \/ Keep \/ Edit \/ Replace \/ DropLegacy
    PROVE  /\ UNCHANGED stagingVars \/ Rewritten
           /\ target # None => target' # None /\ (GoodSave(target) => GoodSave(target'))
<1>1. target \in Place
  BY DEF LInv, IInv, Types
<1>2. {"driver", "backup", "legacy", "temporary"} \subseteq SaveName
  BY LaunchAssumption
<1>3. UNCHANGED <<exact, stager, leftover>>
  BY DEF Guard, Keep, Edit, Replace, DropLegacy
<1>4. ASSUME target' = target
      PROVE  /\ UNCHANGED stagingVars
             /\ target # None => target' # None /\ (GoodSave(target) => GoodSave(target'))
  BY <1>3, <1>4 DEF stagingVars
<1>5. ASSUME target # None
      PROVE  target \in Tree /\ target.save \in [SaveName -> Content]
  BY <1>1, <1>5 DEF Place, Tree
<1>6. ASSUME NEW n \in SaveName, NEW c \in Content, target # None, Saved(n, c),
             GoodSave(target) =>
               \/ n \notin {"driver", "backup"} \/ c = "good"
               \/ n = "backup" /\ target.save["driver"] = "good"
      PROVE  Rewritten /\ target' # None /\ (GoodSave(target) => GoodSave(target'))
  <2>1. /\ Rewritten /\ target' \in Tree
        /\ target'.save = [target.save EXCEPT ![n] = c]
    BY <1>3, <1>5, <1>6, SavedRewrites
  <2>2. GoodSave(target) => GoodSave(target')
    BY <1>2, <1>5, <1>6, <2>1 DEF GoodSave
  <2> QED
    BY <2>1, <2>2, NoneAssumption
<1>7. CASE Guard
  BY <1>2, <1>4, <1>6, <1>7 DEF Guard, Content
<1>8. CASE Keep
  <2>1. target # None
    BY <1>8 DEF Keep, At, LInv, Pinned, InUse
  <2> QED
    BY <1>2, <1>4, <1>6, <1>8, <2>1 DEF Keep, Content
<1>9. CASE Edit
  BY <1>2, <1>4, <1>6, <1>9 DEF Edit, Content
<1>10. CASE Replace
  <2>1. CASE target # None /\ target' = [target EXCEPT !.save["driver"] = "good",
                                                       !.save["temporary"] = "none"]
    <3> DEFINE saves == [[target.save EXCEPT !["driver"] = "good"]
                            EXCEPT !["temporary"] = "none"]
    <3>1. saves \in [SaveName -> Content] /\ saves["driver"] = "good"
      BY <1>2, <1>5, <2>1 DEF Content
    <3>2. target' = [target EXCEPT !.save = saves]
      BY <1>5, <2>1 DEF Tree
    <3> HIDE DEF saves
    <3>3. target' \in Tree /\ target'.save = saves
      BY <1>5, <2>1, <3>1, <3>2 DEF Tree
    <3> QED
      BY <1>3, <2>1, <3>1, <3>2, <3>3, NoneAssumption DEF Rewritten, GoodSave
  <2> QED
    BY <1>2, <1>4, <1>6, <1>10, <2>1 DEF Replace, Content
<1>11. CASE DropLegacy
  BY <1>2, <1>4, <1>6, <1>11 DEF DropLegacy, Content
<1> QED
  BY <1>7, <1>8, <1>9, <1>10, <1>11

\* A tree with an open file is neither displaced nor replaced by a stage.
LEMMA PinnedStays ==
    ASSUME NEW p \in Stager, target # None,
           \/ \E s \in Source : StartStage(p, s)
           \/ StageStep(p, InUse) \/ Finish(p) \/ Kill(p)
    PROVE  InUse => target' = target
BY DEF StageStep, StartStage, Copy, Prove, Seal, Look, Displace, Commit, RemoveBackup,
       Throw, Discard, Restore, Finish, Kill

\* A stage moves a tree only with a step of its own transaction.
LEMMA StageMoves ==
    ASSUME Types, NEW p \in Stager, stager' = stager,
           \/ \E s \in Source : StartStage(p, s)
           \/ StageStep(p, InUse) \/ Finish(p) \/ Kill(p)
    PROVE  target' = target
<1>1. stager \in [Stager -> State]
  BY DEF Types
<1>2. ~Displace(p, InUse) \/ target' = target
  BY <1>1 DEF Displace, Put
<1>3. ~Commit(p) \/ target' = target
  BY <1>1 DEF Commit, Put
<1>4. ~Restore(p) \/ target' = target
  BY <1>1 DEF Restore, Put
<1> QED
  BY <1>2, <1>3, <1>4
  DEF StageStep, StartStage, Copy, Prove, Seal, Look, RemoveBackup, Throw, Discard,
      Finish, Kill

\* What a step of the whole may do to the tree.
OnTree ==
    \/ UNCHANGED stagingVars \/ Transacted \/ Rewritten
    \/ \E s \in Source : SourceUpdated(s)

\* The saves of the game and of the seed (staging.cpp:793-844).
LEMMA SavesOnTree ==
    ASSUME LInv, GameSaves \/ SeedCommit
    PROVE  /\ UNCHANGED stagingVars \/ Rewritten
           /\ target # None => target' # None
           /\ game = "none" => target' = target \/ seeder' # seeder
<1>1. target \in Place
  BY DEF LInv, IInv, Types
<1>2. {"driver", "legacy", "other"} \subseteq SaveName
  BY LaunchAssumption
<1>3. UNCHANGED <<exact, stager, leftover>>
  BY DEF GameSaves, SeedCommit
<1>4. ASSUME NEW n \in SaveName, NEW c \in Content, target # None, Saved(n, c)
      PROVE  Rewritten /\ target' # None
  BY <1>1, <1>3, <1>4, SavedRewrites, NoneAssumption DEF Place
<1>5. CASE GameSaves
  <2>1. target # None /\ game # "none"
    BY <1>5 DEF GameSaves, GameUp, LInv, Pinned, InUse
  <2> QED
    BY <1>2, <1>4, <1>5, <2>1 DEF GameSaves, Content
<1>6. CASE SeedCommit
  <2>1. seeder' # seeder
    BY <1>6 DEF SeedCommit
  <2>2. CASE target' = target
    BY <1>3, <2>1, <2>2 DEF stagingVars
  <2> QED
    BY <1>2, <1>4, <1>6, <2>1, <2>2 DEF SeedCommit, Content
<1> QED
  BY <1>5, <1>6

\* The stages, the worker's and the console's (staging.cpp:846-1048).
LEMMA StagesOnTree ==
    ASSUME LInv, LaunchAssumption,
           \/ \E s \in Source : ConsoleStage(s)
           \/ LauncherEnds \/ ValidateRuntime \/ Staged \/ ConsoleStageStep
           \/ StageStep("launcher", InUse)
    PROVE  UNCHANGED stagingVars \/ Transacted
<1>1. "launcher" \in Stager /\ "console" \in Stager
  BY LaunchAssumption
<1>2. CASE LauncherEnds
  <2>1. CASE stager["launcher"].at = "idle"
    BY <1>2, <2>1 DEF LauncherEnds
  <2>2. CASE stager["launcher"].at # "idle"
    BY <1>1, <1>2, <2>2 DEF LauncherEnds, Transacted, Finish, Kill
  <2> QED
    BY <2>1, <2>2
<1>3. CASE ValidateRuntime
  <2>1. worker.from \in Source
    BY <1>3 DEF ValidateRuntime, At, LInv, Shape
  <2> QED
    BY <1>1, <1>3, <2>1 DEF ValidateRuntime, Transacted
<1>4. CASE Staged
  BY <1>1, <1>4 DEF Staged, Transacted
<1>5. CASE ConsoleStageStep \/ StageStep("launcher", InUse)
  BY <1>1, <1>5 DEF ConsoleStageStep, Transacted
<1>6. CASE \E s \in Source : ConsoleStage(s)
  BY <1>1, <1>6 DEF ConsoleStage, Transacted
<1> QED
  BY <1>2, <1>3, <1>4, <1>5, <1>6

\* The steps that leave the tree alone.
LEMMA OthersOffTree ==
    ASSUME \/ \E s \in Source : Play(s)
           \/ Disconnect \/ Done \/ CloseWindow \/ Reopen
           \/ Asked \/ FindTemplate \/ LastPlayer \/ Recheck \/ Spawn \/ Monitored
           \/ SidecarNext \/ SidecarKilled \/ InjectorNext
           \/ \E o \in AcceptedOptions : ConsoleRun(o)
           \/ RemoteNext \/ GameEnds \/ SeedCount \/ UNCHANGED vars
    PROVE  UNCHANGED stagingVars
<1>1. CASE \/ \E s \in Source : Play(s)
           \/ Disconnect \/ Done \/ CloseWindow \/ Reopen
           \/ Asked \/ FindTemplate \/ LastPlayer \/ Recheck \/ Spawn \/ Monitored
  BY <1>1 DEF Play, Disconnect, Done, CloseWindow, Reopen, Asked, FindTemplate,
              LastPlayer, Recheck, Spawn, Monitored
<1>2. CASE SidecarNext \/ SidecarKilled
  BY <1>2 DEF SidecarNext, SidecarKilled, CheckRuntime, Arm, StartGame, GameIdle,
              ModulesLoaded, Injected, Greet, LoopEnds, Closed, Unwatched
<1>3. CASE \/ InjectorNext \/ RemoteNext \/ GameEnds \/ SeedCount \/ UNCHANGED vars
           \/ \E o \in AcceptedOptions : ConsoleRun(o)
  BY <1>3 DEF InjectorNext, RemoteNext, GameEnds, SeedCount, ConsoleRun, vars
<1> QED
  BY <1>1, <1>2, <1>3

LEMMA EveryStepOnTree == LInv /\ [Next]_vars => OnTree
<1> SUFFICES ASSUME LInv, [Next]_vars
             PROVE  OnTree
  OBVIOUS
<1> USE DEF OnTree
<1>1. CASE Guard \/ Keep \/ Edit \/ Replace \/ DropLegacy
  BY <1>1, WorkerOnTree
<1>2. CASE GameSaves \/ SeedCommit
  BY <1>2, SavesOnTree
<1>3. CASE \/ \E s \in Source : ConsoleStage(s)
           \/ LauncherEnds \/ ValidateRuntime \/ Staged \/ ConsoleStageStep
           \/ StageStep("launcher", InUse)
  BY <1>3, StagesOnTree, LaunchAssumption
<1>4. CASE Update
  BY <1>4 DEF Update
<1> QED
  BY <1>1, <1>2, <1>3, <1>4, OthersOffTree DEF Next, WorkerNext

\* The staging invariant holds although others write into the tree, and a kept
\* runtime stays kept.
LEMMA TreeKeeps == LInv /\ OnTree => IInv' /\ (Kept => Kept')
<1> SUFFICES ASSUME LInv, OnTree
             PROVE  IInv' /\ (Kept => Kept')
  OBVIOUS
<1>1. IInv
  BY DEF LInv
<1>2. CASE Transacted
  <2> PICK p \in Stager : \/ \E s \in Source : StartStage(p, s)
                          \/ StageStep(p, InUse) \/ Finish(p) \/ Kill(p)
    BY <1>2 DEF Transacted
  <2>1. InUse \in BOOLEAN
    BY DEF InUse, GameUp
  <2> HIDE DEF InUse
  <2>2. Types' /\ Held' /\ TargetWhole' /\ (Kept => Kept') /\ RemovingIsSafe'
    BY <1>1, <2>1, StepKeeps
  <2> QED
    BY <2>2 DEF IInv
<1>3. CASE Rewritten
  <2>1. PICK saves \in [SaveName -> Content] : target' = [target EXCEPT !.save = saves]
    BY <1>3 DEF Rewritten
  <2>2. target \in Tree /\ UNCHANGED <<exact, stager, leftover>>
    BY <1>1, <1>3 DEF Rewritten, IInv, Types, Place
  <2>3. /\ target' \in Tree /\ target'.files = target.files
        /\ target'.genuine = target.genuine /\ target'.sealed = target.sealed
    BY <2>1, <2>2 DEF Tree
  <2>4. Whole(target) /\ Whole(target')
    BY <1>1, <2>2, <2>3, NoneAssumption DEF IInv, TargetWhole, Whole, Genuine, Sealed
  <2>5. Types' /\ Held'
    BY <1>1, <2>2, <2>3 DEF IInv, Types, Held, Place, Whole, Genuine, Sealed
  <2> QED
    BY <2>4, <2>5 DEF IInv, TargetWhole, RemovingIsSafe, Kept, Whole, Genuine, Sealed
<1>4. CASE UNCHANGED stagingVars \/ \E s \in Source : SourceUpdated(s)
  BY <1>1, <1>4, NextKeeps DEF StagingNext
<1> QED
  BY <1>2, <1>3, <1>4 DEF OnTree

\* A game only starts in a tree, the backup is only made of one, and neither the
\* worker's stage nor the console's takes it away before they are done
\* (run.cpp:690-717, profile_editor.cpp:824, staging.cpp:1024-1027).
LEMMA PinnedKeeps == LInv /\ [Next]_vars => Pinned'
<1> SUFFICES ASSUME LInv, [Next]_vars, InUse'
             PROVE  target' # None
  BY DEF Pinned
<1>1. /\ Pinned /\ worker \in [at: WorkerStep, from: Source \cup {None}]
      /\ Types
  BY DEF LInv, Shape, IInv
<1>2. ASSUME target # None, UNCHANGED stagingVars \/ Transacted, InUse
      PROVE  target' # None
  <2>1. CASE UNCHANGED stagingVars
    BY <1>2, <2>1 DEF stagingVars
  <2>2. CASE Transacted
    BY <1>2, <2>2, PinnedStays DEF Transacted
  <2> QED
    BY <1>2, <2>1, <2>2
<1>3. CASE \/ \E s \in Source : ConsoleStage(s)
           \/ LauncherEnds \/ ValidateRuntime \/ Staged \/ ConsoleStageStep
  <2>1. InUse
    BY <1>1, <1>3
    DEF ConsoleStage, consoleRest, sharedVars, LauncherEnds, ValidateRuntime, Staged,
        Move, ConsoleStageStep, workerRest, InUse, GameUp
  <2> QED
    BY <1>1, <1>2, <1>3, <2>1, StagesOnTree, LaunchAssumption DEF Pinned
<1>4. CASE /\ StageStep("launcher", InUse)
           /\ UNCHANGED <<injectorVars, sidecar, worker, workerRest>>
  <2>1. InUse
    BY <1>4 DEF InUse, GameUp, workerRest
  <2> QED
    BY <1>1, <1>2, <1>4, <2>1, StagesOnTree, LaunchAssumption DEF Pinned
<1>5. CASE Guard \/ Keep \/ Edit \/ Replace \/ DropLegacy
  <2>1. target # None
    BY <1>1, <1>5 DEF Guard, Keep, Edit, Replace, DropLegacy, At, Move, workerRest,
                      InUse, GameUp, Pinned
  <2> QED
    BY <1>5, <2>1, WorkerOnTree
<1>6. CASE GameSaves \/ SeedCommit
  <2>1. InUse
    BY <1>6 DEF GameSaves, SeedCommit, consoleRest, sharedVars, InUse, GameUp
  <2> QED
    BY <1>1, <1>6, <2>1, SavesOnTree DEF Pinned
<1>7. CASE Update
  <2>1. UNCHANGED <<target, worker, game>>
    BY <1>7 DEF Update, SourceUpdated, consoleRest, sharedVars
  <2> QED
    BY <1>1, <2>1 DEF Pinned, InUse, GameUp
<1>8. ASSUME UNCHANGED stagingVars, InUse \/ target # None
      PROVE  target' # None
  BY <1>1, <1>8 DEF stagingVars, Pinned
<1>9. CASE \/ \E s \in Source : Play(s)
           \/ Disconnect \/ Done \/ CloseWindow \/ Reopen
           \/ Asked \/ FindTemplate \/ LastPlayer \/ Recheck \/ Spawn \/ Monitored
  <2>1. InUse
    BY <1>1, <1>9
    DEF Play, Disconnect, Done, CloseWindow, Reopen, Asked, FindTemplate, LastPlayer,
        Recheck, Spawn, Monitored, Move, workerRest, sharedVars, InUse, GameUp
  <2> QED
    BY <1>8, <1>9, <2>1, OthersOffTree
<1>10. CASE SidecarNext \/ SidecarKilled
  <2>1. worker' = worker /\ (game' = game \/ target # None)
    BY <1>10
    DEF SidecarNext, SidecarKilled, CheckRuntime, Arm, StartGame, GameIdle,
        ModulesLoaded, Injected, Greet, LoopEnds, Closed, Unwatched, sidecarRest,
        sharedVars
  <2>2. InUse \/ target # None
    BY <2>1 DEF InUse, GameUp
  <2> QED
    BY <1>8, <1>10, <2>2, OthersOffTree
<1>11. CASE \/ InjectorNext \/ RemoteNext \/ GameEnds \/ SeedCount \/ UNCHANGED vars
            \/ \E o \in AcceptedOptions : ConsoleRun(o)
  <2>1. InUse
    BY <1>11
    DEF InjectorNext, RemoteNext, GameEnds, SeedCount, ConsoleRun, consoleRest,
        sharedVars, vars, InUse, GameUp
  <2> QED
    BY <1>8, <1>11, <2>1, OthersOffTree
<1> QED
  BY <1>3, <1>4, <1>5, <1>6, <1>7, <1>9, <1>10, <1>11 DEF Next, WorkerNext

-----------------------------------------------------------------------------
(* Types.                                                                  *)

LEMMA WithoutTyped ==
    ASSUME NEW e \in [state: {"none", "clear", "set"}, holders: SUBSET Holder],
           (e.state = "none") <=> (e.holders = {}), NEW who
    PROVE  /\ Without(e, who) \in [state: {"none", "clear", "set"}, holders: SUBSET Holder]
           /\ (Without(e, who).state = "none") <=> (Without(e, who).holders = {})
BY DEF Without

\* The parts of Shape that a step of the launcher touches.
Launching ==
    /\ window \in {"open", "closing", "gone"}
    /\ active \in BOOLEAN
    /\ worker \in [at: WorkerStep, from: Source \cup {None}]
    /\ worker.at \in {"asked", "validating"} => worker.from \in Source

\* The shutdown event.
Signal ==
    /\ event \in [state: {"none", "clear", "set"}, holders: SUBSET Holder]
    /\ (event.state = "none") <=> (event.holders = {})

LEMMA SignalKeeps == LInv /\ [Next]_vars => Signal'
<1> SUFFICES ASSUME LInv, [Next]_vars
             PROVE  Signal'
  OBVIOUS
<1>1. Signal
  BY DEF LInv, Shape, Signal
<1>2. ASSUME event' = event
      PROVE  Signal'
  BY <1>1, <1>2 DEF Signal
<1>3. ASSUME NEW who, event' = Without(event, who)
      PROVE  Signal'
  BY <1>1, <1>3, WithoutTyped DEF Signal
<1>4. ASSUME NEW st \in {"clear", "set"}, NEW h \in SUBSET Holder, h # {},
             event' = [state |-> st, holders |-> h]
      PROVE  Signal'
  BY <1>4 DEF Signal
<1>5. CASE \E s \in Source : Play(s)
  BY <1>4, <1>5 DEF Play, Holder
<1>6. CASE Disconnect
  <2>1. event' = [state |-> "set", holders |-> event.holders]
    BY <1>1, <1>6 DEF Disconnect, Signal
  <2>2. event.holders \in SUBSET Holder /\ event.holders # {}
    BY <1>1, <1>6 DEF Disconnect, Signal
  <2> QED
    BY <1>4, <2>1, <2>2
<1>7. CASE CloseWindow
  <2>1. CASE "window" \in event.holders
    <3> DEFINE e == [event EXCEPT !.state = "set"]
    <3>1. /\ e \in [state: {"none", "clear", "set"}, holders: SUBSET Holder]
          /\ e.holders # {} /\ e.state = "set"
      BY <1>1, <2>1 DEF Signal
    <3>2. event' = Without(e, {"window"})
      BY <1>7, <2>1 DEF CloseWindow
    <3> HIDE DEF e
    <3> QED
      BY <3>1, <3>2, WithoutTyped DEF Signal
  <2> QED
    BY <1>2, <1>7, <2>1 DEF CloseWindow
<1>8. CASE Done \/ LauncherEnds
  BY <1>3, <1>8 DEF Done, LauncherEnds
<1>9. CASE Arm
  <2>1. ASSUME event' = [state   |-> IF event.state = "none" THEN "clear" ELSE event.state,
                         holders |-> event.holders \cup {"sidecar"}]
        PROVE  Signal'
    BY <1>1, <2>1 DEF Signal, Holder
  <2> QED
    BY <1>3, <1>9, <2>1 DEF Arm, Over
<1>10. CASE SidecarNext \/ SidecarKilled
  BY <1>2, <1>3, <1>9, <1>10
  DEF SidecarNext, SidecarKilled, CheckRuntime, StartGame, GameIdle,
      ModulesLoaded, Injected, Greet, LoopEnds, Closed, Unwatched, Over, Go, sharedVars
<1>11. CASE WorkerNext
  BY <1>2, <1>11
  DEF WorkerNext, Asked, ValidateRuntime, Staged, FindTemplate, Guard, Keep, Edit,
      Replace, DropLegacy, LastPlayer, Recheck, Spawn, Monitored, workerRest
<1>12. CASE \/ Reopen \/ InjectorNext \/ GameSaves \/ GameEnds
            \/ \E s \in Source : ConsoleStage(s)
            \/ ConsoleStageStep \/ SeedCount \/ SeedCommit \/ Update
            \/ \E o \in AcceptedOptions : ConsoleRun(o)
  BY <1>2, <1>12
  DEF Reopen, InjectorNext, GameSaves, GameEnds, ConsoleStage, ConsoleStageStep,
      SeedCount, SeedCommit, Update, ConsoleRun, consoleRest, sharedVars
<1>13. CASE RemoteNext \/ UNCHANGED vars
  BY <1>2, <1>13 DEF RemoteNext, sharedVars, vars
<1> QED
  BY <1>5, <1>6, <1>7, <1>8, <1>10, <1>11, <1>12, <1>13 DEF Next

LEMMA LaunchingKeeps == LInv /\ [Next]_vars => Launching'
<1> SUFFICES ASSUME LInv, [Next]_vars
             PROVE  Launching'
  OBVIOUS
<1>1. Launching
  BY DEF LInv, Shape, Launching
<1>2. ASSUME UNCHANGED <<window, active, worker>>
      PROVE  Launching'
  BY <1>1, <1>2 DEF Launching
<1>3. ASSUME NEW at \in WorkerStep \ {"asked"}, UNCHANGED <<window, active>>, Move(at),
             worker.at = "asked" \/ at # "validating"
      PROVE  Launching'
  BY <1>1, <1>3 DEF Launching, Move
<1>4. ASSUME NEW at \in WorkerStep \ {"asked", "validating"}, NEW from \in Source \cup {None},
             UNCHANGED <<window, active>>, worker' = [at |-> at, from |-> from]
      PROVE  Launching'
  BY <1>1, <1>4 DEF Launching
<1>5. CASE \E s \in Source : Play(s)
  BY <1>1, <1>5 DEF Play, Launching, WorkerStep
<1>6. CASE Done \/ LauncherEnds
  <2>1. /\ worker' = [at |-> "none", from |-> None] /\ active' = FALSE
        /\ window' \in {window, "gone"}
    BY <1>6 DEF Done, LauncherEnds
  <2>2. worker' \in [at: WorkerStep, from: Source \cup {None}] /\ worker'.at = "none"
    BY <2>1 DEF WorkerStep
  <2> QED
    BY <1>1, <2>1, <2>2 DEF Launching
<1>13. CASE CloseWindow \/ Reopen
  BY <1>1, <1>13 DEF CloseWindow, Reopen, Launching, sharedVars
<1>7. CASE Asked \/ ValidateRuntime \/ Staged
  BY <1>3, <1>4, <1>7 DEF Asked, ValidateRuntime, Staged, At, workerRest, WorkerStep
<1>8. CASE FindTemplate \/ Guard \/ Keep \/ Edit \/ Replace \/ DropLegacy \/ LastPlayer
           \/ Recheck \/ Spawn \/ Monitored
  <2>1. UNCHANGED <<window, active>>
    BY <1>8 DEF FindTemplate, Guard, Keep, Edit, Replace, DropLegacy, LastPlayer,
                Recheck, Spawn, Monitored, workerRest
  <2>2. \E at \in WorkerStep \ {"asked", "validating"} : Move(at)
    BY <1>8 DEF FindTemplate, Guard, Keep, Edit, Replace, DropLegacy, LastPlayer,
                Recheck, Spawn, Monitored, workerRest, WorkerStep
  <2> QED
    BY <1>3, <2>1, <2>2
<1>9. CASE UNCHANGED <<injectorVars, sidecar, worker, workerRest>>
  BY <1>2, <1>9 DEF workerRest
<1>10. CASE SidecarNext \/ SidecarKilled
  BY <1>2, <1>10
  DEF SidecarNext, SidecarKilled, CheckRuntime, Arm, StartGame, GameIdle,
      ModulesLoaded, Injected, Greet, LoopEnds, Closed, Unwatched, sidecarRest, sharedVars
<1>11. CASE \/ Disconnect \/ InjectorNext \/ GameSaves \/ GameEnds
            \/ \E s \in Source : ConsoleStage(s)
            \/ ConsoleStageStep \/ SeedCount \/ SeedCommit \/ Update
            \/ \E o \in AcceptedOptions : ConsoleRun(o)
  BY <1>2, <1>11
  DEF Disconnect, InjectorNext, GameSaves, GameEnds, ConsoleStage, ConsoleStageStep,
      SeedCount, SeedCommit, Update, ConsoleRun, consoleRest, sharedVars
<1>12. CASE RemoteNext \/ UNCHANGED vars
  BY <1>2, <1>12 DEF RemoteNext, sharedVars, vars
<1> QED
  BY <1>5, <1>6, <1>7, <1>8, <1>9, <1>10, <1>11, <1>12, <1>13
  DEF Next, WorkerNext

\* The steps of the injector and of the threads it started (injector.cpp:464-662).
LEMMA InjectorTyped ==
    ASSUME InjectorTypeOK,
           \/ InjectorStep(options, GameUp) \/ RemoteStep \/ InjectorKilled
           \/ injector' = injector /\ remote' = NoRemote
           \/ injector' = "none" /\ remote' = NoRemote
           \/ injector' = "checking" /\ remote' = remote
           \/ UNCHANGED injectorVars
    PROVE  InjectorTypeOK'
<1> DEFINE Remote == [path: Memory, load: Thread, loaded: BOOLEAN,
                      block: Memory, boot: Thread, booted: BOOLEAN]
<1>1. remote \in Remote
  BY DEF InjectorTypeOK
<1>2. ASSUME NEW keep
      PROVE  Free(remote, keep) \in Remote
  BY <1>1 DEF Free, Memory
<1>3. ASSUME NEW result \in {"ok", "refused", "failed"}, NEW keep, Return(result, keep)
      PROVE  InjectorTypeOK'
  BY <1>2, <1>3 DEF Return, InjectorTypeOK
<1>4. ASSUME injector' \in {"loading", "naming", "booting"}, remote' \in Remote
      PROVE  InjectorTypeOK'
  BY <1>4 DEF InjectorTypeOK
<1>5. CASE Check(options, GameUp)
  <2>1. [remote EXCEPT !.path = "live", !.load = "running"] \in Remote
    BY <1>1 DEF Memory, Thread
  <2> QED
    BY <1>3, <1>4, <1>5, <2>1 DEF Check
<1>6. CASE LoadEnds
  BY <1>1, <1>3, <1>4, <1>6 DEF LoadEnds
<1>7. CASE Bootstrap(GameUp)
  <2>1. [remote EXCEPT !.block = "live", !.boot = "running"] \in Remote
    BY <1>1 DEF Memory, Thread
  <2> QED
    BY <1>3, <1>4, <1>7, <2>1 DEF Bootstrap
<1>8. CASE BootEnds
  BY <1>3, <1>8 DEF BootEnds
<1>9. CASE RemoteStep
  <2>1. \A ok \in BOOLEAN : [remote EXCEPT !.load = "done", !.loaded = ok] \in Remote
    BY <1>1 DEF Thread
  <2>2. [remote EXCEPT !.boot = "copied"] \in Remote
    BY <1>1 DEF Thread
  <2>3. \A ok \in BOOLEAN : [remote EXCEPT !.boot = "done", !.booted = ok] \in Remote
    BY <1>1 DEF Thread
  <2>4. injector' = injector /\ remote' \in Remote
    BY <1>9, <2>1, <2>2, <2>3 DEF RemoteStep, RemoteLoads, RemoteCopies, RemoteBoots
  <2> QED
    BY <2>4 DEF InjectorTypeOK
<1>10. NoRemote \in Remote
  BY DEF NoRemote, Memory, Thread
<1>11. CASE \/ InjectorKilled
            \/ injector' = injector /\ remote' = NoRemote
            \/ injector' = "none" /\ remote' = NoRemote
            \/ injector' = "checking" /\ remote' = remote
            \/ UNCHANGED injectorVars
  BY <1>10, <1>11 DEF InjectorTypeOK, InjectorKilled, injectorVars
<1> QED
  BY <1>5, <1>6, <1>7, <1>8, <1>9, <1>11 DEF InjectorStep

\* The sidecar, its options, the game and the seeder.
Rest ==
    /\ sidecar \in SidecarStep
    /\ options \in RunOption \cup {NoOptions}
    /\ game \in {"none", "up", "saving"}
    /\ seeder \in {"none", "counted"}
    /\ InjectorTypeOK

LEMMA RestKeeps == LInv /\ [Next]_vars => Rest'
<1> SUFFICES ASSUME LInv, [Next]_vars
             PROVE  Rest'
  OBVIOUS
<1>1. Rest
  BY DEF LInv, Shape, Rest
<1> USE InjectorTyped
<1>2. ASSUME UNCHANGED <<sidecar, options, game, seeder, injectorVars>>
      PROVE  Rest'
  BY <1>1, <1>2 DEF Rest
<1>3. CASE \/ \E s \in Source : Play(s) \/ ConsoleStage(s)
           \/ Disconnect \/ Done \/ CloseWindow \/ LauncherEnds \/ Reopen
           \/ ConsoleStageStep \/ Update
  BY <1>2, <1>3
  DEF Play, ConsoleStage, consoleRest, Disconnect, Done, CloseWindow, LauncherEnds,
      Reopen, ConsoleStageStep, Update, sharedVars
<1>4. CASE \/ Asked \/ ValidateRuntime \/ Staged \/ FindTemplate \/ Guard \/ Keep
           \/ Edit \/ Replace \/ DropLegacy \/ LastPlayer \/ Recheck
           \/ UNCHANGED <<injectorVars, sidecar, worker, workerRest>>
  BY <1>2, <1>4
  DEF Asked, ValidateRuntime, Staged, FindTemplate, Guard, Keep, Edit,
      Replace, DropLegacy, LastPlayer, Recheck, workerRest
<1>5. CASE Spawn \/ Monitored
  BY <1>1, <1>5, LauncherIsAccepted DEF Spawn, Monitored, workerRest, Rest, SidecarStep
<1>6. CASE \E o \in AcceptedOptions : ConsoleRun(o)
  BY <1>1, <1>6, AcceptedIsBootable DEF ConsoleRun, Rest, SidecarStep
<1>7. CASE SidecarNext \/ SidecarKilled
  <2>1. sidecar' \in SidecarStep /\ options' \in RunOption \cup {NoOptions}
    BY <1>1, <1>7
    DEF SidecarNext, SidecarKilled, CheckRuntime, Arm, StartGame, GameIdle,
        ModulesLoaded, Injected, Greet, LoopEnds, Closed, Unwatched, Over, Go, sharedVars,
        Rest, SidecarStep
  <2>2. game' \in {"none", "up", "saving"} /\ seeder' = seeder
    BY <1>1, <1>7
    DEF SidecarNext, SidecarKilled, CheckRuntime, Arm, StartGame, GameIdle,
        ModulesLoaded, Injected, Greet, LoopEnds, Closed, Unwatched, sidecarRest,
        sharedVars, Rest
  <2>3. InjectorTypeOK'
    BY <1>1, <1>7
    DEF SidecarNext, SidecarKilled, CheckRuntime, Arm, StartGame, GameIdle,
        ModulesLoaded, Injected, Greet, LoopEnds, Closed, Unwatched, injectorVars, Rest
  <2> QED
    BY <1>1, <2>1, <2>2, <2>3 DEF Rest
<1>8. CASE InjectorNext
  BY <1>1, <1>8 DEF InjectorNext, Rest
<1>9. CASE RemoteNext
  BY <1>1, <1>9 DEF RemoteNext, sharedVars, Rest
<1>10. CASE GameSaves \/ GameEnds
  BY <1>1, <1>10 DEF GameSaves, GameEnds, Rest
<1>11. CASE SeedCount \/ SeedCommit
  BY <1>1, <1>11 DEF SeedCount, SeedCommit, consoleRest, sharedVars, Rest
<1>12. CASE UNCHANGED vars
  BY <1>2, <1>12 DEF vars
<1> QED
  BY <1>3, <1>4, <1>5, <1>6, <1>7, <1>8, <1>9, <1>10, <1>11, <1>12 DEF Next, WorkerNext

LEMMA ShapeKeeps == LInv /\ [Next]_vars => Shape'
BY LaunchingKeeps, SignalKeeps, RestKeeps DEF Launching, Signal, Rest, Shape

-----------------------------------------------------------------------------
(* The theorems.                                                           *)

\* Before the first launch nothing is staged, started or allocated.
LEMMA LaunchInit == Init => LInv
<1> SUFFICES ASSUME Init
             PROVE  LInv
  OBVIOUS
<1>1. IInv
  BY InitHolds DEF Init
<1>2. Shape
  BY DEF Init, Shape, WorkerStep, SidecarStep, NoEvent, Holder, InjectorInit,
         InjectorTypeOK, NoRemote, Memory, Thread
<1>3. Pinned /\ Alone
  BY DEF Init, Pinned, InUse, GameUp, Alone, Preparing, Before
<1>4. Agreed /\ Awaited
  BY DEF Init, InjectorInit, Agreed, Awaited, RemoteMemoryLives, NoRemote, Before,
         NeverRefused
<1> QED
  BY <1>1, <1>2, <1>3, <1>4 DEF LInv

LEMMA LaunchKeeps == LInv /\ [Next]_vars => LInv' /\ (Kept => Kept')
<1>1. LInv /\ [Next]_vars => IInv' /\ (Kept => Kept')
  BY EveryStepOnTree, TreeKeeps
<1>2. LInv /\ [Next]_vars => Shape' /\ Pinned' /\ Alone' /\ Agreed' /\ Awaited'
  BY ShapeKeeps, PinnedKeeps, AloneKeeps, AwaitedKeeps
<1> QED
  BY <1>1, <1>2 DEF LInv

\* The invariant of a session: the launcher, its worker, the sidecar, the
\* injector, the game and the console never leave its five parts.
THEOREM SessionInvariance == Spec => []LInv
<1>1. LInv /\ [Next]_vars => LInv'
  BY LaunchKeeps
<1> QED
  BY <1>1, LaunchInit, PTL DEF Spec

\* Every shared variable keeps its type, and the shutdown event exists exactly as
\* long as somebody holds it.
THEOREM SessionTypes == Spec => []TypeOK
<1>1. LInv => TypeOK
  BY DEF LInv, IInv, Types, State, Shape, TypeOK
<1> QED
  BY <1>1, SessionInvariance, PTL

\* With the game and the launcher's worker writing saves into it, and stages from
\* the launcher and from the console, what stands under the runtime's name is a
\* complete, proved and sealed copy (staging.cpp:981-1029).
THEOREM SessionRuntimeIsWhole == Spec => []TargetWhole
<1>1. LInv => TargetWhole
  BY DEF LInv, IInv
<1> QED
  BY <1>1, SessionInvariance, PTL

\* And the last whole runtime is never lost, whoever of them is killed
\* (staging.cpp:388-436, 1024-1044).
THEOREM SessionRuntimeIsNeverLost == Spec => LastGoodSurvives
<1>1. LInv /\ LInv' /\ [Next]_vars => [WholeSomewhere => WholeSomewhere']_stagingVars
  <2>1. LInv => (WholeSomewhere <=> Kept)
    BY WholeIsKept DEF LInv
  <2>2. LInv' => (WholeSomewhere' <=> Kept')
    BY <2>1, PTL
  <2> QED
    BY <2>1, <2>2, LaunchKeeps
<1> QED
  BY <1>1, SessionInvariance, PTL DEF Spec, LastGoodSurvives

\* Whatever the command line accepts, the injector and the bridge accept: no game
\* is started that is refused its bridge (client/main.cpp:321-463,
\* injector.cpp:421-463, runtime_validation.cpp:9-80).
THEOREM StartedIsAccepted == Spec => []NeverRefused
<1>1. LInv => NeverRefused
  BY DEF LInv, Agreed
<1> QED
  BY <1>1, SessionInvariance, PTL

\* However the injector's waits, the game's threads, the game's end and the
\* sidecar's kill race, no thread reads memory that was freed
\* (injector.cpp:570-575, 650-654).
THEOREM ThreadsReadLiveMemory == Spec => []RemoteMemoryLives
<1>1. LInv => RemoteMemoryLives
  BY DEF LInv, Awaited
<1> QED
  BY <1>1, SessionInvariance, PTL

\* No step of a preparation, failed or killed, takes the last good profile away
\* between games (profile_editor.cpp:786-896).
THEOREM ProfileIsNeverLost == Spec => GoodProfileSurvives
<1> DEFINE Keeps == (game = "none" /\ target # None /\ target' # None
                       /\ GoodSave(target) /\ stager' = stager /\ seeder' = seeder)
                     => GoodSave(target')
<1>1. LInv /\ [Next]_vars => [Keeps]_vars
  <2> SUFFICES ASSUME LInv, [Next]_vars, game = "none", target # None, target' # None,
                      GoodSave(target), stager' = stager, seeder' = seeder
               PROVE  GoodSave(target')
    OBVIOUS
  <2>1. ASSUME target' = target
        PROVE  GoodSave(target')
    BY <2>1
  <2>2. CASE Guard \/ Keep \/ Edit \/ Replace \/ DropLegacy
    BY <2>2, WorkerOnTree
  <2>3. CASE GameSaves \/ SeedCommit
    BY <2>1, <2>3, SavesOnTree
  <2>4. CASE \/ \E s \in Source : ConsoleStage(s)
             \/ LauncherEnds \/ ValidateRuntime \/ Staged \/ ConsoleStageStep
             \/ StageStep("launcher", InUse)
    <3>1. Types
      BY DEF LInv, IInv
    <3>2. CASE Transacted
      BY <2>1, <3>1, <3>2, StageMoves DEF Transacted
    <3>3. CASE UNCHANGED stagingVars
      BY <2>1, <3>3 DEF stagingVars
    <3> QED
      BY <2>4, <3>2, <3>3, StagesOnTree, LaunchAssumption
  <2>5. CASE Update
    BY <2>1, <2>5 DEF Update, SourceUpdated
  <2>6. CASE UNCHANGED stagingVars
    BY <2>1, <2>6 DEF stagingVars
  <2> QED
    BY <2>2, <2>3, <2>4, <2>5, <2>6, OthersOffTree DEF Next, WorkerNext
<1> QED
  BY <1>1, SessionInvariance, PTL DEF Spec, GoodProfileSurvives

=============================================================================
