---------------------------- MODULE ActorBackend ----------------------------
(***************************************************************************)
(* The remote actors of the game bridge (bridge/remote_actor_backend.cpp,  *)
(* with the registry of bridge/remote_actor_registry.cpp) and the queue    *)
(* that feeds them.  Two threads meet here:                                *)
(*                                                                         *)
(*   the pipe worker (bridge.cpp) takes one command at a time, looks at    *)
(*   the safe-mode flag and then pushes: two steps, `worker` holds the     *)
(*   command in between;                                                   *)
(*   the game thread drains the queue after every AI tick and visits the   *)
(*   slots one by one; `todo` are the slots it has yet to visit.  Between  *)
(*   two ticks the game itself runs: it may remove an actor, replace its   *)
(*   vehicle, save, load another world or move the local player.           *)
(*                                                                         *)
(* Actors and vehicles are numbers, 0 is none.  The number of an actor or  *)
(* a vehicle that is gone is used again once no slot refers to it.  A      *)
(* vehicle's physics object goes with it.  Appearance (model and paint)    *)
(* and the pose itself are left out: `shown` says that there is one.       *)
(***************************************************************************)
EXTENDS CommandQueue

CONSTANTS
  MaxSlots,    \* kMaximumRemotePlayers
  Idle,        \* the worker holds no command
  NoState,     \* no state applied to the slot yet
  MaxSent,     \* bound: states of one life
  MaxActor,    \* bound: actors there may be
  MaxVehicle,  \* bound: vehicles one actor may have, one at a time
  Faults       \* which of the faults below are considered

ASSUME BackendAssumption ==
  /\ Incarnation # {}
  /\ Idle \notin Command
  /\ MaxSlots \in Nat \ {0}
  /\ MaxSent \in Nat /\ MaxActor \in Nat /\ MaxVehicle \in Nat
  /\ Faults \subseteq {"stop", "kill", "cleanup", "acquire", "thread",
                       "native"}

VARIABLES
  peers,     \* what the sidecar has sent: the life of each player's actor
  worker,    \* the command between its safe-mode check and its push
  safe,      \* g_safe_mode_requested
  slots,     \* g_slots: a function from the identities of occupied slots
  registry,  \* g_registry: bindings of vehicles
  owned,     \* g_player_ids: the actors the detours treat as remote
  index,     \* g_collision_index: the vehicles they treat as remote
  todo,      \* the slots the current tick has yet to visit
  world,     \* the game: its remote actors, with each one's vehicle
  room,      \* the game: the local player's room
  archive    \* the game: a remote actor went into a save

slotVars == <<slots, registry, owned, index>>
gameVars == <<world, room, archive>>
vars == <<queueVars, peers, worker, safe, slotVars, todo, gameVars>>

Slot == [life : Life, state : Sample \cup {NoState}, actor : Nat,
         vehicle : Nat, applied : Nat \cup {NoState}, shown : BOOLEAN,
         frame : BOOLEAN, late : BOOLEAN]

Binding == [key : Key, actor : Nat, vehicle : Nat]

FreshSlot(life) ==
  [life |-> life, state |-> NoState, actor |-> 0, vehicle |-> 0,
   applied |-> NoState, shown |-> FALSE, frame |-> FALSE, late |-> FALSE]

-----------------------------------------------------------------------------
(* The pipe worker.                                                        *)

(* What the sidecar may send next: spawn, states (a datagram that comes    *)
(* twice included), despawn, spawn again, with the same incarnation or     *)
(* another.                                                                *)
Sendable ==
  LET gone == {k \in Key : ~peers[k.pid].alive /\ peers[k.pid].life < MaxLife}
      here == {k \in Key : peers[k.pid].alive /\ peers[k.pid].inc = k.inc}
      seqs(p) == {(SeqRange - 1 + n) % SeqRange :
                    n \in {p.sent - 1, p.sent} \cap 0..(MaxSent - 1)}
  IN      {[op |-> "spawn", key |-> k, life |-> peers[k.pid].life + 1] :
             k \in gone}
     \cup {[op |-> "despawn", key |-> k] : k \in here}
     \cup UNION {[op : {"state"}, key : {k}, life : {peers[k.pid].life},
                  seq : seqs(peers[k.pid]), room : Where] : k \in here}

Sent(p, cmd) ==
  CASE cmd.op = "spawn" -> [inc |-> cmd.key.inc, life |-> cmd.life,
                            sent |-> 0, alive |-> TRUE]
    [] cmd.op = "despawn" -> [p EXCEPT !.alive = FALSE]
    [] cmd.op = "state" ->
         [p EXCEPT !.sent = IF cmd.seq = (SeqRange - 1 + @) % SeqRange
                            THEN @ + 1 ELSE @]

(* QueueRemoteSpawn, -Sample, -Despawn: nothing is queued in safe mode.    *)
Take(cmd) ==
  /\ worker = Idle
  /\ cmd \in Sendable
  /\ peers' = [peers EXCEPT ![cmd.key.pid] = Sent(@, cmd)]
  /\ worker' = IF safe THEN Idle ELSE cmd
  /\ UNCHANGED <<queueVars, safe, slotVars, todo, gameVars>>

Push ==
  /\ worker # Idle
  /\ worker' = Idle
  /\ \/ Enqueue(worker) /\ UNCHANGED safe
     \/ Overflows(worker) /\ safe' = TRUE /\ UNCHANGED queueVars
  /\ UNCHANGED <<peers, slotVars, todo, gameVars>>

(* EnterSafeMode, a malformed frame, or the loss of the pipe.              *)
RequestSafeMode ==
  /\ "stop" \in Faults
  /\ worker = Idle /\ ~safe
  /\ safe' = TRUE
  /\ UNCHANGED <<queueVars, peers, worker, slotVars, todo, gameVars>>

-----------------------------------------------------------------------------
(* Helpers of the game thread.                                             *)

Publish ==
  /\ owned' = {slots'[k].actor : k \in DOMAIN slots'} \ {0}
  /\ index' = {<<b.actor, b.vehicle>> : b \in registry'}

ActorsOf(keys) == {slots[k].actor : k \in keys} \ {0}

(* erase_binding, and what destroy_game_actor resets.                      *)
Unbound(s) == [s EXCEPT !.vehicle = 0, !.frame = FALSE]
Destroyed(s) == [Unbound(s) EXCEPT !.actor = 0, !.applied = NoState,
                                   !.shown = FALSE]

BindingsOf(keys) == {b \in registry : b.key \in keys}

(* killPlayer for the actors in `gone`: those in `stuck` it fails for.     *)
(* The slot forgets the actor in any case.                                 *)
Kill(gone, stuck) ==
  /\ stuck \subseteq gone
  /\ "kill" \in Faults \/ stuck = {}
  /\ world' = Restrict(world, DOMAIN world \ (gone \ stuck))

(* purge_all_game_actors.                                                  *)
Purge(stuck) ==
  /\ Kill(ActorsOf(DOMAIN slots), stuck)
  /\ slots' = [k \in DOMAIN slots |-> Destroyed(slots[k])]
  /\ registry' = {}
  /\ Publish

-----------------------------------------------------------------------------
(* apply_batch.                                                            *)

(* Mutants of Without: the actor is forgotten, not destroyed; the slot is  *)
(* left occupied.                                                          *)
WithoutKill(acc, dead) ==
  [acc EXCEPT !.slots = Restrict(@, DOMAIN @ \ dead)]

WithoutReset(acc, dead) ==
  [acc EXCEPT !.slots = [k \in DOMAIN @ |->
                           IF k \in dead THEN Destroyed(@[k]) ELSE @[k]],
              !.dead = @ \cup (dead \cap DOMAIN slots)]

(* destroy_game_actor and *slot = {} for the slots in `dead`.              *)
Without(acc, dead) ==
  [acc EXCEPT !.slots = Restrict(@, DOMAIN @ \ dead),
              !.dead = @ \cup (dead \cap DOMAIN slots)]

Control(acc, cmd) ==
  IF cmd.op = "despawn" THEN Without(acc, {cmd.key} \cap DOMAIN acc.slots)
  ELSE LET kept == Without(acc, {k \in DOMAIN acc.slots :
                                   k.pid = cmd.key.pid /\ k # cmd.key})
       IN IF cmd.key \in DOMAIN kept.slots THEN kept
          ELSE IF Cardinality(DOMAIN kept.slots) = MaxSlots
            THEN [kept EXCEPT !.full = TRUE]
          ELSE [kept EXCEPT !.slots =
                  [k \in DOMAIN @ \cup {cmd.key} |->
                     IF k = cmd.key THEN FreshSlot(cmd.life) ELSE @[k]]]

(* A newer state replaces the slot's; a hidden one ends the trajectory.    *)
Absorb(s, st) ==
  IF s.state # NoState /\ ~Newer(st.seq, s.state.seq) THEN s
  ELSE [s EXCEPT !.state = st, !.shown = @ /\ st.room # NoRoom]

(* All controls, then all states.                                          *)
Applied ==
  LET base == [slots |-> slots, dead |-> {}, full |-> FALSE]
      acc == FoldLeft(Control, base, controls)
      ring(k) == IF k \in DOMAIN fifos THEN fifos[k].ring ELSE <<>>
  IN [acc EXCEPT !.slots =
        [k \in DOMAIN @ |-> FoldLeft(Absorb, @[k], ring(k))]]

-----------------------------------------------------------------------------
(* TickGogRemoteActors.                                                    *)

(* Mutant of Vacated: the slots keep their players.                        *)
StillOccupied == [k \in DOMAIN slots |-> Destroyed(slots[k])]

Vacated == Restrict(slots, {})

(* enter_safe_mode_game_thread: everything goes, the queue is emptied too  *)
(* unless the worker holds its lock.                                       *)
TickInSafeMode ==
  /\ todo = {} /\ safe
  /\ \E stuck \in SUBSET ActorsOf(DOMAIN slots) :
       Kill(ActorsOf(DOMAIN slots), stuck)
  /\ slots' = Vacated
  /\ registry' = {}
  /\ Publish
  /\ \/ Drain
     \/ worker # Idle /\ UNCHANGED queueVars
  /\ UNCHANGED <<peers, worker, safe, todo, room, archive>>

(* The batch is applied.  In the world, the slots are to be visited;       *)
(* outside it every actor goes.                                            *)
TickWith(acc) ==
  \E stuck \in SUBSET ActorsOf(DOMAIN slots) :
    /\ LET all == DOMAIN slots
           dead == IF room = NoRoom THEN all ELSE acc.dead
       IN /\ Kill(ActorsOf(dead), stuck)
          /\ slots' = IF room = NoRoom
                      THEN [k \in DOMAIN acc.slots |-> Destroyed(acc.slots[k])]
                      ELSE acc.slots
          /\ registry' = registry \ BindingsOf(dead)
    /\ Publish
    /\ todo' = IF room = NoRoom THEN {} ELSE DOMAIN acc.slots
    /\ safe' = (acc.full \/ stuck # {})

TickBegin ==
  /\ todo = {} /\ ~safe
  /\ \/ Drain /\ TickWith(Applied)
     \/ /\ worker # Idle
        /\ TickWith([slots |-> slots, dead |-> {}, full |-> FALSE])
        /\ UNCHANGED queueVars
  /\ UNCHANGED <<peers, worker, room, archive>>

(* The slot of k is left as s, with the bindings b, and the tick goes on.  *)
Leave(k, s, b) ==
  /\ slots' = [slots EXCEPT ![k] = s]
  /\ registry' = (registry \ BindingsOf({k})) \cup b
  /\ Publish

GoOn(k) == todo' = todo \ {k}

Visiting(k) ==
  /\ k \in todo
  /\ UNCHANGED <<queueVars, peers, worker, room, archive>>

(* valid_world_state: in the world, and in the local player's room.        *)
Placed(k) == slots[k].state # NoState /\ slots[k].state.room = room

VisitStateless(k) ==
  /\ Visiting(k)
  /\ slots[k].state = NoState
  /\ Leave(k, [slots[k] EXCEPT !.frame = FALSE], BindingsOf({k}))
  /\ GoOn(k)
  /\ UNCHANGED <<safe, world>>

VisitElsewhere(k) ==
  /\ Visiting(k)
  /\ slots[k].state # NoState /\ ~Placed(k)
  /\ Leave(k, Destroyed(slots[k]), {})
  /\ \E stuck \in SUBSET ActorsOf({k}) :
       /\ Kill(ActorsOf({k}), stuck)
       /\ safe' = (safe \/ stuck # {})
  /\ GoOn(k)

(* What is left of the slot once an actor the game removed is forgotten,   *)
(* and its bindings.                                                       *)
Known(k) ==
  LET s == [slots[k] EXCEPT !.frame = FALSE]
  IN IF s.actor = 0 \/ s.actor \in DOMAIN world THEN s
     ELSE [Unbound(s) EXCEPT !.actor = 0, !.applied = NoState]

(* Mutant of KnownBindings: the binding is not erased.                     *)
KnownBindingsKept(k) == BindingsOf({k})

KnownBindings(k) == IF Known(k).actor = 0 THEN {} ELSE BindingsOf({k})

(* A creation failed less than a second ago.                               *)
VisitWaiting(k) ==
  /\ Visiting(k)
  /\ Placed(k)
  /\ Known(k).actor = 0 /\ Known(k).late
  /\ Leave(k, Known(k), KnownBindings(k))
  /\ GoOn(k)
  /\ UNCHANGED <<safe, world>>

(* Numbers of actors nobody refers to.                                     *)
Unused == 1..MaxActor \ (DOMAIN world \cup ActorsOf(DOMAIN slots))

Linked(v) == [a \in DOMAIN world \cup {Min(Unused)} |->
                IF a \in DOMAIN world THEN world[a] ELSE v]

(* The game creates nothing, as when it has no number left.               *)
CreatesNothing == UNCHANGED <<safe, world>>

(* The model and the paint cannot be set in the new actor, which is        *)
(* acquired, placed and removed again; or that fails too: safe mode.       *)
AppearanceFails ==
  /\ Unused # {}
  /\ \/ UNCHANGED <<safe, world>>
     \/ "cleanup" \in Faults /\ world' = Linked(0) /\ safe' = TRUE

(* The acquired actor is none, is not in the list or has another look; one *)
(* with a number is removed, and what remains of it is left without a word.*)
AcquisitionFails ==
  /\ Unused # {}
  /\ \/ UNCHANGED world
     \/ "acquire" \in Faults /\ world' = Linked(0)
  /\ UNCHANGED safe

(* create_actor fails at one of its three steps.                           *)
VisitFailure(k) ==
  /\ Visiting(k)
  /\ Placed(k)
  /\ Known(k).actor = 0
  /\ "native" \in Faults \/ Unused = {}
  /\ Leave(k, [Known(k) EXCEPT !.late = TRUE], KnownBindings(k))
  /\ GoOn(k)
  /\ CreatesNothing \/ AppearanceFails \/ AcquisitionFails

(* create_actor succeeds; the visit goes on with the new actor.            *)
VisitCreate(k) ==
  /\ Visiting(k)
  /\ Placed(k)
  /\ Known(k).actor = 0
  /\ Unused # {}
  /\ \E v \in {0, 1} \cap 0..MaxVehicle : world' = Linked(v)
  /\ Leave(k, [Known(k) EXCEPT !.actor = Min(Unused)], {})
  /\ UNCHANGED <<safe, todo>>

(* The registry refuses a second binding of a player or of an actor.       *)
Conflict(k, actor) ==
  \E b \in registry : b.key.pid = k.pid \/ b.actor = actor

(* vehicle_is_valid: the actor is in the list and owns the vehicle.        *)
Owns(actor, vehicle) == actor \in DOMAIN world /\ world[actor] = vehicle

(* attach_vehicle_if_ready and apply_logical_state.  The vehicle may not   *)
(* be found yet; a state is applied when it is newer than the last.        *)
Attachable(s) == s.vehicle = 0 /\ world[s.actor] # 0

Attached(s, found) ==
  IF found THEN [s EXCEPT !.vehicle = world[s.actor]] ELSE s

Bound(k, s) ==
  IF s.vehicle = 0 THEN {}
  ELSE {[key |-> k, actor |-> s.actor, vehicle |-> s.vehicle]}

Due(s) == s.applied # NoState => Newer(s.state.seq, s.applied)

Logical(s) == IF Due(s) THEN [s EXCEPT !.applied = s.state.seq] ELSE s

(* Mutant of Posed: the binding is not looked at again.                    *)
PosedUnchecked(s, evaluated) ==
  LET t == [s EXCEPT !.shown = @ \/ evaluated]
  IN IF t.vehicle = 0 \/ ~t.shown THEN t ELSE [t EXCEPT !.frame = TRUE]

(* evaluate_displayed_pose and apply_vehicle_transform: a vehicle that is  *)
(* no longer the actor's is given up; the pose is written to one that is.  *)
Posed(s, evaluated) ==
  LET t == [s EXCEPT !.shown = @ \/ evaluated]
  IN IF t.vehicle = 0 \/ ~t.shown THEN t
     ELSE IF ~Owns(t.actor, t.vehicle) THEN Unbound(t)
     ELSE [t EXCEPT !.frame = TRUE]

Visible(k) == Visiting(k) /\ Placed(k) /\ Known(k).actor # 0

VisitActor(k) ==
  /\ Visible(k)
  /\ \E found, evaluated \in BOOLEAN :
       LET s == Known(k)
           refused == found /\ Conflict(k, s.actor)
           t == Posed(Logical(Attached(s, found /\ ~refused)), evaluated)
       IN /\ found => Attachable(s)
          /\ Leave(k, t, Bound(k, t))
          /\ safe' = (safe \/ refused)
  /\ GoOn(k)
  /\ UNCHANGED world

(* A native call or a write fails: safe mode, and the tick ends.           *)
VisitBroken(k) ==
  /\ Visible(k)
  /\ "native" \in Faults
  /\ \E found \in BOOLEAN :
       LET s == Attached(Known(k), found)
           broken == [Logical(s) EXCEPT !.shown = TRUE]
       IN /\ found => Attachable(Known(k))
          /\ \/ Due(s) /\ Leave(k, s, Bound(k, s))
             \/ /\ s.vehicle # 0 /\ Owns(s.actor, s.vehicle)
                /\ Leave(k, broken, Bound(k, s))
  /\ safe' = TRUE
  /\ todo' = {}
  /\ UNCHANGED world

Visit(k) ==
  \/ VisitStateless(k)
  \/ VisitElsewhere(k)
  \/ VisitWaiting(k)
  \/ VisitFailure(k)
  \/ VisitCreate(k)
  \/ VisitActor(k)
  \/ VisitBroken(k)

-----------------------------------------------------------------------------
(* The detours that change state, and the game.                            *)

BetweenTicks ==
  todo = {} /\ UNCHANGED <<queueVars, peers, worker, todo>>

(* Mutant of PurgeFirst: the save is written first.                        *)
PurgeNever(stuck) == stuck = {} /\ UNCHANGED <<world, slotVars>>

PurgeFirst(stuck) == Purge(stuck)

(* PreSaveDetour: on the game thread the actors go before the game saves;  *)
(* on another one nothing may be touched, and the game saves all the same. *)
PreSave ==
  /\ BetweenTicks
  /\ \E stuck \in SUBSET ActorsOf(DOMAIN slots) :
       /\ PurgeFirst(stuck)
       /\ safe' = (safe \/ stuck # {})
  /\ archive' = (archive \/ DOMAIN world' # {})
  /\ UNCHANGED room

PreSaveElsewhere ==
  /\ BetweenTicks
  /\ "thread" \in Faults
  /\ safe' = TRUE
  /\ archive' = (archive \/ DOMAIN world # {})
  /\ UNCHANGED <<room, world, slotVars>>

(* PreRegistryResetDetour.                                                 *)
PreRegistryReset ==
  /\ BetweenTicks
  /\ \E stuck \in SUBSET ActorsOf(DOMAIN slots) :
       /\ Purge(stuck)
       /\ safe' = (safe \/ stuck # {})
  /\ UNCHANGED <<room, archive>>

(* A detour of the game's drawing that enters safe mode.                   *)
Objection ==
  /\ safe' = TRUE
  /\ UNCHANGED <<queueVars, peers, worker, todo, slotVars, gameVars>>

(* The index holds the vehicle of the slot.                                *)
Drawn(k) ==
  k \in DOMAIN slots /\ <<slots[k].actor, slots[k].vehicle>> \in index

(* The game draws it on a thread that is not its own.                      *)
DrawnElsewhere(k) == "thread" \in Faults /\ Drawn(k)

(* The displayed pose cannot be lent to the game.                          *)
NotLent(k) ==
  /\ "native" \in Faults /\ todo = {} /\ ~safe
  /\ Drawn(k) /\ slots[k].shown /\ slots[k].frame

(* VehicleRenderHistoryUpdateDetour: no more writes between ticks.         *)
FrameWriteFails(k) ==
  \/ DrawnElsewhere(k) /\ Objection
  \/ /\ NotLent(k)
     /\ slots' = [slots EXCEPT ![k].frame = FALSE]
     /\ safe' = TRUE
     /\ UNCHANGED <<queueVars, peers, worker, todo, registry, owned, index,
                    gameVars>>

(* VehicleGroundEffectsDetour: the vehicle's shadow.                       *)
ShadowFails(k) == (DrawnElsewhere(k) \/ NotLent(k)) /\ Objection

(* SceneTransformGetWorldDetour: the vehicle's scene node.                 *)
SceneReadFails(k) == (DrawnElsewhere(k) \/ NotLent(k)) /\ Objection

(* AcquirePlayerIdDetour: the look the launcher chose cannot be given to   *)
(* the local actor.                                                        *)
AcquireObjects == "native" \in Faults /\ todo = {} /\ Objection

(* VehicleConstructorDetour: the look cannot be given to the local vehicle *)
(* or to the remote one being acquired, or a remote actor's vehicle is     *)
(* made on another thread.                                                 *)
ConstructorObjects ==
  /\ "native" \in Faults \/ ("thread" \in Faults /\ owned # {})
  /\ Objection

GameRemoves(a) ==
  /\ BetweenTicks
  /\ a \in DOMAIN world
  /\ world' = Restrict(world, DOMAIN world \ {a})
  /\ UNCHANGED <<safe, slotVars, room, archive>>

(* The new vehicle is none, or one no slot refers to.                      *)
GameReplacesVehicle(a) ==
  /\ BetweenTicks
  /\ a \in DOMAIN world
  /\ \E v \in 0..MaxVehicle :
       /\ v # world[a]
       /\ \A k \in DOMAIN slots :
            v # 0 /\ slots[k].actor = a => slots[k].vehicle # v
       /\ world' = [world EXCEPT ![a] = v]
  /\ UNCHANGED <<safe, slotVars, room, archive>>

GameMoves(where) ==
  /\ BetweenTicks
  /\ room # where
  /\ room' = where
  /\ UNCHANGED <<safe, slotVars, world, archive>>

Game ==
  \/ PreSave
  \/ PreSaveElsewhere
  \/ PreRegistryReset
  \/ \E k \in Key : FrameWriteFails(k) \/ ShadowFails(k) \/ SceneReadFails(k)
  \/ AcquireObjects
  \/ ConstructorObjects
  \/ \E a \in 1..MaxActor : GameRemoves(a) \/ GameReplacesVehicle(a)
  \/ \E where \in Where : GameMoves(where)

Tick == TickInSafeMode \/ TickBegin \/ \E k \in Key : Visit(k)

Worker == (\E cmd \in Sendable : Take(cmd)) \/ Push \/ RequestSafeMode

Init ==
  /\ QueueInit
  /\ peers = [p \in Pid |-> [inc |-> CHOOSE i \in Incarnation : TRUE,
                             life |-> 0, sent |-> 0, alive |-> FALSE]]
  /\ worker = Idle
  /\ safe = FALSE
  /\ slots = [k \in {} |-> 0]
  /\ registry = {} /\ owned = {} /\ index = {}
  /\ todo = {}
  /\ world = [a \in {} |-> 0]
  /\ room = NoRoom
  /\ archive = FALSE

Next == Worker \/ Tick \/ Game

Spec == Init /\ [][Next]_vars

-----------------------------------------------------------------------------
TypeOK ==
  /\ QueueTypeOK
  /\ peers \in [Pid -> [inc : Incarnation, life : 0..MaxLife,
                        sent : 0..MaxSent, alive : BOOLEAN]]
  /\ worker \in Command \cup {Idle}
  /\ safe \in BOOLEAN
  /\ DOMAIN slots \in SUBSET Key
  /\ slots \in [DOMAIN slots -> Slot]
  /\ Cardinality(DOMAIN slots) <= MaxSlots
  /\ registry \subseteq Binding
  /\ todo \subseteq DOMAIN slots
  /\ DOMAIN world \subseteq 1..MaxActor
  /\ world \in [DOMAIN world -> 0..MaxVehicle]
  /\ room \in Where
  /\ archive \in BOOLEAN

(* Once the game thread has taken every control command, the slots are     *)
(* those of the players the sidecar last spawned: two incarnations of a    *)
(* player never have a slot together, a despawn misses none, and neither a *)
(* drain that fails nor one between despawn and respawn changes that       *)
(* (remote_actor_backend.cpp:1100-1137).                                   *)
SlotsFollowCommands ==
  ~safe /\ worker = Idle /\ controls = <<>> =>
    /\ DOMAIN slots = {[pid |-> p, inc |-> peers[p].inc] :
                         p \in {q \in Pid : peers[q].alive}}
    /\ \A k \in DOMAIN slots : slots[k].life = peers[k.pid].life

(* A slot never shows a state sent before its own spawn, though a batch    *)
(* applies all controls before any state, and a player may return under    *)
(* the incarnation it left with (remote_command_queue.cpp:124-137).        *)
NoStateOfAnotherLife ==
  \A k \in DOMAIN slots :
    slots[k].state # NoState => slots[k].state.life = slots[k].life

(* Outside safe mode every actor the bridge made the game create is held   *)
(* by a slot, so that its despawn can reach it.                            *)
ActorsAreHeld == ~safe => DOMAIN world \subseteq ActorsOf(DOMAIN slots)

(* What the detours take for remote is what the slots hold: no vehicle of  *)
(* the game's own loses its physics, no remote one gets them back.         *)
DetoursSeeSlots ==
  /\ owned = ActorsOf(DOMAIN slots)
  /\ index = {<<slots[k].actor, slots[k].vehicle>> :
                k \in {q \in DOMAIN slots : slots[q].vehicle # 0}}
  /\ \A k \in DOMAIN slots : slots[k].vehicle # 0 => slots[k].actor # 0

(* When a tick ends, the frame writes are armed only for vehicles that the *)
(* game still has, or safe mode keeps them from happening.                 *)
ArmedVehiclesExist ==
  [][todo # {} /\ todo' = {} /\ ~safe' =>
       \A k \in DOMAIN slots' :
         slots'[k].frame =>
           /\ slots'[k].actor \in DOMAIN world'
           /\ slots'[k].vehicle = world'[slots'[k].actor]]_vars

(* No remote actor goes into a save unless safe mode was entered.          *)
SavesAreClean == archive => safe

(* The game keeps ticking, the worker pushes what it holds.                *)
FairSpec == Spec /\ WF_vars(Tick) /\ WF_vars(Push)

(* Safe mode is final: the slots and what the detours know go, for good.   *)
SafeModeEmpties ==
  safe ~> [](slots = Restrict(slots, {}) /\ owned = {} /\ index = {})
=============================================================================
