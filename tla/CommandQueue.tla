---------------------------- MODULE CommandQueue ----------------------------
(***************************************************************************)
(* RemoteCommandQueue (bridge/remote_command_queue.cpp): what the bridge's *)
(* pipe worker leaves for the game thread.  Spawns and despawns wait in    *)
(* one list and are never overwritten; states wait in one bounded FIFO per *)
(* player and incarnation, which loses its oldest entry when it is full.   *)
(*                                                                         *)
(* The FIFOs live in an array of which only the identities in use matter:  *)
(* `fifos` is a function from those.  A FIFO outlives the entries a drain  *)
(* takes from it, with the sequence number of the last state it took in.   *)
(*                                                                         *)
(* `life` is no field of the code.  It numbers the spawns of a player, on  *)
(* the spawn and on the states that follow it, so that properties can tell *)
(* one life of an actor from the next under the same identity.             *)
(***************************************************************************)
EXTENDS Naturals, Sequences, SequencesExt, FiniteSets, Functions

CONSTANTS
  Pid,          \* player ids
  Incarnation,  \* incarnation ids
  MaxFifos,     \* kMaximumRemotePlayers
  MaxControls,  \* kMaximumPendingControlCommands
  FifoDepth,    \* kStateFifoDepth
  SeqRange,     \* 2^32: the range of a state's sequence number
  Room,         \* rooms of the game's world
  NoRoom,       \* not in the world
  MaxLife       \* bound: spawns of one player

ASSUME QueueAssumption ==
  /\ MaxFifos \in Nat \ {0}
  /\ MaxControls \in Nat \ {0}
  /\ FifoDepth \in Nat \ {0}
  /\ SeqRange \in Nat \ {0, 1}
  /\ NoRoom \notin Room
  /\ MaxLife \in Nat

VARIABLES
  controls,  \* controls_ up to control_count_
  fifos      \* the fifos_ in use

queueVars == <<controls, fifos>>

Key == [pid : Pid, inc : Incarnation]
Life == 1..MaxLife
Where == Room \cup {NoRoom}
Seqno == 0..(SeqRange - 1)

Spawn == [op : {"spawn"}, key : Key, life : Life]
Despawn == [op : {"despawn"}, key : Key]
Sample == [op : {"state"}, key : Key, life : Life, seq : Seqno,
           room : Where]
Command == Spawn \cup Despawn \cup Sample

Fifo == [ring : Seq(Sample), last : Seqno]

(* SequenceNewer: newer by less than half of the 32-bit range.             *)
Newer(candidate, baseline) ==
  LET delta == (candidate + SeqRange - baseline) % SeqRange
  IN delta # 0 /\ delta < SeqRange \div 2

-----------------------------------------------------------------------------
(* The worker's side, under the lock.                                      *)

(* Mutant of WithoutStates: nothing is forgotten.                          *)
WithoutNoStates(dead) == fifos

(* RemoveStatesForPlayer: the FIFOs of the identities in `dead` are reset. *)
WithoutStates(dead) == Restrict(fifos, DOMAIN fifos \ dead)

PushControl(cmd, dead) ==
  /\ controls' = Append(controls, cmd)
  /\ fifos' = WithoutStates(dead)

(* A spawn forgets what other incarnations of the player left behind, a    *)
(* despawn whatever the player left behind.                                *)
PushSpawn(cmd) ==
  PushControl(cmd, {k \in Key : k.pid = cmd.key.pid /\ k # cmd.key})

PushDespawn(cmd) ==
  PushControl(cmd, {k \in Key : k.pid = cmd.key.pid})

Stale(cmd) ==
  cmd.key \in DOMAIN fifos /\ ~Newer(cmd.seq, fifos[cmd.key].last)

PushState(cmd) ==
  /\ ~Stale(cmd)
  /\ LET old == IF cmd.key \in DOMAIN fifos THEN fifos[cmd.key].ring ELSE <<>>
         kept == IF Len(old) = FifoDepth THEN Tail(old) ELSE old
     IN fifos' = [k \in DOMAIN fifos \cup {cmd.key} |->
          IF k = cmd.key
          THEN [ring |-> Append(kept, cmd), last |-> cmd.seq]
          ELSE fifos[k]]
  /\ UNCHANGED controls

(* Mutant of Overflows: full one command too late.                         *)
OverflowsLate(cmd) ==
  IF cmd.op = "state"
  THEN cmd.key \notin DOMAIN fifos /\ Cardinality(DOMAIN fifos) > MaxFifos
  ELSE Len(controls) > MaxControls

(* RemoteQueueResult::overflow: nothing is queued.                         *)
Overflows(cmd) ==
  IF cmd.op = "state"
  THEN cmd.key \notin DOMAIN fifos /\ Cardinality(DOMAIN fifos) = MaxFifos
  ELSE Len(controls) = MaxControls

Enqueue(cmd) ==
  /\ ~Overflows(cmd)
  /\ \/ cmd.op = "spawn" /\ PushSpawn(cmd)
     \/ cmd.op = "despawn" /\ PushDespawn(cmd)
     \/ cmd.op = "state" /\ PushState(cmd)
     \/ cmd.op = "state" /\ Stale(cmd) /\ UNCHANGED queueVars

-----------------------------------------------------------------------------
(* The game thread's side.                                                 *)

(* TryDrain: the lists are emptied, the identities and the last sequence   *)
(* numbers stay.                                                           *)
Drain ==
  /\ controls' = <<>>
  /\ fifos' = [k \in DOMAIN fifos |-> [fifos[k] EXCEPT !.ring = <<>>]]

QueueInit ==
  /\ controls = <<>>
  /\ fifos = [k \in {} |-> 0]

QueueTypeOK ==
  /\ controls \in Seq(Spawn \cup Despawn)
  /\ Len(controls) <= MaxControls
  /\ DOMAIN fifos \in SUBSET Key
  /\ fifos \in [DOMAIN fifos -> Fifo]
  /\ Cardinality(DOMAIN fifos) <= MaxFifos
  /\ \A k \in DOMAIN fifos : Len(fifos[k].ring) <= FifoDepth
=============================================================================
