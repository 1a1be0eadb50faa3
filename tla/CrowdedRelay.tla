------------------------------ MODULE CrowdedRelay ------------------------------
(***************************************************************************)
(* Relay with one history variable, which no action reads: whether the     *)
(* coordinator has had more members, since the sidecar last dialled, than  *)
(* the adapter has actors for.  A session takes 64 players, a sidecar      *)
(* seven remote ones (types.hpp:20-21, network_adapter.hpp:23-26).         *)
(***************************************************************************)
EXTENDS Relay

VARIABLE crowded

crowdVars == <<vars, crowded>>

(* The sidecar and more others than it has actors for.                     *)
Overfull == Cardinality(DOMAIN members) > MaxRemotes + 1

CrowdInit == Init /\ crowded = FALSE

CrowdNext ==
  /\ Next
  /\ crowded' = (Overfull' \/ (crowded /\ conn' \in {conn, NoConn}))

CrowdSpec == CrowdInit /\ [][CrowdNext]_crowdVars

(* The checks of handle_message that end the session because the           *)
(* coordinator broke the membership stream never fire against this         *)
(* coordinator: whatever the interleaving of batches, losses, reconnects   *)
(* and restarts, no message advertises the player itself, a second peer of *)
(* one name, changed metadata, a state of another session or a conflicting *)
(* identity.  One check does fire: a peer too many, and only if the        *)
(* session really had more players than the adapter can show               *)
(* (network_adapter.cpp:459-625, and 489-492 for the peer too many).       *)
NeverAccused ==
  \/ fault \in {"none", "pipe", "appearance", "outside session"}
  \/ fault = "too many" /\ crowded
=============================================================================
