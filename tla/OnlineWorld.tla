----------------------------- MODULE OnlineWorld -----------------------------
(***************************************************************************)
(* The world without stock traffic (bridge/online_world.cpp and            *)
(* online_world_policy.cpp).  Once its hooks are installed the game's own  *)
(* creation of traffic is suppressed for the life of the process; the game *)
(* thread also removes, after every tick, whatever mission code created    *)
(* directly.  A runtime failure, or the worker's request, is a latch that  *)
(* stops the removal and never the suppression.                            *)
(*                                                                         *)
(* Of the two count tables the model keeps whether the targets are the     *)
(* game's own or the clamped ones; of the AI player list its stock actors: *)
(* what the bridge owns (RemoteActorOwnsPlayerId) is skipped by the scan   *)
(* and is ActorBackend's.  Statistics, the watchdog of the background tick *)
(* and the focus-loss handler are left out.                                *)
(***************************************************************************)
EXTENDS Naturals, FiniteSets

CONSTANTS
  Native,   \* stock actors of the game's own traffic
  Mission,  \* stock actors of missions
  MaxStock  \* bound: stock actors at a time

ASSUME OnlineAssumption ==
  /\ Native \cap Mission = {}
  /\ MaxStock \in Nat

VARIABLES
  online,     \* g_ready: hooks installed
  onlineSafe, \* g_safe_mode_requested
  failed,     \* g_validation_failures # 0
  sanitized,  \* g_sanitized
  creating,   \* the game runs CreatePlayersRegular, called by the detour
  clamped,    \* the game's target counts are the clamped ones
  stock       \* stock actors in the list

onlineVars == <<online, onlineSafe, failed, sanitized, creating, clamped>>

OnlineTypeOK ==
  /\ {online, onlineSafe, failed, sanitized, creating, clamped}
       \subseteq BOOLEAN
  /\ stock \subseteq Native \cup Mission

(* Mutant of Suppressed: a failure hands traffic back to the game.         *)
SuppressedWhileActive == online /\ ~onlineSafe

(* suppression_latched.                                                    *)
Suppressed == online

Active == online /\ ~onlineSafe

(* RequestSteamOnlineWorldSafeMode.                                        *)
LatchOnline ==
  /\ onlineSafe' = TRUE
  /\ sanitized' = FALSE
  /\ UNCHANGED <<online, failed, creating, clamped>>

(* fail_runtime; its caller also latches the remote actors.                *)
FailRuntime ==
  /\ failed' = TRUE /\ onlineSafe' = TRUE /\ sanitized' = FALSE
  /\ UNCHANGED <<online, creating, clamped>>

-----------------------------------------------------------------------------
(* The detours.                                                            *)

(* UpdateGhosts, UpdateDealers and the parking's orders: the original or   *)
(* nothing.                                                                *)
NativeTraffic ==
  /\ ~Suppressed /\ Cardinality(stock) < MaxStock
  /\ stock' \in {stock \cup {s} : s \in Native \ stock}
  /\ UNCHANGED onlineVars

(* CreatePlayersRegular before its original: the tables clamped, or one of *)
(* a foreign thread, an unreadable table and a failed write.  In safe mode *)
(* there is no original.                                                   *)
CreateRegular(fails) ==
  /\ Active /\ ~creating
  /\ \/ /\ ~fails
        /\ creating' = TRUE /\ clamped' = TRUE
        /\ UNCHANGED <<online, onlineSafe, failed, sanitized>>
     \/ fails /\ FailRuntime
  /\ UNCHANGED stock

(* Mutant of CreatedRegular: no restore once the latch is set.             *)
CreatedUnlessLatched(fails) ==
  /\ creating
  /\ creating' = FALSE
  /\ clamped' = (fails \/ onlineSafe)
  /\ failed' = (failed \/ fails)
  /\ onlineSafe' = (onlineSafe \/ fails)
  /\ sanitized' = (sanitized /\ ~fails)
  /\ UNCHANGED <<online, stock>>

(* The original returned or raised: the targets are written back.          *)
CreatedRegular(fails) ==
  /\ creating
  /\ creating' = FALSE
  /\ clamped' = fails
  /\ failed' = (failed \/ fails)
  /\ onlineSafe' = (onlineSafe \/ fails)
  /\ sanitized' = (sanitized /\ ~fails)
  /\ UNCHANGED <<online, stock>>

(* Code of a mission that creates an actor without the hooked functions.   *)
MissionTraffic ==
  /\ Cardinality(stock) < MaxStock
  /\ stock' \in {stock \cup {s} : s \in Mission \ stock}
  /\ UNCHANGED onlineVars

(* The world goes, its list with it.  The pre-reset detour purges the      *)
(* remote actors and calls NotifySteamOnlineWorldRegistryReset.            *)
RegistryReset ==
  /\ stock' = {}
  /\ sanitized' = (sanitized /\ ~online)
  /\ UNCHANGED <<online, onlineSafe, failed, creating, clamped>>

-----------------------------------------------------------------------------
(* TickSteamOnlineWorld.                                                   *)

(* Outside a world there is nothing to sanitize.                           *)
OutsideWorld ==
  /\ sanitized' = (sanitized /\ ~Active)
  /\ UNCHANGED <<online, onlineSafe, failed, creating, clamped, stock>>

(* Mutant of SanitizeRegistry: a world once sanitized is not scanned again.*)
SanitizeOnce ==
  /\ stock' = IF sanitized THEN stock ELSE {}
  /\ sanitized' = TRUE
  /\ UNCHANGED <<online, onlineSafe, failed, creating, clamped>>

(* sanitize_registry: scan and kill until no stock actor is left.          *)
SanitizeRegistry ==
  /\ stock' = {}
  /\ sanitized' = TRUE
  /\ UNCHANGED <<online, onlineSafe, failed, creating, clamped>>

(* A list that does not validate, or a kill that raises: what was killed   *)
(* before stays killed.                                                    *)
SanitizeFails ==
  /\ stock' \in SUBSET stock
  /\ FailRuntime
=============================================================================
