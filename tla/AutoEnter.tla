------------------------------ MODULE AutoEnter ------------------------------
(***************************************************************************)
(* Entering the saved world without the player's clicks                    *)
(* (bridge/auto_enter.cpp).  The detours of the main menu dispatch the     *)
(* game's own two menu events once; meanwhile the tick of another hook may *)
(* find the world loaded and the pipe worker may disarm.  `menu` is where  *)
(* try_dispatch stands: it has checked the state and the objects, it has   *)
(* claimed the dispatch, or it is not running.                             *)
(***************************************************************************)
EXTENDS Naturals

VARIABLES
  auto,      \* g_state
  menu,      \* how far try_dispatch is
  attempts,  \* g_attempts
  disarmed   \* DisableAutoEnterNoWait has returned (no field of the code)

autoVars == <<auto, menu, attempts, disarmed>>

AutoTypeOK ==
  /\ auto \in {"disabled", "armed", "dispatching", "load_dispatched",
               "world_ready", "failed"}
  /\ menu \in {"idle", "checked", "claimed"}
  /\ attempts \in 0..1
  /\ disarmed \in BOOLEAN

(* The detours' check: a foreign thread or a menu object that is not the   *)
(* verified one fails for good; a panel that is not there yet is a retry   *)
(* at the next event and changes nothing.                                  *)
CheckMenu ==
  /\ auto = "armed" /\ menu = "idle"
  /\ \/ menu' = "checked" /\ UNCHANGED auto
     \/ auto' = "failed" /\ UNCHANGED menu
  /\ UNCHANGED <<attempts, disarmed>>

(* Mutant of ClaimDispatch: the state is not compared again.               *)
ClaimAnyway ==
  /\ menu = "checked"
  /\ auto' = "dispatching" /\ menu' = "claimed" /\ attempts' = attempts + 1
  /\ UNCHANGED disarmed

(* The compare-exchange from armed to dispatching.                         *)
ClaimDispatch ==
  /\ menu = "checked"
  /\ \/ /\ auto = "armed"
        /\ auto' = "dispatching" /\ menu' = "claimed"
        /\ attempts' = attempts + 1
     \/ /\ auto # "armed"
        /\ menu' = "idle"
        /\ UNCHANGED <<auto, attempts>>
  /\ UNCHANGED disarmed

(* The two events, with the panel verified once more in between.  The last *)
(* assignment does not look at the state.                                  *)
FinishDispatch ==
  /\ menu = "claimed"
  /\ menu' = "idle"
  /\ auto' \in {"load_dispatched", "failed"}
  /\ UNCHANGED <<attempts, disarmed>>

(* NotifyAutoEnterWorldReady.                                              *)
WorldReady ==
  /\ auto' = IF auto \in {"armed", "dispatching", "load_dispatched"}
             THEN "world_ready" ELSE auto
  /\ UNCHANGED <<menu, attempts, disarmed>>

(* DisableAutoEnterNoWait reads the state (`armed` is what it read) and    *)
(* then writes it.                                                         *)
Disarm(armed) ==
  /\ auto' = IF armed THEN "disabled" ELSE auto
  /\ disarmed' = TRUE
  /\ UNCHANGED <<menu, attempts>>
=============================================================================
