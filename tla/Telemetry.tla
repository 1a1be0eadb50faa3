------------------------------ MODULE Telemetry ------------------------------
(***************************************************************************)
(* The local player's telemetry in the game process (bridge/telemetry.cpp, *)
(* with the thread guard of bridge/hook_thread_guard.hpp).  After every AI *)
(* tick the game thread looks at the local vehicle and leaves a sample in  *)
(* a slot of size one; the pipe worker takes it.  The game thread never    *)
(* waits: it publishes under a try-lock and gives up when the worker holds *)
(* the slot.                                                               *)
(*                                                                         *)
(* A sample is "visible" or "hidden" (flags 0: in a menu, loading); its    *)
(* pose, location, time and wire sequence number are left out.             *)
(***************************************************************************)
VARIABLES
  hooked,    \* g_hook_ready
  enabled,   \* g_telemetry_enabled
  wasIn,     \* g_was_in_world
  latest,    \* g_latest: what is pending, "none" for nothing
  locked,    \* the worker holds the lock of g_latest
  mismatch   \* g_hook_thread_guard counted a foreign thread

telemetryVars == <<hooked, enabled, wasIn, latest, locked, mismatch>>

Sample == {"visible", "hidden"}

TelemetryTypeOK ==
  /\ {hooked, enabled, wasIn, locked, mismatch} \subseteq BOOLEAN
  /\ latest \in Sample \cup {"none"}

-----------------------------------------------------------------------------
(* The game thread.                                                        *)

(* publish: the newest sample replaces one the worker has not taken.       *)
PublishSample ==
  /\ latest' = IF locked THEN latest ELSE "visible"

(* Mutant of PublishHidden: the transition counts as sent in any case.     *)
PublishHiddenOnce ==
  /\ latest' = IF locked THEN latest ELSE "hidden"
  /\ wasIn' = FALSE

(* publish_hidden and its caller: the world counts as left only when the   *)
(* transition was published, so that the next tick tries again.            *)
PublishHidden ==
  /\ latest' = IF locked THEN latest ELSE "hidden"
  /\ wasIn' = locked

-----------------------------------------------------------------------------
(* The worker.                                                             *)

(* ConsumeLatestLocalSample, in two steps: lock, then take and unlock.     *)
LockSlot ==
  /\ ~locked
  /\ locked' = TRUE
  /\ UNCHANGED <<hooked, enabled, wasIn, latest, mismatch>>

TakeSample ==
  /\ locked
  /\ locked' = FALSE
  /\ latest' = "none"
  /\ UNCHANGED <<hooked, enabled, wasIn, mismatch>>

(* DisableTelemetryNoWait.                                                 *)
DisableTelemetry ==
  /\ enabled' = FALSE
  /\ wasIn' = FALSE
  /\ UNCHANGED <<hooked, latest, locked, mismatch>>

(* SetTelemetryEnabled(true): never again after a foreign thread.          *)
TelemetryCanStart == hooked /\ ~mismatch

EnableTelemetry ==
  /\ enabled' = TelemetryCanStart
  /\ UNCHANGED <<hooked, wasIn, latest, locked, mismatch>>
=============================================================================
