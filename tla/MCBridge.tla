------------------------------- MODULE MCBridge -------------------------------
(***************************************************************************)
(* Instance of Bridge: a Steam game with the online world, and a GOG game  *)
(* with remote actors and auto enter; each part may fail to install.       *)
(***************************************************************************)
EXTENDS Bridge

CONSTANTS n1, m1

MCRequests == {{"telemetry", "actors", "online", "steam"},
               {"telemetry", "actors", "auto"}}
=============================================================================
