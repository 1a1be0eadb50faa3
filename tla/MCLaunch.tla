------------------------------- MODULE MCLaunch -------------------------------
(* Two good sources, apart from the runtime root; two launches, one command  *)
(* or update on the console.                                                 *)
EXTENDS Launch

CONSTANTS g1, g2

MCStager == {"launcher", "console"}
MCSource == {g1, g2}
MCNested == {}
MCSaveName == {"driver", "backup", "legacy", "other", "temporary"}
=============================================================================
