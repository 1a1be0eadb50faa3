------------------------------- MODULE MCStream -------------------------------
(***************************************************************************)
(* Instance of Stream: a few samples of one player, with the wrap of the   *)
(* sequence number and at most one teleport, absence or flawed sample.     *)
(***************************************************************************)
EXTENDS Stream

CONSTANTS r1, r2

\* Nothing tells the rooms apart.
Rooms == Permutations({r1, r2})
=============================================================================
