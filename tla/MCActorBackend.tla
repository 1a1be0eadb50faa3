--------------------------- MODULE MCActorBackend ---------------------------
(***************************************************************************)
(* Instances of ActorBackend.                                              *)
(*                                                                         *)
(*   MCActorBackend  one player that leaves and returns, under the same    *)
(*                   incarnation or another; three pending controls, so    *)
(*                   that a game that does not tick overflows them         *)
(*   MCActorPair     two players at a time in one tick, two states each    *)
(*                   with room for one in a FIFO                           *)
(*   MCActorOrphan   a creation whose second half fails                    *)
(***************************************************************************)
EXTENDS ActorBackend

CONSTANTS p1, p2, i1, i2, r1

Symmetry == Permutations({p1, p2}) \cup Permutations({i1, i2})
=============================================================================
