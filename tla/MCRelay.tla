------------------------------ MODULE MCRelay ------------------------------
(***************************************************************************)
(* Instances of Relay.  The sidecar has two transports to alternate        *)
(* between (m1, m2), another player has one (p1).                          *)
(*                                                                         *)
(*   MCRelayCrash      liveness and the abstract feed: crashes, losses and *)
(*                     timeouts, without the states                        *)
(*   MCRelayStopped    an orderly restart                                  *)
(***************************************************************************)
EXTENDS Relay, TLC

CONSTANTS me, a, i1, m1, m2, p1

Symmetry == Permutations({m1, m2})

(* Bound: the world is followed no further than the sidecar's thread is    *)
(* alive, and to the end of the batch it was handling.                     *)
Followed == pipe = "live" \/ phase # "idle"
=============================================================================
