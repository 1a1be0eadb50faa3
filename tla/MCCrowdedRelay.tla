---------------------------- MODULE MCCrowdedRelay ----------------------------
(***************************************************************************)
(* Instances of CrowdedRelay.                                              *)
(*                                                                         *)
(*   MCRelay           never crowded; every fault: lost transports and     *)
(*                     packets, connect timeouts, a broken pipe, a         *)
(*                     coordinator that is killed or stopped and starts    *)
(*                     again, handing out the same ids; the other player   *)
(*                     may ask for the sidecar's own name (me)             *)
(*   MCCrowdedRelay    two other players (p1, p2) and room for one; the    *)
(*                     sidecar has one transport, which it may use again;  *)
(*                     crashes and losses, without the states              *)
(***************************************************************************)
EXTENDS MCRelay, CrowdedRelay

CONSTANTS b, p2

PeerSymmetry == Permutations({p1, p2})
=============================================================================
