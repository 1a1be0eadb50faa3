---------------------------- MODULE MCStateRelay ----------------------------
(***************************************************************************)
(* Instances of StateRelay.  MCStateRelay: a watched member and another,   *)
(* each free to claim to be the other, sequence numbers of two bits (so    *)
(* that they wrap and half of the range is 2), channels of two datagrams,  *)
(* snapshots of one player each, and a rate limit that never bites.        *)
(* MCStateRate: one member alone, two states per window of two ticks, and  *)
(* a clock that passes two windows and a half.                             *)
(***************************************************************************)
EXTENDS StateRelay

CONSTANTS n1, n2, w, p
=============================================================================
