--------------------------- MODULE MCCoordinator ---------------------------
(***************************************************************************)
(* One reader (r) and three more transports, three names, a session for    *)
(* three, three admissions per coordinator process and two processes: the  *)
(* smallest instance in which a peer leaves and its name returns, on the   *)
(* same or on another transport, while the reader is still behind; in      *)
(* which the reader joins a roster of two; and in which a hello is refused *)
(* for a full session as well as for a name in use.                        *)
(***************************************************************************)
EXTENDS Coordinator, TLC

CONSTANTS n1, n2, n3, r, p1, p2, p3

Symmetry == Permutations({p1, p2, p3}) \cup Permutations({n1, n2, n3})
=============================================================================
