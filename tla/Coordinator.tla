---------------------------- MODULE Coordinator ----------------------------
(***************************************************************************)
(* The coordinator with ideal readers: every watched connection reads its  *)
(* reliable packets in order and keeps the set of peers it was told about. *)
(* The module is about membership: whatever the order in which clients     *)
(* connect, are refused, leave, break the protocol or disappear, and       *)
(* whatever restarts the coordinator goes through, the roster a reader     *)
(* assembles from the stream is the coordinator's.                         *)
(***************************************************************************)
EXTENDS Session

VARIABLE view  \* the peers each connection's reader knows of

vars == <<sessionVars, view>>

Init ==
  /\ SessionInit
  /\ view = [x \in Watched |-> {}]

(* What reading m makes of a known roster v.                               *)
Apply(v, m) ==
  CASE m.type = "joined" -> v \cup {m.peer}
    [] m.type = "left" -> {p \in v : p.pid # m.pid \/ p.inc # m.inc}
    [] m.type \in {"welcome", "disconnect", "closed"} -> {}
    [] OTHER -> v

Deliver(c) ==
  /\ rel[c] # <<>>
  /\ view' = [view EXCEPT ![c] = Apply(@, Head(rel[c]))]
  /\ rel' = [rel EXCEPT ![c] = Tail(@)]
  /\ UNCHANGED <<now, session, running, tables, nextSnapshot, unrel>>

(* The reader of a transport the coordinator no longer routes to is gone.  *)
Forget(c) ==
  /\ c \notin registered
  /\ rel[c] # <<>> \/ view[c] # {}
  /\ rel' = [rel EXCEPT ![c] = <<>>]
  /\ view' = [view EXCEPT ![c] = {}]
  /\ UNCHANGED <<now, session, running, tables, nextSnapshot, unrel>>

(* A new transport starts with an empty roster.                            *)
Open(c) ==
  /\ Connect(c)
  /\ c \in Watched => view[c] = {}
  /\ UNCHANGED view

Serve(c) ==
  \/ \E hello \in Hello : Accept(c, hello) \/ Refuse(c, hello)
  \/ RejectPacket(c)
  \/ ReceiveDisconnect(c)
  \/ ReceivePing(c)
  \/ TransportLost(c)

Next ==
  \/ \E c \in Conn : Open(c)
  \/ (\E c \in Conn : Serve(c)) /\ UNCHANGED view
  \/ (Shutdown \/ Crash \/ Start) /\ UNCHANGED view
  \/ \E c \in Watched : Deliver(c) \/ Forget(c)

Spec == Init /\ [][Next]_vars

-----------------------------------------------------------------------------
TypeOK ==
  /\ SessionTypeOK
  /\ view \in [Watched -> SUBSET Identity]

(* The peers other than c's own, as the coordinator's table has them.      *)
Others(c) == {members[d].id : d \in DOMAIN members \ {c}}

(* Session::accept admits one peer per name and per player id, no more     *)
(* than max_players, and never an id it might hand out again.              *)
PeersDistinct ==
  /\ Cardinality(DOMAIN members) <= MaxPlayers
  /\ \A c \in DOMAIN members :
       /\ members[c].id.pid < nextPlayer
       /\ \A d \in DOMAIN members \ {c} :
            /\ members[c].id.pid # members[d].id.pid
            /\ members[c].id.name # members[d].id.name

(* A member that has read everything sent to it knows exactly the others:  *)
(* no join or leave is lost, doubled or reordered by the routes of accept  *)
(* (session.cpp:69-74) and disconnect (session.cpp:156-162).               *)
RosterConverges ==
  \A c \in Watched \cap DOMAIN members :
    rel[c] = <<>> => view[c] = Others(c)

(* At no moment does a member's reader know two peers with one name or one *)
(* id, or a peer with the member's own: the sidecar takes either for a     *)
(* coordinator error and gives up (network_adapter.cpp:473-486).           *)
ReadersNeverConfused ==
  \A c \in Watched \cap DOMAIN members :
    \A p, q \in view[c] \cup {members[c].id} :
      p.pid = q.pid \/ p.name = q.name => p = q
=============================================================================
