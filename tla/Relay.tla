-------------------------------- MODULE Relay --------------------------------
(***************************************************************************)
(* The coordinator, one sidecar and the network between them.  The other   *)
(* players are connections that behave as the protocol lets them: they     *)
(* join, send states, leave, break the protocol or vanish.  Packets of one *)
(* channel stay in order; the two channels do not wait for each other;     *)
(* datagrams of the state channel may be lost; transports may break; the   *)
(* coordinator may be stopped, killed and started again.                   *)
(***************************************************************************)
EXTENDS Sidecar

CONSTANTS
  PeerName,  \* names the other players use
  MaxSeqNo,  \* bound: sequence numbers in use are 1..MaxSeqNo
  Reserved,  \* bound: player ids the others leave to the sidecar
  Faults     \* subset of {"crash", "stop", "lost", "timeout", "misuse"}

ASSUME RelayAssumption ==
  /\ PeerName \subseteq Name
  /\ Reserved \in Nat
  /\ MaxSeqNo \in Nat /\ MaxSeqNo < SeqRange

vars == <<sessionVars, sidecarVars>>

PeerConn == Conn \ MyConn

Init == SessionInit /\ SidecarInit

-----------------------------------------------------------------------------
(* The environment: the other players.                                     *)

PeerOpens(c) == Connect(c)

PeerHello(c) ==
  /\ nextPlayer + Reserved <= MaxPlayerId
  /\ \E hello \in [name : PeerName, inc : Incarnation, flaw : {"none"}] :
       Accept(c, hello) \/ Refuse(c, hello)

PeerState(c) ==
  /\ Member(c)
  /\ \E seq \in 1..MaxSeqNo, inWorld \in BOOLEAN :
       RelayState(c, [session |-> session, pid |-> members[c].id.pid,
                      inc |-> members[c].id.inc, seq |-> seq,
                      inWorld |-> inWorld])

PeerGoes(c) ==
  \/ ReceiveDisconnect(c)
  \/ TransportLost(c)

Peers ==
  \E c \in PeerConn :
    PeerOpens(c) \/ PeerHello(c) \/ PeerState(c) \/ PeerGoes(c)

-----------------------------------------------------------------------------
(* The coordinator serves the sidecar's transports.                        *)

Consume(c) == up' = [up EXCEPT ![c] = Tail(@)]

OthersOfSidecar == <<conn, net, dialVars, assigned, phase, events, adapterVars>>

ServeHello(c) ==
  /\ up[c] # <<>> /\ Head(up[c]).type = "hello"
  /\ Accept(c, Head(up[c]).hello) \/ Refuse(c, Head(up[c]).hello)
  /\ Consume(c)
  /\ UNCHANGED OthersOfSidecar

ServeDisconnect(c) ==
  /\ up[c] # <<>> /\ Head(up[c]).type = "disconnect"
  /\ ReceiveDisconnect(c)
  /\ Consume(c)
  /\ UNCHANGED OthersOfSidecar

(* ENet gives up a transport of the sidecar: always possible once the      *)
(* sidecar left it, otherwise a fault.                                     *)
MyTransportLost(c) ==
  /\ c # conn \/ "lost" \in Faults
  /\ TransportLost(c)
  /\ UNCHANGED sidecarVars

(* The sidecar's own state, stamped with the identity of its welcome.      *)
(* Only its identity matters: the sidecar makes nothing of an echo.        *)
MyState(seq) ==
  /\ phase = "idle" /\ net = "connected"
  /\ Member(conn)
  /\ LET st == [session |-> assigned.session, pid |-> assigned.pid,
                inc |-> inc, seq |-> seq, inWorld |-> TRUE]
     IN RelayState(conn, st) \/ IgnoreState(conn, st)
  /\ UNCHANGED sidecarVars

Coordinate ==
  \E c \in MyConn : ServeHello(c) \/ ServeDisconnect(c)

-----------------------------------------------------------------------------
(* The network.                                                            *)

LoseState(c) ==
  /\ unrel[c] # <<>>
  /\ unrel' = [unrel EXCEPT ![c] = Tail(@)]
  /\ UNCHANGED <<now, session, running, tables, nextSnapshot, rel>>
  /\ UNCHANGED sidecarVars

(* What was sent to a transport the sidecar has left is never read, and    *)
(* what it sent over one the coordinator does not route never served.      *)
Garbage(c) ==
  \/ c # conn /\ (rel[c] # <<>> \/ unrel[c] # <<>>)
  \/ c \notin registered /\ up[c] # <<>>

Discard(c) ==
  /\ Garbage(c)
  /\ rel' = [rel EXCEPT ![c] = IF c # conn THEN <<>> ELSE @]
  /\ unrel' = [unrel EXCEPT ![c] = IF c # conn THEN <<>> ELSE @]
  /\ up' = [up EXCEPT ![c] = IF c \notin registered THEN <<>> ELSE @]
  /\ UNCHANGED <<now, session, running, tables, nextSnapshot, OthersOfSidecar>>

(* A dead coordinator retransmits nothing.                                 *)
LoseReliable(c) ==
  /\ c = conn /\ c \notin registered /\ rel[c] # <<>>
  /\ rel' = [rel EXCEPT ![c] = <<>>]
  /\ UNCHANGED <<now, session, running, tables, nextSnapshot, unrel>>
  /\ UNCHANGED sidecarVars

Network == \E c \in MyConn : LoseState(c) \/ LoseReliable(c)

-----------------------------------------------------------------------------
(* The sidecar's thread, split by what each step does.                     *)

Shake == \E flaw \in MyFlaws : Handshake(flaw)

Dial == \E c \in MyConn, i \in Incarnation : ConnectNew(c, i)

(* The coordinator no longer answers on the client's transport.            *)
Abandoned ==
  /\ conn \notin registered
  /\ \/ net = "connected" /\ ServiceLost
     \/ greeted /\ ConnectTimeout

Poll ==
  \/ PollBegin
  \/ ServiceReliable
  \/ ServiceState
  \/ Abandoned
  \/ "lost" \in Faults /\ (ServiceLost \/ ServiceFailed)
  \/ PollEnd
  \/ "timeout" \in Faults /\ ConnectTimeout

Handle ==
  \/ HandleConnected
  \/ HandleRejected
  \/ HandleViolation
  \/ HandleDisconnected
  \/ HandleError
  \/ HandleFlawed
  \/ HandleJoined
  \/ HandleLeft
  \/ HandleStates

Silence ==
  \E gone \in SUBSET HeardFrom : \E quiet \in SUBSET (HeardFrom \ gone) :
    PumpEnd(gone, quiet) \/ PumpIdle(gone, quiet)

Thread == Dial \/ Shake \/ Poll \/ Handle \/ Silence \/ FirstSample

Misuse ==
  /\ "misuse" \in Faults
  /\ StopOrPipeLost \/ ConflictingSample

Process ==
  \/ "stop" \in Faults /\ Shutdown
  \/ "crash" \in Faults /\ Crash
  \/ Start
  \/ Tick

Proceed ==
  \/ (Peers \/ Process) /\ UNCHANGED sidecarVars
  \/ Coordinate
  \/ \E c \in MyConn : MyTransportLost(c)
  \/ \E seq \in 1..MaxSeqNo : MyState(seq)
  \/ Network
  \/ Thread
  \/ Misuse

(* What nobody will read is discarded at once, before anything else: it    *)
(* would only multiply the states.                                         *)
Next ==
  \/ \E c \in MyConn : Discard(c)
  \/ (\A c \in MyConn : ~Garbage(c)) /\ Proceed

Spec == Init /\ [][Next]_vars

(* Every loop keeps turning; a packet in flight, a hello served, a silent  *)
(* transport given up, the next dial: none is put off for ever by what     *)
(* happens between.                                                        *)
Fairness ==
  /\ WF_vars(Thread)
  /\ SF_vars(Dial) /\ SF_vars(Shake)
  /\ SF_vars(ServiceReliable) /\ SF_vars(Abandoned)
  /\ WF_vars(\E c \in MyConn : Discard(c))
  /\ SF_vars(\E c \in MyConn : ServeHello(c))
  /\ SF_vars(\E c \in MyConn \ {conn} : MyTransportLost(c))

FairSpec == Spec /\ Fairness

-----------------------------------------------------------------------------
TypeOK == SessionTypeOK /\ SidecarTypeOK

(* The commands written to the bridge leave exactly the actors that the    *)
(* roster calls spawned: one per player, none of a peer that left, of an   *)
(* earlier incarnation or of an earlier session, at most MaxRemotes.       *)
ActorsMatchRoster ==
  pipe = "live" =>
    /\ actors = {Actor(pid) : pid \in Spawned}
    /\ Cardinality(actors) <= MaxRemotes

(* What the coordinator sends reliably never breaks the protocol for the   *)
(* client: the welcome comes once and before anything else of the session, *)
(* and nothing comes after the disconnect.  A client that fails on what it *)
(* received was overtaken by a state datagram, which may come before the   *)
(* welcome or after the end, and which its protocol check holds against    *)
(* the coordinator for good (client.cpp:319-367).                          *)
OnlyOvertakingViolates ==
  [][net # "failed" /\ net' = "failed" => rel' = rel]_vars

(* The abstract feed.  What is on its way to the adapter are the welcome   *)
(* and the membership messages polled and not handled, and those in the    *)
(* transport as long as the client takes them for gameplay.                *)
Listening == conn # NoConn /\ net \in {"connecting", "connected"}

Admitted == Listening /\ Member(conn)

Player == [pid : 1..MaxPlayerId, inc : Incarnation, name : Name]

Others == {members[d].id : d \in DOMAIN members \ {conn}}

Roster == IF Admitted THEN Others ELSE {}

View ==
  {[pid |-> pid, inc |-> remotes[pid].inc, name |-> remotes[pid].name] :
     pid \in DOMAIN remotes}

Polled(e) ==
  CASE e.kind = "message" -> e.msg
    [] e.kind = "connected" -> [type |-> "welcome"]
    [] OTHER -> [type |-> "none"]

Membership(m) == m.type \in {"welcome", "joined", "left"}

Way ==
  [i \in 1..Len(events) |-> Polled(events[i])]
    \o (IF Listening THEN rel[conn] ELSE <<>>)

(* The roster that a message makes of the one before it.                   *)
After(before, m) ==
  CASE m.type = "welcome" -> {}
    [] m.type = "joined" ->
         {p \in before : p.pid # m.peer.pid} \cup {m.peer}
    [] m.type = "left" ->
         {p \in before : p.pid # m.pid \/ p.inc # m.inc}

(* The rosters told of so far, and what the next message adds to them.     *)
Told(seen, m) ==
  IF Membership(m) THEN Append(seen, After(seen[Len(seen)], m)) ELSE seen

Rosters(before, way) ==
  LET seen[i \in 0..Len(way)] ==
        IF i = 0 THEN <<before>> ELSE Told(seen[i - 1], way[i])
  IN seen[Len(way)]

Lag == Tail(Rosters(View, Way))

Feed == INSTANCE RosterFeed WITH
  Player <- Player,
  open <- Admitted,
  roster <- Roster,
  view <- View,
  lag <- Lag

(* Hello, welcome, membership messages, transports that are lost and       *)
(* found again, batches and restarts implement the feed: what the sidecar  *)
(* takes for the roster is always one the coordinator had, reached one     *)
(* change at a time, and nothing is left out between two welcomes.         *)
FeedSpec == Feed!Spec

(* ENet gives up a transport that works, or a connect times out.           *)
BadLuck ==
  \/ conn \in registered /\ (ServiceLost \/ ConnectTimeout)
  \/ ServiceFailed
  \/ conn # NoConn /\ MyTransportLost(conn)

(* Once a coordinator stays up and the network behaves, the sidecar ends   *)
(* up admitted to it for good, whatever crashes and losses came before:    *)
(* "transport failures [...] are reconnectable" (client.hpp:54).  Excluded *)
(* are the end of the model's player ids, and a sidecar that was refused   *)
(* before it ever had a welcome: the coordinator may have admitted a first *)
(* attempt whose welcome came too late, and its name is then taken.        *)
ReconnectsAfterCrash ==
  /\ <>[](running /\ nextPlayer <= MaxPlayerId)
  /\ <>[][~BadLuck]_vars
  => <>[](net = "connected") \/ <>(terminal /\ ~ever)

(* client.hpp:54: "an orderly coordinator restart" is reconnectable: once  *)
(* the shutdown notice was polled, handling it and what came with it must  *)
(* not make the sidecar give up for good.                                  *)
RestartIsReconnectable ==
  [][(\E i \in 1..Len(events) : events[i].kind = "disconnected"
                                /\ events[i].reason = "server_shutdown")
     => fault' # "outside session" /\ (terminal' => terminal)]_vars

=============================================================================
