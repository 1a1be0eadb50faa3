------------------------------ MODULE Sidecar ------------------------------
(***************************************************************************)
(* One ht2mp-client sidecar: net::Client (src/net/client.cpp), which turns *)
(* ENet events into client events, and NetworkAdapter                      *)
(* (apps/client/network_adapter.cpp), which turns client events into the   *)
(* roster of remote peers and into commands for the game bridge.           *)
(*                                                                         *)
(* Both run in one thread, in NetworkAdapter::pump.  A pump has two parts, *)
(* `phase` "service" and "handle": Client::poll first drains every ENet    *)
(* event that is ready and updates the client's state as it goes; only     *)
(* then does the adapter look at the resulting client events, one by one,  *)
(* and by then the client's state is that of the LAST event.               *)
(*                                                                         *)
(* Time is abstract: a timeout, a reconnect delay or a peer's silence may  *)
(* end at any pump.  Bridge commands are always enabled, and `actors` is   *)
(* the set of remote actors the commands written to the pipe leave alive.  *)
(***************************************************************************)
EXTENDS Session

CONSTANTS
  MyConn,      \* the connections of this sidecar
  MyName,      \* options_.player_name
  MyFlaws,     \* what admission may find wrong with its hello
  MaxRemotes,  \* kMaximumClientRemoteActors
  MaxBatch,    \* bound: ENet events one poll drains
  NoConn,      \* no transport
  NoSeq        \* no state accepted from a peer yet

ASSUME SidecarAssumption ==
  /\ MyConn \subseteq Watched
  /\ NoConn \notin Conn
  /\ MyName \in Name
  /\ MyFlaws \subseteq Flaw
  /\ MaxRemotes \in Nat
  /\ MaxBatch \in Nat \ {0}

VARIABLES
  up,         \* reliable packets on the way to the coordinator, by connection
  conn,       \* the transport of the current net::Client, or NoConn
  net,        \* ClientState of client_, "none" when client_ is null
  inc,        \* config.incarnation_id of the current client
  greeted,    \* ENet has completed its handshake, the hello is sent
  assigned,   \* assigned_session_id and assigned_player_id, 0 before welcome
  phase,      \* where in a pump the thread is
  events,     \* client events polled and not yet handled
  ready,      \* vehicle_type_ready_
  sessionId,  \* session_id_ of the adapter
  remotes,    \* remotes_: a function from player ids to remote peers
  ever,       \* ever_connected_
  terminal,   \* terminal_rejection_
  pipe,       \* "live", "safe" after EnterSafeMode, "closed" after a failure
  fault,      \* why pump or handle_bridge_frame failed
  actors      \* remote actors alive according to the commands written

dialVars == <<inc, greeted>>
clientVars == <<up, conn, net, dialVars, assigned>>
adapterVars == <<ready, sessionId, remotes, ever, terminal, pipe, fault, actors>>
sidecarVars == <<clientVars, phase, events, adapterVars>>

NetState == {"none", "connecting", "connected", "rejected", "disconnected",
             "failed"}

Remote == [inc : Incarnation, name : Name, last : Nat \cup {NoSeq},
           spawned : BOOLEAN, hidden : BOOLEAN]

Event == [kind : {"connected", "error", "violation"}]
    \cup [kind : {"rejected", "disconnected"}, reason : Reason]
    \cup [kind : {"message"}, msg : ReliableMsg \cup StateMsg]

-----------------------------------------------------------------------------
(* net::Client.                                                            *)

(* The client object is gone: its host closes without a word.              *)
ResetClient ==
  /\ net' = "none"
  /\ conn' = NoConn
  /\ assigned' = [session |-> 0, pid |-> 0]

(* connect_new and Client::start on a fresh transport, with a newly drawn  *)
(* incarnation (two draws of 64 bits may coincide).                        *)
ConnectNew(c, i) ==
  /\ phase = "idle" /\ pipe # "closed" /\ ~terminal
  /\ ready
  /\ net = "none"
  /\ c \notin registered /\ rel[c] = <<>> /\ unrel[c] = <<>> /\ up[c] = <<>>
  /\ net' = "connecting"
  /\ conn' = c
  /\ inc' = i
  /\ greeted' = FALSE
  /\ assigned' = [session |-> 0, pid |-> 0]
  /\ UNCHANGED <<sessionVars, up, phase, events, adapterVars>>

(* ENet completes the handshake: the coordinator registers the transport   *)
(* and the client, on its own CONNECT event, sends the hello.              *)
Handshake(flaw) ==
  /\ conn # NoConn /\ net = "connecting" /\ ~greeted
  /\ greeted' = TRUE
  /\ Connect(conn)
  /\ up' = [up EXCEPT ![conn] =
       <<[type |-> "hello",
          hello |-> [name |-> MyName, inc |-> inc, flaw |-> flaw]]>>]
  /\ UNCHANGED <<conn, net, inc, assigned, phase, events, adapterVars>>

(* Client::poll enters enet_host_service.                                  *)
PollBegin ==
  /\ phase = "idle" /\ pipe # "closed" /\ ~terminal
  /\ net \in {"connecting", "connected"}
  /\ phase' = "service"
  /\ UNCHANGED <<sessionVars, clientVars, events, adapterVars>>

Emit(e) == events' = Append(events, e)

MessageEvent(m) == [kind |-> "message", msg |-> m]

(* fail_server_protocol.                                                   *)
Violate ==
  /\ net' = "failed"
  /\ Emit([kind |-> "violation"])
  /\ UNCHANGED <<conn, assigned>>

(* Client::Impl::handle_event on a received packet or on the end of the    *)
(* transport.                                                              *)
OnWelcome(m) ==
  /\ m.type = "welcome"
  /\ \/ /\ net = "connecting"
        /\ net' = "connected"
        /\ assigned' = [session |-> m.session, pid |-> m.pid]
        /\ Emit([kind |-> "connected"])
        /\ UNCHANGED conn
     \/ /\ net # "connecting"
        /\ Violate

OnDisconnect(m) ==
  /\ m.type = "disconnect"
  /\ IF net = "connected"
     THEN /\ net' = "disconnected"
          /\ Emit([kind |-> "disconnected", reason |-> m.reason])
     ELSE /\ net' = "rejected"
          /\ Emit([kind |-> "rejected", reason |-> m.reason])
  /\ UNCHANGED <<conn, assigned>>

OnClosed(r) ==
  /\ conn' = NoConn
  /\ IF net \in {"rejected", "failed"}
     THEN UNCHANGED <<net, events>>
     ELSE /\ net' = "disconnected"
          /\ Emit([kind |-> "disconnected", reason |-> r])
  /\ UNCHANGED assigned

OnGameplay(m) ==
  /\ m.type \in {"joined", "left", "pong", "state", "snapshot"}
  /\ IF net = "connected"
     THEN Emit(MessageEvent(m)) /\ UNCHANGED <<conn, net, assigned>>
     ELSE Violate

Servicing == phase = "service" /\ conn # NoConn /\ Len(events) < MaxBatch

(* One iteration of poll's loop: a reliable packet is ready.               *)
ServiceReliable ==
  /\ Servicing
  /\ rel[conn] # <<>>
  /\ LET m == Head(rel[conn])
     IN \/ OnWelcome(m)
        \/ OnDisconnect(m)
        \/ m.type = "closed" /\ OnClosed(m.reason)
        \/ OnGameplay(m)
  /\ rel' = [rel EXCEPT ![conn] = Tail(@)]
  /\ UNCHANGED <<now, session, running, tables, nextSnapshot, unrel,
                 up, dialVars, phase, adapterVars>>

(* A state datagram is ready.                                              *)
ServiceState ==
  /\ Servicing
  /\ unrel[conn] # <<>>
  /\ OnGameplay(Head(unrel[conn]))
  /\ unrel' = [unrel EXCEPT ![conn] = Tail(@)]
  /\ UNCHANGED <<now, session, running, tables, nextSnapshot, rel,
                 up, dialVars, phase, adapterVars>>

(* ENet gives the transport up (event.data is 0, the reason "normal"): it  *)
(* checks for timeouts in enet_host_service alone, so nothing precedes it. *)
ServiceLost ==
  /\ Servicing /\ events = <<>>
  /\ OnClosed("normal")
  /\ UNCHANGED <<sessionVars, up, dialVars, phase, adapterVars>>

(* enet_host_service reports an error: poll returns that alone.            *)
ServiceFailed ==
  /\ phase = "service" /\ events = <<>>
  /\ net' = "failed"
  /\ Emit([kind |-> "error"])
  /\ phase' = "handle"
  /\ UNCHANGED <<sessionVars, up, conn, dialVars, assigned, adapterVars>>

(* Nothing else is ready: poll returns.                                    *)
PollEnd ==
  /\ phase = "service"
  /\ phase' = "handle"
  /\ UNCHANGED <<sessionVars, clientVars, events, adapterVars>>

(* The same, and connect_timeout_ms has passed without a welcome: the      *)
(* transport is reset, silently.                                           *)
ConnectTimeout ==
  /\ phase = "service"
  /\ net = "connecting"
  /\ net' = "failed"
  /\ conn' = NoConn
  /\ Emit([kind |-> "error"])
  /\ phase' = "handle"
  /\ UNCHANGED <<sessionVars, up, dialVars, assigned, adapterVars>>

-----------------------------------------------------------------------------
(* NetworkAdapter: commands to the bridge.                                 *)

Actor(pid) == <<pid, remotes[pid].inc>>
Spawned == {pid \in DOMAIN remotes : remotes[pid].spawned}

(* Mutant of Drop: erased without a despawn.                               *)
DropKeepingActors(gone) ==
  /\ remotes' = Restrict(remotes, DOMAIN remotes \ gone)
  /\ UNCHANGED actors

(* remotes_.erase, and a despawn for those that had an actor.              *)
Drop(gone) ==
  /\ remotes' = Restrict(remotes, DOMAIN remotes \ gone)
  /\ actors' = actors \ {Actor(pid) : pid \in Spawned \cap gone}

(* run_staged_game after pump or handle_bridge_frame failed, and whenever  *)
(* the pipe breaks or the program is told to stop: NetworkAdapter::stop    *)
(* says goodbye when admitted, removes every actor and drops the client;   *)
(* the pipe is closed and never pumped again.                              *)
GiveUp(why) ==
  /\ pipe' = "closed"
  /\ fault' = why
  /\ up' = IF net = "connected"
           THEN [up EXCEPT ![conn] = Append(@, [type |-> "disconnect"])]
           ELSE up
  /\ ResetClient
  /\ remotes' = Restrict(remotes, {})
  /\ actors' = {}
  /\ events' = <<>>
  /\ phase' = "idle"
  /\ UNCHANGED <<sessionVars, dialVars, ready, sessionId, ever, terminal>>

StopOrPipeLost ==
  /\ pipe # "closed" /\ phase # "service"
  /\ GiveUp("pipe")

-----------------------------------------------------------------------------
(* NetworkAdapter::handle_event, one client event at a time.               *)

Handling(kind) ==
  phase = "handle" /\ events # <<>> /\ Head(events).kind = kind

Handled == events' = Tail(events) /\ UNCHANGED phase

(* Mutant of NewEpoch: the roster survives the reconnect.                  *)
OldEpoch == UNCHANGED <<remotes, actors>>

(* The welcome opens a new membership epoch: every old peer goes first.    *)
NewEpoch == Drop(DOMAIN remotes)

HandleConnected ==
  /\ Handling("connected")
  /\ Handled
  /\ NewEpoch
  /\ sessionId' = assigned.session
  /\ ever' = TRUE
  /\ UNCHANGED <<sessionVars, clientVars, ready, terminal, pipe, fault>>

(* The bridge removes its actors itself when it enters safe mode.          *)
SafeMode ==
  /\ terminal' = TRUE
  /\ pipe' = "safe"
  /\ actors' = {}

KeepTrying == UNCHANGED <<terminal, pipe, actors>>

Retryable(reason) == ever /\ reason \in {"duplicate_name", "session_full"}

HandleRejected ==
  /\ Handling("rejected")
  /\ Handled
  /\ IF Retryable(Head(events).reason)
     THEN ResetClient /\ KeepTrying
     ELSE SafeMode /\ UNCHANGED <<net, conn, assigned>>
  /\ UNCHANGED <<sessionVars, up, dialVars, ready, sessionId, remotes,
                 ever, fault>>

HandleViolation ==
  /\ Handling("violation")
  /\ Handled
  /\ SafeMode
  /\ ResetClient
  /\ UNCHANGED <<sessionVars, up, dialVars, ready, sessionId, remotes,
                 ever, fault>>

(* Mutant of IsTerminal: only a clean shutdown is worth another try.       *)
IsTerminalUnlessShutdown(reason) == reason # "server_shutdown"

IsTerminal(reason) ==
  reason \in {"protocol_error", "profile_mismatch", "token_mismatch"}

HandleDisconnected ==
  /\ Handling("disconnected")
  /\ Handled
  /\ IF IsTerminal(Head(events).reason) THEN SafeMode ELSE KeepTrying
  /\ ResetClient
  /\ UNCHANGED <<sessionVars, up, dialVars, ready, sessionId, remotes,
                 ever, fault>>

HandleError ==
  /\ Handling("error")
  /\ Handled
  /\ ResetClient
  /\ KeepTrying
  /\ UNCHANGED <<sessionVars, up, dialVars, ready, sessionId, remotes,
                 ever, fault>>

-----------------------------------------------------------------------------
(* NetworkAdapter::handle_message.  It asks for the client's state NOW,    *)
(* after the whole batch was polled.                                       *)

InSession == net = "connected" /\ sessionId # 0

(* Mutant of NoRoomFor: the player himself takes one of the places.        *)
NoRoomForLast(pid) ==
  pid \notin DOMAIN remotes /\ Cardinality(DOMAIN remotes) + 1 >= MaxRemotes

NoRoomFor(pid) ==
  pid \notin DOMAIN remotes /\ Cardinality(DOMAIN remotes) >= MaxRemotes

JoinedObjection(p) ==
  IF ~InSession THEN "outside session"
  ELSE IF p.pid = assigned.pid THEN "own id"
  ELSE IF \/ p.name = MyName
          \/ \E q \in DOMAIN remotes \ {p.pid} : remotes[q].name = p.name
    THEN "duplicate name"
  ELSE IF NoRoomFor(p.pid) THEN "too many"
  ELSE IF p.pid \in DOMAIN remotes /\ remotes[p.pid].inc = p.inc
          /\ remotes[p.pid].name # p.name THEN "changed"
  ELSE "none"

StateObjection(st) ==
  IF ~InSession THEN "outside session"
  ELSE IF st.session # sessionId THEN "wrong session"
  ELSE IF st.pid = assigned.pid /\ st.inc # inc THEN "conflicting identity"
  ELSE "none"

(* A state of a known incarnation with a newer sequence number wins; any   *)
(* other is dropped.  The actor is spawned by the first one in the world   *)
(* and hidden, not removed, by one outside it.                             *)
Newest(r, st) ==
  IF r.inc # st.inc \/ (r.last # NoSeq /\ ~SeqNewer(st.seq, r.last)) THEN r
  ELSE [r EXCEPT !.last = st.seq,
                 !.spawned = @ \/ st.inWorld,
                 !.hidden = ~st.inWorld /\ (@ \/ r.spawned)]

(* The environment's session first, then the states in player-id order.   *)
StatesObjection(m) ==
  IF m.type = "snapshot" /\ ~InSession THEN "outside session"
  ELSE IF m.type = "snapshot" /\ m.session # sessionId THEN "wrong session"
  ELSE LET bad == {st \in m.players : StateObjection(st) # "none"}
       IN IF bad = {} THEN "none"
          ELSE StateObjection(CHOOSE st \in bad :
                                \A other \in bad : st.pid <= other.pid)

Objection(m) ==
  CASE m.type = "joined" -> JoinedObjection(m.peer)
    [] m.type = "left" -> IF net # "connected" THEN "outside session"
                          ELSE IF m.pid = assigned.pid THEN "own id"
                          ELSE "none"
    [] m.type \in {"state", "snapshot"} -> StatesObjection(m)
    [] OTHER -> "none"

Message == Head(events).msg

HandleFlawed ==
  /\ Handling("message")
  /\ Objection(Message) # "none"
  /\ GiveUp(Objection(Message))

HandleFine(type) ==
  /\ Handling("message")
  /\ Message.type = type
  /\ Objection(Message) = "none"
  /\ Handled
  /\ UNCHANGED <<sessionVars, clientVars, ready, sessionId, ever, terminal,
                 pipe, fault>>

(* A new incarnation under a known player id replaces the actor.           *)
HandleJoined ==
  /\ HandleFine("joined")
  /\ LET p == Message.peer
         known == p.pid \in DOMAIN remotes /\ remotes[p.pid].inc = p.inc
         newcomer == [inc |-> p.inc, name |-> p.name, last |-> NoSeq,
                      spawned |-> FALSE, hidden |-> FALSE]
     IN IF known THEN UNCHANGED <<remotes, actors>>
        ELSE /\ remotes' = [pid \in DOMAIN remotes \cup {p.pid} |->
                  IF pid = p.pid THEN newcomer ELSE remotes[pid]]
             /\ actors' = actors \ {Actor(pid) : pid \in Spawned \cap {p.pid}}

HandleLeft ==
  /\ HandleFine("left")
  /\ Drop({pid \in DOMAIN remotes :
             pid = Message.pid /\ remotes[pid].inc = Message.inc})

HandleStates ==
  /\ \E type \in {"state", "snapshot"} : HandleFine(type)
  /\ LET about(pid) == {st \in Message.players : st.pid = pid}
     IN remotes' = [pid \in DOMAIN remotes |->
          IF about(pid) = {} THEN remotes[pid]
          ELSE Newest(remotes[pid], CHOOSE st \in about(pid) : TRUE)]
  /\ actors' = actors \cup
       {<<pid, remotes[pid].inc>> : pid \in {q \in DOMAIN remotes :
          remotes'[q].spawned /\ ~remotes[q].spawned}}

-----------------------------------------------------------------------------
(* The rest of pump, and the other calls of run_staged_game's loop.        *)

(* update_liveness: of the peers heard from, those in `gone` have been     *)
(* silent for kDespawnAfterUs and those in `quiet` for kHideAfterUs.       *)
UpdateLiveness(gone, quiet) ==
  /\ remotes' = [pid \in DOMAIN remotes |->
       IF pid \in gone
       THEN [remotes[pid] EXCEPT !.last = NoSeq, !.spawned = FALSE,
                                 !.hidden = FALSE]
       ELSE IF pid \in quiet /\ remotes[pid].spawned
       THEN [remotes[pid] EXCEPT !.hidden = TRUE]
       ELSE remotes[pid]]
  /\ actors' = actors \ {Actor(pid) : pid \in Spawned \cap gone}
  /\ UNCHANGED <<sessionVars, clientVars, events, ready, sessionId, ever,
                 terminal, pipe, fault>>

HeardFrom == {pid \in DOMAIN remotes : remotes[pid].last # NoSeq}

(* The batch is handled: the pump ends.                                    *)
PumpEnd(gone, quiet) ==
  /\ phase = "handle" /\ events = <<>>
  /\ phase' = "idle"
  /\ UpdateLiveness(gone, quiet)

(* A pump without a client, before the sample that starts one or between   *)
(* two connections.                                                        *)
PumpIdle(gone, quiet) ==
  /\ phase = "idle" /\ pipe # "closed" /\ ~terminal
  /\ net = "none"
  /\ UNCHANGED phase
  /\ UpdateLiveness(gone, quiet)

(* handle_bridge_frame: the first sample names the vehicle and lets the    *)
(* adapter connect.                                                        *)
FirstSample ==
  /\ phase = "idle" /\ pipe # "closed" /\ ~ready
  /\ ready' = TRUE
  /\ UNCHANGED <<sessionVars, clientVars, phase, events, sessionId, remotes,
                 ever, terminal, pipe, fault, actors>>

(* A sample of another vehicle than the one chosen or announced.           *)
ConflictingSample ==
  /\ phase = "idle" /\ pipe # "closed"
  /\ GiveUp("appearance")

SidecarInit ==
  /\ up = [c \in MyConn |-> <<>>]
  /\ conn = NoConn
  /\ net = "none"
  /\ inc \in Incarnation
  /\ greeted = FALSE
  /\ assigned = [session |-> 0, pid |-> 0]
  /\ phase = "idle"
  /\ events = <<>>
  /\ ready = FALSE
  /\ sessionId = 0
  /\ remotes = [pid \in {} |-> NoSeq]
  /\ ever = FALSE
  /\ terminal = FALSE
  /\ pipe = "live"
  /\ fault = "none"
  /\ actors = {}

(* The types of the sidecar's variables.                                   *)
SidecarTypeOK ==
  /\ DOMAIN up = MyConn
  /\ conn \in MyConn \cup {NoConn}
  /\ net \in NetState
  /\ inc \in Incarnation
  /\ greeted \in BOOLEAN
  /\ assigned \in [session : Nat, pid : Nat]
  /\ phase \in {"idle", "service", "handle"}
  /\ events \in Seq(Event)
  /\ ready \in BOOLEAN
  /\ sessionId \in Nat
  /\ DOMAIN remotes \subseteq Nat
  /\ remotes \in [DOMAIN remotes -> Remote]
  /\ ever \in BOOLEAN
  /\ terminal \in BOOLEAN
  /\ pipe \in {"live", "safe", "closed"}
  /\ actors \subseteq Nat \X Incarnation
=============================================================================
