------------------------------ MODULE Session ------------------------------
(***************************************************************************)
(* The coordinator: class Session (apps/coordinator/session.cpp) together  *)
(* with the ENet event loop that drives it (apps/coordinator/main.cpp).    *)
(* The program is single-threaded: it handles one ENet event, dispatches   *)
(* the routes that event produced, and then runs Session::tick.  Each      *)
(* action below is one such handler with the dispatch of its routes.       *)
(*                                                                         *)
(* Two channels lead from the coordinator to a connection: `rel` holds the *)
(* reliable, ordered packets of ENet channel 0 (welcome, membership,       *)
(* disconnect), `unrel` the sequenced but lossy ones of channel 1 (player  *)
(* states and snapshots).  Who reads them is left to the modules that      *)
(* extend this one: Coordinator (ideal readers), Relay (the sidecar).      *)
(*                                                                         *)
(* PeerJoined is always followed by a SpawnMetadata with the same fields,  *)
(* and receivers treat the second as the first, so one "joined" message    *)
(* stands for the pair.                                                    *)
(***************************************************************************)
EXTENDS Naturals, Sequences, FiniteSets, Functions

CONSTANTS
  Conn,              \* ConnectionIds: one per ENet transport
  Watched,           \* the connections whose incoming packets are followed
  Name,              \* display names
  Incarnation,       \* the random ids a client draws for each connection
  MaxPlayers,        \* SessionConfig::max_players after the clamp
  RateLimit,         \* max_state_updates_per_second after the clamp
  Window,            \* the 1000 ms of the rate limit, in ticks of `now`
  StaleAfter,        \* stale_state_ms in ticks
  SnapshotInterval,  \* 1000 / state_hz in ticks
  ChunkSize,         \* kMaxSnapshotPlayers
  SeqRange,          \* 2^32: the range of a state's sequence number
  StateRoom,         \* bound: datagrams in flight on one lossy channel
  PongRoom,          \* bound: a ping is answered below this queue length
  MaxNow,            \* bound on the clock
  MaxPlayerId,       \* bound on the player ids handed out in one session
  MaxSession,        \* bound on the number of coordinator processes
  NoState            \* "no PlayerState received yet"

ASSUME SessionAssumption ==
  /\ Watched \subseteq Conn
  /\ MaxPlayers \in Nat \ {0}
  /\ RateLimit \in Nat \ {0}
  /\ ChunkSize \in Nat \ {0}
  /\ Window \in Nat
  /\ StaleAfter \in Nat
  /\ SnapshotInterval \in Nat
  /\ SeqRange \in Nat \ {0}
  /\ StateRoom \in Nat
  /\ PongRoom \in Nat
  /\ MaxNow \in Nat
  /\ MaxPlayerId \in Nat
  /\ MaxSession \in Nat

VARIABLES
  now,           \* now_ms(), the steady clock
  session,       \* session_id: drawn anew by every coordinator process
  running,       \* the main loop is running
  registered,    \* keys of main.cpp's routing tables `peers`/`connection_ids`
  members,       \* Session::peers_: a function from connections to peers
  nextPlayer,    \* Session::next_player_id_
  nextSnapshot,  \* Session::next_snapshot_ms_
  rel,           \* reliable packets queued to each connection
  unrel          \* state datagrams in flight to each connection

tables == <<registered, members, nextPlayer>>
sessionVars ==
  <<now, session, running, registered, members, nextPlayer, nextSnapshot,
    rel, unrel>>

-----------------------------------------------------------------------------
(* Data: what travels, what a peer is.                                     *)

Reason == {"normal", "protocol_error", "profile_mismatch", "token_mismatch",
           "session_full", "duplicate_name", "server_shutdown"}

(* What admission can hold against a hello before it looks at the roster.  *)
Flaw == {"none", "protocol_error", "profile_mismatch", "token_mismatch"}

Hello == [name : Name, inc : Incarnation, flaw : Flaw]

Identity == [pid : Nat, inc : Incarnation, name : Name]

State == [session : Nat, pid : Nat, inc : Incarnation,
          seq : 0..(SeqRange - 1), inWorld : BOOLEAN]

(* An empty optional is no state.                                          *)
ASSUME NoStateAssumption == NoState \notin State

ReliableMsg ==
       [type : {"welcome"}, session : Nat, pid : Nat]
  \cup [type : {"joined"}, peer : Identity]
  \cup [type : {"left"}, pid : Nat, inc : Incarnation]
  \cup [type : {"disconnect"}, reason : Reason]
  \cup [type : {"closed"}, reason : Reason]
  \cup [type : {"pong"}]

StateMsg ==
       [type : {"state"}, players : SUBSET State]
  \cup [type : {"snapshot"}, time : Nat, session : Nat,
        players : SUBSET State]

Peer == [id : Identity, times : Seq(Nat), latest : State \cup {NoState},
         at : Nat]

Welcome(id) == [type |-> "welcome", session |-> session, pid |-> id.pid]
Joined(id) == [type |-> "joined", peer |-> id]
Left(id) == [type |-> "left", pid |-> id.pid, inc |-> id.inc]
DisconnectMsg(r) == [type |-> "disconnect", reason |-> r]

(* enet_peer_disconnect_later: the transport closes once every reliable    *)
(* packet before it was delivered, carrying the reason as event.data.      *)
Closed(r) == [type |-> "closed", reason |-> r]

StateMessage(st) == [type |-> "state", players |-> {st}]

(* protocol::sequence_newer: newer by less than half of the 32-bit range.  *)
SeqNewer(a, b) ==
  LET delta == (a + SeqRange - b) % SeqRange
  IN delta # 0 /\ delta < SeqRange \div 2

Member(c) == c \in DOMAIN members

-----------------------------------------------------------------------------
(* Dispatch: append the packets f[x] to the queue of every connection x.   *)
(* What is sent to a connection nobody watches is not kept.                *)

SendReliable(f) ==
  rel' = [x \in Watched |-> rel[x] \o f[x]]

(* A burst of datagrams that finds no room is lost; the readers may lose   *)
(* any other.                                                              *)
SendStates(f) ==
  unrel' = [x \in Watched |->
              IF Len(unrel[x]) + Len(f[x]) <= StateRoom
              THEN unrel[x] \o f[x] ELSE unrel[x]]

Nothing == [x \in Conn |-> <<>>]

(* Mutants of Remove: the routing goes and the membership stays; the       *)
(* others are not told.                                                    *)
RemoveUnrouted(c, farewell) ==
  /\ registered' = registered \ {c}
  /\ SendReliable([Nothing EXCEPT ![c] = farewell])
  /\ UNCHANGED <<now, session, running, members, nextPlayer, nextSnapshot,
                 unrel>>

RemoveSilently(c, farewell) ==
  /\ members' = Restrict(members, DOMAIN members \ {c})
  /\ registered' = registered \ {c}
  /\ SendReliable([Nothing EXCEPT ![c] = farewell])
  /\ UNCHANGED <<now, session, running, nextPlayer, nextSnapshot, unrel>>

(* Session::disconnect for c and the loss of c's routing, after `farewell` *)
(* was queued to c: the others learn that a member left.                   *)
Remove(c, farewell) ==
  /\ members' = Restrict(members, DOMAIN members \ {c})
  /\ registered' = registered \ {c}
  /\ SendReliable([x \in Conn |->
       IF x = c THEN farewell
       ELSE IF Member(c) /\ Member(x) THEN <<Left(members[c].id)>>
       ELSE <<>>])
  /\ UNCHANGED <<now, session, running, nextPlayer, nextSnapshot, unrel>>

Farewell(r) == <<DisconnectMsg(r), Closed(r)>>

-----------------------------------------------------------------------------
(* ENET_EVENT_TYPE_CONNECT.  next_connection is a 64-bit counter; here an  *)
(* id is fresh when no table and no queue still refers to it.              *)
Connect(c) ==
  /\ running
  /\ c \notin registered
  /\ c \in Watched => rel[c] = <<>> /\ unrel[c] = <<>>
  /\ registered' = registered \cup {c}
  /\ UNCHANGED <<now, session, running, members, nextPlayer, nextSnapshot,
                 rel, unrel>>

(* Session::accept's verdict, in the order of its checks.                  *)
Verdict(hello) ==
  IF hello.flaw # "none" THEN hello.flaw
  ELSE IF Cardinality(DOMAIN members) >= MaxPlayers THEN "session_full"
  ELSE IF \E d \in DOMAIN members : members[d].id.name = hello.name
    THEN "duplicate_name"
  ELSE "normal"

(* The welcome goes first; the roster follows in the unspecified iteration *)
(* order of the unordered_map, and every member hears of the newcomer.     *)
Accept(c, hello) ==
  /\ running
  /\ c \in registered /\ ~Member(c)
  /\ Verdict(hello) = "normal"
  /\ nextPlayer <= MaxPlayerId
  /\ LET id == [pid |-> nextPlayer, inc |-> hello.inc, name |-> hello.name]
         others == DOMAIN members
     IN /\ \E order \in Bijection(1..Cardinality(others), others) :
             SendReliable([x \in Conn |->
               IF x = c
               THEN <<Welcome(id)>> \o
                    [i \in 1..Cardinality(others) |->
                       Joined(members[order[i]].id)]
               ELSE IF x \in others THEN <<Joined(id)>> ELSE <<>>])
        /\ members' = [x \in others \cup {c} |->
             IF x = c
             THEN [id |-> id, times |-> <<>>, latest |-> NoState, at |-> 0]
             ELSE members[x]]
  /\ nextPlayer' = nextPlayer + 1
  /\ UNCHANGED <<now, session, running, registered, nextSnapshot, unrel>>

(* A refused hello: the reason is sent and the transport is closed.        *)
Refuse(c, hello) ==
  /\ running
  /\ c \in registered /\ ~Member(c)
  /\ Verdict(hello) # "normal"
  /\ Remove(c, Farewell(Verdict(hello)))

(* Undecodable bytes, a wrong channel, anything but a hello before         *)
(* admission, a hello or a server message after it, an invalid state.      *)
RejectPacket(c) ==
  /\ running
  /\ c \in registered
  /\ Remove(c, Farewell("protocol_error"))

(* A member asks to leave: nothing is sent to it, ENet closes.             *)
ReceiveDisconnect(c) ==
  /\ running
  /\ c \in registered /\ Member(c)
  /\ Remove(c, <<Closed("normal")>>)

(* ENET_EVENT_TYPE_DISCONNECT: ENet gave the transport up.                 *)
TransportLost(c) ==
  /\ running
  /\ c \in registered
  /\ Remove(c, <<>>)

ReceivePing(c) ==
  /\ running
  /\ c \in registered /\ Member(c)
  /\ c \in Watched => Len(rel[c]) < PongRoom
  /\ SendReliable([Nothing EXCEPT ![c] = <<[type |-> "pong"]>>])
  /\ UNCHANGED <<now, session, running, registered, members, nextPlayer,
                 nextSnapshot, unrel>>
-----------------------------------------------------------------------------
(* Player states.  Every field of the claimed identity must be the one     *)
(* admission stored for this connection.                                   *)
Genuine(c, st) ==
  /\ st.session = session
  /\ st.pid = members[c].id.pid
  /\ st.inc = members[c].id.inc

(* accepted_update_times_ms after the handler popped what left the window. *)
Recent(times) ==
  LET expired == {i \in 1..Len(times) :
                    \A j \in 1..i : now - times[j] >= Window}
  IN SubSeq(times, Cardinality(expired) + 1, Len(times))

(* Mutants of Ignored: one state too many in a window; no look at the      *)
(* sequence number.                                                        *)
IgnoredLate(c, st) ==
  \/ Len(Recent(members[c].times)) > RateLimit
  \/ /\ members[c].latest # NoState
     /\ ~SeqNewer(st.seq, members[c].latest.seq)

IgnoredByRateAlone(c, st) == Len(Recent(members[c].times)) >= RateLimit

(* Why a genuine state is ignored: the sender is over its rate, or the     *)
(* state is not newer than the one already stored.                         *)
Ignored(c, st) ==
  \/ Len(Recent(members[c].times)) >= RateLimit
  \/ /\ members[c].latest # NoState
     /\ ~SeqNewer(st.seq, members[c].latest.seq)

RejectSpoof(c, st) ==
  /\ running
  /\ c \in registered /\ Member(c)
  /\ ~Genuine(c, st)
  /\ Remove(c, Farewell("protocol_error"))

IgnoreState(c, st) ==
  /\ running
  /\ c \in registered /\ Member(c)
  /\ Genuine(c, st)
  /\ Ignored(c, st)
  /\ members' = [members EXCEPT ![c].times = Recent(@)]
  /\ UNCHANGED <<now, session, running, registered, nextPlayer, nextSnapshot,
                 rel, unrel>>

(* An accepted state is stored and fanned out to every other member.       *)
RelayState(c, st) ==
  /\ running
  /\ c \in registered /\ Member(c)
  /\ Genuine(c, st)
  /\ ~Ignored(c, st)
  /\ members' = [members EXCEPT ![c].times = Append(Recent(@), now),
                                ![c].latest = st,
                                ![c].at = now]
  /\ SendStates([x \in Conn |->
       IF Member(x) /\ x # c THEN <<StateMessage(st)>> ELSE <<>>])
  /\ UNCHANGED <<now, session, running, registered, nextPlayer, nextSnapshot,
                 rel>>

-----------------------------------------------------------------------------
(* Session::tick.                                                          *)

Fresh == {members[c].latest : c \in {d \in DOMAIN members :
            /\ members[d].latest # NoState
            /\ now - members[d].at < StaleAfter}}

(* Mutant of Chunks: places counted from 0 and from 1.                     *)
ChunksMisplaced(S) ==
  LET place(s) == Cardinality({t \in S : t.pid <= s.pid})
      packets == IF S = {} THEN 1
                 ELSE (Cardinality(S) + ChunkSize - 1) \div ChunkSize
  IN [k \in 1..packets |-> {s \in S : place(s) \div ChunkSize = k - 1}]

(* The states of S in player-id order, ChunkSize to a packet; an empty     *)
(* room still gets one packet, for the environment clock.                  *)
Chunks(S) ==
  LET place(s) == Cardinality({t \in S : t.pid <= s.pid})
      packets == IF S = {} THEN 1
                 ELSE (Cardinality(S) + ChunkSize - 1) \div ChunkSize
  IN [k \in 1..packets |->
        {s \in S : (place(s) + ChunkSize - 1) \div ChunkSize = k}]

SnapshotMessages(S) ==
  [k \in 1..Len(Chunks(S)) |->
     [type |-> "snapshot", time |-> now, session |-> session,
      players |-> Chunks(S)[k]]]

Tick ==
  /\ running
  /\ nextSnapshot = 0 \/ now >= nextSnapshot
  /\ nextSnapshot' = now + SnapshotInterval
  /\ SendStates([x \in Conn |->
       IF Member(x) THEN SnapshotMessages(Fresh) ELSE <<>>])
  /\ UNCHANGED <<now, session, running, registered, members, nextPlayer, rel>>

Advance ==
  /\ now < MaxNow
  /\ now' = now + 1
  /\ UNCHANGED <<session, running, tables, nextSnapshot, rel, unrel>>

-----------------------------------------------------------------------------
(* The life of the process.                                                *)

(* SIGINT or SIGTERM: the loop ends, every routed transport is told, and   *)
(* the host is destroyed before any acknowledgement can arrive.            *)
Shutdown ==
  /\ running
  /\ running' = FALSE
  /\ SendReliable([x \in Conn |->
       IF x \in registered THEN <<DisconnectMsg("server_shutdown")>>
       ELSE <<>>])
  /\ registered' = {}
  /\ members' = Restrict(members, {})
  /\ UNCHANGED <<now, session, nextPlayer, nextSnapshot, unrel>>

(* The process dies without a word.                                        *)
Crash ==
  /\ running
  /\ running' = FALSE
  /\ registered' = {}
  /\ members' = Restrict(members, {})
  /\ UNCHANGED <<now, session, nextPlayer, nextSnapshot, rel, unrel>>

(* main() again: a new random session id, player ids from 1.               *)
Start ==
  /\ ~running
  /\ session < MaxSession
  /\ running' = TRUE
  /\ session' = session + 1
  /\ nextPlayer' = 1
  /\ nextSnapshot' = 0
  /\ UNCHANGED <<now, registered, members, rel, unrel>>

SessionInit ==
  /\ now = 0
  /\ session = 1
  /\ running = TRUE
  /\ registered = {}
  /\ members = [c \in {} |-> NoState]
  /\ nextPlayer = 1
  /\ nextSnapshot = 0
  /\ rel = [x \in Watched |-> <<>>]
  /\ unrel = [x \in Watched |-> <<>>]

(* The types of the coordinator's variables.                               *)
SessionTypeOK ==
  /\ now \in Nat
  /\ session \in Nat
  /\ running \in BOOLEAN
  /\ registered \in SUBSET Conn
  /\ DOMAIN members \in SUBSET registered
  /\ members \in [DOMAIN members -> Peer]
  /\ nextPlayer \in Nat
  /\ nextSnapshot \in Nat
  /\ rel \in [Watched -> Seq(ReliableMsg)]
  /\ unrel \in [Watched -> Seq(StateMsg)]
=============================================================================
