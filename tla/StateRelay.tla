----------------------------- MODULE StateRelay -----------------------------
(***************************************************************************)
(* The coordinator's traffic in player states: Session::receive and        *)
(* Session::tick against members that send any state they like, their own  *)
(* or another's, in any order and at any rate, while time passes.  The     *)
(* watched connections' state channels hold what was fanned out to them.   *)
(***************************************************************************)
EXTENDS Session

VARIABLES
  accepted,  \* when the last RateLimit + 1 states of each were accepted
  truth      \* of the states in flight, those sent by their own player

vars == <<sessionVars, accepted, truth>>
history == <<accepted, truth>>

(* What the coordinator stores or a state channel carries.                 *)
InFlight ==
  {members[c].latest : c \in DOMAIN members} \cup
  UNION {UNION {unrel[c][i].players : i \in 1..Len(unrel[c])} : c \in Watched}

Init ==
  /\ SessionInit
  /\ accepted = [c \in Conn |-> <<>>]
  /\ truth = {}

Join(c) ==
  \/ Connect(c) /\ UNCHANGED history
  \/ /\ \E hello \in Hello : Accept(c, hello)
     /\ accepted' = [accepted EXCEPT ![c] = <<>>]
     /\ UNCHANGED truth

Leave(c) ==
  /\ TransportLost(c)
  /\ truth' = truth \cap InFlight'
  /\ UNCHANGED accepted

Claims == [session : {session}, pid : 1..MaxPlayerId, inc : Incarnation,
           seq : 0..(SeqRange - 1), inWorld : {TRUE}]

LastOnes(times) ==
  IF Len(times) <= RateLimit + 1 THEN times
  ELSE SubSeq(times, Len(times) - RateLimit, Len(times))

Send(c, st) ==
  /\ Member(c)
  /\ \/ (RejectSpoof(c, st) \/ IgnoreState(c, st)) /\ UNCHANGED history
     \/ /\ RelayState(c, st)
        /\ accepted' = [accepted EXCEPT ![c] = LastOnes(Append(@, now))]
        /\ truth' = (truth \cap InFlight') \cup
             {s \in {st} : s.pid = members[c].id.pid /\ s.inc = members[c].id.inc}

(* A datagram is read or lost.                                             *)
Take(c) ==
  /\ unrel[c] # <<>>
  /\ unrel' = [unrel EXCEPT ![c] = Tail(@)]
  /\ UNCHANGED <<now, session, running, tables, nextSnapshot, rel, accepted>>
  /\ truth' = truth \cap InFlight'

(* Bound: nothing is sent into a channel that has no room for it, so that  *)
(* the states in flight of one player are consecutive ones.                *)
Room(n) == \A c \in Watched : Len(unrel[c]) + n <= StateRoom

Next ==
  \/ \E c \in Conn : Join(c) \/ Leave(c)
  \/ Room(1) /\ \E c \in Conn : \E st \in Claims : Send(c, st)
  \/ Room(Len(Chunks(Fresh))) /\ Tick /\ UNCHANGED history
  \/ Advance /\ UNCHANGED history
  \/ \E c \in Watched : Take(c)

Spec == Init /\ [][Next]_vars

-----------------------------------------------------------------------------
(* No window of the rate limit, wherever it starts, holds more than        *)
(* RateLimit accepted states of one member (session.cpp:117-125).          *)
RateBound ==
  \A c \in Conn : \A i \in 1..Len(accepted[c]) :
    i + RateLimit <= Len(accepted[c]) =>
      accepted[c][i + RateLimit] - accepted[c][i] >= Window

(* Nobody is made to see a state of a player that the player did not send: *)
(* a member can speak for itself alone (session.cpp:111-115).              *)
NoImpersonation ==
  \A c \in Watched : \A i \in 1..Len(unrel[c]) :
    unrel[c][i].players \subseteq truth

About(m, pid) == {st \in m.players : st.pid = pid}

(* On a channel that keeps its order another's states only get newer,      *)
(* across direct fan-out and snapshots and across the wrap of the sequence *)
(* number; the snapshot may only repeat (session.cpp:126-145, 165-208).    *)
FeedOrdered ==
  \A c \in Watched \cap DOMAIN members : \A i, j \in 1..Len(unrel[c]) :
  \A pid \in 1..MaxPlayerId \ {members[c].id.pid} :
    LET earlier == About(unrel[c][i], pid)
        later == About(unrel[c][j], pid)
    IN /\ i < j /\ earlier # {} /\ later # {}
       /\ \A k \in (i + 1)..(j - 1) : About(unrel[c][k], pid) = {}
       => \A a \in earlier, b \in later :
            \/ a = b /\ unrel[c][j].type = "snapshot"
            \/ SeqNewer(b.seq, a.seq)

(* Every snapshot carries each fresh player once, in packets of at most    *)
(* ChunkSize, none of them needlessly empty (session.cpp:176-206).         *)
SnapshotComplete ==
  LET chunks == Chunks(Fresh)
  IN /\ UNION {chunks[k] : k \in 1..Len(chunks)} = Fresh
     /\ \A k, l \in 1..Len(chunks) : k # l => chunks[k] \cap chunks[l] = {}
     /\ \A k \in 1..Len(chunks) : Cardinality(chunks[k]) <= ChunkSize
     /\ \A k \in 1..Len(chunks) : chunks[k] = {} => Fresh = {} /\ Len(chunks) = 1
=============================================================================
