-------------------------------- MODULE Stream --------------------------------
(***************************************************************************)
(* The stream of one player's states from his bridge to the screen of      *)
(* another: published by the game thread, forwarded by the worker and the  *)
(* sidecar, fanned out and repeated by the coordinator over a channel that *)
(* keeps the order and loses packets, stamped and filtered by the other    *)
(* sidecar, queued by its bridge, and played by the timeline of Timeline.  *)
(* Every hop goes through the encoder and the decoder of Codec.            *)
(*                                                                         *)
(* Membership is taken as given: the player is known to the receiver and   *)
(* his actor's slot is occupied (see Relay and ActorBackend).              *)
(*                                                                         *)
(* A jump of the player is a leap.  It is told by one sample only, its     *)
(* marker: the one with the teleport flag, or the one that hides him.      *)
(* Leaps are counted by a ghost, and another, "lost", holds those whose    *)
(* marker never became a sample or went missing on the way.                *)
(***************************************************************************)
EXTENDS Timeline, Codec

CONSTANTS
    MaxNow,         \* bound: ticks of the clock
    MaxJumps,       \* bound: teleports, absences and flawed samples
    ChannelRoom,    \* bound: packets on the way to the receiver
    InboxRoom,      \* kStateFifoDepth
    FirstSequence,  \* g_wire_sequence before the first sample
    Skew,           \* of the sender's clock against the receiver's
    StampSpread     \* 5 s: how far an arrival stamp may be off

ASSUME StreamAssumption ==
    /\ Room # {} /\ FirstSequence \in 0..(SeqRange - 1)
    /\ MaxJumps \in Nat /\ InboxRoom \in Nat \ {0}
    /\ Skew \in Int /\ StampSpread \in Nat

State == [send: Nat, receive: Nat, sequence: 0..(SeqRange - 1), room: Room,
          teleport: BOOLEAN, inWorld: BOOLEAN, flaw: Flaw, leap: Nat]

ASSUME NoneIsNoState == None \notin State

VARIABLES
    now,
    sender,    \* the publishing side
    up,        \* g_latest: the one sample that waits for the worker
    latest,    \* the coordinator's latest state of the player
    down,      \* packets on their way to the receiver
    accepted,  \* RemotePeer: the newest sequence number and hidden
    inbox,     \* the states the receiver's bridge has queued
    newest,    \* RemoteSlot::state, the newest state applied
    refused,   \* messages somebody but the sender's own side refused
    lost       \* ghost: leaps whose marker is lost

vars == <<now, sender, up, latest, down, accepted, inbox, newest, refused, lost,
          timelineVars>>
wire == <<latest, down>>
receiver == <<accepted, inbox, newest>>

SenderClock(t) == t + Skew

\* The leaps that the samples of S mark, and those that the receiver has not got to.
Marks(s) == s.teleport \/ ~s.inWorld
Leaps(S) == {s.leap : s \in {m \in S : Marks(m)}}
Missed(S) == {l \in Leaps(S) : l > accepted.leap}

One(x) == IF x # None THEN {x} ELSE {}

StreamInit ==
    /\ now = 1
    /\ \E room \in Room :
          sender = [running |-> TRUE, in |-> FALSE, room |-> room,
                    sequence |-> FirstSequence, last |-> 0, jumps |-> 0, leap |-> 0]
    /\ up = None /\ latest = None /\ down = <<>>
    /\ accepted = [sequence |-> None, spawned |-> FALSE, hidden |-> FALSE, leap |-> 0]
    /\ inbox = <<>> /\ newest = None
    /\ refused = {} /\ lost = {}
    /\ TimelineInit

Tick ==
    /\ now < MaxNow /\ now' = now + 1
    /\ UNCHANGED <<sender, up, wire, receiver, refused, lost, timelineVars>>

-----------------------------------------------------------------------------
(* The sender's bridge.                                                    *)

NextSequence == (sender.sequence + 1) % SeqRange

\* publish and publish_hidden overwrite what the worker has not taken.
Published(sample) ==
    /\ sender.running /\ sender.last <= SenderClock(now)
    /\ up' = sample
    /\ lost' = lost \cup Leaps(One(up))
    /\ UNCHANGED <<now, wire, receiver, refused, timelineVars>>

\* Counted for the bound MaxJumps.
OutOfOrdinary(teleport, flaw) ==
    LET one(b) == IF b THEN 1 ELSE 0
    IN  one(teleport) + one(flaw # "none")

\* The first sample in the world is no teleport, and a change of room is one.  These
\* two do not wait for the interval, which is longer than the unit of the stamps.
Publish(room, teleport, flaw) ==
    LET jumps == OutOfOrdinary(teleport, flaw)
        leap  == sender.leap + (IF teleport THEN 1 ELSE 0)
    IN  /\ sender.jumps + jumps <= MaxJumps
        /\ teleport => sender.in
        /\ sender.in /\ ~teleport
              => room = sender.room /\ sender.last < SenderClock(now)
        /\ Published([send |-> SenderClock(now), receive |-> 0,
                      sequence |-> NextSequence, room |-> room, teleport |-> teleport,
                      inWorld |-> TRUE, flaw |-> flaw, leap |-> leap])
        /\ sender' = [sender EXCEPT !.in = TRUE, !.room = room, !.sequence = NextSequence,
                                    !.last = SenderClock(now), !.jumps = @ + jumps,
                                    !.leap = leap]

PublishHidden ==
    /\ sender.in /\ sender.jumps < MaxJumps
    /\ Published([send |-> SenderClock(now), receive |-> 0, sequence |-> NextSequence,
                  room |-> sender.room, teleport |-> FALSE, inWorld |-> FALSE,
                  flaw |-> "none", leap |-> sender.leap + 1])
    /\ sender' = [sender EXCEPT !.in = FALSE, !.sequence = NextSequence,
                                !.last = SenderClock(now), !.jumps = @ + 1, !.leap = @ + 1]

\* The worker holds the lock: a teleport is not published and not tried again, or the
\* player is back in the world before his absence could be published.
Unpublished(room) ==
    /\ sender.running /\ sender.in /\ sender.jumps < MaxJumps
    /\ sender' = [sender EXCEPT !.room = room, !.jumps = @ + 1, !.leap = @ + 1]
    /\ lost' = lost \cup {sender.leap + 1}
    /\ UNCHANGED <<now, up, wire, receiver, refused, timelineVars>>

\* The worker cannot write a LocalSample, or the sidecar cannot encode the
\* state: the sender's own session ends.
Objects(s) == s.flaw \in FrameObjectsTo \cup PacketObjectsTo

\* As the receiver's sidecar decodes the packet, writes the frame, and its bridge
\* reads, queues and plays it.
Refuses(s) ==
    s.flaw \in PacketObjectsTo \cup FrameObjectsTo \cup QueueObjectsTo
               \cup TimelineObjectsTo

StopsItself ==
    /\ up # None /\ Objects(up)
    /\ sender' = [sender EXCEPT !.running = FALSE] /\ up' = None
    /\ lost' = lost \cup Leaps({up})
    /\ UNCHANGED <<now, wire, receiver, refused, timelineVars>>

\* States go up in unreliable packets.
LoseUp ==
    /\ up # None /\ ~Objects(up) /\ up' = None
    /\ lost' = lost \cup Leaps({up})
    /\ UNCHANGED <<now, sender, wire, receiver, refused, timelineVars>>

-----------------------------------------------------------------------------
(* The coordinator.                                                        *)

\* A message that cannot be carried does not leave, and counts as refused.
Carry(kind, carried, packet) ==
    IF carried
    THEN down' = Append(down, packet) /\ UNCHANGED refused
    ELSE refused' = refused \cup {kind} /\ UNCHANGED down

\* The sidecar sends all of the sample but the stamp.
ToNetwork(s) == [s EXCEPT !.receive = 0]

\* The state is taken over and fanned out at once.
FanOut ==
    /\ up # None /\ ~Objects(up) /\ Len(down) < ChannelRoom
    /\ "local_sample" \in CarriedFrames
    /\ up' = None /\ latest' = ToNetwork(up)
    /\ Carry("player_state", "player_state" \in CarriedPackets, ToNetwork(up))
    /\ lost' = IF "player_state" \in CarriedPackets THEN lost ELSE lost \cup Leaps({up})
    /\ UNCHANGED <<now, sender, receiver, timelineVars>>

\* And repeated with the states of n - 1 others.
Snapshot(n) ==
    /\ latest # None /\ Len(down) < ChannelRoom
    /\ Carry("world_snapshot", n \in CarriedSnapshots, latest)
    /\ UNCHANGED <<now, sender, up, latest, receiver, lost, timelineVars>>

\* Of several copies of a marker the first one lost counts, until another arrives.
LoseDown ==
    /\ down # <<>> /\ down' = Tail(down)
    /\ lost' = lost \cup Missed({Head(down)})
    /\ UNCHANGED <<now, sender, up, latest, receiver, refused, timelineVars>>

\* Any other message of the two protocols is sent by whoever sends it.
Exchange ==
    /\ refused' = refused \cup (Packets \ CarriedPackets) \cup (Frames \ CarriedFrames)
    /\ UNCHANGED <<now, sender, up, wire, receiver, lost, timelineVars>>

-----------------------------------------------------------------------------
(* The receiver's sidecar.                                                 *)

\* QueueRemoteSample: a stamp that is missing or far from the worker's own clock
\* is replaced.
Stamped(s, arrival) ==
    IF s.receive = 0 \/ arrival - s.receive > StampSpread
    THEN [s EXCEPT !.receive = arrival] ELSE s

\* PushState: the oldest state gives way in a full FIFO.
Queued(s) ==
    LET kept == IF Len(inbox) = InboxRoom THEN Tail(inbox) ELSE inbox
    IN  Append(kept, s)

IsNew(s) == accepted.sequence = None \/ Newer(s.sequence, accepted.sequence)

ToIpc(s, stamp) == [s EXCEPT !.receive = stamp]

\* accept_state: new states are noted; forwarded are those in the world and the
\* first one that is not.
Forwarded(s) == s.inWorld \/ (accepted.spawned /\ ~accepted.hidden)

\* Whoever notes a state has got to its leap.
Noted(s) ==
    accepted' = [sequence |-> s.sequence,
                 spawned |-> accepted.spawned \/ s.inWorld,
                 hidden |-> accepted.spawned /\ ~s.inWorld,
                 leap |-> AtLeast(accepted.leap, s.leap)]

\* The sidecar stamps the arrival of a packet; the bridge's worker may get to the
\* frame later.  A full FIFO gives up a marker, too.
Receive ==
    /\ down # <<>> /\ down' = Tail(down)
    /\ LET s == Head(down)
       IN  IF Refuses(s) \/ "remote_sample" \notin CarriedFrames
           THEN /\ refused' = refused \cup {"remote_sample"}
                /\ lost' = lost \cup Missed({s})
                /\ UNCHANGED <<accepted, inbox>>
           ELSE /\ UNCHANGED refused
                /\ IF IsNew(s) THEN Noted(s) ELSE UNCHANGED accepted
                /\ IF IsNew(s) /\ Forwarded(s)
                   THEN /\ \E stamp \in {t \in 1..now : s.send <= SenderClock(t)} :
                              inbox' = Queued(Stamped(ToIpc(s, stamp), now))
                        /\ lost' = lost \cup (IF Len(inbox) = InboxRoom
                                              THEN Leaps({Head(inbox)}) ELSE {})
                   ELSE UNCHANGED inbox /\ lost' = lost \cup Missed({s})
    /\ UNCHANGED <<now, sender, up, latest, newest, timelineVars>>

-----------------------------------------------------------------------------
(* The receiver's game thread.                                             *)

PoseSample(s) ==
    [send |-> s.send, receive |-> s.receive, sequence |-> s.sequence,
     room |-> s.room, teleport |-> s.teleport, leap |-> s.leap]

\* apply_batch, for one state of the batch.  A marker is found, unless the timeline
\* does not accept it.
Apply ==
    /\ inbox # <<>> /\ inbox' = Tail(inbox)
    /\ LET s == Head(inbox)
           p == PoseSample(s)
       IN  IF newest # None /\ ~Newer(s.sequence, newest.sequence)
           THEN lost' = lost \cup Leaps({s}) /\ UNCHANGED <<newest, timelineVars>>
           ELSE /\ newest' = s
                /\ IF s.inWorld THEN Push(p) ELSE ResetSamples
                /\ lost' = IF s.inWorld /\ ~Accepts(p) THEN lost \cup Leaps({s})
                           ELSE lost \ Leaps({s})
    /\ UNCHANGED <<now, sender, up, wire, accepted, refused>>

\* A frame shows the pose of now.
Frame ==
    /\ Evaluate(now)
    /\ UNCHANGED <<now, sender, up, wire, receiver, refused, lost>>

StreamNext ==
    \/ Tick
    \/ \E room \in Room, teleport \in BOOLEAN, flaw \in Flaw : Publish(room, teleport, flaw)
    \/ PublishHidden \/ StopsItself \/ LoseUp
    \/ \E room \in Room : Unpublished(room)
    \/ FanOut \/ LoseDown
    \/ \E n \in 1..MaxSnapshotPlayers : Snapshot(n)
    \/ Exchange
    \/ Receive \/ Apply \/ Frame

StreamSpec == StreamInit /\ [][StreamNext]_vars

-----------------------------------------------------------------------------
\* No message of either protocol is too long for its packet or frame, is read
\* otherwise than it was written, or is refused by anybody but the side that made
\* it (codec.cpp:389-396, ipc/codec.cpp:456-465, network_adapter.cpp:544-601).
StreamIsCarried == refused = {}

\* The display stays behind the sender by at least the smallest delay, whatever
\* the two clocks differ by and however arrivals jitter: what is shown at a frame
\* lies MinDelay or more before the sender's clock at that frame
\* (remote_pose_timeline.cpp:139-157, 300-346; remote_actor_backend.cpp:1947-1966).
NeverAheadOfSender ==
    shown # None => shown.target <= SenderClock(playback.seen) - MinDelay

\* What a pose is made from: the samples displayed, and the newest one, towards which
\* the display moves next.
Pose == shown.from \cup (IF ring # <<>> THEN {Newest} ELSE {})

\* The leaps between samples of S.
Between(S) == {l \in 1..sender.leap : \E a, b \in S : a.leap < l /\ l <= b.leap}

\* A pose is never made across a change of room, nor across a jump of the player unless
\* its marker was lost: not published, overwritten in g_latest, lost by the network,
\* given up by a full FIFO or rejected for its stamp (telemetry.cpp:202-206, 281-292;
\* remote_pose_timeline.cpp:82-84, 111-136: what is lost with it is the only mark, and
\* nothing looks at the distance).  And it is never further ahead of the newest sample
\* than extrapolation may go (remote_pose_timeline.cpp:209-228, 361-378).
PoseIsJustified ==
    shown # None =>
        /\ \A a, b \in Pose : a.room = b.room
        /\ Between(Pose) \subseteq lost
        /\ ring # <<>> => shown.target <= Newest.send + MaxExtrapolation
=============================================================================
