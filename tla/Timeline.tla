------------------------------- MODULE Timeline -------------------------------
(***************************************************************************)
(* RemotePoseTimeline (bridge/remote_pose_timeline.cpp): the playback of   *)
(* one remote actor.  Samples carry the time of their capture on the       *)
(* sender's clock and of their arrival on the local one.  From the two the *)
(* timeline estimates the offset between the clocks and plays the          *)
(* trajectory a delay behind, at a rate that never differs from real time  *)
(* by more than the warp, unless it has to re-anchor.                      *)
(*                                                                         *)
(* All times are in ticks; Second ticks make one clock bucket.  A pose is  *)
(* abstracted to the samples it is made from.  A sample also carries a     *)
(* ghost, "leap": how often the player had jumped when it was captured.    *)
(***************************************************************************)
EXTENDS Integers, Sequences, FiniteSets

CONSTANTS
    Room,             \* rooms of the world
    SeqRange,         \* 2^32: the range of a sequence number
    Capacity,         \* kPoseTimelineCapacity
    ClockBuckets,     \* kPoseClockBuckets
    RecentSeconds,    \* kRecentSeconds
    Second,           \* ticks per clock bucket
    MinDelay, MaxDelay, JitterMargin, MaxExtrapolation,
    SlowWarp, FastWarp,               \* 1/max_time_warp, 1/fast_time_warp
    FastThreshold, ResyncThreshold,
    None

ASSUME TimelineAssumption ==
    /\ SeqRange \in Nat \ {0} /\ Capacity \in Nat \ {0}
    /\ ClockBuckets \in Nat \ {0} /\ RecentSeconds \in Nat /\ Second \in Nat \ {0}
    /\ MinDelay \in Nat /\ MaxDelay \in Nat /\ MinDelay <= MaxDelay
    /\ JitterMargin \in Nat
    /\ MaxExtrapolation \in Nat
    /\ SlowWarp \in Nat \ {0} /\ FastWarp \in Nat \ {0}
    /\ FastThreshold \in Nat /\ ResyncThreshold \in Nat

VARIABLES
    ring,        \* the buffered samples, oldest first
    last,        \* the newest sample accepted since the last reset, or None
    buckets,     \* clock and cadence statistics, one record a second
    playback,    \* have_playback_, playback_send_time_us_, last_now_us_
    fresh,       \* new_data_
    correcting,  \* an offset to the displayed pose is decaying
    shown        \* last_output_, or None

timelineVars == <<ring, last, buckets, playback, fresh, correcting, shown>>

Sample == [send: Nat, receive: Nat, sequence: 0..(SeqRange - 1), room: Room,
           teleport: BOOLEAN, leap: Nat]

Bucket == [epoch: Nat, offset: Int, jitter: Nat, interval: Nat]

ASSUME NoneAssumption == None \notin Bucket /\ None \notin Sample

\* Newer by less than half of the range.
Newer(a, b) ==
    LET delta == (a + SeqRange - b) % SeqRange
    IN  delta # 0 /\ delta < SeqRange \div 2

TimelineInit ==
    /\ ring = <<>> /\ last = None
    /\ buckets = [i \in 0..(ClockBuckets - 1) |-> None]
    /\ playback = [have |-> FALSE, at |-> 0, seen |-> 0]
    /\ fresh = FALSE /\ correcting = FALSE /\ shown = None

Oldest == ring[1]
Newest == ring[Len(ring)]

-----------------------------------------------------------------------------
(* The sender's clock.                                                     *)

Used == {i \in DOMAIN buckets : buckets[i] # None}

Least(S) == {m \in S : \A x \in S : m <= x}

\* The least offset of the last ClockBuckets seconds; without any, the offset of
\* the newest sample.
OffsetEstimate(bs, now) ==
    LET live == {bs[i].offset : i \in {j \in DOMAIN bs : bs[j] # None
                        /\ bs[j].epoch + ClockBuckets > now \div Second}}
    IN  IF live # {} THEN Least(live) ELSE {Newest.receive - Newest.send}

\* The upper median of a statistic of the buckets in S.
Median(S, stat(_)) ==
    {v \in {stat(i) : i \in S} :
        /\ Cardinality({i \in S : stat(i) < v}) <= Cardinality(S) \div 2
        /\ Cardinality({i \in S : stat(i) <= v}) > Cardinality(S) \div 2}

\* One bucket for each of the last seconds at most: epochs are not ahead of now.
Recent(now) == {i \in Used : buckets[i].epoch + RecentSeconds > now \div Second}

\* recent_maxima: the typical worst interval and jitter of a second.
TypicalInterval(now) ==
    LET stat(i) == buckets[i].interval
    IN  IF Recent(now) = {} THEN {0} ELSE Median(Recent(now), stat)

TypicalJitter(now) ==
    LET stat(i) == buckets[i].jitter
    IN  IF Recent(now) = {} THEN {0} ELSE Median(Recent(now), stat)

AtLeast(x, low) == IF x < low THEN low ELSE x
AtMost(x, high) == IF x > high THEN high ELSE x
Clamp(x, low, high) == AtMost(AtLeast(x, low), high)

\* Without the least delay.
DelayUnfloored(interval, jitter) == AtMost(interval + jitter + JitterMargin, MaxDelay)

Delay(interval, jitter) ==
    Clamp(interval + jitter + JitterMargin, MinDelay, MaxDelay)

\* The statistics after sample s: its second's bucket starts anew or takes it in.
Clocked(s) ==
    LET epoch    == s.receive \div Second
        slot     == epoch % ClockBuckets
        offset   == s.receive - s.send
        old      == buckets[slot]
        kept     == IF old # None /\ old.epoch = epoch
                    THEN [old EXCEPT !.offset = AtMost(@, offset)]
                    ELSE [epoch |-> epoch, offset |-> offset, jitter |-> 0,
                          interval |-> 0]
        interval == IF last = None THEN 0 ELSE s.send - last.send
    IN  {[buckets EXCEPT ![slot] =
            [kept EXCEPT !.jitter = AtLeast(@, offset - floor),
                         !.interval = AtLeast(@, interval)]] :
            floor \in OffsetEstimate([buckets EXCEPT ![slot] = kept], s.receive)}

-----------------------------------------------------------------------------
(* Samples come in.                                                        *)

Reset ==
    /\ ring' = <<>> /\ last' = None
    /\ buckets' = [i \in 0..(ClockBuckets - 1) |-> None]
    /\ playback' = [have |-> FALSE, at |-> 0, seen |-> 0]
    /\ fresh' = FALSE /\ correcting' = FALSE /\ shown' = None

\* The trajectory goes; what was learnt of the sender's clock stays.
ResetSamples ==
    /\ ring' = <<>> /\ last' = None
    /\ fresh' = FALSE /\ correcting' = FALSE /\ shown' = None
    /\ UNCHANGED <<buckets, playback>>

Accepts(s) ==
    /\ s.receive # 0
    /\ last # None => Newer(s.sequence, last.sequence) /\ s.send > last.send

\* A teleport or another room begins a new trajectory.
Jump(s) == s.teleport \/ (last # None /\ s.room # last.room)

Buffered(s) ==
    LET kept == IF Len(ring) = Capacity THEN Tail(ring) ELSE ring
    IN  Append(kept, s)

\* A jump buffered like any other sample.
PushThrough(s) ==
    IF ~Accepts(s) THEN UNCHANGED timelineVars
    ELSE /\ ring' = Buffered(s)
         /\ last' = s /\ fresh' = TRUE
         /\ buckets' \in Clocked(s)
         /\ UNCHANGED <<playback, shown, correcting>>

Push(s) ==
    IF ~Accepts(s) THEN UNCHANGED timelineVars
    ELSE /\ ring' = IF Jump(s) THEN <<s>> ELSE Buffered(s)
         /\ last' = s /\ fresh' = TRUE
         /\ buckets' \in Clocked(s)
         /\ shown' = IF Jump(s) THEN None ELSE shown
         /\ correcting' = (~Jump(s) /\ correcting)
         /\ UNCHANGED playback

-----------------------------------------------------------------------------
(* Poses go out.                                                           *)

\* evaluate_raw: how a pose at time t comes about.
StateAt(t) ==
    IF t > Newest.send + MaxExtrapolation THEN "held"
    ELSE IF t >= Newest.send /\ t > Oldest.send THEN "extrapolated"
    ELSE "interpolated"

\* And from which samples: the two around it, or the one at the end.
Around(t) ==
    IF t <= Oldest.send THEN {Oldest}
    ELSE IF t >= Newest.send THEN {Newest}
    ELSE UNION {{ring[i - 1], ring[i]} : i \in {j \in 2..Len(ring) :
                    ring[j - 1].send < t /\ t <= ring[j].send}}

Nothing ==
    /\ ring = <<>>
    /\ playback' = [playback EXCEPT !.have = FALSE]
    /\ shown' = None
    /\ UNCHANGED <<ring, last, buckets, fresh, correcting>>

\* Playback moves on by the time since the last frame and is warped towards the
\* ideal position, or put there when it is too far off.
Anchored(ideal, moved) ==
    ~playback.have \/ ideal - moved > ResyncThreshold \/ moved - ideal > ResyncThreshold

\* Without the limit of the warp.
WarpedFreely(ideal, moved, advance) == ideal

Warped(ideal, moved, advance) ==
    LET error == ideal - moved
        limit == IF error > FastThreshold \/ -error > FastThreshold
                 THEN advance \div FastWarp ELSE advance \div SlowWarp
    IN  moved + Clamp(error, -limit, limit)

Target(ideal, now) ==
    LET advance == AtLeast(now - playback.seen, 0)
        moved   == playback.at + advance
    IN  IF Anchored(ideal, moved) THEN ideal ELSE Warped(ideal, moved, advance)

Reanchors(ideal, now) ==
    playback.have /\ Anchored(ideal, playback.at + AtLeast(now - playback.seen, 0))

\* Nothing to play: the clock is frozen and the last pose stays.
Hold(target, now) ==
    /\ StateAt(target) = "held"
    /\ playback' = [have |-> TRUE, at |-> playback.at, seen |-> now]
    /\ shown' = [state |-> "held", target |-> playback.at,
                 from |-> IF shown # None THEN shown.from ELSE Around(target)]
    /\ UNCHANGED fresh

\* New data moves the curve under the actor: what was displayed is compared with the
\* new curve at the same position, and the difference decays if it is small, else the
\* pose snaps.
Show(target, now, correct, decaying) ==
    /\ StateAt(target) # "held"
    /\ correct => shown # None /\ (fresh \/ decaying)
    /\ playback' = [have |-> TRUE, at |-> target, seen |-> now]
    /\ fresh' = FALSE
    /\ shown' = [state |-> StateAt(target), target |-> target,
                 from |-> Around(target)
                            \cup (IF correct THEN shown.from ELSE {})
                            \cup (IF correct /\ fresh THEN Around(shown.target) ELSE {})]
    /\ correcting' = correct

EvaluateAt(ideal, now) ==
    LET target   == Target(ideal, now)
        decaying == correcting /\ ~Reanchors(ideal, now)
    IN  /\ \/ Hold(target, now) /\ correcting' = decaying
           \/ \E correct \in BOOLEAN : Show(target, now, correct, decaying)
        /\ UNCHANGED <<ring, last, buckets>>

Evaluate(now) ==
    \/ Nothing
    \/ /\ ring # <<>>
       /\ \E offset \in OffsetEstimate(buckets, now),
             interval \in TypicalInterval(now), jitter \in TypicalJitter(now) :
             EvaluateAt(now - offset - Delay(interval, jitter), now)

TimelineNext ==
    \/ Reset \/ ResetSamples
    \/ \E s \in Sample : Push(s)
    \/ \E now \in Nat : Evaluate(now)

TimelineSpec == TimelineInit /\ [][TimelineNext]_timelineVars

-----------------------------------------------------------------------------
\* An actor never slides back along its trajectory: from frame to frame the
\* playback position moves on or stays, or it is put back by more than the resync
\* threshold (remote_pose_timeline.cpp:318-346 and 361-378: warp, re-anchor, hold).
PlaybackNeverSlidesBack ==
    [][ shown # None /\ shown' # None =>
          \/ shown'.target >= shown.target
          \/ shown'.target + ResyncThreshold
                < shown.target + AtLeast(playback'.seen - playback.seen, 0) ]_timelineVars
=============================================================================
