----------------------------- MODULE StreamProofs -----------------------------
(***************************************************************************)
(* The playback of Timeline never slides back, whatever samples come in    *)
(* and at whatever times frames are asked for.  The stream of Stream       *)
(* drives that playback: every step of the one is a step of the other or   *)
(* leaves it alone.  Whatever the clocks differ by, what is displayed lies *)
(* in the sender's past.  And a displayed pose is near its newest sample   *)
(* and made across a jump of the player only if its one marker was lost:   *)
(* from the buffer and the display for any samples (Unbroken), from the    *)
(* order in which the channel delivers (InOrder), and from what becomes of *)
(* each marker on its way (Accounted).  Last, the layouts of Codec are     *)
(* measured, and nothing that fits is refused on the way.                  *)
(***************************************************************************)
EXTENDS Stream, FiniteSetTheorems, SequenceTheorems, WellFoundedInduction, TLAPS

-----------------------------------------------------------------------------
(* The playback, for any samples and any times.                            *)

\* What an evaluation relies on: samples and statistics are numbers, and what is
\* displayed is the playback position.
TimelineInv ==
    /\ ring \in Seq(Sample)
    /\ last \in Sample \cup {None}
    /\ buckets \in [0..(ClockBuckets - 1) -> Bucket \cup {None}]
    /\ playback \in [have : BOOLEAN, at : Int, seen : Nat]
    /\ shown # None => shown.target = playback.at /\ playback.have

\* A part of the elapsed time is not more than all of it (the limit of the warp,
\* remote_pose_timeline.cpp:336-343).
LEMMA PartOfAdvance ==
    ASSUME NEW a \in Nat, NEW d \in Nat \ {0}
    PROVE  a \div d \in Int /\ 0 <= a \div d /\ a \div d <= a
  OBVIOUS

\* What is estimated is a number (remote_pose_timeline.cpp:139-157).
LEMMA OffsetIsInt ==
    ASSUME TimelineInv, NEW time \in Nat, ring # <<>>,
           NEW offset \in OffsetEstimate(buckets, time)
    PROVE  offset \in Int
<1> DEFINE live == {buckets[i].offset : i \in {j \in DOMAIN buckets :
                        buckets[j] # None /\ buckets[j].epoch + ClockBuckets > time \div Second}}
<1>1. live \subseteq Int
  BY DEF TimelineInv, Bucket
<1>2. CASE live # {}
  BY <1>1, <1>2 DEF OffsetEstimate, Least
<1>3. CASE live = {}
  <2>1. Newest \in Sample
    BY DEF TimelineInv, Newest
  <2>2. offset = Newest.receive - Newest.send
    BY <1>3 DEF OffsetEstimate
  <2> QED BY <2>1, <2>2 DEF Sample
<1> QED BY <1>2, <1>3

\* The typical maxima are numbers (remote_pose_timeline.cpp:159-182).
LEMMA TypicalIsNat ==
    ASSUME TimelineInv, NEW time \in Nat
    PROVE  TypicalInterval(time) \subseteq Nat /\ TypicalJitter(time) \subseteq Nat
<1>1. \A i \in Recent(time) : buckets[i] \in Bucket
  BY DEF TimelineInv, Recent, Used
<1>2. TypicalInterval(time) \subseteq Nat
  BY <1>1 DEF TypicalInterval, Median, Bucket
<1>3. TypicalJitter(time) \subseteq Nat
  BY <1>1 DEF TypicalJitter, Median, Bucket
<1> QED BY <1>2, <1>3

\* So is the delay (remote_pose_timeline.cpp:300-316).
LEMMA DelayIsNat ==
    ASSUME NEW i \in Nat, NEW j \in Nat
    PROVE  Delay(i, j) \in Nat
  BY TimelineAssumption DEF Delay, Clamp, AtLeast, AtMost

\* A bucket takes a sample in (remote_pose_timeline.cpp:102-109).
LEMMA BucketTakesIn ==
    ASSUME NEW k \in Bucket, NEW j \in Int, NEW i \in Nat
    PROVE  [k EXCEPT !.jitter = AtLeast(@, j), !.interval = AtLeast(@, i)] \in Bucket
<1>1. k.jitter \in Nat /\ k.interval \in Nat
  BY DEF Bucket
<1>2. AtLeast(k.jitter, j) \in Nat /\ AtLeast(k.interval, i) \in Nat
  BY <1>1 DEF AtLeast
<1> QED BY <1>2 DEF Bucket

\* The statistics stay statistics (remote_pose_timeline.cpp:89-109).
LEMMA ClockedIsTyped ==
    ASSUME TimelineInv, NEW s \in Sample, Accepts(s)
    PROVE  Clocked(s) \subseteq [0..(ClockBuckets - 1) -> Bucket \cup {None}]
<1> DEFINE epoch    == s.receive \div Second
           slot     == epoch % ClockBuckets
           offset   == s.receive - s.send
           old      == buckets[slot]
           kept     == IF old # None /\ old.epoch = epoch
                       THEN [old EXCEPT !.offset = AtMost(@, offset)]
                       ELSE [epoch |-> epoch, offset |-> offset, jitter |-> 0,
                             interval |-> 0]
           noted    == [buckets EXCEPT ![slot] = kept]
           interval == IF last = None THEN 0 ELSE s.send - last.send
           live     == {noted[i].offset : i \in {j \in DOMAIN noted : noted[j] # None
                           /\ noted[j].epoch + ClockBuckets > s.receive \div Second}}
<1>1. epoch \in Nat /\ offset \in Int /\ slot \in 0..(ClockBuckets - 1)
  BY TimelineAssumption DEF Sample
<1>2. kept \in Bucket /\ kept.epoch = epoch
  BY <1>1 DEF TimelineInv, Bucket, AtMost
<1>3. interval \in Nat
  BY DEF TimelineInv, Sample, Accepts
<1>4. noted \in [0..(ClockBuckets - 1) -> Bucket \cup {None}]
  BY <1>1, <1>2 DEF TimelineInv
<1>5. OffsetEstimate(noted, s.receive) \subseteq Int
  <2>1. live \subseteq Int
    BY <1>4 DEF Bucket
  <2>2. noted[slot] = kept /\ slot \in DOMAIN noted
    BY <1>1 DEF TimelineInv
  <2>3. kept # None /\ kept.epoch + ClockBuckets > s.receive \div Second
    BY <1>1, <1>2, NoneAssumption, TimelineAssumption
  <2>4. kept.offset \in live
    BY <2>2, <2>3
  <2>5. OffsetEstimate(noted, s.receive) = Least(live)
    BY <2>4 DEF OffsetEstimate
  <2> QED BY <2>1, <2>5 DEF Least
<1>6. ASSUME NEW floor \in OffsetEstimate(noted, s.receive)
      PROVE  [buckets EXCEPT ![slot] =
                 [kept EXCEPT !.jitter = AtLeast(@, offset - floor),
                              !.interval = AtLeast(@, interval)]]
               \in [0..(ClockBuckets - 1) -> Bucket \cup {None}]
  <2> DEFINE b == [kept EXCEPT !.jitter = AtLeast(@, offset - floor),
                               !.interval = AtLeast(@, interval)]
  <2>1. floor \in Int
    BY <1>5, <1>6
  <2>2. b \in Bucket
    <3>1. kept \in Bucket /\ offset - floor \in Int /\ interval \in Nat
      BY <1>1, <1>2, <1>3, <2>1
    <3> HIDE DEF kept, offset, interval
    <3> QED BY <3>1, BucketTakesIn
  <2> HIDE DEF b, slot
  <2>3. [buckets EXCEPT ![slot] = b] \in [0..(ClockBuckets - 1) -> Bucket \cup {None}]
    BY <1>1, <2>2 DEF TimelineInv
  <2> QED BY <2>3 DEF b
<1>7. SUFFICES ASSUME NEW c \in Clocked(s)
               PROVE  c \in [0..(ClockBuckets - 1) -> Bucket \cup {None}]
  OBVIOUS
<1>8. PICK floor \in OffsetEstimate(noted, s.receive) :
         c = [buckets EXCEPT ![slot] =
                 [kept EXCEPT !.jitter = AtLeast(@, offset - floor),
                              !.interval = AtLeast(@, interval)]]
  BY <1>7, Zenon DEF Clocked
<1> QED BY <1>6, <1>8
-----------------------------------------------------------------------------
\* An evaluation of the playback position (remote_pose_timeline.cpp:318-346): it
\* does not go back from where it was, or is put back by more than the threshold.
LEMMA TargetNeverSlidesBack ==
    ASSUME TimelineInv, NEW time \in Nat, NEW ideal \in Int
    PROVE  /\ Target(ideal, time) \in Int
           /\ playback.have =>
                 \/ Target(ideal, time) >= playback.at
                 \/ Target(ideal, time) + ResyncThreshold
                       < playback.at + AtLeast(time - playback.seen, 0)
<1> DEFINE advance == AtLeast(time - playback.seen, 0)
           moved   == playback.at + advance
           error   == ideal - moved
           limit   == IF error > FastThreshold \/ -error > FastThreshold
                      THEN advance \div FastWarp ELSE advance \div SlowWarp
<1>1. /\ advance \in Nat /\ moved \in Int /\ error \in Int
      /\ playback.at \in Int /\ playback.have \in BOOLEAN
  BY DEF TimelineInv, AtLeast
<1>2. limit \in Int /\ 0 <= limit /\ limit <= advance
  BY <1>1, PartOfAdvance, TimelineAssumption
<1>3. CASE Anchored(ideal, moved)
  <2>1. Target(ideal, time) = ideal
    BY <1>3 DEF Target
  <2>2. playback.have => ideal - moved > ResyncThreshold \/ moved - ideal > ResyncThreshold
    BY <1>3 DEF Anchored
  <2>3. playback.have =>
          \/ Target(ideal, time) >= playback.at
          \/ Target(ideal, time) + ResyncThreshold < playback.at + advance
    <3> HIDE DEF advance
    <3> QED BY <1>1, <2>1, <2>2, TimelineAssumption
  <2> QED BY <2>1, <2>3
<1>4. CASE ~Anchored(ideal, moved)
  <2>1. Target(ideal, time) = moved + Clamp(error, -limit, limit)
    BY <1>4 DEF Target, Warped
  <2> HIDE DEF limit, error, advance
  <2>2. Clamp(error, -limit, limit) \in Int /\ Clamp(error, -limit, limit) >= -limit
    BY <1>1, <1>2 DEF Clamp, AtLeast, AtMost
  <2> QED BY <1>1, <1>2, <2>1, <2>2
<1> QED BY <1>3, <1>4

-----------------------------------------------------------------------------
LEMMA TimelineStarts == TimelineInit => TimelineInv
  BY DEF TimelineInit, TimelineInv

\* What a sample does (remote_pose_timeline.cpp:76-137).
LEMMA PushKeepsInv ==
    ASSUME TimelineInv, NEW s \in Sample, Push(s)
    PROVE  TimelineInv' /\ (shown' = None \/ shown' = shown)
<1>1. CASE ~Accepts(s)
  BY <1>1 DEF Push, timelineVars, TimelineInv
<1>2. CASE Accepts(s)
  <2>1. buckets' \in [0..(ClockBuckets - 1) -> Bucket \cup {None}]
    BY <1>2, ClockedIsTyped DEF Push
  <2>2. Buffered(s) \in Seq(Sample)
    BY TimelineAssumption DEF TimelineInv, Buffered
  <2>3. ring' \in Seq(Sample)
    <3>1. <<s>> \in Seq(Sample)
      OBVIOUS
    <3>2. ring' = <<s>> \/ ring' = Buffered(s)
      BY <1>2 DEF Push
    <3> QED BY <2>2, <3>1, <3>2
  <2>4. last' = s /\ playback' = playback /\ (shown' = None \/ shown' = shown)
    BY <1>2 DEF Push
  <2> QED BY <2>1, <2>3, <2>4 DEF TimelineInv
<1> QED BY <1>1, <1>2

\* What a frame does (remote_pose_timeline.cpp:292-430).
LEMMA EvaluateKeepsInv ==
    ASSUME TimelineInv, NEW time \in Nat, Evaluate(time)
    PROVE  /\ TimelineInv'
           /\ shown # None /\ shown' # None =>
                 \/ shown'.target >= shown.target
                 \/ shown'.target + ResyncThreshold
                       < shown.target + AtLeast(playback'.seen - playback.seen, 0)
<1>1. CASE Nothing
  BY <1>1 DEF Nothing, TimelineInv
<1>2. CASE ~Nothing
  <2>1. PICK offset \in OffsetEstimate(buckets, time),
             interval \in TypicalInterval(time), jitter \in TypicalJitter(time) :
          ring # <<>> /\ EvaluateAt(time - offset - Delay(interval, jitter), time)
    BY <1>2 DEF Evaluate
  <2> DEFINE ideal  == time - offset - Delay(interval, jitter)
             target == Target(ideal, time)
  <2>2. ideal \in Int
    <3>1. offset \in Int
      BY <2>1, OffsetIsInt
    <3>2. interval \in Nat /\ jitter \in Nat
      BY TypicalIsNat
    <3>3. Delay(interval, jitter) \in Nat
      BY <3>2, DelayIsNat
    <3> QED BY <3>1, <3>3
  <2>3. UNCHANGED <<ring, last, buckets>>
    BY <2>1 DEF EvaluateAt
  <2>4. EvaluateAt(ideal, time)
    BY <2>1
  <2> HIDE DEF ideal
  <2>5. CASE Hold(target, time)
    <3>1. playback' = [have |-> TRUE, at |-> playback.at, seen |-> time]
      BY <2>5 DEF Hold
    <3>2. shown'.target = playback.at
      BY <2>5 DEF Hold
    <3> QED BY <2>3, <3>1, <3>2 DEF TimelineInv
  <2>6. ASSUME NEW correct \in BOOLEAN, NEW decaying, Show(target, time, correct, decaying)
        PROVE  TimelineInv' /\ shown'.target = target /\ playback'.seen = time
    <3>1. playback' = [have |-> TRUE, at |-> target, seen |-> time] /\ shown'.target = target
      BY <2>6 DEF Show
    <3>2. target \in Int
      BY <2>2, TargetNeverSlidesBack
    <3> QED BY <2>3, <3>1, <3>2 DEF TimelineInv
  <2>7. CASE ~Hold(target, time)
    <3>1. TimelineInv' /\ shown'.target = target /\ playback'.seen = time
      BY <2>4, <2>6, <2>7 DEF EvaluateAt
    <3>2. shown # None => shown.target = playback.at /\ playback.have
      BY DEF TimelineInv
    <3> QED BY <2>2, <3>1, <3>2, TargetNeverSlidesBack
  <2> QED BY <2>5, <2>7
<1> QED BY <1>1, <1>2

LEMMA TimelineStep ==
    ASSUME TimelineInv, [TimelineNext]_timelineVars
    PROVE  /\ TimelineInv'
           /\ shown # None /\ shown' # None =>
                 \/ shown'.target >= shown.target
                 \/ shown'.target + ResyncThreshold
                       < shown.target + AtLeast(playback'.seen - playback.seen, 0)
<1>0. shown # None => shown.target \in Int
  BY DEF TimelineInv
<1>1. CASE Reset
  BY <1>1 DEF Reset, TimelineInv
<1>2. CASE ResetSamples
  BY <1>2 DEF ResetSamples, TimelineInv
<1>3. ASSUME NEW s \in Sample, Push(s)
      PROVE  TimelineInv' /\ (shown' = None \/ shown' = shown)
  BY <1>3, PushKeepsInv
<1>4. ASSUME NEW time \in Nat, Evaluate(time)
      PROVE  /\ TimelineInv'
             /\ shown # None /\ shown' # None =>
                   \/ shown'.target >= shown.target
                   \/ shown'.target + ResyncThreshold
                         < shown.target + AtLeast(playback'.seen - playback.seen, 0)
  BY <1>4, EvaluateKeepsInv
<1>5. CASE UNCHANGED timelineVars
  BY <1>0, <1>5 DEF timelineVars, TimelineInv
<1> QED BY <1>0, <1>1, <1>2, <1>3, <1>4, <1>5 DEF TimelineNext

THEOREM TimelineIsTyped == TimelineSpec => []TimelineInv
  BY TimelineStarts, TimelineStep, PTL DEF TimelineSpec

\* Whatever the samples, the clocks and the frames, an actor never slides back
\* along its trajectory (remote_pose_timeline.cpp:318-346, 361-378).
THEOREM NeverSlidesBack == TimelineSpec => PlaybackNeverSlidesBack
<1>1. TimelineInv /\ [TimelineNext]_timelineVars
        => [ shown # None /\ shown' # None =>
              \/ shown'.target >= shown.target
              \/ shown'.target + ResyncThreshold
                    < shown.target + AtLeast(playback'.seen - playback.seen, 0) ]_timelineVars
  BY TimelineStep
<1> QED BY <1>1, TimelineIsTyped, PTL DEF TimelineSpec, PlaybackNeverSlidesBack

-----------------------------------------------------------------------------
(* What a pose is made from.                                               *)

\* The samples that are buffered or displayed.
Trajectory ==
    {ring[i] : i \in DOMAIN ring} \cup (IF shown # None THEN shown.from ELSE {})

\* Samples of one room, and none but the first with the teleport flag.
Continuous(S) ==
    \A a, b \in S : a.room = b.room /\ (a.send < b.send => ~b.teleport)

\* They are continuous, and none is newer than the last one accepted; what is
\* displayed goes when the buffer does.
Unbroken ==
    /\ ring = <<>> => last = None /\ shown = None
    /\ ring # <<>> => last = Newest /\ \A a \in Trajectory : a.send <= Newest.send
    /\ Trajectory \subseteq Sample
    /\ Continuous(Trajectory)

LEMMA PartOfContinuous ==
    ASSUME NEW T, Continuous(T), NEW S, S \subseteq T
    PROVE  Continuous(S)
  BY DEF Continuous

\* A trajectory goes on in the same room and without a teleport.
LEMMA ContinuousGrows ==
    ASSUME NEW T, T \subseteq Sample, Continuous(T), NEW s \in Sample, ~s.teleport,
           \A a \in T : a.room = s.room /\ a.send < s.send
    PROVE  Continuous(T \cup {s})
<1>1. \A a \in T \cup {s} : a.room = s.room /\ a.send \in Nat
  BY DEF Sample
<1>2. ASSUME NEW a \in T \cup {s}, NEW b \in T \cup {s}, a.send < b.send
      PROVE  ~b.teleport
  <2>1. CASE b = s
    BY <2>1
  <2>2. CASE b \in T /\ a \in T
    BY <1>2, <2>2 DEF Continuous
  <2>3. CASE b \in T /\ a = s
    BY <1>1, <1>2, <2>3
  <2> QED BY <2>1, <2>2, <2>3
<1> QED BY <1>1, <1>2 DEF Continuous

\* A pose is made from buffered samples (remote_pose_timeline.cpp:209-290).
LEMMA AroundIsBuffered ==
    ASSUME ring \in Seq(Sample), ring # <<>>, NEW t
    PROVE  Around(t) \subseteq {ring[i] : i \in DOMAIN ring}
<1>1. Oldest \in {ring[i] : i \in DOMAIN ring} /\ Newest \in {ring[i] : i \in DOMAIN ring}
  BY DEF Oldest, Newest
<1>2. \A j \in 2..Len(ring) : {ring[j - 1], ring[j]} \subseteq {ring[i] : i \in DOMAIN ring}
  OBVIOUS
<1> QED BY <1>1, <1>2 DEF Around

\* What a buffer holds after a sample (remote_pose_timeline.cpp:118-131).
LEMMA BufferedHolds ==
    ASSUME ring \in Seq(Sample), NEW s \in Sample
    PROVE  /\ Buffered(s) \in Seq(Sample) /\ Buffered(s) # <<>>
           /\ Buffered(s)[Len(Buffered(s))] = s
           /\ \A i \in DOMAIN Buffered(s) :
                 Buffered(s)[i] \in {ring[j] : j \in DOMAIN ring} \cup {s}
<1> DEFINE kept == IF Len(ring) = Capacity THEN Tail(ring) ELSE ring
<1>1. /\ kept \in Seq(Sample)
      /\ \A i \in DOMAIN kept : kept[i] \in {ring[j] : j \in DOMAIN ring}
  <2>1. CASE Len(ring) = Capacity
    <3>1. ring # <<>>
      BY <2>1, TimelineAssumption
    <3>2. Tail(ring) \in Seq(Sample) /\ Len(Tail(ring)) = Len(ring) - 1
      BY <3>1
    <3>3. \A i \in 1..(Len(ring) - 1) : Tail(ring)[i] = ring[i + 1] /\ i + 1 \in 1..Len(ring)
      BY <3>1
    <3> QED BY <2>1, <3>2, <3>3
  <2>2. CASE Len(ring) # Capacity
    BY <2>2
  <2> QED BY <2>1, <2>2
<1> HIDE DEF kept
<1>2. /\ Append(kept, s) \in Seq(Sample) /\ Len(Append(kept, s)) = Len(kept) + 1
      /\ Append(kept, s)[Len(kept) + 1] = s
      /\ \A i \in 1..Len(kept) : Append(kept, s)[i] = kept[i]
  BY <1>1
<1>3. \A i \in DOMAIN Append(kept, s) :
         Append(kept, s)[i] \in {ring[j] : j \in DOMAIN ring} \cup {s}
  BY <1>1, <1>2
<1>4. Buffered(s) = Append(kept, s)
  BY DEF Buffered, kept
<1> QED BY <1>1, <1>2, <1>3, <1>4

\* A sample that is no jump goes on with the trajectory, one that is begins another
\* (remote_pose_timeline.cpp:111-131).
LEMMA PushUnbroken ==
    ASSUME TimelineInv, Unbroken, NEW s \in Sample, Push(s)
    PROVE  Unbroken'
<1>1. CASE ~Accepts(s)
  BY <1>1 DEF Push, timelineVars, Unbroken, Trajectory, Newest
<1>2. CASE Accepts(s) /\ Jump(s)
  <2>1. ring' = <<s>> /\ last' = s /\ shown' = None
    BY <1>2 DEF Push
  <2>2. Trajectory' = {s} /\ Newest' = s /\ ring' # <<>>
    BY <2>1 DEF Trajectory, Newest
  <2>3. s.send \in Nat
    BY DEF Sample
  <2> QED BY <2>1, <2>2, <2>3 DEF Unbroken, Continuous
<1>3. CASE Accepts(s) /\ ~Jump(s)
  <2>1. ring' = Buffered(s) /\ last' = s /\ shown' = shown
    BY <1>3 DEF Push
  <2>2. ring \in Seq(Sample)
    BY DEF TimelineInv
  <2>3. ring' # <<>> /\ Newest' = s /\ Trajectory' \subseteq Trajectory \cup {s}
    BY <2>1, <2>2, BufferedHolds DEF Newest, Trajectory
  <2>4. ~s.teleport
    BY <1>3 DEF Jump
  <2>5. \A a \in Trajectory : a.room = s.room /\ a.send < s.send
    <3>1. CASE ring = <<>>
      BY <3>1 DEF Unbroken, Trajectory
    <3>2. CASE ring # <<>>
      <4>1. Newest \in Sample /\ Newest \in Trajectory /\ last = Newest
        BY <2>2, <3>2 DEF Newest, Trajectory, Unbroken
      <4>2. last # None
        BY <4>1, NoneAssumption
      <4>3. s.send > Newest.send /\ s.room = Newest.room
        BY <1>3, <4>1, <4>2 DEF Accepts, Jump
      <4>4. \A a \in Trajectory : a.room = Newest.room /\ a.send <= Newest.send /\ a.send \in Nat
        BY <3>2, <4>1 DEF Unbroken, Continuous, Sample
      <4> QED BY <4>1, <4>3, <4>4 DEF Sample
    <3> QED BY <3>1, <3>2
  <2>6. Continuous(Trajectory \cup {s})
    BY <2>4, <2>5, ContinuousGrows DEF Unbroken
  <2>7. Continuous(Trajectory')
    BY <2>3, <2>6, PartOfContinuous
  <2>8. \A a \in Trajectory' : a \in Sample /\ a.send <= s.send
    <3>1. \A a \in Trajectory \cup {s} : a \in Sample /\ a.send \in Nat
      BY DEF Unbroken, Sample
    <3> QED BY <2>3, <2>5, <3>1
  <2> QED BY <2>1, <2>3, <2>7, <2>8 DEF Unbroken, Continuous
<1> QED BY <1>1, <1>2, <1>3

\* A frame displays samples of the trajectory that are buffered or displayed already
\* (remote_pose_timeline.cpp:355-430).
LEMMA EvaluatedTrajectory ==
    ASSUME TimelineInv, NEW time, Evaluate(time)
    PROVE  Trajectory' \subseteq Trajectory
<1>1. CASE Nothing
  BY <1>1 DEF Nothing, Trajectory
<1>2. CASE ~Nothing
  <2>1. PICK ideal : ring # <<>> /\ EvaluateAt(ideal, time)
    BY <1>2 DEF Evaluate
  <2>2. ring' = ring
    BY <2>1 DEF EvaluateAt
  <2>3. Around(Target(ideal, time)) \cup (IF shown # None THEN Around(shown.target) ELSE {})
          \subseteq {ring[i] : i \in DOMAIN ring}
    BY <2>1, AroundIsBuffered DEF TimelineInv
  <2>4. shown'.from \subseteq Trajectory
    <3>1. CASE Hold(Target(ideal, time), time)
      BY <2>3, <3>1 DEF Hold, Trajectory
    <3>2. ASSUME NEW correct \in BOOLEAN,
                 Show(Target(ideal, time), time, correct, correcting /\ ~Reanchors(ideal, time))
          PROVE  shown'.from \subseteq Trajectory
      BY <2>3, <3>2 DEF Show, Trajectory
    <3> QED BY <2>1, <3>1, <3>2 DEF EvaluateAt
  <2> QED BY <2>2, <2>4 DEF Trajectory
<1> QED BY <1>1, <1>2

LEMMA EvaluateUnbroken ==
    ASSUME TimelineInv, Unbroken, NEW time, Evaluate(time)
    PROVE  Unbroken'
<1>1. CASE Nothing
  BY <1>1 DEF Nothing, Unbroken, Trajectory, Continuous
<1>2. CASE ~Nothing
  <2>1. ring # <<>> /\ ring' = ring /\ last' = last
    BY <1>2 DEF Evaluate, EvaluateAt
  <2>2. Newest' = Newest
    BY <2>1 DEF Newest
  <2>3. Trajectory' \subseteq Trajectory
    BY EvaluatedTrajectory
  <2>4. Continuous(Trajectory')
    BY <2>3, PartOfContinuous DEF Unbroken
  <2> QED BY <2>1, <2>2, <2>3, <2>4 DEF Unbroken, Continuous
<1> QED BY <1>1, <1>2

LEMMA UnbrokenStep ==
    ASSUME TimelineInv, Unbroken, [TimelineNext]_timelineVars
    PROVE  Unbroken'
<1>1. CASE Reset \/ ResetSamples
  BY <1>1 DEF Reset, ResetSamples, Unbroken, Trajectory, Continuous
<1>2. ASSUME NEW s \in Sample, Push(s)
      PROVE  Unbroken'
  BY <1>2, PushUnbroken
<1>3. ASSUME NEW time \in Nat, Evaluate(time)
      PROVE  Unbroken'
  BY <1>3, EvaluateUnbroken
<1>4. CASE UNCHANGED timelineVars
  BY <1>4 DEF timelineVars, Unbroken, Trajectory, Newest, Continuous
<1> QED BY <1>1, <1>2, <1>3, <1>4 DEF TimelineNext

\* Whatever samples come in and whenever they are played, the buffered and the
\* displayed ones are of one room, and none but the first of them has the teleport
\* flag, corrections included: what a sample says of itself is not played across
\* (remote_pose_timeline.cpp:111-131, 209-290, 381-430).
THEOREM TrajectoryIsUnbroken == TimelineSpec => []Unbroken
<1>1. TimelineInit => Unbroken
  BY DEF TimelineInit, Unbroken, Trajectory, Continuous
<1>2. Unbroken /\ TimelineInv /\ [TimelineNext]_timelineVars => Unbroken'
  BY UnbrokenStep
<1> QED BY <1>1, <1>2, TimelineIsTyped, PTL DEF TimelineSpec

-----------------------------------------------------------------------------
(* The stream that drives it.                                              *)

\* Sent by now.
OnWire == {s \in State : s.send <= SenderClock(now)}

\* Received after it was sent.
Arrived == {s \in State : s.send <= SenderClock(s.receive)}
Playable == {s \in Sample : s.send <= SenderClock(s.receive)}

StreamTyped ==
    /\ now \in Nat
    /\ sender \in [running : BOOLEAN, in : BOOLEAN, room : Room,
                   sequence : 0..(SeqRange - 1), last : Nat, jumps : Nat, leap : Nat]
    /\ up \in OnWire \cup {None} /\ latest \in OnWire \cup {None}
    /\ down \in Seq(OnWire) /\ inbox \in Seq(Arrived) /\ newest \in Arrived \cup {None}

\* No estimate of the offset is below the true one, and the playback position lies
\* a delay before the sender's clock.
PlaybackBehind ==
    /\ ring \in Seq(Playable)
    /\ \A i \in DOMAIN buckets : buckets[i] # None => buckets[i].offset >= -Skew
    /\ playback.seen <= now
    /\ playback.have \/ playback.at # 0
         => playback.at <= SenderClock(playback.seen) - MinDelay

StreamInv == TimelineInv /\ StreamTyped /\ PlaybackBehind

-----------------------------------------------------------------------------
LEMMA SeqGrows ==
    ASSUME NEW S, NEW T, S \subseteq T, NEW s \in Seq(S)
    PROVE  s \in Seq(T)
  OBVIOUS

LEMMA HeadTail ==
    ASSUME NEW S, NEW s \in Seq(S), s # <<>>
    PROVE  Head(s) \in S /\ Tail(s) \in Seq(S)
  OBVIOUS

LEMMA StreamStarts == StreamInit => TimelineInit /\ StreamInv
<1> SUFFICES ASSUME StreamInit PROVE TimelineInit /\ StreamInv
  OBVIOUS
<1>1. TimelineInit /\ TimelineInv
  BY TimelineStarts DEF StreamInit
<1>2. StreamTyped
  BY StreamAssumption DEF StreamInit, StreamTyped
<1>3. PlaybackBehind
  BY <1>1 DEF StreamInit, TimelineInit, PlaybackBehind
<1> QED BY <1>1, <1>2, <1>3 DEF StreamInv

\* Nothing of the playback changes when its variables do not, and time goes on.
LEMMA StillBehind ==
    ASSUME StreamInv, UNCHANGED timelineVars, now' \in Nat, now' >= now
    PROVE  TimelineInv' /\ PlaybackBehind'
  BY DEF StreamInv, timelineVars, TimelineInv, PlaybackBehind, StreamTyped, Playable,
         SenderClock

-----------------------------------------------------------------------------
(* The sender, the coordinator and the receiver's sidecar.                 *)

LEMMA TickKeeps ==
    ASSUME StreamInv, Tick
    PROVE  StreamInv' /\ UNCHANGED timelineVars
<1>1. now \in Nat /\ now' = now + 1
  BY DEF StreamInv, StreamTyped, Tick
<1>2. UNCHANGED <<sender, up, latest, down, inbox, newest>> /\ UNCHANGED timelineVars
  BY DEF Tick, wire, receiver
<1>3. OnWire \subseteq OnWire'
  BY <1>1, StreamAssumption DEF OnWire, SenderClock, State
<1>4. down \in Seq(OnWire')
  BY <1>3, SeqGrows DEF StreamInv, StreamTyped
<1>5. Arrived' = Arrived
  BY DEF Arrived
<1>6. StreamTyped'
  BY <1>1, <1>2, <1>3, <1>4, <1>5 DEF StreamInv, StreamTyped
<1> QED BY <1>1, <1>2, <1>6, StillBehind DEF StreamInv

\* While the clock stands still, the rest of the stream's types are those of what
\* moved.
LEMMA StepKeeps ==
    ASSUME StreamInv, now' = now, UNCHANGED timelineVars,
           sender' \in [running : BOOLEAN, in : BOOLEAN, room : Room,
                        sequence : 0..(SeqRange - 1), last : Nat, jumps : Nat, leap : Nat],
           newest' = newest,
           up' \in OnWire \cup {None}, latest' \in OnWire \cup {None},
           down' \in Seq(OnWire), inbox' \in Seq(Arrived)
    PROVE  StreamInv' /\ UNCHANGED timelineVars
<1>1. OnWire' = OnWire /\ Arrived' = Arrived
  BY DEF OnWire, Arrived
<1>2. StreamTyped'
  BY <1>1 DEF StreamInv, StreamTyped
<1> QED BY <1>2, StillBehind DEF StreamInv, StreamTyped

\* What is published is a state, stamped with the time of its capture
\* (telemetry.cpp:202-262).
LEMMA PublishedIsState ==
    ASSUME StreamInv, NEW r \in Room, NEW t \in BOOLEAN, NEW w \in BOOLEAN, NEW f \in Flaw,
           NEW l \in Nat,
           Published([send |-> SenderClock(now), receive |-> 0, sequence |-> NextSequence,
                      room |-> r, teleport |-> t, inWorld |-> w, flaw |-> f, leap |-> l])
    PROVE  /\ SenderClock(now) \in Nat /\ NextSequence \in 0..(SeqRange - 1)
           /\ up' \in OnWire /\ now' = now
           /\ up' = [send |-> SenderClock(now), receive |-> 0, sequence |-> NextSequence,
                     room |-> r, teleport |-> t, inWorld |-> w, flaw |-> f, leap |-> l]
           /\ UNCHANGED <<latest, down, inbox, newest>> /\ UNCHANGED timelineVars
<1>1. NextSequence \in 0..(SeqRange - 1)
  BY TimelineAssumption DEF StreamInv, StreamTyped, NextSequence
<1>2. sender.last \in Nat /\ SenderClock(now) \in Int /\ sender.last <= SenderClock(now)
  BY StreamAssumption DEF StreamInv, StreamTyped, SenderClock, Published
<1>3. SenderClock(now) \in Nat
  BY <1>2
<1>4. up' = [send |-> SenderClock(now), receive |-> 0, sequence |-> NextSequence,
             room |-> r, teleport |-> t, inWorld |-> w, flaw |-> f, leap |-> l]
  BY DEF Published
<1>5. up' \in OnWire
  BY <1>1, <1>3, <1>4 DEF OnWire, State
<1> QED BY <1>1, <1>3, <1>4, <1>5 DEF Published, wire, receiver

LEMMA PublishKeeps ==
    ASSUME StreamInv,
           \/ \E r \in Room, t \in BOOLEAN, f \in Flaw : Publish(r, t, f)
           \/ PublishHidden
    PROVE  StreamInv' /\ UNCHANGED timelineVars
<1>1. NextSequence \in 0..(SeqRange - 1)
  BY TimelineAssumption DEF StreamInv, StreamTyped, NextSequence
<1>2. /\ now \in Nat /\ sender.last \in Nat /\ sender.room \in Room
      /\ sender.jumps \in Nat /\ sender.leap \in Nat /\ SenderClock(now) \in Int
  BY StreamAssumption DEF StreamInv, StreamTyped, SenderClock
<1>3. ASSUME NEW r \in Room, NEW t \in BOOLEAN, NEW w \in BOOLEAN, NEW f \in Flaw,
             NEW l \in Nat,
             Published([send |-> SenderClock(now), receive |-> 0,
                        sequence |-> NextSequence, room |-> r, teleport |-> t,
                        inWorld |-> w, flaw |-> f, leap |-> l])
      PROVE  /\ SenderClock(now) \in Nat
             /\ up' \in OnWire /\ now' = now
             /\ UNCHANGED <<latest, down, inbox, newest>> /\ UNCHANGED timelineVars
  BY <1>3, PublishedIsState
<1>4. ASSUME NEW r \in Room, NEW t \in BOOLEAN, NEW f \in Flaw, Publish(r, t, f)
      PROVE  StreamInv' /\ UNCHANGED timelineVars
  <2>1. PICK l \in Nat, j \in Nat :
          /\ Published([send |-> SenderClock(now), receive |-> 0,
                        sequence |-> NextSequence, room |-> r, teleport |-> t,
                        inWorld |-> TRUE, flaw |-> f, leap |-> l])
          /\ sender' = [sender EXCEPT !.in = TRUE, !.room = r, !.sequence = NextSequence,
                                      !.last = SenderClock(now), !.jumps = @ + j,
                                      !.leap = l]
    <3>1. OutOfOrdinary(t, f) \in Nat /\ sender.leap + (IF t THEN 1 ELSE 0) \in Nat
      BY <1>2 DEF OutOfOrdinary
    <3> QED BY <1>4, <3>1 DEF Publish
  <2>2. sender.jumps + j \in Nat
    BY <1>2, <2>1
  <2>3. sender' \in [running : BOOLEAN, in : BOOLEAN, room : Room,
                     sequence : 0..(SeqRange - 1), last : Nat, jumps : Nat, leap : Nat]
    BY <1>1, <1>3, <2>1, <2>2 DEF StreamInv, StreamTyped
  <2> QED BY <1>3, <2>1, <2>3, StepKeeps DEF StreamInv, StreamTyped
<1>5. CASE PublishHidden
  <2>1. "none" \in Flaw /\ sender.leap + 1 \in Nat /\ sender.jumps + 1 \in Nat
    BY <1>2 DEF Flaw
  <2>2. Published([send |-> SenderClock(now), receive |-> 0, sequence |-> NextSequence,
                   room |-> sender.room, teleport |-> FALSE, inWorld |-> FALSE,
                   flaw |-> "none", leap |-> sender.leap + 1])
    BY <1>5 DEF PublishHidden
  <2>3. sender' = [sender EXCEPT !.in = FALSE, !.sequence = NextSequence,
                                 !.last = SenderClock(now), !.jumps = @ + 1, !.leap = @ + 1]
    BY <1>5 DEF PublishHidden
  <2>4. sender' \in [running : BOOLEAN, in : BOOLEAN, room : Room,
                     sequence : 0..(SeqRange - 1), last : Nat, jumps : Nat, leap : Nat]
    BY <1>1, <1>2, <1>3, <2>1, <2>2, <2>3 DEF StreamInv, StreamTyped
  <2> QED BY <1>2, <1>3, <2>1, <2>2, <2>4, StepKeeps DEF StreamInv, StreamTyped
<1> QED BY <1>4, <1>5

\* What is not published changes the sender only.
LEMMA UnpublishedKeeps ==
    ASSUME StreamInv, NEW r \in Room, Unpublished(r)
    PROVE  StreamInv' /\ UNCHANGED timelineVars
<1>1. sender' \in [running : BOOLEAN, in : BOOLEAN, room : Room,
                   sequence : 0..(SeqRange - 1), last : Nat, jumps : Nat, leap : Nat]
  <2>1. /\ sender.running \in BOOLEAN /\ sender.in \in BOOLEAN
        /\ sender.sequence \in 0..(SeqRange - 1) /\ sender.last \in Nat
        /\ sender.jumps + 1 \in Nat /\ sender.leap + 1 \in Nat
    BY DEF StreamInv, StreamTyped
  <2>2. sender' = [sender EXCEPT !.room = r, !.jumps = @ + 1, !.leap = @ + 1]
    BY DEF Unpublished
  <2> QED BY <2>1, <2>2 DEF StreamInv, StreamTyped
<1> QED BY <1>1, StepKeeps DEF Unpublished, StreamInv, StreamTyped, wire, receiver

LEMMA StopsKeeps ==
    ASSUME StreamInv, StopsItself \/ LoseUp
    PROVE  StreamInv' /\ UNCHANGED timelineVars
<1>1. sender' \in [running : BOOLEAN, in : BOOLEAN, room : Room,
                   sequence : 0..(SeqRange - 1), last : Nat, jumps : Nat, leap : Nat]
  BY DEF StopsItself, LoseUp, StreamInv, StreamTyped
<1> QED BY <1>1, StepKeeps DEF StopsItself, LoseUp, StreamInv, StreamTyped, wire, receiver

\* Whether carried or refused.
LEMMA CarryKeeps ==
    ASSUME StreamInv, NEW kind, NEW carried, NEW packet \in OnWire,
           Carry(kind, carried, packet)
    PROVE  down' \in Seq(OnWire)
<1>1. down \in Seq(OnWire)
  BY DEF StreamInv, StreamTyped
<1>2. Append(down, packet) \in Seq(OnWire)
  BY <1>1
<1> QED BY <1>1, <1>2 DEF Carry

LEMMA CoordinatorKeeps ==
    ASSUME StreamInv,
           FanOut \/ LoseDown \/ Exchange \/ \E n \in 1..MaxSnapshotPlayers : Snapshot(n)
    PROVE  StreamInv' /\ UNCHANGED timelineVars
<1>1. CASE FanOut
  <2>1. up \in OnWire
    BY <1>1 DEF FanOut, StreamInv, StreamTyped
  <2>2. ToNetwork(up) \in OnWire
    BY <2>1 DEF ToNetwork, OnWire, State
  <2>3. down' \in Seq(OnWire)
    BY <1>1, <2>2, CarryKeeps DEF FanOut
  <2> QED BY <1>1, <2>2, <2>3, StepKeeps DEF FanOut, StreamInv, StreamTyped, receiver
<1>2. CASE LoseDown
  <2>1. down' \in Seq(OnWire)
    BY <1>2, HeadTail DEF LoseDown, StreamInv, StreamTyped
  <2> QED BY <1>2, <2>1, StepKeeps DEF LoseDown, StreamInv, StreamTyped, receiver
<1>3. CASE Exchange
  BY <1>3, StepKeeps DEF Exchange, StreamInv, StreamTyped, receiver, wire
<1>4. ASSUME NEW n \in 1..MaxSnapshotPlayers, Snapshot(n)
      PROVE  StreamInv' /\ UNCHANGED timelineVars
  <2>1. latest \in OnWire
    BY <1>4 DEF Snapshot, StreamInv, StreamTyped
  <2>2. down' \in Seq(OnWire)
    BY <1>4, <2>1, CarryKeeps DEF Snapshot
  <2> QED BY <1>4, <2>2, StepKeeps DEF Snapshot, StreamInv, StreamTyped, receiver
<1> QED BY <1>1, <1>2, <1>3, <1>4

\* What the receiver stamps was sent before (network_adapter.cpp:583-597 and
\* remote_actor_backend.cpp:1947-1966).
LEMMA ReceiveKeeps ==
    ASSUME StreamInv, Receive
    PROVE  StreamInv' /\ UNCHANGED timelineVars
<1> DEFINE s == Head(down)
<1>1. s \in OnWire /\ down' \in Seq(OnWire)
  BY HeadTail DEF Receive, StreamInv, StreamTyped
<1>2. ASSUME NEW stamp \in 1..now, s.send <= SenderClock(stamp)
      PROVE  Stamped(ToIpc(s, stamp), now) \in Arrived
  <2>1. now \in Nat /\ s \in State /\ s.send <= SenderClock(now)
    BY <1>1 DEF StreamInv, StreamTyped, OnWire
  <2>2. [s EXCEPT !.receive = stamp] \in Arrived /\ [s EXCEPT !.receive = now] \in Arrived
    <3> HIDE DEF s
    <3> QED BY <1>2, <2>1 DEF Arrived, State
  <2>3. \/ Stamped(ToIpc(s, stamp), now) = [s EXCEPT !.receive = stamp]
        \/ Stamped(ToIpc(s, stamp), now) = [s EXCEPT !.receive = now]
    <3> HIDE DEF s
    <3> QED BY <2>1 DEF Stamped, ToIpc, State
  <2> QED BY <2>2, <2>3
<1>3. ASSUME NEW x \in Arrived
      PROVE  Queued(x) \in Seq(Arrived)
  <2>1. inbox \in Seq(Arrived)
    BY DEF StreamInv, StreamTyped
  <2>2. (IF Len(inbox) = InboxRoom THEN Tail(inbox) ELSE inbox) \in Seq(Arrived)
    BY <2>1, StreamAssumption
  <2> QED BY <2>2 DEF Queued
<1>4. inbox' \in Seq(Arrived)
  <2>1. inbox' = inbox \/ \E stamp \in {t \in 1..now : s.send <= SenderClock(t)} :
                             inbox' = Queued(Stamped(ToIpc(s, stamp), now))
    BY DEF Receive
  <2> HIDE DEF s
  <2> QED BY <1>2, <1>3, <2>1 DEF StreamInv, StreamTyped
<1> QED BY <1>1, <1>4, StepKeeps DEF Receive, StreamInv, StreamTyped

-----------------------------------------------------------------------------
(* The receiver's game thread.                                             *)

\* The statistics take in an offset that is not below the true one.
LEMMA ClockedBehind ==
    ASSUME StreamInv, NEW s \in Playable, NEW c \in Clocked(s)
    PROVE  \A i \in DOMAIN c : c[i] # None => c[i].offset >= -Skew
<1> DEFINE epoch    == s.receive \div Second
           slot     == epoch % ClockBuckets
           offset   == s.receive - s.send
           old      == buckets[slot]
           kept     == IF old # None /\ old.epoch = epoch
                       THEN [old EXCEPT !.offset = AtMost(@, offset)]
                       ELSE [epoch |-> epoch, offset |-> offset, jitter |-> 0,
                             interval |-> 0]
           noted    == [buckets EXCEPT ![slot] = kept]
           interval == IF last = None THEN 0 ELSE s.send - last.send
<1>1. PICK floor \in OffsetEstimate(noted, s.receive) :
         c = [buckets EXCEPT ![slot] =
                 [kept EXCEPT !.jitter = AtLeast(@, offset - floor),
                              !.interval = AtLeast(@, interval)]]
  BY Zenon DEF Clocked
<1>2. /\ buckets \in [0..(ClockBuckets - 1) -> Bucket \cup {None}]
      /\ \A i \in DOMAIN buckets : buckets[i] # None => buckets[i].offset >= -Skew
  BY DEF StreamInv, TimelineInv, PlaybackBehind
<1>3. epoch \in Nat /\ offset \in Int /\ offset >= -Skew /\ slot \in 0..(ClockBuckets - 1)
  BY TimelineAssumption, StreamAssumption DEF Playable, Sample, SenderClock
<1>4. kept \in Bucket /\ kept.offset >= -Skew
  <2>1. CASE old # None /\ old.epoch = epoch
    <3>1. old \in Bucket /\ old.offset >= -Skew
      BY <1>2, <1>3, <2>1
    <3>2. AtMost(old.offset, offset) \in Int /\ AtMost(old.offset, offset) >= -Skew
      BY <1>3, <3>1, StreamAssumption DEF AtMost, Bucket
    <3> HIDE DEF old, offset, epoch
    <3> QED BY <2>1, <3>1, <3>2 DEF Bucket
  <2>2. CASE ~(old # None /\ old.epoch = epoch)
    <3> HIDE DEF old, offset, epoch
    <3> QED BY <1>3, <2>2 DEF Bucket
  <2> QED BY <2>1, <2>2
<1> DEFINE b == [kept EXCEPT !.jitter = AtLeast(@, offset - floor),
                             !.interval = AtLeast(@, interval)]
<1>5. b.offset >= -Skew
  <2> HIDE DEF kept, offset, interval
  <2> QED BY <1>4 DEF Bucket
<1> HIDE DEF b, slot
<1>6. c = [buckets EXCEPT ![slot] = b]
  BY <1>1 DEF b, slot
<1> QED BY <1>2, <1>3, <1>5, <1>6

\* A state applied is a sample pushed, a trajectory ended, or nothing
\* (remote_actor_backend.cpp:1146-1159).
LEMMA ApplyIsAPush ==
    ASSUME StreamInv, Apply
    PROVE  \/ \E s \in Playable : Push(s)
           \/ ResetSamples
           \/ UNCHANGED timelineVars
<1>1. Head(inbox) \in Arrived
  BY HeadTail DEF Apply, StreamInv, StreamTyped
<1>2. PoseSample(Head(inbox)) \in Playable
  BY <1>1 DEF PoseSample, Arrived, Playable, State, Sample
<1> QED BY <1>2 DEF Apply

LEMMA PushBehind ==
    ASSUME StreamInv, NEW s \in Playable, Push(s), now' = now
    PROVE  PlaybackBehind'
<1>1. CASE ~Accepts(s)
  BY <1>1 DEF Push, timelineVars, PlaybackBehind, StreamInv, Playable, SenderClock
<1>2. CASE Accepts(s)
  <2>1. \A i \in DOMAIN buckets' : buckets'[i] # None => buckets'[i].offset >= -Skew
    BY <1>2, ClockedBehind DEF Push
  <2>2. Buffered(s) \in Seq(Playable)
    <3>1. ring \in Seq(Playable)
      BY DEF StreamInv, PlaybackBehind
    <3>2. (IF Len(ring) = Capacity THEN Tail(ring) ELSE ring) \in Seq(Playable)
      BY <3>1, TimelineAssumption
    <3> QED BY <3>2 DEF Buffered
  <2>3. <<s>> \in Seq(Playable)
    OBVIOUS
  <2>4. ring' \in Seq(Playable) /\ UNCHANGED playback
    BY <1>2, <2>2, <2>3 DEF Push
  <2> QED BY <2>1, <2>4 DEF PlaybackBehind, StreamInv, Playable, SenderClock
<1> QED BY <1>1, <1>2

LEMMA ApplyKeeps ==
    ASSUME StreamInv, Apply
    PROVE  StreamInv' /\ [TimelineNext]_timelineVars
<1>1. /\ now' = now /\ UNCHANGED <<sender, up, latest, down>>
      /\ inbox' \in Seq(Arrived) /\ newest' \in Arrived \cup {None}
  BY HeadTail DEF Apply, wire, StreamInv, StreamTyped
<1>2. StreamTyped'
  BY <1>1 DEF StreamInv, StreamTyped, OnWire, Arrived
<1>3. ASSUME NEW s \in Playable, Push(s)
      PROVE  PlaybackBehind' /\ TimelineInv' /\ TimelineNext
  <2>1. s \in Sample
    BY DEF Playable
  <2> QED BY <1>1, <1>3, <2>1, PushBehind, PushKeepsInv DEF StreamInv, TimelineNext
<1>4. ASSUME ResetSamples
      PROVE  PlaybackBehind' /\ TimelineInv' /\ TimelineNext
  <2>1. UNCHANGED <<buckets, playback>> /\ ring' = <<>> /\ last' = None /\ shown' = None
    BY <1>4 DEF ResetSamples
  <2>2. TimelineInv'
    BY <2>1 DEF StreamInv, TimelineInv
  <2>3. PlaybackBehind'
    BY <1>1, <2>1 DEF StreamInv, PlaybackBehind, Playable, SenderClock
  <2>4. TimelineNext
    BY <1>4 DEF TimelineNext
  <2> QED BY <2>2, <2>3, <2>4
<1>5. ASSUME UNCHANGED timelineVars
      PROVE  PlaybackBehind' /\ TimelineInv'
  <2>1. now' \in Nat /\ now' >= now
    BY <1>1 DEF StreamInv, StreamTyped
  <2> QED BY <1>5, <2>1, StillBehind
<1> QED BY <1>2, <1>3, <1>4, <1>5, ApplyIsAPush DEF StreamInv

\* No offset is estimated below the true one (remote_pose_timeline.cpp:139-157).
LEMMA OffsetBehind ==
    ASSUME StreamInv, ring # <<>>, NEW offset \in OffsetEstimate(buckets, now)
    PROVE  offset \in Int /\ offset >= -Skew
<1> DEFINE live == {buckets[i].offset : i \in {j \in DOMAIN buckets :
                        buckets[j] # None /\ buckets[j].epoch + ClockBuckets > now \div Second}}
<1>1. offset \in Int
  BY OffsetIsInt DEF StreamInv, StreamTyped
<1>2. CASE live # {}
  <2>1. offset \in live
    BY <1>2 DEF OffsetEstimate, Least
  <2> QED BY <1>1, <2>1 DEF StreamInv, PlaybackBehind
<1>3. CASE live = {}
  <2>1. Newest \in Playable
    BY DEF StreamInv, PlaybackBehind, Newest
  <2>2. offset = Newest.receive - Newest.send
    BY <1>3 DEF OffsetEstimate
  <2> QED BY <1>1, <2>1, <2>2, StreamAssumption DEF Playable, Sample, SenderClock
<1> QED BY <1>2, <1>3

\* The delay is at least the smallest (remote_pose_timeline.cpp:300-316).
LEMMA DelayBehind ==
    ASSUME NEW i \in Nat, NEW j \in Nat
    PROVE  Delay(i, j) >= MinDelay
  BY TimelineAssumption DEF Delay, Clamp, AtLeast, AtMost

\* A position warped towards the ideal one is not ahead of both the ideal one and
\* the one it is moved from (remote_pose_timeline.cpp:318-346).
LEMMA TargetBehind ==
    ASSUME TimelineInv, NEW ideal \in Int, NEW bound \in Int, NEW at \in Nat,
           ideal <= bound, playback.seen <= at,
           playback.have => playback.at + (at - playback.seen) <= bound
    PROVE  Target(ideal, at) <= bound
<1> DEFINE advance == AtLeast(at - playback.seen, 0)
           moved   == playback.at + advance
           error   == ideal - moved
           limit   == IF error > FastThreshold \/ -error > FastThreshold
                      THEN advance \div FastWarp ELSE advance \div SlowWarp
<1>1. /\ advance \in Nat /\ moved \in Int /\ error \in Int
      /\ playback.have => moved <= bound
  BY DEF TimelineInv, AtLeast
<1>2. limit \in Int /\ 0 <= limit
  BY <1>1, PartOfAdvance, TimelineAssumption
<1>3. CASE Anchored(ideal, moved)
  BY <1>3 DEF Target
<1>4. CASE ~Anchored(ideal, moved)
  <2>1. Target(ideal, at) = moved + Clamp(error, -limit, limit)
    BY <1>4 DEF Target, Warped
  <2>2. moved <= bound
    BY <1>1, <1>4 DEF Anchored
  <2>3. moved + error = ideal
    BY <1>1
  <2> HIDE DEF limit, error, advance, moved
  <2>4. \/ Clamp(error, -limit, limit) = error
        \/ Clamp(error, -limit, limit) = -limit
        \/ Clamp(error, -limit, limit) = limit /\ limit < error
    BY <1>1, <1>2 DEF Clamp, AtLeast, AtMost
  <2> QED BY <1>1, <1>2, <2>1, <2>2, <2>3, <2>4
<1> QED BY <1>3, <1>4

\* Where a frame puts the playback (remote_pose_timeline.cpp:292-378).
LEMMA FrameKeeps ==
    ASSUME StreamInv, Frame
    PROVE  StreamInv' /\ TimelineNext
<1>1. /\ Evaluate(now) /\ now \in Nat /\ now' = now
      /\ UNCHANGED <<sender, up, latest, down, inbox, newest>>
  BY DEF Frame, wire, receiver, StreamInv, StreamTyped
<1>2. TimelineNext
  BY <1>1 DEF TimelineNext
<1>3. TimelineInv'
  BY <1>1, EvaluateKeepsInv DEF StreamInv
<1>4. StreamTyped'
  BY <1>1 DEF StreamInv, StreamTyped, OnWire, Arrived
<1>5. ring' = ring /\ buckets' = buckets
  BY <1>1 DEF Evaluate, Nothing, EvaluateAt
<1>6. SUFFICES /\ playback'.seen <= now
               /\ playback'.have \/ playback'.at # 0
                    => playback'.at <= SenderClock(playback'.seen) - MinDelay
  BY <1>1, <1>2, <1>3, <1>4, <1>5 DEF StreamInv, PlaybackBehind, Playable, SenderClock
<1>7. CASE Nothing
  <2>1. playback'.at = playback.at /\ playback'.seen = playback.seen /\ ~playback'.have
    BY <1>7 DEF Nothing, StreamInv, TimelineInv
  <2> QED BY <2>1 DEF StreamInv, PlaybackBehind
<1>8. CASE ~Nothing
  <2>1. PICK offset \in OffsetEstimate(buckets, now),
             interval \in TypicalInterval(now), jitter \in TypicalJitter(now) :
          ring # <<>> /\ EvaluateAt(now - offset - Delay(interval, jitter), now)
    BY <1>1, <1>8 DEF Evaluate
  <2> DEFINE ideal  == now - offset - Delay(interval, jitter)
             target == Target(ideal, now)
             bound  == SenderClock(now) - MinDelay
  <2>2. ideal \in Int /\ ideal <= bound
    <3>1. offset \in Int /\ offset >= -Skew
      BY <2>1, OffsetBehind
    <3>2. interval \in Nat /\ jitter \in Nat
      BY <1>1, TypicalIsNat DEF StreamInv
    <3>3. Delay(interval, jitter) \in Nat /\ Delay(interval, jitter) >= MinDelay
      BY <3>2, DelayIsNat, DelayBehind
    <3> QED BY <1>1, <3>1, <3>3, StreamAssumption, TimelineAssumption DEF SenderClock
  <2>3. bound \in Int
    BY <1>1, StreamAssumption, TimelineAssumption DEF SenderClock
  <2>4. /\ playback.have \in BOOLEAN /\ playback.at \in Int /\ playback.seen \in Nat
        /\ playback.seen <= now
    BY DEF StreamInv, TimelineInv, PlaybackBehind
  <2>5. playback.have \/ playback.at # 0
          => playback.at + (now - playback.seen) <= bound
    BY <1>1, <2>4, StreamAssumption, TimelineAssumption
       DEF StreamInv, PlaybackBehind, SenderClock
  <2>6. target \in Int /\ target <= bound
    <3> HIDE DEF ideal, bound
    <3>1. TimelineInv
      BY DEF StreamInv
    <3>2. playback.have => playback.at + (now - playback.seen) <= bound
      BY <2>5
    <3>3. target \in Int
      BY <1>1, <2>2, <3>1, TargetNeverSlidesBack
    <3>4. target <= bound
      BY <1>1, <2>2, <2>3, <2>4, <3>1, <3>2, TargetBehind
    <3> QED BY <3>3, <3>4
  <2>7. EvaluateAt(ideal, now)
    BY <2>1
  <2> HIDE DEF ideal
  <2>8. CASE Hold(target, now)
    <3>1. playback' = [have |-> TRUE, at |-> playback.at, seen |-> now]
      BY <2>8 DEF Hold
    <3>2. playback.at <= bound
      <4>1. CASE playback.have \/ playback.at # 0
        BY <1>1, <2>3, <2>4, <2>5, <4>1
      <4>2. CASE ~(playback.have \/ playback.at # 0)
        \* Held before anything was played: past the newest sample.
        <5>1. target > Newest.send + MaxExtrapolation
          BY <2>8 DEF Hold, StateAt
        <5>2. Newest \in Sample
          BY <2>1 DEF StreamInv, TimelineInv, Newest
        <5>3. target >= 0
          BY <2>6, <5>1, <5>2, TimelineAssumption DEF Sample
        <5> QED BY <2>3, <2>6, <4>2, <5>3
      <4> QED BY <4>1, <4>2
    <3> QED BY <1>1, <3>1, <3>2
  <2>9. CASE ~Hold(target, now)
    <3>1. \E correct \in BOOLEAN :
             Show(target, now, correct, correcting /\ ~Reanchors(ideal, now))
      BY <2>7, <2>9 DEF EvaluateAt
    <3>2. playback' = [have |-> TRUE, at |-> target, seen |-> now]
      BY <3>1 DEF Show
    <3> QED BY <1>1, <2>6, <3>2
  <2> QED BY <2>8, <2>9
<1> QED BY <1>7, <1>8

-----------------------------------------------------------------------------
LEMMA StreamStep ==
    ASSUME StreamInv, [StreamNext]_vars
    PROVE  StreamInv' /\ [TimelineNext]_timelineVars
<1>1. CASE Tick
  BY <1>1, TickKeeps
<1>2. CASE \/ \E r \in Room, t \in BOOLEAN, f \in Flaw : Publish(r, t, f)
           \/ PublishHidden
  BY <1>2, PublishKeeps
<1>3. CASE StopsItself \/ LoseUp \/ \E r \in Room : Unpublished(r)
  BY <1>3, StopsKeeps, UnpublishedKeeps
<1>4. CASE FanOut \/ LoseDown \/ Exchange \/ \E n \in 1..MaxSnapshotPlayers : Snapshot(n)
  BY <1>4, CoordinatorKeeps
<1>5. CASE Receive
  BY <1>5, ReceiveKeeps
<1>6. CASE Apply
  BY <1>6, ApplyKeeps
<1>7. CASE Frame
  BY <1>7, FrameKeeps
<1>8. CASE UNCHANGED vars
  <2>1. UNCHANGED <<now, sender, up, latest, down, inbox, newest>> /\ UNCHANGED timelineVars
    BY <1>8 DEF vars
  <2> QED BY <2>1, StepKeeps DEF StreamInv, StreamTyped
<1> QED BY <1>1, <1>2, <1>3, <1>4, <1>5, <1>6, <1>7, <1>8 DEF StreamNext

THEOREM StreamIsTyped == StreamSpec => []StreamInv
  BY StreamStarts, StreamStep, PTL DEF StreamSpec

\* Whatever the clocks differ by, whatever is lost and however arrivals jitter, the
\* display stays behind the sender (remote_pose_timeline.cpp:139-157, 300-346).
THEOREM DisplayedIsPast == StreamSpec => []NeverAheadOfSender
<1>1. StreamInv => NeverAheadOfSender
  BY DEF StreamInv, TimelineInv, PlaybackBehind, NeverAheadOfSender
<1> QED BY <1>1, StreamIsTyped, PTL

\* What the stream does to the playback is what Timeline allows
\* (remote_actor_backend.cpp:1137-1161, 897-914).
THEOREM StreamImplementsTimeline == StreamSpec => TimelineSpec
<1>1. StreamInit => TimelineInit
  BY StreamStarts
<1>2. StreamInv /\ [StreamNext]_vars => [TimelineNext]_timelineVars
  BY StreamStep
<1> QED BY <1>1, <1>2, StreamIsTyped, PTL DEF StreamSpec, TimelineSpec

\* So an actor never slides back, whatever the coordinator and the channel do.
THEOREM StreamNeverSlidesBack == StreamSpec => PlaybackNeverSlidesBack
  BY StreamImplementsTimeline, NeverSlidesBack

-----------------------------------------------------------------------------
(* The order in which states reach the playback.                           *)

Playing == IF ring # <<>> THEN {Newest} ELSE {}

\* The states on the way, and what can come into play, from the playback back to the
\* sender.
Pending == Range(inbox) \cup Range(down) \cup One(latest) \cup One(up)
Coming == Playing \cup Pending

\* A leap's marker is the first of its samples.
Before(s, t) ==
    s.send <= t.send /\ s.leap <= t.leap /\ (s.leap = t.leap /\ Marks(t) => Marks(s))

Precede(S, T) == \A s \in S, t \in T : Before(s, t)

Ordered(q) == \A i, j \in DOMAIN q : i <= j => Before(q[i], q[j])

\* The channel keeps its order and a snapshot repeats the newest state only, so what
\* is behind is never older; and the playback is not further ahead of anything that
\* can come into play than extrapolation may go, even when a buffer is given up.
InOrder ==
    /\ Ordered(inbox) /\ Ordered(down)
    /\ \A s \in Playing : newest # None /\ s.send <= newest.send
    /\ Precede(One(newest), Range(inbox) \cup Range(down) \cup One(latest) \cup One(up))
    /\ Precede(Range(inbox), Range(down) \cup One(latest) \cup One(up))
    /\ Precede(Range(down), One(latest) \cup One(up))
    /\ Precede(One(latest), One(up))
    /\ \A s \in Coming : s.send <= sender.last /\ playback.at <= s.send + MaxExtrapolation
    /\ \A s \in Pending : s.leap <= sender.leap
    /\ \A s \in One(newest) : s.send <= sender.last /\ s.leap <= sender.leap
    /\ playback.at <= sender.last + MaxExtrapolation

LEMMA OrderedTail ==
    ASSUME NEW S, NEW q \in Seq(S), Ordered(q), q # <<>>
    PROVE  /\ Ordered(Tail(q)) /\ Range(Tail(q)) \subseteq Range(q)
           /\ Head(q) \in Range(q) /\ Precede({Head(q)}, Range(q))
<1>1. /\ Tail(q) \in Seq(S) /\ Len(Tail(q)) = Len(q) - 1 /\ Len(q) \in Nat \ {0}
      /\ \A i \in 1..(Len(q) - 1) : Tail(q)[i] = q[i + 1]
      /\ Head(q) = q[1]
  OBVIOUS
<1>2. \A i \in 1..(Len(q) - 1) : i + 1 \in DOMAIN q
  BY <1>1
<1>3. Ordered(Tail(q))
  <2> SUFFICES ASSUME NEW i \in 1..(Len(q) - 1), NEW j \in 1..(Len(q) - 1), i <= j
               PROVE  Before(Tail(q)[i], Tail(q)[j])
    BY <1>1 DEF Ordered
  <2>1. i + 1 \in DOMAIN q /\ j + 1 \in DOMAIN q /\ i + 1 <= j + 1
    BY <1>2
  <2>2. Before(q[i + 1], q[j + 1])
    BY <2>1 DEF Ordered
  <2> QED BY <1>1, <2>2
<1>4. Range(Tail(q)) \subseteq Range(q)
  BY <1>1, <1>2 DEF Range
<1>5. Precede({Head(q)}, Range(q))
  <2>1. 1 \in DOMAIN q /\ \A j \in DOMAIN q : 1 <= j
    BY <1>1
  <2>2. \A j \in DOMAIN q : Before(q[1], q[j])
    BY <2>1 DEF Ordered
  <2> QED BY <1>1, <2>2 DEF Range, Precede
<1>6. Head(q) \in Range(q)
  BY <1>1 DEF Range
<1> QED BY <1>3, <1>4, <1>5, <1>6

LEMMA OrderedAppend ==
    ASSUME NEW S, NEW q \in Seq(S), Ordered(q), NEW x \in S,
           x.send \in Int, x.leap \in Int, Precede(Range(q), {x})
    PROVE  Ordered(Append(q, x)) /\ Range(Append(q, x)) = Range(q) \cup {x}
<1>1. /\ Append(q, x) \in Seq(S) /\ Len(Append(q, x)) = Len(q) + 1 /\ Len(q) \in Nat
      /\ \A i \in 1..Len(q) : Append(q, x)[i] = q[i]
      /\ Append(q, x)[Len(q) + 1] = x
  OBVIOUS
<1>2. Before(x, x) /\ \A i \in 1..Len(q) : Before(q[i], x)
  BY DEF Before, Precede, Range
<1>3. Ordered(Append(q, x))
  <2> SUFFICES ASSUME NEW i \in 1..(Len(q) + 1), NEW j \in 1..(Len(q) + 1), i <= j
               PROVE  Before(Append(q, x)[i], Append(q, x)[j])
    BY <1>1 DEF Ordered
  <2>1. CASE j \in 1..Len(q)
    <3>1. i \in 1..Len(q) /\ j \in DOMAIN q /\ i \in DOMAIN q
      BY <1>1, <2>1
    <3>2. Before(q[i], q[j])
      BY <3>1 DEF Ordered
    <3> QED BY <1>1, <2>1, <3>1, <3>2
  <2>2. CASE j = Len(q) + 1 /\ i \in 1..Len(q)
    BY <1>1, <1>2, <2>2
  <2>3. CASE j = Len(q) + 1 /\ i = Len(q) + 1
    BY <1>1, <1>2, <2>3
  <2> QED BY <1>1, <2>1, <2>2, <2>3
<1>4. Range(Append(q, x)) = Range(q) \cup {x}
  <2>1. DOMAIN Append(q, x) = 1..(Len(q) + 1) /\ DOMAIN q = 1..Len(q)
    BY <1>1
  <2>2. Range(q) \subseteq Range(Append(q, x)) /\ x \in Range(Append(q, x))
    <3>1. \A i \in 1..Len(q) : i \in 1..(Len(q) + 1)
      BY <1>1
    <3>2. Len(q) + 1 \in 1..(Len(q) + 1)
      BY <1>1
    <3> QED BY <1>1, <2>1, <3>1, <3>2 DEF Range
  <2>3. Range(Append(q, x)) \subseteq Range(q) \cup {x}
    BY <1>1, <2>1 DEF Range
  <2> QED BY <2>2, <2>3
<1> QED BY <1>3, <1>4

\* All of it was sent at some time.
LEMMA ComingIsSent ==
    ASSUME StreamInv
    PROVE  /\ \A s \in Coming : s.send \in Nat
           /\ \A s \in Pending \cup One(newest) : s.send \in Nat /\ s.leap \in Nat
           /\ sender.last \in Nat /\ sender.leap \in Nat /\ playback.at \in Int
           /\ inbox \in Seq(State) /\ down \in Seq(State)
<1>1. inbox \in Seq(State) /\ down \in Seq(State)
  <2>1. Arrived \subseteq State /\ OnWire \subseteq State
    BY DEF Arrived, OnWire
  <2> QED BY <2>1, SeqGrows DEF StreamInv, StreamTyped
<1>2. Range(inbox) \subseteq State /\ Range(down) \subseteq State
  BY <1>1 DEF Range
<1>3. One(latest) \subseteq State /\ One(up) \subseteq State /\ One(newest) \subseteq State
  BY DEF StreamInv, StreamTyped, OnWire, Arrived, One
<1>4. Playing \subseteq Sample
  BY DEF StreamInv, TimelineInv, Playing, Newest
<1>5. sender.last \in Nat /\ sender.leap \in Nat /\ playback.at \in Int
  BY DEF StreamInv, StreamTyped, TimelineInv
<1>6. Pending \subseteq State
  BY <1>2, <1>3 DEF Pending
<1> QED BY <1>1, <1>3, <1>4, <1>5, <1>6 DEF Coming, State, Sample

LEMMA OrderStarts ==
    ASSUME StreamInit
    PROVE  InOrder
<1>1. Range(<<>>) = {}
  BY DEF Range
<1>2. /\ inbox = <<>> /\ down = <<>> /\ ring = <<>> /\ latest = None /\ up = None
      /\ newest = None /\ playback.at = 0 /\ sender.last = 0
  BY DEF StreamInit, TimelineInit
<1> QED BY <1>1, <1>2, TimelineAssumption
        DEF InOrder, Ordered, Precede, Playing, One, Pending, Coming

\* A new state is newer than all of them, and if it marks a leap then a new one
\* (telemetry.cpp:202-292).
LEMMA PublishInOrder ==
    ASSUME StreamInv, InOrder,
           \/ \E r \in Room, t \in BOOLEAN, f \in Flaw : Publish(r, t, f)
           \/ PublishHidden
    PROVE  InOrder'
<1>1. PICK s : /\ Published(s) /\ s.send = SenderClock(now) /\ s.leap = sender'.leap
               /\ sender'.last = SenderClock(now)
               /\ sender.leap <= sender'.leap /\ sender'.leap \in Nat
               /\ Marks(s) => sender.leap < sender'.leap
  <2>1. sender.leap \in Nat
    BY DEF StreamInv, StreamTyped
  <2>2. ASSUME NEW r \in Room, NEW t \in BOOLEAN, NEW f \in Flaw, Publish(r, t, f)
        PROVE  \E s : /\ Published(s) /\ s.send = SenderClock(now) /\ s.leap = sender'.leap
                      /\ sender'.last = SenderClock(now)
                      /\ sender.leap <= sender'.leap /\ sender'.leap \in Nat
                      /\ Marks(s) => sender.leap < sender'.leap
    <3> DEFINE l == sender.leap + (IF t THEN 1 ELSE 0)
               s == [send |-> SenderClock(now), receive |-> 0, sequence |-> NextSequence,
                     room |-> r, teleport |-> t, inWorld |-> TRUE, flaw |-> f, leap |-> l]
    <3>1. Published(s) /\ sender'.last = SenderClock(now) /\ sender'.leap = l
      BY <2>2 DEF Publish, StreamInv, StreamTyped
    <3>2. s.send = SenderClock(now) /\ s.leap = l /\ (Marks(s) <=> t)
      BY DEF Marks
    <3>3. sender.leap <= l /\ l \in Nat /\ (t => sender.leap < l)
      BY <2>1
    <3> HIDE DEF s, l
    <3> QED BY <3>1, <3>2, <3>3
  <2>3. CASE PublishHidden
    <3> DEFINE s == [send |-> SenderClock(now), receive |-> 0, sequence |-> NextSequence,
                     room |-> sender.room, teleport |-> FALSE, inWorld |-> FALSE,
                     flaw |-> "none", leap |-> sender.leap + 1]
    <3>1. /\ Published(s) /\ sender'.last = SenderClock(now)
          /\ sender'.leap = sender.leap + 1
      BY <2>3 DEF PublishHidden, StreamInv, StreamTyped
    <3>2. s.send = SenderClock(now) /\ s.leap = sender.leap + 1
      OBVIOUS
    <3> HIDE DEF s
    <3> QED BY <2>1, <3>1, <3>2
  <2> QED BY <2>2, <2>3
<1>2. /\ up' = s /\ sender.last <= sender'.last /\ sender'.last = s.send /\ s.send \in Int
      /\ UNCHANGED <<inbox, down, latest, newest, ring, playback>>
  BY <1>1, StreamAssumption
     DEF Published, wire, receiver, timelineVars, SenderClock, StreamInv, StreamTyped
<1>3. One(up') \subseteq {s} /\ Playing' = Playing
  BY <1>2 DEF One, Playing, Newest
<1>4. Coming' \subseteq Coming \cup {s} /\ Pending' \subseteq Pending \cup {s}
  BY <1>2, <1>3 DEF Coming, Pending, One
<1>5. \A x \in Coming : x.send <= s.send
  BY <1>2, ComingIsSent DEF InOrder
<1>6. \A x \in Pending \cup One(newest) : x.send <= s.send /\ x.leap <= sender.leap
  <2>1. \A x \in Pending : x.send <= s.send /\ x.leap <= sender.leap
    BY <1>5 DEF InOrder, Coming
  <2>2. \A x \in One(newest) : x.send <= sender.last /\ x.leap <= sender.leap
    BY DEF InOrder
  <2> QED BY <1>2, <2>1, <2>2, ComingIsSent
<1>7. playback.at <= s.send + MaxExtrapolation
  BY <1>2, ComingIsSent, TimelineAssumption DEF InOrder
<1>8. \A x \in Coming' : x.send <= s.send /\ playback.at <= x.send + MaxExtrapolation
  BY <1>2, <1>4, <1>5, <1>7 DEF InOrder
<1>9. \A x \in Pending' \cup One(newest) : x.leap <= sender'.leap
  BY <1>1, <1>4, <1>6, ComingIsSent
<1>10. \A x \in One(newest) : x.send <= sender'.last
  BY <1>2, <1>6
<1>11. \A x \in Pending \cup One(newest) : Before(x, s)
  BY <1>1, <1>6, ComingIsSent DEF Before
<1>12. /\ Precede(One(newest), (Range(inbox) \cup Range(down) \cup One(latest) \cup One(up))')
       /\ Precede(Range(inbox), (Range(down) \cup One(latest) \cup One(up))')
       /\ Precede(Range(down), (One(latest) \cup One(up))')
       /\ Precede(One(latest), One(up'))
  BY <1>2, <1>3, <1>11 DEF InOrder, Precede, One, Pending
<1> QED BY <1>2, <1>3, <1>7, <1>8, <1>9, <1>10, <1>12 DEF InOrder, Ordered, One, Precede

\* What is lost or taken leaves the rest in order; so does what is left alone.
LEMMA LessInOrder ==
    ASSUME StreamInv, InOrder, UNCHANGED <<newest, ring, playback>>,
           sender'.last = sender.last, sender'.leap \in {sender.leap, sender.leap + 1},
           Ordered(inbox'), Ordered(down'),
           Range(inbox') \subseteq Range(inbox), Range(down') \subseteq Range(down),
           One(latest') \subseteq One(latest), One(up') \subseteq One(up)
    PROVE  InOrder'
<1>1. Playing' = Playing /\ One(newest') = One(newest)
  BY DEF Playing, Newest, One
<1>2. Coming' \subseteq Coming /\ Pending' \subseteq Pending
  BY <1>1 DEF Coming, Pending, One
<1>3. \A s \in Pending' \cup One(newest') : s.leap <= sender'.leap
  <2>1. \A s \in Pending \cup One(newest) :
           s.leap <= sender.leap /\ s.leap \in Nat /\ sender.leap \in Nat
    BY ComingIsSent DEF InOrder
  <2> QED BY <1>1, <1>2, <2>1
<1> QED BY <1>1, <1>2, <1>3 DEF InOrder, Precede, Ordered, One

\* A copy of a state, but for the time of its arrival, is where the state is.
LEMMA CopyBefore ==
    ASSUME NEW a, NEW b, b.send = a.send, b.leap = a.leap, Marks(b) = Marks(a), NEW x
    PROVE  (Before(x, a) => Before(x, b)) /\ (Before(a, x) => Before(b, x))
  BY DEF Before

\* What can be appended to the packets on their way.
LEMMA SentInOrder ==
    ASSUME StreamInv, InOrder, NEW x \in State, \A y \in Range(down) : Before(y, x),
           down' = Append(down, x) \/ down' = down
    PROVE  Ordered(down') /\ Range(down') \subseteq Range(down) \cup {x}
<1>1. x.send \in Int /\ x.leap \in Int /\ Precede(Range(down), {x})
  BY DEF State, Precede
<1>2. Ordered(down) /\ down \in Seq(State)
  BY ComingIsSent DEF InOrder
<1>3. Ordered(Append(down, x)) /\ Range(Append(down, x)) = Range(down) \cup {x}
  BY <1>1, <1>2, OrderedAppend
<1> QED BY <1>2, <1>3

\* The coordinator passes the state it has just taken on, or repeats its newest
\* (session.cpp:104-146, 165-208).
LEMMA CoordinatorInOrder ==
    ASSUME StreamInv, InOrder,
           FanOut \/ LoseDown \/ Exchange \/ \E n \in 1..MaxSnapshotPlayers : Snapshot(n)
    PROVE  InOrder'
<1>1. CASE FanOut
  <2>1. /\ up # None /\ up' = None /\ latest' = ToNetwork(up)
        /\ down' = Append(down, latest') \/ down' = down
        /\ UNCHANGED <<sender, inbox, newest, ring, playback>>
    BY <1>1 DEF FanOut, Carry, receiver, timelineVars
  <2>2. up \in One(up) /\ up \in State /\ up \in Pending
    BY <2>1 DEF One, Pending, StreamInv, StreamTyped, OnWire
  <2>3. /\ latest' \in State /\ latest'.send = up.send /\ latest'.leap = up.leap
        /\ Marks(latest') = Marks(up) /\ up.send \in Nat /\ up.leap \in Nat
    BY <2>1, <2>2 DEF ToNetwork, State, Marks
  <2>4. \A x \in One(newest) \cup Range(inbox) \cup Range(down) : Before(x, latest')
    <3>1. \A x \in One(newest) \cup Range(inbox) \cup Range(down) : Before(x, up)
      BY <2>2 DEF InOrder, Precede
    <3> QED BY <2>3, <3>1, CopyBefore
  <2>5. Ordered(down') /\ Range(down') \subseteq Range(down) \cup {latest'}
    BY <2>1, <2>3, <2>4, SentInOrder
  <2>6. One(up') = {} /\ One(latest') \subseteq {latest'} /\ Playing' = Playing
    BY <2>1 DEF One, Playing, Newest
  <2>7. Pending' \subseteq Pending \cup {latest'} /\ Coming' \subseteq Coming \cup {latest'}
    BY <2>1, <2>5, <2>6 DEF Pending, Coming
  <2>8. /\ \A x \in Coming' : x.send <= sender.last /\ playback.at <= x.send + MaxExtrapolation
        /\ \A x \in Pending' : x.leap <= sender.leap
    BY <2>2, <2>3, <2>7 DEF InOrder, Coming
  <2>9. Before(latest', latest')
    BY <2>3 DEF Before
  <2>10. /\ Precede(One(newest), Range(inbox) \cup Range(down') \cup One(latest') \cup One(up'))
         /\ Precede(Range(inbox), Range(down') \cup One(latest') \cup One(up'))
         /\ Precede(Range(down'), One(latest') \cup One(up'))
         /\ Precede(One(latest'), One(up'))
    BY <2>4, <2>5, <2>6, <2>9 DEF InOrder, Precede
  <2>11. One(newest)' = One(newest)
    BY <2>1 DEF One
  <2>12. Ordered(inbox') /\ Ordered(down')
    BY <2>1, <2>5 DEF InOrder
  <2>13. /\ \A s \in Playing' : newest' # None /\ s.send <= newest'.send
         /\ \A s \in One(newest)' : s.send <= sender'.last /\ s.leap <= sender'.leap
         /\ playback'.at <= sender'.last + MaxExtrapolation
    BY <2>1, <2>6, <2>11 DEF InOrder
  <2>14. /\ \A s \in Coming' : s.send <= sender'.last /\ playback'.at <= s.send + MaxExtrapolation
         /\ \A s \in Pending' : s.leap <= sender'.leap
    BY <2>1, <2>8
  <2> QED BY <2>1, <2>10, <2>11, <2>12, <2>13, <2>14 DEF InOrder, One, Precede
<1>2. CASE LoseDown
  <2>1. Ordered(Tail(down)) /\ Range(Tail(down)) \subseteq Range(down)
    BY <1>2, ComingIsSent, OrderedTail DEF LoseDown, InOrder
  <2> QED BY <1>2, <2>1, LessInOrder DEF LoseDown, receiver, timelineVars, InOrder
<1>3. CASE Exchange
  BY <1>3, LessInOrder DEF Exchange, wire, receiver, timelineVars, InOrder
<1>4. ASSUME NEW n \in 1..MaxSnapshotPlayers, Snapshot(n)
      PROVE  InOrder'
  <2>1. /\ latest # None /\ latest' = latest
        /\ down' = Append(down, latest) \/ down' = down
        /\ UNCHANGED <<sender, up, inbox, newest, ring, playback>>
    BY <1>4 DEF Snapshot, Carry, receiver, timelineVars
  <2>2. latest \in One(latest) /\ latest \in State /\ Before(latest, latest)
    BY <2>1 DEF One, StreamInv, StreamTyped, OnWire, State, Before
  <2>3. \A x \in Range(down) : Before(x, latest)
    BY <2>2 DEF InOrder, Precede
  <2>4. Ordered(down') /\ Range(down') \subseteq Range(down) \cup One(latest)
    <3>1. Ordered(down') /\ Range(down') \subseteq Range(down) \cup {latest}
      BY <2>1, <2>2, <2>3, SentInOrder
    <3> QED BY <2>2, <3>1
  <2>5. /\ Playing' = Playing /\ One(latest)' = One(latest) /\ One(up)' = One(up)
        /\ One(newest)' = One(newest)
    BY <2>1 DEF One, Playing, Newest
  <2>6. Coming' \subseteq Coming /\ Pending' \subseteq Pending
    BY <2>1, <2>4, <2>5 DEF Coming, Pending
  <2>7. Precede(One(latest), One(latest) \cup One(up))
    BY <2>2 DEF InOrder, Precede, One
  <2>8. /\ Precede(One(newest), Range(inbox) \cup Range(down') \cup One(latest) \cup One(up))
        /\ Precede(Range(inbox), Range(down') \cup One(latest) \cup One(up))
        /\ Precede(Range(down'), One(latest) \cup One(up))
    BY <2>4, <2>7 DEF InOrder, Precede
  <2>9. /\ \A x \in Coming' : x.send <= sender.last /\ playback.at <= x.send + MaxExtrapolation
        /\ \A x \in Pending' : x.leap <= sender.leap
    BY <2>6 DEF InOrder
  <2> QED BY <2>1, <2>4, <2>5, <2>8, <2>9 DEF InOrder, Ordered
<1> QED BY <1>1, <1>2, <1>3, <1>4

\* What the receiver's sidecar and worker make of a packet.
LEMMA StampedIsACopy ==
    ASSUME StreamInv, NEW s \in State, NEW stamp \in 1..now
    PROVE  \E x \in State : /\ x = Stamped(ToIpc(s, stamp), now)
                            /\ x.send = s.send /\ x.leap = s.leap /\ Marks(x) = Marks(s)
<1>1. now \in Nat
  BY DEF StreamInv, StreamTyped
<1>2. \A t \in Nat : LET x == [s EXCEPT !.receive = t]
                     IN  /\ x \in State /\ x.send = s.send /\ x.leap = s.leap
                         /\ Marks(x) = Marks(s)
  BY DEF State, Marks
<1>3. \/ Stamped(ToIpc(s, stamp), now) = [s EXCEPT !.receive = stamp]
      \/ Stamped(ToIpc(s, stamp), now) = [s EXCEPT !.receive = now]
  BY <1>1 DEF Stamped, ToIpc, State
<1>4. PICK t \in Nat : Stamped(ToIpc(s, stamp), now) = [s EXCEPT !.receive = t]
  BY <1>1, <1>3
<1> DEFINE x == [s EXCEPT !.receive = t]
<1>5. x \in State /\ x.send = s.send /\ x.leap = s.leap /\ Marks(x) = Marks(s)
  BY <1>2
<1> HIDE DEF x
<1> QED BY <1>4, <1>5 DEF x

LEMMA ReceivedIsACopy ==
    ASSUME StreamInv, Receive
    PROVE  /\ down # <<>> /\ down' = Tail(down) /\ Head(down) \in State
           /\ UNCHANGED <<sender, up, latest, newest, timelineVars>>
           /\ \/ inbox' = inbox
              \/ \E x \in State : /\ x.send = Head(down).send /\ x.leap = Head(down).leap
                                  /\ Marks(x) = Marks(Head(down)) /\ inbox' = Queued(x)
<1> DEFINE s == Head(down)
<1>1. s \in State
  BY HeadTail DEF Receive, StreamInv, StreamTyped, OnWire
<1>2. inbox' = inbox \/ \E stamp \in 1..now : inbox' = Queued(Stamped(ToIpc(s, stamp), now))
  BY DEF Receive
<1> HIDE DEF s
<1>3. \/ inbox' = inbox
      \/ \E x \in State : /\ x.send = s.send /\ x.leap = s.leap
                          /\ Marks(x) = Marks(s) /\ inbox' = Queued(x)
  BY <1>1, <1>2, StampedIsACopy
<1> QED BY <1>1, <1>3 DEF Receive, s

\* The receiver's sidecar passes on, or drops, what came first
\* (network_adapter.cpp:544-601, remote_command_queue.cpp:78-122).
LEMMA ReceiveInOrder ==
    ASSUME StreamInv, InOrder, Receive
    PROVE  InOrder'
<1> DEFINE s == Head(down)
           kept == IF Len(inbox) = InboxRoom THEN Tail(inbox) ELSE inbox
<1>1. /\ down # <<>> /\ down' = Tail(down)
      /\ UNCHANGED <<sender, up, latest, newest, ring, playback>>
  BY ReceivedIsACopy DEF timelineVars
<1>2. /\ down \in Seq(State) /\ inbox \in Seq(State)
      /\ Ordered(down) /\ Ordered(inbox)
  BY ComingIsSent DEF InOrder
<1>3. /\ Ordered(Tail(down)) /\ Range(Tail(down)) \subseteq Range(down)
      /\ s \in Range(down) /\ Precede({s}, Range(down)) /\ s \in State
  BY <1>1, <1>2, ReceivedIsACopy, OrderedTail
<1>4. CASE inbox' = inbox
  BY <1>1, <1>3, <1>4, LessInOrder DEF InOrder
<1>5. ASSUME NEW x \in State, x.send = s.send, x.leap = s.leap, Marks(x) = Marks(s),
             inbox' = Queued(x)
      PROVE  InOrder'
  <2>1. kept \in Seq(State) /\ Ordered(kept) /\ Range(kept) \subseteq Range(inbox)
    <3>1. CASE Len(inbox) = InboxRoom
      <4>1. inbox # <<>>
        BY <3>1, StreamAssumption
      <4> QED BY <1>2, <3>1, <4>1, OrderedTail, HeadTail
    <3>2. CASE Len(inbox) # InboxRoom
      BY <1>2, <3>2
    <3> QED BY <3>1, <3>2
  <2>2. inbox' = Append(kept, x)
    BY <1>5 DEF Queued
  <2> HIDE DEF s, kept
  <2>3. /\ \A y \in One(newest) \cup Range(inbox) : Before(y, x)
        /\ \A y \in Range(down) \cup One(latest) \cup One(up) : Before(x, y)
    <3>1. /\ \A y \in One(newest) \cup Range(inbox) : Before(y, s)
          /\ \A y \in Range(down) \cup One(latest) \cup One(up) : Before(s, y)
      BY <1>3 DEF InOrder, Precede
    <3> QED BY <1>5, <3>1, CopyBefore
  <2>4. Ordered(inbox') /\ Range(inbox') \subseteq Range(inbox) \cup {x}
    <3>1. x.send \in Int /\ x.leap \in Int /\ Precede(Range(kept), {x})
      BY <2>1, <2>3 DEF State, Precede
    <3>2. Ordered(Append(kept, x)) /\ Range(Append(kept, x)) = Range(kept) \cup {x}
      BY <2>1, <3>1, OrderedAppend
    <3> QED BY <2>1, <2>2, <3>2
  <2>5. /\ x.send <= sender.last /\ playback.at <= x.send + MaxExtrapolation
        /\ x.leap <= sender.leap
    BY <1>3, <1>5 DEF InOrder, Coming, Pending
  <2>6. /\ Playing' = Playing /\ Range(down') \subseteq Range(down)
        /\ One(newest)' = One(newest) /\ One(latest)' = One(latest) /\ One(up)' = One(up)
    BY <1>1, <1>3 DEF Playing, Newest, One
  <2>7. Coming' \subseteq Coming \cup {x} /\ Pending' \subseteq Pending \cup {x}
    BY <2>4, <2>6 DEF Coming, Pending
  <2>8. /\ \A y \in Coming' : y.send <= sender.last /\ playback.at <= y.send + MaxExtrapolation
        /\ \A y \in Pending' : y.leap <= sender.leap
    BY <2>5, <2>7 DEF InOrder
  <2>9. /\ Precede(One(newest), Range(inbox') \cup Range(down') \cup One(latest) \cup One(up))
        /\ Precede(Range(inbox'), Range(down') \cup One(latest) \cup One(up))
        /\ Precede(Range(down'), One(latest) \cup One(up))
        /\ Precede(One(latest), One(up))
    BY <2>3, <2>4, <2>6 DEF InOrder, Precede
  <2>10. Ordered(down')
    BY <1>1, <1>3
  <2> QED BY <1>1, <2>4, <2>6, <2>8, <2>9, <2>10 DEF InOrder
<1> QED BY <1>4, <1>5, ReceivedIsACopy

\* A sample that starts to play is the first of what was to come; a buffer that is
\* given up leaves the playback where the rest is not far behind
\* (remote_actor_backend.cpp:1137-1161).
LEMMA ApplyInOrder ==
    ASSUME StreamInv, InOrder, Apply
    PROVE  InOrder'
<1> DEFINE s == Head(inbox)
           p == PoseSample(s)
<1>1. /\ inbox # <<>> /\ inbox' = Tail(inbox)
      /\ UNCHANGED <<sender, up, latest, down>>
      /\ \/ newest' = newest /\ UNCHANGED timelineVars
         \/ newest' = s /\ (Push(p) \/ ResetSamples)
  BY DEF Apply, wire
<1>2. /\ Ordered(inbox') /\ Range(inbox') \subseteq Range(inbox)
      /\ s \in Range(inbox) /\ Precede({s}, Range(inbox)) /\ s \in Arrived
  <2>1. s \in Arrived
    BY <1>1, HeadTail DEF StreamInv, StreamTyped
  <2> QED BY <1>1, <2>1, ComingIsSent, OrderedTail DEF InOrder
<1>3. s.send \in Nat /\ s.leap \in Nat /\ p.send = s.send /\ p \in Sample /\ s # None
  <2>1. s \in State
    BY <1>2 DEF Arrived
  <2>2. p \in Sample /\ p.send = s.send
    <3> HIDE DEF s
    <3> QED BY <2>1 DEF PoseSample, State, Sample
  <2>3. s # None
    BY <2>1, NoneIsNoState
  <2> QED BY <2>1, <2>2, <2>3 DEF State
<1>4. CASE newest' = newest /\ UNCHANGED timelineVars
  BY <1>1, <1>2, <1>4, LessInOrder DEF timelineVars, InOrder
<1>5. CASE newest' = s /\ (Push(p) \/ ResetSamples)
  <2>1. playback' = playback /\ Playing' \subseteq Playing \cup {p}
    <3>1. CASE ResetSamples
      BY <3>1 DEF ResetSamples, Playing
    <3>2. CASE Push(p)
      <4>1. ring \in Seq(Sample)
        BY DEF StreamInv, TimelineInv
      <4> HIDE DEF p, s
      <4>2. CASE ~Accepts(p)
        BY <3>2, <4>2 DEF Push, timelineVars, Playing, Newest
      <4>3. CASE Accepts(p)
        <5>1. playback' = playback /\ (ring' = <<p>> \/ ring' = Buffered(p))
          BY <3>2, <4>3 DEF Push
        <5>2. ring' # <<>> /\ ring'[Len(ring')] = p
          <6>1. Buffered(p) # <<>> /\ Buffered(p)[Len(Buffered(p))] = p
            BY <1>3, <4>1, BufferedHolds
          <6>2. <<p>> # <<>> /\ <<p>>[Len(<<p>>)] = p
            OBVIOUS
          <6> QED BY <5>1, <6>1, <6>2
        <5> QED BY <5>1, <5>2 DEF Playing, Newest
      <4> QED BY <4>2, <4>3
    <3> QED BY <1>5, <3>1, <3>2
  <2> HIDE DEF p, s
  <2>2. \A x \in Range(inbox) \cup Range(down) \cup One(latest) \cup One(up) : Before(s, x)
    BY <1>2 DEF InOrder, Precede
  <2>3. /\ s.send <= sender.last /\ playback.at <= s.send + MaxExtrapolation
        /\ s.leap <= sender.leap
    BY <1>2 DEF InOrder, Coming, Pending
  <2>4. /\ One(newest') = {s} /\ newest' # None
        /\ One(latest)' = One(latest) /\ One(up)' = One(up)
    BY <1>1, <1>3, <1>5 DEF One
  <2>5. Pending' \subseteq Pending /\ Coming' \subseteq Coming \cup {p}
    BY <1>1, <1>2, <2>1, <2>4 DEF Pending, Coming
  <2>6. /\ \A x \in Coming' : x.send <= sender.last /\ playback.at <= x.send + MaxExtrapolation
        /\ \A x \in Pending' : x.leap <= sender.leap
    BY <1>3, <2>3, <2>5 DEF InOrder
  <2>7. \A x \in Playing' : x.send <= s.send
    <3>1. \A x \in Playing : x.send <= newest.send /\ Before(newest, s)
      BY <1>2 DEF InOrder, Precede, One
    <3>2. \A x \in Playing : x.send \in Nat /\ newest.send \in Nat
      <4>1. \A x \in Playing : newest \in One(newest)
        BY DEF InOrder, One
      <4> QED BY <4>1, ComingIsSent DEF Coming
    <3>3. \A x \in Playing : x.send <= s.send
      BY <1>3, <3>1, <3>2 DEF Before
    <3> QED BY <1>3, <2>1, <3>3
  <2>8. Precede(One(newest'), Range(inbox') \cup Range(down) \cup One(latest) \cup One(up))
    BY <1>2, <2>2, <2>4 DEF Precede
  <2>9. /\ Precede(Range(inbox'), Range(down) \cup One(latest) \cup One(up))
        /\ Precede(Range(down), One(latest) \cup One(up))
        /\ Precede(One(latest), One(up))
    BY <1>2 DEF InOrder, Precede
  <2>10. /\ \A x \in One(newest') : x.send <= sender.last /\ x.leap <= sender.leap
         /\ Ordered(down) /\ playback.at <= sender.last + MaxExtrapolation
    BY <2>3, <2>4 DEF InOrder
  <2> QED BY <1>1, <1>2, <1>5, <2>1, <2>4, <2>6, <2>7, <2>8, <2>9, <2>10 DEF InOrder
<1> QED BY <1>1, <1>4, <1>5

\* A frame plays up to the limit of the extrapolation or holds where it was
\* (remote_pose_timeline.cpp:318-378).
LEMMA FrameInOrder ==
    ASSUME StreamInv, InOrder, Frame
    PROVE  InOrder'
<1>1. /\ Evaluate(now) /\ now \in Nat
      /\ UNCHANGED <<sender, up, latest, down, inbox, newest>>
  BY DEF Frame, wire, receiver, StreamInv, StreamTyped
<1>2. UNCHANGED ring
  BY <1>1 DEF Evaluate, Nothing, EvaluateAt
<1>3. \/ playback'.at = playback.at
      \/ ring # <<>> /\ playback'.at <= Newest.send + MaxExtrapolation /\ playback'.at \in Int
  <2>1. CASE Nothing
    BY <2>1 DEF Nothing, StreamInv, TimelineInv
  <2>2. CASE ~Nothing
    <3>1. PICK ideal : ring # <<>> /\ EvaluateAt(ideal, now)
      BY <1>1, <2>2 DEF Evaluate
    <3>2. playback'.at \in Int
      <4>1. TimelineInv'
        BY <1>1, EvaluateKeepsInv DEF StreamInv
      <4> QED BY <4>1 DEF TimelineInv
    <3>3. CASE Hold(Target(ideal, now), now)
      BY <3>3 DEF Hold
    <3>4. ASSUME NEW correct \in BOOLEAN,
                 Show(Target(ideal, now), now, correct, correcting /\ ~Reanchors(ideal, now))
          PROVE  playback'.at <= Newest.send + MaxExtrapolation
      <4>1. playback'.at = Target(ideal, now) /\ StateAt(Target(ideal, now)) # "held"
        BY <3>4 DEF Show
      <4>2. ~(Target(ideal, now) > Newest.send + MaxExtrapolation)
        BY <4>1 DEF StateAt
      <4>3. Newest \in Sample
        BY <3>1 DEF StreamInv, TimelineInv, Newest
      <4> QED BY <3>2, <4>1, <4>2, <4>3, TimelineAssumption DEF Sample
    <3> QED BY <3>1, <3>2, <3>3, <3>4 DEF EvaluateAt
  <2> QED BY <2>1, <2>2
<1>4. Playing' = Playing /\ Pending' = Pending /\ Coming' = Coming
  BY <1>1, <1>2 DEF Playing, Newest, Pending, Coming, One
<1>5. CASE playback'.at = playback.at
  BY <1>1, <1>4, <1>5 DEF InOrder, Ordered, Precede, One
<1>6. CASE ring # <<>> /\ playback'.at <= Newest.send + MaxExtrapolation /\ playback'.at \in Int
  <2>1. Newest \in Playing /\ Newest \in Coming
    BY <1>6 DEF Playing, Coming
  <2>2. \A x \in Coming : Newest.send <= x.send
    <3>1. newest \in One(newest) /\ Newest.send <= newest.send
      BY <2>1 DEF InOrder, One
    <3>2. \A x \in Pending : Before(newest, x)
      BY <3>1 DEF InOrder, Precede, Pending
    <3>3. \A x \in Pending : Newest.send <= x.send
      BY <2>1, <3>1, <3>2, ComingIsSent DEF Before
    <3>4. \A x \in Playing : Newest.send <= x.send
      BY <2>1, ComingIsSent DEF Playing
    <3> QED BY <3>3, <3>4 DEF Coming
  <2>3. Newest.send <= sender.last /\ Newest.send \in Nat
    BY <2>1, ComingIsSent DEF InOrder
  <2>4. \A x \in Coming : playback'.at <= x.send + MaxExtrapolation
    BY <1>6, <2>2, <2>3, ComingIsSent, TimelineAssumption
  <2>5. playback'.at <= sender.last + MaxExtrapolation
    BY <1>6, <2>3, ComingIsSent, TimelineAssumption
  <2> QED BY <1>1, <1>4, <2>4, <2>5 DEF InOrder, Ordered, Precede, One
<1> QED BY <1>3, <1>5, <1>6

LEMMA OrderStep ==
    ASSUME StreamInv, InOrder, [StreamNext]_vars
    PROVE  InOrder'
<1>1. CASE Tick \/ StopsItself \/ LoseUp \/ \E r \in Room : Unpublished(r)
  <2>1. /\ sender'.last = sender.last /\ sender'.leap \in {sender.leap, sender.leap + 1}
        /\ One(up') \subseteq One(up)
    BY <1>1 DEF Tick, StopsItself, LoseUp, Unpublished, One, StreamInv, StreamTyped
  <2>2. UNCHANGED <<latest, down, inbox, newest, ring, playback>>
    BY <1>1 DEF Tick, StopsItself, LoseUp, Unpublished, wire, receiver, timelineVars
  <2> QED BY <2>1, <2>2, LessInOrder DEF InOrder
<1>2. CASE \/ \E r \in Room, t \in BOOLEAN, f \in Flaw : Publish(r, t, f)
           \/ PublishHidden
  BY <1>2, PublishInOrder
<1>3. CASE FanOut \/ LoseDown \/ Exchange \/ \E n \in 1..MaxSnapshotPlayers : Snapshot(n)
  BY <1>3, CoordinatorInOrder
<1>4. CASE Receive
  BY <1>4, ReceiveInOrder
<1>5. CASE Apply
  BY <1>5, ApplyInOrder
<1>6. CASE Frame
  BY <1>6, FrameInOrder
<1>7. CASE UNCHANGED vars
  BY <1>7, LessInOrder DEF vars, wire, timelineVars, InOrder
<1> QED BY <1>1, <1>2, <1>3, <1>4, <1>5, <1>6, <1>7 DEF StreamNext

THEOREM StreamIsInOrder == StreamSpec => []InOrder
  BY OrderStarts, OrderStep, StreamIsTyped, PTL DEF StreamSpec

-----------------------------------------------------------------------------
(* What becomes of the leaps.                                              *)

\* How far the receiver's game has got.
Reached == IF newest # None THEN newest.leap ELSE 0

\* A leap the receiver's sidecar has got to is behind its game, or lost, or its marker is
\* queued; any other is lost, or its marker is on the way.  And what is played together
\* lies between lost leaps only.
Accounted ==
    /\ accepted.leap \in Nat
    /\ \A s \in Range(inbox) : s.leap <= accepted.leap
    /\ \A l \in Nat : 0 < l /\ l <= accepted.leap => l <= Reached \/ l \in lost \cup Leaps(Range(inbox))
    /\ \A l \in Nat : accepted.leap < l /\ l <= sender.leap
          => l \in lost \cup Leaps(Range(down) \cup One(up))
    /\ \A a \in Trajectory : a.leap <= Reached
    /\ \A a \in Trajectory : \A l \in (a.leap + 1)..Reached : l \in lost

LEMMA ReachedIsNat ==
    ASSUME StreamInv
    PROVE  Reached \in Nat
  BY DEF StreamInv, StreamTyped, Arrived, State, Reached

LEMMA RangeOfTail ==
    ASSUME NEW S, NEW q \in Seq(S), q # <<>>
    PROVE  Range(Tail(q)) \subseteq Range(q) /\ Range(q) \subseteq {Head(q)} \cup Range(Tail(q))
<1>1. /\ Len(q) \in Nat \ {0} /\ DOMAIN q = 1..Len(q) /\ Head(q) = q[1]
      /\ DOMAIN Tail(q) = 1..(Len(q) - 1)
      /\ \A i \in 1..(Len(q) - 1) : Tail(q)[i] = q[i + 1]
  OBVIOUS
<1>2. ASSUME NEW i \in DOMAIN q
      PROVE  q[i] \in {Head(q)} \cup Range(Tail(q))
  <2>1. CASE i = 1
    BY <1>1, <2>1
  <2>2. CASE i # 1
    <3>1. i - 1 \in 1..(Len(q) - 1) /\ (i - 1) + 1 = i
      BY <1>1, <2>2
    <3>2. Tail(q)[i - 1] = q[i]
      BY <1>1, <3>1
    <3> QED BY <1>1, <3>1, <3>2 DEF Range
  <2> QED BY <2>1, <2>2
<1>3. ASSUME NEW i \in DOMAIN Tail(q)
      PROVE  Tail(q)[i] \in Range(q)
  <2>1. i \in 1..(Len(q) - 1) /\ i + 1 \in DOMAIN q
    BY <1>1
  <2> QED BY <1>1, <2>1 DEF Range
<1> QED BY <1>2, <1>3 DEF Range

LEMMA RangeOfAppend ==
    ASSUME NEW S, NEW q \in Seq(S), NEW x \in S
    PROVE  Range(Append(q, x)) = Range(q) \cup {x}
<1>1. /\ Len(q) \in Nat /\ DOMAIN q = 1..Len(q) /\ DOMAIN Append(q, x) = 1..(Len(q) + 1)
      /\ \A i \in 1..Len(q) : Append(q, x)[i] = q[i]
      /\ Append(q, x)[Len(q) + 1] = x
  OBVIOUS
<1>2. Range(q) \cup {x} \subseteq Range(Append(q, x))
  <2>1. \A i \in 1..Len(q) : i \in 1..(Len(q) + 1)
    BY <1>1
  <2>2. Len(q) + 1 \in 1..(Len(q) + 1)
    BY <1>1
  <2> QED BY <1>1, <2>1, <2>2 DEF Range
<1>3. Range(Append(q, x)) \subseteq Range(q) \cup {x}
  BY <1>1 DEF Range
<1> QED BY <1>2, <1>3

LEMMA QueuedIsThere ==
    ASSUME inbox \in Seq(State), NEW x \in State, inbox' = Queued(x)
    PROVE  x \in Range(inbox')
<1> DEFINE kept == IF Len(inbox) = InboxRoom THEN Tail(inbox) ELSE inbox
<1>1. kept \in Seq(State)
  BY StreamAssumption
<1>2. inbox' = Append(kept, x)
  BY DEF Queued
<1> HIDE DEF kept
<1> QED BY <1>1, <1>2, RangeOfAppend

LEMMA AccountStarts ==
    ASSUME StreamInit
    PROVE  Accounted
<1>1. /\ inbox = <<>> /\ accepted.leap = 0 /\ sender.leap = 0 /\ ring = <<>> /\ shown = None
  BY DEF StreamInit, TimelineInit
<1>2. Range(inbox) = {} /\ Trajectory = {}
  BY <1>1 DEF Range, Trajectory
<1> QED BY <1>1, <1>2 DEF Accounted

\* Nobody on the receiver's side has moved: what was on the way is, or is lost.
LEMMA OnTheWayAccounted ==
    ASSUME Accounted, UNCHANGED <<accepted, newest, inbox, ring, shown>>,
           lost \subseteq lost',
           \A l \in Nat : accepted.leap < l /\ l <= sender'.leap
               => l <= sender.leap \/ l \in lost' \cup Leaps(Range(down') \cup One(up')),
           \A l \in Leaps(Range(down) \cup One(up)) :
               accepted.leap < l => l \in lost' \cup Leaps(Range(down') \cup One(up'))
    PROVE  Accounted'
<1>1. Reached' = Reached /\ Trajectory' = Trajectory /\ Range(inbox') = Range(inbox)
  BY DEF Reached, Trajectory
<1>2. Leaps(Range(inbox))' = Leaps(Range(inbox))
  BY DEF Leaps, Marks
<1>3. Leaps(Range(down) \cup One(up))' = Leaps(Range(down') \cup One(up'))
  BY DEF Leaps, Marks, Range, One
<1> QED BY <1>1, <1>2, <1>3 DEF Accounted

\* The sender's side and the coordinator: what is overwritten, not published or not
\* carried is lost (telemetry.cpp:202-292, session.cpp:104-146).
LEMMA SenderAccounts ==
    ASSUME StreamInv, Accounted,
           \/ \E r \in Room, t \in BOOLEAN, f \in Flaw : Publish(r, t, f)
           \/ PublishHidden
           \/ \E r \in Room : Unpublished(r)
           \/ StopsItself \/ LoseUp
    PROVE  Accounted'
<1>1. /\ UNCHANGED <<accepted, newest, inbox, ring, shown, down>>
      /\ lost \cup Leaps(One(up)) \subseteq lost' \/ (lost \subseteq lost' /\ up' = up)
  <2>1. ASSUME NEW s, Published(s)
        PROVE  UNCHANGED <<accepted, newest, inbox, ring, shown, down>>
               /\ lost' = lost \cup Leaps(One(up))
    BY <2>1 DEF Published, wire, receiver, timelineVars
  <2>2. ASSUME StopsItself \/ LoseUp
        PROVE  UNCHANGED <<accepted, newest, inbox, ring, shown, down>>
               /\ lost' = lost \cup Leaps(One(up))
    BY <2>2 DEF StopsItself, LoseUp, wire, receiver, timelineVars, One
  <2>3. ASSUME NEW r \in Room, Unpublished(r)
        PROVE  /\ UNCHANGED <<accepted, newest, inbox, ring, shown, down, up>>
               /\ lost \subseteq lost'
    BY <2>3 DEF Unpublished, wire, receiver, timelineVars
  <2> QED BY <2>1, <2>2, <2>3 DEF Publish, PublishHidden
<1>2. sender.leap \in Nat
  BY DEF StreamInv, StreamTyped
<1>3. ASSUME NEW l \in Nat, l <= sender'.leap
      PROVE  l <= sender.leap \/ l \in lost' \cup Leaps(Range(down') \cup One(up'))
  <2>1. ASSUME NEW r \in Room, NEW t \in BOOLEAN, NEW f \in Flaw, Publish(r, t, f)
        PROVE  l <= sender.leap \/ l \in Leaps(One(up'))
    <3> DEFINE k == sender.leap + (IF t THEN 1 ELSE 0)
               s == [send |-> SenderClock(now), receive |-> 0, sequence |-> NextSequence,
                     room |-> r, teleport |-> t, inWorld |-> TRUE, flaw |-> f, leap |-> k]
    <3>1. up' = s /\ sender'.leap = k
      BY <2>1 DEF Publish, Published, StreamInv, StreamTyped
    <3>2. s \in State
      <4>1. Published(s)
        BY <2>1 DEF Publish
      <4>2. k \in Nat
        BY <1>2
      <4> QED BY <4>2, <3>1, <4>1, PublishedIsState DEF OnWire
    <3>3. s # None
      BY <3>2, NoneIsNoState
    <3>4. (t => Marks(s)) /\ s.leap = k
      BY DEF Marks
    <3>5. l <= sender.leap \/ (t /\ l = k)
      BY <1>2, <1>3, <3>1
    <3> HIDE DEF s, k
    <3> QED BY <3>1, <3>3, <3>4, <3>5 DEF One, Leaps
  <2>2. CASE PublishHidden
    <3> DEFINE s == [send |-> SenderClock(now), receive |-> 0, sequence |-> NextSequence,
                     room |-> sender.room, teleport |-> FALSE, inWorld |-> FALSE,
                     flaw |-> "none", leap |-> sender.leap + 1]
    <3>1. up' = s /\ sender'.leap = sender.leap + 1
      BY <2>2 DEF PublishHidden, Published, StreamInv, StreamTyped
    <3>2. s \in State
      <4>1. Published(s)
        BY <2>2 DEF PublishHidden
      <4>2. "none" \in Flaw /\ sender.leap + 1 \in Nat /\ sender.room \in Room
        BY <1>2 DEF Flaw, StreamInv, StreamTyped
      <4> QED BY <4>2, <3>1, <4>1, PublishedIsState DEF OnWire
    <3>3. s # None
      BY <3>2, NoneIsNoState
    <3>4. Marks(s) /\ s.leap = sender.leap + 1
      BY DEF Marks
    <3>5. l <= sender.leap \/ l = sender.leap + 1
      BY <1>2, <1>3, <3>1
    <3> HIDE DEF s
    <3> QED BY <3>1, <3>3, <3>4, <3>5 DEF One, Leaps
  <2>3. ASSUME NEW r \in Room, Unpublished(r)
        PROVE  l <= sender.leap \/ l \in lost'
    <3>1. sender'.leap = sender.leap + 1 /\ sender.leap + 1 \in lost'
      BY <2>3 DEF Unpublished, StreamInv, StreamTyped
    <3> QED BY <1>2, <1>3, <3>1
  <2>4. CASE StopsItself \/ LoseUp
    <3>1. sender'.leap = sender.leap
      BY <2>4 DEF StopsItself, LoseUp, StreamInv, StreamTyped
    <3> QED BY <1>3, <3>1
  <2>5. Leaps(One(up')) \subseteq Leaps(Range(down') \cup One(up'))
    BY DEF Leaps
  <2> QED BY <2>1, <2>2, <2>3, <2>4, <2>5
<1>4. ASSUME NEW l \in Leaps(Range(down) \cup One(up))
      PROVE  l \in lost' \cup Leaps(Range(down') \cup One(up'))
  <2>1. l \in Leaps(Range(down)) \/ l \in Leaps(One(up))
    BY DEF Leaps
  <2>2. Leaps(Range(down)) \subseteq Leaps(Range(down') \cup One(up'))
    BY <1>1 DEF Leaps
  <2>3. Leaps(One(up)) \subseteq lost' \/ Leaps(One(up)) \subseteq Leaps(Range(down') \cup One(up'))
    BY <1>1 DEF Leaps
  <2> QED BY <2>1, <2>2, <2>3
<1>5. lost \subseteq lost'
  BY <1>1
<1> QED BY <1>1, <1>3, <1>4, <1>5, OnTheWayAccounted

LEMMA CoordinatorAccounts ==
    ASSUME StreamInv, Accounted,
           FanOut \/ LoseDown \/ Exchange \/ \E n \in 1..MaxSnapshotPlayers : Snapshot(n)
    PROVE  Accounted'
<1>1. /\ UNCHANGED <<accepted, newest, inbox, ring, shown, sender>>
      /\ lost \subseteq lost'
  BY DEF FanOut, LoseDown, Exchange, Snapshot, wire, receiver, timelineVars
<1>2. down \in Seq(State)
  BY ComingIsSent
<1>3. ASSUME NEW l \in Leaps(Range(down) \cup One(up)), accepted.leap < l
      PROVE  l \in lost' \cup Leaps(Range(down') \cup One(up'))
  <2>1. CASE FanOut
    <3> DEFINE x == ToNetwork(up)
    <3>1. up # None /\ up \in State
      BY <2>1 DEF FanOut, StreamInv, StreamTyped, OnWire
    <3>2. x \in State /\ x.leap = up.leap /\ Marks(x) = Marks(up)
      BY <3>1 DEF ToNetwork, State, Marks
    <3> HIDE DEF x
    <3>3. l \in Leaps(Range(down)) \/ l \in Leaps({up})
      BY <3>1 DEF Leaps, One
    <3>4. CASE "player_state" \in CarriedPackets
      <4>1. down' = Append(down, x)
        BY <2>1, <3>4 DEF FanOut, Carry, x
      <4>2. Range(down') = Range(down) \cup {x}
        BY <1>2, <3>2, <4>1, RangeOfAppend
      <4>3. Leaps({up}) = Leaps({x})
        BY <3>2 DEF Leaps
      <4>4. Leaps(Range(down)) \cup Leaps({x}) \subseteq Leaps(Range(down') \cup One(up'))
        BY <4>2 DEF Leaps
      <4> QED BY <3>3, <4>3, <4>4
    <3>5. CASE "player_state" \notin CarriedPackets
      <4>1. down' = down /\ Leaps({up}) \subseteq lost'
        BY <2>1, <3>5 DEF FanOut, Carry
      <4>2. Leaps(Range(down)) \subseteq Leaps(Range(down') \cup One(up'))
        BY <4>1 DEF Leaps
      <4> QED BY <3>3, <4>1, <4>2
    <3> QED BY <3>4, <3>5
  <2>2. CASE LoseDown
    <3>1. down # <<>> /\ down' = Tail(down) /\ up' = up /\ lost' = lost \cup Missed({Head(down)})
      BY <2>2 DEF LoseDown
    <3>2. Range(down) \subseteq {Head(down)} \cup Range(down')
      BY <1>2, <3>1, RangeOfTail
    <3>3. l \in Leaps({Head(down)}) \/ l \in Leaps(Range(down') \cup One(up'))
      BY <3>1, <3>2 DEF Leaps
    <3> QED BY <1>3, <3>1, <3>3 DEF Missed
  <2>3. CASE Exchange
    <3>1. down' = down /\ up' = up
      BY <2>3 DEF Exchange, wire
    <3> QED BY <3>1
  <2>4. ASSUME NEW n \in 1..MaxSnapshotPlayers, Snapshot(n)
        PROVE  l \in lost' \cup Leaps(Range(down') \cup One(up'))
    <3>1. latest \in State /\ up' = up
      BY <2>4 DEF Snapshot, StreamInv, StreamTyped, OnWire
    <3>2. down' = down \/ down' = Append(down, latest)
      BY <2>4 DEF Snapshot, Carry
    <3>3. Range(Append(down, latest)) = Range(down) \cup {latest}
      BY <1>2, <3>1, RangeOfAppend
    <3>4. Range(down) \subseteq Range(down')
      BY <3>2, <3>3
    <3> QED BY <3>1, <3>4 DEF Leaps
  <2> QED BY <2>1, <2>2, <2>3, <2>4
<1> QED BY <1>1, <1>3, OnTheWayAccounted

\* A marker that arrives is queued, or lost (network_adapter.cpp:544-601,
\* remote_command_queue.cpp:78-122).
LEMMA ReceiveAccounts ==
    ASSUME StreamInv, InOrder, Accounted, Receive
    PROVE  Accounted'
<1> DEFINE s == Head(down)
           noted == IF s.leap > accepted.leap THEN s.leap ELSE accepted.leap
<1>1. /\ down # <<>> /\ down' = Tail(down) /\ s \in State
      /\ UNCHANGED <<sender, up, newest, ring, shown>>
  BY ReceivedIsACopy DEF timelineVars
<1>2. down \in Seq(State) /\ inbox \in Seq(State)
  BY ComingIsSent
<1>3. /\ Range(down) \subseteq {s} \cup Range(down') /\ s \in Range(down)
      /\ \A m \in Range(down) \cup One(up) : Before(s, m)
  <2>1. Range(down) \subseteq {s} \cup Range(down')
    BY <1>1, <1>2, RangeOfTail
  <2>2. s \in Range(down) /\ Precede({s}, Range(down))
    BY <1>1, <1>2, OrderedTail DEF InOrder
  <2> QED BY <2>1, <2>2 DEF InOrder, Precede
<1>4. s.leap \in Nat /\ s.leap <= sender.leap /\ accepted.leap \in Nat
  BY <1>1, <1>3 DEF State, InOrder, Pending, Accounted
<1>5. Reached' = Reached /\ Trajectory' = Trajectory
  BY <1>1 DEF Reached, Trajectory
\* What becomes of the state.
<1>6. \/ /\ accepted' = accepted /\ inbox' = inbox /\ lost' = lost \cup Missed({s})
      \/ /\ accepted'.leap = noted /\ inbox' = inbox /\ lost' = lost \cup Missed({s})
      \/ /\ accepted'.leap = noted
         /\ \E x \in State : x.leap = s.leap /\ Marks(x) = Marks(s) /\ inbox' = Queued(x)
         /\ lost' = lost \cup (IF Len(inbox) = InboxRoom THEN Leaps({Head(inbox)}) ELSE {})
  <2>1. \/ inbox' = inbox
        \/ \E x \in State : x.leap = s.leap /\ Marks(x) = Marks(s) /\ inbox' = Queued(x)
    BY ReceivedIsACopy
  <2>2. Noted(s) => accepted'.leap = noted
    BY <1>4 DEF Noted, AtLeast
  <2>3. CASE Refuses(s) \/ "remote_sample" \notin CarriedFrames
    BY <2>3 DEF Receive
  <2>4. CASE ~(Refuses(s) \/ "remote_sample" \notin CarriedFrames) /\ ~(IsNew(s) /\ Forwarded(s))
    BY <2>2, <2>4 DEF Receive
  <2>5. CASE ~(Refuses(s) \/ "remote_sample" \notin CarriedFrames) /\ IsNew(s) /\ Forwarded(s)
    <3>1. /\ Noted(s)
          /\ lost' = lost \cup (IF Len(inbox) = InboxRoom THEN Leaps({Head(inbox)}) ELSE {})
          /\ \E stamp \in {t \in 1..now : s.send <= SenderClock(t)} :
                inbox' = Queued(Stamped(ToIpc(s, stamp), now))
      BY <2>5 DEF Receive
    <3> HIDE DEF s
    <3>2. PICK stamp \in 1..now : inbox' = Queued(Stamped(ToIpc(s, stamp), now))
      BY <3>1
    <3>3. PICK x \in State : /\ x = Stamped(ToIpc(s, stamp), now)
                             /\ x.leap = s.leap /\ Marks(x) = Marks(s)
      BY <1>1, StampedIsACopy
    <3>4. inbox' = Queued(x)
      BY <3>2, <3>3
    <3> QED BY <2>2, <3>1, <3>3, <3>4
  <2> QED BY <2>3, <2>4, <2>5
<1> HIDE DEF s
<1>7. lost \subseteq lost' /\ accepted.leap <= accepted'.leap /\ accepted'.leap \in Nat
  BY <1>4, <1>6
\* What is queued.
<1>8. PICK given \in SUBSET Range(inbox) :
        /\ Range(inbox) \subseteq given \cup Range(inbox') /\ Leaps(given) \subseteq lost'
        /\ \/ inbox' = inbox
           \/ \E x \in State : /\ x.leap = s.leap /\ Marks(x) = Marks(s)
                               /\ x \in Range(inbox') /\ Range(inbox') \subseteq Range(inbox) \cup {x}
                               /\ accepted'.leap = noted
  <2>1. CASE inbox' = inbox
    <3>1. Leaps({}) = {}
      BY DEF Leaps
    <3> QED BY <2>1, <3>1
  <2>2. CASE inbox' # inbox
    <3> DEFINE kept == IF Len(inbox) = InboxRoom THEN Tail(inbox) ELSE inbox
    <3>1. PICK x \in State : /\ x.leap = s.leap /\ Marks(x) = Marks(s) /\ inbox' = Queued(x)
                             /\ accepted'.leap = noted
      BY <1>6, <2>2
    <3>2. lost' = lost \cup (IF Len(inbox) = InboxRoom THEN Leaps({Head(inbox)}) ELSE {})
      BY <1>6, <2>2
    <3>3. inbox' = Append(kept, x)
      BY <3>1 DEF Queued
    <3>4. CASE Len(inbox) = InboxRoom
      <4>1. inbox # <<>>
        BY <3>4, StreamAssumption
      <4>2. /\ Range(Tail(inbox)) \subseteq Range(inbox)
            /\ Range(inbox) \subseteq {Head(inbox)} \cup Range(Tail(inbox))
            /\ Tail(inbox) \in Seq(State)
        BY <1>2, <4>1, RangeOfTail, HeadTail
      <4>3. Range(inbox') = Range(Tail(inbox)) \cup {x}
        <5>1. inbox' = Append(Tail(inbox), x)
          BY <3>3, <3>4
        <5>2. \A q \in Seq(State) : Range(Append(q, x)) = Range(q) \cup {x}
          BY RangeOfAppend
        <5> QED BY <4>2, <5>1, <5>2
      <4>4. Head(inbox) \in Range(inbox)
        BY <1>2, <4>1 DEF Range
      <4>5. Leaps({Head(inbox)}) \subseteq lost'
        BY <3>2, <3>4
      <4>6. {Head(inbox)} \in SUBSET Range(inbox)
        BY <4>4
      <4>7. Range(inbox) \subseteq {Head(inbox)} \cup Range(inbox')
        BY <4>2, <4>3
      <4> HIDE DEF kept, noted
      <4> WITNESS {Head(inbox)} \in SUBSET Range(inbox)
      <4> QED BY <3>1, <4>2, <4>3, <4>5, <4>7
    <3>5. CASE Len(inbox) # InboxRoom
      <4>1. Range(inbox') = Range(inbox) \cup {x}
        BY <1>2, <3>3, <3>5, RangeOfAppend
      <4>2. Leaps({}) \subseteq lost'
        BY DEF Leaps
      <4> HIDE DEF kept, noted
      <4> WITNESS {} \in SUBSET Range(inbox)
      <4> QED BY <3>1, <4>1, <4>2
    <3> QED BY <3>4, <3>5
  <2> QED BY <2>1, <2>2
<1>9. \A x \in Range(inbox') : x.leap <= accepted'.leap
  <2>1. \A x \in Range(inbox) : x.leap <= accepted'.leap
    <3>1. \A x \in Range(inbox) : x.leap <= accepted.leap /\ x.leap \in Nat
      BY ComingIsSent DEF Accounted, Pending
    <3> QED BY <1>4, <1>7, <3>1
  <2> QED BY <1>4, <1>8, <2>1
<1>10. ASSUME NEW l \in Nat, accepted.leap < l, l <= s.leap, accepted'.leap = noted
       PROVE  l \in lost' \cup Leaps(Range(inbox'))
  <2>1. l \in lost \/ l \in Leaps(Range(down) \cup One(up))
    <3>1. sender.leap \in Nat
      BY ComingIsSent
    <3>2. l <= sender.leap
      BY <1>4, <1>10, <3>1
    <3> QED BY <1>10, <3>1, <3>2 DEF Accounted
  <2>2. ASSUME NEW m \in Range(down) \cup One(up), Marks(m), m.leap = l
        PROVE  Marks(s) /\ l = s.leap
    <3>1. Before(s, m)
      BY <1>3
    <3> QED BY <1>4, <1>10, <2>2, <3>1 DEF Before
  <2>3. CASE Marks(s) /\ l = s.leap
    <3>1. CASE lost' = lost \cup Missed({s})
      <4>1. l \in Missed({s})
        BY <1>10, <2>3 DEF Missed, Leaps
      <4> QED BY <3>1, <4>1
    <3>2. CASE \E x \in State : /\ x.leap = s.leap /\ Marks(x) = Marks(s) /\ inbox' = Queued(x)
      <4>1. PICK x \in State : /\ x.leap = s.leap /\ Marks(x) = Marks(s) /\ inbox' = Queued(x)
        BY <3>2
      <4>2. x \in Range(inbox')
        BY <1>2, <4>1, QueuedIsThere
      <4> QED BY <2>3, <4>1, <4>2 DEF Leaps
    <3> QED BY <1>6, <1>4, <1>10, <3>1, <3>2
  <2> QED BY <1>7, <2>1, <2>2, <2>3 DEF Leaps
<1>11. ASSUME NEW l \in Nat, 0 < l, l <= accepted'.leap
       PROVE  l <= Reached \/ l \in lost' \cup Leaps(Range(inbox'))
  <2>1. CASE l <= accepted.leap
    <3>1. l <= Reached \/ l \in lost \/ l \in Leaps(Range(inbox))
      BY <1>11, <2>1 DEF Accounted
    <3>2. Leaps(Range(inbox)) \subseteq lost' \cup Leaps(Range(inbox'))
      <4>1. Leaps(Range(inbox)) \subseteq Leaps(given) \cup Leaps(Range(inbox'))
        BY <1>8 DEF Leaps
      <4> QED BY <1>8, <4>1
    <3> QED BY <1>7, <3>1, <3>2
  <2>2. CASE accepted.leap < l
    <3>1. accepted'.leap = noted /\ l <= s.leap
      BY <1>4, <1>6, <1>11, <2>2
    <3> QED BY <1>10, <2>2, <3>1
  <2> QED BY <1>4, <2>1, <2>2
<1>12. ASSUME NEW l \in Nat, accepted'.leap < l, l <= sender.leap
       PROVE  l \in lost' \cup Leaps(Range(down') \cup One(up))
  <2>1. l \in lost \/ l \in Leaps(Range(down) \cup One(up))
    <3>1. sender.leap \in Nat
      BY ComingIsSent
    <3>2. accepted.leap < l
      BY <1>4, <1>7, <1>12
    <3> QED BY <1>12, <3>1, <3>2 DEF Accounted
  <2>2. l \in Leaps({s}) \/ l \in lost \/ l \in Leaps(Range(down') \cup One(up))
    BY <1>3, <2>1 DEF Leaps
  <2>3. CASE l \in Leaps({s})
    <3>1. l = s.leap /\ l > accepted.leap
      BY <1>4, <1>7, <1>12, <2>3 DEF Leaps
    <3>2. accepted'.leap # noted
      BY <1>4, <1>12, <3>1
    <3>3. lost' = lost \cup Missed({s})
      BY <1>6, <3>2
    <3> QED BY <2>3, <3>1, <3>3 DEF Missed
  <2> QED BY <1>7, <2>2, <2>3
<1>13. /\ Leaps(Range(inbox))' = Leaps(Range(inbox'))
       /\ Leaps(Range(down) \cup One(up))' = Leaps(Range(down') \cup One(up))
  BY <1>1 DEF Leaps, Marks, Range, One
<1>14. /\ \A a \in Trajectory' : a.leap <= Reached'
       /\ \A a \in Trajectory' : \A l \in (a.leap + 1)..Reached' : l \in lost'
  BY <1>5, <1>7 DEF Accounted
<1>15. Range(inbox)' = Range(inbox')
  BY DEF Range
<1> QED BY <1>1, <1>5, <1>7, <1>9, <1>11, <1>12, <1>13, <1>14, <1>15 DEF Accounted

\* What a sample does to what is played together.
LEMMA PushedTrajectory ==
    ASSUME TimelineInv, NEW p \in Sample, Push(p)
    PROVE  /\ ~Accepts(p) => Trajectory' = Trajectory
           /\ Accepts(p) /\ Jump(p) => Trajectory' = {p}
           /\ Accepts(p) /\ ~Jump(p) => Trajectory' \subseteq Trajectory \cup {p}
<1>1. CASE ~Accepts(p)
  BY <1>1 DEF Push, timelineVars, Trajectory
<1>2. CASE Accepts(p) /\ Jump(p)
  <2>1. ring' = <<p>> /\ shown' = None
    BY <1>2 DEF Push
  <2> QED BY <1>2, <2>1 DEF Trajectory
<1>3. CASE Accepts(p) /\ ~Jump(p)
  <2>1. ring' = Buffered(p) /\ shown' = shown /\ ring \in Seq(Sample)
    BY <1>3 DEF Push, TimelineInv
  <2> QED BY <1>3, <2>1, BufferedHolds DEF Trajectory
<1> QED BY <1>1, <1>2, <1>3

\* A marker that the game gets to ends the trajectory, or is lost; what comes without
\* one goes on with a trajectory that lost none but lost leaps
\* (remote_actor_backend.cpp:1137-1160, remote_pose_timeline.cpp:76-137).
LEMMA ApplyAccounts ==
    ASSUME StreamInv, InOrder, Unbroken, Accounted, Apply
    PROVE  Accounted'
<1> DEFINE s == Head(inbox)
           p == PoseSample(s)
<1>1. /\ inbox # <<>> /\ inbox' = Tail(inbox) /\ inbox \in Seq(State)
      /\ UNCHANGED <<sender, up, down, accepted>>
  BY ComingIsSent DEF Apply, wire
<1>2. /\ s \in Arrived /\ s \in State /\ s \in Range(inbox)
      /\ Range(inbox') \subseteq Range(inbox) /\ Range(inbox) \subseteq {s} \cup Range(inbox')
      /\ \A m \in Range(inbox) : Before(s, m)
  <2>1. s \in Arrived /\ Arrived \subseteq State
    BY <1>1, HeadTail DEF StreamInv, StreamTyped, Arrived
  <2>2. s \in Range(inbox) /\ Precede({s}, Range(inbox))
    BY <1>1, OrderedTail DEF InOrder
  <2> QED BY <1>1, <2>1, <2>2, RangeOfTail DEF Precede
<1>3. /\ s.leap \in Nat /\ accepted.leap \in Nat /\ s.leap <= accepted.leap
      /\ Reached \in Nat /\ s # None
  BY <1>2, ReachedIsNat, NoneIsNoState DEF State, Accounted
<1>4. p \in Sample /\ p.leap = s.leap /\ p.teleport = s.teleport
  <2> HIDE DEF s
  <2> QED BY <1>2 DEF PoseSample, State, Sample
<1>5. \/ /\ newest' = newest /\ UNCHANGED timelineVars /\ lost' = lost \cup Leaps({s})
      \/ /\ newest' = s
         /\ IF s.inWorld THEN Push(p) ELSE ResetSamples
         /\ lost' = IF s.inWorld /\ ~Accepts(p) THEN lost \cup Leaps({s}) ELSE lost \ Leaps({s})
  BY DEF Apply
<1>6. Leaps({s}) \subseteq {s.leap} /\ (Marks(s) => Leaps({s}) = {s.leap})
      /\ (~Marks(s) => Leaps({s}) = {})
  BY DEF Leaps
<1>7. /\ Leaps(Range(inbox)) \subseteq Leaps({s}) \cup Leaps(Range(inbox'))
      /\ Leaps(Range(inbox))' = Leaps(Range(inbox')) /\ Range(inbox)' = Range(inbox')
      /\ Leaps(Range(down) \cup One(up))' = Leaps(Range(down) \cup One(up))
  BY <1>1, <1>2 DEF Leaps, Marks, Range, One
<1> HIDE DEF s, p
<1>8. \A m \in Range(inbox') : m.leap <= accepted'.leap
  BY <1>1, <1>2 DEF Accounted
<1>9. CASE newest' = newest /\ UNCHANGED timelineVars /\ lost' = lost \cup Leaps({s})
  <2>1. Reached' = Reached /\ Trajectory' = Trajectory
    BY <1>9 DEF Reached, Trajectory, timelineVars
  <2> QED BY <1>1, <1>7, <1>8, <1>9, <2>1 DEF Accounted
<1>10. CASE /\ newest' = s
            /\ IF s.inWorld THEN Push(p) ELSE ResetSamples
            /\ lost' = IF s.inWorld /\ ~Accepts(p) THEN lost \cup Leaps({s}) ELSE lost \ Leaps({s})
  <2>1. Reached' = s.leap /\ Reached <= s.leap
    <3>1. Reached' = s.leap
      BY <1>3, <1>10 DEF Reached
    <3>2. newest # None => Before(newest, s)
      BY <1>2 DEF InOrder, Precede, One
    <3> QED BY <1>3, <3>1, <3>2 DEF Reached, Before
  <2>2. lost \subseteq lost' \cup {s.leap}
    BY <1>6, <1>10
  <2>3. ASSUME NEW l \in Nat, 0 < l, l <= accepted.leap
        PROVE  l <= Reached' \/ l \in lost' \cup Leaps(Range(inbox'))
    <3>1. l <= Reached \/ l \in lost \/ l \in Leaps(Range(inbox))
      BY <2>3 DEF Accounted
    <3> QED BY <1>3, <1>6, <1>7, <2>1, <2>2, <3>1
  <2>4. ASSUME NEW l \in Nat, accepted.leap < l, l <= sender.leap
        PROVE  l \in lost' \cup Leaps(Range(down) \cup One(up))
    <3>1. l \in lost \cup Leaps(Range(down) \cup One(up))
      BY <2>4 DEF Accounted
    <3>2. l # s.leap
      BY <1>3, <2>4
    <3> QED BY <2>2, <3>1, <3>2
  \* Up to this state no leap is without trace but its own.
  <2>5. ASSUME NEW l \in Nat, Reached < l, l <= s.leap
        PROVE  l \in lost \/ (Marks(s) /\ l = s.leap)
    <3>1. l \in lost \/ l \in Leaps(Range(inbox))
      BY <1>3, <2>5 DEF Accounted
    <3>2. ASSUME NEW m \in Range(inbox), Marks(m), m.leap = l
          PROVE  Marks(s) /\ l = s.leap
      <4>1. Before(s, m)
        BY <1>2
      <4> QED BY <1>3, <2>5, <3>2, <4>1 DEF Before
    <3> QED BY <3>1, <3>2 DEF Leaps
  <2>6. \A a \in Trajectory : a.leap \in Nat /\ a.leap <= Reached
    BY DEF Unbroken, Sample, Accounted
  <2>7. ASSUME NEW a \in Trajectory, NEW l \in (a.leap + 1)..s.leap
        PROVE  l \in lost \/ (Marks(s) /\ l = s.leap)
    <3>1. l \in Nat /\ a.leap + 1 <= l /\ l <= s.leap
      BY <1>3, <2>6
    <3>2. CASE l <= Reached
      BY <1>3, <2>6, <3>1, <3>2 DEF Accounted
    <3>3. CASE Reached < l
      BY <2>5, <3>1, <3>3
    <3> QED BY <1>3, <3>1, <3>2, <3>3
  <2>8. /\ \A a \in Trajectory' : a.leap <= s.leap
        /\ \A a \in Trajectory' : \A l \in (a.leap + 1)..s.leap : l \in lost'
    <3>1. \A a \in Trajectory : a.leap <= s.leap
      BY <1>3, <2>1, <2>6
    <3>2. \A l \in (s.leap + 1)..s.leap : FALSE
      BY <1>3
    <3>3. CASE ~s.inWorld
      <4>1. Trajectory' = {}
        BY <1>10, <3>3 DEF ResetSamples, Trajectory
      <4> QED BY <4>1
    <3>4. CASE s.inWorld /\ ~Accepts(p)
      <4>1. Trajectory' = Trajectory /\ lost' = lost \cup Leaps({s})
        BY <1>4, <1>10, <3>4, PushedTrajectory DEF StreamInv
      <4> QED BY <1>6, <2>7, <3>1, <4>1
    <3>5. CASE s.inWorld /\ Accepts(p) /\ Jump(p)
      <4>1. Trajectory' = {p}
        BY <1>4, <1>10, <3>5, PushedTrajectory DEF StreamInv
      <4> QED BY <1>3, <1>4, <3>2, <4>1
    <3>6. CASE s.inWorld /\ Accepts(p) /\ ~Jump(p)
      <4>1. Trajectory' \subseteq Trajectory \cup {p}
        BY <1>4, <1>10, <3>6, PushedTrajectory DEF StreamInv
      <4>2. ~Marks(s)
        BY <1>4, <3>6 DEF Jump, Marks
      <4>3. lost' = lost
        BY <1>6, <1>10, <3>6, <4>2
      <4> QED BY <1>3, <1>4, <2>7, <3>1, <3>2, <4>1, <4>2, <4>3
    <3> QED BY <3>3, <3>4, <3>5, <3>6
  <2>9. accepted'.leap = accepted.leap /\ sender'.leap = sender.leap /\ accepted'.leap \in Nat
    BY <1>1, <1>3
  <2> QED BY <1>7, <1>8, <2>1, <2>3, <2>4, <2>8, <2>9 DEF Accounted
<1> QED BY <1>5, <1>9, <1>10

LEMMA FrameAccounts ==
    ASSUME StreamInv, Unbroken, Accounted, Frame
    PROVE  Accounted'
<1>1. /\ Evaluate(now)
      /\ UNCHANGED <<sender, up, down, inbox, newest, accepted, lost>>
  BY DEF Frame, wire, receiver
<1>2. Trajectory' \subseteq Trajectory
  BY <1>1, EvaluatedTrajectory DEF StreamInv
<1>3. /\ Reached' = Reached /\ Range(inbox)' = Range(inbox)
      /\ Leaps(Range(inbox))' = Leaps(Range(inbox))
      /\ Leaps(Range(down) \cup One(up))' = Leaps(Range(down) \cup One(up))
  BY <1>1 DEF Reached, Leaps, Marks, Range, One
<1> QED BY <1>1, <1>2, <1>3 DEF Accounted

LEMMA AccountStep ==
    ASSUME StreamInv, InOrder, Unbroken, Accounted, [StreamNext]_vars
    PROVE  Accounted'
<1>1. CASE Tick \/ UNCHANGED vars
  <2>1. UNCHANGED <<accepted, newest, inbox, ring, shown, lost, sender, down, up>>
    BY <1>1 DEF Tick, vars, wire, receiver, timelineVars
  <2> QED BY <2>1, OnTheWayAccounted DEF Leaps
<1>2. CASE \/ \E r \in Room, t \in BOOLEAN, f \in Flaw : Publish(r, t, f)
           \/ PublishHidden
           \/ \E r \in Room : Unpublished(r)
           \/ StopsItself \/ LoseUp
  BY <1>2, SenderAccounts
<1>3. CASE FanOut \/ LoseDown \/ Exchange \/ \E n \in 1..MaxSnapshotPlayers : Snapshot(n)
  BY <1>3, CoordinatorAccounts
<1>4. CASE Receive
  BY <1>4, ReceiveAccounts
<1>5. CASE Apply
  BY <1>5, ApplyAccounts
<1>6. CASE Frame
  BY <1>6, FrameAccounts
<1> QED BY <1>1, <1>2, <1>3, <1>4, <1>5, <1>6 DEF StreamNext

\* A displayed pose is made from samples of one room, and across a jump of the player
\* only when the one sample that tells of it was lost: whatever overtakes, repeats,
\* delays or drops the states, a marker that the game gets to ends what is displayed.
\* And it is not ahead of its newest sample by more than extrapolation may go, although
\* the playback outlives a buffer that is given up (telemetry.cpp:202-292,
\* remote_pose_timeline.cpp:111-131, 209-290, 355-430).
THEOREM PosesAreJustified == StreamSpec => []PoseIsJustified
<1>1. StreamInit => Accounted
  BY AccountStarts
<1>2. StreamInv /\ InOrder /\ Unbroken /\ Accounted /\ [StreamNext]_vars => Accounted'
  BY AccountStep
<1>3. StreamSpec => []Unbroken
  BY StreamImplementsTimeline, TrajectoryIsUnbroken, PTL
<1>4. StreamSpec => []Accounted
  BY <1>1, <1>2, <1>3, StreamIsTyped, StreamIsInOrder, PTL DEF StreamSpec
<1>5. StreamInv /\ InOrder /\ Unbroken /\ Accounted => PoseIsJustified
  <2> SUFFICES ASSUME StreamInv, InOrder, Unbroken, Accounted, shown # None
               PROVE  /\ \A a, b \in Pose : a.room = b.room
                      /\ Between(Pose) \subseteq lost
                      /\ shown.target <= Newest.send + MaxExtrapolation
    BY DEF PoseIsJustified
  <2>1. ring # <<>>
    BY DEF Unbroken
  <2>2. Pose \subseteq Trajectory /\ Trajectory \subseteq Sample
    BY <2>1 DEF Pose, Trajectory, Newest, StreamInv, TimelineInv, Unbroken
  <2>3. \A a, b \in Pose : a.room = b.room
    BY <2>2 DEF Unbroken, Continuous
  <2>4. Between(Pose) \subseteq lost
    <3>1. ASSUME NEW l \in 1..sender.leap, NEW a \in Pose, NEW b \in Pose,
                 a.leap < l, l <= b.leap
          PROVE  l \in lost
      <4>1. a.leap \in Nat /\ b.leap \in Nat /\ b.leap <= Reached /\ Reached \in Nat
        BY <2>2, ReachedIsNat DEF Sample, Accounted
      <4>2. l \in (a.leap + 1)..Reached
        BY <3>1, <4>1
      <4> QED BY <2>2, <4>2 DEF Accounted
    <3> QED BY <3>1 DEF Between
  <2>5. Newest \in Coming
    BY <2>1 DEF Playing, Coming
  <2> QED BY <2>3, <2>4, <2>5 DEF InOrder, StreamInv, TimelineInv
<1> QED BY <1>3, <1>4, <1>5, StreamIsTyped, StreamIsInOrder, PTL

-----------------------------------------------------------------------------
(* The bytes of a layout.                                                  *)

Width == [u8 |-> 1, u16 |-> 2, u32 |-> 4, i32 |-> 4, f32 |-> 4, u64 |-> 8, f64 |-> 8]

IsLayout(l) == \E S : l \in Seq(S)

LEMMA LayoutsAreSequences ==
    ASSUME NEW a, NEW b, IsLayout(a), IsLayout(b)
    PROVE  \E S : a \in Seq(S) /\ b \in Seq(S)
<1>1. PICK A : a \in Seq(A)
  BY DEF IsLayout
<1>2. PICK B : b \in Seq(B)
  BY DEF IsLayout
<1>3. a \in Seq(A \cup B) /\ b \in Seq(A \cup B)
  <2>1. A \subseteq A \cup B /\ B \subseteq A \cup B
    OBVIOUS
  <2> QED BY <1>1, <1>2, <2>1, SeqGrows
<1> QED BY <1>3

\* Values that are appended are counted with the others.
LEMMA CountJoined ==
    ASSUME NEW a, NEW b, NEW type, IsLayout(a), IsLayout(b)
    PROVE  /\ Count(a, type) \in Nat /\ Count(b, type) \in Nat
           /\ Count(a \o b, type) = Count(a, type) + Count(b, type)
<1> DEFINE A == {i \in DOMAIN a : a[i][2] = type}
           B == {i \in DOMAIN b : b[i][2] = type}
           C == {i \in DOMAIN (a \o b) : (a \o b)[i][2] = type}
           Moved == {i + Len(a) : i \in B}
           f == [i \in B |-> i + Len(a)]
<1>0. PICK S : a \in Seq(S) /\ b \in Seq(S)
  BY LayoutsAreSequences
<1>1. DOMAIN a = 1..Len(a) /\ DOMAIN b = 1..Len(b) /\ Len(a) \in Nat /\ Len(b) \in Nat
  BY <1>0
<1>2. /\ IsFiniteSet(A) /\ Cardinality(A) \in Nat
      /\ IsFiniteSet(B) /\ Cardinality(B) \in Nat
  <2>1. IsFiniteSet(1..Len(a)) /\ IsFiniteSet(1..Len(b))
    BY <1>1, FS_Interval
  <2>2. A \subseteq 1..Len(a) /\ B \subseteq 1..Len(b)
    BY <1>1
  <2>3. IsFiniteSet(A) /\ IsFiniteSet(B)
    BY <2>1, <2>2, FS_Subset
  <2> QED BY <2>3, FS_CardinalityType
<1>3. IsFiniteSet(Moved) /\ Cardinality(Moved) = Cardinality(B)
  <2>1. f \in [B -> Moved]
    OBVIOUS
  <2>2. \A i, j \in B : f[i] = f[j] => i = j
    BY <1>1
  <2>3. \A m \in Moved : \E i \in B : f[i] = m
    OBVIOUS
  <2>4. f \in Bijection(B, Moved)
    BY <2>1, <2>2, <2>3 DEF Bijection, Injection, Surjection, IsInjective
  <2>5. ExistsBijection(B, Moved)
    BY <2>4 DEF ExistsBijection
  <2> QED BY <1>2, <2>5, FS_Bijection
<1>4. C = A \cup Moved
  <2>1. /\ DOMAIN (a \o b) = 1..(Len(a) + Len(b))
        /\ \A i \in 1..Len(a) : (a \o b)[i] = a[i]
        /\ \A i \in 1..Len(b) : (a \o b)[i + Len(a)] = b[i]
    BY <1>0, <1>1
  <2>2. \A i \in (Len(a) + 1)..(Len(a) + Len(b)) :
           i - Len(a) \in 1..Len(b) /\ (i - Len(a)) + Len(a) = i
    BY <1>1
  <2>3. ASSUME NEW i \in C PROVE i \in A \cup Moved
    <3>1. CASE i \in 1..Len(a)
      BY <1>1, <2>1, <3>1
    <3>2. CASE i \notin 1..Len(a)
      <4>1. i \in (Len(a) + 1)..(Len(a) + Len(b))
        BY <1>1, <2>1, <3>2
      <4>2. i - Len(a) \in B
        BY <1>1, <2>1, <2>2, <4>1
      <4> QED BY <2>2, <4>1, <4>2
    <3> QED BY <3>1, <3>2
  <2>4. A \subseteq C
    BY <1>1, <2>1
  <2>5. Moved \subseteq C
    BY <1>1, <2>1
  <2> QED BY <2>3, <2>4, <2>5
<1>5. A \cap Moved = {}
  BY <1>1
<1>6. Cardinality(C) = Cardinality(A) + Cardinality(B)
  <2> HIDE DEF A, B, C, Moved
  <2>1. Cardinality({}) = 0
    BY FS_EmptySet
  <2>2. Cardinality(A \cup Moved)
          = Cardinality(A) + Cardinality(Moved) - Cardinality(A \cap Moved)
    BY <1>2, <1>3, FS_Union
  <2>3. Cardinality(C) = Cardinality(A \cup Moved)
    BY <1>4, Zenon
  <2>4. Cardinality(A \cap Moved) = Cardinality({})
    BY <1>5, Zenon
  <2> QED BY <1>2, <1>3, <2>1, <2>2, <2>3, <2>4
<1> QED BY <1>2, <1>6 DEF Count

LEMMA SizeJoined ==
    ASSUME NEW a, NEW b, IsLayout(a), IsLayout(b)
    PROVE  IsLayout(a \o b) /\ Size(a \o b) = Size(a) + Size(b)
<1>1. IsLayout(a \o b)
  <2>1. PICK S : a \in Seq(S) /\ b \in Seq(S)
    BY LayoutsAreSequences
  <2>2. a \o b \in Seq(S)
    BY <2>1
  <2> QED BY <2>2 DEF IsLayout
<1>2. \A type \in DOMAIN Width :
         /\ Count(a, type) \in Nat /\ Count(b, type) \in Nat
         /\ Count(a \o b, type) = Count(a, type) + Count(b, type)
  BY CountJoined
<1>3. DOMAIN Width = {"u8", "u16", "u32", "i32", "f32", "u64", "f64"}
  BY DEF Width
<1> QED BY <1>1, <1>2, <1>3 DEF Size

\* Values of one type.
LEMMA SizeOfOne ==
    ASSUME NEW type \in DOMAIN Width, NEW n \in Nat, NEW l, l = [i \in 1..n |-> l[i]],
           \A i \in 1..n : l[i][2] = type
    PROVE  IsLayout(l) /\ Size(l) = Width[type] * n
<1>1. DOMAIN l = 1..n /\ IsLayout(l)
  <2>1. l \in [1..n -> {l[i] : i \in 1..n}]
    OBVIOUS
  <2>2. l \in Seq({l[i] : i \in 1..n})
    BY <2>1, SeqDef
  <2> QED BY <2>1, <2>2 DEF IsLayout
<1>2. DOMAIN Width = {"u8", "u16", "u32", "i32", "f32", "u64", "f64"}
  BY DEF Width
<1>3. Count(l, type) = n
  <2>1. {i \in DOMAIN l : l[i][2] = type} = 1..n
    BY <1>1
  <2>2. Cardinality(1..n) = n
    BY FS_Interval
  <2> QED BY <2>1, <2>2 DEF Count
<1>4. \A other : other # type => Count(l, other) = 0
  <2>1. ASSUME NEW other, other # type
        PROVE  {i \in DOMAIN l : l[i][2] = other} = {}
    BY <1>1, <2>1
  <2> QED BY <2>1, FS_EmptySet DEF Count
<1> QED BY <1>1, <1>2, <1>3, <1>4 DEF Size, Width

LEMMA SizeOf ==
    ASSUME NEW type \in DOMAIN Width, NEW n \in Nat, NEW names, DOMAIN names = 1..n
    PROVE  IsLayout(Of(type, names)) /\ Size(Of(type, names)) = Width[type] * n
<1> DEFINE l == Of(type, names)
<1>1. l = [i \in 1..n |-> <<names[i], type>>]
  BY DEF Of
<1>2. l = [i \in 1..n |-> l[i]] /\ \A i \in 1..n : l[i][2] = type
  BY <1>1
<1> QED BY <1>2, SizeOfOne

LEMMA SizeOfArray ==
    ASSUME NEW type \in DOMAIN Width, NEW name, NEW n \in Nat
    PROVE  IsLayout(Array(type, name, n)) /\ Size(Array(type, name, n)) = Width[type] * n
<1> DEFINE l == Array(type, name, n)
<1>1. l = [i \in 1..n |-> <<name, type>>]
  BY DEF Array
<1>2. l = [i \in 1..n |-> l[i]] /\ \A i \in 1..n : l[i][2] = type
  BY <1>1
<1> QED BY <1>2, SizeOfOne

LEMMA Widths ==
    /\ DOMAIN Width = {"u8", "u16", "u32", "i32", "f32", "u64", "f64"}
    /\ Width["u8"] = 1 /\ Width["u16"] = 2
    /\ Width["u32"] = 4 /\ Width["i32"] = 4 /\ Width["f32"] = 4
    /\ Width["u64"] = 8 /\ Width["f64"] = 8
  BY DEF Width

LEMMA SizeOf1 ==
    ASSUME NEW type \in DOMAIN Width, NEW a
    PROVE  IsLayout(Of(type, <<a>>)) /\ Size(Of(type, <<a>>)) = Width[type] * 1
<1>1. 1 \in Nat
  OBVIOUS
<1>2. DOMAIN <<a>> = 1..1
  OBVIOUS
<1> QED BY <1>1, <1>2, SizeOf, Zenon

LEMMA SizeOf2 ==
    ASSUME NEW type \in DOMAIN Width, NEW a, NEW b
    PROVE  IsLayout(Of(type, <<a, b>>)) /\ Size(Of(type, <<a, b>>)) = Width[type] * 2
<1>1. 2 \in Nat
  OBVIOUS
<1>2. DOMAIN <<a, b>> = 1..2
  OBVIOUS
<1> QED BY <1>1, <1>2, SizeOf, Zenon

LEMMA SizeOf3 ==
    ASSUME NEW type \in DOMAIN Width, NEW a, NEW b, NEW c
    PROVE  IsLayout(Of(type, <<a, b, c>>)) /\ Size(Of(type, <<a, b, c>>)) = Width[type] * 3
<1>1. 3 \in Nat
  OBVIOUS
<1>2. DOMAIN <<a, b, c>> = 1..3
  OBVIOUS
<1> QED BY <1>1, <1>2, SizeOf, Zenon

LEMMA SizeOf4 ==
    ASSUME NEW type \in DOMAIN Width, NEW a, NEW b, NEW c, NEW d
    PROVE  IsLayout(Of(type, <<a, b, c, d>>)) /\ Size(Of(type, <<a, b, c, d>>)) = Width[type] * 4
<1>1. 4 \in Nat
  OBVIOUS
<1>2. DOMAIN <<a, b, c, d>> = 1..4
  OBVIOUS
<1> QED BY <1>1, <1>2, SizeOf, Zenon

LEMMA SizeOfLocation == IsLayout(WriteLocation) /\ Size(WriteLocation) = 36
<1>1. /\ IsLayout(Of("i32", <<"room", "road", "node">>))
      /\ Size(Of("i32", <<"room", "road", "node">>)) = 12
  BY SizeOf3, Widths
<1>2. IsLayout(Of("f64", <<"distance">>)) /\ Size(Of("f64", <<"distance">>)) = 8
  BY SizeOf1, Widths
<1>3. /\ IsLayout(Of("i32", <<"vector", "segment", "aux0", "aux1">>))
      /\ Size(Of("i32", <<"vector", "segment", "aux0", "aux1">>)) = 16
  BY SizeOf4, Widths
<1> QED BY <1>1, <1>2, <1>3, SizeJoined DEF WriteLocation

LEMMA SizeOfVehicle == IsLayout(WriteVehicle) /\ Size(WriteVehicle) = 238
  BY SizeOfArray, SizeOf1, SizeOf2, SizeJoined, Widths DEF WriteVehicle

LEMMA SizeOfEnvironment == IsLayout(WriteEnvironment) /\ Size(WriteEnvironment) = 45
  BY SizeOf1, SizeOf3, SizeJoined, Widths DEF WriteEnvironment

\* 378 bytes, in a packet as in a frame.
LEMMA SizeOfState == IsLayout(WriteState) /\ Size(WriteState) = 378
  BY SizeOfArray, SizeOf1, SizeOf3, SizeOfLocation, SizeOfVehicle, SizeJoined, Widths
     DEF WriteState

LEMMA SizeOfSample == IsLayout(WriteSample) /\ Size(WriteSample) = 378
  BY SizeOfArray, SizeOf1, SizeOf4, SizeOfLocation, SizeOfVehicle, SizeJoined, Widths
     DEF WriteSample, Appearance

LEMMA SizeOfPeer ==
    /\ IsLayout(Peer) /\ Size(Peer) = 16
    /\ IsLayout(Appearance) /\ Size(Appearance) = 3
  BY SizeOf1, SizeOf2, SizeJoined, Widths DEF Peer, Appearance

\* A reader takes what the writer put there.
LEMMA ReadAsWritten ==
    /\ ReadLocation = WriteLocation /\ ReadVehicle = WriteVehicle
    /\ ReadEnvironment = WriteEnvironment
    /\ ReadState = WriteState /\ ReadSample = WriteSample
<1>1. ReadLocation = WriteLocation
  BY Zenon DEF ReadLocation, WriteLocation
<1>2. ReadVehicle = WriteVehicle
  BY Zenon DEF ReadVehicle, WriteVehicle
<1>3. ReadEnvironment = WriteEnvironment
  BY Zenon DEF ReadEnvironment, WriteEnvironment
<1>4. ReadState = WriteState
  BY <1>1, <1>2, Zenon DEF ReadState, WriteState
<1>5. ReadSample = WriteSample
  BY <1>1, <1>2, Zenon DEF ReadSample, WriteSample
<1> QED BY <1>1, <1>2, <1>3, <1>4, <1>5

-----------------------------------------------------------------------------
(* What is carried.                                                        *)

LEMMA SizeOfText ==
    ASSUME NEW name, NEW n \in Nat
    PROVE  /\ IsLayout(Bytes(name, n)) /\ Size(Bytes(name, n)) = n
           /\ IsLayout(String8(name, n)) /\ Size(String8(name, n)) = 1 + n
  BY SizeOfArray, Widths DEF Bytes, String8

\* No packet but a snapshot is longer than the one of a state.
LEMMA PacketsAreCarried ==
    ASSUME HeaderSize \in Nat, MaxPacketSize \in Nat, HeaderSize + 378 <= MaxPacketSize
    PROVE  CarriedPackets = Packets
<1>1. DecodedPacket = EncodedPacket
  BY ReadAsWritten, Zenon DEF DecodedPacket, EncodedPacket
<1>2. Size(EncodedPacket.client_hello) = 93
  BY SizeOfText, SizeOf1, SizeOfPeer, SizeJoined, Widths
     DEF EncodedPacket, ProfileBytes, NameBytes
<1>3. Size(EncodedPacket.server_welcome) = 59
  BY SizeOfText, SizeOf2, SizeOf3, SizeJoined, Widths DEF EncodedPacket, ProfileBytes
<1>4. /\ Size(EncodedPacket.peer_joined) = 52 /\ Size(EncodedPacket.spawn_metadata) = 52
  BY SizeOfText, SizeOfPeer, SizeJoined, Widths DEF EncodedPacket, NameBytes
<1>5. Size(EncodedPacket.peer_left) = 17
  BY SizeOf1, SizeOfPeer, SizeJoined, Widths DEF EncodedPacket
<1>6. Size(EncodedPacket.ping) = 16 /\ Size(EncodedPacket.pong) = 24
  BY SizeOf2, SizeOf3, Widths DEF EncodedPacket
<1>7. Size(EncodedPacket.disconnect) = 98
  BY SizeOfText, SizeOf1, SizeJoined, Widths DEF EncodedPacket, DetailBytes
<1>8. Size(EncodedPacket.player_state) = 378
  BY SizeOfState DEF EncodedPacket
<1>9. Packets = {"client_hello", "server_welcome", "peer_joined", "spawn_metadata",
                 "peer_left", "ping", "pong", "disconnect", "player_state"}
  BY DEF Packets, EncodedPacket
<1>10. \A kind \in Packets : Size(EncodedPacket[kind]) \in Nat
                             /\ Size(EncodedPacket[kind]) <= 378
  BY <1>2, <1>3, <1>4, <1>5, <1>6, <1>7, <1>8, <1>9
<1>11. \A kind \in Packets : Carried(EncodedPacket[kind], DecodedPacket[kind])
  BY <1>1, <1>10 DEF Carried
<1> QED BY <1>11 DEF CarriedPackets

\* Induction over the naturals, for sets: the provers cannot instantiate the operator
\* in the library's theorem.
LEMMA NatOrdered ==
    ASSUME NEW m \in Nat, NEW n \in Nat, m < n
    PROVE  <<m, n>> \in OpToRel(<, Nat)
  BY DEF OpToRel

LEMMA ByInduction ==
    ASSUME NEW T, 0 \in T, \A n \in Nat : n \in T => n + 1 \in T
    PROVE  Nat \subseteq T
<1> SUFFICES ASSUME Nat \ T # {} PROVE FALSE
  OBVIOUS
<1>1. PICK x \in Nat \ T : \A y \in Nat \ T : ~ (<<y, x>> \in OpToRel(<, Nat))
  BY WFMin, NatLessThanWellFounded
<1>2. x \in Nat /\ x # 0 /\ x \notin T
  OBVIOUS
<1>3. x - 1 \in Nat /\ (x - 1) + 1 = x /\ x - 1 < x
  BY <1>2
<1>4. x - 1 \in Nat \ T
  BY <1>2, <1>3
<1> QED BY <1>1, <1>2, <1>3, <1>4, NatOrdered

\* f is n states one after another.
Flattened(f, n) ==
    f = [i \in 1..n |-> IF i = 1 THEN WriteState ELSE f[i - 1] \o WriteState]

LEMMA FlattenedExists ==
    ASSUME NEW n \in Nat
    PROVE  \E f : Flattened(f, n)
<1> DEFINE T == {k \in Nat : \E f : Flattened(f, k)}
<1>1. 0 \in T
  <2>1. Flattened([i \in 1..0 |-> WriteState], 0)
    BY DEF Flattened
  <2> QED BY <2>1
<1>2. ASSUME NEW k \in Nat, k \in T PROVE k + 1 \in T
  <2>1. PICK f : Flattened(f, k)
    BY <1>2
  <2> DEFINE g == [i \in 1..(k + 1) |->
                     IF i = k + 1 THEN IF i = 1 THEN WriteState ELSE f[k] \o WriteState
                                  ELSE f[i]]
  <2>2. \A i \in 1..k : g[i] = f[i]
    OBVIOUS
  <2>3. \A i \in 1..k : f[i] = IF i = 1 THEN WriteState ELSE f[i - 1] \o WriteState
    BY <2>1 DEF Flattened
  <2>4. \A i \in 1..(k + 1) : g[i] = IF i = 1 THEN WriteState ELSE g[i - 1] \o WriteState
    <3> TAKE i \in 1..(k + 1)
    <3>1. CASE i = k + 1
      BY <2>2, <3>1
    <3>2. CASE i # k + 1
      <4>1. i \in 1..k /\ (i # 1 => i - 1 \in 1..k)
        BY <3>2
      <4> HIDE DEF g
      <4> QED BY <2>2, <2>3, <4>1
    <3> QED BY <3>1, <3>2
  <2>5. Flattened(g, k + 1)
    <3>1. DOMAIN g = 1..(k + 1) /\ g = [i \in 1..(k + 1) |-> g[i]]
      OBVIOUS
    <3> HIDE DEF g
    <3> QED BY <2>4, <3>1 DEF Flattened
  <2> HIDE DEF g
  <2> QED BY <2>5
<1> HIDE DEF T
<1>3. n \in T
  BY <1>1, <1>2, ByInduction
<1> QED BY <1>3 DEF T

LEMMA SizeOfFlattened ==
    ASSUME NEW n \in Nat, NEW f, Flattened(f, n)
    PROVE  \A i \in 1..n : IsLayout(f[i]) /\ Size(f[i]) = 378 * i
<1> DEFINE T == {k \in Nat : k \in 1..n => IsLayout(f[k]) /\ Size(f[k]) = 378 * k}
<1>1. \A i \in 1..n : f[i] = IF i = 1 THEN WriteState ELSE f[i - 1] \o WriteState
  BY DEF Flattened
<1>2. 0 \in T
  OBVIOUS
<1>3. ASSUME NEW k \in Nat, k \in T PROVE k + 1 \in T
  <2>1. CASE k + 1 \notin 1..n
    BY <2>1
  <2>2. CASE k + 1 \in 1..n /\ k = 0
    BY <1>1, <2>2, SizeOfState
  <2>3. CASE k + 1 \in 1..n /\ k # 0
    <3>1. k \in 1..n /\ IsLayout(f[k]) /\ Size(f[k]) = 378 * k
      BY <1>3, <2>3
    <3>2. f[k + 1] = f[k] \o WriteState
      <4>1. k + 1 # 1 /\ (k + 1) - 1 = k
        BY <2>3
      <4> QED BY <1>1, <2>3, <4>1
    <3>3. IsLayout(f[k + 1]) /\ Size(f[k + 1]) = 378 * k + 378
      BY <3>1, <3>2, SizeJoined, SizeOfState
    <3> QED BY <3>3
  <2> QED BY <2>1, <2>2, <2>3
<1> HIDE DEF T
<1>4. Nat \subseteq T
  BY <1>2, <1>3, ByInduction
<1> QED BY <1>4 DEF T

\* n states take n times the bytes of one.
LEMMA SizeOfStates ==
    ASSUME NEW n \in Nat
    PROVE  IsLayout(States(WriteState, n)) /\ Size(States(WriteState, n)) = 378 * n
<1> DEFINE seqs == [i \in 1..n |-> WriteState]
<1>1. Len(seqs) = n
  OBVIOUS
<1>2. CASE n = 0
  <2>1. States(WriteState, n) = seqs
    BY <1>1, <1>2 DEF States, FlattenSeq
  <2>2. seqs = [i \in 1..0 |-> seqs[i]] /\ \A i \in 1..0 : seqs[i][2] = "u8"
    BY <1>2
  <2>3. IsLayout(seqs) /\ Size(seqs) = Width["u8"] * 0
    <3> HIDE DEF seqs
    <3> QED BY <2>2, SizeOfOne, Widths
  <2> QED BY <1>2, <2>1, <2>3, Widths
<1>3. CASE n # 0
  <2> DEFINE f == CHOOSE flatten : Flattened(flatten, n)
             h == CHOOSE flatten : flatten =
                    [i \in 1..Len(seqs) |->
                       IF i = 1 THEN seqs[i] ELSE flatten[i - 1] \o seqs[i]]
  <2>1. States(WriteState, n) = h[n]
    BY <1>1, <1>3 DEF States, FlattenSeq
  <2>2. h = f
    <3>1. ASSUME NEW flatten
          PROVE  [i \in 1..Len(seqs) |->
                    IF i = 1 THEN seqs[i] ELSE flatten[i - 1] \o seqs[i]]
                 = [i \in 1..n |->
                      IF i = 1 THEN WriteState ELSE flatten[i - 1] \o WriteState]
      BY <1>1
    <3> QED BY <3>1 DEF Flattened
  <2>3. Flattened(f, n)
    BY FlattenedExists
  <2> HIDE DEF f, h
  <2> QED BY <1>3, <2>1, <2>2, <2>3, SizeOfFlattened
<1> QED BY <1>2, <1>3

LEMMA SnapshotsAreCarried ==
    ASSUME HeaderSize \in Nat, MaxPacketSize \in Nat, MaxSnapshotPlayers \in Nat,
           HeaderSize + 54 + 378 * MaxSnapshotPlayers <= MaxPacketSize
    PROVE  CarriedSnapshots = 0..MaxSnapshotPlayers
<1>1. ASSUME NEW n \in 0..MaxSnapshotPlayers
      PROVE  Carried(EncodedSnapshot[n], DecodedSnapshot[n])
  <2> DEFINE before == Of("u64", <<"time">>) \o WriteEnvironment \o Of("u8", <<"count">>)
  <2>1. EncodedSnapshot[n] = before \o States(WriteState, n)
    BY DEF EncodedSnapshot
  <2>2. DecodedSnapshot[n] = EncodedSnapshot[n]
    BY ReadAsWritten DEF EncodedSnapshot, DecodedSnapshot
  <2>3. IsLayout(before) /\ Size(before) = 54
    BY SizeOf1, SizeOfEnvironment, SizeJoined, Widths
  <2>4. Size(EncodedSnapshot[n]) = 54 + 378 * n
    <3> HIDE DEF before
    <3> QED BY <2>1, <2>3, SizeOfStates, SizeJoined
  <2> QED BY <2>2, <2>4 DEF Carried
<1> QED BY <1>1 DEF CarriedSnapshots

\* No frame is longer than that of a sample, and every reader uses up its frame.
LEMMA FramesAreCarried ==
    ASSUME MaxPayload \in Nat, 378 <= MaxPayload
    PROVE  CarriedFrames = Frames
<1> DEFINE Fits(frame) == /\ frame.read = frame.write /\ Size(frame.write) = frame.size
                          /\ frame.size \in Nat /\ frame.size <= 378
<1>1. Fits(BridgeHello)
  BY SizeOfText, SizeOf1, SizeJoined, Widths DEF BridgeHello
<1>2. Fits(BridgeReady)
  BY SizeOf3, Widths DEF BridgeReady
<1>3. Fits(BridgeStatus)
  BY SizeOfText, SizeOf2, SizeJoined, Widths DEF BridgeStatus
<1>4. Fits(SetObserverMode) /\ Fits(EnterSafeMode)
  BY SizeOf1, Widths DEF SetObserverMode, EnterSafeMode
<1>5. Fits(PlayerSample)
  BY SizeOfSample, ReadAsWritten DEF PlayerSample, SampleSize
<1>6. Fits(SpawnRemote)
  BY SizeOfText, SizeOfPeer, SizeJoined DEF SpawnRemote
<1>7. Fits(DespawnRemote)
  BY SizeOfPeer DEF DespawnRemote
<1>8. Fits(Environment)
  BY SizeOf2, SizeOfEnvironment, ReadAsWritten, SizeJoined, Widths DEF Environment
<1> HIDE DEF Fits
<1>9. Frames = {"bridge_hello", "bridge_ready", "bridge_status", "local_sample",
                "spawn_remote", "remote_sample", "despawn_remote", "set_observer_mode",
                "enter_safe_mode", "environment"}
  BY DEF Frames, FrameLayouts
<1>10. \A kind \in Frames : Fits(FrameLayouts[kind])
  BY <1>1, <1>2, <1>3, <1>4, <1>5, <1>6, <1>7, <1>8, <1>9 DEF FrameLayouts
<1>11. \A kind \in Frames :
          FrameWritten(FrameLayouts[kind]) /\ FrameRead(FrameLayouts[kind])
  BY <1>10 DEF Fits, FrameWritten, FrameRead
<1>12. Reaching = Frames
  BY <1>9 DEF Reaching, ToBridge, BridgeReads, SidecarReads, FrameNumber
<1> QED BY <1>11, <1>12 DEF CarriedFrames

-----------------------------------------------------------------------------
(* Nobody but the sender's own side refuses anything.                      *)

\* What has left the sender is in bounds, by the strictest of those who look at it.
NothingRefused ==
    /\ refused = {}
    /\ latest # None => ~Refuses(latest)
    /\ \A s \in Range(down) : ~Refuses(s)

\* With the layouts of codec.cpp:389-396 and ipc/codec.cpp:456-465, a packet of 1200
\* bytes holds a snapshot of three states to the byte.  A state that passes the
\* encoders of its sender passes the decoders, the queue and the playback of every
\* receiver (network_adapter.cpp:544-601), after any losses and repetitions.
THEOREM StatesAreCarried ==
    ASSUME HeaderSize \in Nat, MaxPacketSize \in Nat, MaxPayload \in Nat,
           MaxSnapshotPlayers \in Nat \ {0},
           HeaderSize + 54 + 378 * MaxSnapshotPlayers <= MaxPacketSize,
           378 <= MaxPayload
    PROVE  StreamSpec => []StreamIsCarried
<1>1. CarriedPackets = Packets
  <2>1. HeaderSize + 378 <= MaxPacketSize
    OBVIOUS
  <2> QED BY <2>1, PacketsAreCarried
<1>2. CarriedSnapshots = 0..MaxSnapshotPlayers
  BY SnapshotsAreCarried
<1>3. CarriedFrames = Frames
  BY FramesAreCarried
<1>4. /\ "player_state" \in CarriedPackets
      /\ "local_sample" \in CarriedFrames /\ "remote_sample" \in CarriedFrames
  BY <1>1, <1>3 DEF Packets, EncodedPacket, Frames, FrameLayouts
<1>5. ASSUME NEW s, ~Objects(s) PROVE ~Refuses(s)
  BY <1>5 DEF Objects, Refuses, FrameObjectsTo, PacketObjectsTo, QueueObjectsTo,
              TimelineObjectsTo
<1>6. StreamInit => NothingRefused
  BY DEF StreamInit, NothingRefused, Range
<1>7. StreamInv /\ NothingRefused /\ [StreamNext]_vars => NothingRefused'
  <2> SUFFICES ASSUME StreamInv, NothingRefused, [StreamNext]_vars PROVE NothingRefused'
    OBVIOUS
  <2>1. down \in Seq(OnWire) /\ up \in OnWire \cup {None} /\ latest \in OnWire \cup {None}
    BY DEF StreamInv, StreamTyped
  <2>2. ASSUME NEW packet \in OnWire, ~Refuses(packet), down' = Append(down, packet)
        PROVE  \A s \in Range(down') : ~Refuses(s)
    <3>1. Range(down') = Range(down) \cup {packet}
      BY <2>1, <2>2 DEF Range
    <3> QED BY <2>2, <3>1 DEF NothingRefused
  <2>3. ASSUME down # <<>>, down' = Tail(down)
        PROVE  /\ ~Refuses(Head(down)) /\ \A s \in Range(down') : ~Refuses(s)
    <3>1. Range(down') \subseteq Range(down) /\ Head(down) \in Range(down)
      BY <2>1, <2>3 DEF Range
    <3> QED BY <3>1 DEF NothingRefused
  <2>4. CASE FanOut
    <3>1. ~Refuses(ToNetwork(up)) /\ ToNetwork(up) \in OnWire
      <4>1. up \in OnWire /\ ~Objects(up)
        BY <2>1, <2>4 DEF FanOut
      <4>2. ToNetwork(up) \in OnWire /\ ToNetwork(up).flaw = up.flaw
        BY <4>1 DEF ToNetwork, OnWire, State
      <4>3. ~Objects(ToNetwork(up))
        BY <4>1, <4>2 DEF Objects
      <4> QED BY <1>5, <4>2, <4>3
    <3>2. latest' = ToNetwork(up) /\ down' = Append(down, ToNetwork(up)) /\ refused' = refused
      BY <1>4, <2>4 DEF FanOut, Carry
    <3> QED BY <2>2, <3>1, <3>2 DEF NothingRefused
  <2>5. ASSUME NEW n \in 1..MaxSnapshotPlayers, Snapshot(n) PROVE NothingRefused'
    <3>1. n \in CarriedSnapshots
      BY <1>2
    <3>2. /\ latest # None /\ latest' = latest /\ refused' = refused
          /\ down' = Append(down, latest)
      BY <2>5, <3>1 DEF Snapshot, Carry
    <3> QED BY <2>1, <2>2, <3>2 DEF NothingRefused
  <2>6. CASE LoseDown
    BY <2>3, <2>6 DEF LoseDown, NothingRefused
  <2>7. CASE Exchange
    BY <1>1, <1>3, <2>7 DEF Exchange, NothingRefused, wire
  <2>8. CASE Receive
    <3>1. down # <<>> /\ down' = Tail(down) /\ latest' = latest
      BY <2>8 DEF Receive
    <3>2. refused' = refused
      BY <1>4, <2>3, <2>8, <3>1 DEF Receive
    <3> QED BY <2>3, <3>1, <3>2 DEF NothingRefused
  <2>9. ASSUME UNCHANGED <<latest, down, refused>> PROVE NothingRefused'
    BY <2>9 DEF NothingRefused
  <2>10. CASE Tick
    BY <2>9, <2>10 DEF Tick, wire
  <2>11. ASSUME NEW r \in Room, NEW teleport \in BOOLEAN, NEW flaw \in Flaw,
                Publish(r, teleport, flaw)
         PROVE  NothingRefused'
    BY <2>9, <2>11 DEF Publish, Published, wire
  <2>12. CASE PublishHidden \/ StopsItself \/ LoseUp \/ \E r \in Room : Unpublished(r)
    BY <2>9, <2>12 DEF PublishHidden, StopsItself, LoseUp, Unpublished, Published, wire
  <2>13. CASE Apply \/ Frame
    BY <2>9, <2>13 DEF Apply, Frame, wire
  <2>14. CASE UNCHANGED vars
    BY <2>9, <2>14 DEF vars, wire
  <2> QED BY <2>4, <2>5, <2>6, <2>7, <2>8, <2>10, <2>11, <2>12, <2>13, <2>14 DEF StreamNext
<1>8. NothingRefused => StreamIsCarried
  BY DEF NothingRefused, StreamIsCarried
<1> QED BY <1>6, <1>7, <1>8, StreamIsTyped, PTL DEF StreamSpec
=============================================================================
