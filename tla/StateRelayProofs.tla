-------------------------- MODULE StateRelayProofs --------------------------
(***************************************************************************)
(* Theorems about the coordinator's traffic in player states, for every    *)
(* number of connections and players, every rate limit and window, every   *)
(* range of sequence numbers and every packet size.                        *)
(*                                                                         *)
(* The invariant has five parts: types; the members' ids; the times of     *)
(* accepted states, of which RateLimit + 1 in a row span a window or more  *)
(* (RatesOK); that what is kept or on its way was sent by the player it is *)
(* about (TruthOK); and that each channel carries a player's states in the *)
(* order of their sequence numbers, up to the one that is kept (FeedsOK).  *)
(***************************************************************************)
EXTENDS StateRelay, FiniteSetTheorems, SequenceTheorems, TLAPS

-----------------------------------------------------------------------------
LEMMA Counting ==
  ASSUME NEW n \in Nat
  PROVE  IsFiniteSet(1..n) /\ Cardinality(1..n) = n
<1>1. /\ IsFiniteSet(1..n)
      /\ Cardinality(1..n) = IF 1 > n THEN 0 ELSE n - 1 + 1
  BY FS_Interval
<1> QED
  BY <1>1

(* A snapshot.  A state's place is its rank by player id.                  *)
Place(S, s) == Cardinality({t \in S : t.pid <= s.pid})

PacketOf(S, s) == (Place(S, s) + ChunkSize - 1) \div ChunkSize

PacketsOf(S) ==
  IF S = {} THEN 1 ELSE (Cardinality(S) + ChunkSize - 1) \div ChunkSize

OnePerPlayer(S) ==
  /\ S \subseteq State
  /\ IsFiniteSet(S)
  /\ \A s, t \in S : s.pid = t.pid => s = t

(* Rounding up: k is a / n rounded up if a lies in the k-th run of n.      *)
LEMMA Ceiling ==
  ASSUME NEW a \in Nat, NEW n \in Nat \ {0}
  PROVE  /\ (a + n - 1) \div n \in Nat
         /\ a <= n * ((a + n - 1) \div n)
         /\ n * ((a + n - 1) \div n) <= a + n - 1
         /\ a > 0 => (a + n - 1) \div n > 0
<1> DEFINE b == a + n - 1
           q == b \div n
<1>1. b \in Nat /\ n \in Nat /\ n > 0
  OBVIOUS
<1>2. q \in Nat /\ n * q <= b /\ b < n * q + n
  <2> HIDE DEF b
  <2> QED
    BY <1>1
<1>3. a > 0 => q > 0
  <2> SUFFICES ASSUME a > 0, q = 0
               PROVE  FALSE
    BY <1>2
  <2>1. n * q = 0
    OBVIOUS
  <2> QED
    BY <1>2, <2>1
<1>4. a <= n * q
  <2>1. n * q \in Nat
    BY <1>2
  <2> QED
    BY <1>2, <2>1
<1> QED
  BY <1>2, <1>3, <1>4

(* The k-th run of n numbers is rounded up to k.                           *)
LEMMA CeilingOfRun ==
  ASSUME NEW a \in Nat, NEW n \in Nat \ {0}, NEW k \in Nat,
         n * k < a, a <= n * k + n
  PROVE  (a + n - 1) \div n = k + 1
<1> DEFINE b == a + n - 1
           q == b \div n
<1>1. b \in Nat /\ n \in Nat /\ n > 0 /\ n * k \in Nat
  OBVIOUS
<1>2. n * (k + 1) = n * k + n
  OBVIOUS
<1>3. n * (k + 1) <= b /\ b < n * (k + 1) + n
  BY <1>1, <1>2
<1> HIDE DEF b
<1> QED
  BY <1>1, <1>3

LEMMA PlaceGrows ==
  ASSUME NEW S, OnePerPlayer(S), NEW s \in S
  PROVE  /\ Place(S, s) \in 1..Cardinality(S)
         /\ \A t \in S : t.pid < s.pid => Place(S, t) < Place(S, s)
<1> DEFINE upTo(t) == {u \in S : u.pid <= t.pid}
<1>1. /\ IsFiniteSet(S) /\ Cardinality(S) \in Nat
      /\ \A t \in S : t.pid \in Nat
  BY FS_CardinalityType DEF OnePerPlayer, State
<1>2. ASSUME NEW t \in S
      PROVE  /\ IsFiniteSet(upTo(t)) /\ Cardinality(upTo(t)) \in Nat
             /\ Cardinality(upTo(t)) <= Cardinality(S)
             /\ Cardinality(upTo(t)) # 0
             /\ Place(S, t) = Cardinality(upTo(t))
  <2>1. upTo(t) \in SUBSET S /\ t \in upTo(t)
    BY <1>1
  <2>2. /\ IsFiniteSet(upTo(t))
        /\ Cardinality(upTo(t)) <= Cardinality(S)
    BY <1>1, <2>1, FS_Subset
  <2>3. Place(S, t) = Cardinality(upTo(t))
    BY DEF Place
  <2> HIDE DEF upTo
  <2> QED
    BY <2>1, <2>2, <2>3, FS_CardinalityType, FS_EmptySet
<1>3. ASSUME NEW t \in S, t.pid < s.pid
      PROVE  Place(S, t) < Place(S, s)
  <2>1. upTo(t) \in SUBSET upTo(s)
    BY <1>1, <1>3
  <2>2. s \in upTo(s) /\ s \notin upTo(t)
    BY <1>1, <1>3
  <2>3. /\ Cardinality(upTo(t)) <= Cardinality(upTo(s))
        /\ Cardinality(upTo(t)) # Cardinality(upTo(s))
    <3> HIDE DEF upTo
    <3> QED
      BY <1>2, <2>1, <2>2, FS_Subset
  <2>4. /\ Cardinality(upTo(t)) \in Nat /\ Cardinality(upTo(s)) \in Nat
        /\ Place(S, t) = Cardinality(upTo(t))
        /\ Place(S, s) = Cardinality(upTo(s))
    BY <1>2
  <2> QED
    BY <2>3, <2>4
<1>4. /\ Place(S, s) \in Nat /\ Place(S, s) # 0
      /\ Place(S, s) <= Cardinality(S)
  <2> HIDE DEF upTo
  <2> QED
    BY <1>2
<1> QED
  BY <1>1, <1>3, <1>4

LEMMA PlaceOneToOne ==
  ASSUME NEW S, OnePerPlayer(S)
  PROVE  /\ [s \in S |-> Place(S, s)] \in Injection(S, 1..Cardinality(S))
         /\ \A n \in 1..Cardinality(S) : \E s \in S : Place(S, s) = n
<1> DEFINE f == [s \in S |-> Place(S, s)]
<1>1. /\ IsFiniteSet(S) /\ Cardinality(S) \in Nat
      /\ \A t \in S : t.pid \in Nat
  BY FS_CardinalityType DEF OnePerPlayer, State
<1>2. \A s, t \in S : Place(S, s) = Place(S, t) => s = t
  <2> SUFFICES ASSUME NEW s \in S, NEW t \in S, Place(S, s) = Place(S, t)
               PROVE  s = t
    OBVIOUS
  <2>1. Place(S, s) \in Nat /\ Place(S, t) \in Nat
    BY PlaceGrows
  <2>2. ~(s.pid < t.pid) /\ ~(t.pid < s.pid)
    BY <2>1, PlaceGrows
  <2> QED
    BY <1>1, <2>2 DEF OnePerPlayer
<1>3. \A s \in S : Place(S, s) \in 1..Cardinality(S)
  BY PlaceGrows
<1>4. f \in Injection(S, 1..Cardinality(S))
  BY <1>2, <1>3 DEF Injection, IsInjective
<1>5. /\ IsFiniteSet(1..Cardinality(S))
      /\ Cardinality(1..Cardinality(S)) = Cardinality(S)
  BY <1>1, Counting
<1>6. f \in Surjection(S, 1..Cardinality(S))
  BY <1>4, <1>5, FS_Injection
<1>7. \A n \in 1..Cardinality(S) : \E s \in S : f[s] = n
  BY <1>6 DEF Surjection
<1> QED
  BY <1>4, <1>7

(* What the packets are.                                                   *)
LEMMA ChunksAre ==
  ASSUME NEW S, OnePerPlayer(S)
  PROVE  /\ Chunks(S) \in Seq(SUBSET S) /\ Len(Chunks(S)) = PacketsOf(S)
         /\ PacketsOf(S) \in Nat /\ PacketsOf(S) > 0
         /\ \A k \in 1..PacketsOf(S) :
              Chunks(S)[k] = {s \in S : PacketOf(S, s) = k}
<1> DEFINE chunk(k) == {s \in S : PacketOf(S, s) = k}
<1>1. /\ Cardinality(S) \in Nat
      /\ S # {} => Cardinality(S) > 0
  BY FS_CardinalityType, FS_EmptySet DEF OnePerPlayer
<1>2. PacketsOf(S) \in Nat /\ PacketsOf(S) > 0
  <2>1. CASE S = {}
    BY <2>1 DEF PacketsOf
  <2>2. CASE S # {}
    BY <1>1, <2>2, Ceiling, SessionAssumption DEF PacketsOf
  <2> QED
    BY <2>1, <2>2
<1>3. Chunks(S) = [k \in 1..PacketsOf(S) |-> chunk(k)]
  BY DEF Chunks, PacketsOf, PacketOf, Place
<1>4. \A k \in 1..PacketsOf(S) : chunk(k) \in SUBSET S
  OBVIOUS
<1> HIDE DEF chunk
<1>5. Chunks(S) \in Seq(SUBSET S) /\ Len(Chunks(S)) = PacketsOf(S)
  <2>1. [k \in 1..PacketsOf(S) |-> chunk(k)] \in Seq(SUBSET S)
    BY <1>2, <1>4, IsASeq
  <2>2. Len([k \in 1..PacketsOf(S) |-> chunk(k)]) = PacketsOf(S)
    BY <1>2
  <2> QED
    BY <1>3, <2>1, <2>2
<1>6. \A k \in 1..PacketsOf(S) : Chunks(S)[k] = chunk(k)
  BY <1>3
<1> QED
  BY <1>2, <1>5, <1>6 DEF chunk

(* The packets of a snapshot of any set of states, one of each player.     *)
LEMMA ChunksComplete ==
  ASSUME NEW S, OnePerPlayer(S)
  PROVE  LET chunks == Chunks(S)
         IN /\ UNION {chunks[k] : k \in 1..Len(chunks)} = S
            /\ \A k, l \in 1..Len(chunks) : k # l => chunks[k] \cap chunks[l] = {}
            /\ \A k \in 1..Len(chunks) : Cardinality(chunks[k]) <= ChunkSize
            /\ \A k \in 1..Len(chunks) : chunks[k] = {} => S = {} /\ Len(chunks) = 1
<1> DEFINE chunks == Chunks(S)
           n == Cardinality(S)
<1>1. /\ chunks \in Seq(SUBSET S) /\ Len(chunks) = PacketsOf(S)
      /\ PacketsOf(S) \in Nat
      /\ \A k \in 1..Len(chunks) : chunks[k] = {s \in S : PacketOf(S, s) = k}
  <2>1. /\ chunks \in Seq(SUBSET S) /\ Len(chunks) = PacketsOf(S)
        /\ PacketsOf(S) \in Nat
    BY ChunksAre
  <2>2. \A k \in 1..PacketsOf(S) : chunks[k] = {s \in S : PacketOf(S, s) = k}
    BY ChunksAre
  <2> HIDE DEF chunks
  <2> QED
    BY <2>1, <2>2
<1>2. /\ IsFiniteSet(S) /\ n \in Nat /\ ChunkSize \in Nat \ {0}
      /\ S # {} => n > 0
  BY FS_CardinalityType, FS_EmptySet, SessionAssumption DEF OnePerPlayer
<1>3. \A s \in S : Place(S, s) \in 1..n
  BY PlaceGrows
<1>4. \A s \in S :
        /\ PacketOf(S, s) \in Nat /\ PacketOf(S, s) > 0
        /\ Place(S, s) <= ChunkSize * PacketOf(S, s)
        /\ ChunkSize * PacketOf(S, s) <= Place(S, s) + ChunkSize - 1
  <2> SUFFICES ASSUME NEW s \in S
               PROVE  /\ PacketOf(S, s) \in Nat /\ PacketOf(S, s) > 0
                      /\ Place(S, s) <= ChunkSize * PacketOf(S, s)
                      /\ ChunkSize * PacketOf(S, s) <= Place(S, s) + ChunkSize - 1
    OBVIOUS
  <2>1. Place(S, s) \in Nat /\ Place(S, s) > 0
    BY <1>2, <1>3
  <2> QED
    BY <1>2, <2>1, Ceiling DEF PacketOf
<1>5. S # {} => /\ PacketsOf(S) \in Nat /\ n <= ChunkSize * PacketsOf(S)
                /\ ChunkSize * PacketsOf(S) <= n + ChunkSize - 1
  BY <1>2, Ceiling DEF PacketsOf
<1>6. \A s \in S : PacketOf(S, s) \in 1..Len(chunks)
  <2> SUFFICES ASSUME NEW s \in S
               PROVE  PacketOf(S, s) <= PacketsOf(S)
    BY <1>1, <1>4
  <2>1. ChunkSize * PacketOf(S, s) <= n + ChunkSize - 1
    BY <1>2, <1>3, <1>4
  <2>2. ChunkSize * PacketOf(S, s) < ChunkSize * PacketsOf(S) + ChunkSize
    <3>1. ChunkSize * PacketOf(S, s) \in Nat /\ ChunkSize * PacketsOf(S) \in Nat
      BY <1>1, <1>2, <1>4
    <3> QED
      BY <1>2, <1>5, <2>1, <3>1
  <2>3. ASSUME PacketOf(S, s) > PacketsOf(S)
        PROVE  FALSE
    <3>1. PICK d \in Nat : PacketOf(S, s) = PacketsOf(S) + 1 + d
      <4>1. PacketOf(S, s) - PacketsOf(S) - 1 \in Nat
        BY <1>1, <1>4, <2>3
      <4>2. PacketOf(S, s) = PacketsOf(S) + 1 + (PacketOf(S, s) - PacketsOf(S) - 1)
        BY <1>1, <1>4
      <4> QED
        BY <4>1, <4>2
    <3>2. ChunkSize * (PacketsOf(S) + 1 + d)
            = ChunkSize * PacketsOf(S) + ChunkSize + ChunkSize * d
      BY <1>1, <1>2
    <3>3. ChunkSize * d \in Nat /\ ChunkSize * PacketsOf(S) \in Nat
      BY <1>1, <1>2
    <3> QED
      BY <1>2, <2>2, <3>1, <3>2, <3>3
  <2> QED
    BY <1>1, <1>4, <2>3
<1>7. UNION {chunks[k] : k \in 1..Len(chunks)} = S
  <2> HIDE DEF chunks
  <2>1. \A k \in 1..Len(chunks) : chunks[k] \subseteq S
    BY <1>1
  <2>2. \A s \in S : s \in chunks[PacketOf(S, s)]
    BY <1>1, <1>6
  <2> QED
    BY <1>6, <2>1, <2>2
<1>8. \A k, l \in 1..Len(chunks) : k # l => chunks[k] \cap chunks[l] = {}
  <2> HIDE DEF chunks
  <2> QED
    BY <1>1
<1>9. ASSUME NEW k \in 1..Len(chunks)
      PROVE  Cardinality(chunks[k]) <= ChunkSize
  <2> DEFINE first == ChunkSize * (k - 1) + 1
             run == first..(first + ChunkSize - 1)
             f == [s \in chunks[k] |-> Place(S, s)]
  <2>1. k \in Nat /\ k - 1 \in Nat /\ first \in Nat
        /\ ChunkSize * k = ChunkSize * (k - 1) + ChunkSize
    BY <1>1, <1>2
  <2>2. chunks[k] \subseteq S /\ \A s \in chunks[k] : PacketOf(S, s) = k
    BY <1>1
  <2>3. ASSUME NEW s \in chunks[k]
        PROVE  Place(S, s) \in run
    <3>1. /\ Place(S, s) \in Nat /\ ChunkSize * k \in Nat
          /\ Place(S, s) <= ChunkSize * k
          /\ ChunkSize * k <= Place(S, s) + ChunkSize - 1
      <4> HIDE DEF chunks
      <4> QED
        BY <1>2, <1>3, <1>4, <2>1, <2>2
    <3> QED
      BY <1>2, <2>1, <3>1
  <2>4. \A s, t \in S : Place(S, s) = Place(S, t) => s = t
    BY PlaceOneToOne DEF Injection, IsInjective
  <2>5. f \in Injection(chunks[k], run)
    <3> HIDE DEF chunks, run
    <3> QED
      BY <2>2, <2>3, <2>4 DEF Injection, IsInjective
  <2>6. IsFiniteSet(run) /\ Cardinality(run) = ChunkSize
    <3>1. first \in Int /\ first + ChunkSize - 1 \in Int
      BY <1>2, <2>1
    <3>2. ~(first > first + ChunkSize - 1)
          /\ (first + ChunkSize - 1) - first + 1 = ChunkSize
      BY <1>2, <2>1
    <3> HIDE DEF first
    <3> QED
      BY <3>1, <3>2, FS_Interval
  <2> HIDE DEF run, chunks, f
  <2> QED
    BY <2>5, <2>6, FS_Injection
<1>10. ASSUME NEW k \in 1..Len(chunks), chunks[k] = {}
       PROVE  S = {} /\ Len(chunks) = 1
  <2>1. CASE S # {}
    <3>1. k - 1 \in Nat /\ k \in Nat /\ k <= PacketsOf(S)
      BY <1>1
    <3>2. ChunkSize * (k - 1) + 1 \in 1..n
      <4>1. PICK d \in Nat : PacketsOf(S) = k + d
        <5>1. PacketsOf(S) - k \in Nat /\ PacketsOf(S) = k + (PacketsOf(S) - k)
          BY <1>1, <3>1
        <5> QED
          BY <5>1
      <4>2. /\ ChunkSize * PacketsOf(S) =
                 ChunkSize * (k - 1) + ChunkSize + ChunkSize * d
            /\ ChunkSize * d \in Nat /\ ChunkSize * (k - 1) \in Nat
        BY <1>2, <3>1, <4>1
      <4> QED
        BY <1>2, <1>5, <2>1, <4>2
    <3>3. PICK s \in S : Place(S, s) = ChunkSize * (k - 1) + 1
      BY <3>2, PlaceOneToOne
    <3>4. PacketOf(S, s) = (k - 1) + 1
      <4>1. /\ Place(S, s) \in Nat
            /\ ChunkSize * (k - 1) < Place(S, s)
            /\ Place(S, s) <= ChunkSize * (k - 1) + ChunkSize
        <5>1. ChunkSize * (k - 1) \in Nat
          BY <1>2, <3>1
        <5> QED
          BY <1>2, <3>3, <5>1
      <4> QED
        BY <1>2, <3>1, <4>1, CeilingOfRun DEF PacketOf
    <3>5. s \in chunks[k]
      <4>1. (k - 1) + 1 = k
        BY <3>1
      <4> HIDE DEF chunks
      <4> QED
        BY <1>1, <3>4, <4>1
    <3> QED
      BY <1>10, <3>5
  <2>2. S = {} => Len(chunks) = 1
    BY <1>1 DEF PacketsOf
  <2> QED
    BY <2>1, <2>2
<1> QED
  BY <1>7, <1>8, <1>9, <1>10

-----------------------------------------------------------------------------
(* The rate limit.                                                         *)

(* What the window has left is taken from the front.                       *)
LEMMA RecentIsSuffix ==
  ASSUME now \in Nat, NEW times \in Seq(Nat)
  PROVE  \E e \in 0..Len(times) :
           /\ Recent(times) \in Seq(Nat)
           /\ Len(Recent(times)) = Len(times) - e
           /\ \A i \in 1..(Len(times) - e) : Recent(times)[i] = times[e + i]
           /\ \A j \in 1..e : now - times[j] >= Window
<1> DEFINE n == Len(times)
           E == {i \in 1..n : \A j \in 1..i : now - times[j] >= Window}
           e == Cardinality(E)
<1>1. n \in Nat
  BY LenProperties
<1>2. /\ IsFiniteSet(1..n) /\ Cardinality(1..n) = n
  BY <1>1, Counting
<1>3. /\ IsFiniteSet(E) /\ e \in Nat /\ e <= n
  <2>1. E \in SUBSET (1..n)
    OBVIOUS
  <2> HIDE DEF E
  <2> QED
    BY <1>2, <2>1, FS_Subset, FS_CardinalityType
<1>4. \A j \in 1..e : j \in E
  <2> SUFFICES ASSUME NEW j \in 1..e, j \notin E
               PROVE  FALSE
    OBVIOUS
  <2>1. j \in 1..n /\ j \in Nat /\ j - 1 \in Nat
    BY <1>1, <1>3
  <2>2. E \in SUBSET (1..(j - 1))
    <3>1. \A i \in E : ~(j <= i)
      <4> SUFFICES ASSUME NEW i \in E, j <= i
                   PROVE  FALSE
        OBVIOUS
      <4>1. i \in 1..n /\ \A l \in 1..i : now - times[l] >= Window
        OBVIOUS
      <4>2. \A l \in 1..j : l \in 1..i
        BY <2>1, <4>1
      <4> QED
        BY <2>1, <4>1, <4>2
    <3> QED
      BY <1>1, <2>1, <3>1
  <2>3. IsFiniteSet(1..(j - 1)) /\ Cardinality(1..(j - 1)) = j - 1
    BY <2>1, Counting
  <2>4. e <= j - 1
    <3> HIDE DEF E
    <3> QED
      BY <2>2, <2>3, FS_Subset
  <2> HIDE DEF e
  <2> QED
    BY <1>3, <2>4
<1>5. ASSUME NEW j \in 1..e
      PROVE  now - times[j] >= Window
  <2>1. j \in E /\ j \in 1..j
    BY <1>3, <1>4
  <2> QED
    BY <2>1
<1>6. Recent(times) = SubSeq(times, e + 1, n)
  BY DEF Recent
<1> HIDE DEF e, E, n
<1>7. /\ SubSeq(times, e + 1, n) \in Seq(Nat)
      /\ Len(SubSeq(times, e + 1, n)) = n - e
      /\ \A i \in 1..(n - e) : SubSeq(times, e + 1, n)[i] = times[e + i]
  <2>1. \A i \in (e + 1)..n : times[i] \in Nat
    BY <1>1, <1>3, ElementOfSeq DEF n
  <2>2. /\ SubSeq(times, e + 1, n) \in Seq(Nat)
        /\ Len(SubSeq(times, e + 1, n)) =
             IF e + 1 <= n THEN n - (e + 1) + 1 ELSE 0
        /\ \A i \in 1..(n - (e + 1) + 1) :
             SubSeq(times, e + 1, n)[i] = times[(e + 1) + i - 1]
    BY <1>1, <1>3, <2>1, SubSeqProperties
  <2>3. n - (e + 1) + 1 = n - e
    BY <1>1, <1>3
  <2>4. Len(SubSeq(times, e + 1, n)) = n - e
    BY <1>1, <1>3, <2>2
  <2>5. ASSUME NEW i \in 1..(n - e)
        PROVE  SubSeq(times, e + 1, n)[i] = times[e + i]
    <3>1. (e + 1) + i - 1 = e + i
      BY <1>1, <1>3
    <3> QED
      BY <2>2, <2>3, <2>5, <3>1
  <2> QED
    BY <2>2, <2>4, <2>5
<1>8. e \in 0..n
  BY <1>1, <1>3
<1> QED
  BY <1>5, <1>6, <1>7, <1>8 DEF n

(* What is remembered of a connection's accepted states, and the times the *)
(* session keeps of them: the session's times are the last ones, whatever  *)
(* it dropped had left the window, and RateLimit + 1 in a row never fit in *)
(* a window.                                                               *)
Spaced(acc) ==
  /\ acc \in Seq(Nat)
  /\ Len(acc) <= RateLimit + 1
  /\ \A i \in 1..Len(acc) :
       i + RateLimit <= Len(acc) => acc[i + RateLimit] - acc[i] >= Window

Rated(times, acc) ==
  /\ times \in Seq(Nat)
  /\ Len(times) <= Len(acc)
  /\ \A i \in 1..Len(times) : times[i] = acc[Len(acc) - Len(times) + i]
  /\ \A k \in 1..(Len(acc) - Len(times)) : now - acc[k] >= Window

LEMMA RatedRecent ==
  ASSUME now \in Nat, NEW times, NEW acc \in Seq(Nat), Rated(times, acc)
  PROVE  Rated(Recent(times), acc)
<1> DEFINE n == Len(times)
           m == Len(acc)
           r == Recent(times)
<1>1. times \in Seq(Nat) /\ n \in Nat /\ m \in Nat /\ n <= m
  BY LenProperties DEF Rated
<1>2. PICK e \in 0..n : /\ r \in Seq(Nat) /\ Len(r) = n - e
                        /\ \A i \in 1..(n - e) : r[i] = times[e + i]
                        /\ \A j \in 1..e : now - times[j] >= Window
  BY <1>1, RecentIsSuffix
<1>3. /\ \A i \in 1..n : times[i] = acc[m - n + i]
      /\ \A k \in 1..(m - n) : now - acc[k] >= Window
  BY DEF Rated
<1> HIDE DEF n, m, r
<1>4. ASSUME NEW i \in 1..Len(r)
      PROVE  r[i] = acc[m - Len(r) + i]
  <2>1. i \in 1..(n - e) /\ e + i \in 1..n /\ m - n + (e + i) = m - Len(r) + i
    BY <1>1, <1>2
  <2> QED
    BY <1>2, <1>3, <2>1
<1>5. ASSUME NEW k \in 1..(m - Len(r))
      PROVE  now - acc[k] >= Window
  <2>1. CASE k <= m - n
    BY <1>1, <1>3, <2>1
  <2>2. CASE k > m - n
    <3>1. k - (m - n) \in 1..e /\ k - (m - n) \in 1..n /\ m - n + (k - (m - n)) = k
      BY <1>1, <1>2, <2>2
    <3>2. times[k - (m - n)] = acc[k]
      BY <1>3, <3>1
    <3> QED
      BY <1>2, <3>1, <3>2
  <2> QED
    BY <1>1, <1>2, <2>1, <2>2
<1>6. Len(r) <= m
  BY <1>1, <1>2
<1> QED
  BY <1>2, <1>4, <1>5, <1>6 DEF Rated, r, m

(* One more state is accepted while fewer than RateLimit are recent.       *)
LEMMA RatedAccept ==
  ASSUME now \in Nat, NEW r, NEW acc, Spaced(acc), Rated(r, acc),
         Len(r) < RateLimit
  PROVE  /\ Spaced(LastOnes(Append(acc, now)))
         /\ Rated(Append(r, now), LastOnes(Append(acc, now)))
<1> DEFINE longer == Append(acc, now)
           last == LastOnes(longer)
           s == Append(r, now)
           n == Len(r)
           m == Len(acc)
           cut == IF m <= RateLimit THEN 0 ELSE 1
<1>1. /\ r \in Seq(Nat) /\ acc \in Seq(Nat) /\ n \in Nat /\ m \in Nat
      /\ n <= m /\ m <= RateLimit + 1 /\ n < RateLimit
      /\ RateLimit \in Nat /\ Window \in Nat
  BY LenProperties, SessionAssumption DEF Rated, Spaced
<1>2. /\ \A i \in 1..n : r[i] = acc[m - n + i]
      /\ \A k \in 1..(m - n) : now - acc[k] >= Window
  BY DEF Rated
<1>3. /\ longer \in Seq(Nat) /\ Len(longer) = m + 1
      /\ \A i \in 1..m : longer[i] = acc[i]
      /\ longer[m + 1] = now
      /\ s \in Seq(Nat) /\ Len(s) = n + 1
      /\ \A i \in 1..n : s[i] = r[i]
      /\ s[n + 1] = now
  BY <1>1, AppendProperties
<1> HIDE DEF longer, s
<1>4. /\ last \in Seq(Nat) /\ Len(last) = m + 1 - cut
      /\ \A i \in 1..(m + 1 - cut) : last[i] = longer[i + cut]
  <2>1. CASE m <= RateLimit
    <3>1. last = longer /\ cut = 0
      BY <1>1, <1>3, <2>1 DEF LastOnes
    <3> HIDE DEF last, cut
    <3> QED
      BY <1>1, <1>3, <3>1
  <2>2. CASE m > RateLimit
    <3>1. m = RateLimit + 1 /\ cut = 1
      BY <1>1, <2>2
    <3> DEFINE j == Len(longer)
    <3>2. j = m + 1 /\ j \in Int /\ j - RateLimit = 2 /\ ~(j <= RateLimit + 1)
      BY <1>1, <1>3, <3>1
    <3>3. last = SubSeq(longer, j - RateLimit, j)
      BY <3>2 DEF LastOnes
    <3> HIDE DEF last, j
    <3>4. \A i \in 2..j : longer[i] \in Nat
      <4>1. \A i \in 2..j : i \in 1..Len(longer)
        BY <3>2 DEF j
      <4> QED
        BY <1>3, <4>1, ElementOfSeq
    <3>5. /\ last \in Seq(Nat)
          /\ Len(last) = IF 2 <= j THEN j - 2 + 1 ELSE 0
          /\ \A i \in 1..(j - 2 + 1) : last[i] = longer[2 + i - 1]
      <4>1. last = SubSeq(longer, 2, j) /\ 2 \in Int
        BY <3>2, <3>3
      <4> QED
        BY <3>2, <3>4, <4>1, SubSeqProperties
    <3> HIDE DEF cut
    <3>6. \A i \in 1..m : last[i] = longer[i + 1]
      <4> SUFFICES ASSUME NEW i \in 1..m
                   PROVE  last[i] = longer[i + 1]
        OBVIOUS
      <4>1. i \in 1..(j - 2 + 1) /\ 2 + i - 1 = i + 1
        BY <1>1, <3>2
      <4> QED
        BY <3>5, <4>1
    <3>7. Len(last) = m
      BY <1>1, <3>1, <3>2, <3>5
    <3>8. m + 1 - cut = m
      BY <1>1, <3>1
    <3> HIDE DEF m
    <3> QED
      BY <3>1, <3>5, <3>6, <3>7, <3>8
  <2> QED
    BY <1>1, <2>1, <2>2
<1>5. cut \in 0..1 /\ (cut = 0 => m <= RateLimit) /\ (cut = 1 => m = RateLimit + 1)
  BY <1>1
<1> HIDE DEF last, cut, m, n
<1>6. Spaced(last)
  <2>1. Len(last) <= RateLimit + 1
    BY <1>1, <1>4, <1>5
  <2>2. ASSUME NEW i \in 1..Len(last), i + RateLimit <= Len(last)
        PROVE  last[i + RateLimit] - last[i] >= Window
    <3>1. /\ i = 1 /\ i + cut \in 1..m /\ i + RateLimit + cut = m + 1
          /\ i + cut \in 1..(m - n) /\ i + RateLimit \in 1..(m + 1 - cut)
          /\ i \in 1..(m + 1 - cut)
      BY <1>1, <1>4, <1>5, <2>1, <2>2, SessionAssumption
    <3>2. last[i + RateLimit] = now /\ last[i] = acc[i + cut]
      BY <1>3, <1>4, <3>1
    <3> QED
      BY <1>2, <3>1, <3>2
  <2> QED
    BY <1>4, <2>1, <2>2 DEF Spaced
<1>7. Rated(s, last)
  <2>1. Len(s) <= Len(last)
    BY <1>1, <1>3, <1>4, <1>5
  <2>2. ASSUME NEW i \in 1..Len(s)
        PROVE  s[i] = last[Len(last) - Len(s) + i]
    <3> DEFINE k == Len(last) - Len(s) + i
    <3>1. k \in 1..(m + 1 - cut) /\ k + cut = m - n + i
      BY <1>1, <1>3, <1>4, <1>5
    <3>2. last[k] = longer[m - n + i]
      <4> HIDE DEF k
      <4> QED
        BY <1>4, <3>1
    <3>3. CASE i = n + 1
      <4>1. m - n + i = m + 1
        BY <1>1, <3>3
      <4> QED
        BY <1>3, <3>2, <3>3, <4>1
    <3>4. CASE i \in 1..n
      <4>1. m - n + i \in 1..m
        BY <1>1, <3>4
      <4> QED
        BY <1>2, <1>3, <3>2, <3>4, <4>1
    <3> QED
      BY <1>1, <1>3, <3>3, <3>4
  <2>3. ASSUME NEW k \in 1..(Len(last) - Len(s))
        PROVE  now - last[k] >= Window
    <3>1. k \in 1..(m + 1 - cut) /\ k + cut \in 1..(m - n) /\ k + cut \in 1..m
      BY <1>1, <1>3, <1>4, <1>5
    <3>2. last[k] = acc[k + cut]
      BY <1>3, <1>4, <3>1
    <3> QED
      BY <1>2, <3>1, <3>2
  <2> QED
    BY <1>3, <2>1, <2>2, <2>3 DEF Rated
<1> QED
  BY <1>6, <1>7 DEF last, longer, s

-----------------------------------------------------------------------------
(* The feeds.                                                              *)

(* What FeedOrdered says of one player on one channel.                     *)
Follows(m, a, b) ==
  \/ a = b /\ m.type = "snapshot"
  \/ SeqNewer(b.seq, a.seq)

Ordered(q, pid) ==
  \A i, j \in 1..Len(q) :
    /\ i < j /\ About(q[i], pid) # {} /\ About(q[j], pid) # {}
    /\ \A k \in (i + 1)..(j - 1) : About(q[k], pid) = {}
    => \A a \in About(q[i], pid), b \in About(q[j], pid) : Follows(q[j], a, b)

(* The last datagram about a player carries the state st.                  *)
IsLast(q, pid, i) ==
  /\ About(q[i], pid) # {}
  /\ \A k \in (i + 1)..Len(q) : About(q[k], pid) = {}

LastIs(q, pid, st) ==
  \A i \in 1..Len(q) : IsLast(q, pid, i) => About(q[i], pid) = {st}

(* What joining two sequences makes of their entries.                      *)
Joins(q, b) ==
  /\ Len(q) \in Nat /\ Len(b) \in Nat
  /\ Len(q \o b) = Len(q) + Len(b)
  /\ \A i \in 1..Len(q) : i \in 1..Len(q \o b) /\ (q \o b)[i] = q[i]
  /\ \A i \in 1..Len(b) : /\ Len(q) + i \in 1..Len(q \o b)
                          /\ (q \o b)[Len(q) + i] = b[i]
  /\ \A i \in 1..Len(q \o b) :
       i \in 1..Len(q) \/ \E j \in 1..Len(b) : i = Len(q) + j

LEMMA Joining ==
  ASSUME NEW S, NEW q \in Seq(S), NEW b \in Seq(S)
  PROVE  q \o b \in Seq(S) /\ Joins(q, b)
<1>1. /\ q \o b \in Seq(S)
      /\ Len(q \o b) = Len(q) + Len(b)
      /\ \A i \in 1 .. Len(q) + Len(b) :
           (q \o b)[i] = IF i <= Len(q) THEN q[i] ELSE b[i - Len(q)]
  BY ConcatProperties
<1>2. Len(q) \in Nat /\ Len(b) \in Nat
  BY LenProperties
<1>3. ASSUME NEW i \in 1..Len(b)
      PROVE  (q \o b)[Len(q) + i] = b[i]
  <2>1. /\ Len(q) + i \in 1..(Len(q) + Len(b)) /\ ~(Len(q) + i <= Len(q))
        /\ (Len(q) + i) - Len(q) = i
    BY <1>2
  <2> QED
    BY <1>1, <2>1
<1>4. ASSUME NEW i \in 1..(Len(q) + Len(b)), ~(i \in 1..Len(q))
      PROVE  \E j \in 1..Len(b) : i = Len(q) + j
  <2>1. i - Len(q) \in 1..Len(b) /\ i = Len(q) + (i - Len(q))
    BY <1>2, <1>4
  <2> QED
    BY <2>1
<1>5. \A i \in 1..Len(q) : i \in 1..Len(q \o b) /\ (q \o b)[i] = q[i]
  BY <1>1, <1>2
<1>6. \A i \in 1..Len(b) : Len(q) + i \in 1..Len(q \o b)
  BY <1>1, <1>2
<1>7. \A i \in 1..Len(q \o b) :
        i \in 1..Len(q) \/ \E j \in 1..Len(b) : i = Len(q) + j
  BY <1>1, <1>2, <1>4
<1>8. \A i \in 1..Len(b) : /\ Len(q) + i \in 1..Len(q \o b)
                          /\ (q \o b)[Len(q) + i] = b[i]
  BY <1>3, <1>6
<1> QED
  BY <1>1, <1>2, <1>5, <1>7, <1>8 DEF Joins

LEMMA OrderedConcat ==
  ASSUME NEW q \in Seq(StateMsg), NEW b \in Seq(StateMsg), NEW pid,
         Ordered(q, pid), Ordered(b, pid),
         \A i \in 1..Len(q), j \in 1..Len(b) : IsLast(q, pid, i) =>
           \A x \in About(q[i], pid), y \in About(b[j], pid) :
             Follows(b[j], x, y)
  PROVE  Ordered(q \o b, pid)
<1> DEFINE r == q \o b
           n == Len(q)
<1>1. /\ n \in Nat /\ Len(b) \in Nat /\ Len(r) = n + Len(b)
      /\ \A i \in 1..n : i \in 1..Len(r) /\ r[i] = q[i]
      /\ \A i \in 1..Len(b) : n + i \in 1..Len(r) /\ r[n + i] = b[i]
      /\ \A i \in 1..Len(r) : i \in 1..n \/ \E j \in 1..Len(b) : i = n + j
  <2>1. Joins(q, b)
    BY Joining
  <2> QED
    BY <2>1, Zenon DEF Joins
<1> HIDE DEF r
<1> SUFFICES ASSUME NEW i \in 1..Len(r), NEW j \in 1..Len(r), i < j,
                    About(r[i], pid) # {}, About(r[j], pid) # {},
                    \A k \in (i + 1)..(j - 1) : About(r[k], pid) = {},
                    NEW x \in About(r[i], pid), NEW y \in About(r[j], pid)
             PROVE  Follows(r[j], x, y)
  BY DEF Ordered, r
<1>2. CASE i \in 1..n /\ j \in 1..n
  <2>1. \A k \in (i + 1)..(j - 1) : k \in 1..n /\ r[k] = q[k]
    BY <1>1, <1>2
  <2> QED
    BY <1>1, <1>2, <2>1 DEF Ordered
<1>3. CASE i \in 1..n /\ j \notin 1..n
  <2>1. PICK l \in 1..Len(b) : j = n + l
    BY <1>1, <1>3
  <2>2. \A k \in (i + 1)..n : k \in (i + 1)..(j - 1) /\ k \in 1..n /\ r[k] = q[k]
    BY <1>1, <1>3, <2>1
  <2>3. IsLast(q, pid, i)
    BY <1>1, <1>3, <2>2 DEF IsLast
  <2> QED
    BY <1>1, <1>3, <2>1, <2>3
<1>4. CASE i \notin 1..n
  <2>1. PICK h \in 1..Len(b) : i = n + h
    BY <1>1, <1>4
  <2>2. j \notin 1..n
    BY <1>1, <2>1
  <2>3. PICK l \in 1..Len(b) : j = n + l
    BY <1>1, <2>2
  <2>4. h < l
    BY <1>1, <2>1, <2>3
  <2>5. ASSUME NEW k \in (h + 1)..(l - 1)
        PROVE  About(b[k], pid) = {}
    <3>1. n + k \in (i + 1)..(j - 1) /\ k \in 1..Len(b)
      BY <1>1, <2>1, <2>3
    <3> QED
      BY <1>1, <3>1
  <2> QED
    BY <1>1, <2>1, <2>3, <2>4, <2>5 DEF Ordered
<1> QED
  BY <1>1, <1>2, <1>3, <1>4

LEMMA LastConcat ==
  ASSUME NEW q \in Seq(StateMsg), NEW b \in Seq(StateMsg), NEW pid, NEW st,
         LastIs(b, pid, st),
         LastIs(q, pid, st) \/ \E j \in 1..Len(b) : About(b[j], pid) # {}
  PROVE  LastIs(q \o b, pid, st)
<1> DEFINE r == q \o b
           n == Len(q)
<1>1. /\ n \in Nat /\ Len(b) \in Nat /\ Len(r) = n + Len(b)
      /\ \A i \in 1..n : i \in 1..Len(r) /\ r[i] = q[i]
      /\ \A i \in 1..Len(b) : n + i \in 1..Len(r) /\ r[n + i] = b[i]
      /\ \A i \in 1..Len(r) : i \in 1..n \/ \E j \in 1..Len(b) : i = n + j
  <2>1. Joins(q, b)
    BY Joining
  <2> QED
    BY <2>1, Zenon DEF Joins
<1> HIDE DEF r
<1> SUFFICES ASSUME NEW i \in 1..Len(r), IsLast(r, pid, i)
             PROVE  About(r[i], pid) = {st}
  BY DEF LastIs, r
<1>2. CASE i \in 1..n
  <2>1. ASSUME NEW j \in 1..Len(b)
        PROVE  About(b[j], pid) = {}
    <3>1. n + j \in (i + 1)..Len(r)
      BY <1>1, <1>2
    <3> QED
      BY <1>1, <3>1 DEF IsLast
  <2>2. \A k \in (i + 1)..n : k \in (i + 1)..Len(r) /\ r[k] = q[k]
    BY <1>1, <1>2
  <2>3. IsLast(q, pid, i)
    BY <1>1, <1>2, <2>2 DEF IsLast
  <2> QED
    BY <1>1, <1>2, <2>1, <2>3 DEF LastIs
<1>3. CASE i \notin 1..n
  <2>1. PICK j \in 1..Len(b) : i = n + j
    BY <1>1, <1>3
  <2>2. ASSUME NEW k \in (j + 1)..Len(b)
        PROVE  About(b[k], pid) = {}
    <3>1. n + k \in (i + 1)..Len(r) /\ k \in 1..Len(b)
      BY <1>1, <2>1
    <3> QED
      BY <1>1, <3>1 DEF IsLast
  <2>3. IsLast(b, pid, j)
    BY <1>1, <2>1, <2>2 DEF IsLast
  <2> QED
    BY <1>1, <2>1, <2>3 DEF LastIs
<1> QED
  BY <1>2, <1>3

(* A datagram is read or lost.                                             *)
LEMMA FeedTail ==
  ASSUME NEW q \in Seq(StateMsg), q # <<>>, NEW pid, Ordered(q, pid)
  PROVE  /\ Ordered(Tail(q), pid)
         /\ \A st : LastIs(q, pid, st) => LastIs(Tail(q), pid, st)
<1> DEFINE r == Tail(q)
<1>1. /\ Len(q) \in Nat /\ Len(r) = Len(q) - 1
      /\ \A i \in 1..Len(r) : r[i] = q[i + 1]
  BY HeadTailProperties, LenProperties
<1> HIDE DEF r
<1>2. \A i \in 1..Len(r) : i + 1 \in 1..Len(q)
  BY <1>1
<1>3. Ordered(r, pid)
  <2> SUFFICES ASSUME NEW i \in 1..Len(r), NEW j \in 1..Len(r), i < j,
                      About(r[i], pid) # {}, About(r[j], pid) # {},
                      \A k \in (i + 1)..(j - 1) : About(r[k], pid) = {},
                      NEW x \in About(r[i], pid), NEW y \in About(r[j], pid)
               PROVE  Follows(r[j], x, y)
    BY DEF Ordered
  <2>1. ASSUME NEW k \in ((i + 1) + 1)..((j + 1) - 1)
        PROVE  About(q[k], pid) = {}
    <3>1. k - 1 \in (i + 1)..(j - 1) /\ k - 1 \in 1..Len(r) /\ (k - 1) + 1 = k
      BY <1>1
    <3> QED
      BY <1>1, <3>1
  <2>2. i + 1 < j + 1
    OBVIOUS
  <2> QED
    BY <1>1, <1>2, <2>1, <2>2 DEF Ordered
<1>4. ASSUME NEW st, LastIs(q, pid, st)
      PROVE  LastIs(r, pid, st)
  <2> SUFFICES ASSUME NEW i \in 1..Len(r), IsLast(r, pid, i)
               PROVE  About(r[i], pid) = {st}
    BY DEF LastIs
  <2>1. ASSUME NEW k \in ((i + 1) + 1)..Len(q)
        PROVE  About(q[k], pid) = {}
    <3>1. k - 1 \in (i + 1)..Len(r) /\ k - 1 \in 1..Len(r) /\ (k - 1) + 1 = k
      BY <1>1
    <3> QED
      BY <1>1, <3>1 DEF IsLast
  <2>2. IsLast(q, pid, i + 1)
    BY <1>1, <2>1 DEF IsLast
  <2> QED
    BY <1>1, <1>2, <1>4, <2>2 DEF LastIs
<1> QED
  BY <1>3, <1>4 DEF r

(* A snapshot, packet by packet, repeats what is stored.                   *)
LEMMA FeedSnapshot ==
  ASSUME NEW q \in Seq(StateMsg), NEW b \in Seq(StateMsg), NEW pid, NEW st,
         Ordered(q, pid), LastIs(q, pid, st),
         \A j \in 1..Len(b) :
           b[j].type = "snapshot" /\ About(b[j], pid) \subseteq {st}
  PROVE  Ordered(q \o b, pid) /\ LastIs(q \o b, pid, st)
<1>1. Ordered(b, pid)
  BY DEF Ordered, Follows
<1>2. LastIs(b, pid, st)
  <2>1. \A j \in 1..Len(b) : About(b[j], pid) # {} => About(b[j], pid) = {st}
    OBVIOUS
  <2> QED
    BY <2>1 DEF LastIs, IsLast
<1>3. \A i \in 1..Len(q), j \in 1..Len(b) : IsLast(q, pid, i) =>
        \A x \in About(q[i], pid), y \in About(b[j], pid) : Follows(b[j], x, y)
  BY DEF LastIs, Follows
<1> QED
  BY <1>1, <1>2, <1>3, OrderedConcat, LastConcat

-----------------------------------------------------------------------------
(* The inductive invariant.                                                *)
Typed ==
  /\ now \in Nat /\ session \in Nat /\ nextPlayer \in Nat
  /\ registered \in SUBSET Conn
  /\ DOMAIN members \in SUBSET registered
  /\ IsFiniteSet(DOMAIN members)
  /\ members \in [DOMAIN members -> Peer]
  /\ unrel \in [Watched -> Seq(StateMsg)]
  /\ accepted \in [Conn -> Seq(Nat)]

(* Ids tell the members apart and were all handed out; the state stored    *)
(* for a member is its own.                                                *)
PeersOK ==
  /\ \A d \in DOMAIN members :
       /\ members[d].id.pid < nextPlayer
       /\ members[d].latest # NoState =>
            members[d].latest.pid = members[d].id.pid
  /\ \A d, e \in DOMAIN members :
       members[d].id.pid = members[e].id.pid => d = e

RatesOK ==
  /\ \A c \in Conn : Spaced(accepted[c])
  /\ \A c \in DOMAIN members : Rated(members[c].times, accepted[c])

TruthOK ==
  /\ \A d \in DOMAIN members :
       members[d].latest = NoState \/ members[d].latest \in truth
  /\ NoImpersonation

(* The channel q of a member with the id me.                               *)
FeedOK(q, me) ==
  /\ \A i \in 1..Len(q) : \A st \in q[i].players : st.pid < nextPlayer
  /\ \A pid \in Nat \ {me} : Ordered(q, pid)
  /\ \A d \in DOMAIN members : members[d].id.pid # me =>
       LastIs(q, members[d].id.pid, members[d].latest)

FeedsOK ==
  /\ \A x \in Watched \cap registered : x \notin DOMAIN members => unrel[x] = <<>>
  /\ \A x \in Watched \cap DOMAIN members : FeedOK(unrel[x], members[x].id.pid)

IInv == Typed /\ PeersOK /\ RatesOK /\ TruthOK /\ FeedsOK

LEMMA InitHolds == Init => IInv
<1> SUFFICES ASSUME Init
             PROVE  IInv
  OBVIOUS
<1>1. DOMAIN members = {}
  BY DEF Init, SessionInit
<1>2. Typed
  BY <1>1, FS_EmptySet DEF Init, SessionInit, Typed
<1>3. PeersOK /\ RatesOK
  BY <1>1, SessionAssumption DEF PeersOK, RatesOK, Spaced, Init
<1>4. TruthOK /\ FeedsOK
  BY <1>1 DEF TruthOK, NoImpersonation, FeedsOK, Init, SessionInit
<1> QED
  BY <1>2, <1>3, <1>4 DEF IInv

(* What is true stays true while it is in flight.                          *)
LEMMA TruthKeeps ==
  ASSUME truth \cap InFlight' \subseteq truth',
         \A d \in DOMAIN members' :
           \/ members'[d].latest = NoState
           \/ members'[d].latest \in truth \cup truth',
         \A c \in Watched : \A i \in 1..Len(unrel'[c]) :
           unrel'[c][i].players \subseteq truth \cup truth'
  PROVE  TruthOK'
<1>1. \A d \in DOMAIN members' : members'[d].latest \in InFlight'
  BY DEF InFlight
<1>2. \A c \in Watched : \A i \in 1..Len(unrel'[c]) :
        unrel'[c][i].players \subseteq InFlight'
  BY DEF InFlight
<1>3. NoImpersonation'
  BY <1>2 DEF NoImpersonation
<1> QED
  BY <1>1, <1>3 DEF TruthOK

LEMMA ConnectKeeps ==
  ASSUME IInv, NEW c \in Conn, Connect(c), UNCHANGED history
  PROVE  IInv'
<1>1. Typed'
  BY DEF IInv, Typed, Connect, history
<1>2. PeersOK' /\ RatesOK' /\ TruthOK'
  BY DEF IInv, PeersOK, RatesOK, TruthOK, Rated, NoImpersonation, Connect,
         history
<1>3. FeedsOK'
  BY DEF IInv, FeedsOK, FeedOK, Connect
<1> QED
  BY <1>1, <1>2, <1>3 DEF IInv

LEMMA RemoveKeeps ==
  ASSUME IInv, NEW c \in Conn, NEW farewell, Remove(c, farewell),
         UNCHANGED accepted, truth \cap InFlight' \subseteq truth'
  PROVE  IInv'
<1>1. /\ registered' = registered \ {c}
      /\ UNCHANGED <<now, session, nextPlayer, unrel>>
      /\ DOMAIN members' = DOMAIN members \ {c}
      /\ \A d \in DOMAIN members' : members'[d] = members[d]
      /\ members' = [d \in DOMAIN members' |-> members[d]]
  BY DEF Remove, Restrict
<1>2. Typed'
  <2>1. IsFiniteSet(DOMAIN members')
    BY <1>1, FS_Subset DEF IInv, Typed
  <2>2. members' \in [DOMAIN members' -> Peer]
    BY <1>1 DEF IInv, Typed
  <2> QED
    BY <1>1, <2>1, <2>2 DEF IInv, Typed
<1>3. PeersOK'
  BY <1>1 DEF IInv, PeersOK
<1>r. RatesOK'
  <2>1. ASSUME NEW d \in DOMAIN members'
        PROVE  Rated(members[d].times, accepted[d])'
    <3>1. Rated(members[d].times, accepted[d])
      BY <1>1 DEF IInv, RatesOK
    <3> QED
      BY <1>1, <3>1 DEF Rated
  <2> QED
    BY <2>1 DEF IInv, RatesOK
<1>4. TruthOK'
  BY <1>1, TruthKeeps DEF IInv, TruthOK, NoImpersonation
<1>5. FeedsOK'
  BY <1>1 DEF IInv, FeedsOK, FeedOK
<1> QED
  BY <1>2, <1>3, <1>r, <1>4, <1>5 DEF IInv

LEMMA AcceptKeeps ==
  ASSUME IInv, NEW c \in Conn, NEW hello \in Hello, Accept(c, hello),
         accepted' = [accepted EXCEPT ![c] = <<>>], UNCHANGED truth
  PROVE  IInv'
<1> DEFINE id == [pid |-> nextPlayer, inc |-> hello.inc, name |-> hello.name]
           new == [id |-> id, times |-> <<>>, latest |-> NoState, at |-> 0]
<1>1. /\ UNCHANGED <<now, session, registered, unrel>>
      /\ nextPlayer' = nextPlayer + 1 /\ nextPlayer \in Nat
      /\ c \in registered /\ c \notin DOMAIN members
      /\ DOMAIN members' = DOMAIN members \cup {c}
      /\ members' = [x \in DOMAIN members' |-> IF x = c THEN new ELSE members[x]]
  BY DEF Accept, Member, IInv, Typed
<1>2. /\ new \in Peer /\ new.id.pid = nextPlayer /\ new.latest = NoState
      /\ new.times = <<>>
  BY <1>1 DEF Peer, Identity, Hello
<1> HIDE DEF new
<1>3. /\ members'[c] = new
      /\ \A d \in DOMAIN members : d # c /\ members'[d] = members[d]
  BY <1>1
<1>4. \A d \in DOMAIN members : members[d].id.pid \in Nat
  BY DEF IInv, Typed, Peer, Identity
<1>5. Typed'
  <2>1. IsFiniteSet(DOMAIN members')
    BY <1>1, FS_AddElement DEF IInv, Typed
  <2>2. members' \in [DOMAIN members' -> Peer]
    BY <1>1, <1>2 DEF IInv, Typed
  <2>3. accepted' \in [Conn -> Seq(Nat)]
    BY DEF IInv, Typed
  <2> QED
    BY <1>1, <2>1, <2>2, <2>3 DEF IInv, Typed
<1>6. PeersOK'
  <2>1. \A d \in DOMAIN members :
          members[d].id.pid < nextPlayer /\ members[d].id.pid # nextPlayer
    BY <1>1, <1>4 DEF IInv, PeersOK
  <2> QED
    BY <1>1, <1>2, <1>3, <1>4, <2>1 DEF IInv, PeersOK
<1>7. RatesOK'
  <2>1. accepted'[c] = <<>> /\ \A d \in Conn \ {c} : accepted'[d] = accepted[d]
    BY DEF IInv, Typed
  <2>2. Spaced(<<>>)
    BY SessionAssumption DEF Spaced
  <2>3. Rated(members[c].times, accepted[c])'
    <3>1. members'[c].times = <<>>
      BY <1>2, <1>3
    <3> QED
      BY <2>1, <3>1 DEF Rated
  <2>4. ASSUME NEW d \in DOMAIN members
        PROVE  Rated(members[d].times, accepted[d])'
    <3>1. d # c /\ d \in Conn /\ members'[d] = members[d] /\ now' = now
      BY <1>1, <1>3 DEF IInv, Typed
    <3>2. Rated(members[d].times, accepted[d])
      BY DEF IInv, RatesOK
    <3> QED
      BY <2>1, <3>1, <3>2 DEF Rated
  <2>5. \A d \in Conn : Spaced(accepted'[d])
    BY <2>1, <2>2 DEF IInv, RatesOK
  <2> QED
    BY <1>1, <2>3, <2>4, <2>5 DEF RatesOK
<1>8. TruthOK'
  BY <1>1, <1>2, <1>3, TruthKeeps DEF IInv, TruthOK, NoImpersonation
<1>9. FeedsOK'
  <2>1. ASSUME NEW x \in Watched, x \in DOMAIN members'
        PROVE  FeedOK(unrel[x], members[x].id.pid)'
    <3>1. CASE x = c
      <4>1. unrel[x] = <<>>
        BY <1>1, <3>1 DEF IInv, FeedsOK
      <4> QED
        BY <1>1, <4>1 DEF FeedOK, Ordered, LastIs
    <3>2. CASE x # c
      <4>1. x \in DOMAIN members /\ members'[x] = members[x] /\ unrel'[x] = unrel[x]
        <5>1. x \in DOMAIN members
          BY <1>1, <2>1, <3>2
        <5> QED
          BY <1>1, <1>3, <5>1
      <4>2. FeedOK(unrel[x], members[x].id.pid)
        BY <4>1 DEF IInv, FeedsOK
      <4>3. ASSUME NEW i \in 1..Len(unrel[x]), NEW st \in unrel[x][i].players
            PROVE  st.pid \in Nat /\ st.pid < nextPlayer
        <5>1. unrel[x][i] \in StateMsg
          BY ElementOfSeq DEF IInv, Typed
        <5>2. st \in State
          BY <5>1 DEF StateMsg
        <5> QED
          BY <4>2, <5>2 DEF FeedOK, State
      <4>4. LastIs(unrel[x], nextPlayer, NoState)
        <5>1. \A i \in 1..Len(unrel[x]) : About(unrel[x][i], nextPlayer) = {}
          BY <1>1, <4>3 DEF About
        <5> QED
          BY <5>1 DEF LastIs, IsLast
      <4>5. \A d \in DOMAIN members' : members'[d].id.pid # members[x].id.pid =>
              LastIs(unrel[x], members'[d].id.pid, members'[d].latest)
        BY <1>1, <1>2, <1>3, <4>2, <4>4 DEF FeedOK
      <4>6. \A i \in 1..Len(unrel[x]) : \A st \in unrel[x][i].players :
              st.pid < nextPlayer'
        BY <1>1, <4>3
      <4> QED
        BY <4>1, <4>2, <4>5, <4>6 DEF FeedOK
    <3> QED
      BY <3>1, <3>2
  <2>2. ASSUME NEW x \in Watched, x \in registered', x \notin DOMAIN members'
        PROVE  unrel'[x] = <<>>
    BY <1>1, <2>2 DEF IInv, FeedsOK
  <2> QED
    BY <2>1, <2>2 DEF FeedsOK
<1> QED
  BY <1>5, <1>6, <1>7, <1>8, <1>9 DEF IInv

LEMMA IgnoreKeeps ==
  ASSUME IInv, NEW c \in Conn, NEW st, IgnoreState(c, st), UNCHANGED history
  PROVE  IInv'
<1>1. /\ UNCHANGED <<now, session, registered, nextPlayer, unrel, accepted, truth>>
      /\ c \in DOMAIN members /\ now \in Nat
      /\ members' = [members EXCEPT ![c].times = Recent(@)]
  BY DEF IgnoreState, Member, history, IInv, Typed
<1>2. /\ members[c] \in Peer /\ accepted[c] \in Seq(Nat)
      /\ Rated(members[c].times, accepted[c])
  BY <1>1 DEF IInv, Typed, RatesOK
<1>3. Rated(Recent(members[c].times), accepted[c])
  BY <1>1, <1>2, RatedRecent
<1>4. /\ DOMAIN members' = DOMAIN members
      /\ \A d \in DOMAIN members :
           /\ members'[d].id = members[d].id
           /\ members'[d].latest = members[d].latest
           /\ members'[d].times =
                IF d = c THEN Recent(members[c].times) ELSE members[d].times
  BY <1>1 DEF IInv, Typed, Peer
<1>5. Typed'
  <2>1. Recent(members[c].times) \in Seq(Nat)
    BY <1>3 DEF Rated
  <2>2. members' \in [DOMAIN members' -> Peer]
    BY <1>1, <1>2, <2>1 DEF IInv, Typed, Peer
  <2> QED
    BY <1>1, <1>4, <2>2 DEF IInv, Typed
<1>6. PeersOK' /\ TruthOK'
  BY <1>1, <1>4 DEF IInv, PeersOK, TruthOK, NoImpersonation
<1>7. RatesOK'
  <2>1. ASSUME NEW d \in DOMAIN members
        PROVE  Rated(members[d].times, accepted[d])'
    <3>1. Rated(members'[d].times, accepted[d])
      <4>1. CASE d = c
        BY <1>3, <1>4, <4>1
      <4>2. CASE d # c
        BY <1>4, <4>2 DEF IInv, RatesOK
      <4> QED
        BY <4>1, <4>2
    <3> QED
      BY <1>1, <3>1 DEF Rated
  <2> QED
    BY <1>1, <1>4, <2>1 DEF IInv, RatesOK
<1>8. FeedsOK'
  BY <1>1, <1>4 DEF IInv, FeedsOK, FeedOK
<1> QED
  BY <1>5, <1>6, <1>7, <1>8 DEF IInv

LEMMA AdvanceKeeps ==
  ASSUME IInv, Advance, UNCHANGED history
  PROVE  IInv'
<1>1. /\ UNCHANGED <<session, registered, members, nextPlayer, unrel, accepted, truth>>
      /\ now \in Nat /\ now' = now + 1
  BY DEF Advance, history, tables, IInv, Typed
<1>2. Typed' /\ PeersOK' /\ TruthOK' /\ FeedsOK'
  BY <1>1 DEF IInv, Typed, PeersOK, TruthOK, NoImpersonation, FeedsOK, FeedOK
<1>3. RatesOK'
  <2>1. ASSUME NEW d \in DOMAIN members
        PROVE  Rated(members[d].times, accepted[d])'
    <3> DEFINE acc == accepted[d]
               n == Len(acc) - Len(members[d].times)
    <3>1. Rated(members[d].times, acc) /\ acc \in Seq(Nat) /\ Len(acc) \in Nat
      <4>1. d \in Conn
        BY DEF IInv, Typed
      <4>2. acc \in Seq(Nat)
        BY <4>1 DEF IInv, Typed
      <4> QED
        BY <4>2, LenProperties DEF IInv, RatesOK
    <3>2. members[d].times \in Seq(Nat) /\ Len(members[d].times) \in Nat
      BY <3>1, LenProperties DEF Rated
    <3>3. ASSUME NEW k \in 1..n
          PROVE  now' - acc[k] >= Window
      <4>1. now - acc[k] >= Window
        BY <3>1 DEF Rated
      <4>2. acc[k] \in Nat
        <5>1. k \in 1..Len(acc)
          BY <3>1, <3>2
        <5> QED
          BY <3>1, <5>1, ElementOfSeq
      <4> QED
        BY <1>1, <4>1, <4>2, SessionAssumption
    <3> QED
      BY <1>1, <3>1, <3>3 DEF Rated
  <2> QED
    BY <1>1, <2>1 DEF IInv, RatesOK
<1> QED
  BY <1>2, <1>3 DEF IInv

LEMMA TakeKeeps ==
  ASSUME IInv, NEW c \in Watched, Take(c)
  PROVE  IInv'
<1>1. /\ UNCHANGED <<now, session, registered, members, nextPlayer, accepted>>
      /\ unrel[c] \in Seq(StateMsg) /\ unrel[c] # <<>>
      /\ unrel'[c] = Tail(unrel[c])
      /\ \A x \in Watched \ {c} : unrel'[x] = unrel[x]
      /\ truth' = truth \cap InFlight'
  BY DEF Take, tables, IInv, Typed
<1>2. /\ Tail(unrel[c]) \in Seq(StateMsg)
      /\ \A i \in 1..Len(Tail(unrel[c])) :
           /\ i + 1 \in 1..Len(unrel[c])
           /\ Tail(unrel[c])[i] = unrel[c][i + 1]
  <2> DEFINE q == unrel[c]
             r == Tail(q)
  <2> HIDE DEF q
  <2>1. q \in Seq(StateMsg) /\ q # <<>> /\ Len(q) \in Nat
    BY <1>1, LenProperties DEF q
  <2>2. /\ r \in Seq(StateMsg) /\ Len(r) = Len(q) - 1
        /\ \A i \in 1..Len(r) : r[i] = q[i + 1]
    BY <2>1, HeadTailProperties
  <2> HIDE DEF r
  <2>3. \A i \in 1..Len(r) : i + 1 \in 1..Len(q) /\ r[i] = q[i + 1]
    BY <2>1, <2>2
  <2>4. /\ r \in Seq(StateMsg)
        /\ \A i \in 1..Len(r) : i + 1 \in 1..Len(q) /\ r[i] = q[i + 1]
    BY <2>2, <2>3
  <2> QED
    BY ONLY <2>4, Zenon DEF q, r
<1>3. Typed'
  BY <1>1, <1>2 DEF Take, IInv, Typed
<1>4. PeersOK' /\ RatesOK'
  BY <1>1 DEF IInv, PeersOK, RatesOK, Rated
<1>5. TruthOK'
  <2>1. ASSUME NEW x \in Watched, NEW i \in 1..Len(unrel'[x])
        PROVE  unrel'[x][i].players \subseteq truth
    <3>1. \A j \in 1..Len(unrel[x]) : unrel[x][j].players \subseteq truth
      BY DEF IInv, TruthOK, NoImpersonation
    <3>2. CASE x = c
      <4> DEFINE r == Tail(unrel[c])
      <4>1. i \in 1..Len(r) /\ unrel'[x][i] = r[i]
        BY <1>1, <3>2
      <4>2. i + 1 \in 1..Len(unrel[c]) /\ r[i] = unrel[c][i + 1]
        BY <1>2, <4>1
      <4> HIDE DEF r
      <4> QED
        BY <3>1, <3>2, <4>1, <4>2
    <3>3. CASE x # c
      BY <1>1, <3>1, <3>3
    <3> QED
      BY <3>2, <3>3
  <2> QED
    BY <1>1, <2>1, TruthKeeps DEF IInv, TruthOK
<1>6. FeedsOK'
  <2>1. ASSUME NEW x \in Watched, x \in DOMAIN members
        PROVE  FeedOK(unrel[x], members[x].id.pid)'
    <3>1. FeedOK(unrel[x], members[x].id.pid)
      BY <2>1 DEF IInv, FeedsOK
    <3>2. CASE x # c
      BY <1>1, <3>1, <3>2 DEF FeedOK
    <3>3. CASE x = c
      <4> DEFINE q == unrel[c]
                 r == Tail(q)
                 me == members[c].id.pid
      <4>1. FeedOK(q, me) /\ q \in Seq(StateMsg) /\ q # <<>>
        BY <1>1, <3>1, <3>3
      <4>2. \A i \in 1..Len(r) : \A st \in r[i].players : st.pid < nextPlayer
        BY <1>2, <4>1 DEF FeedOK
      <4>3. \A pid \in Nat \ {me} : Ordered(r, pid)
        BY <4>1, FeedTail DEF FeedOK
      <4>4. ASSUME NEW d \in DOMAIN members, members[d].id.pid # me
            PROVE  LastIs(r, members[d].id.pid, members[d].latest)
        <5> DEFINE pid == members[d].id.pid
                   last == members[d].latest
        <5>1. pid \in Nat
          BY DEF IInv, Typed, Peer, Identity
        <5>2. Ordered(q, pid) /\ LastIs(q, pid, last)
          BY <4>1, <4>4, <5>1 DEF FeedOK
        <5> HIDE DEF q, r, pid, last
        <5>3. LastIs(Tail(q), pid, last)
          BY <4>1, <5>2, FeedTail
        <5> QED
          BY <5>3 DEF r, pid, last
      <4>5. unrel'[x] = r /\ members'[x].id.pid = me
        BY <1>1, <3>3
      <4> HIDE DEF r, q, me
      <4> QED
        BY <1>1, <4>2, <4>3, <4>4, <4>5 DEF FeedOK
    <3> QED
      BY <3>2, <3>3
  <2>2. ASSUME NEW x \in Watched, x \in registered, x \notin DOMAIN members
        PROVE  unrel'[x] = <<>>
    BY <1>1, <2>2 DEF IInv, FeedsOK
  <2> QED
    BY <1>1, <2>1, <2>2 DEF FeedsOK
<1> QED
  BY <1>3, <1>4, <1>5, <1>6 DEF IInv

(* What the feeds receive while there is room.                             *)
LEMMA SentStates ==
  ASSUME Typed, NEW f, SendStates(f),
         \A x \in Watched : /\ f[x] \in Seq(StateMsg)
                            /\ Len(unrel[x]) + Len(f[x]) <= StateRoom
  PROVE  /\ unrel' \in [Watched -> Seq(StateMsg)]
         /\ \A x \in Watched : unrel'[x] = unrel[x] \o f[x]
<1>1. unrel' = [x \in Watched |-> unrel[x] \o f[x]]
  BY DEF SendStates
<1>2. \A x \in Watched : unrel[x] \o f[x] \in Seq(StateMsg)
  BY ConcatProperties DEF Typed
<1> QED
  BY <1>1, <1>2

(* Nobody is sent the truth about anything but what was in flight or sent. *)
LEMMA PlayersJoin ==
  ASSUME NEW q \in Seq(StateMsg), NEW b \in Seq(StateMsg), NEW T,
         \A i \in 1..Len(q) : q[i].players \subseteq T,
         \A i \in 1..Len(b) : b[i].players \subseteq T
  PROVE  \A i \in 1..Len(q \o b) : (q \o b)[i].players \subseteq T
<1>1. Joins(q, b)
  BY Joining
<1>2. ASSUME NEW i \in 1..Len(q \o b)
      PROVE  (q \o b)[i].players \subseteq T
  <2>1. CASE i \in 1..Len(q)
    <3>1. (q \o b)[i] = q[i]
      BY <1>1, <2>1 DEF Joins
    <3> QED
      BY <2>1, <3>1
  <2>2. CASE \E k \in 1..Len(b) : i = Len(q) + k
    <3>1. PICK k \in 1..Len(b) : i = Len(q) + k
      BY <2>2
    <3>2. (q \o b)[i] = b[k]
      BY <1>1, <3>1 DEF Joins
    <3> QED
      BY <3>2
  <2> QED
    BY <1>1, <2>1, <2>2 DEF Joins
<1> QED
  BY <1>2

LEMMA ClaimsAreStates ==
  ASSUME session \in Nat, NEW st \in Claims
  PROVE  st \in State
<1>1. st = [session |-> st.session, pid |-> st.pid, inc |-> st.inc,
            seq |-> st.seq, inWorld |-> st.inWorld]
  BY DEF Claims
<1>2. st.session = session /\ st.pid \in 1..MaxPlayerId /\ st.inc \in Incarnation
  BY DEF Claims
<1>3. st.seq \in 0..(SeqRange - 1) /\ st.inWorld \in {TRUE}
  BY DEF Claims
<1>4. st.session \in Nat /\ st.pid \in Nat
  BY <1>2
<1>5. st.inWorld \in BOOLEAN
  BY <1>3
<1> QED
  BY <1>1, <1>2, <1>3, <1>4, <1>5 DEF State

LEMMA RelayKeeps ==
  ASSUME IInv, NEW c \in Conn, NEW st \in Claims, Room(1), RelayState(c, st),
         accepted' = [accepted EXCEPT ![c] = LastOnes(Append(@, now))],
         truth' = (truth \cap InFlight') \cup
           {s \in {st} : s.pid = members[c].id.pid /\ s.inc = members[c].id.inc}
  PROVE  IInv'
<1> DEFINE msg == StateMessage(st)
           f == [x \in Conn |-> IF Member(x) /\ x # c THEN <<msg>> ELSE <<>>]
           r == Recent(members[c].times)
           acc == accepted[c]
<1>1. /\ UNCHANGED <<now, session, registered, nextPlayer>>
      /\ c \in DOMAIN members /\ now \in Nat
      /\ st.pid = members[c].id.pid /\ st.inc = members[c].id.inc
      /\ Len(r) < RateLimit
      /\ members[c].latest # NoState => SeqNewer(st.seq, members[c].latest.seq)
      /\ SendStates(f)
  <2>1. RelayState(c, st) /\ now \in Nat
    BY DEF IInv, Typed
  <2>2. Len(r) \in Nat /\ RateLimit \in Nat
    <3>1. Rated(r, acc)
      <4>1. c \in DOMAIN members /\ acc \in Seq(Nat)
        BY DEF RelayState, Member, IInv, Typed
      <4> QED
        BY <2>1, <4>1, RatedRecent DEF IInv, RatesOK
    <3> HIDE DEF r
    <3> QED
      BY <3>1, LenProperties, SessionAssumption DEF Rated
  <2> HIDE DEF r
  <2>3. ~(Len(r) >= RateLimit)
    BY DEF RelayState, Ignored, r
  <2>4. Len(r) < RateLimit
    BY <2>2, <2>3
  <2> QED
    BY <2>1, <2>4 DEF RelayState, Ignored, Genuine, Member
<1>2. /\ members[c] \in Peer /\ acc \in Seq(Nat) /\ Spaced(acc)
      /\ Rated(members[c].times, acc)
  BY <1>1 DEF IInv, Typed, RatesOK
<1>3. Rated(r, acc)
  BY <1>1, <1>2, RatedRecent
<1> HIDE DEF r
<1>4. /\ Spaced(LastOnes(Append(acc, now)))
      /\ Rated(Append(r, now), LastOnes(Append(acc, now)))
  BY <1>1, <1>2, <1>3, RatedAccept
<1>5. /\ st \in State /\ st # NoState /\ msg \in StateMsg
      /\ msg.players = {st}
  <2>1. st \in State
    BY ClaimsAreStates DEF IInv, Typed
  <2> QED
    BY <2>1, NoStateAssumption DEF StateMessage, StateMsg
<1>6. /\ DOMAIN members' = DOMAIN members
      /\ members'[c].id = members[c].id
      /\ members'[c].latest = st
      /\ members'[c].times = Append(r, now)
      /\ \A d \in DOMAIN members \ {c} : members'[d] = members[d]
  <2>1. members' = [members EXCEPT ![c].times = Append(r, now),
                                   ![c].latest = st, ![c].at = now]
    BY DEF RelayState, r
  <2> QED
    BY <1>1, <1>2, <2>1 DEF IInv, Typed, Peer
<1>7. st \in truth'
  BY <1>1
<1>8. ASSUME NEW x \in Watched
      PROVE  /\ f[x] \in Seq(StateMsg) /\ Len(unrel[x]) + Len(f[x]) <= StateRoom
             /\ x \in DOMAIN members /\ x # c => f[x] = <<msg>>
             /\ x \notin DOMAIN members \/ x = c => f[x] = <<>>
  <2>1. Len(unrel[x]) \in Nat /\ Len(unrel[x]) + 1 <= StateRoom /\ StateRoom \in Nat
    BY LenProperties, SessionAssumption DEF IInv, Typed, Room
  <2>2. x \in Conn
    BY SessionAssumption
  <2> HIDE DEF msg
  <2>3. CASE x \in DOMAIN members /\ x # c
    <3>1. f[x] = <<msg>>
      BY <2>2, <2>3 DEF Member
    <3>2. <<msg>> \in Seq(StateMsg) /\ Len(<<msg>>) = 1
      BY <1>5
    <3> QED
      BY <2>1, <2>3, <3>1, <3>2
  <2>4. CASE ~(x \in DOMAIN members /\ x # c)
    <3>1. f[x] = <<>>
      BY <2>2, <2>4 DEF Member
    <3>2. <<>> \in Seq(StateMsg) /\ Len(<<>>) = 0
      BY EmptySeq
    <3>3. Len(unrel[x]) + 0 <= StateRoom
      BY <2>1
    <3> QED
      BY <2>4, <3>1, <3>2, <3>3
  <2> QED
    BY <2>3, <2>4
<1> HIDE DEF f, msg
<1>9. /\ unrel' \in [Watched -> Seq(StateMsg)]
      /\ \A x \in Watched : unrel'[x] = unrel[x] \o f[x]
  BY <1>1, <1>8, SentStates DEF IInv
<1>10. \A x \in Watched : unrel[x] \in Seq(StateMsg)
  BY DEF IInv, Typed
<1>11. Typed'
  <2>1. /\ Append(r, now) \in Seq(Nat)
        /\ LastOnes(Append(acc, now)) \in Seq(Nat)
    BY <1>4 DEF Rated, Spaced
  <2>2. members' \in [DOMAIN members' -> Peer]
    <3>1. members' = [members EXCEPT ![c].times = Append(r, now),
                                     ![c].latest = st, ![c].at = now]
      BY DEF RelayState, r
    <3> QED
      BY <1>1, <1>2, <1>5, <2>1, <3>1 DEF IInv, Typed, Peer
  <2>3. accepted' \in [Conn -> Seq(Nat)]
    BY <2>1 DEF IInv, Typed
  <2> QED
    BY <1>1, <1>6, <1>9, <2>2, <2>3 DEF IInv, Typed
<1>12. PeersOK'
  BY <1>1, <1>6 DEF IInv, PeersOK
<1>13. RatesOK'
  <2>1. /\ accepted'[c] = LastOnes(Append(acc, now))
        /\ \A d \in Conn \ {c} : accepted'[d] = accepted[d]
    BY DEF IInv, Typed
  <2>2. Rated(members[c].times, accepted[c])'
    <3>1. Rated(members'[c].times, LastOnes(Append(acc, now)))
      BY <1>4, <1>6
    <3> QED
      BY <1>1, <2>1, <3>1 DEF Rated
  <2>3. ASSUME NEW d \in DOMAIN members \ {c}
        PROVE  Rated(members[d].times, accepted[d])'
    <3>1. Rated(members[d].times, accepted[d]) /\ d \in Conn
      BY DEF IInv, RatesOK, Typed
    <3>2. members'[d] = members[d] /\ accepted'[d] = accepted[d]
      BY <1>6, <2>1, <3>1
    <3> QED
      BY <1>1, <3>1, <3>2 DEF Rated
  <2>4. \A d \in Conn : Spaced(accepted'[d])
    BY <1>4, <2>1 DEF IInv, RatesOK
  <2> QED
    BY <1>6, <2>2, <2>3, <2>4 DEF RatesOK
<1>14. TruthOK'
  <2> DEFINE T == truth \cup truth'
  <2>1. ASSUME NEW x \in Watched
        PROVE  \A i \in 1..Len(unrel'[x]) : unrel'[x][i].players \subseteq T
    <3>1. \A i \in 1..Len(unrel[x]) : unrel[x][i].players \subseteq T
      BY DEF IInv, TruthOK, NoImpersonation
    <3>2. \A i \in 1..Len(f[x]) : f[x][i].players \subseteq T
      <4>1. CASE x \in DOMAIN members /\ x # c
        <5>1. Len(<<msg>>) = 1 /\ <<msg>>[1] = msg
          OBVIOUS
        <5>2. f[x] = <<msg>>
          BY <1>8, <4>1
        <5>3. msg.players \subseteq T
          BY <1>5, <1>7
        <5> QED
          BY <5>1, <5>2, <5>3
      <4>2. CASE ~(x \in DOMAIN members /\ x # c)
        <5>1. f[x] = <<>> /\ Len(<<>>) = 0
          BY <1>8, <4>2
        <5> QED
          BY <5>1
      <4> QED
        BY <4>1, <4>2
    <3> HIDE DEF T
    <3>3. \A i \in 1..Len(unrel[x] \o f[x]) : (unrel[x] \o f[x])[i].players \subseteq T
      BY <1>8, <1>10, <3>1, <3>2, PlayersJoin
    <3> QED
      BY <1>9, <3>3
  <2>2. \A d \in DOMAIN members' :
          members'[d].latest = NoState \/ members'[d].latest \in T
    BY <1>6, <1>7 DEF IInv, TruthOK
  <2>3. truth \cap InFlight' \subseteq truth'
    OBVIOUS
  <2> QED
    BY <2>1, <2>2, <2>3, TruthKeeps
<1>15. FeedsOK'
  <2>1. ASSUME NEW x \in Watched, x \in DOMAIN members
        PROVE  FeedOK(unrel[x], members[x].id.pid)'
    <3> DEFINE q == unrel[x]
               me == members[x].id.pid
               mine == members[c].id.pid
               old == members[c].latest
    <3>1. FeedOK(q, me) /\ q \in Seq(StateMsg)
      BY <1>10, <2>1 DEF IInv, FeedsOK
    <3>2. /\ mine \in Nat /\ mine < nextPlayer
          /\ x # c => me # mine
          /\ \A d \in DOMAIN members \ {c} : members[d].id.pid # mine
      BY <1>1, <2>1 DEF IInv, Typed, Peer, Identity, PeersOK
    <3>3. CASE x = c
      <4>1. unrel'[x] = q
        BY <1>8, <1>9, <3>1, <3>3, ConcatEmptySeq
      <4>2. ASSUME NEW d \in DOMAIN members', members'[d].id.pid # me
            PROVE  LastIs(q, members'[d].id.pid, members'[d].latest)
        <5>1. d \in DOMAIN members \ {c} /\ members'[d] = members[d]
          BY <1>6, <3>3, <4>2
        <5> QED
          BY <3>1, <4>2, <5>1 DEF FeedOK
      <4>3. members'[x].id.pid = me
        BY <1>6, <3>3
      <4> HIDE DEF q, me
      <4> QED
        BY <1>1, <3>1, <4>1, <4>2, <4>3 DEF FeedOK
    <3>4. CASE x # c
      <4> DEFINE b == <<msg>>
                 r2 == q \o b
      <4>1. /\ b \in Seq(StateMsg) /\ Len(b) = 1 /\ b[1] = msg
            /\ unrel'[x] = r2
        BY <1>5, <1>8, <1>9, <2>1, <3>4
      <4> HIDE DEF b, q
      <4>2. /\ r2 \in Seq(StateMsg)
            /\ \A i \in 1..Len(r2) : \A s \in r2[i].players : s.pid < nextPlayer
        <5> DEFINE T == {s \in State : s.pid < nextPlayer}
        <5>1. \A i \in 1..Len(q) : q[i].players \subseteq T
          <6>1. \A i \in 1..Len(q) : q[i].players \subseteq State
            <7>1. \A i \in 1..Len(q) : q[i] \in StateMsg
              BY <3>1, ElementOfSeq
            <7> QED
              BY <7>1 DEF StateMsg
          <6> QED
            BY <3>1, <6>1 DEF FeedOK
        <5>2. \A i \in 1..Len(b) : b[i].players \subseteq T
          BY <1>1, <1>5, <3>2, <4>1
        <5>3. \A i \in 1..Len(r2) : r2[i].players \subseteq T
          <6> HIDE DEF T
          <6> QED
            BY <3>1, <4>1, <5>1, <5>2, PlayersJoin
        <5>4. r2 \in Seq(StateMsg)
          BY <3>1, <4>1, ConcatProperties
        <5> QED
          BY <5>3, <5>4
      <4>3. \A pid : pid # mine => About(b[1], pid) = {}
        BY <1>1, <1>5, <4>1 DEF About
      <4>4. About(b[1], mine) = {st}
        BY <1>1, <1>5, <4>1 DEF About
      <4>5. LastIs(q, mine, old)
        BY <1>1, <3>1, <3>2, <3>4 DEF FeedOK
      <4>6. ASSUME NEW pid \in Nat \ {me}
            PROVE  Ordered(r2, pid)
        <5>1. Ordered(q, pid)
          BY <3>1 DEF FeedOK
        <5>2. Ordered(b, pid)
          BY <4>1 DEF Ordered
        <5>3. ASSUME NEW i \in 1..Len(q), NEW j \in 1..Len(b), IsLast(q, pid, i),
                     NEW s \in About(q[i], pid), NEW t \in About(b[j], pid)
              PROVE  Follows(b[j], s, t)
          <6>1. j = 1
            BY <4>1
          <6>2. pid = mine
            BY <4>3, <5>3, <6>1
          <6>3. s = old
            BY <4>5, <5>3, <6>2 DEF LastIs
          <6>4. s \in State
            <7>1. q[i] \in StateMsg
              BY <3>1, ElementOfSeq
            <7> QED
              BY <5>3, <7>1 DEF StateMsg, About
          <6>5. t = st
            BY <4>4, <5>3, <6>1, <6>2
          <6> QED
            BY <1>1, <6>3, <6>4, <6>5, NoStateAssumption DEF Follows
        <5> QED
          BY <3>1, <4>1, <5>1, <5>2, <5>3, OrderedConcat
      <4>7. ASSUME NEW d \in DOMAIN members, members'[d].id.pid # me
            PROVE  LastIs(r2, members'[d].id.pid, members'[d].latest)
        <5>1. CASE d = c
          <6>0. 1 \in 1..Len(b) /\ \A i \in 1..Len(b) : i = 1
            BY <4>1
          <6>1. LastIs(b, mine, st) /\ \E j \in 1..Len(b) : About(b[j], mine) # {}
            BY <4>4, <6>0 DEF LastIs
          <6>2. LastIs(r2, mine, st)
            BY <3>1, <4>1, <6>1, LastConcat
          <6> QED
            BY <1>6, <5>1, <6>2
        <5>2. CASE d # c
          <6> DEFINE pid == members[d].id.pid
                     last == members[d].latest
          <6>1. members'[d] = members[d] /\ pid # mine /\ pid # me
            BY <1>6, <3>2, <4>7, <5>2
          <6>2. LastIs(q, pid, last)
            BY <3>1, <6>1 DEF FeedOK
          <6>3. LastIs(b, pid, last)
            BY <4>1, <4>3, <6>1 DEF LastIs, IsLast
          <6>4. LastIs(r2, pid, last)
            <7> HIDE DEF pid, last
            <7> QED
              BY <3>1, <4>1, <6>2, <6>3, LastConcat
          <6> QED
            BY <6>1, <6>4
        <5> QED
          BY <5>1, <5>2
      <4>8. members'[x].id.pid = me
        BY <1>6, <2>1, <3>4
      <4> HIDE DEF r2, me
      <4> QED
        BY <1>1, <1>6, <4>1, <4>2, <4>6, <4>7, <4>8 DEF FeedOK
    <3> QED
      BY <3>3, <3>4
  <2>2. ASSUME NEW x \in Watched, x \in registered, x \notin DOMAIN members
        PROVE  unrel'[x] = <<>>
    <3>1. unrel[x] = <<>> /\ f[x] = <<>>
      BY <1>8, <2>2 DEF IInv, FeedsOK
    <3>2. unrel'[x] = <<>> \o <<>>
      BY <1>9, <3>1
    <3> QED
      BY <3>2
  <2> QED
    BY <1>1, <1>6, <2>1, <2>2 DEF FeedsOK
<1> QED
  BY <1>11, <1>12, <1>13, <1>14, <1>15 DEF IInv

(* What a snapshot is made of.                                             *)
LEMMA FreshStates ==
  ASSUME Typed, PeersOK
  PROVE  /\ OnePerPlayer(Fresh)
         /\ \A s \in Fresh : \E d \in DOMAIN members :
              s = members[d].latest /\ s.pid = members[d].id.pid
<1> DEFINE D == {d \in DOMAIN members :
                   members[d].latest # NoState /\ now - members[d].at < StaleAfter}
           g == [d \in D |-> members[d].latest]
<1>1. Fresh = {members[d].latest : d \in D}
  BY DEF Fresh
<1>2. IsFiniteSet(D)
  <2>1. D \in SUBSET DOMAIN members
    OBVIOUS
  <2> HIDE DEF D
  <2> QED
    BY <2>1, FS_Subset DEF Typed
<1>3. g \in Surjection(D, Fresh)
  <2> HIDE DEF D
  <2> QED
    BY <1>1 DEF Surjection
<1>4. IsFiniteSet(Fresh)
  BY <1>2, <1>3, FS_Surjection
<1>5. \A s \in Fresh : \E d \in DOMAIN members :
        s = members[d].latest /\ s # NoState /\ s.pid = members[d].id.pid
  BY <1>1 DEF PeersOK
<1>6. \A s \in Fresh : s \in State
  BY <1>5 DEF Typed, Peer
<1>7. \A s, t \in Fresh : s.pid = t.pid => s = t
  BY <1>5 DEF PeersOK
<1> QED
  BY <1>4, <1>5, <1>6, <1>7 DEF OnePerPlayer

LEMMA SnapshotOfFresh ==
  ASSUME Typed, PeersOK
  PROVE  /\ SnapshotMessages(Fresh) \in Seq(StateMsg)
         /\ Len(SnapshotMessages(Fresh)) = Len(Chunks(Fresh))
         /\ \A k \in 1..Len(SnapshotMessages(Fresh)) :
              /\ SnapshotMessages(Fresh)[k].type = "snapshot"
              /\ SnapshotMessages(Fresh)[k].players \subseteq Fresh
<1> DEFINE n == Len(Chunks(Fresh))
           e(k) == [type |-> "snapshot", time |-> now, session |-> session,
                    players |-> Chunks(Fresh)[k]]
<1>1. /\ Fresh \subseteq State /\ n \in Nat
      /\ Chunks(Fresh) \in Seq(SUBSET Fresh)
  BY FreshStates, ChunksAre, LenProperties DEF OnePerPlayer
<1>2. \A k \in 1..n : Chunks(Fresh)[k] \subseteq Fresh
  BY <1>1, ElementOfSeq
<1>3. \A k \in 1..n : e(k) \in StateMsg
  BY <1>1, <1>2 DEF StateMsg, Typed
<1>4. SnapshotMessages(Fresh) = [k \in 1..n |-> e(k)]
  BY DEF SnapshotMessages
<1>5. \A k \in 1..n : e(k).type = "snapshot" /\ e(k).players \subseteq Fresh
  BY <1>2
<1> HIDE DEF e, n
<1>6. [k \in 1..n |-> e(k)] \in Seq(StateMsg)
  BY <1>1, <1>3, IsASeq
<1>7. Len([k \in 1..n |-> e(k)]) = n
  BY <1>1
<1> QED
  BY <1>4, <1>5, <1>6, <1>7 DEF n

LEMMA TickKeeps ==
  ASSUME IInv, Room(Len(Chunks(Fresh))), Tick, UNCHANGED history
  PROVE  IInv'
<1> DEFINE b == SnapshotMessages(Fresh)
           f == [x \in Conn |-> IF Member(x) THEN b ELSE <<>>]
<1>1. /\ UNCHANGED <<now, session, registered, members, nextPlayer, accepted, truth>>
      /\ SendStates(f)
  BY DEF Tick, history
<1>2. /\ b \in Seq(StateMsg) /\ Len(b) = Len(Chunks(Fresh)) /\ Len(b) \in Nat
      /\ \A k \in 1..Len(b) : b[k].type = "snapshot" /\ b[k].players \subseteq Fresh
  BY SnapshotOfFresh, LenProperties DEF IInv
<1>3. \A s \in Fresh : \E d \in DOMAIN members :
        s = members[d].latest /\ s.pid = members[d].id.pid
  BY FreshStates DEF IInv
<1> HIDE DEF b
<1>4. ASSUME NEW x \in Watched
      PROVE  /\ f[x] \in Seq(StateMsg) /\ Len(unrel[x]) + Len(f[x]) <= StateRoom
             /\ f[x] = IF x \in DOMAIN members THEN b ELSE <<>>
  <2>1. /\ Len(unrel[x]) \in Nat /\ Len(unrel[x]) + Len(b) <= StateRoom
        /\ StateRoom \in Nat
    BY <1>2, LenProperties, SessionAssumption DEF IInv, Typed, Room
  <2>2. f[x] = IF x \in DOMAIN members THEN b ELSE <<>>
    BY SessionAssumption DEF Member
  <2>3. <<>> \in Seq(StateMsg) /\ Len(<<>>) = 0
    BY EmptySeq
  <2>4. Len(unrel[x]) + 0 <= StateRoom
    BY <1>2, <2>1
  <2> HIDE DEF f
  <2> QED
    BY <1>2, <2>1, <2>2, <2>3, <2>4
<1> HIDE DEF f
<1>5. /\ unrel' \in [Watched -> Seq(StateMsg)]
      /\ \A x \in Watched : unrel'[x] = unrel[x] \o f[x]
  BY <1>1, <1>4, SentStates DEF IInv
<1>6. \A x \in Watched : unrel[x] \in Seq(StateMsg)
  BY DEF IInv, Typed
<1>7. Typed'
  BY <1>1, <1>5 DEF IInv, Typed
<1>8. PeersOK'
  BY <1>1 DEF IInv, PeersOK
<1>9. RatesOK'
  BY <1>1 DEF IInv, RatesOK, Rated
<1>10. Fresh \subseteq truth
  <2>1. \A s \in Fresh : s \in State /\ s # NoState
    BY FreshStates, NoStateAssumption DEF IInv, OnePerPlayer
  <2> QED
    BY <1>3, <2>1 DEF IInv, TruthOK
<1>11. TruthOK'
  <2>1. ASSUME NEW x \in Watched
        PROVE  \A i \in 1..Len(unrel'[x]) : unrel'[x][i].players \subseteq truth
    <3>1. \A i \in 1..Len(unrel[x]) : unrel[x][i].players \subseteq truth
      BY DEF IInv, TruthOK, NoImpersonation
    <3>2. \A i \in 1..Len(f[x]) : f[x][i].players \subseteq truth
      <4>1. CASE x \in DOMAIN members
        BY <1>2, <1>4, <1>10, <4>1
      <4>2. CASE x \notin DOMAIN members
        <5>1. f[x] = <<>> /\ Len(<<>>) = 0
          BY <1>4, <4>2
        <5> QED
          BY <5>1
      <4> QED
        BY <4>1, <4>2
    <3>3. \A i \in 1..Len(unrel[x] \o f[x]) :
            (unrel[x] \o f[x])[i].players \subseteq truth
      BY <1>4, <1>6, <3>1, <3>2, PlayersJoin
    <3> QED
      BY <1>5, <3>3
  <2> QED
    BY <1>1, <2>1 DEF IInv, TruthOK, NoImpersonation
<1>12. FeedsOK'
  <2>1. ASSUME NEW x \in Watched, x \in DOMAIN members
        PROVE  FeedOK(unrel[x], members[x].id.pid)'
    <3> DEFINE q == unrel[x]
               me == members[x].id.pid
               r == q \o b
    <3>1. /\ FeedOK(q, me) /\ q \in Seq(StateMsg) /\ unrel'[x] = r
      BY <1>4, <1>5, <1>6, <2>1 DEF IInv, FeedsOK
    <3> HIDE DEF q
    <3>2. \A i \in 1..Len(r) : \A s \in r[i].players : s.pid < nextPlayer
      <4> DEFINE T == {s \in State : s.pid < nextPlayer}
      <4>1. \A i \in 1..Len(q) : q[i].players \subseteq T
        <5>1. \A i \in 1..Len(q) : q[i].players \subseteq State
          <6>1. \A i \in 1..Len(q) : q[i] \in StateMsg
            BY <3>1, ElementOfSeq
          <6> QED
            BY <6>1 DEF StateMsg
        <5> QED
          BY <3>1, <5>1 DEF FeedOK
      <4>2. Fresh \subseteq T
        <5>1. Fresh \subseteq State
          BY FreshStates DEF IInv, OnePerPlayer
        <5> QED
          BY <1>3, <5>1 DEF IInv, PeersOK
      <4>3. \A i \in 1..Len(b) : b[i].players \subseteq T
        BY <1>2, <4>2
      <4>4. \A i \in 1..Len(r) : r[i].players \subseteq T
        <5> HIDE DEF T
        <5> QED
          BY <1>2, <3>1, <4>1, <4>3, PlayersJoin
      <4> QED
        BY <4>4
    <3>3. ASSUME NEW d \in DOMAIN members, NEW k \in 1..Len(b)
          PROVE  About(b[k], members[d].id.pid) \subseteq {members[d].latest}
      <4>1. \A s \in Fresh : s.pid = members[d].id.pid => s = members[d].latest
        BY <1>3 DEF IInv, PeersOK
      <4> QED
        BY <1>2, <4>1 DEF About
    <3>4. ASSUME NEW d \in DOMAIN members, members[d].id.pid # me
          PROVE  /\ LastIs(r, members[d].id.pid, members[d].latest)
                 /\ Ordered(r, members[d].id.pid)
      <4> DEFINE pid == members[d].id.pid
                 last == members[d].latest
      <4>1. pid \in Nat
        BY DEF IInv, Typed, Peer, Identity
      <4>2. Ordered(q, pid) /\ LastIs(q, pid, last)
        BY <3>1, <3>4, <4>1 DEF FeedOK
      <4>3. \A k \in 1..Len(b) :
              b[k].type = "snapshot" /\ About(b[k], pid) \subseteq {last}
        BY <1>2, <3>3
      <4> HIDE DEF pid, last
      <4>4. Ordered(r, pid) /\ LastIs(r, pid, last)
        BY <1>2, <3>1, <4>2, <4>3, FeedSnapshot
      <4> QED
        BY <4>4 DEF pid, last
    <3>5. ASSUME NEW pid \in Nat \ {me}
          PROVE  Ordered(r, pid)
      <4>1. CASE \E d \in DOMAIN members : members[d].id.pid = pid
        BY <3>4, <4>1
      <4>2. CASE \A d \in DOMAIN members : members[d].id.pid # pid
        <5>1. \A k \in 1..Len(b) : About(b[k], pid) = {}
          BY <1>2, <1>3, <4>2 DEF About
        <5>2. Ordered(q, pid)
          BY <3>1 DEF FeedOK
        <5>3. Ordered(b, pid)
          BY <5>1 DEF Ordered
        <5> QED
          BY <1>2, <3>1, <5>1, <5>2, <5>3, OrderedConcat
      <4> QED
        BY <4>1, <4>2
    <3> HIDE DEF r
    <3> QED
      BY <1>1, <3>1, <3>2, <3>4, <3>5 DEF FeedOK
  <2>2. ASSUME NEW x \in Watched, x \in registered, x \notin DOMAIN members
        PROVE  unrel'[x] = <<>>
    <3>1. unrel[x] = <<>> /\ f[x] = <<>>
      BY <1>4, <2>2 DEF IInv, FeedsOK
    <3>2. unrel'[x] = <<>> \o <<>>
      BY <1>5, <3>1
    <3> QED
      BY <3>2
  <2> QED
    BY <1>1, <2>1, <2>2 DEF FeedsOK
<1> QED
  BY <1>7, <1>8, <1>9, <1>11, <1>12 DEF IInv

LEMMA NextKeeps ==
  ASSUME IInv, [Next]_vars
  PROVE  IInv'
<1>1. ASSUME NEW c \in Conn, Join(c)
      PROVE  IInv'
  BY <1>1, ConnectKeeps, AcceptKeeps DEF Join
<1>2. ASSUME NEW c \in Conn, Leave(c)
      PROVE  IInv'
  BY <1>2, RemoveKeeps DEF Leave, TransportLost
<1>3. ASSUME Room(1), NEW c \in Conn, NEW st \in Claims, Send(c, st)
      PROVE  IInv'
  <2>1. CASE RejectSpoof(c, st) /\ UNCHANGED history
    BY <2>1, RemoveKeeps DEF RejectSpoof, history
  <2>2. CASE IgnoreState(c, st) /\ UNCHANGED history
    BY <2>2, IgnoreKeeps
  <2>3. CASE ~(UNCHANGED history /\ (RejectSpoof(c, st) \/ IgnoreState(c, st)))
    BY <1>3, <2>3, RelayKeeps DEF Send
  <2> QED
    BY <2>1, <2>2, <2>3
<1>4. CASE Room(Len(Chunks(Fresh))) /\ Tick /\ UNCHANGED history
  BY <1>4, TickKeeps
<1>5. CASE Advance /\ UNCHANGED history
  BY <1>5, AdvanceKeeps
<1>6. CASE \E c \in Watched : Take(c)
  BY <1>6, TakeKeeps
<1>7. CASE UNCHANGED vars
  BY <1>7 DEF vars, sessionVars, IInv, Typed, PeersOK, RatesOK, Rated, TruthOK,
              NoImpersonation, FeedsOK, FeedOK
<1> QED
  BY <1>1, <1>2, <1>3, <1>4, <1>5, <1>6, <1>7 DEF Next

(* The tables, the windows, the truth in flight and the feeds stay         *)
(* consistent through every handler of session.cpp that touches a state.   *)
THEOREM Invariance == Spec => []IInv
<1>1. Init => IInv
  BY InitHolds
<1>2. IInv /\ [Next]_vars => IInv'
  BY NextKeeps
<1> QED
  BY <1>1, <1>2, PTL DEF Spec

(* However the senders time their states, no window of the rate limit      *)
(* holds more than RateLimit accepted ones of one member: dropping only    *)
(* what left the window never forgets one that counts                      *)
(* (session.cpp:117-125).                                                  *)
THEOREM RateIsLimited == Spec => []RateBound
<1>1. IInv => RateBound
  BY DEF IInv, RatesOK, Spaced, RateBound
<1> QED
  BY <1>1, Invariance, PTL

(* Whatever a member claims, no one is sent a state of a player that the   *)
(* player did not send, by fan-out or by snapshot (session.cpp:111-115).   *)
THEOREM NeverImpersonated == Spec => []NoImpersonation
<1>1. IInv => NoImpersonation
  BY DEF IInv, TruthOK
<1> QED
  BY <1>1, Invariance, PTL

(* On a channel that keeps its order, whatever datagrams it loses, another *)
(* player's states only get newer and a snapshot at most repeats           *)
(* (session.cpp:126-145, 165-208).                                         *)
THEOREM FeedsKeepOrder == Spec => []FeedOrdered
<1>1. IInv => FeedOrdered
  <2> SUFFICES ASSUME IInv,
                      NEW c \in Watched \cap DOMAIN members,
                      NEW pid \in 1..MaxPlayerId \ {members[c].id.pid}
               PROVE  Ordered(unrel[c], pid)
    BY DEF FeedOrdered, Ordered, Follows
  <2> QED
    BY SessionAssumption DEF IInv, FeedsOK, FeedOK
<1> QED
  BY <1>1, Invariance, PTL

(* A snapshot carries every fresh player exactly once, in packets of at    *)
(* most ChunkSize, none of them needlessly empty, whatever the number of   *)
(* players (session.cpp:176-206).                                          *)
THEOREM SnapshotsAreComplete == Spec => []SnapshotComplete
<1>1. IInv => SnapshotComplete
  BY FreshStates, ChunksComplete DEF IInv, SnapshotComplete
<1> QED
  BY <1>1, Invariance, PTL
=============================================================================
