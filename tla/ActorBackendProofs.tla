-------------------------- MODULE ActorBackendProofs --------------------------
(***************************************************************************)
(* The remote actors, for any players, incarnations and sizes of the queue *)
(* and the tables: the slots follow the sidecar's commands, no state gets  *)
(* into another life than its own, the detours know what the slots hold,   *)
(* frame writes go to vehicles that are there, and nothing the bridge made *)
(* the game create is forgotten or saved.                                  *)
(*                                                                         *)
(* The invariant (AInv) follows a life from one end to the other.  On the  *)
(* sender's side it says which lives the queue has been told of (Pushed,   *)
(* Fetched); in the queue, that the pending controls lead the slots from   *)
(* the lives they have to those (Path, Followed) and that only states of   *)
(* those lives wait in the rings (Rings); on the game's side, what the     *)
(* slots, the tables of the detours and the game have in common (Sound,    *)
(* Distinct).  In safe mode only the game's side remains.                  *)
(*                                                                         *)
(* apply_batch is two folds; what they do is shown by induction over the   *)
(* number of commands applied, for sets of numbers (Ascent).  What a tick  *)
(* does is shown visit by visit: each changes one slot (Visited) and keeps *)
(* the actors of the others (Lasts); safe mode, saving and the reset of    *)
(* the registry change all of them at once (Swept).                        *)
(***************************************************************************)
EXTENDS ActorBackend, FiniteSetTheorems, SequenceTheorems,
        WellFoundedInduction, TLAPS

-----------------------------------------------------------------------------
(* Induction over the naturals, for sets of them, and loops.               *)

\* A set of naturals has a least element.
LEMMA LeastNatural ==
  ASSUME NEW S, S \subseteq Nat, S # {}
  PROVE  Min(S) \in S /\ \A x \in S : Min(S) <= x
<1> DEFINE R == {ss \in Nat \X Nat : ss[1] < ss[2]}
<1>1. IsWellFoundedOn(R, Nat)
  BY NatLessThanWellFounded DEF OpToRel
<1>2. PICK x \in S : \A y \in S : ~(<<y, x>> \in R)
  <2> HIDE DEF R
  <2> QED
    BY <1>1, WFMin
<1>3. x \in Nat /\ \A y \in S : y \in Nat /\ ~(y < x)
  BY <1>2
<1>4. \A y \in S : x <= y
  BY <1>3
<1>5. \E m \in S : \A y \in S : m <= y
  BY <1>4
<1> QED
  BY <1>5, Zenon DEF Min

\* What holds of 0, and of n + 1 if it holds of n below m, holds up to m.
LEMMA Ascent ==
  ASSUME NEW m \in Nat, NEW S, 0 \in S, \A n \in 0..(m - 1) : n \in S => n + 1 \in S
  PROVE  0..m \subseteq S
<1> DEFINE T == (0..m) \ S
<1> SUFFICES ASSUME T # {}
             PROVE  FALSE
  OBVIOUS
<1>1. T \subseteq Nat
  OBVIOUS
<1>2. Min(T) \in T /\ \A x \in T : Min(T) <= x
  <2> HIDE DEF T
  <2> QED
    BY <1>1, LeastNatural
<1>3. PICK x \in T : \A y \in T : x <= y
  BY <1>2
<1>4. x - 1 \in 0..(m - 1) /\ x = (x - 1) + 1 /\ ~(x <= x - 1)
  <2>1. x # 0 /\ x \in 0..m
    OBVIOUS
  <2> QED
    BY <2>1
<1>5. x - 1 \in S
  BY <1>3, <1>4
<1> QED
  BY <1>4, <1>5

\* The largest of 1..n.
LEMMA Largest ==
  ASSUME NEW n \in Nat, NEW t \in SUBSET (1..(n + 1)), n + 1 \in t
  PROVE  Max(t) = n + 1
<1>1. \A y \in t : n + 1 >= y
  OBVIOUS
<1>2. \A x \in t : (\A y \in t : x >= y) => x = n + 1
  OBVIOUS
<1> QED
  BY <1>1, <1>2 DEF Max

\* The table of a loop over 1..n from b, with body G, within A.
Table(n, b, G, it) ==
  it = [t \in SUBSET (1..n) |->
          IF t = {} THEN b ELSE G[<<Max(t), it[t \ {Max(t)}]>>]]

\* There is one.
LEMMA Tables ==
  ASSUME NEW n \in Nat, NEW A, NEW b \in A, NEW G,
         \A i \in 1..n, a \in A : G[<<i, a>>] \in A
  PROVE  \E it \in [SUBSET (1..n) -> A] : Table(n, b, G, it)
<1> DEFINE Has(k) == \E it \in [SUBSET (1..k) -> A] : Table(k, b, G, it)
           S == {k \in 0..n : Has(k)}
<1>1. 0 \in S
  <2> DEFINE it == [t \in SUBSET (1..0) |-> b]
  <2>1. 1..0 = {}
    OBVIOUS
  <2>2. it \in [SUBSET (1..0) -> A] /\ Table(0, b, G, it)
    BY <2>1 DEF Table
  <2> QED
    BY <2>2
<1>2. ASSUME NEW k \in 0..(n - 1), k \in S
      PROVE  k + 1 \in S
  <2>1. PICK it \in [SUBSET (1..k) -> A] : Table(k, b, G, it)
    BY <1>2
  <2> DEFINE new == [t \in SUBSET (1..(k + 1)) |->
                       IF k + 1 \in t THEN G[<<k + 1, it[t \ {k + 1}]>>]
                                      ELSE it[t]]
  <2>2. \A t \in SUBSET (1..(k + 1)) :
           /\ k + 1 \in t => t \ {k + 1} \in SUBSET (1..k)
           /\ k + 1 \notin t => t \in SUBSET (1..k)
    OBVIOUS
  <2>3. new \in [SUBSET (1..(k + 1)) -> A]
    BY <2>2, <1>2
  <2>4. ASSUME NEW t \in SUBSET (1..(k + 1))
        PROVE  new[t] = IF t = {} THEN b ELSE G[<<Max(t), new[t \ {Max(t)}]>>]
    <3>1. CASE k + 1 \in t
      <4>1. Max(t) = k + 1
        BY <3>1, Largest
      <4>2. t \ {k + 1} \in SUBSET (1..(k + 1)) /\ k + 1 \notin t \ {k + 1}
        OBVIOUS
      <4>3. new[t \ {k + 1}] = it[t \ {k + 1}]
        BY <4>2
      <4>4. new[t] = G[<<k + 1, it[t \ {k + 1}]>>]
        BY <3>1
      <4> QED
        BY <3>1, <4>1, <4>3, <4>4
    <3>2. CASE k + 1 \notin t
      <4>1. t \in SUBSET (1..k) /\ new[t] = it[t]
        BY <2>2, <3>2
      <4>2. it[t] = IF t = {} THEN b ELSE G[<<Max(t), it[t \ {Max(t)}]>>]
        BY <2>1, <4>1 DEF Table
      <4>3. t \ {Max(t)} \in SUBSET (1..(k + 1)) /\ k + 1 \notin t \ {Max(t)}
        BY <3>2
      <4>4. new[t \ {Max(t)}] = it[t \ {Max(t)}]
        BY <4>3
      <4> QED
        BY <4>1, <4>2, <4>4
    <3> QED
      BY <3>1, <3>2
  <2>5. Table(k + 1, b, G, new)
    <3>1. new = [t \in SUBSET (1..(k + 1)) |-> new[t]]
      OBVIOUS
    <3> HIDE DEF new
    <3> QED
      BY <2>4, <3>1 DEF Table
  <2>6. Has(k + 1)
    BY <2>3, <2>5
  <2> QED
    BY <2>6
<1>3. \A k \in 0..(n - 1) : k \in S => k + 1 \in S
  BY <1>2
<1>4. 0..n \subseteq S
  <2> HIDE DEF S
  <2> QED
    BY <1>1, <1>3, Ascent
<1>5. n \in S
  <2> HIDE DEF S
  <2> QED
    BY <1>4
<1> QED
  BY <1>5

\* A nonempty set below n + 1 has its largest.
LEMMA LargestIn ==
  ASSUME NEW n \in Nat, NEW t \in SUBSET (1..n), t # {}
  PROVE  Max(t) \in t
<1> DEFINE T == {m \in 0..n : n - m \in t}
<1>1. PICK z \in t : TRUE
  OBVIOUS
<1>2. z \in 1..n /\ n - z \in 0..n /\ n - (n - z) = z
  OBVIOUS
<1>3. T \subseteq Nat /\ n - z \in T
  BY <1>1, <1>2
<1>4. PICK m \in T : \A x \in T : m <= x
  <2> HIDE DEF T
  <2> QED
    BY <1>3, LeastNatural
<1>5. m \in 0..n /\ n - m \in t
  BY <1>4
<1>6. ASSUME NEW y \in t
      PROVE  n - m >= y
  <2>1. y \in 1..n /\ n - y \in 0..n /\ n - (n - y) = y
    OBVIOUS
  <2>2. m <= n - y
    BY <1>4, <2>1
  <2> QED
    BY <1>5, <2>1, <2>2
<1>7. \E x \in t : \A y \in t : x >= y
  BY <1>5, <1>6
<1> QED
  BY <1>7, Zenon DEF Max

\* The sets that a loop over 1..n looks at.
LEMMA UpTo ==
  ASSUME NEW n \in Nat
  PROVE  /\ 1..0 = {}
         /\ \A i \in 0..n : 1..i \in SUBSET (1..n)
         /\ \A i \in 1..n : 1..i # {} /\ Max(1..i) = i /\ (1..i) \ {i} = 1..(i - 1)
<1>1. ASSUME NEW i \in 1..n
      PROVE  1..i # {} /\ Max(1..i) = i /\ (1..i) \ {i} = 1..(i - 1)
  <2>1. /\ 1..i \in SUBSET (1..((i - 1) + 1)) /\ i \in 1..i
        /\ i - 1 \in Nat /\ i = (i - 1) + 1 /\ (1..i) \ {i} = 1..(i - 1)
    OBVIOUS
  <2>2. Max(1..i) = i
    BY <2>1, Largest
  <2> QED
    BY <2>1, <2>2
<1> QED
  BY <1>1

-----------------------------------------------------------------------------
(* The two loops of apply_batch.                                           *)

Slots == UNION {[D -> Slot] : D \in SUBSET Key}

\* What the loop over the controls works on.
Acc == [slots : Slots, dead : SUBSET Key, full : BOOLEAN]

\* The loop over the controls runs (remote_actor_backend.cpp:1105-1136).
LEMMA ControlLoop ==
  ASSUME NEW s \in Seq(Spawn \cup Despawn), NEW b \in Acc,
         \A c \in Spawn \cup Despawn, a \in Acc : Control(a, c) \in Acc
  PROVE  \E r : /\ r[0] = b /\ r[Len(s)] = FoldLeft(Control, b, s)
                /\ \A i \in 1..Len(s) : r[i] = Control(r[i - 1], s[i])
                /\ \A i \in 0..Len(s) : r[i] \in Acc
<1> DEFINE n == Len(s)
           G == [p \in (1..n) \X Acc |-> Control(p[2], s[p[1]])]
           Runs(it) == it = [t \in SUBSET (DOMAIN s) |->
                         IF t = {} THEN b
                         ELSE Control(it[t \ {Max(t)}], s[Max(t)])]
           it == CHOOSE f : Runs(f)
           r == [i \in 0..n |-> it[1..i]]
<1>1. n \in Nat /\ DOMAIN s = 1..n /\ \A i \in 1..n : s[i] \in Spawn \cup Despawn
  BY LenProperties, ElementOfSeq
<1>2. \A i \in 1..n, a \in Acc : G[<<i, a>>] = Control(a, s[i]) /\ G[<<i, a>>] \in Acc
  BY <1>1
<1>3. PICK f \in [SUBSET (1..n) -> Acc] : Table(n, b, G, f)
  <2> HIDE DEF G, n
  <2> QED
    BY <1>1, <1>2, Tables
<1>4. Runs(f)
  <2>1. ASSUME NEW t \in SUBSET (1..n)
        PROVE  f[t] = IF t = {} THEN b ELSE Control(f[t \ {Max(t)}], s[Max(t)])
    <3> HIDE DEF G
    <3>1. f[t] = IF t = {} THEN b ELSE G[<<Max(t), f[t \ {Max(t)}]>>]
      BY <1>3 DEF Table
    <3>2. t # {} => Max(t) \in 1..n /\ f[t \ {Max(t)}] \in Acc
      BY <1>1, <1>3, LargestIn
    <3> QED
      BY <1>2, <3>1, <3>2
  <2>2. f = [t \in SUBSET (1..n) |-> f[t]]
    BY <1>3
  <2> HIDE DEF n
  <2> QED
    BY <1>1, <2>1, <2>2
<1>5. Runs(it)
  <2> HIDE DEF Runs
  <2> QED
    BY <1>4
<1>6. it[{}] = b /\ \A t \in SUBSET (1..n) : t # {} =>
                        it[t] = Control(it[t \ {Max(t)}], s[Max(t)])
  <2> HIDE DEF it, n
  <2> QED
    BY <1>1, <1>5
<1>7. FoldLeft(Control, b, s) = it[1..n]
  <2> HIDE DEF n
  <2>1. FoldLeft(Control, b, s) = it[DOMAIN s]
    BY DEF FoldLeft, MapThenFoldSet
  <2> QED
    BY <1>1, <2>1
<1> HIDE DEF it, G, n
<1>8. r[0] = b /\ r[n] = it[1..n]
  BY <1>1, <1>6, UpTo
<1>9. ASSUME NEW i \in 1..n
      PROVE  r[i] = Control(r[i - 1], s[i])
  <2>1. /\ 1..i \in SUBSET (1..n) /\ 1..i # {} /\ Max(1..i) = i
        /\ (1..i) \ {i} = 1..(i - 1) /\ i \in 0..n /\ i - 1 \in 0..n
    BY <1>1, UpTo
  <2> QED
    BY <1>6, <2>1
<1> HIDE DEF r
<1>10. \A i \in 0..n : r[i] \in Acc
  <2> DEFINE S == {i \in 0..n : r[i] \in Acc}
  <2>1. 0 \in S
    BY <1>1, <1>8
  <2>2. ASSUME NEW i \in 0..(n - 1), i \in S
        PROVE  i + 1 \in S
    <3>1. i + 1 \in 1..n /\ i + 1 \in 0..n /\ (i + 1) - 1 = i
      BY <1>1
    <3> QED
      BY <1>1, <1>9, <2>2, <3>1
  <2>3. \A i \in 0..(n - 1) : i \in S => i + 1 \in S
    BY <2>2
  <2>4. 0..n \subseteq S
    <3> HIDE DEF S
    <3> QED
      BY <1>1, <2>1, <2>3, Ascent
  <2> QED
    BY <2>4
<1> QED
  BY <1>7, <1>8, <1>9, <1>10 DEF n

\* So does the loop over the states of one slot (remote_actor_backend.cpp:1137-1161).
LEMMA StateLoop ==
  ASSUME NEW s \in Seq(Sample), NEW b \in Slot,
         \A c \in Sample, a \in Slot : Absorb(a, c) \in Slot
  PROVE  \E r : /\ r[0] = b /\ r[Len(s)] = FoldLeft(Absorb, b, s)
                /\ \A i \in 1..Len(s) : r[i] = Absorb(r[i - 1], s[i])
                /\ \A i \in 0..Len(s) : r[i] \in Slot
<1> DEFINE n == Len(s)
           G == [p \in (1..n) \X Slot |-> Absorb(p[2], s[p[1]])]
           Runs(it) == it = [t \in SUBSET (DOMAIN s) |->
                         IF t = {} THEN b
                         ELSE Absorb(it[t \ {Max(t)}], s[Max(t)])]
           it == CHOOSE f : Runs(f)
           r == [i \in 0..n |-> it[1..i]]
<1>1. n \in Nat /\ DOMAIN s = 1..n /\ \A i \in 1..n : s[i] \in Sample
  BY LenProperties, ElementOfSeq
<1>2. \A i \in 1..n, a \in Slot : G[<<i, a>>] = Absorb(a, s[i]) /\ G[<<i, a>>] \in Slot
  BY <1>1
<1>3. PICK f \in [SUBSET (1..n) -> Slot] : Table(n, b, G, f)
  <2> HIDE DEF G, n
  <2> QED
    BY <1>1, <1>2, Tables
<1>4. Runs(f)
  <2>1. ASSUME NEW t \in SUBSET (1..n)
        PROVE  f[t] = IF t = {} THEN b ELSE Absorb(f[t \ {Max(t)}], s[Max(t)])
    <3> HIDE DEF G
    <3>1. f[t] = IF t = {} THEN b ELSE G[<<Max(t), f[t \ {Max(t)}]>>]
      BY <1>3 DEF Table
    <3>2. t # {} => Max(t) \in 1..n /\ f[t \ {Max(t)}] \in Slot
      BY <1>1, <1>3, LargestIn
    <3> QED
      BY <1>2, <3>1, <3>2
  <2>2. f = [t \in SUBSET (1..n) |-> f[t]]
    BY <1>3
  <2> HIDE DEF n
  <2> QED
    BY <1>1, <2>1, <2>2
<1>5. Runs(it)
  <2> HIDE DEF Runs
  <2> QED
    BY <1>4
<1>6. it[{}] = b /\ \A t \in SUBSET (1..n) : t # {} =>
                        it[t] = Absorb(it[t \ {Max(t)}], s[Max(t)])
  <2> HIDE DEF it, n
  <2> QED
    BY <1>1, <1>5
<1>7. FoldLeft(Absorb, b, s) = it[1..n]
  <2> HIDE DEF n
  <2>1. FoldLeft(Absorb, b, s) = it[DOMAIN s]
    BY DEF FoldLeft, MapThenFoldSet
  <2> QED
    BY <1>1, <2>1
<1> HIDE DEF it, G, n
<1>8. r[0] = b /\ r[n] = it[1..n]
  BY <1>1, <1>6, UpTo
<1>9. ASSUME NEW i \in 1..n
      PROVE  r[i] = Absorb(r[i - 1], s[i])
  <2>1. /\ 1..i \in SUBSET (1..n) /\ 1..i # {} /\ Max(1..i) = i
        /\ (1..i) \ {i} = 1..(i - 1) /\ i \in 0..n /\ i - 1 \in 0..n
    BY <1>1, UpTo
  <2> QED
    BY <1>6, <2>1
<1> HIDE DEF r
<1>10. \A i \in 0..n : r[i] \in Slot
  <2> DEFINE S == {i \in 0..n : r[i] \in Slot}
  <2>1. 0 \in S
    BY <1>1, <1>8
  <2>2. ASSUME NEW i \in 0..(n - 1), i \in S
        PROVE  i + 1 \in S
    <3>1. i + 1 \in 1..n /\ i + 1 \in 0..n /\ (i + 1) - 1 = i
      BY <1>1
    <3> QED
      BY <1>1, <1>9, <2>2, <3>1
  <2>3. \A i \in 0..(n - 1) : i \in S => i + 1 \in S
    BY <2>2
  <2>4. 0..n \subseteq S
    <3> HIDE DEF S
    <3> QED
      BY <1>1, <2>1, <2>3, Ascent
  <2> QED
    BY <2>4
<1> QED
  BY <1>7, <1>8, <1>9, <1>10 DEF n

-----------------------------------------------------------------------------
(* What one control command does.                                          *)

LEMMA WithoutDoes ==
  ASSUME NEW acc \in Acc, NEW dead, DOMAIN slots \in SUBSET Key
  PROVE  /\ Without(acc, dead) \in Acc
         /\ DOMAIN Without(acc, dead).slots = DOMAIN acc.slots \ dead
         /\ \A k \in DOMAIN acc.slots \ dead :
               Without(acc, dead).slots[k] = acc.slots[k]
         /\ Without(acc, dead).dead = acc.dead \cup (dead \cap DOMAIN slots)
         /\ Without(acc, dead).full = acc.full
<1> DEFINE D == DOMAIN acc.slots \ dead
           left == Restrict(acc.slots, D)
           gone == acc.dead \cup (dead \cap DOMAIN slots)
<1>1. acc.slots \in Slots /\ acc.dead \in SUBSET Key /\ acc.full \in BOOLEAN
  BY DEF Acc
<1>2. DOMAIN acc.slots \in SUBSET Key /\ \A k \in DOMAIN acc.slots : acc.slots[k] \in Slot
  BY <1>1 DEF Slots
<1>3. /\ Without(acc, dead).slots = left /\ Without(acc, dead).dead = gone
      /\ Without(acc, dead).full = acc.full
      /\ Without(acc, dead) = [slots |-> left, dead |-> gone, full |-> acc.full]
  <2>1. Without(acc, dead) = [acc EXCEPT !.slots = left, !.dead = gone]
    BY DEF Without
  <2> HIDE DEF left, gone
  <2> QED
    BY <2>1 DEF Acc
<1>4. left \in [D -> Slot] /\ D \in SUBSET Key
  BY <1>2 DEF Restrict
<1>5. left \in Slots /\ gone \in SUBSET Key
  BY <1>1, <1>4 DEF Slots
<1>6. Without(acc, dead) \in Acc
  BY <1>1, <1>3, <1>5 DEF Acc
<1>7. DOMAIN left = D /\ \A k \in D : left[k] = acc.slots[k]
  BY DEF Restrict
<1> HIDE DEF left, gone
<1> QED
  BY <1>3, <1>6, <1>7 DEF gone

\* The slots that a control command empties, and the others.
Dropped(acc, cmd) ==
  IF cmd.op = "despawn" THEN {cmd.key} \cap DOMAIN acc.slots
  ELSE {k \in DOMAIN acc.slots : k.pid = cmd.key.pid /\ k # cmd.key}

Survivors(acc, cmd) == DOMAIN acc.slots \ Dropped(acc, cmd)

\* A command was for nobody new, found no slot free, or gave one to its player.
Removes(acc, cmd, c) ==
  /\ DOMAIN c.slots = Survivors(acc, cmd)
  /\ c.full = acc.full
  /\ cmd.op = "spawn" => cmd.key \in DOMAIN acc.slots

Refuses(acc, cmd, c) == DOMAIN c.slots = Survivors(acc, cmd) /\ c.full = TRUE

Adds(acc, cmd, c) ==
  /\ cmd.op = "spawn" /\ cmd.key \notin DOMAIN acc.slots
  /\ DOMAIN c.slots = Survivors(acc, cmd) \cup {cmd.key}
  /\ c.slots[cmd.key] = FreshSlot(cmd.life)
  /\ c.full = acc.full
  /\ Cardinality(Survivors(acc, cmd)) # MaxSlots

LEMMA Fresh == \A life \in Life : FreshSlot(life) \in Slot
  BY DEF FreshSlot, Slot

LEMMA ControlDoes ==
  ASSUME NEW acc \in Acc, NEW cmd \in Spawn \cup Despawn, DOMAIN slots \in SUBSET Key
  PROVE  /\ Control(acc, cmd) \in Acc
         /\ Control(acc, cmd).dead =
              acc.dead \cup (Dropped(acc, cmd) \cap DOMAIN slots)
         /\ \A k \in Survivors(acc, cmd) :
              /\ k \in DOMAIN Control(acc, cmd).slots
              /\ Control(acc, cmd).slots[k] = acc.slots[k]
         /\ \/ Removes(acc, cmd, Control(acc, cmd))
            \/ Refuses(acc, cmd, Control(acc, cmd))
            \/ Adds(acc, cmd, Control(acc, cmd))
<1> DEFINE D == Dropped(acc, cmd)
           kept == Without(acc, D)
           S == Survivors(acc, cmd)
<1>1. /\ kept \in Acc /\ DOMAIN kept.slots = S
      /\ \A k \in S : kept.slots[k] = acc.slots[k]
      /\ kept.dead = acc.dead \cup (D \cap DOMAIN slots)
      /\ kept.full = acc.full
  BY WithoutDoes DEF Survivors
<1>2. /\ kept.slots \in Slots /\ kept.dead \in SUBSET Key /\ kept.full \in BOOLEAN
      /\ S \in SUBSET Key /\ \A k \in S : kept.slots[k] \in Slot
  BY <1>1 DEF Acc, Slots
<1>3. CASE cmd.op = "despawn"
  <2>1. Control(acc, cmd) = kept
    BY <1>3 DEF Control, Dropped
  <2> QED
    BY <1>1, <1>3, <2>1 DEF Removes
<1>4. CASE cmd.op = "spawn"
  <2>1. /\ cmd.key \in Key /\ cmd.life \in Life
    BY <1>4 DEF Spawn, Despawn
  <2>2. D = {k \in DOMAIN acc.slots : k.pid = cmd.key.pid /\ k # cmd.key}
    BY <1>4 DEF Dropped
  <2>3. cmd.key \in DOMAIN kept.slots <=> cmd.key \in DOMAIN acc.slots
    BY <1>1, <2>2 DEF Survivors
  <2> DEFINE full == [kept EXCEPT !.full = TRUE]
             more == [k \in S \cup {cmd.key} |->
                        IF k = cmd.key THEN FreshSlot(cmd.life) ELSE kept.slots[k]]
             new == [kept EXCEPT !.slots = more]
  <2>4. Control(acc, cmd) = IF cmd.key \in DOMAIN kept.slots THEN kept
                            ELSE IF Cardinality(DOMAIN kept.slots) = MaxSlots THEN full
                            ELSE new
    BY <1>1, <1>4, <2>2 DEF Control
  <2>5. CASE cmd.key \in DOMAIN kept.slots
    BY <1>1, <2>3, <2>4, <2>5 DEF Removes
  <2>6. CASE cmd.key \notin DOMAIN kept.slots /\ Cardinality(DOMAIN kept.slots) = MaxSlots
    <3>1. full \in Acc /\ full.slots = kept.slots /\ full.dead = kept.dead /\ full.full = TRUE
      <4> HIDE DEF kept
      <4> QED
        BY <1>1 DEF Acc
    <3>2. Control(acc, cmd) = full
      BY <2>4, <2>6
    <3> HIDE DEF kept, full
    <3> QED
      BY <1>1, <3>1, <3>2 DEF Refuses
  <2>7. CASE cmd.key \notin DOMAIN kept.slots /\ Cardinality(DOMAIN kept.slots) # MaxSlots
    <3>1. more \in [S \cup {cmd.key} -> Slot]
      <4> HIDE DEF kept
      <4> QED
        BY <1>2, <2>1, Fresh
    <3>2. more \in Slots
      BY <1>2, <2>1, <3>1 DEF Slots
    <3>3. new \in Acc /\ new.slots = more /\ new.dead = kept.dead /\ new.full = kept.full
      <4> HIDE DEF kept, more
      <4> QED
        BY <1>1, <3>2 DEF Acc
    <3>4. Control(acc, cmd) = new
      BY <2>4, <2>7
    <3>5. /\ DOMAIN more = S \cup {cmd.key} /\ more[cmd.key] = FreshSlot(cmd.life)
          /\ \A k \in S : more[k] = acc.slots[k]
      <4> HIDE DEF kept
      <4> QED
        BY <1>1, <2>7
    <3> HIDE DEF kept, more, new
    <3> QED
      BY <1>1, <1>4, <2>3, <2>7, <3>3, <3>4, <3>5 DEF Adds
  <2> QED
    BY <2>5, <2>6, <2>7
<1> QED
  BY <1>3, <1>4 DEF Spawn, Despawn

-----------------------------------------------------------------------------
(* What a batch does.                                                      *)

\* An identity and the life its slot has.
Lived(S) == {<<k, S[k].life>> : k \in DOMAIN S}

\* Slots that no command of a batch emptied are as they were, the others new.
Carried(acc) ==
  /\ acc.dead \subseteq DOMAIN slots
  /\ \A k \in DOMAIN slots \ acc.dead :
       k \in DOMAIN acc.slots /\ acc.slots[k] = slots[k]
  /\ \A k \in DOMAIN acc.slots :
       k \notin DOMAIN slots \/ k \in acc.dead =>
         \E life \in Life : acc.slots[k] = FreshSlot(life)

Fits(S) == IsFiniteSet(DOMAIN S) /\ Cardinality(DOMAIN S) <= MaxSlots

\* The lives after a command, of one who follows the sidecar.
Stepped(a, cmd, b) ==
  \/ /\ cmd.op = "spawn"
     /\ \A x \in a : x[1].pid # cmd.key.pid
     /\ b = a \cup {<<cmd.key, cmd.life>>}
  \/ /\ cmd.op = "despawn"
     /\ b = {x \in a : x[1] # cmd.key}

\* The slots are those lives, or some of them once a slot was missing.
Follows(acc, a) == Lived(acc.slots) \subseteq a /\ (acc.full \/ Lived(acc.slots) = a)

LEMMA ControlCarries ==
  ASSUME NEW acc \in Acc, NEW cmd \in Spawn \cup Despawn, DOMAIN slots \in SUBSET Key,
         Carried(acc)
  PROVE  Carried(Control(acc, cmd))
<1> DEFINE c == Control(acc, cmd)
           D == Dropped(acc, cmd)
           S == Survivors(acc, cmd)
<1>1. /\ c.dead = acc.dead \cup (D \cap DOMAIN slots)
      /\ \A k \in S : k \in DOMAIN c.slots /\ c.slots[k] = acc.slots[k]
      /\ \A k \in DOMAIN c.slots : k \in S \/ (Adds(acc, cmd, c) /\ k = cmd.key)
  <2>1. /\ c.dead = acc.dead \cup (D \cap DOMAIN slots)
        /\ \A k \in S : k \in DOMAIN c.slots /\ c.slots[k] = acc.slots[k]
        /\ Removes(acc, cmd, c) \/ Refuses(acc, cmd, c) \/ Adds(acc, cmd, c)
    BY ControlDoes
  <2>2. DOMAIN c.slots = S \/ (Adds(acc, cmd, c) /\ DOMAIN c.slots = S \cup {cmd.key})
    <3> HIDE DEF c
    <3> QED
      BY <2>1 DEF Removes, Refuses, Adds
  <2> HIDE DEF c, D, S
  <2> QED
    BY <2>1, <2>2
<1>2. S = DOMAIN acc.slots \ D
  BY DEF Survivors
<1> HIDE DEF c, D, S
<1>3. c.dead \subseteq DOMAIN slots
  BY <1>1 DEF Carried
<1>4. ASSUME NEW k \in DOMAIN slots \ c.dead
      PROVE  k \in DOMAIN c.slots /\ c.slots[k] = slots[k]
  <2>1. k \in S /\ acc.slots[k] = slots[k]
    BY <1>1, <1>2 DEF Carried
  <2> QED
    BY <1>1, <2>1
<1>5. ASSUME NEW k \in DOMAIN c.slots, k \notin DOMAIN slots \/ k \in c.dead
      PROVE  \E life \in Life : c.slots[k] = FreshSlot(life)
  <2>1. CASE k \in S
    <3>1. k \in DOMAIN acc.slots /\ (k \notin DOMAIN slots \/ k \in acc.dead)
      BY <1>1, <1>2, <1>5, <2>1
    <3> QED
      BY <1>1, <2>1, <3>1 DEF Carried
  <2>2. CASE Adds(acc, cmd, c) /\ k = cmd.key
    BY <2>2 DEF Adds, Spawn, Despawn
  <2> QED
    BY <1>1, <2>1, <2>2
<1>6. Carried(c)
  BY <1>3, <1>4, <1>5 DEF Carried
<1> QED
  BY <1>6 DEF c

LEMMA ControlFits ==
  ASSUME NEW acc \in Acc, NEW cmd \in Spawn \cup Despawn, DOMAIN slots \in SUBSET Key,
         Fits(acc.slots)
  PROVE  Fits(Control(acc, cmd).slots)
<1> DEFINE c == Control(acc, cmd)
           S == Survivors(acc, cmd)
<1>1. /\ IsFiniteSet(S) /\ Cardinality(S) <= Cardinality(DOMAIN acc.slots)
      /\ Cardinality(S) \in Nat /\ Cardinality(DOMAIN acc.slots) \in Nat
  <2>1. S \subseteq DOMAIN acc.slots
    BY DEF Survivors
  <2> QED
    BY <2>1, FS_Subset, FS_CardinalityType DEF Fits
<1>2. CASE DOMAIN c.slots = S
  BY <1>1, <1>2, BackendAssumption DEF Fits
<1>3. CASE DOMAIN c.slots = S \cup {cmd.key} /\ Cardinality(S) # MaxSlots
  <2>1. Cardinality(S) < MaxSlots
    BY <1>1, <1>3, BackendAssumption DEF Fits
  <2>2. /\ IsFiniteSet(S \cup {cmd.key})
        /\ Cardinality(S \cup {cmd.key}) = IF cmd.key \in S THEN Cardinality(S)
                                           ELSE Cardinality(S) + 1
    BY <1>1, FS_AddElement
  <2>3. Cardinality(S \cup {cmd.key}) <= MaxSlots
    BY <1>1, <2>1, <2>2, BackendAssumption
  <2> QED
    BY <1>3, <2>2, <2>3 DEF Fits
<1> QED
  BY <1>2, <1>3, ControlDoes DEF Removes, Refuses, Adds

LEMMA ControlFollows ==
  ASSUME NEW acc \in Acc, NEW cmd \in Spawn \cup Despawn, DOMAIN slots \in SUBSET Key,
         NEW a, NEW b, Follows(acc, a), Stepped(a, cmd, b)
  PROVE  Follows(Control(acc, cmd), b)
<1> DEFINE c == Control(acc, cmd)
           S == Survivors(acc, cmd)
           L == {<<k, acc.slots[k].life>> : k \in S}
<1>1. /\ \A k \in S : k \in DOMAIN c.slots /\ c.slots[k] = acc.slots[k]
      /\ S \subseteq DOMAIN acc.slots
      /\ \/ Removes(acc, cmd, c) \/ Refuses(acc, cmd, c) \/ Adds(acc, cmd, c)
  BY ControlDoes DEF Survivors
<1>2. Lived(acc.slots) \subseteq a /\ (acc.full \/ Lived(acc.slots) = a)
  BY DEF Follows
<1> SUFFICES Follows(c, b)
  OBVIOUS
<1> HIDE DEF c
<1>3. CASE cmd.op = "despawn"
  <2>1. b = {x \in a : x[1] # cmd.key} /\ S = DOMAIN acc.slots \ {cmd.key}
    BY <1>3 DEF Stepped, Survivors, Dropped
  <2>2. DOMAIN c.slots = S /\ (c.full = acc.full \/ c.full = TRUE)
    BY <1>1, <1>3 DEF Removes, Refuses, Adds
  <2>3. Lived(c.slots) = L
    BY <1>1, <2>2 DEF Lived
  <2>4. L = {x \in Lived(acc.slots) : x[1] # cmd.key}
    BY <2>1 DEF Lived
  <2> HIDE DEF L, S
  <2> QED
    BY <1>2, <2>1, <2>2, <2>3, <2>4 DEF Follows
<1>4. CASE cmd.op = "spawn"
  <2>1. (\A x \in a : x[1].pid # cmd.key.pid) /\ b = a \cup {<<cmd.key, cmd.life>>}
    BY <1>4 DEF Stepped
  <2>2. ASSUME NEW k \in DOMAIN acc.slots
        PROVE  k.pid # cmd.key.pid
    <3>1. <<k, acc.slots[k].life>> \in a
      BY <1>2 DEF Lived
    <3> QED
      BY <2>1, <3>1
  <2>3. S = DOMAIN acc.slots /\ cmd.key \notin DOMAIN acc.slots
    BY <1>4, <2>2 DEF Survivors, Dropped
  <2>4. L = Lived(acc.slots)
    BY <2>3 DEF Lived
  <2>5. CASE Refuses(acc, cmd, c)
    <3>1. Lived(c.slots) = L
      BY <1>1, <2>5 DEF Lived, Refuses
    <3> HIDE DEF L
    <3> QED
      BY <1>2, <2>1, <2>4, <2>5, <3>1 DEF Follows, Refuses
  <2>6. CASE Adds(acc, cmd, c)
    <3>1. c.slots[cmd.key].life = cmd.life
      BY <2>6 DEF Adds, FreshSlot
    <3>2. DOMAIN c.slots = S \cup {cmd.key} /\ c.full = acc.full
      BY <2>6 DEF Adds
    <3>3. Lived(c.slots) = L \cup {<<cmd.key, cmd.life>>}
      <4>1. Lived(c.slots) = {<<k, c.slots[k].life>> : k \in S}
                               \cup {<<cmd.key, c.slots[cmd.key].life>>}
        BY <3>2, Zenon DEF Lived
      <4>2. {<<k, c.slots[k].life>> : k \in S} = L
        BY <1>1
      <4> QED
        BY <3>1, <4>1, <4>2
    <3> HIDE DEF L
    <3> QED
      BY <1>2, <2>1, <2>4, <3>2, <3>3 DEF Follows
  <2> QED
    BY <1>1, <1>4, <2>3, <2>5, <2>6 DEF Removes
<1> QED
  BY <1>3, <1>4 DEF Spawn, Despawn

\* The commands of q lead from the lives a to the lives z.
Path(q, a, z) ==
  \E h \in [0..Len(q) -> SUBSET (Key \X Life)] :
    /\ h[0] = a /\ h[Len(q)] = z
    /\ \A i \in 1..Len(q) : Stepped(h[i - 1], q[i], h[i])

Base == [slots |-> slots, dead |-> {}, full |-> FALSE]

\* The controls of a batch (remote_actor_backend.cpp:1105-1136).
LEMMA ControlsDo ==
  ASSUME DOMAIN slots \in SUBSET Key, slots \in Slots, Fits(slots),
         controls \in Seq(Spawn \cup Despawn)
  PROVE  /\ FoldLeft(Control, Base, controls) \in Acc
         /\ Carried(FoldLeft(Control, Base, controls))
         /\ Fits(FoldLeft(Control, Base, controls).slots)
         /\ \A z : Path(controls, Lived(slots), z)
                     => Follows(FoldLeft(Control, Base, controls), z)
<1> DEFINE n == Len(controls)
<1>1. Base \in Acc /\ Base.slots = slots /\ Base.dead = {} /\ Base.full = FALSE
  BY DEF Base, Acc
<1>2. Carried(Base) /\ Fits(Base.slots) /\ Follows(Base, Lived(slots))
  BY <1>1 DEF Carried, Follows
<1>3. \A c \in Spawn \cup Despawn, a \in Acc : Control(a, c) \in Acc
  BY ControlDoes
<1>4. PICK r : /\ r[0] = Base /\ r[n] = FoldLeft(Control, Base, controls)
               /\ \A i \in 1..n : r[i] = Control(r[i - 1], controls[i])
               /\ \A i \in 0..n : r[i] \in Acc
  <2>1. Base \in Acc
    BY <1>1
  <2> QED
    BY <1>3, <2>1, ControlLoop, Zenon
<1>5. n \in Nat /\ \A i \in 1..n : controls[i] \in Spawn \cup Despawn
  BY LenProperties, ElementOfSeq
<1> HIDE DEF n
<1>6. ASSUME NEW i \in 0..(n - 1)
      PROVE  /\ i + 1 \in 1..n /\ i \in 0..n /\ i + 1 \in 0..n
             /\ r[i + 1] = Control(r[i], controls[i + 1])
             /\ r[i] \in Acc /\ controls[i + 1] \in Spawn \cup Despawn
  <2>1. i + 1 \in 1..n /\ i \in 0..n /\ i + 1 \in 0..n /\ (i + 1) - 1 = i
    BY <1>5
  <2> QED
    BY <1>4, <1>5, <2>1
<1>7. Carried(r[n]) /\ Fits(r[n].slots)
  <2> DEFINE S == {i \in 0..n : Carried(r[i]) /\ Fits(r[i].slots)}
  <2>1. 0 \in S
    BY <1>2, <1>4, <1>5
  <2>2. ASSUME NEW i \in 0..(n - 1), i \in S
        PROVE  i + 1 \in S
    <3>1. Carried(r[i + 1]) /\ Fits(r[i + 1].slots)
      BY <1>6, <2>2, ControlCarries, ControlFits
    <3>2. i + 1 \in 0..n
      BY <1>6
    <3> QED
      BY <3>1, <3>2
  <2>3. \A i \in 0..(n - 1) : i \in S => i + 1 \in S
    BY <2>2
  <2>4. n \in S
    <3> HIDE DEF S
    <3>1. 0..n \subseteq S
      BY <1>5, <2>1, <2>3, Ascent
    <3> QED
      BY <1>5, <3>1
  <2> QED
    BY <2>4
<1>8. ASSUME NEW z, Path(controls, Lived(slots), z)
      PROVE  Follows(r[n], z)
  <2>1. PICK h : /\ h[0] = Lived(slots) /\ h[n] = z
                 /\ \A i \in 1..n : Stepped(h[i - 1], controls[i], h[i])
    BY <1>8 DEF Path, n
  <2> DEFINE S == {i \in 0..n : Follows(r[i], h[i])}
  <2>2. 0 \in S
    BY <1>2, <1>4, <1>5, <2>1
  <2>3. ASSUME NEW i \in 0..(n - 1), i \in S
        PROVE  i + 1 \in S
    <3>1. (i + 1) - 1 = i
      BY <1>5
    <3>2. Stepped(h[i], controls[i + 1], h[i + 1])
      BY <1>6, <2>1, <3>1
    <3>3. Follows(r[i], h[i])
      BY <2>3
    <3>4. Follows(Control(r[i], controls[i + 1]), h[i + 1])
      BY <1>6, <3>2, <3>3, ControlFollows
    <3>5. i + 1 \in 0..n /\ r[i + 1] = Control(r[i], controls[i + 1])
      BY <1>6
    <3> QED
      BY <3>4, <3>5
  <2>4. \A i \in 0..(n - 1) : i \in S => i + 1 \in S
    BY <2>3
  <2>5. n \in S
    <3> HIDE DEF S
    <3>1. 0..n \subseteq S
      BY <1>5, <2>2, <2>4, Ascent
    <3> QED
      BY <1>5, <3>1
  <2> QED
    BY <2>1, <2>5
<1> QED
  BY <1>4, <1>5, <1>7, <1>8

\* What no state changes in a slot.
Kept(s, t) ==
  /\ t.life = s.life /\ t.actor = s.actor /\ t.vehicle = s.vehicle
  /\ t.applied = s.applied /\ t.frame = s.frame /\ t.late = s.late

LEMMA AbsorbDoes ==
  ASSUME NEW s \in Slot, NEW st \in Sample
  PROVE  /\ Absorb(s, st) \in Slot /\ Kept(s, Absorb(s, st))
         /\ Absorb(s, st).state \in {s.state, st}
<1>1. s \in Slot /\ s.shown \in BOOLEAN
  BY DEF Slot
<1>2. CASE Absorb(s, st) = s
  BY <1>2 DEF Kept
<1>3. CASE Absorb(s, st) # s
  <2> DEFINE shown == s.shown /\ st.room # NoRoom
             t == [s EXCEPT !.state = st, !.shown = shown]
  <2>1. Absorb(s, st) = t
    BY <1>3 DEF Absorb
  <2>2. shown \in BOOLEAN
    BY <1>1
  <2>3. t \in Slot /\ Kept(s, t) /\ t.state = st
    <3> HIDE DEF shown
    <3> QED
      BY <1>1, <2>2 DEF Slot, Kept
  <2> HIDE DEF t
  <2> QED
    BY <2>1, <2>3
<1> QED
  BY <1>2, <1>3

\* The states of a batch for one slot (remote_actor_backend.cpp:1137-1161).
LEMMA StatesDo ==
  ASSUME NEW s \in Slot, NEW q \in Seq(Sample)
  PROVE  /\ FoldLeft(Absorb, s, q) \in Slot /\ Kept(s, FoldLeft(Absorb, s, q))
         /\ \/ FoldLeft(Absorb, s, q).state = s.state
            \/ \E i \in 1..Len(q) : FoldLeft(Absorb, s, q).state = q[i]
<1> DEFINE n == Len(q)
           From(t) == t.state = s.state \/ \E j \in 1..n : t.state = q[j]
<1>1. \A c \in Sample, a \in Slot : Absorb(a, c) \in Slot
  BY AbsorbDoes
<1>2. PICK r : /\ r[0] = s /\ r[n] = FoldLeft(Absorb, s, q)
               /\ \A i \in 1..n : r[i] = Absorb(r[i - 1], q[i])
               /\ \A i \in 0..n : r[i] \in Slot
  BY <1>1, StateLoop
<1>3. n \in Nat /\ \A i \in 1..n : q[i] \in Sample
  BY LenProperties, ElementOfSeq
<1> HIDE DEF n
<1> DEFINE S == {i \in 0..n : Kept(s, r[i]) /\ From(r[i])}
<1>4. 0 \in S
  BY <1>2, <1>3 DEF Kept
<1>5. ASSUME NEW i \in 0..(n - 1), i \in S
      PROVE  i + 1 \in S
  <2>1. i + 1 \in 1..n /\ i \in 0..n /\ i + 1 \in 0..n /\ (i + 1) - 1 = i
    BY <1>3
  <2>2. r[i + 1] = Absorb(r[i], q[i + 1]) /\ r[i] \in Slot /\ q[i + 1] \in Sample
    BY <1>2, <1>3, <2>1
  <2>3. Kept(r[i], r[i + 1]) /\ r[i + 1].state \in {r[i].state, q[i + 1]}
    BY <2>2, AbsorbDoes
  <2>4. Kept(s, r[i + 1])
    BY <1>5, <2>3 DEF Kept
  <2>5. From(r[i + 1])
    <3>1. i + 1 \in 1..n /\ From(r[i])
      BY <1>5, <2>1
    <3> QED
      BY <2>3, <3>1
  <2> QED
    BY <2>1, <2>4, <2>5
<1>6. \A i \in 0..(n - 1) : i \in S => i + 1 \in S
  BY <1>5
<1>7. n \in S
  <2> HIDE DEF S
  <2>1. 0..n \subseteq S
    BY <1>3, <1>4, <1>6, Ascent
  <2> QED
    BY <1>3, <2>1
<1> QED
  BY <1>2, <1>3, <1>7 DEF n

\* What the slots and the queue are between two steps.
Typed == DOMAIN slots \in SUBSET Key /\ slots \in Slots /\ Fits(slots)

\* A batch leaves the slots that no command emptied as they were but for their
\* state, and those it makes are fresh; a state is the old one or a queued one.
Batch(acc, fresh) ==
  /\ acc \in Acc
  /\ Fits(acc.slots)
  /\ acc.dead \subseteq DOMAIN slots
  /\ \A k \in DOMAIN slots \ acc.dead :
       k \in DOMAIN acc.slots /\ Kept(slots[k], acc.slots[k])
  /\ \A k \in DOMAIN acc.slots :
       k \notin DOMAIN slots \/ k \in acc.dead =>
         \E life \in Life : Kept(FreshSlot(life), acc.slots[k])
  /\ \A k \in DOMAIN acc.slots :
       \/ acc.slots[k].state = NoState
       \/ k \in DOMAIN slots /\ acc.slots[k].life = slots[k].life
                             /\ acc.slots[k].state = slots[k].state
       \/ fresh /\ k \in DOMAIN fifos
                /\ \E i \in 1..Len(fifos[k].ring) : acc.slots[k].state = fifos[k].ring[i]

LEMMA NothingDrained ==
  ASSUME Typed
  PROVE  Batch(Base, FALSE)
<1>1. Base \in Acc /\ Base.slots = slots /\ Base.dead = {}
  BY DEF Base, Acc, Typed
<1> QED
  BY <1>1 DEF Batch, Typed, Kept

\* apply_batch (remote_actor_backend.cpp:1100-1161).
LEMMA AppliedDoes ==
  ASSUME Typed, QueueTypeOK
  PROVE  /\ Batch(Applied, TRUE)
         /\ \A z : Path(controls, Lived(slots), z) => Follows(Applied, z)
<1> DEFINE acc == FoldLeft(Control, Base, controls)
           ring(k) == IF k \in DOMAIN fifos THEN fifos[k].ring ELSE <<>>
           T == [k \in DOMAIN acc.slots |-> FoldLeft(Absorb, acc.slots[k], ring(k))]
<1>1. /\ acc \in Acc /\ Carried(acc) /\ Fits(acc.slots)
      /\ \A z : Path(controls, Lived(slots), z) => Follows(acc, z)
  BY ControlsDo DEF Typed, QueueTypeOK
<1>2. Applied = [acc EXCEPT !.slots = T]
  BY DEF Applied, Base
<1>3. ASSUME NEW k \in Key
      PROVE  ring(k) \in Seq(Sample)
  <2>1. k \in DOMAIN fifos => fifos[k].ring \in Seq(Sample)
    BY DEF QueueTypeOK, Fifo
  <2> QED
    BY <2>1
<1> HIDE DEF acc, ring
<1>4. /\ acc.slots \in Slots /\ DOMAIN acc.slots \in SUBSET Key
      /\ \A k \in DOMAIN acc.slots : acc.slots[k] \in Slot
  BY <1>1 DEF Acc, Slots
<1>5. ASSUME NEW k \in DOMAIN acc.slots
      PROVE  /\ T[k] \in Slot /\ Kept(acc.slots[k], T[k])
             /\ \/ T[k].state = acc.slots[k].state
                \/ \E i \in 1..Len(ring(k)) : T[k].state = ring(k)[i]
  <2>1. T[k] = FoldLeft(Absorb, acc.slots[k], ring(k))
    OBVIOUS
  <2>2. acc.slots[k] \in Slot /\ ring(k) \in Seq(Sample)
    BY <1>3, <1>4
  <2> HIDE DEF T
  <2> QED
    BY <2>1, <2>2, StatesDo
<1>6. DOMAIN T = DOMAIN acc.slots /\ T \in [DOMAIN acc.slots -> Slot]
  <2>1. \A k \in DOMAIN acc.slots : T[k] \in Slot
    BY <1>5
  <2> QED
    BY <2>1
<1> HIDE DEF T
<1>7. /\ Applied.slots = T /\ Applied.dead = acc.dead /\ Applied.full = acc.full
      /\ Applied = [slots |-> T, dead |-> acc.dead, full |-> acc.full]
  BY <1>1, <1>2 DEF Acc
<1>8. Applied \in Acc
  <2>1. T \in Slots
    BY <1>4, <1>6 DEF Slots
  <2>2. acc.dead \in SUBSET Key /\ acc.full \in BOOLEAN
    BY <1>1 DEF Acc
  <2> QED
    BY <1>7, <2>1, <2>2 DEF Acc
<1>9. Batch(Applied, TRUE)
  <2>1. Applied.dead \subseteq DOMAIN slots /\ Fits(Applied.slots)
    BY <1>1, <1>6, <1>7 DEF Carried, Fits
  <2>2. ASSUME NEW k \in DOMAIN slots \ Applied.dead
        PROVE  k \in DOMAIN Applied.slots /\ Kept(slots[k], Applied.slots[k])
    <3>1. k \in DOMAIN acc.slots /\ acc.slots[k] = slots[k]
      BY <1>1, <1>7 DEF Carried
    <3> QED
      BY <1>5, <1>6, <1>7, <3>1
  <2>3. ASSUME NEW k \in DOMAIN Applied.slots, k \notin DOMAIN slots \/ k \in Applied.dead
        PROVE  \E life \in Life : Kept(FreshSlot(life), Applied.slots[k])
    <3>1. k \in DOMAIN acc.slots /\ (k \notin DOMAIN slots \/ k \in acc.dead)
      BY <1>6, <1>7, <2>3
    <3>2. PICK life \in Life : acc.slots[k] = FreshSlot(life)
      BY <1>1, <3>1 DEF Carried
    <3> QED
      BY <1>5, <1>7, <3>1, <3>2
  <2>4. ASSUME NEW k \in DOMAIN Applied.slots
        PROVE  \/ Applied.slots[k].state = NoState
               \/ k \in DOMAIN slots /\ Applied.slots[k].life = slots[k].life
                                     /\ Applied.slots[k].state = slots[k].state
               \/ TRUE /\ k \in DOMAIN fifos
                       /\ \E i \in 1..Len(fifos[k].ring) :
                            Applied.slots[k].state = fifos[k].ring[i]
    <3>1. k \in DOMAIN acc.slots /\ T[k].life = acc.slots[k].life
      BY <1>5, <1>6, <1>7 DEF Kept
    <3>2. CASE T[k].state = acc.slots[k].state /\ k \in DOMAIN slots \ acc.dead
      <4>1. acc.slots[k] = slots[k]
        BY <1>1, <3>2 DEF Carried
      <4> QED
        BY <1>7, <3>1, <3>2, <4>1
    <3>3. CASE T[k].state = acc.slots[k].state /\ ~(k \in DOMAIN slots \ acc.dead)
      <4>1. PICK life \in Life : acc.slots[k] = FreshSlot(life)
        BY <1>1, <3>1, <3>3 DEF Carried
      <4> QED
        BY <1>7, <3>3, <4>1 DEF FreshSlot
    <3>4. CASE \E i \in 1..Len(ring(k)) : T[k].state = ring(k)[i]
      <4>1. k \in DOMAIN fifos /\ ring(k) = fifos[k].ring
        <5>1. k \notin DOMAIN fifos => ring(k) = <<>>
          BY DEF ring
        <5>2. Len(<<>>) = 0
          OBVIOUS
        <5>3. k \in DOMAIN fifos
          BY <3>4, <5>1, <5>2
        <5> QED
          BY <5>3 DEF ring
      <4> QED
        BY <1>7, <3>4, <4>1
    <3> QED
      BY <1>5, <3>1, <3>2, <3>3, <3>4
  <2> QED
    BY <1>8, <2>1, <2>2, <2>3, <2>4 DEF Batch
<1>10. Lived(T) = Lived(acc.slots)
  <2>1. \A k \in DOMAIN acc.slots : T[k].life = acc.slots[k].life
    BY <1>5 DEF Kept
  <2> QED
    BY <1>6, <2>1 DEF Lived
<1> QED
  BY <1>1, <1>7, <1>9, <1>10 DEF Follows

-----------------------------------------------------------------------------
(* What a visit to one slot does.                                          *)

\* The binding of a slot, and what the detours see of all of them.
BindingOf(k) == [key |-> k, actor |-> slots[k].actor, vehicle |-> slots[k].vehicle]

Attaches == \A k \in DOMAIN slots : slots[k].vehicle # 0 => slots[k].actor # 0

Published ==
  /\ owned = ActorsOf(DOMAIN slots)
  /\ index = {<<b.actor, b.vehicle>> : b \in registry}
  /\ registry = {BindingOf(k) : k \in {q \in DOMAIN slots : slots[q].vehicle # 0}}
  /\ Attaches

Worldly ==
  DOMAIN world \subseteq 1..MaxActor /\ world \in [DOMAIN world -> 0..MaxVehicle]

\* The slot of k is left as s.
Visited(k, s) ==
  /\ k \in DOMAIN slots
  /\ s \in Slot /\ s.life = slots[k].life /\ s.state = slots[k].state
  /\ s.vehicle # 0 => s.actor # 0
  /\ s.actor \in {0, slots[k].actor} \/ s.actor \in Unused
  /\ slots' = [slots EXCEPT ![k] = s]
  /\ registry' = (registry \ BindingsOf({k})) \cup Bound(k, s)
  /\ Publish
  /\ UNCHANGED <<queueVars, peers, worker, room, archive>>
  /\ safe' \in BOOLEAN /\ (safe => safe')
  /\ todo' \subseteq todo

\* The game is left such that what the slots know of it stays true.
Lasts(k, s) ==
  /\ Worldly'
  /\ \A a \in DOMAIN world \ {slots[k].actor} :
       a \in DOMAIN world' /\ world'[a] = world[a]
  /\ ~safe' => todo \ {k} \subseteq todo'
  /\ s.frame /\ ~safe' /\ k \notin todo' =>
       s.actor \in DOMAIN world' /\ world'[s.actor] = s.vehicle
  /\ "acquire" \notin Faults /\ ~safe' =>
       \A a \in DOMAIN world' :
         a = s.actor \/ (a \in DOMAIN world /\ a # slots[k].actor)

\* erase_binding and destroy_game_actor reset what they should.
LEMMA SlotForms ==
  ASSUME NEW s \in Slot
  PROVE  /\ s.frame \in BOOLEAN /\ s.shown \in BOOLEAN /\ s.late \in BOOLEAN
         /\ s.actor \in Nat /\ s.vehicle \in Nat
         /\ [s EXCEPT !.frame = FALSE] \in Slot
         /\ Destroyed(s) \in Slot /\ Destroyed(s).life = s.life
         /\ Destroyed(s).state = s.state /\ Destroyed(s).actor = 0
         /\ Destroyed(s).vehicle = 0 /\ Destroyed(s).frame = FALSE
         /\ Unbound(s) \in Slot /\ Unbound(s).life = s.life
         /\ Unbound(s).state = s.state /\ Unbound(s).actor = s.actor
         /\ Unbound(s).vehicle = 0 /\ Unbound(s).frame = FALSE
         /\ Unbound(s).late = s.late /\ Unbound(s).shown = s.shown
<1>1. s.frame \in BOOLEAN /\ s.shown \in BOOLEAN /\ s.late \in BOOLEAN
  BY DEF Slot
<1>2. s.actor \in Nat /\ s.vehicle \in Nat /\ [s EXCEPT !.frame = FALSE] \in Slot
  BY DEF Slot
<1>3. /\ Unbound(s) \in Slot /\ Unbound(s).life = s.life
      /\ Unbound(s).state = s.state /\ Unbound(s).actor = s.actor
      /\ Unbound(s).vehicle = 0 /\ Unbound(s).frame = FALSE
      /\ Unbound(s).late = s.late /\ Unbound(s).shown = s.shown
  BY DEF Slot, Unbound
<1>4. /\ Destroyed(s) \in Slot /\ Destroyed(s).life = s.life
      /\ Destroyed(s).state = s.state /\ Destroyed(s).actor = 0
      /\ Destroyed(s).vehicle = 0 /\ Destroyed(s).frame = FALSE
  <2> DEFINE u == Unbound(s)
  <2>1. Destroyed(s) = [u EXCEPT !.actor = 0, !.applied = NoState, !.shown = FALSE]
    BY DEF Destroyed
  <2> HIDE DEF u
  <2>2. u \in Slot /\ u.life = s.life /\ u.state = s.state /\ u.vehicle = 0
        /\ u.frame = FALSE
    BY <1>3 DEF u
  <2> QED
    BY <2>1, <2>2 DEF Slot
<1> QED
  BY <1>1, <1>2, <1>3, <1>4

\* What is known of a slot's actor at the start of its visit
\* (remote_actor_backend.cpp:612-649).
LEMMA KnownDoes ==
  ASSUME Typed, Worldly, Attaches, NEW k \in DOMAIN slots
  PROVE  /\ Known(k) \in Slot /\ Known(k).frame = FALSE
         /\ Known(k).life = slots[k].life /\ Known(k).state = slots[k].state
         /\ Known(k).actor = 0 => Known(k).vehicle = 0 /\ slots[k].actor \notin DOMAIN world
         /\ Known(k).actor # 0 =>
              /\ Known(k).actor = slots[k].actor /\ Known(k).vehicle = slots[k].vehicle
              /\ Known(k).actor \in DOMAIN world
<1> DEFINE s == [slots[k] EXCEPT !.frame = FALSE]
           u == Unbound(s)
           t == [u EXCEPT !.actor = 0, !.applied = NoState]
<1>1. slots[k] \in Slot /\ 0 \notin DOMAIN world
  BY DEF Typed, Slots, Worldly
<1>2. /\ s \in Slot /\ s.frame = FALSE /\ s.life = slots[k].life
      /\ s.state = slots[k].state /\ s.actor = slots[k].actor
      /\ s.vehicle = slots[k].vehicle
  BY <1>1 DEF Slot
<1>3. Known(k) = IF s.actor = 0 \/ s.actor \in DOMAIN world THEN s ELSE t
  BY DEF Known
<1> HIDE DEF s
<1>4. /\ u \in Slot /\ u.life = s.life /\ u.state = s.state /\ u.vehicle = 0
      /\ u.frame = FALSE
  BY <1>2, SlotForms
<1> HIDE DEF u
<1>5. /\ t \in Slot /\ t.life = s.life /\ t.state = s.state /\ t.vehicle = 0
      /\ t.frame = FALSE /\ t.actor = 0
  BY <1>4 DEF Slot
<1> HIDE DEF t
<1>6. CASE s.actor = 0 \/ s.actor \in DOMAIN world
  BY <1>1, <1>2, <1>3, <1>6 DEF Attaches
<1>7. CASE ~(s.actor = 0 \/ s.actor \in DOMAIN world)
  BY <1>2, <1>3, <1>5, <1>7
<1> QED
  BY <1>6, <1>7

\* A slot keeps its binding if it keeps its actor and its vehicle.
LEMMA BindingKept ==
  ASSUME Typed, Published, NEW k \in DOMAIN slots
  PROVE  BindingsOf({k}) = Bound(k, slots[k])
<1>1. CASE slots[k].vehicle = 0
  BY <1>1 DEF BindingsOf, Bound, Published, BindingOf
<1>2. CASE slots[k].vehicle # 0
  BY <1>2 DEF BindingsOf, Bound, Published, BindingOf
<1> QED
  BY <1>1, <1>2

\* killPlayer.
LEMMA KillDoes ==
  ASSUME Worldly, NEW gone, NEW stuck, Kill(gone, stuck)
  PROVE  /\ Worldly'
         /\ \A a \in DOMAIN world \ gone : a \in DOMAIN world' /\ world'[a] = world[a]
         /\ stuck = {} => \A a \in DOMAIN world' : a \in DOMAIN world \ gone
         /\ DOMAIN world' \subseteq DOMAIN world
<1>1. /\ world' = Restrict(world, DOMAIN world \ (gone \ stuck))
      /\ stuck \subseteq gone
  BY DEF Kill
<1>2. /\ DOMAIN world' = DOMAIN world \ (gone \ stuck)
      /\ \A a \in DOMAIN world' : world'[a] = world[a]
      /\ world' = [a \in DOMAIN world' |-> world'[a]]
  BY <1>1 DEF Restrict
<1>3. Worldly'
  BY <1>2 DEF Worldly
<1> QED
  BY <1>1, <1>2, <1>3

\* What every visit starts from.
Sound ==
  /\ Typed /\ Worldly /\ Published
  /\ todo \subseteq DOMAIN slots
  /\ safe \in BOOLEAN

\* The visits: what each leaves in the slot and in the game
\* (remote_actor_backend.cpp:1997-2045).
LEMMA StatelessVisit ==
  ASSUME Sound, NEW k, VisitStateless(k)
  PROVE  \E s : Visited(k, s) /\ Lasts(k, s)
<1> DEFINE s == [slots[k] EXCEPT !.frame = FALSE]
<1>1. /\ k \in DOMAIN slots /\ k \in todo /\ slots[k] \in Slot
      /\ Leave(k, s, BindingsOf({k})) /\ todo' = todo \ {k}
      /\ UNCHANGED <<queueVars, peers, worker, room, archive>>
      /\ UNCHANGED <<safe, world>>
  BY DEF VisitStateless, Visiting, GoOn, Sound, Typed, Slots
<1>2. /\ s \in Slot /\ s.life = slots[k].life /\ s.state = slots[k].state
      /\ s.actor = slots[k].actor /\ s.vehicle = slots[k].vehicle /\ s.frame = FALSE
  BY <1>1 DEF Slot
<1> HIDE DEF s
<1>3. BindingsOf({k}) = Bound(k, s)
  <2>1. BindingsOf({k}) = Bound(k, slots[k])
    BY <1>1, BindingKept DEF Sound
  <2> QED
    BY <1>2, <2>1 DEF Bound
<1>4. Visited(k, s)
  BY <1>1, <1>2, <1>3 DEF Visited, Leave, Sound, Published, Attaches
<1>5. Lasts(k, s)
  BY <1>1, <1>2 DEF Lasts, Sound, Worldly
<1> QED
  BY <1>4, <1>5

LEMMA ElsewhereVisit ==
  ASSUME Sound, NEW k, VisitElsewhere(k)
  PROVE  \E s : Visited(k, s) /\ Lasts(k, s)
<1> DEFINE s == Destroyed(slots[k])
<1>1. PICK stuck : /\ k \in DOMAIN slots /\ k \in todo /\ slots[k] \in Slot
                   /\ Leave(k, s, {}) /\ todo' = todo \ {k}
                   /\ UNCHANGED <<queueVars, peers, worker, room, archive>>
                   /\ Kill(ActorsOf({k}), stuck)
                   /\ safe' = (safe \/ stuck # {})
  BY DEF VisitElsewhere, Visiting, GoOn, Sound, Typed, Slots
<1>2. /\ s \in Slot /\ s.life = slots[k].life /\ s.state = slots[k].state
      /\ s.actor = 0 /\ s.vehicle = 0 /\ s.frame = FALSE
  BY <1>1, SlotForms
<1> HIDE DEF s
<1>3. Visited(k, s)
  <2>1. Bound(k, s) = {}
    BY <1>2 DEF Bound
  <2>2. safe' \in BOOLEAN /\ (safe => safe')
    BY <1>1 DEF Sound
  <2> QED
    BY <1>1, <1>2, <2>1, <2>2 DEF Visited, Leave
<1>4. Lasts(k, s)
  <2>1. /\ Worldly'
        /\ \A a \in DOMAIN world \ ActorsOf({k}) : a \in DOMAIN world' /\ world'[a] = world[a]
        /\ stuck = {} => \A a \in DOMAIN world' : a \in DOMAIN world \ ActorsOf({k})
    BY <1>1, KillDoes DEF Sound
  <2>2. ActorsOf({k}) \subseteq {slots[k].actor}
    BY DEF ActorsOf
  <2>3. \A a \in DOMAIN world : a # 0
    BY DEF Sound, Worldly
  <2>4. \A a \in DOMAIN world \ ActorsOf({k}) : a # slots[k].actor
    BY <2>3 DEF ActorsOf
  <2>5. ~safe' => stuck = {}
    BY <1>1
  <2> QED
    BY <1>1, <1>2, <2>1, <2>2, <2>4, <2>5 DEF Lasts
<1> QED
  BY <1>3, <1>4

\* A visit that has no actor to show.
LEMMA WithoutActor ==
  ASSUME Sound, NEW k \in DOMAIN slots, Known(k).actor = 0
  PROVE  /\ KnownBindings(k) = {} /\ Known(k).vehicle = 0
         /\ slots[k].actor \notin DOMAIN world
  BY KnownDoes DEF Sound, Published, KnownBindings

LEMMA WaitingVisit ==
  ASSUME Sound, NEW k, VisitWaiting(k)
  PROVE  \E s : Visited(k, s) /\ Lasts(k, s)
<1> DEFINE s == Known(k)
<1>1. /\ k \in DOMAIN slots /\ k \in todo /\ s.actor = 0
      /\ Leave(k, s, KnownBindings(k)) /\ todo' = todo \ {k}
      /\ UNCHANGED <<queueVars, peers, worker, room, archive>>
      /\ UNCHANGED <<safe, world>>
  BY DEF VisitWaiting, Visiting, GoOn, Sound
<1>2. /\ KnownBindings(k) = {} /\ s.vehicle = 0 /\ slots[k].actor \notin DOMAIN world
  BY <1>1, WithoutActor
<1>3. /\ s \in Slot /\ s.frame = FALSE /\ s.life = slots[k].life
      /\ s.state = slots[k].state
  BY <1>1, KnownDoes DEF Sound, Published
<1> HIDE DEF s
<1>4. Visited(k, s)
  <2>1. Bound(k, s) = {}
    BY <1>2 DEF Bound
  <2> QED
    BY <1>1, <1>2, <1>3, <2>1 DEF Visited, Leave, Sound
<1>5. Lasts(k, s)
  BY <1>1, <1>2, <1>3 DEF Lasts, Sound, Worldly
<1> QED
  BY <1>4, <1>5

\* A new actor has a number no slot and no actor of the game has.
LEMMA LinkedDoes ==
  ASSUME Worldly, Unused # {}, NEW v \in 0..MaxVehicle, world' = Linked(v)
  PROVE  /\ Min(Unused) \in Unused /\ Min(Unused) \in 1..MaxActor
         /\ Worldly'
         /\ DOMAIN world' = DOMAIN world \cup {Min(Unused)}
         /\ \A a \in DOMAIN world : world'[a] = world[a]
<1>1. Unused \subseteq Nat /\ Unused \subseteq 1..MaxActor
  BY DEF Unused
<1>2. Min(Unused) \in Unused /\ Min(Unused) \in 1..MaxActor
  BY <1>1, LeastNatural
<1> DEFINE m == Min(Unused)
<1>3. /\ world' = [a \in DOMAIN world \cup {m} |-> IF a \in DOMAIN world THEN world[a] ELSE v]
      /\ m \in 1..MaxActor
  BY <1>2 DEF Linked
<1> HIDE DEF m
<1>4. /\ Worldly' /\ DOMAIN world' = DOMAIN world \cup {m}
      /\ \A a \in DOMAIN world : world'[a] = world[a]
  BY <1>3 DEF Worldly
<1> QED
  BY <1>2, <1>4 DEF m

LEMMA FailureVisit ==
  ASSUME Sound, NEW k, VisitFailure(k)
  PROVE  \E s : Visited(k, s) /\ Lasts(k, s)
<1> DEFINE u == Known(k)
           s == [u EXCEPT !.late = TRUE]
<1>1. /\ k \in DOMAIN slots /\ k \in todo /\ u.actor = 0
      /\ Leave(k, s, KnownBindings(k)) /\ todo' = todo \ {k}
      /\ UNCHANGED <<queueVars, peers, worker, room, archive>>
      /\ CreatesNothing \/ AppearanceFails \/ AcquisitionFails
  BY DEF VisitFailure, Visiting, GoOn, Sound
<1>2. KnownBindings(k) = {} /\ u.vehicle = 0 /\ slots[k].actor \notin DOMAIN world
  BY <1>1, WithoutActor
<1>3. /\ u \in Slot /\ u.frame = FALSE /\ u.life = slots[k].life
      /\ u.state = slots[k].state
  BY <1>1, KnownDoes DEF Sound, Published
<1> HIDE DEF u
<1>4. /\ s \in Slot /\ s.frame = FALSE /\ s.life = slots[k].life
      /\ s.state = slots[k].state /\ s.actor = 0 /\ s.vehicle = 0
  BY <1>1, <1>2, <1>3 DEF Slot
<1> HIDE DEF s
<1>5. \/ UNCHANGED <<safe, world>>
      \/ world' = Linked(0) /\ Unused # {}
         /\ (safe' = TRUE \/ (safe' = safe /\ "acquire" \in Faults))
  BY <1>1 DEF CreatesNothing, AppearanceFails, AcquisitionFails
<1>6. Visited(k, s)
  <2>1. Bound(k, s) = {}
    BY <1>4 DEF Bound
  <2>2. safe' \in BOOLEAN /\ (safe => safe')
    BY <1>5 DEF Sound
  <2> QED
    BY <1>1, <1>2, <1>4, <2>1, <2>2 DEF Visited, Leave
<1>7. Lasts(k, s)
  <2>1. CASE UNCHANGED <<safe, world>>
    BY <1>1, <1>2, <1>4, <2>1 DEF Lasts, Sound, Worldly
  <2>2. CASE world' = Linked(0) /\ Unused # {}
             /\ (safe' = TRUE \/ (safe' = safe /\ "acquire" \in Faults))
    <3>1. Worldly' /\ DOMAIN world \subseteq DOMAIN world'
          /\ \A a \in DOMAIN world : world'[a] = world[a]
      BY <2>2, LinkedDoes, BackendAssumption DEF Sound
    <3> QED
      BY <1>1, <1>4, <2>2, <3>1 DEF Lasts
  <2> QED
    BY <1>5, <2>1, <2>2
<1> QED
  BY <1>6, <1>7

LEMMA CreateVisit ==
  ASSUME Sound, NEW k, VisitCreate(k)
  PROVE  \E s : Visited(k, s) /\ Lasts(k, s)
<1> DEFINE u == Known(k)
           m == Min(Unused)
           s == [u EXCEPT !.actor = m]
<1>1. PICK v \in 0..MaxVehicle :
        /\ k \in DOMAIN slots /\ k \in todo /\ u.actor = 0 /\ Unused # {}
        /\ Leave(k, s, {}) /\ UNCHANGED <<safe, todo>>
        /\ UNCHANGED <<queueVars, peers, worker, room, archive>>
        /\ world' = Linked(v)
  BY DEF VisitCreate, Visiting, Sound
<1>2. u.vehicle = 0 /\ slots[k].actor \notin DOMAIN world
  BY <1>1, WithoutActor
<1>3. /\ u \in Slot /\ u.frame = FALSE /\ u.life = slots[k].life
      /\ u.state = slots[k].state
  BY <1>1, KnownDoes DEF Sound, Published
<1>4. /\ m \in Unused /\ m \in 1..MaxActor /\ Worldly'
      /\ DOMAIN world' = DOMAIN world \cup {m}
      /\ \A a \in DOMAIN world : world'[a] = world[a]
  BY <1>1, LinkedDoes DEF Sound
<1> HIDE DEF u, m
<1>5. /\ s \in Slot /\ s.frame = FALSE /\ s.life = slots[k].life
      /\ s.state = slots[k].state /\ s.actor = m /\ s.vehicle = 0
  BY <1>1, <1>2, <1>3, <1>4, BackendAssumption DEF Slot
<1> HIDE DEF s
<1>6. Visited(k, s)
  <2>1. Bound(k, s) = {}
    BY <1>5 DEF Bound
  <2> QED
    BY <1>1, <1>4, <1>5, <2>1 DEF Visited, Leave, Sound
<1>7. Lasts(k, s)
  BY <1>1, <1>2, <1>4, <1>5 DEF Lasts
<1> QED
  BY <1>6, <1>7

\* attach_vehicle_if_ready and apply_logical_state.
LEMMA AttachedDoes ==
  ASSUME Sound, NEW k \in DOMAIN slots, Known(k).actor # 0, Placed(k),
         NEW found \in BOOLEAN, found => Attachable(Known(k))
  PROVE  /\ Attached(Known(k), found) \in Slot
         /\ Attached(Known(k), found).life = slots[k].life
         /\ Attached(Known(k), found).state = slots[k].state
         /\ Attached(Known(k), found).actor = slots[k].actor
         /\ Attached(Known(k), found).frame = FALSE
         /\ slots[k].actor \in DOMAIN world /\ slots[k].actor # 0
<1> DEFINE u == Known(k)
           v == world[u.actor]
           t == [u EXCEPT !.vehicle = v]
<1>1. /\ u \in Slot /\ u.frame = FALSE /\ u.life = slots[k].life
      /\ u.state = slots[k].state /\ u.actor = slots[k].actor
      /\ u.actor \in DOMAIN world /\ u.actor # 0
  BY KnownDoes DEF Sound, Published
<1>2. v \in Nat
  BY <1>1, BackendAssumption DEF Sound, Worldly
<1>3. Attached(u, found) \in {u, t}
  BY DEF Attached
<1> HIDE DEF u, v
<1>4. /\ t \in Slot /\ t.frame = FALSE /\ t.life = slots[k].life
      /\ t.state = slots[k].state /\ t.actor = slots[k].actor
  BY <1>1, <1>2 DEF Slot
<1> HIDE DEF t
<1>5. /\ Attached(u, found) \in Slot
      /\ Attached(u, found).life = slots[k].life
      /\ Attached(u, found).state = slots[k].state
      /\ Attached(u, found).actor = slots[k].actor
      /\ Attached(u, found).frame = FALSE
      /\ slots[k].actor \in DOMAIN world /\ slots[k].actor # 0
  BY <1>1, <1>3, <1>4
<1> QED
  BY <1>5 DEF u

LEMMA LogicalDoes ==
  ASSUME NEW s \in Slot, s.state # NoState
  PROVE  /\ Logical(s) \in Slot /\ Logical(s).life = s.life
         /\ Logical(s).state = s.state /\ Logical(s).actor = s.actor
         /\ Logical(s).vehicle = s.vehicle /\ Logical(s).frame = s.frame
         /\ Logical(s).shown = s.shown
<1> DEFINE q == s.state.seq
           t == [s EXCEPT !.applied = q]
<1>1. q \in Nat
  BY QueueAssumption DEF Slot, Sample, Seqno
<1>2. Logical(s) \in {s, t}
  BY DEF Logical
<1> HIDE DEF q
<1>3. /\ t \in Slot /\ t.life = s.life /\ t.state = s.state /\ t.actor = s.actor
      /\ t.vehicle = s.vehicle /\ t.frame = s.frame /\ t.shown = s.shown
  BY <1>1 DEF Slot
<1> HIDE DEF t
<1> QED
  BY <1>2, <1>3

\* evaluate_displayed_pose and apply_vehicle_transform: a frame is armed for a
\* vehicle that is the actor's.
LEMMA PosedDoes ==
  ASSUME NEW s \in Slot, s.frame = FALSE, NEW evaluated \in BOOLEAN
  PROVE  /\ Posed(s, evaluated) \in Slot /\ Posed(s, evaluated).life = s.life
         /\ Posed(s, evaluated).state = s.state /\ Posed(s, evaluated).actor = s.actor
         /\ Posed(s, evaluated).vehicle \in {0, s.vehicle}
         /\ Posed(s, evaluated).frame =>
              Owns(Posed(s, evaluated).actor, Posed(s, evaluated).vehicle)
<1> DEFINE b == s.shown \/ evaluated
           t == [s EXCEPT !.shown = b]
           w == [t EXCEPT !.frame = TRUE]
<1>1. b \in BOOLEAN
  BY DEF Slot
<1>2. Posed(s, evaluated) = IF t.vehicle = 0 \/ ~t.shown THEN t
                            ELSE IF ~Owns(t.actor, t.vehicle) THEN Unbound(t)
                            ELSE w
  BY DEF Posed
<1> HIDE DEF b
<1>3. /\ t \in Slot /\ t.life = s.life /\ t.state = s.state /\ t.actor = s.actor
      /\ t.vehicle = s.vehicle /\ t.frame = FALSE
  BY <1>1 DEF Slot
<1> HIDE DEF t
<1>4. /\ w \in Slot /\ w.life = s.life /\ w.state = s.state /\ w.actor = s.actor
      /\ w.vehicle = s.vehicle
  BY <1>3 DEF Slot
<1>5. /\ Unbound(t) \in Slot /\ Unbound(t).life = s.life /\ Unbound(t).state = s.state
      /\ Unbound(t).actor = s.actor /\ Unbound(t).vehicle = 0 /\ Unbound(t).frame = FALSE
  BY <1>3, SlotForms
<1> HIDE DEF w
<1>6. CASE Posed(s, evaluated) = t
  BY <1>3, <1>6
<1>7. CASE Posed(s, evaluated) = Unbound(t)
  BY <1>5, <1>7
<1>8. CASE Posed(s, evaluated) = w /\ Owns(t.actor, t.vehicle)
  BY <1>3, <1>4, <1>8
<1> QED
  BY <1>2, <1>6, <1>7, <1>8

LEMMA ActorVisit ==
  ASSUME Sound, NEW k, VisitActor(k)
  PROVE  \E s : Visited(k, s) /\ Lasts(k, s)
<1>1. PICK found \in BOOLEAN, evaluated \in BOOLEAN :
        LET s == Known(k)
            refused == found /\ Conflict(k, s.actor)
            t == Posed(Logical(Attached(s, found /\ ~refused)), evaluated)
        IN /\ found => Attachable(s)
           /\ Leave(k, t, Bound(k, t))
           /\ safe' = (safe \/ refused)
  BY DEF VisitActor
<1> DEFINE u == Known(k)
           refused == found /\ Conflict(k, u.actor)
           taken == found /\ ~refused
           a == Attached(u, taken)
           l == Logical(a)
           t == Posed(l, evaluated)
<1>2. /\ found => Attachable(u)
      /\ Leave(k, t, Bound(k, t))
      /\ safe' = (safe \/ refused)
  BY <1>1
<1>3. /\ k \in DOMAIN slots /\ k \in todo /\ u.actor # 0 /\ Placed(k)
      /\ slots[k].state # NoState
      /\ UNCHANGED <<queueVars, peers, worker, room, archive>>
      /\ todo' = todo \ {k} /\ UNCHANGED world
  BY DEF VisitActor, Visible, Visiting, GoOn, Sound, Placed
<1>4. taken \in BOOLEAN /\ (taken => Attachable(u)) /\ refused \in BOOLEAN
  BY <1>2
<1> HIDE DEF taken, refused
<1>5. /\ a \in Slot /\ a.life = slots[k].life /\ a.state = slots[k].state
      /\ a.actor = slots[k].actor /\ a.frame = FALSE
      /\ slots[k].actor \in DOMAIN world /\ slots[k].actor # 0
  BY <1>3, <1>4, AttachedDoes
<1> HIDE DEF a
<1>6. /\ l \in Slot /\ l.life = slots[k].life /\ l.state = slots[k].state
      /\ l.actor = slots[k].actor /\ l.frame = FALSE
  BY <1>3, <1>5, LogicalDoes
<1> HIDE DEF l
<1>7. /\ t \in Slot /\ t.life = slots[k].life /\ t.state = slots[k].state
      /\ t.actor = slots[k].actor /\ (t.frame => Owns(t.actor, t.vehicle))
  BY <1>6, PosedDoes
<1> HIDE DEF t
<1>8. Visited(k, t)
  <2>1. safe' \in BOOLEAN /\ (safe => safe')
    BY <1>2, <1>4 DEF Sound
  <2> QED
    BY <1>2, <1>3, <1>5, <1>7, <2>1 DEF Visited, Leave
<1>9. Lasts(k, t)
  <2>1. t.frame => t.actor \in DOMAIN world' /\ world'[t.actor] = t.vehicle
    BY <1>3, <1>7 DEF Owns
  <2>2. Worldly'
    BY <1>3 DEF Sound, Worldly
  <2> QED
    BY <1>3, <1>7, <2>1, <2>2 DEF Lasts
<1> QED
  BY <1>8, <1>9

LEMMA BrokenVisit ==
  ASSUME Sound, NEW k, VisitBroken(k)
  PROVE  \E s : Visited(k, s) /\ Lasts(k, s)
<1>1. PICK found \in BOOLEAN :
        LET s == Attached(Known(k), found)
            broken == [Logical(s) EXCEPT !.shown = TRUE]
        IN /\ found => Attachable(Known(k))
           /\ \/ Leave(k, s, Bound(k, s))
              \/ Leave(k, broken, Bound(k, s))
  BY DEF VisitBroken
<1> DEFINE a == Attached(Known(k), found)
           l == Logical(a)
           w == [l EXCEPT !.shown = TRUE]
<1>2. /\ found => Attachable(Known(k))
      /\ Leave(k, a, Bound(k, a)) \/ Leave(k, w, Bound(k, a))
  BY <1>1
<1>3. /\ k \in DOMAIN slots /\ Known(k).actor # 0 /\ Placed(k)
      /\ slots[k].state # NoState
      /\ UNCHANGED <<queueVars, peers, worker, room, archive>>
      /\ todo' = {} /\ safe' = TRUE /\ UNCHANGED world
  BY DEF VisitBroken, Visible, Visiting, Sound, Placed
<1>4. /\ a \in Slot /\ a.life = slots[k].life /\ a.state = slots[k].state
      /\ a.actor = slots[k].actor /\ a.frame = FALSE
      /\ slots[k].actor \in DOMAIN world /\ slots[k].actor # 0
  BY <1>2, <1>3, AttachedDoes
<1> HIDE DEF a
<1>5. /\ l \in Slot /\ l.life = slots[k].life /\ l.state = slots[k].state
      /\ l.actor = slots[k].actor /\ l.vehicle = a.vehicle
  BY <1>3, <1>4, LogicalDoes
<1> HIDE DEF l
<1>6. /\ w \in Slot /\ w.life = slots[k].life /\ w.state = slots[k].state
      /\ w.actor = slots[k].actor /\ w.vehicle = a.vehicle
  BY <1>5 DEF Slot
<1> HIDE DEF w
<1>7. Bound(k, w) = Bound(k, a)
  BY <1>4, <1>6 DEF Bound
<1>8. PICK s \in {a, w} : Leave(k, s, Bound(k, s))
  BY <1>2, <1>7
<1>9. /\ s \in Slot /\ s.life = slots[k].life /\ s.state = slots[k].state
      /\ s.actor = slots[k].actor
  BY <1>4, <1>6, <1>8
<1>10. Visited(k, s)
  BY <1>3, <1>4, <1>8, <1>9 DEF Visited, Leave
<1>11. Lasts(k, s)
  <2>1. Worldly'
    BY <1>3 DEF Sound, Worldly
  <2> QED
    BY <1>3, <2>1 DEF Lasts
<1> QED
  BY <1>10, <1>11

LEMMA AnyVisit ==
  ASSUME Sound, NEW k, Visit(k)
  PROVE  \E s : Visited(k, s) /\ Lasts(k, s)
<1>1. CASE VisitStateless(k)
  BY <1>1, StatelessVisit
<1>2. CASE VisitElsewhere(k)
  BY <1>2, ElsewhereVisit
<1>3. CASE VisitWaiting(k)
  BY <1>3, WaitingVisit
<1>4. CASE VisitFailure(k)
  BY <1>4, FailureVisit
<1>5. CASE VisitCreate(k)
  BY <1>5, CreateVisit
<1>6. CASE VisitActor(k)
  BY <1>6, ActorVisit
<1>7. CASE VisitBroken(k)
  BY <1>7, BrokenVisit
<1> QED
  BY <1>1, <1>2, <1>3, <1>4, <1>5, <1>6, <1>7 DEF Visit

-----------------------------------------------------------------------------
(* What a visit preserves.                                                 *)

Distinct ==
  \A j, k \in DOMAIN slots :
    slots[j].actor = slots[k].actor /\ slots[j].actor # 0 => j = k

Armed(rest) ==
  \A k \in DOMAIN slots \ rest :
    slots[k].frame => Owns(slots[k].actor, slots[k].vehicle)

LEMMA VisitKeeps ==
  ASSUME Sound, Distinct, NEW k, NEW s, Visited(k, s), Lasts(k, s)
  PROVE  /\ Sound' /\ Distinct' /\ DOMAIN slots' = DOMAIN slots
         /\ Lived(slots') = Lived(slots)
         /\ NoStateOfAnotherLife => NoStateOfAnotherLife'
         /\ Armed(todo) /\ ~safe' => Armed(todo)'
         /\ "acquire" \notin Faults /\ ActorsAreHeld => ActorsAreHeld'
<1>1. /\ k \in DOMAIN slots /\ s \in Slot /\ s.life = slots[k].life
      /\ s.state = slots[k].state /\ (s.vehicle # 0 => s.actor # 0)
      /\ slots' = [slots EXCEPT ![k] = s]
      /\ registry' = (registry \ BindingsOf({k})) \cup Bound(k, s)
      /\ todo' \subseteq todo /\ safe' \in BOOLEAN /\ (safe => safe')
  BY DEF Visited
<1>2. /\ DOMAIN slots \in SUBSET Key /\ \A j \in DOMAIN slots : slots[j] \in Slot
      /\ slots = [j \in DOMAIN slots |-> slots[j]]
  BY DEF Sound, Typed, Slots
<1>3. /\ DOMAIN slots' = DOMAIN slots
      /\ slots'[k] = s /\ \A j \in DOMAIN slots \ {k} : slots'[j] = slots[j]
      /\ \A j \in DOMAIN slots : slots'[j] \in Slot
      /\ slots' = [j \in DOMAIN slots |-> slots'[j]]
  BY <1>1, <1>2
<1>4. Typed'
  <2>1. slots' \in [DOMAIN slots -> Slot]
    BY <1>3
  <2> QED
    BY <1>2, <1>3, <2>1 DEF Typed, Slots, Fits, Sound
<1>5. Published'
  <2>1. Attaches'
    BY <1>1, <1>3 DEF Attaches, Sound, Published
  <2>2. registry' = {BindingOf(j) : j \in {q \in DOMAIN slots : slots[q].vehicle # 0}}'
    <3>1. registry \ BindingsOf({k}) =
            {BindingOf(j) : j \in {q \in DOMAIN slots \ {k} : slots[q].vehicle # 0}}
      BY DEF Sound, Published, BindingsOf, BindingOf
    <3>2. \A j \in DOMAIN slots \ {k} : BindingOf(j)' = BindingOf(j)
      BY <1>3 DEF BindingOf
    <3>3. Bound(k, s) = IF s.vehicle = 0 THEN {} ELSE {BindingOf(k)'}
      BY <1>3 DEF Bound, BindingOf
    <3>4. registry' = {BindingOf(j)' : j \in {q \in DOMAIN slots' : slots'[q].vehicle # 0}}
      <4>1. {q \in DOMAIN slots' : slots'[q].vehicle # 0} =
              {q \in DOMAIN slots \ {k} : slots[q].vehicle # 0}
                \cup (IF s.vehicle = 0 THEN {} ELSE {k})
        BY <1>1, <1>3
      <4> QED
        BY <1>1, <3>1, <3>2, <3>3, <4>1
    <3> QED
      BY <3>4
  <2>3. owned' = ActorsOf(DOMAIN slots)' /\ index' = {<<b.actor, b.vehicle>> : b \in registry'}
    BY DEF Visited, Publish, ActorsOf
  <2> QED
    BY <2>1, <2>2, <2>3 DEF Published
<1>6. Sound'
  BY <1>1, <1>3, <1>4, <1>5 DEF Sound, Lasts
<1>7. Distinct'
  <2>1. s.actor = 0 \/ \A j \in DOMAIN slots \ {k} : slots[j].actor # s.actor
    <3>1. CASE s.actor \in Unused
      <4>1. s.actor \notin {slots[j].actor : j \in DOMAIN slots} \ {0} /\ s.actor # 0
        BY <3>1, <1>1 DEF Unused, ActorsOf
      <4> QED
        BY <4>1
    <3>2. CASE s.actor = slots[k].actor
      BY <1>1, <3>2 DEF Distinct
    <3> QED
      BY <3>1, <3>2 DEF Visited
  <2> QED
    BY <1>3, <2>1 DEF Distinct
<1>8. Lived(slots') = Lived(slots)
  <2>1. \A j \in DOMAIN slots : slots'[j].life = slots[j].life
    BY <1>1, <1>3
  <2> QED
    BY <1>3, <2>1 DEF Lived
<1>9. ASSUME NoStateOfAnotherLife
      PROVE  NoStateOfAnotherLife'
  <2>1. \A j \in DOMAIN slots :
          slots'[j].life = slots[j].life /\ slots'[j].state = slots[j].state
    BY <1>1, <1>3
  <2> QED
    BY <1>3, <1>9, <2>1 DEF NoStateOfAnotherLife
<1>10. ASSUME Armed(todo), ~safe'
       PROVE  Armed(todo)'
  <2>1. ASSUME NEW j \in DOMAIN slots \ todo', slots'[j].frame
        PROVE  slots'[j].actor \in DOMAIN world' /\ world'[slots'[j].actor] = slots'[j].vehicle
    <3>1. CASE j = k
      BY <1>3, <1>10, <2>1, <3>1 DEF Lasts
    <3>2. CASE j # k
      <4>1. j \in DOMAIN slots \ todo
        BY <1>10, <2>1, <3>2 DEF Lasts
      <4>2. Owns(slots[j].actor, slots[j].vehicle) /\ slots'[j] = slots[j]
        BY <1>3, <1>10, <2>1, <3>2, <4>1 DEF Armed
      <4>3. slots[j].actor # slots[k].actor
        <5>1. slots[j].actor # 0
          BY <4>2 DEF Owns, Sound, Worldly
        <5> QED
          BY <1>1, <3>2, <5>1 DEF Distinct
      <4>4. slots[j].actor \in DOMAIN world' /\ world'[slots[j].actor] = slots[j].vehicle
        BY <4>2, <4>3 DEF Owns, Lasts
      <4> QED
        BY <4>2, <4>4
    <3> QED
      BY <3>1, <3>2
  <2> QED
    BY <1>3, <2>1 DEF Armed, Owns
<1>11. ASSUME "acquire" \notin Faults, ActorsAreHeld
       PROVE  ActorsAreHeld'
  <2> SUFFICES ASSUME ~safe', NEW a \in DOMAIN world'
               PROVE  a \in ActorsOf(DOMAIN slots)'
    BY DEF ActorsAreHeld
  <2>1. a # 0 /\ (a = s.actor \/ (a \in DOMAIN world /\ a # slots[k].actor)) /\ ~safe
    BY <1>1, <1>11 DEF Lasts, Worldly
  <2>2. CASE a = s.actor
    BY <1>1, <1>3, <2>1, <2>2 DEF ActorsOf
  <2>3. CASE a \in DOMAIN world /\ a # slots[k].actor
    <3>1. PICK j \in DOMAIN slots : a = slots[j].actor
      BY <1>11, <2>1, <2>3 DEF ActorsAreHeld, ActorsOf
    <3> QED
      BY <1>3, <2>1, <2>3, <3>1 DEF ActorsOf
  <2> QED
    BY <2>1, <2>2, <2>3
<1> QED
  BY <1>3, <1>6, <1>7, <1>8, <1>9, <1>10, <1>11

-----------------------------------------------------------------------------
(* What becomes of all the slots at once: a batch, a purge, safe mode.     *)

\* The slots become T; the actors of those in `dead` were killed.
Swept(T, dead, stuck) ==
  /\ T \in Slots /\ Fits(T) /\ dead \subseteq DOMAIN slots
  /\ \A k \in DOMAIN slots \ dead :
       k \in DOMAIN T /\ T[k].actor = slots[k].actor /\ T[k].vehicle = slots[k].vehicle
  /\ \A k \in DOMAIN T :
       k \notin DOMAIN slots \/ k \in dead => T[k].actor = 0 /\ T[k].vehicle = 0
  /\ slots' = T
  /\ Kill(ActorsOf(dead), stuck)
  /\ registry' = registry \ BindingsOf(dead)
  /\ Publish

LEMMA SweepKeeps ==
  ASSUME Sound, Distinct, NEW T, NEW dead, NEW stuck, Swept(T, dead, stuck)
  PROVE  /\ Typed' /\ Worldly' /\ Published' /\ Distinct'
         /\ stuck = {} /\ DOMAIN world \subseteq ActorsOf(DOMAIN slots) =>
              DOMAIN world' \subseteq ActorsOf(DOMAIN slots)'
         /\ DOMAIN world' \subseteq DOMAIN world
<1>1. /\ T \in Slots /\ Fits(T) /\ dead \subseteq DOMAIN slots /\ slots' = T
      /\ \A k \in DOMAIN slots \ dead :
           k \in DOMAIN T /\ T[k].actor = slots[k].actor /\ T[k].vehicle = slots[k].vehicle
      /\ \A k \in DOMAIN T :
           k \notin DOMAIN slots \/ k \in dead => T[k].actor = 0 /\ T[k].vehicle = 0
      /\ registry' = registry \ BindingsOf(dead)
      /\ Kill(ActorsOf(dead), stuck)
  BY DEF Swept
<1>2. Typed'
  <2>1. DOMAIN T \in SUBSET Key
    BY <1>1 DEF Slots
  <2> QED
    BY <1>1, <2>1 DEF Typed, Slots, Fits
<1>3. /\ Worldly' /\ DOMAIN world' \subseteq DOMAIN world
      /\ stuck = {} => \A a \in DOMAIN world' : a \in DOMAIN world \ ActorsOf(dead)
  BY <1>1, KillDoes DEF Sound
<1>4. Published'
  <2>1. Attaches'
    <3> SUFFICES ASSUME NEW k \in DOMAIN T, T[k].vehicle # 0
                 PROVE  T[k].actor # 0
      BY <1>1 DEF Attaches
    <3> QED
      BY <1>1 DEF Attaches, Sound, Published
  <2>2. registry' = {BindingOf(j) : j \in {q \in DOMAIN slots : slots[q].vehicle # 0}}'
    <3>1. registry \ BindingsOf(dead) =
            {BindingOf(j) : j \in {q \in DOMAIN slots \ dead : slots[q].vehicle # 0}}
      BY DEF Sound, Published, BindingsOf, BindingOf
    <3>2. \A j \in DOMAIN slots \ dead : BindingOf(j)' = BindingOf(j)
      BY <1>1 DEF BindingOf
    <3>3. {q \in DOMAIN slots' : slots'[q].vehicle # 0} =
            {q \in DOMAIN slots \ dead : slots[q].vehicle # 0}
      BY <1>1
    <3>4. registry' = {BindingOf(j)' : j \in {q \in DOMAIN slots' : slots'[q].vehicle # 0}}
      BY <1>1, <3>1, <3>2, <3>3
    <3> QED
      BY <3>4
  <2>3. owned' = ActorsOf(DOMAIN slots)' /\ index' = {<<b.actor, b.vehicle>> : b \in registry'}
    BY DEF Swept, Publish, ActorsOf
  <2> QED
    BY <2>1, <2>2, <2>3 DEF Published
<1>5. Distinct'
  <2> SUFFICES ASSUME NEW j \in DOMAIN T, NEW k \in DOMAIN T,
                      T[j].actor = T[k].actor, T[j].actor # 0
               PROVE  j = k
    BY <1>1 DEF Distinct
  <2>1. j \in DOMAIN slots \ dead /\ k \in DOMAIN slots \ dead
    BY <1>1
  <2>2. slots[j].actor = slots[k].actor /\ slots[j].actor # 0
    BY <1>1, <2>1
  <2> QED
    BY <2>1, <2>2 DEF Distinct
<1>6. ASSUME stuck = {}, DOMAIN world \subseteq ActorsOf(DOMAIN slots), NEW a \in DOMAIN world'
      PROVE  a \in ActorsOf(DOMAIN slots)'
  <2>1. a \in DOMAIN world /\ a \notin ActorsOf(dead)
    BY <1>3, <1>6
  <2>2. PICK j \in DOMAIN slots : a = slots[j].actor /\ a # 0
    BY <1>6, <2>1 DEF ActorsOf
  <2>3. j \notin dead
    BY <2>1, <2>2 DEF ActorsOf
  <2> QED
    BY <1>1, <2>2, <2>3 DEF ActorsOf
<1> QED
  BY <1>2, <1>3, <1>4, <1>5, <1>6

\* All slots left without an actor.
Emptied(S) == [k \in DOMAIN S |-> Destroyed(S[k])]

LEMMA EmptiedDoes ==
  ASSUME NEW S \in Slots, DOMAIN S \in SUBSET Key, Fits(S)
  PROVE  /\ Emptied(S) \in Slots /\ Fits(Emptied(S)) /\ DOMAIN Emptied(S) = DOMAIN S
         /\ Lived(Emptied(S)) = Lived(S)
         /\ \A k \in DOMAIN S :
              /\ Emptied(S)[k].actor = 0 /\ Emptied(S)[k].vehicle = 0
              /\ Emptied(S)[k].life = S[k].life /\ Emptied(S)[k].state = S[k].state
<1>1. \A k \in DOMAIN S : S[k] \in Slot
  BY DEF Slots
<1>2. ASSUME NEW k \in DOMAIN S
      PROVE  /\ Emptied(S)[k] \in Slot
             /\ Emptied(S)[k].actor = 0 /\ Emptied(S)[k].vehicle = 0
             /\ Emptied(S)[k].life = S[k].life /\ Emptied(S)[k].state = S[k].state
  BY <1>1, SlotForms DEF Emptied
<1>3. DOMAIN Emptied(S) = DOMAIN S /\ Emptied(S) = [k \in DOMAIN S |-> Emptied(S)[k]]
  BY DEF Emptied
<1>4. Emptied(S) \in [DOMAIN S -> Slot]
  BY <1>2, <1>3
<1>5. Emptied(S) \in Slots
  BY <1>4 DEF Slots
<1>6. Lived(Emptied(S)) = Lived(S)
  BY <1>2, <1>3 DEF Lived
<1> QED
  BY <1>2, <1>3, <1>5, <1>6 DEF Fits

\* Every binding is a slot's.
LEMMA AllBindings ==
  ASSUME Published
  PROVE  registry \ BindingsOf(DOMAIN slots) = {}
  BY DEF Published, BindingOf, BindingsOf

\* purge_all_game_actors.
LEMMA PurgeSweeps ==
  ASSUME Sound, NEW stuck, Purge(stuck)
  PROVE  Swept(Emptied(slots), DOMAIN slots, stuck)
<1>1. slots' = Emptied(slots)
  BY DEF Purge, Emptied
<1>2. registry' = registry \ BindingsOf(DOMAIN slots)
  BY AllBindings DEF Purge, Sound
<1> QED
  BY <1>1, <1>2, EmptiedDoes DEF Purge, Swept, Sound, Typed

\* enter_safe_mode_game_thread.
LEMMA SafeTickSweeps ==
  ASSUME Sound, TickInSafeMode
  PROVE  \E stuck : Swept(Vacated, DOMAIN slots, stuck)
<1>1. PICK stuck : Kill(ActorsOf(DOMAIN slots), stuck)
  BY DEF TickInSafeMode
<1>2. slots' = Vacated /\ DOMAIN Vacated = {} /\ Vacated \in [{} -> Slot]
  BY DEF TickInSafeMode, Vacated, Restrict
<1>3. Vacated \in Slots /\ Fits(Vacated)
  <2>1. {} \in SUBSET Key
    OBVIOUS
  <2>2. Vacated \in Slots
    BY <1>2, <2>1 DEF Slots
  <2> QED
    BY <1>2, <2>2, FS_EmptySet, BackendAssumption DEF Fits
<1>4. registry' = registry \ BindingsOf(DOMAIN slots)
  BY AllBindings DEF TickInSafeMode, Sound
<1>5. Swept(Vacated, DOMAIN slots, stuck)
  BY <1>1, <1>2, <1>3, <1>4 DEF TickInSafeMode, Swept
<1> QED
  BY <1>5

\* A batch is applied, in the world or outside it.
LEMMA BatchSweeps ==
  ASSUME Sound, NEW acc, NEW fresh, Batch(acc, fresh), TickWith(acc)
  PROVE  \E stuck, dead, T :
           /\ Swept(T, dead, stuck)
           /\ DOMAIN T = DOMAIN acc.slots /\ Lived(T) = Lived(acc.slots)
           /\ \A k \in DOMAIN T :
                T[k].life = acc.slots[k].life /\ T[k].state = acc.slots[k].state
           /\ todo' \in {{}, DOMAIN T}
           /\ safe' = (acc.full \/ stuck # {})
<1>1. acc \in Acc /\ acc.slots \in Slots /\ DOMAIN acc.slots \in SUBSET Key
  BY DEF Batch, Acc, Slots
<1>2. CASE room = NoRoom
  <2>1. PICK stuck : /\ Kill(ActorsOf(DOMAIN slots), stuck)
                     /\ slots' = Emptied(acc.slots)
                     /\ registry' = registry \ BindingsOf(DOMAIN slots)
                     /\ Publish /\ todo' = {}
                     /\ safe' = (acc.full \/ stuck # {})
    BY <1>2 DEF TickWith, Emptied
  <2> DEFINE T == Emptied(acc.slots)
  <2>2. /\ T \in Slots /\ Fits(T) /\ DOMAIN T = DOMAIN acc.slots
        /\ Lived(T) = Lived(acc.slots)
        /\ \A k \in DOMAIN acc.slots :
             /\ T[k].actor = 0 /\ T[k].vehicle = 0
             /\ T[k].life = acc.slots[k].life /\ T[k].state = acc.slots[k].state
    BY <1>1, EmptiedDoes DEF Batch
  <2>3. slots' = T
    BY <2>1
  <2> HIDE DEF T
  <2>4. Swept(T, DOMAIN slots, stuck)
    BY <2>1, <2>2, <2>3 DEF Swept
  <2> QED
    BY <2>1, <2>2, <2>4
<1>3. CASE room # NoRoom
  <2>1. PICK stuck : /\ Kill(ActorsOf(acc.dead), stuck)
                     /\ slots' = acc.slots
                     /\ registry' = registry \ BindingsOf(acc.dead)
                     /\ Publish /\ todo' = DOMAIN acc.slots
                     /\ safe' = (acc.full \/ stuck # {})
    BY <1>3 DEF TickWith
  <2> DEFINE T == acc.slots
  <2>2. ASSUME NEW k \in DOMAIN slots \ acc.dead
        PROVE  k \in DOMAIN T /\ T[k].actor = slots[k].actor /\ T[k].vehicle = slots[k].vehicle
    BY DEF Batch, Kept
  <2>3. ASSUME NEW k \in DOMAIN T, k \notin DOMAIN slots \/ k \in acc.dead
        PROVE  T[k].actor = 0 /\ T[k].vehicle = 0
    <3>1. PICK life \in Life : Kept(FreshSlot(life), T[k])
      BY <2>3 DEF Batch
    <3> QED
      BY <3>1 DEF Kept, FreshSlot
  <2>4. Swept(T, acc.dead, stuck)
    <3>1. Fits(T) /\ acc.dead \subseteq DOMAIN slots
      BY DEF Batch
    <3> QED
      BY <1>1, <2>1, <2>2, <2>3, <3>1 DEF Swept
  <2> QED
    BY <2>1, <2>4
<1> QED
  BY <1>2, <1>3

-----------------------------------------------------------------------------
(* What the sidecar sends and the worker pushes.                           *)

Peer == [inc : Incarnation, life : 0..MaxLife, sent : 0..MaxSent, alive : BOOLEAN]

Peered ==
  /\ peers \in [Pid -> Peer]
  /\ \A p \in Pid : peers[p].alive => peers[p].life # 0
  /\ worker \in Command \cup {Idle}

\* What the worker holds was the last word about its player.
Fetched ==
  worker # Idle =>
    /\ peers[worker.key.pid].inc = worker.key.inc
    /\ peers[worker.key.pid].life # 0
    /\ peers[worker.key.pid].alive <=> worker.op # "despawn"
    /\ worker.op # "despawn" => peers[worker.key.pid].life = worker.life

\* Consecutive sequence numbers differ.
LEMMA NextDiffers ==
  ASSUME NEW m \in Nat \ {0, 1}, NEW x \in Nat
  PROVE  x % m # (x + 1) % m
<1> DEFINE q == x \div m
           r == (x + 1) \div m
           d == r - q
<1>1. q \in Int /\ r \in Int /\ d \in Int
  OBVIOUS
<1>2. x % m = x - m * q
  OBVIOUS
<1>3. (x + 1) % m = (x + 1) - m * r
  <2> DEFINE y == x + 1
  <2>1. y \in Nat
    OBVIOUS
  <2> HIDE DEF y
  <2>2. y % m = y - m * (y \div m)
    BY <2>1
  <2> QED
    BY <2>2 DEF y
<1>4. m * r - m * q = m * d
  OBVIOUS
<1> HIDE DEF q, r, d
<1>5. m * d # 1
  <2>1. CASE d <= 0
    <3>1. m * d <= 0
      BY <1>1, <2>1
    <3> QED
      BY <3>1
  <2>2. CASE d >= 1
    <3>1. m * d >= m /\ m >= 2
      BY <1>1, <2>2
    <3>2. m * d \in Int
      BY <1>1
    <3> QED
      BY <3>1, <3>2
  <2> QED
    BY <1>1, <2>1, <2>2
<1>6. m * q \in Int /\ m * r \in Int
  BY <1>1
<1> QED
  BY <1>2, <1>3, <1>4, <1>5, <1>6

LEMMA SendableDoes ==
  ASSUME Peered, NEW cmd \in Sendable
  PROVE  /\ cmd \in Command /\ cmd.key \in Key /\ cmd.key.pid \in Pid
         /\ \/ /\ cmd.op = "spawn" /\ ~peers[cmd.key.pid].alive
               /\ peers[cmd.key.pid].life < MaxLife
               /\ cmd.life = peers[cmd.key.pid].life + 1
            \/ /\ cmd.op = "despawn" /\ peers[cmd.key.pid].alive
               /\ peers[cmd.key.pid].inc = cmd.key.inc
            \/ /\ cmd.op = "state" /\ peers[cmd.key.pid].alive
               /\ peers[cmd.key.pid].inc = cmd.key.inc
               /\ cmd.life = peers[cmd.key.pid].life
               /\ \E n \in {peers[cmd.key.pid].sent - 1, peers[cmd.key.pid].sent}
                             \cap 0..(MaxSent - 1) :
                    cmd.seq = (SeqRange - 1 + n) % SeqRange
<1> DEFINE P(k) == peers[k.pid]
           seqs(p) == {(SeqRange - 1 + n) % SeqRange :
                         n \in {p.sent - 1, p.sent} \cap 0..(MaxSent - 1)}
<1>1. \A k \in Key : k.pid \in Pid /\ k.inc \in Incarnation /\ P(k) \in Peer
  BY DEF Peered, Key
<1>2. \A k \in Key : P(k).life \in 0..MaxLife /\ P(k).sent \in 0..MaxSent
  BY <1>1 DEF Peer
<1>3. CASE \E k \in Key : /\ ~P(k).alive /\ P(k).life < MaxLife
                          /\ cmd = [op |-> "spawn", key |-> k, life |-> P(k).life + 1]
  <2>1. PICK k \in Key : /\ ~P(k).alive /\ P(k).life < MaxLife
                         /\ cmd = [op |-> "spawn", key |-> k, life |-> P(k).life + 1]
    BY <1>3
  <2>2. P(k).life + 1 \in Life
    BY <1>2, <2>1, QueueAssumption DEF Life
  <2>3. cmd \in Spawn
    BY <2>1, <2>2 DEF Spawn
  <2> QED
    BY <1>1, <2>1, <2>3 DEF Command
<1>4. CASE \E k \in Key : /\ P(k).alive /\ P(k).inc = k.inc
                          /\ cmd = [op |-> "despawn", key |-> k]
  <2>1. PICK k \in Key : /\ P(k).alive /\ P(k).inc = k.inc
                         /\ cmd = [op |-> "despawn", key |-> k]
    BY <1>4
  <2>2. cmd \in Despawn
    BY <2>1 DEF Despawn
  <2> QED
    BY <1>1, <2>1, <2>2 DEF Command
<1>5. CASE \E k \in Key : /\ P(k).alive /\ P(k).inc = k.inc
                          /\ cmd \in [op : {"state"}, key : {k}, life : {P(k).life},
                                      seq : seqs(P(k)), room : Where]
  <2>1. PICK k \in Key : /\ P(k).alive /\ P(k).inc = k.inc
                         /\ cmd \in [op : {"state"}, key : {k}, life : {P(k).life},
                                     seq : seqs(P(k)), room : Where]
    BY <1>5
  <2>2. P(k).life \in Life
    BY <1>1, <1>2, <2>1, QueueAssumption DEF Life, Peered
  <2>3. cmd.op = "state" /\ cmd.key = k /\ cmd.life = P(k).life
        /\ cmd.seq \in seqs(P(k)) /\ cmd.room \in Where
    BY <2>1
  <2>4. PICK n \in {P(k).sent - 1, P(k).sent} \cap 0..(MaxSent - 1) :
             cmd.seq = (SeqRange - 1 + n) % SeqRange
    BY <2>3
  <2>5. cmd.seq \in Seqno
    <3>1. n \in Nat /\ SeqRange \in Nat /\ SeqRange > 0
      BY <2>4, QueueAssumption, BackendAssumption
    <3>2. SeqRange - 1 + n \in Nat
      BY <3>1
    <3> QED
      BY <2>4, <3>1, <3>2 DEF Seqno
  <2>6. cmd = [op |-> cmd.op, key |-> cmd.key, life |-> cmd.life, seq |-> cmd.seq,
               room |-> cmd.room]
    BY <2>1
  <2>7. cmd \in Sample
    <3> HIDE DEF P, seqs
    <3> QED
      BY <2>2, <2>3, <2>5, <2>6 DEF Sample
  <2> QED
    BY <1>1, <2>1, <2>3, <2>4, <2>7 DEF Command
<1>6. \/ \E k \in Key : /\ ~P(k).alive /\ P(k).life < MaxLife
                        /\ cmd = [op |-> "spawn", key |-> k, life |-> P(k).life + 1]
      \/ \E k \in Key : /\ P(k).alive /\ P(k).inc = k.inc
                        /\ cmd = [op |-> "despawn", key |-> k]
      \/ \E k \in Key : /\ P(k).alive /\ P(k).inc = k.inc
                        /\ cmd \in [op : {"state"}, key : {k}, life : {P(k).life},
                                    seq : seqs(P(k)), room : Where]
  BY DEF Sendable
<1> QED
  BY <1>3, <1>4, <1>5, <1>6

\* The lives the sidecar keeps, and those the queue was told of.
Alive ==
  {<<[pid |-> p, inc |-> peers[p].inc], peers[p].life>> : p \in {q \in Pid : peers[q].alive}}

Pushed ==
  IF worker = Idle THEN Alive
  ELSE IF worker.op = "spawn" THEN {x \in Alive : x[1].pid # worker.key.pid}
  ELSE IF worker.op = "despawn"
    THEN Alive \cup {<<worker.key, peers[worker.key.pid].life>>}
  ELSE Alive

LEMMA AliveIs ==
  ASSUME Peered
  PROVE  /\ Alive \in SUBSET (Key \X Life)
         /\ \A k \in Key : \A l : <<k, l>> \in Alive <=>
              peers[k.pid].alive /\ peers[k.pid].inc = k.inc /\ peers[k.pid].life = l
<1>1. ASSUME NEW p \in Pid, peers[p].alive
      PROVE  [pid |-> p, inc |-> peers[p].inc] \in Key /\ peers[p].life \in Life
  BY <1>1, QueueAssumption DEF Peered, Peer, Key, Life
<1>2. ASSUME NEW k \in Key
      PROVE  k.pid \in Pid /\ k = [pid |-> k.pid, inc |-> k.inc]
  BY DEF Key
<1>3. ASSUME NEW k \in Key, NEW l
      PROVE  <<k, l>> \in Alive <=>
               peers[k.pid].alive /\ peers[k.pid].inc = k.inc /\ peers[k.pid].life = l
  <2>1. ASSUME <<k, l>> \in Alive
        PROVE  peers[k.pid].alive /\ peers[k.pid].inc = k.inc /\ peers[k.pid].life = l
    <3>1. PICK p \in Pid : /\ peers[p].alive
                           /\ k = [pid |-> p, inc |-> peers[p].inc] /\ l = peers[p].life
      BY <2>1 DEF Alive
    <3>2. k.pid = p /\ k.inc = peers[p].inc
      BY <3>1
    <3> QED
      BY <3>1, <3>2
  <2>2. ASSUME peers[k.pid].alive, peers[k.pid].inc = k.inc, peers[k.pid].life = l
        PROVE  <<k, l>> \in Alive
    BY <1>2, <2>2 DEF Alive
  <2> QED
    BY <2>1, <2>2
<1>4. Alive \in SUBSET (Key \X Life)
  BY <1>1 DEF Alive
<1> QED
  BY <1>3, <1>4

\* Whom the queue was told of.
Told ==
  /\ Pushed \in SUBSET (Key \X Life)
  /\ \A k \in Key : \A l : <<k, l>> \in Pushed <=>
       IF worker # Idle /\ worker.op = "spawn" /\ k.pid = worker.key.pid THEN FALSE
       ELSE IF worker # Idle /\ worker.op = "despawn" /\ k = worker.key
         THEN l = peers[k.pid].life
       ELSE peers[k.pid].alive /\ peers[k.pid].inc = k.inc /\ peers[k.pid].life = l

LEMMA PushedIs == Peered /\ Fetched => Told
<1> SUFFICES ASSUME Peered, Fetched
             PROVE  Told
  OBVIOUS
<1>1. /\ Alive \in SUBSET (Key \X Life)
      /\ \A k \in Key : \A l : <<k, l>> \in Alive <=>
           peers[k.pid].alive /\ peers[k.pid].inc = k.inc /\ peers[k.pid].life = l
  BY AliveIs
<1>2. CASE worker = Idle
  BY <1>1, <1>2 DEF Pushed, Told
<1>3. CASE worker # Idle /\ worker.op = "spawn"
  BY <1>1, <1>3 DEF Pushed, Told
<1>4. CASE worker # Idle /\ worker.op = "despawn"
  <2>1. Pushed = Alive \cup {<<worker.key, peers[worker.key.pid].life>>}
    BY <1>4 DEF Pushed
  <2>2. worker.key \in Key /\ worker.key.pid \in Pid
    BY <1>4 DEF Peered, Command, Spawn, Despawn, Sample, Key
  <2>3. peers[worker.key.pid].life \in Life
    BY <1>4, <2>2, QueueAssumption DEF Fetched, Peered, Peer, Life
  <2>4. ~peers[worker.key.pid].alive
    BY <1>4 DEF Fetched
  <2> QED
    BY <1>1, <1>4, <2>1, <2>2, <2>3, <2>4 DEF Told
<1>5. CASE worker # Idle /\ worker.op # "spawn" /\ worker.op # "despawn"
  BY <1>1, <1>5 DEF Pushed, Told
<1> QED
  BY <1>2, <1>3, <1>4, <1>5

\* Sets of identities with a life are equal if they have the same ones.
LEMMA SamePairs ==
  ASSUME NEW a \in SUBSET (Key \X Life), NEW b \in SUBSET (Key \X Life),
         \A k \in Key, l \in Life : <<k, l>> \in a <=> <<k, l>> \in b
  PROVE  a = b
<1>1. \A x \in Key \X Life : x = <<x[1], x[2]>> /\ x[1] \in Key /\ x[2] \in Life
  OBVIOUS
<1> QED
  BY <1>1

\* QueueRemoteSpawn, -Sample, -Despawn: until it is pushed, the queue knows
\* nothing of a command (bridge.cpp).
LEMMA TakeKeeps ==
  ASSUME Peered, Fetched, NEW cmd \in Sendable, Take(cmd)
  PROVE  /\ Peered' /\ Fetched'
         /\ ~safe => Pushed' = Pushed
<1> DEFINE pid == cmd.key.pid
           p == peers[pid]
           q == Sent(p, cmd)
<1>1. /\ cmd \in Command /\ cmd.key \in Key /\ pid \in Pid
      /\ \/ /\ cmd.op = "spawn" /\ ~p.alive /\ p.life < MaxLife /\ cmd.life = p.life + 1
         \/ /\ cmd.op = "despawn" /\ p.alive /\ p.inc = cmd.key.inc
         \/ /\ cmd.op = "state" /\ p.alive /\ p.inc = cmd.key.inc /\ cmd.life = p.life
            /\ \E n \in {p.sent - 1, p.sent} \cap 0..(MaxSent - 1) :
                 cmd.seq = (SeqRange - 1 + n) % SeqRange
  BY SendableDoes
<1>2. /\ worker = Idle /\ peers' = [peers EXCEPT ![pid] = q]
      /\ worker' = IF safe THEN Idle ELSE cmd
  BY DEF Take
<1>3. /\ p \in Peer /\ p.life \in 0..MaxLife /\ p.sent \in 0..MaxSent
      /\ p.inc \in Incarnation /\ (p.alive => p.life # 0) /\ cmd.key.inc \in Incarnation
  BY <1>1 DEF Peered, Peer, Key
<1>4. /\ q \in Peer /\ q.life # 0 /\ q.inc = cmd.key.inc
      /\ q.alive <=> cmd.op # "despawn"
      /\ cmd.op # "despawn" => q.life = cmd.life
      /\ cmd.op # "spawn" => q.life = p.life /\ p.alive /\ p.inc = q.inc
      /\ cmd.op = "spawn" => ~p.alive
  <2> HIDE DEF p, pid
  <2>1. CASE cmd.op = "spawn"
    <3>1. q = [inc |-> cmd.key.inc, life |-> cmd.life, sent |-> 0, alive |-> TRUE]
      BY <2>1 DEF Sent
    <3>2. cmd.life \in 0..MaxLife /\ cmd.life # 0 /\ 0 \in 0..MaxSent
      BY <1>1, <1>3, <2>1, QueueAssumption, BackendAssumption
    <3> QED
      BY <1>1, <1>3, <2>1, <3>1, <3>2 DEF Peer
  <2>2. CASE cmd.op = "despawn"
    <3>1. q = [p EXCEPT !.alive = FALSE]
      BY <2>2 DEF Sent
    <3> QED
      BY <1>1, <1>3, <2>2, <3>1 DEF Peer
  <2>3. CASE cmd.op = "state"
    <3> DEFINE n == IF cmd.seq = (SeqRange - 1 + p.sent) % SeqRange THEN p.sent + 1 ELSE p.sent
    <3>1. q = [p EXCEPT !.sent = n]
      BY <2>3 DEF Sent
    <3>2. n \in 0..MaxSent
      <4>1. PICK m \in {p.sent - 1, p.sent} \cap 0..(MaxSent - 1) :
                   cmd.seq = (SeqRange - 1 + m) % SeqRange
        BY <1>1, <2>3
      <4>2. CASE m = p.sent
        BY <1>3, <4>1, <4>2, BackendAssumption
      <4>3. CASE m = p.sent - 1
        <5>1. SeqRange - 1 + m \in Nat /\ SeqRange - 1 + p.sent = (SeqRange - 1 + m) + 1
          BY <1>3, <4>1, <4>3, QueueAssumption, BackendAssumption
        <5>2. cmd.seq # (SeqRange - 1 + p.sent) % SeqRange
          BY <4>1, <5>1, NextDiffers, QueueAssumption
        <5> QED
          BY <1>3, <5>2
      <4> QED
        BY <4>1, <4>2, <4>3
    <3> HIDE DEF n
    <3> QED
      BY <1>1, <1>3, <2>3, <3>1, <3>2 DEF Peer
  <2> QED
    BY <1>1, <2>1, <2>2, <2>3
<1> HIDE DEF q
<1>5. /\ peers'[pid] = q /\ \A o \in Pid \ {pid} : peers'[o] = peers[o]
      /\ peers' \in [Pid -> Peer]
  BY <1>1, <1>2, <1>4 DEF Peered
<1>6. Peered'
  BY <1>1, <1>2, <1>4, <1>5 DEF Peered
<1>7. Fetched'
  BY <1>1, <1>2, <1>4, <1>5 DEF Fetched
<1>8. ASSUME ~safe
      PROVE  Pushed' = Pushed
  <2>1. worker' = cmd /\ worker' # Idle
    BY <1>1, <1>2, <1>8, BackendAssumption
  <2>2. Told /\ Told'
    <3>1. (Peered /\ Fetched => Told)'
      BY PushedIs, PTL
    <3> QED
      BY <1>6, <1>7, <3>1, PushedIs
  <2>3. ASSUME NEW k \in Key, NEW l \in Life
        PROVE  <<k, l>> \in Pushed' <=> <<k, l>> \in Pushed
    <3>1. <<k, l>> \in Pushed <=>
            peers[k.pid].alive /\ peers[k.pid].inc = k.inc /\ peers[k.pid].life = l
      BY <1>2, <2>2 DEF Told
    <3>2. <<k, l>> \in Pushed' <=>
            IF cmd.op = "spawn" /\ k.pid = pid THEN FALSE
            ELSE IF cmd.op = "despawn" /\ k = cmd.key THEN l = peers'[k.pid].life
            ELSE peers'[k.pid].alive /\ peers'[k.pid].inc = k.inc /\ peers'[k.pid].life = l
      BY <2>1, <2>2 DEF Told
    <3>3. k.pid \in Pid /\ k = [pid |-> k.pid, inc |-> k.inc]
          /\ cmd.key = [pid |-> cmd.key.pid, inc |-> cmd.key.inc]
      BY <1>1 DEF Key
    <3>4. CASE k.pid # pid
      BY <1>5, <3>1, <3>2, <3>3, <3>4
    <3>5. CASE k.pid = pid
      BY <1>1, <1>4, <1>5, <3>1, <3>2, <3>3, <3>5
    <3> QED
      BY <3>4, <3>5
  <2>4. Pushed \in SUBSET (Key \X Life) /\ Pushed' \in SUBSET (Key \X Life)
    BY <2>2 DEF Told
  <2> QED
    BY <2>3, <2>4, SamePairs
<1> QED
  BY <1>6, <1>7, <1>8

Queued == QueueTypeOK /\ IsFiniteSet(DOMAIN fifos)

Followed == ~safe => Path(controls, Lived(slots), Pushed)

Rings ==
  ~safe => \A k \in DOMAIN fifos : \A i \in 1..Len(fifos[k].ring) :
             <<k, fifos[k].ring[i].life>> \in Pushed

\* One more command leads one step further.
LEMMA PathGrows ==
  ASSUME NEW q \in Seq(Spawn \cup Despawn), NEW c \in Spawn \cup Despawn,
         NEW a, NEW z, NEW y \in SUBSET (Key \X Life), Path(q, a, z), Stepped(z, c, y)
  PROVE  Path(Append(q, c), a, y)
<1>1. PICK h \in [0..Len(q) -> SUBSET (Key \X Life)] :
        /\ h[0] = a /\ h[Len(q)] = z
        /\ \A i \in 1..Len(q) : Stepped(h[i - 1], q[i], h[i])
  BY DEF Path
<1> DEFINE n == Len(q)
           w == Append(q, c)
           g == [i \in 0..(n + 1) |-> IF i = n + 1 THEN y ELSE h[i]]
<1>2. /\ n \in Nat /\ Len(w) = n + 1
      /\ w[n + 1] = c /\ \A i \in 1..n : w[i] = q[i]
  BY LenProperties, AppendProperties
<1> HIDE DEF n, w
<1>3. h \in [0..n -> SUBSET (Key \X Life)]
  BY DEF n
<1>4. g \in [0..(n + 1) -> SUBSET (Key \X Life)]
  BY <1>2, <1>3
<1>5. g[0] = a /\ g[n + 1] = y
  BY <1>1, <1>2
<1>6. ASSUME NEW i \in 1..(n + 1)
      PROVE  Stepped(g[i - 1], w[i], g[i])
  <2>1. CASE i = n + 1
    <3>1. g[i - 1] = h[n] /\ g[i] = y
      BY <1>2, <2>1
    <3>2. h[n] = z
      BY <1>1 DEF n
    <3> HIDE DEF g
    <3> QED
      BY <1>2, <2>1, <3>1, <3>2
  <2>2. CASE i # n + 1
    <3>1. i \in 1..n /\ i - 1 \in 0..n /\ i - 1 # n + 1
      BY <1>2, <2>2
    <3>2. g[i - 1] = h[i - 1] /\ g[i] = h[i] /\ w[i] = q[i]
      BY <1>2, <3>1
    <3>3. Stepped(h[i - 1], q[i], h[i])
      BY <1>1, <3>1 DEF n
    <3> HIDE DEF g
    <3> QED
      BY <3>2, <3>3
  <2> QED
    BY <2>1, <2>2
<1>7. Path(w, a, y)
  <2>1. g \in [0..Len(w) -> SUBSET (Key \X Life)] /\ g[Len(w)] = y
    BY <1>2, <1>4, <1>5
  <2>2. \A i \in 1..Len(w) : Stepped(g[i - 1], w[i], g[i])
    BY <1>2, <1>6
  <2> HIDE DEF g
  <2> QED
    BY <1>5, <2>1, <2>2 DEF Path
<1> QED
  BY <1>7 DEF w

\* The FIFO loses its oldest entry when it is full
\* (remote_command_queue.cpp:78-122).
LEMMA RingPush ==
  ASSUME NEW old \in Seq(Sample), NEW cmd \in Sample, Len(old) <= FifoDepth
  PROVE  LET new == Append(IF Len(old) = FifoDepth THEN Tail(old) ELSE old, cmd)
         IN /\ new \in Seq(Sample) /\ Len(new) <= FifoDepth
            /\ \A i \in 1..Len(new) :
                 new[i] = cmd \/ \E j \in 1..Len(old) : new[i] = old[j]
<1> DEFINE kept == IF Len(old) = FifoDepth THEN Tail(old) ELSE old
           new == Append(kept, cmd)
<1>1. Len(old) \in Nat
  BY LenProperties
<1>2. /\ kept \in Seq(Sample) /\ Len(kept) < FifoDepth
      /\ \A i \in 1..Len(kept) : \E j \in 1..Len(old) : kept[i] = old[j]
  <2>1. CASE Len(old) = FifoDepth
    <3>1. old # <<>>
      <4>1. Len(old) # 0 /\ Len(<<>>) = 0
        BY <2>1, QueueAssumption
      <4> QED
        BY <4>1
    <3>2. /\ Tail(old) \in Seq(Sample) /\ Len(Tail(old)) = Len(old) - 1
          /\ \A i \in 1..Len(Tail(old)) : Tail(old)[i] = old[i + 1]
      BY <3>1, HeadTailProperties
    <3>3. \A i \in 1..Len(Tail(old)) : i + 1 \in 1..Len(old)
      BY <1>1, <3>2
    <3> QED
      BY <1>1, <2>1, <3>2, <3>3
  <2>2. CASE Len(old) # FifoDepth
    BY <1>1, <2>2, QueueAssumption
  <2> QED
    BY <2>1, <2>2
<1> HIDE DEF kept
<1>3. Len(kept) \in Nat
  BY <1>2, LenProperties
<1>4. /\ new \in Seq(Sample) /\ Len(new) = Len(kept) + 1
      /\ new[Len(kept) + 1] = cmd /\ \A i \in 1..Len(kept) : new[i] = kept[i]
  BY <1>2, AppendProperties
<1>5. Len(new) <= FifoDepth
  BY <1>2, <1>3, <1>4, QueueAssumption
<1>6. ASSUME NEW i \in 1..Len(new)
      PROVE  new[i] = cmd \/ \E j \in 1..Len(old) : new[i] = old[j]
  <2>1. i = Len(kept) + 1 \/ i \in 1..Len(kept)
    BY <1>3, <1>4
  <2> QED
    BY <1>2, <1>4, <2>1
<1>7. /\ new \in Seq(Sample) /\ Len(new) <= FifoDepth
      /\ \A i \in 1..Len(new) :
           new[i] = cmd \/ \E j \in 1..Len(old) : new[i] = old[j]
  BY <1>4, <1>5, <1>6
<1> QED
  BY <1>7 DEF kept

\* What a push does to the lists.
LEMMA ControlPushed ==
  ASSUME Queued, NEW cmd \in Spawn \cup Despawn, NEW dead, ~Overflows(cmd),
         PushControl(cmd, dead)
  PROVE  /\ Queued'
         /\ controls' = Append(controls, cmd)
         /\ DOMAIN fifos' = DOMAIN fifos \ dead
         /\ \A k \in DOMAIN fifos' : fifos'[k] = fifos[k]
<1>1. /\ controls \in Seq(Spawn \cup Despawn) /\ Len(controls) <= MaxControls
      /\ DOMAIN fifos \in SUBSET Key /\ \A k \in DOMAIN fifos : fifos[k] \in Fifo
      /\ Cardinality(DOMAIN fifos) <= MaxFifos /\ IsFiniteSet(DOMAIN fifos)
      /\ \A k \in DOMAIN fifos : Len(fifos[k].ring) <= FifoDepth
  BY DEF Queued, QueueTypeOK
<1>2. /\ controls' = Append(controls, cmd)
      /\ fifos' = [k \in DOMAIN fifos \ dead |-> fifos[k]]
  BY DEF PushControl, WithoutStates, Restrict
<1>3. controls' \in Seq(Spawn \cup Despawn) /\ Len(controls') <= MaxControls
  <2>1. Len(controls) # MaxControls /\ Len(controls) \in Nat
    BY <1>1, LenProperties DEF Overflows, Spawn, Despawn
  <2>2. controls' \in Seq(Spawn \cup Despawn) /\ Len(controls') = Len(controls) + 1
    BY <1>1, <1>2, AppendProperties
  <2> QED
    BY <1>1, <2>1, <2>2, QueueAssumption
<1>4. /\ IsFiniteSet(DOMAIN fifos \ dead)
      /\ Cardinality(DOMAIN fifos \ dead) <= MaxFifos
  <2>1. /\ IsFiniteSet(DOMAIN fifos \ dead)
        /\ Cardinality(DOMAIN fifos \ dead) <= Cardinality(DOMAIN fifos)
        /\ Cardinality(DOMAIN fifos \ dead) \in Nat /\ Cardinality(DOMAIN fifos) \in Nat
    BY <1>1, FS_Subset, FS_CardinalityType
  <2> QED
    BY <1>1, <2>1, QueueAssumption
<1>5. /\ DOMAIN fifos' = DOMAIN fifos \ dead
      /\ \A k \in DOMAIN fifos' : fifos'[k] = fifos[k]
      /\ fifos' \in [DOMAIN fifos' -> Fifo]
  BY <1>1, <1>2
<1>6. Queued'
  BY <1>1, <1>3, <1>4, <1>5 DEF Queued, QueueTypeOK
<1> QED
  BY <1>2, <1>5, <1>6

LEMMA StatePushed ==
  ASSUME Queued, NEW cmd \in Sample, ~Overflows(cmd), PushState(cmd)
  PROVE  /\ Queued' /\ controls' = controls
         /\ DOMAIN fifos' = DOMAIN fifos \cup {cmd.key}
         /\ \A k \in DOMAIN fifos' : \A i \in 1..Len(fifos'[k].ring) :
              \/ k = cmd.key /\ fifos'[k].ring[i] = cmd
              \/ k \in DOMAIN fifos /\ \E j \in 1..Len(fifos[k].ring) :
                                          fifos'[k].ring[i] = fifos[k].ring[j]
<1>1. /\ DOMAIN fifos \in SUBSET Key /\ \A k \in DOMAIN fifos : fifos[k] \in Fifo
      /\ Cardinality(DOMAIN fifos) <= MaxFifos /\ IsFiniteSet(DOMAIN fifos)
      /\ \A k \in DOMAIN fifos : Len(fifos[k].ring) <= FifoDepth
  BY DEF Queued, QueueTypeOK
<1> DEFINE old == IF cmd.key \in DOMAIN fifos THEN fifos[cmd.key].ring ELSE <<>>
           new == Append(IF Len(old) = FifoDepth THEN Tail(old) ELSE old, cmd)
           f == [ring |-> new, last |-> cmd.seq]
<1>2. /\ controls' = controls
      /\ fifos' = [k \in DOMAIN fifos \cup {cmd.key} |-> IF k = cmd.key THEN f ELSE fifos[k]]
  BY DEF PushState
<1>3. cmd.key \in Key /\ cmd.seq \in Seqno /\ cmd.op = "state"
  BY DEF Sample
<1>4. old \in Seq(Sample) /\ Len(old) <= FifoDepth
  <2>1. CASE cmd.key \in DOMAIN fifos
    BY <1>1, <2>1 DEF Fifo
  <2>2. CASE cmd.key \notin DOMAIN fifos
    <3>1. <<>> \in Seq(Sample) /\ Len(<<>>) = 0
      OBVIOUS
    <3> QED
      BY <2>2, <3>1, QueueAssumption
  <2> QED
    BY <2>1, <2>2
<1>5. cmd.key \notin DOMAIN fifos => old = <<>>
  OBVIOUS
<1>6. cmd.key \in DOMAIN fifos => old = fifos[cmd.key].ring
  OBVIOUS
<1> HIDE DEF old
<1>7. /\ new \in Seq(Sample) /\ Len(new) <= FifoDepth
      /\ \A i \in 1..Len(new) :
           new[i] = cmd \/ \E j \in 1..Len(old) : new[i] = old[j]
  BY <1>4, RingPush
<1> HIDE DEF new
<1>8. f \in Fifo /\ f.ring = new
  BY <1>3, <1>7 DEF Fifo
<1> HIDE DEF f
<1>9. /\ DOMAIN fifos' = DOMAIN fifos \cup {cmd.key} /\ fifos'[cmd.key] = f
      /\ \A k \in DOMAIN fifos \ {cmd.key} : fifos'[k] = fifos[k]
      /\ fifos' \in [DOMAIN fifos' -> Fifo]
  BY <1>1, <1>2, <1>8
<1>10. /\ IsFiniteSet(DOMAIN fifos \cup {cmd.key})
       /\ Cardinality(DOMAIN fifos \cup {cmd.key}) <= MaxFifos
  <2>1. /\ IsFiniteSet(DOMAIN fifos \cup {cmd.key}) /\ Cardinality(DOMAIN fifos) \in Nat
        /\ Cardinality(DOMAIN fifos \cup {cmd.key}) =
             IF cmd.key \in DOMAIN fifos THEN Cardinality(DOMAIN fifos)
             ELSE Cardinality(DOMAIN fifos) + 1
    BY <1>1, FS_AddElement, FS_CardinalityType
  <2>2. cmd.key \in DOMAIN fifos \/ Cardinality(DOMAIN fifos) # MaxFifos
    BY <1>3 DEF Overflows
  <2> QED
    BY <1>1, <2>1, <2>2, QueueAssumption
<1>11. \A k \in DOMAIN fifos' : Len(fifos'[k].ring) <= FifoDepth
  BY <1>1, <1>7, <1>8, <1>9
<1>12. Queued'
  BY <1>1, <1>2, <1>3, <1>9, <1>10, <1>11 DEF Queued, QueueTypeOK
<1>13. ASSUME NEW k \in DOMAIN fifos', NEW i \in 1..Len(fifos'[k].ring)
       PROVE  \/ k = cmd.key /\ fifos'[k].ring[i] = cmd
              \/ k \in DOMAIN fifos /\ \E j \in 1..Len(fifos[k].ring) :
                                          fifos'[k].ring[i] = fifos[k].ring[j]
  <2>1. CASE k # cmd.key
    BY <1>9, <2>1
  <2>2. CASE k = cmd.key
    <3>1. fifos'[k].ring = new
      BY <1>8, <1>9, <2>2
    <3>2. new[i] = cmd \/ \E j \in 1..Len(old) : new[i] = old[j]
      BY <1>7, <3>1
    <3>3. CASE cmd.key \in DOMAIN fifos
      BY <1>6, <2>2, <3>1, <3>2, <3>3
    <3>4. CASE cmd.key \notin DOMAIN fifos
      <4>1. Len(old) = 0
        <5>1. Len(<<>>) = 0
          OBVIOUS
        <5> QED
          BY <1>5, <3>4, <5>1
      <4> QED
        BY <2>2, <3>1, <3>2, <4>1
    <3> QED
      BY <3>3, <3>4
  <2> QED
    BY <2>1, <2>2
<1> QED
  BY <1>2, <1>9, <1>12, <1>13

\* A command that is pushed is one more step of the lives the queue knows.
LEMMA PushSteps ==
  ASSUME Peered, Fetched, worker # Idle, worker' = Idle, UNCHANGED peers
  PROVE  /\ Peered' /\ Fetched' /\ Told /\ Told'
         /\ worker.op = "state" => Pushed' = Pushed
         /\ worker.op # "state" => Stepped(Pushed, worker, Pushed')
<1>1. Peered' /\ Fetched'
  BY DEF Peered, Fetched
<1>2. Told /\ Told'
  <2>1. (Peered /\ Fetched => Told)'
    BY PushedIs, PTL
  <2> QED
    BY <1>1, <2>1, PushedIs
<1> DEFINE c == worker
<1>3. /\ c \in Command /\ c.key \in Key /\ c.key.pid \in Pid
      /\ c.op \in {"spawn", "despawn", "state"}
      /\ c.op # "state" => c \in Spawn \cup Despawn
      /\ c.op = "spawn" => c.life \in Life
  BY DEF Peered, Command, Spawn, Despawn, Sample, Key
<1>4. /\ Pushed \in SUBSET (Key \X Life) /\ Pushed' \in SUBSET (Key \X Life)
      /\ \A k \in Key : \A l : <<k, l>> \in Pushed' <=>
           peers[k.pid].alive /\ peers[k.pid].inc = k.inc /\ peers[k.pid].life = l
      /\ \A k \in Key : \A l : <<k, l>> \in Pushed <=>
           IF c.op = "spawn" /\ k.pid = c.key.pid THEN FALSE
           ELSE IF c.op = "despawn" /\ k = c.key THEN l = peers[k.pid].life
           ELSE peers[k.pid].alive /\ peers[k.pid].inc = k.inc /\ peers[k.pid].life = l
  BY <1>2 DEF Told
<1>5. \A k \in Key : k.pid \in Pid /\ k = [pid |-> k.pid, inc |-> k.inc]
  BY DEF Key
<1>6. \A x \in Key \X Life : x = <<x[1], x[2]>> /\ x[1] \in Key /\ x[2] \in Life
  OBVIOUS
<1>7. CASE c.op = "state"
  <2>1. \A k \in Key, l \in Life : <<k, l>> \in Pushed' <=> <<k, l>> \in Pushed
    BY <1>4, <1>7
  <2>2. Pushed' = Pushed
    BY <1>4, <2>1, SamePairs
  <2> QED
    BY <1>1, <1>2, <1>7, <2>2
<1>8. CASE c.op = "spawn"
  <2>1. /\ peers[c.key.pid].alive /\ peers[c.key.pid].inc = c.key.inc
        /\ peers[c.key.pid].life = c.life
    BY <1>8 DEF Fetched
  <2> DEFINE y == Pushed \cup {<<c.key, c.life>>}
  <2>2. y \in SUBSET (Key \X Life)
    BY <1>3, <1>4, <1>8
  <2>3. ASSUME NEW k \in Key, NEW l \in Life
        PROVE  <<k, l>> \in Pushed' <=> <<k, l>> \in y
    <3>1. <<k, l>> \in y <=> <<k, l>> \in Pushed \/ (k = c.key /\ l = c.life)
      OBVIOUS
    <3>2. k.pid = c.key.pid /\ k.inc = c.key.inc <=> k = c.key
      BY <1>3, <1>5
    <3> HIDE DEF y
    <3> QED
      BY <1>4, <1>8, <2>1, <3>1, <3>2
  <2>4. Pushed' = y
    <3> HIDE DEF y
    <3> QED
      BY <1>4, <2>2, <2>3, SamePairs
  <2>5. \A x \in Pushed : x[1].pid # c.key.pid
    BY <1>4, <1>6, <1>8
  <2>6. Stepped(Pushed, worker, Pushed')
    BY <1>8, <2>4, <2>5 DEF Stepped
  <2> QED
    BY <1>1, <1>2, <1>8, <2>6
<1>9. CASE c.op = "despawn"
  <2>1. ~peers[c.key.pid].alive
    BY <1>9 DEF Fetched
  <2> DEFINE y == {x \in Pushed : x[1] # c.key}
  <2>2. y \in SUBSET (Key \X Life)
    BY <1>4
  <2>3. ASSUME NEW k \in Key, NEW l \in Life
        PROVE  <<k, l>> \in Pushed' <=> <<k, l>> \in y
    <3>1. <<k, l>> \in y <=> <<k, l>> \in Pushed /\ k # c.key
      OBVIOUS
    <3> HIDE DEF y
    <3> QED
      BY <1>4, <1>9, <2>1, <3>1
  <2>4. Pushed' = y
    <3> HIDE DEF y
    <3> QED
      BY <1>4, <2>2, <2>3, SamePairs
  <2>5. Stepped(Pushed, worker, Pushed')
    BY <1>9, <2>4 DEF Stepped
  <2> QED
    BY <1>1, <1>2, <1>9, <2>5
<1> QED
  BY <1>3, <1>7, <1>8, <1>9

\* RemoteCommandQueue::Push* (remote_command_queue.cpp:65-137): the commands and
\* the states that wait stay those of one sender.
LEMMA PushKeeps ==
  ASSUME Queued, Peered, Fetched, Followed, Rings, safe \in BOOLEAN, Push
  PROVE  /\ Queued' /\ Peered' /\ Fetched' /\ Followed' /\ Rings'
         /\ safe' \in BOOLEAN /\ (safe => safe')
<1>1. /\ worker # Idle /\ worker' = Idle /\ UNCHANGED <<peers, slotVars, todo, gameVars>>
      /\ \/ Enqueue(worker) /\ UNCHANGED safe
         \/ Overflows(worker) /\ safe' = TRUE /\ UNCHANGED queueVars
  BY DEF Push
<1>2. /\ Peered' /\ Fetched' /\ Told /\ Told'
      /\ worker.op = "state" => Pushed' = Pushed
      /\ worker.op # "state" => Stepped(Pushed, worker, Pushed')
  BY <1>1, PushSteps
<1>3. /\ worker.op = "spawn" => worker \in Spawn
      /\ worker.op = "despawn" => worker \in Despawn
      /\ worker.op = "state" => worker \in Sample
      /\ worker.key \in Key /\ worker.key.pid \in Pid
  BY <1>1 DEF Peered, Command, Spawn, Despawn, Sample, Key
<1>4. controls \in Seq(Spawn \cup Despawn)
  BY DEF Queued, QueueTypeOK
<1>5. Pushed' \in SUBSET (Key \X Life)
  BY <1>2 DEF Told
<1>6. slots' = slots
  BY <1>1 DEF slotVars
<1>7. CASE UNCHANGED queueVars /\ safe' = TRUE
  BY <1>1, <1>2, <1>7 DEF Queued, QueueTypeOK, queueVars, Followed, Rings
<1>8. CASE /\ worker.op = "state" /\ UNCHANGED queueVars /\ UNCHANGED safe
  <2>1. Pushed' = Pushed
    BY <1>2, <1>8
  <2> QED
    BY <1>2, <1>6, <1>8, <2>1
    DEF Queued, QueueTypeOK, queueVars, Followed, Rings, Lived, Path
<1>9. ASSUME NEW dead, worker.op # "state", worker \in Spawn \cup Despawn,
             PushControl(worker, dead), ~Overflows(worker), UNCHANGED safe,
             \A k \in Key : k.pid = worker.key.pid =>
                k \in dead \/ (k = worker.key /\ worker.op = "spawn")
      PROVE  Queued' /\ Followed' /\ Rings'
  <2>1. /\ Queued' /\ controls' = Append(controls, worker)
        /\ DOMAIN fifos' = DOMAIN fifos \ dead
        /\ \A k \in DOMAIN fifos' : fifos'[k] = fifos[k]
    BY <1>9, ControlPushed
  <2>2. Stepped(Pushed, worker, Pushed')
    BY <1>2, <1>9
  <2>3. Followed'
    <3> SUFFICES ASSUME ~safe
                 PROVE  Path(controls, Lived(slots), Pushed)'
      BY <1>9 DEF Followed
    <3>1. Path(controls, Lived(slots), Pushed)
      BY DEF Followed
    <3> DEFINE x == Lived(slots)
               y == Pushed'
    <3>2. Path(controls', x, y)
      <4>1. y \in SUBSET (Key \X Life)
        BY <1>5
      <4> HIDE DEF x, y
      <4>2. Path(controls, x, Pushed) /\ Stepped(Pushed, worker, y)
        BY <2>2, <3>1 DEF x, y
      <4> QED
        BY <1>4, <1>9, <2>1, <4>1, <4>2, PathGrows
    <3>3. Lived(slots)' = x
      BY <1>6 DEF Lived
    <3> QED
      BY <3>2, <3>3 DEF Path
  <2>4. Rings'
    <3> SUFFICES ASSUME ~safe, NEW k \in DOMAIN fifos', NEW i \in 1..Len(fifos'[k].ring)
                 PROVE  <<k, fifos'[k].ring[i].life>> \in Pushed'
      BY <1>9 DEF Rings
    <3> DEFINE l == fifos[k].ring[i].life
    <3>1. k \in DOMAIN fifos \ dead /\ fifos'[k] = fifos[k] /\ <<k, l>> \in Pushed
      BY <1>9, <2>1 DEF Rings
    <3>2. k \in Key /\ (k.pid = worker.key.pid => k = worker.key /\ worker.op = "spawn")
      BY <1>9, <3>1 DEF Queued, QueueTypeOK
    <3> HIDE DEF l
    <3>3. <<k, l>> \in Pushed'
      <4>1. CASE worker.op = "spawn"
        BY <2>2, <3>1, <4>1 DEF Stepped
      <4>2. CASE worker.op = "despawn"
        <5>1. k # worker.key
          BY <3>2, <4>2
        <5>2. Pushed' = {x \in Pushed : x[1] # worker.key}
          BY <2>2, <4>2 DEF Stepped
        <5>3. <<k, l>>[1] = k
          OBVIOUS
        <5> QED
          BY <3>1, <5>1, <5>2, <5>3
      <4> QED
        BY <1>9, <4>1, <4>2 DEF Spawn, Despawn
    <3> QED
      BY <3>1, <3>3 DEF l
  <2> QED
    BY <2>1, <2>3, <2>4
<1>10. CASE worker.op = "spawn" /\ PushSpawn(worker) /\ ~Overflows(worker) /\ UNCHANGED safe
  <2> DEFINE dead == {k \in Key : k.pid = worker.key.pid /\ k # worker.key}
  <2>1. Queued' /\ Followed' /\ Rings'
    <3>1. PushControl(worker, dead)
      BY <1>10 DEF PushSpawn
    <3>2. \A k \in Key : k.pid = worker.key.pid =>
             k \in dead \/ (k = worker.key /\ worker.op = "spawn")
      BY <1>10
    <3> HIDE DEF dead
    <3> QED
      BY <1>3, <1>9, <1>10, <3>1, <3>2
  <2> QED
    BY <1>2, <1>10, <2>1
<1>11. CASE worker.op = "despawn" /\ PushDespawn(worker) /\ ~Overflows(worker) /\ UNCHANGED safe
  <2> DEFINE dead == {k \in Key : k.pid = worker.key.pid}
  <2>1. Queued' /\ Followed' /\ Rings'
    <3>1. PushControl(worker, dead)
      BY <1>11 DEF PushDespawn
    <3>2. \A k \in Key : k.pid = worker.key.pid =>
             k \in dead \/ (k = worker.key /\ worker.op = "spawn")
      BY <1>11
    <3> HIDE DEF dead
    <3> QED
      BY <1>3, <1>9, <1>11, <3>1, <3>2
  <2> QED
    BY <1>2, <1>11, <2>1
<1>12. CASE worker.op = "state" /\ PushState(worker) /\ ~Overflows(worker) /\ UNCHANGED safe
  <2>1. /\ Queued' /\ controls' = controls
        /\ \A k \in DOMAIN fifos' : \A i \in 1..Len(fifos'[k].ring) :
             \/ k = worker.key /\ fifos'[k].ring[i] = worker
             \/ k \in DOMAIN fifos /\ \E j \in 1..Len(fifos[k].ring) :
                                         fifos'[k].ring[i] = fifos[k].ring[j]
    BY <1>3, <1>12, StatePushed
  <2>2. Pushed' = Pushed
    BY <1>2, <1>12
  <2>3. Followed'
    BY <1>6, <1>12, <2>1, <2>2 DEF Followed, Lived, Path
  <2>4. <<worker.key, worker.life>> \in Pushed
    BY <1>1, <1>2, <1>3, <1>12 DEF Told, Fetched
  <2>5. Rings'
    <3> SUFFICES ASSUME ~safe, NEW k \in DOMAIN fifos', NEW i \in 1..Len(fifos'[k].ring)
                 PROVE  <<k, fifos'[k].ring[i].life>> \in Pushed'
      BY <1>12 DEF Rings
    <3>1. CASE k = worker.key /\ fifos'[k].ring[i] = worker
      BY <2>2, <2>4, <3>1
    <3>2. CASE k \in DOMAIN fifos /\ \E j \in 1..Len(fifos[k].ring) :
                                        fifos'[k].ring[i] = fifos[k].ring[j]
      BY <2>2, <3>2 DEF Rings
    <3> QED
      BY <2>1, <3>1, <3>2
  <2> QED
    BY <1>2, <1>12, <2>1, <2>3, <2>5
<1> QED
  BY <1>1, <1>7, <1>8, <1>10, <1>11, <1>12 DEF Enqueue

\* Whatever leaves the queue, the worker and the lives of the slots alone.
LEMMA Steady ==
  ASSUME Queued, Peered, Fetched, Followed, Rings,
         UNCHANGED <<queueVars, peers, worker>>, safe' \/ ~safe,
         ~safe' => Lived(slots') = Lived(slots)
  PROVE  Queued' /\ Peered' /\ Fetched' /\ Followed' /\ Rings'
<1>1. controls' = controls /\ fifos' = fifos /\ peers' = peers /\ worker' = worker
  BY DEF queueVars
<1>2. Queued' /\ Peered' /\ Fetched' /\ Pushed' = Pushed
  BY <1>1 DEF Queued, QueueTypeOK, Peered, Fetched, Pushed, Alive
<1>3. Rings'
  BY <1>1, <1>2 DEF Rings
<1>4. Followed'
  <2> SUFFICES ASSUME ~safe'
               PROVE  Path(controls, Lived(slots), Pushed)'
    BY DEF Followed
  <2>1. Path(controls, Lived(slots), Pushed) /\ Lived(slots') = Lived(slots)
    BY DEF Followed
  <2>2. Path(controls', Lived(slots'), Pushed')
    BY <1>1, <1>2, <2>1
  <2> QED
    BY <2>2 DEF Path, Lived
<1> QED
  BY <1>2, <1>3, <1>4

\* After TryDrain the slots have the lives the queue was told of, unless safe
\* mode is entered.
LEMMA DrainKeeps ==
  ASSUME Queued, Peered, Fetched, Drain, UNCHANGED <<peers, worker>>,
         ~safe' => Lived(slots') = Pushed
  PROVE  Queued' /\ Peered' /\ Fetched' /\ Followed' /\ Rings'
<1>1. /\ controls' = <<>> /\ peers' = peers /\ worker' = worker
      /\ fifos' = [k \in DOMAIN fifos |-> [fifos[k] EXCEPT !.ring = <<>>]]
  BY DEF Drain
<1>2. Peered' /\ Fetched' /\ Pushed' = Pushed
  BY <1>1 DEF Peered, Fetched, Pushed, Alive
<1>3. /\ <<>> \in Seq(Spawn \cup Despawn) /\ <<>> \in Seq(Sample) /\ Len(<<>>) = 0
  OBVIOUS
<1>4. ASSUME NEW k \in DOMAIN fifos
      PROVE  [fifos[k] EXCEPT !.ring = <<>>] \in Fifo /\ fifos'[k].ring = <<>>
  <2>1. fifos[k] \in Fifo
    BY DEF Queued, QueueTypeOK
  <2> QED
    BY <1>1, <1>3, <2>1 DEF Fifo
<1>5. /\ DOMAIN fifos' = DOMAIN fifos /\ fifos' \in [DOMAIN fifos -> Fifo]
      /\ \A k \in DOMAIN fifos' : Len(fifos'[k].ring) = 0
  <2>1. DOMAIN fifos' = DOMAIN fifos /\ fifos' \in [DOMAIN fifos -> Fifo]
    BY <1>1, <1>4
  <2>2. ASSUME NEW k \in DOMAIN fifos
        PROVE  Len(fifos'[k].ring) = 0
    <3>1. fifos'[k].ring = <<>>
      BY <1>4
    <3> QED
      BY <1>3, <3>1
  <2> QED
    BY <2>1, <2>2
<1>6. Queued'
  <2>1. Len(controls') <= MaxControls /\ controls' \in Seq(Spawn \cup Despawn)
    BY <1>1, <1>3, QueueAssumption
  <2>2. \A k \in DOMAIN fifos' : Len(fifos'[k].ring) <= FifoDepth
    BY <1>5, QueueAssumption
  <2> QED
    BY <1>5, <2>1, <2>2 DEF Queued, QueueTypeOK
<1>7. Rings'
  <2>1. \A k \in DOMAIN fifos' : 1..Len(fifos'[k].ring) = {}
    BY <1>5
  <2> QED
    BY <2>1 DEF Rings
<1>8. Followed'
  <2> SUFFICES ASSUME ~safe'
               PROVE  Path(controls, Lived(slots), Pushed)'
    BY DEF Followed
  <2>1. Told
    BY PushedIs
  <2> DEFINE z == Pushed
             h == [i \in 0..0 |-> z]
  <2>2. z \in SUBSET (Key \X Life)
    BY <2>1 DEF Told
  <2> HIDE DEF z
  <2>3. Path(<<>>, z, z)
    <3>1. h \in [0..0 -> SUBSET (Key \X Life)] /\ h[0] = z
      BY <2>2
    <3>2. 1..0 = {}
      OBVIOUS
    <3> HIDE DEF h
    <3> QED
      BY <1>3, <3>1, <3>2 DEF Path
  <2>4. Path(controls', Lived(slots'), Pushed')
    BY <1>1, <1>2, <2>3 DEF z
  <2> QED
    BY <2>4 DEF Path, Lived
<1> QED
  BY <1>2, <1>6, <1>7, <1>8

-----------------------------------------------------------------------------
(* The inductive invariant.                                                *)

\* What TryDrain, the visits and the detours find is what one sender sent, what
\* the slots hold is what the game and the detours know.
AInv ==
  /\ Queued /\ Peered /\ Fetched /\ Followed /\ Rings
  /\ Sound /\ Distinct
  /\ room \in Where /\ archive \in BOOLEAN
  /\ todo # {} /\ ~safe => Armed(todo)
  /\ NoStateOfAnotherLife

\* And, where an acquisition that fails leaves nothing behind.
Held == AInv /\ ActorsAreHeld /\ SavesAreClean

LEMMA AInvInit ==
  ASSUME Init
  PROVE  Held
<1>1. /\ controls = <<>> /\ DOMAIN fifos = {} /\ DOMAIN slots = {} /\ DOMAIN world = {}
      /\ fifos \in [{} -> Fifo] /\ slots \in [{} -> Slot] /\ world \in [{} -> 0..MaxVehicle]
  BY DEF Init, QueueInit
<1>2. IsFiniteSet({}) /\ Cardinality({}) = 0
  BY FS_EmptySet
<1>3. <<>> \in Seq(Spawn \cup Despawn) /\ Len(<<>>) = 0
  OBVIOUS
<1>4. Queued
  BY <1>1, <1>2, <1>3, QueueAssumption DEF Queued, QueueTypeOK
<1>5. Peered /\ Fetched /\ worker = Idle
  <2> DEFINE i == CHOOSE j \in Incarnation : TRUE
             p == [inc |-> i, life |-> 0, sent |-> 0, alive |-> FALSE]
  <2>1. i \in Incarnation
    BY BackendAssumption
  <2>2. peers = [q \in Pid |-> p] /\ worker = Idle
    BY DEF Init
  <2> HIDE DEF i
  <2>3. p \in Peer /\ ~p.alive
    BY <2>1, QueueAssumption, BackendAssumption DEF Peer
  <2> HIDE DEF p
  <2> QED
    BY <2>2, <2>3 DEF Peered, Fetched
<1>6. Pushed = {} /\ Lived(slots) = {}
  <2>1. \A q \in Pid : ~peers[q].alive
    BY DEF Init
  <2>2. Alive = {}
    BY <2>1 DEF Alive
  <2> QED
    BY <1>1, <1>5, <2>2 DEF Pushed, Lived
<1>7. Followed
  <2> DEFINE h == [i \in 0..0 |-> {}]
  <2>1. h \in [0..0 -> SUBSET (Key \X Life)] /\ h[0] = {} /\ 1..0 = {}
    OBVIOUS
  <2> HIDE DEF h
  <2>2. Path(<<>>, {}, {})
    BY <1>3, <2>1 DEF Path
  <2> QED
    BY <1>1, <1>6, <2>2 DEF Followed
<1>8. Rings /\ Distinct /\ NoStateOfAnotherLife
  BY <1>1 DEF Rings, Distinct, NoStateOfAnotherLife
<1>9. Sound
  <2>1. {} \in SUBSET Key
    OBVIOUS
  <2>2. slots \in Slots
    BY <1>1, <2>1 DEF Slots
  <2>3. Typed
    BY <1>1, <1>2, <2>2, BackendAssumption DEF Typed, Fits
  <2>4. Worldly
    BY <1>1 DEF Worldly
  <2>5. Published
    BY <1>1 DEF Published, Attaches, ActorsOf, BindingOf, Init
  <2> QED
    BY <2>3, <2>4, <2>5 DEF Sound, Init
<1>10. room \in Where /\ archive \in BOOLEAN /\ todo = {}
  BY DEF Init, Where
<1>11. ActorsAreHeld /\ SavesAreClean
  BY <1>1 DEF ActorsAreHeld, SavesAreClean, Init
<1> QED
  BY <1>4, <1>5, <1>7, <1>8, <1>9, <1>10, <1>11 DEF AInv, Held

\* What each step keeps.
Clean == ActorsAreHeld /\ SavesAreClean

Preserved == AInv' /\ ("acquire" \notin Faults /\ Clean => Clean')

Queueing == Queued /\ Peered /\ Fetched /\ Followed /\ Rings

LEMMA VisitStep ==
  ASSUME AInv, NEW k, Visit(k)
  PROVE  /\ Preserved
         /\ todo # {} /\ ~safe' => Armed(todo)'
<1>1. PICK s : Visited(k, s) /\ Lasts(k, s)
  BY AnyVisit DEF AInv
<1>2. /\ Sound' /\ Distinct' /\ Lived(slots') = Lived(slots)
      /\ NoStateOfAnotherLife'
      /\ Armed(todo) /\ ~safe' => Armed(todo)'
      /\ "acquire" \notin Faults /\ ActorsAreHeld => ActorsAreHeld'
  BY <1>1, VisitKeeps DEF AInv
<1>3. /\ UNCHANGED <<queueVars, peers, worker, room, archive>>
      /\ (safe => safe') /\ todo' \subseteq todo
  BY <1>1 DEF Visited
<1>4. Queueing'
  BY <1>2, <1>3, Steady DEF AInv, Queueing
<1>5. todo # {} /\ ~safe' => Armed(todo)'
  BY <1>2, <1>3 DEF AInv
<1>6. AInv'
  <2>1. todo' # {} => todo # {}
    BY <1>3
  <2> QED
    BY <1>2, <1>3, <1>4, <1>5, <2>1 DEF AInv, Queueing
<1>7. "acquire" \notin Faults /\ Clean => Clean'
  BY <1>2, <1>3 DEF Clean, SavesAreClean
<1> QED
  BY <1>5, <1>6, <1>7 DEF Preserved

\* Outside the visits nothing is to be armed.
LEMMA SafeTickStep ==
  ASSUME AInv, TickInSafeMode
  PROVE  Preserved
<1>1. PICK stuck : Swept(Vacated, DOMAIN slots, stuck)
  BY SafeTickSweeps DEF AInv
<1>2. Typed' /\ Worldly' /\ Published' /\ Distinct'
  BY <1>1, SweepKeeps DEF AInv
<1>3. /\ safe /\ todo = {} /\ UNCHANGED <<peers, worker, safe, todo, room, archive>>
      /\ Drain \/ UNCHANGED queueVars
      /\ slots' = Vacated
  BY DEF TickInSafeMode
<1>4. Queueing'
  <2>1. CASE Drain
    BY <1>3, <2>1, DrainKeeps DEF AInv, Queueing
  <2>2. CASE UNCHANGED queueVars
    BY <1>3, <2>2, Steady DEF AInv, Queueing
  <2> QED
    BY <1>3, <2>1, <2>2
<1>5. NoStateOfAnotherLife'
  <2>1. DOMAIN slots' = {}
    BY <1>3 DEF Vacated, Restrict
  <2> QED
    BY <2>1 DEF NoStateOfAnotherLife
<1>6. Sound'
  BY <1>2, <1>3 DEF Sound, AInv
<1>7. AInv'
  BY <1>2, <1>3, <1>4, <1>5, <1>6 DEF AInv, Queueing
<1>8. Clean => Clean'
  BY <1>3 DEF Clean, ActorsAreHeld, SavesAreClean
<1> QED
  BY <1>7, <1>8 DEF Preserved

\* A state in a FIFO was sent in the life of its slot, once the controls of the
\* batch were applied.
LEMMA BatchStep ==
  ASSUME AInv, NEW acc, NEW fresh, Batch(acc, fresh), TickWith(acc), todo = {}, ~safe,
         UNCHANGED <<peers, worker, room, archive>>,
         fresh => Lived(acc.slots) \subseteq Pushed,
         ASSUME ~safe', Lived(slots') = Lived(acc.slots) PROVE Queueing',
         ASSUME safe' PROVE Queueing'
  PROVE  Preserved
<1>1. PICK stuck, dead, T :
        /\ Swept(T, dead, stuck)
        /\ DOMAIN T = DOMAIN acc.slots /\ Lived(T) = Lived(acc.slots)
        /\ \A k \in DOMAIN T :
             T[k].life = acc.slots[k].life /\ T[k].state = acc.slots[k].state
        /\ todo' \in {{}, DOMAIN T}
        /\ safe' = (acc.full \/ stuck # {})
  BY BatchSweeps DEF AInv
<1>2. /\ Typed' /\ Worldly' /\ Published' /\ Distinct'
      /\ stuck = {} /\ DOMAIN world \subseteq ActorsOf(DOMAIN slots) =>
           DOMAIN world' \subseteq ActorsOf(DOMAIN slots)'
  BY <1>1, SweepKeeps DEF AInv
<1>3. slots' = T
  BY <1>1 DEF Swept
<1>4. safe' \in BOOLEAN
  BY <1>1 DEF Batch, Acc
<1>5. Queueing'
  BY <1>1, <1>3, <1>4
<1>6. Sound'
  BY <1>1, <1>2, <1>3, <1>4 DEF Sound
<1>7. NoStateOfAnotherLife'
  <2> SUFFICES ASSUME NEW k \in DOMAIN T, T[k].state # NoState
               PROVE  T[k].state.life = T[k].life
    BY <1>3 DEF NoStateOfAnotherLife
  <2>1. /\ k \in DOMAIN acc.slots /\ acc.slots[k].state # NoState
        /\ T[k].life = acc.slots[k].life /\ T[k].state = acc.slots[k].state
    BY <1>1
  <2>2. CASE /\ k \in DOMAIN slots /\ acc.slots[k].life = slots[k].life
             /\ acc.slots[k].state = slots[k].state
    BY <2>1, <2>2 DEF AInv, NoStateOfAnotherLife
  <2>3. CASE fresh /\ k \in DOMAIN fifos /\ \E i \in 1..Len(fifos[k].ring) :
                                              acc.slots[k].state = fifos[k].ring[i]
    <3>1. PICK i \in 1..Len(fifos[k].ring) : acc.slots[k].state = fifos[k].ring[i]
      BY <2>3
    <3>2. <<k, acc.slots[k].state.life>> \in Pushed
      BY <2>3, <3>1 DEF AInv, Rings
    <3>3. <<k, acc.slots[k].life>> \in Pushed
      BY <2>1, <2>3 DEF Lived
    <3>4. Told /\ k \in Key
      BY <2>3, PushedIs DEF AInv, Queued, QueueTypeOK
    <3> QED
      BY <2>1, <3>2, <3>3, <3>4 DEF Told
  <2> QED
    BY <2>1, <2>2, <2>3 DEF Batch
<1>8. Armed(todo)' \/ todo' = {}
  BY <1>1, <1>3 DEF Armed
<1>9. AInv'
  BY <1>2, <1>5, <1>6, <1>7, <1>8 DEF AInv, Queueing
<1>10. Clean => Clean'
  <2> SUFFICES ASSUME Clean
               PROVE  Clean'
    OBVIOUS
  <2>1. DOMAIN world \subseteq ActorsOf(DOMAIN slots) /\ ~archive
    BY DEF Clean, ActorsAreHeld, SavesAreClean
  <2>2. ~safe' => DOMAIN world' \subseteq ActorsOf(DOMAIN slots)'
    BY <1>1, <1>2, <2>1
  <2> QED
    BY <2>1, <2>2 DEF Clean, ActorsAreHeld, SavesAreClean
<1> QED
  BY <1>9, <1>10 DEF Preserved

LEMMA TickStep ==
  ASSUME AInv, TickBegin
  PROVE  Preserved
<1>1. /\ todo = {} /\ ~safe /\ UNCHANGED <<peers, worker, room, archive>>
      /\ \/ Drain /\ TickWith(Applied)
         \/ TickWith(Base) /\ UNCHANGED queueVars
  BY DEF TickBegin, Base
<1>2. /\ Typed /\ QueueTypeOK /\ Path(controls, Lived(slots), Pushed)
  BY <1>1 DEF AInv, Sound, Queued, Followed
<1>3. CASE Drain /\ TickWith(Applied)
  <2>1. Batch(Applied, TRUE) /\ Follows(Applied, Pushed)
    BY <1>2, AppliedDoes
  <2>2. safe' \in BOOLEAN /\ (~safe' => ~Applied.full)
    <3>1. Applied.full \in BOOLEAN
      BY <2>1 DEF Batch, Acc
    <3> QED
      BY <1>3, <3>1 DEF TickWith
  <2>3. ASSUME ~safe', Lived(slots') = Lived(Applied.slots)
        PROVE  Queueing'
    <3>1. Lived(slots') = Pushed
      BY <2>1, <2>2, <2>3 DEF Follows
    <3> QED
      BY <1>1, <1>3, <3>1, DrainKeeps DEF AInv, Queueing
  <2>4. ASSUME safe'
        PROVE  Queueing'
    BY <1>1, <1>3, <2>4, DrainKeeps DEF AInv, Queueing
  <2>5. Lived(Applied.slots) \subseteq Pushed
    BY <2>1 DEF Follows
  <2> QED
    BY <1>1, <1>3, <2>1, <2>3, <2>4, <2>5, BatchStep
<1>4. CASE TickWith(Base) /\ UNCHANGED queueVars
  <2>1. Batch(Base, FALSE) /\ Base.slots = slots
    BY <1>2, NothingDrained DEF Base
  <2>2. ASSUME ~safe', Lived(slots') = Lived(Base.slots)
        PROVE  Queueing'
    BY <1>1, <1>4, <2>1, <2>2, Steady DEF AInv, Queueing
  <2>3. ASSUME safe'
        PROVE  Queueing'
    BY <1>1, <1>4, <2>3, Steady DEF AInv, Queueing
  <2> QED
    BY <1>1, <1>4, <2>1, <2>2, <2>3, BatchStep
<1> QED
  BY <1>1, <1>3, <1>4

\* The slots and what the detours see stay; the game may change between ticks.
LEMMA Stands ==
  ASSUME AInv, UNCHANGED <<slotVars, todo>>, Queueing', Worldly',
         safe' \in BOOLEAN, safe => safe', todo = {} \/ UNCHANGED world,
         room' \in Where, archive' \in BOOLEAN,
         DOMAIN world' \subseteq DOMAIN world, archive' => archive \/ safe'
  PROVE  Preserved
<1>1. slots' = slots /\ registry' = registry /\ owned' = owned /\ index' = index
      /\ todo' = todo
  BY DEF slotVars
<1>2. /\ Typed' /\ Published' /\ Distinct' /\ NoStateOfAnotherLife'
      /\ ActorsOf(DOMAIN slots)' = ActorsOf(DOMAIN slots)
  BY <1>1 DEF AInv, Sound, Typed, Fits, Published, Attaches, ActorsOf, BindingOf, Distinct,
              NoStateOfAnotherLife
<1>3. Sound'
  BY <1>1, <1>2 DEF AInv, Sound
<1>4. todo' # {} /\ ~safe' => Armed(todo)'
  BY <1>1 DEF AInv, Armed, Owns
<1>5. AInv'
  BY <1>1, <1>2, <1>3, <1>4 DEF AInv, Queueing
<1>6. Clean => Clean'
  BY <1>1, <1>2 DEF Clean, ActorsAreHeld, SavesAreClean
<1> QED
  BY <1>5, <1>6 DEF Preserved

LEMMA Unmoved == Worldly /\ UNCHANGED world => Worldly'
  BY DEF Worldly

LEMMA SameLives == UNCHANGED slotVars => Lived(slots') = Lived(slots)
  BY DEF slotVars, Lived

\* The pipe worker.
LEMMA WorkerStep ==
  ASSUME AInv, Worker
  PROVE  Preserved
<1>1. CASE \E cmd \in Sendable : Take(cmd)
  <2>1. PICK cmd \in Sendable : Take(cmd)
    BY <1>1
  <2>2. /\ Peered' /\ Fetched' /\ (~safe => Pushed' = Pushed)
    BY <2>1, TakeKeeps DEF AInv
  <2>3. UNCHANGED <<queueVars, safe, slotVars, todo, gameVars>>
    BY <2>1 DEF Take
  <2>4. Queued' /\ Followed' /\ Rings'
    BY <2>2, <2>3 DEF AInv, Queued, QueueTypeOK, queueVars, slotVars, Followed, Rings, Lived,
                      Path
  <2> QED
    BY <2>2, <2>3, <2>4, Stands, Unmoved DEF AInv, Sound, Queueing, gameVars
<1>2. CASE Push
  <2>1. Queueing' /\ safe' \in BOOLEAN /\ (safe => safe')
    BY <1>2, PushKeeps DEF AInv, Sound, Queueing
  <2>2. UNCHANGED <<slotVars, todo, gameVars>>
    BY <1>2 DEF Push
  <2> QED
    BY <2>1, <2>2, Stands, Unmoved DEF AInv, Sound, gameVars
<1>3. CASE RequestSafeMode
  <2>1. /\ UNCHANGED <<queueVars, peers, worker, slotVars, todo, gameVars>> /\ safe' = TRUE
    BY <1>3 DEF RequestSafeMode
  <2>2. Queueing'
    BY <2>1, Steady DEF AInv, Queueing
  <2> QED
    BY <2>1, <2>2, Stands, Unmoved DEF AInv, Sound, gameVars
<1> QED
  BY <1>1, <1>2, <1>3 DEF Worker

LEMMA ObjectionStep ==
  ASSUME AInv, Objection
  PROVE  Preserved
<1>1. /\ safe' = TRUE
      /\ UNCHANGED <<queueVars, peers, worker, todo, slotVars, gameVars>>
  BY DEF Objection
<1>2. Queueing'
  BY <1>1, Steady DEF AInv, Queueing
<1> QED
  BY <1>1, <1>2, Stands, Unmoved DEF AInv, Sound, gameVars

\* PreSaveDetour and PreRegistryResetDetour (bridge.cpp).
LEMMA PurgeStep ==
  ASSUME AInv, BetweenTicks, NEW stuck, Purge(stuck), safe' = (safe \/ stuck # {}),
         UNCHANGED room, archive' \in {archive, archive \/ DOMAIN world' # {}}
  PROVE  Preserved
<1>1. Swept(Emptied(slots), DOMAIN slots, stuck)
  BY PurgeSweeps DEF AInv
<1>2. /\ Typed' /\ Worldly' /\ Published' /\ Distinct'
      /\ DOMAIN world' \subseteq DOMAIN world
  BY <1>1, SweepKeeps DEF AInv
<1>3. slots' = Emptied(slots) /\ stuck \subseteq ActorsOf(DOMAIN slots)
  BY <1>1 DEF Swept, Kill
<1>4. todo = {} /\ UNCHANGED <<queueVars, peers, worker, todo>>
  BY DEF BetweenTicks
<1>5. safe' \in BOOLEAN /\ (safe => safe')
  BY DEF AInv, Sound
<1>6. /\ Lived(Emptied(slots)) = Lived(slots) /\ DOMAIN Emptied(slots) = DOMAIN slots
      /\ \A k \in DOMAIN slots : /\ Emptied(slots)[k].life = slots[k].life
                                 /\ Emptied(slots)[k].state = slots[k].state
  BY EmptiedDoes DEF AInv, Sound, Typed
<1>7. Queueing'
  BY <1>3, <1>4, <1>5, <1>6, Steady DEF AInv, Queueing
<1>8. Sound' /\ NoStateOfAnotherLife'
  <2>1. Sound'
    BY <1>2, <1>4, <1>5 DEF Sound
  <2>2. NoStateOfAnotherLife'
    BY <1>3, <1>6 DEF NoStateOfAnotherLife, AInv
  <2> QED
    BY <2>1, <2>2
<1>9. archive' \in BOOLEAN
  BY DEF AInv
<1>10. AInv'
  BY <1>2, <1>4, <1>7, <1>8, <1>9 DEF AInv, Queueing
<1>11. Clean => Clean'
  <2> SUFFICES ASSUME Clean
               PROVE  Clean'
    OBVIOUS
  <2>1. CASE safe'
    BY <2>1 DEF Clean, ActorsAreHeld, SavesAreClean
  <2>2. CASE ~safe'
    <3>1. stuck = {} /\ ~safe /\ ~archive
      BY <1>5, <2>2 DEF Clean, SavesAreClean
    <3>2. DOMAIN world \subseteq ActorsOf(DOMAIN slots)
      BY <3>1 DEF Clean, ActorsAreHeld
    <3>3. DOMAIN world' = {}
      <4>1. \A a \in DOMAIN world' : a \in DOMAIN world \ ActorsOf(DOMAIN slots)
        BY <1>1, <3>1, KillDoes DEF Swept, AInv, Sound
      <4> QED
        BY <3>2, <4>1
    <3> QED
      BY <2>2, <3>1, <3>3 DEF Clean, ActorsAreHeld, SavesAreClean
  <2> QED
    BY <2>1, <2>2
<1> QED
  BY <1>10, <1>11 DEF Preserved

\* VehicleRenderHistoryUpdateDetour gives up the frame writes of one slot.
LEMMA FrameStep ==
  ASSUME AInv, NEW k \in DOMAIN slots, slots' = [slots EXCEPT ![k].frame = FALSE],
         safe' = TRUE, UNCHANGED <<queueVars, peers, worker, todo, registry, owned, index,
                                   gameVars>>
  PROVE  Preserved
<1> DEFINE s == [slots[k] EXCEPT !.frame = FALSE]
<1>1. /\ slots \in Slots /\ DOMAIN slots \in SUBSET Key /\ slots[k] \in Slot
      /\ \A j \in DOMAIN slots : slots[j] \in Slot
  BY DEF AInv, Sound, Typed, Slots
<1>2. /\ s \in Slot /\ s.life = slots[k].life /\ s.state = slots[k].state
      /\ s.actor = slots[k].actor /\ s.vehicle = slots[k].vehicle
  BY <1>1 DEF Slot
<1>3. slots' = [slots EXCEPT ![k] = s]
  OBVIOUS
<1> HIDE DEF s
<1>4. /\ DOMAIN slots' = DOMAIN slots /\ slots' \in [DOMAIN slots -> Slot]
      /\ \A j \in DOMAIN slots :
           /\ slots'[j].life = slots[j].life /\ slots'[j].state = slots[j].state
           /\ slots'[j].actor = slots[j].actor /\ slots'[j].vehicle = slots[j].vehicle
  BY <1>1, <1>2, <1>3 DEF Slots
<1>5. /\ registry' = registry /\ owned' = owned /\ index' = index /\ todo' = todo
      /\ world' = world /\ room' = room /\ archive' = archive
  BY DEF gameVars
<1>6. Typed' /\ Worldly'
  BY <1>1, <1>4, <1>5 DEF AInv, Sound, Typed, Slots, Fits, Worldly
<1>7. Published'
  <2>1. ActorsOf(DOMAIN slots)' = ActorsOf(DOMAIN slots)
    BY <1>4 DEF ActorsOf
  <2>2. {BindingOf(j) : j \in {q \in DOMAIN slots : slots[q].vehicle # 0}}' =
           {BindingOf(j) : j \in {q \in DOMAIN slots : slots[q].vehicle # 0}}
    BY <1>4 DEF BindingOf
  <2>3. Attaches'
    BY <1>4 DEF AInv, Sound, Published, Attaches
  <2> QED
    BY <1>5, <2>1, <2>2, <2>3 DEF AInv, Sound, Published
<1>8. Distinct' /\ NoStateOfAnotherLife'
  BY <1>4 DEF AInv, Distinct, NoStateOfAnotherLife
<1>9. Queueing'
  BY Steady DEF AInv, Queueing
<1>10. Sound'
  BY <1>4, <1>5, <1>6, <1>7 DEF AInv, Sound
<1>11. AInv'
  BY <1>5, <1>8, <1>9, <1>10 DEF AInv, Queueing
<1>12. Clean => Clean'
  BY DEF Clean, ActorsAreHeld, SavesAreClean
<1> QED
  BY <1>11, <1>12 DEF Preserved

\* The detours and the game.
LEMMA GameStep ==
  ASSUME AInv, Game
  PROVE  Preserved
<1>1. CASE PreSave
  <2>1. PICK stuck : Purge(stuck) /\ safe' = (safe \/ stuck # {})
    BY <1>1 DEF PreSave, PurgeFirst
  <2>2. BetweenTicks /\ UNCHANGED room /\ archive' = (archive \/ DOMAIN world' # {})
    BY <1>1 DEF PreSave
  <2> QED
    BY <2>1, <2>2, PurgeStep
<1>2. CASE PreRegistryReset
  <2>1. PICK stuck : Purge(stuck) /\ safe' = (safe \/ stuck # {})
    BY <1>2 DEF PreRegistryReset
  <2>2. BetweenTicks /\ UNCHANGED <<room, archive>>
    BY <1>2 DEF PreRegistryReset
  <2> QED
    BY <2>1, <2>2, PurgeStep
<1>3. CASE PreSaveElsewhere
  <2>1. /\ UNCHANGED <<queueVars, peers, worker, todo>> /\ todo = {} /\ safe' = TRUE
        /\ archive' \in BOOLEAN /\ UNCHANGED <<room, world, slotVars>>
    BY <1>3 DEF PreSaveElsewhere, BetweenTicks, AInv
  <2>2. Queueing'
    BY <2>1, Steady DEF AInv, Queueing
  <2> QED
    BY <2>1, <2>2, Stands, Unmoved DEF AInv, Sound
<1>4. CASE \E k \in Key : FrameWriteFails(k) \/ ShadowFails(k) \/ SceneReadFails(k)
  <2>1. PICK k \in Key : FrameWriteFails(k) \/ ShadowFails(k) \/ SceneReadFails(k)
    BY <1>4
  <2>2. CASE Objection
    BY <2>2, ObjectionStep
  <2>3. CASE /\ NotLent(k) /\ slots' = [slots EXCEPT ![k].frame = FALSE] /\ safe' = TRUE
             /\ UNCHANGED <<queueVars, peers, worker, todo, registry, owned, index, gameVars>>
    <3>1. k \in DOMAIN slots
      BY <2>3 DEF NotLent, Drawn
    <3> QED
      BY <2>3, <3>1, FrameStep
  <2> QED
    BY <2>1, <2>2, <2>3 DEF FrameWriteFails, ShadowFails, SceneReadFails
<1>5. CASE AcquireObjects \/ ConstructorObjects
  BY <1>5, ObjectionStep DEF AcquireObjects, ConstructorObjects
<1>6. CASE \E a \in 1..MaxActor : GameRemoves(a) \/ GameReplacesVehicle(a)
  <2>1. /\ UNCHANGED <<queueVars, peers, worker, todo>> /\ todo = {}
        /\ UNCHANGED <<safe, slotVars, room, archive>>
        /\ \/ \E a \in DOMAIN world : world' = Restrict(world, DOMAIN world \ {a})
           \/ \E a \in DOMAIN world, v \in 0..MaxVehicle : world' = [world EXCEPT ![a] = v]
    BY <1>6 DEF GameRemoves, GameReplacesVehicle, BetweenTicks
  <2>2. Worldly' /\ DOMAIN world' \subseteq DOMAIN world
    <3>1. Worldly
      BY DEF AInv, Sound
    <3>2. CASE \E a \in DOMAIN world : world' = Restrict(world, DOMAIN world \ {a})
      <4>1. PICK a \in DOMAIN world : world' = [b \in DOMAIN world \ {a} |-> world[b]]
        BY <3>2 DEF Restrict
      <4>2. /\ DOMAIN world' = DOMAIN world \ {a}
            /\ world' \in [DOMAIN world \ {a} -> 0..MaxVehicle]
        BY <3>1, <4>1 DEF Worldly
      <4> QED
        BY <3>1, <4>2 DEF Worldly
    <3>3. CASE \E a \in DOMAIN world, v \in 0..MaxVehicle : world' = [world EXCEPT ![a] = v]
      BY <3>1, <3>3 DEF Worldly
    <3> QED
      BY <2>1, <3>2, <3>3
  <2>3. Queueing'
    BY <2>1, Steady, SameLives DEF AInv, Queueing
  <2> QED
    BY <2>1, <2>2, <2>3, Stands DEF AInv, Sound
<1>7. CASE \E where \in Where : GameMoves(where)
  <2>1. /\ UNCHANGED <<queueVars, peers, worker, todo>> /\ todo = {}
        /\ UNCHANGED <<safe, slotVars, world, archive>> /\ room' \in Where
    BY <1>7 DEF GameMoves, BetweenTicks
  <2>2. Queueing'
    BY <2>1, Steady, SameLives DEF AInv, Queueing
  <2> QED
    BY <2>1, <2>2, Stands, Unmoved DEF AInv, Sound
<1> QED
  BY <1>1, <1>2, <1>3, <1>4, <1>5, <1>6, <1>7 DEF Game

LEMMA StutterStep ==
  ASSUME AInv, UNCHANGED vars
  PROVE  Preserved
<1>1. /\ UNCHANGED <<queueVars, peers, worker, slotVars, todo, gameVars>> /\ safe' = safe
  BY DEF vars
<1>2. Queueing'
  BY <1>1, Steady, SameLives DEF AInv, Queueing
<1> QED
  BY <1>1, <1>2, Stands, Unmoved DEF AInv, Sound, gameVars

LEMMA AInvNext ==
  ASSUME AInv, [Next]_vars
  PROVE  /\ Preserved
         /\ todo # {} /\ todo' = {} /\ ~safe' /\ Next => Armed(todo)'
<1>1. CASE Worker
  <2>1. todo' = todo
    BY <1>1 DEF Worker, Take, Push, RequestSafeMode
  <2> QED
    BY <1>1, <2>1, WorkerStep
<1>2. CASE TickInSafeMode
  BY <1>2, SafeTickStep DEF TickInSafeMode
<1>3. CASE TickBegin
  BY <1>3, TickStep DEF TickBegin
<1>4. CASE \E k \in Key : Visit(k)
  BY <1>4, VisitStep
<1>5. CASE Game
  <2>1. todo' = todo
    BY <1>5 DEF Game, PreSave, PreSaveElsewhere, PreRegistryReset, FrameWriteFails, ShadowFails,
                SceneReadFails, AcquireObjects, ConstructorObjects, Objection, GameRemoves,
                GameReplacesVehicle, GameMoves, BetweenTicks
  <2> QED
    BY <1>5, <2>1, GameStep
<1>6. CASE UNCHANGED vars
  <2>1. todo' = todo
    BY <1>6 DEF vars
  <2> QED
    BY <1>6, <2>1, StutterStep
<1> QED
  BY <1>1, <1>2, <1>3, <1>4, <1>5, <1>6 DEF Next, Tick

-----------------------------------------------------------------------------
(* Theorems.                                                               *)

\* Whatever the sidecar sends and the game does, in any order of the worker's and
\* the game's steps, the queue, the slots, the registry, the detours' tables and
\* the game's own actors stay in the relation AInv
\* (remote_actor_backend.cpp:1100-1161, 1975-2045).
THEOREM ActorInvariance == Spec => []AInv
<1>1. Init => AInv
  BY AInvInit DEF Held
<1>2. AInv /\ [Next]_vars => AInv'
  BY AInvNext DEF Preserved
<1> QED
  BY <1>1, <1>2, PTL DEF Spec

\* The slots, the queue and the game's actors are typed, and neither the slots,
\* nor the FIFOs, nor the pending controls are ever more than the arrays hold
\* (remote_command_queue.cpp:65-137, remote_actor_backend.cpp:1100-1136).
THEOREM ActorTypes == Spec => []TypeOK
<1>1. AInv => TypeOK
  <2> SUFFICES ASSUME AInv
               PROVE  TypeOK
    OBVIOUS
  <2>1. /\ DOMAIN slots \in SUBSET Key /\ slots \in [DOMAIN slots -> Slot]
        /\ Cardinality(DOMAIN slots) <= MaxSlots
    BY DEF AInv, Sound, Typed, Slots, Fits
  <2>2. registry \subseteq Binding
    <3>1. \A k \in DOMAIN slots : slots[k].actor \in Nat /\ slots[k].vehicle \in Nat
      BY <2>1 DEF Slot
    <3>2. \A k \in DOMAIN slots : BindingOf(k) \in Binding
      BY <2>1, <3>1 DEF BindingOf, Binding
    <3> QED
      BY <3>2 DEF AInv, Sound, Published
  <2> QED
    BY <2>1, <2>2 DEF AInv, TypeOK, Queued, Peered, Peer, Sound, Worldly
<1> QED
  BY <1>1, ActorInvariance, PTL

\* Once the game thread has taken every control command, the slots are those of
\* the players the sidecar last spawned, each in the life it was last given
\* (remote_actor_backend.cpp:1105-1136).
THEOREM SlotsAreThePlayers == Spec => []SlotsFollowCommands
<1>1. AInv => SlotsFollowCommands
  <2> SUFFICES ASSUME AInv, ~safe, worker = Idle, controls = <<>>
               PROVE  /\ DOMAIN slots = {[pid |-> p, inc |-> peers[p].inc] :
                                           p \in {q \in Pid : peers[q].alive}}
                      /\ \A k \in DOMAIN slots : slots[k].life = peers[k.pid].life
    BY DEF SlotsFollowCommands
  <2>1. Lived(slots) = Alive
    <3>1. Path(<<>>, Lived(slots), Pushed) /\ Len(<<>>) = 0
      BY DEF AInv, Followed
    <3> QED
      BY <3>1 DEF Path, Pushed
  <2>2. ASSUME NEW k \in DOMAIN slots
        PROVE  /\ slots[k].life = peers[k.pid].life
               /\ k \in {[pid |-> p, inc |-> peers[p].inc] : p \in {q \in Pid : peers[q].alive}}
    <3>1. <<k, slots[k].life>> \in Alive
      BY <2>1 DEF Lived
    <3>2. PICK p \in {q \in Pid : peers[q].alive} :
            k = [pid |-> p, inc |-> peers[p].inc] /\ slots[k].life = peers[p].life
      BY <3>1 DEF Alive
    <3> QED
      BY <3>2
  <2>3. ASSUME NEW p \in Pid, peers[p].alive
        PROVE  [pid |-> p, inc |-> peers[p].inc] \in DOMAIN slots
    <3>1. <<[pid |-> p, inc |-> peers[p].inc], peers[p].life>> \in Lived(slots)
      BY <2>1, <2>3 DEF Alive
    <3> QED
      BY <3>1 DEF Lived
  <2> QED
    BY <2>2, <2>3
<1> QED
  BY <1>1, ActorInvariance, PTL

\* A slot never shows a state sent before its own spawn, though all the controls
\* of a batch are applied before any of its states, and a player may come back
\* under the incarnation it left with (remote_command_queue.cpp:124-137,
\* remote_actor_backend.cpp:1137-1161).
THEOREM StatesAreOfTheirLife == Spec => []NoStateOfAnotherLife
<1>1. AInv => NoStateOfAnotherLife
  BY DEF AInv
<1> QED
  BY <1>1, ActorInvariance, PTL

\* The detours take for remote exactly what the slots hold
\* (remote_actor_registry.cpp:24-72).
THEOREM DetoursAgree == Spec => []DetoursSeeSlots
<1>1. AInv => DetoursSeeSlots
  <2> SUFFICES ASSUME AInv
               PROVE  DetoursSeeSlots
    OBVIOUS
  <2>1. Published
    BY DEF AInv, Sound
  <2>2. index = {<<slots[k].actor, slots[k].vehicle>> :
                   k \in {q \in DOMAIN slots : slots[q].vehicle # 0}}
    <3>1. \A k \in DOMAIN slots : /\ BindingOf(k).actor = slots[k].actor
                                  /\ BindingOf(k).vehicle = slots[k].vehicle
      BY DEF BindingOf
    <3> QED
      BY <2>1, <3>1 DEF Published
  <2> QED
    BY <2>1, <2>2 DEF DetoursSeeSlots, Published, Attaches
<1> QED
  BY <1>1, ActorInvariance, PTL

\* When a tick ends outside safe mode, frame writes are armed only for vehicles
\* that the game still has, whatever the tick's own removals and creations did to
\* actors visited before (remote_actor_backend.cpp:1997-2045).
THEOREM ArmedVehiclesAreThere == Spec => ArmedVehiclesExist
<1>1. AInv /\ [Next]_vars =>
        [todo # {} /\ todo' = {} /\ ~safe' =>
           \A k \in DOMAIN slots' :
             slots'[k].frame =>
               /\ slots'[k].actor \in DOMAIN world'
               /\ slots'[k].vehicle = world'[slots'[k].actor]]_vars
  <2> SUFFICES ASSUME AInv, Next, todo # {}, todo' = {}, ~safe',
                      NEW k \in DOMAIN slots', slots'[k].frame
               PROVE  /\ slots'[k].actor \in DOMAIN world'
                      /\ slots'[k].vehicle = world'[slots'[k].actor]
    OBVIOUS
  <2>1. Armed(todo)'
    BY AInvNext
  <2> QED
    BY <2>1 DEF Armed, Owns
<1> QED
  BY <1>1, ActorInvariance, PTL DEF Spec, ArmedVehiclesExist

\* If an acquisition that fails leaves no actor behind, the rest of the invariant
\* holds of every tick, creation and save (remote_actor_backend.cpp:775-825,
\* 1975-2045).
LEMMA HeldInvariance ==
  ASSUME "acquire" \notin Faults
  PROVE  Spec => []Held
<1>1. Init => Held
  BY AInvInit
<1>2. Held /\ [Next]_vars => Held'
  BY AInvNext DEF Held, Preserved, Clean
<1> QED
  BY <1>1, <1>2, PTL DEF Spec

\* And outside safe mode every actor the bridge made the game create is held by a
\* slot, whatever else fails half-way and whatever the game removes
\* (remote_actor_backend.cpp:775-825, 1997-2045).
THEOREM NothingIsOrphaned ==
  ASSUME "acquire" \notin Faults
  PROVE  Spec => []ActorsAreHeld
<1>1. Spec => []Held
  BY HeldInvariance
<1>2. Held => ActorsAreHeld
  BY DEF Held
<1> QED
  BY <1>1, <1>2, PTL

\* And the game saves a remote actor only once safe mode was entered, on whichever
\* thread it saves (remote_actor_backend.cpp:1605-1609).
THEOREM SavesStayClean ==
  ASSUME "acquire" \notin Faults
  PROVE  Spec => []SavesAreClean
<1>1. Spec => []Held
  BY HeldInvariance
<1>2. Held => SavesAreClean
  BY DEF Held
<1> QED
  BY <1>1, <1>2, PTL
=============================================================================
