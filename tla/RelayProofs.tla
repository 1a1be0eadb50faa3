------------------------------ MODULE RelayProofs ------------------------------
(***************************************************************************)
(* The whole of Relay: the coordinator, one sidecar, the other players and *)
(* a network that loses, for every number of connections, players, names   *)
(* and sequence numbers.  It is typed; the actors of the game are those of *)
(* the adapter's roster; it implements the feed of RosterFeed; the adapter *)
(* blames the coordinator for nothing but a session that is too large; and *)
(* the client fails only on datagrams that overtook reliable packets.      *)
(*                                                                         *)
(* The invariant RelayOK has three parts.  SideOK is about types and about *)
(* one step of the adapter.  ClientOK is the order in a batch of events.   *)
(* ConnOK is about the transport in use: who its member is, and that all   *)
(* it carries is in the terms of one welcome.  What the coordinator does   *)
(* to that transport in one step is one of five things (Served).           *)
(*                                                                         *)
(* The feed is mapped to the rosters that the messages on their way will   *)
(* make of the adapter's (Rosters, a recursive function).  The lemmas on   *)
(* Run and Rosters say how these change when a message is added, read or   *)
(* lost; the Lag lemmas say it of the way in Relay, and the Feed lemmas of *)
(* each step of the system.  All rosters on the way are ones nobody could  *)
(* object to (GoodLag), and the reliable packets come in order (Ordered).  *)
(***************************************************************************)
EXTENDS CrowdedRelay, FiniteSetTheorems, SequenceTheorems, WellFoundedInduction, TLAPS

-----------------------------------------------------------------------------
(* Induction over the naturals, for sets: the provers cannot instantiate   *)
(* the operator in the library's theorem.                                  *)
LEMMA NatBelow ==
  ASSUME NEW m \in Nat, NEW n \in Nat, m < n
  PROVE  <<m, n>> \in OpToRel(<, Nat)
  BY DEF OpToRel

\* A set with 0 and the successor of each of its numbers has them all.
LEMMA SetInduction ==
  ASSUME NEW T, 0 \in T, \A n \in Nat : n \in T => n + 1 \in T
  PROVE  Nat \subseteq T
<1> DEFINE M == Nat \ T
<1>1. SUFFICES ASSUME M # {} PROVE FALSE
  OBVIOUS
<1>2. PICK x \in M : \A y \in M : ~ (<<y, x>> \in OpToRel(<, Nat))
  BY <1>1, WFMin, NatLessThanWellFounded
<1>3. x - 1 \in Nat /\ x - 1 < x
  OBVIOUS
<1>4. x - 1 \in M
  BY <1>3
<1> QED
  BY <1>2, <1>3, <1>4, NatBelow

-----------------------------------------------------------------------------
(* The rosters that messages make.                                         *)

(* f tells them message by message.                                        *)
Run(f, before, way, n) ==
  f = [i \in 0..n |-> IF i = 0 THEN <<before>> ELSE Told(f[i - 1], way[i])]

\* There is a run along any part of a way.
LEMMA RunExists ==
  ASSUME NEW before, NEW way, NEW n \in Nat
  PROVE  \E f : Run(f, before, way, n)
<1> DEFINE T == {k \in Nat : \E f : Run(f, before, way, k)}
<1>1. 0 \in T
  <2> DEFINE f == [i \in 0..0 |-> <<before>>]
  <2>1. Run(f, before, way, 0)
    BY DEF Run
  <2> QED BY <2>1
<1>2. ASSUME NEW k \in Nat, k \in T PROVE k + 1 \in T
  <2>1. PICK f : Run(f, before, way, k)
    BY <1>2
  <2> DEFINE g == [i \in 0..(k + 1) |-> IF i = k + 1 THEN Told(f[k], way[i]) ELSE f[i]]
  <2>2. DOMAIN f = 0..k /\ \A i \in 0..k : f[i] = IF i = 0 THEN <<before>> ELSE Told(f[i - 1], way[i])
    BY <2>1 DEF Run
  <2>3. \A i \in 0..(k + 1) : g[i] = IF i = 0 THEN <<before>> ELSE Told(g[i - 1], way[i])
    <3> TAKE i \in 0..(k + 1)
    <3>1. CASE i = k + 1
      BY <3>1
    <3>2. CASE i # k + 1 /\ i # 0
      <4>1. i \in 0..k /\ i - 1 \in 0..k /\ i - 1 \in 0..(k + 1) /\ i - 1 # k + 1
        BY <3>2
      <4> QED BY <4>1, <3>2, <2>2
    <3>3. CASE i = 0
      BY <3>3, <2>2
    <3> QED BY <3>1, <3>2, <3>3
  <2>4. Run(g, before, way, k + 1)
    BY <2>3 DEF Run
  <2> QED BY <2>4
<1> HIDE DEF T
<1>3. Nat \subseteq T
  BY <1>1, <1>2, SetInduction
<1> QED BY <1>3 DEF T

\* What a run is, step by step.
LEMMA RunSteps ==
  ASSUME NEW f, NEW before, NEW way, NEW n \in Nat, Run(f, before, way, n)
  PROVE  /\ DOMAIN f = 0..n
         /\ f[0] = <<before>>
         /\ \A i \in 1..n : f[i] = Told(f[i - 1], way[i])
  BY DEF Run

\* Rosters is where the run along the whole way ends.
LEMMA RunMade ==
  ASSUME NEW before, NEW way, Len(way) \in Nat
  PROVE  \E f : Run(f, before, way, Len(way)) /\ Rosters(before, way) = f[Len(way)]
<1> DEFINE f == CHOOSE seen : seen = [i \in 0..Len(way) |->
                  IF i = 0 THEN <<before>> ELSE Told(seen[i - 1], way[i])]
<1>1. Rosters(before, way) = f[Len(way)]
  BY DEF Rosters
<1>2. \E g : Run(g, before, way, Len(way))
  BY RunExists
<1>3. f = CHOOSE g : Run(g, before, way, Len(way))
  BY DEF Run
<1> HIDE DEF f
<1>4. Run(f, before, way, Len(way))
  BY <1>2, <1>3, Zenon
<1> QED BY <1>1, <1>4

(* Two runs that are told the same so far have told the same.              *)
LEMMA RunAgrees ==
  ASSUME NEW f, NEW g, NEW before, NEW way, NEW other, NEW n \in Nat, NEW m \in Nat,
         Run(f, before, way, n), Run(g, before, other, m),
         NEW k \in Nat, k <= n, k <= m, \A i \in 1..k : way[i] = other[i]
  PROVE  f[k] = g[k]
<1> DEFINE T == {j \in Nat : j <= k => f[j] = g[j]}
<1>0. /\ f[0] = <<before>> /\ g[0] = <<before>>
      /\ \A i \in 1..n : f[i] = Told(f[i - 1], way[i])
      /\ \A i \in 1..m : g[i] = Told(g[i - 1], other[i])
  BY RunSteps
<1>1. 0 \in T
  BY <1>0
<1>2. ASSUME NEW j \in Nat, j \in T PROVE j + 1 \in T
  <2> SUFFICES ASSUME j + 1 <= k PROVE f[j + 1] = g[j + 1]
    OBVIOUS
  <2>1. /\ j + 1 \in 1..n /\ j + 1 \in 1..m /\ j + 1 \in 1..k
        /\ (j + 1) - 1 = j /\ f[j] = g[j]
    BY <1>2
  <2> QED BY <2>1, <1>0
<1> HIDE DEF T
<1>3. Nat \subseteq T
  BY <1>1, <1>2, SetInduction
<1> QED BY <1>3 DEF T

\* Nothing on the way tells nothing new.
LEMMA RostersNone ==
  ASSUME NEW before, NEW way, Len(way) = 0
  PROVE  Rosters(before, way) = <<before>>
<1>1. PICK f : Run(f, before, way, 0) /\ Rosters(before, way) = f[0]
  BY RunMade
<1> QED BY <1>1, RunSteps

\* One message more tells one thing more.
LEMMA RostersSnoc ==
  ASSUME NEW before, NEW way, NEW longer, Len(way) \in Nat,
         Len(longer) = Len(way) + 1, \A i \in 1..Len(way) : longer[i] = way[i]
  PROVE  Rosters(before, longer) = Told(Rosters(before, way), longer[Len(longer)])
<1>1. PICK f : Run(f, before, way, Len(way)) /\ Rosters(before, way) = f[Len(way)]
  BY RunMade
<1>2. PICK g : /\ Run(g, before, longer, Len(longer))
               /\ Rosters(before, longer) = g[Len(longer)]
  BY RunMade
<1>0. Len(longer) \in Nat /\ Len(way) <= Len(longer)
  OBVIOUS
<1>a. \A i \in 1..Len(way) : way[i] = longer[i]
  OBVIOUS
<1>3. f[Len(way)] = g[Len(way)]
  BY <1>0, <1>a, <1>1, <1>2, RunAgrees
<1>4. g[Len(longer)] = Told(g[Len(longer) - 1], longer[Len(longer)])
  BY <1>2, RunSteps
<1> QED BY <1>1, <1>2, <1>3, <1>4

(* Every peer announced is one.                                            *)
PeersIn(way) ==
  \A i \in 1..Len(way) : way[i].type = "joined" => way[i].peer \in Identity

\* A message makes a roster of a roster.
LEMMA AfterType ==
  ASSUME NEW before \in SUBSET Identity, NEW m, Membership(m),
         m.type = "joined" => m.peer \in Identity
  PROVE  After(before, m) \in SUBSET Identity
  BY DEF After, Membership

\* What has been told stays told, and starts where it started.
LEMMA ToldType ==
  ASSUME NEW seen \in Seq(SUBSET Identity), seen # <<>>, NEW m,
         m.type = "joined" => m.peer \in Identity
  PROVE  /\ Told(seen, m) \in Seq(SUBSET Identity)
         /\ Len(Told(seen, m)) >= Len(seen)
         /\ \A i \in 1..Len(seen) : Told(seen, m)[i] = seen[i]
<1>1. CASE ~Membership(m)
  BY <1>1 DEF Told
<1>2. CASE Membership(m)
  <2>1. Len(seen) \in 1..Len(seen) /\ seen[Len(seen)] \in SUBSET Identity
    OBVIOUS
  <2>2. After(seen[Len(seen)], m) \in SUBSET Identity
    BY <1>2, <2>1, AfterType
  <2>3. Told(seen, m) = Append(seen, After(seen[Len(seen)], m))
    BY <1>2 DEF Told
  <2> QED BY <2>2, <2>3
<1> QED BY <1>1, <1>2

\* Sequences of rosters, of which the first is the one before.
RunTyped(f, before, n) ==
  \A k \in 0..n : f[k] \in Seq(SUBSET Identity) /\ f[k] # <<>> /\ f[k][1] = before

\* A run goes through sequences of rosters.
LEMMA RunType ==
  ASSUME NEW f, NEW before \in SUBSET Identity, NEW way, Len(way) \in Nat,
         Run(f, before, way, Len(way)), PeersIn(way)
  PROVE  RunTyped(f, before, Len(way))
<1> DEFINE n == Len(way)
<1>b. \A i \in 1..n : way[i].type = "joined" => way[i].peer \in Identity
  BY DEF PeersIn
<1> DEFINE T == {k \in Nat : k <= n => /\ f[k] \in Seq(SUBSET Identity)
                                       /\ f[k] # <<>> /\ f[k][1] = before}
<1>0. f[0] = <<before>> /\ \A i \in 1..n : f[i] = Told(f[i - 1], way[i])
  BY RunSteps
<1>a. <<before>> \in Seq(SUBSET Identity) /\ <<before>> # <<>> /\ <<before>>[1] = before
  OBVIOUS
<1>1. 0 \in T
  BY <1>0, <1>a
<1>2. ASSUME NEW k \in Nat, k \in T PROVE k + 1 \in T
  <2> SUFFICES ASSUME k + 1 <= n
               PROVE  /\ f[k + 1] \in Seq(SUBSET Identity)
                      /\ f[k + 1] # <<>> /\ f[k + 1][1] = before
    OBVIOUS
  <2>1. k + 1 \in 1..n /\ f[k + 1] = Told(f[k], way[k + 1])
    BY <1>0
  <2>2. f[k] \in Seq(SUBSET Identity) /\ f[k] # <<>> /\ f[k][1] = before
    BY <1>2
  <2>3. /\ f[k + 1] \in Seq(SUBSET Identity)
        /\ Len(f[k + 1]) >= Len(f[k])
        /\ \A i \in 1..Len(f[k]) : f[k + 1][i] = f[k][i]
    BY <2>1, <2>2, <1>b, ToldType
  <2>4. Len(f[k]) \in Nat /\ Len(f[k]) >= 1 /\ 1 \in 1..Len(f[k])
    BY <2>2
  <2>5. f[k + 1] # <<>>
    BY <2>3, <2>4
  <2> QED BY <2>2, <2>3, <2>4, <2>5
<1> HIDE DEF T
<1>3. Nat \subseteq T
  BY <1>1, <1>2, SetInduction
<1> QED BY <1>3 DEF T, RunTyped

\* Rosters are rosters, of which the first is the one before the way.
LEMMA RostersType ==
  ASSUME NEW before \in SUBSET Identity, NEW way, Len(way) \in Nat, PeersIn(way)
  PROVE  /\ Rosters(before, way) \in Seq(SUBSET Identity)
         /\ Rosters(before, way) # <<>>
         /\ Rosters(before, way)[1] = before
<1>1. PICK f : Run(f, before, way, Len(way)) /\ Rosters(before, way) = f[Len(way)]
  BY RunMade
<1>2. Len(way) \in 0..Len(way)
  OBVIOUS
<1>3. RunTyped(f, before, Len(way))
  BY <1>1, RunType
<1> QED BY <1>1, <1>2, <1>3 DEF RunTyped

(* Less is told by a part of the way.                                      *)
LEMMA RostersPrefix ==
  ASSUME NEW before \in SUBSET Identity, NEW way, NEW longer,
         Len(way) \in Nat, Len(longer) \in Nat, Len(way) <= Len(longer),
         \A i \in 1..Len(way) : longer[i] = way[i], PeersIn(longer)
  PROVE  /\ Len(Rosters(before, way)) \in 1..Len(Rosters(before, longer))
         /\ Rosters(before, way)
              = SubSeq(Rosters(before, longer), 1, Len(Rosters(before, way)))
<1>1. PICK f : Run(f, before, way, Len(way)) /\ Rosters(before, way) = f[Len(way)]
  BY RunMade
<1>2. PICK g : /\ Run(g, before, longer, Len(longer))
               /\ Rosters(before, longer) = g[Len(longer)]
  BY RunMade
<1>a. \A i \in 1..Len(way) : way[i] = longer[i]
  OBVIOUS
<1>3. f[Len(way)] = g[Len(way)]
  BY <1>a, <1>1, <1>2, RunAgrees
<1>b. RunTyped(g, before, Len(longer))
  BY <1>2, RunType
<1>4. \A k \in 0..Len(longer) : g[k] \in Seq(SUBSET Identity) /\ g[k] # <<>>
  BY <1>b DEF RunTyped
<1>5. \A i \in 1..Len(longer) : g[i] = Told(g[i - 1], longer[i])
  BY <1>2, RunSteps
<1> DEFINE s == g[Len(way)]
           T == {k \in Nat : Len(way) <= k /\ k <= Len(longer) =>
                   /\ Len(s) <= Len(g[k])
                   /\ \A i \in 1..Len(s) : g[k][i] = s[i]}
<1>6. 0 \in T
  <2>1. CASE Len(way) = 0
    BY <2>1, <1>4
  <2> QED BY <2>1
<1>7. ASSUME NEW k \in Nat, k \in T PROVE k + 1 \in T
  <2> SUFFICES ASSUME Len(way) <= k + 1, k + 1 <= Len(longer)
               PROVE  /\ Len(s) <= Len(g[k + 1])
                      /\ \A i \in 1..Len(s) : g[k + 1][i] = s[i]
    OBVIOUS
  <2>1. CASE k + 1 = Len(way)
    BY <2>1, <1>4
  <2>2. CASE Len(way) <= k
    <3>1. /\ k \in 0..Len(longer) /\ k + 1 \in 1..Len(longer)
          /\ g[k + 1] = Told(g[k], longer[k + 1])
      BY <2>2, <1>5
    <3>2. g[k] \in Seq(SUBSET Identity) /\ g[k] # <<>>
      BY <3>1, <1>4
    <3>3. longer[k + 1].type = "joined" => longer[k + 1].peer \in Identity
      BY <3>1 DEF PeersIn
    <3>4. /\ Len(g[k + 1]) >= Len(g[k])
          /\ g[k + 1] \in Seq(SUBSET Identity)
          /\ \A i \in 1..Len(g[k]) : g[k + 1][i] = g[k][i]
      BY <3>1, <3>2, <3>3, ToldType
    <3>5. Len(s) <= Len(g[k]) /\ \A i \in 1..Len(s) : g[k][i] = s[i]
      BY <1>7, <2>2
    <3>6. Len(s) \in Nat
      BY <1>4
    <3> HIDE DEF s
    <3>7. Len(g[k]) \in Nat /\ Len(g[k + 1]) \in Nat
      BY <3>2, <3>4
    <3>8. \A i \in 1..Len(s) : i \in 1..Len(g[k])
      BY <3>5, <3>6, <3>7
    <3> QED BY <3>4, <3>5, <3>6, <3>7, <3>8
  <2> QED BY <2>1, <2>2
<1> HIDE DEF T
<1>8. Nat \subseteq T
  BY <1>6, <1>7, SetInduction
<1>9. /\ Len(s) <= Len(g[Len(longer)])
      /\ \A i \in 1..Len(s) : g[Len(longer)][i] = s[i]
  BY <1>8 DEF T
<1>10. Rosters(before, way) = s
  BY <1>1, <1>3
<1>11. /\ s \in Seq(SUBSET Identity) /\ s # <<>>
       /\ g[Len(longer)] \in Seq(SUBSET Identity)
  BY <1>4
<1> HIDE DEF s
<1>12. Len(s) \in 1..Len(g[Len(longer)])
  BY <1>9, <1>11
<1>13. SubSeq(g[Len(longer)], 1, Len(s)) = s
  BY <1>9, <1>11, <1>12
<1> QED BY <1>2, <1>10, <1>12, <1>13

(* What is not about membership tells nothing.                             *)
LEMMA RostersQuiet ==
  ASSUME NEW before, NEW way, NEW longer,
         Len(way) \in Nat, Len(longer) \in Nat, Len(way) <= Len(longer),
         \A i \in 1..Len(way) : longer[i] = way[i],
         \A i \in (Len(way) + 1)..Len(longer) : ~Membership(longer[i])
  PROVE  Rosters(before, longer) = Rosters(before, way)
<1>1. PICK f : Run(f, before, way, Len(way)) /\ Rosters(before, way) = f[Len(way)]
  BY RunMade
<1>2. PICK g : /\ Run(g, before, longer, Len(longer))
               /\ Rosters(before, longer) = g[Len(longer)]
  BY RunMade
<1>a. \A i \in 1..Len(way) : way[i] = longer[i]
  OBVIOUS
<1>3. f[Len(way)] = g[Len(way)]
  BY <1>a, <1>1, <1>2, RunAgrees
<1>5. \A i \in 1..Len(longer) : g[i] = Told(g[i - 1], longer[i])
  BY <1>2, RunSteps
<1> DEFINE T == {k \in Nat : Len(way) <= k /\ k <= Len(longer) => g[k] = g[Len(way)]}
<1>6. 0 \in T
  OBVIOUS
<1>7. ASSUME NEW k \in Nat, k \in T PROVE k + 1 \in T
  <2> SUFFICES ASSUME Len(way) <= k, k + 1 <= Len(longer)
               PROVE  g[k + 1] = g[Len(way)]
    OBVIOUS
  <2>1. /\ k + 1 \in 1..Len(longer) /\ k + 1 \in (Len(way) + 1)..Len(longer)
        /\ (k + 1) - 1 = k
    OBVIOUS
  <2>2. g[k + 1] = g[k]
    BY <2>1, <1>5 DEF Told
  <2> QED BY <2>2, <1>7
<1> HIDE DEF T
<1>8. Nat \subseteq T
  BY <1>6, <1>7, SetInduction
<1> QED BY <1>1, <1>2, <1>3, <1>8 DEF T

(* Nothing is told by a message in between that is not of membership.      *)
LEMMA RostersSkip ==
  ASSUME NEW before, NEW way, NEW longer, NEW k \in Nat,
         Len(way) \in Nat, Len(longer) = Len(way) + 1, k <= Len(way),
         \A i \in 1..k : longer[i] = way[i], ~Membership(longer[k + 1]),
         \A i \in (k + 2)..Len(longer) : longer[i] = way[i - 1]
  PROVE  Rosters(before, longer) = Rosters(before, way)
<1>1. PICK f : Run(f, before, way, Len(way)) /\ Rosters(before, way) = f[Len(way)]
  BY RunMade
<1>2. PICK g : /\ Run(g, before, longer, Len(longer))
               /\ Rosters(before, longer) = g[Len(longer)]
  BY RunMade
<1>0. Len(longer) \in Nat
  OBVIOUS
<1>a. \A i \in 1..k : way[i] = longer[i]
  OBVIOUS
<1>b. k \in 0..Len(way) /\ k \in 0..Len(longer)
  OBVIOUS
<1>3. f[k] = g[k]
  BY <1>0, <1>a, <1>b, <1>1, <1>2, RunAgrees
<1>4. \A i \in 1..Len(way) : f[i] = Told(f[i - 1], way[i])
  BY <1>1, RunSteps
<1>5. \A i \in 1..Len(longer) : g[i] = Told(g[i - 1], longer[i])
  <2> TAKE i \in 1..Len(longer)
  <2>1. i \in 0..Len(longer) /\ i # 0
    BY <1>0
  <2>2. g = [j \in 0..Len(longer) |->
               IF j = 0 THEN <<before>> ELSE Told(g[j - 1], longer[j])]
    BY <1>2 DEF Run
  <2> QED BY <2>1, <2>2
<1>6. g[k + 1] = f[k]
  <2>1. k + 1 \in 1..Len(longer) /\ (k + 1) - 1 = k
    OBVIOUS
  <2>2. g[k + 1] = Told(g[k], longer[k + 1])
    BY <1>5, <2>1
  <2> QED BY <1>3, <2>2 DEF Told
<1> DEFINE T == {j \in Nat : k <= j /\ j <= Len(way) => g[j + 1] = f[j]}
<1>7. 0 \in T
  BY <1>6
<1>8. ASSUME NEW j \in Nat, j \in T PROVE j + 1 \in T
  <2> SUFFICES ASSUME k <= j + 1, j + 1 <= Len(way)
               PROVE  g[(j + 1) + 1] = f[j + 1]
    OBVIOUS
  <2>1. CASE k = j + 1
    BY <1>6, <2>1
  <2>2. CASE k # j + 1
    <3>a. PICK n \in Nat : n = Len(way)
      OBVIOUS
    <3>b. /\ k <= j /\ j <= n /\ j + 1 \in 1..n /\ j + 1 \in (k + 1)..n
          /\ (j + 1) - 1 = j /\ (j + 1) + 1 \in 1..(n + 1) /\ ((j + 1) + 1) - 1 = j + 1
          /\ (j + 1) + 1 \in (k + 2)..(n + 1)
      BY <2>2, <3>a
    <3>1. /\ k <= j /\ j <= Len(way) /\ j + 1 \in 1..Len(way)
          /\ j + 1 \in (k + 1)..Len(way) /\ (j + 1) - 1 = j
          /\ (j + 1) + 1 \in 1..Len(longer) /\ ((j + 1) + 1) - 1 = j + 1
          /\ (j + 1) + 1 \in (k + 2)..Len(longer)
      BY <3>a, <3>b
    <3>2. g[j + 1] = f[j]
      BY <1>8, <3>1
    <3>3. longer[(j + 1) + 1] = way[j + 1]
      BY <3>1
    <3>4. g[(j + 1) + 1] = Told(g[j + 1], longer[(j + 1) + 1])
      BY <1>5, <3>1
    <3>5. f[j + 1] = Told(f[j], way[j + 1])
      BY <1>4, <3>1
    <3> QED BY <3>2, <3>3, <3>4, <3>5
  <2> QED BY <2>1, <2>2
<1> HIDE DEF T
<1>9. Nat \subseteq T
  BY <1>7, <1>8, SetInduction
<1>10. g[Len(way) + 1] = f[Len(way)]
  BY <1>9 DEF T
<1> QED BY <1>1, <1>2, <1>10

(* What the first message tells.                                           *)
LEMMA ToldAhead ==
  ASSUME NEW before \in SUBSET Identity, NEW seen \in Seq(SUBSET Identity),
         seen # <<>>, NEW m, m.type = "joined" => m.peer \in Identity
  PROVE  Told(<<before>> \o seen, m) = <<before>> \o Told(seen, m)
<1> DEFINE s == <<before>> \o seen
<1>1. /\ s \in Seq(SUBSET Identity) /\ Len(s) = Len(seen) + 1
      /\ s[Len(s)] = seen[Len(seen)]
  OBVIOUS
<1>2. CASE ~Membership(m)
  BY <1>2 DEF Told
<1>3. CASE Membership(m)
  <2> DEFINE a == After(seen[Len(seen)], m)
  <2>1. a \in SUBSET Identity
    BY <1>3, AfterType
  <2>2. Told(s, m) = Append(s, a) /\ Told(seen, m) = Append(seen, a)
    BY <1>1, <1>3 DEF Told
  <2> HIDE DEF a
  <2>3. Append(s, a) = <<before>> \o Append(seen, a)
    BY <2>1
  <2> QED BY <2>2, <2>3
<1> QED BY <1>2, <1>3

\* Reading the first message of membership leaves the rosters after the first.
LEMMA RostersTail ==
  ASSUME NEW before \in SUBSET Identity, NEW way, NEW rest,
         Len(way) \in Nat, Len(way) # 0, Len(rest) = Len(way) - 1,
         \A i \in 1..Len(rest) : rest[i] = way[i + 1], PeersIn(way)
  PROVE  /\ ~Membership(way[1]) => Rosters(before, way) = Rosters(before, rest)
         /\ Membership(way[1]) => Rosters(before, way)
              = <<before>> \o Rosters(After(before, way[1]), rest)
<1>0. /\ Len(rest) \in Nat /\ 1 \in 1..Len(way)
      /\ way[1].type = "joined" => way[1].peer \in Identity
      /\ \A i \in 1..Len(rest) : i + 1 \in 1..Len(way)
  BY DEF PeersIn
<1>1. PICK f : Run(f, before, way, Len(way)) /\ Rosters(before, way) = f[Len(way)]
  BY RunMade
<1>a. f[0] = <<before>>
  BY <1>1, RunSteps
<1>2. \A i \in 1..Len(way) : f[i] = Told(f[i - 1], way[i])
  BY <1>1, RunSteps
<1>3. ASSUME ~Membership(way[1])
      PROVE  Rosters(before, way) = Rosters(before, rest)
  <2>1. PICK g : /\ Run(g, before, rest, Len(rest))
                 /\ Rosters(before, rest) = g[Len(rest)]
    BY <1>0, RunMade
  <2>2. g[0] = <<before>> /\ \A i \in 1..Len(rest) : g[i] = Told(g[i - 1], rest[i])
    BY <1>0, <2>1, RunSteps
  <2> DEFINE T == {k \in Nat : k <= Len(rest) => f[k + 1] = g[k]}
  <2>3. 0 \in T
    BY <1>0, <1>a, <1>2, <1>3, <2>2 DEF Told
  <2>4. ASSUME NEW k \in Nat, k \in T PROVE k + 1 \in T
    <3> SUFFICES ASSUME k + 1 <= Len(rest) PROVE f[(k + 1) + 1] = g[k + 1]
      OBVIOUS
    <3>1. /\ k + 1 \in 1..Len(rest) /\ (k + 1) + 1 \in 1..Len(way)
          /\ (k + 1) - 1 = k /\ ((k + 1) + 1) - 1 = k + 1
      BY <1>0
    <3>2. f[k + 1] = g[k]
      BY <2>4, <3>1, <1>0
    <3>3. f[(k + 1) + 1] = Told(f[k + 1], way[(k + 1) + 1])
      BY <3>1, <1>2
    <3>4. g[k + 1] = Told(g[k], rest[k + 1])
      BY <3>1, <2>2
    <3> QED BY <3>1, <3>2, <3>3, <3>4
  <2> HIDE DEF T
  <2>5. Nat \subseteq T
    BY <2>3, <2>4, SetInduction
  <2>6. f[Len(rest) + 1] = g[Len(rest)]
    BY <2>5, <1>0 DEF T
  <2> QED BY <2>1, <2>6, <1>1, <1>0
<1>4. ASSUME Membership(way[1])
      PROVE  Rosters(before, way) = <<before>> \o Rosters(After(before, way[1]), rest)
  <2> DEFINE after == After(before, way[1])
  <2>a. after \in SUBSET Identity
    BY <1>0, <1>4, AfterType
  <2> HIDE DEF after
  <2>1. PICK g : /\ Run(g, after, rest, Len(rest))
                 /\ Rosters(after, rest) = g[Len(rest)]
    BY <1>0, RunMade
  <2>2. g[0] = <<after>> /\ \A i \in 1..Len(rest) : g[i] = Told(g[i - 1], rest[i])
    BY <1>0, <2>1, RunSteps
  <2>b. PeersIn(rest)
    BY <1>0 DEF PeersIn
  <2>d. RunTyped(g, after, Len(rest))
    BY <1>0, <2>a, <2>b, <2>1, RunType
  <2>c. \A k \in 0..Len(rest) : g[k] \in Seq(SUBSET Identity) /\ g[k] # <<>>
    BY <2>d DEF RunTyped
  <2> DEFINE T == {k \in Nat : k <= Len(rest) => f[k + 1] = <<before>> \o g[k]}
  <2>3. 0 \in T
    <3>1. Told(<<before>>, way[1]) = Append(<<before>>, after)
      BY <1>4 DEF Told, after
    <3>2. Append(<<before>>, after) = <<before>> \o <<after>>
      BY <2>a
    <3>3. f[1] = Told(f[1 - 1], way[1])
      BY <1>0, <1>2
    <3>4. f[0 + 1] = <<before>> \o <<after>>
      BY <3>1, <3>2, <3>3, <1>a
    <3> QED BY <3>4, <2>2
  <2>4. ASSUME NEW k \in Nat, k \in T PROVE k + 1 \in T
    <3> SUFFICES ASSUME k + 1 <= Len(rest)
                 PROVE  f[(k + 1) + 1] = <<before>> \o g[k + 1]
      OBVIOUS
    <3>1. /\ k + 1 \in 1..Len(rest) /\ (k + 1) + 1 \in 1..Len(way)
          /\ (k + 1) - 1 = k /\ ((k + 1) + 1) - 1 = k + 1 /\ k \in 0..Len(rest)
      BY <1>0
    <3>2. f[k + 1] = <<before>> \o g[k]
      BY <2>4, <3>1, <1>0
    <3>3. f[(k + 1) + 1] = Told(f[k + 1], way[(k + 1) + 1])
      BY <3>1, <1>2
    <3>4. g[k + 1] = Told(g[k], rest[k + 1])
      BY <3>1, <2>2
    <3>5. Told(<<before>> \o g[k], rest[k + 1]) = <<before>> \o Told(g[k], rest[k + 1])
      BY <3>1, <2>b, <2>c, ToldAhead DEF PeersIn
    <3> QED BY <3>1, <3>2, <3>3, <3>4, <3>5
  <2> HIDE DEF T
  <2>5. Nat \subseteq T
    BY <2>3, <2>4, SetInduction
  <2>6. f[Len(rest) + 1] = <<before>> \o g[Len(rest)]
    BY <2>5, <1>0 DEF T
  <2> QED BY <2>1, <2>6, <1>1, <1>0 DEF after
<1> QED BY <1>3, <1>4

(* A welcome and the roster after it tell of one peer after the other.     *)
Grown(before, id, n) ==
  [i \in 1..(n + 2) |-> IF i = 1 THEN before ELSE {id[j] : j \in 1..(i - 2)}]

\* One peer announced after n of them.
LEMMA GrownNext ==
  ASSUME NEW before \in SUBSET Identity, NEW id, NEW n \in Nat,
         \A j \in 1..(n + 1) : id[j] \in Identity,
         \A j \in 1..n : id[j].pid # id[n + 1].pid
  PROVE  Told(Grown(before, id, n), Joined(id[n + 1])) = Grown(before, id, n + 1)
<1> DEFINE m == Joined(id[n + 1])
           g == Grown(before, id, n)
<1>0. n + 1 \in 1..(n + 1) /\ n + 2 \in 1..(n + 2) /\ n + 2 # 1 /\ (n + 2) - 2 = n
  OBVIOUS
<1>1. /\ m.type = "joined" /\ m.peer = id[n + 1] /\ id[n + 1] \in Identity
      /\ Membership(m)
  BY <1>0 DEF Joined, Membership
<1>2. /\ g \in Seq(SUBSET Identity) /\ Len(g) = n + 2
      /\ \A i \in 1..(n + 2) : g[i] = IF i = 1 THEN before ELSE {id[j] : j \in 1..(i - 2)}
  <2>1. \A i \in 1..(n + 2) : i # 1 => {id[j] : j \in 1..(i - 2)} \in SUBSET Identity
    OBVIOUS
  <2> QED BY <2>1 DEF Grown
<1>3. g[n + 2] = {id[j] : j \in 1..n}
  BY <1>0, <1>2
<1>4. After(g[n + 2], m) = {id[j] : j \in 1..(n + 1)}
  <2>1. After(g[n + 2], m) = {p \in g[n + 2] : p.pid # id[n + 1].pid} \cup {id[n + 1]}
    BY <1>1 DEF After
  <2>2. {p \in g[n + 2] : p.pid # id[n + 1].pid} = {id[j] : j \in 1..n}
    BY <1>3
  <2>3. {id[j] : j \in 1..n} \cup {id[n + 1]} = {id[j] : j \in 1..(n + 1)}
    <3>1. \A j \in 1..(n + 1) : j \in 1..n \/ j = n + 1
      OBVIOUS
    <3> QED BY <3>1
  <2> QED BY <2>1, <2>2, <2>3
<1>5. Told(g, m) = Append(g, {id[j] : j \in 1..(n + 1)})
  BY <1>1, <1>2, <1>4 DEF Told
<1> HIDE DEF g
<1> DEFINE h == Grown(before, id, n + 1)
           a == Append(g, {id[j] : j \in 1..(n + 1)})
<1>6. {id[j] : j \in 1..(n + 1)} \in SUBSET Identity
  OBVIOUS
<1>7. /\ a \in Seq(SUBSET Identity) /\ Len(a) = n + 3
      /\ \A i \in 1..(n + 2) : a[i] = g[i]
      /\ a[n + 3] = {id[j] : j \in 1..(n + 1)}
  BY <1>2, <1>6
<1>8. /\ DOMAIN h = 1..(n + 3)
      /\ h = [i \in 1..(n + 3) |-> IF i = 1 THEN before ELSE {id[j] : j \in 1..(i - 2)}]
  BY DEF Grown
<1>9. \A i \in 1..(n + 3) : h[i] = a[i]
  <2> TAKE i \in 1..(n + 3)
  <2>1. CASE i = n + 3
    <3>1. i # 1 /\ i - 2 = n + 1
      BY <2>1
    <3> QED BY <2>1, <3>1, <1>7, <1>8
  <2>2. CASE i \in 1..(n + 2)
    BY <2>2, <1>2, <1>7, <1>8
  <2>3. i = n + 3 \/ i \in 1..(n + 2)
    OBVIOUS
  <2> HIDE DEF a, h
  <2> QED BY <2>1, <2>2, <2>3
<1> HIDE DEF a, h
<1>10. DOMAIN a = 1..(n + 3) /\ a = [i \in 1..(n + 3) |-> a[i]]
  BY <1>7
<1>11. h = [i \in 1..(n + 3) |-> h[i]]
  BY <1>8
<1>12. h = a
  BY <1>9, <1>10, <1>11
<1> QED BY <1>5, <1>12 DEF a, h, g

\* Of n identities: all in S, of distinct players, each announced by its packet.
Among(id, n, S) == \A j \in 1..n : id[j] \in S

Distinct(id, n) == \A j, k \in 1..n : j # k => id[j].pid # id[k].pid

Announces(way, at, id, n) == \A j \in 1..n : way[at + j] = Joined(id[j])

\* A welcome and n announcements behind a way tell n + 1 rosters more.
LEMMA RostersWelcome ==
  ASSUME NEW before \in SUBSET Identity, NEW way, NEW longer,
         Len(way) \in Nat, \A i \in 1..Len(way) : ~Membership(way[i]),
         NEW n \in Nat, Len(longer) = Len(way) + 1 + n,
         \A i \in 1..Len(way) : longer[i] = way[i],
         longer[Len(way) + 1].type = "welcome",
         NEW id, Among(id, n, Identity), Distinct(id, n),
         Announces(longer, Len(way) + 1, id, n)
  PROVE  Rosters(before, longer) = Grown(before, id, n)
<1> USE DEF Among, Distinct, Announces
<1> DEFINE l == Len(way)
<1>0. l \in Nat /\ Len(longer) \in Nat /\ l + 1 \in 1..Len(longer) /\ l \in 0..Len(longer)
  OBVIOUS
<1>1. PICK f : /\ Run(f, before, longer, Len(longer))
               /\ Rosters(before, longer) = f[Len(longer)]
  BY RunMade
<1>2. \A i \in 1..Len(longer) : f[i] = Told(f[i - 1], longer[i])
  BY <1>1, RunSteps
<1>3. PICK g : Run(g, before, way, l) /\ Rosters(before, way) = g[l]
  BY RunMade
<1>4. f[l] = <<before>>
  <2>a. Len(<<>>) = 0
    OBVIOUS
  <2>b. Len(<<>>) \in Nat /\ Len(<<>>) <= Len(way)
    BY <2>a, <1>0
  <2>c. \A i \in 1..Len(<<>>) : way[i] = <<>>[i]
    BY <2>a
  <2>d. \A i \in (Len(<<>>) + 1)..Len(way) : ~Membership(way[i])
    BY <2>a
  <2>1. Rosters(before, way) = Rosters(before, <<>>)
    BY <2>b, <2>c, <2>d, RostersQuiet
  <2>2. Rosters(before, <<>>) = <<before>>
    BY <2>a, RostersNone
  <2>3. \A i \in 1..l : longer[i] = way[i]
    OBVIOUS
  <2>4. f[l] = g[l]
    BY <1>0, <1>1, <1>3, <2>3, RunAgrees
  <2> QED BY <1>3, <2>1, <2>2, <2>4
<1> DEFINE T == {k \in Nat : k <= n => f[l + 1 + k] = Grown(before, id, k)}
<1>5. 0 \in T
  <2>0. (l + 1) - 1 = l
    BY <1>0
  <2> HIDE DEF l
  <2>1. f[l + 1] = Told(<<before>>, longer[l + 1])
    BY <1>0, <1>2, <1>4, <2>0
  <2> USE DEF l
  <2>2. Told(<<before>>, longer[l + 1]) = Append(<<before>>, {})
    BY DEF Told, Membership, After
  <2>3. Grown(before, id, 0) = [i \in 1..2 |-> IF i = 1 THEN before ELSE {}]
    <3>1. \A i \in 1..2 : i # 1 => {id[j] : j \in 1..(i - 2)} = {}
      OBVIOUS
    <3>2. Grown(before, id, 0)
            = [i \in 1..2 |-> IF i = 1 THEN before ELSE {id[j] : j \in 1..(i - 2)}]
      BY DEF Grown
    <3> QED BY <3>1, <3>2
  <2>4. Append(<<before>>, {}) = [i \in 1..2 |-> IF i = 1 THEN before ELSE {}]
    OBVIOUS
  <2>5. l + 1 + 0 = l + 1
    OBVIOUS
  <2> QED BY <2>1, <2>2, <2>3, <2>4, <2>5
<1>6. ASSUME NEW k \in Nat, k \in T PROVE k + 1 \in T
  <2> SUFFICES ASSUME k + 1 <= n
               PROVE  f[l + 1 + (k + 1)] = Grown(before, id, k + 1)
    OBVIOUS
  <2>1. /\ l + 1 + (k + 1) \in 1..Len(longer)
        /\ (l + 1 + (k + 1)) - 1 = l + 1 + k
        /\ k + 1 \in 1..n
    BY <1>0
  <2>2. f[l + 1 + k] = Grown(before, id, k)
    BY <1>6, <2>1
  <2>3. f[l + 1 + (k + 1)] = Told(Grown(before, id, k), Joined(id[k + 1]))
    BY <2>1, <2>2, <1>2
  <2>4. /\ \A j \in 1..(k + 1) : id[j] \in Identity
        /\ \A j \in 1..k : id[j].pid # id[k + 1].pid
    <3>1. \A j \in 1..(k + 1) : j \in 1..n
      BY <2>1
    <3>2. \A j \in 1..k : j \in 1..n /\ j # k + 1
      BY <2>1
    <3> QED BY <3>1, <3>2, <2>1
  <2> QED BY <2>3, <2>4, GrownNext
<1> HIDE DEF T
<1>7. Nat \subseteq T
  BY <1>5, <1>6, SetInduction
<1>8. f[l + 1 + n] = Grown(before, id, n)
  BY <1>7 DEF T
<1> QED BY <1>1, <1>8

-----------------------------------------------------------------------------
(* The coordinator's half.                                                 *)

\* The members' identities: of all, and of all but x.
Ids == {members[d].id : d \in DOMAIN members}

Theirs(x) == {members[d].id : d \in DOMAIN members \ {x}}

(* The table: no more peers than max_players, no two of one id or name, no *)
(* id that will be handed out again, and a kept state is its sender's.     *)
TableOK ==
  /\ IsFiniteSet(DOMAIN members) /\ Cardinality(DOMAIN members) <= MaxPlayers
  /\ nextPlayer >= 1
  /\ ~running => registered = {}
  /\ \A c \in DOMAIN members :
       /\ members[c].id.pid \in 1..MaxPlayerId
       /\ members[c].id.pid < nextPlayer
       /\ members[c].latest # NoState => Genuine(c, members[c].latest)
  /\ \A c, d \in DOMAIN members : c # d =>
       /\ members[c].id.pid # members[d].id.pid
       /\ members[c].id.name # members[d].id.name

(* A transport that is routed but not admitted has been sent nothing.      *)
UnwelcomedOK ==
  \A c \in Watched \cap registered :
    ~Member(c) => rel[c] = <<>> /\ unrel[c] = <<>>

CoordinatorOK == SessionTypeOK /\ TableOK /\ UnwelcomedOK

(* What a step of the coordinator does to the transport x.                 *)
Fits(m, s, p, i) ==
  /\ m.type = "snapshot" => m.session = s
  /\ \A st \in m.players : st.session = s /\ (st.pid = p => st.inc = i)

\* Nothing about membership: at most datagrams, of the session and not of x's own
\* player under another incarnation.
Quiet(x) ==
  /\ Member(x)' <=> Member(x)
  /\ rel'[x] = rel[x]
  /\ Member(x) => /\ members'[x].id = members[x].id
                  /\ Theirs(x)' = Theirs(x)
                  /\ session' = session
  /\ \/ unrel'[x] = unrel[x]
     \/ /\ Member(x)
        /\ \E g \in Seq(StateMsg) :
             /\ unrel'[x] = unrel[x] \o g
             /\ \A i \in 1..Len(g) :
                  Fits(g[i], session, members[x].id.pid, members[x].id.inc)

(* js announces the peers of `others`, each once.                          *)
Introduces(js, id, others) ==
  /\ \A i \in 1..Len(js) : id[i] \in others /\ js[i] = Joined(id[i])
  /\ \A i, j \in 1..Len(js) : i # j => id[i].pid # id[j].pid
  /\ \A p \in others : \E i \in 1..Len(js) : id[i] = p

\* x is admitted: its welcome, and an announcement of each of the others.
Admitting(x) ==
  /\ x \in registered /\ ~Member(x) /\ Member(x)'
  /\ rel[x] = <<>> /\ unrel'[x] = <<>> /\ session' = session
  /\ \E js \in Seq(ReliableMsg) :
       /\ rel'[x] = <<Welcome(members'[x].id)>> \o js
       /\ \E id : Introduces(js, id, Theirs(x)')

\* Another is admitted, which x is told at once.
Joining(x) ==
  /\ Member(x) /\ Member(x)' /\ members'[x].id = members[x].id
  /\ unrel'[x] = unrel[x] /\ session' = session
  /\ \E p \in Theirs(x)' \ Theirs(x) :
       /\ p.pid # members[x].id.pid
       /\ \A o \in Theirs(x) : o.pid # p.pid
       /\ Theirs(x)' = Theirs(x) \cup {p}
       /\ rel'[x] = Append(rel[x], Joined(p))

\* Another leaves, which x is told at once.
Leaving(x) ==
  /\ Member(x) /\ Member(x)' /\ members'[x].id = members[x].id
  /\ unrel'[x] = unrel[x] /\ session' = session
  /\ \E p \in Theirs(x) \ Theirs(x)' :
       /\ p.pid # members[x].id.pid
       /\ \A o \in Theirs(x) : o.pid = p.pid => o = p
       /\ Theirs(x) = Theirs(x)' \cup {p}
       /\ rel'[x] = Append(rel[x], Left(p))

\* x is no longer served, and is told of nobody any more.
Ending(x) ==
  /\ x \notin registered' /\ ~Member(x)'
  /\ unrel'[x] = unrel[x]
  /\ \E bye \in Seq(ReliableMsg) :
       /\ rel'[x] = rel[x] \o bye
       /\ \A i \in 1..Len(bye) : bye[i].type \in {"disconnect", "closed"}

\* One of these, in every step.
Served(x) ==
  Quiet(x) \/ Admitting(x) \/ Joining(x) \/ Leaving(x) \/ Ending(x)

\* What the modules assume of their constants, in the terms used here.
LEMMA Constants ==
  /\ MyConn \subseteq Watched /\ Watched \subseteq Conn /\ NoConn \notin Conn
  /\ MaxPlayers \in Nat \ {0} /\ MaxPlayerId \in Nat /\ StateRoom \in Nat
  /\ MyName \in Name /\ ChunkSize \in Nat \ {0} /\ SnapshotInterval \in Nat
  BY SessionAssumption, SidecarAssumption

\* The packets about a peer.
LEMMA Packets ==
  ASSUME NEW p \in Identity
  PROVE  /\ Joined(p) \in ReliableMsg /\ Left(p) \in ReliableMsg
         /\ Joined(p).type = "joined" /\ Joined(p).peer = p
         /\ Left(p).type = "left" /\ Left(p).pid = p.pid /\ Left(p).inc = p.inc
  BY DEF Joined, Left, ReliableMsg, Identity

\* Session's routes append to the reliable channels.
LEMMA Sent ==
  ASSUME SessionTypeOK, NEW f,
         \A x \in Watched : f[x] \in Seq(ReliableMsg), SendReliable(f)
  PROVE  /\ rel' \in [Watched -> Seq(ReliableMsg)]
         /\ \A x \in Watched : rel'[x] = rel[x] \o f[x]
<1>1. \A x \in Watched : rel[x] \in Seq(ReliableMsg)
  BY DEF SessionTypeOK
<1>2. \A x \in Watched : rel[x] \o f[x] \in Seq(ReliableMsg)
  BY <1>1, ConcatProperties
<1> QED
  BY <1>2 DEF SendReliable

\* Datagrams are appended, or lost where there is no room.
LEMMA SentStates ==
  ASSUME SessionTypeOK, NEW f,
         \A x \in Watched : f[x] \in Seq(StateMsg), SendStates(f)
  PROVE  /\ unrel' \in [Watched -> Seq(StateMsg)]
         /\ \A x \in Watched :
              unrel'[x] = unrel[x] \/ unrel'[x] = unrel[x] \o f[x]
<1>1. \A x \in Watched : unrel[x] \in Seq(StateMsg)
  BY DEF SessionTypeOK
<1>2. \A x \in Watched : unrel[x] \o f[x] \in Seq(StateMsg)
  BY <1>1, ConcatProperties
<1> QED
  BY <1>1, <1>2 DEF SendStates

\* Members are registered connections with a typed record each.
LEMMA MemberTypes ==
  ASSUME SessionTypeOK
  PROVE  /\ \A d \in DOMAIN members :
              /\ members[d] \in Peer /\ members[d].id \in Identity
              /\ d \in registered /\ d \in Conn
         /\ members = [d \in DOMAIN members |-> members[d]]
  BY DEF SessionTypeOK, Peer

\* What a transport is sent at its end.
Farewells == {<<>>, <<Closed("normal")>>} \cup {Farewell(r) : r \in Reason}

\* A farewell is nothing but a disconnect and the end of the transport.
LEMMA FarewellType ==
  ASSUME NEW farewell \in Farewells
  PROVE  /\ farewell \in Seq(ReliableMsg)
         /\ \A i \in 1..Len(farewell) :
              farewell[i].type \in {"disconnect", "closed"}
<1>1. \A r \in Reason : DisconnectMsg(r) \in ReliableMsg /\ Closed(r) \in ReliableMsg
                        /\ DisconnectMsg(r).type = "disconnect"
                        /\ Closed(r).type = "closed"
  BY DEF DisconnectMsg, Closed, ReliableMsg
<1>2. "normal" \in Reason
  BY DEF Reason
<1>3. CASE farewell = <<>>
  BY <1>3
<1>4. CASE farewell = <<Closed("normal")>>
  BY <1>1, <1>2, <1>4
<1>5. CASE \E r \in Reason : farewell = Farewell(r)
  <2>1. PICK r \in Reason : farewell = <<DisconnectMsg(r), Closed(r)>>
    BY <1>5 DEF Farewell
  <2> QED BY <1>1, <2>1
<1> QED BY <1>3, <1>4, <1>5 DEF Farewells

\* Session::disconnect: the others are told that the peer left (session.cpp:156-162).
LEMMA RemoveStep ==
  ASSUME CoordinatorOK, NEW c \in registered, NEW farewell \in Farewells,
         Remove(c, farewell), running
  PROVE  CoordinatorOK' /\ \A x \in Watched : Served(x)
<1> DEFINE f == [x \in Conn |->
             IF x = c THEN farewell
             ELSE IF Member(c) /\ Member(x) THEN <<Left(members[c].id)>>
             ELSE <<>>]
<1>0. /\ registered' = registered \ {c}
      /\ UNCHANGED <<now, session, running, nextPlayer, nextSnapshot, unrel>>
  BY DEF Remove
<1>1. SessionTypeOK /\ TableOK /\ UnwelcomedOK
  BY DEF CoordinatorOK
<1>3. \A d \in DOMAIN members :
        members[d] \in Peer /\ members[d].id \in Identity /\ d \in registered
  BY <1>1, MemberTypes
<1>b. /\ farewell \in Seq(ReliableMsg)
      /\ \A i \in 1..Len(farewell) : farewell[i].type \in {"disconnect", "closed"}
  BY FarewellType
<1>4. \A x \in Conn : f[x] \in Seq(ReliableMsg)
  BY <1>3, <1>b, Packets DEF Member
<1>5. SendReliable(f)
  BY DEF Remove
<1>6. /\ rel' \in [Watched -> Seq(ReliableMsg)]
      /\ \A x \in Watched : rel'[x] = rel[x] \o f[x]
  <2> HIDE DEF f
  <2> QED BY <1>1, <1>4, <1>5, Sent, Constants
<1>7. /\ DOMAIN members' = DOMAIN members \ {c}
      /\ \A d \in DOMAIN members' : members'[d] = members[d]
      /\ members' = [d \in DOMAIN members' |-> members'[d]]
  BY DEF Remove, Restrict
<1>8. SessionTypeOK'
  <2>1. members' \in [DOMAIN members' -> Peer]
    BY <1>3, <1>7
  <2>2. DOMAIN members' \in SUBSET registered'
    BY <1>0, <1>3, <1>7
  <2>3. unrel' \in [Watched -> Seq(StateMsg)] /\ registered' \in SUBSET Conn
    BY <1>0, <1>1 DEF SessionTypeOK
  <2> QED BY <1>0, <1>1, <1>6, <2>1, <2>2, <2>3 DEF SessionTypeOK
<1>9. TableOK'
  <2>1. /\ IsFiniteSet(DOMAIN members')
        /\ Cardinality(DOMAIN members') <= Cardinality(DOMAIN members)
    BY <1>1, <1>7, FS_Subset DEF TableOK
  <2>2. /\ Cardinality(DOMAIN members') \in Nat
        /\ Cardinality(DOMAIN members) \in Nat
    BY <1>1, <2>1, FS_CardinalityType DEF TableOK
  <2>3. Cardinality(DOMAIN members') <= MaxPlayers
    BY <1>1, <2>1, <2>2, Constants DEF TableOK
  <2>4. \A d \in DOMAIN members' :
          members'[d].latest # NoState => Genuine(d, members[d].latest)'
    BY <1>0, <1>1, <1>7 DEF TableOK, Genuine
  <2> QED BY <1>0, <1>1, <1>7, <2>1, <2>3, <2>4 DEF TableOK
<1>10. \A x \in Watched : x # c =>
         /\ x \in Conn /\ (Member(x)' <=> Member(x)) /\ rel[x] \in Seq(ReliableMsg)
         /\ rel[x] \o <<>> = rel[x]
         /\ Member(x) => members'[x].id = members[x].id
  BY <1>1, <1>7, Constants, ConcatEmptySeq DEF Member, SessionTypeOK
<1>11. UnwelcomedOK'
  <2> SUFFICES ASSUME NEW x \in Watched, x \in registered', ~Member(x)'
               PROVE  rel'[x] = <<>> /\ unrel'[x] = <<>>
    BY DEF UnwelcomedOK
  <2>1. x # c /\ x \in registered /\ ~Member(x)
    BY <1>0, <1>10
  <2>2. f[x] = <<>>
    BY <2>1, <1>10
  <2> QED BY <1>0, <1>1, <1>6, <1>10, <2>1, <2>2 DEF UnwelcomedOK
<1>12. ASSUME NEW x \in Watched PROVE Served(x)
  <2>1. CASE x = c
    <3>1. rel'[x] = rel[x] \o farewell
      BY <2>1, <1>6, Constants
    <3>2. x \notin registered' /\ ~Member(x)' /\ unrel'[x] = unrel[x]
      BY <2>1, <1>0, <1>7 DEF Member
    <3>3. Ending(x)
      BY <3>1, <3>2, <1>b DEF Ending
    <3> QED BY <3>3 DEF Served
  <2>2. CASE x # c /\ ~(Member(c) /\ Member(x))
    <3>1. rel'[x] = rel[x]
      BY <2>2, <1>6, <1>10
    <3>2. Member(x) => Theirs(x)' = Theirs(x)
      BY <2>2, <1>7 DEF Theirs, Member
    <3>3. Quiet(x)
      BY <2>2, <1>0, <1>10, <3>1, <3>2 DEF Quiet
    <3> QED BY <3>3 DEF Served
  <2>3. CASE x # c /\ Member(c) /\ Member(x)
    <3> DEFINE p == members[c].id
    <3>1. p \in Theirs(x)
      BY <2>3 DEF Theirs, Member
    <3>2. /\ p.pid # members[x].id.pid
          /\ \A d \in DOMAIN members : d # c => p.pid # members[d].id.pid
      BY <1>1, <2>3 DEF TableOK, Member
    <3>3. Theirs(x)' = {members[d].id : d \in (DOMAIN members \ {c}) \ {x}}
      BY <1>7 DEF Theirs
    <3>4. /\ p \notin Theirs(x)' /\ Theirs(x) = Theirs(x)' \cup {p}
          /\ \A o \in Theirs(x) : o.pid = p.pid => o = p
      BY <2>3, <3>1, <3>2, <3>3 DEF Theirs, Member
    <3>5. rel'[x] = rel[x] \o <<Left(p)>>
      BY <2>3, <1>6, <1>10
    <3>6. rel[x] \o <<Left(p)>> = Append(rel[x], Left(p))
      <4>1. Left(p) \in ReliableMsg /\ rel[x] \in Seq(ReliableMsg)
        BY <2>3, <1>3, <1>10, Packets DEF Member
      <4> HIDE DEF p
      <4> QED BY <4>1, AppendIsConcat
    <3>7. Member(x) /\ Member(x)' /\ members'[x].id = members[x].id
      BY <2>3, <1>10
    <3> HIDE DEF p
    <3>8. Leaving(x)
      BY <1>0, <3>1, <3>2, <3>4, <3>5, <3>6, <3>7 DEF Leaving
    <3> QED BY <3>8 DEF Served
  <2> QED BY <2>1, <2>2, <2>3
<1> QED BY <1>8, <1>9, <1>11, <1>12 DEF CoordinatorOK

\* A new transport has been sent nothing.
LEMMA ConnectStep ==
  ASSUME CoordinatorOK, NEW c \in Conn, Connect(c)
  PROVE  CoordinatorOK' /\ \A x \in Watched : Quiet(x)
<1>1. /\ running /\ c \notin registered /\ registered' = registered \cup {c}
      /\ c \in Watched => rel[c] = <<>> /\ unrel[c] = <<>>
      /\ UNCHANGED <<now, session, running, members, nextPlayer, nextSnapshot,
                     rel, unrel>>
  BY DEF Connect
<1>2. SessionTypeOK'
  BY <1>1 DEF CoordinatorOK, SessionTypeOK
<1>3. TableOK'
  <2>1. \A d \in DOMAIN members :
          members[d].latest # NoState => Genuine(d, members[d].latest)'
    BY <1>1 DEF CoordinatorOK, TableOK, Genuine
  <2> QED BY <1>1, <2>1 DEF CoordinatorOK, TableOK
<1>4. UnwelcomedOK'
  BY <1>1 DEF CoordinatorOK, UnwelcomedOK, Member
<1>5. \A x \in Watched : Quiet(x)
  BY <1>1 DEF Quiet, Member, Theirs
<1> QED BY <1>2, <1>3, <1>4, <1>5 DEF CoordinatorOK

\* Session::accept: the welcome and the roster to the newcomer, its arrival to the
\* others (session.cpp:32-80).
LEMMA AcceptStep ==
  ASSUME CoordinatorOK, NEW c \in Conn, NEW hello \in Hello, Accept(c, hello)
  PROVE  /\ CoordinatorOK'
         /\ \A x \in Watched : Served(x)
         /\ \A x \in Watched \ {c} : ~Admitting(x)
         /\ Member(c)' /\ members'[c].id.inc = hello.inc
         /\ members'[c].id.name = hello.name
<1> DEFINE id == [pid |-> nextPlayer, inc |-> hello.inc, name |-> hello.name]
           others == DOMAIN members
           n == Cardinality(others)
<1>0. /\ c \in registered /\ c \notin others /\ running
      /\ Verdict(hello) = "normal"
      /\ nextPlayer <= MaxPlayerId
      /\ nextPlayer' = nextPlayer + 1
      /\ UNCHANGED <<now, session, running, registered, nextSnapshot, unrel>>
  BY DEF Accept, Member
<1>1. SessionTypeOK /\ TableOK /\ UnwelcomedOK
  BY DEF CoordinatorOK
<1>3. \A d \in others :
        members[d] \in Peer /\ members[d].id \in Identity /\ d \in registered
  BY <1>1, MemberTypes
<1>4. /\ nextPlayer \in Nat /\ id \in Identity /\ id.pid = nextPlayer
      /\ id.inc = hello.inc /\ id.name = hello.name
  BY <1>1 DEF SessionTypeOK, Identity, Hello
<1>5. IsFiniteSet(others) /\ n \in Nat
  BY <1>1, FS_CardinalityType DEF TableOK
<1>6. n < MaxPlayers /\ \A d \in others : members[d].id.name # hello.name
  BY <1>0, <1>5, Constants DEF Verdict, Hello, Flaw
<1>7. PICK order \in Bijection(1..n, others) :
        SendReliable([x \in Conn |->
          IF x = c
          THEN <<Welcome(id)>> \o [i \in 1..n |-> Joined(members[order[i]].id)]
          ELSE IF x \in others THEN <<Joined(id)>> ELSE <<>>])
  BY DEF Accept
<1> DEFINE js == [i \in 1..n |-> Joined(members[order[i]].id)]
           f == [x \in Conn |->
             IF x = c THEN <<Welcome(id)>> \o js
             ELSE IF x \in others THEN <<Joined(id)>> ELSE <<>>]
<1>8. /\ \A i \in 1..n : order[i] \in others
      /\ \A d \in others : \E i \in 1..n : order[i] = d
      /\ \A i, j \in 1..n : i # j => order[i] # order[j]
  BY <1>7 DEF Bijection, Injection, Surjection, IsInjective
<1>9. /\ js \in Seq(ReliableMsg) /\ Len(js) = n
      /\ \A i \in 1..n : js[i] = Joined(members[order[i]].id)
  <2>1. \A i \in 1..n : Joined(members[order[i]].id) \in ReliableMsg
    BY <1>3, <1>8, Packets
  <2> QED BY <1>5, <2>1, IsASeq
<1>10. Welcome(id) \in ReliableMsg /\ <<Welcome(id)>> \in Seq(ReliableMsg)
  BY <1>1, <1>4 DEF Welcome, ReliableMsg, SessionTypeOK
<1>11. \A x \in Conn : f[x] \in Seq(ReliableMsg)
  <2> HIDE DEF js, id
  <2> QED BY <1>4, <1>9, <1>10, Packets, ConcatProperties
<1>12. /\ rel' \in [Watched -> Seq(ReliableMsg)]
       /\ \A x \in Watched : rel'[x] = rel[x] \o f[x]
  <2>1. SendReliable(f)
    BY <1>7
  <2> HIDE DEF f
  <2> QED BY <1>1, <1>11, <2>1, Sent, Constants
<1>13. /\ DOMAIN members' = others \cup {c}
       /\ members'[c].id = id /\ members'[c].latest = NoState
       /\ members'[c] \in Peer
       /\ \A d \in others : members'[d] = members[d]
       /\ members' = [d \in DOMAIN members' |-> members'[d]]
  <2>1. members' = [x \in others \cup {c} |->
          IF x = c
          THEN [id |-> id, times |-> <<>>, latest |-> NoState, at |-> 0]
          ELSE members[x]]
    BY DEF Accept
  <2>2. [id |-> id, times |-> <<>>, latest |-> NoState, at |-> 0] \in Peer
    BY <1>4 DEF Peer
  <2> HIDE DEF id
  <2> QED BY <1>0, <2>1, <2>2
<1> HIDE DEF id, js
<1>14. SessionTypeOK'
  <2>1. members' \in [DOMAIN members' -> Peer]
    BY <1>3, <1>13
  <2>2. DOMAIN members' \in SUBSET registered'
    BY <1>0, <1>3, <1>13
  <2>3. unrel' \in [Watched -> Seq(StateMsg)] /\ nextPlayer' \in Nat
    BY <1>0, <1>1, <1>4 DEF SessionTypeOK
  <2> QED BY <1>0, <1>1, <1>12, <2>1, <2>2, <2>3 DEF SessionTypeOK
<1>15. TableOK'
  <2>1. IsFiniteSet(DOMAIN members') /\ Cardinality(DOMAIN members') = n + 1
    BY <1>0, <1>5, <1>13, FS_AddElement
  <2>2. Cardinality(DOMAIN members') <= MaxPlayers
    BY <1>5, <1>6, <2>1, Constants
  <2>3. \A d \in others :
          /\ members[d].id.pid < nextPlayer
          /\ members[d].id.pid \in 1..MaxPlayerId
          /\ \A e \in others : d # e =>
               /\ members[d].id.pid # members[e].id.pid
               /\ members[d].id.name # members[e].id.name
    BY <1>1 DEF TableOK
  <2>4. nextPlayer \in 1..MaxPlayerId
    BY <1>0, <1>1, <1>4, Constants DEF TableOK
  <2>5. \A d \in DOMAIN members' :
          members'[d].latest # NoState => Genuine(d, members[d].latest)'
    BY <1>0, <1>1, <1>13 DEF TableOK, Genuine
  <2>6. \A d \in DOMAIN members' :
          /\ members'[d].id.pid \in 1..MaxPlayerId
          /\ members'[d].id.pid < nextPlayer'
    BY <1>0, <1>4, <1>13, <2>3, <2>4
  <2>7. \A d, e \in DOMAIN members' : d # e =>
          /\ members'[d].id.pid # members'[e].id.pid
          /\ members'[d].id.name # members'[e].id.name
    BY <1>4, <1>6, <1>13, <2>3, <2>4
  <2>8. nextPlayer' >= 1 /\ (~running' => registered' = {})
    BY <1>0, <1>1, <2>4 DEF TableOK
  <2> QED BY <2>1, <2>2, <2>5, <2>6, <2>7, <2>8 DEF TableOK
<1>16. \A x \in Watched : x # c =>
         /\ x \in Conn /\ (Member(x)' <=> Member(x)) /\ rel[x] \in Seq(ReliableMsg)
         /\ rel[x] \o <<>> = rel[x]
         /\ Member(x) => members'[x].id = members[x].id
  BY <1>1, <1>13, Constants, ConcatEmptySeq DEF Member, SessionTypeOK
<1>17. UnwelcomedOK'
  <2> SUFFICES ASSUME NEW x \in Watched, x \in registered', ~Member(x)'
               PROVE  rel'[x] = <<>> /\ unrel'[x] = <<>>
    BY DEF UnwelcomedOK
  <2>1. x # c /\ x \in registered /\ ~Member(x) /\ x \notin others
    BY <1>0, <1>13, <1>16 DEF Member
  <2>2. f[x] = <<>>
    BY <2>1, <1>16
  <2> QED BY <1>0, <1>1, <1>12, <1>16, <2>1, <2>2 DEF UnwelcomedOK
<1>18. ASSUME NEW x \in Watched, x # c PROVE Served(x) /\ ~Admitting(x)
  <2>0. x \in Conn
    BY Constants
  <2>1. CASE ~Member(x)
    <3>1. rel'[x] = rel[x]
      BY <2>0, <2>1, <1>12, <1>16, <1>18 DEF Member
    <3>2. Quiet(x) /\ ~Admitting(x)
      BY <2>1, <1>0, <1>16, <1>18, <3>1 DEF Quiet, Admitting
    <3> QED BY <3>2 DEF Served
  <2>2. CASE Member(x)
    <3>1. rel'[x] = rel[x] \o <<Joined(id)>>
      BY <2>0, <2>2, <1>12, <1>18 DEF Member
    <3>2. rel[x] \o <<Joined(id)>> = Append(rel[x], Joined(id))
      <4>1. Joined(id) \in ReliableMsg /\ rel[x] \in Seq(ReliableMsg)
        BY <1>4, <1>16, <1>18, Packets
      <4> QED BY <4>1, AppendIsConcat
    <3>3. \A d \in others : members[d].id.pid # id.pid
      BY <1>1, <1>4 DEF TableOK
    <3>4. Theirs(x)' = Theirs(x) \cup {id}
      BY <1>0, <1>13, <1>18 DEF Theirs
    <3>5. /\ id \in Theirs(x)' \ Theirs(x) /\ id.pid # members[x].id.pid
          /\ \A o \in Theirs(x) : o.pid # id.pid
      BY <2>2, <3>3, <3>4 DEF Theirs, Member
    <3>6. Joining(x) /\ ~Admitting(x)
      BY <2>2, <1>0, <1>16, <1>18, <3>1, <3>2, <3>4, <3>5 DEF Joining, Admitting
    <3> QED BY <3>6 DEF Served
  <2> QED BY <2>1, <2>2
<1>19. ASSUME c \in Watched PROVE Served(c)
  <2>1. rel[c] = <<>> /\ unrel[c] = <<>>
    BY <1>0, <1>1, <1>19 DEF UnwelcomedOK, Member
  <2>2. rel'[c] = <<Welcome(id)>> \o js
    <3>1. f[c] = <<Welcome(id)>> \o js
      OBVIOUS
    <3>2. <<Welcome(id)>> \o js \in Seq(ReliableMsg)
      BY <1>9, <1>10, ConcatProperties
    <3>3. rel'[c] = <<>> \o (<<Welcome(id)>> \o js)
      BY <1>12, <1>19, <2>1, <3>1
    <3> QED BY <3>2, <3>3, ConcatEmptySeq
  <2> DEFINE ids == [i \in 1..n |-> members[order[i]].id]
  <2>3. Theirs(c)' = Ids
    BY <1>0, <1>13 DEF Theirs, Ids
  <2>4. \A i \in 1..n : ids[i] \in Ids /\ js[i] = Joined(ids[i])
    BY <1>8, <1>9 DEF Ids
  <2>5. \A i, j \in 1..n : i # j => ids[i].pid # ids[j].pid
    BY <1>1, <1>8 DEF TableOK
  <2>6. \A p \in Ids : \E i \in 1..n : ids[i] = p
    BY <1>8 DEF Ids
  <2> HIDE DEF ids
  <2>7. Introduces(js, ids, Theirs(c)')
    BY <1>9, <2>3, <2>4, <2>5, <2>6 DEF Introduces
  <2>10. rel'[c] = <<Welcome(members'[c].id)>> \o js
    BY <2>2, <1>13
  <2>8. c \in registered /\ ~Member(c) /\ Member(c)'
    BY <1>0, <1>13 DEF Member
  <2>9. Admitting(c)
    BY <1>0, <1>9, <2>1, <2>7, <2>8, <2>10 DEF Admitting
  <2> QED BY <2>9 DEF Served
<1>20. /\ Member(c)' /\ members'[c].id.inc = hello.inc
       /\ members'[c].id.name = hello.name
  BY <1>4, <1>13 DEF Member
<1> QED BY <1>14, <1>15, <1>17, <1>18, <1>19, <1>20 DEF CoordinatorOK

\* The update times kept for the rate limit are times.
LEMMA RecentType ==
  ASSUME NEW times \in Seq(Nat)
  PROVE  Recent(times) \in Seq(Nat)
<1> DEFINE n == Len(times)
           E == {i \in 1..n : \A j \in 1..i : now - times[j] >= Window}
           e == Cardinality(E)
<1>1. n \in Nat
  BY LenProperties
<1>2. IsFiniteSet(1..n)
  BY <1>1, FS_Interval
<1>3. e \in Nat
  <2>1. E \in SUBSET (1..n)
    OBVIOUS
  <2> HIDE DEF E
  <2> QED BY <1>2, <2>1, FS_Subset, FS_CardinalityType
<1>4. Recent(times) = SubSeq(times, e + 1, n)
  BY DEF Recent
<1> HIDE DEF e, E, n
<1>5. \A i \in (e + 1)..n : times[i] \in Nat
  BY <1>1, <1>3, ElementOfSeq DEF n
<1> QED BY <1>1, <1>3, <1>4, <1>5, SubSeqProperties

\* A state that is refused changes nothing but the times of the rate limit.
LEMMA IgnoreStep ==
  ASSUME CoordinatorOK, NEW c \in Conn, NEW st, IgnoreState(c, st)
  PROVE  CoordinatorOK' /\ \A x \in Watched : Quiet(x)
<1>1. SessionTypeOK /\ TableOK /\ UnwelcomedOK
  BY DEF CoordinatorOK
<1>2. /\ c \in DOMAIN members /\ members[c] \in Peer
      /\ members' = [members EXCEPT ![c].times = Recent(@)]
      /\ UNCHANGED <<now, session, running, registered, nextPlayer, nextSnapshot,
                     rel, unrel>>
  BY <1>1, MemberTypes DEF IgnoreState, Member
<1>3. Recent(members[c].times) \in Seq(Nat)
  BY <1>2, RecentType DEF Peer
<1>4. /\ DOMAIN members' = DOMAIN members
      /\ \A d \in DOMAIN members :
           /\ members'[d] \in Peer
           /\ members'[d].id = members[d].id /\ members'[d].latest = members[d].latest
  BY <1>1, <1>2, <1>3, MemberTypes DEF Peer
<1>5. members' \in [DOMAIN members' -> Peer]
  BY <1>2, <1>4
<1>6. SessionTypeOK'
  BY <1>1, <1>2, <1>4, <1>5 DEF SessionTypeOK
<1>7. TableOK'
  <2>1. \A d \in DOMAIN members' :
          members'[d].latest # NoState => Genuine(d, members[d].latest)'
    BY <1>1, <1>2, <1>4 DEF TableOK, Genuine
  <2> QED BY <1>1, <1>2, <1>4, <2>1 DEF TableOK
<1>8. UnwelcomedOK'
  BY <1>1, <1>2, <1>4 DEF UnwelcomedOK, Member
<1>9. \A x \in Watched : Quiet(x)
  BY <1>2, <1>4 DEF Quiet, Member, Theirs
<1> QED BY <1>6, <1>7, <1>8, <1>9 DEF CoordinatorOK

\* A state that is taken over goes to the others' state channels.
LEMMA StoreStep ==
  ASSUME CoordinatorOK, NEW c \in Conn, NEW st \in State, RelayState(c, st)
  PROVE  CoordinatorOK' /\ \A x \in Watched : Quiet(x)
<1> DEFINE f == [x \in Conn |-> IF Member(x) /\ x # c THEN <<StateMessage(st)>> ELSE <<>>]
<1>1. SessionTypeOK /\ TableOK /\ UnwelcomedOK
  BY DEF CoordinatorOK
<1>2. /\ c \in DOMAIN members /\ members[c] \in Peer /\ Genuine(c, st)
      /\ members' = [members EXCEPT ![c].times = Append(Recent(@), now),
                                    ![c].latest = st, ![c].at = now]
      /\ UNCHANGED <<now, session, running, registered, nextPlayer, nextSnapshot,
                     rel>>
      /\ SendStates(f)
  BY <1>1, MemberTypes DEF RelayState, Member
<1>3. Append(Recent(members[c].times), now) \in Seq(Nat) /\ now \in Nat
  <2>1. Recent(members[c].times) \in Seq(Nat) /\ now \in Nat
    BY <1>1, <1>2, RecentType DEF Peer, SessionTypeOK
  <2> QED BY <2>1, AppendProperties
<1>4. /\ DOMAIN members' = DOMAIN members
      /\ members'[c].latest = st
      /\ \A d \in DOMAIN members :
           /\ members'[d] \in Peer
           /\ members'[d].id = members[d].id
           /\ d # c => members'[d].latest = members[d].latest
  BY <1>1, <1>2, <1>3, MemberTypes DEF Peer
<1>5. members' \in [DOMAIN members' -> Peer]
  BY <1>2, <1>4
<1>a. /\ StateMessage(st) \in StateMsg /\ StateMessage(st).type = "state"
      /\ StateMessage(st).players = {st}
  BY DEF StateMessage, StateMsg
<1>b. \A x \in Watched : f[x] \in Seq(StateMsg)
  <2>1. \A x \in Watched : x \in Conn
    BY Constants
  <2>2. <<StateMessage(st)>> \in Seq(StateMsg) /\ <<>> \in Seq(StateMsg)
    BY <1>a
  <2> QED BY <2>1, <2>2
<1>c. /\ unrel' \in [Watched -> Seq(StateMsg)]
      /\ \A x \in Watched : unrel'[x] = unrel[x] \/ unrel'[x] = unrel[x] \o f[x]
  <2> HIDE DEF f
  <2> QED BY <1>1, <1>2, <1>b, SentStates
<1>d. \A x \in Watched :
        /\ ~Member(x) \/ x = c => unrel'[x] = unrel[x]
        /\ unrel'[x] = unrel[x] \/ unrel'[x] = unrel[x] \o <<StateMessage(st)>>
  <2> SUFFICES ASSUME NEW x \in Watched
               PROVE  /\ ~Member(x) \/ x = c => unrel'[x] = unrel[x]
                      /\ \/ unrel'[x] = unrel[x]
                         \/ unrel'[x] = unrel[x] \o <<StateMessage(st)>>
    OBVIOUS
  <2>1. f[x] = IF Member(x) /\ x # c THEN <<StateMessage(st)>> ELSE <<>>
    BY Constants
  <2>2. unrel[x] \o <<>> = unrel[x]
    BY <1>1, ConcatEmptySeq DEF SessionTypeOK
  <2> QED BY <1>c, <2>1, <2>2
<1>6. SessionTypeOK'
  BY <1>1, <1>2, <1>4, <1>5, <1>c DEF SessionTypeOK
<1>7. TableOK'
  <2>1. \A d \in DOMAIN members' :
          members'[d].latest # NoState => Genuine(d, members[d].latest)'
    BY <1>1, <1>2, <1>4 DEF TableOK, Genuine
  <2> QED BY <1>1, <1>2, <1>4, <2>1 DEF TableOK
<1>8. UnwelcomedOK'
  BY <1>1, <1>2, <1>4, <1>d DEF UnwelcomedOK, Member
<1>9. ASSUME NEW x \in Watched PROVE Quiet(x)
  <2>1. /\ Member(x)' <=> Member(x)
        /\ rel'[x] = rel[x]
        /\ Member(x) => /\ members'[x].id = members[x].id
                        /\ Theirs(x)' = Theirs(x)
                        /\ session' = session
    BY <1>2, <1>4 DEF Member, Theirs
  <2>2. CASE unrel'[x] = unrel[x]
    BY <2>1, <2>2 DEF Quiet
  <2>3. CASE unrel'[x] # unrel[x]
    <3> DEFINE g == <<StateMessage(st)>>
    <3>1. Member(x) /\ x # c /\ unrel'[x] = unrel[x] \o g
      BY <2>3, <1>d
    <3>2. st.session = session /\ st.pid # members[x].id.pid
      BY <1>1, <1>2, <3>1 DEF TableOK, Member, Genuine
    <3>3. Fits(StateMessage(st), session, members[x].id.pid, members[x].id.inc)
      BY <1>a, <3>2 DEF Fits
    <3>4. g \in Seq(StateMsg) /\ Len(g) = 1 /\ g[1] = StateMessage(st)
      BY <1>a
    <3> HIDE DEF g
    <3>5. \A i \in 1..Len(g) :
            Fits(g[i], session, members[x].id.pid, members[x].id.inc)
      BY <3>3, <3>4
    <3> QED BY <2>1, <3>1, <3>4, <3>5 DEF Quiet
  <2> QED BY <2>2, <2>3
<1> QED BY <1>6, <1>7, <1>8, <1>9 DEF CoordinatorOK

\* A snapshot repeats the states of members, under the session's number.
LEMMA SnapshotType ==
  ASSUME SessionTypeOK, TableOK
  PROVE  /\ SnapshotMessages(Fresh) \in Seq(StateMsg)
         /\ \A k \in 1..Len(SnapshotMessages(Fresh)) :
              /\ SnapshotMessages(Fresh)[k].type = "snapshot"
              /\ SnapshotMessages(Fresh)[k].session = session
              /\ SnapshotMessages(Fresh)[k].players \subseteq Fresh
         /\ \A s \in Fresh : \E d \in DOMAIN members :
              /\ members[d].latest = s /\ s \in State /\ Genuine(d, s)
<1> DEFINE D == {d \in DOMAIN members :
                   members[d].latest # NoState /\ now - members[d].at < StaleAfter}
           g == [d \in D |-> members[d].latest]
<1>1. Fresh = {members[d].latest : d \in D}
  BY DEF Fresh
<1>2. IsFiniteSet(D)
  <2>1. D \in SUBSET DOMAIN members
    OBVIOUS
  <2> HIDE DEF D
  <2> QED BY <2>1, FS_Subset DEF TableOK
<1>3. g \in Surjection(D, Fresh)
  <2> HIDE DEF D
  <2> QED BY <1>1 DEF Surjection
<1>4. IsFiniteSet(Fresh) /\ Cardinality(Fresh) \in Nat
  BY <1>2, <1>3, FS_Surjection, FS_CardinalityType
<1>5. \A s \in Fresh : \E d \in DOMAIN members :
        members[d].latest = s /\ s \in State /\ Genuine(d, s)
  BY <1>1, MemberTypes DEF TableOK, Peer
<1> DEFINE packets == IF Fresh = {} THEN 1
                      ELSE (Cardinality(Fresh) + ChunkSize - 1) \div ChunkSize
           place(s) == Cardinality({t \in Fresh : t.pid <= s.pid})
           chunk(k) == {s \in Fresh : (place(s) + ChunkSize - 1) \div ChunkSize = k}
           e(k) == [type |-> "snapshot", time |-> now, session |-> session,
                    players |-> Chunks(Fresh)[k]]
<1>6. packets \in Nat
  <2>1. Cardinality(Fresh) + ChunkSize - 1 \in Nat
    BY <1>4, Constants
  <2>2. (Cardinality(Fresh) + ChunkSize - 1) \div ChunkSize \in Nat
    <3> DEFINE b == Cardinality(Fresh) + ChunkSize - 1
    <3>1. b \in Nat /\ ChunkSize \in Nat /\ ChunkSize > 0
      BY <2>1, Constants
    <3> HIDE DEF b
    <3>2. b \div ChunkSize \in Nat
      BY <3>1
    <3> QED BY <3>2 DEF b
  <2> QED BY <2>2
<1>7. Chunks(Fresh) = [k \in 1..packets |-> chunk(k)]
  BY DEF Chunks
<1>8. \A k : chunk(k) \subseteq Fresh
  OBVIOUS
<1> HIDE DEF packets, chunk, place
<1>9. Len(Chunks(Fresh)) = packets /\ \A k \in 1..packets : Chunks(Fresh)[k] \subseteq Fresh
  BY <1>6, <1>7, <1>8
<1>10. SnapshotMessages(Fresh) = [k \in 1..packets |-> e(k)]
  BY <1>9 DEF SnapshotMessages
<1>11. \A k \in 1..packets :
         /\ e(k) \in StateMsg /\ e(k).type = "snapshot" /\ e(k).session = session
         /\ e(k).players \subseteq Fresh
  <2>1. Fresh \subseteq State
    BY <1>5
  <2> QED BY <1>9, <2>1 DEF StateMsg, SessionTypeOK
<1> HIDE DEF e
<1>12. /\ SnapshotMessages(Fresh) \in Seq(StateMsg)
       /\ Len(SnapshotMessages(Fresh)) = packets
       /\ \A k \in 1..packets : SnapshotMessages(Fresh)[k] = e(k)
  <2>1. [k \in 1..packets |-> e(k)] \in Seq(StateMsg)
    BY <1>6, <1>11, IsASeq
  <2>2. Len([k \in 1..packets |-> e(k)]) = packets
    BY <1>6
  <2> QED BY <1>10, <2>1, <2>2
<1> QED BY <1>5, <1>11, <1>12

\* Session::tick sends to the state channels alone.
LEMMA TickStep ==
  ASSUME CoordinatorOK, Tick
  PROVE  CoordinatorOK' /\ \A x \in Watched : Quiet(x)
<1> DEFINE b == SnapshotMessages(Fresh)
           f == [x \in Conn |-> IF Member(x) THEN b ELSE <<>>]
<1>1. SessionTypeOK /\ TableOK /\ UnwelcomedOK
  BY DEF CoordinatorOK
<1>2. /\ UNCHANGED <<now, session, running, registered, members, nextPlayer, rel>>
      /\ nextSnapshot' = now + SnapshotInterval
      /\ SendStates(f)
  BY DEF Tick
<1>3. /\ b \in Seq(StateMsg)
      /\ \A k \in 1..Len(b) : b[k].type = "snapshot" /\ b[k].session = session
                              /\ b[k].players \subseteq Fresh
      /\ \A s \in Fresh : \E d \in DOMAIN members :
           members[d].latest = s /\ Genuine(d, s)
  BY <1>1, SnapshotType
<1> HIDE DEF b
<1>4. \A x \in Watched : f[x] \in Seq(StateMsg)
  BY <1>3, Constants
<1>5. /\ unrel' \in [Watched -> Seq(StateMsg)]
      /\ \A x \in Watched : unrel'[x] = unrel[x] \/ unrel'[x] = unrel[x] \o f[x]
  <2> HIDE DEF f
  <2> QED BY <1>1, <1>2, <1>4, SentStates
<1>6. \A x \in Watched :
        /\ ~Member(x) => unrel'[x] = unrel[x]
        /\ unrel'[x] = unrel[x] \/ unrel'[x] = unrel[x] \o b
  <2> SUFFICES ASSUME NEW x \in Watched
               PROVE  /\ ~Member(x) => unrel'[x] = unrel[x]
                      /\ unrel'[x] = unrel[x] \/ unrel'[x] = unrel[x] \o b
    OBVIOUS
  <2>1. f[x] = IF Member(x) THEN b ELSE <<>>
    BY Constants
  <2>2. unrel[x] \o <<>> = unrel[x]
    BY <1>1, ConcatEmptySeq DEF SessionTypeOK
  <2> QED BY <1>5, <2>1, <2>2
<1>7. SessionTypeOK'
  BY <1>1, <1>2, <1>5, Constants DEF SessionTypeOK
<1>8. TableOK'
  BY <1>1, <1>2 DEF TableOK, Genuine
<1>9. UnwelcomedOK'
  BY <1>1, <1>2, <1>6 DEF UnwelcomedOK, Member
<1>10. ASSUME NEW x \in Watched PROVE Quiet(x)
  <2>1. /\ Member(x)' <=> Member(x)
        /\ rel'[x] = rel[x]
        /\ Member(x) => /\ members'[x].id = members[x].id
                        /\ Theirs(x)' = Theirs(x)
                        /\ session' = session
    BY <1>2 DEF Member, Theirs
  <2>2. CASE unrel'[x] = unrel[x]
    BY <2>1, <2>2 DEF Quiet
  <2>3. CASE unrel'[x] # unrel[x]
    <3>1. Member(x) /\ unrel'[x] = unrel[x] \o b
      BY <2>3, <1>6
    <3>2. \A s \in Fresh : s.session = session
                           /\ (s.pid = members[x].id.pid => s.inc = members[x].id.inc)
      BY <1>1, <1>3, <3>1 DEF TableOK, Member, Genuine
    <3>3. \A i \in 1..Len(b) :
            Fits(b[i], session, members[x].id.pid, members[x].id.inc)
      BY <1>3, <3>2 DEF Fits
    <3> QED BY <1>3, <2>1, <3>1, <3>3 DEF Quiet
  <2> QED BY <2>2, <2>3
<1> QED BY <1>7, <1>8, <1>9, <1>10 DEF CoordinatorOK

\* A table restricted to nobody is empty.
LEMMA Emptied ==
  ASSUME members' = Restrict(members, {})
  PROVE  DOMAIN members' = {} /\ members' \in [DOMAIN members' -> Peer]
  BY DEF Restrict

\* A shutdown says goodbye to every member and ends every transport.
LEMMA ShutdownStep ==
  ASSUME CoordinatorOK, Shutdown
  PROVE  CoordinatorOK' /\ \A x \in Watched : Ending(x)
<1> DEFINE bye == <<DisconnectMsg("server_shutdown")>>
           f == [x \in Conn |-> IF x \in registered THEN bye ELSE <<>>]
<1>1. SessionTypeOK /\ TableOK
  BY DEF CoordinatorOK
<1>2. /\ registered' = {} /\ running' = FALSE
      /\ members' = Restrict(members, {})
      /\ UNCHANGED <<now, session, nextPlayer, nextSnapshot, unrel>>
      /\ SendReliable(f)
  BY DEF Shutdown
<1>3. DOMAIN members' = {} /\ members' \in [DOMAIN members' -> Peer]
  BY <1>2, Emptied
<1>4. /\ bye \in Seq(ReliableMsg) /\ <<>> \in Seq(ReliableMsg)
      /\ \A i \in 1..Len(bye) : bye[i].type \in {"disconnect", "closed"}
      /\ \A i \in 1..Len(<<>>) : <<>>[i].type \in {"disconnect", "closed"}
  <2>1. /\ DisconnectMsg("server_shutdown") \in ReliableMsg
        /\ DisconnectMsg("server_shutdown").type = "disconnect"
    BY DEF DisconnectMsg, ReliableMsg, Reason
  <2> QED BY <2>1
<1> HIDE DEF bye
<1>5. \A x \in Watched : /\ f[x] \in Seq(ReliableMsg)
                         /\ \A i \in 1..Len(f[x]) : f[x][i].type \in {"disconnect", "closed"}
  <2> SUFFICES ASSUME NEW x \in Watched
               PROVE  /\ f[x] \in Seq(ReliableMsg)
                      /\ \A i \in 1..Len(f[x]) : f[x][i].type \in {"disconnect", "closed"}
    OBVIOUS
  <2>1. f[x] = bye \/ f[x] = <<>>
    BY Constants
  <2> HIDE DEF f
  <2> QED BY <1>4, <2>1
<1> HIDE DEF f
<1>6. /\ rel' \in [Watched -> Seq(ReliableMsg)]
      /\ \A x \in Watched : rel'[x] = rel[x] \o f[x]
  BY <1>1, <1>2, <1>5, Sent
<1>7. SessionTypeOK'
  <2>1. DOMAIN members' \in SUBSET registered' /\ registered' \in SUBSET Conn
    BY <1>2, <1>3
  <2> QED BY <1>1, <1>2, <1>3, <1>6, <2>1 DEF SessionTypeOK
<1>8. TableOK'
  <2>1. IsFiniteSet(DOMAIN members') /\ Cardinality(DOMAIN members') = 0
    BY <1>3, FS_EmptySet
  <2> QED BY <1>1, <1>2, <1>3, <2>1, Constants DEF TableOK
<1>9. UnwelcomedOK'
  BY <1>2 DEF UnwelcomedOK
<1>10. \A x \in Watched : Ending(x)
  BY <1>2, <1>3, <1>5, <1>6 DEF Ending, Member
<1> QED BY <1>7, <1>8, <1>9, <1>10 DEF CoordinatorOK

\* A crash ends every transport without a word.
LEMMA CrashStep ==
  ASSUME CoordinatorOK, Crash
  PROVE  CoordinatorOK' /\ \A x \in Watched : Ending(x)
<1>1. SessionTypeOK /\ TableOK
  BY DEF CoordinatorOK
<1>2. /\ registered' = {} /\ running' = FALSE
      /\ members' = Restrict(members, {})
      /\ UNCHANGED <<now, session, nextPlayer, nextSnapshot, rel, unrel>>
  BY DEF Crash
<1>3. DOMAIN members' = {} /\ members' \in [DOMAIN members' -> Peer]
  BY <1>2, Emptied
<1>7. SessionTypeOK'
  <2>1. DOMAIN members' \in SUBSET registered' /\ registered' \in SUBSET Conn
    BY <1>2, <1>3
  <2> QED BY <1>1, <1>2, <1>3, <2>1 DEF SessionTypeOK
<1>8. TableOK'
  <2>1. IsFiniteSet(DOMAIN members') /\ Cardinality(DOMAIN members') = 0
    BY <1>3, FS_EmptySet
  <2> QED BY <1>1, <1>2, <1>3, <2>1, Constants DEF TableOK
<1>9. UnwelcomedOK'
  BY <1>2 DEF UnwelcomedOK
<1>10. ASSUME NEW x \in Watched PROVE Ending(x)
  <2>1. rel'[x] = rel[x] \o <<>>
    BY <1>1, <1>2, ConcatEmptySeq DEF SessionTypeOK
  <2>2. <<>> \in Seq(ReliableMsg)
        /\ \A i \in 1..Len(<<>>) : <<>>[i].type \in {"disconnect", "closed"}
    OBVIOUS
  <2> QED BY <1>2, <1>3, <2>1, <2>2 DEF Ending, Member
<1> QED BY <1>7, <1>8, <1>9, <1>10 DEF CoordinatorOK

\* A new process has no members and routes nobody.
LEMMA StartStep ==
  ASSUME CoordinatorOK, Start
  PROVE  CoordinatorOK' /\ \A x \in Watched : Quiet(x)
<1>1. SessionTypeOK /\ TableOK
  BY DEF CoordinatorOK
<1>2. /\ registered = {} /\ session' = session + 1 /\ running' = TRUE
      /\ nextPlayer' = 1 /\ nextSnapshot' = 0
      /\ UNCHANGED <<now, registered, members, rel, unrel>>
  BY <1>1 DEF Start, TableOK
<1>3. DOMAIN members = {}
  BY <1>1, <1>2, MemberTypes
<1>7. SessionTypeOK'
  BY <1>1, <1>2 DEF SessionTypeOK
<1>8. TableOK'
  BY <1>1, <1>2, <1>3 DEF TableOK
<1>9. UnwelcomedOK'
  BY <1>2 DEF UnwelcomedOK
<1>10. \A x \in Watched : Quiet(x)
  BY <1>2, <1>3 DEF Quiet, Member
<1> QED BY <1>7, <1>8, <1>9, <1>10 DEF CoordinatorOK

(* A step of the other players or of the coordinator's process.            *)
Known(x) == x \in registered' => x \in registered

\* A hello that is refused ends its transport.
LEMMA RefuseStep ==
  ASSUME CoordinatorOK, NEW c, NEW hello \in Hello, Refuse(c, hello)
  PROVE  CoordinatorOK' /\ \A x \in Watched : Served(x) /\ Known(x)
<1>1. Verdict(hello) \in Reason
  BY DEF Verdict, Hello, Flaw, Reason
<1>2. Farewell(Verdict(hello)) \in Farewells
  BY <1>1 DEF Farewells
<1>3. c \in registered /\ running /\ Remove(c, Farewell(Verdict(hello)))
  BY DEF Refuse
<1>4. \A x : Known(x)
  BY <1>3 DEF Remove, Known
<1> QED BY <1>2, <1>3, <1>4, RemoveStep

\* So does a disconnect, and a transport that is lost.
LEMMA GoesStep ==
  ASSUME CoordinatorOK, NEW c, ReceiveDisconnect(c) \/ TransportLost(c)
  PROVE  CoordinatorOK' /\ \A x \in Watched : Served(x) /\ Known(x)
<1>1. PICK farewell \in Farewells : c \in registered /\ running /\ Remove(c, farewell)
  BY DEF ReceiveDisconnect, TransportLost, Farewells
<1>4. \A x : Known(x)
  BY <1>1 DEF Remove, Known
<1> QED BY <1>1, <1>4, RemoveStep

(* A step that removes a connection admits none.                           *)
LEMMA RemovedNotAdmitted ==
  ASSUME NEW c, NEW farewell, Remove(c, farewell), NEW x
  PROVE  ~Admitting(x)
<1>1. DOMAIN members' = DOMAIN members \ {c}
  BY DEF Remove, Restrict
<1> QED BY <1>1 DEF Admitting, Member

\* Hence every step of the other players and of the process serves the sidecar's
\* transport in one of the five ways.
LEMMA OthersStep ==
  ASSUME CoordinatorOK, Peers \/ Process
  PROVE  CoordinatorOK' /\ \A x \in MyConn : Served(x) /\ ~Admitting(x) /\ Known(x)
<1> SUFFICES CoordinatorOK' /\ \A x \in Watched \cap MyConn :
               Served(x) /\ ~Admitting(x) /\ Known(x)
  BY Constants
<1>q. \A x : Quiet(x) => ~Admitting(x)
  BY DEF Quiet, Admitting
<1>e. \A x : Ending(x) => ~Admitting(x) /\ Known(x)
  BY DEF Ending, Admitting, Known
<1>1. ASSUME NEW c \in PeerConn,
             PeerOpens(c) \/ PeerHello(c) \/ PeerState(c) \/ PeerGoes(c)
      PROVE  CoordinatorOK' /\ \A x \in Watched \cap MyConn :
               Served(x) /\ ~Admitting(x) /\ Known(x)
  <2>0. c \in Conn /\ \A x \in MyConn : x # c
    BY DEF PeerConn
  <2>1. CASE PeerOpens(c)
    <3>1. Connect(c)
      BY <2>1 DEF PeerOpens
    <3>2. CoordinatorOK' /\ \A x \in Watched : Quiet(x)
      BY <2>0, <3>1, ConnectStep
    <3>3. \A x \in MyConn : Known(x)
      BY <2>0, <3>1 DEF Connect, Known
    <3> QED BY <1>q, <3>2, <3>3 DEF Served
  <2>2. CASE PeerHello(c)
    <3>1. PICK hello \in [name : PeerName, inc : Incarnation, flaw : {"none"}] :
            Accept(c, hello) \/ Refuse(c, hello)
      BY <2>2 DEF PeerHello
    <3>2. hello \in Hello
      BY RelayAssumption DEF Hello, Flaw
    <3>3. CASE Accept(c, hello)
      <4>1. \A x : Known(x)
        BY <3>3 DEF Accept, Known
      <4>2. CoordinatorOK' /\ \A x \in Watched : Served(x)
        BY <2>0, <3>2, <3>3, AcceptStep
      <4>3. \A x \in Watched \ {c} : ~Admitting(x)
        BY <2>0, <3>2, <3>3, AcceptStep
      <4> QED BY <2>0, <4>1, <4>2, <4>3
    <3>4. CASE Refuse(c, hello)
      <4>1. CoordinatorOK' /\ \A x \in Watched : Served(x) /\ Known(x)
        BY <3>2, <3>4, RefuseStep
      <4>2. \A x : ~Admitting(x)
        BY <3>4, RemovedNotAdmitted DEF Refuse
      <4> QED BY <4>1, <4>2
    <3> QED BY <3>1, <3>3, <3>4
  <2>3. CASE PeerState(c)
    <3>1. PICK seq \in 1..MaxSeqNo, inWorld \in BOOLEAN :
            RelayState(c, [session |-> session, pid |-> members[c].id.pid,
                           inc |-> members[c].id.inc, seq |-> seq,
                           inWorld |-> inWorld])
      BY <2>3 DEF PeerState
    <3> DEFINE st == [session |-> session, pid |-> members[c].id.pid,
                      inc |-> members[c].id.inc, seq |-> seq, inWorld |-> inWorld]
    <3>2. st \in State
      <4>1. session \in Nat /\ members[c].id \in Identity
        BY <2>3, MemberTypes DEF PeerState, Member, CoordinatorOK, SessionTypeOK
      <4>2. seq \in 0..(SeqRange - 1)
        BY RelayAssumption, SessionAssumption
      <4> QED BY <4>1, <4>2 DEF State, Identity
    <3>3. RelayState(c, st)
      BY <3>1
    <3> HIDE DEF st
    <3>4. CoordinatorOK' /\ \A x \in Watched : Quiet(x)
      BY <2>0, <3>2, <3>3, StoreStep
    <3>5. \A x : Known(x)
      BY <3>3 DEF RelayState, Known
    <3> QED BY <1>q, <3>4, <3>5 DEF Served
  <2>4. CASE PeerGoes(c)
    <3>1. CoordinatorOK' /\ \A x \in Watched : Served(x) /\ Known(x)
      BY <2>4, GoesStep DEF PeerGoes
    <3>2. \A x : ~Admitting(x)
      BY <2>4, RemovedNotAdmitted DEF PeerGoes, ReceiveDisconnect, TransportLost
    <3> QED BY <3>1, <3>2
  <2> QED BY <1>1, <2>1, <2>2, <2>3, <2>4
<1>2. CASE Shutdown
  BY <1>2, <1>e, ShutdownStep DEF Served
<1>3. CASE Crash
  BY <1>3, <1>e, CrashStep DEF Served
<1>4. CASE Start
  <2>1. \A x : Known(x)
    BY <1>4 DEF Start, Known
  <2> QED BY <1>4, <1>q, <2>1, StartStep DEF Served
<1>5. CASE Tick
  <2>1. \A x : Known(x)
    BY <1>5 DEF Tick, Known
  <2> QED BY <1>5, <1>q, <2>1, TickStep DEF Served
<1> QED BY <1>1, <1>2, <1>3, <1>4, <1>5 DEF Peers, Process

-----------------------------------------------------------------------------
(* The sidecar's half: types.                                              *)

\* What the sidecar sends.
UpMsg == [type : {"hello"}, hello : Hello] \cup [type : {"disconnect"}]

UpOK == up \in [MyConn -> Seq(UpMsg)]

TypesOK == CoordinatorOK /\ SidecarTypeOK /\ UpOK

(* What the sidecar reads or the network loses leaves the table alone.     *)
LEMMA QueuesStep ==
  ASSUME CoordinatorOK,
         UNCHANGED <<now, session, running, registered, members, nextPlayer,
                     nextSnapshot>>,
         rel' \in [Watched -> Seq(ReliableMsg)],
         unrel' \in [Watched -> Seq(StateMsg)],
         \A x \in Watched : /\ rel[x] = <<>> => rel'[x] = <<>>
                            /\ unrel[x] = <<>> => unrel'[x] = <<>>
  PROVE  CoordinatorOK'
<1>1. SessionTypeOK'
  BY DEF CoordinatorOK, SessionTypeOK
<1>2. TableOK'
  BY DEF CoordinatorOK, TableOK, Genuine
<1>3. UnwelcomedOK'
  BY DEF CoordinatorOK, UnwelcomedOK, Member
<1> QED BY <1>1, <1>2, <1>3 DEF CoordinatorOK

\* A step that leaves the coordinator alone keeps its invariant.
LEMMA SameCoordinator ==
  ASSUME CoordinatorOK, UNCHANGED sessionVars
  PROVE  CoordinatorOK'
<1>1. SessionTypeOK' /\ UnwelcomedOK'
  BY DEF CoordinatorOK, SessionTypeOK, UnwelcomedOK, Member, sessionVars
<1>2. TableOK'
  BY DEF CoordinatorOK, TableOK, Genuine, sessionVars
<1> QED BY <1>1, <1>2 DEF CoordinatorOK

\* The rest of a queue.
LEMMA TailType ==
  ASSUME NEW S, NEW q \in Seq(S), q # <<>>
  PROVE  /\ Head(q) \in S /\ Tail(q) \in Seq(S)
         /\ Len(q) \in Nat /\ Len(q) # 0 /\ Len(Tail(q)) = Len(q) - 1
         /\ Head(q) = q[1]
         /\ \A i \in 1..Len(Tail(q)) : Tail(q)[i] = q[i + 1]
  OBVIOUS

\* The network only takes out of the queues.
LEMMA NetworkStep ==
  ASSUME TypesOK, Network \/ \E c \in MyConn : Discard(c)
  PROVE  TypesOK'
<1>0. /\ rel \in [Watched -> Seq(ReliableMsg)] /\ unrel \in [Watched -> Seq(StateMsg)]
      /\ MyConn \subseteq Watched
  BY Constants DEF TypesOK, CoordinatorOK, SessionTypeOK
<1>a. \A S : <<>> \in Seq(S)
  OBVIOUS
<1>1. ASSUME NEW c \in MyConn, LoseState(c) PROVE TypesOK'
  <2>1. unrel[c] # <<>> /\ unrel' = [unrel EXCEPT ![c] = Tail(@)]
    BY <1>1 DEF LoseState
  <2>2. Tail(unrel[c]) \in Seq(StateMsg)
    BY <1>0, <2>1, TailType
  <2>3. unrel' \in [Watched -> Seq(StateMsg)]
        /\ \A x \in Watched : unrel[x] = <<>> => unrel'[x] = <<>>
    BY <1>0, <2>1, <2>2
  <2>4. CoordinatorOK'
    BY <1>0, <1>1, <2>3, QueuesStep DEF LoseState, TypesOK, tables
  <2>5. SidecarTypeOK' /\ UpOK'
    BY <1>1 DEF LoseState, TypesOK, SidecarTypeOK, UpOK, sidecarVars, clientVars,
                dialVars, adapterVars
  <2> QED BY <2>4, <2>5 DEF TypesOK
<1>2. ASSUME NEW c \in MyConn, LoseReliable(c) PROVE TypesOK'
  <2>1. rel' = [rel EXCEPT ![c] = <<>>]
    BY <1>2 DEF LoseReliable
  <2>3. rel' \in [Watched -> Seq(ReliableMsg)]
        /\ \A x \in Watched : rel[x] = <<>> => rel'[x] = <<>>
    BY <1>0, <1>a, <2>1
  <2>4. CoordinatorOK'
    BY <1>0, <1>2, <2>3, QueuesStep DEF LoseReliable, TypesOK, tables
  <2>5. SidecarTypeOK' /\ UpOK'
    BY <1>2 DEF LoseReliable, TypesOK, SidecarTypeOK, UpOK, sidecarVars, clientVars,
                dialVars, adapterVars
  <2> QED BY <2>4, <2>5 DEF TypesOK
<1>3. ASSUME NEW c \in MyConn, Discard(c) PROVE TypesOK'
  <2>1. /\ rel' = [rel EXCEPT ![c] = IF c # conn THEN <<>> ELSE @]
        /\ unrel' = [unrel EXCEPT ![c] = IF c # conn THEN <<>> ELSE @]
        /\ up' = [up EXCEPT ![c] = IF c \notin registered THEN <<>> ELSE @]
    BY <1>3 DEF Discard
  <2>3. /\ rel' \in [Watched -> Seq(ReliableMsg)]
        /\ \A x \in Watched : rel[x] = <<>> => rel'[x] = <<>>
        /\ unrel' \in [Watched -> Seq(StateMsg)]
        /\ \A x \in Watched : unrel[x] = <<>> => unrel'[x] = <<>>
    BY <1>0, <1>a, <2>1
  <2>4. CoordinatorOK'
    BY <1>3, <2>3, QueuesStep DEF Discard, TypesOK, tables
  <2>5. UpOK'
    BY <1>a, <2>1 DEF TypesOK, UpOK
  <2>6. SidecarTypeOK'
    BY <1>3, <2>5 DEF Discard, TypesOK, SidecarTypeOK, UpOK, OthersOfSidecar,
                      dialVars, adapterVars
  <2> QED BY <2>4, <2>5, <2>6 DEF TypesOK
<1> QED BY <1>1, <1>2, <1>3 DEF Network

(* The coordinator serves a transport of the sidecar's.                    *)
LEMMA ConsumeType ==
  ASSUME TypesOK, NEW c \in MyConn, up[c] # <<>>, Consume(c),
         UNCHANGED OthersOfSidecar
  PROVE  SidecarTypeOK' /\ UpOK'
<1>1. Tail(up[c]) \in Seq(UpMsg)
  BY TailType DEF TypesOK, UpOK
<1>2. UpOK'
  BY <1>1 DEF TypesOK, UpOK, Consume
<1>3. SidecarTypeOK'
  BY <1>2 DEF TypesOK, SidecarTypeOK, UpOK, OthersOfSidecar, dialVars, adapterVars
<1> QED BY <1>2, <1>3

\* The sidecar's hello is served as anybody's.
LEMMA ServeHelloStep ==
  ASSUME TypesOK, NEW c \in MyConn, ServeHello(c)
  PROVE  /\ TypesOK'
         /\ \A x \in MyConn : Served(x) /\ Known(x)
         /\ \A x \in MyConn \ {c} : ~Admitting(x)
         /\ Member(c)' => /\ members'[c].id.inc = Head(up[c]).hello.inc
                          /\ members'[c].id.name = Head(up[c]).hello.name
<1>0. c \in Conn /\ MyConn \subseteq Watched
  BY Constants
<1>1. Head(up[c]) \in UpMsg /\ up[c] # <<>> /\ Head(up[c]).type = "hello"
  BY TailType DEF ServeHello, TypesOK, UpOK
<1>2. Head(up[c]).hello \in Hello
  BY <1>1 DEF UpMsg
<1>3. SidecarTypeOK' /\ UpOK'
  BY <1>1, ConsumeType DEF ServeHello
<1> DEFINE hello == Head(up[c]).hello
<1>4. CASE Accept(c, hello)
  <2>1. \A x : Known(x)
    BY <1>4 DEF Accept, Known
  <2> HIDE DEF hello
  <2>2. CoordinatorOK' /\ \A x \in Watched : Served(x)
    BY <1>0, <1>2, <1>4, AcceptStep DEF TypesOK, hello
  <2>3. \A x \in Watched \ {c} : ~Admitting(x)
    BY <1>0, <1>2, <1>4, AcceptStep DEF TypesOK, hello
  <2>4. members'[c].id.inc = hello.inc /\ members'[c].id.name = hello.name
    BY <1>0, <1>2, <1>4, AcceptStep DEF TypesOK, hello
  <2> QED BY <1>0, <1>3, <2>1, <2>2, <2>3, <2>4 DEF TypesOK, hello
<1>5. CASE Refuse(c, hello)
  <2>1. CoordinatorOK' /\ \A x \in Watched : Served(x) /\ Known(x)
    BY <1>2, <1>5, RefuseStep DEF TypesOK
  <2>2. \A x : ~Admitting(x)
    BY <1>5, RemovedNotAdmitted DEF Refuse
  <2>3. ~Member(c)'
    BY <1>5 DEF Refuse, Remove, Restrict, Member
  <2> QED BY <1>0, <1>3, <2>1, <2>2, <2>3 DEF TypesOK
<1> QED BY <1>4, <1>5 DEF ServeHello

\* The other steps of the coordinator on a transport of the sidecar's.
LEMMA ServeOtherStep ==
  ASSUME TypesOK, NEW c \in MyConn,
         ServeDisconnect(c) \/ MyTransportLost(c) \/ \E seq \in 1..MaxSeqNo : MyState(seq)
  PROVE  TypesOK' /\ \A x \in MyConn : Served(x) /\ ~Admitting(x) /\ Known(x)
<1>0. MyConn \subseteq Watched
  BY Constants
<1>1. CASE ServeDisconnect(c)
  <2>1. up[c] # <<>> /\ ReceiveDisconnect(c) /\ Consume(c) /\ UNCHANGED OthersOfSidecar
    BY <1>1 DEF ServeDisconnect
  <2>2. SidecarTypeOK' /\ UpOK'
    BY <2>1, ConsumeType
  <2>3. CoordinatorOK' /\ \A x \in Watched : Served(x) /\ Known(x)
    BY <2>1, GoesStep DEF TypesOK
  <2>4. \A x : ~Admitting(x)
    BY <2>1, RemovedNotAdmitted DEF ReceiveDisconnect
  <2> QED BY <1>0, <2>2, <2>3, <2>4 DEF TypesOK
<1>2. CASE MyTransportLost(c)
  <2>1. TransportLost(c) /\ UNCHANGED sidecarVars
    BY <1>2 DEF MyTransportLost
  <2>2. SidecarTypeOK' /\ UpOK'
    BY <2>1 DEF TypesOK, SidecarTypeOK, UpOK, sidecarVars, clientVars,
                dialVars, adapterVars
  <2>3. CoordinatorOK' /\ \A x \in Watched : Served(x) /\ Known(x)
    BY <2>1, GoesStep DEF TypesOK
  <2>4. \A x : ~Admitting(x)
    BY <2>1, RemovedNotAdmitted DEF TransportLost
  <2> QED BY <1>0, <2>2, <2>3, <2>4 DEF TypesOK
<1>3. ASSUME NEW seq \in 1..MaxSeqNo, MyState(seq)
      PROVE  TypesOK' /\ \A x \in MyConn : Served(x) /\ ~Admitting(x) /\ Known(x)
  <2> DEFINE st == [session |-> assigned.session, pid |-> assigned.pid,
                    inc |-> inc, seq |-> seq, inWorld |-> TRUE]
  <2>1. Member(conn) /\ (RelayState(conn, st) \/ IgnoreState(conn, st))
        /\ UNCHANGED sidecarVars
    BY <1>3 DEF MyState
  <2>2. st \in State
    <3>1. assigned.session \in Nat /\ assigned.pid \in Nat /\ inc \in Incarnation
      BY DEF TypesOK, SidecarTypeOK
    <3>2. seq \in 0..(SeqRange - 1)
      BY RelayAssumption, SessionAssumption
    <3> QED BY <3>1, <3>2 DEF State
  <2>3. conn \in Conn
    BY <2>1, MemberTypes DEF TypesOK, CoordinatorOK, Member
  <2> HIDE DEF st
  <2>4. CoordinatorOK' /\ \A x \in Watched : Quiet(x)
    BY <2>1, <2>2, <2>3, StoreStep, IgnoreStep DEF TypesOK
  <2>5. \A x : (Quiet(x) => ~Admitting(x)) /\ Known(x)
    BY <2>1 DEF Quiet, Admitting, Known, RelayState, IgnoreState
  <2>6. SidecarTypeOK' /\ UpOK'
    BY <2>1 DEF TypesOK, SidecarTypeOK, UpOK, sidecarVars, clientVars,
                dialVars, adapterVars
  <2> QED BY <1>0, <2>4, <2>5, <2>6 DEF TypesOK, Served
<1> QED BY <1>1, <1>2, <1>3

-----------------------------------------------------------------------------
(* The sidecar's own steps keep the types.                                 *)

\* The part of the types that is the client's and the batch's.
ClientTypes ==
  /\ net \in NetState
  /\ conn \in MyConn \cup {NoConn}
  /\ assigned \in [session : Nat, pid : Nat]
  /\ events \in Seq(Event)

(* Every client event that a packet makes is one.                          *)
LEMMA EventTypes ==
  /\ \A k \in {"connected", "error", "violation"} : [kind |-> k] \in Event
  /\ \A r \in Reason : /\ [kind |-> "rejected", reason |-> r] \in Event
                       /\ [kind |-> "disconnected", reason |-> r] \in Event
  /\ \A m \in ReliableMsg \cup StateMsg : MessageEvent(m) \in Event
<1>1. \A m \in ReliableMsg \cup StateMsg :
        MessageEvent(m) \in [kind : {"message"}, msg : ReliableMsg \cup StateMsg]
  BY DEF MessageEvent
<1> QED BY <1>1 DEF Event

\* An event more is still a sequence of events.
LEMMA EmitType ==
  ASSUME ClientTypes, NEW e \in Event, Emit(e)
  PROVE  events' \in Seq(Event)
  BY DEF ClientTypes, Emit

\* What the client makes of a packet, whichever channel it came from.
Packet(m) ==
  \/ OnWelcome(m)
  \/ OnDisconnect(m)
  \/ m.type = "closed" /\ OnClosed(m.reason)
  \/ OnGameplay(m)

\* Client::poll takes a packet for a violation (client.cpp).
LEMMA ViolateTypes ==
  ASSUME ClientTypes, Violate
  PROVE  ClientTypes'
<1>1. events' \in Seq(Event)
  BY EventTypes, EmitType DEF Violate
<1> QED BY <1>1 DEF Violate, ClientTypes, NetState

\* The transport closed, for a reason.
LEMMA ClosedTypes ==
  ASSUME ClientTypes, NEW r \in Reason, OnClosed(r)
  PROVE  ClientTypes'
<1>1. events' \in Seq(Event)
  <2>1. CASE net \in {"rejected", "failed"}
    BY <2>1 DEF OnClosed, ClientTypes
  <2>2. CASE net \notin {"rejected", "failed"}
    BY <2>2, EventTypes, EmitType DEF OnClosed
  <2> QED BY <2>1, <2>2
<1>2. net' \in NetState
  BY DEF OnClosed, ClientTypes, NetState
<1> QED BY <1>1, <1>2 DEF OnClosed, ClientTypes

\* Whatever packet comes, the client's variables keep their types.
LEMMA PacketTypes ==
  ASSUME ClientTypes, NEW m \in ReliableMsg \cup StateMsg, Packet(m)
  PROVE  ClientTypes'
<1>1. CASE OnWelcome(m)
  <2>1. CASE net = "connecting"
    <3>1. m.session \in Nat /\ m.pid \in Nat
      BY <1>1 DEF OnWelcome, ReliableMsg, StateMsg
    <3>2. events' \in Seq(Event)
      BY <1>1, <2>1, EventTypes, EmitType DEF OnWelcome
    <3> QED BY <1>1, <2>1, <3>1, <3>2 DEF OnWelcome, ClientTypes, NetState
  <2>2. CASE net # "connecting"
    BY <1>1, <2>2, ViolateTypes DEF OnWelcome
  <2> QED BY <2>1, <2>2
<1>2. CASE OnDisconnect(m)
  <2>1. m.reason \in Reason
    BY <1>2 DEF OnDisconnect, ReliableMsg, StateMsg
  <2>2. events' \in Seq(Event)
    BY <1>2, <2>1, EventTypes, EmitType DEF OnDisconnect
  <2> QED BY <1>2, <2>2 DEF OnDisconnect, ClientTypes, NetState
<1>3. CASE m.type = "closed" /\ OnClosed(m.reason)
  <2>1. m.reason \in Reason
    BY <1>3 DEF ReliableMsg, StateMsg
  <2> QED BY <1>3, <2>1, ClosedTypes
<1>4. CASE OnGameplay(m)
  <2>1. CASE net = "connected"
    <3>1. events' \in Seq(Event)
      BY <1>4, <2>1, EventTypes, EmitType DEF OnGameplay
    <3> QED BY <1>4, <2>1, <3>1 DEF OnGameplay, ClientTypes
  <2>2. CASE net # "connected"
    BY <1>4, <2>2, ViolateTypes DEF OnGameplay
  <2> QED BY <2>1, <2>2
<1> QED BY <1>1, <1>2, <1>3, <1>4 DEF Packet

(* A packet that was read was the first of its queue.                      *)
LEMMA ReadReliable ==
  ASSUME TypesOK, ServiceReliable
  PROVE  /\ conn \in MyConn /\ conn \in Watched /\ rel[conn] # <<>>
         /\ rel[conn] \in Seq(ReliableMsg) /\ Head(rel[conn]) \in ReliableMsg
         /\ Packet(Head(rel[conn]))
         /\ rel' \in [Watched -> Seq(ReliableMsg)]
         /\ rel'[conn] = Tail(rel[conn])
         /\ \A x \in Watched \ {conn} : rel'[x] = rel[x]
         /\ UNCHANGED <<now, session, running, tables, nextSnapshot, unrel,
                        up, dialVars, phase, adapterVars>>
<1>1. conn \in MyConn /\ MyConn \subseteq Watched
  BY Constants DEF TypesOK, SidecarTypeOK, ServiceReliable, Servicing
<1>2. rel \in [Watched -> Seq(ReliableMsg)] /\ rel[conn] # <<>>
      /\ rel' = [rel EXCEPT ![conn] = Tail(@)]
  BY DEF TypesOK, CoordinatorOK, SessionTypeOK, ServiceReliable
<1>3. Head(rel[conn]) \in ReliableMsg /\ Tail(rel[conn]) \in Seq(ReliableMsg)
  BY <1>1, <1>2, TailType
<1>4. Packet(Head(rel[conn]))
  BY DEF ServiceReliable, Packet
<1> QED BY <1>1, <1>2, <1>3, <1>4 DEF ServiceReliable

\* A datagram that was read was the first of its channel.
LEMMA ReadState ==
  ASSUME TypesOK, ServiceState
  PROVE  /\ conn \in MyConn /\ conn \in Watched /\ unrel[conn] # <<>>
         /\ unrel[conn] \in Seq(StateMsg) /\ Head(unrel[conn]) \in StateMsg
         /\ OnGameplay(Head(unrel[conn]))
         /\ unrel' \in [Watched -> Seq(StateMsg)]
         /\ unrel'[conn] = Tail(unrel[conn])
         /\ \A x \in Watched \ {conn} : unrel'[x] = unrel[x]
         /\ UNCHANGED <<now, session, running, tables, nextSnapshot, rel,
                        up, dialVars, phase, adapterVars>>
<1>1. conn \in MyConn /\ MyConn \subseteq Watched
  BY Constants DEF TypesOK, SidecarTypeOK, ServiceState, Servicing
<1>2. unrel \in [Watched -> Seq(StateMsg)] /\ unrel[conn] # <<>>
      /\ unrel' = [unrel EXCEPT ![conn] = Tail(@)]
  BY DEF TypesOK, CoordinatorOK, SessionTypeOK, ServiceState
<1>3. Head(unrel[conn]) \in StateMsg /\ Tail(unrel[conn]) \in Seq(StateMsg)
  BY <1>1, <1>2, TailType
<1> QED BY <1>1, <1>2, <1>3 DEF ServiceState

\* Both channels are read by the client alone.
LEMMA ServiceTypes ==
  ASSUME TypesOK, ServiceReliable \/ ServiceState
  PROVE  TypesOK'
<1>0. ClientTypes /\ \A S : <<>> \in Seq(S) /\ Tail(<<>>) = <<>>
  BY DEF TypesOK, SidecarTypeOK, ClientTypes
<1>1. ClientTypes' /\ CoordinatorOK' /\ UNCHANGED <<up, dialVars, phase, adapterVars>>
  <2>1. CASE ServiceReliable
    <3>1. ClientTypes' /\ UNCHANGED <<up, dialVars, phase, adapterVars>>
      BY <1>0, <2>1, ReadReliable, PacketTypes
    <3>2. \A x \in Watched : rel[x] = <<>> => rel'[x] = <<>>
      BY <2>1, ReadReliable
    <3>3. unrel' = unrel /\ unrel \in [Watched -> Seq(StateMsg)]
      BY <2>1, ReadReliable DEF TypesOK, CoordinatorOK, SessionTypeOK
    <3>4. CoordinatorOK
      BY DEF TypesOK
    <3>5. CoordinatorOK'
      BY <3>4, <2>1, <3>2, <3>3, ReadReliable, QueuesStep DEF tables
    <3> QED BY <3>1, <3>5
  <2>2. CASE ServiceState
    <3>1. ClientTypes' /\ UNCHANGED <<up, dialVars, phase, adapterVars>>
      <4>1. Packet(Head(unrel[conn]))
        BY <2>2, ReadState DEF Packet
      <4> QED BY <1>0, <2>2, <4>1, ReadState, PacketTypes
    <3>2. \A x \in Watched : unrel[x] = <<>> => unrel'[x] = <<>>
      BY <2>2, ReadState
    <3>3. rel' = rel /\ rel \in [Watched -> Seq(ReliableMsg)]
      BY <2>2, ReadState DEF TypesOK, CoordinatorOK, SessionTypeOK
    <3>4. CoordinatorOK
      BY DEF TypesOK
    <3>5. CoordinatorOK'
      BY <3>4, <2>2, <3>2, <3>3, ReadState, QueuesStep DEF tables
    <3> QED BY <3>1, <3>5
  <2> QED BY <2>1, <2>2
<1>2. SidecarTypeOK' /\ UpOK'
  BY <1>1 DEF TypesOK, SidecarTypeOK, UpOK, ClientTypes, dialVars, adapterVars
<1> QED BY <1>1, <1>2 DEF TypesOK

-----------------------------------------------------------------------------
(* The roster of the adapter and the actors of the game.                   *)

\* No more remotes than there are actors.
RemotesOK ==
  /\ DOMAIN remotes \subseteq Nat
  /\ remotes \in [DOMAIN remotes -> Remote]
  /\ actors \subseteq Nat \X Incarnation
  /\ IsFiniteSet(DOMAIN remotes)
  /\ Cardinality(DOMAIN remotes) <= MaxRemotes

\* The actors are those of the roster's spawned peers.
Matched == actors = {Actor(pid) : pid \in Spawned}

\* An actor is named by a player id and an incarnation.
LEMMA ActorTypes ==
  ASSUME RemotesOK
  PROVE  \A pid \in DOMAIN remotes :
           /\ pid \in Nat /\ remotes[pid] \in Remote
           /\ Actor(pid) \in Nat \X Incarnation
  BY DEF RemotesOK, Actor, Remote

\* A part of the roster is no larger.
LEMMA FewerRemotes ==
  ASSUME RemotesOK, NEW S \in SUBSET DOMAIN remotes
  PROVE  IsFiniteSet(S) /\ Cardinality(S) <= MaxRemotes
<1>1. IsFiniteSet(S) /\ Cardinality(S) <= Cardinality(DOMAIN remotes)
  BY FS_Subset DEF RemotesOK
<1>2. Cardinality(S) \in Nat /\ Cardinality(DOMAIN remotes) \in Nat /\ MaxRemotes \in Nat
  BY <1>1, FS_CardinalityType, SidecarAssumption DEF RemotesOK
<1> QED BY <1>1, <1>2 DEF RemotesOK

\* Peers dropped from the roster lose their actors with it.
LEMMA DropKeeps ==
  ASSUME RemotesOK, NEW gone, Drop(gone)
  PROVE  RemotesOK' /\ (Matched => Matched')
<1>1. /\ DOMAIN remotes' = DOMAIN remotes \ gone
      /\ \A pid \in DOMAIN remotes' : remotes'[pid] = remotes[pid]
      /\ remotes' = [pid \in DOMAIN remotes' |-> remotes'[pid]]
      /\ actors' = actors \ {Actor(pid) : pid \in Spawned \cap gone}
  BY DEF Drop, Restrict
<1>2. IsFiniteSet(DOMAIN remotes') /\ Cardinality(DOMAIN remotes') <= MaxRemotes
  BY <1>1, FewerRemotes
<1>3. RemotesOK'
  <2>1. \A pid \in DOMAIN remotes' : remotes'[pid] \in Remote /\ pid \in Nat
    BY <1>1, ActorTypes
  <2>2. actors' \subseteq Nat \X Incarnation
    BY <1>1 DEF RemotesOK
  <2> QED BY <1>1, <1>2, <2>1, <2>2 DEF RemotesOK
<1>4. ASSUME Matched PROVE Matched'
  <2>1. Spawned' = Spawned \ gone
    BY <1>1 DEF Spawned
  <2>2. \A pid \in Spawned' : Actor(pid)' = Actor(pid)
    BY <1>1 DEF Spawned, Actor
  <2>3. \A p, q : Actor(p) = Actor(q) => p = q
    BY DEF Actor
  <2>4. actors = {Actor(pid) : pid \in Spawned}
    BY <1>4 DEF Matched
  <2>5. actors' = {Actor(pid) : pid \in Spawned \ gone}
    BY <1>1, <2>3, <2>4
  <2>6. {Actor(pid)' : pid \in Spawned'} = {Actor(pid) : pid \in Spawned \ gone}
    BY <2>1, <2>2
  <2> QED BY <2>5, <2>6 DEF Matched
<1> QED BY <1>3, <1>4

(* The peers of S are updated in place; those of `lost` lose their actor   *)
(* and those of `won` get one.                                             *)
LEMMA UpdateKeeps ==
  ASSUME RemotesOK, NEW f, remotes' = [pid \in DOMAIN remotes |-> f[pid]],
         \A pid \in DOMAIN remotes : /\ f[pid] \in Remote
                                     /\ f[pid].inc = remotes[pid].inc,
         NEW lost, NEW won,
         lost \subseteq Spawned, won \subseteq DOMAIN remotes,
         \A pid \in DOMAIN remotes :
           f[pid].spawned <=> (remotes[pid].spawned /\ pid \notin lost) \/ pid \in won,
         lost \cap won = {},
         actors' = (actors \ {Actor(pid) : pid \in lost})
                     \cup {Actor(pid) : pid \in won}
  PROVE  RemotesOK' /\ (Matched => Matched')
<1>1. /\ DOMAIN remotes' = DOMAIN remotes
      /\ \A pid \in DOMAIN remotes : remotes'[pid] = f[pid]
      /\ remotes' = [pid \in DOMAIN remotes' |-> remotes'[pid]]
  OBVIOUS
<1>2. RemotesOK'
  <2>1. \A pid \in DOMAIN remotes' : remotes'[pid] \in Remote
    BY <1>1
  <2>2. actors' \subseteq Nat \X Incarnation
    BY ActorTypes DEF RemotesOK
  <2> QED BY <1>1, <2>1, <2>2 DEF RemotesOK
<1>3. ASSUME Matched PROVE Matched'
  <2>1. Spawned' = (Spawned \ lost) \cup won
    BY <1>1 DEF Spawned
  <2>2. \A pid \in DOMAIN remotes : Actor(pid)' = Actor(pid)
    BY <1>1 DEF Actor
  <2>3. \A p, q : Actor(p) = Actor(q) => p = q
    BY DEF Actor
  <2>4. actors = {Actor(pid) : pid \in Spawned}
    BY <1>3 DEF Matched
  <2>5. actors' = {Actor(pid) : pid \in (Spawned \ lost) \cup won}
    BY <2>3, <2>4
  <2>6. (Spawned \ lost) \cup won \subseteq DOMAIN remotes
    BY DEF Spawned
  <2>7. {Actor(pid)' : pid \in Spawned'} = {Actor(pid) : pid \in (Spawned \ lost) \cup won}
    BY <2>1, <2>2, <2>6
  <2> QED BY <2>5, <2>7 DEF Matched
<1> QED BY <1>2, <1>3

\* A message in the batch is a packet of either channel.
LEMMA MessageTypes ==
  ASSUME ClientTypes, Handling("message")
  PROVE  /\ Message \in ReliableMsg \cup StateMsg
         /\ Message.type = "joined" => Message.peer \in Identity
         /\ Message.type \in {"state", "snapshot"} => Message.players \in SUBSET State
<1>1. Head(events) \in Event /\ Head(events).kind = "message"
  BY TailType DEF ClientTypes, Handling
<1>2. Message \in ReliableMsg \cup StateMsg
  BY <1>1 DEF Event, Message
<1> QED BY <1>2 DEF ReliableMsg, StateMsg

\* The newest state of a peer is a state.
LEMMA NewestTypes ==
  ASSUME NEW r \in Remote, NEW st \in State
  PROVE  /\ Newest(r, st) \in Remote
         /\ Newest(r, st).inc = r.inc /\ Newest(r, st).name = r.name
         /\ r.spawned => Newest(r, st).spawned
<1>1. CASE Newest(r, st) = r
  BY <1>1
<1>2. CASE Newest(r, st) # r
  <2>1. /\ st.seq \in Nat /\ st.inWorld \in BOOLEAN
        /\ r.spawned \in BOOLEAN /\ r.hidden \in BOOLEAN
        /\ r.inc \in Incarnation /\ r.name \in Name
        /\ r = [inc |-> r.inc, name |-> r.name, last |-> r.last,
                spawned |-> r.spawned, hidden |-> r.hidden]
    BY DEF State, Remote
  <2>2. Newest(r, st) = [r EXCEPT !.last = st.seq,
                           !.spawned = @ \/ st.inWorld,
                           !.hidden = ~st.inWorld /\ (@ \/ r.spawned)]
    BY <1>2 DEF Newest
  <2>3. Newest(r, st) = [inc |-> r.inc, name |-> r.name, last |-> st.seq,
                         spawned |-> r.spawned \/ st.inWorld,
                         hidden |-> ~st.inWorld /\ (r.hidden \/ r.spawned)]
    BY <2>1, <2>2
  <2>4. /\ (r.spawned \/ st.inWorld) \in BOOLEAN
        /\ (~st.inWorld /\ (r.hidden \/ r.spawned)) \in BOOLEAN
    BY <2>1
  <2>5. Newest(r, st) \in Remote
    BY <2>1, <2>3, <2>4 DEF Remote
  <2>6. Newest(r, st).inc = r.inc /\ Newest(r, st).name = r.name
    BY <2>3
  <2>7. Newest(r, st).spawned = (r.spawned \/ st.inWorld)
    BY <2>3
  <2>8. r.spawned => Newest(r, st).spawned
    BY <2>7, Zenon
  <2> QED BY <2>5, <2>6, <2>8
<1> QED BY <1>1, <1>2

\* States spawn and hide actors as they enter or leave the world
\* (network_adapter.cpp:544-625).
LEMMA StatesKeep ==
  ASSUME RemotesOK, ClientTypes, HandleStates
  PROVE  RemotesOK' /\ (Matched => Matched') /\ View' = View
<1> DEFINE about(pid) == {st \in Message.players : st.pid = pid}
           new(pid) == IF about(pid) = {} THEN remotes[pid]
                       ELSE Newest(remotes[pid], CHOOSE st \in about(pid) : TRUE)
           f == [pid \in DOMAIN remotes |-> new(pid)]
           won == {q \in DOMAIN remotes : f[q].spawned /\ ~remotes[q].spawned}
<1>1. PICK type \in {"state", "snapshot"} : HandleFine(type)
  BY DEF HandleStates
<1>2. Message.players \in SUBSET State
  BY <1>1, MessageTypes DEF HandleFine
<1>3. \A pid \in DOMAIN remotes :
        /\ f[pid] = new(pid)
        /\ f[pid] \in Remote /\ f[pid].inc = remotes[pid].inc
        /\ f[pid].name = remotes[pid].name
        /\ remotes[pid].spawned => f[pid].spawned
  <2> TAKE pid \in DOMAIN remotes
  <2>1. remotes[pid] \in Remote
    BY ActorTypes
  <2>2. CASE about(pid) = {}
    BY <2>1, <2>2
  <2>3. CASE about(pid) # {}
    <3>1. (CHOOSE st \in about(pid) : TRUE) \in State
      BY <1>2, <2>3
    <3> QED BY <2>1, <2>3, <3>1, NewestTypes
  <2> QED BY <2>2, <2>3
<1>4. remotes' = f
  BY DEF HandleStates
<1>5. actors' = actors \cup {Actor(pid) : pid \in won}
  <2>1. \A q \in DOMAIN remotes : remotes'[q] = f[q]
    BY <1>4
  <2>2. actors' = actors \cup
          {<<pid, remotes[pid].inc>> : pid \in {q \in DOMAIN remotes :
             remotes'[q].spawned /\ ~remotes[q].spawned}}
    BY DEF HandleStates
  <2> QED BY <2>1, <2>2 DEF Actor
<1>f. f = [pid \in DOMAIN remotes |-> f[pid]]
  OBVIOUS
<1> HIDE DEF f
<1>6. actors' = (actors \ {Actor(pid) : pid \in {}}) \cup {Actor(pid) : pid \in won}
  BY <1>5
<1>7. \A pid \in DOMAIN remotes :
        f[pid].spawned <=> (remotes[pid].spawned /\ pid \notin {}) \/ pid \in won
  <2> TAKE pid \in DOMAIN remotes
  <2>1. f[pid].spawned \in BOOLEAN /\ remotes[pid].spawned \in BOOLEAN
    BY <1>3, ActorTypes DEF Remote
  <2> QED BY <2>1, <1>3
<1> DEFINE none == {}
<1>8. none \subseteq Spawned /\ won \subseteq DOMAIN remotes /\ none \cap won = {}
  OBVIOUS
<1>9. remotes' = [pid \in DOMAIN remotes |-> f[pid]]
  BY <1>4, <1>f
<1>10. \A pid \in DOMAIN remotes : f[pid] \in Remote /\ f[pid].inc = remotes[pid].inc
  BY <1>3
<1> HIDE DEF won
<1>11. RemotesOK' /\ (Matched => Matched')
  BY <1>6, <1>7, <1>8, <1>9, <1>10, UpdateKeeps
<1>12. View' = View
  <2>1. DOMAIN remotes' = DOMAIN remotes
        /\ \A pid \in DOMAIN remotes : remotes'[pid].inc = remotes[pid].inc
                                       /\ remotes'[pid].name = remotes[pid].name
    BY <1>3, <1>9
  <2> QED BY <2>1 DEF View
<1> QED BY <1>11, <1>12

\* Silent peers lose their actors: hidden first, then forgotten.
LEMMA LivenessKeeps ==
  ASSUME RemotesOK, NEW gone, NEW quiet, UpdateLiveness(gone, quiet)
  PROVE  RemotesOK' /\ (Matched => Matched') /\ View' = View
<1> DEFINE new(pid) ==
             IF pid \in gone
             THEN [remotes[pid] EXCEPT !.last = NoSeq, !.spawned = FALSE,
                                       !.hidden = FALSE]
             ELSE IF pid \in quiet /\ remotes[pid].spawned
             THEN [remotes[pid] EXCEPT !.hidden = TRUE]
             ELSE remotes[pid]
           f == [pid \in DOMAIN remotes |-> new(pid)]
           lost == Spawned \cap gone
           none == {}
<1>3. \A pid \in DOMAIN remotes :
        /\ f[pid] = new(pid)
        /\ f[pid] \in Remote /\ f[pid].inc = remotes[pid].inc
        /\ f[pid].name = remotes[pid].name
        /\ f[pid].spawned <=> remotes[pid].spawned /\ pid \notin lost
  <2> TAKE pid \in DOMAIN remotes
  <2> DEFINE r == remotes[pid]
  <2>1. /\ r \in Remote /\ r.spawned \in BOOLEAN
        /\ r = [inc |-> r.inc, name |-> r.name, last |-> r.last,
                spawned |-> r.spawned, hidden |-> r.hidden]
        /\ r.inc \in Incarnation /\ r.name \in Name /\ r.last \in Nat \cup {NoSeq}
    BY ActorTypes DEF Remote
  <2>2. CASE pid \in gone
    <3>1. new(pid) = [inc |-> r.inc, name |-> r.name, last |-> NoSeq,
                      spawned |-> FALSE, hidden |-> FALSE]
      BY <2>1, <2>2
    <3>2. pid \in lost <=> r.spawned
      BY <2>2 DEF Spawned
    <3> QED BY <2>1, <3>1, <3>2 DEF Remote
  <2>3. CASE pid \notin gone
    <3>1. pid \notin lost
      BY <2>3
    <3>2. CASE pid \in quiet /\ r.spawned
      <4>1. new(pid) = [inc |-> r.inc, name |-> r.name, last |-> r.last,
                        spawned |-> r.spawned, hidden |-> TRUE]
        BY <2>1, <2>3, <3>2
      <4> QED BY <2>1, <3>1, <4>1 DEF Remote
    <3>3. CASE ~(pid \in quiet /\ r.spawned)
      BY <2>1, <2>3, <3>1, <3>3
    <3> QED BY <3>2, <3>3
  <2> QED BY <2>2, <2>3
<1>4. remotes' = f /\ actors' = actors \ {Actor(pid) : pid \in lost}
  BY DEF UpdateLiveness
<1>f. f = [pid \in DOMAIN remotes |-> f[pid]]
  OBVIOUS
<1> HIDE DEF f
<1>6. actors' = (actors \ {Actor(pid) : pid \in lost}) \cup {Actor(pid) : pid \in none}
  BY <1>4
<1>8. lost \subseteq Spawned /\ none \subseteq DOMAIN remotes /\ lost \cap none = {}
  OBVIOUS
<1>9. remotes' = [pid \in DOMAIN remotes |-> f[pid]]
  BY <1>4, <1>f
<1>10. \A pid \in DOMAIN remotes : f[pid] \in Remote /\ f[pid].inc = remotes[pid].inc
  BY <1>3
<1>7. \A pid \in DOMAIN remotes :
        f[pid].spawned <=> (remotes[pid].spawned /\ pid \notin lost) \/ pid \in none
  BY <1>3
<1> HIDE DEF lost
<1>11. RemotesOK' /\ (Matched => Matched')
  BY <1>6, <1>7, <1>8, <1>9, <1>10, UpdateKeeps
<1>12. View' = View
  <2>1. DOMAIN remotes' = DOMAIN remotes
        /\ \A pid \in DOMAIN remotes : remotes'[pid].inc = remotes[pid].inc
                                       /\ remotes'[pid].name = remotes[pid].name
    BY <1>3, <1>9
  <2> QED BY <2>1 DEF View
<1> QED BY <1>11, <1>12

(* The adapter applies a membership message to its roster as the feed does. *)
LEMMA JoinedKeeps ==
  ASSUME RemotesOK, ClientTypes, HandleJoined
  PROVE  RemotesOK' /\ (Matched => Matched') /\ View' = After(View, Message)
<1> DEFINE p == Message.peer
           newcomer == [inc |-> p.inc, name |-> p.name, last |-> NoSeq,
                        spawned |-> FALSE, hidden |-> FALSE]
           V == {q \in View : q.pid # p.pid} \cup {p}
<1>1. HandleFine("joined")
  BY DEF HandleJoined
<1>2. Message.type = "joined" /\ p \in Identity
  BY <1>1, MessageTypes DEF HandleFine
<1>3. /\ p.pid \in Nat /\ p.inc \in Incarnation /\ p.name \in Name
      /\ p = [pid |-> p.pid, inc |-> p.inc, name |-> p.name]
  BY <1>2 DEF Identity
<1>4. JoinedObjection(p) = "none"
  BY <1>1, <1>2 DEF HandleFine, Objection
<1>5. After(View, Message) = V
  BY <1>2 DEF After
<1>6. CASE p.pid \in DOMAIN remotes /\ remotes[p.pid].inc = p.inc
  <2>1. UNCHANGED <<remotes, actors>>
    BY <1>6 DEF HandleJoined
  <2>2. remotes[p.pid].name = p.name
    BY <1>4, <1>6 DEF JoinedObjection
  <2>3. p \in View
    BY <1>3, <1>6, <2>2 DEF View
  <2>4. \A q \in View : q.pid = p.pid => q = p
    BY <1>3, <1>6, <2>2 DEF View
  <2>5. V = View
    BY <2>3, <2>4
  <2> QED BY <1>5, <2>1, <2>5 DEF RemotesOK, Matched, Spawned, Actor, View
<1>7. CASE ~(p.pid \in DOMAIN remotes /\ remotes[p.pid].inc = p.inc)
  <2>1. /\ remotes' = [pid \in DOMAIN remotes \cup {p.pid} |->
                         IF pid = p.pid THEN newcomer ELSE remotes[pid]]
        /\ actors' = actors \ {Actor(pid) : pid \in Spawned \cap {p.pid}}
    BY <1>7 DEF HandleJoined
  <2>2. /\ DOMAIN remotes' = DOMAIN remotes \cup {p.pid}
        /\ remotes'[p.pid] = newcomer
        /\ \A pid \in DOMAIN remotes \ {p.pid} : remotes'[pid] = remotes[pid]
        /\ remotes' = [pid \in DOMAIN remotes' |-> remotes'[pid]]
    BY <2>1
  <2>3. newcomer \in Remote /\ ~newcomer.spawned
    BY <1>3 DEF Remote
  <2>4. IsFiniteSet(DOMAIN remotes') /\ Cardinality(DOMAIN remotes') <= MaxRemotes
    <3>0. IsFiniteSet(DOMAIN remotes) /\ Cardinality(DOMAIN remotes) <= MaxRemotes
          /\ Cardinality(DOMAIN remotes) \in Nat /\ MaxRemotes \in Nat
      BY FS_CardinalityType, SidecarAssumption DEF RemotesOK
    <3>1. CASE p.pid \in DOMAIN remotes
      BY <3>0, <3>1, <2>2
    <3>2. CASE p.pid \notin DOMAIN remotes
      <4>1. ~NoRoomFor(p.pid)
        BY <1>4 DEF JoinedObjection
      <4>2. Cardinality(DOMAIN remotes) < MaxRemotes
        BY <3>0, <3>2, <4>1 DEF NoRoomFor
      <4>3. Cardinality(DOMAIN remotes') = Cardinality(DOMAIN remotes) + 1
            /\ IsFiniteSet(DOMAIN remotes')
        BY <3>0, <3>2, <2>2, FS_AddElement
      <4> QED BY <3>0, <4>2, <4>3
    <3> QED BY <3>1, <3>2
  <2>5. RemotesOK'
    <3>1. \A pid \in DOMAIN remotes' : remotes'[pid] \in Remote /\ pid \in Nat
      BY <1>3, <2>2, <2>3, ActorTypes
    <3>2. actors' \subseteq Nat \X Incarnation
      BY <2>1 DEF RemotesOK
    <3> QED BY <2>2, <2>4, <3>1, <3>2 DEF RemotesOK
  <2>6. ASSUME Matched PROVE Matched'
    <3>1. Spawned' = Spawned \ {p.pid}
      BY <2>2, <2>3 DEF Spawned
    <3>2. \A pid \in Spawned' : Actor(pid)' = Actor(pid)
      BY <2>2, <3>1 DEF Spawned, Actor
    <3>3. \A q, r : Actor(q) = Actor(r) => q = r
      BY DEF Actor
    <3>4. actors = {Actor(pid) : pid \in Spawned}
      BY <2>6 DEF Matched
    <3>5. actors' = {Actor(pid) : pid \in Spawned \ {p.pid}}
      BY <2>1, <3>3, <3>4
    <3>6. {Actor(pid)' : pid \in Spawned'} = {Actor(pid) : pid \in Spawned \ {p.pid}}
      BY <3>1, <3>2
    <3> QED BY <3>5, <3>6 DEF Matched
  <2>7. View' = V
    <3> DEFINE card(pid) == [pid |-> pid, inc |-> remotes[pid].inc,
                             name |-> remotes[pid].name]
               anew(pid) == [pid |-> pid, inc |-> remotes'[pid].inc,
                             name |-> remotes'[pid].name]
    <3>0. View = {card(pid) : pid \in DOMAIN remotes}
      BY DEF View
    <3>1. View' = {anew(pid) : pid \in DOMAIN remotes'}
      BY DEF View
    <3>2. \A pid \in DOMAIN remotes \ {p.pid} : anew(pid) = card(pid)
      BY <2>2
    <3>3. anew(p.pid) = p
      BY <1>3, <2>2
    <3>4. \A pid : card(pid).pid = pid
      OBVIOUS
    <3> HIDE DEF card, anew
    <3>5. {q \in View : q.pid # p.pid} = {card(pid) : pid \in DOMAIN remotes \ {p.pid}}
      BY <3>0, <3>4
    <3>6. View' = {card(pid) : pid \in DOMAIN remotes \ {p.pid}} \cup {p}
      BY <3>1, <3>2, <3>3, <2>2
    <3> QED BY <3>5, <3>6
  <2> QED BY <1>5, <2>5, <2>6, <2>7
<1> QED BY <1>6, <1>7

\* A peer that left takes its actor along.
LEMMA LeftKeeps ==
  ASSUME RemotesOK, ClientTypes, HandleLeft
  PROVE  RemotesOK' /\ (Matched => Matched') /\ View' = After(View, Message)
<1> DEFINE gone == {pid \in DOMAIN remotes :
                      pid = Message.pid /\ remotes[pid].inc = Message.inc}
<1>1. Drop(gone) /\ HandleFine("left")
  BY DEF HandleLeft
<1>2. RemotesOK' /\ (Matched => Matched')
  BY <1>1, DropKeeps
<1>3. After(View, Message) = {p \in View : p.pid # Message.pid \/ p.inc # Message.inc}
  BY <1>1 DEF HandleFine, After
<1>4. /\ DOMAIN remotes' = DOMAIN remotes \ gone
      /\ \A pid \in DOMAIN remotes' : remotes'[pid] = remotes[pid]
  BY <1>1 DEF Drop, Restrict
<1>5. View' = After(View, Message)
  <2> DEFINE card(pid) == [pid |-> pid, inc |-> remotes[pid].inc,
                           name |-> remotes[pid].name]
  <2>0. View = {card(pid) : pid \in DOMAIN remotes}
    BY DEF View
  <2>1. View' = {card(pid)' : pid \in DOMAIN remotes'}
    BY DEF View
  <2>2. \A pid \in DOMAIN remotes' : card(pid)' = card(pid)
    BY <1>4
  <2>3. \A pid : card(pid).pid = pid /\ card(pid).inc = remotes[pid].inc
    OBVIOUS
  <2> HIDE DEF card
  <2>4. {p \in View : p.pid # Message.pid \/ p.inc # Message.inc}
          = {card(pid) : pid \in DOMAIN remotes \ gone}
    BY <2>0, <2>3
  <2>5. View' = {card(pid) : pid \in DOMAIN remotes \ gone}
    BY <2>1, <2>2, <1>4
  <2> QED BY <2>4, <2>5, <1>3
<1> QED BY <1>2, <1>5

(* The adapter starts from an empty roster.                                *)
LEMMA NewEpochKeeps ==
  ASSUME RemotesOK, NewEpoch
  PROVE  RemotesOK' /\ (Matched => Matched') /\ View' = {}
<1>1. RemotesOK' /\ (Matched => Matched')
  BY DropKeeps DEF NewEpoch
<1>2. DOMAIN remotes' = {}
  BY DEF NewEpoch, Drop, Restrict
<1> QED BY <1>1, <1>2 DEF View

\* No peers, no actors.
LEMMA EmptyRoster ==
  ASSUME remotes' = Restrict(remotes, {}), actors' = {}
  PROVE  RemotesOK' /\ Matched' /\ View' = {}
<1>1. /\ DOMAIN remotes' = {}
      /\ remotes' \in [{} -> Remote]
  BY DEF Restrict
<1>2. IsFiniteSet({}) /\ Cardinality({}) = 0 /\ MaxRemotes \in Nat
  BY FS_EmptySet, SidecarAssumption
<1>3. RemotesOK'
  BY <1>1, <1>2 DEF RemotesOK
<1> QED BY <1>1, <1>3 DEF Matched, Spawned, View

-----------------------------------------------------------------------------
(* The steps of the sidecar's thread.                                      *)

\* The types, a roster within its bound, and the actors that match it while the
\* pipe is up.
SideOK == TypesOK /\ RemotesOK /\ (pipe = "live" => Matched)

\* The parts of SideOK, at hand.
LEMMA SideTypes ==
  ASSUME SideOK
  PROVE  /\ CoordinatorOK /\ SidecarTypeOK /\ UpOK /\ ClientTypes /\ RemotesOK
         /\ conn \in MyConn \cup {NoConn} /\ events \in Seq(Event)
         /\ assigned \in [session : Nat, pid : Nat]
  BY DEF SideOK, TypesOK, SidecarTypeOK, ClientTypes

(* The coordinator stays as it is, the rest is typed: enough for SideOK.   *)
LEMMA SideKept ==
  ASSUME SideOK, UNCHANGED sessionVars, UpOK', ClientTypes', RemotesOK',
         pipe' = "live" => Matched',
         inc' \in Incarnation, greeted' \in BOOLEAN,
         phase' \in {"idle", "service", "handle"}, ready' \in BOOLEAN,
         sessionId' \in Nat, ever' \in BOOLEAN, terminal' \in BOOLEAN,
         pipe' \in {"live", "safe", "closed"}
  PROVE  SideOK'
<1>1. CoordinatorOK'
  BY SameCoordinator DEF SideOK, TypesOK
<1>2. SidecarTypeOK'
  BY DEF SidecarTypeOK, UpOK, ClientTypes, RemotesOK
<1> QED BY <1>1, <1>2 DEF SideOK, TypesOK

\* A step that leaves roster and actors alone keeps them matched.
LEMMA SameRemotes ==
  ASSUME SideOK, UNCHANGED <<remotes, actors>>
  PROVE  RemotesOK' /\ (Matched <=> Matched') /\ View' = View
  BY DEF SideOK, RemotesOK, Matched, Spawned, Actor, View

\* The rest of a batch is a batch.
LEMMA HandledType ==
  ASSUME ClientTypes, NEW kind, Handling(kind), Handled
  PROVE  events' \in Seq(Event) /\ events # <<>> /\ phase' = phase
         /\ Head(events) \in Event /\ Head(events).kind = kind
  BY TailType DEF ClientTypes, Handling, Handled

\* The sidecar gives up: its pipe is closed.
LEMMA GiveUpStep ==
  ASSUME SideOK, NEW why, GiveUp(why)
  PROVE  SideOK' /\ View' = {} /\ conn' = NoConn /\ net' = "none" /\ events' = <<>>
<1>1. RemotesOK' /\ Matched' /\ View' = {}
  BY EmptyRoster DEF GiveUp
<1>2. UpOK'
  <2>1. UpOK /\ NoConn \notin MyConn /\ conn \in MyConn \cup {NoConn}
    BY SideTypes, Constants
  <2>2. CASE net = "connected"
    <3>1. up' = [up EXCEPT ![conn] = Append(@, [type |-> "disconnect"])]
      BY <2>2 DEF GiveUp
    <3>2. [type |-> "disconnect"] \in UpMsg
      BY DEF UpMsg
    <3>3. CASE conn \in MyConn
      <4>1. Append(up[conn], [type |-> "disconnect"]) \in Seq(UpMsg)
        BY <2>1, <3>2, <3>3 DEF UpOK
      <4> QED BY <2>1, <3>1, <4>1 DEF UpOK
    <3>4. CASE conn = NoConn
      BY <2>1, <3>1, <3>4 DEF UpOK
    <3> QED BY <2>1, <3>3, <3>4
  <2>3. CASE net # "connected"
    BY <2>1, <2>3 DEF GiveUp, UpOK
  <2> QED BY <2>2, <2>3
<1>3. ClientTypes'
  BY DEF GiveUp, ResetClient, ClientTypes, NetState
<1>4. SideOK'
  BY <1>1, <1>2, <1>3, SideTypes, SideKept DEF GiveUp, dialVars, SidecarTypeOK
<1> QED BY <1>1, <1>4 DEF GiveUp, ResetClient

\* A new transport has nothing queued.
LEMMA DialStep ==
  ASSUME SideOK, NEW c \in MyConn, NEW i \in Incarnation, ConnectNew(c, i)
  PROVE  SideOK' /\ View' = View
<1>1. RemotesOK' /\ (Matched <=> Matched') /\ View' = View
  BY SameRemotes DEF ConnectNew, adapterVars
<1>2. UpOK' /\ ClientTypes'
  BY SideTypes DEF ConnectNew, UpOK, ClientTypes, NetState
<1>3. SideOK'
  BY <1>1, <1>2, SideTypes, SideKept DEF SideOK, ConnectNew, adapterVars, SidecarTypeOK
<1> QED BY <1>1, <1>3

\* The hello is queued when the transport is up.
LEMMA ShakeStep ==
  ASSUME SideOK, Shake
  PROVE  SideOK' /\ View' = View
<1>1. PICK flaw \in MyFlaws : Handshake(flaw)
  BY DEF Shake
<1>2. conn \in MyConn /\ conn \in Conn /\ Connect(conn)
  BY <1>1, SideTypes, Constants DEF Handshake
<1>3. CoordinatorOK'
  BY <1>2, SideTypes, ConnectStep
<1>4. RemotesOK' /\ (Matched <=> Matched') /\ View' = View
  BY <1>1, SameRemotes DEF Handshake, adapterVars
<1>5. UpOK'
  <2> DEFINE h == [type |-> "hello",
                   hello |-> [name |-> MyName, inc |-> inc, flaw |-> flaw]]
  <2>1. flaw \in Flaw /\ MyName \in Name /\ inc \in Incarnation
    BY SidecarAssumption, SideTypes DEF SidecarTypeOK
  <2>2. h \in UpMsg
    BY <2>1 DEF UpMsg, Hello
  <2>3. <<h>> \in Seq(UpMsg)
    BY <2>2
  <2>4. up' = [up EXCEPT ![conn] = <<h>>]
    BY <1>1 DEF Handshake
  <2> QED BY <2>3, <2>4, SideTypes DEF UpOK
<1>6. SidecarTypeOK'
  BY <1>1, <1>5, SideTypes DEF SidecarTypeOK, UpOK, Handshake, adapterVars
<1> QED BY <1>3, <1>4, <1>5, <1>6, <1>1 DEF SideOK, TypesOK, Handshake, adapterVars

\* A poll reads, gives the transport up, or ends its batch.
LEMMA PollSteps ==
  ASSUME SideOK, Poll
  PROVE  SideOK' /\ View' = View
<1>1. UNCHANGED <<remotes, actors, ready, sessionId, ever, terminal, pipe, fault>>
  BY DEF Poll, PollBegin, ServiceReliable, ServiceState, Abandoned, ServiceLost,
         ServiceFailed, PollEnd, ConnectTimeout, adapterVars
<1>2. RemotesOK' /\ (Matched <=> Matched') /\ View' = View
  BY <1>1, SameRemotes
<1>3. CASE ServiceReliable \/ ServiceState
  BY <1>1, <1>2, <1>3, ServiceTypes DEF SideOK
<1>4. CASE PollBegin \/ PollEnd
  <2>1. UpOK' /\ ClientTypes'
    BY <1>4, SideTypes DEF PollBegin, PollEnd, UpOK, ClientTypes, clientVars
  <2> QED BY <1>1, <1>2, <1>4, <2>1, SideTypes, SideKept
       DEF SideOK, PollBegin, PollEnd, clientVars, dialVars, SidecarTypeOK
<1>5. CASE ServiceLost
  <2>1. ClientTypes'
    BY <1>5, SideTypes, ClosedTypes DEF ServiceLost, Reason
  <2>2. UpOK'
    BY <1>5, SideTypes DEF ServiceLost, UpOK
  <2> QED BY <1>1, <1>2, <1>5, <2>1, <2>2, SideTypes, SideKept
       DEF SideOK, ServiceLost, dialVars, SidecarTypeOK
<1>6. CASE ServiceFailed \/ ConnectTimeout
  <2>1. events' \in Seq(Event)
    BY <1>6, SideTypes, EventTypes, EmitType DEF ServiceFailed, ConnectTimeout
  <2>2. ClientTypes'
    BY <1>6, <2>1, SideTypes DEF ServiceFailed, ConnectTimeout, ClientTypes, NetState
  <2>3. UpOK'
    BY <1>6, SideTypes DEF ServiceFailed, ConnectTimeout, UpOK
  <2> QED BY <1>1, <1>2, <1>6, <2>2, <2>3, SideTypes, SideKept
       DEF SideOK, ServiceFailed, ConnectTimeout, dialVars, SidecarTypeOK
<1> QED BY <1>2, <1>3, <1>4, <1>5, <1>6 DEF Poll, Abandoned

\* A client that is reset is idle and has nobody.
LEMMA ResetTypes ==
  ASSUME ResetClient, events' \in Seq(Event)
  PROVE  ClientTypes'
  BY DEF ResetClient, ClientTypes, NetState

\* handle_event, the welcome: a new epoch with an empty roster.
LEMMA HandleConnectedStep ==
  ASSUME SideOK, HandleConnected
  PROVE  SideOK' /\ View' = {}
<1>1. RemotesOK' /\ (Matched => Matched') /\ View' = {}
  BY SideTypes, NewEpochKeeps DEF HandleConnected
<1>2. events' \in Seq(Event) /\ phase' = phase
  BY SideTypes, HandledType DEF HandleConnected
<1>3. UpOK' /\ ClientTypes'
  BY <1>2, SideTypes DEF HandleConnected, clientVars, UpOK, ClientTypes
<1>4. sessionId' \in Nat
  BY SideTypes DEF HandleConnected
<1> QED BY <1>1, <1>2, <1>3, <1>4, SideTypes, SideKept
     DEF SideOK, HandleConnected, clientVars, dialVars, SidecarTypeOK

(* The client's end: no peer comes or goes.                                *)
LEMMA HandleEndStep ==
  ASSUME SideOK,
         HandleRejected \/ HandleViolation \/ HandleDisconnected \/ HandleError
  PROVE  SideOK' /\ View' = View
<1>1. /\ UNCHANGED <<sessionVars, up, dialVars, ready, sessionId, remotes, ever, fault>>
      /\ SafeMode \/ KeepTrying
      /\ ResetClient \/ UNCHANGED <<net, conn, assigned>>
  BY DEF HandleRejected, HandleViolation, HandleDisconnected, HandleError
<1>2. events' \in Seq(Event) /\ phase' = phase
  BY SideTypes, HandledType
     DEF HandleRejected, HandleViolation, HandleDisconnected, HandleError
<1>3. ClientTypes'
  BY <1>1, <1>2, SideTypes, ResetTypes DEF ClientTypes
<1>4. UpOK'
  BY <1>1, SideTypes DEF UpOK
<1>5. View' = View
  BY <1>1 DEF View
<1>6. CASE SafeMode
  <2>1. RemotesOK'
    BY <1>1, <1>6, SideTypes DEF SafeMode, RemotesOK
  <2> QED BY <1>1, <1>2, <1>3, <1>4, <1>5, <1>6, <2>1, SideTypes, SideKept
       DEF SideOK, SafeMode, dialVars, SidecarTypeOK
<1>7. CASE KeepTrying
  <2>1. RemotesOK' /\ (Matched <=> Matched')
    BY <1>1, <1>7, SameRemotes DEF KeepTrying
  <2> QED BY <1>1, <1>2, <1>3, <1>4, <1>5, <1>7, <2>1, SideTypes, SideKept
       DEF SideOK, KeepTrying, dialVars, SidecarTypeOK
<1> QED BY <1>1, <1>6, <1>7

\* What a message without objection leaves of the types.
LEMMA HandleFineTypes ==
  ASSUME SideOK, NEW type, HandleFine(type), RemotesOK', Matched => Matched'
  PROVE  SideOK'
<1>1. events' \in Seq(Event) /\ phase' = phase
  BY SideTypes, HandledType DEF HandleFine
<1>2. UpOK' /\ ClientTypes'
  BY <1>1, SideTypes DEF HandleFine, clientVars, UpOK, ClientTypes
<1> QED BY <1>1, <1>2, SideTypes, SideKept
     DEF SideOK, HandleFine, clientVars, dialVars, SidecarTypeOK

\* handle_message, a peer that joined or left.
LEMMA HandleMemberStep ==
  ASSUME SideOK, HandleJoined \/ HandleLeft
  PROVE  SideOK' /\ View' = After(View, Message)
<1>1. RemotesOK' /\ (Matched => Matched') /\ View' = After(View, Message)
  BY SideTypes, JoinedKeeps, LeftKeeps
<1>2. PICK type \in {"joined", "left"} : HandleFine(type)
  BY DEF HandleJoined, HandleLeft
<1> QED BY <1>1, <1>2, HandleFineTypes

\* handle_message, a state or a snapshot.
LEMMA HandleStatesStep ==
  ASSUME SideOK, HandleStates
  PROVE  SideOK' /\ View' = View
<1>1. RemotesOK' /\ (Matched => Matched') /\ View' = View
  BY SideTypes, StatesKeep
<1>2. PICK type \in {"state", "snapshot"} : HandleFine(type)
  BY DEF HandleStates
<1> QED BY <1>1, <1>2, HandleFineTypes

\* The end of a pump: peers that have fallen silent.
LEMMA SilenceStep ==
  ASSUME SideOK, Silence
  PROVE  SideOK' /\ View' = View
<1>1. PICK gone \in SUBSET HeardFrom, quiet \in SUBSET HeardFrom :
        /\ UpdateLiveness(gone, quiet)
        /\ phase' \in {"idle", phase}
  <2>1. PICK gone \in SUBSET HeardFrom : \E quiet \in SUBSET (HeardFrom \ gone) :
          PumpEnd(gone, quiet) \/ PumpIdle(gone, quiet)
    BY DEF Silence
  <2>2. PICK quiet \in SUBSET (HeardFrom \ gone) :
          PumpEnd(gone, quiet) \/ PumpIdle(gone, quiet)
    BY <2>1
  <2>3. UpdateLiveness(gone, quiet) /\ phase' \in {"idle", phase}
    BY <2>2 DEF PumpEnd, PumpIdle
  <2>4. quiet \in SUBSET HeardFrom
    OBVIOUS
  <2> QED BY <2>3, <2>4
<1>2. RemotesOK' /\ (Matched => Matched') /\ View' = View
  BY <1>1, SideTypes, LivenessKeeps
<1>3. UpOK' /\ ClientTypes'
  BY <1>1, SideTypes DEF UpdateLiveness, clientVars, UpOK, ClientTypes
<1> QED BY <1>1, <1>2, <1>3, SideTypes, SideKept
     DEF SideOK, UpdateLiveness, clientVars, dialVars, SidecarTypeOK

\* The first local sample fixes the appearance.
LEMMA FirstSampleStep ==
  ASSUME SideOK, FirstSample
  PROVE  SideOK' /\ View' = View
<1>1. RemotesOK' /\ (Matched <=> Matched') /\ View' = View
  BY SameRemotes DEF FirstSample
<1>2. UpOK' /\ ClientTypes'
  BY SideTypes DEF FirstSample, clientVars, UpOK, ClientTypes
<1> QED BY <1>1, <1>2, SideTypes, SideKept
     DEF SideOK, FirstSample, clientVars, dialVars, SidecarTypeOK

(* The coordinator's and the network's steps leave the adapter alone.      *)
LEMMA OutsideStep ==
  ASSUME SideOK, \/ (Peers \/ Process) /\ UNCHANGED sidecarVars
                 \/ Coordinate
                 \/ \E c \in MyConn : MyTransportLost(c)
                 \/ \E seq \in 1..MaxSeqNo : MyState(seq)
                 \/ Network \/ \E c \in MyConn : Discard(c)
  PROVE  SideOK' /\ View' = View
<1>1. UNCHANGED <<remotes, actors, pipe>>
  BY DEF sidecarVars, Coordinate, ServeHello, ServeDisconnect, MyTransportLost,
         MyState, Network, LoseState, LoseReliable, Discard, OthersOfSidecar, adapterVars
<1>2. RemotesOK' /\ (Matched <=> Matched') /\ View' = View
  BY <1>1, SameRemotes
<1>3. TypesOK'
  <2>0. TypesOK
    BY DEF SideOK
  <2>1. CASE (Peers \/ Process) /\ UNCHANGED sidecarVars
    <3>1. CoordinatorOK'
      BY <2>0, <2>1, OthersStep DEF TypesOK
    <3>2. SidecarTypeOK' /\ UpOK'
      BY <2>0, <2>1 DEF TypesOK, SidecarTypeOK, UpOK, sidecarVars, clientVars,
                        dialVars, adapterVars
    <3> QED BY <3>1, <3>2 DEF TypesOK
  <2>2. CASE Coordinate
    BY <2>0, <2>2, ServeHelloStep, ServeOtherStep DEF Coordinate
  <2>3. CASE (\E c \in MyConn : MyTransportLost(c))
    BY <2>0, <2>3, ServeOtherStep
  <2>4. CASE (\E seq \in 1..MaxSeqNo : MyState(seq))
    <3>1. conn \in MyConn
      <4>1. Member(conn)
        BY <2>4 DEF MyState
      <4> QED BY <4>1, SideTypes, MemberTypes, Constants
                 DEF Member, CoordinatorOK
    <3> QED BY <2>0, <2>4, <3>1, ServeOtherStep
  <2>5. CASE Network \/ \E c \in MyConn : Discard(c)
    BY <2>0, <2>5, NetworkStep
  <2> QED BY <2>1, <2>2, <2>3, <2>4, <2>5
<1> QED BY <1>1, <1>2, <1>3 DEF SideOK

\* A pipe that breaks or a message with an objection ends the session.
LEMMA MisuseStep ==
  ASSUME SideOK, Misuse \/ HandleFlawed
  PROVE  SideOK' /\ View' = {} /\ conn' = NoConn /\ net' = "none" /\ events' = <<>>
<1>1. PICK why : GiveUp(why)
  BY DEF Misuse, HandleFlawed, StopOrPipeLost, ConflictingSample
<1> QED BY <1>1, GiveUpStep

\* At the start.
LEMMA SideInit == Init => SideOK
<1> SUFFICES ASSUME Init PROVE SideOK
  OBVIOUS
<1> USE DEF Init, SessionInit, SidecarInit
<1>1. DOMAIN members = {} /\ DOMAIN remotes = {} /\ \A S : <<>> \in Seq(S)
  OBVIOUS
<1>2. IsFiniteSet({}) /\ Cardinality({}) = 0
  BY FS_EmptySet
<1>3. SessionTypeOK
  BY <1>1 DEF SessionTypeOK
<1>4. TableOK /\ UnwelcomedOK
  BY <1>1, <1>2, Constants DEF TableOK, UnwelcomedOK
<1>5. SidecarTypeOK /\ UpOK
  BY <1>1 DEF SidecarTypeOK, UpOK, NetState
<1>6. RemotesOK /\ Matched
  BY <1>1, <1>2, SidecarAssumption DEF RemotesOK, Matched, Spawned
<1> QED BY <1>3, <1>4, <1>5, <1>6 DEF SideOK, TypesOK, CoordinatorOK

\* Every step of the system keeps it.
LEMMA SideNext == SideOK /\ [Next]_vars => SideOK'
<1>1. ASSUME SideOK, UNCHANGED vars PROVE SideOK'
  <2>1. UNCHANGED sessionVars /\ UNCHANGED sidecarVars
    BY <1>1 DEF vars
  <2>2. RemotesOK' /\ (Matched <=> Matched')
    BY <1>1, <2>1, SameRemotes DEF sidecarVars, adapterVars
  <2>3. UpOK' /\ ClientTypes'
    BY <1>1, <2>1, SideTypes DEF sidecarVars, clientVars, UpOK, ClientTypes
  <2> QED BY <1>1, <2>1, <2>2, <2>3, SideTypes, SideKept
       DEF SideOK, sidecarVars, clientVars, dialVars, adapterVars, SidecarTypeOK
<1>2. ASSUME SideOK, Next PROVE SideOK'
  <2>1. CASE Thread
    BY <1>2, <2>1, DialStep, ShakeStep, PollSteps, HandleConnectedStep, HandleEndStep,
       HandleMemberStep, HandleStatesStep, MisuseStep, SilenceStep, FirstSampleStep
       DEF Thread, Dial, Handle
  <2>2. CASE Misuse
    BY <1>2, <2>2, MisuseStep
  <2> QED BY <1>2, <2>1, <2>2, OutsideStep DEF Next, Proceed
<1> QED BY <1>1, <1>2

(* Every variable keeps its type, whatever the interleaving of the         *)
(* coordinator (apps/coordinator/main.cpp), the other players, the network *)
(* and the sidecar's thread (apps/client/network_adapter.cpp, pump).       *)
THEOREM RelayTypes == Spec => []TypeOK
<1>1. SideOK => TypeOK
  BY DEF SideOK, TypesOK, CoordinatorOK, TypeOK
<1> QED BY <1>1, SideInit, SideNext, PTL DEF Spec

(* The commands written to the bridge leave the actors that the adapter's  *)
(* roster calls spawned, and no more than kMaximumClientRemoteActors of    *)
(* them, after any joins, departures, silences and reconnections           *)
(* (network_adapter.cpp, handle_event, handle_message and update_liveness).*)
THEOREM ActorsAreTheRosters == Spec => []ActorsMatchRoster
<1>1. SideOK => ActorsMatchRoster
  <2> SUFFICES ASSUME SideOK, pipe = "live"
               PROVE  /\ actors = {Actor(pid) : pid \in Spawned}
                      /\ Cardinality(actors) <= MaxRemotes
    BY DEF ActorsMatchRoster
  <2>1. actors = {Actor(pid) : pid \in Spawned}
    BY DEF SideOK, Matched
  <2>2. IsFiniteSet(Spawned) /\ Cardinality(Spawned) <= MaxRemotes
    <3>1. Spawned \in SUBSET DOMAIN remotes
      BY DEF Spawned
    <3> QED BY <3>1, SideTypes, FewerRemotes
  <2>3. Cardinality(actors) <= Cardinality(Spawned)
        /\ Cardinality(actors) \in Nat /\ Cardinality(Spawned) \in Nat
    <3> DEFINE f == [pid \in Spawned |-> Actor(pid)]
    <3>1. f \in Surjection(Spawned, actors)
      BY <2>1 DEF Surjection
    <3>2. IsFiniteSet(actors) /\ Cardinality(actors) <= Cardinality(Spawned)
      BY <3>1, <2>2, FS_Surjection
    <3> QED BY <3>2, <2>2, FS_CardinalityType
  <2> QED BY <2>1, <2>2, <2>3, SidecarAssumption
<1> QED BY <1>1, SideInit, SideNext, PTL DEF Spec

-----------------------------------------------------------------------------
(* The client and its batch of events.                                     *)

(* A pump ends with nothing left to handle; a client that is connecting    *)
(* has no event to report; one that is connected has reported that first,  *)
(* then messages alone, and the adapter has its session once it read that. *)
ClientOK ==
  /\ phase = "idle" => events = <<>>
  /\ net \in {"connecting", "connected"} => conn # NoConn
  /\ net = "connecting" => events = <<>>
  /\ net = "connected" =>
       /\ \A i \in 1..Len(events) :
            events[i].kind = "message" \/ (i = 1 /\ events[i].kind = "connected")
       /\ \/ events # <<>> /\ Head(events).kind = "connected"
          \/ sessionId = assigned.session

ClientVarsSame == UNCHANGED <<conn, net, assigned, phase, events, sessionId>>

\* A step that does not touch the client.
LEMMA ClientSame ==
  ASSUME ClientOK, ClientVarsSame
  PROVE  ClientOK'
  BY DEF ClientOK, ClientVarsSame

(* An event more, or one less.                                             *)
LEMMA Emitted ==
  ASSUME ClientTypes, NEW e, events' = Append(events, e)
  PROVE  /\ Len(events) \in Nat /\ Len(events') = Len(events) + 1
         /\ events' # <<>>
         /\ \A i \in 1..Len(events) : events'[i] = events[i]
         /\ events'[Len(events')] = e
         /\ events # <<>> => Head(events') = Head(events)
         /\ events = <<>> => Head(events') = e
  BY DEF ClientTypes

\* A packet polled: the welcome first, then messages (client.cpp, poll).
LEMMA PacketClientOK ==
  ASSUME ClientTypes, ClientOK, NEW m, Packet(m), phase = "service",
         UNCHANGED <<phase, sessionId>>
  PROVE  ClientOK'
<1>1. ASSUME Violate PROVE ClientOK'
  BY <1>1 DEF ClientOK, Violate
<1>2. CASE OnWelcome(m)
  <2>1. CASE net = "connecting"
    <3>1. events = <<>> /\ events' = Append(events, [kind |-> "connected"])
          /\ net' = "connected" /\ conn' = conn /\ conn # NoConn
      BY <1>2, <2>1 DEF OnWelcome, Emit, ClientOK
    <3>2. /\ Len(events) = 0 /\ Len(events') = 1 /\ events'[1].kind = "connected"
          /\ Head(events').kind = "connected" /\ events' # <<>>
      BY <3>1, Emitted
    <3> QED BY <3>1, <3>2 DEF ClientOK
  <2>2. CASE net # "connecting"
    BY <1>1, <1>2, <2>2 DEF OnWelcome
  <2> QED BY <2>1, <2>2
<1>3. CASE OnDisconnect(m)
  BY <1>3 DEF OnDisconnect, ClientOK
<1>4. CASE OnClosed(m.reason)
  BY <1>4 DEF OnClosed, ClientOK
<1>5. CASE OnGameplay(m)
  <2>1. CASE net = "connected"
    <3>1. /\ events' = Append(events, MessageEvent(m))
          /\ UNCHANGED <<conn, net, assigned>>
      BY <1>5, <2>1 DEF OnGameplay, Emit
    <3>2. MessageEvent(m).kind = "message"
      BY DEF MessageEvent
    <3>3. \A i \in 1..Len(events') :
            events'[i].kind = "message" \/ (i = 1 /\ events'[i].kind = "connected")
      <4> TAKE i \in 1..Len(events')
      <4>1. CASE i = Len(events')
        BY <3>1, <3>2, <4>1, Emitted
      <4>2. CASE i # Len(events')
        <5>1. i \in 1..Len(events)
          BY <3>1, <4>2, Emitted
        <5> QED BY <2>1, <3>1, <5>1, Emitted DEF ClientOK
      <4> QED BY <4>1, <4>2
    <3>4. \/ events' # <<>> /\ Head(events').kind = "connected"
          \/ sessionId = assigned.session
      BY <2>1, <3>1, Emitted DEF ClientOK
    <3> QED BY <2>1, <3>1, <3>3, <3>4 DEF ClientOK
  <2>2. CASE net # "connected"
    BY <1>1, <1>5, <2>2 DEF OnGameplay
  <2> QED BY <2>1, <2>2
<1> QED BY <1>2, <1>3, <1>4, <1>5 DEF Packet

(* The client has the events it had, less the first.                       *)
LEMMA HandledClientOK ==
  ASSUME ClientTypes, ClientOK, phase = "handle", events # <<>>, Handled,
         \/ net' \notin {"connecting", "connected"}
         \/ /\ UNCHANGED <<conn, net, assigned>>
            /\ \/ Head(events).kind # "connected" /\ UNCHANGED sessionId
               \/ sessionId' = assigned.session
  PROVE  ClientOK'
<1>1. /\ events' = Tail(events) /\ phase' = "handle" /\ Head(events) = events[1]
      /\ Len(events) \in Nat /\ Len(events) # 0 /\ Len(events') = Len(events) - 1
      /\ \A i \in 1..Len(events') : events'[i] = events[i + 1]
  BY TailType DEF ClientTypes, Handled
<1>2. CASE net' \notin {"connecting", "connected"}
  BY <1>1, <1>2 DEF ClientOK
<1>3. CASE net' \in {"connecting", "connected"}
  <2>1. UNCHANGED <<conn, net, assigned>> /\ net = "connected"
    BY <1>3 DEF ClientOK
  <2>2. \A i \in 1..Len(events') : events'[i].kind = "message"
    <3> TAKE i \in 1..Len(events')
    <3>1. i + 1 \in 1..Len(events) /\ i + 1 # 1
      BY <1>1
    <3> QED BY <1>1, <2>1, <3>1 DEF ClientOK
  <2>3. sessionId' = assigned.session
    BY <1>3, <2>1 DEF ClientOK
  <2> QED BY <1>1, <2>1, <2>2, <2>3 DEF ClientOK
<1> QED BY <1>2, <1>3

\* Every step of the system keeps the client's order of events.
LEMMA ClientStep ==
  ASSUME SideOK, ClientOK, [Next]_vars
  PROVE  ClientOK'
<1>0. ClientTypes
  BY SideTypes
<1>1. ASSUME ClientVarsSame PROVE ClientOK'
  BY <1>1, ClientSame
<1>2. CASE UNCHANGED vars
  BY <1>1, <1>2 DEF ClientVarsSame, vars, sidecarVars, clientVars, adapterVars
<1>3. CASE \E c \in MyConn : Discard(c)
  BY <1>1, <1>3 DEF ClientVarsSame, Discard, OthersOfSidecar, adapterVars
<1>4. CASE \/ (Peers \/ Process) /\ UNCHANGED sidecarVars
           \/ Coordinate
           \/ \E c \in MyConn : MyTransportLost(c)
           \/ \E seq \in 1..MaxSeqNo : MyState(seq)
           \/ Network
  BY <1>1, <1>4 DEF ClientVarsSame, sidecarVars, clientVars, adapterVars, Coordinate,
     ServeHello, ServeDisconnect, OthersOfSidecar, MyTransportLost, MyState, Network,
     LoseState, LoseReliable
<1>5. CASE Misuse \/ HandleFlawed
  <2>1. net' = "none" /\ events' = <<>>
    BY <1>5, MisuseStep
  <2> QED BY <2>1 DEF ClientOK
<1>6. CASE Dial
  <2>1. PICK c \in MyConn, i \in Incarnation : ConnectNew(c, i)
    BY <1>6 DEF Dial
  <2>2. c # NoConn
    BY Constants
  <2> QED BY <2>1, <2>2 DEF ConnectNew, ClientOK
<1>7. CASE Shake
  BY <1>1, <1>7 DEF ClientVarsSame, Shake, Handshake, adapterVars
<1>8. CASE Poll
  <2>1. CASE PollBegin \/ PollEnd
    BY <2>1 DEF PollBegin, PollEnd, ClientOK, clientVars, adapterVars
  <2>2. CASE ServiceReliable
    BY <1>0, <2>2, PacketClientOK DEF ServiceReliable, Servicing, Packet, adapterVars
  <2>3. CASE ServiceState
    BY <1>0, <2>3, PacketClientOK DEF ServiceState, Servicing, Packet, adapterVars
  <2>4. CASE ServiceLost
    BY <2>4 DEF ServiceLost, Servicing, OnClosed, ClientOK
  <2>5. CASE ServiceFailed \/ ConnectTimeout
    BY <2>5 DEF ServiceFailed, ConnectTimeout, ClientOK
  <2> QED BY <1>8, <2>1, <2>2, <2>3, <2>4, <2>5 DEF Poll, Abandoned
<1>9. CASE HandleConnected
  BY <1>0, <1>9, HandledClientOK DEF HandleConnected, Handling, clientVars
<1>10. CASE HandleJoined \/ HandleLeft \/ HandleStates
  BY <1>0, <1>10, HandledClientOK DEF HandleJoined, HandleLeft, HandleStates,
     HandleFine, Handling, clientVars
<1>11. CASE HandleRejected \/ HandleViolation \/ HandleDisconnected \/ HandleError
  BY <1>0, <1>11, HandledClientOK DEF HandleRejected, HandleViolation,
     HandleDisconnected, HandleError, Handling, ResetClient
<1>12. CASE Silence
  <2>1. events' = events /\ (phase' = phase \/ events = <<>>)
        /\ UNCHANGED <<conn, net, assigned, sessionId>>
    BY <1>12 DEF Silence, PumpEnd, PumpIdle, UpdateLiveness, clientVars
  <2> QED BY <2>1 DEF ClientOK
<1>13. CASE FirstSample
  BY <1>1, <1>13 DEF ClientVarsSame, FirstSample, clientVars
<1> QED BY <1>2, <1>3, <1>4, <1>5, <1>6, <1>7, <1>8, <1>9, <1>10, <1>11, <1>12, <1>13
     DEF Next, Proceed, Thread, Handle

-----------------------------------------------------------------------------
(* What the sidecar's transport carries, in terms of the identity that the *)
(* coordinator gave it: p in session s.                                    *)

\* A membership message is not about player p.
Apart(m, p) ==
  /\ m.type = "joined" => m.peer.pid # p
  /\ m.type = "left" => m.pid # p

\* The channels are in the terms of a welcome to p in session s.
Terms(s, p) ==
  /\ \A i \in 1..Len(rel[conn]) : Apart(rel[conn][i], p)
  /\ \A i \in 1..Len(unrel[conn]) : Fits(unrel[conn][i], s, p, inc)
  /\ Member(conn) => s = session /\ p = members[conn].id.pid

\* The member of the sidecar's transport is the sidecar, by its own hello.
MineOK ==
  Member(conn) => /\ members[conn].id.inc = inc /\ members[conn].id.name = MyName
                  /\ Terms(session, members[conn].id.pid)

\* A hello on its way is the sidecar's present one.
HellosOK ==
  \A i \in 1..Len(up[conn]) :
    up[conn][i].type = "hello" =>
      up[conn][i].hello.inc = inc /\ up[conn][i].hello.name = MyName

\* What follows a welcome is in its terms.
WelcomesOK ==
  \A i \in 1..Len(rel[conn]) :
    rel[conn][i].type = "welcome" => Terms(rel[conn][i].session, rel[conn][i].pid)

\* A message polled is in the terms of the welcome that the client had.
MessageFits(m) ==
  IF m.type \in {"state", "snapshot"}
  THEN Fits(m, assigned.session, assigned.pid, inc)
  ELSE Apart(m, assigned.pid)

\* So is every message of the batch.
EventsFit ==
  \A i \in 1..Len(events) :
    events[i].kind = "message" => MessageFits(events[i].msg)

\* A connected client is a member as long as its transport is routed.
ConnectedOK ==
  net = "connected" => /\ conn \in registered => Member(conn)
                       /\ Terms(assigned.session, assigned.pid)
                       /\ EventsFit

\* All of that, of the transport in use.
ConnOK == conn # NoConn => MineOK /\ HellosOK /\ WelcomesOK /\ ConnectedOK

(* A queue that has lost some of its elements.                             *)
Part(new, old) == \A i \in 1..Len(new) : \E j \in 1..Len(old) : new[i] = old[j]

\* What is left when the first is read.
LEMMA PartOfTail ==
  ASSUME NEW S, NEW q \in Seq(S), q # <<>>
  PROVE  Part(Tail(q), q)
<1>1. \A i \in 1..Len(Tail(q)) : i + 1 \in 1..Len(q) /\ Tail(q)[i] = q[i + 1]
  BY TailType
<1> QED BY <1>1 DEF Part

\* Nothing, and everything.
LEMMA PartOfNone ==
  ASSUME NEW q
  PROVE  Part(<<>>, q) /\ Part(q, q)
  BY DEF Part

\* Less in the channels is still in the same terms.
LEMMA TermsNarrow ==
  ASSUME NEW s, NEW p, Terms(s, p), UNCHANGED <<session, members, conn, inc>>,
         Part(rel'[conn], rel[conn]), Part(unrel'[conn], unrel[conn])
  PROVE  Terms(s, p)'
<1>1. \A i \in 1..Len(rel'[conn]) : Apart(rel'[conn][i], p)
  BY DEF Terms, Part
<1>2. \A i \in 1..Len(unrel'[conn]) : Fits(unrel'[conn][i], s, p, inc)
  BY DEF Terms, Part
<1>3. Member(conn)' => s = session' /\ p = members'[conn].id.pid
  BY DEF Terms, Member
<1> QED BY <1>1, <1>2, <1>3 DEF Terms

(* The sidecar's own steps, and what the network loses: the table stays,   *)
(* nothing is added to a queue, and the client is not newly connected.     *)
LEMMA ConnNarrow ==
  ASSUME ConnOK, UNCHANGED <<session, registered, members, conn, inc>>,
         conn # NoConn => /\ Part(rel'[conn], rel[conn])
                          /\ Part(unrel'[conn], unrel[conn])
                          /\ Part(up'[conn], up[conn]),
         net' = "connected" => net = "connected" /\ UNCHANGED assigned /\ EventsFit'
  PROVE  ConnOK'
<1> SUFFICES ASSUME conn # NoConn
             PROVE  MineOK' /\ HellosOK' /\ WelcomesOK' /\ ConnectedOK'
  BY DEF ConnOK
<1>0. MineOK /\ HellosOK /\ WelcomesOK /\ ConnectedOK
  BY DEF ConnOK
<1>t. \A s, p : Terms(s, p) => Terms(s, p)'
  BY TermsNarrow
<1>1. MineOK'
  <2> SUFFICES ASSUME Member(conn)'
               PROVE  /\ members'[conn].id.inc = inc /\ members'[conn].id.name = MyName
                      /\ Terms(session, members[conn].id.pid)'
    BY DEF MineOK
  <2>1. Member(conn) /\ members' = members
    BY DEF Member
  <2>2. /\ members[conn].id.inc = inc /\ members[conn].id.name = MyName
        /\ Terms(session, members[conn].id.pid)
    BY <1>0, <2>1 DEF MineOK
  <2> DEFINE s == session
             p == members[conn].id.pid
  <2>3. s' = s /\ p' = p
    OBVIOUS
  <2>4. PICK a, b : a = s /\ b = p
    OBVIOUS
  <2>5. Terms(a, b) /\ Terms(a, b)'
    BY <1>t, <2>2, <2>4
  <2>6. Terms(s, p)'
    BY <2>3, <2>4, <2>5 DEF Terms
  <2> QED BY <2>1, <2>2, <2>6
<1>2. HellosOK'
  BY <1>0 DEF HellosOK, Part
<1>3. WelcomesOK'
  <2> SUFFICES ASSUME NEW i \in 1..Len(rel'[conn]), rel'[conn][i].type = "welcome"
               PROVE  Terms(rel[conn][i].session, rel[conn][i].pid)'
    BY DEF WelcomesOK
  <2>1. PICK j \in 1..Len(rel[conn]) : rel'[conn][i] = rel[conn][j]
    BY DEF Part
  <2>2. PICK m : m = rel[conn][j]
    OBVIOUS
  <2>3. Terms(m.session, m.pid)
    BY <1>0, <2>1, <2>2 DEF WelcomesOK
  <2>4. Terms(m.session, m.pid)'
    BY <1>t, <2>3
  <2> QED BY <2>1, <2>2, <2>4 DEF Terms
<1>4. ConnectedOK'
  <2> SUFFICES ASSUME net' = "connected"
               PROVE  /\ conn \in registered => Member(conn)'
                      /\ Terms(assigned.session, assigned.pid)' /\ EventsFit'
    BY DEF ConnectedOK
  <2>1. /\ conn \in registered => Member(conn)
        /\ Terms(assigned.session, assigned.pid) /\ assigned' = assigned /\ EventsFit'
    BY <1>0 DEF ConnectedOK
  <2>2. PICK a : a = assigned
    OBVIOUS
  <2>3. Terms(a.session, a.pid)'
    BY <1>t, <2>1, <2>2
  <2> QED BY <2>1, <2>2, <2>3 DEF Terms, Member
<1> QED BY <1>1, <1>2, <1>3, <1>4

(* What the coordinator adds to the transport of an admitted sidecar is in *)
(* the terms of its welcome.                                               *)
LEMMA TermsServed ==
  ASSUME SessionTypeOK, conn \in Watched, NEW s, NEW p, Terms(s, p),
         UNCHANGED <<conn, inc>>, Member(conn) => members[conn].id.inc = inc,
         Quiet(conn) \/ Joining(conn) \/ Leaving(conn) \/ Ending(conn)
  PROVE  Terms(s, p)'
<1>0. rel[conn] \in Seq(ReliableMsg) /\ unrel[conn] \in Seq(StateMsg)
  BY DEF SessionTypeOK
<1>1. /\ \A i \in 1..Len(rel[conn]) : Apart(rel[conn][i], p)
      /\ \A i \in 1..Len(unrel[conn]) : Fits(unrel[conn][i], s, p, inc)
      /\ Member(conn) => s = session /\ p = members[conn].id.pid
  BY DEF Terms
<1>2. CASE Quiet(conn)
  <2>1. \A i \in 1..Len(rel'[conn]) : Apart(rel'[conn][i], p)
    BY <1>1, <1>2 DEF Quiet
  <2>2. \A i \in 1..Len(unrel'[conn]) : Fits(unrel'[conn][i], s, p, inc)
    <3>1. CASE unrel'[conn] = unrel[conn]
      BY <1>1, <3>1
    <3>2. CASE unrel'[conn] # unrel[conn]
      <4>1. PICK g \in Seq(StateMsg) :
              /\ Member(conn) /\ unrel'[conn] = unrel[conn] \o g
              /\ \A i \in 1..Len(g) :
                   Fits(g[i], session, members[conn].id.pid, members[conn].id.inc)
        BY <1>2, <3>2 DEF Quiet
      <4>2. \A i \in 1..Len(g) : Fits(g[i], s, p, inc)
        BY <1>1, <4>1
      <4>3. /\ Len(unrel'[conn]) = Len(unrel[conn]) + Len(g)
            /\ \A i \in 1..Len(unrel[conn]) : unrel'[conn][i] = unrel[conn][i]
            /\ \A i \in (Len(unrel[conn]) + 1)..Len(unrel'[conn]) :
                 i - Len(unrel[conn]) \in 1..Len(g)
                 /\ unrel'[conn][i] = g[i - Len(unrel[conn])]
        BY <1>0, <4>1
      <4>4. \A i \in 1..Len(unrel'[conn]) :
              i \in 1..Len(unrel[conn]) \/ i \in (Len(unrel[conn]) + 1)..Len(unrel'[conn])
        BY <1>0
      <4> QED BY <1>1, <4>2, <4>3, <4>4
    <3> QED BY <3>1, <3>2
  <2>3. Member(conn)' => s = session' /\ p = members'[conn].id.pid
    <3>1. Member(conn)' => Member(conn) /\ members'[conn].id = members[conn].id
                           /\ session' = session
      BY <1>2 DEF Quiet
    <3> QED BY <1>1, <3>1
  <2> QED BY <2>1, <2>2, <2>3 DEF Terms
<1>3. CASE Joining(conn)
  <2>1. PICK q \in Theirs(conn)' \ Theirs(conn) :
          q.pid # members[conn].id.pid /\ rel'[conn] = Append(rel[conn], Joined(q))
    BY <1>3 DEF Joining
  <2>2. Member(conn) /\ Member(conn)' /\ members'[conn].id = members[conn].id
        /\ unrel'[conn] = unrel[conn] /\ session' = session
    BY <1>3 DEF Joining
  <2>3. Apart(Joined(q), p)
    BY <1>1, <2>1, <2>2 DEF Apart, Joined
  <2>4. \A i \in 1..Len(rel'[conn]) : Apart(rel'[conn][i], p)
    BY <1>0, <1>1, <2>1, <2>3
  <2> QED BY <1>1, <2>2, <2>4 DEF Terms
<1>4. CASE Leaving(conn)
  <2>1. PICK q \in Theirs(conn) \ Theirs(conn)' :
          q.pid # members[conn].id.pid /\ rel'[conn] = Append(rel[conn], Left(q))
    BY <1>4 DEF Leaving
  <2>2. Member(conn) /\ Member(conn)' /\ members'[conn].id = members[conn].id
        /\ unrel'[conn] = unrel[conn] /\ session' = session
    BY <1>4 DEF Leaving
  <2>3. Apart(Left(q), p)
    BY <1>1, <2>1, <2>2 DEF Apart, Left
  <2>4. \A i \in 1..Len(rel'[conn]) : Apart(rel'[conn][i], p)
    BY <1>0, <1>1, <2>1, <2>3
  <2> QED BY <1>1, <2>2, <2>4 DEF Terms
<1>5. CASE Ending(conn)
  <2>1. PICK bye \in Seq(ReliableMsg) :
          /\ rel'[conn] = rel[conn] \o bye
          /\ \A i \in 1..Len(bye) : bye[i].type \in {"disconnect", "closed"}
    BY <1>5 DEF Ending
  <2>2. ~Member(conn)' /\ unrel'[conn] = unrel[conn]
    BY <1>5 DEF Ending
  <2>3. \A i \in 1..Len(bye) : Apart(bye[i], p)
    BY <2>1 DEF Apart
  <2>4. /\ Len(rel'[conn]) = Len(rel[conn]) + Len(bye)
        /\ \A i \in 1..Len(rel[conn]) : rel'[conn][i] = rel[conn][i]
        /\ \A i \in (Len(rel[conn]) + 1)..Len(rel'[conn]) :
             i - Len(rel[conn]) \in 1..Len(bye)
             /\ rel'[conn][i] = bye[i - Len(rel[conn])]
    BY <1>0, <2>1
  <2>5. \A i \in 1..Len(rel'[conn]) :
          i \in 1..Len(rel[conn]) \/ i \in (Len(rel[conn]) + 1)..Len(rel'[conn])
    BY <1>0
  <2>6. \A i \in 1..Len(rel'[conn]) : Apart(rel'[conn][i], p)
    BY <1>1, <2>3, <2>4, <2>5
  <2> QED BY <1>1, <2>2, <2>6 DEF Terms
<1> QED BY <1>2, <1>3, <1>4, <1>5

(* A welcome is sent once, to a transport that has been sent nothing.      *)
LEMMA NoNewWelcome ==
  ASSUME SessionTypeOK, conn \in Watched,
         Quiet(conn) \/ Joining(conn) \/ Leaving(conn) \/ Ending(conn),
         NEW i \in 1..Len(rel'[conn]), rel'[conn][i].type = "welcome"
  PROVE  i \in 1..Len(rel[conn]) /\ rel'[conn][i] = rel[conn][i]
<1>0. rel[conn] \in Seq(ReliableMsg)
  BY DEF SessionTypeOK
<1>1. CASE Quiet(conn)
  BY <1>1 DEF Quiet
<1>2. CASE Joining(conn) \/ Leaving(conn)
  <2>1. PICK q : rel'[conn] = Append(rel[conn], Joined(q))
                 \/ rel'[conn] = Append(rel[conn], Left(q))
    BY <1>2 DEF Joining, Leaving
  <2>2. PICK m : rel'[conn] = Append(rel[conn], m) /\ m.type # "welcome"
    BY <2>1 DEF Joined, Left
  <2> QED BY <1>0, <2>2
<1>3. CASE Ending(conn)
  <2>1. PICK bye \in Seq(ReliableMsg) :
          /\ rel'[conn] = rel[conn] \o bye
          /\ \A j \in 1..Len(bye) : bye[j].type \in {"disconnect", "closed"}
    BY <1>3 DEF Ending
  <2>2. /\ Len(rel'[conn]) = Len(rel[conn]) + Len(bye)
        /\ \A j \in 1..Len(rel[conn]) : rel'[conn][j] = rel[conn][j]
        /\ \A j \in (Len(rel[conn]) + 1)..Len(rel'[conn]) :
             j - Len(rel[conn]) \in 1..Len(bye)
             /\ rel'[conn][j] = bye[j - Len(rel[conn])]
    BY <1>0, <2>1
  <2>3. i \in 1..Len(rel[conn]) \/ i \in (Len(rel[conn]) + 1)..Len(rel'[conn])
    BY <1>0
  <2> QED BY <2>1, <2>2, <2>3
<1> QED BY <1>1, <1>2, <1>3

\* Members have player ids of their own.
LEMMA TheirsApart ==
  ASSUME TableOK, NEW x, Member(x), NEW p \in Theirs(x)
  PROVE  p.pid # members[x].id.pid /\ p.name # members[x].id.name /\ p \in Ids
  BY DEF TableOK, Theirs, Member, Ids

(* The first packets to a transport: a welcome, then its roster.           *)
LEMMA AdmittedFits ==
  ASSUME CoordinatorOK', conn \in Watched, UNCHANGED <<conn, inc>>, Admitting(conn),
         members'[conn].id.inc = inc, members'[conn].id.name = MyName
  PROVE  MineOK' /\ WelcomesOK'
<1> DEFINE p == members'[conn].id.pid
<1>1. PICK js \in Seq(ReliableMsg) :
        /\ rel'[conn] = <<Welcome(members'[conn].id)>> \o js
        /\ \E id : Introduces(js, id, Theirs(conn)')
  BY DEF Admitting
<1>2. PICK id : Introduces(js, id, Theirs(conn)')
  BY <1>1
<1>3. Member(conn)' /\ unrel'[conn] = <<>> /\ session' = session
  BY DEF Admitting
<1>4. \A q \in Theirs(conn)' : q.pid # p
  BY <1>3 DEF CoordinatorOK, TableOK, Theirs, Member
<1>5. \A i \in 1..Len(js) : Apart(js[i], p) /\ js[i].type = "joined"
  <2> TAKE i \in 1..Len(js)
  <2>1. id[i] \in Theirs(conn)' /\ js[i] = Joined(id[i])
    BY <1>2 DEF Introduces
  <2>2. id[i].pid # p
    BY <1>4, <2>1
  <2> QED BY <2>1, <2>2 DEF Apart, Joined
<1> DEFINE w == Welcome(members'[conn].id)
<1>6. Apart(w, p) /\ w.session = session /\ w.pid = p
  BY DEF Apart, Welcome
<1> HIDE DEF w
<1>7. /\ Len(rel'[conn]) = Len(js) + 1 /\ Len(js) \in Nat
      /\ rel'[conn][1] = w
      /\ \A i \in 2..Len(rel'[conn]) : i - 1 \in 1..Len(js) /\ rel'[conn][i] = js[i - 1]
  BY <1>1 DEF w
<1>8. \A i \in 1..Len(rel'[conn]) : i = 1 \/ i \in 2..Len(rel'[conn])
  BY <1>7
<1>9. \A i \in 1..Len(rel'[conn]) : Apart(rel'[conn][i], p)
  BY <1>5, <1>6, <1>7, <1>8
<1>10. \A i \in 1..Len(rel'[conn]) : rel'[conn][i].type = "welcome" => i = 1
  BY <1>5, <1>7, <1>8
<1>11. 1..Len(unrel'[conn]) = {}
  BY <1>3
<1>12. /\ \A i \in 1..Len(rel'[conn]) : Apart(rel'[conn][i], p)
       /\ \A i \in 1..Len(unrel'[conn]) : Fits(unrel'[conn][i], session, p, inc)
       /\ Member(conn)' => session = session' /\ p = members'[conn].id.pid
  BY <1>3, <1>9, <1>11
<1>13. MineOK'
  BY <1>3, <1>12 DEF MineOK, Terms
<1>14. WelcomesOK'
  BY <1>3, <1>6, <1>7, <1>10, <1>12 DEF WelcomesOK, Terms
<1> QED BY <1>13, <1>14

(* The coordinator's steps.                                                *)
LEMMA ConnServed ==
  ASSUME CoordinatorOK, CoordinatorOK', ConnOK, ClientOK,
         UNCHANGED <<conn, net, inc, assigned, events>>,
         conn # NoConn => /\ conn \in Watched /\ Served(conn) /\ Known(conn)
                          /\ Part(up'[conn], up[conn]),
         Admitting(conn) => /\ members'[conn].id.inc = inc
                            /\ members'[conn].id.name = MyName
  PROVE  ConnOK'
<1> SUFFICES ASSUME conn # NoConn
             PROVE  MineOK' /\ HellosOK' /\ WelcomesOK' /\ ConnectedOK'
  BY DEF ConnOK
<1>0. /\ MineOK /\ HellosOK /\ WelcomesOK /\ ConnectedOK
      /\ conn \in Watched /\ Served(conn) /\ Known(conn) /\ SessionTypeOK
  BY DEF ConnOK, CoordinatorOK
<1>1. HellosOK'
  BY <1>0 DEF HellosOK, Part
<1>2. CASE Admitting(conn)
  <2>1. MineOK' /\ WelcomesOK'
    BY <1>0, <1>2, AdmittedFits
  <2>2. net # "connected"
    BY <1>0, <1>2 DEF ConnectedOK, Admitting
  <2> QED BY <1>1, <2>1, <2>2 DEF ConnectedOK
<1>3. CASE ~Admitting(conn)
  <2>0. Quiet(conn) \/ Joining(conn) \/ Leaving(conn) \/ Ending(conn)
    BY <1>0, <1>3 DEF Served
  <2>1. Member(conn)' => Member(conn) /\ members'[conn].id = members[conn].id
                         /\ session' = session
    BY <2>0 DEF Quiet, Joining, Leaving, Ending
  <2>2. Member(conn) => members[conn].id.inc = inc
    BY <1>0 DEF MineOK
  <2>t. \A s, p : Terms(s, p) => Terms(s, p)'
    BY <1>0, <2>0, <2>2, TermsServed
  <2>3. MineOK'
    <3> SUFFICES ASSUME Member(conn)'
                 PROVE  /\ members'[conn].id.inc = inc /\ members'[conn].id.name = MyName
                        /\ Terms(session, members[conn].id.pid)'
      BY DEF MineOK
    <3>1. /\ members[conn].id.inc = inc /\ members[conn].id.name = MyName
          /\ Terms(session, members[conn].id.pid)
      BY <1>0, <2>1 DEF MineOK
    <3>2. PICK a, b : a = session /\ b = members[conn].id.pid
      OBVIOUS
    <3>3. Terms(a, b)'
      BY <2>t, <3>1, <3>2
    <3>4. a = session' /\ b = members'[conn].id.pid
      BY <2>1, <3>2
    <3>5. Terms(session, members[conn].id.pid)'
      BY <3>3, <3>4 DEF Terms
    <3> QED BY <2>1, <3>1, <3>5
  <2>4. WelcomesOK'
    <3> SUFFICES ASSUME NEW i \in 1..Len(rel'[conn]), rel'[conn][i].type = "welcome"
                 PROVE  Terms(rel[conn][i].session, rel[conn][i].pid)'
      BY DEF WelcomesOK
    <3>1. i \in 1..Len(rel[conn]) /\ rel'[conn][i] = rel[conn][i]
      BY <1>0, <2>0, NoNewWelcome
    <3>2. PICK m : m = rel[conn][i]
      OBVIOUS
    <3>3. Terms(m.session, m.pid)'
      BY <1>0, <2>t, <3>1, <3>2 DEF WelcomesOK
    <3> QED BY <3>1, <3>2, <3>3 DEF Terms
  <2>5. ConnectedOK'
    <3> SUFFICES ASSUME net = "connected"
                 PROVE  /\ conn \in registered' => Member(conn)'
                        /\ Terms(assigned.session, assigned.pid)' /\ EventsFit'
      BY DEF ConnectedOK
    <3>1. /\ conn \in registered => Member(conn)
          /\ Terms(assigned.session, assigned.pid) /\ EventsFit
      BY <1>0 DEF ConnectedOK
    <3>2. PICK a : a = assigned
      OBVIOUS
    <3>3. Terms(a.session, a.pid)'
      BY <2>t, <3>1, <3>2
    <3>4. conn \in registered' => Member(conn)'
      BY <1>0, <2>0, <3>1 DEF Known, Quiet, Joining, Leaving, Ending
    <3>5. EventsFit'
      BY <3>1 DEF EventsFit, MessageFits
    <3> QED BY <3>2, <3>3, <3>4, <3>5 DEF Terms
  <2> QED BY <1>1, <2>3, <2>4, <2>5
<1> QED BY <1>2, <1>3

\* The hello served: admitted or refused, in the terms of that hello.
LEMMA ConnHello ==
  ASSUME SideOK, ConnOK, NEW c \in MyConn, ServeHello(c), conn # NoConn
  PROVE  /\ Admitting(conn) => /\ members'[conn].id.inc = inc
                               /\ members'[conn].id.name = MyName
         /\ Part(up'[conn], up[conn])
<1>0. UpOK /\ conn \in MyConn
  BY SideTypes
<1>1. up[c] # <<>> /\ Head(up[c]).type = "hello" /\ up' = [up EXCEPT ![c] = Tail(@)]
  BY DEF ServeHello, Consume
<1>2. Part(up'[conn], up[conn])
  <2>1. CASE c = conn
    <3>1. Part(Tail(up[conn]), up[conn])
      BY <1>0, <1>1, <2>1, PartOfTail DEF UpOK
    <3> QED BY <1>0, <1>1, <2>1, <3>1 DEF UpOK
  <2>2. CASE c # conn
    <3>1. up'[conn] = up[conn]
      BY <1>0, <1>1, <2>2 DEF UpOK
    <3> QED BY <3>1, PartOfNone
  <2> QED BY <2>1, <2>2
<1>3. ASSUME Admitting(conn)
      PROVE  members'[conn].id.inc = inc /\ members'[conn].id.name = MyName
  <2>0. TypesOK
    BY DEF SideOK
  <2>a. \A x \in MyConn \ {c} : ~Admitting(x)
    BY <2>0, ServeHelloStep
  <2>b. c = conn
    BY <1>0, <1>3, <2>a
  <2>c. Member(conn)'
    BY <1>3 DEF Admitting
  <2>1. c = conn /\ Member(conn)'
    BY <2>b, <2>c
  <2>d. Member(c)' => /\ members'[c].id.inc = Head(up[c]).hello.inc
                      /\ members'[c].id.name = Head(up[c]).hello.name
    BY <2>0, ServeHelloStep
  <2>e. Member(c)'
    BY <2>b, <2>c DEF Member, ServeHello, OthersOfSidecar
  <2>2. /\ members'[conn].id.inc = Head(up[conn]).hello.inc
        /\ members'[conn].id.name = Head(up[conn]).hello.name
    BY <2>b, <2>d, <2>e
  <2>3. Head(up[conn]) = up[conn][1] /\ 1 \in 1..Len(up[conn])
    BY <1>0, <1>1, <2>1, TailType DEF UpOK
  <2> QED BY <1>1, <2>1, <2>2, <2>3 DEF ConnOK, HellosOK
<1> QED BY <1>2, <1>3

\* The steps of the coordinator and the other players.
LEMMA ConnOutside ==
  ASSUME SideOK, ClientOK, ConnOK, SideOK',
         \/ (Peers \/ Process) /\ UNCHANGED sidecarVars
         \/ Coordinate
         \/ \E c \in MyConn : MyTransportLost(c)
         \/ \E seq \in 1..MaxSeqNo : MyState(seq)
  PROVE  /\ UNCHANGED <<conn, net, inc, assigned, phase, events, adapterVars>>
         /\ conn # NoConn => Served(conn) /\ Known(conn) /\ conn \in Watched
         /\ conn # NoConn /\ Admitting(conn) => \E c \in MyConn : ServeHello(c)
         /\ ConnOK'
<1>0. TypesOK /\ CoordinatorOK /\ CoordinatorOK'
      /\ (conn # NoConn => conn \in MyConn /\ conn \in Watched)
  BY SideTypes, Constants DEF SideOK, TypesOK
<1>1. UNCHANGED <<conn, net, inc, assigned, phase, events, adapterVars>>
  BY DEF sidecarVars, clientVars, dialVars, Coordinate, ServeHello, ServeDisconnect,
         MyTransportLost, MyState, OthersOfSidecar
<1>2. CASE \E c \in MyConn : ServeHello(c)
  <2>1. PICK c \in MyConn : ServeHello(c)
    BY <1>2
  <2>2. conn # NoConn => Served(conn) /\ Known(conn)
    BY <1>0, <2>1, ServeHelloStep
  <2>3. conn # NoConn =>
          /\ Admitting(conn) => /\ members'[conn].id.inc = inc
                                /\ members'[conn].id.name = MyName
          /\ Part(up'[conn], up[conn])
    BY <2>1, ConnHello
  <2>4. conn = NoConn => ~Admitting(conn)
    BY <1>0, SideTypes, Constants DEF Admitting, CoordinatorOK, SessionTypeOK
  <2>5. ConnOK'
    BY <1>0, <1>1, <2>2, <2>3, <2>4, ConnServed
  <2> QED BY <1>0, <1>1, <2>1, <2>2, <2>5
<1>3. CASE ~ \E c \in MyConn : ServeHello(c)
  <2>1. conn # NoConn => Served(conn) /\ Known(conn) /\ ~Admitting(conn)
                         /\ Part(up'[conn], up[conn])
    <3> SUFFICES ASSUME conn # NoConn
                 PROVE  Served(conn) /\ Known(conn) /\ ~Admitting(conn)
                        /\ Part(up'[conn], up[conn])
      OBVIOUS
    <3>1. CASE (Peers \/ Process) /\ UNCHANGED sidecarVars
      <4>1. up' = up
        BY <3>1 DEF sidecarVars, clientVars
      <4> QED BY <1>0, <3>1, <4>1, OthersStep, PartOfNone
    <3>2. ASSUME NEW c \in MyConn, ServeDisconnect(c)
          PROVE  Served(conn) /\ Known(conn) /\ ~Admitting(conn)
                 /\ Part(up'[conn], up[conn])
      <4>1. up[c] # <<>> /\ up' = [up EXCEPT ![c] = Tail(@)] /\ UpOK
        BY <3>2, SideTypes DEF ServeDisconnect, Consume
      <4>2. CASE c = conn
        <5>1. Part(Tail(up[conn]), up[conn])
          BY <1>0, <4>1, <4>2, PartOfTail DEF UpOK
        <5>2. Part(up'[conn], up[conn])
          BY <1>0, <4>1, <4>2, <5>1 DEF UpOK
        <5> QED BY <1>0, <3>2, <5>2, ServeOtherStep
      <4>3. CASE c # conn
        <5>1. up'[conn] = up[conn]
          BY <1>0, <4>1, <4>3 DEF UpOK
        <5> QED BY <1>0, <3>2, <5>1, ServeOtherStep, PartOfNone
      <4> QED BY <4>2, <4>3
    <3>3. CASE \/ \E c \in MyConn : MyTransportLost(c)
               \/ \E seq \in 1..MaxSeqNo : MyState(seq)
      <4>1. up' = up
        BY <3>3 DEF MyTransportLost, MyState, sidecarVars, clientVars
      <4> QED BY <1>0, <3>3, <4>1, ServeOtherStep, PartOfNone
    <3> QED BY <1>3, <3>1, <3>2, <3>3 DEF Coordinate
  <2>4. conn = NoConn => ~Admitting(conn)
    BY <1>0, SideTypes, Constants DEF Admitting, CoordinatorOK, SessionTypeOK
  <2>5. ConnOK'
    BY <1>0, <1>1, <2>1, <2>4, ConnServed
  <2> QED BY <1>0, <1>1, <2>1, <2>5
<1> QED BY <1>2, <1>3

\* The network's losses.
LEMMA ConnNetwork ==
  ASSUME SideOK, ConnOK, Network \/ \E c \in MyConn : Discard(c)
  PROVE  ConnOK'
<1>0. /\ rel \in [Watched -> Seq(ReliableMsg)] /\ unrel \in [Watched -> Seq(StateMsg)]
      /\ up \in [MyConn -> Seq(UpMsg)] /\ MyConn \subseteq Watched
      /\ (conn # NoConn => conn \in MyConn)
  BY SideTypes, Constants DEF CoordinatorOK, SessionTypeOK, UpOK
<1>1. UNCHANGED <<session, registered, members, conn, inc, net, assigned, events>>
  BY DEF Network, LoseState, LoseReliable, Discard, OthersOfSidecar, dialVars, tables,
         sidecarVars, clientVars
<1>2. net' = "connected" => net = "connected" /\ UNCHANGED assigned
  BY <1>1
<1>3. net = "connected" /\ conn # NoConn => EventsFit'
  BY <1>1 DEF ConnOK, ConnectedOK, EventsFit, MessageFits
<1>4. CASE conn = NoConn
  BY <1>1, <1>4 DEF ConnOK
<1>5. CASE conn # NoConn
  <2>1. Part(rel'[conn], rel[conn]) /\ Part(unrel'[conn], unrel[conn])
        /\ Part(up'[conn], up[conn])
    <3>1. ASSUME NEW c \in MyConn, LoseState(c)
          PROVE  Part(rel'[conn], rel[conn]) /\ Part(unrel'[conn], unrel[conn])
                 /\ Part(up'[conn], up[conn])
      <4>1. /\ unrel[c] # <<>> /\ unrel' = [unrel EXCEPT ![c] = Tail(@)]
            /\ rel' = rel /\ up' = up
        BY <3>1 DEF LoseState, sidecarVars, clientVars
      <4>2. unrel'[conn] = unrel[conn]
            \/ (unrel[conn] # <<>> /\ unrel'[conn] = Tail(unrel[conn]))
        BY <1>0, <1>5, <4>1
      <4>3. unrel[conn] \in Seq(StateMsg)
        BY <1>0, <1>5
      <4>4. Part(unrel'[conn], unrel[conn])
        BY <4>2, <4>3, PartOfTail, PartOfNone
      <4> QED BY <4>1, <4>4, PartOfNone
    <3>2. ASSUME NEW c \in MyConn, LoseReliable(c)
          PROVE  Part(rel'[conn], rel[conn]) /\ Part(unrel'[conn], unrel[conn])
                 /\ Part(up'[conn], up[conn])
      <4>1. /\ rel' = [rel EXCEPT ![c] = <<>>] /\ unrel' = unrel /\ up' = up
        BY <3>2 DEF LoseReliable, sidecarVars, clientVars
      <4>2. rel'[conn] = rel[conn] \/ rel'[conn] = <<>>
        BY <1>0, <1>5, <4>1
      <4>4. Part(rel'[conn], rel[conn])
        BY <4>2, PartOfNone
      <4> QED BY <4>1, <4>4, PartOfNone
    <3>3. ASSUME NEW c \in MyConn, Discard(c)
          PROVE  Part(rel'[conn], rel[conn]) /\ Part(unrel'[conn], unrel[conn])
                 /\ Part(up'[conn], up[conn])
      <4>1. /\ rel' = [rel EXCEPT ![c] = IF c # conn THEN <<>> ELSE @]
            /\ unrel' = [unrel EXCEPT ![c] = IF c # conn THEN <<>> ELSE @]
            /\ up' = [up EXCEPT ![c] = IF c \notin registered THEN <<>> ELSE @]
        BY <3>3 DEF Discard
      <4>2. /\ rel'[conn] = rel[conn] /\ unrel'[conn] = unrel[conn]
            /\ up'[conn] = up[conn] \/ up'[conn] = <<>>
        BY <1>0, <1>5, <4>1
      <4> QED BY <4>2, PartOfNone
    <3> QED BY <3>1, <3>2, <3>3 DEF Network
  <2> QED BY <1>1, <1>2, <1>3, <1>5, <2>1, ConnNarrow
<1> QED BY <1>4, <1>5

(* A message that fits joins the events.                                   *)
LEMMA EventsFitMore ==
  ASSUME ClientTypes, EventsFit, UNCHANGED <<assigned, inc>>, NEW m, MessageFits(m),
         events' = Append(events, MessageEvent(m))
  PROVE  EventsFit'
<1>1. \A i \in 1..Len(events') :
        (i \in 1..Len(events) /\ events'[i] = events[i]) \/ events'[i] = MessageEvent(m)
  <2> TAKE i \in 1..Len(events')
  <2>1. Len(events') = Len(events) + 1 /\ Len(events) \in Nat
    BY Emitted
  <2>2. i \in 1..Len(events) \/ i = Len(events')
    BY <2>1
  <2> QED BY <2>2, Emitted
<1>2. MessageEvent(m).msg = m
  BY DEF MessageEvent
<1>3. \A i \in 1..Len(events') :
        events'[i].kind = "message" => MessageFits(events'[i].msg)
  BY <1>1, <1>2 DEF EventsFit
<1>4. \A x : MessageFits(x) => MessageFits(x)'
  BY DEF MessageFits
<1>5. \A i \in 1..Len(events') :
        events'[i].kind = "message" => MessageFits(events[i].msg)'
  <2> TAKE i \in 1..Len(events')
  <2>1. PICK x : x = events'[i].msg
    OBVIOUS
  <2>2. events'[i].kind = "message" => MessageFits(x)'
    BY <1>3, <1>4, <2>1
  <2> QED BY <2>1, <2>2 DEF MessageFits
<1> QED BY <1>5 DEF EventsFit

\* The rest of a batch.
LEMMA EventsFitTail ==
  ASSUME ClientTypes, EventsFit, UNCHANGED <<assigned, inc>>, events # <<>>,
         events' = Tail(events)
  PROVE  EventsFit'
<1>1. \A i \in 1..Len(events') : i + 1 \in 1..Len(events) /\ events'[i] = events[i + 1]
  BY TailType DEF ClientTypes
<1>2. \A i \in 1..Len(events') :
        events'[i].kind = "message" => MessageFits(events'[i].msg)
  BY <1>1 DEF EventsFit
<1> QED BY <1>2 DEF EventsFit, MessageFits

\* A new transport has neither packets nor a member.
LEMMA ConnDial ==
  ASSUME SideOK, NEW c \in MyConn, NEW i \in Incarnation, ConnectNew(c, i)
  PROVE  ConnOK'
<1>1. /\ rel' = rel /\ unrel' = unrel /\ up' = up /\ members' = members
      /\ rel[c] = <<>> /\ unrel[c] = <<>> /\ up[c] = <<>> /\ c \notin registered
      /\ conn' = c /\ net' = "connecting"
  BY DEF ConnectNew, sessionVars
<1>2. ~Member(c)
  BY <1>1, SideTypes, MemberTypes DEF Member, CoordinatorOK
<1>3. 1..Len(<<>>) = {}
  OBVIOUS
<1> QED BY <1>1, <1>2, <1>3 DEF ConnOK, MineOK, HellosOK, WelcomesOK, ConnectedOK, Member

\* The hello carries the incarnation and the name of the sidecar.
LEMMA ConnShake ==
  ASSUME SideOK, ConnOK, Shake
  PROVE  ConnOK'
<1>1. PICK flaw \in MyFlaws : Handshake(flaw)
  BY DEF Shake
<1>2. /\ net' = "connecting" /\ conn \in MyConn /\ conn # NoConn
      /\ UNCHANGED <<session, members, rel, unrel, conn, inc>>
  BY <1>1, SideTypes DEF Handshake, Connect
<1>3. /\ up'[conn] = <<[type |-> "hello",
                        hello |-> [name |-> MyName, inc |-> inc, flaw |-> flaw]]>>
  BY <1>1, <1>2, SideTypes DEF Handshake, UpOK
<1>4. HellosOK'
  BY <1>2, <1>3 DEF HellosOK
<1>5. MineOK /\ WelcomesOK
  BY <1>2 DEF ConnOK
<1>6. MineOK' /\ WelcomesOK'
  BY <1>2, <1>5 DEF MineOK, WelcomesOK, Terms, Member
<1> QED BY <1>2, <1>4, <1>6 DEF ConnOK, ConnectedOK

\* A reliable packet read: the welcome settles the terms, and what is left of
\* the channel is in them.
LEMMA ConnReliable ==
  ASSUME SideOK, ClientOK, ConnOK, ServiceReliable
  PROVE  ConnOK'
<1> DEFINE m == Head(rel[conn])
<1>0. TypesOK /\ ClientTypes
  BY SideTypes DEF SideOK
<1>1. /\ conn \in MyConn /\ conn \in Watched /\ rel[conn] # <<>>
      /\ rel[conn] \in Seq(ReliableMsg) /\ m \in ReliableMsg /\ Packet(m)
      /\ rel'[conn] = Tail(rel[conn])
      /\ UNCHANGED <<now, session, running, tables, nextSnapshot, unrel,
                     up, dialVars, phase, adapterVars>>
  BY <1>0, ReadReliable
<1>2. UNCHANGED <<session, registered, members, inc, unrel, up>>
  BY <1>1 DEF tables, dialVars
<1>3. m = rel[conn][1] /\ 1 \in 1..Len(rel[conn])
  BY <1>1, TailType
<1>4. conn # NoConn /\ MineOK /\ HellosOK /\ WelcomesOK /\ ConnectedOK
  BY <1>1, Constants DEF ConnOK
<1>5. CASE conn' = NoConn
  BY <1>5 DEF ConnOK
<1>6. CASE conn' # NoConn
  <2>1. conn' = conn
    BY <1>1, <1>6 DEF Packet, OnWelcome, OnDisconnect, OnClosed, OnGameplay, Violate
  <2>2. Part(rel'[conn], rel[conn]) /\ Part(unrel'[conn], unrel[conn])
        /\ Part(up'[conn], up[conn])
    BY <1>1, <1>2, PartOfTail, PartOfNone
  <2>3. CASE net' # "connected"
    BY <1>2, <2>1, <2>2, <2>3, ConnNarrow
  <2>4. CASE net' = "connected" /\ net = "connected"
    <3>1. OnGameplay(m)
      BY <1>1, <2>4 DEF Packet, OnWelcome, OnDisconnect, OnClosed, Violate
    <3>2. events' = Append(events, MessageEvent(m)) /\ UNCHANGED assigned
      BY <2>4, <3>1 DEF OnGameplay, Emit
    <3>3. MessageFits(m)
      <4>1. m.type \in {"joined", "left", "pong"}
        BY <1>1, <3>1 DEF OnGameplay, ReliableMsg
      <4>2. Apart(m, assigned.pid)
        BY <1>3, <1>4, <2>4 DEF ConnectedOK, Terms
      <4> QED BY <4>1, <4>2 DEF MessageFits
    <3>4. EventsFit'
      BY <1>0, <1>2, <1>4, <2>4, <3>2, <3>3, EventsFitMore DEF ConnectedOK
    <3> QED BY <1>2, <2>1, <2>2, <2>4, <3>2, <3>4, ConnNarrow
  <2>5. CASE net' = "connected" /\ net # "connected"
    <3>1. OnWelcome(m) /\ net = "connecting"
      BY <1>1, <2>5 DEF Packet, OnWelcome, OnDisconnect, OnClosed, OnGameplay, Violate
    <3>2. /\ m.type = "welcome" /\ assigned' = [session |-> m.session, pid |-> m.pid]
          /\ events' = Append(events, [kind |-> "connected"]) /\ events = <<>>
      BY <3>1 DEF OnWelcome, Emit, ClientOK
    <3>3. /\ Len(events') = 1 /\ events'[1].kind = "connected"
      BY <1>0, <3>2, Emitted
    <3>4. EventsFit'
      BY <3>3 DEF EventsFit
    <3>5. Terms(m.session, m.pid)
      BY <1>3, <1>4, <3>2 DEF WelcomesOK
    <3>6. PICK w : w = m
      OBVIOUS
    <3>7. Terms(w.session, w.pid)'
      BY <1>2, <2>1, <2>2, <3>5, <3>6, TermsNarrow
    <3>8. Terms(assigned.session, assigned.pid)'
      BY <3>2, <3>6, <3>7 DEF Terms
    <3>9. conn \in registered => Member(conn)
      BY <1>1, SideTypes DEF CoordinatorOK, UnwelcomedOK
    <3>10. ConnectedOK'
      BY <1>2, <2>1, <3>4, <3>8, <3>9 DEF ConnectedOK, Member
    <3>11. MineOK' /\ HellosOK' /\ WelcomesOK'
      <4>1. \A s, p : Terms(s, p) => Terms(s, p)'
        BY <1>2, <2>1, <2>2, TermsNarrow
      <4>2. HellosOK'
        BY <1>2, <1>4, <2>1 DEF HellosOK
      <4>3. MineOK'
        <5>1. PICK a, b : a = session /\ b = members[conn].id.pid
          OBVIOUS
        <5>2. Member(conn) => Terms(a, b)'
          BY <1>4, <4>1, <5>1 DEF MineOK
        <5> QED BY <1>2, <1>4, <2>1, <5>1, <5>2 DEF MineOK, Terms, Member
      <4>4. WelcomesOK'
        <5> SUFFICES ASSUME NEW i \in 1..Len(rel'[conn]), rel'[conn][i].type = "welcome"
                     PROVE  Terms(rel[conn][i].session, rel[conn][i].pid)'
          BY <2>1 DEF WelcomesOK
        <5>1. PICK j \in 1..Len(rel[conn]) : rel'[conn][i] = rel[conn][j]
          BY <2>2 DEF Part
        <5>2. PICK x : x = rel[conn][j]
          OBVIOUS
        <5>3. Terms(x.session, x.pid)'
          BY <1>4, <4>1, <5>1, <5>2 DEF WelcomesOK
        <5> QED BY <2>1, <5>1, <5>2, <5>3 DEF Terms
      <4> QED BY <4>2, <4>3, <4>4
    <3> QED BY <3>10, <3>11 DEF ConnOK
  <2> QED BY <2>3, <2>4, <2>5
<1> QED BY <1>5, <1>6

\* A datagram read, which may have overtaken the welcome.
LEMMA ConnState ==
  ASSUME SideOK, ClientOK, ConnOK, ServiceState
  PROVE  ConnOK'
<1> DEFINE m == Head(unrel[conn])
<1>0. TypesOK /\ ClientTypes
  BY SideTypes DEF SideOK
<1>1. /\ conn \in MyConn /\ conn \in Watched /\ unrel[conn] # <<>>
      /\ unrel[conn] \in Seq(StateMsg) /\ m \in StateMsg /\ OnGameplay(m)
      /\ unrel'[conn] = Tail(unrel[conn])
      /\ UNCHANGED <<now, session, running, tables, nextSnapshot, rel,
                     up, dialVars, phase, adapterVars>>
  BY <1>0, ReadState
<1>2. UNCHANGED <<session, registered, members, inc, rel, up, conn>>
  BY <1>1 DEF tables, dialVars, OnGameplay, Violate
<1>3. m = unrel[conn][1] /\ 1 \in 1..Len(unrel[conn])
  BY <1>1, TailType
<1>4. conn # NoConn /\ ConnectedOK
  BY <1>1, Constants DEF ConnOK
<1>5. Part(rel'[conn], rel[conn]) /\ Part(unrel'[conn], unrel[conn])
      /\ Part(up'[conn], up[conn])
  BY <1>1, <1>2, PartOfTail, PartOfNone
<1>6. CASE net' # "connected"
  BY <1>2, <1>5, <1>6, ConnNarrow
<1>7. CASE net' = "connected"
  <2>1. net = "connected" /\ events' = Append(events, MessageEvent(m))
        /\ UNCHANGED assigned
    BY <1>1, <1>7 DEF OnGameplay, Violate, Emit
  <2>2. MessageFits(m)
    <3>1. m.type \in {"state", "snapshot"}
      BY <1>1 DEF StateMsg
    <3>2. Fits(m, assigned.session, assigned.pid, inc)
      BY <1>3, <1>4, <2>1 DEF ConnectedOK, Terms
    <3> QED BY <3>1, <3>2 DEF MessageFits
  <2>3. EventsFit'
    BY <1>0, <1>2, <1>4, <2>1, <2>2, EventsFitMore DEF ConnectedOK
  <2> QED BY <1>2, <1>5, <2>1, <2>3, ConnNarrow
<1> QED BY <1>6, <1>7

(* The steps of the thread that touch neither table nor queue.             *)
LEMMA ConnQuiet ==
  ASSUME SideOK, ConnOK, UNCHANGED <<session, registered, members, rel, unrel, up, inc>>,
         conn' = conn \/ conn' = NoConn,
         net' = "connected" => net = "connected" /\ UNCHANGED assigned,
         \/ events' = events
         \/ events # <<>> /\ events' = Tail(events)
         \/ net' # "connected"
  PROVE  ConnOK'
<1>1. CASE conn' = NoConn
  BY <1>1 DEF ConnOK
<1>2. CASE conn' = conn /\ conn # NoConn
  <2>1. net' = "connected" => EventsFit'
    <3> SUFFICES ASSUME net' = "connected" PROVE EventsFit'
      OBVIOUS
    <3>1. EventsFit /\ UNCHANGED <<assigned, inc>>
      BY <1>2 DEF ConnOK, ConnectedOK
    <3>2. CASE events' = events
      BY <3>1, <3>2 DEF EventsFit, MessageFits
    <3>3. CASE events # <<>> /\ events' = Tail(events)
      BY <3>1, <3>3, SideTypes, EventsFitTail
    <3> QED BY <3>2, <3>3
  <2>2. Part(rel'[conn], rel[conn]) /\ Part(unrel'[conn], unrel[conn])
        /\ Part(up'[conn], up[conn])
    BY PartOfNone
  <2> QED BY <1>2, <2>1, <2>2, ConnNarrow
<1> QED BY <1>1, <1>2

\* The rest of the thread.
LEMMA ConnThread ==
  ASSUME SideOK, ClientOK, ConnOK, Thread \/ Misuse \/ UNCHANGED vars
  PROVE  ConnOK'
<1>1. CASE Misuse \/ HandleFlawed
  <2>1. conn' = NoConn
    BY <1>1, MisuseStep
  <2> QED BY <2>1 DEF ConnOK
<1>2. CASE Dial
  BY <1>2, ConnDial DEF Dial
<1>3. CASE Shake
  BY <1>3, ConnShake
<1>4. CASE Poll
  <2>1. CASE ServiceReliable
    BY <2>1, ConnReliable
  <2>2. CASE ServiceState
    BY <2>2, ConnState
  <2>3. CASE ServiceLost
    BY <2>3 DEF ServiceLost, OnClosed, ConnOK
  <2>4. CASE ServiceFailed \/ ConnectTimeout
    BY <2>4, ConnQuiet DEF ServiceFailed, ConnectTimeout, sessionVars, dialVars
  <2>5. CASE PollBegin \/ PollEnd
    BY <2>5, ConnQuiet DEF PollBegin, PollEnd, sessionVars, clientVars, dialVars
  <2> QED BY <1>4, <2>1, <2>2, <2>3, <2>4, <2>5 DEF Poll, Abandoned
<1>5. CASE HandleConnected
  BY <1>5, ConnQuiet DEF HandleConnected, Handling, Handled, sessionVars, clientVars, dialVars
<1>6. CASE HandleJoined \/ HandleLeft \/ HandleStates
  BY <1>6, ConnQuiet DEF HandleJoined, HandleLeft, HandleStates, HandleFine,
     Handling, Handled, sessionVars, clientVars, dialVars
<1>7. CASE HandleRejected \/ HandleViolation \/ HandleDisconnected \/ HandleError
  <2>1. events # <<>> /\ events' = Tail(events)
    BY <1>7 DEF HandleRejected, HandleViolation, HandleDisconnected, HandleError,
                Handling, Handled
  <2>2. /\ UNCHANGED <<sessionVars, up, dialVars>>
        /\ ResetClient \/ UNCHANGED <<net, conn, assigned>>
    BY <1>7 DEF HandleRejected, HandleViolation, HandleDisconnected, HandleError
  <2> QED BY <2>1, <2>2, ConnQuiet DEF ResetClient, sessionVars, dialVars
<1>8. CASE Silence
  <2>1. UNCHANGED <<sessionVars, clientVars, events>>
    BY <1>8 DEF Silence, PumpEnd, PumpIdle, UpdateLiveness
  <2> QED BY <2>1, ConnQuiet DEF sessionVars, clientVars, dialVars
<1>9. CASE FirstSample
  BY <1>9, ConnQuiet DEF FirstSample, sessionVars, clientVars, dialVars
<1>10. CASE UNCHANGED vars
  BY <1>10, ConnQuiet DEF vars, sidecarVars, sessionVars, clientVars, dialVars
<1> QED BY <1>1, <1>2, <1>3, <1>4, <1>5, <1>6, <1>7, <1>8, <1>9, <1>10 DEF Thread, Handle

\* The invariant of the relay.
RelayOK == SideOK /\ ClientOK /\ ConnOK

\* At the start.
LEMMA RelayInit == Init => RelayOK
<1>1. ASSUME Init PROVE ClientOK /\ ConnOK
  BY <1>1 DEF Init, SidecarInit, ClientOK, ConnOK
<1> QED BY <1>1, SideInit DEF RelayOK

\* The three invariants together are inductive.
LEMMA RelayNext == RelayOK /\ [Next]_vars => RelayOK'
<1> SUFFICES ASSUME RelayOK, [Next]_vars PROVE RelayOK'
  OBVIOUS
<1>0. SideOK /\ ClientOK /\ ConnOK
  BY DEF RelayOK
<1>1. SideOK' /\ ClientOK'
  BY <1>0, SideNext, ClientStep
<1>2. ConnOK'
  BY <1>0, <1>1, ConnOutside, ConnNetwork, ConnThread DEF Next, Proceed
<1> QED BY <1>1, <1>2 DEF RelayOK

-----------------------------------------------------------------------------
(* What is on its way to the adapter.                                      *)

\* The packets the client still takes.
Coming == IF Listening THEN rel[conn] ELSE <<>>

\* The way is the batch and, behind it, the channel.
WayOK ==
  /\ Len(events) \in Nat /\ Len(Coming) \in Nat /\ Len(Way) \in Nat
  /\ Len(Way) = Len(events) + Len(Coming)
  /\ \A i \in 1..Len(events) : Way[i] = Polled(events[i])
  /\ \A i \in 1..Len(Coming) : Way[Len(events) + i] = Coming[i]
  /\ PeersIn(Way)
  /\ View \in SUBSET Identity

\* They follow from the types.
LEMMA WayFacts == SideOK => WayOK
<1> SUFFICES ASSUME SideOK PROVE WayOK
  OBVIOUS
<1> DEFINE M == ReliableMsg \cup StateMsg
           P == M \cup {[type |-> "welcome"], [type |-> "none"]}
           polled == [i \in 1..Len(events) |-> Polled(events[i])]
<1>0. /\ events \in Seq(Event) /\ RemotesOK
      /\ (conn # NoConn => conn \in Watched /\ rel[conn] \in Seq(ReliableMsg))
  BY SideTypes, Constants DEF CoordinatorOK, SessionTypeOK
<1>1. \A e \in Event : Polled(e) \in P
  <2> TAKE e \in Event
  <2>1. CASE e.kind = "message"
    <3>1. e.msg \in M
      BY <2>1 DEF Event
    <3> QED BY <2>1, <3>1 DEF Polled
  <2>2. CASE e.kind = "connected"
    BY <2>2 DEF Polled
  <2>3. CASE e.kind # "message" /\ e.kind # "connected"
    BY <2>3 DEF Polled
  <2> QED BY <2>1, <2>2, <2>3
<1>2. Coming \in Seq(M)
  <2>1. CASE Listening
    <3>1. rel[conn] \in Seq(ReliableMsg)
      BY <1>0, <2>1 DEF Listening
    <3> QED BY <2>1, <3>1 DEF Coming
  <2>2. CASE ~Listening
    <3>1. <<>> \in Seq(M)
      OBVIOUS
    <3> QED BY <2>2, <3>1 DEF Coming
  <2> QED BY <2>1, <2>2
<1>3. Len(events) \in Nat /\ \A i \in 1..Len(events) : events[i] \in Event
  BY <1>0
<1>4. polled \in Seq(P) /\ Len(polled) = Len(events)
      /\ \A i \in 1..Len(events) : polled[i] = Polled(events[i])
  BY <1>1, <1>3
<1>5. Way = polled \o Coming
  BY DEF Way, Coming
<1>6. Coming \in Seq(P)
  BY <1>2
<1> HIDE DEF polled, P
<1>7. /\ Len(Way) = Len(events) + Len(Coming) /\ Len(Coming) \in Nat
      /\ \A i \in 1..Len(events) : Way[i] = polled[i]
      /\ \A i \in 1..Len(Coming) : Way[Len(events) + i] = Coming[i]
      /\ \A i \in 1..Len(Way) : Way[i] \in P
  <2>1. PICK a, b : a = polled /\ b = Coming
    OBVIOUS
  <2>2. a \in Seq(P) /\ b \in Seq(P) /\ Way = a \o b /\ Len(a) = Len(events)
    BY <1>4, <1>5, <1>6, <2>1
  <2>a. a \o b \in Seq(P) /\ Len(a \o b) = Len(a) + Len(b)
    BY <2>2, ConcatProperties
  <2>b. Len(b) \in Nat /\ Len(a) \in Nat
    BY <2>2
  <2>3. Way \in Seq(P) /\ Len(Way) = Len(a) + Len(b) /\ Len(b) \in Nat /\ Len(a) \in Nat
    BY <2>2, <2>a, <2>b
  <2>4. \A i \in 1..Len(a) : Way[i] = a[i]
    BY <2>2
  <2>5. \A i \in 1..Len(b) : Way[Len(a) + i] = b[i]
    BY <2>2
  <2>6. \A i \in 1..Len(Way) : Way[i] \in P
    BY <2>3
  <2> QED BY <2>1, <2>2, <2>3, <2>4, <2>5, <2>6
<1>8. \A m \in P : m.type = "joined" => m.peer \in Identity
  BY DEF P, ReliableMsg, StateMsg
<1>9. PeersIn(Way)
  BY <1>7, <1>8 DEF PeersIn
<1>10. View \in SUBSET Identity
  BY <1>0 DEF RemotesOK, View, Identity, Remote
<1> QED BY <1>3, <1>4, <1>7, <1>9, <1>10 DEF WayOK

\* Also after a step.
LEMMA WayPrimed == SideOK' => WayOK'
  BY WayFacts, PTL

\* Lag without its name, before and after a step.
LEMMA Lags ==
  Lag = Tail(Rosters(View, Way)) /\ Lag' = Tail(Rosters(View', Way'))
  BY DEF Lag

\* The rosters on the way are typed, and as many as there are told.
LEMMA LagType ==
  ASSUME WayOK
  PROVE  /\ Rosters(View, Way) \in Seq(SUBSET Identity)
         /\ Rosters(View, Way) # <<>> /\ Rosters(View, Way)[1] = View
         /\ Lag \in Seq(SUBSET Identity)
         /\ Len(Lag) \in Nat /\ Len(Rosters(View, Way)) = Len(Lag) + 1
         /\ \A i \in 1..Len(Lag) : Lag[i] = Rosters(View, Way)[i + 1]
<1>1. /\ Rosters(View, Way) \in Seq(SUBSET Identity)
      /\ Rosters(View, Way) # <<>> /\ Rosters(View, Way)[1] = View
  BY RostersType DEF WayOK
<1> HIDE DEF Rosters
<1> QED BY <1>1, TailType DEF Lag

(* Both ways tell the same up to k, and nothing after it.                  *)
LEMMA LagSame ==
  ASSUME WayOK, WayOK', View' = View, NEW k \in Nat, k <= Len(Way), k <= Len(Way'),
         \A i \in 1..k : Way'[i] = Way[i],
         \A i \in (k + 1)..Len(Way) : ~Membership(Way[i]),
         \A i \in (k + 1)..Len(Way') : ~Membership(Way'[i])
  PROVE  Lag' = Lag
<1> DEFINE part == [i \in 1..k |-> Way[i]]
<1>0. Len(part) = k /\ (\A i \in 1..k : part[i] = Way[i]) /\ Len(Way) \in Nat
      /\ Len(Way') \in Nat /\ \A i \in 1..k : Way'[i] = part[i]
  BY DEF WayOK
<1> HIDE DEF part
<1>1. Rosters(View, Way) = Rosters(View, part)
  BY <1>0, RostersQuiet
<1>2. Rosters(View, Way') = Rosters(View, part)
  BY <1>0, RostersQuiet
<1> QED BY <1>1, <1>2, Lags

(* What follows k is lost.                                                 *)
LEMMA LagCut ==
  ASSUME WayOK, WayOK', View' = View, NEW k \in Nat, k <= Len(Way), k <= Len(Way'),
         \A i \in 1..k : Way'[i] = Way[i],
         \A i \in (k + 1)..Len(Way') : ~Membership(Way'[i])
  PROVE  \E n \in 0..Len(Lag) : Lag' = SubSeq(Lag, 1, n)
<1> DEFINE part == [i \in 1..k |-> Way[i]]
           r == Rosters(View, Way)
           s == Rosters(View, part)
<1>0. Len(part) = k /\ (\A i \in 1..k : part[i] = Way[i]) /\ Len(Way) \in Nat
      /\ Len(Way') \in Nat /\ (\A i \in 1..k : Way'[i] = part[i])
      /\ PeersIn(Way) /\ View \in SUBSET Identity
  BY DEF WayOK
<1> HIDE DEF part
<1>1. Rosters(View, Way') = s
  BY <1>0, RostersQuiet
<1>2. Len(s) \in 1..Len(r) /\ s = SubSeq(r, 1, Len(s))
  BY <1>0, RostersPrefix
<1>3. Lag' = Tail(s) /\ Lag = Tail(r)
  BY <1>1, Lags
<1>4. r \in Seq(SUBSET Identity) /\ r # <<>>
  BY LagType
<1> HIDE DEF r, s
<1>5. Len(r) \in Nat /\ Len(s) \in Nat /\ Len(s) >= 1 /\ Len(s) <= Len(r)
  BY <1>2, <1>4
<1>6. Tail(SubSeq(r, 1, Len(s))) = SubSeq(Tail(r), 1, Len(s) - 1)
  BY <1>4, <1>5
<1>7. Len(s) - 1 \in 0..Len(Tail(r))
  BY <1>4, <1>5
<1> QED BY <1>2, <1>3, <1>6, <1>7

(* The first of the way is read.                                           *)
LEMMA LagRead ==
  ASSUME WayOK, WayOK', Len(Way) # 0, Len(Way') = Len(Way) - 1,
         \A i \in 1..Len(Way') : Way'[i] = Way[i + 1],
         View' = IF Membership(Way[1]) THEN After(View, Way[1]) ELSE View
  PROVE  IF Membership(Way[1])
         THEN Lag # <<>> /\ View' = Head(Lag) /\ Lag' = Tail(Lag)
         ELSE Lag' = Lag
<1>0. /\ Len(Way) \in Nat /\ PeersIn(Way) /\ View \in SUBSET Identity
  BY DEF WayOK
<1>1. CASE ~Membership(Way[1])
  <2>1. Rosters(View, Way) = Rosters(View, Way')
    BY <1>0, <1>1, RostersTail
  <2> QED BY <1>1, <2>1, Lags
<1>2. CASE Membership(Way[1])
  <2>1. Rosters(View, Way) = <<View>> \o Rosters(View', Way')
    BY <1>0, <1>2, RostersTail
  <2>2. /\ Rosters(View', Way') \in Seq(SUBSET Identity)
        /\ Rosters(View', Way') # <<>> /\ Rosters(View', Way')[1] = View'
    BY RostersType DEF WayOK
  <2>3. PICK s, v : s = Rosters(View', Way') /\ v = View
    OBVIOUS
  <2>4. Lag = Tail(<<v>> \o s) /\ Lag' = Tail(s)
    BY <2>1, <2>3, Lags
  <2>5. s \in Seq(SUBSET Identity) /\ s # <<>> /\ s[1] = View' /\ v \in SUBSET Identity
    BY <1>0, <2>2, <2>3
  <2>6. Tail(<<v>> \o s) = s /\ Head(s) = s[1]
    BY <2>5
  <2> QED BY <1>2, <2>4, <2>5, <2>6
<1> QED BY <1>1, <1>2

(* A membership message joins the way.                                     *)
LEMMA LagMore ==
  ASSUME WayOK, WayOK', View' = View, Len(Way') = Len(Way) + 1,
         \A i \in 1..Len(Way) : Way'[i] = Way[i], Membership(Way'[Len(Way')])
  PROVE  Lag' = Append(Lag, After(IF Lag = <<>> THEN View ELSE Lag[Len(Lag)],
                                  Way'[Len(Way')]))
<1> DEFINE r == Rosters(View, Way)
           m == Way'[Len(Way')]
           last == IF Lag = <<>> THEN View ELSE Lag[Len(Lag)]
<1>0. /\ Len(Way) \in Nat /\ Len(Way') \in Nat /\ Len(Way') \in 1..Len(Way')
      /\ View \in SUBSET Identity
  BY DEF WayOK
<1>1. Rosters(View, Way') = Told(r, m)
  BY <1>0, RostersSnoc
<1>2. /\ r \in Seq(SUBSET Identity) /\ r # <<>> /\ r[1] = View
      /\ Lag = Tail(r) /\ Len(Lag) \in Nat /\ Len(r) = Len(Lag) + 1
      /\ \A i \in 1..Len(Lag) : Lag[i] = r[i + 1]
  BY LagType, Lags
<1>3. m.type = "joined" => m.peer \in Identity
  BY <1>0 DEF WayOK, PeersIn
<1>4. r[Len(r)] = last
  <2>1. CASE Lag = <<>>
    <3>1. Len(Lag) = 0
      BY <2>1
    <3> QED BY <1>2, <2>1, <3>1
  <2>2. CASE Lag # <<>>
    <3>1. Lag \in Seq(SUBSET Identity)
      BY LagType
    <3>2. Len(Lag) # 0
      BY <2>2, <3>1
    <3>3. Len(Lag) \in 1..Len(Lag)
      BY <1>2, <3>2
    <3> QED BY <1>2, <2>2, <3>3
  <2> QED BY <2>1, <2>2
<1>5. r[Len(r)] \in SUBSET Identity
  BY <1>2
<1>6. After(last, m) \in SUBSET Identity
  BY <1>3, <1>4, <1>5, AfterType
<1>7. Told(r, m) = Append(r, After(last, m))
  BY <1>4 DEF Told
<1> HIDE DEF r, m, last
<1>8. Tail(Append(r, After(last, m))) = Append(Tail(r), After(last, m))
  BY <1>2, <1>6
<1>9. Lag' = Append(Lag, After(last, m))
  BY <1>1, <1>2, <1>7, <1>8, Lags
<1> QED BY <1>9 DEF last, m

(* A message that is not of membership comes in between.                   *)
LEMMA LagSkip ==
  ASSUME WayOK, WayOK', View' = View, NEW k \in Nat, k <= Len(Way),
         Len(Way') = Len(Way) + 1, \A i \in 1..k : Way'[i] = Way[i],
         ~Membership(Way'[k + 1]),
         \A i \in (k + 2)..Len(Way') : Way'[i] = Way[i - 1]
  PROVE  Lag' = Lag
<1>1. PICK a, b, v : a = Way /\ b = Way' /\ v = View
  OBVIOUS
<1>2. /\ Len(a) \in Nat /\ k <= Len(a) /\ Len(b) = Len(a) + 1
      /\ \A i \in 1..k : b[i] = a[i]
      /\ ~Membership(b[k + 1])
      /\ \A i \in (k + 2)..Len(b) : b[i] = a[i - 1]
  BY <1>1 DEF WayOK
<1>3. Rosters(v, b) = Rosters(v, a)
  BY <1>2, RostersSkip
<1> QED BY <1>1, <1>3, Lags

(* A welcome is taken out of the transport.                                *)
LEMMA LagConnected ==
  ASSUME WayOK, WayOK', View' = View, Len(Way) # 0, Len(Way') = Len(Way),
         Way[1].type = "welcome", Way'[1].type = "welcome",
         \A i \in 2..Len(Way) : Way'[i] = Way[i]
  PROVE  Lag' = Lag
<1>1. PICK a, b, v : a = Way /\ b = Way' /\ v = View
  OBVIOUS
<1> DEFINE rest == [i \in 1..(Len(a) - 1) |-> a[i + 1]]
<1>2. /\ Len(a) \in Nat /\ Len(a) # 0 /\ Len(b) = Len(a) /\ v \in SUBSET Identity
      /\ PeersIn(a) /\ PeersIn(b)
      /\ a[1].type = "welcome" /\ b[1].type = "welcome"
      /\ \A i \in 2..Len(a) : b[i] = a[i]
  BY <1>1 DEF WayOK
<1>3. /\ Len(rest) = Len(a) - 1 /\ Len(rest) = Len(b) - 1
      /\ \A i \in 1..Len(rest) : rest[i] = a[i + 1] /\ rest[i] = b[i + 1]
  <2>1. Len(a) - 1 \in Nat
    BY <1>2
  <2>2. Len(rest) = Len(a) - 1
    BY <2>1
  <2>3. \A i \in 1..Len(rest) : rest[i] = a[i + 1] /\ i + 1 \in 2..Len(a)
    BY <1>2, <2>1, <2>2
  <2> QED BY <1>2, <2>2, <2>3
<1> HIDE DEF rest
<1>4. /\ Membership(a[1]) /\ After(v, a[1]) = {}
      /\ Membership(b[1]) /\ After(v, b[1]) = {}
  BY <1>2 DEF Membership, After
<1>5. Rosters(v, a) = <<v>> \o Rosters({}, rest)
  <2>1. \A i \in 1..Len(rest) : rest[i] = a[i + 1]
    BY <1>3
  <2>2. Rosters(v, a) = <<v>> \o Rosters(After(v, a[1]), rest)
    BY <1>2, <1>3, <1>4, <2>1, RostersTail
  <2> QED BY <1>4, <2>2
<1>6. Rosters(v, b) = <<v>> \o Rosters({}, rest)
  <2>1. \A i \in 1..Len(rest) : rest[i] = b[i + 1]
    BY <1>3
  <2>2. Rosters(v, b) = <<v>> \o Rosters(After(v, b[1]), rest)
    BY <1>2, <1>3, <1>4, <2>1, RostersTail
  <2> QED BY <1>4, <2>2
<1> QED BY <1>1, <1>5, <1>6, Lags

(* One player more at every step.                                          *)
Climbs(s) ==
  \A i \in 2..Len(s) :
    \E p \in s[i] \ s[i - 1] : p \in Player /\ s[i] = s[i - 1] \cup {p}

\* From nobody to the n identities.
Ascent(s, id, n) ==
  /\ s \in Seq(SUBSET Player) /\ s # <<>>
  /\ s[1] = {} /\ s[Len(s)] = {id[j] : j \in 1..n}
  /\ Climbs(s)

\* The rosters told by a welcome and n announcements climb from nobody to the n.
LEMMA GrownTail ==
  ASSUME NEW before, NEW n \in Nat, NEW id, Among(id, n, Player), Distinct(id, n)
  PROVE  Ascent(Tail(Grown(before, id, n)), id, n)
<1> USE DEF Among, Distinct, Climbs
<1>0. PICK s : Tail(Grown(before, id, n)) = s
  OBVIOUS
<1> DEFINE set(i) == {id[j] : j \in 1..(i - 1)}
           t == [i \in 1..(n + 1) |-> set(i)]
<1>1. s = t
  <2> DEFINE g == Grown(before, id, n)
             S == {before} \cup SUBSET Player
  <2>1. g = [i \in 1..(n + 2) |-> IF i = 1 THEN before ELSE {id[j] : j \in 1..(i - 2)}]
    BY DEF Grown
  <2>a. \A i \in 1..(n + 2) : g[i] \in S
    <3> TAKE i \in 1..(n + 2)
    <3>1. \A j \in 1..(i - 2) : j \in 1..n
      OBVIOUS
    <3> QED BY <2>1, <3>1
  <2>b. g \in [1..(n + 2) -> S] /\ n + 2 \in Nat
    BY <2>1, <2>a
  <2>2. Len(g) = n + 2 /\ g \in Seq(S) /\ g # <<>>
    <3> HIDE DEF g, S
    <3>1. g \in Seq(S) /\ Len(g) = n + 2
      BY <2>b
    <3> QED BY <3>1
  <2>3. \A i \in 1..(n + 1) : g[i + 1] = set(i)
    <3> TAKE i \in 1..(n + 1)
    <3>1. i + 1 \in 1..(n + 2) /\ i + 1 # 1 /\ (i + 1) - 2 = i - 1
      OBVIOUS
    <3> QED BY <2>1, <3>1
  <2> HIDE DEF g, set, S
  <2>4. Tail(g) = [i \in 1..(n + 1) |-> g[i + 1]]
    <3>1. Tail(g) \in Seq(S) /\ Len(Tail(g)) = Len(g) - 1
          /\ \A i \in 1..(Len(g) - 1) : Tail(g)[i] = g[i + 1]
      BY <2>2, TailType
    <3>2. Len(g) - 1 = n + 1
      BY <2>2
    <3>3. PICK a, b : a = Tail(g) /\ b = S
      OBVIOUS
    <3>4. a \in Seq(b) /\ Len(a) = n + 1 /\ \A i \in 1..(n + 1) : a[i] = g[i + 1]
      BY <3>1, <3>2, <3>3
    <3>5. a = [i \in 1..(n + 1) |-> a[i]]
      BY <3>4
    <3>6. a = [i \in 1..(n + 1) |-> g[i + 1]]
      BY <3>4, <3>5
    <3> QED BY <3>3, <3>6
  <2> QED BY <1>0, <2>3, <2>4 DEF g
<1>2. \A i \in 1..(n + 1) : t[i] = set(i) /\ set(i) \in SUBSET Player
  OBVIOUS
<1> HIDE DEF set
<1>3. t \in Seq(SUBSET Player) /\ Len(t) = n + 1
  BY <1>2
<1>4. t[1] = {} /\ t[n + 1] = {id[j] : j \in 1..n}
  <2>1. set(1) = {} /\ set(n + 1) = {id[j] : j \in 1..n}
    BY DEF set
  <2>2. 1 \in 1..(n + 1) /\ n + 1 \in 1..(n + 1)
    OBVIOUS
  <2> QED BY <1>2, <2>1, <2>2
<1>5. ASSUME NEW i \in 2..(n + 1)
      PROVE  \E p \in t[i] \ t[i - 1] : p \in Player /\ t[i] = t[i - 1] \cup {p}
  <2>1. i \in 1..(n + 1) /\ i - 1 \in 1..(n + 1) /\ i - 1 \in 1..n
    OBVIOUS
  <2>2. set(i) = set(i - 1) \cup {id[i - 1]}
    <3>1. \A j \in 1..(i - 1) : j \in 1..((i - 1) - 1) \/ j = i - 1
      OBVIOUS
    <3>2. \A j \in 1..((i - 1) - 1) : j \in 1..(i - 1)
      OBVIOUS
    <3> QED BY <2>1, <3>1, <3>2 DEF set
  <2>3. id[i - 1] \notin set(i - 1)
    <3>1. \A j \in 1..((i - 1) - 1) : j \in 1..n /\ j # i - 1
      OBVIOUS
    <3> QED BY <2>1, <3>1 DEF set
  <2>4. id[i - 1] \in Player
    BY <2>1
  <2> QED BY <1>2, <2>1, <2>2, <2>3, <2>4
<1> HIDE DEF t
<1>6. Len(t) # 0 /\ t # <<>>
  <2>1. Len(<<>>) = 0
    OBVIOUS
  <2> QED BY <1>3, <2>1
<1>7. \A i \in 2..Len(t) :
        \E p \in t[i] \ t[i - 1] : p \in Player /\ t[i] = t[i - 1] \cup {p}
  BY <1>3, <1>5
<1>8. s = t
  BY <1>1
<1>9. s[1] = {} /\ s[Len(s)] = {id[j] : j \in 1..n}
  BY <1>3, <1>4, <1>8
<1>10. s \in Seq(SUBSET Player) /\ Len(s) = n + 1 /\ s # <<>>
  BY <1>3, <1>6, <1>8
<1>11. \A i \in 2..Len(s) :
         \E p \in s[i] \ s[i - 1] : p \in Player /\ s[i] = s[i - 1] \cup {p}
  BY <1>7, <1>8
<1>12. Ascent(s, id, n)
  BY <1>9, <1>10, <1>11 DEF Ascent
<1> QED BY <1>0, <1>12

-----------------------------------------------------------------------------
(* Every step of the relay is a step of the feed, or none.                 *)

FeedProofs == INSTANCE RosterFeedProofs WITH
  Player <- Player,
  open <- Admitted,
  roster <- Roster,
  view <- View,
  lag <- Lag

Feeds == [FeedProofs!Next]_(FeedProofs!vars)

\* A step that moves nothing the feed is about is a stutter of the feed.
LEMMA Unmoved ==
  ASSUME Admitted' = Admitted, Roster' = Roster, View' = View, Lag' = Lag
  PROVE  Feeds
  BY DEF Feeds, FeedProofs!vars

\* The other members are players the feed may know.
LEMMA OthersArePlayers == CoordinatorOK => Others \subseteq Player
<1> SUFFICES ASSUME CoordinatorOK PROVE Others \subseteq Player
  OBVIOUS
<1>1. \A d \in DOMAIN members : members[d].id \in Player
  <2> TAKE d \in DOMAIN members
  <2>1. members[d].id \in Identity /\ members[d].id.pid \in 1..MaxPlayerId
    BY MemberTypes DEF CoordinatorOK, TableOK
  <2> QED BY <2>1 DEF Identity, Player
<1> QED BY <1>1 DEF Others

\* Also after a step.
LEMMA OthersArePlayersNext == CoordinatorOK' => (Others \subseteq Player)'
  BY OthersArePlayers, PTL

\* Membership of the sidecar, in the terms of Served.
LEMMA WhenAdmitted ==
  /\ Admitted <=> Listening /\ Member(conn)
  /\ Admitted => Roster = Theirs(conn)
  /\ ~Admitted => Roster = {}
  BY DEF Admitted, Roster, Others, Theirs

(* A welcome, and the roster that follows it.                              *)
LEMMA LagAdmit ==
  ASSUME SideOK, SideOK', ClientOK, ConnOK, Listening,
         UNCHANGED <<conn, net, events>>, View' = View, Admitting(conn)
  PROVE  FeedProofs!Admit
<1>1. WayOK /\ WayOK'
  BY WayFacts, WayPrimed
<1>2. CoordinatorOK /\ CoordinatorOK' /\ conn' = conn /\ net' = net /\ events' = events
  BY DEF SideOK, TypesOK
<1>3. Listening' /\ ~Member(conn) /\ Member(conn)' /\ conn # NoConn
  BY <1>2 DEF Listening, Admitting, Member
<1>4. net = "connecting" /\ events = <<>>
  BY <1>3 DEF Listening, Admitting, ConnOK, ConnectedOK, ClientOK
<1>5. rel[conn] = <<>> /\ Len(<<>>) = 0
  BY DEF Admitting
<1>6. Len(events) = 0 /\ Len(Coming) = 0
  <2>1. Coming = <<>>
    BY <1>5 DEF Coming
  <2> QED BY <1>4, <1>5, <2>1
<1>7. Len(Way) = 0 /\ Lag = <<>>
  <2>1. Len(Way) = 0
    BY <1>1, <1>6 DEF WayOK
  <2>2. Rosters(View, Way) = <<View>>
    BY <2>1, RostersNone
  <2>3. Tail(<<View>>) = <<>>
    OBVIOUS
  <2> QED BY <2>1, <2>2, <2>3 DEF Lag
<1>8. PICK js \in Seq(ReliableMsg) :
        /\ rel'[conn] = <<Welcome(members'[conn].id)>> \o js
        /\ \E id : Introduces(js, id, Theirs(conn)')
  BY DEF Admitting
<1>9. PICK id : Introduces(js, id, Theirs(conn)')
  BY <1>8
<1>10. Theirs(conn)' \subseteq Player /\ Roster' = Theirs(conn)' /\ Admitted' /\ ~Admitted
  <2>1. Others' \subseteq Player
    BY <1>2, OthersArePlayersNext
  <2>2. Others' = Theirs(conn)'
    BY DEF Others, Theirs
  <2> QED BY <1>3, <2>1, <2>2 DEF Admitted, Roster
<1>n. PICK n \in Nat : n = Len(js)
  OBVIOUS
<1>11. /\ n \in Nat
       /\ Len(rel'[conn]) = n + 1 /\ rel'[conn][1].type = "welcome"
       /\ \A j \in 1..n : rel'[conn][1 + j] = js[j]
  <2>1. PICK w : w = Welcome(members'[conn].id)
    OBVIOUS
  <2>2. w.type = "welcome"
    BY <2>1 DEF Welcome
  <2>3. rel'[conn] = <<w>> \o js
    BY <1>8, <2>1
  <2>4. PICK r : r = rel'[conn]
    OBVIOUS
  <2>5. r = <<w>> \o js
    BY <2>3, <2>4
  <2>6. Len(r) = Len(js) + 1 /\ r[1] = w /\ \A j \in 1..Len(js) : r[1 + j] = js[j]
    BY <2>5
  <2> QED BY <1>n, <2>2, <2>4, <2>6
<1>12. Coming' = rel'[conn]
  BY <1>2, <1>3 DEF Coming
<1>13. /\ Len(Way') = Len(Way) + 1 + n
       /\ Way'[Len(Way) + 1].type = "welcome"
       /\ \A j \in 1..n : Way'[Len(Way) + 1 + j] = js[j]
  <2>1. Len(events') = 0
    BY <1>2, <1>6
  <2>2. Len(Way') = n + 1
    BY <1>1, <1>11, <1>12, <2>1 DEF WayOK
  <2>3. \A i \in 1..(n + 1) : Way'[i] = rel'[conn][i]
    <3> TAKE i \in 1..(n + 1)
    <3>1. Way'[Len(events') + i] = Coming'[i]
      BY <1>1, <1>11, <1>12 DEF WayOK
    <3> QED BY <1>12, <2>1, <3>1
  <2>4. 1 \in 1..(n + 1) /\ \A j \in 1..n : 1 + j \in 1..(n + 1)
    BY <1>11
  <2>5. 0 + 1 = 1 /\ 0 + 1 + n = n + 1 /\ \A j \in 1..n : 0 + 1 + j = 1 + j
    BY <1>11
  <2> QED BY <1>7, <1>11, <2>2, <2>3, <2>4, <2>5
<1>14. \A j \in 1..n : /\ id[j] \in Player /\ id[j] \in Theirs(conn)'
                       /\ js[j] = Joined(id[j])
  BY <1>n, <1>9, <1>10 DEF Introduces
<1>15. Distinct(id, n)
  BY <1>n, <1>9 DEF Introduces, Distinct
<1>16. {id[j] : j \in 1..n} = Theirs(conn)'
  BY <1>n, <1>9, <1>14 DEF Introduces
<1>17. Rosters(View, Way') = Grown(View, id, n)
  <2>1. Among(id, n, Identity)
    BY <1>14 DEF Player, Identity, Among
  <2>2. \A j \in 1..n : Way'[Len(Way) + 1 + j] = Joined(id[j])
    BY <1>13, <1>14
  <2>3. PICK a, b, v : a = Way /\ b = Way' /\ v = View
    OBVIOUS
  <2>4. /\ v \in SUBSET Identity /\ Len(a) = 0 /\ Len(b) = Len(a) + 1 + n
        /\ b[Len(a) + 1].type = "welcome"
        /\ Announces(b, Len(a) + 1, id, n)
    BY <1>1, <1>7, <1>13, <2>2, <2>3 DEF WayOK, Announces
  <2>5. /\ Len(a) \in Nat /\ (\A i \in 1..Len(a) : ~Membership(a[i]))
        /\ \A i \in 1..Len(a) : b[i] = a[i]
    BY <2>4
  <2>6. Rosters(v, b) = Grown(v, id, n)
    BY <1>15, <2>1, <2>4, <2>5, RostersWelcome
  <2> QED BY <2>3, <2>6
<1>18. Tail(Grown(View, id, n)) = Lag'
  BY <1>17, Lags
<1>19. Ascent(Lag', id, n)
  <2>1. Among(id, n, Player)
    BY <1>14 DEF Among
  <2>2. Ascent(Tail(Grown(View, id, n)), id, n)
    BY <1>15, <2>1, GrownTail
  <2> QED BY <1>18, <2>2
<1> QED
  BY <1>7, <1>10, <1>16, <1>19 DEF FeedProofs!Admit, FeedProofs!Joined, Ascent, Climbs

(* The feed's fields when the sidecar's transport and client stay.         *)
LEMMA SameWay ==
  ASSUME SideOK, SideOK', UNCHANGED <<conn, net, events>>, View' = View,
         conn # NoConn => rel'[conn] = rel[conn]
  PROVE  Lag' = Lag
<1>1. Coming' = Coming
  BY DEF Coming, Listening
<1>2. Way' = Way
  BY <1>1 DEF Way, Coming
<1> QED BY <1>2, Lags

(* Packets after those on the way.                                         *)
LEMMA WayLonger ==
  ASSUME SideOK, SideOK', UNCHANGED <<conn, net, events>>, Listening,
         NEW S, NEW b \in Seq(S), rel'[conn] = rel[conn] \o b
  PROVE  /\ WayOK /\ WayOK'
         /\ Len(Way') = Len(Way) + Len(b)
         /\ \A i \in 1..Len(Way) : Way'[i] = Way[i]
         /\ \A i \in 1..Len(b) : Way'[Len(Way) + i] = b[i]
<1>1. WayOK /\ WayOK'
  BY WayFacts, WayPrimed
<1>2. rel[conn] \in Seq(ReliableMsg)
  BY SideTypes, Constants DEF CoordinatorOK, SessionTypeOK, Listening
<1>3. PICK q, r, e : q = rel[conn] /\ r = rel'[conn] /\ e = Len(events)
  OBVIOUS
<1>4. r = q \o b /\ q \in Seq(ReliableMsg)
  BY <1>2, <1>3
<1>5. /\ Len(q) \in Nat /\ Len(b) \in Nat /\ Len(r) = Len(q) + Len(b)
      /\ \A i \in 1..Len(q) : r[i] = q[i]
      /\ \A i \in 1..Len(b) : r[Len(q) + i] = b[i]
  BY <1>4
<1>6. Coming = q /\ Coming' = r /\ e = Len(events')
  BY <1>3 DEF Coming, Listening
<1>7. /\ e \in Nat /\ Len(Way) = e + Len(q) /\ Len(Way') = e + Len(r)
      /\ \A i \in 1..e : Way[i] = Polled(events[i]) /\ Way'[i] = Polled(events[i])
      /\ \A i \in 1..Len(q) : Way[e + i] = q[i]
      /\ \A i \in 1..Len(r) : Way'[e + i] = r[i]
  BY <1>1, <1>3, <1>6 DEF WayOK, Polled
<1>8. Len(Way') = Len(Way) + Len(b)
  BY <1>5, <1>7
<1>9. \A i \in 1..Len(Way) : Way'[i] = Way[i]
  <2> TAKE i \in 1..Len(Way)
  <2>1. CASE i <= e
    BY <1>7, <2>1
  <2>2. CASE i > e
    <3>1. PICK j \in 1..Len(q) : i = e + j
      BY <1>5, <1>7, <2>2
    <3> QED BY <1>5, <1>7, <3>1
  <2> QED BY <1>7, <2>1, <2>2
<1>10. \A i \in 1..Len(b) : Way'[Len(Way) + i] = b[i]
  <2> TAKE i \in 1..Len(b)
  <2>1. Len(q) + i \in 1..Len(r) /\ Len(Way) + i = e + (Len(q) + i)
    BY <1>5, <1>7
  <2> QED BY <1>5, <1>7, <2>1
<1> QED BY <1>1, <1>8, <1>9, <1>10

(* The coordinator tells of one that joins or leaves.                      *)
LEMMA FeedChange ==
  ASSUME SideOK, SideOK', UNCHANGED <<conn, net, events>>, View' = View, Listening,
         FeedProofs!Converged, Joining(conn) \/ Leaving(conn)
  PROVE  FeedProofs!Change
<1>0. /\ CoordinatorOK /\ CoordinatorOK' /\ conn' = conn /\ net' = net
      /\ rel[conn] \in Seq(ReliableMsg)
  BY SideTypes, Constants DEF SideOK, TypesOK, CoordinatorOK, SessionTypeOK, Listening
<1>1. Others \subseteq Player /\ Others' \subseteq Player
  BY <1>0, OthersArePlayers, OthersArePlayersNext
<1>2. Admitted /\ Admitted'
  BY <1>0 DEF Joining, Leaving, Admitted, Listening, Member
<1>3. Others = Theirs(conn) /\ Others' = Theirs(conn)'
  BY DEF Others, Theirs
<1>4. Roster = Others /\ Roster' = Others'
  BY <1>2 DEF Roster
<1> DEFINE last == IF Lag = <<>> THEN View ELSE Lag[Len(Lag)]
<1>5. last = Roster
  BY <1>2 DEF FeedProofs!Converged
<1>6. ASSUME NEW m, m \in ReliableMsg, Membership(m), rel'[conn] = Append(rel[conn], m),
             After(last, m) = Roster'
      PROVE  Lag' = Append(Lag, Roster')
  <2>1. <<m>> \in Seq(ReliableMsg) /\ Len(<<m>>) = 1 /\ <<m>>[1] = m
    BY <1>6
  <2>2. rel'[conn] = rel[conn] \o <<m>>
    BY <1>0, <1>6, <2>1
  <2>3. /\ WayOK /\ WayOK'
        /\ Len(Way') = Len(Way) + 1
        /\ \A i \in 1..Len(Way) : Way'[i] = Way[i]
        /\ Way'[Len(Way) + 1] = m
    <3>1. PICK b : b = <<m>>
      OBVIOUS
    <3>2. /\ WayOK /\ WayOK' /\ Len(Way') = Len(Way) + Len(b)
          /\ \A i \in 1..Len(Way) : Way'[i] = Way[i]
          /\ \A i \in 1..Len(b) : Way'[Len(Way) + i] = b[i]
      BY <2>1, <2>2, <3>1, WayLonger
    <3> QED BY <2>1, <3>1, <3>2
  <2>4. Way'[Len(Way')] = m
    BY <2>3
  <2>5. Lag' = Append(Lag, After(IF Lag = <<>> THEN View ELSE Lag[Len(Lag)], m))
    BY <1>6, <2>3, <2>4, LagMore
  <2> QED BY <1>6, <2>5
<1>7. CASE Joining(conn)
  <2>1. PICK p \in Theirs(conn)' \ Theirs(conn) :
          /\ \A o \in Theirs(conn) : o.pid # p.pid
          /\ Theirs(conn)' = Theirs(conn) \cup {p}
          /\ rel'[conn] = Append(rel[conn], Joined(p))
    BY <1>7 DEF Joining
  <2>2. p \in Player /\ p \in Identity
    BY <1>1, <1>3, <2>1 DEF Player, Identity
  <2>3. /\ Joined(p) \in ReliableMsg /\ Joined(p).type = "joined" /\ Joined(p).peer = p
    BY <2>2, Packets
  <2>4. After(last, Joined(p)) = Roster'
    <3>1. After(Theirs(conn), Joined(p)) = Theirs(conn)'
      BY <2>1, <2>3 DEF After
    <3> QED BY <1>3, <1>4, <1>5, <3>1
  <2>5. Lag' = Append(Lag, Roster')
    BY <1>6, <2>1, <2>3, <2>4 DEF Membership
  <2>6. FeedProofs!OneApart(Roster, Roster')
    BY <1>3, <1>4, <2>1, <2>2 DEF FeedProofs!OneApart, FeedProofs!Joined
  <2> QED BY <1>2, <2>5, <2>6 DEF FeedProofs!Change
<1>8. CASE Leaving(conn)
  <2>1. PICK p \in Theirs(conn) \ Theirs(conn)' :
          /\ \A o \in Theirs(conn) : o.pid = p.pid => o = p
          /\ Theirs(conn) = Theirs(conn)' \cup {p}
          /\ rel'[conn] = Append(rel[conn], Left(p))
    BY <1>8 DEF Leaving
  <2>2. p \in Player /\ p \in Identity
    BY <1>1, <1>3, <2>1 DEF Player, Identity
  <2>3. /\ Left(p) \in ReliableMsg /\ Left(p).type = "left"
        /\ Left(p).pid = p.pid /\ Left(p).inc = p.inc
    BY <2>2, Packets
  <2>4. After(last, Left(p)) = Roster'
    <3>1. After(Theirs(conn), Left(p))
            = {o \in Theirs(conn) : o.pid # p.pid \/ o.inc # p.inc}
      BY <2>3 DEF After
    <3>2. After(Theirs(conn), Left(p)) = Theirs(conn)'
      BY <2>1, <3>1
    <3> QED BY <1>3, <1>4, <1>5, <3>2
  <2>5. Lag' = Append(Lag, Roster')
    BY <1>6, <2>1, <2>3, <2>4 DEF Membership
  <2>6. FeedProofs!OneApart(Roster, Roster')
    BY <1>3, <1>4, <2>1, <2>2 DEF FeedProofs!OneApart, FeedProofs!Joined
  <2> QED BY <1>2, <2>5, <2>6 DEF FeedProofs!Change
<1> QED BY <1>7, <1>8

(* The end of the feed, whatever is left of what was on its way.           *)
LEMMA FeedEnds ==
  ASSUME ~Admitted', View' = View, \E n \in 0..Len(Lag) : Lag' = SubSeq(Lag, 1, n)
  PROVE  FeedProofs!End
  BY DEF FeedProofs!End, Roster

\* The end of the feed with all that was on its way.
LEMMA FeedEnds0 ==
  ASSUME ~Admitted', View' = View, Lag' = Lag, Lag \in Seq(SUBSET Identity)
  PROVE  FeedProofs!End
<1>1. Len(Lag) \in 0..Len(Lag) /\ SubSeq(Lag, 1, Len(Lag)) = Lag
  OBVIOUS
<1> QED BY <1>1, FeedEnds

(* The coordinator is done with the sidecar.                               *)
LEMMA FeedEnding ==
  ASSUME SideOK, SideOK', UNCHANGED <<conn, net, events>>, View' = View, Listening,
         Ending(conn)
  PROVE  FeedProofs!End
<1>1. ~Admitted'
  BY DEF Ending, Admitted, Member
<1>2. PICK bye \in Seq(ReliableMsg) :
        /\ rel'[conn] = rel[conn] \o bye
        /\ \A i \in 1..Len(bye) : bye[i].type \in {"disconnect", "closed"}
  BY DEF Ending
<1>3. /\ WayOK /\ WayOK' /\ Len(Way') = Len(Way) + Len(bye)
      /\ \A i \in 1..Len(Way) : Way'[i] = Way[i]
      /\ \A i \in 1..Len(bye) : Way'[Len(Way) + i] = bye[i]
  BY <1>2, WayLonger
<1>4. Len(Way) \in Nat /\ Len(bye) \in Nat /\ Lag \in Seq(SUBSET Identity)
  BY <1>3, LagType DEF WayOK
<1>5. \A i \in (Len(Way) + 1)..Len(Way') : ~Membership(Way'[i])
  <2> TAKE i \in (Len(Way) + 1)..Len(Way')
  <2>1. PICK j \in 1..Len(bye) : i = Len(Way) + j
    <3>1. PICK l, k : l = Len(Way) /\ k = Len(Way')
      OBVIOUS
    <3>2. l \in Nat /\ k = l + Len(bye) /\ Len(bye) \in Nat /\ i \in (l + 1)..k
      BY <1>3, <1>4, <3>1
    <3>3. i - l \in 1..Len(bye) /\ i = l + (i - l)
      BY <3>2
    <3> QED BY <3>1, <3>3
  <2> QED BY <1>2, <1>3, <2>1 DEF Membership
<1>6. \A i \in (Len(Way) + 1)..Len(Way) : ~Membership(Way[i])
  BY <1>4
<1>7. Lag' = Lag
  <2>1. PICK k : k = Len(Way)
    OBVIOUS
  <2>2. /\ k \in Nat /\ k <= Len(Way) /\ k <= Len(Way')
        /\ \A i \in 1..k : Way'[i] = Way[i]
        /\ \A i \in (k + 1)..Len(Way) : ~Membership(Way[i])
        /\ \A i \in (k + 1)..Len(Way') : ~Membership(Way'[i])
    BY <1>3, <1>4, <1>5, <1>6, <2>1
  <2> QED BY <1>3, <2>2, LagSame
<1> QED BY <1>1, <1>4, <1>7, FeedEnds0

\* Whatever the coordinator does to the sidecar's transport is a step of the feed.
LEMMA FeedServed ==
  ASSUME SideOK, SideOK', ClientOK, ConnOK, UNCHANGED <<conn, net, events>>,
         View' = View, conn # NoConn => Served(conn), FeedProofs!Converged
  PROVE  Feeds
<1>1. CASE ~Listening
  <2>1. ~Listening' /\ ~Admitted /\ ~Admitted' /\ Roster = {} /\ Roster' = {}
    BY <1>1 DEF Listening, Admitted, Roster
  <2>2. Coming' = Coming
    BY <1>1, <2>1 DEF Coming
  <2>3. Way' = Way
    BY <2>2 DEF Way, Coming
  <2>4. Lag' = Lag
    BY <2>3, Lags
  <2>5. Admitted' = Admitted
    BY <1>1, <2>1 DEF Admitted
  <2> QED BY <2>1, <2>4, <2>5, Unmoved
<1>2. CASE Listening /\ Quiet(conn)
  <2>1. Admitted' = Admitted /\ conn' = conn /\ rel'[conn] = rel[conn]
    BY <1>2 DEF Quiet, Admitted, Listening, Member
  <2>2. Roster' = Roster
    <3>1. Admitted => Others' = Others
      BY <1>2, <2>1 DEF Quiet, Admitted, Others, Theirs
    <3> QED BY <2>1, <3>1 DEF Roster
  <2>3. Lag' = Lag
    BY <2>1, SameWay
  <2> QED BY <2>1, <2>2, <2>3, Unmoved
<1>3. CASE Listening /\ Admitting(conn)
  <2>1. FeedProofs!Admit
    BY <1>3, LagAdmit
  <2> QED BY <2>1 DEF Feeds, FeedProofs!Next
<1>4. CASE Listening /\ (Joining(conn) \/ Leaving(conn))
  <2>1. FeedProofs!Change
    BY <1>4, FeedChange
  <2> QED BY <2>1 DEF Feeds, FeedProofs!Next
<1>5. CASE Listening /\ Ending(conn)
  <2>1. FeedProofs!End
    BY <1>5, FeedEnding
  <2> QED BY <2>1 DEF Feeds, FeedProofs!Next
<1>6. Listening => conn # NoConn
  BY DEF Listening
<1> QED BY <1>1, <1>2, <1>3, <1>4, <1>5, <1>6 DEF Served

(* What the network loses.                                                 *)
LEMMA FeedNetwork ==
  ASSUME SideOK, SideOK', Network \/ \E c \in MyConn : Discard(c), View' = View
  PROVE  Feeds
<1>1. UNCHANGED <<conn, net, events, members>>
      /\ rel \in [Watched -> Seq(ReliableMsg)]
      /\ DOMAIN members \subseteq registered
      /\ (conn # NoConn => conn \in Watched)
  BY SideTypes, Constants DEF Network, Discard, LoseState, LoseReliable, sidecarVars,
     clientVars, OthersOfSidecar, tables, CoordinatorOK, SessionTypeOK
<1>2. Admitted' = Admitted /\ Roster' = Roster
  BY <1>1 DEF Admitted, Roster, Listening, Member, Others
<1>3. CASE conn = NoConn \/ rel'[conn] = rel[conn]
  <2>1. Lag' = Lag
    BY <1>1, <1>3, SameWay
  <2> QED BY <1>2, <2>1, Unmoved
<1>4. CASE conn # NoConn /\ rel'[conn] # rel[conn]
  <2>1. rel'[conn] = <<>> /\ ~Member(conn)
    <3>1. CASE \E c \in MyConn : LoseState(c)
      BY <1>4, <3>1 DEF LoseState
    <3>2. ASSUME NEW c \in MyConn, LoseReliable(c)
          PROVE  rel'[conn] = <<>> /\ ~Member(conn)
      BY <1>1, <1>4, <3>2 DEF LoseReliable, Member
    <3>3. ASSUME NEW c \in MyConn, Discard(c)
          PROVE  rel'[conn] = <<>> /\ ~Member(conn)
      <4>1. rel'[conn] = rel[conn]
        BY <1>1, <1>4, <3>3 DEF Discard
      <4> QED BY <1>4, <4>1
    <3> QED BY <3>1, <3>2, <3>3 DEF Network
  <2>2. ~Admitted'
    BY <1>2, <2>1 DEF Admitted
  <2>3. WayOK /\ WayOK' /\ Len(<<>>) = 0
    BY WayFacts, WayPrimed
  <2>4. Len(Coming') = 0
    BY <1>1, <2>1, <2>3 DEF Coming, Listening
  <2>5. PICK k : k = Len(events)
    OBVIOUS
  <2>6. /\ k \in Nat /\ Len(Way') = k /\ Len(Way) = k + Len(Coming)
        /\ Len(Coming) \in Nat
        /\ \A i \in 1..k : Way'[i] = Polled(events[i]) /\ Way[i] = Polled(events[i])
    BY <1>1, <2>3, <2>4, <2>5 DEF WayOK, Polled
  <2>7. /\ k <= Len(Way) /\ k <= Len(Way') /\ \A i \in 1..k : Way'[i] = Way[i]
        /\ \A i \in (k + 1)..Len(Way') : ~Membership(Way'[i])
    BY <2>6
  <2>8. \E n \in 0..Len(Lag) : Lag' = SubSeq(Lag, 1, n)
    BY <2>3, <2>6, <2>7, LagCut
  <2>9. FeedProofs!End
    BY <2>2, <2>8, FeedEnds
  <2> QED BY <2>9 DEF Feeds, FeedProofs!Next
<1> QED BY <1>3, <1>4

(* Nothing of what the feed is about moves.                                *)
LEMMA FeedSame ==
  ASSUME SideOK, SideOK', UNCHANGED <<conn, net, events, members, rel>>, View' = View
  PROVE  Feeds
<1>1. Admitted' = Admitted /\ Roster' = Roster
  BY DEF Admitted, Roster, Listening, Member, Others
<1>2. Lag' = Lag
  BY SameWay
<1> QED BY <1>1, <1>2, Unmoved

(* The client no longer takes what arrives.                                *)
LEMMA FeedLost ==
  ASSUME SideOK, SideOK', View' = View, ~Listening',
         \/ events' = events
         \/ \E e \in Event : events' = Append(events, e) /\ ~Membership(Polled(e))
  PROVE  Feeds
<1>1. WayOK /\ WayOK' /\ Len(<<>>) = 0 /\ events \in Seq(Event)
  BY WayFacts, WayPrimed, SideTypes
<1>2. ~Admitted'
  BY DEF Admitted
<1>3. Coming' = <<>>
  BY DEF Coming
<1>4. PICK k, n : k = Len(events) /\ n = Len(events')
  OBVIOUS
<1>5. /\ k \in Nat /\ n \in Nat /\ n >= k
      /\ \A i \in 1..k : events'[i] = events[i]
      /\ \A i \in (k + 1)..n : ~Membership(Polled(events'[i]))
  <2>1. CASE events' = events
    BY <1>1, <1>4, <2>1
  <2>2. CASE \E e \in Event : events' = Append(events, e) /\ ~Membership(Polled(e))
    <3>0. PICK e \in Event : events' = Append(events, e) /\ ~Membership(Polled(e))
      BY <2>2
    <3>1. /\ n = k + 1 /\ k \in Nat /\ events'[n] = e
          /\ \A i \in 1..k : events'[i] = events[i]
      BY <1>1, <1>4, <3>0
    <3>2. \A i \in (k + 1)..n : i = n
      BY <3>1
    <3>3. ~Membership(Polled(events'[n]))
      BY <3>0, <3>1
    <3>4. \A i \in (k + 1)..n : ~Membership(Polled(events'[i]))
      BY <3>2, <3>3
    <3>5. n \in Nat /\ n >= k
      BY <3>1
    <3> QED BY <3>1, <3>4, <3>5
  <2> QED BY <2>1, <2>2
<1>6. Len(Coming') = 0 /\ Len(Coming) \in Nat
  BY <1>1, <1>3 DEF WayOK
<1>7. /\ Len(Way') = n /\ Len(Way) >= k
      /\ \A i \in 1..n : Way'[i] = Polled(events'[i])
      /\ \A i \in 1..k : Way[i] = Polled(events[i])
  BY <1>1, <1>4, <1>5, <1>6 DEF WayOK, Polled
<1>8. /\ k <= Len(Way) /\ k <= Len(Way')
      /\ \A i \in 1..k : Way'[i] = Way[i]
      /\ \A i \in (k + 1)..Len(Way') : ~Membership(Way'[i])
  <2>1. \A i \in 1..k : Way'[i] = Way[i]
    BY <1>5, <1>7 DEF Polled
  <2>2. \A i \in (k + 1)..Len(Way') : ~Membership(Way'[i])
    <3> TAKE i \in (k + 1)..Len(Way')
    <3>1. i \in (k + 1)..n /\ i \in 1..n
      BY <1>5, <1>7
    <3> QED BY <1>5, <1>7, <3>1
  <2> QED BY <1>1, <1>5, <1>7, <2>1, <2>2 DEF WayOK
<1>9. \E j \in 0..Len(Lag) : Lag' = SubSeq(Lag, 1, j)
  BY <1>1, <1>5, <1>8, LagCut
<1>10. FeedProofs!End
  BY <1>2, <1>9, FeedEnds
<1> QED BY <1>10 DEF Feeds, FeedProofs!Next

(* The adapter takes the first of its events.                              *)
LEMMA FeedRead ==
  ASSUME SideOK, SideOK', events # <<>>, events' = Tail(events),
         UNCHANGED <<rel, members>>, Listening' = Listening,
         Listening => conn' = conn,
         View' = IF Membership(Polled(Head(events)))
                 THEN After(View, Polled(Head(events))) ELSE View
  PROVE  Feeds
<1>1. WayOK /\ WayOK' /\ events \in Seq(Event)
  BY WayFacts, WayPrimed, SideTypes
<1>2. Admitted' = Admitted /\ Roster' = Roster
  BY DEF Admitted, Roster, Listening, Member, Others
<1>3. Coming' = Coming
  BY DEF Coming
<1>4. PICK k : k = Len(events')
  OBVIOUS
<1>5. /\ k \in Nat /\ Len(events) = k + 1 /\ Head(events) = events[1]
      /\ \A i \in 1..k : events'[i] = events[i + 1]
  BY <1>1, <1>4, TailType
<1>6. PICK w, v, c : w = Way /\ v = Way' /\ c = Coming
  OBVIOUS
<1>7. /\ Len(c) \in Nat /\ Len(w) = k + 1 + Len(c) /\ Len(v) = k + Len(c)
      /\ \A i \in 1..(k + 1) : w[i] = Polled(events[i])
      /\ \A i \in 1..Len(c) : w[k + 1 + i] = c[i]
      /\ \A i \in 1..k : v[i] = Polled(events'[i])
      /\ \A i \in 1..Len(c) : v[k + i] = c[i]
  BY <1>1, <1>3, <1>4, <1>5, <1>6 DEF WayOK, Polled
<1>8. w[1] = Polled(Head(events))
  BY <1>5, <1>7
<1>9. \A i \in 1..Len(v) : v[i] = w[i + 1]
  <2> TAKE i \in 1..Len(v)
  <2>1. CASE i <= k
    <3>1. i \in 1..k /\ i + 1 \in 1..(k + 1)
      BY <1>5, <1>7, <2>1
    <3> QED BY <1>5, <1>7, <3>1
  <2>2. CASE i > k
    <3>1. i - k \in 1..Len(c) /\ i = k + (i - k) /\ i + 1 = k + 1 + (i - k)
      BY <1>5, <1>7, <2>2
    <3> QED BY <1>7, <3>1
  <2> QED BY <1>5, <1>7, <2>1, <2>2
<1>10. Len(Way) # 0 /\ Len(Way') = Len(Way) - 1
  BY <1>5, <1>6, <1>7
<1>11. \A i \in 1..Len(Way') : Way'[i] = Way[i + 1]
  BY <1>6, <1>9
<1>12. View' = IF Membership(Way[1]) THEN After(View, Way[1]) ELSE View
  BY <1>6, <1>8
<1>13. IF Membership(Way[1])
       THEN Lag # <<>> /\ View' = Head(Lag) /\ Lag' = Tail(Lag)
       ELSE Lag' = Lag
  BY <1>1, <1>10, <1>11, <1>12, LagRead
<1>14. CASE Membership(Way[1])
  <2>1. FeedProofs!Read
    BY <1>2, <1>13, <1>14 DEF FeedProofs!Read
  <2> QED BY <2>1 DEF Feeds, FeedProofs!Next
<1>15. CASE ~Membership(Way[1])
  BY <1>2, <1>12, <1>13, <1>15, Unmoved
<1> QED BY <1>14, <1>15

(* A packet that the client does not take in its stride ends its client.   *)
LEMMA PacketLost ==
  ASSUME NEW m \in ReliableMsg \cup StateMsg, Packet(m),
         ~(m.type = "welcome" /\ net = "connecting"),
         ~(OnGameplay(m) /\ net = "connected")
  PROVE  /\ ~Listening'
         /\ \/ events' = events
            \/ \E e \in Event : events' = Append(events, e) /\ ~Membership(Polled(e))
<1>0. \A e : e.kind \notin {"message", "connected"} => ~Membership(Polled(e))
  BY DEF Polled, Membership
<1>1. CASE Violate
  <2>1. [kind |-> "violation"] \in Event
    BY EventTypes
  <2>2. events' = Append(events, [kind |-> "violation"])
    BY <1>1 DEF Violate, Emit
  <2>3. ~Listening'
    BY <1>1 DEF Violate, Listening
  <2> QED BY <1>0, <2>1, <2>2, <2>3
<1>2. CASE OnWelcome(m)
  <2>1. Violate
    BY <1>2 DEF OnWelcome
  <2> QED BY <1>1, <2>1
<1>3. CASE OnDisconnect(m)
  <2>1. m.reason \in Reason
    BY <1>3 DEF OnDisconnect, ReliableMsg, StateMsg
  <2>2. ~Listening'
    BY <1>3 DEF OnDisconnect, Listening
  <2>3. \E k \in {"disconnected", "rejected"} :
          events' = Append(events, [kind |-> k, reason |-> m.reason])
    BY <1>3 DEF OnDisconnect, Emit
  <2>4. PICK k \in {"disconnected", "rejected"} :
          events' = Append(events, [kind |-> k, reason |-> m.reason])
    BY <2>3
  <2>5. [kind |-> k, reason |-> m.reason] \in Event
    BY <2>1, EventTypes
  <2> QED BY <1>0, <2>2, <2>4, <2>5
<1>4. CASE m.type = "closed" /\ OnClosed(m.reason)
  <2>1. m.reason \in Reason
    BY <1>4 DEF ReliableMsg, StateMsg
  <2>2. ~Listening'
    BY <1>4 DEF OnClosed, Listening
  <2>3. \/ events' = events
        \/ events' = Append(events, [kind |-> "disconnected", reason |-> m.reason])
    BY <1>4 DEF OnClosed, Emit
  <2>4. [kind |-> "disconnected", reason |-> m.reason] \in Event
    BY <2>1, EventTypes
  <2> QED BY <1>0, <2>2, <2>3, <2>4
<1>5. CASE OnGameplay(m)
  <2>1. Violate
    BY <1>5 DEF OnGameplay
  <2> QED BY <1>1, <2>1
<1> QED BY <1>2, <1>3, <1>4, <1>5 DEF Packet

(* A packet is taken out of the reliable channel.                          *)
LEMMA FeedReliable ==
  ASSUME SideOK, SideOK', ClientOK, ServiceReliable, View' = View
  PROVE  Feeds
<1>1. WayOK /\ WayOK' /\ events \in Seq(Event) /\ Len(<<>>) = 0
  BY WayFacts, WayPrimed, SideTypes
<1>2. /\ conn # NoConn /\ rel[conn] # <<>> /\ rel' = [rel EXCEPT ![conn] = Tail(@)]
      /\ rel \in [Watched -> Seq(ReliableMsg)] /\ conn \in Watched
      /\ members' = members
  BY SideTypes, Constants DEF ServiceReliable, Servicing, CoordinatorOK, SessionTypeOK, tables
<1>3. PICK q : q = rel[conn]
  OBVIOUS
<1>4. /\ q \in Seq(ReliableMsg) /\ q # <<>> /\ rel'[conn] = Tail(q)
      /\ Len(q) \in Nat /\ Len(q) # 0 /\ Len(Tail(q)) = Len(q) - 1 /\ Head(q) = q[1]
      /\ \A i \in 1..Len(Tail(q)) : Tail(q)[i] = q[i + 1]
      /\ Head(q) \in ReliableMsg
  <2>1. q \in Seq(ReliableMsg) /\ q # <<>> /\ rel'[conn] = Tail(q)
    BY <1>2, <1>3
  <2> QED BY <2>1, TailType
<1>5. PICK m : m = Head(q)
  OBVIOUS
<1>6. Packet(m) /\ m \in ReliableMsg \cup StateMsg
  BY <1>3, <1>4, <1>5 DEF ServiceReliable, Packet
<1>7. CASE m.type = "welcome" /\ net = "connecting"
  <2>1. /\ conn' = conn /\ Listening /\ Listening'
        /\ events' = Append(events, [kind |-> "connected"]) /\ events = <<>>
    BY <1>2, <1>6, <1>7 DEF Packet, OnWelcome, OnDisconnect, OnGameplay, Emit,
       Listening, ClientOK
  <2>2. Admitted' = Admitted /\ Roster' = Roster
    BY <1>2, <2>1 DEF Admitted, Roster, Member, Others
  <2>3. Coming = q /\ Coming' = Tail(q)
    BY <1>3, <1>4, <2>1 DEF Coming
  <2>4. events' = <<[kind |-> "connected"]>>
    BY <2>1
  <2>5. Len(events) = 0 /\ Len(events') = 1 /\ events'[1] = [kind |-> "connected"]
    BY <1>1, <2>1, <2>4
  <2>6. Polled(events'[1]) = [type |-> "welcome"]
    BY <2>5 DEF Polled
  <2>7. /\ Len(Way) = Len(q) /\ Len(Way') = Len(q)
        /\ \A i \in 1..Len(q) : Way[i] = q[i]
        /\ Way'[1] = [type |-> "welcome"]
        /\ \A i \in 1..(Len(q) - 1) : Way'[1 + i] = q[i + 1]
    <3>1. PICK w, v, t : w = Way /\ v = Way' /\ t = Tail(q)
      OBVIOUS
    <3>2. /\ Len(w) = Len(q) /\ \A i \in 1..Len(q) : w[0 + i] = q[i]
      BY <1>1, <1>4, <2>3, <2>5, <3>1 DEF WayOK
    <3>3. /\ Len(v) = 1 + Len(t) /\ \A i \in 1..Len(t) : v[1 + i] = t[i]
          /\ v[1] = Polled(events'[1])
      BY <1>1, <2>3, <2>5, <3>1 DEF WayOK, Polled
    <3>4. \A i \in 1..Len(q) : w[i] = q[i]
      BY <1>4, <3>2
    <3>5. Len(v) = Len(q) /\ \A i \in 1..(Len(q) - 1) : v[1 + i] = q[i + 1]
      BY <1>4, <3>1, <3>3
    <3> QED BY <2>6, <3>1, <3>2, <3>3, <3>4, <3>5
  <2>8. /\ Len(Way) # 0 /\ Len(Way') = Len(Way)
        /\ Way[1].type = "welcome" /\ Way'[1].type = "welcome"
    BY <1>4, <1>5, <1>7, <2>7
  <2>9. \A i \in 2..Len(Way) : Way'[i] = Way[i]
    <3> TAKE i \in 2..Len(Way)
    <3>1. i \in 1..Len(q) /\ i - 1 \in 1..(Len(q) - 1) /\ 1 + (i - 1) = i /\ (i - 1) + 1 = i
      BY <1>4, <2>7
    <3> QED BY <2>7, <3>1
  <2>10. Lag' = Lag
    BY <1>1, <2>8, <2>9, LagConnected
  <2> QED BY <2>2, <2>10, Unmoved
<1>8. CASE OnGameplay(m) /\ net = "connected"
  <2>1. /\ conn' = conn /\ Listening /\ Listening'
        /\ events' = Append(events, MessageEvent(m))
    BY <1>2, <1>8 DEF OnGameplay, Emit, Listening
  <2>2. Admitted' = Admitted /\ Roster' = Roster
    BY <1>2, <2>1 DEF Admitted, Roster, Member, Others
  <2>3. PICK w, v, t, k : w = Way /\ v = Way' /\ t = Tail(q) /\ k = Len(events)
    OBVIOUS
  <2>4. Coming = q /\ Coming' = t
    BY <1>3, <1>4, <2>1, <2>3 DEF Coming
  <2>5. /\ k \in Nat /\ Len(events') = k + 1 /\ events'[k + 1] = MessageEvent(m)
        /\ \A i \in 1..k : events'[i] = events[i]
    <3>1. PICK e : e = MessageEvent(m)
      OBVIOUS
    <3> QED BY <1>1, <2>1, <2>3, <3>1
  <2>6. Polled(MessageEvent(m)) = m
    BY DEF Polled, MessageEvent
  <2>7. /\ Len(w) = k + Len(q) /\ Len(v) = k + 1 + Len(t)
        /\ \A i \in 1..k : w[i] = Polled(events[i])
        /\ \A i \in 1..Len(q) : w[k + i] = q[i]
        /\ \A i \in 1..(k + 1) : v[i] = Polled(events'[i])
        /\ \A i \in 1..Len(t) : v[k + 1 + i] = t[i]
    BY <1>1, <2>3, <2>4, <2>5 DEF WayOK, Polled
  <2>8. Len(v) = Len(w) /\ Len(w) \in Nat
    BY <1>4, <2>3, <2>5, <2>7
  <2>9. \A i \in 1..Len(w) : v[i] = w[i]
    <3> TAKE i \in 1..Len(w)
    <3>1. CASE i <= k
      <4>1. i \in 1..k /\ i \in 1..(k + 1)
        BY <2>5, <2>7, <2>8, <3>1
      <4> QED BY <2>5, <2>7, <4>1
    <3>2. CASE i = k + 1
      <4>1. 1 \in 1..Len(q) /\ i \in 1..(k + 1) /\ i = k + 1
        BY <1>4, <2>5, <3>2
      <4> QED BY <1>4, <1>5, <2>5, <2>6, <2>7, <4>1
    <3>3. CASE i > k + 1
      <4>1. /\ i - (k + 1) \in 1..Len(t) /\ i = k + 1 + (i - (k + 1))
            /\ i - k \in 1..Len(q) /\ i = k + (i - k) /\ (i - (k + 1)) + 1 = i - k
        BY <1>4, <2>3, <2>5, <2>7, <3>3
      <4>2. v[i] = t[i - (k + 1)] /\ w[i] = q[i - k]
        BY <2>7, <4>1
      <4>3. t[i - (k + 1)] = q[(i - (k + 1)) + 1]
        BY <1>4, <2>3, <4>1
      <4> QED BY <4>1, <4>2, <4>3
    <3> QED BY <2>5, <2>8, <3>1, <3>2, <3>3
  <2>10. Lag' = Lag
    <3>1. PICK l : l = Len(w)
      OBVIOUS
    <3>2. /\ l \in Nat /\ l <= Len(Way) /\ l <= Len(Way')
          /\ \A i \in 1..l : Way'[i] = Way[i]
          /\ \A i \in (l + 1)..Len(Way) : ~Membership(Way[i])
          /\ \A i \in (l + 1)..Len(Way') : ~Membership(Way'[i])
      BY <2>3, <2>8, <2>9, <3>1
    <3> QED BY <1>1, <3>2, LagSame
  <2> QED BY <2>2, <2>10, Unmoved
<1>9. CASE ~(m.type = "welcome" /\ net = "connecting")
           /\ ~(OnGameplay(m) /\ net = "connected")
  <2>1. /\ ~Listening'
        /\ \/ events' = events
           \/ \E e \in Event : events' = Append(events, e) /\ ~Membership(Polled(e))
    BY <1>6, <1>9, PacketLost
  <2> QED BY <2>1, FeedLost
<1> QED BY <1>7, <1>8, <1>9

(* A state datagram is taken: it is no news of membership.                 *)
LEMMA FeedState ==
  ASSUME SideOK, SideOK', ClientOK, ServiceState, View' = View
  PROVE  Feeds
<1>1. WayOK /\ WayOK' /\ events \in Seq(Event)
  BY WayFacts, WayPrimed, SideTypes
<1>2. /\ conn # NoConn /\ unrel[conn] # <<>> /\ rel' = rel /\ members' = members
      /\ unrel[conn] \in Seq(StateMsg)
  BY SideTypes, Constants DEF ServiceState, Servicing, CoordinatorOK, SessionTypeOK, tables
<1>3. PICK m : m = Head(unrel[conn])
  OBVIOUS
<1>4. m \in StateMsg
  <2>1. PICK q : q = unrel[conn]
    OBVIOUS
  <2>2. q \in Seq(StateMsg) /\ q # <<>> /\ m = Head(q)
    BY <1>2, <1>3, <2>1
  <2> QED BY <2>2, TailType
<1>5. OnGameplay(m) /\ ~Membership(m) /\ m.type # "welcome"
  BY <1>3, <1>4 DEF ServiceState, StateMsg, Membership
<1>6. CASE net # "connected"
  <2>1. /\ ~Listening'
        /\ \/ events' = events
           \/ \E e \in Event : events' = Append(events, e) /\ ~Membership(Polled(e))
    BY <1>4, <1>5, <1>6, PacketLost DEF Packet
  <2> QED BY <2>1, FeedLost
<1>7. CASE net = "connected"
  <2>1. /\ conn' = conn /\ Listening /\ Listening'
        /\ events' = Append(events, MessageEvent(m))
    BY <1>2, <1>5, <1>7 DEF OnGameplay, Emit, Listening
  <2>2. Admitted' = Admitted /\ Roster' = Roster
    BY <1>2, <2>1 DEF Admitted, Roster, Member, Others
  <2>3. PICK w, v, t, k : w = Way /\ v = Way' /\ t = Coming /\ k = Len(events)
    OBVIOUS
  <2>4. Coming' = t
    BY <1>2, <2>1, <2>3 DEF Coming
  <2>5. /\ k \in Nat /\ Len(events') = k + 1 /\ events'[k + 1] = MessageEvent(m)
        /\ \A i \in 1..k : events'[i] = events[i]
    <3>1. PICK e : e = MessageEvent(m)
      OBVIOUS
    <3> QED BY <1>1, <2>1, <2>3, <3>1
  <2>6. Polled(MessageEvent(m)) = m
    BY DEF Polled, MessageEvent
  <2>7. /\ Len(t) \in Nat /\ Len(w) = k + Len(t) /\ Len(v) = k + 1 + Len(t)
        /\ \A i \in 1..k : w[i] = Polled(events[i])
        /\ \A i \in 1..Len(t) : w[k + i] = t[i]
        /\ \A i \in 1..(k + 1) : v[i] = Polled(events'[i])
        /\ \A i \in 1..Len(t) : v[k + 1 + i] = t[i]
    BY <1>1, <2>3, <2>4, <2>5 DEF WayOK, Polled
  <2>8. /\ k <= Len(w) /\ Len(v) = Len(w) + 1 /\ v[k + 1] = m
        /\ \A i \in 1..k : v[i] = w[i]
    BY <2>5, <2>6, <2>7
  <2>9. \A i \in (k + 2)..Len(v) : v[i] = w[i - 1]
    <3> TAKE i \in (k + 2)..Len(v)
    <3>1. /\ i - (k + 1) \in 1..Len(t) /\ i = k + 1 + (i - (k + 1))
          /\ i - 1 = k + (i - (k + 1))
      BY <2>5, <2>7
    <3> QED BY <2>7, <3>1
  <2>10. Lag' = Lag
    <3>1. /\ k <= Len(Way) /\ Len(Way') = Len(Way) + 1
          /\ \A i \in 1..k : Way'[i] = Way[i]
          /\ ~Membership(Way'[k + 1])
          /\ \A i \in (k + 2)..Len(Way') : Way'[i] = Way[i - 1]
      BY <1>5, <2>3, <2>8, <2>9
    <3> QED BY <1>1, <2>5, <3>1, LagSkip
  <2> QED BY <2>2, <2>10, Unmoved
<1> QED BY <1>6, <1>7

(* The rest of a poll.                                                     *)
LEMMA FeedPoll ==
  ASSUME SideOK, SideOK', ClientOK, Poll, View' = View
  PROVE  Feeds
<1>0. \A e : e.kind \notin {"message", "connected"} => ~Membership(Polled(e))
  BY DEF Polled, Membership
<1>1. CASE PollBegin \/ PollEnd
  <2>1. UNCHANGED <<conn, net, events, members, rel>>
    BY <1>1 DEF PollBegin, PollEnd, sessionVars, clientVars
  <2> QED BY <2>1, FeedSame
<1>2. CASE ServiceLost
  <2>1. OnClosed("normal")
    BY <1>2 DEF ServiceLost
  <2>2. ~Listening'
    BY <2>1 DEF OnClosed, Listening
  <2>3. \/ events' = events
        \/ events' = Append(events, [kind |-> "disconnected", reason |-> "normal"])
    BY <2>1 DEF OnClosed, Emit
  <2>4. [kind |-> "disconnected", reason |-> "normal"] \in Event
    BY EventTypes DEF Reason
  <2> QED BY <1>0, <2>2, <2>3, <2>4, FeedLost
<1>3. CASE ServiceFailed \/ ConnectTimeout
  <2>1. net' = "failed" /\ events' = Append(events, [kind |-> "error"])
    BY <1>3 DEF ServiceFailed, ConnectTimeout, Emit
  <2>2. ~Listening'
    BY <2>1 DEF Listening
  <2>3. [kind |-> "error"] \in Event
    BY EventTypes
  <2> QED BY <1>0, <2>1, <2>2, <2>3, FeedLost
<1> QED BY <1>1, <1>2, <1>3, FeedReliable, FeedState DEF Poll, Abandoned

(* The adapter's handlers.                                                 *)
LEMMA FeedHandled ==
  ASSUME SideOK, SideOK', ClientOK, ConnOK, Handle, ~HandleFlawed
  PROVE  Feeds
<1>1. events \in Seq(Event)
  BY SideTypes
<1>2. ASSUME NEW kind, Handling(kind)
      PROVE  /\ events # <<>> /\ Head(events).kind = kind
             /\ kind \notin {"message", "connected"} => ~Listening
  <2>1. events # <<>> /\ Head(events).kind = kind /\ Head(events) = events[1]
        /\ 1 \in 1..Len(events)
    BY <1>1, <1>2, TailType DEF Handling
  <2> QED BY <2>1 DEF ClientOK, Listening
<1>3. CASE HandleConnected
  <2>1. /\ events # <<>> /\ Head(events).kind = "connected" /\ events' = Tail(events)
        /\ UNCHANGED <<rel, members, conn, net>>
    BY <1>2, <1>3 DEF HandleConnected, Handled, sessionVars, clientVars
  <2>2. Polled(Head(events)) = [type |-> "welcome"]
    BY <2>1 DEF Polled
  <2>3. Membership(Polled(Head(events))) /\ After(View, Polled(Head(events))) = {}
    BY <2>2 DEF Membership, After
  <2>4. View' = {} /\ Listening' = Listening
    BY <1>3, <2>1, HandleConnectedStep DEF Listening
  <2> QED BY <2>1, <2>3, <2>4, FeedRead
<1>4. CASE HandleRejected \/ HandleViolation \/ HandleDisconnected \/ HandleError
  <2>1. PICK kind \in {"rejected", "violation", "disconnected", "error"} : Handling(kind)
    BY <1>4 DEF HandleRejected, HandleViolation, HandleDisconnected, HandleError
  <2>2. events # <<>> /\ Head(events).kind = kind /\ ~Listening
    BY <1>2, <2>1
  <2>3. /\ events' = Tail(events) /\ UNCHANGED <<rel, members>>
        /\ ~Listening' /\ View' = View
    <3>1. events' = Tail(events) /\ UNCHANGED <<rel, members>>
      BY <1>4 DEF HandleRejected, HandleViolation, HandleDisconnected, HandleError,
         Handled, sessionVars
    <3>2. UNCHANGED <<net, conn>> \/ net' = "none"
      BY <1>4 DEF HandleRejected, HandleViolation, HandleDisconnected, HandleError,
         ResetClient
    <3>3. ~Listening'
      BY <2>2, <3>2 DEF Listening
    <3> QED BY <1>4, <3>1, <3>3, HandleEndStep
  <2>4. ~Membership(Polled(Head(events)))
    BY <2>2 DEF Polled, Membership
  <2>5. Listening' = Listening
    BY <2>2, <2>3 DEF Listening
  <2> QED BY <2>2, <2>3, <2>4, <2>5, FeedRead
<1>5. ASSUME NEW type, HandleFine(type)
      PROVE  /\ events # <<>> /\ events' = Tail(events)
             /\ Polled(Head(events)) = Message /\ Message.type = type
             /\ UNCHANGED <<rel, members, conn, net>> /\ Listening' = Listening
  <2>1. UNCHANGED <<rel, members, conn, net>> /\ events' = Tail(events)
        /\ Handling("message") /\ Message.type = type
    BY <1>5 DEF HandleFine, Handled, sessionVars, clientVars
  <2>2. events # <<>> /\ Head(events).kind = "message"
    BY <1>2, <2>1
  <2>3. Polled(Head(events)) = Message
    BY <2>2 DEF Polled, Message
  <2> QED BY <2>1, <2>2, <2>3 DEF Listening
<1>6. CASE HandleJoined \/ HandleLeft
  <2>1. PICK type \in {"joined", "left"} : HandleFine(type)
    BY <1>6 DEF HandleJoined, HandleLeft
  <2>2. View' = After(View, Message)
    BY <1>6, HandleMemberStep
  <2>3. Membership(Message)
    BY <1>5, <2>1 DEF Membership
  <2> QED BY <1>5, <2>1, <2>2, <2>3, FeedRead
<1>7. CASE HandleStates
  <2>1. PICK type \in {"state", "snapshot"} : HandleFine(type)
    BY <1>7 DEF HandleStates
  <2>2. View' = View
    BY <1>7, HandleStatesStep
  <2>3. ~Membership(Message)
    BY <1>5, <2>1 DEF Membership
  <2> QED BY <1>5, <2>1, <2>2, <2>3, FeedRead
<1> QED BY <1>3, <1>4, <1>6, <1>7 DEF Handle

(* The sidecar gives up: its reader is gone with its roster.               *)
LEMMA FeedMisuse ==
  ASSUME SideOK, SideOK', Misuse \/ HandleFlawed
  PROVE  Feeds
<1>1. View' = {} /\ conn' = NoConn /\ net' = "none" /\ events' = <<>>
  BY MisuseStep
<1>2. ~Listening' /\ Admitted' = FALSE /\ Roster' = {}
  BY <1>1 DEF Listening, Admitted, Roster
<1>3. WayOK' /\ Len(<<>>) = 0
  BY WayPrimed
<1>4. Coming' = <<>>
  BY <1>2 DEF Coming
<1>5. Len(Way') = 0
  BY <1>1, <1>3, <1>4 DEF WayOK
<1>6. Rosters(View', Way') = <<{}>>
  BY <1>1, <1>5, RostersNone
<1>7. Lag' = <<>>
  <2>1. Tail(<<{}>>) = <<>>
    OBVIOUS
  <2> QED BY <1>6, <2>1, Lags
<1>8. FeedProofs!GiveUp
  BY <1>1, <1>2, <1>7 DEF FeedProofs!GiveUp
<1> QED BY <1>8 DEF Feeds, FeedProofs!Next

(* A new transport has carried nothing yet, and is not admitted.           *)
LEMMA FeedDial ==
  ASSUME SideOK, SideOK', ClientOK, Dial, View' = View
  PROVE  Feeds
<1>1. PICK c \in MyConn, i \in Incarnation : ConnectNew(c, i)
  BY DEF Dial
<1>2. /\ net = "none" /\ conn' = c /\ net' = "connecting" /\ c \notin registered
      /\ rel[c] = <<>> /\ rel' = rel /\ members' = members /\ events' = events
      /\ registered' = registered
  BY <1>1 DEF ConnectNew, sessionVars
<1>3. ~Member(c)
  <2>1. DOMAIN members \subseteq registered
    BY SideTypes DEF CoordinatorOK, SessionTypeOK
  <2> QED BY <1>2, <2>1 DEF Member
<1>4. ~Listening
  BY <1>2 DEF Listening
<1>5. Admitted = FALSE /\ Admitted' = FALSE
  BY <1>2, <1>3, <1>4 DEF Admitted, Member
<1>6. Coming = <<>> /\ Coming' = <<>>
  BY <1>2, <1>4 DEF Coming
<1>7. Way' = Way
  BY <1>2, <1>6 DEF Way, Coming
<1>8. Lag' = Lag /\ Roster' = Roster /\ Admitted' = Admitted
  BY <1>5, <1>7, Lags DEF Roster
<1> QED BY <1>8, Unmoved

\* And so is every step of the system.
LEMMA FeedNext ==
  ASSUME RelayOK, RelayOK', FeedProofs!Converged, [Next]_vars
  PROVE  Feeds
<1>0. SideOK /\ ClientOK /\ ConnOK /\ SideOK'
  BY DEF RelayOK
<1>1. CASE \/ (Peers \/ Process) /\ UNCHANGED sidecarVars
           \/ Coordinate
           \/ \E c \in MyConn : MyTransportLost(c)
           \/ \E seq \in 1..MaxSeqNo : MyState(seq)
  <2>1. View' = View
    BY <1>0, <1>1, OutsideStep
  <2>2. UNCHANGED <<conn, net, events>> /\ (conn # NoConn => Served(conn))
    BY <1>0, <1>1, ConnOutside
  <2> QED BY <1>0, <2>1, <2>2, FeedServed
<1>2. CASE Network \/ \E c \in MyConn : Discard(c)
  <2>1. View' = View
    BY <1>0, <1>2, OutsideStep
  <2> QED BY <1>0, <1>2, <2>1, FeedNetwork
<1>3. CASE Dial
  <2>1. View' = View
    BY <1>0, <1>3, DialStep DEF Dial
  <2> QED BY <1>0, <1>3, <2>1, FeedDial
<1>4. CASE Shake
  <2>1. View' = View
    BY <1>0, <1>4, ShakeStep
  <2>2. UNCHANGED <<conn, net, events, members, rel>>
    BY <1>4 DEF Shake, Handshake, Connect
  <2> QED BY <1>0, <2>1, <2>2, FeedSame
<1>5. CASE Poll
  <2>1. View' = View
    BY <1>0, <1>5, PollSteps
  <2> QED BY <1>0, <1>5, <2>1, FeedPoll
<1>6. CASE Handle /\ ~HandleFlawed
  BY <1>0, <1>6, FeedHandled
<1>7. CASE Misuse \/ HandleFlawed
  BY <1>0, <1>7, FeedMisuse
<1>8. CASE Silence \/ FirstSample
  <2>1. View' = View
    BY <1>0, <1>8, SilenceStep, FirstSampleStep
  <2>2. UNCHANGED <<conn, net, events, members, rel>>
    BY <1>8 DEF Silence, PumpEnd, PumpIdle, UpdateLiveness, FirstSample, sessionVars,
       clientVars
  <2> QED BY <1>0, <2>1, <2>2, FeedSame
<1>9. CASE UNCHANGED vars
  <2>1. UNCHANGED <<conn, net, events, members, rel, remotes>>
    BY <1>9 DEF vars, sessionVars, sidecarVars, clientVars, adapterVars
  <2>2. View' = View
    BY <2>1 DEF View
  <2> QED BY <1>0, <2>1, <2>2, FeedSame
<1> QED
  BY <1>1, <1>2, <1>3, <1>4, <1>5, <1>6, <1>7, <1>8, <1>9 DEF Next, Proceed, Thread

\* Nobody is admitted at the start.
LEMMA FeedStart == Init => FeedProofs!Init
<1> SUFFICES ASSUME Init PROVE FeedProofs!Init
  OBVIOUS
<1>0. RelayOK
  BY RelayInit
<1>1. conn = NoConn /\ net = "none" /\ events = <<>> /\ remotes = [pid \in {} |-> NoSeq]
  BY DEF Init, SidecarInit
<1>2. ~Listening /\ Admitted = FALSE /\ Roster = {}
  BY <1>1 DEF Listening, Admitted, Roster
<1>3. View = {}
  <2>1. DOMAIN remotes = {}
    BY <1>1
  <2> QED BY <2>1 DEF View
<1>4. WayOK /\ Len(<<>>) = 0
  BY <1>0, WayFacts DEF RelayOK
<1>5. Coming = <<>>
  BY <1>2 DEF Coming
<1>6. Len(Way) = 0
  BY <1>1, <1>4, <1>5 DEF WayOK
<1>7. Rosters(View, Way) = <<{}>>
  BY <1>3, <1>6, RostersNone
<1>8. Lag = <<>>
  <2>1. Tail(<<{}>>) = <<>>
    OBVIOUS
  <2> QED BY <1>7, <2>1, Lags
<1> QED BY <1>2, <1>3, <1>8 DEF FeedProofs!Init

\* With the feed's own invariant, which says what a change or a read may find.
FedOK == RelayOK /\ FeedProofs!FeedInv

\* At the start.
LEMMA FedInit == Init => FedOK
  BY RelayInit, FeedStart, FeedProofs!FeedInit DEF FedOK

\* Every step keeps the invariants, and is one of the feed's.
LEMMA FedNext == FedOK /\ [Next]_vars => FedOK' /\ Feeds
<1> SUFFICES ASSUME FedOK, [Next]_vars PROVE FedOK' /\ Feeds
  OBVIOUS
<1>1. RelayOK /\ RelayOK' /\ FeedProofs!FeedInv
  BY RelayNext DEF FedOK
<1>2. Feeds
  BY <1>1, FeedNext DEF FeedProofs!FeedInv
<1>3. FeedProofs!FeedInv'
  BY <1>1, <1>2, FeedProofs!FeedStep DEF Feeds
<1> QED BY <1>1, <1>2, <1>3 DEF FedOK

\* The feed of the proofs is the one that Relay names.
LEMMA TheFeed ==
  /\ FeedProofs!Init <=> Feed!Init
  /\ Feeds <=> [Feed!Next]_(Feed!vars)
  BY DEF Feeds, FeedProofs!Init, Feed!Init, FeedProofs!Next, Feed!Next,
     FeedProofs!vars, Feed!vars, FeedProofs!Admit, Feed!Admit,
     FeedProofs!Joined, Feed!Joined, FeedProofs!Change, Feed!Change,
     FeedProofs!OneApart, Feed!OneApart, FeedProofs!Read, Feed!Read,
     FeedProofs!End, Feed!End, FeedProofs!GiveUp, Feed!GiveUp

(* The relay implements the feed: whatever is lost, crashes or comes in    *)
(* between, what the adapter takes for the roster is one the coordinator   *)
(* had, each reached by one change, none left out between two welcomes     *)
(* (session.cpp:69-74 and 156-162, client.cpp, network_adapter.cpp,        *)
(* handle_event and handle_message).                                       *)
THEOREM RelayImplementsFeed == Spec => FeedSpec
<1>1. Init => FedOK /\ Feed!Init
  BY FedInit, FeedStart, TheFeed
<1>2. FedOK /\ [Next]_vars => FedOK' /\ [Feed!Next]_(Feed!vars)
  BY FedNext, TheFeed
<1> QED BY <1>1, <1>2, PTL DEF Spec, FeedSpec, Feed!Spec

-----------------------------------------------------------------------------
(* What the adapter could hold against the coordinator.                    *)

(* A roster the sidecar takes without objection, or, where k holds, with   *)
(* none but that it is too large.                                          *)
Good(R, k) ==
  /\ IsFiniteSet(R) /\ (Cardinality(R) <= MaxRemotes \/ k)
  /\ \A p, q \in R : p.pid = q.pid \/ p.name = q.name => p = q
  /\ \A p \in R : p.name # MyName

\* A part of such a roster is one.
LEMMA PartGood ==
  ASSUME NEW R, NEW k, Good(R, k), NEW T \in SUBSET R
  PROVE  Good(T, k)
<1>1. IsFiniteSet(T) /\ Cardinality(T) <= Cardinality(R)
      /\ Cardinality(T) \in Nat /\ Cardinality(R) \in Nat
  BY FS_Subset, FS_CardinalityType DEF Good
<1>2. Cardinality(R) <= MaxRemotes => Cardinality(T) <= MaxRemotes
  BY <1>1, SidecarAssumption
<1> QED BY <1>1, <1>2 DEF Good

\* So is the empty one.
LEMMA NoneGood == \A k : Good({}, k)
<1>1. IsFiniteSet({}) /\ Cardinality({}) = 0 /\ 0 <= MaxRemotes
  BY FS_EmptySet, SidecarAssumption
<1> QED BY <1>1 DEF Good

(* A session with more players than the sidecar can show is known, and who *)
(* ended his session will not dial again.                                  *)
CrowdOK ==
  /\ Overfull => crowded
  /\ fault # "none" => pipe = "closed"
  /\ pipe = "closed" => phase = "idle"

(* The coordinator's table is such a roster to whoever is in it.           *)
LEMMA RosterGood == SideOK /\ ConnOK /\ CrowdOK => Good(Roster, crowded)
<1> SUFFICES ASSUME SideOK, ConnOK, CrowdOK PROVE Good(Roster, crowded)
  OBVIOUS
<1>1. CASE ~Admitted
  <2>1. Roster = {}
    BY <1>1 DEF Roster
  <2> QED BY <2>1, NoneGood
<1>2. CASE Admitted
  <2>1. Member(conn) /\ conn # NoConn /\ Roster = Theirs(conn) /\ TableOK
    BY <1>2, SideTypes DEF Admitted, Listening, Roster, Others, Theirs, CoordinatorOK
  <2>2. members[conn].id.name = MyName
    BY <2>1 DEF ConnOK, MineOK
  <2>3. PICK D, C : D = DOMAIN members /\ C = D \ {conn}
    OBVIOUS
  <2>4. /\ IsFiniteSet(C) /\ Cardinality(C) = Cardinality(D) - 1
        /\ Cardinality(D) \in Nat /\ (Cardinality(D) <= MaxRemotes + 1 \/ crowded)
    <3>1. IsFiniteSet(D) /\ conn \in D
      BY <2>1, <2>3 DEF TableOK, Member
    <3>2. /\ IsFiniteSet(C) /\ Cardinality(C) = Cardinality(D) - 1
          /\ Cardinality(D) \in Nat
      BY <2>3, <3>1, FS_RemoveElement, FS_CardinalityType
    <3> QED BY <2>3, <3>2, SidecarAssumption DEF CrowdOK, Overfull
  <2> DEFINE f == [d \in C |-> members[d].id]
  <2>5. f \in Surjection(C, Roster)
    BY <2>1, <2>3 DEF Surjection, Theirs
  <2> HIDE DEF f
  <2>6. IsFiniteSet(Roster) /\ Cardinality(Roster) <= Cardinality(C)
    BY <2>4, <2>5, FS_Surjection
  <2>7. Cardinality(Roster) \in Nat
    BY <2>6, FS_CardinalityType
  <2>8. Cardinality(Roster) <= MaxRemotes \/ crowded
    BY <2>4, <2>6, <2>7, SidecarAssumption
  <2>9. \A p, q \in Roster : p.pid = q.pid \/ p.name = q.name => p = q
    BY <2>1 DEF Theirs, TableOK
  <2>10. \A p \in Roster : p.name # MyName
    BY <2>1, <2>2 DEF Theirs, TableOK, Member
  <2> QED BY <2>6, <2>8, <2>9, <2>10 DEF Good
<1> QED BY <1>1, <1>2

\* Also after a step.
LEMMA RosterGoodNext == SideOK' /\ ConnOK' /\ CrowdOK' => Good(Roster, crowded)'
  BY RosterGood, PTL

(* Every roster on its way is one.                                         *)
GoodLag == \A i \in 1..Len(Lag) : Good(Lag[i], crowded)

(* A roster that is being told one by one is part of the last.             *)
LEMMA ClimbsTo ==
  ASSUME NEW S, NEW s \in Seq(S), s # <<>>, Climbs(s)
  PROVE  \A i \in 1..Len(s) : s[i] \subseteq s[Len(s)]
<1>1. Len(s) \in Nat /\ Len(s) # 0
  OBVIOUS
<1> DEFINE n == Len(s)
           T == {k \in Nat : k < n => s[n - k] \subseteq s[n]}
<1>2. 0 \in T
  <2>1. n - 0 = n
    BY <1>1
  <2> QED BY <2>1
<1>3. ASSUME NEW k \in Nat, k \in T PROVE k + 1 \in T
  <2> SUFFICES ASSUME k + 1 < n PROVE s[n - (k + 1)] \subseteq s[n]
    OBVIOUS
  <2>1. n - k \in 2..n /\ (n - k) - 1 = n - (k + 1) /\ k < n
    BY <1>1
  <2>2. s[(n - k) - 1] \subseteq s[n - k]
    BY <2>1 DEF Climbs
  <2>3. s[n - k] \subseteq s[n]
    BY <1>3, <2>1
  <2> QED BY <2>1, <2>2, <2>3
<1> HIDE DEF T
<1>4. Nat \subseteq T
  BY <1>2, <1>3, SetInduction
<1>5. ASSUME NEW i \in 1..n PROVE s[i] \subseteq s[n]
  <2>1. n - i \in Nat /\ n - i < n /\ n - (n - i) = i
    BY <1>1
  <2>2. n - i \in T
    BY <1>4, <2>1
  <2> QED BY <2>1, <2>2 DEF T
<1> QED BY <1>5

\* What the feed adds to the way is the table's roster, or climbs to it.
LEMMA GoodLagNext ==
  ASSUME FedOK, FedOK', CrowdOK', GoodLag, Feeds,
         (crowded => crowded') \/ Lag' = <<>>
  PROVE  GoodLag'
<1>0. CASE Lag' = <<>>
  <2>1. 1..Len(Lag') = {}
    BY <1>0
  <2> QED BY <2>1 DEF GoodLag
<1> SUFFICES ASSUME crowded => crowded' PROVE GoodLag'
  BY <1>0
<1>1. Good(Roster', crowded')
  <2>1. Good(Roster, crowded)'
    BY RosterGoodNext DEF FedOK, RelayOK
  <2> QED BY <2>1 DEF Good
<1>2. Lag \in Seq(SUBSET Player) /\ Lag' \in Seq(SUBSET Player)
  BY DEF FedOK, FeedProofs!FeedInv, FeedProofs!TypeOK
<1>3. PICK s, t, r, k : s = Lag /\ t = Lag' /\ r = Roster' /\ k = crowded'
  OBVIOUS
<1>4. /\ s \in Seq(SUBSET Player) /\ t \in Seq(SUBSET Player) /\ Good(r, k)
      /\ \A i \in 1..Len(s) : Good(s[i], k)
  <2>1. \A R : Good(R, crowded) => Good(R, k)
    BY <1>3 DEF Good
  <2>2. \A i \in 1..Len(s) : Good(s[i], crowded)
    BY <1>3 DEF GoodLag
  <2> QED BY <1>1, <1>2, <1>3, <2>1, <2>2
<1>5. CASE FeedProofs!Admit
  <2>1. t # <<>> /\ t[Len(t)] = r /\ Climbs(t)
    BY <1>3, <1>5 DEF FeedProofs!Admit, FeedProofs!Joined, Climbs
  <2>2. \A i \in 1..Len(t) : t[i] \subseteq r
    BY <1>4, <2>1, ClimbsTo
  <2>3. \A i \in 1..Len(t) : Good(t[i], k)
    BY <1>4, <2>2, PartGood
  <2> QED BY <1>3, <2>3 DEF GoodLag
<1>6. CASE FeedProofs!Change
  <2>1. t = Append(s, r)
    BY <1>3, <1>6 DEF FeedProofs!Change
  <2>2. r \in SUBSET Player
    BY <1>3 DEF FedOK, FeedProofs!FeedInv, FeedProofs!TypeOK
  <2>3. \A i \in 1..Len(t) : t[i] = r \/ (i \in 1..Len(s) /\ t[i] = s[i])
    BY <1>4, <2>1, <2>2
  <2>4. \A i \in 1..Len(t) : Good(t[i], k)
    BY <1>4, <2>3
  <2> QED BY <1>3, <2>4 DEF GoodLag
<1>7. CASE FeedProofs!Read
  <2>1. s # <<>> /\ t = Tail(s)
    BY <1>3, <1>7 DEF FeedProofs!Read
  <2>2. \A i \in 1..Len(t) : i + 1 \in 1..Len(s) /\ t[i] = s[i + 1]
    BY <1>4, <2>1, TailType
  <2>3. \A i \in 1..Len(t) : Good(t[i], k)
    BY <1>4, <2>2
  <2> QED BY <1>3, <2>3 DEF GoodLag
<1>8. CASE FeedProofs!End
  <2>1. PICK n \in 0..Len(s) : t = SubSeq(s, 1, n)
    BY <1>3, <1>8 DEF FeedProofs!End
  <2>2. \A i \in 1..Len(t) : i \in 1..Len(s) /\ t[i] = s[i]
    BY <1>4, <2>1
  <2>3. \A i \in 1..Len(t) : Good(t[i], k)
    BY <1>4, <2>2
  <2> QED BY <1>3, <2>3 DEF GoodLag
<1>9. CASE FeedProofs!GiveUp
  <2>1. t = <<>> /\ Len(<<>>) = 0
    BY <1>3, <1>9 DEF FeedProofs!GiveUp
  <2>2. \A i \in 1..Len(t) : Good(t[i], k)
    BY <2>1
  <2> QED BY <1>3, <2>2 DEF GoodLag
<1>10. CASE UNCHANGED FeedProofs!vars
  <2>1. t = s
    BY <1>3, <1>10 DEF FeedProofs!vars
  <2> QED BY <1>3, <1>4, <2>1 DEF GoodLag
<1> QED BY <1>5, <1>6, <1>7, <1>8, <1>9, <1>10 DEF Feeds, FeedProofs!Next

(* What the adapter reads next.                                            *)
LEMMA NextRead ==
  ASSUME FedOK, GoodLag, Handling("message"), net = "connected"
  PROVE  /\ MessageFits(Message) /\ sessionId = assigned.session
         /\ Membership(Message) =>
              /\ Good(After(View, Message), crowded)
              /\ \/ After(View, Message) = {}
                 \/ FeedProofs!OneApart(View, After(View, Message))
<1>1. /\ SideOK /\ ClientOK /\ ConnOK /\ events \in Seq(Event) /\ WayOK
      /\ events # <<>> /\ Head(events).kind = "message"
      /\ FeedProofs!Stepwise
  BY SideTypes, WayFacts DEF FedOK, RelayOK, Handling, FeedProofs!FeedInv
<1>2. /\ Head(events) = events[1] /\ 1 \in 1..Len(events)
  BY <1>1, TailType
<1>3. conn # NoConn /\ EventsFit /\ sessionId = assigned.session
  BY <1>1 DEF ClientOK, ConnOK, ConnectedOK
<1>4. MessageFits(Message)
  BY <1>1, <1>2, <1>3 DEF EventsFit, Message
<1>5. Way[1] = Message /\ Len(Way) \in Nat /\ Len(Way) # 0
  <2>1. Way[1] = Polled(events[1])
    BY <1>1, <1>2 DEF WayOK
  <2>2. Len(Way) >= Len(events) /\ Len(events) >= 1
    BY <1>1, <1>2 DEF WayOK
  <2> QED BY <1>1, <1>2, <2>1, <2>2 DEF Polled, Message, WayOK
<1>6. ASSUME Membership(Message)
      PROVE  Lag # <<>> /\ 1 \in 1..Len(Lag) /\ Lag[1] = After(View, Message)
  <2>1. PICK w, v : w = Way /\ v = View
    OBVIOUS
  <2> DEFINE rest == [i \in 1..(Len(w) - 1) |-> w[i + 1]]
  <2>2. /\ Len(w) \in Nat /\ Len(w) # 0 /\ PeersIn(w) /\ v \in SUBSET Identity
        /\ w[1] = Message
    BY <1>1, <1>5, <2>1 DEF WayOK
  <2>3. Len(rest) = Len(w) - 1 /\ \A i \in 1..Len(rest) : rest[i] = w[i + 1]
    <3>1. Len(w) - 1 \in Nat
      BY <2>2
    <3> QED BY <3>1
  <2> HIDE DEF rest
  <2>4. Rosters(v, w) = <<v>> \o Rosters(After(v, w[1]), rest)
    BY <1>6, <2>2, <2>3, RostersTail
  <2>5. PeersIn(rest)
    <3>1. \A i \in 1..Len(rest) : i + 1 \in 1..Len(w) /\ rest[i] = w[i + 1]
      BY <2>2, <2>3
    <3> QED BY <2>2, <3>1 DEF PeersIn
  <2>6. After(v, w[1]) \in SUBSET Identity
    <3>1. w[1].type = "joined" => w[1].peer \in Identity
      BY <2>2 DEF PeersIn
    <3> QED BY <1>6, <2>2, <3>1, AfterType
  <2>7. /\ Rosters(After(v, w[1]), rest) \in Seq(SUBSET Identity)
        /\ Rosters(After(v, w[1]), rest) # <<>>
        /\ Rosters(After(v, w[1]), rest)[1] = After(v, w[1])
    <3>1. Len(rest) \in Nat
      BY <2>2, <2>3
    <3> QED BY <2>5, <2>6, <3>1, RostersType
  <2>8. PICK s : s = Rosters(After(v, w[1]), rest)
    OBVIOUS
  <2>9. s \in Seq(SUBSET Identity) /\ s # <<>> /\ s[1] = After(v, w[1])
        /\ Rosters(v, w) = <<v>> \o s
    BY <2>4, <2>7, <2>8
  <2>10. Tail(<<v>> \o s) = s
    BY <2>2, <2>9
  <2>11. Lag = s
    BY <2>1, <2>9, <2>10 DEF Lag
  <2>12. 1 \in 1..Len(s)
    BY <2>9
  <2> QED BY <2>1, <2>2, <2>9, <2>11, <2>12
<1> QED BY <1>1, <1>3, <1>4, <1>6 DEF GoodLag, FeedProofs!Stepwise

(* A peer that joins is no surprise, unless the session is overfull.       *)
LEMMA JoinedWelcome ==
  ASSUME FedOK, GoodLag, Handling("message"), InSession, Message.type = "joined"
  PROVE  \/ JoinedObjection(Message.peer) = "none"
         \/ JoinedObjection(Message.peer) = "too many" /\ crowded
<1> DEFINE p == Message.peer
           after == After(View, Message)
<1>1. /\ MessageFits(Message) /\ Good(after, crowded)
      /\ after = {} \/ FeedProofs!OneApart(View, after)
  BY NextRead DEF InSession, Membership
<1>2. p.pid # assigned.pid
  BY <1>1 DEF MessageFits, Apart
<1>3. after = {q \in View : q.pid # p.pid} \cup {p}
  BY DEF After
<1>4. RemotesOK
  BY SideTypes DEF FedOK, RelayOK
<1>5. \A pid \in DOMAIN remotes :
        \E r \in View : r.pid = pid /\ r.name = remotes[pid].name
  <2> TAKE pid \in DOMAIN remotes
  <2>1. PICK r : r = [pid |-> pid, inc |-> remotes[pid].inc, name |-> remotes[pid].name]
    OBVIOUS
  <2>2. r \in View /\ r.pid = pid /\ r.name = remotes[pid].name
    BY <2>1 DEF View
  <2> QED BY <2>2
<1>6. p.name # MyName
  BY <1>1, <1>3 DEF Good
<1>7. \A q \in DOMAIN remotes \ {p.pid} : remotes[q].name # p.name
  <2> TAKE q \in DOMAIN remotes \ {p.pid}
  <2>1. PICK r \in View : r.pid = q /\ r.name = remotes[q].name
    BY <1>5
  <2>2. r \in after /\ p \in after /\ r # p
    BY <1>3, <2>1
  <2> QED BY <1>1, <2>1, <2>2 DEF Good
<1>8. NoRoomFor(p.pid) => crowded
  <2> SUFFICES ASSUME p.pid \notin DOMAIN remotes, ~crowded
               PROVE  Cardinality(DOMAIN remotes) < MaxRemotes
    <3>1. Cardinality(DOMAIN remotes) \in Nat
      BY <1>4, FS_CardinalityType DEF RemotesOK
    <3> HIDE DEF p
    <3> QED BY <3>1, SidecarAssumption DEF NoRoomFor
  <2>1. \A r \in View : r.pid \in DOMAIN remotes /\ r.pid # p.pid
    BY DEF View
  <2>2. after = View \cup {p} /\ p \notin View
    BY <1>3, <2>1
  <2>3. IsFiniteSet(View)
    BY <1>1, <2>2, FS_Subset DEF Good
  <2>4. Cardinality(after) = Cardinality(View) + 1 /\ Cardinality(View) \in Nat
    BY <2>2, <2>3, FS_AddElement, FS_CardinalityType
  <2> DEFINE f == [r \in View |-> r.pid]
  <2>5. f \in Surjection(View, DOMAIN remotes)
    BY <1>5, <2>1 DEF Surjection
  <2> HIDE DEF f
  <2>6. Cardinality(DOMAIN remotes) <= Cardinality(View)
        /\ Cardinality(DOMAIN remotes) \in Nat
    BY <1>4, <2>3, <2>5, FS_Surjection, FS_CardinalityType DEF RemotesOK
  <2>7. Cardinality(after) <= MaxRemotes
    BY <1>1 DEF Good
  <2> HIDE DEF after, p
  <2> QED BY <2>4, <2>6, <2>7, SidecarAssumption
<1>9. p.pid \in DOMAIN remotes /\ remotes[p.pid].inc = p.inc
        => remotes[p.pid].name = p.name
  <2> SUFFICES ASSUME p.pid \in DOMAIN remotes PROVE remotes[p.pid].name = p.name
    OBVIOUS
  <2>1. PICK r \in View : r.pid = p.pid /\ r.name = remotes[p.pid].name
    BY <1>5
  <2>2. p \in after
    BY <1>3
  <2>3. CASE FeedProofs!Joined(View, after)
    <3>1. r \in after
      BY <2>1, <2>3 DEF FeedProofs!Joined
    <3> QED BY <1>1, <2>1, <2>2, <3>1 DEF Good
  <2>4. CASE FeedProofs!Joined(after, View)
    <3>1. p \in View
      BY <2>2, <2>4 DEF FeedProofs!Joined
    <3>2. \A q \in View : q.name = remotes[q.pid].name
      BY DEF View
    <3> QED BY <3>1, <3>2
  <2> QED BY <1>1, <2>2, <2>3, <2>4 DEF FeedProofs!OneApart
<1> HIDE DEF p, after
<1> QED BY <1>2, <1>6, <1>7, <1>8, <1>9 DEF JoinedObjection, p

(* Nor is a state or a snapshot.                                           *)
LEMMA StatesWelcome ==
  ASSUME FedOK, GoodLag, Handling("message"), InSession,
         Message.type \in {"state", "snapshot"}
  PROVE  StatesObjection(Message) = "none"
<1>1. MessageFits(Message) /\ sessionId = assigned.session
  BY NextRead DEF InSession
<1>2. Fits(Message, sessionId, assigned.pid, inc)
  BY <1>1 DEF MessageFits
<1>3. \A st \in Message.players : StateObjection(st) = "none"
  BY <1>2 DEF Fits, StateObjection
<1>4. {st \in Message.players : StateObjection(st) # "none"} = {}
  BY <1>3
<1>5. Message.type = "snapshot" => Message.session = sessionId
  BY <1>2 DEF Fits
<1> QED BY <1>4, <1>5 DEF StatesObjection

(* Outside its session the adapter has one objection alone.                *)
LEMMA OutsideObjection ==
  ASSUME NEW m, ~InSession, m.type \in {"state", "snapshot"}
  PROVE  StatesObjection(m) \in {"none", "outside session"}
<1> DEFINE bad == {st \in m.players : StateObjection(st) # "none"}
           first == CHOOSE st \in bad : \A other \in bad : st.pid <= other.pid
<1>1. StateObjection(first) = "outside session"
  BY DEF StateObjection
<1> HIDE DEF first
<1> QED BY <1>1 DEF StatesObjection, first

\* handle_message objects to nothing but what arrives outside a session, and to
\* a peer too many.
LEMMA Unobjectionable ==
  ASSUME FedOK, GoodLag, HandleFlawed
  PROVE  \/ Objection(Message) = "outside session"
         \/ Objection(Message) = "too many" /\ crowded
<1>1. Handling("message") /\ Objection(Message) # "none"
  BY DEF HandleFlawed
<1>2. CASE Message.type = "joined"
  <2>1. Objection(Message) = JoinedObjection(Message.peer)
    BY <1>2 DEF Objection
  <2>2. CASE InSession
    BY <1>1, <1>2, <2>1, <2>2, JoinedWelcome
  <2>3. CASE ~InSession
    BY <2>1, <2>3 DEF JoinedObjection
  <2> QED BY <2>2, <2>3
<1>3. CASE Message.type = "left"
  <2>1. CASE net # "connected"
    BY <1>3, <2>1 DEF Objection
  <2>2. CASE net = "connected"
    <3>1. MessageFits(Message)
      BY <1>1, <2>2, NextRead
    <3>2. Message.pid # assigned.pid
      BY <1>3, <3>1 DEF MessageFits, Apart
    <3> QED BY <1>1, <1>3, <2>2, <3>2 DEF Objection
  <2> QED BY <2>1, <2>2
<1>4. CASE Message.type \in {"state", "snapshot"}
  <2>1. Objection(Message) = StatesObjection(Message)
    BY <1>4 DEF Objection
  <2>2. CASE InSession
    BY <1>1, <1>4, <2>1, <2>2, StatesWelcome
  <2>3. CASE ~InSession
    BY <1>1, <1>4, <2>1, <2>3, OutsideObjection
  <2> QED BY <2>2, <2>3
<1>5. CASE Message.type \notin {"joined", "left", "state", "snapshot"}
  BY <1>1, <1>5 DEF Objection
<1> QED BY <1>2, <1>3, <1>4, <1>5

\* A session ends for the objection of a message or for a fault of the pipe
\* or the sample.
LEMMA FaultNext ==
  ASSUME [Next]_vars
  PROVE  \/ UNCHANGED fault
         \/ HandleFlawed /\ fault' = Objection(Message)
         \/ fault' \in {"pipe", "appearance"}
<1> USE DEF sidecarVars, adapterVars
<1>1. CASE \/ (Peers \/ Process) /\ UNCHANGED sidecarVars
           \/ Coordinate
           \/ \E c \in MyConn : MyTransportLost(c)
           \/ \E seq \in 1..MaxSeqNo : MyState(seq)
           \/ Network \/ \E c \in MyConn : Discard(c)
  BY <1>1 DEF Coordinate, ServeHello, ServeDisconnect, OthersOfSidecar,
     MyTransportLost, MyState, Network, LoseState, LoseReliable, Discard
<1>2. CASE Dial \/ Shake \/ Poll
  BY <1>2 DEF Dial, ConnectNew, Shake, Handshake, Poll, PollBegin, PollEnd,
     ServiceReliable, ServiceState, Abandoned, ServiceLost, ServiceFailed, ConnectTimeout
<1>3. CASE Handle
  <2>1. CASE HandleFlawed
    BY <2>1 DEF HandleFlawed, GiveUp
  <2>2. CASE ~HandleFlawed
    BY <1>3, <2>2 DEF Handle, HandleConnected, HandleRejected, HandleViolation,
       HandleDisconnected, HandleError, HandleJoined, HandleLeft, HandleStates, HandleFine
  <2> QED BY <2>1, <2>2
<1>4. CASE Silence \/ FirstSample
  BY <1>4 DEF Silence, PumpEnd, PumpIdle, UpdateLiveness, FirstSample
<1>5. CASE Misuse
  BY <1>5 DEF Misuse, StopOrPipeLost, ConflictingSample, GiveUp
<1>6. CASE UNCHANGED vars
  BY <1>6 DEF vars
<1> QED BY <1>1, <1>2, <1>3, <1>4, <1>5, <1>6 DEF Next, Proceed, Thread

\* Who has given up stays so, and never dials.
LEMMA ClosedStays ==
  ASSUME [Next]_vars, CrowdOK
  PROVE  /\ fault' # "none" => pipe' = "closed"
         /\ pipe' = "closed" => phase' = "idle"
         /\ pipe = "closed" => conn' \in {conn, NoConn}
<1> USE DEF sidecarVars, clientVars, adapterVars, CrowdOK
<1>1. CASE \/ (Peers \/ Process) /\ UNCHANGED sidecarVars
           \/ Coordinate
           \/ \E c \in MyConn : MyTransportLost(c)
           \/ \E seq \in 1..MaxSeqNo : MyState(seq)
           \/ Network \/ \E c \in MyConn : Discard(c)
  BY <1>1 DEF Coordinate, ServeHello, ServeDisconnect, OthersOfSidecar,
     MyTransportLost, MyState, Network, LoseState, LoseReliable, Discard
<1>2. CASE Dial \/ Shake
  BY <1>2 DEF Dial, ConnectNew, Shake, Handshake
<1>3. CASE Poll
  <2>1. pipe # "closed" /\ UNCHANGED <<pipe, fault>>
    BY <1>3 DEF Poll, PollBegin, PollEnd, ServiceReliable, ServiceState, Abandoned,
       ServiceLost, ServiceFailed, ConnectTimeout, Servicing
  <2> QED BY <2>1
<1>4. CASE HandleFlawed \/ Misuse
  BY <1>4 DEF HandleFlawed, Misuse, StopOrPipeLost, ConflictingSample, GiveUp, ResetClient
<1>5. CASE Handle /\ ~HandleFlawed
  <2>1. pipe # "closed" /\ fault' = fault /\ pipe' \in {pipe, "safe"}
    BY <1>5 DEF Handle, HandleConnected, HandleRejected, HandleViolation, Handling,
       HandleDisconnected, HandleError, HandleJoined, HandleLeft, HandleStates,
       HandleFine, SafeMode, KeepTrying
  <2> QED BY <2>1
<1>6. CASE Silence \/ FirstSample
  BY <1>6 DEF Silence, PumpEnd, PumpIdle, UpdateLiveness, FirstSample
<1>7. CASE UNCHANGED vars
  BY <1>7 DEF vars
<1> QED BY <1>1, <1>2, <1>3, <1>4, <1>5, <1>6, <1>7 DEF Next, Proceed, Thread

\* Only a dial takes a new transport, and nothing is on its way then.
LEMMA NewTransport ==
  ASSUME RelayOK, RelayOK', [Next]_vars, conn' \notin {conn, NoConn}
  PROVE  Lag' = <<>>
<1> USE DEF sidecarVars, clientVars, adapterVars
<1>1. Dial
  <2>1. CASE \/ (Peers \/ Process) /\ UNCHANGED sidecarVars
             \/ Coordinate
             \/ \E c \in MyConn : MyTransportLost(c)
             \/ \E seq \in 1..MaxSeqNo : MyState(seq)
             \/ Network \/ \E c \in MyConn : Discard(c)
    BY <2>1 DEF Coordinate, ServeHello, ServeDisconnect, OthersOfSidecar,
       MyTransportLost, MyState, Network, LoseState, LoseReliable, Discard
  <2>2. CASE Poll
    BY <2>2 DEF Poll, PollBegin, PollEnd, ServiceReliable, ServiceState, Abandoned,
       ServiceLost, ServiceFailed, ConnectTimeout, OnWelcome, OnDisconnect, OnClosed,
       OnGameplay, Violate
  <2>3. CASE Shake \/ Silence \/ FirstSample
    BY <2>3 DEF Shake, Handshake, Silence, PumpEnd, PumpIdle, UpdateLiveness, FirstSample
  <2>4. CASE Handle \/ Misuse
    BY <2>4 DEF Handle, HandleConnected, HandleRejected, HandleViolation, HandleFlawed,
       HandleDisconnected, HandleError, HandleJoined, HandleLeft, HandleStates,
       HandleFine, ResetClient, Misuse, StopOrPipeLost, ConflictingSample, GiveUp
  <2>5. CASE UNCHANGED vars
    BY <2>5 DEF vars
  <2> QED BY <2>1, <2>2, <2>3, <2>4, <2>5 DEF Next, Proceed, Thread
<1>2. PICK c \in MyConn, i \in Incarnation : ConnectNew(c, i)
  BY <1>1 DEF Dial
<1>3. rel'[conn'] = <<>> /\ events' = <<>>
  BY <1>2 DEF ConnectNew, sessionVars, RelayOK, ClientOK
<1>4. WayOK'
  BY WayPrimed DEF RelayOK
<1>5. Len(Way') = 0
  <2>1. Coming' = <<>>
    BY <1>3 DEF Coming
  <2> QED BY <1>3, <1>4, <2>1 DEF WayOK
<1>6. Lag' = <<>>
  <2>1. PICK v, w : v = View' /\ w = Way'
    OBVIOUS
  <2>2. Rosters(v, w) = <<v>>
    BY <1>5, <2>1, RostersNone
  <2>3. Tail(<<v>>) = <<>>
    OBVIOUS
  <2> QED BY <2>1, <2>2, <2>3 DEF Lag
<1> QED BY <1>6

(* The checks of handle_message that end the session because the           *)
(* coordinator broke the membership stream never fire against this         *)
(* coordinator, but for one: a peer too many, and then the session had     *)
(* more players than the adapter can show (network_adapter.cpp:459-625).   *)
THEOREM CoordinatorIsNeverAccused == CrowdSpec => []NeverAccused
<1> DEFINE Inv == FedOK /\ CrowdOK /\ GoodLag /\ NeverAccused
<1>1. CrowdInit => Inv
  <2> SUFFICES ASSUME CrowdInit PROVE Inv
    OBVIOUS
  <2>0. Init
    BY DEF CrowdInit
  <2>1. Lag = <<>> /\ Len(<<>>) = 0
    BY <2>0, FeedStart DEF FeedProofs!Init
  <2>2. GoodLag
    BY <2>1 DEF GoodLag
  <2>3. NeverAccused /\ fault = "none" /\ pipe = "live"
    BY <2>0 DEF Init, SidecarInit, NeverAccused
  <2>4. ~Overfull
    <3>1. DOMAIN members = {} /\ Cardinality({}) = 0
      BY <2>0, FS_EmptySet DEF Init, SessionInit
    <3> QED BY <3>1, SidecarAssumption DEF Overfull
  <2> QED BY <2>0, <2>2, <2>3, <2>4, FedInit DEF CrowdOK
<1>2. Inv /\ [CrowdNext]_crowdVars => Inv'
  <2> SUFFICES ASSUME Inv, [CrowdNext]_crowdVars PROVE Inv'
    OBVIOUS
  <2>1. [Next]_vars
    BY DEF CrowdNext, crowdVars
  <2>2. FedOK' /\ Feeds
    BY <2>1, FedNext
  <2>3. conn' \in {conn, NoConn} => (crowded => crowded')
    BY DEF CrowdNext, crowdVars
  <2>4. CrowdOK'
    <3>1. Overfull' => crowded'
      <4>1. CASE CrowdNext
        BY <4>1 DEF CrowdNext
      <4>2. CASE UNCHANGED crowdVars
        BY <4>2 DEF crowdVars, vars, sessionVars, Overfull, CrowdOK
      <4> QED BY <4>1, <4>2
    <3> QED BY <2>1, <3>1, ClosedStays DEF CrowdOK
  <2>5. (crowded => crowded') \/ Lag' = <<>>
    BY <2>1, <2>2, <2>3, NewTransport DEF FedOK
  <2>6. GoodLag'
    BY <2>2, <2>4, <2>5, GoodLagNext
  <2>7. NeverAccused'
    <3>1. CASE UNCHANGED fault
      <4>1. fault = "too many" => conn' \in {conn, NoConn}
        BY <2>1, ClosedStays DEF CrowdOK
      <4> QED BY <2>3, <3>1, <4>1 DEF NeverAccused
    <3>2. CASE HandleFlawed /\ fault' = Objection(Message)
      <4>1. conn' = NoConn
        BY <3>2 DEF HandleFlawed, GiveUp, ResetClient
      <4> QED BY <2>3, <3>2, <4>1, Unobjectionable DEF NeverAccused
    <3>3. CASE fault' \in {"pipe", "appearance"}
      BY <3>3 DEF NeverAccused
    <3> QED BY <2>1, <3>1, <3>2, <3>3, FaultNext
  <2> QED BY <2>2, <2>4, <2>6, <2>7
<1>3. Inv => NeverAccused
  OBVIOUS
<1> QED BY <1>1, <1>2, <1>3, PTL DEF CrowdSpec
-----------------------------------------------------------------------------
(* The order of what the coordinator sends reliably.                       *)

\* Packets after which the coordinator sends no others.
Final(m) == m.type \in {"disconnect", "closed"}

(* The queue q to a client in `state`, of a transport that is routed or a  *)
(* member's: the final packets are the last and come when routing is gone; *)
(* a welcome is the first, and a client that waits for one has nothing     *)
(* else in front of it; a client that read a final packet has only those.  *)
Ordered(q, state, routed, member) ==
  /\ state # "none"
  /\ \A i, j \in 1..Len(q) : i < j /\ Final(q[i]) => Final(q[j])
  /\ \A i \in 1..Len(q) : Final(q[i]) => ~routed
  /\ \A i \in 1..Len(q) :
       q[i].type = "welcome" => i = 1 /\ state \in {"connecting", "failed"}
  /\ state = "connecting" /\ q # <<>> => q[1].type = "welcome" \/ Final(q[1])
  /\ state = "connecting" /\ member => q # <<>>
  /\ state \in {"disconnected", "rejected"} =>
       ~routed /\ \A i \in 1..Len(q) : Final(q[i])

OrderOK ==
  conn # NoConn => Ordered(rel[conn], net, conn \in registered, Member(conn))

\* A client that fails keeps the order.
LEMMA OrderFailed ==
  ASSUME NEW q, NEW state, NEW routed, NEW member, Ordered(q, state, routed, member)
  PROVE  Ordered(q, "failed", routed, member)
  BY DEF Ordered

\* A packet more, of one who is a member.
LEMMA OrderMore ==
  ASSUME NEW q \in Seq(ReliableMsg), NEW state, Ordered(q, state, TRUE, TRUE),
         NEW m, ~Final(m), m.type # "welcome", NEW routed
  PROVE  Ordered(Append(q, m), state, routed, TRUE)
<1> DEFINE new == Append(q, m)
<1>1. /\ Len(new) = Len(q) + 1 /\ Len(q) \in Nat /\ new # <<>>
      /\ \A i \in 1..Len(q) : new[i] = q[i]
      /\ new[Len(q) + 1] = m
  OBVIOUS
<1>2. \A i \in 1..Len(new) : i \in 1..Len(q) \/ i = Len(q) + 1
  BY <1>1
<1>3. \A i \in 1..Len(new) : ~Final(new[i])
  BY <1>1, <1>2 DEF Ordered
<1>4. \A i \in 1..Len(new) :
        new[i].type = "welcome" => i = 1 /\ state \in {"connecting", "failed"}
  BY <1>1, <1>2 DEF Ordered
<1>5. state = "connecting" => new[1].type = "welcome"
  <2> SUFFICES ASSUME state = "connecting" PROVE new[1].type = "welcome"
    OBVIOUS
  <2>1. q # <<>> /\ 1 \in 1..Len(q)
    BY <1>1 DEF Ordered
  <2>2. ~Final(q[1])
    BY <2>1 DEF Ordered
  <2> QED BY <1>1, <2>1, <2>2 DEF Ordered
<1>6. state # "none" /\ state \notin {"disconnected", "rejected"}
  BY DEF Ordered
<1> HIDE DEF new
<1>7. Ordered(new, state, routed, TRUE)
  BY <1>1, <1>3, <1>4, <1>5, <1>6 DEF Ordered
<1> QED BY <1>7 DEF new

\* The farewell, to one who is no longer routed.
LEMMA OrderEnd ==
  ASSUME NEW q \in Seq(ReliableMsg), NEW bye \in Seq(ReliableMsg), NEW state,
         NEW routed, NEW member, Ordered(q, state, routed, member),
         \A i \in 1..Len(bye) : Final(bye[i])
  PROVE  Ordered(q \o bye, state, FALSE, FALSE)
<1> DEFINE new == q \o bye
<1>1. /\ Len(new) = Len(q) + Len(bye) /\ Len(q) \in Nat /\ Len(bye) \in Nat
      /\ \A i \in 1..Len(q) : new[i] = q[i]
      /\ \A i \in 1..Len(new) : i > Len(q) => new[i] = bye[i - Len(q)]
  OBVIOUS
<1>2. \A i \in 1..Len(new) : i > Len(q) => Final(new[i])
  <2> SUFFICES ASSUME NEW i \in 1..Len(new), i > Len(q) PROVE Final(new[i])
    OBVIOUS
  <2>1. i - Len(q) \in 1..Len(bye)
    BY <1>1
  <2> QED BY <1>1, <2>1
<1>3. \A i \in 1..Len(new) : i > Len(q) \/ i \in 1..Len(q)
  BY <1>1
<1>4. \A i, j \in 1..Len(new) : i < j /\ Final(new[i]) => Final(new[j])
  <2> SUFFICES ASSUME NEW i \in 1..Len(new), NEW j \in 1..Len(new), i < j,
                      Final(new[i]), j \in 1..Len(q)
               PROVE  Final(new[j])
    BY <1>2, <1>3
  <2>1. i \in 1..Len(q)
    BY <1>1
  <2> QED BY <1>1, <2>1 DEF Ordered
<1>5. \A i \in 1..Len(new) :
        new[i].type = "welcome" => i = 1 /\ state \in {"connecting", "failed"}
  BY <1>1, <1>2, <1>3 DEF Ordered, Final
<1>6. state = "connecting" /\ new # <<>> => new[1].type = "welcome" \/ Final(new[1])
  <2> SUFFICES ASSUME state = "connecting", new # <<>>
               PROVE  new[1].type = "welcome" \/ Final(new[1])
    OBVIOUS
  <2>1. 1 \in 1..Len(new)
    BY <1>1
  <2>2. CASE 1 > Len(q)
    BY <1>2, <2>1, <2>2
  <2>3. CASE 1 \in 1..Len(q)
    <3>1. q # <<>> /\ new[1] = q[1]
      BY <1>1, <2>3
    <3> QED BY <3>1 DEF Ordered
  <2> QED BY <1>3, <2>1, <2>2, <2>3
<1>7. state \in {"disconnected", "rejected"} => \A i \in 1..Len(new) : Final(new[i])
  BY <1>1, <1>2, <1>3 DEF Ordered
<1>8. state # "none"
  BY DEF Ordered
<1> HIDE DEF new
<1>9. Ordered(new, state, FALSE, FALSE)
  BY <1>4, <1>5, <1>6, <1>7, <1>8 DEF Ordered
<1> QED BY <1>9 DEF new

\* The first packets of one who is admitted.
LEMMA OrderBegin ==
  ASSUME NEW w, w.type = "welcome", NEW js \in Seq(ReliableMsg),
         \A i \in 1..Len(js) : js[i].type = "joined",
         NEW state \in {"connecting", "failed"}, NEW routed
  PROVE  Ordered(<<w>> \o js, state, routed, TRUE)
<1> DEFINE q == <<w>> \o js
<1>1. /\ Len(q) = 1 + Len(js) /\ Len(js) \in Nat /\ q[1] = w /\ q # <<>>
      /\ \A i \in 1..Len(q) : i # 1 => q[i] = js[i - 1]
  OBVIOUS
<1>2. \A i \in 1..Len(q) : i # 1 => i - 1 \in 1..Len(js)
  BY <1>1
<1>3. \A i \in 1..Len(q) : i # 1 => q[i].type = "joined"
  BY <1>1, <1>2
<1>4. \A i \in 1..Len(q) : ~Final(q[i])
  BY <1>1, <1>3 DEF Final
<1> HIDE DEF q
<1>5. Ordered(q, state, routed, TRUE)
  BY <1>1, <1>3, <1>4 DEF Ordered
<1> QED BY <1>5 DEF q

\* What the coordinator sends keeps the order.
LEMMA OrderServed ==
  ASSUME CoordinatorOK, net \in NetState, ConnOK, OrderOK, UNCHANGED <<conn, net>>,
         conn # NoConn => conn \in Watched /\ Served(conn) /\ Known(conn)
  PROVE  OrderOK'
<1> SUFFICES ASSUME conn # NoConn
             PROVE  Ordered(rel'[conn], net, conn \in registered', Member(conn)')
  BY DEF OrderOK, Member
<1>0. /\ rel[conn] \in Seq(ReliableMsg)
      /\ Ordered(rel[conn], net, conn \in registered, Member(conn))
      /\ Member(conn) => conn \in registered
      /\ Known(conn) /\ Served(conn)
  BY MemberTypes DEF CoordinatorOK, SessionTypeOK, OrderOK, Member
<1>1. CASE Quiet(conn)
  BY <1>0, <1>1 DEF Quiet, Ordered, Known
<1>2. CASE Admitting(conn)
  <2>1. /\ conn \in registered /\ ~Member(conn) /\ Member(conn)'
    BY <1>2 DEF Admitting
  <2>2. PICK js \in Seq(ReliableMsg) :
          /\ rel'[conn] = <<Welcome(members'[conn].id)>> \o js
          /\ \E id : Introduces(js, id, Theirs(conn)')
    BY <1>2 DEF Admitting
  <2>3. \A i \in 1..Len(js) : js[i].type = "joined"
    <3>1. \A p : Joined(p).type = "joined"
      BY DEF Joined
    <3>2. \A i \in 1..Len(js) : \E p : js[i] = Joined(p)
      BY <2>2 DEF Introduces
    <3> QED BY <3>1, <3>2
  <2>4. net \in {"connecting", "failed"}
    <3>1. net \notin {"none", "disconnected", "rejected"}
      BY <1>0, <2>1 DEF Ordered
    <3>2. net # "connected"
      BY <2>1 DEF ConnOK, ConnectedOK
    <3> QED BY <3>1, <3>2 DEF NetState
  <2>5. \A id : Welcome(id).type = "welcome"
    BY DEF Welcome
  <2> QED BY <2>1, <2>2, <2>3, <2>4, <2>5, OrderBegin
<1>3. CASE Joining(conn) \/ Leaving(conn)
  <2>1. Member(conn) /\ Member(conn)' /\ conn \in registered
    BY <1>0, <1>3 DEF Joining, Leaving
  <2>2. PICK m : rel'[conn] = Append(rel[conn], m) /\ m.type \in {"joined", "left"}
    <3>1. \A p : Joined(p).type = "joined" /\ Left(p).type = "left"
      BY DEF Joined, Left
    <3>2. \E p : \/ rel'[conn] = Append(rel[conn], Joined(p))
                \/ rel'[conn] = Append(rel[conn], Left(p))
      BY <1>3 DEF Joining, Leaving
    <3> QED BY <3>1, <3>2
  <2>3. Ordered(rel[conn], net, TRUE, TRUE)
    BY <1>0, <2>1 DEF Ordered
  <2> QED BY <1>0, <2>1, <2>2, <2>3, OrderMore DEF Final
<1>4. CASE Ending(conn)
  <2>1. PICK bye \in Seq(ReliableMsg) :
          rel'[conn] = rel[conn] \o bye /\ \A i \in 1..Len(bye) : Final(bye[i])
    BY <1>4 DEF Ending, Final
  <2>2. conn \notin registered' /\ ~Member(conn)'
    BY <1>4 DEF Ending
  <2>3. Ordered(rel[conn] \o bye, net, FALSE, FALSE)
    BY <1>0, <2>1, OrderEnd
  <2> QED BY <2>1, <2>2, <2>3 DEF Ordered
<1> QED BY <1>0, <1>1, <1>2, <1>3, <1>4 DEF Served

\* A packet read: what is left is in order, and it was no violation.
LEMMA OrderReliable ==
  ASSUME SideOK, OrderOK, ServiceReliable
  PROVE  OrderOK' /\ (net' = "failed" => net = "failed")
<1> DEFINE q == rel[conn]
           m == Head(q)
<1>0. TypesOK
  BY DEF SideOK
<1>1. /\ conn \in MyConn /\ q # <<>> /\ q \in Seq(ReliableMsg) /\ m \in ReliableMsg
      /\ Packet(m) /\ rel'[conn] = Tail(q) /\ UNCHANGED tables
  BY <1>0, ReadReliable
<1>2. UNCHANGED <<registered, members>>
  BY <1>1 DEF tables
<1>3. conn # NoConn
  BY <1>1, Constants
<1>4. /\ m = q[1] /\ Len(q) \in Nat /\ 1 \in 1..Len(q) /\ Len(Tail(q)) = Len(q) - 1
      /\ \A i \in 1..Len(Tail(q)) : Tail(q)[i] = q[i + 1]
  BY <1>1, TailType
<1>5. \A i \in 1..Len(Tail(q)) : i + 1 \in 1..Len(q) /\ i + 1 # 1 /\ 1 < i + 1
  BY <1>4
<1> DEFINE routed == conn \in registered
           member == Member(conn)
<1>6. Ordered(q, net, routed, member)
  BY <1>3 DEF OrderOK
<1>7. net \in NetState
  BY SideTypes DEF ClientTypes
<1>8. conn' = NoConn \/ (conn' = conn /\ Ordered(Tail(q), net', routed, member))
      => OrderOK'
  BY <1>1, <1>2 DEF OrderOK, Member
<1> HIDE DEF q, m, routed, member
<1>9. /\ \A i, j \in 1..Len(Tail(q)) :
           i < j /\ Final(Tail(q)[i]) => Final(Tail(q)[j])
      /\ \A i \in 1..Len(Tail(q)) : Final(Tail(q)[i]) => ~routed
      /\ \A i \in 1..Len(Tail(q)) : Tail(q)[i].type # "welcome"
  <2>1. ASSUME NEW i \in 1..Len(Tail(q)), NEW j \in 1..Len(Tail(q)), i < j,
               Final(Tail(q)[i])
        PROVE  Final(Tail(q)[j])
    <3>1. i + 1 \in 1..Len(q) /\ j + 1 \in 1..Len(q) /\ i + 1 < j + 1
      BY <1>5, <2>1
    <3>2. Final(q[i + 1])
      BY <1>4, <2>1
    <3>3. Final(q[j + 1])
      BY <1>6, <3>1, <3>2 DEF Ordered
    <3> QED BY <1>4, <3>3
  <2> QED BY <1>4, <1>5, <1>6, <2>1 DEF Ordered
<1>10. CASE OnWelcome(m)
  <2>1. net \in {"connecting", "failed"}
    BY <1>4, <1>6, <1>10 DEF OnWelcome, Ordered
  <2>2. conn' = conn /\ net' = IF net = "connecting" THEN "connected" ELSE "failed"
    BY <1>10, <2>1 DEF OnWelcome, Violate
  <2>3. Ordered(Tail(q), net', routed, member)
    BY <1>9, <2>1, <2>2 DEF Ordered
  <2> QED BY <1>8, <2>1, <2>2, <2>3
<1>11. CASE OnDisconnect(m)
  <2>1. Final(m) /\ conn' = conn /\ net' \in {"disconnected", "rejected"}
    BY <1>11 DEF OnDisconnect, Final
  <2>2. ~routed /\ \A i \in 1..Len(Tail(q)) : Final(Tail(q)[i])
    BY <1>4, <1>5, <1>6, <2>1 DEF Ordered
  <2>3. Ordered(Tail(q), net', routed, member)
    BY <1>9, <2>1, <2>2 DEF Ordered
  <2> QED BY <1>8, <2>1, <2>3
<1>12. CASE m.type = "closed" /\ OnClosed(m.reason)
  <2>1. conn' = NoConn /\ (net' = "failed" => net = "failed")
    BY <1>12 DEF OnClosed
  <2> QED BY <1>8, <2>1
<1>13. CASE OnGameplay(m)
  <2>1. m.type # "welcome" /\ ~Final(m)
    BY <1>13 DEF OnGameplay, Final
  <2>2. net \in {"connected", "failed"}
    BY <1>1, <1>4, <1>6, <1>7, <2>1 DEF Ordered, NetState
  <2>3. conn' = conn /\ net' = net
    BY <1>13, <2>2 DEF OnGameplay, Violate
  <2>4. Ordered(Tail(q), net', routed, member)
    BY <1>9, <2>2, <2>3 DEF Ordered
  <2> QED BY <1>8, <2>3, <2>4
<1> QED BY <1>1, <1>10, <1>11, <1>12, <1>13 DEF Packet

\* A step that leaves table and queues alone, and the client at most failed.
LEMMA OrderQuiet ==
  ASSUME OrderOK, UNCHANGED <<registered, members, rel>>,
         conn' = NoConn \/ (conn' = conn /\ (net' = net \/ net' = "failed"))
  PROVE  OrderOK'
<1>1. CASE conn' = NoConn
  BY <1>1 DEF OrderOK
<1>2. CASE conn' = conn /\ conn # NoConn
  <2>1. Ordered(rel[conn], net, conn \in registered, Member(conn))
    BY <1>2 DEF OrderOK
  <2>2. Ordered(rel[conn], net', conn \in registered, Member(conn))
    BY <1>2, <2>1, OrderFailed
  <2> QED BY <1>2, <2>2 DEF OrderOK, Member
<1> QED BY <1>1, <1>2

\* What the network loses leaves nothing out of order.
LEMMA OrderNetwork ==
  ASSUME SideOK, OrderOK, Network \/ \E c \in MyConn : Discard(c)
  PROVE  OrderOK' /\ net' = net
<1>0. /\ rel \in [Watched -> Seq(ReliableMsg)] /\ MyConn \subseteq Watched
      /\ conn # NoConn => conn \in MyConn
  BY SideTypes, Constants DEF CoordinatorOK, SessionTypeOK
<1>1. UNCHANGED <<registered, members, conn, net>>
  BY DEF Network, LoseState, LoseReliable, Discard, OthersOfSidecar, tables,
         sidecarVars, clientVars
<1>2. conn # NoConn => \/ rel'[conn] = rel[conn]
                       \/ rel'[conn] = <<>> /\ conn \notin registered
  <2>1. ASSUME NEW c \in MyConn, LoseState(c) PROVE rel' = rel
    BY <2>1 DEF LoseState
  <2>2. ASSUME NEW c \in MyConn, LoseReliable(c), conn # NoConn
        PROVE  rel'[conn] = <<>> /\ conn \notin registered
    BY <1>0, <2>2 DEF LoseReliable
  <2>3. ASSUME NEW c \in MyConn, Discard(c), conn # NoConn
        PROVE  rel'[conn] = rel[conn]
    BY <1>0, <2>3 DEF Discard
  <2> QED BY <2>1, <2>2, <2>3 DEF Network
<1>3. ASSUME conn # NoConn, conn \notin registered, NEW state,
             Ordered(rel[conn], state, conn \in registered, Member(conn))
      PROVE  Ordered(<<>>, state, conn \in registered, Member(conn))
  <2>1. ~Member(conn)
    BY <1>3, SideTypes, MemberTypes DEF Member, CoordinatorOK
  <2>2. 1..Len(<<>>) = {}
    OBVIOUS
  <2> QED BY <1>3, <2>1, <2>2 DEF Ordered
<1> QED BY <1>1, <1>2, <1>3 DEF OrderOK, Member

\* Every step keeps the order, and a client that fails read no packet.
LEMMA OrderNext ==
  ASSUME RelayOK, OrderOK, [Next]_vars
  PROVE  OrderOK' /\ (net # "failed" /\ net' = "failed" => rel' = rel)
<1>0. SideOK /\ ClientOK /\ ConnOK /\ SideOK' /\ CoordinatorOK /\ net \in NetState
  BY RelayNext, SideTypes DEF RelayOK, ClientTypes
<1>1. CASE UNCHANGED vars
  BY <1>1, OrderQuiet DEF vars, sessionVars, sidecarVars, clientVars
<1>2. CASE Network \/ \E c \in MyConn : Discard(c)
  BY <1>0, <1>2, OrderNetwork
<1>3. CASE \/ (Peers \/ Process) /\ UNCHANGED sidecarVars
           \/ Coordinate
           \/ \E c \in MyConn : MyTransportLost(c)
           \/ \E seq \in 1..MaxSeqNo : MyState(seq)
  <2>1. /\ UNCHANGED <<conn, net>>
        /\ conn # NoConn => Served(conn) /\ Known(conn) /\ conn \in Watched
    BY <1>0, <1>3, ConnOutside
  <2> QED BY <1>0, <2>1, OrderServed
<1>4. CASE Misuse \/ HandleFlawed
  <2>1. conn' = NoConn /\ net' = "none"
    BY <1>0, <1>4, MisuseStep
  <2> QED BY <2>1 DEF OrderOK
<1>5. CASE Dial
  <2>1. PICK c \in MyConn, i \in Incarnation : ConnectNew(c, i)
    BY <1>5 DEF Dial
  <2>2. /\ rel' = rel /\ rel[c] = <<>> /\ c \notin registered /\ conn' = c
        /\ net' = "connecting" /\ UNCHANGED <<registered, members>>
    BY <2>1 DEF ConnectNew, sessionVars
  <2>3. ~Member(c)
    BY <1>0, <2>2, MemberTypes DEF Member, CoordinatorOK
  <2>4. 1..Len(<<>>) = {}
    OBVIOUS
  <2>5. Ordered(<<>>, "connecting", c \in registered, Member(c))
    BY <2>2, <2>3, <2>4 DEF Ordered
  <2> QED BY <2>2, <2>5 DEF OrderOK, Member
<1>6. CASE Shake
  <2>1. PICK flaw \in MyFlaws : Handshake(flaw)
    BY <1>6 DEF Shake
  <2>2. /\ net = "connecting" /\ conn # NoConn /\ Connect(conn)
        /\ UNCHANGED <<conn, net, members, rel>>
    BY <2>1 DEF Handshake, Connect
  <2>3. conn \in Watched /\ rel[conn] = <<>> /\ ~Member(conn)
    <3>1. conn \in Watched
      BY <1>0, <2>2, SideTypes, Constants
    <3>2. conn \notin registered
      BY <2>2 DEF Connect
    <3>3. ~Member(conn)
      BY <1>0, <3>2, MemberTypes DEF Member, CoordinatorOK
    <3> QED BY <2>2, <3>1, <3>3 DEF Connect
  <2>4. 1..Len(<<>>) = {}
    OBVIOUS
  <2>5. \A routed \in BOOLEAN : Ordered(<<>>, "connecting", routed, FALSE)
    BY <2>4 DEF Ordered
  <2>6. ~Member(conn)' /\ conn' = conn /\ net' = "connecting" /\ rel'[conn] = <<>>
    BY <2>2, <2>3 DEF Member
  <2>7. OrderOK'
    <3>1. Ordered(rel'[conn'], net', (conn \in registered)', Member(conn)')
      BY <2>5, <2>6 DEF Ordered, Member
    <3> QED BY <3>1 DEF OrderOK, Member
  <2> QED BY <2>2, <2>7
<1>7. CASE Poll
  <2>1. CASE ServiceReliable
    BY <1>0, <2>1, OrderReliable
  <2>2. CASE ServiceState
    <3>1. /\ UNCHANGED <<registered, members, rel, conn>>
          /\ net' = net \/ net' = "failed"
      BY <2>2 DEF ServiceState, tables, OnGameplay, Violate
    <3> QED BY <3>1, OrderQuiet
  <2>3. CASE ServiceLost
    BY <2>3, OrderQuiet DEF ServiceLost, OnClosed, sessionVars
  <2>4. CASE ServiceFailed \/ ConnectTimeout
    BY <2>4, OrderQuiet DEF ServiceFailed, ConnectTimeout, sessionVars
  <2>5. CASE PollBegin \/ PollEnd
    BY <2>5, OrderQuiet DEF PollBegin, PollEnd, sessionVars, clientVars
  <2> QED BY <1>7, <2>1, <2>2, <2>3, <2>4, <2>5 DEF Poll, Abandoned
<1>8. CASE HandleConnected
  BY <1>8, OrderQuiet DEF HandleConnected, sessionVars, clientVars
<1>9. CASE HandleJoined \/ HandleLeft \/ HandleStates
  BY <1>9, OrderQuiet DEF HandleJoined, HandleLeft, HandleStates, HandleFine,
     sessionVars, clientVars
<1>10. CASE HandleRejected \/ HandleViolation \/ HandleDisconnected \/ HandleError
  <2>1. UNCHANGED sessionVars /\ (ResetClient \/ UNCHANGED <<net, conn>>)
    BY <1>10 DEF HandleRejected, HandleViolation, HandleDisconnected, HandleError
  <2> QED BY <2>1, OrderQuiet DEF ResetClient, sessionVars
<1>11. CASE Silence
  <2>1. UNCHANGED <<sessionVars, clientVars>>
    BY <1>11 DEF Silence, PumpEnd, PumpIdle, UpdateLiveness
  <2> QED BY <2>1, OrderQuiet DEF sessionVars, clientVars
<1>12. CASE FirstSample
  BY <1>12, OrderQuiet DEF FirstSample, sessionVars, clientVars
<1> QED BY <1>1, <1>2, <1>3, <1>4, <1>5, <1>6, <1>7, <1>8, <1>9, <1>10, <1>11, <1>12
     DEF Next, Proceed, Thread, Handle

(* What the coordinator sends reliably never breaks the protocol for the   *)
(* client, whatever is lost, batched or restarted: a client that fails on  *)
(* what it received was overtaken by a state datagram, which may come      *)
(* before the welcome or after the end (client.cpp:319-367).               *)
THEOREM OnlyStatesOvertake == Spec => OnlyOvertakingViolates
<1>1. Init => RelayOK /\ OrderOK
  <2>1. Init => OrderOK
    BY DEF Init, SidecarInit, OrderOK
  <2> QED BY <2>1, RelayInit
<1>2. RelayOK /\ OrderOK /\ [Next]_vars
      => RelayOK' /\ OrderOK' /\ [net # "failed" /\ net' = "failed" => rel' = rel]_vars
  BY RelayNext, OrderNext
<1> QED BY <1>1, <1>2, PTL DEF Spec, OnlyOvertakingViolates
=============================================================================
