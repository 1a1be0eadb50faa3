------------------------- MODULE CoordinatorProofs -------------------------
(***************************************************************************)
(* Theorems about the coordinator's membership, for every number of        *)
(* connections, names, incarnations and players.                           *)
(*                                                                         *)
(* The inductive invariant relates, for every watched member, three things:*)
(* the roster its reader has assembled, the packets still queued to it and *)
(* the coordinator's table.  QueueOK is that relation for one queue; the   *)
(* first lemmas say that each way a queue changes preserves it.            *)
(*                                                                         *)
(* A second invariant is about the order in a queue: of two peers of one   *)
(* name or id the first is declared gone before the second is announced,   *)
(* so no reader is ever confused, wherever in its queue it is (Clear,      *)
(* QueuesClear).                                                           *)
(***************************************************************************)
EXTENDS Coordinator, FiniteSetTheorems, SequenceTheorems, TLAPS

(* What a queue q, a reader's roster v and the true roster O have in       *)
(* common while player ids below n have been handed out: a peer of O is    *)
(* known or announced, never declared gone; what is known or announced     *)
(* beyond O is also declared gone, later; only a first packet can be the   *)
(* welcome, and nothing says goodbye.                                      *)
Announced(q, v, O) ==
  \A p \in O : p \in v \/ \E i \in 1..Len(q) : q[i] = Joined(p)

Plausible(q, v, O, n) ==
  \A i \in 1..Len(q) :
    /\ q[i].type \in {"welcome", "joined", "left", "pong"}
    /\ q[i].type = "welcome" => i = 1 /\ v = {}
    /\ q[i].type = "left" =>
         q[i].pid < n /\ \A p \in O : p.pid # q[i].pid
    /\ q[i].type = "joined" =>
         q[i].peer \in O \/ \E j \in (i + 1)..Len(q) : q[j] = Left(q[i].peer)

Revoked(q, v, O) ==
  \A p \in v : p \in O \/ \E i \in 1..Len(q) : q[i] = Left(p)

QueueOK(q, v, O, n) ==
  Announced(q, v, O) /\ Plausible(q, v, O, n) /\ Revoked(q, v, O)

-----------------------------------------------------------------------------
(* Appending one packet to a queue.                                        *)
LEMMA Snoc ==
  ASSUME NEW S, NEW q \in Seq(S), NEW x \in S
  PROVE  /\ q \o <<x>> \in Seq(S)
         /\ Len(q \o <<x>>) = Len(q) + 1
         /\ \A i \in 1..Len(q) : (q \o <<x>>)[i] = q[i]
         /\ (q \o <<x>>)[Len(q) + 1] = x
<1>1. <<x>> \in Seq(S) /\ Len(<<x>>) = 1 /\ <<x>>[1] = x
  OBVIOUS
<1>2. Len(q) \in Nat
  BY LenProperties
<1> QED
  BY <1>1, <1>2, ConcatProperties

(* The fields that tell the packets apart.                                 *)
LEMMA Packets ==
  ASSUME NEW p \in Identity
  PROVE  /\ Joined(p) \in ReliableMsg /\ Left(p) \in ReliableMsg
         /\ Joined(p).type = "joined" /\ Joined(p).peer = p
         /\ Left(p).type = "left" /\ Left(p).pid = p.pid /\ Left(p).inc = p.inc
  BY DEF Joined, Left, ReliableMsg, Identity

(* A newcomer with a fresh id is announced.                                *)
LEMMA QueueJoin ==
  ASSUME NEW q \in Seq(ReliableMsg), NEW v \in SUBSET Identity,
         NEW O \in SUBSET Identity, NEW n \in Nat, NEW p \in Identity,
         p.pid = n, QueueOK(q, v, O, n)
  PROVE  QueueOK(q \o <<Joined(p)>>, v, O \cup {p}, n + 1)
<1> DEFINE r == q \o <<Joined(p)>>
<1>1. /\ Len(r) = Len(q) + 1 /\ Len(q) \in Nat
      /\ \A i \in 1..Len(q) : r[i] = q[i]
      /\ r[Len(q) + 1] = Joined(p)
  BY Snoc, Packets, LenProperties
<1>2. Joined(p).type = "joined" /\ Joined(p).peer = p
  BY Packets
<1>t. \A i \in 1..Len(q) : q[i] \in ReliableMsg
  BY ElementOfSeq
<1>p. \A i \in 1..Len(q) : q[i].type = "left" => q[i].pid \in Nat
  BY <1>t DEF ReliableMsg
<1> HIDE DEF r
<1>3. Announced(r, v, O \cup {p})
  <2>1. Len(q) + 1 \in 1..Len(r)
    BY <1>1
  <2>2. \A i \in 1..Len(q) : i \in 1..Len(r)
    BY <1>1
  <2> QED
    BY <1>1, <2>1, <2>2 DEF QueueOK, Announced
<1>4. Plausible(r, v, O \cup {p}, n + 1)
  <2> SUFFICES ASSUME NEW i \in 1..Len(r)
               PROVE  /\ r[i].type \in {"welcome", "joined", "left", "pong"}
                      /\ r[i].type = "welcome" => i = 1 /\ v = {}
                      /\ r[i].type = "left" =>
                           r[i].pid < n + 1
                           /\ \A o \in O \cup {p} : o.pid # r[i].pid
                      /\ r[i].type = "joined" =>
                           \/ r[i].peer \in O \cup {p}
                           \/ \E j \in (i + 1)..Len(r) : r[j] = Left(r[i].peer)
    BY DEF Plausible
  <2>1. CASE i = Len(q) + 1
    BY <2>1, <1>1, <1>2
  <2>2. CASE i \in 1..Len(q)
    <3>1. r[i] = q[i]
      BY <2>2, <1>1
    <3>2. q[i].type = "left" => q[i].pid < n /\ q[i].pid \in Nat
      BY <2>2, <1>p DEF QueueOK, Plausible
    <3>3. \A j \in (i + 1)..Len(q) : j \in (i + 1)..Len(r) /\ r[j] = q[j]
      BY <2>2, <1>1
    <3>4. q[i].type = "joined" =>
            \/ q[i].peer \in O
            \/ \E j \in (i + 1)..Len(r) : r[j] = Left(q[i].peer)
      BY <2>2, <3>3 DEF QueueOK, Plausible
    <3>5. q[i].type = "left" => \A o \in O : o.pid # q[i].pid
      BY <2>2 DEF QueueOK, Plausible
    <3>6. /\ q[i].type \in {"welcome", "joined", "left", "pong"}
          /\ q[i].type = "welcome" => i = 1 /\ v = {}
      BY <2>2 DEF QueueOK, Plausible
    <3> QED
      BY <3>1, <3>2, <3>4, <3>5, <3>6
  <2> QED
    BY <2>1, <2>2, <1>1
<1>5. Revoked(r, v, O \cup {p})
  <2>1. \A i \in 1..Len(q) : i \in 1..Len(r) /\ r[i] = q[i]
    BY <1>1
  <2> QED
    BY <2>1 DEF QueueOK, Revoked
<1> QED
  BY <1>3, <1>4, <1>5 DEF QueueOK, r

(* A peer that leaves is declared gone to everybody else.                  *)
LEMMA QueueLeave ==
  ASSUME NEW q \in Seq(ReliableMsg), NEW v \in SUBSET Identity,
         NEW O \in SUBSET Identity, NEW n \in Nat, NEW p \in O,
         p.pid < n, \A o \in O : o.pid = p.pid => o = p,
         QueueOK(q, v, O, n)
  PROVE  QueueOK(q \o <<Left(p)>>, v, O \ {p}, n)
<1> DEFINE r == q \o <<Left(p)>>
<1>0. p \in Identity
  OBVIOUS
<1>1. /\ Len(r) = Len(q) + 1 /\ Len(q) \in Nat
      /\ \A i \in 1..Len(q) : r[i] = q[i]
      /\ r[Len(q) + 1] = Left(p)
  BY <1>0, Snoc, Packets, LenProperties
<1>2. Left(p).type = "left" /\ Left(p).pid = p.pid
  BY <1>0, Packets
<1> HIDE DEF r
<1>3. Announced(r, v, O \ {p})
  <2>2. \A i \in 1..Len(q) : i \in 1..Len(r) /\ r[i] = q[i]
    BY <1>1
  <2> QED
    BY <2>2 DEF QueueOK, Announced
<1>4. Plausible(r, v, O \ {p}, n)
  <2> SUFFICES ASSUME NEW i \in 1..Len(r)
               PROVE  /\ r[i].type \in {"welcome", "joined", "left", "pong"}
                      /\ r[i].type = "welcome" => i = 1 /\ v = {}
                      /\ r[i].type = "left" =>
                           r[i].pid < n
                           /\ \A o \in O \ {p} : o.pid # r[i].pid
                      /\ r[i].type = "joined" =>
                           \/ r[i].peer \in O \ {p}
                           \/ \E j \in (i + 1)..Len(r) : r[j] = Left(r[i].peer)
    BY DEF Plausible
  <2>1. CASE i = Len(q) + 1
    BY <2>1, <1>1, <1>2
  <2>2. CASE i \in 1..Len(q)
    <3>1. r[i] = q[i]
      BY <2>2, <1>1
    <3>3. \A j \in (i + 1)..Len(q) : j \in (i + 1)..Len(r) /\ r[j] = q[j]
      BY <2>2, <1>1
    <3>4. Len(q) + 1 \in (i + 1)..Len(r)
      BY <2>2, <1>1
    <3>5. q[i].type = "joined" =>
            \/ q[i].peer \in O \ {p}
            \/ \E j \in (i + 1)..Len(r) : r[j] = Left(q[i].peer)
      BY <2>2, <3>3, <3>4, <1>1 DEF QueueOK, Plausible
    <3>6. q[i].type = "left" => q[i].pid < n /\ \A o \in O : o.pid # q[i].pid
      BY <2>2 DEF QueueOK, Plausible
    <3>7. /\ q[i].type \in {"welcome", "joined", "left", "pong"}
          /\ q[i].type = "welcome" => i = 1 /\ v = {}
      BY <2>2 DEF QueueOK, Plausible
    <3> QED
      BY <3>1, <3>5, <3>6, <3>7
  <2> QED
    BY <2>1, <2>2, <1>1
<1>5. Revoked(r, v, O \ {p})
  <2>1. \A i \in 1..Len(q) : i \in 1..Len(r) /\ r[i] = q[i]
    BY <1>1
  <2>2. Len(q) + 1 \in 1..Len(r)
    BY <1>1
  <2> QED
    BY <2>1, <2>2, <1>1 DEF QueueOK, Revoked
<1> QED
  BY <1>3, <1>4, <1>5 DEF QueueOK, r

(* A pong says nothing about the roster.                                   *)
LEMMA QueuePong ==
  ASSUME NEW q \in Seq(ReliableMsg), NEW v \in SUBSET Identity,
         NEW O \in SUBSET Identity, NEW n \in Nat,
         NEW m \in ReliableMsg, m.type = "pong", QueueOK(q, v, O, n)
  PROVE  QueueOK(q \o <<m>>, v, O, n)
<1> DEFINE r == q \o <<m>>
<1>1. /\ Len(r) = Len(q) + 1 /\ Len(q) \in Nat
      /\ \A i \in 1..Len(q) : r[i] = q[i]
      /\ r[Len(q) + 1] = m
  BY Snoc, LenProperties
<1> HIDE DEF r
<1>2. \A i \in 1..Len(q) : i \in 1..Len(r) /\ r[i] = q[i]
  BY <1>1
<1>3. Announced(r, v, O) /\ Revoked(r, v, O)
  BY <1>2 DEF QueueOK, Announced, Revoked
<1>4. Plausible(r, v, O, n)
  <2> SUFFICES ASSUME NEW i \in 1..Len(r)
               PROVE  /\ r[i].type \in {"welcome", "joined", "left", "pong"}
                      /\ r[i].type = "welcome" => i = 1 /\ v = {}
                      /\ r[i].type = "left" =>
                           r[i].pid < n /\ \A o \in O : o.pid # r[i].pid
                      /\ r[i].type = "joined" =>
                           \/ r[i].peer \in O
                           \/ \E j \in (i + 1)..Len(r) : r[j] = Left(r[i].peer)
    BY DEF Plausible
  <2>1. CASE i = Len(q) + 1
    BY <2>1, <1>1
  <2>2. CASE i \in 1..Len(q)
    <3>1. \A j \in (i + 1)..Len(q) : j \in (i + 1)..Len(r) /\ r[j] = q[j]
      BY <2>2, <1>1
    <3> QED
      BY <3>1, <2>2, <1>2 DEF QueueOK, Plausible
  <2> QED
    BY <2>1, <2>2, <1>1
<1> QED
  BY <1>3, <1>4 DEF QueueOK, r

(* What Session::accept queues to a newcomer: the welcome, then every peer *)
(* it found, in any order.                                                 *)
LEMMA QueueWelcome ==
  ASSUME NEW w \in ReliableMsg, w.type = "welcome",
         NEW js \in Seq(ReliableMsg), NEW O \in SUBSET Identity, NEW n \in Nat,
         \A i \in 1..Len(js) : \E p \in O : js[i] = Joined(p),
         \A p \in O : \E i \in 1..Len(js) : js[i] = Joined(p)
  PROVE  QueueOK(<<w>> \o js, {}, O, n)
<1> DEFINE r == <<w>> \o js
<1>1. <<w>> \in Seq(ReliableMsg) /\ Len(<<w>>) = 1 /\ <<w>>[1] = w
  OBVIOUS
<1>2. /\ Len(js) \in Nat /\ Len(r) = Len(js) + 1
      /\ r[1] = w
      /\ \A i \in 2..Len(r) : r[i] = js[i - 1]
  BY <1>1, LenProperties, ConcatProperties
<1> HIDE DEF r
<1>3. \A i \in 1..Len(js) : i + 1 \in 2..Len(r) /\ i + 1 \in 1..Len(r)
                           /\ r[i + 1] = js[i]
  BY <1>2
<1>4. Announced(r, {}, O)
  BY <1>3 DEF Announced
<1>5. Plausible(r, {}, O, n)
  <2> SUFFICES ASSUME NEW i \in 1..Len(r)
               PROVE  /\ r[i].type \in {"welcome", "joined"}
                      /\ r[i].type = "welcome" => i = 1
                      /\ r[i].type = "joined" => r[i].peer \in O
    BY DEF Plausible
  <2>1. CASE i = 1
    BY <2>1, <1>2
  <2>2. CASE i # 1
    <3>1. i \in 2..Len(r) /\ i - 1 \in 1..Len(js)
      BY <2>2, <1>2
    <3>2. PICK p \in O : r[i] = Joined(p)
      BY <3>1, <1>2
    <3>3. r[i].type = "joined" /\ r[i].peer = p
      BY <3>2, Packets
    <3> QED
      BY <3>3
  <2> QED
    BY <2>1, <2>2
<1>6. Revoked(r, {}, O)
  BY DEF Revoked
<1> QED
  BY <1>4, <1>5, <1>6 DEF QueueOK, r

(* The reader takes the first packet.                                      *)
LEMMA QueueDeliver ==
  ASSUME NEW q \in Seq(ReliableMsg), q # <<>>, NEW v \in SUBSET Identity,
         NEW O \in SUBSET Identity, NEW n \in Nat, QueueOK(q, v, O, n)
  PROVE  QueueOK(Tail(q), Apply(v, Head(q)), O, n)
<1> DEFINE r == Tail(q)
           m == Head(q)
           u == Apply(v, m)
<1>1. /\ Len(q) \in Nat /\ Len(q) >= 1 /\ Len(r) = Len(q) - 1
      /\ m = q[1] /\ m \in ReliableMsg
      /\ \A i \in 1..Len(r) : r[i] = q[i + 1]
  BY HeadTailProperties, EmptySeq, LenProperties
<1> HIDE DEF r, m
<1>2. 1 \in 1..Len(q)
  BY <1>1
<1>3. \A i \in 1..Len(q) : i = 1 \/ (i - 1 \in 1..Len(r) /\ q[i] = r[i - 1])
  BY <1>1
<1>4. \A i \in 1..Len(r) : i + 1 \in 1..Len(q) /\ r[i] = q[i + 1]
  BY <1>1
<1>5. m.type \in {"welcome", "joined", "left", "pong"}
  BY <1>1, <1>2 DEF QueueOK, Plausible
<1>6. /\ m.type = "joined" => u = v \cup {m.peer}
      /\ m.type = "left" => u = {p \in v : p.pid # m.pid \/ p.inc # m.inc}
      /\ m.type = "welcome" => u = {}
      /\ m.type = "pong" => u = v
  BY DEF Apply
<1> HIDE DEF u
<1>7. m.type = "welcome" => v = {}
  BY <1>1, <1>2 DEF QueueOK, Plausible
<1>8. Announced(r, u, O)
  <2> SUFFICES ASSUME NEW p \in O
               PROVE  p \in u \/ \E i \in 1..Len(r) : r[i] = Joined(p)
    BY DEF Announced
  <2>0. p \in Identity
    OBVIOUS
  <2>1. CASE \E i \in 1..Len(q) : q[i] = Joined(p)
    <3>1. PICK i \in 1..Len(q) : q[i] = Joined(p)
      BY <2>1
    <3>2. CASE i = 1
      BY <3>1, <3>2, <1>1, <1>6, <2>0, Packets
    <3>3. CASE i # 1
      BY <3>1, <3>3, <1>3
    <3> QED
      BY <3>2, <3>3
  <2>2. CASE p \in v
    <3>1. m.type = "left" => m.pid # p.pid
      BY <1>1, <1>2 DEF QueueOK, Plausible
    <3> QED
      BY <3>1, <2>2, <1>5, <1>6, <1>7
  <2> QED
    BY <2>1, <2>2 DEF QueueOK, Announced
<1>9. Plausible(r, u, O, n)
  <2> SUFFICES ASSUME NEW i \in 1..Len(r)
               PROVE  /\ r[i].type \in {"joined", "left", "pong"}
                      /\ r[i].type = "left" =>
                           r[i].pid < n /\ \A o \in O : o.pid # r[i].pid
                      /\ r[i].type = "joined" =>
                           \/ r[i].peer \in O
                           \/ \E j \in (i + 1)..Len(r) : r[j] = Left(r[i].peer)
    BY DEF Plausible
  <2>1. i + 1 \in 1..Len(q) /\ r[i] = q[i + 1] /\ i + 1 # 1
    BY <1>4
  <2>2. \A j \in (i + 2)..Len(q) : j - 1 \in (i + 1)..Len(r) /\ r[j - 1] = q[j]
    BY <1>1, <1>3
  <2>3. q[i + 1].type = "joined" =>
          \/ q[i + 1].peer \in O
          \/ \E j \in ((i + 1) + 1)..Len(q) : q[j] = Left(q[i + 1].peer)
    BY <2>1 DEF QueueOK, Plausible
  <2>4. (i + 1) + 1 = i + 2
    OBVIOUS
  <2>5. /\ q[i + 1].type \in {"welcome", "joined", "left", "pong"}
        /\ q[i + 1].type # "welcome"
        /\ q[i + 1].type = "left" =>
             q[i + 1].pid < n /\ \A o \in O : o.pid # q[i + 1].pid
    BY <2>1 DEF QueueOK, Plausible
  <2>6. r[i].type = "joined" =>
          \/ r[i].peer \in O
          \/ \E j \in (i + 1)..Len(r) : r[j] = Left(r[i].peer)
    BY <2>1, <2>2, <2>3, <2>4
  <2> QED
    BY <2>1, <2>5, <2>6
<1>10. Revoked(r, u, O)
  <2> SUFFICES ASSUME NEW p \in u, p \notin O
               PROVE  \E i \in 1..Len(r) : r[i] = Left(p)
    BY DEF Revoked
  <2>1. CASE p \in v
    <3>1. PICK i \in 1..Len(q) : q[i] = Left(p)
      BY <2>1 DEF QueueOK, Revoked
    <3>2. CASE i = 1
      <4>1. m.type = "left" /\ m.pid = p.pid /\ m.inc = p.inc
        BY <3>1, <3>2, <1>1, <2>1, Packets
      <4> QED
        BY <4>1, <1>6
    <3>3. CASE i # 1
      BY <3>1, <3>3, <1>3
    <3> QED
      BY <3>2, <3>3
  <2>2. CASE p \notin v
    <3>1. m.type = "joined" /\ p = m.peer
      BY <2>2, <1>5, <1>6
    <3>2. PICK j \in (1 + 1)..Len(q) : q[j] = Left(p)
      BY <3>1, <1>1, <1>2 DEF QueueOK, Plausible
    <3> QED
      BY <3>2, <1>3
  <2> QED
    BY <2>1, <2>2
<1> QED
  BY <1>8, <1>9, <1>10 DEF QueueOK, r, m, u

-----------------------------------------------------------------------------
(* The inductive invariant.                                                *)

(* A connection that is routed but not admitted has been sent nothing; the *)
(* queue of an admitted one is consistent with the table.                  *)
QueuesOK ==
  \A c \in Watched \cap registered :
    IF Member(c)
    THEN QueueOK(rel[c], view[c], Others(c), nextPlayer)
    ELSE rel[c] = <<>> /\ view[c] = {}

MembersOK ==
  /\ IsFiniteSet(DOMAIN members)
  /\ ~running => registered = {}

IInv == TypeOK /\ MembersOK /\ PeersDistinct /\ QueuesOK

(* What a handler adds to the queues.                                      *)
LEMMA Sent ==
  ASSUME SessionTypeOK, SessionAssumption, NEW f,
         \A x \in Watched : f[x] \in Seq(ReliableMsg), SendReliable(f)
  PROVE  /\ rel' \in [Watched -> Seq(ReliableMsg)]
         /\ \A x \in Watched : rel'[x] = rel[x] \o f[x]
<1>1. \A x \in Watched : rel[x] \in Seq(ReliableMsg)
  BY DEF SessionTypeOK
<1>2. \A x \in Watched : rel[x] \o f[x] \in Seq(ReliableMsg)
  BY <1>1, ConcatProperties
<1> QED
  BY <1>2 DEF SendReliable

LEMMA OthersType ==
  ASSUME SessionTypeOK, NEW c
  PROVE  Others(c) \in SUBSET Identity
  BY DEF SessionTypeOK, Others, Peer

(* Removing a connection, whatever is said to it.                          *)
LEMMA RemoveStep ==
  ASSUME SessionAssumption, IInv, NEW c \in registered,
         NEW farewell \in Seq(ReliableMsg),
         Remove(c, farewell), UNCHANGED view
  PROVE  IInv'
<1> DEFINE f == [x \in Conn |->
             IF x = c THEN farewell
             ELSE IF Member(c) /\ Member(x) THEN <<Left(members[c].id)>>
             ELSE <<>>]
<1>0. /\ registered' = registered \ {c}
      /\ UNCHANGED <<now, session, running, nextPlayer, nextSnapshot, unrel,
                     view>>
  BY DEF Remove
<1>1. SessionTypeOK /\ view \in [Watched -> SUBSET Identity]
  BY DEF IInv, TypeOK
<1>2. Watched \subseteq Conn
  BY DEF SessionAssumption
<1>3. \A d \in DOMAIN members :
        members[d] \in Peer /\ members[d].id \in Identity /\ d \in registered
  BY <1>1 DEF SessionTypeOK, Peer
<1>4. \A x \in Conn : f[x] \in Seq(ReliableMsg)
  BY <1>3, Packets DEF Member
<1>5. SendReliable(f)
  BY DEF Remove
<1>6. /\ rel' \in [Watched -> Seq(ReliableMsg)]
      /\ \A x \in Watched : rel'[x] = rel[x] \o f[x]
  <2> HIDE DEF f
  <2> QED
    BY <1>1, <1>2, <1>4, <1>5, Sent
<1>7. /\ DOMAIN members' = DOMAIN members \ {c}
      /\ \A d \in DOMAIN members' : members'[d] = members[d]
  BY DEF Remove, Restrict
<1>8. TypeOK'
  <2>1. members' \in [DOMAIN members' -> Peer]
    BY <1>3, <1>7 DEF Remove, Restrict
  <2>2. DOMAIN members' \in SUBSET registered'
    BY <1>0, <1>3, <1>7
  <2> QED
    BY <1>0, <1>1, <1>6, <2>1, <2>2 DEF TypeOK, SessionTypeOK
<1>9. MembersOK' /\ PeersDistinct'
  <2>1. IsFiniteSet(DOMAIN members')
    BY <1>7, FS_Subset DEF IInv, MembersOK
  <2>2. Cardinality(DOMAIN members') <= Cardinality(DOMAIN members)
    BY <1>7, FS_Subset DEF IInv, MembersOK
  <2>3. /\ Cardinality(DOMAIN members') \in Nat
        /\ Cardinality(DOMAIN members) \in Nat
    BY <2>1, FS_CardinalityType DEF IInv, MembersOK
  <2>4. Cardinality(DOMAIN members') <= MaxPlayers
    BY <2>2, <2>3 DEF IInv, PeersDistinct, SessionAssumption
  <2>5. ~running' => registered' = {}
    BY <1>0 DEF IInv, MembersOK
  <2>6. \A d \in DOMAIN members' :
          /\ members'[d].id.pid < nextPlayer'
          /\ \A e \in DOMAIN members' \ {d} :
               /\ members'[d].id.pid # members'[e].id.pid
               /\ members'[d].id.name # members'[e].id.name
    <3>1. \A d \in DOMAIN members \ {c} :
            /\ members[d].id.pid < nextPlayer
            /\ \A e \in DOMAIN members \ {d} :
                 /\ members[d].id.pid # members[e].id.pid
                 /\ members[d].id.name # members[e].id.name
      BY DEF IInv, PeersDistinct
    <3>2. nextPlayer' = nextPlayer
      BY <1>0
    <3> QED
      BY <1>7, <3>1, <3>2
  <2> QED
    BY <2>1, <2>4, <2>5, <2>6 DEF MembersOK, PeersDistinct
<1>10. QueuesOK'
  <2> SUFFICES ASSUME NEW x \in Watched, x \in registered'
               PROVE  IF Member(x)'
                      THEN QueueOK(rel'[x], view'[x], Others(x)', nextPlayer')
                      ELSE rel'[x] = <<>> /\ view'[x] = {}
    BY DEF QueuesOK
  <2>1. x # c /\ x \in registered /\ x \in Conn
    BY <1>0, <1>2
  <2>2. Member(x)' <=> Member(x)
    BY <1>7, <2>1 DEF Member
  <2>3. rel[x] \in Seq(ReliableMsg) /\ view[x] \in SUBSET Identity
    BY <1>1 DEF SessionTypeOK
  <2>4. rel[x] \o <<>> = rel[x]
    BY <2>3, ConcatEmptySeq
  <2>5. view'[x] = view[x] /\ nextPlayer' = nextPlayer
    BY <1>0
  <2>6. CASE ~Member(x)
    BY <1>6, <2>1, <2>2, <2>4, <2>5, <2>6 DEF IInv, QueuesOK
  <2>7. CASE Member(x) /\ ~Member(c)
    <3>0. /\ DOMAIN members \ {c} = DOMAIN members
          /\ members = [d \in DOMAIN members |-> members[d]]
      BY <2>7, <1>1 DEF Member, SessionTypeOK
    <3>1. members' = members
      BY <3>0 DEF Remove, Restrict
    <3>2. Others(x)' = Others(x)
      BY <3>1 DEF Others
    <3> QED
      BY <1>6, <2>1, <2>2, <2>4, <2>5, <2>7, <3>2 DEF IInv, QueuesOK
  <2>8. CASE Member(x) /\ Member(c)
    <3> DEFINE p == members[c].id
    <3>1. p \in Others(x)
      BY <2>1, <2>8 DEF Others, Member
    <3>2. p.pid < nextPlayer
      BY <2>8 DEF IInv, PeersDistinct, Member
    <3>3. \A o \in Others(x) : o.pid = p.pid => o = p
      BY <2>8 DEF Others, IInv, PeersDistinct, Member
    <3>4. Others(x)' = Others(x) \ {p}
      <4>1. \A d \in DOMAIN members \ {c} : members[d].id # p
        BY <2>8 DEF IInv, PeersDistinct, Member
      <4>2. Others(x)' = {members'[d].id : d \in DOMAIN members' \ {x}}
        BY DEF Others
      <4>3. Others(x)' = {members[d].id : d \in (DOMAIN members \ {c}) \ {x}}
        BY <1>7, <4>2
      <4>4. Others(x) = {members[d].id : d \in DOMAIN members \ {x}}
        BY DEF Others
      <4>5. c \in DOMAIN members \ {x}
        BY <2>1, <2>8 DEF Member
      <4>6. ASSUME NEW o
            PROVE  o \in Others(x)' <=> o \in Others(x) /\ o # p
        BY <4>1, <4>3, <4>4, <4>5
      <4> QED
        BY <4>6
    <3>5. QueueOK(rel[x], view[x], Others(x), nextPlayer)
      BY <2>1, <2>8 DEF IInv, QueuesOK
    <3>6. rel'[x] = rel[x] \o <<Left(p)>>
      BY <1>6, <2>1, <2>8
    <3>7. Others(x) \in SUBSET Identity /\ nextPlayer \in Nat
      BY <1>1, OthersType DEF SessionTypeOK
    <3> HIDE DEF p
    <3>8. QueueOK(rel[x] \o <<Left(p)>>, view[x], Others(x) \ {p}, nextPlayer)
      BY <2>3, <3>1, <3>2, <3>3, <3>5, <3>7, QueueLeave
    <3> QED
      BY <2>2, <2>5, <2>8, <3>4, <3>6, <3>8
  <2> QED
    BY <2>6, <2>7, <2>8
<1> QED
  BY <1>8, <1>9, <1>10 DEF IInv

(* Admitting a newcomer.                                                   *)
LEMMA AcceptStep ==
  ASSUME SessionAssumption, IInv, NEW c \in Conn, NEW hello \in Hello,
         Accept(c, hello), UNCHANGED view
  PROVE  IInv'
<1> DEFINE id == [pid |-> nextPlayer, inc |-> hello.inc, name |-> hello.name]
           others == DOMAIN members
           n == Cardinality(others)
<1>0. /\ c \in registered /\ c \notin others
      /\ Verdict(hello) = "normal"
      /\ nextPlayer' = nextPlayer + 1
      /\ UNCHANGED <<now, session, running, registered, nextSnapshot, unrel,
                     view>>
  BY DEF Accept, Member
<1>1. SessionTypeOK /\ view \in [Watched -> SUBSET Identity]
  BY DEF IInv, TypeOK
<1>2. Watched \subseteq Conn
  BY DEF SessionAssumption
<1>3. \A d \in others :
        members[d] \in Peer /\ members[d].id \in Identity /\ d \in registered
  BY <1>1 DEF SessionTypeOK, Peer
<1>4. nextPlayer \in Nat /\ id \in Identity /\ id.pid = nextPlayer
      /\ id.name = hello.name
  BY <1>1 DEF SessionTypeOK, Identity, Hello
<1>5. IsFiniteSet(others) /\ n \in Nat
  BY FS_CardinalityType DEF IInv, MembersOK
<1>6. n < MaxPlayers /\ \A d \in others : members[d].id.name # hello.name
  BY <1>0, <1>5 DEF Verdict, SessionAssumption, Hello, Flaw
<1>7. PICK order \in Bijection(1..n, others) :
        SendReliable([x \in Conn |->
          IF x = c
          THEN <<Welcome(id)>> \o [i \in 1..n |-> Joined(members[order[i]].id)]
          ELSE IF x \in others THEN <<Joined(id)>> ELSE <<>>])
  BY DEF Accept
<1> DEFINE js == [i \in 1..n |-> Joined(members[order[i]].id)]
           f == [x \in Conn |->
             IF x = c THEN <<Welcome(id)>> \o js
             ELSE IF x \in others THEN <<Joined(id)>> ELSE <<>>]
<1>8. /\ \A i \in 1..n : order[i] \in others
      /\ \A d \in others : \E i \in 1..n : order[i] = d
  BY <1>7 DEF Bijection, Injection, Surjection
<1>9. /\ js \in Seq(ReliableMsg) /\ Len(js) = n
      /\ \A i \in 1..n : js[i] = Joined(members[order[i]].id)
  <2>1. \A i \in 1..n : Joined(members[order[i]].id) \in ReliableMsg
    BY <1>3, <1>8, Packets
  <2> QED
    BY <1>5, <2>1, IsASeq
<1>10. /\ Welcome(id) \in ReliableMsg /\ Welcome(id).type = "welcome"
       /\ <<Welcome(id)>> \in Seq(ReliableMsg)
  BY <1>1, <1>4 DEF Welcome, ReliableMsg, SessionTypeOK
<1>11. \A x \in Conn : f[x] \in Seq(ReliableMsg)
  <2> HIDE DEF js, id
  <2> QED
    BY <1>4, <1>9, <1>10, Packets, ConcatProperties
<1>12. /\ rel' \in [Watched -> Seq(ReliableMsg)]
       /\ \A x \in Watched : rel'[x] = rel[x] \o f[x]
  <2>1. SendReliable(f)
    BY <1>7
  <2> HIDE DEF f
  <2> QED
    BY <1>1, <1>2, <1>11, <2>1, Sent
<1>13. /\ DOMAIN members' = others \cup {c}
       /\ members'[c].id = id
       /\ members'[c] \in Peer
       /\ \A d \in others : members'[d] = members[d]
  <2>1. members' = [x \in others \cup {c} |->
          IF x = c
          THEN [id |-> id, times |-> <<>>, latest |-> NoState, at |-> 0]
          ELSE members[x]]
    BY DEF Accept
  <2>2. [id |-> id, times |-> <<>>, latest |-> NoState, at |-> 0] \in Peer
    BY <1>4 DEF Peer
  <2> HIDE DEF id
  <2> QED
    BY <1>0, <2>1, <2>2
<1> HIDE DEF id, js
<1>14. TypeOK'
  <2>1. members' \in [DOMAIN members' -> Peer]
    <3>1. \A d \in DOMAIN members' : members'[d] \in Peer
      BY <1>3, <1>13
    <3>2. members' = [d \in DOMAIN members' |-> members'[d]]
      BY DEF Accept
    <3> QED
      BY <3>1, <3>2
  <2>2. DOMAIN members' \in SUBSET registered'
    BY <1>0, <1>3, <1>13
  <2> QED
    BY <1>0, <1>1, <1>4, <1>12, <2>1, <2>2 DEF TypeOK, SessionTypeOK
<1>15. MembersOK' /\ PeersDistinct'
  <2>1. IsFiniteSet(DOMAIN members') /\ Cardinality(DOMAIN members') = n + 1
    BY <1>0, <1>5, <1>13, FS_AddElement
  <2>2. Cardinality(DOMAIN members') <= MaxPlayers
    BY <1>5, <1>6, <2>1 DEF SessionAssumption
  <2>3. ~running' => registered' = {}
    BY <1>0 DEF IInv, MembersOK
  <2>4. \A d \in others :
          /\ members[d].id.pid < nextPlayer
          /\ members[d].id.pid \in Nat
          /\ \A e \in others \ {d} :
               /\ members[d].id.pid # members[e].id.pid
               /\ members[d].id.name # members[e].id.name
    BY <1>3 DEF IInv, PeersDistinct, Identity
  <2>5. \A d \in DOMAIN members' :
          /\ members'[d].id.pid < nextPlayer'
          /\ \A e \in DOMAIN members' \ {d} :
               /\ members'[d].id.pid # members'[e].id.pid
               /\ members'[d].id.name # members'[e].id.name
    BY <1>0, <1>4, <1>6, <1>13, <2>4
  <2> QED
    BY <2>1, <2>2, <2>3, <2>5 DEF MembersOK, PeersDistinct
<1>16. QueuesOK'
  <2> SUFFICES ASSUME NEW x \in Watched, x \in registered'
               PROVE  IF Member(x)'
                      THEN QueueOK(rel'[x], view'[x], Others(x)', nextPlayer')
                      ELSE rel'[x] = <<>> /\ view'[x] = {}
    BY DEF QueuesOK
  <2>1. x \in registered /\ x \in Conn
    BY <1>0, <1>2
  <2>2. Member(x)' <=> Member(x) \/ x = c
    BY <1>13 DEF Member
  <2>3. rel[x] \in Seq(ReliableMsg) /\ view[x] \in SUBSET Identity
    BY <1>1 DEF SessionTypeOK
  <2>4. rel[x] \o <<>> = rel[x]
    BY <2>3, ConcatEmptySeq
  <2>5. view'[x] = view[x]
    BY <1>0
  <2>6. CASE x = c
    <3>1. rel[c] = <<>> /\ view[c] = {}
      BY <1>0, <2>1, <2>6 DEF IInv, QueuesOK, Member
    <3>2. rel'[c] = <<Welcome(id)>> \o js
      <4>1. f[c] = <<Welcome(id)>> \o js
        OBVIOUS
      <4>2. <<Welcome(id)>> \o js \in Seq(ReliableMsg)
        BY <1>9, <1>10, ConcatProperties
      <4>3. rel'[c] = <<>> \o (<<Welcome(id)>> \o js)
        BY <1>12, <2>6, <3>1, <4>1
      <4> QED
        BY <4>2, <4>3, ConcatEmptySeq
    <3>3. Others(c)' = Others(c)
      BY <1>0, <1>13 DEF Others
    <3>0. Others(c) = {members[d].id : d \in others}
      BY <1>0 DEF Others
    <3>4. \A i \in 1..Len(js) : \E p \in Others(c) : js[i] = Joined(p)
      <4> SUFFICES ASSUME NEW i \in 1..n
                   PROVE  \E p \in Others(c) : js[i] = Joined(p)
        BY <1>9
      <4>1. members[order[i]].id \in Others(c)
        BY <1>8, <3>0
      <4> QED
        BY <1>9, <4>1
    <3>5. \A p \in Others(c) : \E i \in 1..Len(js) : js[i] = Joined(p)
      <4> SUFFICES ASSUME NEW p \in Others(c)
                   PROVE  \E i \in 1..n : js[i] = Joined(p)
        BY <1>9
      <4>1. PICK d \in others : p = members[d].id
        BY <3>0
      <4>2. PICK i \in 1..n : order[i] = d
        BY <1>8
      <4> QED
        BY <1>9, <4>1, <4>2
    <3>6. Others(c) \in SUBSET Identity /\ nextPlayer' \in Nat
      BY <1>0, <1>1, <1>4, OthersType
    <3>7. QueueOK(<<Welcome(id)>> \o js, {}, Others(c), nextPlayer')
      BY <1>9, <1>10, <3>4, <3>5, <3>6, QueueWelcome
    <3> QED
      BY <2>2, <2>5, <2>6, <3>1, <3>2, <3>3, <3>7
  <2>7. CASE x # c /\ Member(x)
    <3>1. rel'[x] = rel[x] \o <<Joined(id)>>
      BY <1>12, <2>1, <2>7 DEF Member
    <3>2. Others(x)' = Others(x) \cup {id}
      <4>1. ASSUME NEW o
            PROVE  o \in Others(x)' <=> o \in Others(x) \/ o = id
        BY <1>0, <1>13, <2>7 DEF Others
      <4> QED
        BY <4>1
    <3>3. QueueOK(rel[x], view[x], Others(x), nextPlayer)
      BY <2>1, <2>7 DEF IInv, QueuesOK
    <3>4. Others(x) \in SUBSET Identity
      BY <1>1, OthersType
    <3>5. QueueOK(rel[x] \o <<Joined(id)>>, view[x], Others(x) \cup {id},
                  nextPlayer + 1)
      BY <1>4, <2>3, <3>3, <3>4, QueueJoin
    <3> QED
      BY <1>0, <2>2, <2>5, <2>7, <3>1, <3>2, <3>5
  <2>8. CASE x # c /\ ~Member(x)
    <3>1. rel'[x] = rel[x] \o <<>>
      BY <1>12, <2>1, <2>8 DEF Member
    <3> QED
      BY <2>1, <2>2, <2>4, <2>5, <2>8, <3>1 DEF IInv, QueuesOK
  <2> QED
    BY <2>6, <2>7, <2>8
<1> QED
  BY <1>14, <1>15, <1>16 DEF IInv

(* A new transport: nothing is queued to it and nobody reads it yet.       *)
LEMMA OpenStep ==
  ASSUME SessionAssumption, IInv, NEW c \in Conn, Open(c)
  PROVE  IInv'
<1>1. /\ running /\ c \notin registered /\ registered' = registered \cup {c}
      /\ c \in Watched => rel[c] = <<>> /\ view[c] = {}
      /\ UNCHANGED <<now, session, running, members, nextPlayer, nextSnapshot,
                     rel, unrel, view>>
  BY DEF Open, Connect
<1>2. c \notin DOMAIN members
  BY <1>1 DEF IInv, TypeOK, SessionTypeOK
<1>3. TypeOK' /\ MembersOK' /\ PeersDistinct'
  BY <1>1 DEF IInv, TypeOK, SessionTypeOK, MembersOK, PeersDistinct
<1>4. QueuesOK'
  <2> SUFFICES ASSUME NEW x \in Watched, x \in registered'
               PROVE  IF Member(x)'
                      THEN QueueOK(rel'[x], view'[x], Others(x)', nextPlayer')
                      ELSE rel'[x] = <<>> /\ view'[x] = {}
    BY DEF QueuesOK
  <2>1. Others(x)' = Others(x) /\ (Member(x)' <=> Member(x))
    BY <1>1 DEF Others, Member
  <2>2. CASE x = c
    BY <1>1, <1>2, <2>1, <2>2 DEF Member
  <2>3. CASE x # c
    BY <1>1, <2>1, <2>3 DEF IInv, QueuesOK
  <2> QED
    BY <2>2, <2>3
<1> QED
  BY <1>3, <1>4 DEF IInv

(* Answering a ping.                                                       *)
LEMMA PingStep ==
  ASSUME SessionAssumption, IInv, NEW c \in Conn, ReceivePing(c),
         UNCHANGED view
  PROVE  IInv'
<1> DEFINE pong == [type |-> "pong"]
           f == [Nothing EXCEPT ![c] = <<pong>>]
<1>1. /\ c \in registered /\ Member(c)
      /\ SendReliable(f)
      /\ UNCHANGED <<now, session, running, registered, members, nextPlayer,
                     nextSnapshot, unrel, view>>
  BY DEF ReceivePing
<1>2. SessionTypeOK /\ view \in [Watched -> SUBSET Identity]
  BY DEF IInv, TypeOK
<1>3. Watched \subseteq Conn
  BY DEF SessionAssumption
<1>4. pong \in ReliableMsg /\ pong.type = "pong"
  BY DEF ReliableMsg
<1>5. \A x \in Conn : f[x] = IF x = c THEN <<pong>> ELSE <<>>
  BY DEF Nothing
<1>6. \A x \in Conn : f[x] \in Seq(ReliableMsg)
  <2> HIDE DEF pong, f
  <2>1. <<pong>> \in Seq(ReliableMsg) /\ <<>> \in Seq(ReliableMsg)
    BY <1>4
  <2> QED
    BY <1>5, <2>1
<1>7. /\ rel' \in [Watched -> Seq(ReliableMsg)]
      /\ \A x \in Watched : rel'[x] = rel[x] \o f[x]
  <2> HIDE DEF f
  <2> QED
    BY <1>1, <1>2, <1>3, <1>6, Sent
<1> HIDE DEF f, pong
<1>8. TypeOK' /\ MembersOK' /\ PeersDistinct'
  BY <1>1, <1>7 DEF IInv, TypeOK, SessionTypeOK, MembersOK, PeersDistinct
<1>9. QueuesOK'
  <2> SUFFICES ASSUME NEW x \in Watched, x \in registered
               PROVE  IF Member(x)
                      THEN QueueOK(rel'[x], view[x], Others(x), nextPlayer)
                      ELSE rel'[x] = <<>> /\ view[x] = {}
    BY <1>1 DEF QueuesOK, Member, Others
  <2>1. rel[x] \in Seq(ReliableMsg) /\ view[x] \in SUBSET Identity
        /\ nextPlayer \in Nat
    BY <1>2 DEF SessionTypeOK
  <2>2. CASE x = c
    <3>1. rel'[x] = rel[x] \o <<pong>>
      BY <1>3, <1>5, <1>7, <2>2
    <3>2. QueueOK(rel[x], view[x], Others(x), nextPlayer)
      BY <1>1, <2>2 DEF IInv, QueuesOK
    <3>3. Others(x) \in SUBSET Identity
      BY <1>2, OthersType
    <3>4. QueueOK(rel[x] \o <<pong>>, view[x], Others(x), nextPlayer)
      BY <1>4, <2>1, <3>2, <3>3, QueuePong
    <3> QED
      BY <1>1, <2>2, <3>1, <3>4
  <2>3. CASE x # c
    <3>1. rel'[x] = rel[x]
      BY <1>3, <1>5, <1>7, <2>1, <2>3, ConcatEmptySeq
    <3> QED
      BY <3>1 DEF IInv, QueuesOK
  <2> QED
    BY <2>2, <2>3
<1> QED
  BY <1>8, <1>9 DEF IInv

(* A reader takes a packet.                                                *)
LEMMA DeliverStep ==
  ASSUME SessionAssumption, IInv, NEW c \in Watched, Deliver(c)
  PROVE  IInv'
<1>1. /\ rel[c] # <<>>
      /\ view' = [view EXCEPT ![c] = Apply(@, Head(rel[c]))]
      /\ rel' = [rel EXCEPT ![c] = Tail(@)]
      /\ UNCHANGED <<now, session, running, registered, members, nextPlayer,
                     nextSnapshot, unrel>>
  BY DEF Deliver, tables
<1>8. UNCHANGED <<registered, members, nextPlayer>>
  BY <1>1
<1>2. SessionTypeOK /\ view \in [Watched -> SUBSET Identity]
  BY DEF IInv, TypeOK
<1>3. rel[c] \in Seq(ReliableMsg) /\ view[c] \in SUBSET Identity
      /\ nextPlayer \in Nat
  BY <1>2 DEF SessionTypeOK
<1>4. Head(rel[c]) \in ReliableMsg /\ Tail(rel[c]) \in Seq(ReliableMsg)
  BY <1>1, <1>3, HeadTailProperties
<1>5. Apply(view[c], Head(rel[c])) \in SUBSET Identity
  <2> DEFINE m == Head(rel[c])
  <2>1. m.type = "joined" => m.peer \in Identity
    BY <1>4 DEF ReliableMsg
  <2>2. /\ m.type = "joined" => Apply(view[c], m) = view[c] \cup {m.peer}
        /\ m.type = "left" =>
             Apply(view[c], m) \subseteq view[c]
        /\ m.type \in {"welcome", "disconnect", "closed"} =>
             Apply(view[c], m) = {}
        /\ m.type = "pong" => Apply(view[c], m) = view[c]
    BY DEF Apply
  <2>3. m.type \in {"welcome", "joined", "left", "disconnect", "closed", "pong"}
    BY <1>4 DEF ReliableMsg
  <2> DEFINE u == Apply(view[c], m)
  <2> HIDE DEF m, u
  <2>4. u \in SUBSET Identity
    <3>1. /\ m.type = "joined" => u = view[c] \cup {m.peer}
          /\ m.type = "left" => u \subseteq view[c]
          /\ m.type \in {"welcome", "disconnect", "closed"} => u = {}
          /\ m.type = "pong" => u = view[c]
      BY <2>2 DEF u
    <3> QED
      BY <1>3, <2>1, <2>3, <3>1
  <2> QED
    BY <2>4 DEF m, u
<1>6. TypeOK' /\ MembersOK' /\ PeersDistinct'
  BY <1>1, <1>2, <1>4, <1>5
     DEF IInv, TypeOK, SessionTypeOK, MembersOK, PeersDistinct
<1>7. QueuesOK'
  <2> SUFFICES ASSUME NEW x \in Watched, x \in registered
               PROVE  IF Member(x)
                      THEN QueueOK(rel'[x], view'[x], Others(x), nextPlayer)
                      ELSE rel'[x] = <<>> /\ view'[x] = {}
    BY <1>8 DEF QueuesOK, Member, Others
  <2>1. CASE x = c
    <3>1. Member(c) /\ QueueOK(rel[c], view[c], Others(c), nextPlayer)
      BY <1>1, <2>1 DEF IInv, QueuesOK
    <3>2. Others(c) \in SUBSET Identity
      BY <1>2, OthersType
    <3>3. QueueOK(Tail(rel[c]), Apply(view[c], Head(rel[c])), Others(c),
                  nextPlayer)
      BY <1>1, <1>3, <3>1, <3>2, QueueDeliver
    <3>4. rel'[c] = Tail(rel[c]) /\ view'[c] = Apply(view[c], Head(rel[c]))
      BY <1>1, <1>2 DEF SessionTypeOK
    <3> QED
      BY <2>1, <3>1, <3>3, <3>4
  <2>2. CASE x # c
    <3>1. rel'[x] = rel[x] /\ view'[x] = view[x]
      BY <1>1, <1>2, <2>2 DEF SessionTypeOK
    <3> QED
      BY <3>1 DEF IInv, QueuesOK
  <2> QED
    BY <2>1, <2>2
<1> QED
  BY <1>6, <1>7 DEF IInv

(* The reader of an unrouted transport forgets what it knew.               *)
LEMMA ForgetStep ==
  ASSUME SessionAssumption, IInv, NEW c \in Watched, Forget(c)
  PROVE  IInv'
<1>1. /\ c \notin registered
      /\ rel' = [rel EXCEPT ![c] = <<>>]
      /\ view' = [view EXCEPT ![c] = {}]
      /\ UNCHANGED <<now, session, running, registered, members, nextPlayer,
                     nextSnapshot, unrel>>
  BY DEF Forget, tables
<1>2. TypeOK' /\ MembersOK' /\ PeersDistinct'
  BY <1>1 DEF IInv, TypeOK, SessionTypeOK, MembersOK, PeersDistinct
<1>3. QueuesOK'
  <2> SUFFICES ASSUME NEW x \in Watched, x \in registered
               PROVE  IF Member(x)
                      THEN QueueOK(rel'[x], view'[x], Others(x), nextPlayer)
                      ELSE rel'[x] = <<>> /\ view'[x] = {}
    BY <1>1 DEF QueuesOK, Member, Others
  <2>1. rel'[x] = rel[x] /\ view'[x] = view[x]
    BY <1>1 DEF IInv, TypeOK, SessionTypeOK
  <2> QED
    BY <2>1 DEF IInv, QueuesOK
<1> QED
  BY <1>2, <1>3 DEF IInv

(* The coordinator stops, dies or starts: no connection survives.          *)
LEMMA ProcessStep ==
  ASSUME SessionAssumption, IInv, Shutdown \/ Crash \/ Start, UNCHANGED view
  PROVE  IInv'
<1>1. SessionTypeOK /\ view \in [Watched -> SUBSET Identity]
  BY DEF IInv, TypeOK
<1>2. CASE Shutdown \/ Crash
  <2>1. /\ registered' = {} /\ members' = Restrict(members, {})
        /\ running' = FALSE
        /\ UNCHANGED <<now, session, nextPlayer, nextSnapshot, unrel>>
    BY <1>2 DEF Shutdown, Crash
  <2>2. DOMAIN members' = {} /\ members' \in [DOMAIN members' -> Peer]
    BY <2>1 DEF Restrict
  <2>3. rel' \in [Watched -> Seq(ReliableMsg)]
    <3>1. CASE Crash
      BY <1>1, <3>1 DEF Crash, SessionTypeOK
    <3>2. CASE Shutdown
      <4> DEFINE bye == DisconnectMsg("server_shutdown")
                 f == [x \in Conn |-> IF x \in registered THEN <<bye>> ELSE <<>>]
      <4>1. bye \in ReliableMsg
        BY DEF DisconnectMsg, ReliableMsg, Reason
      <4>2. SendReliable(f)
        BY <3>2 DEF Shutdown
      <4> HIDE DEF bye
      <4>3. \A x \in Watched : f[x] \in Seq(ReliableMsg)
        BY <4>1 DEF SessionAssumption
      <4> HIDE DEF f
      <4> QED
        BY <1>1, <4>2, <4>3, Sent
    <3> QED
      BY <1>2, <3>1, <3>2
  <2>4. TypeOK'
    <3>1. DOMAIN members' \in SUBSET registered'
      BY <2>1, <2>2
    <3>2. registered' \in SUBSET Conn /\ running' \in BOOLEAN
      BY <2>1
    <3> QED
      BY <1>1, <2>1, <2>2, <2>3, <3>1, <3>2 DEF TypeOK, SessionTypeOK
  <2>5. IsFiniteSet({}) /\ Cardinality({}) = 0
    BY FS_EmptySet
  <2>6. MembersOK' /\ PeersDistinct' /\ QueuesOK'
    BY <2>1, <2>2, <2>5 DEF MembersOK, PeersDistinct, QueuesOK, SessionAssumption
  <2> QED
    BY <2>4, <2>6 DEF IInv
<1>3. CASE Start
  <2>1. /\ ~running /\ running' = TRUE /\ session' = session + 1
        /\ nextPlayer' = 1 /\ nextSnapshot' = 0
        /\ UNCHANGED <<now, registered, members, rel, unrel>>
    BY <1>3 DEF Start
  <2>2. registered = {} /\ DOMAIN members = {}
    BY <1>1, <2>1 DEF IInv, MembersOK, SessionTypeOK
  <2>3. TypeOK'
    BY <1>1, <2>1 DEF TypeOK, SessionTypeOK
  <2>4. MembersOK' /\ PeersDistinct' /\ QueuesOK'
    BY <2>1, <2>2 DEF IInv, MembersOK, PeersDistinct, QueuesOK
  <2> QED
    BY <2>3, <2>4 DEF IInv
<1> QED
  BY <1>2, <1>3

LEMMA InitIInv ==
  ASSUME SessionAssumption, Init
  PROVE  IInv
<1>1. DOMAIN members = {} /\ registered = {} /\ running = TRUE
      /\ members \in [DOMAIN members -> Peer]
  BY DEF Init, SessionInit
<1>2. TypeOK
  BY <1>1 DEF Init, SessionInit, TypeOK, SessionTypeOK
<1>3. IsFiniteSet({}) /\ Cardinality({}) = 0
  BY FS_EmptySet
<1>4. MembersOK /\ PeersDistinct /\ QueuesOK
  BY <1>1, <1>3
     DEF MembersOK, PeersDistinct, QueuesOK, SessionAssumption
<1> QED
  BY <1>2, <1>4 DEF IInv

(* The handlers that end a connection, and with what they say to it.       *)
LEMMA Removals ==
  ASSUME NEW c \in Conn,
         \/ \E hello \in Hello : Refuse(c, hello)
         \/ RejectPacket(c) \/ ReceiveDisconnect(c) \/ TransportLost(c)
  PROVE  \E farewell \in Seq(ReliableMsg) :
           c \in registered /\ Remove(c, farewell)
<1>1. \A r \in Reason : Farewell(r) \in Seq(ReliableMsg)
  <2> SUFFICES ASSUME NEW r \in Reason
               PROVE  Farewell(r) \in Seq(ReliableMsg)
    OBVIOUS
  <2>1. DisconnectMsg(r) \in ReliableMsg /\ Closed(r) \in ReliableMsg
    BY DEF DisconnectMsg, Closed, ReliableMsg
  <2> QED
    BY <2>1 DEF Farewell
<1>2. CASE \E hello \in Hello : Refuse(c, hello)
  <2>1. PICK hello \in Hello : Refuse(c, hello)
    BY <1>2
  <2>2. Verdict(hello) \in Reason
    BY DEF Verdict, Hello, Flaw, Reason
  <2> QED
    BY <1>1, <2>1, <2>2 DEF Refuse
<1>3. CASE RejectPacket(c)
  BY <1>1, <1>3 DEF RejectPacket, Reason
<1>4. CASE ReceiveDisconnect(c)
  <2>1. Closed("normal") \in ReliableMsg
    BY DEF Closed, ReliableMsg, Reason
  <2>2. <<Closed("normal")>> \in Seq(ReliableMsg)
    BY <2>1
  <2> QED
    BY <1>4, <2>2 DEF ReceiveDisconnect
<1>5. CASE TransportLost(c)
  <2>1. <<>> \in Seq(ReliableMsg)
    OBVIOUS
  <2> QED
    BY <1>5, <2>1 DEF TransportLost
<1> QED
  BY <1>2, <1>3, <1>4, <1>5

LEMMA ServeStep ==
  ASSUME SessionAssumption, IInv, NEW c \in Conn, Serve(c), UNCHANGED view
  PROVE  IInv'
<1>1. CASE \E hello \in Hello : Accept(c, hello)
  BY <1>1, AcceptStep
<1>2. CASE ReceivePing(c)
  BY <1>2, PingStep
<1>3. CASE \E farewell \in Seq(ReliableMsg) :
             c \in registered /\ Remove(c, farewell)
  BY <1>3, RemoveStep
<1> QED
  BY <1>1, <1>2, <1>3, Removals DEF Serve

LEMMA NextIInv ==
  ASSUME SessionAssumption, IInv, [Next]_vars
  PROVE  IInv'
<1>1. CASE \E c \in Conn : Open(c)
  BY <1>1, OpenStep
<1>2. CASE (\E c \in Conn : Serve(c)) /\ UNCHANGED view
  BY <1>2, ServeStep
<1>3. CASE (Shutdown \/ Crash \/ Start) /\ UNCHANGED view
  BY <1>3, ProcessStep
<1>4. CASE \E c \in Watched : Deliver(c) \/ Forget(c)
  BY <1>4, DeliverStep, ForgetStep
<1>5. CASE UNCHANGED vars
  <2>1. UNCHANGED <<now, session, running, registered, members, nextPlayer,
                    nextSnapshot, rel, unrel, view>>
    BY <1>5 DEF vars, sessionVars
  <2>2. TypeOK'
    BY <2>1 DEF IInv, TypeOK, SessionTypeOK
  <2>3. MembersOK'
    BY <2>1 DEF IInv, MembersOK
  <2>4. PeersDistinct'
    BY <2>1 DEF IInv, PeersDistinct
  <2>5. QueuesOK'
    BY <2>1 DEF IInv, QueuesOK, Member, Others
  <2> QED
    BY <2>2, <2>3, <2>4, <2>5 DEF IInv
<1> QED
  BY <1>1, <1>2, <1>3, <1>4, <1>5 DEF Next

(* The membership invariant holds in every reachable state.                *)
THEOREM Invariance == Spec => []IInv
<1>1. Init => IInv
  BY InitIInv, SessionAssumption
<1>2. IInv /\ [Next]_vars => IInv'
  BY NextIInv, SessionAssumption
<1> QED
  BY <1>1, <1>2, PTL DEF Spec

-----------------------------------------------------------------------------
(* The coordinator's tables and queues keep their types; in particular no  *)
(* peer is ever left in Session::peers_ without a route (session.cpp:40,   *)
(* main.cpp:394-399 and 439-452).                                          *)
THEOREM TypeCorrect == Spec => []TypeOK
<1>1. IInv => TypeOK
  BY DEF IInv
<1> QED
  BY <1>1, Invariance, PTL

(* Session::accept never admits more than max_players, nor two peers of    *)
(* one id or one name (session.cpp:32-80), for any number of connections.  *)
THEOREM DistinctPeers == Spec => []PeersDistinct
<1>1. IInv => PeersDistinct
  BY DEF IInv
<1> QED
  BY <1>1, Invariance, PTL

(* A member whose queue is empty knows exactly the other members           *)
(* (session.cpp:62-79 and 148-163), whatever happened before.              *)
THEOREM RosterConvergence == Spec => []RosterConverges
<1>1. IInv => RosterConverges
  <2> SUFFICES ASSUME IInv, NEW c \in Watched, Member(c), rel[c] = <<>>
               PROVE  view[c] = Others(c)
    BY DEF RosterConverges, Member
  <2>1. c \in registered
    BY DEF IInv, TypeOK, SessionTypeOK, Member
  <2>2. QueueOK(<<>>, view[c], Others(c), nextPlayer)
    BY <2>1 DEF IInv, QueuesOK
  <2>3. 1..Len(<<>>) = {}
    OBVIOUS
  <2>4. Others(c) \subseteq view[c]
    BY <2>2, <2>3 DEF QueueOK, Announced
  <2>5. view[c] \subseteq Others(c)
    BY <2>2, <2>3 DEF QueueOK, Revoked
  <2> QED
    BY <2>4, <2>5
<1> QED
  BY <1>1, Invariance, PTL

-----------------------------------------------------------------------------
(* No reader is ever confused.  RosterConverges speaks of empty queues;    *)
(* ReadersNeverConfused of every prefix of a queue that its reader may     *)
(* have taken.  So the second invariant is about the order in a queue: of  *)
(* two peers that clash, the first is declared gone between their two      *)
(* announcements.                                                          *)

Clash(p, r) == p.pid = r.pid \/ p.name = r.name

AnnouncedApart(q) ==
  \A i, j \in 1..Len(q) :
    /\ i < j
    /\ q[i].type = "joined" /\ q[j].type = "joined"
    /\ Clash(q[i].peer, q[j].peer)
    => \E l \in (i + 1)..(j - 1) : q[l] = Left(q[i].peer)

KnownApart(q, v) ==
  \A p \in v, j \in 1..Len(q) :
    q[j].type = "joined" /\ Clash(p, q[j].peer)
      => \E l \in 1..(j - 1) : q[l] = Left(p)

Coherent(v) == \A p, r \in v : Clash(p, r) => p = r

Foreign(q, v, me) ==
  /\ \A p \in v : ~Clash(p, me)
  /\ \A j \in 1..Len(q) : q[j].type = "joined" => ~Clash(q[j].peer, me)

Clear(q, v, me) ==
  AnnouncedApart(q) /\ KnownApart(q, v) /\ Coherent(v) /\ Foreign(q, v, me)

(* Appending anything but an announcement.                                 *)
LEMMA ClearQuiet ==
  ASSUME NEW q \in Seq(ReliableMsg), NEW v \in SUBSET Identity, NEW me,
         NEW m \in ReliableMsg, m.type # "joined", Clear(q, v, me)
  PROVE  Clear(q \o <<m>>, v, me)
<1> DEFINE r == q \o <<m>>
<1>1. /\ Len(r) = Len(q) + 1 /\ Len(q) \in Nat
      /\ \A i \in 1..Len(q) : r[i] = q[i]
      /\ r[Len(q) + 1] = m
  BY Snoc, LenProperties
<1> HIDE DEF r
<1>2. \A i \in 1..Len(r) : r[i].type = "joined" => i \in 1..Len(q) /\ r[i] = q[i]
  BY <1>1
<1>3. AnnouncedApart(r)
  <2> SUFFICES ASSUME NEW i \in 1..Len(r), NEW j \in 1..Len(r), i < j,
                      r[i].type = "joined", r[j].type = "joined",
                      Clash(r[i].peer, r[j].peer)
               PROVE  \E l \in (i + 1)..(j - 1) : r[l] = Left(r[i].peer)
    BY DEF AnnouncedApart
  <2>1. i \in 1..Len(q) /\ j \in 1..Len(q) /\ r[i] = q[i] /\ r[j] = q[j]
    BY <1>2
  <2>2. PICK l \in (i + 1)..(j - 1) : q[l] = Left(q[i].peer)
    BY <2>1 DEF Clear, AnnouncedApart
  <2>3. l \in 1..Len(q)
    BY <2>1, <1>1
  <2> QED
    BY <2>1, <2>2, <2>3, <1>1
<1>4. KnownApart(r, v)
  <2> SUFFICES ASSUME NEW p \in v, NEW j \in 1..Len(r),
                      r[j].type = "joined", Clash(p, r[j].peer)
               PROVE  \E l \in 1..(j - 1) : r[l] = Left(p)
    BY DEF KnownApart
  <2>1. j \in 1..Len(q) /\ r[j] = q[j]
    BY <1>2
  <2>2. PICK l \in 1..(j - 1) : q[l] = Left(p)
    BY <2>1 DEF Clear, KnownApart
  <2>3. l \in 1..Len(q)
    BY <2>1, <1>1
  <2> QED
    BY <2>2, <2>3, <1>1
<1>5. Coherent(v) /\ Foreign(r, v, me)
  BY <1>2 DEF Clear, Foreign
<1> QED
  BY <1>3, <1>4, <1>5 DEF Clear, r

(* Announcing a newcomer: whoever clashes with it has been declared gone.  *)
LEMMA ClearJoin ==
  ASSUME NEW q \in Seq(ReliableMsg), NEW v \in SUBSET Identity, NEW me,
         NEW O \in SUBSET Identity, NEW n \in Nat, NEW p \in Identity,
         QueueOK(q, v, O, n), Clear(q, v, me), ~Clash(p, me),
         p.pid = n, \A o \in O : o.pid < n /\ o.name # p.name
  PROVE  Clear(q \o <<Joined(p)>>, v, me)
<1> DEFINE r == q \o <<Joined(p)>>
<1>1. /\ Len(r) = Len(q) + 1 /\ Len(q) \in Nat
      /\ \A i \in 1..Len(q) : r[i] = q[i]
      /\ r[Len(q) + 1] = Joined(p)
  BY Snoc, Packets, LenProperties
<1>2. Joined(p).type = "joined" /\ Joined(p).peer = p
  BY Packets
<1> HIDE DEF r
<1>3. \A o \in Identity :
        (\E i \in 1..Len(q) : q[i] = Left(o)) => o.pid < n
  BY Packets DEF QueueOK, Plausible
<1>4. ASSUME NEW o \in v, Clash(o, p)
      PROVE  \E l \in 1..Len(q) : q[l] = Left(o)
  <2>1. o \in O \/ \E l \in 1..Len(q) : q[l] = Left(o)
    BY DEF QueueOK, Revoked
  <2>2. o \notin O
    BY <1>4 DEF Clash, Identity
  <2> QED
    BY <2>1, <2>2
<1>5. ASSUME NEW i \in 1..Len(q), q[i].type = "joined", Clash(q[i].peer, p)
      PROVE  \E l \in (i + 1)..Len(q) : q[l] = Left(q[i].peer)
  <2>1. \/ q[i].peer \in O
        \/ \E l \in (i + 1)..Len(q) : q[l] = Left(q[i].peer)
    BY <1>5 DEF QueueOK, Plausible
  <2>2. q[i].peer \notin O
    BY <1>5 DEF Clash, Identity
  <2> QED
    BY <2>1, <2>2
<1>6. AnnouncedApart(r)
  <2> SUFFICES ASSUME NEW i \in 1..Len(r), NEW j \in 1..Len(r), i < j,
                      r[i].type = "joined", r[j].type = "joined",
                      Clash(r[i].peer, r[j].peer)
               PROVE  \E l \in (i + 1)..(j - 1) : r[l] = Left(r[i].peer)
    BY DEF AnnouncedApart
  <2>1. i \in 1..Len(q) /\ r[i] = q[i]
    BY <1>1
  <2>2. CASE j \in 1..Len(q)
    <3>1. PICK l \in (i + 1)..(j - 1) : q[l] = Left(q[i].peer)
      BY <2>1, <2>2, <1>1 DEF Clear, AnnouncedApart
    <3>2. l \in 1..Len(q)
      BY <2>1, <2>2, <1>1
    <3> QED
      BY <2>1, <3>1, <3>2, <1>1
  <2>3. CASE j = Len(q) + 1
    <3>1. PICK l \in (i + 1)..Len(q) : q[l] = Left(q[i].peer)
      BY <2>1, <2>3, <1>1, <1>2, <1>5
    <3>2. l \in 1..Len(q) /\ l \in (i + 1)..(j - 1)
      BY <2>1, <2>3, <1>1
    <3> QED
      BY <2>1, <3>1, <3>2, <1>1
  <2> QED
    BY <2>2, <2>3, <1>1
<1>7. KnownApart(r, v)
  <2> SUFFICES ASSUME NEW o \in v, NEW j \in 1..Len(r),
                      r[j].type = "joined", Clash(o, r[j].peer)
               PROVE  \E l \in 1..(j - 1) : r[l] = Left(o)
    BY DEF KnownApart
  <2>1. CASE j \in 1..Len(q)
    <3>1. PICK l \in 1..(j - 1) : q[l] = Left(o)
      BY <2>1, <1>1 DEF Clear, KnownApart
    <3>2. l \in 1..Len(q)
      BY <2>1, <1>1
    <3> QED
      BY <3>1, <3>2, <1>1
  <2>2. CASE j = Len(q) + 1
    <3>1. PICK l \in 1..Len(q) : q[l] = Left(o)
      BY <2>2, <1>1, <1>2, <1>4
    <3>2. l \in 1..(j - 1)
      BY <2>2, <1>1
    <3> QED
      BY <3>1, <3>2, <1>1
  <2> QED
    BY <2>1, <2>2, <1>1
<1>8. Coherent(v) /\ Foreign(r, v, me)
  BY <1>1, <1>2 DEF Clear, Foreign
<1> QED
  BY <1>6, <1>7, <1>8 DEF Clear, r

(* The roster of peers that do not clash, behind the welcome.              *)
LEMMA ClearWelcome ==
  ASSUME NEW w \in ReliableMsg, w.type = "welcome",
         NEW js \in Seq(ReliableMsg), NEW me,
         \A i \in 1..Len(js) : js[i].type = "joined" => ~Clash(js[i].peer, me),
         \A i, j \in 1..Len(js) : i # j => ~Clash(js[i].peer, js[j].peer)
  PROVE  Clear(<<w>> \o js, {}, me)
<1> DEFINE r == <<w>> \o js
<1>1. <<w>> \in Seq(ReliableMsg) /\ Len(<<w>>) = 1 /\ <<w>>[1] = w
  OBVIOUS
<1>2. /\ Len(js) \in Nat /\ Len(r) = Len(js) + 1
      /\ r[1] = w
      /\ \A i \in 2..Len(r) : r[i] = js[i - 1]
  BY <1>1, LenProperties, ConcatProperties
<1> HIDE DEF r
<1>3. \A i \in 1..Len(r) : r[i].type = "joined" =>
        i \in 2..Len(r) /\ i - 1 \in 1..Len(js) /\ r[i] = js[i - 1]
  BY <1>2
<1>4. AnnouncedApart(r)
  <2>1. ASSUME NEW i \in 1..Len(r), NEW j \in 1..Len(r), i < j,
               r[i].type = "joined", r[j].type = "joined"
        PROVE  ~Clash(r[i].peer, r[j].peer)
    <3>1. i - 1 # j - 1
      BY <2>1, <1>2
    <3> QED
      BY <2>1, <3>1, <1>3
  <2> QED
    BY <2>1 DEF AnnouncedApart
<1>5. KnownApart(r, {}) /\ Coherent({}) /\ Foreign(r, {}, me)
  BY <1>3 DEF KnownApart, Coherent, Foreign
<1> QED
  BY <1>4, <1>5 DEF Clear, r

(* The reader takes the first packet.                                      *)
LEMMA ClearDeliver ==
  ASSUME NEW q \in Seq(ReliableMsg), q # <<>>, NEW v \in SUBSET Identity,
         NEW O \in SUBSET Identity, NEW n \in Nat, NEW me,
         QueueOK(q, v, O, n), Clear(q, v, me)
  PROVE  Clear(Tail(q), Apply(v, Head(q)), me)
<1> DEFINE r == Tail(q)
           m == Head(q)
           u == Apply(v, m)
<1>1. /\ Len(q) \in Nat /\ Len(q) >= 1 /\ Len(r) = Len(q) - 1
      /\ m = q[1] /\ m \in ReliableMsg
      /\ \A i \in 1..Len(r) : r[i] = q[i + 1]
  BY HeadTailProperties, EmptySeq, LenProperties
<1> HIDE DEF r, m
<1>2. 1 \in 1..Len(q)
  BY <1>1
<1>3. m.type \in {"welcome", "joined", "left", "pong"}
  BY <1>1, <1>2 DEF QueueOK, Plausible
<1>4. /\ m.type = "joined" => u = v \cup {m.peer}
      /\ m.type = "left" => u = {p \in v : p.pid # m.pid \/ p.inc # m.inc}
      /\ m.type = "welcome" => u = {}
      /\ m.type = "pong" => u = v
  BY DEF Apply
<1> HIDE DEF u
<1>5. \A p \in u : p \in v \/ (m.type = "joined" /\ p = m.peer)
  BY <1>3, <1>4
<1>6. \A i \in 1..Len(r) : i + 1 \in 1..Len(q) /\ r[i] = q[i + 1]
  BY <1>1
<1>7. AnnouncedApart(r)
  <2> SUFFICES ASSUME NEW i \in 1..Len(r), NEW j \in 1..Len(r), i < j,
                      r[i].type = "joined", r[j].type = "joined",
                      Clash(r[i].peer, r[j].peer)
               PROVE  \E l \in (i + 1)..(j - 1) : r[l] = Left(r[i].peer)
    BY DEF AnnouncedApart
  <2>1. i + 1 < j + 1
    OBVIOUS
  <2>2. PICK l \in ((i + 1) + 1)..((j + 1) - 1) : q[l] = Left(q[i + 1].peer)
    BY <1>6, <2>1 DEF Clear, AnnouncedApart
  <2>3. l - 1 \in (i + 1)..(j - 1) /\ l - 1 \in 1..Len(r) /\ (l - 1) + 1 = l
    BY <1>1
  <2> QED
    BY <1>6, <2>2, <2>3
<1>8. KnownApart(r, u)
  <2> SUFFICES ASSUME NEW p \in u, NEW j \in 1..Len(r),
                      r[j].type = "joined", Clash(p, r[j].peer)
               PROVE  \E l \in 1..(j - 1) : r[l] = Left(p)
    BY DEF KnownApart
  <2>1. CASE p \in v
    <3>0. j + 1 \in 1..Len(q) /\ r[j] = q[j + 1]
      BY <1>6
    <3>1. PICK l \in 1..((j + 1) - 1) : q[l] = Left(p)
      BY <2>1, <3>0 DEF Clear, KnownApart
    <3>2. l # 1
      <4>1. ASSUME l = 1
            PROVE  FALSE
        <5>1. m.type = "left" /\ m.pid = p.pid /\ m.inc = p.inc
          BY <4>1, <3>1, <1>1, <2>1, Packets
        <5> QED
          BY <5>1, <1>4
      <4> QED
        BY <4>1
    <3>3. l - 1 \in 1..(j - 1) /\ l - 1 \in 1..Len(r) /\ (l - 1) + 1 = l
      BY <3>2, <1>1
    <3> QED
      BY <1>6, <3>1, <3>3
  <2>2. CASE m.type = "joined" /\ p = m.peer
    <3>1. 1 < j + 1 /\ j + 1 \in 1..Len(q) /\ r[j] = q[j + 1]
      BY <1>6
    <3>2. PICK l \in (1 + 1)..((j + 1) - 1) : q[l] = Left(q[1].peer)
      BY <1>1, <1>2, <2>2, <3>1 DEF Clear, AnnouncedApart
    <3>3. l - 1 \in 1..(j - 1) /\ l - 1 \in 1..Len(r) /\ (l - 1) + 1 = l
      BY <1>1
    <3> QED
      BY <1>1, <1>6, <2>2, <3>2, <3>3
  <2> QED
    BY <1>5, <2>1, <2>2
<1>9. Coherent(u)
  <2>1. ASSUME NEW p \in v, m.type = "joined"
        PROVE  ~Clash(p, m.peer) /\ ~Clash(m.peer, p)
    <3>1. 1..(1 - 1) = {}
      OBVIOUS
    <3>2. ~Clash(p, q[1].peer)
      BY <1>1, <1>2, <2>1, <3>1 DEF Clear, KnownApart
    <3> QED
      BY <1>1, <3>2 DEF Clash
  <2>2. \A p, o \in v : Clash(p, o) => p = o
    BY DEF Clear, Coherent
  <2> QED
    BY <1>5, <2>1, <2>2 DEF Coherent
<1>10. Foreign(r, u, me)
  BY <1>1, <1>2, <1>5, <1>6 DEF Clear, Foreign
<1> QED
  BY <1>7, <1>8, <1>9, <1>10 DEF Clear, r, m, u

(* Every member's queue, for its reader and its own identity.              *)
QueuesClear ==
  \A c \in Watched \cap DOMAIN members :
    Clear(rel[c], view[c], members[c].id)

LEMMA ClearRemove ==
  ASSUME SessionAssumption, IInv, QueuesClear, NEW c \in registered,
         NEW farewell \in Seq(ReliableMsg), Remove(c, farewell), UNCHANGED view
  PROVE  QueuesClear'
<1> DEFINE f == [x \in Conn |->
             IF x = c THEN farewell
             ELSE IF Member(c) /\ Member(x) THEN <<Left(members[c].id)>>
             ELSE <<>>]
<1>1. SessionTypeOK /\ view \in [Watched -> SUBSET Identity]
  BY DEF IInv, TypeOK
<1>2. Watched \subseteq Conn
  BY DEF SessionAssumption
<1>3. \A d \in DOMAIN members : members[d].id \in Identity
  BY <1>1 DEF SessionTypeOK, Peer
<1>4. \A x \in Conn : f[x] \in Seq(ReliableMsg)
  BY <1>3, Packets DEF Member
<1>5. \A x \in Watched : rel'[x] = rel[x] \o f[x]
  <2>1. SendReliable(f)
    BY DEF Remove
  <2> HIDE DEF f
  <2> QED
    BY <1>1, <1>2, <1>4, <2>1, Sent
<1>6. /\ DOMAIN members' = DOMAIN members \ {c}
      /\ \A d \in DOMAIN members' : members'[d] = members[d]
  BY DEF Remove, Restrict
<1> SUFFICES ASSUME NEW x \in Watched, x \in DOMAIN members'
               PROVE  Clear(rel'[x], view[x], members[x].id)
  BY <1>6 DEF QueuesClear
<1>8. x # c /\ x \in DOMAIN members /\ x \in Conn
  BY <1>2, <1>6
<1>9. rel[x] \in Seq(ReliableMsg) /\ view[x] \in SUBSET Identity
  BY <1>1 DEF SessionTypeOK
<1>10. Clear(rel[x], view[x], members[x].id)
  BY <1>8 DEF QueuesClear
<1>11. CASE Member(c)
  <2> DEFINE m == Left(members[c].id)
  <2>1. rel'[x] = rel[x] \o <<m>>
    BY <1>5, <1>8, <1>11 DEF Member
  <2>2. m \in ReliableMsg /\ m.type # "joined"
    BY <1>3, <1>11, Packets DEF Member
  <2> HIDE DEF m
  <2> QED
    BY <1>9, <1>10, <2>1, <2>2, ClearQuiet
<1>12. CASE ~Member(c)
  <2>1. rel'[x] = rel[x] \o <<>>
    BY <1>5, <1>8, <1>12
  <2> QED
    BY <1>9, <1>10, <2>1, ConcatEmptySeq
<1> QED
  BY <1>11, <1>12

LEMMA ClearAccept ==
  ASSUME SessionAssumption, IInv, QueuesClear, NEW c \in Conn,
         NEW hello \in Hello, Accept(c, hello), UNCHANGED view
  PROVE  QueuesClear'
<1> DEFINE id == [pid |-> nextPlayer, inc |-> hello.inc, name |-> hello.name]
           others == DOMAIN members
           n == Cardinality(others)
<1>1. SessionTypeOK /\ view \in [Watched -> SUBSET Identity]
  BY DEF IInv, TypeOK
<1>2. Watched \subseteq Conn
  BY DEF SessionAssumption
<1>3. \A d \in others : members[d].id \in Identity /\ d \in registered
  BY <1>1 DEF SessionTypeOK, Peer
<1>4. /\ nextPlayer \in Nat /\ id \in Identity /\ id.pid = nextPlayer
      /\ id.name = hello.name
  BY <1>1 DEF SessionTypeOK, Identity, Hello
<1>5. n \in Nat
  BY FS_CardinalityType DEF IInv, MembersOK
<1>6. /\ c \in registered /\ c \notin others /\ Verdict(hello) = "normal"
      /\ \A d \in others : members[d].id.name # hello.name
  BY DEF Accept, Member, Verdict, SessionAssumption, Hello, Flaw
<1>7. \A d \in others : ~Clash(members[d].id, id) /\ ~Clash(id, members[d].id)
  BY <1>3, <1>4, <1>6 DEF IInv, PeersDistinct, Clash, Identity
<1>8. PICK order \in Bijection(1..n, others) :
        SendReliable([x \in Conn |->
          IF x = c
          THEN <<Welcome(id)>> \o [i \in 1..n |-> Joined(members[order[i]].id)]
          ELSE IF x \in others THEN <<Joined(id)>> ELSE <<>>])
  BY DEF Accept
<1> DEFINE js == [i \in 1..n |-> Joined(members[order[i]].id)]
           f == [x \in Conn |->
             IF x = c THEN <<Welcome(id)>> \o js
             ELSE IF x \in others THEN <<Joined(id)>> ELSE <<>>]
<1>9. /\ \A i \in 1..n : order[i] \in others
      /\ \A i, j \in 1..n : i # j => order[i] # order[j]
  BY <1>8 DEF Bijection, Injection, IsInjective
<1>10. /\ js \in Seq(ReliableMsg) /\ Len(js) = n
       /\ \A i \in 1..n : js[i] = Joined(members[order[i]].id)
  <2>1. \A i \in 1..n : Joined(members[order[i]].id) \in ReliableMsg
    BY <1>3, <1>9, Packets
  <2> QED
    BY <1>5, <2>1, IsASeq
<1>11. /\ Welcome(id) \in ReliableMsg /\ Welcome(id).type = "welcome"
       /\ <<Welcome(id)>> \in Seq(ReliableMsg)
  BY <1>1, <1>4 DEF Welcome, ReliableMsg, SessionTypeOK
<1>12. \A x \in Conn : f[x] \in Seq(ReliableMsg)
  <2> HIDE DEF js, id
  <2> QED
    BY <1>4, <1>10, <1>11, Packets, ConcatProperties
<1>13. \A x \in Watched : rel'[x] = rel[x] \o f[x]
  <2>1. SendReliable(f)
    BY <1>8
  <2> HIDE DEF f
  <2> QED
    BY <1>1, <1>2, <1>12, <2>1, Sent
<1>14. /\ DOMAIN members' = others \cup {c} /\ members'[c].id = id
       /\ \A d \in others : members'[d] = members[d]
  BY <1>6 DEF Accept
<1> HIDE DEF id, js
<1> SUFFICES ASSUME NEW x \in Watched, x \in DOMAIN members'
             PROVE  Clear(rel'[x], view[x], members'[x].id)
  BY DEF QueuesClear, Accept
<1>16. x \in Conn /\ rel[x] \in Seq(ReliableMsg) /\ view[x] \in SUBSET Identity
  BY <1>1, <1>2 DEF SessionTypeOK
<1>17. CASE x = c
  <2>1. rel[c] = <<>> /\ view[c] = {}
    BY <1>6, <1>17 DEF IInv, QueuesOK, Member
  <2>2. rel'[c] = <<Welcome(id)>> \o js
    <3>1. f[c] = <<Welcome(id)>> \o js
      OBVIOUS
    <3>2. <<Welcome(id)>> \o js \in Seq(ReliableMsg)
      BY <1>10, <1>11, ConcatProperties
    <3>3. rel'[c] = <<>> \o (<<Welcome(id)>> \o js)
      BY <1>13, <1>17, <2>1, <3>1
    <3> QED
      BY <3>2, <3>3, ConcatEmptySeq
  <2>3. \A i \in 1..n : js[i].peer = members[order[i]].id
    BY <1>3, <1>9, <1>10, Packets
  <2>4. \A i \in 1..Len(js) : js[i].type = "joined" => ~Clash(js[i].peer, id)
    BY <1>7, <1>9, <1>10, <2>3
  <2>5. \A d, e \in others : d # e => ~Clash(members[d].id, members[e].id)
    BY DEF IInv, PeersDistinct, Clash
  <2>6. \A i, j \in 1..Len(js) : i # j => ~Clash(js[i].peer, js[j].peer)
    BY <1>9, <1>10, <2>3, <2>5
  <2>7. Clear(<<Welcome(id)>> \o js, {}, id)
    BY <1>10, <1>11, <2>4, <2>6, ClearWelcome
  <2> QED
    BY <1>14, <1>17, <2>1, <2>2, <2>7
<1>18. CASE x # c
  <2>1. x \in others /\ x \in registered
    BY <1>3, <1>14, <1>18
  <2>2. rel'[x] = rel[x] \o <<Joined(id)>>
    BY <1>13, <1>16, <1>18, <2>1
  <2>3. QueueOK(rel[x], view[x], Others(x), nextPlayer)
    BY <2>1 DEF IInv, QueuesOK, Member
  <2>4. Others(x) \in SUBSET Identity
    BY <1>1, OthersType
  <2>5. \A o \in Others(x) : o.pid < nextPlayer /\ o.name # id.name
    BY <1>4, <1>6 DEF Others, IInv, PeersDistinct
  <2>6. Clear(rel[x], view[x], members[x].id)
    BY <2>1 DEF QueuesClear
  <2>7. Clear(rel[x] \o <<Joined(id)>>, view[x], members[x].id)
    BY <1>4, <1>7, <1>16, <2>1, <2>3, <2>4, <2>5, <2>6, ClearJoin
  <2> QED
    BY <1>14, <2>1, <2>2, <2>7
<1> QED
  BY <1>17, <1>18

LEMMA ClearPing ==
  ASSUME SessionAssumption, IInv, QueuesClear, NEW c \in Conn, ReceivePing(c),
         UNCHANGED view
  PROVE  QueuesClear'
<1> DEFINE pong == [type |-> "pong"]
           f == [Nothing EXCEPT ![c] = <<pong>>]
<1>1. SendReliable(f) /\ members' = members
  BY DEF ReceivePing
<1>2. SessionTypeOK /\ view \in [Watched -> SUBSET Identity]
  BY DEF IInv, TypeOK
<1>3. Watched \subseteq Conn
  BY DEF SessionAssumption
<1>4. pong \in ReliableMsg /\ pong.type # "joined"
  BY DEF ReliableMsg
<1>5. \A x \in Conn : f[x] = IF x = c THEN <<pong>> ELSE <<>>
  BY DEF Nothing
<1>6. \A x \in Conn : f[x] \in Seq(ReliableMsg)
  <2> HIDE DEF pong, f
  <2>1. <<pong>> \in Seq(ReliableMsg) /\ <<>> \in Seq(ReliableMsg)
    BY <1>4
  <2> QED
    BY <1>5, <2>1
<1>7. \A x \in Watched : rel'[x] = rel[x] \o f[x]
  <2> HIDE DEF f
  <2> QED
    BY <1>1, <1>2, <1>3, <1>6, Sent
<1> HIDE DEF f, pong
<1> SUFFICES ASSUME NEW x \in Watched, x \in DOMAIN members
               PROVE  Clear(rel'[x], view[x], members[x].id)
  BY <1>1 DEF QueuesClear
<1>9. rel[x] \in Seq(ReliableMsg) /\ view[x] \in SUBSET Identity /\ x \in Conn
  BY <1>2, <1>3 DEF SessionTypeOK
<1>10. Clear(rel[x], view[x], members[x].id)
  BY DEF QueuesClear
<1>11. CASE x = c
  BY <1>4, <1>5, <1>7, <1>9, <1>10, <1>11, ClearQuiet
<1>12. CASE x # c
  BY <1>5, <1>7, <1>9, <1>10, <1>12, ConcatEmptySeq
<1> QED
  BY <1>11, <1>12

LEMMA ClearTake ==
  ASSUME SessionAssumption, IInv, QueuesClear, NEW c \in Watched,
         Deliver(c) \/ Forget(c)
  PROVE  QueuesClear'
<1>1. SessionTypeOK /\ view \in [Watched -> SUBSET Identity]
  BY DEF IInv, TypeOK
<1>2. UNCHANGED <<registered, members, nextPlayer>>
  BY DEF Deliver, Forget, tables
<1>3. \A x \in Watched \ {c} : rel'[x] = rel[x] /\ view'[x] = view[x]
  BY <1>1 DEF Deliver, Forget, SessionTypeOK
<1>4. ASSUME c \in DOMAIN members
      PROVE  Clear(rel'[c], view'[c], members[c].id)
  <2>1. c \in registered /\ Deliver(c)
    BY <1>1, <1>4 DEF Forget, SessionTypeOK
  <2>2. /\ rel[c] # <<>> /\ rel'[c] = Tail(rel[c])
        /\ view'[c] = Apply(view[c], Head(rel[c]))
    BY <1>1, <2>1 DEF Deliver, SessionTypeOK
  <2>3. QueueOK(rel[c], view[c], Others(c), nextPlayer)
    BY <1>4, <2>1 DEF IInv, QueuesOK, Member
  <2>4. /\ rel[c] \in Seq(ReliableMsg) /\ view[c] \in SUBSET Identity
        /\ nextPlayer \in Nat /\ Others(c) \in SUBSET Identity
    BY <1>1, OthersType DEF SessionTypeOK
  <2>5. Clear(rel[c], view[c], members[c].id)
    BY <1>4 DEF QueuesClear
  <2> QED
    BY <2>2, <2>3, <2>4, <2>5, ClearDeliver
<1> QED
  BY <1>2, <1>3, <1>4 DEF QueuesClear

LEMMA ClearNext ==
  ASSUME SessionAssumption, IInv, QueuesClear, [Next]_vars
  PROVE  QueuesClear'
<1>1. CASE \E c \in Conn : Open(c)
  BY <1>1 DEF Open, Connect, QueuesClear
<1>2. CASE (\E c \in Conn : Serve(c)) /\ UNCHANGED view
  <2>1. PICK c \in Conn : Serve(c)
    BY <1>2
  <2>2. CASE \E hello \in Hello : Accept(c, hello)
    BY <1>2, <2>2, ClearAccept
  <2>3. CASE ReceivePing(c)
    BY <1>2, <2>3, ClearPing
  <2>4. CASE \E farewell \in Seq(ReliableMsg) : c \in registered /\ Remove(c, farewell)
    BY <1>2, <2>4, ClearRemove
  <2> QED
    BY <2>1, <2>2, <2>3, <2>4, Removals DEF Serve
<1>3. CASE (Shutdown \/ Crash \/ Start) /\ UNCHANGED view
  <2>1. CASE Shutdown \/ Crash
    BY <2>1 DEF Shutdown, Crash, Restrict, QueuesClear
  <2>2. CASE Start
    BY <1>3, <2>2 DEF Start, QueuesClear
  <2> QED
    BY <1>3, <2>1, <2>2
<1>4. CASE \E c \in Watched : Deliver(c) \/ Forget(c)
  BY <1>4, ClearTake
<1>5. CASE UNCHANGED vars
  BY <1>5 DEF vars, sessionVars, QueuesClear
<1> QED
  BY <1>1, <1>2, <1>3, <1>4, <1>5 DEF Next

(* A name or an id is used again only after every reader was told that its *)
(* holder left: in each queue the leave precedes the join, so the checks   *)
(* of network_adapter.cpp:473-486 never fire on this stream.               *)
THEOREM NeverConfused == Spec => []ReadersNeverConfused
<1>1. Init => QueuesClear
  BY DEF Init, SessionInit, QueuesClear
<1>2. IInv /\ QueuesClear /\ [Next]_vars => QueuesClear'
  BY ClearNext, SessionAssumption
<1>3. QueuesClear => ReadersNeverConfused
  BY DEF QueuesClear, Clear, Coherent, Foreign, Clash, ReadersNeverConfused
<1> QED
  BY <1>1, <1>2, <1>3, Invariance, PTL DEF Spec
=============================================================================
