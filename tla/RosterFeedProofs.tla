--------------------------- MODULE RosterFeedProofs ---------------------------
(***************************************************************************)
(* The feed converges and moves in single steps, for any set of players.   *)
(***************************************************************************)
EXTENDS RosterFeed, TLAPS

FeedInv == TypeOK /\ Converged /\ Stepwise

LEMMA EmptyLag ==
  ASSUME NEW s, s = <<>>
  PROVE  s \in Seq(SUBSET Player) /\ 2..Len(s) = {}
<1>1. <<>> \in Seq(SUBSET Player)
  OBVIOUS
<1>2. Len(<<>>) = 0
  OBVIOUS
<1>3. 2..Len(s) = {}
  BY <1>2
<1> QED  BY <1>1, <1>3

LEMMA FeedInit == Init => FeedInv
<1> SUFFICES ASSUME Init PROVE FeedInv
  OBVIOUS
<1>1. lag \in Seq(SUBSET Player) /\ 2..Len(lag) = {}
  BY EmptyLag DEF Init
<1> QED  BY <1>1 DEF Init, FeedInv, TypeOK, Converged, Stepwise

LEMMA AdmitKeeps == FeedInv /\ Admit => FeedInv'
<1> SUFFICES ASSUME FeedInv, Admit PROVE FeedInv'
  OBVIOUS
<1>1. TypeOK'
  <2>1. Len(lag') \in Nat /\ Len(lag') \in 1..Len(lag')
    BY DEF Admit
  <2> QED  BY <2>1 DEF Admit, FeedInv, TypeOK
<1>2. Converged'
  BY DEF Admit, Converged
<1>3. Stepwise'
  BY DEF Admit, Stepwise, OneApart
<1> QED  BY <1>1, <1>2, <1>3 DEF FeedInv

LEMMA ChangeKeeps == FeedInv /\ Change => FeedInv'
<1> SUFFICES ASSUME FeedInv, Change PROVE FeedInv'
  OBVIOUS
<1>1. roster' \in SUBSET Player
  BY DEF Change, OneApart, Joined, FeedInv, TypeOK
<1>2. lag' \in Seq(SUBSET Player) /\ Len(lag') = Len(lag) + 1
  BY <1>1 DEF Change, FeedInv, TypeOK
<1>3. /\ lag'[Len(lag')] = roster'
      /\ \A i \in 1..Len(lag) : lag'[i] = lag[i]
  BY <1>1, <1>2 DEF Change, FeedInv, TypeOK
<1>4. TypeOK'
  BY <1>1, <1>2 DEF Change, FeedInv, TypeOK
<1>5. Converged'
  BY <1>2, <1>3 DEF Converged
<1>6. Stepwise'
  <2>1. CASE lag = <<>>
    <3>1. Len(lag') = 1 /\ lag'[1] = roster' /\ view = roster
      BY <2>1, <1>2, <1>3 DEF Change, FeedInv, Converged
    <3> QED  BY <3>1 DEF Change, Stepwise
  <2>2. CASE lag # <<>>
    <3>1. Len(lag) \in Nat \ {0}
      BY <2>2 DEF FeedInv, TypeOK
    <3>2. lag[Len(lag)] = roster
      BY <2>2 DEF Change, FeedInv, Converged
    <3>3. \A i \in 2..Len(lag') : OneApart(lag'[i - 1], lag'[i])
      <4> TAKE i \in 2..Len(lag')
      <4>1. CASE i = Len(lag')
        BY <4>1, <3>1, <3>2, <1>2, <1>3 DEF Change
      <4>2. CASE i # Len(lag')
        <5>1. i \in 2..Len(lag) /\ i - 1 \in 1..Len(lag)
          BY <4>2, <3>1, <1>2
        <5> QED  BY <5>1, <1>3 DEF FeedInv, Stepwise
      <4> QED  BY <4>1, <4>2
    <3> QED  BY <3>1, <3>3, <2>2, <1>3 DEF Change, FeedInv, Stepwise
  <2> QED  BY <2>1, <2>2
<1> QED  BY <1>4, <1>5, <1>6 DEF FeedInv

LEMMA ReadKeeps == FeedInv /\ Read => FeedInv'
<1> SUFFICES ASSUME FeedInv, Read PROVE FeedInv'
  OBVIOUS
<1>1. /\ Len(lag) \in Nat \ {0}
      /\ lag' \in Seq(SUBSET Player) /\ Len(lag') = Len(lag) - 1
      /\ \A i \in 1..Len(lag') : lag'[i] = lag[i + 1]
      /\ view' = lag[1]
  BY DEF Read, FeedInv, TypeOK
<1>2. TypeOK'
  BY <1>1 DEF Read, FeedInv, TypeOK
<1>3. Converged'
  <2>1. CASE Len(lag) = 1
    BY <1>1, <2>1 DEF Read, FeedInv, Converged
  <2>2. CASE Len(lag) # 1
    <3>1. Len(lag') \in 1..Len(lag') /\ lag' # <<>>
      BY <1>1, <2>2
    <3>2. lag'[Len(lag')] = lag[Len(lag)]
      BY <1>1, <3>1
    <3> QED  BY <3>1, <3>2 DEF Read, FeedInv, Converged
  <2> QED  BY <2>1, <2>2
<1>4. Stepwise'
  <2>1. lag' # <<>> => OneApart(view', lag'[1])
    <3> SUFFICES ASSUME lag' # <<>> PROVE OneApart(view', lag'[1])
      OBVIOUS
    <3>1. 2 \in 2..Len(lag) /\ 1 \in 1..Len(lag')
      BY <1>1
    <3>2. OneApart(lag[2 - 1], lag[2])
      BY <3>1 DEF FeedInv, Stepwise
    <3>3. lag'[1] = lag[2] /\ view' = lag[2 - 1]
      BY <3>1, <1>1
    <3> QED  BY <3>2, <3>3
  <2>2. \A i \in 2..Len(lag') : OneApart(lag'[i - 1], lag'[i])
    <3> TAKE i \in 2..Len(lag')
    <3>1. /\ i + 1 \in 2..Len(lag) /\ i - 1 \in 1..Len(lag')
          /\ i \in 1..Len(lag') /\ (i - 1) + 1 = (i + 1) - 1
      BY <1>1
    <3>2. OneApart(lag[(i + 1) - 1], lag[i + 1])
      BY <3>1 DEF FeedInv, Stepwise
    <3>3. lag'[i - 1] = lag[(i + 1) - 1] /\ lag'[i] = lag[i + 1]
      BY <3>1, <1>1
    <3> QED  BY <3>2, <3>3
  <2> QED  BY <2>1, <2>2 DEF Stepwise
<1> QED  BY <1>2, <1>3, <1>4 DEF FeedInv

LEMMA EndKeeps == FeedInv /\ End => FeedInv'
<1> SUFFICES ASSUME FeedInv, End PROVE FeedInv'
  OBVIOUS
<1>1. PICK n \in 0..Len(lag) : lag' = SubSeq(lag, 1, n)
  BY DEF End
<1>2. /\ lag' \in Seq(SUBSET Player) /\ Len(lag') = n
      /\ \A i \in 1..n : lag'[i] = lag[i] /\ i \in 1..Len(lag)
  BY <1>1 DEF FeedInv, TypeOK
<1>3. TypeOK' /\ Converged'
  BY <1>2 DEF End, FeedInv, TypeOK, Converged
<1>4. Stepwise'
  <2>1. lag' # <<>> => lag'[1] = lag[1] /\ lag # <<>>
    BY <1>2 DEF FeedInv, TypeOK
  <2>2. \A i \in 2..Len(lag') : OneApart(lag'[i - 1], lag'[i])
    <3> TAKE i \in 2..Len(lag')
    <3>1. i \in 2..Len(lag) /\ i - 1 \in 1..n /\ i \in 1..n
      BY <1>2
    <3> QED  BY <3>1, <1>2 DEF FeedInv, Stepwise
  <2> QED  BY <2>1, <2>2 DEF End, FeedInv, Stepwise
<1> QED  BY <1>3, <1>4 DEF FeedInv

LEMMA FeedStep == FeedInv /\ [Next]_vars => FeedInv'
<1> SUFFICES ASSUME FeedInv, [Next]_vars PROVE FeedInv'
  OBVIOUS
<1>1. CASE GiveUp
  <2>1. lag' \in Seq(SUBSET Player) /\ 2..Len(lag') = {}
    BY <1>1, EmptyLag DEF GiveUp
  <2> QED  BY <1>1, <2>1 DEF GiveUp, FeedInv, TypeOK, Converged, Stepwise
<1>2. CASE UNCHANGED vars
  BY <1>2 DEF vars, FeedInv, TypeOK, Converged, Stepwise
<1> QED
  BY <1>1, <1>2, AdmitKeeps, ChangeKeeps, ReadKeeps, EndKeeps DEF Next

(* Whoever implements the feed has a reader that converges: with nothing   *)
(* left on its way, its view is the coordinator's roster.                  *)
THEOREM FeedConverges == Spec => [](Converged /\ Stepwise)
<1>1. FeedInv => Converged /\ Stepwise
  BY DEF FeedInv
<1> QED  BY <1>1, FeedInit, FeedStep, PTL DEF Spec

(* And its view changes by one player at a time, or is emptied.            *)
THEOREM FeedOneByOne == Spec => OneByOne
<1>1. FeedInv /\ [Next]_vars
        => [view' # view => view' = {} \/ OneApart(view, view')]_vars
  <2> SUFFICES ASSUME FeedInv, [Next]_vars, view' # view
               PROVE  view' = {} \/ OneApart(view, view')
    OBVIOUS
  <2>1. CASE Read
    <3>1. view' = lag[1]
      BY <2>1 DEF Read, FeedInv, TypeOK
    <3> QED  BY <2>1, <3>1 DEF Read, FeedInv, Stepwise
  <2>2. CASE Admit \/ Change \/ End \/ GiveUp \/ UNCHANGED vars
    BY <2>2 DEF Admit, Change, End, GiveUp, vars
  <2> QED  BY <2>1, <2>2 DEF Next
<1> QED  BY <1>1, FeedInit, FeedStep, PTL DEF Spec, OneByOne
=============================================================================
