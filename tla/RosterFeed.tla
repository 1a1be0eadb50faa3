------------------------------ MODULE RosterFeed ------------------------------
(***************************************************************************)
(* What a sidecar is promised about the players around it, without hellos, *)
(* packets, transports or threads: the coordinator's roster reaches its    *)
(* reader late, but one change at a time, in order and without a gap.      *)
(*                                                                         *)
(* `lag` holds the rosters the reader has yet to see, the oldest first;    *)
(* the last of them is the coordinator's own while the feed is open.  A    *)
(* feed that ends may lose the end of what was on its way.                 *)
(***************************************************************************)
EXTENDS Naturals, Sequences

CONSTANT Player

VARIABLES
  open,    \* the coordinator has admitted the reader
  roster,  \* the other players, {} while the feed is closed
  view,    \* the roster as the reader knows it
  lag      \* the rosters on their way to it

vars == <<open, roster, view, lag>>

Init == open = FALSE /\ roster = {} /\ view = {} /\ lag = <<>>

Joined(before, after) ==
  \E p \in after \ before : p \in Player /\ after = before \cup {p}

OneApart(before, after) == Joined(before, after) \/ Joined(after, before)

(* The reader starts from nothing and is told of the others one by one.    *)
Admit ==
  /\ ~open /\ lag = <<>>
  /\ open' = TRUE
  /\ lag' \in Seq(SUBSET Player)
  /\ lag' # <<>> /\ lag'[1] = {} /\ lag'[Len(lag')] = roster'
  /\ \A i \in 2..Len(lag') : Joined(lag'[i - 1], lag'[i])
  /\ UNCHANGED view

Change ==
  /\ open
  /\ OneApart(roster, roster')
  /\ lag' = Append(lag, roster')
  /\ UNCHANGED <<open, view>>

Read ==
  /\ lag # <<>>
  /\ view' = Head(lag) /\ lag' = Tail(lag)
  /\ UNCHANGED <<open, roster>>

End ==
  /\ open' = FALSE /\ roster' = {}
  /\ \E n \in 0..Len(lag) : lag' = SubSeq(lag, 1, n)
  /\ UNCHANGED view

GiveUp == open' = FALSE /\ roster' = {} /\ view' = {} /\ lag' = <<>>

Next == Admit \/ Change \/ Read \/ End \/ GiveUp

Spec == Init /\ [][Next]_vars

-----------------------------------------------------------------------------
TypeOK ==
  /\ open \in BOOLEAN
  /\ roster \in SUBSET Player /\ view \in SUBSET Player
  /\ lag \in Seq(SUBSET Player)

(* A reader that has seen everything sees the coordinator's roster.        *)
Converged ==
  open => (IF lag = <<>> THEN view ELSE lag[Len(lag)]) = roster

(* What the reader will see next differs in one player from what it sees,  *)
(* or is the empty roster of a welcome; so do any two rosters in a row.    *)
Stepwise ==
  /\ lag # <<>> => lag[1] = {} \/ OneApart(view, lag[1])
  /\ \A i \in 2..Len(lag) : OneApart(lag[i - 1], lag[i])

(* What the reader sees changes by one player, or is emptied.              *)
OneByOne == [][view' # view => view' = {} \/ OneApart(view, view')]_vars
=============================================================================
