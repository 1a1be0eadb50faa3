------------------------------- MODULE Staging -------------------------------
(***************************************************************************)
(* The isolated copy of the game (apps/client/staging.cpp): a process      *)
(* copies a source installation into a private incoming tree, proves it,   *)
(* and swaps it for the runtime tree with two renames, keeping the old one *)
(* as a backup until the swap is done.  Any number of processes may stage  *)
(* the same instance (the launcher, `ht2mp-client stage` on a console),    *)
(* any file operation may fail, and any of them may be killed.             *)
(*                                                                         *)
(* A rename is atomic; a copy and a recursive removal are not.             *)
(***************************************************************************)
EXTENDS Naturals, FiniteSets

CONSTANTS
    Stager,      \* processes that stage the instance
    Source,      \* directories offered as the source installation
    Nested,      \* those that contain the runtime root or lie inside it
    SaveName,    \* names a save file of the runtime can have
    None

ASSUME StagingAssumption == Nested \subseteq Source

VARIABLES
    exact,       \* sources whose king.exe and modules have the known digests
    target,      \* the tree under the runtime's name, or None
    stager,      \* each process in stage_game: where it is, what it holds
    leftover     \* backup trees nobody will touch again: is one of them whole?

stagingVars == <<exact, target, stager, leftover>>

\* A save is a native driver profile; a torn one does not validate.
Content == {"none", "torn", "good"}

Tree == [files: {"some", "all"}, genuine: BOOLEAN, sealed: BOOLEAN,
         source: Source, save: [SaveName -> Content]]

Place == Tree \cup {None}

ASSUME NoneAssumption == None \notin Tree

Step == {"idle", "copying", "proving", "sealing", "sealed", "displacing",
         "committing", "removing", "discarding", "restoring",
         "staged", "failed"}

Idle == [at |-> "idle", incoming |-> None, backup |-> None]

\* excluded_file: saves are user data and are never copied.
NoSaves == [n \in SaveName |-> "none"]

\* The tree being made from source s.
Incoming(s, files, genuine) ==
    [files |-> files, genuine |-> genuine, sealed |-> FALSE, source |-> s,
     save |-> NoSaves]

\* verify_king and verify_protected_modules of a finished tree.
Genuine(tree) == tree.files = "all" /\ tree.genuine

\* read_manifest: .ht2mp-stage.json is there and parses.
Sealed(tree) == tree.sealed

\* path_is_within, both ways, between source and runtime.
Apart(s) == s \notin Nested

\* A runtime fit to be started: complete, sealed, and made from a source that
\* is still there, apart from it and unchanged.
Validated(tree) ==
    /\ tree # None
    /\ Sealed(tree)
    /\ tree.source \in exact /\ Apart(tree.source)
    /\ Genuine(tree)

StagingInit ==
    /\ exact \in SUBSET Source
    /\ target = None
    /\ stager = [p \in Stager |-> Idle]
    /\ leftover = {}

Goto(p, at) == stager' = [stager EXCEPT ![p].at = at]

\* A process goes on with these trees in its hands.
Put(p, at, incoming, backup) ==
    stager' = [stager EXCEPT ![p] =
                  [at |-> at, incoming |-> incoming, backup |-> backup]]

\* What stage_game checks before it writes anything.
StartStage(p, s) ==
    /\ stager[p].at = "idle"
    /\ IF s \in exact /\ Apart(s)
       THEN Put(p, "copying", Incoming(s, "some", FALSE), None)
       ELSE Put(p, "failed", None, None)
    /\ UNCHANGED <<exact, target, leftover>>

\* The copy loop; the source may have changed since it was checked.
Copy(p) ==
    /\ stager[p].at = "copying"
    /\ LET s == stager[p].incoming.source
       IN  Put(p, "proving", Incoming(s, "all", s \in exact), stager[p].backup)
    /\ UNCHANGED <<exact, target, leftover>>

\* The copy trusted because its source was checked.
ProveTrusting(p) ==
    /\ stager[p].at = "proving"
    /\ Goto(p, "sealing")
    /\ UNCHANGED <<exact, target, leftover>>

\* The copy is hashed again before it may replace anything.
Prove(p) ==
    /\ stager[p].at = "proving"
    /\ Goto(p, IF Genuine(stager[p].incoming) THEN "sealing" ELSE "discarding")
    /\ UNCHANGED <<exact, target, leftover>>

Seal(p) ==
    /\ stager[p].at = "sealing"
    /\ Put(p, "sealed", [stager[p].incoming EXCEPT !.sealed = TRUE],
           stager[p].backup)
    /\ UNCHANGED <<exact, target, leftover>>

\* fs::exists(target), acted upon by a later step.
Look(p) ==
    /\ stager[p].at = "sealed"
    /\ Goto(p, IF target = None THEN "committing" ELSE "displacing")
    /\ UNCHANGED <<exact, target, leftover>>

\* rename(target, backup): refused while a program runs from the tree, or when
\* another process has displaced it first.
Displace(p, inUse) ==
    /\ stager[p].at = "displacing"
    /\ IF target = None \/ inUse
       THEN Goto(p, "discarding") /\ UNCHANGED target
       ELSE Put(p, "committing", stager[p].incoming, target) /\ target' = None
    /\ UNCHANGED <<exact, leftover>>

\* rename(incoming, target): a directory never replaces another one.
Commit(p) ==
    /\ stager[p].at = "committing"
    /\ IF target = None
       THEN /\ target' = stager[p].incoming
            /\ Put(p, IF stager[p].backup = None THEN "staged" ELSE "removing",
                   None, stager[p].backup)
       ELSE Goto(p, "discarding") /\ UNCHANGED target
    /\ UNCHANGED <<exact, leftover>>

\* remove_runtime_tree of the old runtime; it may stop half way, and the new
\* runtime stays either way.
RemoveBackup(p) ==
    /\ stager[p].at = "removing"
    /\ \/ Put(p, "removing", None, [stager[p].backup EXCEPT !.files = "some"])
       \/ Put(p, "staged", None, None)
       \/ Goto(p, "failed")
    /\ UNCHANGED <<exact, target, leftover>>

\* Every file operation up to the commit may throw.
Throw(p) ==
    /\ stager[p].at \in {"copying", "proving", "sealing", "sealed", "displacing",
                         "committing"}
    /\ Goto(p, "discarding")
    /\ UNCHANGED <<exact, target, leftover>>

\* A recovery that cleans up every tree of the transaction.
DiscardBoth(p) ==
    /\ stager[p].at = "discarding"
    /\ Put(p, "failed", None, None)
    /\ UNCHANGED <<exact, target, leftover>>

\* recover_failed_transaction, first half: the incoming tree goes.
Discard(p) ==
    /\ stager[p].at = "discarding"
    /\ Put(p, IF stager[p].backup = None THEN "failed" ELSE "restoring",
           None, stager[p].backup)
    /\ UNCHANGED <<exact, target, leftover>>

\* Second half: the backup goes back unless the name is taken again or the
\* rename fails; then it stays where it is for the user.
Restore(p) ==
    /\ stager[p].at = "restoring"
    /\ \/ /\ target = None
          /\ target' = stager[p].backup
          /\ Put(p, "failed", None, None)
       \/ Goto(p, "failed") /\ UNCHANGED target
    /\ UNCHANGED <<exact, leftover>>

\* A tree that could be started without copying the game again.
Whole(tree) == tree # None /\ Genuine(tree) /\ Sealed(tree)

\* The process ends, or is killed wherever it is: its backup is nobody's.
Leave(p) ==
    /\ leftover' = IF stager[p].backup = None THEN leftover
                   ELSE leftover \cup {Whole(stager[p].backup)}
    /\ Put(p, "idle", None, None)

Finish(p) ==
    /\ stager[p].at \in {"staged", "failed"}
    /\ Leave(p)
    /\ UNCHANGED <<exact, target>>

Kill(p) ==
    /\ stager[p].at \notin {"idle", "staged", "failed"}
    /\ Leave(p)
    /\ UNCHANGED <<exact, target>>

\* An update of the source installation changes its king.exe.
SourceUpdated(s) ==
    /\ s \in exact
    /\ exact' = exact \ {s}
    /\ UNCHANGED <<target, stager, leftover>>

StageStep(p, inUse) ==
    \/ Copy(p) \/ Prove(p) \/ Seal(p) \/ Look(p)
    \/ Displace(p, inUse) \/ Commit(p) \/ RemoveBackup(p)
    \/ Throw(p) \/ Discard(p) \/ Restore(p)

ProcessStep(p) ==
    \/ \E s \in Source : StartStage(p, s)
    \/ \E inUse \in BOOLEAN : StageStep(p, inUse)
    \/ Finish(p) \/ Kill(p)

StagingNext ==
    \/ \E p \in Stager : ProcessStep(p)
    \/ \E s \in Source : SourceUpdated(s)

StagingSpec == StagingInit /\ [][StagingNext]_stagingVars

-----------------------------------------------------------------------------
\* Whatever fails and whoever is killed, what stands under the runtime's name
\* is a complete, proved and sealed copy (staging.cpp:981-1029: prove, seal,
\* then rename).
TargetWhole == target # None => Whole(target)

WholeSomewhere ==
    \/ Whole(target)
    \/ \E p \in Stager : Whole(stager[p].backup)
    \/ TRUE \in leftover

\* Once there is a whole runtime, one is never lost again: it stands under its
\* name or in a backup directory at every moment (staging.cpp:388-436 and
\* 1024-1044), even when two processes stage at once.
LastGoodSurvives == [][WholeSomewhere => WholeSomewhere']_stagingVars
=============================================================================
