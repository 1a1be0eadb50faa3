------------------------------- MODULE Injector -------------------------------
(***************************************************************************)
(* ht2mp-injector32: a process that makes the game load the bridge.  It    *)
(* writes a path into the game's memory and starts a thread there that     *)
(* reads it (LoadLibraryW), then a BootstrapV1 block and a second thread   *)
(* (Ht2mpBootstrap).  It waits for each thread with a timeout and frees    *)
(* what it allocated when it returns; the threads keep running whatever    *)
(* becomes of it.                                                          *)
(***************************************************************************)
EXTENDS Options

CONSTANTS NoOptions

VARIABLES
    injector,   \* where the injector is
    remote      \* its allocations and threads inside the game

injectorVars == <<injector, remote>>

Memory == {"none", "live", "freed"}
Thread == {"none", "running", "copied", "done"}

NoRemote == [path |-> "none", load |-> "none", loaded |-> FALSE,
             block |-> "none", boot |-> "none", booted |-> FALSE]

InjectorTypeOK ==
    /\ injector \in {"none", "checking", "loading", "naming", "booting",
                     "ok", "refused", "failed", "killed"}
    /\ remote \in [path: Memory, load: Thread, loaded: BOOLEAN,
                   block: Memory, boot: Thread, booted: BOOLEAN]

InjectorInit == injector = "none" /\ remote = NoRemote

\* Leaving inject_and_bootstrap runs the destructors of both allocations,
\* except of the ones in keep, which were released.
Free(r, keep) ==
    [r EXCEPT !.path  = IF @ = "live" /\ "path" \notin keep THEN "freed" ELSE @,
              !.block = IF @ = "live" /\ "block" \notin keep THEN "freed" ELSE @]

Return(result, keep) == injector' = result /\ remote' = Free(remote, keep)

Injecting == injector \in {"checking", "loading", "naming", "booting"}

\* The request, the digests, the export and the identity of the process.
Check(o, up) ==
    /\ injector = "checking"
    /\ IF ~Bootable(o) THEN Return("refused", {})
       ELSE \/ Return("failed", {})
            \/ /\ up
               /\ injector' = "loading"
               /\ remote' = [remote EXCEPT !.path = "live", !.load = "running"]

\* The first remote thread reads the path and returns the module or zero.
RemoteLoads ==
    /\ remote.load = "running"
    /\ \E ok \in BOOLEAN :
          remote' = [remote EXCEPT !.load = "done", !.loaded = ok]
    /\ UNCHANGED injector

\* wait_thread for it: its result (zero when the game died under it), or
\* fifteen seconds without one.
LoadEnds ==
    /\ injector = "loading"
    /\ \/ /\ remote.load = "done"
          /\ IF remote.loaded THEN injector' = "naming" /\ UNCHANGED remote
             ELSE Return("failed", {})
       \/ remote.load = "none" /\ Return("failed", {})
       \/ remote.load = "running" /\ Return("failed", {"path"})

\* The module found again by name, then the block and the second thread.
Bootstrap(up) ==
    /\ injector = "naming"
    /\ \/ Return("failed", {})
       \/ /\ up
          /\ injector' = "booting"
          /\ remote' = [remote EXCEPT !.block = "live", !.boot = "running"]

\* The second remote thread copies the block before it looks at it, then goes
\* on from its own copy.
RemoteCopies ==
    /\ remote.boot = "running"
    /\ remote' = [remote EXCEPT !.boot = "copied"]
    /\ UNCHANGED injector

RemoteBoots ==
    /\ remote.boot = "copied"
    /\ \E ok \in BOOLEAN :
          remote' = [remote EXCEPT !.boot = "done", !.booted = ok]
    /\ UNCHANGED injector

\* The block freed on a timeout, as on every other failure.
BootEndsFreeing ==
    /\ injector = "booting"
    /\ Return(IF remote.boot = "done" /\ remote.booted THEN "ok" ELSE "failed", {})

BootEnds ==
    /\ injector = "booting"
    /\ \/ /\ remote.boot = "done"
          /\ Return(IF remote.booted THEN "ok" ELSE "failed", {})
       \/ remote.boot = "none" /\ Return("failed", {})
       \/ remote.boot \in {"running", "copied"} /\ Return("failed", {"block"})

InjectorStep(o, up) == Check(o, up) \/ LoadEnds \/ Bootstrap(up) \/ BootEnds

RemoteStep == RemoteLoads \/ RemoteCopies \/ RemoteBoots

\* Terminated by the sidecar after thirty seconds: no destructor runs.
InjectorKilled ==
    /\ Injecting
    /\ injector' = "killed"
    /\ UNCHANGED remote

-----------------------------------------------------------------------------
\* No thread in the game reads memory that the injector has freed, however the
\* waits and the threads race (injector.cpp:570-575 and 650-654).
RemoteMemoryLives ==
    /\ remote.load = "running" => remote.path = "live"
    /\ remote.boot = "running" => remote.block = "live"
=============================================================================
