------------------------------ MODULE ProcessTree ------------------------------
(***************************************************************************)
(* The processes of the default deployment: the inference engine (parent)  *)
(* spawns the TransferManager, the manager spawns one process per transfer *)
(* worker, and every worker pins host memory that it must unpin before it  *)
(* ends.  Start-up waits for the GPU registrations, then for each worker;  *)
(* shutdown goes from a message to SIGTERM to SIGKILL at both levels.      *)
(*                                                                         *)
(* The manager handles SIGCHLD by waiting for ANY child, so multiprocessing *)
(* may never learn that a child of it ended.  The manager was spawned with *)
(* a bound method of the parent's handle, so it holds a copy of the        *)
(* parent's end of the command pipe.                                       *)
(***************************************************************************)
EXTENDS Naturals, Sequences, FiniteSets

CONSTANTS TreeWorkers,  \* the worker processes in the order of creation, a sequence
          ExpectedGpus  \* registrations the manager waits for

ASSUME TreeAssumption == Len(TreeWorkers) \in Nat \ {0} /\ ExpectedGpus \in Nat \ {0}

VARIABLES parent,      \* "up", "joining", "terminated", "killed", "closed", "gone"
          manager,     \* phase of the manager process
          at,          \* index of the worker being created or waited for
          registered,  \* GPU registrations received
          commands,    \* "shutdown" sent down the command pipe and not read
          worker,      \* phase of each worker process
          pinned,      \* workers whose host memory is pinned
          ready_event, \* workers whose ready_event is set
          sentinel,    \* workers that were sent None
          reaped,      \* ended workers whose exit status the handler took
          known,       \* ended workers whose exit status multiprocessing has
          handle       \* phase of WorkerHandle.shutdown for each worker

treeVars == << parent, manager, at, registered, commands, worker, pinned, ready_event,
               sentinel, reaped, known, handle >>

Procs == { TreeWorkers[i] : i \in 1 .. Len(TreeWorkers) }

TreeInit ==
  /\ parent = "up" /\ manager = "registering" /\ at = 1 /\ registered = 0 /\ commands = FALSE
  /\ worker = [w \in Procs |-> "none"]
  /\ pinned = {} /\ ready_event = {} /\ sentinel = {} /\ reaped = {} /\ known = {}
  /\ handle = [w \in Procs |-> "idle"]

Ended(w) == worker[w] \in {"ended", "died"}
Alive(w) == worker[w] \in {"init", "run", "hung", "closing"}
ManagerEnded == manager \in {"ended", "died"}

\* Process.is_alive: polls with waitpid, and takes a child that somebody else
\* waited for as alive.
IsAlive(w) == Alive(w) \/ w \in reaped

-----------------------------------------------------------------------------
(* The parent: TransferManagerInterProcessHandle *)

parentOnly == << at, registered, worker, pinned, ready_event, sentinel, reaped, known, handle >>

shutdown ==
  /\ parent = "up"
  /\ parent' = IF ManagerEnded THEN "closed" ELSE "joining"
  /\ commands' = ~ ManagerEnded
  /\ UNCHANGED << manager, parentOnly >>

ParentJoins ==
  /\ parent \in {"joining", "terminated", "killed"} /\ ManagerEnded
  /\ parent' = "closed"
  /\ UNCHANGED << manager, commands, parentOnly >>

\* SIGTERM raises SystemExit in the manager.  While its engine runs, the finally
\* block shuts the engine down; before that, or during the shutdown, the exit
\* handler of multiprocessing terminates the daemonic workers.
AfterSigterm == CASE manager = "running" -> "stopping"
                  [] manager \in {"registering", "spawning", "waiting", "rollback", "stopping"} -> "exiting"
                  [] OTHER -> manager

\* A manager that goes on to stop its workers sends each of them None.
Sentinels(next) == IF next = "stopping" /\ manager # "stopping" THEN Procs ELSE sentinel
Handles(next) ==
  IF next \in {"stopping", "rollback"} /\ manager # next
  THEN [w \in Procs |-> IF worker[w] = "none" THEN "closed" ELSE "joining"] ELSE handle

ParentTerminates ==
  /\ parent = "joining" /\ ~ ManagerEnded
  /\ parent' = "terminated" /\ manager' = AfterSigterm
  /\ sentinel' = Sentinels(AfterSigterm) /\ handle' = Handles(AfterSigterm)
  /\ UNCHANGED << at, registered, commands, worker, pinned, ready_event, reaped, known >>

ParentKills ==
  /\ parent = "terminated" /\ ~ ManagerEnded
  /\ parent' = "killed" /\ manager' = "died"
  /\ UNCHANGED << commands, parentOnly >>

\* The inference engine crashes or is killed.
ParentDies ==
  /\ parent \in {"up", "joining"}
  /\ parent' = "gone"
  /\ UNCHANGED << manager, commands, parentOnly >>

\* The processes that hold the parent's end of the command pipe open.  The
\* manager does: its entry point is bound to the handle that owns both ends.
ParentEndHolders ==
  (IF parent \in {"closed", "gone"} THEN {} ELSE {"parent"})
    \union (IF ManagerEnded THEN {} ELSE {"manager"})

-----------------------------------------------------------------------------
(* The manager: _process_worker and TransferEngine *)

managerOnly == << parent, commands, pinned, ready_event, reaped, known >>

\* _register_gpu_blocks_via_socket, then the engine is built.
RegisterGpu ==
  /\ manager = "registering" /\ parent \notin {"gone", "closed"}
  /\ registered' = registered + 1
  /\ manager' = IF registered + 1 = ExpectedGpus THEN "spawning" ELSE manager
  /\ UNCHANGED << at, worker, sentinel, handle, managerOnly >>

\* _init_workers: create_worker.  The last one is followed by the wait.
SpawnWorker ==
  /\ manager = "spawning"
  /\ worker' = [worker EXCEPT ![TreeWorkers[at]] = "init"]
  /\ at' = IF at = Len(TreeWorkers) THEN 1 ELSE at + 1
  /\ manager' = IF at = Len(TreeWorkers) THEN "waiting" ELSE manager
  /\ UNCHANGED << registered, sentinel, handle, managerOnly >>

\* Seeded fault: what was created before a failure is left alone.
RollBackNothing ==
  /\ manager' = "rollback"
  /\ sentinel' = sentinel /\ handle' = [w \in Procs |-> "closed"]

\* start: a failure of _init_workers stops the workers that were created.
RollBack ==
  /\ manager' = "rollback"
  /\ sentinel' = { w \in Procs : worker[w] # "none" } /\ handle' = Handles("rollback")

SpawnFails ==
  /\ manager = "spawning" /\ RollBack
  /\ UNCHANGED << at, registered, worker, managerOnly >>

\* _wait_worker_ready, one worker after the other; then the engine runs.
WorkerIsReady ==
  /\ manager = "waiting" /\ TreeWorkers[at] \in ready_event
  /\ at' = IF at = Len(TreeWorkers) THEN at ELSE at + 1
  /\ manager' = IF at = Len(TreeWorkers) THEN "running" ELSE manager
  /\ UNCHANGED << registered, worker, sentinel, handle, managerOnly >>

\* The poll every five seconds; is_alive takes the exit status.
DeathNoticed ==
  /\ manager = "waiting" /\ TreeWorkers[at] \notin ready_event
  /\ ~ IsAlive(TreeWorkers[at])
  /\ known' = known \union {TreeWorkers[at]} /\ RollBack
  /\ UNCHANGED << at, registered, worker, parent, commands, pinned, ready_event, reaped >>

\* The SIGCHLD handler waits for every child that ended.
_reap_children ==
  /\ ~ ManagerEnded
  /\ LET new == { w \in Procs : Ended(w) } \ (known \union reaped)
     IN new # {} /\ reaped' = reaped \union new
  /\ UNCHANGED << parent, manager, at, registered, commands, worker, pinned, ready_event,
                  sentinel, known, handle >>

\* The event loop leaves on the shutdown command, or on the end of the pipe.
Readable == commands \/ ParentEndHolders = {}

LeaveLoop ==
  /\ manager = "running" /\ Readable
  /\ manager' = "stopping" /\ commands' = FALSE
  /\ sentinel' = Sentinels("stopping") /\ handle' = Handles("stopping")
  /\ UNCHANGED << parent, at, registered, worker, pinned, ready_event, reaped, known >>

\* WorkerHandle.shutdown.  A worker that ended and was reaped counts as alive:
\* its pid, by now perhaps that of another process, is sent SIGTERM and SIGKILL.
HandleJoins(w) ==
  /\ manager \in {"stopping", "rollback"} /\ handle[w] \in {"joining", "terminated"} /\ Ended(w)
  /\ handle' = [handle EXCEPT ![w] = IF w \in reaped THEN "stray" ELSE "closed"]
  /\ known' = IF w \in reaped THEN known ELSE known \union {w}
  /\ UNCHANGED << manager, at, registered, worker, sentinel, parent, commands, pinned, ready_event, reaped >>

HandleTerminates(w) ==
  /\ manager \in {"stopping", "rollback"} /\ handle[w] = "joining" /\ Alive(w)
  /\ handle' = [handle EXCEPT ![w] = "terminated"]
  /\ worker' = [worker EXCEPT ![w] = IF @ \in {"init", "run"} THEN "closing" ELSE @]
  /\ UNCHANGED << manager, at, registered, sentinel, managerOnly >>

HandleKills(w) ==
  /\ manager \in {"stopping", "rollback"} /\ handle[w] = "terminated" /\ Alive(w)
  /\ worker' = [worker EXCEPT ![w] = "died"]
  /\ UNCHANGED << manager, at, registered, sentinel, handle, managerOnly >>

\* The exit handler of multiprocessing: terminates the daemonic children and
\* joins them, without a timeout.
ExitHandler ==
  /\ manager = "exiting"
  /\ worker' = [w \in Procs |-> IF worker[w] \in {"init", "run"} THEN "closing" ELSE worker[w]]
  /\ manager' = "exit_join"
  /\ UNCHANGED << at, registered, sentinel, handle, managerOnly >>

ManagerEnds ==
  /\ \/ manager \in {"stopping", "rollback"} /\ \A w \in Procs : handle[w] \in {"closed", "stray"}
     \/ manager = "exit_join" /\ \A w \in Procs : ~ Alive(w)
  /\ manager' = "ended"
  /\ UNCHANGED << at, registered, worker, sentinel, handle, managerOnly >>

-----------------------------------------------------------------------------
(* A worker: _worker_process *)

workerOnly == << parent, manager, at, registered, commands, sentinel, reaped, known, handle >>

\* __init__ pins the op buffer and the host pool.
WorkerPins(w) ==
  /\ worker[w] = "init" /\ w \notin pinned
  /\ pinned' = pinned \union {w}
  /\ UNCHANGED << worker, ready_event, workerOnly >>

WorkerStarts(w) ==
  /\ worker[w] = "init" /\ w \in pinned
  /\ worker' = [worker EXCEPT ![w] = "run"] /\ ready_event' = ready_event \union {w}
  /\ UNCHANGED << pinned, workerOnly >>

\* __init__ raises, before or after it pinned.
WorkerInitFails(w) ==
  /\ worker[w] = "init"
  /\ worker' = [worker EXCEPT ![w] = "closing"]
  /\ UNCHANGED << pinned, ready_event, workerOnly >>

\* Seeded fault: a worker ends on None only.
SentinelOnly(w) ==
  /\ worker[w] = "run" /\ w \in sentinel
  /\ worker' = [worker EXCEPT ![w] = "closing"]
  /\ UNCHANGED << pinned, ready_event, workerOnly >>

\* run returns: on None, or on the end of the pipe when the manager is gone.
WorkerLeaves(w) ==
  /\ worker[w] = "run" /\ (w \in sentinel \/ ManagerEnded)
  /\ worker' = [worker EXCEPT ![w] = "closing"]
  /\ UNCHANGED << pinned, ready_event, workerOnly >>

\* The finally block: the worker's shutdown unpins, then the process ends.
WorkerCloses(w) ==
  /\ worker[w] = "closing"
  /\ worker' = [worker EXCEPT ![w] = "ended"] /\ pinned' = pinned \ {w}
  /\ UNCHANGED << ready_event, workerOnly >>

\* A call into the driver that does not return; a crash in native code.
WorkerHangs(w) ==
  /\ worker[w] = "run" /\ worker' = [worker EXCEPT ![w] = "hung"]
  /\ UNCHANGED << pinned, ready_event, workerOnly >>

WorkerDies(w) ==
  /\ worker[w] = "init" /\ worker' = [worker EXCEPT ![w] = "died"]
  /\ UNCHANGED << pinned, ready_event, workerOnly >>

-----------------------------------------------------------------------------
ParentStep == shutdown \/ ParentJoins \/ ParentTerminates \/ ParentKills \/ ParentDies
ManagerStep ==
  \/ SpawnWorker \/ WorkerIsReady \/ DeathNoticed
  \/ LeaveLoop \/ ExitHandler \/ ManagerEnds
  \/ \E w \in Procs : HandleJoins(w) \/ HandleTerminates(w) \/ HandleKills(w)
ProcStep(w) ==
  WorkerPins(w) \/ WorkerStarts(w) \/ WorkerInitFails(w) \/ WorkerLeaves(w) \/ WorkerCloses(w)

TreeNext ==
  \/ ParentStep \/ RegisterGpu \/ SpawnFails \/ ManagerStep \/ _reap_children
  \/ \E w \in Procs : ProcStep(w) \/ WorkerHangs(w) \/ WorkerDies(w)

\* The parent's waits are bounded by timeouts, the manager and the workers run;
\* nothing makes a rank register, a parent shut down, a spawn fail, a process
\* die or a driver call hang.
TreeFairness ==
  /\ WF_treeVars(ParentJoins \/ ParentTerminates \/ ParentKills)
  /\ WF_treeVars(ManagerStep) /\ WF_treeVars(_reap_children)
  /\ \A w \in Procs : WF_treeVars(ProcStep(w))

TreeSpec == TreeInit /\ [][TreeNext]_treeVars /\ TreeFairness

-----------------------------------------------------------------------------
\* No worker outlives a manager that ended by itself, whether its start failed,
\* was interrupted by SIGTERM or was undone, and whether the workers ended,
\* failed or had to be killed.
ManagerIsLast == manager = "ended" => \A w \in Procs : ~ Alive(w)

\* A shutdown the parent has started comes to its end, even with workers that
\* hang or died unnoticed, and from then on only a hung worker of a manager that
\* had to be killed can keep its memory pinned by a live process.
ShutdownEnds ==
  (parent = "joining") ~> (parent = "gone" \/
     (parent = "closed" /\ \A w \in Procs : Alive(w) => worker[w] = "hung"))

\* "Wait for ready_event, but fail fast if the process already died."
DeadWorkerNoticed ==
  \A w \in Procs : (manager = "waiting" /\ Ended(w) /\ w \notin ready_event) ~> (manager # "waiting")

\* "Parent (scheduler) died without sending shutdown.  Break out": a running
\* manager notices that its parent is gone.
OrphanEnds == (parent = "gone" /\ manager = "running") ~> (manager # "running")
=============================================================================
