---------------------------- MODULE FrameworkLoop ----------------------------
(***************************************************************************)
(* The serving framework a scheduler-side connector lives in: the requests *)
(* it schedules, the phases of its step, and the part of the KVManager API *)
(* the connectors call.  The framework is not part of the repository; its  *)
(* actions follow the calls the adapters document.  The connector itself   *)
(* is the record `conn`, with the adapters' own field names.               *)
(*                                                                         *)
(* A request that waits is matched and given blocks in phase "schedule";   *)
(* the connector submits at the end of that phase; answers come in phase   *)
(* "run"; requests end in phases "run" and "finish".                       *)
(***************************************************************************)
EXTENDS Naturals, FiniteSets, FiniteSetsExt

CONSTANTS Requests,   \* request ids of the framework
          MaxTask,    \* bound on the task ids the manager hands out
          Adapters    \* which adapters a behaviour may run: "vllm", "vllm_sync", "trtllm"

ASSUME LoopAssumption == IsFiniteSet(Requests) /\ MaxTask \in Nat

VARIABLES phase,      \* of the framework's step
          fw,         \* what the framework does with each request
          held,       \* finished requests whose blocks it keeps for the connector
          kv,         \* "garbage" where a failed load left the blocks of a request
          matching,   \* requests matched and waiting for blocks in this step
          visited,    \* requests the schedule phase has looked at
          step,       \* [preempted, finished, previous] request ids of this step
          conn,       \* the connector's dictionaries
          mgr,        \* [st, req, kind, next]: the manager's tasks
          adapter,    \* which adapter runs
          dropped     \* requests whose records a reset cleared

loopVars == << phase, fw, held, kv, matching, visited, step, conn, mgr, adapter, dropped >>

\* Ids of tasks, and above MaxTask the ids of batches (the manager draws both
\* from one counter; two ranges keep the bound on tasks independent of batching).
Ids == 1 .. 2 * MaxTask
NoTask == 0
BatchId(ts) == MaxTask + Min(ts)

NoConnState ==
  [req_id_to_task_dict |-> [r \in Requests |-> NoTask],
   get_tasks |-> [t \in Ids |-> {}], put_tasks |-> [t \in Ids |-> {}],
   tasks_to_launch |-> {}, tasks_to_cancel |-> {}, failed_block_ids |-> {}]

LoopInit ==
  /\ adapter \in Adapters
  /\ phase = "schedule" /\ fw = [r \in Requests |-> "waiting"]
  /\ held = {} /\ kv = [r \in Requests |-> "none"]
  /\ matching = {} /\ visited = {} /\ dropped = {}
  /\ step = [preempted |-> {}, finished |-> {}, previous |-> {}]
  /\ conn = NoConnState
  /\ mgr = [st |-> [t \in Ids |-> "none"], req |-> [t \in Ids |-> {}],
            kind |-> [t \in Ids |-> "none"], next |-> 1]

Running == { r \in Requests : fw[r] = "running" }

\* GPU blocks belong to a request from allocation until the framework frees them.
OwnsBlocks(r) == fw[r] \in {"loading", "running"} \/ r \in held

-----------------------------------------------------------------------------
(* The manager, as the adapters use it. *)

\* get_match and put_match: a new task, open until it is launched or cancelled;
\* a plan without transfers is complete at once.
MatchTask(m, r, kind, hit) ==
  [st |-> [m.st EXCEPT ![m.next] = IF hit THEN "matched" ELSE "success"],
   req |-> [m.req EXCEPT ![m.next] = {r}],
   kind |-> [m.kind EXCEPT ![m.next] = kind],
   next |-> m.next + 1]

CanMatch == mgr.next <= MaxTask

\* cancel: the tasks leave the table.
CancelIds(m, ts) ==
  [m EXCEPT !.st = [t \in Ids |-> IF t \in ts THEN "closed" ELSE @[t]],
            !.req = [t \in Ids |-> IF t \in ts THEN {} ELSE @[t]],
            !.kind = [t \in Ids |-> IF t \in ts THEN "none" ELSE @[t]]]

\* launch, each task under its own id.
LaunchEach(m, ts) == [m EXCEPT !.st = [t \in Ids |-> IF t \in ts THEN "running" ELSE @[t]]]

\* launch as a batch: the members continue under one new id.
LaunchBatch(m, ts) ==
  [CancelIds(m, ts) EXCEPT !.st[BatchId(ts)] = "running",
                           !.req[BatchId(ts)] = UNION { m.req[t] : t \in ts }]

\* try_wait answers what has ended and closes it.
Ended(m, ts) == { t \in ts : m.st[t] \in {"success", "failed"} }

\* A launched transfer ends, well or not, in the manager's own time.
TransferEnds(t) ==
  /\ mgr.st[t] = "running"
  /\ \E s \in {"success", "failed"} : mgr' = [mgr EXCEPT !.st[t] = s]
  /\ UNCHANGED << phase, fw, held, kv, matching, visited, step, conn, adapter, dropped >>

-----------------------------------------------------------------------------
(* The framework. *)

\* It preempts running requests before it looks at waiting ones; then no
\* waiting request is scheduled in that step.
Preempt(r) ==
  /\ phase = "schedule" /\ visited = {} /\ matching = {}
  /\ fw[r] = "running"
  /\ fw' = [fw EXCEPT ![r] = "waiting"]
  /\ kv' = [kv EXCEPT ![r] = "none"]
  /\ step' = [step EXCEPT !.preempted = @ \union {r}]
  /\ UNCHANGED << phase, held, matching, visited, conn, mgr, adapter, dropped >>

\* There is no room for a matched request: it stays in the queue.
AllocFails(r) ==
  /\ r \in matching
  /\ matching' = matching \ {r}
  /\ UNCHANGED << phase, fw, held, kv, visited, step, conn, mgr, adapter, dropped >>

CanSchedule(r) ==
  /\ phase = "schedule" /\ matching = {} /\ step.preempted = {}
  /\ fw[r] = "waiting" /\ r \notin visited

NextStep ==
  /\ phase = "finish"
  /\ phase' = "schedule"
  /\ UNCHANGED << fw, step, visited, held, kv, matching, conn, mgr, adapter, dropped >>

\* What the framework does with the reports of a connector: a loaded request
\* runs, a finished one gives its blocks back.
Apply(recving, sending, failedReqs) ==
  /\ fw' = [r \in Requests |-> IF r \in recving /\ fw[r] = "loading" THEN "running" ELSE fw[r]]
  /\ held' = held \ (recving \union sending)
  /\ kv' = [r \in Requests |-> IF r \in failedReqs /\ fw[r] = "loading" THEN "garbage" ELSE kv[r]]

\* A request ends.  If the connector says its blocks are in use they are held.
Gone(r, keep) ==
  /\ fw' = [fw EXCEPT ![r] = "gone"]
  /\ held' = IF keep THEN held \union {r} ELSE held
  /\ kv' = [kv EXCEPT ![r] = "none"]
  /\ step' = [step EXCEPT !.finished = @ \union {r}]
=============================================================================
