---------------------------- MODULE TransferEngine ----------------------------
(***************************************************************************)
(* flexkv/transfer/transfer_engine.py: the scheduler thread of a transfer  *)
(* engine, the worker processes it feeds and the queue it reports to.      *)
(*                                                                         *)
(* The thread sleeps in select(); a tick collects new graphs and worker    *)
(* reports, runs the scheduler (TransferScheduler), dispatches the ops it  *)
(* released, reports the graphs it completed and, last, the failed graphs  *)
(* that have drained.  An op whose worker entry is keyed by worker (H2D,   *)
(* D2H) is copied to every pipeline-parallel sibling and is done when all  *)
(* of the replicas are; any other op goes to one worker.                   *)
(*                                                                         *)
(* A job is what travels to a worker: <<op, worker>> for a replica,        *)
(* <<op, single>> for an op that is not replicated.                        *)
(***************************************************************************)
EXTENDS TransferScheduler, FiniteSets

CONSTANTS
  siblings,     \* siblings[o]: workers that get a replica; {} if one worker
  single,       \* stands for the worker of an op that is not replicated
  CanFail,      \* jobs a worker may report as failed
  CanCrash      \* workers whose process may die

ASSUME EngineAssumption ==
  \A o \in Ops : single \notin siblings[o] /\ IsFiniteSet(siblings[o])

jobsOf(o) == {<<o, w>> : w \in IF siblings[o] = {} THEN {single}
                               ELSE siblings[o]}
Jobs == UNION {jobsOf(o) : o \in Ops}
isReplica(j) == j[2] # single

VARIABLES
  pc,                    \* "select", "collect", "schedule", "dispatch", "emit"
  events,                \* what select() returned and is not exhausted yet
  new_graphs_num,        \* graphs collected in this tick
  task_queue,            \* task_queue: sets of graphs, one per submission
  finished_ops_queue,    \* finished_ops_queue: [job, ok], as workers report
  dead,                  \* workers whose process has died
  working,               \* jobs given to a worker and not reported yet
  child_to_parent_op_id, \* replicas the engine still expects a report for
  op_id_to_op,           \* ops dispatched and not drained
  pending_count,         \* TransferOp.pending_count
  failed_parent_op_ids,
  failed_graph_ids,
  pin_buffer,            \* pin_buffer[j]: slot references job j holds
  completed_queue,       \* messages not yet fetched by the task layer
  received               \* messages the task layer has fetched, in order

engineVars == <<dead, working, child_to_parent_op_id, op_id_to_op, pending_count,
                failed_parent_op_ids, failed_graph_ids, pin_buffer>>
queueVars == <<task_queue, finished_ops_queue, completed_queue, received>>
tickVars == <<pc, events, new_graphs_num>>
vars == <<schedVars, engineVars, queueVars, tickVars>>

OpMsg(o) == [kind |-> "op", graph |-> graph_id[o], op |-> o]
CompletedMsg(g) == [kind |-> "completed", graph |-> g]
FailedMsg(g) == [kind |-> "failed", graph |-> g]

Init ==
  /\ SchedInit
  /\ pc = "select"
  /\ events = {}
  /\ new_graphs_num = 0
  /\ task_queue = <<>>
  /\ finished_ops_queue = <<>>
  /\ dead = {}
  /\ working = {}
  /\ child_to_parent_op_id = {}
  /\ op_id_to_op = {}
  /\ pending_count = [o \in Ops |-> 0]
  /\ failed_parent_op_ids = {}
  /\ failed_graph_ids = {}
  /\ pin_buffer = [j \in Jobs |-> 0]
  /\ completed_queue = <<>>
  /\ received = <<>>

Queued == UNION {task_queue[i] : i \in 1 .. Len(task_queue)}

(* Called by the task layer: each graph is submitted once, alone or in a
   batch. *)
submit_transfer_graph(gs) ==
  /\ gs # {}
  /\ gs \cap (submitted \cup Queued) = {}
  /\ task_queue' = Append(task_queue, gs)
  /\ UNCHANGED <<schedVars, engineVars, finished_ops_queue, completed_queue,
                 received, tickVars>>

get_completed_graphs_and_ops ==
  /\ completed_queue # <<>>
  /\ received' = received \o completed_queue
  /\ completed_queue' = <<>>
  /\ UNCHANGED <<schedVars, engineVars, task_queue, finished_ops_queue, tickVars>>

(* TransferWorkerBase.run: a worker always answers, launch_transfer raising
   or returning False is reported as a failure. *)
WorkerReport(j, ok) ==
  /\ j \in working
  /\ j[2] \notin dead
  /\ ok \/ j \in CanFail
  /\ working' = working \ {j}
  /\ finished_ops_queue' = Append(finished_ops_queue, [job |-> j, ok |-> ok])
  /\ UNCHANGED <<schedVars, dead, child_to_parent_op_id, op_id_to_op,
                 pending_count, failed_parent_op_ids, failed_graph_ids,
                 pin_buffer, task_queue, completed_queue, received, tickVars>>

(* A worker process dies: what it was given is never reported. *)
WorkerCrash(w) ==
  /\ w \in CanCrash \ dead
  /\ dead' = dead \cup {w}
  /\ UNCHANGED <<schedVars, working, child_to_parent_op_id, op_id_to_op,
                 pending_count, failed_parent_op_ids, failed_graph_ids,
                 pin_buffer, queueVars, tickVars>>
-----------------------------------------------------------------------------
(* The tick of _scheduler_loop.  select() sleeps until a queue is readable. *)
Readable == {e \in {"new_graph", "finished_op"} :
               \/ e = "new_graph" /\ task_queue # <<>>
               \/ e = "finished_op" /\ finished_ops_queue # <<>>}

Select ==
  /\ pc = "select"
  /\ Readable # {}
  /\ events' = Readable
  /\ new_graphs_num' = 0
  /\ pc' = "collect"
  /\ finished_ops' = {}
  /\ UNCHANGED <<submitted, transfer_graphs, dirty_graph_ids, graphVars,
                 resultVars, scheduling, engineVars, queueVars>>

CollectGraphs ==
  /\ pc = "collect"
  /\ "new_graph" \in events
  /\ task_queue # <<>>
  /\ \E g \in Head(task_queue) :
       /\ add_transfer_graph(g)
       /\ task_queue' = IF Head(task_queue) = {g} THEN Tail(task_queue)
                        ELSE [task_queue EXCEPT ![1] = @ \ {g}]
  /\ new_graphs_num' = new_graphs_num + 1
  /\ UNCHANGED <<graphVars, finished_ops, resultVars, scheduling, engineVars,
                 finished_ops_queue, completed_queue, received, pc, events>>

(* The report at hand is the last one of op o. *)
Drained(o) == pending_count[o] = 1

(* Seeded fault: replicas are not freed unless they drain the op. *)
FreeSlots_drainedOnly(j) ==
  pin_buffer' = [pin_buffer EXCEPT ![j] = @ - (IF Drained(j[1]) THEN 1 ELSE 0)]

(* free_op_from_buffer for the replica of a report and, when its op drains,
   for the op itself if it was registered here. *)
FreeSlots(j) ==
  pin_buffer' = [pin_buffer EXCEPT
    ![j] = @ - (IF isReplica(j) \/ Drained(j[1]) THEN 1 ELSE 0)]

(* The bookkeeping of a report of job j, successful or not. *)
Collected(j) ==
  /\ finished_ops_queue' = Tail(finished_ops_queue)
  /\ child_to_parent_op_id' = child_to_parent_op_id \ {j}
  /\ pending_count' = [pending_count EXCEPT ![j[1]] = @ - 1]
  /\ op_id_to_op' = IF Drained(j[1]) THEN op_id_to_op \ {j[1]}
                    ELSE op_id_to_op
  /\ FreeSlots(j)

(* A report of success; _finalize_or_discard when it drains its op. *)
CollectFinished ==
  /\ pc = "collect"
  /\ "finished_op" \in events
  /\ finished_ops_queue # <<>>
  /\ Head(finished_ops_queue).ok
  /\ LET j == Head(finished_ops_queue).job
         o == j[1]
         finalize == Drained(o) /\ o \notin failed_parent_op_ids
     IN
     /\ Collected(j)
     /\ finished_ops' = IF finalize THEN finished_ops \cup {o}
                        ELSE finished_ops
     /\ completed_queue' = IF finalize THEN Append(completed_queue, OpMsg(o))
                           ELSE completed_queue
     /\ failed_parent_op_ids' = IF Drained(o)
                                  THEN failed_parent_op_ids \ {o}
                                  ELSE failed_parent_op_ids
  /\ UNCHANGED <<submitted, transfer_graphs, dirty_graph_ids, graphVars,
                 resultVars, scheduling, dead, working, failed_graph_ids,
                 task_queue, received, tickVars>>

(* The graph of a failed op is remembered and leaves the scheduler. *)
FailGraphOf(o) ==
  /\ failed_graph_ids' = failed_graph_ids \cup {graph_id[o]}
  /\ fail_graph(graph_id[o])

(* _handle_failed_op with _discard_failed_op. *)
CollectFailed ==
  /\ pc = "collect"
  /\ "finished_op" \in events
  /\ finished_ops_queue # <<>>
  /\ ~Head(finished_ops_queue).ok
  /\ LET j == Head(finished_ops_queue).job
         o == j[1]
     IN
     /\ Collected(j)
     /\ failed_parent_op_ids' = IF Drained(o)
                                  THEN failed_parent_op_ids \ {o}
                                  ELSE failed_parent_op_ids \cup {o}
     /\ FailGraphOf(o)
  /\ UNCHANGED <<submitted, dirty_graph_ids, graphVars, finished_ops,
                 resultVars, scheduling, dead, working, task_queue,
                 completed_queue, received, tickVars>>

(* get_nowait found the queue of event e empty. *)
EventDone(e) ==
  /\ pc = "collect"
  /\ e \in events \ Readable
  /\ events' = events \ {e}
  /\ UNCHANGED <<schedVars, engineVars, queueVars, pc, new_graphs_num>>

(* Seeded fault: failures are only looked at after a dispatch. *)
AfterIdleCollect_noEmit == "select"

(* Where a tick with nothing to schedule goes on: a tick may consist of a
   failure report alone. *)
AfterIdleCollect == "emit"

EndCollect ==
  /\ pc = "collect"
  /\ events = {}
  /\ IF finished_ops # {} \/ new_graphs_num > 0
       THEN /\ pc' = "schedule"
            /\ schedule(finished_ops)
       ELSE /\ pc' = AfterIdleCollect
            /\ UNCHANGED <<finished_ops, resultVars, scheduling>>
  /\ UNCHANGED <<submitted, transfer_graphs, dirty_graph_ids, graphVars,
                 engineVars, queueVars, events, new_graphs_num>>

RunSchedule ==
  /\ pc = "schedule"
  /\ ScheduleStep
  /\ pc' = IF scheduling' THEN pc ELSE "dispatch"
  /\ UNCHANGED <<engineVars, queueVars, events, new_graphs_num>>

(* next_ops is a list: an op comes after those whose completion released it. *)
NextInLine(o) == o \in next_ops /\ deps[o] \cap next_ops = {}

DispatchVirtual(o) ==
  /\ pc = "dispatch"
  /\ NextInLine(o) /\ o \in VirtualOps
  /\ next_ops' = next_ops \ {o}
  /\ completed_queue' = Append(completed_queue, OpMsg(o))
  /\ UNCHANGED <<submitted, transfer_graphs, dirty_graph_ids, graphVars,
                 finished_ops, completed_graph_ids, scheduling, engineVars,
                 task_queue, finished_ops_queue, received, tickVars>>

(* Jobs `sent` of op o are registered, counted and submitted. *)
Submitted(o, sent) ==
  /\ op_id_to_op' = op_id_to_op \cup {o}
  /\ child_to_parent_op_id' =
       child_to_parent_op_id \cup {j \in sent : isReplica(j)}
  /\ pending_count' = [pending_count EXCEPT ![o] = @ + Cardinality(sent)]
  /\ pin_buffer' = [j \in Jobs |-> pin_buffer[j] + IF j \in sent THEN 1 ELSE 0]
  /\ working' = working \cup sent

(* register_op_to_buffer and _assign_op_to_worker. *)
assign_op_to_worker(o) ==
  /\ pc = "dispatch"
  /\ NextInLine(o) /\ o \notin VirtualOps
  /\ next_ops' = next_ops \ {o}
  /\ Submitted(o, jobsOf(o))
  /\ UNCHANGED <<submitted, transfer_graphs, dirty_graph_ids, graphVars,
                 finished_ops, completed_graph_ids, scheduling, dead,
                 failed_parent_op_ids, failed_graph_ids, queueVars, tickVars>>

(* The pipe to a dead worker is broken, or not yet seen to be (the send above
   then succeeds and the job is lost).  When it raises, `sent` has been
   registered and counted, the job of the dead worker included, and the
   handler of the loop drops the rest of next_ops and completed_graph_ids. *)
DispatchRaises(o, sent) ==
  /\ pc = "dispatch"
  /\ NextInLine(o) /\ o \notin VirtualOps
  /\ \E j \in sent : j[2] \in dead
  /\ Submitted(o, sent)
  /\ next_ops' = {}
  /\ completed_graph_ids' = {}
  /\ pc' = "select"
  /\ UNCHANGED <<submitted, transfer_graphs, dirty_graph_ids, graphVars,
                 finished_ops, scheduling, dead, failed_parent_op_ids,
                 failed_graph_ids, queueVars, events, new_graphs_num>>

ReportCompleted(g) ==
  /\ pc = "dispatch"
  /\ next_ops = {}
  /\ g \in completed_graph_ids
  /\ completed_graph_ids' = completed_graph_ids \ {g}
  /\ completed_queue' = Append(completed_queue, CompletedMsg(g))
  /\ UNCHANGED <<submitted, transfer_graphs, dirty_graph_ids, graphVars,
                 finished_ops, next_ops, scheduling, engineVars, task_queue,
                 finished_ops_queue, received, tickVars>>

EndDispatch ==
  /\ pc = "dispatch"
  /\ next_ops = {}
  /\ completed_graph_ids = {}
  /\ pc' = "emit"
  /\ UNCHANGED <<schedVars, engineVars, queueVars, events, new_graphs_num>>

(* Seeded fault: a failure is reported at once. *)
DrainedGraph_now(g) == TRUE

(* Nothing of g is dispatched and unaccounted for. *)
DrainedGraph(g) == \A o \in op_id_to_op : graph_id[o] # g

(* Seeded fault: the graph stays in _failed_graph_ids. *)
emit_drained_graph_failures_again(g) ==
  /\ pc = "emit"
  /\ g \in failed_graph_ids
  /\ DrainedGraph(g)
  /\ completed_queue' = Append(completed_queue, FailedMsg(g))
  /\ UNCHANGED <<schedVars, engineVars, task_queue, finished_ops_queue,
                 received, tickVars>>

(* _emit_drained_graph_failures: one step per graph of its loop. *)
emit_drained_graph_failures(g) ==
  /\ pc = "emit"
  /\ g \in failed_graph_ids
  /\ DrainedGraph(g)
  /\ completed_queue' = Append(completed_queue, FailedMsg(g))
  /\ failed_graph_ids' = failed_graph_ids \ {g}
  /\ UNCHANGED <<schedVars, dead, working, child_to_parent_op_id, op_id_to_op,
                 pending_count, failed_parent_op_ids, pin_buffer, task_queue,
                 finished_ops_queue, received, tickVars>>

EndTick ==
  /\ pc = "emit"
  /\ \A g \in failed_graph_ids : ~DrainedGraph(g)
  /\ pc' = "select"
  /\ UNCHANGED <<schedVars, engineVars, queueVars, events, new_graphs_num>>

Tick ==
  \/ Select
  \/ CollectGraphs
  \/ CollectFinished
  \/ CollectFailed
  \/ \E e \in events : EventDone(e)
  \/ EndCollect
  \/ RunSchedule
  \/ \E o \in Ops : DispatchVirtual(o) \/ assign_op_to_worker(o)
  \/ \E o \in Ops : \E sent \in SUBSET jobsOf(o) : DispatchRaises(o, sent)
  \/ \E g \in Graphs : ReportCompleted(g) \/ emit_drained_graph_failures(g)
  \/ EndDispatch
  \/ EndTick

Worker == \E j \in Jobs, ok \in BOOLEAN : WorkerReport(j, ok)

Next ==
  \/ \E gs \in SUBSET Graphs : submit_transfer_graph(gs)
  \/ get_completed_graphs_and_ops
  \/ Worker
  \/ \E w \in CanCrash : WorkerCrash(w)
  \/ Tick

(* The scheduler thread runs whenever it has something to do, and a worker
   answers every job it was sent. *)
Fairness == WF_vars(Tick) /\ WF_vars(Worker)
            /\ WF_vars(get_completed_graphs_and_ops)

Spec == Init /\ [][Next]_vars /\ Fairness
-----------------------------------------------------------------------------
(* Types; only dispatched ops can have failed, and a job holds its slots once. *)
TypeOK ==
  /\ SchedTypeOK
  /\ pc \in {"select", "collect", "schedule", "dispatch", "emit"}
  /\ events \subseteq {"new_graph", "finished_op"}
  /\ new_graphs_num \in Nat
  /\ working \subseteq Jobs
  /\ child_to_parent_op_id \subseteq Jobs
  /\ op_id_to_op \subseteq Ops \ VirtualOps
  /\ pending_count \in [Ops -> Nat]
  /\ failed_parent_op_ids \subseteq op_id_to_op
  /\ failed_graph_ids \subseteq submitted
  /\ pin_buffer \in [Jobs -> 0 .. 1]

Unread == {finished_ops_queue[i].job : i \in 1 .. Len(finished_ops_queue)}
Log == received \o completed_queue
Terminal(m) == m.kind \in {"completed", "failed"}

(* Slot references are taken and dropped once per job, by whichever of the two
   paths (single worker, fan-out) the op took: none leaks, none is freed
   twice, after success, failure and a partly failed fan-out. *)
SlotsBalanced ==
  \A j \in Jobs : pin_buffer[j] = IF j \in working \cup Unread THEN 1 ELSE 0

(* Once the terminal message of a graph is in the queue, no worker moves its
   data and no report of it is outstanding: the rollback of the task layer
   cannot race an op in flight. *)
TerminalMeansQuiet ==
  \A i \in 1 .. Len(Log) : Terminal(Log[i]) =>
    \A j \in working \cup Unread : graph_id[j[1]] # Log[i].graph

(* The engine implements the handle the task layer is written against. *)
Handle == INSTANCE TransferHandle WITH given <- submitted \cup Queued, log <- Log
HandleSpec == Handle!HandleSpec

(* Every submitted graph gets its terminal message, and the task layer sees
   it, unless a worker process dies. *)
EveryGraphEnds ==
  \A g \in Graphs :
    g \in Queued ~> \/ dead # {}
                    \/ \E i \in 1 .. Len(received) :
                         Terminal(received[i]) /\ received[i].graph = g
=============================================================================
