-------------------------------- MODULE KVTask --------------------------------
(***************************************************************************)
(* flexkv/kvtask.py: the task table, from match to release.  A task owns a *)
(* plan of the cache engine (locked nodes, unready nodes, staging blocks)  *)
(* until the plan is completed, aborted, or dropped by a cache reset.  Its *)
(* graph goes to every transfer handle; messages of the N handles are      *)
(* aggregated, and only the N-th copy of a message moves the task.         *)
(*                                                                         *)
(* All calls of the table run on one thread, so each is atomic; the        *)
(* handles run on their own.  A handle does what TransferHandle promises:  *)
(* it reports the ops of a graph in order, then one terminal message.  A   *)
(* handle to another node forwards only the op messages somebody needs     *)
(* early: a load with block results, and the end of the data path if the   *)
(* submission named it.                                                    *)
(*                                                                         *)
(* A graph has the id of its task and the two ops FirstOp and LastOp: for  *)
(* a put the data path ends with the first (D2H; H2DISK follows), for a    *)
(* get or a prefetch with the last (a remote load, then H2D).  A completed *)
(* op carries the length of the prefix of its blocks that arrived.         *)
(***************************************************************************)
EXTENDS Integers, Sequences, FiniteSets

CONSTANTS
  Tasks,           \* ids of single tasks
  Batches,         \* ids for batch tasks
  AllHandles,      \* transfer handles
  RemoteHandles,   \* the handles to other nodes
  Scopes           \* the deployments and callers to consider

ASSUME KVTaskAssumption ==
  /\ Tasks \cap Batches = {} /\ IsFiniteSet(AllHandles)
  /\ Scopes \subseteq
       [tasks : SUBSET Tasks, batches : SUBSET Batches,
        handles : (SUBSET AllHandles) \ {{}},  \* each gets every graph
        planned : Nat \ {0},            \* blocks a remote load is to bring in
        callbackRaises : BOOLEAN,       \* a callback may raise
        cancelRunning : BOOLEAN,        \* callers cancel tasks that are in flight
        reset : BOOLEAN,                \* callers reset the cache
        batchTerminal : BOOLEAN]        \* callers batch tasks that already completed

VARIABLE scope

Handles == scope.handles
Planned == scope.planned

TaskTypes == {"GET", "PUT", "PREFETCH"}
Ids == Tasks \cup Batches
FirstOp == 1
LastOp == 2
GraphOps == {FirstOp, LastOp}
Graph == 0  \* op_id -1: a message about the whole graph

required_completed_count == Cardinality(Handles)

VARIABLES
  status,              \* KVTask.status, "none" for an id not in the table
  created,             \* ids used so far
  task_type,           \* KVTask.task_type; a batch has the type of its tasks
  task_end_op_finished,
  transfer_failed,
  request_returned,
  callback,            \* the plans whose handles the task carries
  op_callback_dict,    \* TRUE unless reset_cache emptied it
  graph,               \* TRUE until shed_heavy_resources
  graph_to_task,       \* graph ids that still resolve to their task
  uncompleted_ops,     \* per (graph, op): copies received, and the merged
                       \* prefix length so far
  uncompleted_graphs,  \* per graph: terminal copies received, any failed
  plan,                \* per single task: what became of its plan
  opDone,              \* per plan: ops whose callbacks ran
  response,            \* last answer of wait/try_wait
  hstate,              \* per handle and graph: "new", "open" or terminal
  hdone,               \* per handle and graph: ops finished
  early_graphs,        \* graphs submitted together with their task_end_op_id
  queue                \* per handle: messages not fetched yet

taskVars == <<status, created, task_type, task_end_op_finished,
              transfer_failed, request_returned, callback, op_callback_dict,
              graph, graph_to_task>>
countVars == <<uncompleted_ops, uncompleted_graphs>>
planVars == <<plan, opDone>>
handleVars == <<hstate, hdone, early_graphs, queue>>
vars == <<taskVars, countVars, planVars, response, handleVars>>

Init ==
  /\ scope \in Scopes
  /\ status = [t \in Ids |-> "none"]
  /\ created = {}
  /\ task_type = [t \in Ids |-> "GET"]
  /\ task_end_op_finished = [t \in Ids |-> FALSE]
  /\ transfer_failed = [t \in Ids |-> FALSE]
  /\ request_returned = [t \in Ids |-> FALSE]
  /\ callback = [t \in Ids |-> {}]
  /\ op_callback_dict = [t \in Ids |-> FALSE]
  /\ graph = [t \in Ids |-> FALSE]
  /\ graph_to_task = {}
  /\ uncompleted_ops =
       [g \in Ids |-> [o \in GraphOps |-> [count |-> 0, len |-> Planned]]]
  /\ uncompleted_graphs = [g \in Ids |-> [count |-> 0, failed |-> FALSE]]
  /\ plan = [t \in Tasks |-> "none"]
  /\ opDone = [t \in Tasks |-> {}]
  /\ response = [t \in Ids |-> "none"]
  /\ hstate = [h \in AllHandles |-> [g \in Ids |-> "new"]]
  /\ hdone = [h \in AllHandles |-> [g \in Ids |-> {}]]
  /\ early_graphs = {}
  /\ queue = [h \in AllHandles |-> <<>>]

task_end_op_id(t) == IF task_type[t] = "PUT" THEN FirstOp ELSE LastOp
is_remote_load(t, o) == task_type[t] # "PUT" /\ o = FirstOp

InTable(t) == status[t] # "none"
is_completed(t) == status[t] \in {"COMPLETED", "CANCELLED", "FAILED"}
-----------------------------------------------------------------------------
(* Creating tasks: cache_engine.get/put has made a plan. *)
create_task(t, k, s) ==
  /\ t \in scope.tasks \ created
  /\ task_type' = [task_type EXCEPT ![t] = k]
  /\ created' = created \cup {t}
  /\ status' = [status EXCEPT ![t] = s]
  /\ callback' = [callback EXCEPT ![t] = {t}]
  /\ op_callback_dict' = [op_callback_dict EXCEPT ![t] = TRUE]
  /\ graph' = [graph EXCEPT ![t] = TRUE]
  /\ graph_to_task' = graph_to_task \cup {t}
  /\ plan' = [plan EXCEPT ![t] = "held"]
  /\ UNCHANGED <<task_end_op_finished, transfer_failed, request_returned,
                 opDone, countVars, response>>

(* Every handle gets the graph. *)
hand_over(g) ==
  /\ hstate' = [h \in AllHandles |->
                   IF h \in Handles THEN [hstate[h] EXCEPT ![g] = "open"] ELSE hstate[h]]
  /\ UNCHANGED <<hdone, queue>>

(* _launch_task: transfer_handle.submit with the task_end_op_id. *)
submit(g) == hand_over(g) /\ early_graphs' = early_graphs \cup {g}

(* transfer_handle.submit_batch, which names no task_end_op_id. *)
submit_batch(g) == hand_over(g) /\ UNCHANGED early_graphs

(* get_match, put_match: the GPU slots are not known yet. *)
match(t, k) ==
  /\ k # "PREFETCH"
  /\ create_task(t, k, "UNREADY")
  /\ UNCHANGED handleVars

(* get_async, put_async, prefetch_async: create and launch at once. *)
async(t, k) ==
  /\ create_task(t, k, "RUNNING")
  /\ submit(t)

(* Nothing to transfer: _process_empty_graph completes the task on the spot
   and the response is served from what shed_heavy_resources leaves. *)
match_empty(t, k) ==
  /\ t \in scope.tasks \ created
  /\ task_type' = [task_type EXCEPT ![t] = k]
  /\ created' = created \cup {t}
  /\ status' = [status EXCEPT ![t] = "COMPLETED"]
  /\ task_end_op_finished' = [task_end_op_finished EXCEPT ![t] = TRUE]
  /\ op_callback_dict' = [op_callback_dict EXCEPT ![t] = TRUE]
  /\ plan' = [plan EXCEPT ![t] = "completed"]
  /\ UNCHANGED <<transfer_failed, request_returned, callback, graph,
                 graph_to_task, opDone, countVars, response,
                 handleVars>>

(* launch_tasks for one task: set_slot_mappings, check_task_ready, submit.
   A task that is already terminal is skipped. *)
launch(t) ==
  /\ status[t] = "UNREADY"
  /\ status' = [status EXCEPT ![t] = "RUNNING"]
  /\ submit_batch(t)
  /\ UNCHANGED <<created, task_type, task_end_op_finished, transfer_failed,
                 request_returned, callback, op_callback_dict, graph,
                 graph_to_task, countVars, planVars, response>>

(* Tasks a caller may merge: same kind, still in the table. *)
Mergeable(ts) ==
  /\ Cardinality(ts) > 1
  /\ \E k \in {"GET", "PUT"} : \A t \in ts : task_type[t] = k
  /\ \A t \in ts : status[t] = "UNREADY" \/ is_completed(t)
  /\ \E t \in ts : status[t] = "UNREADY"

(* What resolves after a merge: the ids of the merged tasks no longer do. *)
MappedAfterMerge(ts, b) == (graph_to_task \ ts) \cup {b}

(* launch_tasks(as_batch): merge_to_batch_kvtask replaces the tasks by one. *)
launch_batch(ts, b) ==
  LET live == {t \in ts : status[t] = "UNREADY"} IN
  /\ Mergeable(ts)
  /\ b \in scope.batches \ created
  /\ \A t \in ts : graph[t]
  /\ created' = created \cup {b}
  /\ task_type' = [task_type EXCEPT ![b] = task_type[CHOOSE t \in ts : TRUE]]
  /\ status' = [t \in Ids |-> IF t = b THEN "RUNNING"
                              ELSE IF t \in ts THEN "none" ELSE status[t]]
  /\ callback' = [callback EXCEPT ![b] = live]
  /\ op_callback_dict' = [op_callback_dict EXCEPT ![b] = TRUE]
  /\ graph' = [graph EXCEPT ![b] = TRUE]
  /\ graph_to_task' = MappedAfterMerge(ts, b)
  /\ submit_batch(b)
  /\ UNCHANGED <<task_end_op_finished, transfer_failed, request_returned,
                 countVars, planVars, response>>

(* The same call when a task of the batch has shed its arguments: the graphs
   of the others are merged and their tasks RUNNING when np.concatenate over
   the token_ids raises; no batch task is made and nothing is submitted. *)
launch_batch_raises(ts, b) ==
  /\ scope.batchTerminal
  /\ Mergeable(ts)
  /\ b \in scope.batches \ created
  /\ \E t \in ts : ~graph[t]
  /\ created' = created \cup {b}
  /\ status' = [t \in Ids |-> IF t \in ts /\ status[t] = "UNREADY"
                                THEN "RUNNING" ELSE status[t]]
  /\ UNCHANGED <<task_type, task_end_op_finished, transfer_failed,
                 request_returned, callback, op_callback_dict, graph,
                 graph_to_task, countVars, planVars, response, handleVars>>
-----------------------------------------------------------------------------
(* The transfer handles (external: see TransferHandle, TransferEngine). *)
Message(g, o, ok, len) == [graph |-> g, op |-> o, ok |-> ok, len |-> len]

(* _polling_worker of the remote node forwards only what is needed early. *)
Reported(h, g, o) ==
  \/ h \notin RemoteHandles
  \/ is_remote_load(g, o)
  \/ g \in early_graphs /\ o = task_end_op_id(g)

HandleOp(h, g, len) ==
  /\ hstate[h][g] = "open"
  /\ \E o \in GraphOps \ hdone[h][g] :
       /\ \A p \in GraphOps : p < o => p \in hdone[h][g]
       /\ len = Planned \/ is_remote_load(g, o)
       /\ hdone' = [hdone EXCEPT ![h][g] = @ \cup {o}]
       /\ queue' = IF Reported(h, g, o)
                     THEN [queue EXCEPT ![h] = Append(@, Message(g, o, TRUE, len))]
                     ELSE queue
  /\ UNCHANGED <<taskVars, countVars, planVars, response, hstate, early_graphs>>

HandleEnd(h, g, ok) ==
  /\ hstate[h][g] = "open"
  /\ ok => hdone[h][g] = GraphOps
  /\ hstate' = [hstate EXCEPT ![h][g] = IF ok THEN "completed" ELSE "failed"]
  /\ queue' = [queue EXCEPT ![h] = Append(@, Message(g, Graph, ok, Planned))]
  /\ UNCHANGED <<taskVars, countVars, planVars, response, hdone,
                 early_graphs>>
-----------------------------------------------------------------------------
(* _get_completed_ops and _update_tasks, one message at a time. *)
Msg(h) == Head(queue[h])
Fetch(h) ==
  /\ queue[h] # <<>>
  /\ queue' = [queue EXCEPT ![h] = Tail(@)]
  /\ UNCHANGED <<hstate, hdone, early_graphs>>

Lesser(a, b) == IF a < b THEN a ELSE b

(* The counter entry after the message of h, before it is emitted. *)
OpEntry(h) ==
  LET e == uncompleted_ops[Msg(h).graph][Msg(h).op]
  IN [count |-> e.count + 1, len |-> Lesser(e.len, Msg(h).len)]
GraphEntry(h) ==
  LET e == uncompleted_graphs[Msg(h).graph]
  IN [count |-> e.count + 1, failed |-> e.failed \/ ~Msg(h).ok]

NewOps == [o \in GraphOps |-> [count |-> 0, len |-> Planned]]

(* A copy that is not the last one is only counted. *)
CountMessage(h) ==
  /\ Fetch(h)
  /\ LET g == Msg(h).graph IN
     \/ /\ Msg(h).op = Graph
        /\ GraphEntry(h).count < required_completed_count
        /\ uncompleted_graphs' = [uncompleted_graphs EXCEPT ![g] = GraphEntry(h)]
        /\ UNCHANGED uncompleted_ops
     \/ /\ Msg(h).op # Graph
        /\ OpEntry(h).count < required_completed_count
        /\ uncompleted_ops' =
             [uncompleted_ops EXCEPT ![g][Msg(h).op] = OpEntry(h)]
        /\ UNCHANGED uncompleted_graphs
  /\ UNCHANGED <<taskVars, planVars, response>>

(* Seeded fault: the first handle's copy is taken for the last. *)
LastOpCopy_firstCopy(h) ==
  /\ Fetch(h)
  /\ Msg(h).op # Graph
  /\ UNCHANGED countVars

(* The last copy of an op message: its counter goes. *)
LastOpCopy(h) ==
  /\ Fetch(h)
  /\ Msg(h).op # Graph
  /\ OpEntry(h).count = required_completed_count
  /\ uncompleted_ops' =
       [uncompleted_ops EXCEPT ![Msg(h).graph][Msg(h).op] =
          [count |-> 0, len |-> Planned]]
  /\ UNCHANGED uncompleted_graphs

(* Seeded fault: the first failure ends the graph. *)
LastGraphCopy_firstFailure(h) ==
  /\ Fetch(h)
  /\ Msg(h).op = Graph
  /\ GraphEntry(h).count = required_completed_count \/ GraphEntry(h).failed
  /\ uncompleted_graphs' =
       [uncompleted_graphs EXCEPT ![Msg(h).graph] =
          [count |-> 0, failed |-> FALSE]]
  /\ uncompleted_ops' = [uncompleted_ops EXCEPT ![Msg(h).graph] = NewOps]

(* Seeded fault: a failed graph leaves its op counters behind. *)
LastGraphCopy_noPurge(h) ==
  /\ Fetch(h)
  /\ Msg(h).op = Graph
  /\ GraphEntry(h).count = required_completed_count
  /\ uncompleted_graphs' =
       [uncompleted_graphs EXCEPT ![Msg(h).graph] =
          [count |-> 0, failed |-> FALSE]]
  /\ UNCHANGED uncompleted_ops

(* The last copy of a graph message; a failed graph also purges the op
   counters nobody will complete. *)
LastGraphCopy(h) ==
  /\ Fetch(h)
  /\ Msg(h).op = Graph
  /\ GraphEntry(h).count = required_completed_count
  /\ uncompleted_graphs' =
       [uncompleted_graphs EXCEPT ![Msg(h).graph] =
          [count |-> 0, failed |-> FALSE]]
  /\ uncompleted_ops' = IF GraphEntry(h).failed
                          THEN [uncompleted_ops EXCEPT ![Msg(h).graph] = NewOps]
                          ELSE uncompleted_ops

(* What a completed remote load says about the task: a get fails with any
   block missing, a prefetch when nothing at all arrived. *)
LoadFails(t, o, len) ==
  /\ is_remote_load(t, o)
  /\ IF task_type[t] = "PREFETCH" THEN len = 0 ELSE len < Planned

(* reset_cache left this task to be skipped. *)
Skipped(t) == status[t] = "CANCELLED" /\ callback[t] = {}

(* The graph of a released, merged or cancelled task no longer resolves. *)
DropMessage(h) ==
  /\ LastOpCopy(h) \/ LastGraphCopy(h)
  /\ Msg(h).graph \notin graph_to_task
  /\ UNCHANGED <<taskVars, planVars, response>>

(* An op is done on every handle: its callbacks run, and the caller may be
   answered once this was the end of the data path. *)
FinishOp(h, raised) ==
  LET t == Msg(h).graph
      o == Msg(h).op
  IN
  /\ LastOpCopy(h)
  /\ t \in graph_to_task
  /\ raised => scope.callbackRaises /\ ~Skipped(t)
  /\ transfer_failed' = [transfer_failed EXCEPT ![t] =
                           @ \/ LoadFails(t, o, OpEntry(h).len) \/ raised]
  /\ IF Skipped(t)
       THEN UNCHANGED <<opDone, task_end_op_finished>>
       ELSE /\ opDone' = [p \in Tasks |->
                 IF p \in callback[t] /\ op_callback_dict[t] /\ ~raised
                   THEN opDone[p] \cup {o} ELSE opDone[p]]
            /\ task_end_op_finished' =
                 [task_end_op_finished EXCEPT ![t] = @ \/ o = task_end_op_id(t)]
  /\ UNCHANGED <<status, created, task_type, request_returned, callback,
                 op_callback_dict, graph, graph_to_task, plan, response>>

(* Common to _mark_completed and _fail_task: settle the plans, set the
   terminal status, shed, and release a task that was already answered. *)
Terminate(t, outcome, s) ==
  /\ plan' = [p \in Tasks |-> IF p \in callback[t] THEN outcome ELSE plan[p]]
  /\ status' = [status EXCEPT ![t] = IF request_returned[t] THEN "none" ELSE s]
  /\ task_end_op_finished' = [task_end_op_finished EXCEPT ![t] = TRUE]
  /\ graph_to_task' = graph_to_task \ {t}
  /\ graph' = [graph EXCEPT ![t] = FALSE]
  /\ callback' = [callback EXCEPT ![t] = {}]
  /\ UNCHANGED <<created, task_type, request_returned, op_callback_dict,
                 opDone, response>>

(* _mark_completed.  The callback that raises has settled its plan before. *)
mark_completed(h, raised) ==
  LET t == Msg(h).graph
      bad == transfer_failed[t] \/ raised
  IN
  /\ LastGraphCopy(h)
  /\ ~GraphEntry(h).failed
  /\ t \in graph_to_task
  /\ ~is_completed(t)
  /\ raised => scope.callbackRaises
  /\ transfer_failed' = [transfer_failed EXCEPT ![t] = bad]
  /\ Terminate(t, "completed", IF bad THEN "FAILED" ELSE "COMPLETED")

(* _fail_task: the plans are rolled back. *)
fail_task(h) ==
  LET t == Msg(h).graph IN
  /\ LastGraphCopy(h)
  /\ GraphEntry(h).failed
  /\ t \in graph_to_task
  /\ ~is_completed(t)
  /\ Terminate(t, "aborted", "FAILED")
  /\ UNCHANGED transfer_failed

(* A graph message for a task that reset_cache already made terminal. *)
IgnoreTerminal(h) ==
  /\ LastGraphCopy(h)
  /\ Msg(h).graph \in graph_to_task
  /\ is_completed(Msg(h).graph)
  /\ UNCHANGED <<taskVars, planVars, response>>
-----------------------------------------------------------------------------
(* _release_task: a graph that was not shed is unmapped with its task. *)
release_task(t) ==
  /\ status' = [status EXCEPT ![t] = "none"]
  /\ graph_to_task' = IF graph[t] THEN graph_to_task \ {t} ELSE graph_to_task

(* Seeded fault: cancel releases the task and keeps its plan. *)
RolledBack_none(t) == {}

(* The plans _cancel_task aborts. *)
RolledBack(t) == IF status[t] = "UNREADY" THEN callback[t] ELSE {}

(* _cancel_task: only a task that was never launched is rolled back here. *)
cancel_task(t) ==
  /\ InTable(t)
  /\ status[t] = "RUNNING" => scope.cancelRunning
  /\ plan' = [p \in Tasks |-> IF p \in RolledBack(t) THEN "aborted" ELSE plan[p]]
  /\ release_task(t)
  /\ UNCHANGED <<created, task_type, task_end_op_finished, transfer_failed,
                 request_returned, callback, op_callback_dict, graph, opDone,
                 countVars, response, handleVars>>

(* Seeded fault: a prefetch may be answered early like a get. *)
check_completed_prefetchEarly(t, completely) ==
  IF completely \/ transfer_failed[t]
    THEN is_completed(t)
    ELSE is_completed(t) \/ task_end_op_finished[t]

(* _check_completed: is there an answer yet?  A failed transfer and a prefetch
   are answered only at the end. *)
check_completed(t, completely) ==
  IF completely \/ task_type[t] = "PREFETCH" \/ transfer_failed[t]
    THEN is_completed(t)
    ELSE is_completed(t) \/ task_end_op_finished[t]

(* One round of _wait_impl that answers: RUNNING counts as success.  Rounds
   that answer NOTFOUND, UNREADY or TIMEOUT, or nothing, change no state. *)
wait(t, completely) ==
  /\ InTable(t)
  /\ status[t] # "UNREADY"
  /\ check_completed(t, completely)
  /\ response' = [response EXCEPT ![t] =
       IF status[t] \in {"COMPLETED", "RUNNING"} THEN "SUCCESS" ELSE status[t]]
  /\ request_returned' = [request_returned EXCEPT ![t] = TRUE]
  /\ IF is_completed(t) THEN release_task(t)
     ELSE UNCHANGED <<status, graph_to_task>>
  /\ UNCHANGED <<created, task_type, task_end_op_finished, transfer_failed,
                 callback, op_callback_dict, graph, countVars, planVars,
                 handleVars>>

(* Seeded fault: reset_cache leaves the callbacks with the tasks. *)
CallbacksAfterReset_kept(ongoing) == UNCHANGED <<callback, op_callback_dict>>

(* The tasks in flight lose the callbacks of their plans and of their ops. *)
CallbacksAfterReset(ongoing) ==
  /\ callback' = [t \in Ids |-> IF t \in ongoing THEN {} ELSE callback[t]]
  /\ op_callback_dict' =
       [t \in Ids |-> op_callback_dict[t] /\ t \notin ongoing]

(* reset_cache: the tree and the pools are emptied under tasks in flight,
   whose callbacks are taken away first. *)
reset_cache ==
  LET ongoing == {t \in Ids : InTable(t) /\ ~is_completed(t)} IN
  /\ scope.reset
  /\ CallbacksAfterReset(ongoing)
  /\ status' = [t \in Ids |-> IF t \in ongoing THEN "CANCELLED" ELSE status[t]]
  /\ plan' = [p \in Tasks |-> IF plan[p] = "held" THEN "dropped" ELSE plan[p]]
  /\ UNCHANGED <<created, task_type, task_end_op_finished, transfer_failed,
                 request_returned, graph, graph_to_task, opDone, countVars,
                 response, handleVars>>
-----------------------------------------------------------------------------
Create == \E t \in Tasks, k \in TaskTypes :
            match(t, k) \/ async(t, k) \/ match_empty(t, k)
Launch ==
  \/ \E t \in Tasks : launch(t)
  \/ \E ts \in SUBSET Tasks, b \in Batches :
       launch_batch(ts, b) \/ launch_batch_raises(ts, b)
Cancel == \E t \in Ids : cancel_task(t)
Transfer ==
  \E h \in Handles, g \in Ids :
    \/ \E len \in 0 .. Planned : HandleOp(h, g, len)
    \/ \E ok \in BOOLEAN : HandleEnd(h, g, ok)
update_tasks ==
  \E h \in Handles :
    \/ CountMessage(h)
    \/ DropMessage(h)
    \/ \E raised \in BOOLEAN : FinishOp(h, raised) \/ mark_completed(h, raised)
    \/ fail_task(h)
    \/ IgnoreTerminal(h)
Wait == \E t \in Ids, completely \in BOOLEAN : wait(t, completely)

Next ==
  /\ \/ Create
     \/ Launch
     \/ Cancel
     \/ Transfer
     \/ update_tasks
     \/ Wait
     \/ reset_cache
  /\ UNCHANGED scope

(* Handles end every graph; callers poll (every API call polls first), launch
   or cancel what they matched, and ask for the answer of what they launched. *)
Fairness ==
  /\ WF_vars(Transfer)
  /\ WF_vars(update_tasks)
  /\ \A t \in Tasks : WF_vars(launch(t) \/ cancel_task(t))
  /\ \A t \in Ids : WF_vars(wait(t, TRUE))

Spec == Init /\ [][Next]_<<scope, vars>> /\ Fairness
-----------------------------------------------------------------------------
Statuses == {"none", "UNREADY", "RUNNING", "COMPLETED", "CANCELLED", "FAILED"}

(* Types; a counter never reaches the number of handles: the entry is
   deleted by the copy that would make it so. *)
TypeOK ==
  /\ status \in [Ids -> Statuses]
  /\ created \subseteq Ids
  /\ task_type \in [Ids -> TaskTypes]
  /\ task_end_op_finished \in [Ids -> BOOLEAN]
  /\ transfer_failed \in [Ids -> BOOLEAN]
  /\ request_returned \in [Ids -> BOOLEAN]
  /\ callback \in [Ids -> SUBSET Tasks]
  /\ op_callback_dict \in [Ids -> BOOLEAN]
  /\ graph \in [Ids -> BOOLEAN]
  /\ graph_to_task \subseteq Ids
  /\ uncompleted_ops \in
       [Ids -> [GraphOps -> [count : 0 .. required_completed_count - 1,
                             len : 0 .. Planned]]]
  /\ uncompleted_graphs \in
       [Ids -> [count : 0 .. required_completed_count - 1, failed : BOOLEAN]]
  /\ plan \in [Tasks -> {"none", "held", "completed", "aborted", "dropped"}]
  /\ opDone \in [Tasks -> SUBSET GraphOps]

Moving(g) == \E h \in Handles : hstate[h][g] = "open"

(* A plan is given back (completed or aborted) only when no handle can still
   move data for it: blocks are never recycled under a transfer.  With reset
   this is the caller's duty, so "dropped" is not covered. *)
ReleasedWhenQuiet ==
  [][\A t \in Ids : \A p \in callback[t] :
       plan[p] = "held" /\ plan'[p] \in {"completed", "aborted"} =>
         ~Moving(t)]_vars

(* A plan is settled once: afterwards no step completes or aborts it again and
   no op callback of it fires, late messages for a plan that reset_cache has
   dropped included. *)
SettledOnce ==
  [][\A p \in Tasks : plan[p] \notin {"none", "held"} =>
       plan'[p] = plan[p] /\ opDone'[p] = opDone[p]]_vars

(* An op callback publishes a node only after every handle has done that op
   for the graph that carried the plan: no handle is behind. *)
PublishedEverywhere ==
  \A p \in Tasks : \A o \in opDone[p] :
    \E g \in Batches \cup {p} : \A h \in Handles : o \in hdone[h][g]

(* A success, early ones included, is answered only after every handle has
   finished the data path of the graph; for a prefetch, whose value is what
   the tree holds afterwards, only after every handle has completed it. *)
SuccessIsEarned ==
  \A t \in Ids, h \in Handles :
    response[t] = "SUCCESS" /\ hstate[h][t] # "new" =>
      /\ task_end_op_id(t) \in hdone[h][t]
      /\ task_type[t] = "PREFETCH" => hstate[h][t] = "completed"

(* Every handle has ended the graph and nothing of it is on its way. *)
Over(g) ==
  \A h \in Handles : hstate[h][g] \in {"completed", "failed"} /\ queue[h] = <<>>

(* Aggregation leaves nothing behind that it can know of: once a graph is
   over, its terminal counter is gone, and so are the counters of the ops that
   every handle reports and, if a handle failed, of the ops it never got to. *)
CountersDrained ==
  \A g \in Ids : Over(g) =>
    /\ uncompleted_graphs[g].count = 0
    /\ \A o \in GraphOps :
         (\/ \E h \in Handles : hstate[h][g] = "failed"
          \/ \A h \in Handles : Reported(h, g, o)) =>
            uncompleted_ops[g][o].count = 0

(* Made RUNNING by a batch that then raised, and submitted nowhere. *)
Stranded(t) == status[t] = "RUNNING" /\ \A h \in Handles : hstate[h][t] = "new"

(* Every plan is eventually settled, unless a batch strands its task or the
   caller cancels what is in flight. *)
PlanSettles ==
  \A p \in Tasks :
    plan[p] = "held" ~> plan[p] # "held" \/ Stranded(p) \/ scope.cancelRunning

(* _cancel_task on a task in flight: "their graph is in flight and completion
   callbacks will still fire", so its plan is settled all the same. *)
CancelledStillSettles ==
  \A p \in Tasks :
    plan[p] = "held" /\ p \in created /\ ~InTable(p) ~> plan[p] # "held"
=============================================================================
