---------------------------- MODULE VllmConnector ----------------------------
(***************************************************************************)
(* FlexKVSchedulerConnector and FlexKVConnectorV1Impl of the vLLM adapter. *)
(* Each handler is one action.  Operators ending in -ed take the           *)
(* connector's record c and the manager's m and give the pair after the    *)
(* method: build_connector_meta runs several of them in a row.             *)
(***************************************************************************)
EXTENDS FrameworkLoop

CONSTANTS Batching,     \* enable_batch
          ReportsPreempted \* the scheduler output names the preempted requests

\* "vllm_sync" is the adapter with FLEXKV_SYNC_GET=1.
Vllm == adapter \in {"vllm", "vllm_sync"}

Pair(c, m) == [c |-> c, m |-> m]

\* get_num_new_matched_tokens and _get_match: a hit is recorded as a task to
\* cancel unless blocks are found for it; a miss is cancelled at once.
get_num_new_matched_tokens(r) ==
  /\ Vllm /\ CanSchedule(r)
  /\ visited' = visited \union {r}
  /\ \/ /\ fw' \in { fw, [fw EXCEPT ![r] = "running"] }
        /\ UNCHANGED << mgr, conn, matching >>
     \/ /\ CanMatch /\ fw' = fw
        /\ mgr' = MatchTask(mgr, r, "get", TRUE)
        /\ conn' = [conn EXCEPT !.req_id_to_task_dict[r] = mgr.next,
                                !.tasks_to_cancel = @ \union {mgr.next}]
        /\ matching' = {r}
     \/ /\ CanMatch /\ fw' \in { fw, [fw EXCEPT ![r] = "running"] }
        /\ mgr' = CancelIds(MatchTask(mgr, r, "get", FALSE), {mgr.next})
        /\ UNCHANGED << conn, matching >>
  /\ UNCHANGED << phase, held, kv, step, adapter, dropped >>

\* update_state_after_alloc: blocks were found, the task will be launched.
update_state_after_alloc(r) ==
  /\ Vllm /\ r \in matching
  /\ LET t == conn.req_id_to_task_dict[r] IN
       conn' = [conn EXCEPT !.tasks_to_cancel = @ \ {t}, !.tasks_to_launch = @ \union {t}]
  /\ fw' = [fw EXCEPT ![r] = "loading"]
  /\ matching' = {}
  /\ UNCHANGED << phase, held, kv, visited, step, mgr, adapter, dropped >>

\* handle_preemptions: tasks not launched yet are handed to cancel_tasks; what
\* is launched goes on.
HandlePreempted(c, gone) ==
  LET ts == { c.req_id_to_task_dict[r] : r \in gone } \intersect c.tasks_to_launch IN
    [c EXCEPT !.tasks_to_launch = @ \ ts, !.tasks_to_cancel = @ \union ts]

\* cancel_tasks.
Cancelled(c, m) ==
  LET rs == UNION { m.req[t] : t \in c.tasks_to_cancel } IN
    Pair([c EXCEPT !.req_id_to_task_dict =
                       [r \in Requests |-> IF r \in rs THEN NoTask ELSE @[r]],
                   !.tasks_to_cancel = {}],
         CancelIds(m, c.tasks_to_cancel))

\* launch_tasks for the tasks of one kind: several go out as one batch, whose
\* id stands for all of them from here on.
LaunchedKind(m, ts) ==
  IF Batching /\ Cardinality(ts) > 1
  THEN [m |-> LaunchBatch(m, ts), table |-> [t \in Ids |-> IF t = BatchId(ts) THEN ts ELSE {}]]
  ELSE [m |-> LaunchEach(m, ts), table |-> [t \in Ids |-> IF t \in ts THEN {t} ELSE {}]]

launch_tasks_effect(c, m) ==
  LET gets == { t \in c.tasks_to_launch : m.kind[t] = "get" }
      puts == c.tasks_to_launch \ gets
      g == LaunchedKind(m, gets)
      p == LaunchedKind(g.m, puts)
  IN Pair([c EXCEPT !.get_tasks = [t \in Ids |-> @[t] \union g.table[t]],
                    !.put_tasks = [t \in Ids |-> @[t] \union p.table[t]],
                    !.tasks_to_launch = {}], p.m)

\* Seeded fault: a request that finished since the last step counts as preempted.
FinishedIsPreempted(current) == step.previous \ current

\* The preempted requests: as reported, or as the ones that ran before, do not
\* run now and have not finished.
PreemptedReqs(current) ==
  IF ReportsPreempted THEN step.preempted ELSE (step.previous \ current) \ step.finished

\* build_connector_meta: handle preemptions, cancel, launch and, with
\* FLEXKV_SYNC_GET, the wait for every get.
build_connector_meta ==
  /\ Vllm /\ phase = "schedule" /\ matching = {}
  /\ \E current \in SUBSET Running :
       LET x == HandlePreempted(conn, PreemptedReqs(current))
           y == Cancelled(x, mgr)
           z == launch_tasks_effect(y.c, y.m)
       IN /\ conn' = z.c /\ mgr' = z.m
          /\ step' = [preempted |-> {}, finished |-> {}, previous |-> current]
  /\ phase' = IF adapter = "vllm_sync" THEN "sync" ELSE "run"
  /\ visited' = {} /\ UNCHANGED << fw, held, kv, matching, adapter, dropped >>

Launched(table) == { t \in Ids : table[t] # {} }

ReqsOf(ts) == UNION { mgr.req[t] : t \in ts }

\* The entries of answered tasks go, in the table and in the request map.
Answered(c, done) ==
  [c EXCEPT !.get_tasks = [t \in Ids |-> IF t \in done THEN {} ELSE @[t]],
            !.put_tasks = [t \in Ids |-> IF t \in done THEN {} ELSE @[t]],
            !.req_id_to_task_dict = [r \in Requests |-> IF r \in ReqsOf(done) THEN NoTask ELSE @[r]]]

\* _blocking_waiting_for_tasks over get_tasks: the responses are not used.
wait_for_all_get_tasks ==
  /\ Vllm /\ phase = "sync"
  /\ Launched(conn.get_tasks) = Ended(mgr, Launched(conn.get_tasks))
  /\ conn' = Answered(conn, Launched(conn.get_tasks))
  /\ mgr' = CancelIds(mgr, Launched(conn.get_tasks))
  /\ phase' = "run"
  /\ UNCHANGED << fw, held, kv, matching, visited, step, adapter, dropped >>

\* Seeded fault: the failure of a get is counted and not passed on.
IgnoreFailed(gets) == {}

\* Requests whose get failed: their blocks are put aside for the load errors.
FailedGets(gets) == ReqsOf({ t \in gets : mgr.st[t] = "failed" })

\* update_connector_output and query_finished_task; the blocks of a failed get
\* are put aside for get_and_clear_failed_block_ids.
update_connector_output ==
  /\ Vllm /\ phase = "run"
  /\ IF \A r \in Requests : conn.req_id_to_task_dict[r] = NoTask
     THEN UNCHANGED << conn, mgr, fw, held, kv >>
     ELSE LET gets == Ended(mgr, Launched(conn.get_tasks))
              puts == Ended(mgr, Launched(conn.put_tasks))
              bad == ReqsOf({ t \in gets : mgr.st[t] = "failed" })
          IN /\ conn' = [Answered(conn, gets \union puts)
                           EXCEPT !.failed_block_ids = @ \union FailedGets(gets)]
             /\ mgr' = CancelIds(mgr, gets \union puts)
             /\ Apply(ReqsOf(gets), ReqsOf(puts), bad)
  /\ phase' = "errors"
  /\ UNCHANGED << matching, visited, step, adapter, dropped >>

\* get_block_ids_with_load_errors: the framework computes those blocks again.
get_and_clear_failed_block_ids ==
  /\ Vllm /\ phase = "errors"
  /\ kv' = [r \in Requests |-> IF r \in conn.failed_block_ids THEN "none" ELSE kv[r]]
  /\ conn' = [conn EXCEPT !.failed_block_ids = {}]
  /\ phase' = "finish"
  /\ UNCHANGED << fw, held, matching, visited, step, mgr, adapter, dropped >>

\* Seeded fault: the early return for missing blocks forgets the task.
PutMatchedForgets(r, short) ==
  /\ mgr' = MatchTask(mgr, r, "put", TRUE)
  /\ conn' = IF short THEN conn
             ELSE [conn EXCEPT !.req_id_to_task_dict[r] = mgr.next,
                               !.tasks_to_launch = @ \union {mgr.next}]

\* _put_match with something to put; short: the framework passes fewer blocks
\* than the plan needs, and the task is left to cancel_tasks.
PutMatched(r, short) ==
  /\ mgr' = MatchTask(mgr, r, "put", TRUE)
  /\ LET t == mgr.next
         c == [conn EXCEPT !.req_id_to_task_dict[r] = t] IN
       conn' = IF short THEN [c EXCEPT !.tasks_to_cancel = @ \union {t}]
               ELSE [c EXCEPT !.tasks_to_launch = @ \union {t}]

\* Seeded fault: only puts keep blocks, a get in flight does not.
InUseByPut(r) == \E t \in Ids : r \in mgr.req[t] /\ conn.put_tasks[t] # {}

\* A task of the request is known: FlexKV still uses its blocks.
InUse(r) == conn.req_id_to_task_dict[r] # NoTask

\* request_finished: TRUE (blocks stay) while a task of the request is known or
\* a put was prepared.  An abort offloads only where the request asks for it.
request_finished(r) ==
  /\ Vllm /\ phase \in {"run", "finish"}
  /\ fw[r] \in {"waiting", "loading", "running"}
  /\ \E normal \in (IF fw[r] = "running" THEN BOOLEAN ELSE {FALSE}), offload \in BOOLEAN :
       IF InUse(r)
       THEN Gone(r, TRUE) /\ UNCHANGED << conn, mgr >>
       ELSE \/ Gone(r, FALSE) /\ UNCHANGED << conn, mgr >>
            \/ /\ normal \/ offload
               /\ CanMatch
               /\ \/ /\ mgr' = CancelIds(MatchTask(mgr, r, "put", FALSE), {mgr.next})
                     /\ Gone(r, FALSE) /\ UNCHANGED conn
                  \/ \E short \in (IF OwnsBlocks(r) THEN BOOLEAN ELSE {TRUE}) :
                       PutMatched(r, short) /\ Gone(r, ~ short)
  /\ UNCHANGED << phase, matching, visited, adapter, dropped >>

\* reset_cache: everything the connector knows is cleared.  Tasks that were not
\* launched are closed; launched ones run on, and nobody asks for their answer.
reset_cache ==
  /\ Vllm /\ phase = "finish"
  /\ dropped' = dropped \union { r \in Requests : conn.req_id_to_task_dict[r] # NoTask }
  /\ conn' = NoConnState
  /\ mgr' = CancelIds(mgr, { t \in Ids : mgr.st[t] = "matched" })
  /\ UNCHANGED << phase, fw, held, kv, matching, visited, step, adapter >>

VllmNext ==
  \/ \E r \in Requests : \/ get_num_new_matched_tokens(r)
                         \/ update_state_after_alloc(r)
                         \/ request_finished(r)
  \/ build_connector_meta \/ wait_for_all_get_tasks
  \/ update_connector_output \/ get_and_clear_failed_block_ids \/ reset_cache
=============================================================================
