--------------------------- MODULE TrtllmConnector ---------------------------
(***************************************************************************)
(* The TensorRT-LLM adapter's scheduler connector.  It differs from the    *)
(* vLLM one where the code does: a miss leaves its finished task in the    *)
(* manager, launches are never batched, answers are asked for while the    *)
(* metadata of a step is built and reach the framework through the         *)
(* worker's get_finished, and a failed get is reported like a good one.    *)
(***************************************************************************)
EXTENDS FrameworkLoop

VARIABLE metadata   \* [sending, recving, failed]: FlexKVConnectorMetadata on its way

NoMeta == [sending |-> {}, recving |-> {}, failed |-> {}]

TrtGetMatch(r) ==
  /\ adapter = "trtllm" /\ CanSchedule(r)
  /\ visited' = visited \union {r}
  /\ \/ /\ fw' \in { fw, [fw EXCEPT ![r] = "running"] }
        /\ UNCHANGED << mgr, conn, matching >>
     \/ \E hit \in BOOLEAN :
          /\ CanMatch
          /\ mgr' = MatchTask(mgr, r, "get", hit)
          /\ fw' \in { fw } \union (IF hit THEN {} ELSE { [fw EXCEPT ![r] = "running"] })
          /\ conn' = IF hit THEN [conn EXCEPT !.req_id_to_task_dict[r] = mgr.next,
                                              !.tasks_to_cancel = @ \union {mgr.next}]
                     ELSE conn
          /\ matching' = IF hit THEN {r} ELSE {}
  /\ UNCHANGED << phase, held, kv, step, adapter, dropped, metadata >>

TrtUpdateStateAfterAlloc(r) ==
  /\ adapter = "trtllm" /\ r \in matching
  /\ LET t == conn.req_id_to_task_dict[r] IN
       conn' = [conn EXCEPT !.tasks_to_cancel = @ \ {t}, !.tasks_to_launch = @ \union {t}]
  /\ fw' = [fw EXCEPT ![r] = "loading"]
  /\ matching' = {}
  /\ UNCHANGED << phase, held, kv, visited, step, mgr, adapter, dropped, metadata >>

\* request_finished and _put_match: only a normal end is put.
TrtRequestFinished(r) ==
  /\ adapter = "trtllm" /\ phase \in {"run", "finish"}
  /\ fw[r] \in {"waiting", "loading", "running"}
  /\ IF conn.req_id_to_task_dict[r] # NoTask
     THEN Gone(r, TRUE) /\ UNCHANGED << conn, mgr >>
     ELSE \/ Gone(r, FALSE) /\ UNCHANGED << conn, mgr >>
          \/ /\ fw[r] = "running" /\ CanMatch
             /\ \E hit \in BOOLEAN :
                  /\ mgr' = MatchTask(mgr, r, "put", hit)
                  /\ conn' = IF hit THEN [conn EXCEPT !.req_id_to_task_dict[r] = mgr.next,
                                                      !.tasks_to_launch = @ \union {mgr.next}]
                             ELSE conn
                  /\ Gone(r, hit)
  /\ UNCHANGED << phase, matching, visited, adapter, dropped, metadata >>

\* cancel_tasks.
TrtCancelled(c) ==
  LET rs == UNION { mgr.req[t] : t \in c.tasks_to_cancel } IN
    [c EXCEPT !.req_id_to_task_dict = [r \in Requests |-> IF r \in rs THEN NoTask ELSE @[r]],
              !.tasks_to_cancel = {}]

\* launch_tasks: each task keeps its id.
TrtLaunched(c) ==
  LET out(kind, table) ==
        [t \in Ids |-> IF t \in c.tasks_to_launch /\ mgr.kind[t] = kind THEN {t} ELSE table[t]]
  IN [c EXCEPT !.get_tasks = out("get", @), !.put_tasks = out("put", @), !.tasks_to_launch = {}]

\* query_finished_task: c and m after the launch of the same call.
TrtQueried(c, m) ==
  LET done == Ended(m, { t \in Ids : c.get_tasks[t] \union c.put_tasks[t] # {} })
      rs(ts) == UNION { m.req[t] : t \in ts }
      gets == { t \in done : c.get_tasks[t] # {} }
  IN IF \A r \in Requests : c.req_id_to_task_dict[r] = NoTask
     THEN [c |-> c, m |-> m, meta |-> NoMeta]
     ELSE [c |-> [c EXCEPT !.get_tasks = [t \in Ids |-> IF t \in done THEN {} ELSE @[t]],
                           !.put_tasks = [t \in Ids |-> IF t \in done THEN {} ELSE @[t]],
                           !.req_id_to_task_dict =
                              [r \in Requests |-> IF r \in rs(done) THEN NoTask ELSE @[r]]],
           m |-> CancelIds(m, done),
           meta |-> [recving |-> rs(gets), sending |-> rs(done \ gets),
                     failed |-> rs({ t \in gets : m.st[t] = "failed" })]]

\* build_connector_meta.
TrtBuildConnectorMeta ==
  /\ adapter = "trtllm" /\ phase = "schedule" /\ matching = {}
  /\ LET c == TrtLaunched(TrtCancelled(conn))
         m == LaunchEach(CancelIds(mgr, conn.tasks_to_cancel), conn.tasks_to_launch)
         q == TrtQueried(c, m)
     IN conn' = q.c /\ mgr' = q.m /\ metadata' = q.meta
  /\ phase' = "run"
  /\ step' = [preempted |-> {}, finished |-> {}, previous |-> {}]
  /\ visited' = {} /\ UNCHANGED << fw, held, kv, matching, adapter, dropped >>

\* The worker's get_finished hands the lists of the metadata to the framework.
TrtGetFinished ==
  /\ adapter = "trtllm" /\ phase = "run"
  /\ Apply(metadata.recving, metadata.sending, metadata.failed)
  /\ metadata' = NoMeta
  /\ phase' = "finish"
  /\ UNCHANGED << matching, visited, step, conn, mgr, adapter, dropped >>

TrtNext ==
  \/ \E r \in Requests : TrtGetMatch(r) \/ TrtUpdateStateAfterAlloc(r) \/ TrtRequestFinished(r)
  \/ TrtBuildConnectorMeta \/ TrtGetFinished
=============================================================================
