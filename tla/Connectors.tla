------------------------------ MODULE Connectors ------------------------------
(***************************************************************************)
(* A framework with one of the two step-driven adapters.  Both run the     *)
(* same protocol with the manager; the properties below are about what a   *)
(* framework may rely on.                                                  *)
(***************************************************************************)
EXTENDS VllmConnector, TrtllmConnector

connVars == << loopVars, metadata >>

ConnInit == LoopInit /\ metadata = NoMeta

Loop ==
  \/ \E r \in Requests : Preempt(r) \/ AllocFails(r)
  \/ \E t \in Ids : TransferEnds(t)
  \/ NextStep

ConnNext == ((Loop \/ VllmNext) /\ UNCHANGED metadata) \/ TrtNext

ConnSpec == ConnInit /\ [][ConnNext]_connVars

-----------------------------------------------------------------------------
Tracked(r) ==
  \E t \in Ids : /\ r \in mgr.req[t]
                 /\ \/ t \in conn.tasks_to_launch
                    \/ conn.get_tasks[t] \union conn.put_tasks[t] # {}

\* Every adapter, in every mode, tells the waiting requests: the synchronous wait
\* is documented as a safety fallback.  It is not so: wait_for_all_get_tasks takes
\* the finished gets out of the tables, and nobody reports them.
SyncWaitersAreTracked ==
  \A r \in Requests \ dropped :
    fw[r] = "loading" \/ r \in held =>
      Tracked(r) \/ r \in metadata.recving \union metadata.sending

\* Whoever waits for the connector will hear from it: a request that waits for
\* its KV, or a finished one whose blocks the framework was told to keep, has a
\* task that is about to be launched or is asked for in every step, or its report
\* is on the way.  Otherwise the request hangs, or its GPU blocks are never freed.
\* A reset drops the records of transfers in flight and is exempt, and so is the
\* vLLM adapter with a synchronous wait (see SyncWaitersAreTracked).
WaitersAreTracked == adapter # "vllm_sync" => SyncWaitersAreTracked

\* While a transfer runs, the GPU blocks it reads or writes still belong to the
\* request they were taken from: neither an abort, nor a preemption, nor the end
\* of the request frees them.  Again unless a reset made the connector forget.
BlocksStayWhileMoving ==
  \A t \in Ids : mgr.st[t] = "running" =>
    \A r \in mgr.req[t] \ dropped : OwnsBlocks(r)

\* No request runs on blocks a failed get left behind: outside the call that
\* reports load errors, they are reported before the framework goes on (vLLM;
\* the TensorRT-LLM adapter has no such report).
FailedLoadsFlagged ==
  adapter = "vllm" =>
    \A r \in Running : kv[r] = "garbage" => r \in conn.failed_block_ids

\* Every task the manager made and has not been told to launch or cancel is
\* known to the connector, which does one or the other at the end of the step:
\* no plan keeps its locks and staging blocks for a request nobody remembers.
NoForgottenPlan ==
  \A t \in Ids : mgr.st[t] = "matched" => t \in conn.tasks_to_launch \union conn.tasks_to_cancel
=============================================================================
