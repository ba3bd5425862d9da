------------------------------- MODULE GpuRemap -------------------------------
(***************************************************************************)
(* Sleep and wake of the inference engine.  Before a rank frees its GPU    *)
(* memory it asks the TransferManager to suspend: the TransferEngine sends *)
(* every H2D and D2H worker a control request down the pipe its transfers  *)
(* use.  After waking, each rank registers its new memory, and the last    *)
(* registration imports all of it into the workers.                        *)
(*                                                                         *)
(* A control request that times out leaves its reply in the pipe.  The     *)
(* scheduler thread of the engine dispatches transfers meanwhile.          *)
(***************************************************************************)
EXTENDS Naturals, Sequences, FiniteSets

CONSTANTS GpuRanks,     \* expected_gpus of them
          GpuWorkers,   \* the workers in the order controls are sent, a sequence
          GoesOn,       \* TRUE: ranks sleep again after a wake-up that failed
          MaxGen,       \* bound: memory generations of a rank
          MaxControls,  \* bound: control requests
          MaxGraphs     \* bound: transfer graphs

ASSUME RemapAssumption ==
  /\ IsFiniteSet(GpuRanks) /\ Len(GpuWorkers) \in Nat \ {0} /\ GoesOn \in BOOLEAN
  /\ MaxGen \in Nat /\ MaxControls \in Nat /\ MaxGraphs \in Nat

VARIABLES rank,          \* [phase, gen] of each rank; gen names its GPU memory
          freed,         \* memory the framework has released
          asked,         \* request of a rank at the manager: "none" or its type
          reply,         \* the manager's answer to a rank: "none", "ok", "error"
          gpu_suspended, \* of the manager, and _gpu_mappings_suspended
          pending_resume_registrations, \* generation registered, 0 if none
          control,       \* the lifecycle request being handled, Idle if none
          controls,      \* control requests sent so far; numbers them
          pipe,          \* what each worker has still to receive, in order
          acks,          \* control replies not yet received
          gpu_blocks,    \* what each worker maps: a generation per rank
          graphs,        \* graphs submitted so far
          task_queue_len,\* graphs in task_queue
          in_hand,       \* ops the scheduler thread has still to dispatch
          in_flight,     \* op_id_to_op: ops dispatched and not collected
          finished,      \* finished_ops_queue: reports not yet collected
          ran_unmapped   \* workers that ran a transfer without a mapping

ctlVars == << gpu_suspended, pending_resume_registrations, control, controls, pipe, acks, gpu_blocks >>
rankVars == << rank, freed, asked, reply >>
moveVars == << graphs, task_queue_len, in_hand, in_flight, finished, ran_unmapped >>
remapVars == << ctlVars, rankVars, moveVars >>

Idle == [type |-> "idle"]
WorkerSet == { GpuWorkers[i] : i \in 1 .. Len(GpuWorkers) }
None == [r \in GpuRanks |-> 0]

RemapInit ==
  /\ rank = [r \in GpuRanks |-> [phase |-> "awake", gen |-> 1]]
  /\ freed = {} /\ asked = [r \in GpuRanks |-> "none"] /\ reply = asked
  /\ gpu_suspended = FALSE /\ pending_resume_registrations = None
  /\ control = Idle /\ controls = 0
  /\ pipe = [w \in WorkerSet |-> << >>] /\ acks = pipe
  /\ gpu_blocks = [w \in WorkerSet |-> [r \in GpuRanks |-> 1]]
  /\ graphs = 0 /\ task_queue_len = 0 /\ in_hand = 0 /\ in_flight = 0 /\ finished = 0 /\ ran_unmapped = {}

-----------------------------------------------------------------------------
(* KVTPClient of a rank.  The framework puts all ranks to sleep, then wakes *)
(* all of them.                                                            *)

suspend_gpu_mappings(r) ==
  /\ rank[r].phase = "awake"
  /\ \A s \in GpuRanks : /\ rank[s].gen = rank[r].gen /\ rank[s].phase # "resuming"
                         /\ rank[s].phase = "broken" => GoesOn
  /\ rank' = [rank EXCEPT ![r].phase = "suspending"]
  /\ asked' = [asked EXCEPT ![r] = "suspend_gpu"]
  /\ UNCHANGED << freed, reply, ctlVars, moveVars >>

\* register_to_server(resume=True), with the memory of a new generation.
after_device_wake(r) ==
  /\ rank[r].phase = "asleep" /\ rank[r].gen < MaxGen
  /\ \A s \in GpuRanks : \/ rank[s].phase = "asleep"
                         \/ rank[s].gen = rank[r].gen + 1 /\ rank[s].phase \in {"resuming", "awake"}
  /\ rank' = [rank EXCEPT ![r] = [phase |-> "resuming", gen |-> rank[r].gen + 1]]
  /\ asked' = [asked EXCEPT ![r] = "resume_gpu"]
  /\ UNCHANGED << freed, reply, ctlVars, moveVars >>

\* recv_pyobj.  A suspend that failed may be tried again; only one that was
\* granted lets the framework free the memory.
RankAnswered(r) ==
  /\ reply[r] # "none" /\ rank[r].phase \in {"suspending", "resuming"}
  /\ LET ok == reply[r] = "ok"
         sleeping == rank[r].phase = "suspending"
     IN /\ freed' = IF ok /\ sleeping THEN freed \union {<< r, rank[r].gen >>} ELSE freed
        /\ rank' = [rank EXCEPT ![r].phase =
                      CASE ok /\ sleeping -> "asleep"
                        [] ~ ok /\ ~ sleeping -> "broken"
                        [] OTHER -> "awake"]
  /\ reply' = [reply EXCEPT ![r] = "none"]
  /\ UNCHANGED << asked, ctlVars, moveVars >>

\* RCVTIMEO.  It equals the timeout of a single control request, and the REQ
\* socket cannot send again.
RankTimeout(r) ==
  /\ rank[r].phase \in {"suspending", "resuming"} /\ reply[r] = "none"
  /\ rank' = [rank EXCEPT ![r].phase = "broken"]
  /\ UNCHANGED << freed, asked, reply, ctlVars, moveVars >>

-----------------------------------------------------------------------------
(* handle_gpu_control, on the manager's thread, one request at a time *)

\* The check of TransferEngine.suspend_gpu_mappings.
TransfersSeen == in_flight > 0 \/ task_queue_len > 0

Begin(r) ==
  /\ control = Idle /\ asked[r] # "none"
  /\ asked' = [asked EXCEPT ![r] = "none"]
  /\ LET suspends == asked[r] = "suspend_gpu"
         registered == [pending_resume_registrations EXCEPT ![r] = rank[r].gen]
         refused == IF suspends THEN ~ gpu_suspended /\ TransfersSeen ELSE ~ gpu_suspended
         needed == IF suspends THEN ~ gpu_suspended ELSE \A s \in GpuRanks : registered[s] > 0
     IN /\ control' = IF ~ refused /\ needed THEN [type |-> asked[r], rank |-> r, at |-> 1, request_id |-> 0] ELSE Idle
        /\ reply' = IF refused \/ ~ needed THEN [reply EXCEPT ![r] = IF refused THEN "error" ELSE "ok"] ELSE reply
        /\ pending_resume_registrations' = IF suspends \/ refused THEN pending_resume_registrations ELSE registered
  /\ UNCHANGED << rank, freed, gpu_suspended, controls, pipe, acks, gpu_blocks, moveVars >>

\* WorkerHandle.control: send, then wait for the reply.
SendControl ==
  /\ control # Idle /\ control.request_id = 0 /\ controls < MaxControls
  /\ controls' = controls + 1
  /\ control' = [control EXCEPT !.request_id = controls + 1]
  /\ pipe' = [pipe EXCEPT ![GpuWorkers[control.at]] =
                Append(@, [type |-> control.type, request_id |-> controls + 1,
                           payload |-> pending_resume_registrations])]
  /\ UNCHANGED << gpu_suspended, pending_resume_registrations, acks, gpu_blocks, rankVars, moveVars >>

\* The engine raises: the rank gets an error and nothing is rolled back.
Fail ==
  /\ control' = Idle /\ reply' = [reply EXCEPT ![control.rank] = "error"]
  /\ UNCHANGED << gpu_suspended, pending_resume_registrations >>

Finish ==
  /\ control' = Idle /\ reply' = [reply EXCEPT ![control.rank] = "ok"]
  /\ gpu_suspended' = (control.type = "suspend_gpu")
  /\ pending_resume_registrations' = None

Waits == control # Idle /\ control.request_id > 0

\* Seeded fault: the request id of a reply is not compared.
AnyReply(ack) == ack.ok

Accepted(ack) == ack.request_id = control.request_id /\ ack.ok

ReceiveAck ==
  /\ Waits
  /\ LET w == GpuWorkers[control.at]
         more == control.at < Len(GpuWorkers)
     IN /\ acks[w] # << >>
        /\ acks' = [acks EXCEPT ![w] = Tail(@)]
        /\ IF ~ Accepted(Head(acks[w])) THEN Fail
           ELSE IF more
           THEN /\ control' = [control EXCEPT !.at = @ + 1, !.request_id = 0]
                /\ UNCHANGED << reply, gpu_suspended, pending_resume_registrations >>
           ELSE Finish
  /\ UNCHANGED << controls, pipe, gpu_blocks, rank, freed, asked, moveVars >>

ControlTimeout ==
  /\ Waits /\ acks[GpuWorkers[control.at]] = << >>
  /\ Fail
  /\ UNCHANGED << controls, pipe, acks, gpu_blocks, rank, freed, asked, moveVars >>

-----------------------------------------------------------------------------
(* TransferWorkerBase.run *)

\* _control_suspend_gpu: does nothing more if nothing is mapped.
control_suspend(w, m) ==
  /\ gpu_blocks' = [gpu_blocks EXCEPT ![w] = None]
  /\ acks' = [acks EXCEPT ![w] = Append(@, [request_id |-> m.request_id, ok |-> TRUE])]

\* _control_resume_gpu: refuses if something is mapped.
control_resume(w, m) ==
  /\ gpu_blocks' = IF gpu_blocks[w] = None THEN [gpu_blocks EXCEPT ![w] = m.payload] ELSE gpu_blocks
  /\ acks' = [acks EXCEPT ![w] = Append(@, [request_id |-> m.request_id, ok |-> gpu_blocks[w] = None])]

WorkerStep(w) ==
  /\ pipe[w] # << >>
  /\ pipe' = [pipe EXCEPT ![w] = Tail(@)]
  /\ \/ /\ Head(pipe[w]).type = "suspend_gpu" /\ control_suspend(w, Head(pipe[w]))
        /\ UNCHANGED moveVars
     \/ /\ Head(pipe[w]).type = "resume_gpu" /\ control_resume(w, Head(pipe[w]))
        /\ UNCHANGED moveVars
     \/ /\ Head(pipe[w]).type = "op"
        /\ ran_unmapped' = IF gpu_blocks[w] = None THEN ran_unmapped \union {w} ELSE ran_unmapped
        /\ finished' = finished + 1
        /\ UNCHANGED << acks, gpu_blocks, graphs, task_queue_len, in_hand, in_flight >>
  /\ UNCHANGED << gpu_suspended, pending_resume_registrations, control, controls, rankVars >>

-----------------------------------------------------------------------------
(* The transfer side: the manager's thread submits, the scheduler thread   *)
(* takes a graph from the queue and dispatches its ops.                    *)

SubmitGraph ==
  /\ graphs < MaxGraphs /\ control = Idle
  /\ \A r \in GpuRanks : rank[r].phase = "awake"
  /\ graphs' = graphs + 1 /\ task_queue_len' = task_queue_len + 1
  /\ UNCHANGED << in_hand, in_flight, finished, ran_unmapped, ctlVars, rankVars >>

TakeGraph ==
  /\ task_queue_len > 0
  /\ task_queue_len' = task_queue_len - 1 /\ in_hand' = in_hand + 1
  /\ UNCHANGED << graphs, in_flight, finished, ran_unmapped, ctlVars, rankVars >>

DispatchOp(w) ==
  /\ in_hand > 0
  /\ in_hand' = in_hand - 1 /\ in_flight' = in_flight + 1
  /\ pipe' = [pipe EXCEPT ![w] = Append(@, [type |-> "op"])]
  /\ UNCHANGED << graphs, task_queue_len, finished, ran_unmapped, rankVars, gpu_suspended,
                  pending_resume_registrations, control, controls, acks, gpu_blocks >>

CollectOp ==
  /\ finished > 0
  /\ finished' = finished - 1 /\ in_flight' = in_flight - 1
  /\ UNCHANGED << graphs, task_queue_len, in_hand, ran_unmapped, ctlVars, rankVars >>

RemapNext ==
  \/ \E r \in GpuRanks : \/ suspend_gpu_mappings(r) \/ after_device_wake(r)
                         \/ RankAnswered(r) \/ RankTimeout(r) \/ Begin(r)
  \/ SendControl \/ ReceiveAck \/ ControlTimeout
  \/ \E w \in WorkerSet : WorkerStep(w) \/ DispatchOp(w)
  \/ SubmitGraph \/ TakeGraph \/ CollectOp

RemapSpec == RemapInit /\ [][RemapNext]_remapVars

-----------------------------------------------------------------------------
\* No worker maps GPU memory that the framework has released, whatever control
\* requests timed out, were retried and were answered late: a suspend is granted
\* only when every worker confirmed this very request.
NoFreedMapping ==
  \A w \in WorkerSet, r \in GpuRanks : << r, gpu_blocks[w][r] >> \notin freed

\* "Cannot suspend GPU mappings with transfers in flight": no worker runs a
\* transfer between the suspend and the resume.
TransfersSeeMappings == ran_unmapped = {}
=============================================================================
