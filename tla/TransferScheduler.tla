-------------------------- MODULE TransferScheduler --------------------------
(***************************************************************************)
(* flexkv/transfer/scheduler.py with the graph operations it relies on     *)
(* (flexkv/common/transfer.py, TransferOpGraph): the transfer graphs in    *)
(* flight and the incremental scheduler that releases their operations in  *)
(* dependency order.  Only graphs in the dirty queue are visited.          *)
(*                                                                         *)
(* One call of schedule() is a series of steps: one per finished op, then  *)
(* one per visit of the graph at the head of the dirty queue, until the    *)
(* queue is empty.  Nothing else touches the scheduler in between; the     *)
(* steps exist because the loop is unbounded.                              *)
(***************************************************************************)
EXTENDS Naturals, Sequences

CONSTANTS
  Graphs,     \* graph ids
  Ops,        \* op ids
  graph_id,   \* graph_id[o]: the graph op o belongs to
  deps,       \* deps[o]: the ops o was made to depend on by add_dependency
  VirtualOps  \* ops of transfer type VIRTUAL: sinks that move no data

(* Dependencies never cross graphs: every caller of add_dependency passes two
   ops of the graph it is building, and add_dependency asserts it. *)
ASSUME SchedulerAssumption ==
  /\ graph_id \in [Ops -> Graphs]
  /\ deps \in [Ops -> SUBSET Ops]
  /\ VirtualOps \subseteq Ops
  /\ \A o \in Ops : \A p \in deps[o] : graph_id[p] = graph_id[o]

(* Nor do they form a cycle: the builders add edges along the tiers, and a
   sink last. *)
ASSUME AcyclicAssumption ==
  \A S \in SUBSET Ops : S # {} => \E o \in S : deps[o] \cap S = {}

op_map(g) == {o \in Ops : graph_id[o] = g}
successors(o) == {s \in Ops : o \in deps[s]}

VARIABLES
  submitted,            \* ids handed to add_transfer_graph so far
  transfer_graphs,      \* _transfer_graphs: the graphs in flight
  dirty_graph_ids,      \* _dirty_graph_ids: the ordered dict used as a queue
  status,               \* TransferOp.status
  predecessors,         \* TransferOp.predecessors: what the op still waits for
  ready_ops,            \* TransferOpGraph._ready_ops
  finished_ops,         \* the argument of schedule(), ops not yet marked
  next_ops,             \* the ops schedule() returns
  completed_graph_ids,  \* the graph ids schedule() returns
  scheduling            \* schedule() is running

graphVars == <<status, predecessors, ready_ops>>
resultVars == <<next_ops, completed_graph_ids>>
schedVars == <<submitted, transfer_graphs, dirty_graph_ids, graphVars,
               finished_ops, resultVars, scheduling>>

(* A graph before its first visit: every op PENDING, and ready exactly when
   add_dependency never made it a successor. *)
SchedInit ==
  /\ submitted = {}
  /\ transfer_graphs = {}
  /\ dirty_graph_ids = <<>>
  /\ status = [o \in Ops |-> "PENDING"]
  /\ predecessors = deps
  /\ ready_ops = [g \in Graphs |-> {o \in op_map(g) : deps[o] = {}}]
  /\ finished_ops = {}
  /\ next_ops = {}
  /\ completed_graph_ids = {}
  /\ scheduling = FALSE

InQueue(g, q) == \E i \in 1 .. Len(q) : q[i] = g

(* dict[key] = None: an id already in the dirty queue keeps its place. *)
Dirtied(q, g) == IF InQueue(g, q) THEN q ELSE Append(q, g)

add_transfer_graph(g) ==
  /\ g \notin submitted
  /\ submitted' = submitted \cup {g}
  /\ transfer_graphs' = transfer_graphs \cup {g}
  /\ dirty_graph_ids' = Dirtied(dirty_graph_ids, g)

(* fail_graph leaves the dirty id behind; schedule() skips it later. *)
fail_graph(g) == transfer_graphs' = transfer_graphs \ {g}

(* mark_completed for a set of ops: each leaves its successors' predecessor
   sets.  (Its assert that the op is RUNNING is the property MarksRunning.) *)
mark_completed(done, st, preds) ==
  /\ status' = [o \in Ops |-> IF o \in done THEN "COMPLETED" ELSE st[o]]
  /\ predecessors' = [o \in Ops |-> preds[o] \ done]

(* Seeded fault: one completed predecessor is enough. *)
Released_anyPredecessor(g) ==
  {o \in op_map(g) : /\ status[o] = "PENDING"
                     /\ \/ o \in ready_ops[g]
                        \/ \E p \in ready_ops[g] :
                             status[p] = "COMPLETED" /\ p \in deps[o]}

(* The ops take_ready_ops releases on a visit of g: the PENDING members of the
   ready set, and the unblocked successors of its COMPLETED members. *)
Released(g) ==
  {o \in op_map(g) : /\ status[o] = "PENDING"
                     /\ \/ o \in ready_ops[g]
                        \/ /\ predecessors[o] = {}
                           /\ \E p \in ready_ops[g] :
                                status[p] = "COMPLETED" /\ p \in deps[o]}

(* What take_ready_ops leaves in the ready set: COMPLETED members go out for
   good, released ops come in. *)
ReadyAfter(g) ==
  {o \in ready_ops[g] : status[o] # "COMPLETED"} \cup Released(g)

(* schedule(finished): the call, and its loop over the finished ops.  An op of
   a graph that is gone is ignored. *)
schedule(finished) ==
  /\ ~scheduling
  /\ scheduling' = TRUE
  /\ finished_ops' = finished
  /\ next_ops' = {}
  /\ completed_graph_ids' = {}

ScheduleFinished(o) ==
  /\ scheduling
  /\ o \in finished_ops
  /\ finished_ops' = finished_ops \ {o}
  /\ IF graph_id[o] \in transfer_graphs
       THEN /\ dirty_graph_ids' = Dirtied(dirty_graph_ids, graph_id[o])
            /\ mark_completed({o}, status, predecessors)
       ELSE UNCHANGED <<dirty_graph_ids, status, predecessors>>
  /\ UNCHANGED <<submitted, transfer_graphs, ready_ops, resultVars, scheduling>>

(* Seeded fault: a graph counts as complete when all ops have been taken. *)
all_transfer_ops_completed_allTaken(g) ==
  \A o \in op_map(g) : status'[o] # "PENDING"

(* all_transfer_ops_completed, on the state the visit leaves. *)
all_transfer_ops_completed(g) ==
  \A o \in op_map(g) : status'[o] = "COMPLETED"

(* Seeded fault: a virtual op that completed itself causes no second visit. *)
QueueAfterVisit_noRevisit(g, revisit) == Tail(dirty_graph_ids)

(* The dirty queue after a visit: the head leaves it, and comes back at the
   tail when a virtual op completed itself. *)
QueueAfterVisit(g, revisit) ==
  IF revisit THEN Append(Tail(dirty_graph_ids), g) ELSE Tail(dirty_graph_ids)

(* One turn of the drain loop on a graph that is still in flight. *)
VisitGraph(g) ==
  LET taken == Released(g)
      virtual == taken \cap VirtualOps
      complete == all_transfer_ops_completed(g)
  IN
  /\ mark_completed(virtual,
                    [o \in Ops |-> IF o \in taken THEN "RUNNING" ELSE status[o]],
                    predecessors)
  /\ ready_ops' = [ready_ops EXCEPT ![g] = ReadyAfter(g)]
  /\ next_ops' = next_ops \cup taken
  /\ IF complete
       THEN /\ completed_graph_ids' = completed_graph_ids \cup {g}
            /\ transfer_graphs' = transfer_graphs \ {g}
       ELSE UNCHANGED <<completed_graph_ids, transfer_graphs>>
  /\ dirty_graph_ids' = QueueAfterVisit(g, virtual # {} /\ ~complete)

ScheduleVisit ==
  /\ scheduling
  /\ finished_ops = {}
  /\ dirty_graph_ids # <<>>
  /\ LET g == Head(dirty_graph_ids) IN
     IF g \in transfer_graphs
       THEN VisitGraph(g)
       ELSE /\ dirty_graph_ids' = Tail(dirty_graph_ids)
            /\ UNCHANGED <<transfer_graphs, graphVars, resultVars>>
  /\ UNCHANGED <<submitted, finished_ops, scheduling>>

(* schedule() returns: the dirty queue is empty. *)
ScheduleReturn ==
  /\ scheduling
  /\ finished_ops = {}
  /\ dirty_graph_ids = <<>>
  /\ scheduling' = FALSE
  /\ UNCHANGED <<submitted, transfer_graphs, dirty_graph_ids, graphVars,
                 finished_ops, resultVars>>

ScheduleStep ==
  \/ \E o \in Ops : ScheduleFinished(o)
  \/ ScheduleVisit
  \/ ScheduleReturn
-----------------------------------------------------------------------------
(* The scheduler on its own: between two calls graphs are added, graphs fail
   (an op of theirs did), and any running op may be reported finished. *)
Running == {o \in Ops \ VirtualOps : status[o] = "RUNNING"}

AddGraph ==
  /\ ~scheduling
  /\ \E g \in Graphs : add_transfer_graph(g)
  /\ UNCHANGED <<graphVars, finished_ops, resultVars, scheduling>>

FailGraph ==
  /\ ~scheduling
  /\ \E o \in Running : fail_graph(graph_id[o])
  /\ UNCHANGED <<submitted, dirty_graph_ids, graphVars, finished_ops,
                 resultVars, scheduling>>

CallSchedule ==
  /\ \E finished \in SUBSET Running : schedule(finished)
  /\ UNCHANGED <<submitted, transfer_graphs, dirty_graph_ids, graphVars>>

SchedNext == AddGraph \/ FailGraph \/ CallSchedule \/ ScheduleStep

SchedSpec == SchedInit /\ [][SchedNext]_schedVars
-----------------------------------------------------------------------------
(* Types; the dirty queue holds an id at most once. *)
SchedTypeOK ==
  /\ submitted \subseteq Graphs
  /\ transfer_graphs \subseteq Graphs
  /\ dirty_graph_ids \in Seq(Graphs)
  /\ \A i, j \in 1 .. Len(dirty_graph_ids) :
       dirty_graph_ids[i] = dirty_graph_ids[j] => i = j
  /\ status \in [Ops -> {"PENDING", "RUNNING", "COMPLETED"}]
  /\ predecessors \in [Ops -> SUBSET Ops]
  /\ ready_ops \in [Graphs -> SUBSET Ops]
  /\ finished_ops \subseteq Ops
  /\ next_ops \subseteq Ops
  /\ completed_graph_ids \subseteq Graphs
  /\ scheduling \in BOOLEAN

(* take_ready_ops and mark_completed release an op only after every op it was
   made to depend on has completed, on every interleaving of finish reports,
   virtual self-completions and failures. *)
DependencyOrder ==
  \A o \in Ops : status[o] # "PENDING" =>
    \A p \in deps[o] : status[p] = "COMPLETED"

(* The claim behind incremental scheduling (scheduler.py, the comment on
   _dirty_graph_ids): after a call returns, a full sweep over the graphs in
   flight would find nothing the visits of dirty graphs missed. *)
NoStrandedWork ==
  ~scheduling =>
    \A g \in transfer_graphs : InQueue(g, dirty_graph_ids) \/
      /\ \E o \in op_map(g) : status[o] = "RUNNING"
      /\ \A o \in op_map(g) : status[o] = "PENDING" =>
           \E p \in deps[o] : status[p] # "COMPLETED"

(* mark_completed's assert: what schedule() is told has finished was running
   (or its graph is gone and the report is ignored). *)
MarksRunning ==
  \A o \in finished_ops :
    graph_id[o] \in transfer_graphs => status[o] = "RUNNING"

(* A graph is reported complete only with all of its ops complete, and it is
   then no longer in flight. *)
CompletionReport ==
  \A g \in completed_graph_ids :
    /\ g \notin transfer_graphs
    /\ \A o \in op_map(g) : status[o] = "COMPLETED"
=============================================================================
