-------------------------- MODULE TransferEngineProofs --------------------------
(* Proofs about TransferScheduler, for every set of graphs and every dependency  *)
(* relation inside them; about TransferEngine, which runs it, for every fan-out, *)
(* with any jobs failing and any workers dying; and, when no worker dies, that   *)
(* the engine implements TransferHandle.                                         *)
EXTENDS TransferEngine, FiniteSetTheorems, TLAPS

-------------------------------------------------------------------------------
(* The scheduler. *)

(* What an op no longer waits for has completed. *)
PredsDone ==
  \A o \in Ops : \A p \in deps[o] : p \in predecessors[o] \/ status[p] = "COMPLETED"

(* An op that was released waits for nothing. *)
StartedFree ==
  \A o \in Ops : status[o] # "PENDING" => predecessors[o] = {}

(* Nor does an op in a ready set: take_ready_ops releases it without looking. *)
ReadyFree ==
  \A g \in Graphs : \A o \in ready_ops[g] : predecessors[o] = {}

(* Only ops that run are reported finished: the assert of mark_completed, of
   graphs that are gone too. *)
FinishedRunning ==
  \A o \in finished_ops : status[o] = "RUNNING"

(* Graphs in flight and graphs reported complete have been submitted. *)
KnownGraphs ==
  transfer_graphs \subseteq submitted /\ completed_graph_ids \subseteq submitted

SchedInv ==
  /\ SchedTypeOK
  /\ PredsDone
  /\ StartedFree
  /\ ReadyFree
  /\ FinishedRunning
  /\ KnownGraphs
  /\ CompletionReport

(* An id is in the dirty queue at most once. *)
LEMMA DirtiedQueue ==
  ASSUME NEW q \in Seq(Graphs), NEW g \in Graphs,
         \A i, j \in 1 .. Len(q) : q[i] = q[j] => i = j
  PROVE  /\ Dirtied(q, g) \in Seq(Graphs)
         /\ \A i, j \in 1 .. Len(Dirtied(q, g)) :
              Dirtied(q, g)[i] = Dirtied(q, g)[j] => i = j
<1>1. CASE InQueue(g, q) BY <1>1 DEF Dirtied
<1>2. CASE ~InQueue(g, q)
  <2>1. Dirtied(q, g) = Append(q, g) BY <1>2 DEF Dirtied
  <2>2. \A i \in 1 .. Len(q) : q[i] # g BY <1>2 DEF InQueue
  <2> QED BY <2>1, <2>2
<1> QED BY <1>1, <1>2

(* A visit takes the head out, and puts it back at the tail at most. *)
LEMMA VisitedQueue ==
  ASSUME dirty_graph_ids \in Seq(Graphs), dirty_graph_ids # <<>>,
         \A i, j \in 1 .. Len(dirty_graph_ids) :
           dirty_graph_ids[i] = dirty_graph_ids[j] => i = j,
         NEW revisit \in BOOLEAN,
         NEW q, q = QueueAfterVisit(Head(dirty_graph_ids), revisit) \/ q = Tail(dirty_graph_ids)
  PROVE  q \in Seq(Graphs) /\ \A i, j \in 1 .. Len(q) : q[i] = q[j] => i = j
<1> DEFINE d == dirty_graph_ids
<1>1. /\ Tail(d) \in Seq(Graphs) /\ Len(Tail(d)) = Len(d) - 1
      /\ \A i \in 1 .. Len(Tail(d)) : Tail(d)[i] = d[i + 1]
      /\ Head(d) = d[1] /\ Head(d) \in Graphs /\ Len(d) \in Nat /\ Len(d) > 0
  OBVIOUS
<1>2. \A i, j \in 1 .. Len(Tail(d)) : Tail(d)[i] = Tail(d)[j] => i = j
  <2> SUFFICES ASSUME NEW i \in 1 .. Len(Tail(d)), NEW j \in 1 .. Len(Tail(d)),
                      Tail(d)[i] = Tail(d)[j]
               PROVE  i = j
    OBVIOUS
  <2>1. i + 1 \in 1 .. Len(d) /\ j + 1 \in 1 .. Len(d) BY <1>1
  <2>2. d[i + 1] = d[j + 1] BY <1>1
  <2>3. i + 1 = j + 1 BY <2>1, <2>2
  <2> QED BY <2>3
<1>3. ~InQueue(Head(d), Tail(d))
  <2> SUFFICES ASSUME NEW i \in 1 .. Len(Tail(d)), Tail(d)[i] = Head(d) PROVE FALSE
    BY DEF InQueue
  <2>1. i + 1 \in 1 .. Len(d) /\ 1 \in 1 .. Len(d) /\ i + 1 # 1 BY <1>1
  <2>2. d[i + 1] = d[1] BY <1>1
  <2> QED BY <2>1, <2>2
<1>4. Append(Tail(d), Head(d)) = Dirtied(Tail(d), Head(d)) BY <1>3 DEF Dirtied
<1>5. q = Tail(d) \/ q = Dirtied(Tail(d), Head(d)) BY <1>4 DEF QueueAfterVisit
<1>6. CASE q = Tail(d) BY <1>1, <1>2, <1>6
<1>7. CASE q = Dirtied(Tail(d), Head(d))
  <2>1. Tail(d) \in Seq(Graphs) /\ Head(d) \in Graphs BY <1>1
  <2> QED BY <1>2, <1>7, <2>1, DirtiedQueue
<1> QED BY <1>5, <1>6, <1>7

(* The empty scheduler. *)
LEMMA SchedInvInit == SchedInit => SchedInv
<1> SUFFICES ASSUME SchedInit PROVE SchedInv OBVIOUS
<1> USE SchedulerAssumption DEF SchedInit
<1>1. SchedTypeOK
  <2>1. /\ dirty_graph_ids \in Seq(Graphs)
        /\ \A i, j \in 1 .. Len(dirty_graph_ids) :
             dirty_graph_ids[i] = dirty_graph_ids[j] => i = j
    OBVIOUS
  <2>2. ready_ops \in [Graphs -> SUBSET Ops] BY DEF op_map
  <2>3. status \in [Ops -> {"PENDING", "RUNNING", "COMPLETED"}] OBVIOUS
  <2>4. scheduling \in BOOLEAN OBVIOUS
  <2> QED BY <2>1, <2>2, <2>3, <2>4 DEF SchedTypeOK
<1>2. PredsDone BY DEF PredsDone
<1>3. StartedFree BY DEF StartedFree
<1>4. ReadyFree BY DEF ReadyFree
<1>5. FinishedRunning /\ KnownGraphs /\ CompletionReport
  BY DEF FinishedRunning, KnownGraphs, CompletionReport
<1> QED BY <1>1, <1>2, <1>3, <1>4, <1>5 DEF SchedInv

(* add_transfer_graph. *)
LEMMA AddGraphStep == SchedInv /\ AddGraph => SchedInv'
<1> SUFFICES ASSUME SchedInv, AddGraph PROVE SchedInv' OBVIOUS
<1> USE DEF SchedInv
<1>1. PICK g \in Graphs : add_transfer_graph(g) BY DEF AddGraph
<1>2. UNCHANGED <<status, predecessors, ready_ops, finished_ops, next_ops,
                  completed_graph_ids, scheduling>>
  BY DEF AddGraph, graphVars, resultVars
<1>3. SchedTypeOK'
  BY <1>1, <1>2, DirtiedQueue DEF SchedTypeOK, add_transfer_graph
<1>4. PredsDone' /\ StartedFree' /\ ReadyFree' /\ FinishedRunning'
  BY <1>2 DEF PredsDone, StartedFree, ReadyFree, FinishedRunning
<1>5. KnownGraphs' BY <1>1, <1>2 DEF KnownGraphs, add_transfer_graph
<1>6. CompletionReport'
  BY <1>1, <1>2 DEF CompletionReport, KnownGraphs, add_transfer_graph
<1> QED BY <1>3, <1>4, <1>5, <1>6

(* fail_graph. *)
LEMMA FailGraphStep == SchedInv /\ FailGraph => SchedInv'
<1> SUFFICES ASSUME SchedInv, FailGraph PROVE SchedInv' OBVIOUS
<1> USE DEF SchedInv
<1>1. transfer_graphs' \subseteq transfer_graphs BY DEF FailGraph, fail_graph
<1>2. UNCHANGED <<submitted, dirty_graph_ids, status, predecessors, ready_ops,
                  finished_ops, next_ops, completed_graph_ids, scheduling>>
  BY DEF FailGraph, graphVars, resultVars
<1>3. SchedTypeOK' BY <1>1, <1>2 DEF SchedTypeOK
<1>4. PredsDone' /\ StartedFree' /\ ReadyFree' /\ FinishedRunning'
  BY <1>2 DEF PredsDone, StartedFree, ReadyFree, FinishedRunning
<1>5. KnownGraphs' /\ CompletionReport' BY <1>1, <1>2 DEF KnownGraphs, CompletionReport
<1> QED BY <1>3, <1>4, <1>5

(* The call of schedule(). *)
LEMMA CallScheduleStep == SchedInv /\ CallSchedule => SchedInv'
<1> SUFFICES ASSUME SchedInv, CallSchedule PROVE SchedInv' OBVIOUS
<1> USE DEF SchedInv
<1>1. PICK finished \in SUBSET Running : schedule(finished) BY DEF CallSchedule
<1>2. UNCHANGED <<submitted, transfer_graphs, dirty_graph_ids, status,
                  predecessors, ready_ops>>
  BY DEF CallSchedule, graphVars
<1>3. SchedTypeOK' BY <1>1, <1>2 DEF SchedTypeOK, schedule, Running
<1>4. PredsDone' /\ StartedFree' /\ ReadyFree'
  BY <1>2 DEF PredsDone, StartedFree, ReadyFree
<1>5. FinishedRunning' BY <1>1, <1>2 DEF FinishedRunning, schedule, Running
<1>6. KnownGraphs' /\ CompletionReport'
  BY <1>1, <1>2 DEF KnownGraphs, CompletionReport, schedule
<1> QED BY <1>3, <1>4, <1>5, <1>6

(* A finished op is marked, or ignored when its graph is gone. *)
LEMMA FinishedStep ==
  ASSUME SchedInv, NEW o \in Ops, ScheduleFinished(o)
  PROVE  SchedInv'
<1> USE DEF SchedInv
<1>0. UNCHANGED <<submitted, transfer_graphs, ready_ops, next_ops,
                  completed_graph_ids, scheduling>>
  BY DEF ScheduleFinished, resultVars
<1>1. finished_ops' = finished_ops \ {o} /\ o \in finished_ops BY DEF ScheduleFinished
<1>2. CASE graph_id[o] \notin transfer_graphs
  <2>1. UNCHANGED <<dirty_graph_ids, status, predecessors>>
    BY <1>2 DEF ScheduleFinished
  <2> QED
    BY <1>0, <1>1, <2>1 DEF SchedTypeOK, PredsDone, StartedFree, ReadyFree,
                            FinishedRunning, KnownGraphs, CompletionReport
<1>3. CASE graph_id[o] \in transfer_graphs
  <2>1. /\ dirty_graph_ids' = Dirtied(dirty_graph_ids, graph_id[o])
        /\ status' = [q \in Ops |-> IF q \in {o} THEN "COMPLETED" ELSE status[q]]
        /\ predecessors' = [q \in Ops |-> predecessors[q] \ {o}]
    BY <1>3 DEF ScheduleFinished, mark_completed
  <2>2. SchedTypeOK'
    BY <1>0, <1>1, <2>1, DirtiedQueue, SchedulerAssumption DEF SchedTypeOK
  <2>3. PredsDone' BY <2>1, SchedulerAssumption DEF PredsDone, SchedTypeOK
  <2>4. status[o] # "PENDING" BY <1>1 DEF FinishedRunning
  <2>5. StartedFree' BY <2>1, <2>4 DEF StartedFree, SchedTypeOK
  <2>6. ReadyFree' BY <1>0, <2>1 DEF ReadyFree, SchedTypeOK
  <2>7. FinishedRunning' BY <1>1, <2>1 DEF FinishedRunning, SchedTypeOK
  <2>8. KnownGraphs' BY <1>0 DEF KnownGraphs
  <2>9. CompletionReport' BY <1>0, <2>1 DEF CompletionReport, op_map
  <2> QED BY <2>2, <2>3, <2>5, <2>6, <2>7, <2>8, <2>9
<1> QED BY <1>2, <1>3

(* take_ready_ops releases ops that wait for nothing. *)
LEMMA ReleasedFree ==
  ASSUME SchedInv, NEW g \in Graphs, NEW o \in Released(g)
  PROVE  o \in Ops /\ status[o] = "PENDING" /\ predecessors[o] = {}
BY DEF SchedInv, ReadyFree, Released, op_map

(* A visit of a graph in flight. *)
LEMMA VisitStep ==
  ASSUME SchedInv, ScheduleVisit, Head(dirty_graph_ids) \in transfer_graphs
  PROVE  SchedInv'
<1> USE DEF SchedInv
<1>0. PICK g \in Graphs : g = Head(dirty_graph_ids) /\ VisitGraph(g)
  BY DEF ScheduleVisit, SchedTypeOK
<1>1. finished_ops = {} /\ UNCHANGED <<submitted, finished_ops, scheduling>>
  BY DEF ScheduleVisit
<1> DEFINE run == [q \in Ops |-> IF q \in Released(g) THEN "RUNNING" ELSE status[q]]
<1> DEFINE virtual == Released(g) \cap VirtualOps
<1>2. /\ status' = [q \in Ops |-> IF q \in virtual THEN "COMPLETED" ELSE run[q]]
      /\ predecessors' = [q \in Ops |-> predecessors[q] \ virtual]
      /\ ready_ops' = [ready_ops EXCEPT ![g] = ReadyAfter(g)]
      /\ next_ops' = next_ops \cup Released(g)
  BY <1>0 DEF VisitGraph, mark_completed
<1>3. \/ /\ completed_graph_ids' = completed_graph_ids \cup {g}
         /\ transfer_graphs' = transfer_graphs \ {g}
         /\ \A q \in op_map(g) : status'[q] = "COMPLETED"
      \/ UNCHANGED <<completed_graph_ids, transfer_graphs>>
  BY <1>0 DEF VisitGraph, all_transfer_ops_completed
<1>4. dirty_graph_ids' = QueueAfterVisit(g, TRUE) \/ dirty_graph_ids' = Tail(dirty_graph_ids)
  BY <1>0 DEF VisitGraph, QueueAfterVisit
<1>5. Released(g) \subseteq Ops BY ReleasedFree
<1>6. \A q \in Ops : /\ status[q] = "COMPLETED" => status'[q] = "COMPLETED"
                     /\ status'[q] # "PENDING" => status[q] # "PENDING" \/ q \in Released(g)
                     /\ predecessors'[q] \subseteq predecessors[q]
  BY <1>2, ReleasedFree
<1>7. SchedTypeOK'
  <2>1. /\ dirty_graph_ids' \in Seq(Graphs)
        /\ \A i, j \in 1 .. Len(dirty_graph_ids') :
             dirty_graph_ids'[i] = dirty_graph_ids'[j] => i = j
    BY <1>0, <1>4, VisitedQueue DEF SchedTypeOK, ScheduleVisit
  <2>2. status' \in [Ops -> {"PENDING", "RUNNING", "COMPLETED"}]
    BY <1>2 DEF SchedTypeOK
  <2>3. predecessors' \in [Ops -> SUBSET Ops] BY <1>2 DEF SchedTypeOK
  <2>4. ready_ops' \in [Graphs -> SUBSET Ops]
    BY <1>2, <1>5 DEF SchedTypeOK, ReadyAfter
  <2>5. /\ next_ops' \subseteq Ops /\ completed_graph_ids' \subseteq Graphs
        /\ transfer_graphs' \subseteq Graphs
    BY <1>2, <1>3, <1>5 DEF SchedTypeOK
  <2> QED BY <1>1, <2>1, <2>2, <2>3, <2>4, <2>5 DEF SchedTypeOK
<1>8. PredsDone'
  <2> SUFFICES ASSUME NEW o \in Ops, NEW p \in deps[o], p \notin predecessors'[o]
               PROVE  status'[p] = "COMPLETED"
    BY DEF PredsDone
  <2>1. p \in Ops BY SchedulerAssumption
  <2>2. CASE p \in virtual BY <1>2, <2>1, <2>2
  <2>3. CASE p \notin virtual
    <3>1. p \notin predecessors[o] BY <1>2, <2>3
    <3> QED BY <1>6, <2>1, <3>1 DEF PredsDone
  <2> QED BY <2>2, <2>3
<1>9. StartedFree' BY <1>6, ReleasedFree DEF StartedFree
<1>10. ReadyFree'
  <2> SUFFICES ASSUME NEW h \in Graphs, NEW o \in ready_ops'[h]
               PROVE  predecessors'[o] = {}
    BY DEF ReadyFree
  <2>1. o \in ready_ops[h] \/ o \in Released(g)
    BY <1>2 DEF ReadyAfter, SchedTypeOK
  <2>2. o \in Ops /\ predecessors[o] = {} BY <2>1, ReleasedFree DEF ReadyFree, SchedTypeOK
  <2> QED BY <1>6, <2>2
<1>11. FinishedRunning' BY <1>1 DEF FinishedRunning
<1>12. KnownGraphs' BY <1>0, <1>1, <1>3 DEF KnownGraphs
<1>13. CompletionReport' BY <1>3, <1>6 DEF CompletionReport, op_map
<1> QED BY <1>7, <1>8, <1>9, <1>10, <1>11, <1>12, <1>13

(* A dirty id whose graph is gone is dropped. *)
LEMMA SkipStep ==
  ASSUME SchedInv, ScheduleVisit, Head(dirty_graph_ids) \notin transfer_graphs
  PROVE  SchedInv'
<1> USE DEF SchedInv
<1>1. /\ dirty_graph_ids' = Tail(dirty_graph_ids)
      /\ UNCHANGED <<submitted, transfer_graphs, status, predecessors, ready_ops,
                     finished_ops, next_ops, completed_graph_ids, scheduling>>
  BY DEF ScheduleVisit, graphVars, resultVars
<1>2. SchedTypeOK' BY <1>1, VisitedQueue DEF SchedTypeOK, ScheduleVisit
<1> QED
  BY <1>1, <1>2 DEF PredsDone, StartedFree, ReadyFree, FinishedRunning, KnownGraphs,
                    CompletionReport

(* schedule() returns, or nothing happens. *)
LEMMA QuietStep ==
  ASSUME SchedInv, ScheduleReturn \/ UNCHANGED schedVars
  PROVE  SchedInv'
<1> USE DEF SchedInv
<1>1. UNCHANGED <<submitted, transfer_graphs, dirty_graph_ids, status, predecessors,
                  ready_ops, finished_ops, next_ops, completed_graph_ids>>
  BY DEF ScheduleReturn, schedVars, graphVars, resultVars
<1>2. scheduling' \in BOOLEAN BY DEF ScheduleReturn, schedVars, SchedTypeOK
<1> QED
  BY <1>1, <1>2 DEF SchedTypeOK, PredsDone, StartedFree, ReadyFree, FinishedRunning,
                    KnownGraphs, CompletionReport

LEMMA SchedInvStep == SchedInv /\ [SchedNext]_schedVars => SchedInv'
<1> SUFFICES ASSUME SchedInv, [SchedNext]_schedVars PROVE SchedInv' OBVIOUS
<1>1. CASE ScheduleStep
  BY <1>1, FinishedStep, VisitStep, SkipStep, QuietStep DEF ScheduleStep
<1> QED
  BY <1>1, AddGraphStep, FailGraphStep, CallScheduleStep, QuietStep DEF SchedNext

(* The inductive invariant holds in every reachable state. *)
THEOREM SchedulerCorrect == SchedSpec => []SchedInv
BY SchedInvInit, SchedInvStep, PTL DEF SchedSpec

(* The state of the scheduler keeps its types, and the dirty queue holds no id
   twice. *)
THEOREM SchedulerTypes == SchedSpec => []SchedTypeOK
<1>1. SchedInv => SchedTypeOK BY DEF SchedInv
<1> QED BY <1>1, SchedulerCorrect, PTL

(* No op is handed out before every op it depends on has completed, whatever
   the graphs look like and in whatever order reports arrive. *)
THEOREM DependencyOrderAlways == SchedSpec => []DependencyOrder
<1>1. SchedInv => DependencyOrder
  BY DEF SchedInv, DependencyOrder, StartedFree, PredsDone
<1> QED BY <1>1, SchedulerCorrect, PTL

(* A graph is reported complete only when all of its ops are, and it has left
   the scheduler by then. *)
THEOREM CompletionReportAlways == SchedSpec => []CompletionReport
<1>1. SchedInv => CompletionReport BY DEF SchedInv
<1> QED BY <1>1, SchedulerCorrect, PTL
-----------------------------------------------------------------------------
(* What the dirty queue may forget.  An op waits only for ops that have not     *)
(* completed.                                                                  *)
StillAwaited ==
  \A o \in Ops : \A p \in predecessors[o] : p \in deps[o] /\ status[p] # "COMPLETED"

(* The ready set of a graph holds ops of that graph, and all that run. *)
ReadyInGraph ==
  \A g \in Graphs : ready_ops[g] \subseteq op_map(g)

RunningReady ==
  \A o \in Ops : status[o] = "RUNNING" => o \in ready_ops[graph_id[o]]

(* take_ready_ops looks at the ready set only; from there it reaches every op
   that may start. *)
UnblockedFound ==
  \A o \in Ops : status[o] = "PENDING" /\ predecessors[o] = {} =>
    \/ o \in ready_ops[graph_id[o]]
    \/ \E p \in ready_ops[graph_id[o]] : status[p] = "COMPLETED" /\ p \in deps[o]

(* A graph in flight that is not dirty has nothing but running ops in its ready
   set, and is not complete. *)
CleanGraphs ==
  \A g \in transfer_graphs : InQueue(g, dirty_graph_ids) \/
    /\ \A o \in ready_ops[g] : status[o] = "RUNNING"
    /\ \E o \in op_map(g) : status[o] # "COMPLETED"

DrainInv ==
  /\ StillAwaited
  /\ ReadyInGraph
  /\ RunningReady
  /\ UnblockedFound
  /\ CleanGraphs

(* An id that is put in the queue is in it, and no other id leaves. *)
LEMMA DirtiedHolds ==
  ASSUME NEW q \in Seq(Graphs), NEW g \in Graphs
  PROVE  /\ InQueue(g, Dirtied(q, g))
         /\ \A h \in Graphs : InQueue(h, q) => InQueue(h, Dirtied(q, g))
<1>1. CASE InQueue(g, q) BY <1>1 DEF Dirtied
<1>2. CASE ~InQueue(g, q)
  <2>1. Dirtied(q, g) = Append(q, g) BY <1>2 DEF Dirtied
  <2>2. /\ Len(Append(q, g)) = Len(q) + 1 /\ Len(q) \in Nat
        /\ Append(q, g)[Len(q) + 1] = g
        /\ \A i \in 1 .. Len(q) : Append(q, g)[i] = q[i]
    OBVIOUS
  <2>3. InQueue(g, Append(q, g))
    <3>1. Len(q) + 1 \in 1 .. Len(Append(q, g)) BY <2>2
    <3> QED BY <2>2, <3>1 DEF InQueue
  <2>4. \A h \in Graphs : InQueue(h, q) => InQueue(h, Append(q, g)) BY <2>2 DEF InQueue
  <2> QED BY <2>1, <2>3, <2>4
<1> QED BY <1>1, <1>2

(* Only the head leaves the queue. *)
LEMMA TailHolds ==
  ASSUME NEW q \in Seq(Graphs), q # <<>>, NEW h \in Graphs, InQueue(h, q), h # Head(q)
  PROVE  InQueue(h, Tail(q))
<1>1. PICK i \in 1 .. Len(q) : q[i] = h BY DEF InQueue
<1>2. /\ Len(q) \in Nat /\ Len(Tail(q)) = Len(q) - 1 /\ Head(q) = q[1]
      /\ \A k \in 1 .. Len(Tail(q)) : Tail(q)[k] = q[k + 1]
  OBVIOUS
<1>3. i # 1 BY <1>1, <1>2
<1>4. i - 1 \in 1 .. Len(Tail(q)) BY <1>2, <1>3
<1>5. Tail(q)[i - 1] = q[(i - 1) + 1] BY <1>2, <1>4
<1>6. (i - 1) + 1 = i OBVIOUS
<1> QED BY <1>1, <1>4, <1>5, <1>6 DEF InQueue

LEMMA DrainInvInit == SchedInit => DrainInv
<1> SUFFICES ASSUME SchedInit PROVE DrainInv OBVIOUS
<1> USE SchedulerAssumption DEF SchedInit
<1>1. StillAwaited BY DEF StillAwaited
<1>2. ReadyInGraph BY DEF ReadyInGraph
<1>3. RunningReady BY DEF RunningReady
<1>4. UnblockedFound BY DEF UnblockedFound, op_map
<1>5. CleanGraphs BY DEF CleanGraphs
<1> QED BY <1>1, <1>2, <1>3, <1>4, <1>5 DEF DrainInv

(* A step that leaves the ops alone and takes no id out of the queue of a graph
   that stays in flight. *)
LEMMA DrainFrame ==
  ASSUME DrainInv, UNCHANGED graphVars,
         \A g \in transfer_graphs' :
           \/ InQueue(g, dirty_graph_ids')
           \/ g \in transfer_graphs /\ ~InQueue(g, dirty_graph_ids)
  PROVE  DrainInv'
<1> USE DEF DrainInv, graphVars
<1>1. StillAwaited' /\ ReadyInGraph' /\ RunningReady' /\ UnblockedFound'
  BY DEF StillAwaited, ReadyInGraph, RunningReady, UnblockedFound
<1>2. CleanGraphs' BY DEF CleanGraphs
<1> QED BY <1>1, <1>2

LEMMA DrainFinished ==
  ASSUME SchedInv, DrainInv, NEW o \in Ops, ScheduleFinished(o)
  PROVE  DrainInv'
<1> USE DEF DrainInv
<1>0. UNCHANGED <<transfer_graphs, ready_ops>> /\ o \in finished_ops
  BY DEF ScheduleFinished
<1>1. CASE graph_id[o] \notin transfer_graphs
  BY <1>0, <1>1, DrainFrame DEF ScheduleFinished, graphVars
<1>2. CASE graph_id[o] \in transfer_graphs
  <2>1. /\ dirty_graph_ids' = Dirtied(dirty_graph_ids, graph_id[o])
        /\ status' = [q \in Ops |-> IF q \in {o} THEN "COMPLETED" ELSE status[q]]
        /\ predecessors' = [q \in Ops |-> predecessors[q] \ {o}]
    BY <1>2 DEF ScheduleFinished, mark_completed
  <2>2. /\ status[o] = "RUNNING" /\ graph_id[o] \in Graphs
        /\ dirty_graph_ids \in Seq(Graphs) /\ transfer_graphs \subseteq Graphs
        /\ predecessors \in [Ops -> SUBSET Ops] /\ ready_ops \in [Graphs -> SUBSET Ops]
    BY <1>0, SchedulerAssumption DEF SchedInv, FinishedRunning, SchedTypeOK
  <2>3. o \in ready_ops[graph_id[o]] BY <2>2 DEF RunningReady
  <2>4. StillAwaited' BY <2>1, <2>2 DEF StillAwaited
  <2>5. ReadyInGraph' /\ RunningReady' BY <1>0, <2>1 DEF ReadyInGraph, RunningReady
  <2>6. UnblockedFound'
    <3> SUFFICES ASSUME NEW q \in Ops, status'[q] = "PENDING", predecessors'[q] = {}
                 PROVE  \/ q \in ready_ops[graph_id[q]]
                        \/ \E p \in ready_ops[graph_id[q]] :
                             status'[p] = "COMPLETED" /\ p \in deps[q]
      BY <1>0 DEF UnblockedFound
    <3>1. status[q] = "PENDING" BY <2>1
    <3>2. CASE o \in predecessors[q]
      <4>1. o \in deps[q] /\ graph_id[o] = graph_id[q]
        BY <3>2, SchedulerAssumption DEF StillAwaited
      <4>2. status'[o] = "COMPLETED" BY <2>1
      <4> QED BY <2>3, <4>1, <4>2
    <3>3. CASE o \notin predecessors[q]
      <4>1. predecessors[q] = {} BY <2>1, <3>3
      <4>2. \A p \in Ops : status[p] = "COMPLETED" => status'[p] = "COMPLETED" BY <2>1
      <4>3. ready_ops[graph_id[q]] \subseteq Ops BY <2>2, SchedulerAssumption
      <4> QED BY <3>1, <4>1, <4>2, <4>3 DEF UnblockedFound
    <3> QED BY <3>2, <3>3
  <2>7. CleanGraphs'
    <3> SUFFICES ASSUME NEW g \in transfer_graphs, ~InQueue(g, dirty_graph_ids')
                 PROVE  /\ \A q \in ready_ops[g] : status'[q] = "RUNNING"
                        /\ \E q \in op_map(g) : status'[q] # "COMPLETED"
      BY <1>0 DEF CleanGraphs
    <3>1. g # graph_id[o] /\ ~InQueue(g, dirty_graph_ids) BY <2>1, <2>2, DirtiedHolds
    <3>2. \A q \in op_map(g) : q \in Ops /\ q # o BY <3>1 DEF op_map
    <3>3. \A q \in op_map(g) : status'[q] = status[q] BY <2>1, <3>2
    <3>4. ready_ops[g] \subseteq op_map(g) BY <2>2 DEF ReadyInGraph
    <3> QED BY <3>1, <3>3, <3>4 DEF CleanGraphs
  <2> QED BY <2>4, <2>5, <2>6, <2>7
<1> QED BY <1>1, <1>2

LEMMA DrainVisit ==
  ASSUME SchedInv, DrainInv, ScheduleVisit, Head(dirty_graph_ids) \in transfer_graphs
  PROVE  DrainInv'
<1> USE DEF DrainInv
<1>0. PICK g \in Graphs : g = Head(dirty_graph_ids) /\ VisitGraph(g) /\ g \in transfer_graphs
  BY DEF ScheduleVisit, SchedInv, SchedTypeOK
<1> DEFINE taken == Released(g)
<1> DEFINE virtual == taken \cap VirtualOps
<1> DEFINE run == [q \in Ops |-> IF q \in taken THEN "RUNNING" ELSE status[q]]
<1>1. /\ status' = [q \in Ops |-> IF q \in virtual THEN "COMPLETED" ELSE run[q]]
      /\ predecessors' = [q \in Ops |-> predecessors[q] \ virtual]
      /\ ready_ops' = [ready_ops EXCEPT ![g] = ReadyAfter(g)]
  BY <1>0 DEF VisitGraph, mark_completed
<1>2. \/ transfer_graphs' = transfer_graphs \ {g}
      \/ /\ UNCHANGED transfer_graphs
         /\ \E q \in op_map(g) : status'[q] # "COMPLETED"
         /\ dirty_graph_ids' = QueueAfterVisit(g, virtual # {})
  BY <1>0 DEF VisitGraph, all_transfer_ops_completed
<1>3. \/ dirty_graph_ids' = Append(Tail(dirty_graph_ids), g)
      \/ dirty_graph_ids' = Tail(dirty_graph_ids)
  BY <1>0 DEF VisitGraph, QueueAfterVisit
<1>4. /\ dirty_graph_ids \in Seq(Graphs) /\ dirty_graph_ids # <<>>
      /\ transfer_graphs \subseteq Graphs /\ predecessors \in [Ops -> SUBSET Ops]
      /\ ready_ops \in [Graphs -> SUBSET Ops]
      /\ status \in [Ops -> {"PENDING", "RUNNING", "COMPLETED"}]
  BY DEF ScheduleVisit, SchedInv, SchedTypeOK
<1>5. /\ taken \subseteq op_map(g) /\ op_map(g) \subseteq Ops
      /\ \A q \in taken : status[q] = "PENDING"
  BY DEF Released, op_map
<1>6. \A q \in Ops : status'[q] = IF q \in virtual THEN "COMPLETED"
                                  ELSE IF q \in taken THEN "RUNNING" ELSE status[q]
  BY <1>1
<1>7. /\ ready_ops'[g] = {q \in ready_ops[g] : status[q] # "COMPLETED"} \cup taken
      /\ \A h \in Graphs : h # g => ready_ops'[h] = ready_ops[h]
  BY <1>1, <1>4 DEF ReadyAfter
<1>8. StillAwaited'
  <2> SUFFICES ASSUME NEW q \in Ops, NEW p \in predecessors'[q]
               PROVE  p \in deps[q] /\ status'[p] # "COMPLETED"
    BY DEF StillAwaited
  <2>1. p \in predecessors[q] /\ p \notin virtual /\ p \in Ops BY <1>1, <1>4
  <2>2. p \in deps[q] /\ status[p] # "COMPLETED" BY <2>1 DEF StillAwaited
  <2> QED BY <1>6, <2>1, <2>2
<1>9. ReadyInGraph' BY <1>4, <1>5, <1>7 DEF ReadyInGraph
<1>10. RunningReady'
  <2> SUFFICES ASSUME NEW q \in Ops, status'[q] = "RUNNING"
               PROVE  q \in ready_ops'[graph_id[q]]
    BY DEF RunningReady
  <2>1. graph_id[q] \in Graphs BY SchedulerAssumption
  <2>2. CASE q \in taken BY <1>5, <1>7, <2>2 DEF op_map
  <2>3. CASE q \notin taken
    <3>1. status[q] = "RUNNING" BY <1>6, <2>3
    <3>2. q \in ready_ops[graph_id[q]] BY <3>1 DEF RunningReady
    <3> QED BY <1>7, <2>1, <3>1, <3>2
  <2> QED BY <2>2, <2>3
<1>11. UnblockedFound'
  <2> SUFFICES ASSUME NEW q \in Ops, status'[q] = "PENDING", predecessors'[q] = {}
               PROVE  \/ q \in ready_ops'[graph_id[q]]
                      \/ \E p \in ready_ops'[graph_id[q]] :
                           status'[p] = "COMPLETED" /\ p \in deps[q]
    BY DEF UnblockedFound
  <2>1. q \notin taken /\ status[q] = "PENDING" BY <1>6
  <2>2. graph_id[q] \in Graphs BY SchedulerAssumption
  <2>3. CASE predecessors[q] = {}
    <3>1. \/ q \in ready_ops[graph_id[q]]
          \/ \E p \in ready_ops[graph_id[q]] : status[p] = "COMPLETED" /\ p \in deps[q]
      BY <2>1, <2>3 DEF UnblockedFound
    <3>2. graph_id[q] # g BY <2>1, <2>3, <3>1 DEF Released, op_map
    <3>3. ready_ops'[graph_id[q]] = ready_ops[graph_id[q]] BY <1>7, <2>2, <3>2
    <3>4. \A p \in Ops : status[p] = "COMPLETED" => status'[p] = "COMPLETED" BY <1>5, <1>6
    <3>5. ready_ops[graph_id[q]] \subseteq Ops BY <1>4, <2>2
    <3> QED BY <3>1, <3>3, <3>4, <3>5
  <2>4. CASE predecessors[q] # {}
    <3>1. PICK p \in predecessors[q] : TRUE BY <2>4
    <3>2. p \in virtual /\ p \in Ops BY <1>1, <1>4, <3>1
    <3>3. p \in deps[q] /\ graph_id[p] = graph_id[q] BY <3>1, SchedulerAssumption DEF StillAwaited
    <3>4. graph_id[q] = g BY <1>5, <3>2, <3>3 DEF op_map
    <3>5. status'[p] = "COMPLETED" /\ p \in ready_ops'[g] BY <1>6, <1>7, <3>2
    <3> QED BY <3>3, <3>4, <3>5
  <2> QED BY <2>3, <2>4
<1>12. CleanGraphs'
  <2> SUFFICES ASSUME NEW h \in transfer_graphs', ~InQueue(h, dirty_graph_ids')
               PROVE  /\ \A q \in ready_ops'[h] : status'[q] = "RUNNING"
                      /\ \E q \in op_map(h) : status'[q] # "COMPLETED"
    BY DEF CleanGraphs
  <2>0. h \in transfer_graphs /\ h \in Graphs BY <1>2, <1>4
  <2>1. CASE h = g
    <3>1. /\ \E q \in op_map(g) : status'[q] # "COMPLETED"
          /\ dirty_graph_ids' = QueueAfterVisit(g, virtual # {})
      BY <1>2, <2>1
    <3>2. Tail(dirty_graph_ids) \in Seq(Graphs) BY <1>4
    <3>3. virtual = {}
      <4> SUFFICES ASSUME virtual # {} PROVE FALSE OBVIOUS
      <4>1. dirty_graph_ids' = Append(Tail(dirty_graph_ids), g) BY <3>1 DEF QueueAfterVisit
      <4>2. InQueue(g, Append(Tail(dirty_graph_ids), g))
        <5> DEFINE t == Tail(dirty_graph_ids)
        <5>1. Len(t) \in Nat /\ Len(Append(t, g)) = Len(t) + 1 /\ Append(t, g)[Len(t) + 1] = g
          BY <3>2
        <5>2. Len(t) + 1 \in 1 .. Len(Append(t, g)) BY <5>1
        <5> QED BY <5>1, <5>2 DEF InQueue
      <4> QED BY <2>1, <4>1, <4>2
    <3>4. \A q \in ready_ops'[g] : status'[q] = "RUNNING"
      <4> SUFFICES ASSUME NEW q \in ready_ops'[g] PROVE status'[q] = "RUNNING" OBVIOUS
      <4>1. q \in Ops BY <1>4, <1>5, <1>7
      <4>2. CASE q \in taken BY <1>6, <3>3, <4>1, <4>2
      <4>3. CASE q \notin taken
        <5>1. q \in ready_ops[g] /\ status[q] # "COMPLETED" BY <1>7, <4>3
        <5>2. q \in op_map(g) BY <5>1 DEF ReadyInGraph
        <5>3. status[q] # "PENDING" BY <4>3, <5>1, <5>2 DEF Released
        <5> QED BY <1>4, <1>6, <4>1, <4>3, <5>1, <5>3
      <4> QED BY <4>2, <4>3
    <3> QED BY <2>1, <3>1, <3>4
  <2>2. CASE h # g
    <3>1. ~InQueue(h, dirty_graph_ids)
      <4> SUFFICES ASSUME InQueue(h, dirty_graph_ids) PROVE FALSE OBVIOUS
      <4>1. InQueue(h, Tail(dirty_graph_ids)) BY <1>0, <1>4, <2>0, <2>2, TailHolds
      <4>2. CASE dirty_graph_ids' = Tail(dirty_graph_ids) BY <4>1, <4>2
      <4>3. CASE dirty_graph_ids' = Append(Tail(dirty_graph_ids), g)
        <5> DEFINE t == Tail(dirty_graph_ids)
        <5>1. t \in Seq(Graphs) BY <1>4
        <5>2. /\ Len(t) \in Nat /\ Len(Append(t, g)) = Len(t) + 1
              /\ \A i \in 1 .. Len(t) : Append(t, g)[i] = t[i]
          BY <5>1
        <5>3. PICK i \in 1 .. Len(t) : t[i] = h BY <4>1 DEF InQueue
        <5>4. i \in 1 .. Len(Append(t, g)) /\ Append(t, g)[i] = h BY <5>2, <5>3
        <5> QED BY <4>3, <5>4 DEF InQueue
      <4> QED BY <1>3, <4>2, <4>3
    <3>2. \A q \in op_map(h) : status'[q] = status[q]
      BY <1>5, <1>6, <2>2 DEF op_map
    <3>3. ready_ops'[h] = ready_ops[h] /\ ready_ops[h] \subseteq op_map(h)
      BY <1>7, <2>0, <2>2 DEF ReadyInGraph
    <3> QED BY <2>0, <3>1, <3>2, <3>3 DEF CleanGraphs
  <2> QED BY <2>1, <2>2
<1> QED BY <1>8, <1>9, <1>10, <1>11, <1>12

LEMMA DrainSkip ==
  ASSUME SchedInv, DrainInv, ScheduleVisit, Head(dirty_graph_ids) \notin transfer_graphs
  PROVE  DrainInv'
<1>1. /\ dirty_graph_ids' = Tail(dirty_graph_ids)
      /\ UNCHANGED <<transfer_graphs, graphVars>>
  BY DEF ScheduleVisit
<1>2. dirty_graph_ids \in Seq(Graphs) /\ dirty_graph_ids # <<>> /\ transfer_graphs \subseteq Graphs
  BY DEF ScheduleVisit, SchedInv, SchedTypeOK
<1>3. \A h \in transfer_graphs' :
        h \in transfer_graphs
        /\ (InQueue(h, dirty_graph_ids) => InQueue(h, dirty_graph_ids'))
  BY <1>1, <1>2, TailHolds
<1> QED BY <1>1, <1>3, DrainFrame

LEMMA DrainStep ==
  ASSUME SchedInv, DrainInv, ScheduleStep
  PROVE  DrainInv'
<1>1. CASE \E o \in Ops : ScheduleFinished(o) BY <1>1, DrainFinished
<1>2. CASE ScheduleVisit BY <1>2, DrainVisit, DrainSkip
<1>3. CASE ScheduleReturn
  BY <1>3, DrainFrame DEF ScheduleReturn, graphVars
<1> QED BY <1>1, <1>2, <1>3 DEF ScheduleStep

(* Adding a graph puts it in the queue; failing one takes it out of flight. *)
LEMMA DrainAdd ==
  ASSUME SchedInv, DrainInv, UNCHANGED graphVars, NEW g \in Graphs, add_transfer_graph(g)
  PROVE  DrainInv'
<1>1. \A h \in transfer_graphs' :
        \/ InQueue(h, dirty_graph_ids')
        \/ h \in transfer_graphs /\ ~InQueue(h, dirty_graph_ids)
  BY DirtiedHolds DEF add_transfer_graph, SchedInv, SchedTypeOK
<1> QED BY <1>1, DrainFrame

LEMMA DrainInvStep == SchedInv /\ DrainInv /\ [SchedNext]_schedVars => DrainInv'
<1> SUFFICES ASSUME SchedInv, DrainInv, [SchedNext]_schedVars PROVE DrainInv' OBVIOUS
<1>1. CASE AddGraph BY <1>1, DrainAdd DEF AddGraph
<1>2. CASE FailGraph BY <1>2, DrainFrame DEF FailGraph, fail_graph
<1>3. CASE CallSchedule BY <1>3, DrainFrame DEF CallSchedule
<1>4. CASE ScheduleStep BY <1>4, DrainStep
<1>5. CASE UNCHANGED schedVars BY <1>5, DrainFrame DEF schedVars
<1> QED BY <1>1, <1>2, <1>3, <1>4, <1>5 DEF SchedNext

(* Without a cycle, the first op that has not completed is one that runs. *)
LEMMA NothingStranded == SchedInv /\ DrainInv => NoStrandedWork
<1> SUFFICES ASSUME SchedInv, DrainInv, NEW g \in transfer_graphs,
                    ~InQueue(g, dirty_graph_ids)
             PROVE  /\ \E o \in op_map(g) : status[o] = "RUNNING"
                    /\ \A o \in op_map(g) : status[o] = "PENDING" =>
                         \E p \in deps[o] : status[p] # "COMPLETED"
  BY DEF NoStrandedWork
<1> USE DEF DrainInv
<1>0. /\ g \in Graphs /\ op_map(g) \subseteq Ops
      /\ status \in [Ops -> {"PENDING", "RUNNING", "COMPLETED"}]
      /\ predecessors \in [Ops -> SUBSET Ops]
  BY DEF SchedInv, SchedTypeOK, op_map
<1>1. /\ \A o \in ready_ops[g] : status[o] = "RUNNING"
      /\ \E o \in op_map(g) : status[o] # "COMPLETED"
  BY DEF CleanGraphs
<1>2. \A o \in op_map(g) : status[o] = "PENDING" => \E p \in deps[o] : status[p] # "COMPLETED"
  <2> SUFFICES ASSUME NEW o \in op_map(g), status[o] = "PENDING"
               PROVE  \E p \in deps[o] : status[p] # "COMPLETED"
    OBVIOUS
  <2>1. o \in Ops /\ graph_id[o] = g BY DEF op_map
  <2>2. predecessors[o] # {} BY <1>1, <2>1 DEF UnblockedFound
  <2>3. PICK p \in predecessors[o] : TRUE BY <2>2
  <2> QED BY <2>1, <2>3 DEF StillAwaited
<1>3. \E o \in op_map(g) : status[o] = "RUNNING"
  <2> DEFINE S == {o \in op_map(g) : status[o] # "COMPLETED"}
  <2>1. S \in SUBSET Ops /\ S # {} BY <1>0, <1>1
  <2>2. PICK o \in S : deps[o] \cap S = {} BY <2>1, AcyclicAssumption
  <2>3. o \in op_map(g) /\ o \in Ops /\ graph_id[o] = g BY DEF op_map
  <2>4. \A p \in deps[o] : p \in op_map(g) BY <2>3, SchedulerAssumption DEF op_map
  <2>5. \A p \in deps[o] : status[p] = "COMPLETED" BY <2>2, <2>4
  <2>6. status[o] # "PENDING" BY <1>2, <2>3, <2>5
  <2> QED BY <1>0, <2>3, <2>6
<1> QED BY <1>2, <1>3

(* After a call of schedule() a sweep over all graphs in flight would find
   nothing that the visits of the dirty ones missed: every graph still has an op
   that runs, and no op that could be released. *)
THEOREM NoStrandedWorkAlways == SchedSpec => []NoStrandedWork
<1>1. SchedSpec => []DrainInv
  <2>1. SchedInit => DrainInv BY DrainInvInit
  <2>2. SchedInv /\ DrainInv /\ [SchedNext]_schedVars => DrainInv' BY DrainInvStep
  <2> QED BY <2>1, <2>2, SchedulerCorrect, PTL DEF SchedSpec
<1>2. SchedInv /\ DrainInv => NoStrandedWork BY NothingStranded
<1> QED BY <1>1, <1>2, SchedulerCorrect, PTL

(* The assert of mark_completed holds of every op that schedule() is given. *)
THEOREM MarksRunningAlways == SchedSpec => []MarksRunning
<1>1. SchedInv => MarksRunning BY DEF SchedInv, FinishedRunning, MarksRunning
<1> QED BY <1>1, SchedulerCorrect, PTL

-------------------------------------------------------------------------------
(* The engine. *)

(* Jobs given to a worker whose report has not been read. *)
Moving == working \cup Unread
Outstanding(o) == {j \in Moving : j[1] = o}

Messages == {OpMsg(o) : o \in Ops} \cup {CompletedMsg(g) : g \in Graphs}
            \cup {FailedMsg(g) : g \in Graphs}
Said(m) == \E i \in 1 .. Len(Log) : Log[i] = m
Ended(g) == Said(CompletedMsg(g)) \/ Said(FailedMsg(g))

Reports == [job : Jobs, ok : BOOLEAN]

EngineTypes ==
  /\ pc \in {"select", "collect", "schedule", "dispatch", "emit"}
  /\ events \subseteq {"new_graph", "finished_op"}
  /\ new_graphs_num \in Nat
  /\ task_queue \in Seq(SUBSET Graphs)
  /\ finished_ops_queue \in Seq(Reports)
  /\ working \subseteq Jobs
  /\ child_to_parent_op_id \subseteq Jobs
  /\ pending_count \in [Ops -> Nat]
  /\ pin_buffer \in [Jobs -> 0 .. 1]
  /\ completed_queue \in Seq(Messages)
  /\ received \in Seq(Messages)

(* What the phases of a tick leave behind for the next one. *)
Phases ==
  /\ scheduling <=> pc = "schedule"
  /\ pc \notin {"schedule", "dispatch"} => next_ops = {} /\ completed_graph_ids = {}
  /\ pc \notin {"collect", "schedule"} => finished_ops = {}
  /\ finished_ops # {} => next_ops = {}

(* A job is reported once: it is with its worker or in one unread report. *)
JobsIn(q) == {q[i].job : i \in 1 .. Len(q)}
Distinct(q) == \A i, k \in 1 .. Len(q) : q[i].job = q[k].job => i = k

JobsOnce == working \cap Unread = {} /\ Distinct(finished_ops_queue)

(* pending_count counts the reports still to come, and an op stays in
   _op_id_to_op until there are none. *)
CountsExact ==
  \A o \in Ops : /\ pending_count[o] = Cardinality(Outstanding(o))
                 /\ o \in op_id_to_op <=> Outstanding(o) # {}

(* An op with a job under way runs, and is neither to be dispatched again nor
   already handed to schedule() as finished. *)
MovingRuns ==
  \A j \in Moving : /\ j[1] \notin VirtualOps
                    /\ status[j[1]] = "RUNNING"
                    /\ j[1] \notin next_ops
                    /\ j[1] \notin finished_ops

(* schedule() hands out running ops, and virtual ops it has completed. *)
NextStarted ==
  \A o \in next_ops : status[o] = IF o \in VirtualOps THEN "COMPLETED" ELSE "RUNNING"

(* Only ops that are dispatched and not drained are remembered as failed. *)
FailedOps == op_id_to_op \subseteq Ops /\ failed_parent_op_ids \subseteq op_id_to_op

(* A graph that has started was submitted; one that failed is out of the
   scheduler and not reported as complete. *)
StartedSubmitted == \A o \in Ops : status[o] # "PENDING" => graph_id[o] \in submitted

FailedApart ==
  /\ failed_graph_ids \subseteq submitted
  /\ failed_graph_ids \cap (transfer_graphs \cup completed_graph_ids) = {}

(* A graph whose end was reported is known to no part of the engine. *)
EndedForgotten ==
  \A g \in Graphs : Ended(g) =>
    /\ g \in submitted
    /\ g \notin transfer_graphs \cup failed_graph_ids \cup completed_graph_ids
    /\ \A j \in Moving : graph_id[j[1]] # g
    /\ \A o \in next_ops : graph_id[o] # g

EngineInv ==
  /\ SchedInv
  /\ DrainInv
  /\ EngineTypes
  /\ Phases
  /\ JobsOnce
  /\ CountsExact
  /\ MovingRuns
  /\ NextStarted
  /\ FailedOps
  /\ StartedSubmitted
  /\ FailedApart
  /\ EndedForgotten
  /\ SlotsBalanced

(* An op is reported once: after its message it neither runs nor waits to. *)
SaidOnce ==
  \A o \in Ops : Said(OpMsg(o)) =>
    /\ status[o] # "PENDING"
    /\ o \notin next_ops
    /\ \A j \in Moving : j[1] # o

(* Without a dead worker, what has completed was reported or is about to be. *)
DoneIsSaid ==
  /\ \A o \in Ops : status[o] = "COMPLETED" => Said(OpMsg(o)) \/ o \in next_ops
  /\ \A o \in finished_ops : Said(OpMsg(o))

HandleInv == SaidOnce /\ DoneIsSaid /\ dead = {}
-----------------------------------------------------------------------------
(* Jobs, reports and messages. *)
LEMMA JobFacts ==
  /\ \A o \in Ops : jobsOf(o) \subseteq Jobs /\ IsFiniteSet(jobsOf(o))
  /\ \A o \in Ops : \A j \in jobsOf(o) : j[1] = o
  /\ \A j \in Jobs : j[1] \in Ops /\ j \in jobsOf(j[1])
  /\ \A j \in Jobs : ~isReplica(j) => jobsOf(j[1]) = {j}
<1>1. ASSUME NEW o \in Ops PROVE IsFiniteSet(jobsOf(o))
  <2> DEFINE W == IF siblings[o] = {} THEN {single} ELSE siblings[o]
  <2>1. IsFiniteSet(W) BY EngineAssumption, FS_Singleton
  <2> DEFINE f == [w \in W |-> <<o, w>>]
  <2> HIDE DEF W
  <2>2. f \in Surjection(W, {<<o, w>> : w \in W}) BY DEF Surjection
  <2>3. IsFiniteSet({<<o, w>> : w \in W}) BY <2>1, <2>2, FS_Surjection
  <2> QED BY <2>3 DEF jobsOf, W
<1>2. \A o \in Ops : jobsOf(o) \subseteq Jobs BY DEF Jobs
<1>3. \A o \in Ops : \A j \in jobsOf(o) : j[1] = o BY DEF jobsOf
<1>4. \A j \in Jobs : j[1] \in Ops /\ j \in jobsOf(j[1]) BY <1>3 DEF Jobs
<1>5. ASSUME NEW j \in Jobs, ~isReplica(j) PROVE jobsOf(j[1]) = {j}
  <2>1. PICK o \in Ops : j \in jobsOf(o) BY <1>4
  <2>2. siblings[o] = {} /\ j = <<o, single>> BY <1>5, <2>1, EngineAssumption DEF jobsOf, isReplica
  <2> QED BY <2>2 DEF jobsOf
<1> QED BY <1>1, <1>2, <1>3, <1>4, <1>5

LEMMA ReportAppended ==
  ASSUME NEW q \in Seq(Reports), NEW r \in Reports
  PROVE  /\ Append(q, r) \in Seq(Reports)
         /\ JobsIn(Append(q, r)) = JobsIn(q) \cup {r.job}
         /\ Distinct(q) /\ r.job \notin JobsIn(q) => Distinct(Append(q, r))
<1>1. /\ Append(q, r) \in Seq(Reports) /\ Len(q) \in Nat
      /\ Len(Append(q, r)) = Len(q) + 1 /\ Append(q, r)[Len(q) + 1] = r
      /\ \A i \in 1 .. Len(q) : Append(q, r)[i] = q[i]
  OBVIOUS
<1>2. \A i \in 1 .. Len(Append(q, r)) : i \in 1 .. Len(q) \/ i = Len(q) + 1 BY <1>1
<1>3. 1 .. Len(q) \subseteq 1 .. Len(Append(q, r)) /\ Len(q) + 1 \in 1 .. Len(Append(q, r))
  BY <1>1
<1>4. JobsIn(Append(q, r)) = JobsIn(q) \cup {r.job} BY <1>1, <1>2, <1>3 DEF JobsIn
<1>5. Distinct(q) /\ r.job \notin JobsIn(q) => Distinct(Append(q, r))
  BY <1>1, <1>2 DEF JobsIn, Distinct
<1> QED BY <1>1, <1>4, <1>5

LEMMA ReportTaken ==
  ASSUME NEW q \in Seq(Reports), q # <<>>, Distinct(q)
  PROVE  /\ Tail(q) \in Seq(Reports) /\ Head(q) \in Reports
         /\ Head(q).job \in JobsIn(q)
         /\ JobsIn(Tail(q)) = JobsIn(q) \ {Head(q).job}
         /\ Distinct(Tail(q))
<1>1. /\ Tail(q) \in Seq(Reports) /\ Len(q) \in Nat /\ Len(q) > 0
      /\ Len(Tail(q)) = Len(q) - 1 /\ Head(q) = q[1]
      /\ \A i \in 1 .. Len(Tail(q)) : Tail(q)[i] = q[i + 1]
  OBVIOUS
<1>2. \A i \in 1 .. Len(q) : i = 1 \/ (i - 1 \in 1 .. Len(Tail(q)) /\ (i - 1) + 1 = i) BY <1>1
<1>3. \A i \in 1 .. Len(Tail(q)) : i + 1 \in 1 .. Len(q) /\ i + 1 # 1 BY <1>1
<1>4. 1 \in 1 .. Len(q) BY <1>1
<1>5. Distinct(Tail(q))
  <2> SUFFICES ASSUME NEW i \in 1 .. Len(Tail(q)), NEW k \in 1 .. Len(Tail(q)),
                      Tail(q)[i].job = Tail(q)[k].job
               PROVE  i = k
    BY DEF Distinct
  <2>1. q[i + 1].job = q[k + 1].job BY <1>1
  <2>2. i + 1 = k + 1 BY <1>3, <2>1 DEF Distinct
  <2> QED BY <2>2
<1>6. JobsIn(Tail(q)) \subseteq JobsIn(q) \ {Head(q).job}
  <2> SUFFICES ASSUME NEW i \in 1 .. Len(Tail(q))
               PROVE  Tail(q)[i].job \in JobsIn(q) /\ Tail(q)[i].job # Head(q).job
    BY DEF JobsIn
  <2>1. Tail(q)[i] = q[i + 1] /\ i + 1 \in 1 .. Len(q) /\ i + 1 # 1 BY <1>1, <1>3
  <2>2. q[i + 1].job # q[1].job BY <1>4, <2>1 DEF Distinct
  <2> QED BY <1>1, <2>1, <2>2 DEF JobsIn
<1>7. JobsIn(q) \ {Head(q).job} \subseteq JobsIn(Tail(q))
  <2> SUFFICES ASSUME NEW i \in 1 .. Len(q), q[i].job # Head(q).job
               PROVE  q[i].job \in JobsIn(Tail(q))
    BY DEF JobsIn
  <2>1. i # 1 BY <1>1
  <2>2. i - 1 \in 1 .. Len(Tail(q)) /\ (i - 1) + 1 = i BY <1>2, <2>1
  <2>3. Tail(q)[i - 1] = q[i] BY <1>1, <2>2
  <2>4. Tail(q)[i - 1].job = q[i].job BY <2>3
  <2> QED BY <2>2, <2>4 DEF JobsIn
<1>8. Head(q).job \in JobsIn(q) BY <1>1, <1>4 DEF JobsIn
<1>9. Head(q) \in Reports OBVIOUS
<1> QED BY <1>1, <1>5, <1>6, <1>7, <1>8, <1>9

(* A message is said when it is put in the completed queue, and fetching the
   queue says nothing new. *)
LEMMA SaidAppend ==
  ASSUME EngineTypes, NEW m \in Messages, UNCHANGED received,
         completed_queue' = Append(completed_queue, m)
  PROVE  /\ Log' = Append(Log, m)
         /\ \A x : Said(x)' <=> Said(x) \/ x = m
         /\ completed_queue' \in Seq(Messages)
<1>1. received \in Seq(Messages) /\ completed_queue \in Seq(Messages) BY DEF EngineTypes
<1>2. received \o Append(completed_queue, m) = Append(received \o completed_queue, m) BY <1>1
<1>3. Log' = Append(Log, m) BY <1>2 DEF Log
<1>4. Log \in Seq(Messages) BY <1>1 DEF Log
<1>5. /\ Len(Log) \in Nat /\ Len(Append(Log, m)) = Len(Log) + 1
      /\ Append(Log, m)[Len(Log) + 1] = m
      /\ \A i \in 1 .. Len(Log) : Append(Log, m)[i] = Log[i]
  BY <1>4
<1>6. \A i \in 1 .. Len(Append(Log, m)) : i \in 1 .. Len(Log) \/ i = Len(Log) + 1 BY <1>5
<1>7. 1 .. Len(Log) \subseteq 1 .. Len(Append(Log, m)) /\ Len(Log) + 1 \in 1 .. Len(Append(Log, m))
  BY <1>5
<1>8. ASSUME NEW x PROVE Said(x)' <=> Said(x) \/ x = m
  <2>1. Said(x)' <=> \E i \in 1 .. Len(Append(Log, m)) : Append(Log, m)[i] = x BY <1>3 DEF Said
  <2> QED BY <1>5, <1>6, <1>7, <2>1 DEF Said
<1> QED BY <1>1, <1>3, <1>8

LEMMA SaidFrame ==
  ASSUME UNCHANGED Log
  PROVE  \A x : Said(x)' <=> Said(x)
BY DEF Said

LEMMA MovingJobs ==
  ASSUME EngineTypes
  PROVE  Moving \subseteq Jobs /\ \A j \in Moving : j[1] \in Ops
<1>1. \A i \in 1 .. Len(finished_ops_queue) : finished_ops_queue[i] \in Reports
  BY DEF EngineTypes
<1>2. Unread \subseteq Jobs BY <1>1 DEF Unread, Reports
<1>3. Moving \subseteq Jobs BY <1>2 DEF Moving, EngineTypes
<1> QED BY <1>3, JobFacts

LEMMA OutstandingFinite ==
  ASSUME EngineTypes, NEW o \in Ops
  PROVE  Outstanding(o) \subseteq jobsOf(o) /\ IsFiniteSet(Outstanding(o))
<1>1. Outstanding(o) \subseteq jobsOf(o) BY MovingJobs, JobFacts DEF Outstanding
<1> QED BY <1>1, JobFacts, FS_Subset
-----------------------------------------------------------------------------
(* The scheduler, when the engine only adds finished ops that run, takes graphs
   out of flight, or consumes what schedule() returned. *)
LEMMA SchedFrame ==
  ASSUME SchedInv, DrainInv, UNCHANGED <<submitted, dirty_graph_ids, graphVars>>,
         transfer_graphs' \subseteq transfer_graphs,
         completed_graph_ids' \subseteq completed_graph_ids,
         next_ops' \subseteq Ops, scheduling' \in BOOLEAN,
         \A o \in finished_ops' : o \in Ops /\ status[o] = "RUNNING"
  PROVE  SchedInv' /\ DrainInv'
<1>1. UNCHANGED <<status, predecessors, ready_ops>> BY DEF graphVars
<1>2. SchedTypeOK' BY <1>1 DEF SchedInv, SchedTypeOK
<1>3. PredsDone' /\ StartedFree' /\ ReadyFree'
  BY <1>1 DEF SchedInv, PredsDone, StartedFree, ReadyFree
<1>4. FinishedRunning' BY <1>1 DEF FinishedRunning
<1>5. KnownGraphs' /\ CompletionReport' BY <1>1 DEF SchedInv, KnownGraphs, CompletionReport
<1>6. DrainInv' BY DrainFrame
<1> QED BY <1>2, <1>3, <1>4, <1>5, <1>6 DEF SchedInv

(* A step that moves no job. *)
LEMMA JobsFrame ==
  ASSUME EngineInv, UNCHANGED <<working, finished_ops_queue, pending_count, op_id_to_op, pin_buffer>>
  PROVE  /\ Moving' = Moving /\ JobsOnce' /\ CountsExact' /\ SlotsBalanced'
         /\ working' \subseteq Jobs /\ finished_ops_queue' \in Seq(Reports)
         /\ pending_count' \in [Ops -> Nat] /\ pin_buffer' \in [Jobs -> 0 .. 1]
<1>1. Unread' = Unread BY DEF Unread
<1>2. Moving' = Moving BY <1>1 DEF Moving
<1>3. \A o \in Ops : Outstanding(o)' = Outstanding(o) BY <1>2 DEF Outstanding
<1>4. CountsExact' BY <1>3 DEF EngineInv, CountsExact
<1>5. JobsOnce' BY <1>1 DEF EngineInv, JobsOnce
<1>6. SlotsBalanced' BY <1>1 DEF EngineInv, SlotsBalanced
<1> QED BY <1>2, <1>4, <1>5, <1>6 DEF EngineInv, EngineTypes

(* A step of a queue, a worker or the phase alone. *)
LEMMA QuietFrame ==
  ASSUME EngineInv, EngineTypes', Phases', JobsOnce', Moving' = Moving, UNCHANGED Log,
         UNCHANGED <<schedVars, pending_count, op_id_to_op, failed_parent_op_ids,
                     failed_graph_ids, pin_buffer>>
  PROVE  EngineInv'
<1> USE DEF EngineInv
<1>1. UNCHANGED <<submitted, transfer_graphs, dirty_graph_ids, status, predecessors,
                  ready_ops, finished_ops, next_ops, completed_graph_ids, scheduling>>
  BY DEF schedVars, graphVars, resultVars
<1>2. SchedInv' BY QuietStep
<1>3. DrainInv' BY <1>1, DrainFrame DEF graphVars
<1>4. \A o \in Ops : Outstanding(o)' = Outstanding(o) BY DEF Outstanding
<1>5. CountsExact' BY <1>4 DEF CountsExact
<1>6. MovingRuns' BY <1>1 DEF MovingRuns
<1>7. NextStarted' /\ StartedSubmitted' /\ FailedOps' /\ FailedApart'
  BY <1>1 DEF NextStarted, StartedSubmitted, FailedOps, FailedApart
<1>8. \A g \in Graphs : Ended(g)' <=> Ended(g) BY SaidFrame DEF Ended
<1>9. EndedForgotten' BY <1>1, <1>8 DEF EndedForgotten
<1>10. SlotsBalanced'
  <2>1. working \cup Unread = (working \cup Unread)' BY DEF Moving
  <2> QED BY <2>1 DEF SlotsBalanced
<1> QED BY <1>2, <1>3, <1>5, <1>6, <1>7, <1>9, <1>10

LEMMA SubmitStep ==
  ASSUME EngineInv, NEW gs \in SUBSET Graphs, submit_transfer_graph(gs)
  PROVE  EngineInv'
<1>1. /\ task_queue' = Append(task_queue, gs)
      /\ UNCHANGED <<schedVars, dead, working, child_to_parent_op_id, op_id_to_op,
                     pending_count, failed_parent_op_ids, failed_graph_ids, pin_buffer,
                     finished_ops_queue, completed_queue, received, pc, events,
                     new_graphs_num>>
  BY DEF submit_transfer_graph, engineVars, tickVars
<1>2. EngineTypes' BY <1>1 DEF EngineInv, EngineTypes
<1>3. Phases' BY <1>1 DEF EngineInv, Phases, schedVars, resultVars
<1>4. JobsOnce' /\ Moving' = Moving BY <1>1, JobsFrame
<1>5. UNCHANGED Log BY <1>1 DEF Log
<1> QED BY <1>1, <1>2, <1>3, <1>4, <1>5, QuietFrame

LEMMA FetchStep ==
  ASSUME EngineInv, get_completed_graphs_and_ops
  PROVE  EngineInv' /\ UNCHANGED Log
<1>1. /\ received' = received \o completed_queue /\ completed_queue' = <<>>
      /\ UNCHANGED <<schedVars, dead, working, child_to_parent_op_id, op_id_to_op,
                     pending_count, failed_parent_op_ids, failed_graph_ids, pin_buffer,
                     finished_ops_queue, task_queue, pc, events, new_graphs_num>>
  BY DEF get_completed_graphs_and_ops, engineVars, tickVars
<1>2. received \in Seq(Messages) /\ completed_queue \in Seq(Messages)
  BY DEF EngineInv, EngineTypes
<1>3. received \o completed_queue \in Seq(Messages) BY <1>2
<1>4. UNCHANGED Log
  <2>1. (received \o completed_queue) \o <<>> = received \o completed_queue BY <1>3
  <2> QED BY <1>1, <2>1 DEF Log
<1>5. EngineTypes' BY <1>1, <1>3 DEF EngineInv, EngineTypes
<1>6. Phases' BY <1>1 DEF EngineInv, Phases, schedVars, resultVars
<1>7. JobsOnce' /\ Moving' = Moving BY <1>1, JobsFrame
<1> QED BY <1>1, <1>4, <1>5, <1>6, <1>7, QuietFrame

LEMMA WorkerReportStep ==
  ASSUME EngineInv, NEW j \in Jobs, NEW ok \in BOOLEAN, WorkerReport(j, ok)
  PROVE  EngineInv'
<1> DEFINE r == [job |-> j, ok |-> ok]
<1>1. /\ j \in working /\ working' = working \ {j}
      /\ finished_ops_queue' = Append(finished_ops_queue, r)
      /\ UNCHANGED <<schedVars, child_to_parent_op_id, op_id_to_op, pending_count,
                     failed_parent_op_ids, failed_graph_ids, pin_buffer, task_queue,
                     completed_queue, received, pc, events, new_graphs_num>>
  BY DEF WorkerReport, tickVars
<1>2. finished_ops_queue \in Seq(Reports) /\ r \in Reports /\ r.job = j
  BY DEF EngineInv, EngineTypes, Reports
<1>3. Unread = JobsIn(finished_ops_queue) /\ Unread' = JobsIn(finished_ops_queue')
  BY DEF Unread, JobsIn
<1>4. j \notin Unread /\ Distinct(finished_ops_queue) BY <1>1 DEF EngineInv, JobsOnce
<1>5. /\ finished_ops_queue' \in Seq(Reports)
      /\ Unread' = Unread \cup {j}
      /\ Distinct(finished_ops_queue)'
  <2> HIDE DEF r
  <2>1. Distinct(Append(finished_ops_queue, r)) BY <1>2, <1>3, <1>4, ReportAppended
  <2>2. Distinct(finished_ops_queue)' BY <1>1, <2>1 DEF Distinct
  <2> QED BY <1>1, <1>2, <1>3, <2>2, ReportAppended
<1>6. Moving' = Moving BY <1>1, <1>5 DEF Moving
<1>7. JobsOnce' BY <1>1, <1>5 DEF EngineInv, JobsOnce
<1>8. EngineTypes' BY <1>1, <1>5 DEF EngineInv, EngineTypes
<1>9. Phases' BY <1>1 DEF EngineInv, Phases, schedVars, resultVars
<1>10. UNCHANGED Log BY <1>1 DEF Log
<1> QED BY <1>1, <1>6, <1>7, <1>8, <1>9, <1>10, QuietFrame

(* A worker dies, or the thread goes from one phase to the next. *)
LEMMA PhaseStep ==
  ASSUME EngineInv, Phases',
         pc' \in {"select", "collect", "schedule", "dispatch", "emit"},
         events' \subseteq {"new_graph", "finished_op"}, new_graphs_num' \in Nat,
         UNCHANGED <<schedVars, working, child_to_parent_op_id, op_id_to_op, pending_count,
                     failed_parent_op_ids, failed_graph_ids, pin_buffer, queueVars>>
  PROVE  EngineInv'
<1>1. UNCHANGED <<task_queue, finished_ops_queue, completed_queue, received>> BY DEF queueVars
<1>2. EngineTypes' BY <1>1 DEF EngineInv, EngineTypes
<1>3. JobsOnce' /\ Moving' = Moving BY <1>1, JobsFrame
<1>4. UNCHANGED Log BY <1>1 DEF Log
<1> QED BY <1>2, <1>3, <1>4, QuietFrame

LEMMA CrashStep ==
  ASSUME EngineInv, NEW w \in CanCrash, WorkerCrash(w)
  PROVE  EngineInv'
<1>1. Phases' /\ pc' = pc /\ events' = events /\ new_graphs_num' = new_graphs_num
  BY DEF WorkerCrash, EngineInv, Phases, schedVars, resultVars, tickVars
<1> QED BY <1>1, PhaseStep DEF WorkerCrash, EngineInv, EngineTypes

LEMMA SelectStep == ASSUME EngineInv, Select PROVE EngineInv'
<1>1. finished_ops = {} BY DEF EngineInv, Phases, Select
<1>2. UNCHANGED schedVars BY <1>1 DEF Select, schedVars
<1>3. /\ pc = "select" /\ pc' = "collect" /\ events' \subseteq {"new_graph", "finished_op"}
      /\ new_graphs_num' = 0
  BY DEF Select, Readable
<1>4. Phases' BY <1>2, <1>3 DEF EngineInv, Phases, schedVars, resultVars
<1> QED BY <1>2, <1>3, <1>4, PhaseStep DEF Select, engineVars

LEMMA EventDoneStep == ASSUME EngineInv, NEW e \in events, EventDone(e) PROVE EngineInv'
<1>1. Phases' /\ pc' = pc /\ events' \subseteq events /\ new_graphs_num' = new_graphs_num
  BY DEF EventDone, EngineInv, Phases, schedVars, resultVars
<1> QED BY <1>1, PhaseStep DEF EventDone, EngineInv, EngineTypes, engineVars

LEMMA EndDispatchStep == ASSUME EngineInv, EndDispatch PROVE EngineInv'
<1>1. Phases' BY DEF EndDispatch, EngineInv, Phases, schedVars, resultVars
<1> QED BY <1>1, PhaseStep DEF EndDispatch, EngineInv, EngineTypes, engineVars

LEMMA EndTickStep == ASSUME EngineInv, EndTick PROVE EngineInv'
<1>1. Phases' BY DEF EndTick, EngineInv, Phases, schedVars, resultVars
<1> QED BY <1>1, PhaseStep DEF EndTick, EngineInv, EngineTypes, engineVars
-----------------------------------------------------------------------------
(* CollectGraphs: a new graph enters the scheduler. *)
LEMMA QueueShrinks ==
  ASSUME NEW q \in Seq(SUBSET Graphs), q # <<>>, NEW g \in Head(q)
  PROVE  /\ g \in Graphs
         /\ Tail(q) \in Seq(SUBSET Graphs)
         /\ [q EXCEPT ![1] = @ \ {g}] \in Seq(SUBSET Graphs)
<1>1. Head(q) = q[1] /\ q[1] \in SUBSET Graphs /\ Len(q) \in Nat OBVIOUS
<1>2. q[1] \ {g} \in SUBSET Graphs BY <1>1
<1> QED BY <1>1, <1>2

LEMMA CollectGraphsStep == ASSUME EngineInv, CollectGraphs PROVE EngineInv'
<1> USE DEF EngineInv
<1>0. /\ pc = "collect" /\ task_queue # <<>> /\ new_graphs_num' = new_graphs_num + 1
      /\ UNCHANGED <<status, predecessors, ready_ops, finished_ops, next_ops,
                     completed_graph_ids, scheduling, dead, working,
                     child_to_parent_op_id, op_id_to_op, pending_count,
                     failed_parent_op_ids, failed_graph_ids, pin_buffer,
                     finished_ops_queue, completed_queue, received, pc, events>>
  BY DEF CollectGraphs, graphVars, resultVars, engineVars
<1>1. PICK g \in Head(task_queue) :
        /\ add_transfer_graph(g)
        /\ task_queue' = IF Head(task_queue) = {g} THEN Tail(task_queue)
                         ELSE [task_queue EXCEPT ![1] = @ \ {g}]
  BY DEF CollectGraphs
<1>2. g \in Graphs /\ task_queue' \in Seq(SUBSET Graphs)
  BY <1>0, <1>1, QueueShrinks DEF EngineTypes
<1>3. /\ g \notin submitted /\ submitted' = submitted \cup {g}
      /\ transfer_graphs' = transfer_graphs \cup {g}
  BY <1>1 DEF add_transfer_graph
<1>4. SchedInv'
  <2>1. SchedTypeOK' BY <1>0, <1>1, <1>2, DirtiedQueue DEF SchedInv, SchedTypeOK, add_transfer_graph
  <2>2. PredsDone' /\ StartedFree' /\ ReadyFree' /\ FinishedRunning'
    BY <1>0 DEF SchedInv, PredsDone, StartedFree, ReadyFree, FinishedRunning
  <2>3. KnownGraphs' /\ CompletionReport'
    BY <1>0, <1>3 DEF SchedInv, KnownGraphs, CompletionReport
  <2> QED BY <2>1, <2>2, <2>3 DEF SchedInv
<1>5. DrainInv' BY <1>0, <1>1, <1>2, DrainAdd DEF graphVars
<1>6. EngineTypes' BY <1>0, <1>2 DEF EngineTypes
<1>7. Phases' BY <1>0 DEF Phases
<1>8. Moving' = Moving /\ JobsOnce' /\ CountsExact' /\ SlotsBalanced' BY <1>0, JobsFrame
<1>9. MovingRuns' /\ NextStarted' /\ FailedOps'
  BY <1>0, <1>8 DEF MovingRuns, NextStarted, FailedOps
<1>10. StartedSubmitted' /\ FailedApart' BY <1>0, <1>3 DEF StartedSubmitted, FailedApart
<1>11. UNCHANGED Log BY <1>0 DEF Log
<1>12. \A h \in Graphs : Ended(h)' <=> Ended(h) BY <1>11, SaidFrame DEF Ended
<1>13. EndedForgotten' BY <1>0, <1>3, <1>8, <1>12 DEF EndedForgotten
<1> QED BY <1>4, <1>5, <1>6, <1>7, <1>8, <1>9, <1>10, <1>13

(* Reading a report takes one job out, and its op drains with the last one. *)
LEMMA CollectedStep ==
  ASSUME EngineInv, finished_ops_queue # <<>>, UNCHANGED working,
         NEW j, j = Head(finished_ops_queue).job, Collected(j)
  PROVE  /\ j \in Moving /\ j \in Jobs /\ j[1] \in Ops
         /\ Moving' = Moving \ {j}
         /\ JobsOnce' /\ CountsExact' /\ SlotsBalanced'
         /\ finished_ops_queue' \in Seq(Reports)
         /\ pending_count' \in [Ops -> Nat] /\ pin_buffer' \in [Jobs -> 0 .. 1]
         /\ child_to_parent_op_id' \subseteq child_to_parent_op_id
         /\ Drained(j[1]) <=> \A k \in Moving' : k[1] # j[1]
         /\ op_id_to_op' = IF Drained(j[1]) THEN op_id_to_op \ {j[1]} ELSE op_id_to_op
         /\ j[1] \in op_id_to_op
<1> USE DEF EngineInv
<1>1. /\ finished_ops_queue' = Tail(finished_ops_queue)
      /\ child_to_parent_op_id' = child_to_parent_op_id \ {j}
      /\ pending_count' = [pending_count EXCEPT ![j[1]] = @ - 1]
      /\ op_id_to_op' = IF Drained(j[1]) THEN op_id_to_op \ {j[1]} ELSE op_id_to_op
      /\ pin_buffer' = [pin_buffer EXCEPT
           ![j] = @ - (IF isReplica(j) \/ Drained(j[1]) THEN 1 ELSE 0)]
  BY DEF Collected, FreeSlots
<1>2. finished_ops_queue \in Seq(Reports) /\ Distinct(finished_ops_queue)
  BY DEF EngineTypes, JobsOnce
<1>3. Unread = JobsIn(finished_ops_queue) /\ Unread' = JobsIn(finished_ops_queue')
  BY DEF Unread, JobsIn
<1>4. /\ finished_ops_queue' \in Seq(Reports) /\ Unread' = Unread \ {j} /\ j \in Unread
      /\ Distinct(finished_ops_queue)'
  <2>1. Distinct(Tail(finished_ops_queue)) BY <1>2, ReportTaken
  <2>2. Distinct(finished_ops_queue)' BY <1>1, <2>1 DEF Distinct
  <2> QED BY <1>1, <1>2, <1>3, <2>2, ReportTaken
<1>5. j \in Moving /\ j \in Jobs /\ j[1] \in Ops
  <2>1. Head(finished_ops_queue) \in Reports BY <1>2
  <2>2. j \in Jobs BY <2>1 DEF Reports
  <2> QED BY <1>4, <2>2, JobFacts DEF Moving
<1>6. j \notin working BY <1>4 DEF JobsOnce
<1>7. Moving' = Moving \ {j} /\ JobsOnce' BY <1>4, <1>6 DEF Moving, JobsOnce
<1>8. /\ Outstanding(j[1])' = Outstanding(j[1]) \ {j} /\ j \in Outstanding(j[1])
      /\ \A o \in Ops : o # j[1] => Outstanding(o)' = Outstanding(o)
  BY <1>5, <1>7 DEF Outstanding
<1>9. /\ IsFiniteSet(Outstanding(j[1])) /\ Cardinality(Outstanding(j[1])) \in Nat
      /\ IsFiniteSet(Outstanding(j[1]) \ {j})
      /\ Cardinality(Outstanding(j[1]) \ {j}) = Cardinality(Outstanding(j[1])) - 1
      /\ Cardinality(Outstanding(j[1]) \ {j}) \in Nat
  BY <1>5, <1>8, OutstandingFinite, FS_RemoveElement, FS_CardinalityType
<1>10. pending_count[j[1]] = Cardinality(Outstanding(j[1])) /\ j[1] \in op_id_to_op
  BY <1>5, <1>8 DEF CountsExact
<1>11. Drained(j[1]) <=> Outstanding(j[1])' = {}
  BY <1>8, <1>9, <1>10, FS_EmptySet DEF Drained
<1>12. pending_count' \in [Ops -> Nat]
  BY <1>1, <1>5, <1>9, <1>10 DEF EngineTypes
<1>13. CountsExact'
  <2> SUFFICES ASSUME NEW o \in Ops
               PROVE  /\ pending_count'[o] = Cardinality(Outstanding(o)')
                      /\ o \in op_id_to_op' <=> Outstanding(o)' # {}
    BY DEF CountsExact
  <2>1. CASE o = j[1]
    <3>1. pending_count'[o] = pending_count[j[1]] - 1 BY <1>1, <1>5, <2>1 DEF EngineTypes
    <3>2. pending_count'[o] = Cardinality(Outstanding(j[1]) \ {j}) BY <1>9, <1>10, <3>1
    <3>3. o \in op_id_to_op' <=> ~Drained(j[1]) BY <1>1, <1>10, <2>1
    <3> QED BY <1>8, <1>11, <2>1, <3>2, <3>3
  <2>2. CASE o # j[1]
    <3>1. pending_count'[o] = pending_count[o] BY <1>1, <2>2 DEF EngineTypes
    <3>2. o \in op_id_to_op' <=> o \in op_id_to_op BY <1>1, <2>2
    <3> QED BY <1>8, <2>2, <3>1, <3>2 DEF CountsExact
  <2> QED BY <2>1, <2>2
<1>14. isReplica(j) \/ Drained(j[1])
  <2> SUFFICES ASSUME ~isReplica(j) PROVE Drained(j[1]) OBVIOUS
  <2>1. jobsOf(j[1]) = {j} BY <1>5, JobFacts
  <2>2. Outstanding(j[1]) = {j} BY <1>5, <1>8, <2>1, OutstandingFinite
  <2> QED BY <1>8, <1>11, <2>2
<1>15. pin_buffer[j] = 1 BY <1>4, <1>5 DEF SlotsBalanced
<1>16. /\ pin_buffer' \in [Jobs -> 0 .. 1] /\ pin_buffer'[j] = 0
       /\ \A k \in Jobs : k # j => pin_buffer'[k] = pin_buffer[k]
  BY <1>1, <1>5, <1>14, <1>15 DEF EngineTypes
<1>17. SlotsBalanced'
  <2> SUFFICES ASSUME NEW k \in Jobs
               PROVE  pin_buffer'[k] = IF k \in working' \cup Unread' THEN 1 ELSE 0
    BY DEF SlotsBalanced
  <2>1. CASE k = j BY <1>4, <1>6, <1>16, <2>1
  <2>2. CASE k # j BY <1>4, <1>16, <2>2 DEF SlotsBalanced
  <2> QED BY <2>1, <2>2
<1>18. Drained(j[1]) <=> \A k \in Moving' : k[1] # j[1] BY <1>11 DEF Outstanding
<1> QED BY <1>1, <1>4, <1>5, <1>7, <1>10, <1>12, <1>13, <1>16, <1>17, <1>18

LEMMA CollectFinishedStep == ASSUME EngineInv, CollectFinished PROVE EngineInv'
<1> USE DEF EngineInv
<1>0. PICK j : j = Head(finished_ops_queue).job OBVIOUS
<1> DEFINE finalize == Drained(j[1]) /\ j[1] \notin failed_parent_op_ids
<1>1. /\ pc = "collect" /\ finished_ops_queue # <<>> /\ Collected(j)
      /\ finished_ops' = IF finalize THEN finished_ops \cup {j[1]} ELSE finished_ops
      /\ completed_queue' = IF finalize THEN Append(completed_queue, OpMsg(j[1]))
                            ELSE completed_queue
      /\ failed_parent_op_ids' = IF Drained(j[1]) THEN failed_parent_op_ids \ {j[1]}
                                 ELSE failed_parent_op_ids
  BY <1>0 DEF CollectFinished
<1>2. UNCHANGED <<submitted, transfer_graphs, dirty_graph_ids, status, predecessors,
                  ready_ops, next_ops, completed_graph_ids, scheduling, dead, working,
                  failed_graph_ids, task_queue, received, pc, events, new_graphs_num>>
  BY DEF CollectFinished, graphVars, resultVars, tickVars
<1>3. /\ j \in Moving /\ j \in Jobs /\ j[1] \in Ops
      /\ Moving' = Moving \ {j}
      /\ JobsOnce' /\ CountsExact' /\ SlotsBalanced'
      /\ finished_ops_queue' \in Seq(Reports)
      /\ pending_count' \in [Ops -> Nat] /\ pin_buffer' \in [Jobs -> 0 .. 1]
      /\ child_to_parent_op_id' \subseteq child_to_parent_op_id
      /\ Drained(j[1]) <=> \A k \in Moving' : k[1] # j[1]
      /\ op_id_to_op' = IF Drained(j[1]) THEN op_id_to_op \ {j[1]} ELSE op_id_to_op
  BY <1>0, <1>1, <1>2, CollectedStep
<1>4. status[j[1]] = "RUNNING" /\ j[1] \notin next_ops /\ next_ops = {}
  BY <1>1, <1>3 DEF MovingRuns, Phases
<1>5. SchedInv' /\ DrainInv'
  <2>1. \A o \in finished_ops' : o \in Ops /\ status[o] = "RUNNING"
    BY <1>1, <1>3, <1>4 DEF SchedInv, FinishedRunning, SchedTypeOK
  <2> QED BY <1>2, <2>1, SchedFrame DEF SchedInv, SchedTypeOK, graphVars
<1>6. OpMsg(j[1]) \in Messages BY <1>3 DEF Messages
<1>7. /\ completed_queue' \in Seq(Messages)
      /\ \A g \in Graphs : Ended(g)' <=> Ended(g)
  <2>1. CASE finalize
    <3>1. completed_queue' = Append(completed_queue, OpMsg(j[1])) BY <1>1, <2>1
    <3>2. /\ completed_queue' \in Seq(Messages)
          /\ \A x : Said(x)' <=> Said(x) \/ x = OpMsg(j[1])
      BY <1>2, <1>6, <3>1, SaidAppend
    <3>3. \A g \in Graphs : CompletedMsg(g) # OpMsg(j[1]) /\ FailedMsg(g) # OpMsg(j[1])
      BY DEF CompletedMsg, FailedMsg, OpMsg
    <3> QED BY <3>2, <3>3 DEF Ended
  <2>2. CASE ~finalize
    <3>1. UNCHANGED Log /\ completed_queue' \in Seq(Messages)
      BY <1>1, <1>2, <2>2 DEF Log, EngineTypes
    <3> QED BY <3>1, SaidFrame DEF Ended
  <2> QED BY <2>1, <2>2
<1>8. EngineTypes' BY <1>2, <1>3, <1>7 DEF EngineTypes
<1>9. Phases' BY <1>1, <1>2 DEF Phases
<1>10. MovingRuns' BY <1>1, <1>2, <1>3 DEF MovingRuns
<1>11. NextStarted' /\ StartedSubmitted' /\ FailedApart'
  BY <1>2 DEF NextStarted, StartedSubmitted, FailedApart
<1>12. FailedOps' BY <1>1, <1>3 DEF FailedOps
<1>13. EndedForgotten' BY <1>2, <1>3, <1>7 DEF EndedForgotten
<1> QED BY <1>3, <1>5, <1>8, <1>9, <1>10, <1>11, <1>12, <1>13

LEMMA CollectFailedStep == ASSUME EngineInv, CollectFailed PROVE EngineInv'
<1> USE DEF EngineInv
<1>0. PICK j : j = Head(finished_ops_queue).job OBVIOUS
<1>1. /\ pc = "collect" /\ finished_ops_queue # <<>> /\ Collected(j)
      /\ failed_parent_op_ids' = IF Drained(j[1]) THEN failed_parent_op_ids \ {j[1]}
                                 ELSE failed_parent_op_ids \cup {j[1]}
      /\ failed_graph_ids' = failed_graph_ids \cup {graph_id[j[1]]}
      /\ transfer_graphs' = transfer_graphs \ {graph_id[j[1]]}
  BY <1>0 DEF CollectFailed, FailGraphOf, fail_graph
<1>2. UNCHANGED <<submitted, dirty_graph_ids, status, predecessors, ready_ops,
                  finished_ops, next_ops, completed_graph_ids, scheduling, dead, working,
                  task_queue, completed_queue, received, pc, events, new_graphs_num>>
  BY DEF CollectFailed, graphVars, resultVars, tickVars
<1>3. /\ j \in Moving /\ j \in Jobs /\ j[1] \in Ops
      /\ Moving' = Moving \ {j}
      /\ JobsOnce' /\ CountsExact' /\ SlotsBalanced'
      /\ finished_ops_queue' \in Seq(Reports)
      /\ pending_count' \in [Ops -> Nat] /\ pin_buffer' \in [Jobs -> 0 .. 1]
      /\ child_to_parent_op_id' \subseteq child_to_parent_op_id
      /\ op_id_to_op' = IF Drained(j[1]) THEN op_id_to_op \ {j[1]} ELSE op_id_to_op
      /\ j[1] \in op_id_to_op
  BY <1>0, <1>1, <1>2, CollectedStep
<1>4. status[j[1]] = "RUNNING" /\ completed_graph_ids = {}
  BY <1>1, <1>3 DEF MovingRuns, Phases
<1>5. SchedInv' /\ DrainInv'
  <2>1. \A o \in finished_ops' : o \in Ops /\ status[o] = "RUNNING"
    BY <1>2 DEF SchedInv, FinishedRunning, SchedTypeOK
  <2> QED BY <1>1, <1>2, <2>1, SchedFrame DEF SchedInv, SchedTypeOK, graphVars
<1>6. EngineTypes' BY <1>2, <1>3 DEF EngineTypes
<1>7. Phases' BY <1>1, <1>2 DEF Phases
<1>8. MovingRuns' BY <1>2, <1>3 DEF MovingRuns
<1>9. NextStarted' /\ StartedSubmitted' BY <1>2 DEF NextStarted, StartedSubmitted
<1>10. graph_id[j[1]] \in submitted BY <1>3, <1>4 DEF StartedSubmitted
<1>11. FailedApart' BY <1>1, <1>2, <1>4, <1>10 DEF FailedApart
<1>12. FailedOps' BY <1>1, <1>3 DEF FailedOps
<1>13. UNCHANGED Log BY <1>2 DEF Log
<1>14. \A g \in Graphs : Ended(g)' <=> Ended(g) BY <1>13, SaidFrame DEF Ended
<1>15. EndedForgotten'
  <2> SUFFICES ASSUME NEW g \in Graphs, Ended(g)
               PROVE  /\ g \in submitted'
                      /\ g \notin transfer_graphs' \cup failed_graph_ids' \cup completed_graph_ids'
                      /\ \A k \in Moving' : graph_id[k[1]] # g
                      /\ \A o \in next_ops' : graph_id[o] # g
    BY <1>14 DEF EndedForgotten
  <2>1. /\ g \in submitted
        /\ g \notin transfer_graphs \cup failed_graph_ids \cup completed_graph_ids
        /\ \A k \in Moving : graph_id[k[1]] # g
        /\ \A o \in next_ops : graph_id[o] # g
    BY DEF EndedForgotten
  <2>2. g # graph_id[j[1]] BY <1>3, <2>1
  <2> QED BY <1>1, <1>2, <1>3, <2>1, <2>2
<1> QED BY <1>3, <1>5, <1>6, <1>7, <1>8, <1>9, <1>11, <1>12, <1>15

(* schedule() is called with what was collected, or the tick goes on idle. *)
LEMMA EndCollectStep == ASSUME EngineInv, EndCollect PROVE EngineInv'
<1> USE DEF EngineInv
<1>0. /\ pc = "collect" /\ next_ops = {} /\ completed_graph_ids = {}
      /\ UNCHANGED <<submitted, transfer_graphs, dirty_graph_ids, status, predecessors,
                     ready_ops, dead, working, child_to_parent_op_id, op_id_to_op,
                     pending_count, failed_parent_op_ids, failed_graph_ids, pin_buffer,
                     task_queue, finished_ops_queue, completed_queue, received, events,
                     new_graphs_num>>
  BY DEF EndCollect, Phases, graphVars, engineVars, queueVars
<1>1. CASE finished_ops # {} \/ new_graphs_num > 0
  <2>1. /\ pc' = "schedule" /\ scheduling' = TRUE
        /\ UNCHANGED <<finished_ops, next_ops, completed_graph_ids>>
    BY <1>0, <1>1 DEF EndCollect, schedule
  <2>2. SchedInv' /\ DrainInv'
    BY <1>0, <2>1, SchedFrame DEF SchedInv, SchedTypeOK, FinishedRunning, graphVars
  <2>3. Phases' BY <1>0, <2>1 DEF Phases
  <2>4. EngineTypes' BY <1>0, <2>1 DEF EngineTypes
  <2>5. Moving' = Moving /\ JobsOnce' /\ CountsExact' /\ SlotsBalanced' BY <1>0, JobsFrame
  <2>6. MovingRuns' /\ NextStarted' /\ FailedOps' /\ StartedSubmitted' /\ FailedApart'
    BY <1>0, <2>1, <2>5 DEF MovingRuns, NextStarted, FailedOps, StartedSubmitted, FailedApart
  <2>7. \A g \in Graphs : Ended(g)' <=> Ended(g)
    <3>1. UNCHANGED Log BY <1>0 DEF Log
    <3> QED BY <3>1, SaidFrame DEF Ended
  <2>8. EndedForgotten' BY <1>0, <2>1, <2>5, <2>7 DEF EndedForgotten
  <2> QED BY <2>2, <2>3, <2>4, <2>5, <2>6, <2>8
<1>2. CASE ~(finished_ops # {} \/ new_graphs_num > 0)
  <2>1. pc' = "emit" /\ finished_ops = {}
        /\ UNCHANGED <<finished_ops, next_ops, completed_graph_ids, scheduling>>
    BY <1>2 DEF EndCollect, AfterIdleCollect, resultVars
  <2>2. Phases' BY <1>0, <2>1 DEF Phases
  <2>3. UNCHANGED schedVars BY <1>0, <2>1 DEF schedVars, graphVars, resultVars
  <2> QED BY <1>0, <2>1, <2>2, <2>3, PhaseStep DEF EngineTypes, queueVars
<1> QED BY <1>1, <1>2
-----------------------------------------------------------------------------
(* A step of schedule(): what it does to the ops and the graphs. *)
LEMMA ScheduleEffect ==
  ASSUME EngineInv, pc = "schedule", ScheduleStep
  PROVE  /\ SchedInv' /\ DrainInv' /\ scheduling
         /\ submitted' = submitted /\ transfer_graphs' \subseteq transfer_graphs
         /\ finished_ops' \subseteq finished_ops /\ next_ops \subseteq next_ops'
         /\ completed_graph_ids' \subseteq completed_graph_ids \cup transfer_graphs
         /\ \A o \in Ops : status'[o] # status[o] =>
              \/ o \in finished_ops /\ o \notin finished_ops' /\ status'[o] = "COMPLETED"
              \/ /\ status[o] = "PENDING" /\ o \in next_ops' /\ graph_id[o] \in transfer_graphs
                 /\ status'[o] = IF o \in VirtualOps THEN "COMPLETED" ELSE "RUNNING"
         /\ \A o \in next_ops' : o \notin next_ops =>
              /\ o \in Ops /\ status[o] = "PENDING" /\ graph_id[o] \in transfer_graphs
              /\ status'[o] = IF o \in VirtualOps THEN "COMPLETED" ELSE "RUNNING"
         /\ next_ops' # next_ops => finished_ops = {}
         /\ ~scheduling' => finished_ops' = {}
         /\ scheduling' \in BOOLEAN
<1> USE DEF EngineInv
<1>0. scheduling BY DEF Phases
<1>1. CASE \E o \in Ops : ScheduleFinished(o)
  <2>1. PICK o \in Ops : ScheduleFinished(o) BY <1>1
  <2>2. /\ o \in finished_ops /\ finished_ops' = finished_ops \ {o}
        /\ UNCHANGED <<submitted, transfer_graphs, ready_ops, next_ops,
                       completed_graph_ids, scheduling>>
    BY <2>1 DEF ScheduleFinished, resultVars
  <2>3. \A q \in Ops : status'[q] # status[q] => q = o /\ status'[q] = "COMPLETED"
    BY <2>1 DEF ScheduleFinished, mark_completed
  <2>4. SchedInv' /\ DrainInv' BY <2>1, FinishedStep, DrainFinished
  <2> QED BY <1>0, <2>2, <2>3, <2>4
<1>2. CASE ScheduleVisit /\ Head(dirty_graph_ids) \in transfer_graphs
  <2>1. PICK g \in Graphs : g = Head(dirty_graph_ids) /\ VisitGraph(g) /\ g \in transfer_graphs
    BY <1>2 DEF ScheduleVisit, SchedInv, SchedTypeOK
  <2>2. finished_ops = {} /\ UNCHANGED <<submitted, finished_ops, scheduling>>
    BY <1>2 DEF ScheduleVisit
  <2> DEFINE taken == Released(g)
  <2>3. /\ \A q \in Ops : status'[q] = IF q \in taken \cap VirtualOps THEN "COMPLETED"
                                     ELSE IF q \in taken THEN "RUNNING" ELSE status[q]
        /\ next_ops' = next_ops \cup taken
    BY <2>1 DEF VisitGraph, mark_completed
  <2>4. /\ completed_graph_ids' \subseteq completed_graph_ids \cup {g}
        /\ transfer_graphs' \subseteq transfer_graphs
    BY <2>1 DEF VisitGraph
  <2>5. \A q \in taken : q \in Ops /\ status[q] = "PENDING" /\ graph_id[q] = g
    BY DEF Released, op_map
  <2>6. SchedInv' /\ DrainInv' BY <1>2, VisitStep, DrainVisit
  <2> HIDE DEF taken
  <2>7. \A q \in Ops : status'[q] # status[q] =>
          /\ status[q] = "PENDING" /\ q \in next_ops' /\ graph_id[q] \in transfer_graphs
          /\ status'[q] = IF q \in VirtualOps THEN "COMPLETED" ELSE "RUNNING"
    BY <2>1, <2>3, <2>5
  <2>8. \A q \in next_ops' : q \notin next_ops =>
          /\ q \in Ops /\ status[q] = "PENDING" /\ graph_id[q] \in transfer_graphs
          /\ status'[q] = IF q \in VirtualOps THEN "COMPLETED" ELSE "RUNNING"
    BY <2>1, <2>3, <2>5
  <2> QED BY <1>0, <2>1, <2>2, <2>3, <2>4, <2>6, <2>7, <2>8
<1>3. CASE ScheduleVisit /\ Head(dirty_graph_ids) \notin transfer_graphs
  <2>1. UNCHANGED <<submitted, transfer_graphs, status, finished_ops, next_ops,
                    completed_graph_ids, scheduling>>
    BY <1>3 DEF ScheduleVisit, graphVars, resultVars
  <2>2. SchedInv' /\ DrainInv' BY <1>3, SkipStep, DrainSkip
  <2> QED BY <1>0, <2>1, <2>2
<1>4. CASE ScheduleReturn
  <2>1. /\ finished_ops = {} /\ scheduling' = FALSE
        /\ UNCHANGED <<submitted, transfer_graphs, status, finished_ops, next_ops,
                       completed_graph_ids>>
    BY <1>4 DEF ScheduleReturn, graphVars, resultVars
  <2>2. SchedInv' BY <1>4, QuietStep
  <2>3. DrainInv' BY DrainStep
  <2> QED BY <1>0, <2>1, <2>2, <2>3
<1> QED BY <1>1, <1>2, <1>3, <1>4 DEF ScheduleStep

LEMMA RunScheduleStep == ASSUME EngineInv, RunSchedule PROVE EngineInv'
<1> USE DEF EngineInv
<1>0. /\ pc = "schedule" /\ ScheduleStep /\ pc' = IF scheduling' THEN "schedule" ELSE "dispatch"
      /\ UNCHANGED <<dead, working, child_to_parent_op_id, op_id_to_op, pending_count,
                     failed_parent_op_ids, failed_graph_ids, pin_buffer, task_queue,
                     finished_ops_queue, completed_queue, received, events, new_graphs_num>>
  BY DEF RunSchedule, engineVars, queueVars
<1>1. /\ SchedInv' /\ DrainInv' /\ scheduling
      /\ submitted' = submitted /\ transfer_graphs' \subseteq transfer_graphs
      /\ finished_ops' \subseteq finished_ops /\ next_ops \subseteq next_ops'
      /\ completed_graph_ids' \subseteq completed_graph_ids \cup transfer_graphs
      /\ next_ops' # next_ops => finished_ops = {}
      /\ ~scheduling' => finished_ops' = {}
      /\ scheduling' \in BOOLEAN
  BY <1>0, ScheduleEffect
<1>2. \A o \in Ops : status'[o] # status[o] =>
        \/ o \in finished_ops /\ o \notin finished_ops' /\ status'[o] = "COMPLETED"
        \/ /\ status[o] = "PENDING" /\ o \in next_ops' /\ graph_id[o] \in transfer_graphs
           /\ status'[o] = IF o \in VirtualOps THEN "COMPLETED" ELSE "RUNNING"
  BY <1>0, ScheduleEffect
<1>3. \A o \in next_ops' : o \notin next_ops =>
        /\ o \in Ops /\ status[o] = "PENDING" /\ graph_id[o] \in transfer_graphs
        /\ status'[o] = IF o \in VirtualOps THEN "COMPLETED" ELSE "RUNNING"
  BY <1>0, ScheduleEffect
<1>4. /\ Moving' = Moving /\ JobsOnce' /\ CountsExact' /\ SlotsBalanced'
      /\ \A j \in Moving : j[1] \in Ops
  BY <1>0, JobsFrame, MovingJobs
<1>5. EngineTypes' BY <1>0, <1>1 DEF EngineTypes
<1>6. Phases' BY <1>0, <1>1 DEF Phases
<1>7. MovingRuns'
  <2> SUFFICES ASSUME NEW j \in Moving
               PROVE  /\ j[1] \notin VirtualOps /\ status'[j[1]] = "RUNNING"
                      /\ j[1] \notin next_ops' /\ j[1] \notin finished_ops'
    BY <1>4 DEF MovingRuns
  <2>1. /\ j[1] \notin VirtualOps /\ status[j[1]] = "RUNNING" /\ j[1] \notin next_ops
        /\ j[1] \notin finished_ops /\ j[1] \in Ops
    BY <1>4 DEF MovingRuns
  <2> QED BY <1>1, <1>2, <1>3, <2>1
<1>8. NextStarted'
  <2> SUFFICES ASSUME NEW o \in next_ops'
               PROVE  status'[o] = IF o \in VirtualOps THEN "COMPLETED" ELSE "RUNNING"
    BY DEF NextStarted
  <2>1. CASE o \notin next_ops BY <1>3, <2>1
  <2>2. CASE o \in next_ops
    <3>1. o \in Ops BY <2>2 DEF SchedInv, SchedTypeOK
    <3>2. finished_ops = {} BY <2>2 DEF Phases
    <3>3. status[o] = IF o \in VirtualOps THEN "COMPLETED" ELSE "RUNNING"
      BY <2>2 DEF NextStarted
    <3>4. status'[o] = status[o] BY <1>2, <3>1, <3>2, <3>3
    <3> QED BY <3>3, <3>4
  <2> QED BY <2>1, <2>2
<1>9. StartedSubmitted'
  <2> SUFFICES ASSUME NEW o \in Ops, status'[o] # "PENDING"
               PROVE  graph_id[o] \in submitted
    BY <1>1 DEF StartedSubmitted
  <2>1. CASE status'[o] = status[o] BY <2>1 DEF StartedSubmitted
  <2>2. CASE o \in finished_ops
    BY <2>2 DEF SchedInv, FinishedRunning, StartedSubmitted
  <2>3. CASE graph_id[o] \in transfer_graphs BY <2>3 DEF SchedInv, KnownGraphs
  <2> QED BY <1>2, <2>1, <2>2, <2>3
<1>10. FailedOps' /\ FailedApart' BY <1>0, <1>1 DEF FailedOps, FailedApart
<1>11. \A g \in Graphs : Ended(g)' <=> Ended(g)
  <2>1. UNCHANGED Log BY <1>0 DEF Log
  <2> QED BY <2>1, SaidFrame DEF Ended
<1>12. EndedForgotten'
  <2> SUFFICES ASSUME NEW g \in Graphs, Ended(g)
               PROVE  /\ g \in submitted'
                      /\ g \notin transfer_graphs' \cup failed_graph_ids' \cup completed_graph_ids'
                      /\ \A j \in Moving' : graph_id[j[1]] # g
                      /\ \A o \in next_ops' : graph_id[o] # g
    BY <1>11 DEF EndedForgotten
  <2>1. /\ g \in submitted
        /\ g \notin transfer_graphs \cup failed_graph_ids \cup completed_graph_ids
        /\ \A j \in Moving : graph_id[j[1]] # g
        /\ \A o \in next_ops : graph_id[o] # g
    BY DEF EndedForgotten
  <2> QED BY <1>0, <1>1, <1>3, <1>4, <2>1
<1> QED BY <1>1, <1>4, <1>5, <1>6, <1>7, <1>8, <1>9, <1>10, <1>12

(* Jobs of an op that was not under way are sent. *)
LEMMA SubmittedStep ==
  ASSUME EngineInv, UNCHANGED finished_ops_queue, NEW o \in Ops, o \in next_ops,
         NEW sent \in SUBSET jobsOf(o), sent # {}, Submitted(o, sent)
  PROVE  /\ Moving' = Moving \cup sent
         /\ JobsOnce' /\ CountsExact' /\ SlotsBalanced'
         /\ working' \subseteq Jobs /\ pending_count' \in [Ops -> Nat]
         /\ pin_buffer' \in [Jobs -> 0 .. 1] /\ child_to_parent_op_id' \subseteq Jobs
         /\ op_id_to_op' = op_id_to_op \cup {o}
<1> USE DEF EngineInv
<1>1. /\ op_id_to_op' = op_id_to_op \cup {o}
      /\ child_to_parent_op_id' = child_to_parent_op_id \cup {j \in sent : isReplica(j)}
      /\ pending_count' = [pending_count EXCEPT ![o] = @ + Cardinality(sent)]
      /\ pin_buffer' = [j \in Jobs |-> pin_buffer[j] + IF j \in sent THEN 1 ELSE 0]
      /\ working' = working \cup sent
  BY DEF Submitted
<1>2. /\ sent \subseteq Jobs /\ \A j \in sent : j[1] = o
      /\ IsFiniteSet(sent) /\ Cardinality(sent) \in Nat
  BY JobFacts, FS_Subset, FS_CardinalityType
<1>3. Outstanding(o) = {} /\ sent \cap Moving = {}
  BY <1>2 DEF MovingRuns, Outstanding
<1>4. Unread' = Unread BY DEF Unread
<1>5. Moving' = Moving \cup sent BY <1>1, <1>4 DEF Moving
<1>6. JobsOnce' BY <1>1, <1>3, <1>4 DEF JobsOnce, Moving
<1>7. /\ Outstanding(o)' = sent
      /\ \A q \in Ops : q # o => Outstanding(q)' = Outstanding(q)
  BY <1>2, <1>3, <1>5 DEF Outstanding
<1>8. pending_count[o] = 0 BY <1>3, FS_EmptySet DEF CountsExact
<1>9. pending_count' \in [Ops -> Nat] /\ pending_count'[o] = Cardinality(sent)
  BY <1>1, <1>2, <1>8 DEF EngineTypes
<1>10. CountsExact'
  <2> SUFFICES ASSUME NEW q \in Ops
               PROVE  /\ pending_count'[q] = Cardinality(Outstanding(q)')
                      /\ q \in op_id_to_op' <=> Outstanding(q)' # {}
    BY DEF CountsExact
  <2>1. CASE q = o BY <1>1, <1>7, <1>9, <2>1
  <2>2. CASE q # o
    <3>1. pending_count'[q] = pending_count[q] BY <1>1, <2>2 DEF EngineTypes
    <3>2. q \in op_id_to_op' <=> q \in op_id_to_op BY <1>1, <2>2
    <3> QED BY <1>7, <2>2, <3>1, <3>2 DEF CountsExact
  <2> QED BY <2>1, <2>2
<1>11. pin_buffer' \in [Jobs -> 0 .. 1] /\ SlotsBalanced'
  <2>1. \A j \in Jobs : /\ pin_buffer'[j] = pin_buffer[j] + IF j \in sent THEN 1 ELSE 0
                        /\ pin_buffer[j] = IF j \in working \cup Unread THEN 1 ELSE 0
    BY <1>1 DEF SlotsBalanced
  <2>2. \A j \in Jobs : pin_buffer'[j] = IF j \in working' \cup Unread' THEN 1 ELSE 0
    BY <1>1, <1>3, <1>4, <2>1 DEF Moving
  <2>3. pin_buffer' \in [Jobs -> 0 .. 1]
    <3>1. \A j \in Jobs : pin_buffer'[j] \in 0 .. 1 BY <2>2
    <3>2. pin_buffer' = [j \in Jobs |-> pin_buffer'[j]] BY <1>1
    <3> QED BY <3>1, <3>2
  <2> QED BY <2>2, <2>3 DEF SlotsBalanced
<1>12. working' \subseteq Jobs /\ child_to_parent_op_id' \subseteq Jobs
  BY <1>1, <1>2 DEF EngineTypes
<1> QED BY <1>1, <1>5, <1>6, <1>9, <1>10, <1>11, <1>12

(* A dispatch that ends well or raises: its jobs are under way, and what is left
   of next_ops and of the completed graphs is what was there or nothing. *)
LEMMA DispatchStep ==
  ASSUME EngineInv, pc = "dispatch", NEW o \in Ops, o \in next_ops, o \notin VirtualOps,
         NEW sent \in SUBSET jobsOf(o), sent # {}, Submitted(o, sent),
         next_ops' \subseteq next_ops \ {o},
         completed_graph_ids' \subseteq completed_graph_ids,
         pc' = "dispatch" \/ (pc' = "select" /\ next_ops' = {} /\ completed_graph_ids' = {}),
         UNCHANGED <<submitted, transfer_graphs, dirty_graph_ids, graphVars, finished_ops,
                     scheduling, failed_parent_op_ids, failed_graph_ids, queueVars, events,
                     new_graphs_num>>
  PROVE  EngineInv'
<1> USE DEF EngineInv
<1>1. UNCHANGED <<status, predecessors, ready_ops, task_queue, finished_ops_queue,
                  completed_queue, received>>
  BY DEF graphVars, queueVars
<1>2. /\ Moving' = Moving \cup sent
      /\ JobsOnce' /\ CountsExact' /\ SlotsBalanced'
      /\ working' \subseteq Jobs /\ pending_count' \in [Ops -> Nat]
      /\ pin_buffer' \in [Jobs -> 0 .. 1] /\ child_to_parent_op_id' \subseteq Jobs
      /\ op_id_to_op' = op_id_to_op \cup {o}
  BY <1>1, SubmittedStep
<1>3. \A j \in sent : j[1] = o BY JobFacts
<1>4. finished_ops = {} /\ status[o] = "RUNNING" BY DEF Phases, NextStarted
<1>5. SchedInv' /\ DrainInv'
  <2>1. next_ops' \subseteq Ops /\ scheduling' \in BOOLEAN BY DEF SchedInv, SchedTypeOK
  <2> QED BY <1>4, <2>1, SchedFrame
<1>6. EngineTypes' BY <1>1, <1>2 DEF EngineTypes
<1>7. Phases' BY <1>4 DEF Phases
<1>8. MovingRuns' BY <1>1, <1>2, <1>3, <1>4 DEF MovingRuns
<1>9. NextStarted' /\ StartedSubmitted' /\ FailedApart'
  BY <1>1 DEF NextStarted, StartedSubmitted, FailedApart
<1>10. FailedOps' BY <1>2 DEF FailedOps
<1>11. \A g \in Graphs : Ended(g)' <=> Ended(g)
  <2>1. UNCHANGED Log BY <1>1 DEF Log
  <2> QED BY <2>1, SaidFrame DEF Ended
<1>12. EndedForgotten' BY <1>2, <1>3, <1>11 DEF EndedForgotten
<1> QED BY <1>2, <1>5, <1>6, <1>7, <1>8, <1>9, <1>10, <1>12

LEMMA AssignStep ==
  ASSUME EngineInv, NEW o \in Ops, assign_op_to_worker(o)
  PROVE  EngineInv'
<1>1. jobsOf(o) # {} BY DEF jobsOf
<1>2. /\ pc = "dispatch" /\ o \in next_ops /\ o \notin VirtualOps
      /\ next_ops' = next_ops \ {o} /\ Submitted(o, jobsOf(o)) /\ pc' = pc
      /\ UNCHANGED <<submitted, transfer_graphs, dirty_graph_ids, graphVars, finished_ops,
                     completed_graph_ids, scheduling, failed_parent_op_ids,
                     failed_graph_ids, queueVars, events, new_graphs_num>>
  BY DEF assign_op_to_worker, NextInLine, tickVars
<1> QED BY <1>1, <1>2, DispatchStep

LEMMA RaiseStep ==
  ASSUME EngineInv, NEW o \in Ops, NEW sent \in SUBSET jobsOf(o), DispatchRaises(o, sent)
  PROVE  EngineInv'
<1>1. /\ pc = "dispatch" /\ o \in next_ops /\ o \notin VirtualOps /\ sent # {}
      /\ next_ops' = {} /\ completed_graph_ids' = {} /\ Submitted(o, sent) /\ pc' = "select"
      /\ UNCHANGED <<submitted, transfer_graphs, dirty_graph_ids, graphVars, finished_ops,
                     scheduling, failed_parent_op_ids, failed_graph_ids, queueVars, events,
                     new_graphs_num>>
  BY DEF DispatchRaises, NextInLine
<1> QED BY <1>1, DispatchStep

(* A message leaves the engine: of a virtual op, a completed graph or a failed
   one.  Nothing of the ended graph is under way, and nothing will be. *)
LEMMA MessageStep ==
  ASSUME EngineInv, NEW m \in Messages, completed_queue' = Append(completed_queue, m),
         next_ops' \subseteq next_ops, completed_graph_ids' \subseteq completed_graph_ids,
         failed_graph_ids' \subseteq failed_graph_ids,
         \A g \in Graphs : m = CompletedMsg(g) \/ m = FailedMsg(g) =>
           /\ g \in submitted /\ g \notin transfer_graphs
           /\ g \notin failed_graph_ids' \cup completed_graph_ids'
           /\ \A j \in Moving : graph_id[j[1]] # g
           /\ next_ops = {},
         UNCHANGED <<submitted, transfer_graphs, dirty_graph_ids, graphVars, finished_ops,
                     scheduling, working, child_to_parent_op_id, op_id_to_op,
                     pending_count, failed_parent_op_ids, pin_buffer, task_queue,
                     finished_ops_queue, received, tickVars>>
  PROVE  EngineInv'
<1> USE DEF EngineInv
<1>1. UNCHANGED <<status, predecessors, ready_ops, pc, events, new_graphs_num>>
  BY DEF graphVars, tickVars
<1>2. Moving' = Moving /\ JobsOnce' /\ CountsExact' /\ SlotsBalanced' BY JobsFrame
<1>3. /\ \A x : Said(x)' <=> Said(x) \/ x = m
      /\ completed_queue' \in Seq(Messages)
  BY SaidAppend
<1>4. SchedInv' /\ DrainInv'
  <2>1. next_ops' \subseteq Ops /\ scheduling' \in BOOLEAN
        /\ \A o \in finished_ops' : o \in Ops /\ status[o] = "RUNNING"
    BY DEF SchedInv, SchedTypeOK, FinishedRunning
  <2> QED BY <2>1, SchedFrame
<1>5. EngineTypes' BY <1>1, <1>3 DEF EngineTypes
<1>6. Phases' BY <1>1 DEF Phases
<1>7. MovingRuns' BY <1>1, <1>2 DEF MovingRuns
<1>8. NextStarted' /\ StartedSubmitted' /\ FailedOps' /\ FailedApart'
  BY <1>1 DEF NextStarted, StartedSubmitted, FailedOps, FailedApart
<1>9. EndedForgotten'
  <2> SUFFICES ASSUME NEW g \in Graphs, Ended(g)'
               PROVE  /\ g \in submitted'
                      /\ g \notin transfer_graphs' \cup failed_graph_ids' \cup completed_graph_ids'
                      /\ \A j \in Moving' : graph_id[j[1]] # g
                      /\ \A o \in next_ops' : graph_id[o] # g
    BY DEF EndedForgotten
  <2>1. Ended(g) \/ m = CompletedMsg(g) \/ m = FailedMsg(g) BY <1>3 DEF Ended
  <2>2. CASE Ended(g) BY <1>2, <2>2 DEF EndedForgotten
  <2>3. CASE m = CompletedMsg(g) \/ m = FailedMsg(g) BY <1>2, <2>3
  <2> QED BY <2>1, <2>2, <2>3
<1> QED BY <1>2, <1>4, <1>5, <1>6, <1>7, <1>8, <1>9

(* Messages name their graph and their op. *)
LEMMA MessageFacts ==
  /\ \A o \in Ops : OpMsg(o) \in Messages
  /\ \A g \in Graphs : CompletedMsg(g) \in Messages /\ FailedMsg(g) \in Messages
  /\ \A o \in Ops : \A g : OpMsg(o) # CompletedMsg(g) /\ OpMsg(o) # FailedMsg(g)
  /\ \A g, h : CompletedMsg(g) # FailedMsg(h)
  /\ \A g, h : CompletedMsg(g) = CompletedMsg(h) \/ FailedMsg(g) = FailedMsg(h) => g = h
  /\ \A o, q \in Ops : OpMsg(o) = OpMsg(q) => o = q
<1>1. /\ \A o \in Ops : OpMsg(o) \in Messages
      /\ \A g \in Graphs : CompletedMsg(g) \in Messages /\ FailedMsg(g) \in Messages
  BY DEF Messages
<1>2. /\ \A o \in Ops : OpMsg(o).kind = "op" /\ OpMsg(o).op = o
      /\ \A g : /\ CompletedMsg(g).kind = "completed" /\ CompletedMsg(g).graph = g
                /\ FailedMsg(g).kind = "failed" /\ FailedMsg(g).graph = g
  BY DEF OpMsg, CompletedMsg, FailedMsg
<1>3. \A g, h : CompletedMsg(g) # FailedMsg(h) BY <1>2
<1>4. \A o \in Ops : \A g : OpMsg(o) # CompletedMsg(g) /\ OpMsg(o) # FailedMsg(g) BY <1>2
<1>5. \A g, h : CompletedMsg(g) = CompletedMsg(h) \/ FailedMsg(g) = FailedMsg(h) => g = h BY <1>2
<1>6. \A o, q \in Ops : OpMsg(o) = OpMsg(q) => o = q BY <1>2
<1> QED BY <1>1, <1>3, <1>4, <1>5, <1>6

LEMMA DispatchVirtualStep ==
  ASSUME EngineInv, NEW o \in Ops, DispatchVirtual(o)
  PROVE  EngineInv'
<1>1. /\ next_ops' = next_ops \ {o} /\ completed_queue' = Append(completed_queue, OpMsg(o))
      /\ UNCHANGED <<submitted, transfer_graphs, dirty_graph_ids, graphVars, finished_ops,
                     completed_graph_ids, scheduling, working, child_to_parent_op_id,
                     op_id_to_op, pending_count, failed_parent_op_ids, failed_graph_ids,
                     pin_buffer, task_queue, finished_ops_queue, received, tickVars>>
  BY DEF DispatchVirtual, engineVars
<1>2. OpMsg(o) \in Messages /\ \A g \in Graphs : OpMsg(o) # CompletedMsg(g) /\ OpMsg(o) # FailedMsg(g)
  BY MessageFacts
<1>3. PICK m \in Messages : m = OpMsg(o) BY <1>2
<1> QED BY <1>1, <1>2, <1>3, MessageStep

LEMMA ReportCompletedStep ==
  ASSUME EngineInv, NEW g \in Graphs, ReportCompleted(g)
  PROVE  EngineInv'
<1>1. /\ next_ops = {} /\ g \in completed_graph_ids
      /\ completed_graph_ids' = completed_graph_ids \ {g}
      /\ completed_queue' = Append(completed_queue, CompletedMsg(g))
      /\ UNCHANGED <<submitted, transfer_graphs, dirty_graph_ids, graphVars, finished_ops,
                     next_ops, scheduling, working, child_to_parent_op_id, op_id_to_op,
                     pending_count, failed_parent_op_ids, failed_graph_ids, pin_buffer,
                     task_queue, finished_ops_queue, received, tickVars>>
  BY DEF ReportCompleted, engineVars
<1>2. PICK m \in Messages : m = CompletedMsg(g) BY MessageFacts
<1>3. \A h \in Graphs : m = CompletedMsg(h) \/ m = FailedMsg(h) => h = g
  BY <1>2, MessageFacts
<1>4. /\ g \in submitted /\ g \notin transfer_graphs /\ g \notin failed_graph_ids
      /\ \A o \in op_map(g) : status[o] = "COMPLETED"
  BY <1>1 DEF EngineInv, SchedInv, KnownGraphs, CompletionReport, FailedApart
<1>5. \A j \in Moving : graph_id[j[1]] # g
  <2>1. \A j \in Moving : j[1] \in Ops /\ status[j[1]] = "RUNNING"
    BY MovingJobs DEF EngineInv, MovingRuns
  <2> QED BY <1>4, <2>1 DEF op_map
<1> QED BY <1>1, <1>2, <1>3, <1>4, <1>5, MessageStep

LEMMA EmitStep ==
  ASSUME EngineInv, NEW g \in Graphs, emit_drained_graph_failures(g)
  PROVE  EngineInv'
<1>1. /\ pc = "emit" /\ g \in failed_graph_ids /\ DrainedGraph(g)
      /\ completed_queue' = Append(completed_queue, FailedMsg(g))
      /\ failed_graph_ids' = failed_graph_ids \ {g}
      /\ UNCHANGED <<submitted, transfer_graphs, dirty_graph_ids, graphVars, finished_ops,
                     next_ops, completed_graph_ids, scheduling, working,
                     child_to_parent_op_id, op_id_to_op, pending_count,
                     failed_parent_op_ids, pin_buffer, task_queue, finished_ops_queue,
                     received, tickVars>>
  BY DEF emit_drained_graph_failures, schedVars, resultVars
<1>2. PICK m \in Messages : m = FailedMsg(g) BY MessageFacts
<1>3. \A h \in Graphs : m = CompletedMsg(h) \/ m = FailedMsg(h) => h = g
  BY <1>2, MessageFacts
<1>4. /\ g \in submitted /\ g \notin transfer_graphs /\ g \notin completed_graph_ids
      /\ next_ops = {}
  BY <1>1 DEF EngineInv, FailedApart, Phases
<1>5. \A j \in Moving : graph_id[j[1]] # g
  <2>1. \A j \in Moving : j[1] \in Ops /\ j \in Outstanding(j[1])
    BY MovingJobs DEF EngineInv, Outstanding
  <2>2. \A j \in Moving : j[1] \in op_id_to_op BY <2>1 DEF EngineInv, CountsExact
  <2> QED BY <1>1, <2>2 DEF DrainedGraph
<1> QED BY <1>1, <1>2, <1>3, <1>4, <1>5, MessageStep
-----------------------------------------------------------------------------
LEMMA EngineInvInit == Init => EngineInv
<1> SUFFICES ASSUME Init PROVE EngineInv OBVIOUS
<1> USE DEF Init
<1>1. SchedInv /\ DrainInv BY SchedInvInit, DrainInvInit
<1>2. /\ status = [o \in Ops |-> "PENDING"] /\ finished_ops = {} /\ next_ops = {}
      /\ completed_graph_ids = {} /\ scheduling = FALSE
  BY DEF SchedInit
<1>3. Unread = {} /\ Moving = {} /\ Distinct(finished_ops_queue)
  BY DEF Unread, Moving, Distinct
<1>4. \A o \in Ops : Outstanding(o) = {} BY <1>3 DEF Outstanding
<1>5. EngineTypes
  <2>1. task_queue \in Seq(SUBSET Graphs) /\ finished_ops_queue \in Seq(Reports)
        /\ completed_queue \in Seq(Messages) /\ received \in Seq(Messages)
    OBVIOUS
  <2>2. pending_count \in [Ops -> Nat] /\ pin_buffer \in [Jobs -> 0 .. 1] OBVIOUS
  <2> QED BY <2>1, <2>2 DEF EngineTypes
<1>6. Phases /\ JobsOnce BY <1>2, <1>3 DEF Phases, JobsOnce
<1>7. CountsExact BY <1>4, FS_EmptySet DEF CountsExact
<1>8. MovingRuns /\ NextStarted /\ FailedOps /\ StartedSubmitted /\ FailedApart
  BY <1>2, <1>3 DEF MovingRuns, NextStarted, FailedOps, StartedSubmitted, FailedApart
<1>9. EndedForgotten
  <2>1. Len(Log) = 0 BY DEF Log
  <2>2. \A m : ~Said(m) BY <2>1 DEF Said
  <2> QED BY <2>2 DEF EndedForgotten, Ended
<1>10. SlotsBalanced BY <1>3 DEF SlotsBalanced, Moving
<1> QED BY <1>1, <1>5, <1>6, <1>7, <1>8, <1>9, <1>10 DEF EngineInv

LEMMA EngineInvStep == EngineInv /\ [Next]_vars => EngineInv'
<1> SUFFICES ASSUME EngineInv, [Next]_vars PROVE EngineInv' OBVIOUS
<1>1. CASE \E gs \in SUBSET Graphs : submit_transfer_graph(gs) BY <1>1, SubmitStep
<1>2. CASE get_completed_graphs_and_ops BY <1>2, FetchStep
<1>3. CASE Worker BY <1>3, WorkerReportStep DEF Worker
<1>4. CASE \E w \in CanCrash : WorkerCrash(w) BY <1>4, CrashStep
<1>5. CASE Tick
  <2>1. CASE \E o \in Ops : DispatchVirtual(o) \/ assign_op_to_worker(o)
    BY <2>1, DispatchVirtualStep, AssignStep
  <2>2. CASE \E o \in Ops : \E sent \in SUBSET jobsOf(o) : DispatchRaises(o, sent)
    BY <2>2, RaiseStep
  <2>3. CASE \E g \in Graphs : ReportCompleted(g) \/ emit_drained_graph_failures(g)
    BY <2>3, ReportCompletedStep, EmitStep
  <2> QED
    BY <1>5, <2>1, <2>2, <2>3, SelectStep, CollectGraphsStep, CollectFinishedStep,
       CollectFailedStep, EventDoneStep, EndCollectStep, RunScheduleStep,
       EndDispatchStep, EndTickStep
    DEF Tick
<1>6. CASE UNCHANGED vars
  <2>1. /\ UNCHANGED <<schedVars, working, child_to_parent_op_id, op_id_to_op, pending_count,
                       failed_parent_op_ids, failed_graph_ids, pin_buffer, queueVars>>
        /\ UNCHANGED <<pc, events, new_graphs_num>>
    BY <1>6 DEF vars, engineVars, tickVars
  <2>2. Phases' BY <2>1 DEF EngineInv, Phases, schedVars, resultVars
  <2> QED BY <2>1, <2>2, PhaseStep DEF EngineInv, EngineTypes
<1> QED BY <1>1, <1>2, <1>3, <1>4, <1>5, <1>6 DEF Next

(* The inductive invariant holds in every reachable state, with any jobs
   failing and any workers dying. *)
THEOREM EngineCorrect == Spec => []EngineInv
BY EngineInvInit, EngineInvStep, PTL DEF Spec

(* The state of the engine keeps its types; only ops that are dispatched and not
   drained are remembered as failed, and a job holds its slots at most once. *)
THEOREM EngineTypesAlways == Spec => []TypeOK
<1>1. EngineInv => TypeOK
  <2> SUFFICES ASSUME EngineInv PROVE TypeOK OBVIOUS
  <2>1. op_id_to_op \subseteq Ops \ VirtualOps
    BY DEF EngineInv, FailedOps, CountsExact, Outstanding, MovingRuns
  <2> QED BY <2>1 DEF EngineInv, TypeOK, SchedInv, EngineTypes, FailedOps, FailedApart
<1> QED BY <1>1, EngineCorrect, PTL

(* Slot references are taken and dropped once per job, whatever fails. *)
THEOREM SlotsBalancedAlways == Spec => []SlotsBalanced
<1>1. EngineInv => SlotsBalanced BY DEF EngineInv
<1> QED BY <1>1, EngineCorrect, PTL

(* When the terminal message of a graph leaves the engine, none of its jobs is
   with a worker and none of its reports is unread; nor ever after. *)
THEOREM TerminalMeansQuietAlways == Spec => []TerminalMeansQuiet
<1>1. EngineInv => TerminalMeansQuiet
  <2> SUFFICES ASSUME EngineInv, NEW i \in 1 .. Len(Log), Terminal(Log[i]),
                      NEW j \in working \cup Unread
               PROVE  graph_id[j[1]] # Log[i].graph
    BY DEF TerminalMeansQuiet
  <2>1. received \in Seq(Messages) /\ completed_queue \in Seq(Messages)
    BY DEF EngineInv, EngineTypes
  <2>2. Log \in Seq(Messages) BY <2>1 DEF Log
  <2>3. Log[i] \in Messages BY <2>2
  <2>4. Log[i].kind # "op" BY DEF Terminal
  <2>5. PICK g \in Graphs : Log[i] = CompletedMsg(g) \/ Log[i] = FailedMsg(g)
    BY <2>3, <2>4 DEF Messages, OpMsg
  <2>6. Log[i].graph = g BY <2>5 DEF CompletedMsg, FailedMsg
  <2>7. Ended(g) BY <2>5 DEF Ended, Said
  <2> QED BY <2>6, <2>7 DEF EngineInv, EndedForgotten, Moving
<1> QED BY <1>1, EngineCorrect, PTL

(* Inside the engine the scheduler releases ops in dependency order, is told
   only of running ops, completes a graph with its last op and strands none. *)
THEOREM EngineSchedules ==
  Spec => [](DependencyOrder /\ CompletionReport /\ MarksRunning /\ NoStrandedWork)
<1>1. SchedInv => DependencyOrder
  BY DEF SchedInv, DependencyOrder, StartedFree, PredsDone
<1>2. SchedInv => CompletionReport /\ MarksRunning
  BY DEF SchedInv, FinishedRunning, MarksRunning
<1>3. EngineInv => DependencyOrder /\ CompletionReport /\ MarksRunning /\ NoStrandedWork
  BY <1>1, <1>2, NothingStranded DEF EngineInv
<1> QED BY <1>3, EngineCorrect, PTL
-----------------------------------------------------------------------------
(* The engine implements the handle.  Nothing new is said of an op, and no op
   starts or completes. *)
LEMMA HandleFrame ==
  ASSUME HandleInv, UNCHANGED <<status, next_ops, finished_ops, Log, dead>>,
         Moving' \subseteq Moving
  PROVE  HandleInv'
<1>1. \A x : Said(x)' <=> Said(x) BY SaidFrame
<1>2. SaidOnce' BY <1>1 DEF HandleInv, SaidOnce
<1>3. DoneIsSaid' BY <1>1 DEF HandleInv, DoneIsSaid
<1> QED BY <1>2, <1>3 DEF HandleInv

(* What the handle calls open, given and reported. *)
LEMMA HandleFacts ==
  /\ \A m : Handle!In(m) <=> Said(m)
  /\ \A o \in Ops : Handle!OpDone(o) = OpMsg(o)
  /\ \A g : Handle!End(g, "completed") = CompletedMsg(g) /\ Handle!End(g, "failed") = FailedMsg(g)
  /\ \A g : Handle!Open(g) <=> g \in submitted \cup Queued /\ ~Ended(g)
<1>1. \A m : Handle!In(m) <=> Said(m) BY DEF Handle!In, Said
<1>2. \A o \in Ops : Handle!OpDone(o) = OpMsg(o) BY DEF Handle!OpDone, OpMsg
<1>3. \A g : Handle!End(g, "completed") = CompletedMsg(g) /\ Handle!End(g, "failed") = FailedMsg(g)
  BY DEF Handle!End, CompletedMsg, FailedMsg
<1>4. \A g : Handle!Open(g) <=> g \in submitted \cup Queued /\ ~Ended(g)
  BY <1>1, <1>3 DEF Handle!Open, Ended
<1> QED BY <1>1, <1>2, <1>3, <1>4

(* An op that has started is one whose dependencies have all been reported,
   unless they are still to be dispatched. *)
LEMMA DepsAreSaid ==
  ASSUME EngineInv, HandleInv, NEW o \in Ops, status[o] # "PENDING", NEW p \in deps[o],
         p \notin next_ops
  PROVE  Said(OpMsg(p))
<1>1. p \in Ops BY SchedulerAssumption
<1>2. status[p] = "COMPLETED" BY DEF EngineInv, SchedInv, StartedFree, PredsDone
<1> QED BY <1>1, <1>2 DEF HandleInv, DoneIsSaid

(* The report of an op is one the handle allows. *)
LEMMA OpReport ==
  ASSUME EngineInv, HandleInv, NEW o \in Ops,
         o \in next_ops \/ \E j \in Moving : j[1] = o,
         status[o] # "PENDING", deps[o] \cap next_ops = {},
         UNCHANGED <<submitted, task_queue, received>>,
         completed_queue' = Append(completed_queue, OpMsg(o))
  PROVE  Handle!HandleNext
<1>1. Log' = Append(Log, OpMsg(o)) BY SaidAppend, MessageFacts DEF EngineInv
<1>2. UNCHANGED (submitted \cup Queued) BY DEF Queued
<1>3. ~Said(OpMsg(o)) BY DEF HandleInv, SaidOnce
<1>4. \A p \in deps[o] : Said(OpMsg(p)) BY DepsAreSaid
<1>5. graph_id[o] \in submitted /\ graph_id[o] \in Graphs
  BY SchedulerAssumption DEF EngineInv, StartedSubmitted
<1>6. ~Ended(graph_id[o]) BY <1>5 DEF EngineInv, EndedForgotten
<1>7. Handle!Open(graph_id[o]) BY <1>5, <1>6, HandleFacts
<1>8. \A p \in deps[o] : p \in Ops BY SchedulerAssumption
<1>9. Handle!ReportOp(o)
  BY <1>1, <1>2, <1>3, <1>4, <1>7, <1>8, HandleFacts DEF Handle!ReportOp, Handle!Report
<1> QED BY <1>9 DEF Handle!HandleNext
(* What each action is to the handle. *)
HandleStep == HandleInv' /\ (Handle!HandleNext \/ UNCHANGED Handle!handleVars)

LEMMA SilentStep ==
  ASSUME HandleInv', UNCHANGED <<submitted, task_queue, Log>>
  PROVE  HandleStep
<1>1. UNCHANGED Queued BY DEF Queued
<1>2. UNCHANGED Handle!handleVars BY <1>1 DEF Handle!handleVars
<1> QED BY <1>2 DEF HandleStep

LEMMA SubmitIsSubmit ==
  ASSUME EngineInv, HandleInv, NEW gs \in SUBSET Graphs, submit_transfer_graph(gs)
  PROVE  HandleStep
<1>1. /\ gs # {} /\ gs \cap (submitted \cup Queued) = {}
      /\ task_queue' = Append(task_queue, gs)
      /\ UNCHANGED <<submitted, status, next_ops, finished_ops, dead, working,
                     finished_ops_queue, completed_queue, received>>
  BY DEF submit_transfer_graph, schedVars, graphVars, resultVars, engineVars
<1>2. UNCHANGED Log /\ Moving' = Moving BY <1>1 DEF Log, Moving, Unread
<1>3. HandleInv' BY <1>1, <1>2, HandleFrame
<1>4. task_queue \in Seq(SUBSET Graphs) BY DEF EngineInv, EngineTypes
<1>5. Queued' = Queued \cup gs
  <2> DEFINE q == Append(task_queue, gs)
  <2>1. /\ Len(task_queue) \in Nat /\ Len(q) = Len(task_queue) + 1
        /\ q[Len(task_queue) + 1] = gs
        /\ \A i \in 1 .. Len(task_queue) : q[i] = task_queue[i]
    BY <1>4
  <2>2. /\ \A i \in 1 .. Len(q) : i \in 1 .. Len(task_queue) \/ i = Len(task_queue) + 1
        /\ 1 .. Len(task_queue) \subseteq 1 .. Len(q) /\ Len(task_queue) + 1 \in 1 .. Len(q)
    BY <2>1
  <2>3. Queued' = UNION {q[i] : i \in 1 .. Len(q)} BY <1>1 DEF Queued
  <2> HIDE DEF q
  <2> QED BY <2>1, <2>2, <2>3, ZenonT(30) DEF Queued
<1>6. (submitted \cup Queued)' = (submitted \cup Queued) \cup gs BY <1>1, <1>5
<1>7. Handle!Submit(gs) BY <1>1, <1>2, <1>6 DEF Handle!Submit
<1> QED BY <1>3, <1>7 DEF HandleStep, Handle!HandleNext

LEMMA CollectGraphsIsSilent ==
  ASSUME EngineInv, HandleInv, CollectGraphs
  PROVE  HandleStep
<1>1. /\ task_queue # <<>> /\ task_queue \in Seq(SUBSET Graphs)
      /\ UNCHANGED <<status, next_ops, finished_ops, dead, working, finished_ops_queue,
                     completed_queue, received>>
  BY DEF CollectGraphs, graphVars, resultVars, engineVars, EngineInv, EngineTypes
<1>2. UNCHANGED Log /\ Moving' = Moving BY <1>1 DEF Log, Moving, Unread
<1>3. HandleInv' BY <1>1, <1>2, HandleFrame
<1>4. PICK g \in Head(task_queue) :
        /\ submitted' = submitted \cup {g}
        /\ task_queue' = IF Head(task_queue) = {g} THEN Tail(task_queue)
                         ELSE [task_queue EXCEPT ![1] = @ \ {g}]
  BY DEF CollectGraphs, add_transfer_graph
<1>5. submitted' \cup Queued' = submitted \cup Queued
  <2> DEFINE q == task_queue
  <2>0. Head(q) = q[1] /\ Len(q) \in Nat /\ 1 \in 1 .. Len(q) BY <1>1
  <2>1. g \in Queued BY <2>0 DEF Queued
  <2>2. CASE Head(q) = {g}
    <3>1. task_queue' = Tail(q) BY <1>4, <2>2
    <3>2. /\ Len(Tail(q)) = Len(q) - 1
          /\ \A i \in 1 .. Len(Tail(q)) : Tail(q)[i] = q[i + 1]
      BY <1>1
    <3>3. /\ \A i \in 1 .. Len(Tail(q)) : i + 1 \in 1 .. Len(q)
          /\ \A i \in 1 .. Len(q) : i = 1 \/ (i - 1 \in 1 .. Len(Tail(q)) /\ (i - 1) + 1 = i)
      BY <2>0, <3>2
    <3>4. Queued' = UNION {Tail(q)[i] : i \in 1 .. Len(Tail(q))} BY <3>1 DEF Queued
    <3>5. Queued' \subseteq Queued
      <4> SUFFICES ASSUME NEW i \in 1 .. Len(Tail(q)), NEW h \in Tail(q)[i] PROVE h \in Queued
        BY <3>4
      <4>1. i + 1 \in 1 .. Len(q) /\ h \in q[i + 1] BY <3>2, <3>3
      <4> QED BY <4>1 DEF Queued
    <3>6. Queued \subseteq Queued' \cup {g}
      <4> SUFFICES ASSUME NEW i \in 1 .. Len(q), NEW h \in q[i] PROVE h \in Queued' \cup {g}
        BY DEF Queued
      <4>1. CASE i = 1 BY <2>0, <2>2, <4>1
      <4>2. CASE i # 1
        <5>1. i - 1 \in 1 .. Len(Tail(q)) /\ Tail(q)[i - 1] = q[i] BY <3>2, <3>3, <4>2
        <5> QED BY <3>4, <5>1
      <4> QED BY <4>1, <4>2
    <3> QED BY <1>4, <2>1, <3>5, <3>6
  <2>3. CASE Head(q) # {g}
    <3> DEFINE r == [q EXCEPT ![1] = @ \ {g}]
    <3>1. task_queue' = r BY <1>4, <2>3
    <3>2. /\ Len(r) = Len(q) /\ r[1] = q[1] \ {g}
          /\ \A i \in 1 .. Len(q) : i # 1 => r[i] = q[i]
      BY <1>1, <2>0
    <3> HIDE DEF r
    <3>3. Queued' = UNION {r[i] : i \in 1 .. Len(q)} BY <3>1, <3>2 DEF Queued
    <3>4. Queued' \subseteq Queued BY <3>2, <3>3 DEF Queued
    <3>5. Queued \subseteq Queued' \cup {g} BY <2>0, <3>2, <3>3, SMTT(20) DEF Queued
    <3> QED BY <1>4, <2>1, <3>4, <3>5
  <2> QED BY <2>2, <2>3
<1>6. UNCHANGED Handle!handleVars BY <1>2, <1>5 DEF Handle!handleVars
<1> QED BY <1>3, <1>6 DEF HandleStep

(* Steps of the engine that say nothing and start nothing. *)
LEMMA SilentSteps ==
  ASSUME EngineInv, HandleInv,
         \/ get_completed_graphs_and_ops
         \/ Worker
         \/ Select \/ CollectFailed \/ EndCollect \/ EndDispatch \/ EndTick
         \/ \E e \in events : EventDone(e)
         \/ UNCHANGED vars
  PROVE  HandleStep
<1> USE DEF schedVars, graphVars, resultVars, engineVars, queueVars, tickVars
<1>1. CASE get_completed_graphs_and_ops
  <2>1. /\ UNCHANGED <<submitted, status, next_ops, finished_ops, dead, working, task_queue,
                       finished_ops_queue>>
        /\ UNCHANGED Log
    BY <1>1, FetchStep DEF get_completed_graphs_and_ops
  <2>2. Moving' = Moving BY <2>1 DEF Moving, Unread
  <2> QED BY <2>1, <2>2, HandleFrame, SilentStep
<1>2. CASE Worker
  <2>1. PICK j \in Jobs, ok \in BOOLEAN : WorkerReport(j, ok) BY <1>2 DEF Worker
  <2> DEFINE r == [job |-> j, ok |-> ok]
  <2>2. /\ j \in working /\ working' = working \ {j}
        /\ finished_ops_queue' = Append(finished_ops_queue, r)
        /\ UNCHANGED <<submitted, status, next_ops, finished_ops, dead, task_queue,
                       completed_queue, received>>
    BY <2>1 DEF WorkerReport
  <2>3. finished_ops_queue \in Seq(Reports) /\ r \in Reports /\ r.job = j
    BY DEF EngineInv, EngineTypes, Reports
  <2> HIDE DEF r
  <2>4. JobsIn(finished_ops_queue') = JobsIn(finished_ops_queue) \cup {j}
    BY <2>2, <2>3, ReportAppended
  <2>5. Unread' = Unread \cup {j} BY <2>4 DEF Unread, JobsIn
  <2>6. Moving' = Moving /\ UNCHANGED Log BY <2>2, <2>5 DEF Moving, Log
  <2> QED BY <2>2, <2>6, HandleFrame, SilentStep
<1>3. CASE Select
  <2>1. finished_ops = {} BY <1>3 DEF EngineInv, Phases, Select
  <2>2. UNCHANGED <<submitted, status, next_ops, finished_ops, dead, working, task_queue,
                    finished_ops_queue, completed_queue, received>>
    BY <1>3, <2>1 DEF Select
  <2>3. Moving' = Moving /\ UNCHANGED Log BY <2>2 DEF Moving, Unread, Log
  <2> QED BY <2>2, <2>3, HandleFrame, SilentStep
<1>4. CASE CollectFailed
  <2>1. PICK j : j = Head(finished_ops_queue).job OBVIOUS
  <2>2. /\ finished_ops_queue # <<>> /\ Collected(j)
        /\ UNCHANGED <<submitted, status, next_ops, finished_ops, dead, working, task_queue,
                       completed_queue, received>>
    BY <1>4, <2>1 DEF CollectFailed
  <2>3. Moving' \subseteq Moving BY <2>1, <2>2, CollectedStep
  <2>4. UNCHANGED Log BY <2>2 DEF Log
  <2> QED BY <2>2, <2>3, <2>4, HandleFrame, SilentStep
<1>5. CASE EndCollect
  <2>1. next_ops = {} /\ completed_graph_ids = {} BY <1>5 DEF EndCollect, EngineInv, Phases
  <2>2. UNCHANGED <<submitted, status, next_ops, finished_ops, dead, working, task_queue,
                    finished_ops_queue, completed_queue, received>>
    BY <1>5, <2>1 DEF EndCollect, schedule
  <2>3. Moving' = Moving /\ UNCHANGED Log BY <2>2 DEF Moving, Unread, Log
  <2> QED BY <2>2, <2>3, HandleFrame, SilentStep
<1>6. CASE EndDispatch \/ EndTick \/ (\E e \in events : EventDone(e)) \/ UNCHANGED vars
  <2>1. UNCHANGED <<submitted, status, next_ops, finished_ops, dead, working, task_queue,
                    finished_ops_queue, completed_queue, received>>
    BY <1>6 DEF EndDispatch, EndTick, EventDone, vars
  <2>2. Moving' = Moving /\ UNCHANGED Log BY <2>1 DEF Moving, Unread, Log
  <2> QED BY <2>1, <2>2, HandleFrame, SilentStep
<1> QED BY <1>1, <1>2, <1>3, <1>4, <1>5, <1>6

LEMMA CollectFinishedReports ==
  ASSUME EngineInv, HandleInv, CollectFinished
  PROVE  HandleStep
<1>0. PICK j : j = Head(finished_ops_queue).job OBVIOUS
<1> DEFINE finalize == Drained(j[1]) /\ j[1] \notin failed_parent_op_ids
<1>1. /\ pc = "collect" /\ finished_ops_queue # <<>> /\ Collected(j)
      /\ finished_ops' = IF finalize THEN finished_ops \cup {j[1]} ELSE finished_ops
      /\ completed_queue' = IF finalize THEN Append(completed_queue, OpMsg(j[1]))
                            ELSE completed_queue
      /\ UNCHANGED <<submitted, status, next_ops, dead, working, task_queue, received>>
  BY <1>0 DEF CollectFinished, graphVars, resultVars
<1>2. /\ j \in Moving /\ j[1] \in Ops /\ Moving' = Moving \ {j}
      /\ Drained(j[1]) <=> \A k \in Moving' : k[1] # j[1]
  BY <1>0, <1>1, CollectedStep
<1>3. CASE ~finalize
  <2>1. UNCHANGED finished_ops /\ UNCHANGED Log BY <1>1, <1>3 DEF Log
  <2> QED BY <1>1, <1>2, <2>1, HandleFrame, SilentStep
<1>4. CASE finalize
  <2>1. /\ completed_queue' = Append(completed_queue, OpMsg(j[1]))
        /\ finished_ops' = finished_ops \cup {j[1]} /\ \A k \in Moving' : k[1] # j[1]
    BY <1>1, <1>2, <1>4
  <2>2. status[j[1]] = "RUNNING" /\ next_ops = {} /\ OpMsg(j[1]) \in Messages
    BY <1>1, <1>2, MessageFacts DEF EngineInv, MovingRuns, Phases
  <2>3. \A x : Said(x)' <=> Said(x) \/ x = OpMsg(j[1])
    BY <1>1, <2>1, <2>2, SaidAppend DEF EngineInv
  <2>4. \A o \in Ops : Said(OpMsg(o))' <=> Said(OpMsg(o)) \/ o = j[1]
    BY <1>2, <2>3, MessageFacts
  <2>5. SaidOnce' BY <1>1, <1>2, <2>1, <2>2, <2>4 DEF HandleInv, SaidOnce
  <2>6. finished_ops \subseteq Ops BY DEF EngineInv, SchedInv, SchedTypeOK
  <2>7. DoneIsSaid' BY <1>1, <1>2, <2>1, <2>4, <2>6 DEF HandleInv, DoneIsSaid
  <2>8. Handle!HandleNext BY <1>1, <1>2, <2>1, <2>2, OpReport
  <2> QED BY <1>1, <2>5, <2>7, <2>8 DEF HandleInv, HandleStep
<1> QED BY <1>3, <1>4

LEMMA RunScheduleIsSilent ==
  ASSUME EngineInv, HandleInv, RunSchedule
  PROVE  HandleStep
<1>1. /\ pc = "schedule" /\ ScheduleStep
      /\ UNCHANGED <<dead, working, task_queue, finished_ops_queue, completed_queue, received>>
  BY DEF RunSchedule, engineVars, queueVars
<1>2. /\ submitted' = submitted /\ finished_ops' \subseteq finished_ops
      /\ next_ops \subseteq next_ops'
      /\ \A o \in Ops : status'[o] # status[o] =>
           \/ o \in finished_ops /\ status'[o] = "COMPLETED"
           \/ /\ status[o] = "PENDING" /\ o \in next_ops'
              /\ status'[o] = IF o \in VirtualOps THEN "COMPLETED" ELSE "RUNNING"
      /\ \A o \in next_ops' : o \notin next_ops => status[o] = "PENDING"
  BY <1>1, ScheduleEffect
<1>3. UNCHANGED Log /\ Moving' = Moving BY <1>1 DEF Log, Moving, Unread
<1>4. \A x : Said(x)' <=> Said(x) BY <1>3, SaidFrame
<1>5. SaidOnce' BY <1>2, <1>3, <1>4 DEF HandleInv, SaidOnce
<1>6. DoneIsSaid' BY <1>2, <1>4 DEF HandleInv, DoneIsSaid
<1>7. HandleInv' BY <1>1, <1>5, <1>6 DEF HandleInv
<1> QED BY <1>1, <1>2, <1>3, <1>7, SilentStep

LEMMA DispatchVirtualReports ==
  ASSUME EngineInv, HandleInv, NEW o \in Ops, DispatchVirtual(o)
  PROVE  HandleStep
<1>1. /\ o \in next_ops /\ deps[o] \cap next_ops = {} /\ o \in VirtualOps
      /\ next_ops' = next_ops \ {o} /\ completed_queue' = Append(completed_queue, OpMsg(o))
      /\ UNCHANGED <<submitted, status, finished_ops, dead, working, task_queue,
                     finished_ops_queue, received>>
  BY DEF DispatchVirtual, NextInLine, graphVars, engineVars
<1>2. status[o] = "COMPLETED" /\ OpMsg(o) \in Messages
  BY <1>1, MessageFacts DEF EngineInv, NextStarted
<1>3. Moving' = Moving BY <1>1 DEF Moving, Unread
<1>4. \A x : Said(x)' <=> Said(x) \/ x = OpMsg(o) BY <1>1, <1>2, SaidAppend DEF EngineInv
<1>5. \A q \in Ops : Said(OpMsg(q))' <=> Said(OpMsg(q)) \/ q = o BY <1>4, MessageFacts
<1>6. \A j \in Moving : j[1] # o BY <1>1 DEF EngineInv, MovingRuns
<1>7. SaidOnce' BY <1>1, <1>2, <1>3, <1>5, <1>6 DEF HandleInv, SaidOnce
<1>8. finished_ops \subseteq Ops BY DEF EngineInv, SchedInv, SchedTypeOK
<1>9. DoneIsSaid' BY <1>1, <1>5, <1>8 DEF HandleInv, DoneIsSaid
<1>10. Handle!HandleNext BY <1>1, <1>2, OpReport
<1> QED BY <1>1, <1>7, <1>9, <1>10 DEF HandleInv, HandleStep

LEMMA AssignIsSilent ==
  ASSUME EngineInv, HandleInv, NEW o \in Ops, assign_op_to_worker(o)
  PROVE  HandleStep
<1>1. /\ o \in next_ops /\ o \notin VirtualOps /\ next_ops' = next_ops \ {o}
      /\ Submitted(o, jobsOf(o))
      /\ UNCHANGED <<submitted, status, finished_ops, dead, task_queue, finished_ops_queue,
                     completed_queue, received>>
  BY DEF assign_op_to_worker, NextInLine, graphVars, queueVars
<1>2. jobsOf(o) # {} BY DEF jobsOf
<1>3. Moving' = Moving \cup jobsOf(o) /\ \A j \in jobsOf(o) : j[1] = o
  BY <1>1, <1>2, SubmittedStep, JobFacts
<1>4. UNCHANGED Log BY <1>1 DEF Log
<1>5. \A x : Said(x)' <=> Said(x) BY <1>4, SaidFrame
<1>6. status[o] = "RUNNING" BY <1>1 DEF EngineInv, NextStarted
<1>7. SaidOnce' BY <1>1, <1>3, <1>5 DEF HandleInv, SaidOnce
<1>8. DoneIsSaid' BY <1>1, <1>5, <1>6 DEF HandleInv, DoneIsSaid
<1>9. HandleInv' BY <1>1, <1>7, <1>8 DEF HandleInv
<1> QED BY <1>1, <1>4, <1>9, SilentStep

(* The end of a graph that is still open is reported. *)
LEMMA EndReport ==
  ASSUME EngineInv, HandleInv, NEW g \in Graphs, g \in failed_graph_ids \cup completed_graph_ids,
         NEW m \in {CompletedMsg(g), FailedMsg(g)},
         m = CompletedMsg(g) => \A o \in Ops : graph_id[o] = g => Said(OpMsg(o)),
         UNCHANGED <<submitted, status, next_ops, finished_ops, dead, working, task_queue,
                     finished_ops_queue, received>>,
         completed_queue' = Append(completed_queue, m)
  PROVE  HandleStep
<1>1. m \in Messages BY MessageFacts
<1>2. Log' = Append(Log, m) /\ \A x : Said(x)' <=> Said(x) \/ x = m
  BY <1>1, SaidAppend DEF EngineInv
<1>3. \A o \in Ops : Said(OpMsg(o))' <=> Said(OpMsg(o)) BY <1>2, MessageFacts
<1>4. Moving' = Moving BY DEF Moving, Unread
<1>5. SaidOnce' BY <1>3, <1>4 DEF HandleInv, SaidOnce
<1>6. finished_ops \subseteq Ops BY DEF EngineInv, SchedInv, SchedTypeOK
<1>7. DoneIsSaid' BY <1>3, <1>6 DEF HandleInv, DoneIsSaid
<1>8. HandleInv' BY <1>5, <1>7 DEF HandleInv
<1>9. g \in submitted /\ ~Ended(g)
  BY DEF EngineInv, FailedApart, SchedInv, KnownGraphs, EndedForgotten
<1>10. Handle!Open(g) BY <1>9, HandleFacts
<1>11. UNCHANGED (submitted \cup Queued) BY DEF Queued
<1>12. Handle!ReportCompleted(g) \/ Handle!ReportFailed(g)
  BY <1>2, <1>10, <1>11, HandleFacts
  DEF Handle!ReportCompleted, Handle!ReportFailed, Handle!Report
<1> QED BY <1>8, <1>12 DEF HandleStep, Handle!HandleNext

LEMMA ReportCompletedReports ==
  ASSUME EngineInv, HandleInv, NEW g \in Graphs, ReportCompleted(g)
  PROVE  HandleStep
<1>1. /\ next_ops = {} /\ g \in completed_graph_ids
      /\ completed_queue' = Append(completed_queue, CompletedMsg(g))
      /\ UNCHANGED <<submitted, status, next_ops, finished_ops, dead, working, task_queue,
                     finished_ops_queue, received>>
  BY DEF ReportCompleted, graphVars, engineVars
<1>2. \A o \in Ops : graph_id[o] = g => status[o] = "COMPLETED"
  BY <1>1 DEF EngineInv, SchedInv, CompletionReport, op_map
<1>3. \A o \in Ops : graph_id[o] = g => Said(OpMsg(o))
  BY <1>1, <1>2 DEF HandleInv, DoneIsSaid
<1> QED BY <1>1, <1>3, EndReport

LEMMA EmitReports ==
  ASSUME EngineInv, HandleInv, NEW g \in Graphs, emit_drained_graph_failures(g)
  PROVE  HandleStep
<1>1. /\ g \in failed_graph_ids /\ completed_queue' = Append(completed_queue, FailedMsg(g))
      /\ UNCHANGED <<submitted, status, next_ops, finished_ops, dead, working, task_queue,
                     finished_ops_queue, received>>
  BY DEF emit_drained_graph_failures, schedVars, graphVars, resultVars
<1>2. FailedMsg(g) # CompletedMsg(g) BY MessageFacts
<1> QED BY <1>1, <1>2, EndReport

LEMMA HandleInvStep ==
  ASSUME CanCrash = {}, EngineInv, HandleInv, [Next]_vars
  PROVE  HandleStep
<1>1. CASE \E gs \in SUBSET Graphs : submit_transfer_graph(gs) BY <1>1, SubmitIsSubmit
<1>2. CASE get_completed_graphs_and_ops \/ Worker \/ UNCHANGED vars BY <1>2, SilentSteps
<1>3. CASE Tick
  <2>1. CASE \E o \in Ops : DispatchVirtual(o) \/ assign_op_to_worker(o)
    BY <2>1, DispatchVirtualReports, AssignIsSilent
  <2>2. ~\E o \in Ops : \E sent \in SUBSET jobsOf(o) : DispatchRaises(o, sent)
    BY DEF DispatchRaises, HandleInv
  <2>3. CASE \E g \in Graphs : ReportCompleted(g) \/ emit_drained_graph_failures(g)
    BY <2>3, ReportCompletedReports, EmitReports
  <2> QED
    BY <1>3, <2>1, <2>2, <2>3, SilentSteps, CollectGraphsIsSilent, CollectFinishedReports,
       RunScheduleIsSilent
    DEF Tick
<1> QED BY <1>1, <1>2, <1>3 DEF Next

LEMMA HandleInvInit == Init => HandleInv /\ Handle!HandleInit
<1> SUFFICES ASSUME Init PROVE HandleInv /\ Handle!HandleInit OBVIOUS
<1> USE DEF Init, SchedInit
<1>1. Log = <<>> /\ Queued = {} BY DEF Log, Queued
<1>2. \A m : ~Said(m) BY <1>1 DEF Said
<1>3. HandleInv BY <1>2 DEF HandleInv, SaidOnce, DoneIsSaid
<1> QED BY <1>1, <1>3 DEF Handle!HandleInit

(* While no worker process dies, the engine is a TransferHandle: of a submitted
   graph each op is reported once and after its dependencies, then its end is
   reported once and after all of its ops if it completed, and then nothing. *)
THEOREM EngineImplementsHandle ==
  ASSUME CanCrash = {}
  PROVE  Spec => HandleSpec
<1>1. Init => HandleInv /\ Handle!HandleInit BY HandleInvInit
<1>2. EngineInv /\ HandleInv /\ [Next]_vars => HandleInv' /\ [Handle!HandleNext]_(Handle!handleVars)
  BY HandleInvStep DEF HandleStep
<1> QED BY <1>1, <1>2, EngineCorrect, PTL DEF Spec, HandleSpec, Handle!HandleSpec
=============================================================================
