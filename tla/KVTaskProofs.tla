----------------------------- MODULE KVTaskProofs -----------------------------
(* Proofs about KVTask, for every number of tasks, batches and handles, with     *)
(* every kind of caller the scopes allow: callbacks that raise, resets, cancels  *)
(* in flight and batches of tasks that are already over.                         *)
EXTENDS KVTask, FiniteSetTheorems, TLAPS

Terminals == {"completed", "failed"}
Messages == [graph : Ids, op : GraphOps \cup {Graph}, ok : BOOLEAN, len : 0 .. Planned]

TableTypes ==
  /\ scope \in Scopes
  /\ status \in [Ids -> Statuses]
  /\ created \subseteq Ids
  /\ task_type \in [Ids -> TaskTypes]
  /\ task_end_op_finished \in [Ids -> BOOLEAN]
  /\ transfer_failed \in [Ids -> BOOLEAN]
  /\ request_returned \in [Ids -> BOOLEAN]
  /\ callback \in [Ids -> SUBSET Tasks]
  /\ op_callback_dict \in [Ids -> BOOLEAN]
  /\ graph \in [Ids -> BOOLEAN]
  /\ graph_to_task \subseteq Ids
  /\ plan \in [Tasks -> {"none", "held", "completed", "aborted", "dropped"}]
  /\ opDone \in [Tasks -> SUBSET GraphOps]
  /\ response \in [Ids -> {"none", "SUCCESS", "COMPLETED", "CANCELLED", "FAILED"}]

ChannelTypes ==
  /\ hstate \in [AllHandles -> [Ids -> {"new", "open"} \cup Terminals]]
  /\ hdone \in [AllHandles -> [Ids -> SUBSET GraphOps]]
  /\ early_graphs \subseteq Ids
  /\ queue \in [AllHandles -> Seq(Messages)]

Unsent(t) == \A h \in Handles : hstate[h][t] = "new"

(* An id that was never used has left no trace. *)
Fresh ==
  \A t \in Ids : t \notin created =>
    /\ status[t] = "none" /\ callback[t] = {} /\ t \notin graph_to_task
    /\ ~task_end_op_finished[t] /\ response[t] = "none"
    /\ Unsent(t)
    /\ t \in Tasks => plan[t] = "none" /\ opDone[t] = {}

(* A graph that resolves belongs to a task in the table that was not shed. *)
Mapped == \A t \in graph_to_task : status[t] # "none" /\ graph[t]

(* A matched task that was not launched carries its own plan. *)
UnreadyTasks ==
  \A t \in Ids : status[t] = "UNREADY" =>
    /\ t \in Tasks /\ t \in graph_to_task /\ callback[t] = {t}
    /\ ~task_end_op_finished[t] /\ response[t] = "none"
    /\ Unsent(t)

(* A terminal task carries none; a single task only its own. *)
SettledCarryNone == \A t \in Ids : is_completed(t) => callback[t] = {}
OwnPlans ==
  /\ \A t \in Ids : callback[t] \subseteq created
  /\ \A t \in Tasks : callback[t] \subseteq {t}

(* The plans of a task whose graph resolves are held, by it alone; whoever else
   still names them was never given to a handle. *)
HeldPlans ==
  \A t \in graph_to_task : \A p \in callback[t] :
    /\ plan[p] = "held"
    /\ \A u \in Ids : u # t /\ p \in callback[u] => u \notin graph_to_task /\ Unsent(u)

TableInv ==
  /\ TableTypes
  /\ Fresh
  /\ Mapped
  /\ UnreadyTasks
  /\ SettledCarryNone
  /\ OwnPlans
  /\ HeldPlans

Has(q, g, o) == \E i \in 1 .. Len(q) : q[i].graph = g /\ q[i].op = o
Ordered(q) ==
  /\ \A i, k \in 1 .. Len(q) : q[i].graph = q[k].graph /\ q[i].op = q[k].op => i = k
  /\ \A i, k \in 1 .. Len(q) : q[i].graph = q[k].graph /\ q[i].op = Graph => k <= i

(* What a handle has in its queue: each message once, the end of a graph last,
   and what it says is so. *)
SaysTrue(h, m) ==
  IF m.op = Graph
    THEN hstate[h][m.graph] = IF m.ok THEN "completed" ELSE "failed"
    ELSE m.op \in hdone[h][m.graph] /\ Reported(h, m.graph, m.op)
QueuesOrdered == \A h \in Handles : Ordered(queue[h])
QueuesTrue ==
  \A h \in Handles : \A i \in 1 .. Len(queue[h]) : SaysTrue(h, queue[h][i])
OpsBelong ==
  \A h \in Handles, g \in Ids :
    /\ hstate[h][g] = "new" => hdone[h][g] = {}
    /\ hstate[h][g] = "completed" => hdone[h][g] = GraphOps
EndsLast ==
  \A h \in Handles, g \in Ids :
    hstate[h][g] \in Terminals /\ ~Has(queue[h], g, Graph) =>
      \A o \in GraphOps : ~Has(queue[h], g, o)
Channels == QueuesOrdered /\ QueuesTrue /\ OpsBelong /\ EndsLast

(* The handles whose copy of a message has been counted. *)
Counted(g) == {h \in Handles : hstate[h][g] \in Terminals /\ ~Has(queue[h], g, Graph)}
OpCounted(g, o) ==
  {h \in Handles : o \in hdone[h][g] /\ Reported(h, g, o) /\ ~Has(queue[h], g, o)}

Purged(g) == Counted(g) = Handles /\ \E h \in Handles : hstate[h][g] = "failed"
CopiesOf(S) == IF S = Handles THEN 0 ELSE Cardinality(S)

(* A counter is the number of copies so far, and gone with the last one; a graph
   that failed takes the counters of its ops with it. *)
Counts ==
  /\ uncompleted_ops \in [Ids -> [GraphOps -> [count : Nat, len : 0 .. Planned]]]
  /\ uncompleted_graphs \in [Ids -> [count : Nat, failed : BOOLEAN]]
  /\ \A g \in Ids :
       /\ uncompleted_graphs[g].count = CopiesOf(Counted(g))
       /\ uncompleted_graphs[g].failed <=>
            /\ Counted(g) # Handles
            /\ \E h \in Counted(g) : hstate[h][g] = "failed"
       /\ \A o \in GraphOps :
            uncompleted_ops[g][o].count = IF Purged(g) THEN 0 ELSE CopiesOf(OpCounted(g, o))

ChannelInv == ChannelTypes /\ Channels /\ Counts

(* An early answer has its data path done everywhere, a final one its graph. *)
EndedEverywhere(t) == \A h \in Handles : task_end_op_id(t) \in hdone[h][t]
CompletedEverywhere(t) == \A h \in Handles : hstate[h][t] = "completed"

EarlyEnds ==
  \A t \in Ids : status[t] = "RUNNING" /\ task_end_op_finished[t] => EndedEverywhere(t)
CompletedEnds ==
  \A t \in Ids : status[t] = "COMPLETED" => Unsent(t) \/ CompletedEverywhere(t)
Answers ==
  \A t \in Ids : response[t] = "SUCCESS" =>
    \/ Unsent(t)
    \/ CompletedEverywhere(t)
    \/ EndedEverywhere(t) /\ task_type[t] # "PREFETCH"

AnswerInv == EarlyEnds /\ CompletedEnds /\ Answers /\ PublishedEverywhere

KVTaskInv == TableInv /\ ChannelInv /\ AnswerInv
-----------------------------------------------------------------------------
(* What a scope says. *)
LEMMA ScopeFacts ==
  ASSUME scope \in Scopes
  PROVE  /\ Handles \subseteq AllHandles /\ Handles # {} /\ IsFiniteSet(Handles)
         /\ Planned \in Nat \ {0}
         /\ required_completed_count \in Nat
         /\ scope.tasks \subseteq Tasks /\ scope.batches \subseteq Batches
<1>1. /\ Handles \subseteq AllHandles /\ Handles # {} /\ Planned \in Nat \ {0}
      /\ scope.tasks \subseteq Tasks /\ scope.batches \subseteq Batches
  BY KVTaskAssumption DEF Handles, Planned
<1>2. IsFiniteSet(Handles)
  BY <1>1, KVTaskAssumption, FS_Subset
<1> QED BY <1>1, <1>2, FS_CardinalityType DEF required_completed_count

(* One more handle: its copy is the last one exactly when it completes the set. *)
LEMMA CopyAdded ==
  ASSUME IsFiniteSet(Handles), NEW S \in SUBSET Handles, NEW h \in Handles, h \notin S
  PROVE  /\ CopiesOf(S) = Cardinality(S) /\ Cardinality(S) \in Nat
         /\ Cardinality(S) + 1 <= required_completed_count
         /\ S \cup {h} = Handles <=> Cardinality(S) + 1 = required_completed_count
         /\ CopiesOf(S \cup {h}) =
              IF Cardinality(S) + 1 = required_completed_count THEN 0 ELSE Cardinality(S) + 1
<1>1. IsFiniteSet(S) /\ Cardinality(S) \in Nat /\ S # Handles
  BY FS_Subset, FS_CardinalityType
<1>2. Cardinality(S \cup {h}) = Cardinality(S) + 1
  BY <1>1, FS_AddElement
<1>3. /\ Cardinality(S \cup {h}) <= Cardinality(Handles)
      /\ Cardinality(Handles) = Cardinality(S \cup {h}) => Handles = S \cup {h}
  <2>1. S \cup {h} \subseteq Handles
    OBVIOUS
  <2> QED BY <2>1, FS_Subset
<1>4. Cardinality(Handles) \in Nat
  BY FS_CardinalityType
<1> QED BY <1>1, <1>2, <1>3, <1>4 DEF CopiesOf, required_completed_count

(* A counter that is not at its end is below the number of handles. *)
LEMMA CopiesBelow ==
  ASSUME IsFiniteSet(Handles), Handles # {}, NEW S \in SUBSET Handles
  PROVE  CopiesOf(S) \in 0 .. required_completed_count - 1
<1>1. CASE S = Handles
  <2>1. Cardinality(Handles) \in Nat /\ Cardinality(Handles) # 0
    BY FS_CardinalityType, FS_EmptySet
  <2> QED BY <1>1, <2>1 DEF CopiesOf, required_completed_count
<1>2. CASE S # Handles
  <2>1. PICK h \in Handles : h \notin S
    BY <1>2
  <2>2. required_completed_count \in Nat
    BY FS_CardinalityType DEF required_completed_count
  <2>3. /\ CopiesOf(S) = Cardinality(S) /\ Cardinality(S) \in Nat
        /\ Cardinality(S) + 1 <= required_completed_count
    BY <2>1, CopyAdded
  <2> QED BY <2>2, <2>3
<1> QED BY <1>1, <1>2

(* Queues: what Append and Tail do to the messages in them. *)
LEMMA HasAppend ==
  ASSUME NEW T, NEW q \in Seq(T), NEW m \in T, NEW g, NEW o
  PROVE  Has(Append(q, m), g, o) <=> Has(q, g, o) \/ (m.graph = g /\ m.op = o)
<1>1. /\ Len(Append(q, m)) = Len(q) + 1 /\ Len(q) \in Nat
      /\ \A i \in 1 .. Len(q) : Append(q, m)[i] = q[i]
      /\ Append(q, m)[Len(q) + 1] = m
  OBVIOUS
<1>2. \A i \in 1 .. Len(q) + 1 : i \in 1 .. Len(q) \/ i = Len(q) + 1
  BY <1>1
<1>3. Len(q) + 1 \in 1 .. Len(q) + 1 /\ 1 .. Len(q) \subseteq 1 .. Len(q) + 1
  BY <1>1
<1> HIDE <1>1
<1> QED BY <1>1, <1>2, <1>3 DEF Has

LEMMA OrderedAppend ==
  ASSUME NEW T, NEW q \in Seq(T), NEW m \in T,
         Ordered(q), ~Has(q, m.graph, m.op), ~Has(q, m.graph, Graph)
  PROVE  Ordered(Append(q, m))
<1>1. /\ Len(Append(q, m)) = Len(q) + 1 /\ Len(q) \in Nat
      /\ \A i \in 1 .. Len(q) : Append(q, m)[i] = q[i]
      /\ Append(q, m)[Len(q) + 1] = m
  OBVIOUS
<1>2. \A i \in 1 .. Len(q) + 1 : i \in 1 .. Len(q) \/ i = Len(q) + 1
  BY <1>1
<1>3. \A i \in 1 .. Len(q) : i <= Len(q) + 1 /\ i \in Nat
  BY <1>1
<1>4. ASSUME NEW i \in 1 .. Len(q) + 1, NEW k \in 1 .. Len(q) + 1
      PROVE  /\ Append(q, m)[i].graph = Append(q, m)[k].graph
                /\ Append(q, m)[i].op = Append(q, m)[k].op => i = k
             /\ Append(q, m)[i].graph = Append(q, m)[k].graph
                /\ Append(q, m)[i].op = Graph => k <= i
  <2>1. CASE i \in 1 .. Len(q) /\ k \in 1 .. Len(q)
    BY <2>1, <1>1 DEF Ordered
  <2>2. CASE i = Len(q) + 1 /\ k \in 1 .. Len(q)
    BY <2>2, <1>1, <1>3 DEF Has
  <2>3. CASE i \in 1 .. Len(q) /\ k = Len(q) + 1
    BY <2>3, <1>1, <1>3 DEF Has
  <2>4. CASE i = Len(q) + 1 /\ k = Len(q) + 1
    BY <2>4, <1>1
  <2> QED BY <2>1, <2>2, <2>3, <2>4, <1>2
<1> QED BY <1>1, <1>4 DEF Ordered

LEMMA TailOf ==
  ASSUME NEW T, NEW q \in Seq(T), q # <<>>
  PROVE  /\ Len(q) \in Nat /\ 1 \in 1 .. Len(q) /\ Head(q) = q[1] /\ Head(q) \in T
         /\ Tail(q) \in Seq(T) /\ Len(Tail(q)) = Len(q) - 1
         /\ \A i \in 1 .. Len(Tail(q)) : i + 1 \in 1 .. Len(q) /\ Tail(q)[i] = q[i + 1]
         /\ \A i \in 1 .. Len(q) : i = 1 \/ (i - 1 \in 1 .. Len(Tail(q)) /\ (i - 1) + 1 = i)
OBVIOUS

LEMMA HasTail ==
  ASSUME NEW T, NEW q \in Seq(T), q # <<>>, Ordered(q), NEW g, NEW o
  PROVE  Has(Tail(q), g, o) <=> Has(q, g, o) /\ ~(Head(q).graph = g /\ Head(q).op = o)
<1> DEFINE r == Tail(q)
<1>1. /\ Len(q) \in Nat /\ 1 \in 1 .. Len(q) /\ Head(q) = q[1]
      /\ \A i \in 1 .. Len(r) : i + 1 \in 1 .. Len(q) /\ r[i] = q[i + 1] /\ i + 1 # 1
      /\ \A i \in 1 .. Len(q) : i = 1 \/ (i - 1 \in 1 .. Len(r) /\ (i - 1) + 1 = i)
  BY TailOf
<1> HIDE DEF r
<1>2. Has(r, g, o) => Has(q, g, o) /\ ~(Head(q).graph = g /\ Head(q).op = o)
  <2> SUFFICES ASSUME NEW i \in 1 .. Len(r), r[i].graph = g, r[i].op = o
               PROVE  Has(q, g, o) /\ ~(Head(q).graph = g /\ Head(q).op = o)
    BY DEF Has
  <2> QED BY <1>1 DEF Has, Ordered
<1>3. Has(q, g, o) /\ ~(Head(q).graph = g /\ Head(q).op = o) => Has(r, g, o)
  <2> SUFFICES ASSUME NEW i \in 1 .. Len(q), q[i].graph = g, q[i].op = o,
                      ~(Head(q).graph = g /\ Head(q).op = o)
               PROVE  Has(r, g, o)
    BY DEF Has
  <2>1. i - 1 \in 1 .. Len(r) /\ r[i - 1] = q[i]
    BY <1>1
  <2> QED BY <2>1 DEF Has
<1> QED BY <1>2, <1>3 DEF r

LEMMA OrderedTail ==
  ASSUME NEW T, NEW q \in Seq(T), q # <<>>, Ordered(q)
  PROVE  /\ Ordered(Tail(q))
         /\ Has(q, Head(q).graph, Head(q).op)
         /\ Head(q).op = Graph => \A o : ~Has(Tail(q), Head(q).graph, o)
<1> DEFINE r == Tail(q)
<1>1. /\ Len(q) \in Nat /\ 1 \in 1 .. Len(q) /\ Head(q) = q[1]
      /\ \A i \in 1 .. Len(r) : i + 1 \in 1 .. Len(q) /\ r[i] = q[i + 1] /\ ~(i + 1 <= 1)
      /\ Len(r) \in Nat
  BY TailOf
<1> HIDE DEF r
<1>2. \A i, k \in 1 .. Len(r) : (i + 1 = k + 1 => i = k) /\ (k + 1 <= i + 1 => k <= i)
  BY <1>1
<1>3. Ordered(r)
  <2>1. ASSUME NEW i \in 1 .. Len(r), NEW k \in 1 .. Len(r)
        PROVE  /\ r[i].graph = r[k].graph /\ r[i].op = r[k].op => i = k
               /\ r[i].graph = r[k].graph /\ r[i].op = Graph => k <= i
    <3>1. i + 1 \in 1 .. Len(q) /\ k + 1 \in 1 .. Len(q) /\ r[i] = q[i + 1] /\ r[k] = q[k + 1]
      BY <1>1
    <3> QED BY <3>1, <1>2 DEF Ordered
  <2> QED BY <2>1 DEF Ordered
<1>4. Has(q, Head(q).graph, Head(q).op)
  BY <1>1 DEF Has
<1>5. Head(q).op = Graph => \A o : ~Has(r, Head(q).graph, o)
  BY <1>1 DEF Ordered, Has
<1> QED BY <1>3, <1>4, <1>5 DEF r
-----------------------------------------------------------------------------
(* A handle says nothing of a graph it was not given. *)
LEMMA UnsentSilent ==
  ASSUME ChannelTypes, Channels, NEW h \in Handles, NEW g \in Ids, hstate[h][g] = "new"
  PROVE  hdone[h][g] = {} /\ \A o \in GraphOps \cup {Graph} : ~Has(queue[h], g, o)
<1>1. hdone[h][g] = {}
  BY DEF Channels, OpsBelong
<1>2. ASSUME NEW i \in 1 .. Len(queue[h]), queue[h][i].graph = g
      PROVE  FALSE
  <2>1. SaysTrue(h, queue[h][i])
    BY DEF Channels, QueuesTrue
  <2> QED BY <2>1, <1>1, <1>2 DEF SaysTrue
<1> QED BY <1>1, <1>2 DEF Has

(* The table's own steps leave the channels as they are: they may hand over a
   graph that no handle has, and give a type to a task that has no graph yet. *)
LEMMA ChannelFrame ==
  ASSUME scope \in Scopes, ChannelInv, scope' = scope,
         hdone' = hdone, queue' = queue, UNCHANGED countVars,
         hstate' \in [AllHandles -> [Ids -> {"new", "open"} \cup Terminals]],
         early_graphs' \subseteq Ids,
         \A h \in Handles, g \in Ids :
           hstate'[h][g] = hstate[h][g] \/ (Unsent(g) /\ hstate'[h][g] = "open"),
         \A h \in Handles, g \in Ids, o \in GraphOps :
           ~Unsent(g) => (Reported(h, g, o)' <=> Reported(h, g, o))
  PROVE  ChannelInv'
<1>0. Handles' = Handles /\ Planned' = Planned /\ Messages' = Messages
  BY DEF Handles, Planned, Messages
<1>1. ChannelTypes'
  BY <1>0 DEF ChannelInv, ChannelTypes
<1>2. \A h \in Handles, g \in Ids : hstate'[h][g] \in Terminals => hstate'[h][g] = hstate[h][g]
  BY DEF Terminals
<1>3. \A h \in Handles, g \in Ids : hstate[h][g] \in Terminals => hstate'[h][g] = hstate[h][g]
  BY DEF Terminals, Unsent
<1>4. \A h \in Handles, g \in Ids : Unsent(g) =>
         hdone[h][g] = {} /\ \A o \in GraphOps \cup {Graph} : ~Has(queue[h], g, o)
  BY UnsentSilent DEF Unsent, ChannelInv
<1>5. \A h \in Handles, g \in Ids : hstate'[h][g] = "new" => hstate[h][g] = "new"
  BY DEF Unsent
<1>6. Channels'
  <2>1. QueuesOrdered'
    BY <1>0 DEF QueuesOrdered, ChannelInv, Channels
  <2>2. QueuesTrue'
    <3> SUFFICES ASSUME NEW h \in Handles, NEW i \in 1 .. Len(queue[h])
                 PROVE  SaysTrue(h, queue[h][i])'
      BY <1>0 DEF QueuesTrue
    <3>1. PICK m \in Messages : m = queue[h][i] /\ SaysTrue(h, m)
      BY ScopeFacts DEF ChannelInv, Channels, ChannelTypes, QueuesTrue
    <3>2. m.graph \in Ids /\ m.op \in GraphOps \cup {Graph} /\ Has(queue[h], m.graph, m.op)
      BY <3>1 DEF Messages, Has
    <3>3. ~Unsent(m.graph)
      BY <3>2, <1>4
    <3>4. m.op # Graph => (Reported(h, m.graph, m.op)' <=> Reported(h, m.graph, m.op))
      BY <3>2, <3>3
    <3>5. hstate'[h][m.graph] = hstate[h][m.graph]
      BY <3>2, <3>3
    <3> QED BY <3>1, <3>4, <3>5 DEF SaysTrue
  <2>3. OpsBelong'
    BY <1>0, <1>2, <1>5 DEF OpsBelong, ChannelInv, Channels, Terminals
  <2>4. EndsLast'
    BY <1>0, <1>2 DEF EndsLast, ChannelInv, Channels
  <2> QED BY <2>1, <2>2, <2>3, <2>4 DEF Channels
<1>7. \A g \in Ids : Counted(g)' = Counted(g)
  BY <1>0, <1>2, <1>3 DEF Counted
<1>8. \A g \in Ids, o \in GraphOps : OpCounted(g, o)' = OpCounted(g, o)
  <2> TAKE g \in Ids, o \in GraphOps
  <2>1. CASE Unsent(g)
    BY <2>1, <1>0, <1>4 DEF OpCounted
  <2>2. CASE ~Unsent(g)
    BY <2>2, <1>0 DEF OpCounted
  <2> QED BY <2>1, <2>2
<1>9. \A g \in Ids : Purged(g)' <=> Purged(g)
  BY <1>0, <1>7, <1>2, <1>3 DEF Purged, Terminals, Counted
<1>10. \A g \in Ids : (\E h \in Counted(g) : hstate'[h][g] = "failed")
                        <=> (\E h \in Counted(g) : hstate[h][g] = "failed")
  BY <1>2, <1>3 DEF Terminals, Counted
<1>11. Counts'
  BY <1>0, <1>7, <1>8, <1>9, <1>10 DEF Counts, ChannelInv, countVars, CopiesOf
<1> QED BY <1>1, <1>6, <1>11 DEF ChannelInv
-----------------------------------------------------------------------------
(* Taking a message off a queue counts its handle for it, and for nothing else. *)
LEMMA FetchStep ==
  ASSUME scope \in Scopes, ChannelTypes, Channels, scope' = scope, task_type' = task_type,
         NEW h \in Handles, Fetch(h), NEW m, m = Msg(h)
  PROVE  /\ ChannelTypes' /\ Channels'
         /\ m \in Messages /\ SaysTrue(h, m)
         /\ h \notin Counted(m.graph)
         /\ m.op # Graph => h \notin OpCounted(m.graph, m.op)
         /\ \A g \in Ids :
              Counted(g)' = IF g = m.graph /\ m.op = Graph THEN Counted(g) \cup {h} ELSE Counted(g)
         /\ \A g \in Ids, o \in GraphOps :
              OpCounted(g, o)' = IF g = m.graph /\ o = m.op THEN OpCounted(g, o) \cup {h}
                                 ELSE OpCounted(g, o)
<1>0. Handles' = Handles /\ Planned' = Planned /\ Messages' = Messages
  BY DEF Handles, Planned, Messages
<1>1. /\ queue[h] \in Seq(Messages) /\ queue[h] # <<>> /\ Ordered(queue[h])
      /\ h \in AllHandles
  BY ScopeFacts DEF Fetch, ChannelTypes, Channels, QueuesOrdered
<1>2. /\ queue' = [queue EXCEPT ![h] = Tail(queue[h])]
      /\ hstate' = hstate /\ hdone' = hdone /\ early_graphs' = early_graphs
  BY DEF Fetch
<1>3. /\ m = queue[h][1] /\ 1 \in 1 .. Len(queue[h]) /\ m \in Messages
      /\ Tail(queue[h]) \in Seq(Messages)
  BY <1>1, TailOf DEF Msg
<1>4. m.graph \in Ids /\ m.op \in GraphOps \cup {Graph}
  BY <1>3 DEF Messages
<1>5. /\ queue'[h] = Tail(queue[h])
      /\ \A k \in Handles : k # h => queue'[k] = queue[k]
  BY <1>1, <1>2, ScopeFacts DEF ChannelTypes
<1>6. SaysTrue(h, m)
  BY <1>3 DEF Channels, QueuesTrue
<1>7. Has(queue[h], m.graph, m.op)
  BY <1>1, OrderedTail DEF Msg
<1>8. \A k \in Handles : \A g, o :
        Has(queue'[k], g, o) <=> Has(queue[k], g, o) /\ ~(k = h /\ m.graph = g /\ m.op = o)
  <2> TAKE k \in Handles
  <2> TAKE g, o
  <2>1. CASE k = h
    BY <2>1, <1>1, <1>5, HasTail DEF Msg
  <2>2. CASE k # h
    BY <2>2, <1>5
  <2> QED BY <2>1, <2>2
<1>9. \A k \in Handles, g \in Ids, o \in GraphOps : Reported(k, g, o)' <=> Reported(k, g, o)
  BY <1>2 DEF Reported, is_remote_load, task_end_op_id
<1>10. ChannelTypes'
  BY <1>0, <1>2, <1>3 DEF ChannelTypes
<1>11. Channels'
  <2>1. QueuesOrdered'
    BY <1>0, <1>1, <1>5, OrderedTail DEF QueuesOrdered, Channels
  <2>2. QueuesTrue'
    <3> SUFFICES ASSUME NEW k \in Handles, NEW i \in 1 .. Len(queue'[k])
                 PROVE  SaysTrue(k, queue[k][i])'
      BY <1>0 DEF QueuesTrue
    <3>1. \E j \in 1 .. Len(queue[k]) : queue'[k][i] = queue[k][j]
      <4>1. CASE k = h
        <5>1. i + 1 \in 1 .. Len(queue[k]) /\ queue'[k][i] = queue[k][i + 1]
          BY <4>1, <1>1, <1>5, TailOf
        <5> QED BY <5>1
      <4>2. CASE k # h
        BY <4>2, <1>5
      <4> QED BY <4>1, <4>2
    <3>2. PICK x \in Messages : x = queue'[k][i] /\ SaysTrue(k, x)
      BY <3>1, ScopeFacts DEF ChannelTypes, Channels, QueuesTrue
    <3>3. x.op # Graph => (Reported(k, x.graph, x.op)' <=> Reported(k, x.graph, x.op))
      BY <1>9 DEF Messages
    <3> QED BY <3>2, <3>3, <1>2 DEF SaysTrue
  <2>3. OpsBelong'
    BY <1>0, <1>2 DEF OpsBelong, Channels
  <2>4. EndsLast'
    <3> SUFFICES ASSUME NEW k \in Handles, NEW g \in Ids, NEW o \in GraphOps,
                        hstate[k][g] \in Terminals, ~Has(queue'[k], g, Graph)
                 PROVE  ~Has(queue'[k], g, o)
      BY <1>0, <1>2 DEF EndsLast
    <3>1. CASE ~Has(queue[k], g, Graph)
      BY <3>1, <1>8 DEF EndsLast, Channels
    <3>2. CASE Has(queue[k], g, Graph)
      <4>1. k = h /\ m.graph = g /\ m.op = Graph
        BY <3>2, <1>8
      <4> QED BY <4>1, <1>1, <1>5, OrderedTail DEF Msg
    <3> QED BY <3>1, <3>2
  <2> QED BY <2>1, <2>2, <2>3, <2>4 DEF Channels
<1>12. h \notin Counted(m.graph)
  BY <1>4, <1>7 DEF Counted, Channels, EndsLast
<1>13. m.op # Graph => h \notin OpCounted(m.graph, m.op)
  BY <1>7 DEF OpCounted
<1>14. \A g \in Ids :
         Counted(g)' = IF g = m.graph /\ m.op = Graph THEN Counted(g) \cup {h} ELSE Counted(g)
  <2> TAKE g \in Ids
  <2>1. Counted(g)' = {k \in Handles : hstate[k][g] \in Terminals /\ ~Has(queue'[k], g, Graph)}
    BY <1>0, <1>2 DEF Counted
  <2>2. m.op = Graph => hstate[h][m.graph] \in Terminals
    BY <1>6 DEF SaysTrue, Terminals
  <2> QED BY <2>1, <2>2, <1>8 DEF Counted
<1>15. \A g \in Ids, o \in GraphOps :
         OpCounted(g, o)' = IF g = m.graph /\ o = m.op THEN OpCounted(g, o) \cup {h}
                            ELSE OpCounted(g, o)
  <2> TAKE g \in Ids, o \in GraphOps
  <2>1. OpCounted(g, o)' =
          {k \in Handles : o \in hdone[k][g] /\ Reported(k, g, o) /\ ~Has(queue'[k], g, o)}
    BY <1>0, <1>2, <1>9 DEF OpCounted
  <2>2. g = m.graph /\ o = m.op => o \in hdone[h][g] /\ Reported(h, g, o)
    BY <1>6 DEF SaysTrue, Graph, GraphOps, FirstOp, LastOp
  <2> QED BY <2>1, <2>2, <1>8 DEF OpCounted
<1> QED BY <1>3, <1>6, <1>10, <1>11, <1>12, <1>13, <1>14, <1>15

(* A message about the whole graph. *)
LEMMA GraphCopyStep ==
  ASSUME scope \in Scopes, ChannelInv, scope' = scope, task_type' = task_type,
         NEW h \in Handles, Fetch(h), Msg(h).op = Graph,
         \/ /\ GraphEntry(h).count < required_completed_count
            /\ uncompleted_graphs' = [uncompleted_graphs EXCEPT ![Msg(h).graph] = GraphEntry(h)]
            /\ UNCHANGED uncompleted_ops
         \/ LastGraphCopy(h)
  PROVE  ChannelInv'
<1>0. /\ Handles' = Handles /\ Planned' = Planned /\ Messages' = Messages
      /\ required_completed_count' = required_completed_count
  BY DEF Handles, Planned, Messages, required_completed_count
<1>1. PICK m : m = Msg(h)
  OBVIOUS
<1>2. /\ ChannelTypes' /\ Channels'
      /\ m \in Messages /\ SaysTrue(h, m)
      /\ h \notin Counted(m.graph)
      /\ \A g \in Ids :
           Counted(g)' = IF g = m.graph THEN Counted(g) \cup {h} ELSE Counted(g)
  BY <1>1, FetchStep DEF ChannelInv
<1>3. \A g \in Ids, o \in GraphOps : OpCounted(g, o)' = OpCounted(g, o)
  <2>1. \A o \in GraphOps : o # m.op
    BY <1>1 DEF GraphOps, Graph, FirstOp, LastOp
  <2> QED BY <1>1, <2>1, FetchStep DEF ChannelInv
<1>4. PICK g \in Ids : g = m.graph
  BY <1>2 DEF Messages
<1>5. /\ uncompleted_ops \in [Ids -> [GraphOps -> [count : Nat, len : 0 .. Planned]]]
      /\ uncompleted_graphs \in [Ids -> [count : Nat, failed : BOOLEAN]]
      /\ IsFiniteSet(Handles) /\ Handles # {}
      /\ hstate' = hstate
  BY ScopeFacts DEF ChannelInv, Counts, Fetch
<1>6. hstate[h][g] = IF m.ok THEN "completed" ELSE "failed"
  BY <1>1, <1>2, <1>4 DEF SaysTrue
<1>7. PICK S \in SUBSET Handles : S = Counted(g)
  BY DEF Counted
<1>8. /\ Cardinality(S) \in Nat /\ uncompleted_graphs[g].count = Cardinality(S)
      /\ S \cup {h} = Handles <=> Cardinality(S) + 1 = required_completed_count
      /\ CopiesOf(S \cup {h}) =
           IF Cardinality(S) + 1 = required_completed_count THEN 0 ELSE Cardinality(S) + 1
      /\ h \notin S /\ S # Handles
  <2>1. h \notin S
    BY <1>2, <1>4, <1>7
  <2>2. /\ CopiesOf(S) = Cardinality(S) /\ Cardinality(S) \in Nat
        /\ S \cup {h} = Handles <=> Cardinality(S) + 1 = required_completed_count
        /\ CopiesOf(S \cup {h}) =
             IF Cardinality(S) + 1 = required_completed_count THEN 0 ELSE Cardinality(S) + 1
    BY <2>1, <1>5, CopyAdded
  <2>3. uncompleted_graphs[g].count = CopiesOf(S)
    BY <1>7 DEF ChannelInv, Counts
  <2> QED BY <2>1, <2>2, <2>3
<1>9. /\ GraphEntry(h).count = Cardinality(S) + 1
      /\ GraphEntry(h).failed <=> \E k \in S \cup {h} : hstate[k][g] = "failed"
      /\ GraphEntry(h).failed \in BOOLEAN
  <2>1. GraphEntry(h) = [count |-> uncompleted_graphs[g].count + 1,
                         failed |-> uncompleted_graphs[g].failed \/ ~m.ok]
    BY <1>1, <1>4 DEF GraphEntry
  <2>2. uncompleted_graphs[g].failed <=> \E k \in S : hstate[k][g] = "failed"
    BY <1>7, <1>8 DEF ChannelInv, Counts
  <2>3. ~m.ok <=> hstate[h][g] = "failed"
    BY <1>6, <1>2 DEF Messages
  <2>4. GraphEntry(h).failed = (uncompleted_graphs[g].failed \/ ~m.ok)
    BY <2>1
  <2>5. GraphEntry(h).count = Cardinality(S) + 1
    BY <2>1, <1>8
  <2> QED BY <2>2, <2>3, <2>4, <2>5
<1>10. /\ Counted(g)' = S \cup {h}
       /\ \A f \in Ids : f # g => Counted(f)' = Counted(f)
  BY <1>2, <1>4, <1>7
<1>11. /\ uncompleted_graphs' \in [Ids -> [count : Nat, failed : BOOLEAN]]
       /\ \A f \in Ids : f # g => uncompleted_graphs'[f] = uncompleted_graphs[f]
       /\ uncompleted_graphs'[g].count = CopiesOf(S \cup {h})
       /\ uncompleted_graphs'[g].failed <=>
            S \cup {h} # Handles /\ \E k \in S \cup {h} : hstate[k][g] = "failed"
  <2>1. CASE /\ GraphEntry(h).count < required_completed_count
             /\ uncompleted_graphs' = [uncompleted_graphs EXCEPT ![g] = GraphEntry(h)]
    <3>1. GraphEntry(h) \in [count : Nat, failed : BOOLEAN]
      BY <1>8, <1>9 DEF GraphEntry
    <3>2. required_completed_count \in Nat
      BY ScopeFacts
    <3>3. Cardinality(S) + 1 # required_completed_count
      BY <2>1, <3>2, <1>8, <1>9
    <3>4. uncompleted_graphs'[g] = GraphEntry(h)
      BY <2>1, <1>5
    <3>5. \A f \in Ids : f # g => uncompleted_graphs'[f] = uncompleted_graphs[f]
      BY <2>1, <1>5
    <3>6. uncompleted_graphs' \in [Ids -> [count : Nat, failed : BOOLEAN]]
      BY <2>1, <3>1, <1>5
    <3> QED BY <3>3, <3>4, <3>5, <3>6, <1>8, <1>9
  <2>2. CASE /\ GraphEntry(h).count = required_completed_count
             /\ uncompleted_graphs' = [uncompleted_graphs EXCEPT ![g] = [count |-> 0, failed |-> FALSE]]
    <3>1. uncompleted_graphs'[g] = [count |-> 0, failed |-> FALSE]
      BY <2>2, <1>5
    <3>2. \A f \in Ids : f # g => uncompleted_graphs'[f] = uncompleted_graphs[f]
      BY <2>2, <1>5
    <3>3. uncompleted_graphs' \in [Ids -> [count : Nat, failed : BOOLEAN]]
      BY <2>2, <1>5
    <3> QED BY <2>2, <3>1, <3>2, <3>3, <1>8, <1>9
  <2> QED BY <2>1, <2>2, <1>1, <1>4 DEF LastGraphCopy
<1>12. /\ uncompleted_ops' \in [Ids -> [GraphOps -> [count : Nat, len : 0 .. Planned]]]
       /\ \A f \in Ids, o \in GraphOps : f # g => uncompleted_ops'[f][o] = uncompleted_ops[f][o]
       /\ \A o \in GraphOps : uncompleted_ops'[g][o].count =
            IF S \cup {h} = Handles /\ \E k \in S \cup {h} : hstate[k][g] = "failed" THEN 0
            ELSE uncompleted_ops[g][o].count
  <2>1. CASE /\ GraphEntry(h).count < required_completed_count
             /\ uncompleted_ops' = uncompleted_ops
    <3>1. required_completed_count \in Nat
      BY ScopeFacts
    <3>2. S \cup {h} # Handles
      BY <2>1, <3>1, <1>8, <1>9
    <3> QED BY <2>1, <3>2, <1>5
  <2>2. CASE LastGraphCopy(h) /\ ~GraphEntry(h).failed
    <3>1. uncompleted_ops' = uncompleted_ops
      BY <2>2 DEF LastGraphCopy
    <3> QED BY <2>2, <3>1, <1>5, <1>9
  <2>3. CASE LastGraphCopy(h) /\ GraphEntry(h).failed
    <3>1. uncompleted_ops' = [uncompleted_ops EXCEPT ![g] = NewOps]
      BY <2>3, <1>1, <1>4 DEF LastGraphCopy
    <3>2. /\ NewOps \in [GraphOps -> [count : Nat, len : 0 .. Planned]]
          /\ \A o \in GraphOps : NewOps[o].count = 0
      BY ScopeFacts DEF NewOps
    <3>3. S \cup {h} = Handles
      BY <2>3, <1>8, <1>9 DEF LastGraphCopy
    <3> QED BY <2>3, <3>1, <3>2, <3>3, <1>5, <1>9
  <2> QED BY <2>1, <2>2, <2>3
<1>13. /\ \A f \in Ids : f # g => (Purged(f)' <=> Purged(f))
       /\ Purged(g)' <=> S \cup {h} = Handles /\ \E k \in S \cup {h} : hstate[k][g] = "failed"
       /\ ~Purged(g)
  BY <1>0, <1>5, <1>7, <1>8, <1>10 DEF Purged
<1>14. Counts'
  <2>1. ASSUME NEW f \in Ids
        PROVE  /\ uncompleted_graphs'[f].count = CopiesOf(Counted(f)')
               /\ uncompleted_graphs'[f].failed <=>
                    /\ Counted(f)' # Handles
                    /\ \E k \in Counted(f)' : hstate[k][f] = "failed"
               /\ \A o \in GraphOps :
                    uncompleted_ops'[f][o].count =
                      IF Purged(f)' THEN 0 ELSE CopiesOf(OpCounted(f, o)')
    <3>1. CASE f = g
      BY <3>1, <1>3, <1>10, <1>11, <1>12, <1>13 DEF ChannelInv, Counts
    <3>2. CASE f # g
      BY <3>2, <1>3, <1>10, <1>11, <1>12, <1>13 DEF ChannelInv, Counts
    <3> QED BY <3>1, <3>2
  <2>2. \A X : CopiesOf(X)' = CopiesOf(X)
    BY <1>0 DEF CopiesOf
  <2> QED BY <2>1, <1>0, <1>5, <1>11, <1>12 DEF Counts, CopiesOf
<1> QED BY <1>2, <1>14 DEF ChannelInv

(* A message about one op. *)
LEMMA OpCopyStep ==
  ASSUME scope \in Scopes, ChannelInv, scope' = scope, task_type' = task_type,
         NEW h \in Handles, Fetch(h), Msg(h).op # Graph,
         \/ /\ OpEntry(h).count < required_completed_count
            /\ uncompleted_ops' = [uncompleted_ops EXCEPT ![Msg(h).graph][Msg(h).op] = OpEntry(h)]
            /\ UNCHANGED uncompleted_graphs
         \/ LastOpCopy(h)
  PROVE  ChannelInv'
<1>0. /\ Handles' = Handles /\ Planned' = Planned /\ Messages' = Messages
      /\ required_completed_count' = required_completed_count
  BY DEF Handles, Planned, Messages, required_completed_count
<1>1. PICK m : m = Msg(h)
  OBVIOUS
<1>2. /\ ChannelTypes' /\ Channels'
      /\ m \in Messages /\ SaysTrue(h, m)
      /\ h \notin Counted(m.graph)
      /\ h \notin OpCounted(m.graph, m.op)
      /\ \A f \in Ids : Counted(f)' = Counted(f)
      /\ \A f \in Ids, o \in GraphOps :
           OpCounted(f, o)' = IF f = m.graph /\ o = m.op THEN OpCounted(f, o) \cup {h}
                              ELSE OpCounted(f, o)
  BY <1>1, FetchStep DEF ChannelInv
<1>3. PICK g \in Ids, p \in GraphOps : g = m.graph /\ p = m.op
  BY <1>1, <1>2 DEF Messages
<1>4. /\ uncompleted_ops \in [Ids -> [GraphOps -> [count : Nat, len : 0 .. Planned]]]
      /\ uncompleted_graphs' = uncompleted_graphs
      /\ IsFiniteSet(Handles) /\ Handles # {}
      /\ hstate' = hstate
  BY ScopeFacts DEF ChannelInv, Counts, Fetch, LastOpCopy
<1>5. PICK S \in SUBSET Handles : S = OpCounted(g, p)
  BY DEF OpCounted
<1>6. ~Purged(g)
  BY <1>2, <1>3 DEF Purged
<1>7. /\ Cardinality(S) \in Nat /\ uncompleted_ops[g][p].count = Cardinality(S)
      /\ CopiesOf(S \cup {h}) =
           IF Cardinality(S) + 1 = required_completed_count THEN 0 ELSE Cardinality(S) + 1
  <2>1. h \notin S
    BY <1>2, <1>3, <1>5
  <2>2. /\ CopiesOf(S) = Cardinality(S) /\ Cardinality(S) \in Nat
        /\ CopiesOf(S \cup {h}) =
             IF Cardinality(S) + 1 = required_completed_count THEN 0 ELSE Cardinality(S) + 1
    BY <2>1, <1>4, CopyAdded
  <2>3. uncompleted_ops[g][p].count = CopiesOf(S)
    BY <1>5, <1>6 DEF ChannelInv, Counts
  <2> QED BY <2>2, <2>3
<1>8. /\ OpEntry(h).count = Cardinality(S) + 1
      /\ OpEntry(h) \in [count : Nat, len : 0 .. Planned]
  <2>1. OpEntry(h) = [count |-> uncompleted_ops[g][p].count + 1,
                      len |-> Lesser(uncompleted_ops[g][p].len, m.len)]
    BY <1>1, <1>3 DEF OpEntry
  <2>2. uncompleted_ops[g][p].len \in 0 .. Planned /\ m.len \in 0 .. Planned
    BY <1>2, <1>4 DEF Messages
  <2> QED BY <2>1, <2>2, <1>7 DEF Lesser
<1>9. PICK e \in [count : Nat, len : 0 .. Planned] :
        /\ uncompleted_ops' = [uncompleted_ops EXCEPT ![g][p] = e]
        /\ e.count = CopiesOf(S \cup {h})
  <2>1. CASE /\ OpEntry(h).count < required_completed_count
             /\ uncompleted_ops' = [uncompleted_ops EXCEPT ![g][p] = OpEntry(h)]
    <3>1. required_completed_count \in Nat
      BY ScopeFacts
    <3>2. PICK x : x = OpEntry(h)
      OBVIOUS
    <3>3. x.count = CopiesOf(S \cup {h})
      BY <2>1, <3>1, <3>2, <1>7, <1>8
    <3> QED BY <2>1, <3>2, <3>3, <1>8
  <2>2. CASE LastOpCopy(h)
    <3>1. PICK e : e = [count |-> 0, len |-> Planned]
      OBVIOUS
    <3>2. e \in [count : Nat, len : 0 .. Planned] /\ e.count = 0
      BY <3>1, ScopeFacts
    <3>3. uncompleted_ops' = [uncompleted_ops EXCEPT ![g][p] = e]
      BY <2>2, <3>1, <1>1, <1>3 DEF LastOpCopy
    <3>4. CopiesOf(S \cup {h}) = 0
      BY <2>2, <1>7, <1>8 DEF LastOpCopy
    <3> QED BY <3>2, <3>3, <3>4
  <2> QED BY <2>1, <2>2, <1>1, <1>3
<1>10. /\ uncompleted_ops' \in [Ids -> [GraphOps -> [count : Nat, len : 0 .. Planned]]]
       /\ \A f \in Ids, o \in GraphOps :
            uncompleted_ops'[f][o] = IF f = g /\ o = p THEN e ELSE uncompleted_ops[f][o]
  BY <1>4, <1>9
<1>11. \A f \in Ids : Purged(f)' <=> Purged(f)
  BY <1>0, <1>2, <1>4 DEF Purged
<1>12. Counts'
  <2>1. ASSUME NEW f \in Ids, NEW o \in GraphOps
        PROVE  uncompleted_ops'[f][o].count = IF Purged(f)' THEN 0 ELSE CopiesOf(OpCounted(f, o)')
    <3>1. CASE f = g /\ o = p
      BY <3>1, <1>2, <1>3, <1>5, <1>6, <1>9, <1>10, <1>11, ZenonT(30)
    <3>2. CASE ~(f = g /\ o = p)
      BY <3>2, <1>2, <1>3, <1>10, <1>11 DEF ChannelInv, Counts
    <3> QED BY <3>1, <3>2
  <2> QED BY <2>1, <1>0, <1>2, <1>4, <1>10 DEF Counts, CopiesOf, ChannelInv
<1> QED BY <1>2, <1>12 DEF ChannelInv

(* What the last copy of a message means: every handle has done the op, or ended
   the graph, and no handle failed unless the entry says so. *)
LEMMA LastOpMeans ==
  ASSUME scope \in Scopes, ChannelInv, NEW h \in Handles, Fetch(h), Msg(h).op # Graph,
         OpEntry(h).count = required_completed_count
  PROVE  /\ Msg(h).graph \in Ids /\ Msg(h).op \in GraphOps
         /\ \A k \in Handles : Msg(h).op \in hdone[k][Msg(h).graph]
<1>1. /\ queue[h] \in Seq(Messages) /\ queue[h] # <<>> /\ Ordered(queue[h])
  BY ScopeFacts DEF Fetch, ChannelInv, ChannelTypes, Channels, QueuesOrdered
<1>2. PICK m : m = Msg(h)
  OBVIOUS
<1>3. m \in Messages /\ m = queue[h][1] /\ 1 \in 1 .. Len(queue[h])
  BY <1>1, <1>2, TailOf DEF Msg
<1>4. SaysTrue(h, m) /\ Has(queue[h], m.graph, m.op)
  BY <1>1, <1>2, <1>3, OrderedTail DEF Channels, QueuesTrue, ChannelInv, Msg
<1>5. PICK g \in Ids, p \in GraphOps : g = m.graph /\ p = m.op
  BY <1>2, <1>3 DEF Messages
<1>6. PICK S \in SUBSET Handles : S = OpCounted(g, p)
  BY DEF OpCounted
<1>7. h \notin S /\ ~Purged(g)
  BY <1>4, <1>5, <1>6 DEF OpCounted, Purged, Counted, ChannelInv, Channels, EndsLast
<1>8. OpEntry(h).count = CopiesOf(S) + 1
  <2>1. uncompleted_ops[g][p].count = CopiesOf(S)
    BY <1>6, <1>7 DEF ChannelInv, Counts
  <2> QED BY <2>1, <1>2, <1>5 DEF OpEntry
<1>9. IsFiniteSet(Handles)
  BY ScopeFacts
<1>10. /\ CopiesOf(S) = Cardinality(S)
       /\ S \cup {h} = Handles <=> Cardinality(S) + 1 = required_completed_count
  BY <1>7, <1>9, CopyAdded
<1>11. S \cup {h} = Handles
  BY <1>8, <1>10
<1>12. p \in hdone[h][g]
  BY <1>2, <1>4, <1>5 DEF SaysTrue
<1> QED BY <1>2, <1>5, <1>6, <1>11, <1>12 DEF OpCounted

LEMMA LastGraphMeans ==
  ASSUME scope \in Scopes, ChannelInv, NEW h \in Handles, LastGraphCopy(h)
  PROVE  /\ Msg(h).graph \in Ids
         /\ \A k \in Handles : hstate[k][Msg(h).graph] \in Terminals
         /\ ~GraphEntry(h).failed => \A k \in Handles : hstate[k][Msg(h).graph] = "completed"
<1>1. /\ queue[h] \in Seq(Messages) /\ queue[h] # <<>> /\ Ordered(queue[h])
  BY ScopeFacts DEF LastGraphCopy, Fetch, ChannelInv, ChannelTypes, Channels, QueuesOrdered
<1>2. PICK m : m = Msg(h)
  OBVIOUS
<1>3. m \in Messages /\ m = queue[h][1] /\ 1 \in 1 .. Len(queue[h]) /\ m.op = Graph
  BY <1>1, <1>2, TailOf DEF Msg, LastGraphCopy
<1>4. SaysTrue(h, m) /\ Has(queue[h], m.graph, Graph)
  BY <1>1, <1>2, <1>3, OrderedTail DEF Channels, QueuesTrue, ChannelInv, Msg
<1>5. PICK g \in Ids : g = m.graph
  BY <1>3 DEF Messages
<1>6. PICK S \in SUBSET Handles : S = Counted(g)
  BY DEF Counted
<1>7. h \notin S
  BY <1>4, <1>5, <1>6 DEF Counted
<1>8. GraphEntry(h).count = CopiesOf(S) + 1
  <2>1. uncompleted_graphs[g].count = CopiesOf(S)
    BY <1>6 DEF ChannelInv, Counts
  <2> QED BY <2>1, <1>2, <1>5 DEF GraphEntry
<1>9. IsFiniteSet(Handles)
  BY ScopeFacts
<1>10. /\ CopiesOf(S) = Cardinality(S)
       /\ S \cup {h} = Handles <=> Cardinality(S) + 1 = required_completed_count
  BY <1>7, <1>9, CopyAdded
<1>11. S \cup {h} = Handles
  BY <1>8, <1>10 DEF LastGraphCopy
<1>12. hstate[h][g] = IF m.ok THEN "completed" ELSE "failed"
  BY <1>3, <1>4, <1>5 DEF SaysTrue
<1>13. \A k \in Handles : hstate[k][g] \in Terminals
  BY <1>6, <1>11, <1>12 DEF Counted, Terminals
<1>14. ~GraphEntry(h).failed => \A k \in Handles : hstate[k][g] # "failed"
  <2>1. GraphEntry(h).failed = (uncompleted_graphs[g].failed \/ ~m.ok)
    BY <1>2, <1>5 DEF GraphEntry
  <2>2. uncompleted_graphs[g].failed <=> \E k \in S : hstate[k][g] = "failed"
    BY <1>6, <1>7 DEF ChannelInv, Counts
  <2>3. m.ok => hstate[h][g] # "failed"
    BY <1>12
  <2> QED BY <2>1, <2>2, <2>3, <1>11
<1> QED BY <1>2, <1>5, <1>13, <1>14 DEF Terminals
-----------------------------------------------------------------------------
(* An open graph has not ended in the queue, and the ops a handle has not done
   are not in it. *)
LEMMA OpenSilent ==
  ASSUME ChannelTypes, Channels, NEW h \in Handles, NEW g \in Ids
  PROVE  /\ hstate[h][g] \notin Terminals => ~Has(queue[h], g, Graph)
         /\ \A o \in GraphOps : o \notin hdone[h][g] => ~Has(queue[h], g, o)
<1>1. ASSUME NEW i \in 1 .. Len(queue[h]), queue[h][i].graph = g, queue[h][i].op = Graph
      PROVE  hstate[h][g] \in Terminals
  BY <1>1 DEF Channels, QueuesTrue, SaysTrue, Terminals
<1>2. ASSUME NEW i \in 1 .. Len(queue[h]), queue[h][i].graph = g, NEW o \in GraphOps,
             queue[h][i].op = o
      PROVE  o \in hdone[h][g]
  BY <1>2 DEF Channels, QueuesTrue, SaysTrue, GraphOps, Graph, FirstOp, LastOp
<1> QED BY <1>1, <1>2 DEF Has

(* A new message of a handle is true and stands behind the others. *)
LEMMA QueueGrows ==
  ASSUME scope \in Scopes, ChannelTypes, Channels, scope' = scope, task_type' = task_type,
         early_graphs' = early_graphs, NEW h \in Handles, NEW m \in Messages,
         queue' = [queue EXCEPT ![h] = Append(queue[h], m)],
         ~Has(queue[h], m.graph, m.op), ~Has(queue[h], m.graph, Graph),
         SaysTrue(h, m)',
         \A k \in Handles : \A i \in 1 .. Len(queue[k]) :
           LET x == queue[k][i]
           IN  IF x.op = Graph THEN hstate'[k][x.graph] = hstate[k][x.graph]
                               ELSE hdone[k][x.graph] \subseteq hdone'[k][x.graph]
  PROVE  /\ QueuesOrdered' /\ QueuesTrue'
         /\ queue' \in [AllHandles -> Seq(Messages)]
         /\ \A k \in Handles : \A f, o :
              Has(queue'[k], f, o) <=> Has(queue[k], f, o) \/ (k = h /\ m.graph = f /\ m.op = o)
<1>0. Handles' = Handles /\ Planned' = Planned /\ Messages' = Messages
  BY DEF Handles, Planned, Messages
<1>1. queue[h] \in Seq(Messages) /\ h \in AllHandles /\ Ordered(queue[h])
  BY ScopeFacts DEF ChannelTypes, Channels, QueuesOrdered
<1>2. queue'[h] = Append(queue[h], m) /\ \A k \in Handles : k # h => queue'[k] = queue[k]
  BY <1>1, ScopeFacts DEF ChannelTypes
<1>3. QueuesOrdered'
  BY <1>0, <1>1, <1>2, OrderedAppend DEF QueuesOrdered, Channels
<1>4. queue' \in [AllHandles -> Seq(Messages)]
  BY <1>1 DEF ChannelTypes
<1>5. \A k \in Handles : \A f, o :
        Has(queue'[k], f, o) <=> Has(queue[k], f, o) \/ (k = h /\ m.graph = f /\ m.op = o)
  BY <1>1, <1>2, HasAppend
<1>6. QueuesTrue'
  <2> SUFFICES ASSUME NEW k \in Handles, NEW i \in 1 .. Len(queue'[k])
               PROVE  SaysTrue(k, queue[k][i])'
    BY <1>0 DEF QueuesTrue
  <2>1. (k = h /\ queue'[k][i] = m) \/ (i \in 1 .. Len(queue[k]) /\ queue'[k][i] = queue[k][i])
    BY <1>1, <1>2
  <2>2. CASE k = h /\ queue'[k][i] = m
    BY <2>2 DEF SaysTrue
  <2>3. CASE i \in 1 .. Len(queue[k]) /\ queue'[k][i] = queue[k][i]
    <3>1. PICK x \in Messages : x = queue[k][i] /\ SaysTrue(k, x)
      BY <2>3, ScopeFacts DEF ChannelTypes, Channels, QueuesTrue
    <3>2. Reported(k, x.graph, x.op)' <=> Reported(k, x.graph, x.op)
      BY DEF Reported, is_remote_load, task_end_op_id
    <3> QED BY <2>3, <3>1, <3>2 DEF SaysTrue
  <2> QED BY <2>1, <2>2, <2>3
<1> QED BY <1>3, <1>4, <1>5, <1>6

(* The counters stand while nobody's copy is counted. *)
LEMMA CountsFrame ==
  ASSUME Counts, scope' = scope, UNCHANGED countVars,
         \A g \in Ids : /\ Counted(g)' = Counted(g)
                        /\ \A h \in Counted(g) : hstate'[h][g] = hstate[h][g]
                        /\ \A o \in GraphOps : OpCounted(g, o)' = OpCounted(g, o)
  PROVE  Counts'
<1>0. Handles' = Handles /\ Planned' = Planned
  BY DEF Handles, Planned
<1>1. \A g \in Ids : Purged(g)' <=> Purged(g)
  BY <1>0 DEF Purged
<1>2. \A g \in Ids : (\E h \in Counted(g) : hstate'[h][g] = "failed")
                       <=> (\E h \in Counted(g) : hstate[h][g] = "failed")
  OBVIOUS
<1> QED BY <1>0, <1>1, <1>2 DEF Counts, countVars, CopiesOf

LEMMA HandleOpStep ==
  ASSUME scope \in Scopes, ChannelInv, scope' = scope, NEW h \in Handles, NEW g \in Ids,
         NEW len \in 0 .. Planned, HandleOp(h, g, len)
  PROVE  ChannelInv'
<1>0. Handles' = Handles /\ Planned' = Planned /\ Messages' = Messages
  BY DEF Handles, Planned, Messages
<1>1. PICK o \in GraphOps \ hdone[h][g] :
        /\ hdone' = [hdone EXCEPT ![h][g] = hdone[h][g] \cup {o}]
        /\ queue' = IF Reported(h, g, o)
                      THEN [queue EXCEPT ![h] = Append(queue[h], Message(g, o, TRUE, len))]
                      ELSE queue
  BY DEF HandleOp
<1>2. /\ hstate[h][g] = "open" /\ hstate' = hstate /\ early_graphs' = early_graphs
      /\ task_type' = task_type /\ UNCHANGED countVars
  BY DEF HandleOp, taskVars
<1>3. h \in AllHandles /\ Handles \subseteq AllHandles
  BY ScopeFacts
<1>4. \A k \in Handles, f \in Ids :
        hdone'[k][f] = IF k = h /\ f = g THEN hdone[h][g] \cup {o} ELSE hdone[k][f]
  BY <1>1, <1>3 DEF ChannelInv, ChannelTypes
<1>5. hdone' \in [AllHandles -> [Ids -> SUBSET GraphOps]]
  BY <1>1, <1>3 DEF ChannelInv, ChannelTypes
<1>6. \A k, f, p : Reported(k, f, p)' <=> Reported(k, f, p)
  BY <1>2 DEF Reported, is_remote_load, task_end_op_id
<1>7. ~Has(queue[h], g, o) /\ ~Has(queue[h], g, Graph)
  BY <1>1, <1>2, OpenSilent DEF ChannelInv, Terminals
<1>8. /\ QueuesOrdered' /\ QueuesTrue'
      /\ queue' \in [AllHandles -> Seq(Messages)]
      /\ \A k \in Handles : \A f, p :
           Has(queue'[k], f, p) <=>
             Has(queue[k], f, p) \/ (Reported(h, g, o) /\ k = h /\ g = f /\ o = p)
  <2>1. CASE ~Reported(h, g, o)
    <3>1. queue' = queue
      BY <2>1, <1>1
    <3>2. QueuesTrue'
      <4> SUFFICES ASSUME NEW k \in Handles, NEW i \in 1 .. Len(queue[k])
                   PROVE  SaysTrue(k, queue[k][i])'
        BY <1>0, <3>1 DEF QueuesTrue
      <4>1. PICK x \in Messages : x = queue[k][i] /\ SaysTrue(k, x)
        BY <1>3 DEF ChannelInv, ChannelTypes, Channels, QueuesTrue
      <4>2. x.graph \in Ids
        BY DEF Messages
      <4> QED BY <3>1, <4>1, <4>2, <1>2, <1>4, <1>6 DEF SaysTrue
    <3> QED BY <2>1, <3>1, <3>2, <1>0 DEF ChannelInv, ChannelTypes, Channels, QueuesOrdered
  <2>2. CASE Reported(h, g, o)
    <3>0. Message(g, o, TRUE, len) \in Messages
      BY <1>1 DEF Message, Messages
    <3>1. PICK m \in Messages : m = Message(g, o, TRUE, len)
      BY <3>0
    <3>2. m.graph = g /\ m.op = o
      BY <3>1, <1>1 DEF Message
    <3>3. queue' = [queue EXCEPT ![h] = Append(queue[h], m)]
      BY <2>2, <3>1, <1>1
    <3>4. SaysTrue(h, m)'
      <4>1. o \in hdone'[h][g] /\ o # Graph
        BY <1>1, <1>4 DEF GraphOps, FirstOp, LastOp, Graph
      <4>2. m.op \in hdone'[h][m.graph] /\ m.op # Graph
        BY <4>1, <3>2
      <4>3. Reported(h, m.graph, m.op)'
        BY <2>2, <3>2, <1>6
      <4> QED BY <4>2, <4>3 DEF SaysTrue
    <3>5. \A k \in Handles : \A i \in 1 .. Len(queue[k]) :
            LET x == queue[k][i]
            IN  IF x.op = Graph THEN hstate'[k][x.graph] = hstate[k][x.graph]
                                ELSE hdone[k][x.graph] \subseteq hdone'[k][x.graph]
      <4> TAKE k \in Handles
      <4> TAKE i \in 1 .. Len(queue[k])
      <4>1. queue[k][i] \in Messages
        BY <1>3 DEF ChannelInv, ChannelTypes
      <4>2. queue[k][i].graph \in Ids
        BY <4>1 DEF Messages
      <4> QED BY <4>2, <1>2, <1>4
    <3>6. /\ QueuesOrdered' /\ QueuesTrue'
          /\ queue' \in [AllHandles -> Seq(Messages)]
          /\ \A k \in Handles : \A f, p :
               Has(queue'[k], f, p) <=>
                 Has(queue[k], f, p) \/ (k = h /\ m.graph = f /\ m.op = p)
      <4>1. ~Has(queue[h], m.graph, m.op) /\ ~Has(queue[h], m.graph, Graph)
        BY <3>2, <1>7
      <4>2. early_graphs' = early_graphs /\ task_type' = task_type
        BY <1>2
      <4>3. ChannelTypes /\ Channels
        BY DEF ChannelInv
      <4> QED BY ONLY scope \in Scopes, scope' = scope, <3>3, <3>4, <3>5, <4>1, <4>2, <4>3, QueueGrows, ZenonT(30)
    <3> QED BY <2>2, <3>2, <3>6
  <2> QED BY <2>1, <2>2
<1>9. ChannelTypes'
  BY <1>0, <1>2, <1>5, <1>8 DEF ChannelInv, ChannelTypes
<1>10. OpsBelong'
  BY <1>0, <1>2, <1>4 DEF OpsBelong, ChannelInv, Channels
<1>11. \A k \in Handles, f \in Ids : Has(queue'[k], f, Graph) <=> Has(queue[k], f, Graph)
  <2>1. o # Graph
    BY <1>1 DEF GraphOps, Graph, FirstOp, LastOp
  <2> QED BY <2>1, <1>8
<1>12. EndsLast'
  BY <1>0, <1>2, <1>8, <1>11 DEF EndsLast, ChannelInv, Channels, Terminals
<1>13. \A f \in Ids : Counted(f)' = Counted(f)
  BY <1>0, <1>2, <1>11 DEF Counted
<1>14. \A f \in Ids, p \in GraphOps : OpCounted(f, p)' = OpCounted(f, p)
  <2> TAKE f \in Ids, p \in GraphOps
  <2>1. OpCounted(f, p)' =
          {k \in Handles : p \in hdone'[k][f] /\ Reported(k, f, p) /\ ~Has(queue'[k], f, p)}
    BY <1>0, <1>6 DEF OpCounted
  <2>2. ASSUME NEW k \in Handles
        PROVE  p \in hdone'[k][f] /\ Reported(k, f, p) /\ ~Has(queue'[k], f, p)
                 <=> p \in hdone[k][f] /\ Reported(k, f, p) /\ ~Has(queue[k], f, p)
    <3>1. CASE k = h /\ f = g /\ p = o
      BY <3>1, <1>1, <1>8, ZenonT(30)
    <3>2. CASE ~(k = h /\ f = g /\ p = o)
      BY <3>2, <1>4, <1>8, ZenonT(30)
    <3> QED BY <3>1, <3>2
  <2> QED BY <2>1, <2>2 DEF OpCounted
<1>15. Counts'
  BY <1>2, <1>13, <1>14, CountsFrame DEF ChannelInv
<1> QED BY <1>8, <1>9, <1>10, <1>12, <1>15 DEF ChannelInv, Channels

LEMMA HandleEndStep ==
  ASSUME scope \in Scopes, ChannelInv, scope' = scope, NEW h \in Handles, NEW g \in Ids,
         NEW ok \in BOOLEAN, HandleEnd(h, g, ok)
  PROVE  ChannelInv'
<1>0. Handles' = Handles /\ Planned' = Planned /\ Messages' = Messages
  BY DEF Handles, Planned, Messages
<1>1. PICK s \in Terminals : s = IF ok THEN "completed" ELSE "failed"
  BY DEF Terminals
<1>2. PICK m \in Messages : m = Message(g, Graph, ok, Planned)
  <2>1. Planned \in 0 .. Planned
    BY ScopeFacts
  <2>2. Message(g, Graph, ok, Planned) \in Messages
    BY <2>1 DEF Message, Messages
  <2> QED BY <2>2
<1>3. m.graph = g /\ m.op = Graph /\ m.ok = ok
  BY <1>2 DEF Message
<1>4. /\ hstate[h][g] = "open" /\ hdone' = hdone /\ early_graphs' = early_graphs
      /\ task_type' = task_type /\ UNCHANGED countVars
      /\ queue' = [queue EXCEPT ![h] = Append(queue[h], m)]
      /\ hstate' = [hstate EXCEPT ![h][g] = s]
      /\ ok => hdone[h][g] = GraphOps
  BY <1>1, <1>2 DEF HandleEnd, taskVars
<1> HIDE <1>2
<1>5. h \in AllHandles /\ Handles \subseteq AllHandles
  BY ScopeFacts
<1>6. \A k \in Handles, f \in Ids :
        hstate'[k][f] = IF k = h /\ f = g THEN s ELSE hstate[k][f]
  BY <1>4, <1>5 DEF ChannelInv, ChannelTypes
<1>7. hstate' \in [AllHandles -> [Ids -> {"new", "open"} \cup Terminals]]
  BY <1>1, <1>4, <1>5 DEF ChannelInv, ChannelTypes
<1>8. ~Has(queue[h], g, Graph)
  BY <1>4, OpenSilent DEF ChannelInv, Terminals
<1>9. \A k, f, p : Reported(k, f, p)' <=> Reported(k, f, p)
  BY <1>4 DEF Reported, is_remote_load, task_end_op_id
<1>10. /\ QueuesOrdered' /\ QueuesTrue'
       /\ queue' \in [AllHandles -> Seq(Messages)]
       /\ \A k \in Handles : \A f, p :
            Has(queue'[k], f, p) <=> Has(queue[k], f, p) \/ (k = h /\ g = f /\ Graph = p)
  <2>1. SaysTrue(h, m)'
    BY <1>1, <1>3, <1>6 DEF SaysTrue
  <2>2. \A k \in Handles : \A i \in 1 .. Len(queue[k]) :
          LET x == queue[k][i]
          IN  IF x.op = Graph THEN hstate'[k][x.graph] = hstate[k][x.graph]
                              ELSE hdone[k][x.graph] \subseteq hdone'[k][x.graph]
    <3> TAKE k \in Handles
    <3> TAKE i \in 1 .. Len(queue[k])
    <3>0. queue[k][i] \in Messages
      BY <1>5 DEF ChannelInv, ChannelTypes
    <3>1. queue[k][i].graph \in Ids
      BY <3>0 DEF Messages
    <3>2. queue[k][i].op = Graph => ~(k = h /\ queue[k][i].graph = g)
      BY <1>8 DEF Has
    <3> QED BY <3>1, <3>2, <1>4, <1>6
  <2>3. ~Has(queue[h], m.graph, m.op) /\ ~Has(queue[h], m.graph, Graph)
    BY <1>3, <1>8
  <2>4. /\ QueuesOrdered' /\ QueuesTrue'
        /\ queue' \in [AllHandles -> Seq(Messages)]
        /\ \A k \in Handles : \A f, p :
             Has(queue'[k], f, p) <=>
               Has(queue[k], f, p) \/ (k = h /\ m.graph = f /\ m.op = p)
    BY <2>1, <2>2, <2>3, <1>4, QueueGrows DEF ChannelInv
  <2> QED BY <2>4, <1>3
<1>11. ChannelTypes'
  BY <1>0, <1>4, <1>7, <1>10 DEF ChannelInv, ChannelTypes
<1>12. OpsBelong'
  BY <1>0, <1>1, <1>4, <1>6 DEF OpsBelong, ChannelInv, Channels
<1>13. \A k \in Handles, f \in Ids, p \in GraphOps : Has(queue'[k], f, p) <=> Has(queue[k], f, p)
  <2>1. \A p \in GraphOps : p # Graph
    BY DEF GraphOps, Graph, FirstOp, LastOp
  <2> QED BY <2>1, <1>10
<1>14. EndsLast'
  BY <1>0, <1>6, <1>10, <1>13, ZenonT(30) DEF EndsLast, ChannelInv, Channels
<1>15. \A f \in Ids : Counted(f)' = Counted(f)
  <2> TAKE f \in Ids
  <2>1. Counted(f)' = {k \in Handles : hstate'[k][f] \in Terminals /\ ~Has(queue'[k], f, Graph)}
    BY <1>0 DEF Counted
  <2>2. hstate[h][g] \notin Terminals
    BY <1>4 DEF Terminals
  <2>3. ASSUME NEW k \in Handles
        PROVE  hstate'[k][f] \in Terminals /\ ~Has(queue'[k], f, Graph)
                 <=> hstate[k][f] \in Terminals /\ ~Has(queue[k], f, Graph)
    <3>1. CASE k = h /\ f = g
      BY <3>1, <2>2, <1>10
    <3>2. CASE ~(k = h /\ f = g)
      BY <3>2, <1>6, <1>10
    <3> QED BY <3>1, <3>2
  <2> QED BY <2>1, <2>3 DEF Counted
<1>16. \A f \in Ids : \A k \in Counted(f) : hstate'[k][f] = hstate[k][f]
  BY <1>4, <1>6 DEF Counted, Terminals
<1>17. \A f \in Ids, p \in GraphOps : OpCounted(f, p)' = OpCounted(f, p)
  BY <1>0, <1>4, <1>9, <1>13 DEF OpCounted
<1>18. Counts'
  BY <1>4, <1>15, <1>16, <1>17, CountsFrame DEF ChannelInv
<1> QED BY <1>10, <1>11, <1>12, <1>14, <1>18 DEF ChannelInv, Channels
-----------------------------------------------------------------------------
(* Steps of the handles, and messages that move no task. *)
LEMMA TableFrame ==
  ASSUME KVTaskInv, scope' = scope, UNCHANGED <<taskVars, planVars, response>>,
         \A h \in Handles, g \in Ids :
           /\ hstate[h][g] = "new" => hstate'[h][g] = "new"
           /\ hstate[h][g] = "completed" => hstate'[h][g] = "completed"
           /\ hdone[h][g] \subseteq hdone'[h][g]
  PROVE  TableInv' /\ AnswerInv'
<1>0. Handles' = Handles
  BY DEF Handles
<1>1. \A g \in Ids : Unsent(g) => Unsent(g)'
  BY <1>0 DEF Unsent
<1>2. \A g \in Ids : /\ EndedEverywhere(g) => EndedEverywhere(g)'
                     /\ CompletedEverywhere(g) => CompletedEverywhere(g)'
  BY <1>0 DEF EndedEverywhere, CompletedEverywhere, task_end_op_id, taskVars
<1>3. \A g \in Ids : is_completed(g)' <=> is_completed(g)
  BY DEF is_completed, taskVars
<1>4. /\ TableTypes' /\ Mapped' /\ SettledCarryNone' /\ OwnPlans'
  BY <1>3 DEF KVTaskInv, TableInv, TableTypes, Mapped, SettledCarryNone, OwnPlans,
              taskVars, planVars
<1>5. Fresh'
  BY <1>1 DEF KVTaskInv, TableInv, Fresh, taskVars, planVars
<1>6. UnreadyTasks'
  BY <1>1 DEF KVTaskInv, TableInv, UnreadyTasks, taskVars
<1>7. HeldPlans'
  BY <1>1 DEF KVTaskInv, TableInv, HeldPlans, TableTypes, taskVars, planVars
<1>8. EarlyEnds' /\ CompletedEnds' /\ Answers'
  BY <1>1, <1>2 DEF KVTaskInv, AnswerInv, EarlyEnds, CompletedEnds, Answers, taskVars
<1>9. PublishedEverywhere'
  <2> SUFFICES ASSUME NEW p \in Tasks, NEW o \in opDone[p]
               PROVE  \E g \in Batches \cup {p} : \A h \in Handles : o \in hdone'[h][g]
    BY <1>0 DEF PublishedEverywhere, planVars
  <2>1. PICK g \in Batches \cup {p} : \A h \in Handles : o \in hdone[h][g]
    BY DEF KVTaskInv, AnswerInv, PublishedEverywhere
  <2>2. g \in Ids
    BY DEF Ids
  <2> QED BY <2>1, <2>2
<1> QED BY <1>4, <1>5, <1>6, <1>7, <1>8, <1>9 DEF TableInv, AnswerInv

LEMMA TransferStep ==
  ASSUME KVTaskInv, scope' = scope, Transfer
  PROVE  KVTaskInv'
<1>1. scope \in Scopes /\ ChannelInv
  BY DEF KVTaskInv, TableInv, TableTypes
<1>2. PICK h \in Handles, g \in Ids :
        \/ \E len \in 0 .. Planned : HandleOp(h, g, len)
        \/ \E ok \in BOOLEAN : HandleEnd(h, g, ok)
  BY DEF Transfer
<1>3. h \in AllHandles /\ Handles \subseteq AllHandles
  BY <1>1, ScopeFacts
<1>4. CASE \E len \in 0 .. Planned : HandleOp(h, g, len)
  <2>1. PICK len \in 0 .. Planned : HandleOp(h, g, len)
    BY <1>4
  <2>2. ChannelInv'
    BY <2>1, <1>1, HandleOpStep
  <2>3. \A k \in Handles, f \in Ids : hdone[k][f] \subseteq hdone'[k][f] /\ hstate'[k][f] = hstate[k][f]
    BY <2>1, <1>3 DEF HandleOp, KVTaskInv, ChannelInv, ChannelTypes
  <2>4. UNCHANGED <<taskVars, planVars, response>>
    BY <2>1 DEF HandleOp
  <2>5. TableInv' /\ AnswerInv'
    BY <2>3, <2>4, TableFrame
  <2> QED BY <2>2, <2>5 DEF KVTaskInv
<1>5. CASE \E ok \in BOOLEAN : HandleEnd(h, g, ok)
  <2>1. PICK ok \in BOOLEAN : HandleEnd(h, g, ok)
    BY <1>5
  <2>2. ChannelInv'
    BY <2>1, <1>1, HandleEndStep
  <2>3. \A k \in Handles, f \in Ids :
          /\ hdone'[k][f] = hdone[k][f]
          /\ hstate[k][f] # "open" => hstate'[k][f] = hstate[k][f]
    BY <2>1, <1>3 DEF HandleEnd, KVTaskInv, ChannelInv, ChannelTypes
  <2>4. UNCHANGED <<taskVars, planVars, response>>
    BY <2>1 DEF HandleEnd
  <2>5. TableInv' /\ AnswerInv'
    BY <2>3, <2>4, TableFrame
  <2> QED BY <2>2, <2>5 DEF KVTaskInv
<1> QED BY <1>2, <1>4, <1>5

(* Every copy, counted or last, keeps the channels and their counters. *)
LEMMA CopyStep ==
  ASSUME KVTaskInv, scope' = scope, task_type' = task_type, NEW h \in Handles,
         LastOpCopy(h) \/ LastGraphCopy(h)
  PROVE  ChannelInv' /\ hstate' = hstate /\ hdone' = hdone
<1>1. scope \in Scopes /\ ChannelInv
  BY DEF KVTaskInv, TableInv, TableTypes
<1>2. CASE LastOpCopy(h)
  BY <1>1, <1>2, OpCopyStep DEF LastOpCopy, Fetch
<1>3. CASE LastGraphCopy(h)
  BY <1>1, <1>3, GraphCopyStep DEF LastGraphCopy, Fetch
<1> QED BY <1>2, <1>3

LEMMA QuietMessageStep ==
  ASSUME KVTaskInv, scope' = scope, NEW h \in Handles,
         CountMessage(h) \/ DropMessage(h) \/ IgnoreTerminal(h)
  PROVE  KVTaskInv'
<1>1. scope \in Scopes /\ ChannelInv
  BY DEF KVTaskInv, TableInv, TableTypes
<1>2. UNCHANGED <<taskVars, planVars, response>> /\ task_type' = task_type
  BY DEF CountMessage, DropMessage, IgnoreTerminal, taskVars
<1>3. ChannelInv' /\ hstate' = hstate /\ hdone' = hdone
  <2>1. CASE LastOpCopy(h) \/ LastGraphCopy(h)
    BY <2>1, <1>2, CopyStep
  <2>2. CASE CountMessage(h) /\ Msg(h).op = Graph
    BY <2>2, <1>1, <1>2, GraphCopyStep DEF CountMessage, Fetch
  <2>3. CASE CountMessage(h) /\ Msg(h).op # Graph
    BY <2>3, <1>1, <1>2, OpCopyStep DEF CountMessage, Fetch
  <2> QED BY <2>1, <2>2, <2>3 DEF DropMessage, IgnoreTerminal
<1>4. TableInv' /\ AnswerInv'
  BY <1>2, <1>3, TableFrame
<1> QED BY <1>3, <1>4 DEF KVTaskInv
-----------------------------------------------------------------------------
(* The last copy of an op message. *)
LEMMA FinishOpStep ==
  ASSUME KVTaskInv, scope' = scope, NEW h \in Handles, NEW raised \in BOOLEAN, FinishOp(h, raised)
  PROVE  KVTaskInv'
<1>0. Handles' = Handles
  BY DEF Handles
<1>1. scope \in Scopes /\ ChannelInv /\ TableInv /\ AnswerInv /\ TableTypes
  BY DEF KVTaskInv, TableInv, TableTypes
<1>2. LastOpCopy(h) /\ task_type' = task_type
  BY DEF FinishOp
<1>3. ChannelInv' /\ hstate' = hstate /\ hdone' = hdone
  BY <1>2, CopyStep
<1>4. PICK t \in Ids, o \in GraphOps :
        t = Msg(h).graph /\ o = Msg(h).op /\ \A k \in Handles : o \in hdone[k][t]
  BY <1>1, <1>2, LastOpMeans DEF LastOpCopy
<1>5. /\ t \in graph_to_task
      /\ UNCHANGED <<status, created, request_returned, callback, op_callback_dict, graph,
                     graph_to_task, plan, response>>
      /\ \E b \in BOOLEAN : transfer_failed' = [transfer_failed EXCEPT ![t] = b]
      /\ \A f \in Ids : task_end_op_finished'[f] # task_end_op_finished[f] =>
           f = t /\ o = task_end_op_id(t)
      /\ \A p \in Tasks : opDone'[p] = opDone[p]
           \/ (p \in callback[t] /\ opDone'[p] = opDone[p] \cup {o})
  <2>1. \E b \in BOOLEAN : transfer_failed' = [transfer_failed EXCEPT ![t] = b]
    <3>1. transfer_failed' = [transfer_failed EXCEPT ![t] =
             transfer_failed[t] \/ LoadFails(t, o, OpEntry(h).len) \/ raised]
      BY <1>4 DEF FinishOp
    <3> QED BY <3>1
  <2>2. \A f \in Ids : task_end_op_finished'[f] # task_end_op_finished[f] =>
           f = t /\ o = task_end_op_id(t)
    BY <1>1, <1>4 DEF FinishOp, TableTypes
  <2>3. \A p \in Tasks : opDone'[p] = opDone[p]
           \/ (p \in callback[t] /\ opDone'[p] = opDone[p] \cup {o})
    <3>1. \/ opDone' = opDone
          \/ opDone' = [p \in Tasks |->
               IF p \in callback[t] /\ op_callback_dict[t] /\ ~raised
                 THEN opDone[p] \cup {o} ELSE opDone[p]]
      BY <1>4 DEF FinishOp
    <3> TAKE p \in Tasks
    <3>2. CASE opDone' = [x \in Tasks |->
               IF x \in callback[t] /\ op_callback_dict[t] /\ ~raised
                 THEN opDone[x] \cup {o} ELSE opDone[x]]
      <4>1. opDone'[p] = IF p \in callback[t] /\ op_callback_dict[t] /\ ~raised
                           THEN opDone[p] \cup {o} ELSE opDone[p]
        BY <3>2
      <4> QED BY <4>1
    <3> QED BY <3>1, <3>2
  <2> QED BY <2>1, <2>2, <2>3, <1>4 DEF FinishOp
<1>6. TableTypes'
  <2>1. transfer_failed' \in [Ids -> BOOLEAN]
    BY <1>1, <1>5 DEF TableTypes
  <2>2. task_end_op_finished' \in [Ids -> BOOLEAN]
    BY <1>1, <1>4 DEF FinishOp, TableTypes
  <2>3. opDone' \in [Tasks -> SUBSET GraphOps]
    BY <1>1, <1>4 DEF FinishOp, TableTypes
  <2> QED BY <2>1, <2>2, <2>3, <1>1, <1>2, <1>5 DEF TableTypes
<1>7. \A f \in Ids : /\ Unsent(f)' <=> Unsent(f)
                     /\ is_completed(f)' <=> is_completed(f)
                     /\ EndedEverywhere(f)' <=> EndedEverywhere(f)
                     /\ CompletedEverywhere(f)' <=> CompletedEverywhere(f)
  BY <1>0, <1>2, <1>3, <1>5 DEF Unsent, is_completed, EndedEverywhere, CompletedEverywhere, task_end_op_id
<1>8. t \in created /\ status[t] # "UNREADY" /\ \A p \in callback[t] : p \in created
  <2>1. Handles # {} /\ ~Unsent(t)
    BY <1>1, <1>4, ScopeFacts DEF Unsent, ChannelInv, Channels, OpsBelong
  <2> QED BY <2>1, <1>1, <1>5 DEF TableInv, Fresh, UnreadyTasks, OwnPlans
<1>9. Fresh'
  BY <1>1, <1>5, <1>7, <1>8 DEF TableInv, Fresh, TableTypes
<1>10. Mapped' /\ SettledCarryNone' /\ OwnPlans'
  BY <1>1, <1>5, <1>7 DEF TableInv, Mapped, SettledCarryNone, OwnPlans
<1>11. UnreadyTasks'
  BY <1>1, <1>5, <1>7, <1>8, <1>6 DEF TableInv, UnreadyTasks, TableTypes
<1>12. HeldPlans'
  BY <1>1, <1>5, <1>7 DEF TableInv, HeldPlans, TableTypes
<1>13. o = task_end_op_id(t) => EndedEverywhere(t)
  BY <1>4 DEF EndedEverywhere
<1>14. EarlyEnds'
  BY <1>1, <1>5, <1>6, <1>7, <1>13 DEF AnswerInv, EarlyEnds, TableTypes
<1>15. CompletedEnds' /\ Answers'
  BY <1>1, <1>2, <1>5, <1>7 DEF AnswerInv, CompletedEnds, Answers
<1>16. PublishedEverywhere'
  <2> SUFFICES ASSUME NEW p \in Tasks, NEW q \in opDone'[p]
               PROVE  \E g \in Batches \cup {p} : \A k \in Handles : q \in hdone[k][g]
    BY <1>0, <1>3 DEF PublishedEverywhere
  <2>1. CASE q \in opDone[p]
    BY <2>1, <1>1 DEF AnswerInv, PublishedEverywhere
  <2>2. CASE q \notin opDone[p]
    <3>1. q = o /\ p \in callback[t]
      BY <2>2, <1>5
    <3>2. t \in Batches \cup {p}
      BY <3>1, <1>1 DEF TableInv, OwnPlans, Ids
    <3> QED BY <3>1, <3>2, <1>4
  <2> QED BY <2>1, <2>2
<1> QED BY <1>3, <1>6, <1>9, <1>10, <1>11, <1>12, <1>14, <1>15, <1>16
        DEF KVTaskInv, TableInv, AnswerInv

(* The last copy of a graph message: the task is over. *)
LEMMA TerminateStep ==
  ASSUME KVTaskInv, scope' = scope, NEW h \in Handles, NEW t, t = Msg(h).graph,
         NEW outcome \in {"completed", "aborted"}, NEW s \in {"COMPLETED", "FAILED"},
         LastGraphCopy(h), t \in graph_to_task, ~is_completed(t),
         s = "COMPLETED" => ~GraphEntry(h).failed,
         transfer_failed' \in [Ids -> BOOLEAN],
         Terminate(t, outcome, s)
  PROVE  KVTaskInv'
<1>0. Handles' = Handles
  BY DEF Handles
<1>1. scope \in Scopes /\ ChannelInv /\ TableInv /\ AnswerInv /\ TableTypes
  BY DEF KVTaskInv, TableInv, TableTypes
<1>2. task_type' = task_type
  BY DEF Terminate
<1>3. ChannelInv' /\ hstate' = hstate /\ hdone' = hdone
  BY <1>2, CopyStep
<1>4. /\ t \in Ids /\ \A k \in Handles : hstate[k][t] \in Terminals
      /\ s = "COMPLETED" => CompletedEverywhere(t)
  BY <1>1, LastGraphMeans DEF CompletedEverywhere
<1>5. /\ UNCHANGED <<created, request_returned, op_callback_dict, opDone, response>>
      /\ graph_to_task' = graph_to_task \ {t}
      /\ \A f \in Ids : f # t =>
           /\ status'[f] = status[f] /\ task_end_op_finished'[f] = task_end_op_finished[f]
           /\ graph'[f] = graph[f] /\ callback'[f] = callback[f]
      /\ status'[t] \in {"none", s} /\ callback'[t] = {}
      /\ \A p \in Tasks : plan'[p] = IF p \in callback[t] THEN outcome ELSE plan[p]
  BY <1>1, <1>4 DEF Terminate, TableTypes
<1>6. TableTypes'
  BY <1>1, <1>4 DEF Terminate, TableTypes, Statuses
<1>7. /\ \A f \in Ids : /\ Unsent(f)' <=> Unsent(f)
                        /\ EndedEverywhere(f)' <=> EndedEverywhere(f)
                        /\ CompletedEverywhere(f)' <=> CompletedEverywhere(f)
      /\ \A f \in Ids : f # t => (is_completed(f)' <=> is_completed(f))
  BY <1>0, <1>2, <1>3, <1>5 DEF Unsent, is_completed, EndedEverywhere, CompletedEverywhere, task_end_op_id
<1>8. t \in created
  BY <1>1, <1>4 DEF TableInv, Fresh
<1>9. Fresh'
  <2> SUFFICES ASSUME NEW f \in Ids, f \notin created
               PROVE  /\ status'[f] = "none" /\ callback'[f] = {} /\ f \notin graph_to_task'
                      /\ ~task_end_op_finished'[f] /\ response'[f] = "none"
                      /\ Unsent(f)'
                      /\ f \in Tasks => plan'[f] = "none" /\ opDone'[f] = {}
    BY <1>5 DEF Fresh
  <2>1. f # t /\ f \notin callback[t]
    BY <1>1, <1>4, <1>8 DEF TableInv, OwnPlans
  <2> QED BY <2>1, <1>1, <1>5, <1>7 DEF TableInv, Fresh
<1>10. Mapped' /\ OwnPlans' /\ SettledCarryNone'
  BY <1>1, <1>4, <1>5, <1>7 DEF TableInv, Mapped, SettledCarryNone, OwnPlans, TableTypes, Ids
<1>11. UnreadyTasks'
  BY <1>1, <1>4, <1>5, <1>7 DEF TableInv, UnreadyTasks
<1>12. HeldPlans'
  <2> SUFFICES ASSUME NEW u \in graph_to_task, u # t, NEW p \in callback[u]
               PROVE  /\ plan'[p] = "held"
                      /\ \A v \in Ids : v # u /\ p \in callback'[v] =>
                           v \notin graph_to_task' /\ Unsent(v)'
    BY <1>1, <1>5 DEF HeldPlans, TableTypes
  <2>1. u \in Ids /\ p \in Tasks
    BY <1>1 DEF TableTypes
  <2>2. /\ plan[p] = "held"
        /\ \A v \in Ids : v # u /\ p \in callback[v] => v \notin graph_to_task /\ Unsent(v)
    BY <1>1 DEF TableInv, HeldPlans
  <2>3. p \notin callback[t]
    BY <2>2, <1>4
  <2> QED BY <2>1, <2>2, <2>3, <1>5, <1>7
<1>13. EarlyEnds' /\ CompletedEnds'
  BY <1>1, <1>4, <1>5, <1>7 DEF AnswerInv, EarlyEnds, CompletedEnds
<1>14. Answers' /\ PublishedEverywhere'
  BY <1>0, <1>1, <1>2, <1>3, <1>5, <1>7 DEF AnswerInv, Answers, PublishedEverywhere
<1> QED BY <1>3, <1>6, <1>9, <1>10, <1>11, <1>12, <1>13, <1>14
        DEF KVTaskInv, TableInv, AnswerInv

LEMMA EndStep ==
  ASSUME KVTaskInv, scope' = scope, NEW h \in Handles,
         fail_task(h) \/ \E raised \in BOOLEAN : mark_completed(h, raised)
  PROVE  KVTaskInv'
<1>1. scope \in Scopes /\ ChannelInv /\ TableTypes
  BY DEF KVTaskInv, TableInv, TableTypes
<1>2. PICK t : t = Msg(h).graph
  OBVIOUS
<1>3. CASE fail_task(h)
  <2>1. transfer_failed' \in [Ids -> BOOLEAN]
    BY <1>1, <1>3 DEF fail_task, TableTypes
  <2>2. /\ LastGraphCopy(h) /\ t \in graph_to_task /\ ~is_completed(t)
        /\ Terminate(t, "aborted", "FAILED")
    BY <1>2, <1>3 DEF fail_task
  <2> QED BY <1>2, <2>1, <2>2, TerminateStep
<1>4. CASE \E raised \in BOOLEAN : mark_completed(h, raised)
  <2>1. PICK raised \in BOOLEAN : mark_completed(h, raised)
    BY <1>4
  <2>2. PICK bad \in BOOLEAN :
          /\ transfer_failed' = [transfer_failed EXCEPT ![t] = bad]
          /\ Terminate(t, "completed", IF bad THEN "FAILED" ELSE "COMPLETED")
    <3>1. PICK bad : bad = (transfer_failed[t] \/ raised)
      OBVIOUS
    <3>2. bad \in BOOLEAN
      BY <3>1
    <3> QED BY <1>2, <2>1, <3>1, <3>2 DEF mark_completed
  <2>3. LastGraphCopy(h) /\ t \in graph_to_task /\ ~is_completed(t) /\ ~GraphEntry(h).failed
    BY <1>2, <2>1 DEF mark_completed
  <2>4. transfer_failed' \in [Ids -> BOOLEAN]
    BY <1>1, <2>2 DEF TableTypes
  <2>5. PICK s \in {"COMPLETED", "FAILED"} : s = IF bad THEN "FAILED" ELSE "COMPLETED"
    OBVIOUS
  <2>6. Terminate(t, "completed", s)
    BY <2>2, <2>5
  <2> QED BY <1>2, <2>3, <2>4, <2>6, TerminateStep
<1> QED BY <1>3, <1>4
-----------------------------------------------------------------------------
(* A graph that no handle has goes to all of them; the types of tasks whose graphs
   are out stay, and so does what the handles were told about them. *)
LEMMA HandOverStep ==
  ASSUME KVTaskInv, scope' = scope, NEW g \in Ids, Unsent(g), hand_over(g), UNCHANGED countVars,
         early_graphs' \in {early_graphs, early_graphs \cup {g}},
         \A f \in Ids : f # g => task_type'[f] = task_type[f]
  PROVE  /\ ChannelInv' /\ hdone' = hdone
         /\ \A h \in Handles, f \in Ids : hstate'[h][f] = IF f = g THEN "open" ELSE hstate[h][f]
<1>1. scope \in Scopes /\ ChannelInv /\ Handles \subseteq AllHandles
  BY ScopeFacts DEF KVTaskInv, TableInv, TableTypes
<1>2. hdone' = hdone /\ queue' = queue
  BY DEF hand_over
<1>3. \A h \in Handles, f \in Ids : hstate'[h][f] = IF f = g THEN "open" ELSE hstate[h][f]
  BY <1>1 DEF hand_over, ChannelInv, ChannelTypes
<1>4. hstate' \in [AllHandles -> [Ids -> {"new", "open"} \cup Terminals]]
  BY <1>1 DEF hand_over, ChannelInv, ChannelTypes
<1>5. early_graphs' \subseteq Ids
  BY <1>1 DEF ChannelInv, ChannelTypes
<1>6. \A h \in Handles, f \in Ids, o \in GraphOps :
        ~Unsent(f) => (Reported(h, f, o)' <=> Reported(h, f, o))
  BY DEF Reported, is_remote_load, task_end_op_id
<1>7. ChannelInv'
  BY <1>1, <1>2, <1>3, <1>4, <1>5, <1>6, ChannelFrame
<1> QED BY <1>2, <1>3, <1>7

(* The same for a step that leaves the handles alone. *)
LEMMA StayStep ==
  ASSUME KVTaskInv, scope' = scope, UNCHANGED <<countVars, handleVars>>,
         \A f \in Ids : ~Unsent(f) => task_type'[f] = task_type[f]
  PROVE  ChannelInv' /\ hdone' = hdone /\ hstate' = hstate
<1>1. scope \in Scopes /\ ChannelInv /\ Handles \subseteq AllHandles
  BY ScopeFacts DEF KVTaskInv, TableInv, TableTypes
<1>2. /\ hdone' = hdone /\ queue' = queue /\ hstate' = hstate /\ early_graphs' = early_graphs
      /\ UNCHANGED countVars
  BY DEF handleVars
<1>3. \A h \in Handles, f \in Ids, o \in GraphOps :
        ~Unsent(f) => (Reported(h, f, o)' <=> Reported(h, f, o))
  BY <1>2 DEF Reported, is_remote_load, task_end_op_id
<1>4. hstate' \in [AllHandles -> [Ids -> {"new", "open"} \cup Terminals]] /\ early_graphs' \subseteq Ids
  BY <1>1, <1>2 DEF ChannelInv, ChannelTypes
<1>5. ChannelInv'
  BY <1>1, <1>2, <1>3, <1>4, ChannelFrame
<1> QED BY <1>2, <1>5

(* get_match, put_match, get_async, put_async, prefetch_async. *)
LEMMA CreateStep ==
  ASSUME KVTaskInv, scope' = scope, NEW t \in Tasks, NEW k \in TaskTypes,
         match(t, k) \/ async(t, k)
  PROVE  KVTaskInv'
<1>0. Handles' = Handles
  BY DEF Handles
<1>1. ChannelInv /\ TableInv /\ AnswerInv /\ TableTypes /\ t \in Ids
  BY DEF KVTaskInv, TableInv, Ids
<1>2. PICK s \in {"UNREADY", "RUNNING"} :
        /\ create_task(t, k, s)
        /\ s = "UNREADY" => UNCHANGED handleVars
        /\ s = "RUNNING" => submit(t)
  BY DEF match, async
<1>3. /\ t \notin created /\ created' = created \cup {t}
      /\ graph_to_task' = graph_to_task \cup {t}
      /\ UNCHANGED <<task_end_op_finished, transfer_failed, request_returned, opDone, response>>
      /\ UNCHANGED countVars
      /\ \A f \in Ids : /\ task_type'[f] = IF f = t THEN k ELSE task_type[f]
                        /\ status'[f] = IF f = t THEN s ELSE status[f]
                        /\ callback'[f] = IF f = t THEN {t} ELSE callback[f]
                        /\ f # t => graph'[f] = graph[f]
      /\ graph'[t]
      /\ \A p \in Tasks : plan'[p] = IF p = t THEN "held" ELSE plan[p]
  BY <1>1, <1>2 DEF create_task, TableTypes
<1>4. TableTypes'
  <2>1. status' \in [Ids -> Statuses]
    BY <1>1, <1>2 DEF create_task, TableTypes, Statuses
  <2>2. /\ scope' \in Scopes /\ created' \subseteq Ids /\ graph_to_task' \subseteq Ids
        /\ task_type' \in [Ids -> TaskTypes]
        /\ callback' \in [Ids -> SUBSET Tasks]
        /\ op_callback_dict' \in [Ids -> BOOLEAN] /\ graph' \in [Ids -> BOOLEAN]
        /\ plan' \in [Tasks -> {"none", "held", "completed", "aborted", "dropped"}]
    BY <1>1, <1>2 DEF create_task, TableTypes
  <2> QED BY <2>1, <2>2, <1>1, <1>3 DEF TableTypes
<1>5. /\ Unsent(t) /\ ~task_end_op_finished[t] /\ response[t] = "none"
      /\ opDone[t] = {} /\ plan[t] = "none" /\ t \notin graph_to_task /\ callback[t] = {}
      /\ \A f \in Ids : t \notin callback[f]
  BY <1>1, <1>3 DEF TableInv, Fresh, OwnPlans
<1>6. /\ ChannelInv' /\ hdone' = hdone
      /\ \A h \in Handles, f \in Ids : f # t => hstate'[h][f] = hstate[h][f]
      /\ s = "UNREADY" => Unsent(t)'
  <2>1. CASE s = "UNREADY"
    BY <2>1, <1>0, <1>2, <1>3, <1>5, StayStep DEF Unsent
  <2>2. CASE s = "RUNNING"
    BY <2>2, <1>1, <1>2, <1>3, <1>5, HandOverStep DEF submit
  <2> QED BY <2>1, <2>2
<1>7. \A f \in Ids : f # t =>
        /\ Unsent(f)' <=> Unsent(f)
        /\ is_completed(f)' <=> is_completed(f)
        /\ EndedEverywhere(f)' <=> EndedEverywhere(f)
        /\ CompletedEverywhere(f)' <=> CompletedEverywhere(f)
  BY <1>0, <1>3, <1>6 DEF Unsent, is_completed, EndedEverywhere, CompletedEverywhere, task_end_op_id
<1>8. Fresh'
  BY <1>1, <1>3, <1>7 DEF TableInv, Fresh
<1>9. Mapped'
  BY <1>1, <1>3, <1>4 DEF TableInv, Mapped, TableTypes
<1>10. UnreadyTasks'
  BY <1>1, <1>3, <1>5, <1>6, <1>7 DEF TableInv, UnreadyTasks
<1>11. SettledCarryNone' /\ OwnPlans'
  <2>1. ~is_completed(t)'
    BY <1>1, <1>3 DEF is_completed
  <2> QED BY <2>1, <1>1, <1>3, <1>7 DEF TableInv, SettledCarryNone, OwnPlans, Ids
<1>12. HeldPlans'
  <2> SUFFICES ASSUME NEW u \in graph_to_task', NEW p \in callback'[u]
               PROVE  /\ plan'[p] = "held"
                      /\ \A v \in Ids : v # u /\ p \in callback'[v] =>
                           v \notin graph_to_task' /\ Unsent(v)'
    BY DEF HeldPlans
  <2>1. u \in Ids /\ p \in Tasks
    BY <1>4 DEF TableTypes
  <2>2. CASE u = t
    BY <2>1, <2>2, <1>3, <1>5
  <2>3. CASE u # t
    <3>1. u \in graph_to_task /\ p \in callback[u] /\ p # t
      BY <2>1, <2>3, <1>3, <1>5
    <3>2. /\ plan[p] = "held"
          /\ \A v \in Ids : v # u /\ p \in callback[v] => v \notin graph_to_task /\ Unsent(v)
      BY <3>1, <1>1 DEF TableInv, HeldPlans
    <3> QED BY <2>1, <3>1, <3>2, <1>3, <1>7
  <2> QED BY <2>2, <2>3
<1>13. EarlyEnds' /\ CompletedEnds' /\ Answers'
  BY <1>1, <1>3, <1>5, <1>7 DEF AnswerInv, EarlyEnds, CompletedEnds, Answers
<1>14. PublishedEverywhere'
  BY <1>0, <1>1, <1>3, <1>6 DEF AnswerInv, PublishedEverywhere
<1> QED BY <1>4, <1>6, <1>8, <1>9, <1>10, <1>11, <1>12, <1>13, <1>14
        DEF KVTaskInv, TableInv, AnswerInv

(* A match that leaves nothing to transfer. *)
LEMMA EmptyStep ==
  ASSUME KVTaskInv, scope' = scope, NEW t \in Tasks, NEW k \in TaskTypes, match_empty(t, k)
  PROVE  KVTaskInv'
<1>0. Handles' = Handles
  BY DEF Handles
<1>1. ChannelInv /\ TableInv /\ AnswerInv /\ TableTypes /\ t \in Ids
  BY DEF KVTaskInv, TableInv, Ids
<1>2. /\ t \notin created /\ created' = created \cup {t}
      /\ UNCHANGED <<transfer_failed, request_returned, callback, graph, graph_to_task,
                     opDone, response>>
      /\ UNCHANGED <<countVars, handleVars>>
      /\ \A f \in Ids : f # t => /\ task_type'[f] = task_type[f] /\ status'[f] = status[f]
                                 /\ task_end_op_finished'[f] = task_end_op_finished[f]
      /\ status'[t] = "COMPLETED"
      /\ \A p \in Tasks : p # t => plan'[p] = plan[p]
  BY <1>1 DEF match_empty, TableTypes
<1>3. TableTypes'
  <2>1. status' \in [Ids -> Statuses] /\ task_type' \in [Ids -> TaskTypes]
    BY <1>1 DEF match_empty, TableTypes, Statuses
  <2>2. /\ scope' \in Scopes /\ created' \subseteq Ids
        /\ task_end_op_finished' \in [Ids -> BOOLEAN] /\ op_callback_dict' \in [Ids -> BOOLEAN]
        /\ plan' \in [Tasks -> {"none", "held", "completed", "aborted", "dropped"}]
    BY <1>1 DEF match_empty, TableTypes
  <2> QED BY <2>1, <2>2, <1>1, <1>2 DEF TableTypes
<1>4. /\ Unsent(t) /\ response[t] = "none" /\ opDone[t] = {} /\ t \notin graph_to_task
      /\ callback[t] = {} /\ \A f \in Ids : t \notin callback[f]
  BY <1>1, <1>2 DEF TableInv, Fresh, OwnPlans
<1>5. ChannelInv' /\ hdone' = hdone /\ hstate' = hstate
  BY <1>2, <1>4, StayStep
<1>6. /\ \A f \in Ids : /\ Unsent(f)' <=> Unsent(f)
                        /\ CompletedEverywhere(f)' <=> CompletedEverywhere(f)
      /\ \A f \in Ids : f # t => /\ is_completed(f)' <=> is_completed(f)
                                 /\ EndedEverywhere(f)' <=> EndedEverywhere(f)
  BY <1>0, <1>2, <1>5 DEF Unsent, is_completed, EndedEverywhere, CompletedEverywhere, task_end_op_id
<1>7. Fresh'
  BY <1>1, <1>2, <1>6 DEF TableInv, Fresh
<1>8. Mapped' /\ OwnPlans' /\ SettledCarryNone'
  BY <1>1, <1>2, <1>4, <1>6 DEF TableInv, Mapped, OwnPlans, SettledCarryNone, TableTypes
<1>9. UnreadyTasks'
  BY <1>1, <1>2, <1>6 DEF TableInv, UnreadyTasks
<1>10. HeldPlans'
  BY <1>1, <1>2, <1>4, <1>6 DEF TableInv, HeldPlans, TableTypes
<1>11. EarlyEnds' /\ CompletedEnds' /\ Answers'
  BY <1>1, <1>2, <1>4, <1>6 DEF AnswerInv, EarlyEnds, CompletedEnds, Answers
<1>12. PublishedEverywhere'
  BY <1>0, <1>1, <1>2, <1>5 DEF AnswerInv, PublishedEverywhere
<1> QED BY <1>3, <1>5, <1>7, <1>8, <1>9, <1>10, <1>11, <1>12 DEF KVTaskInv, TableInv, AnswerInv
-----------------------------------------------------------------------------
(* launch_tasks, one task: the graph of a matched task goes out. *)
LEMMA LaunchStep ==
  ASSUME KVTaskInv, scope' = scope, NEW t \in Tasks, launch(t)
  PROVE  KVTaskInv'
<1>0. Handles' = Handles
  BY DEF Handles
<1>1. ChannelInv /\ TableInv /\ AnswerInv /\ TableTypes /\ t \in Ids
  BY DEF KVTaskInv, TableInv, Ids
<1>2. /\ status[t] = "UNREADY" /\ UNCHANGED <<countVars, planVars, response>>
      /\ UNCHANGED <<created, task_type, task_end_op_finished, transfer_failed, request_returned,
                     callback, op_callback_dict, graph, graph_to_task>>
      /\ \A f \in Ids : status'[f] = IF f = t THEN "RUNNING" ELSE status[f]
      /\ hand_over(t) /\ early_graphs' = early_graphs
  BY <1>1 DEF launch, submit_batch, TableTypes
<1>3. TableTypes'
  <2>1. status' \in [Ids -> Statuses]
    BY <1>1 DEF launch, TableTypes, Statuses
  <2> QED BY <2>1, <1>1, <1>2 DEF TableTypes, planVars
<1>4. /\ t \in graph_to_task /\ callback[t] = {t} /\ ~task_end_op_finished[t]
      /\ response[t] = "none" /\ Unsent(t)
  BY <1>1, <1>2 DEF TableInv, UnreadyTasks
<1>5. /\ ChannelInv' /\ hdone' = hdone
      /\ \A h \in Handles, f \in Ids : f # t => hstate'[h][f] = hstate[h][f]
  <2>1. UNCHANGED countVars
    BY <1>2
  <2> QED BY <2>1, <1>1, <1>2, <1>4, HandOverStep
<1>6. \A f \in Ids : f # t =>
        /\ Unsent(f)' <=> Unsent(f)
        /\ is_completed(f)' <=> is_completed(f)
        /\ EndedEverywhere(f)' <=> EndedEverywhere(f)
        /\ CompletedEverywhere(f)' <=> CompletedEverywhere(f)
  BY <1>0, <1>2, <1>5 DEF Unsent, is_completed, EndedEverywhere, CompletedEverywhere, task_end_op_id
<1>7. t \in created
  BY <1>1, <1>2 DEF TableInv, Fresh
<1>8. Fresh'
  BY <1>1, <1>2, <1>6, <1>7 DEF TableInv, Fresh, planVars
<1>9. Mapped' /\ OwnPlans'
  BY <1>1, <1>2 DEF TableInv, Mapped, OwnPlans, TableTypes
<1>10. SettledCarryNone'
  <2>1. ~is_completed(t)'
    BY <1>1, <1>2 DEF is_completed
  <2> QED BY <2>1, <1>1, <1>2, <1>6 DEF TableInv, SettledCarryNone
<1>11. UnreadyTasks'
  BY <1>1, <1>2, <1>6 DEF TableInv, UnreadyTasks
<1>12. HeldPlans'
  BY <1>1, <1>2, <1>4, <1>6 DEF TableInv, HeldPlans, TableTypes, planVars
<1>13. EarlyEnds' /\ CompletedEnds' /\ Answers'
  BY <1>1, <1>2, <1>4, <1>6 DEF AnswerInv, EarlyEnds, CompletedEnds, Answers
<1>14. PublishedEverywhere'
  BY <1>0, <1>1, <1>2, <1>5 DEF AnswerInv, PublishedEverywhere, planVars
<1> QED BY <1>3, <1>5, <1>8, <1>9, <1>10, <1>11, <1>12, <1>13, <1>14
        DEF KVTaskInv, TableInv, AnswerInv

(* launch_tasks, as a batch: the batch takes over the plans of the matched ones. *)
LEMMA BatchStep ==
  ASSUME KVTaskInv, scope' = scope, NEW ts \in SUBSET Tasks, NEW b \in Batches, launch_batch(ts, b)
  PROVE  KVTaskInv'
<1>0. Handles' = Handles
  BY DEF Handles
<1>1. ChannelInv /\ TableInv /\ AnswerInv /\ TableTypes /\ b \in Ids /\ Tasks \subseteq Ids /\ b \notin Tasks
  BY KVTaskAssumption DEF KVTaskInv, TableInv, Ids
<1>2. PICK live \in SUBSET ts : live = {t \in ts : status[t] = "UNREADY"}
  OBVIOUS
<1>3. /\ b \notin created /\ created' = created \cup {b}
      /\ UNCHANGED <<task_end_op_finished, transfer_failed, request_returned, response>>
      /\ UNCHANGED countVars /\ UNCHANGED planVars
      /\ \A f \in Ids : f # b => task_type'[f] = task_type[f]
      /\ \A f \in Ids : status'[f] = IF f = b THEN "RUNNING"
                                     ELSE IF f \in ts THEN "none" ELSE status[f]
      /\ \A f \in Ids : callback'[f] = IF f = b THEN live ELSE callback[f]
      /\ \A f \in Ids : f # b => graph'[f] = graph[f]
      /\ graph'[b]
      /\ graph_to_task' = (graph_to_task \ ts) \cup {b}
      /\ hand_over(b) /\ early_graphs' = early_graphs
  BY <1>1, <1>2 DEF launch_batch, submit_batch, TableTypes, MappedAfterMerge
<1>4. TableTypes'
  <2>1. status' \in [Ids -> Statuses]
    BY <1>1 DEF launch_batch, TableTypes, Statuses
  <2>2. task_type' \in [Ids -> TaskTypes]
    <3>1. PICK t \in ts : TRUE
      BY DEF launch_batch, Mergeable
    <3>2. PICK c : c = CHOOSE x \in ts : TRUE
      OBVIOUS
    <3>3. c \in ts
      BY <3>1, <3>2
    <3> QED BY <3>2, <3>3, <1>1 DEF launch_batch, TableTypes
  <2>3. /\ scope' \in Scopes /\ created' \subseteq Ids /\ graph_to_task' \subseteq Ids
        /\ callback' \in [Ids -> SUBSET Tasks]
        /\ op_callback_dict' \in [Ids -> BOOLEAN] /\ graph' \in [Ids -> BOOLEAN]
    BY <1>1, <1>2, <1>3 DEF launch_batch, TableTypes
  <2> QED BY <2>1, <2>2, <2>3, <1>1, <1>3 DEF TableTypes, planVars
<1>5. /\ Unsent(b) /\ ~task_end_op_finished[b] /\ response[b] = "none"
      /\ b \notin graph_to_task /\ callback[b] = {}
  BY <1>1, <1>3 DEF TableInv, Fresh
<1>6. \A t \in live : t \in graph_to_task /\ callback[t] = {t} /\ Unsent(t) /\ t \in created /\ t \in Ids
  BY <1>1, <1>2 DEF TableInv, UnreadyTasks, OwnPlans
<1>7. /\ ChannelInv' /\ hdone' = hdone
      /\ \A h \in Handles, f \in Ids : f # b => hstate'[h][f] = hstate[h][f]
  BY <1>1, <1>3, <1>5, HandOverStep
<1>8. /\ \A f \in Ids : f # b =>
           /\ Unsent(f)' <=> Unsent(f)
           /\ EndedEverywhere(f)' <=> EndedEverywhere(f)
           /\ CompletedEverywhere(f)' <=> CompletedEverywhere(f)
      /\ \A f \in Ids : is_completed(f)' => f # b /\ is_completed(f)
  BY <1>0, <1>3, <1>7 DEF Unsent, is_completed, EndedEverywhere, CompletedEverywhere, task_end_op_id
<1>9. Fresh'
  BY <1>1, <1>2, <1>3, <1>8, ZenonT(30) DEF TableInv, Fresh, planVars
<1>10. Mapped'
  BY <1>1, <1>3 DEF TableInv, Mapped, TableTypes
<1>11. UnreadyTasks'
  BY <1>1, <1>2, <1>3, <1>8 DEF TableInv, UnreadyTasks
<1>12. SettledCarryNone' /\ OwnPlans'
  BY <1>1, <1>3, <1>6, <1>8 DEF TableInv, SettledCarryNone, OwnPlans
<1>13. HeldPlans'
  <2> SUFFICES ASSUME NEW u \in graph_to_task', NEW p \in callback'[u]
               PROVE  /\ plan'[p] = "held"
                      /\ \A v \in Ids : v # u /\ p \in callback'[v] =>
                           v \notin graph_to_task' /\ Unsent(v)'
    BY DEF HeldPlans
  <2>1. u \in Ids /\ p \in Tasks /\ plan' = plan
    BY <1>3, <1>4 DEF TableTypes, planVars
  <2>2. CASE u = b
    <3>1. p \in live /\ p \in graph_to_task /\ p \in callback[p] /\ p \in Ids /\ Unsent(p) /\ p \in ts
      BY <2>1, <2>2, <1>2, <1>3, <1>6
    <3>2. /\ plan[p] = "held"
          /\ \A v \in Ids : v # p /\ p \in callback[v] => v \notin graph_to_task /\ Unsent(v)
      BY <3>1, <1>1 DEF TableInv, HeldPlans
    <3> QED BY <2>1, <2>2, <3>1, <3>2, <1>3, <1>8
  <2>3. CASE u # b
    <3>1. u \in graph_to_task /\ u \notin ts /\ p \in callback[u]
      BY <2>1, <2>3, <1>3
    <3>2. /\ plan[p] = "held"
          /\ \A v \in Ids : v # u /\ p \in callback[v] => v \notin graph_to_task /\ Unsent(v)
      BY <3>1, <1>1 DEF TableInv, HeldPlans
    <3>3. p \notin live
      BY <3>1, <3>2, <1>2, <1>6
    <3> QED BY <2>1, <2>3, <3>1, <3>2, <3>3, <1>3, <1>8
  <2> QED BY <2>2, <2>3
<1>14. EarlyEnds' /\ CompletedEnds' /\ Answers'
  BY <1>1, <1>3, <1>5, <1>8 DEF AnswerInv, EarlyEnds, CompletedEnds, Answers
<1>15. PublishedEverywhere'
  BY <1>0, <1>1, <1>3, <1>7 DEF AnswerInv, PublishedEverywhere, planVars
<1> QED BY <1>4, <1>7, <1>9, <1>10, <1>11, <1>12, <1>13, <1>14, <1>15
        DEF KVTaskInv, TableInv, AnswerInv

(* The same call when it raises. *)
LEMMA BatchRaisesStep ==
  ASSUME KVTaskInv, scope' = scope, NEW ts \in SUBSET Tasks, NEW b \in Batches,
         launch_batch_raises(ts, b)
  PROVE  KVTaskInv'
<1>0. Handles' = Handles
  BY DEF Handles
<1>1. ChannelInv /\ TableInv /\ AnswerInv /\ TableTypes /\ b \in Ids
  BY DEF KVTaskInv, TableInv, Ids
<1>2. /\ created' = created \cup {b} /\ b \notin created
      /\ UNCHANGED <<task_type, task_end_op_finished, transfer_failed, request_returned, callback,
                     op_callback_dict, graph, graph_to_task, plan, opDone, response>>
      /\ UNCHANGED <<countVars, handleVars>>
      /\ \A f \in Ids : status'[f] = status[f] \/ (status[f] = "UNREADY" /\ status'[f] = "RUNNING")
  BY DEF launch_batch_raises, planVars
<1>3. TableTypes'
  <2>1. status' \in [Ids -> Statuses]
    BY <1>1 DEF launch_batch_raises, TableTypes, Statuses
  <2> QED BY <2>1, <1>1, <1>2 DEF TableTypes
<1>4. ChannelInv' /\ hdone' = hdone /\ hstate' = hstate
  BY <1>2, StayStep
<1>5. \A f \in Ids : /\ Unsent(f)' <=> Unsent(f)
                     /\ is_completed(f)' <=> is_completed(f)
                     /\ EndedEverywhere(f)' <=> EndedEverywhere(f)
                     /\ CompletedEverywhere(f)' <=> CompletedEverywhere(f)
  BY <1>0, <1>2, <1>4 DEF Unsent, is_completed, EndedEverywhere, CompletedEverywhere, task_end_op_id
<1>6. Fresh'
  BY <1>1, <1>2, <1>5 DEF TableInv, Fresh
<1>7. Mapped' /\ SettledCarryNone' /\ OwnPlans'
  BY <1>1, <1>2, <1>5 DEF TableInv, Mapped, SettledCarryNone, OwnPlans, TableTypes
<1>8. UnreadyTasks'
  BY <1>1, <1>2, <1>5 DEF TableInv, UnreadyTasks
<1>9. HeldPlans'
  BY <1>1, <1>2, <1>5 DEF TableInv, HeldPlans, TableTypes
<1>10. EarlyEnds' /\ CompletedEnds' /\ Answers'
  BY <1>1, <1>2, <1>5 DEF TableInv, UnreadyTasks, AnswerInv, EarlyEnds, CompletedEnds, Answers
<1>11. PublishedEverywhere'
  BY <1>0, <1>1, <1>2, <1>4 DEF AnswerInv, PublishedEverywhere
<1> QED BY <1>3, <1>4, <1>6, <1>7, <1>8, <1>9, <1>10, <1>11 DEF KVTaskInv, TableInv, AnswerInv

(* _cancel_task. *)
LEMMA CancelStep ==
  ASSUME KVTaskInv, scope' = scope, NEW t \in Ids, cancel_task(t)
  PROVE  KVTaskInv'
<1>0. Handles' = Handles
  BY DEF Handles
<1>1. ChannelInv /\ TableInv /\ AnswerInv /\ TableTypes
  BY DEF KVTaskInv, TableInv
<1>2. /\ UNCHANGED <<created, task_type, task_end_op_finished, transfer_failed, request_returned,
                     callback, op_callback_dict, graph, opDone, response>>
      /\ UNCHANGED <<countVars, handleVars>>
      /\ status[t] # "none"
      /\ \A f \in Ids : status'[f] = IF f = t THEN "none" ELSE status[f]
      /\ graph_to_task' = graph_to_task \ {t}
      /\ \A p \in Tasks : plan'[p] = IF p \in RolledBack(t) THEN "aborted" ELSE plan[p]
      /\ RolledBack(t) # {} => status[t] = "UNREADY" /\ RolledBack(t) = callback[t]
  <2>1. graph_to_task' = graph_to_task \ {t}
    BY <1>1 DEF cancel_task, release_task, TableInv, Mapped
  <2>2. RolledBack(t) # {} => status[t] = "UNREADY" /\ RolledBack(t) = callback[t]
    BY DEF RolledBack
  <2> QED BY <2>1, <2>2, <1>1 DEF cancel_task, release_task, TableTypes, InTable
<1>3. TableTypes'
  <2>1. status' \in [Ids -> Statuses]
    BY <1>1 DEF cancel_task, release_task, TableTypes, Statuses
  <2>2. plan' \in [Tasks -> {"none", "held", "completed", "aborted", "dropped"}]
    BY <1>1 DEF cancel_task, TableTypes
  <2> QED BY <2>1, <2>2, <1>1, <1>2 DEF TableTypes
<1>4. ChannelInv' /\ hdone' = hdone /\ hstate' = hstate
  BY <1>2, StayStep
<1>5. \A f \in Ids : /\ Unsent(f)' <=> Unsent(f)
                     /\ is_completed(f)' => f # t /\ is_completed(f)
                     /\ EndedEverywhere(f)' <=> EndedEverywhere(f)
                     /\ CompletedEverywhere(f)' <=> CompletedEverywhere(f)
  BY <1>0, <1>2, <1>4 DEF Unsent, is_completed, EndedEverywhere, CompletedEverywhere, task_end_op_id
<1>6. \A p \in RolledBack(t) : t \in graph_to_task /\ p \in callback[t] /\ p \in created
  BY <1>1, <1>2 DEF TableInv, UnreadyTasks, OwnPlans
<1>7. Fresh'
  BY <1>1, <1>2, <1>5, <1>6 DEF TableInv, Fresh
<1>8. Mapped' /\ SettledCarryNone' /\ OwnPlans'
  BY <1>1, <1>2, <1>5 DEF TableInv, Mapped, SettledCarryNone, OwnPlans, TableTypes
<1>9. UnreadyTasks'
  BY <1>1, <1>2, <1>5 DEF TableInv, UnreadyTasks
<1>10. HeldPlans'
  <2> SUFFICES ASSUME NEW u \in graph_to_task, u # t, NEW p \in callback[u]
               PROVE  /\ plan'[p] = "held"
                      /\ \A v \in Ids : v # u /\ p \in callback[v] =>
                           v \notin graph_to_task' /\ Unsent(v)'
    BY <1>2 DEF HeldPlans
  <2>1. u \in Ids /\ p \in Tasks
    BY <1>1 DEF TableTypes
  <2>2. /\ plan[p] = "held"
        /\ \A v \in Ids : v # u /\ p \in callback[v] => v \notin graph_to_task /\ Unsent(v)
    BY <1>1 DEF TableInv, HeldPlans
  <2>3. p \notin RolledBack(t)
    BY <2>2, <1>6
  <2> QED BY <2>1, <2>2, <2>3, <1>2, <1>5
<1>11. EarlyEnds' /\ CompletedEnds' /\ Answers'
  BY <1>1, <1>2, <1>5 DEF AnswerInv, EarlyEnds, CompletedEnds, Answers
<1>12. PublishedEverywhere'
  BY <1>0, <1>1, <1>2, <1>4 DEF AnswerInv, PublishedEverywhere
<1> QED BY <1>3, <1>4, <1>7, <1>8, <1>9, <1>10, <1>11, <1>12 DEF KVTaskInv, TableInv, AnswerInv

(* wait and try_wait. *)
LEMMA WaitStep ==
  ASSUME KVTaskInv, scope' = scope, NEW t \in Ids, NEW completely \in BOOLEAN, wait(t, completely)
  PROVE  KVTaskInv'
<1>0. Handles' = Handles
  BY DEF Handles
<1>1. ChannelInv /\ TableInv /\ AnswerInv /\ TableTypes
  BY DEF KVTaskInv, TableInv
<1>2. /\ UNCHANGED <<created, task_type, task_end_op_finished, transfer_failed, callback,
                     op_callback_dict, graph, plan, opDone>>
      /\ UNCHANGED <<countVars, handleVars>>
      /\ status[t] \notin {"none", "UNREADY"}
      /\ \A f \in Ids : f # t => status'[f] = status[f] /\ response'[f] = response[f]
      /\ response'[t] = IF status[t] \in {"COMPLETED", "RUNNING"} THEN "SUCCESS" ELSE status[t]
      /\ status'[t] = IF is_completed(t) THEN "none" ELSE status[t]
      /\ graph_to_task' = IF is_completed(t) THEN graph_to_task \ {t} ELSE graph_to_task
  <2>1. graph_to_task' = IF is_completed(t) THEN graph_to_task \ {t} ELSE graph_to_task
    BY <1>1 DEF wait, release_task, TableInv, Mapped
  <2>2. /\ \A f \in Ids : f # t => status'[f] = status[f]
        /\ status'[t] = IF is_completed(t) THEN "none" ELSE status[t]
    BY <1>1 DEF wait, release_task, TableTypes
  <2>3. /\ \A f \in Ids : f # t => response'[f] = response[f]
        /\ response'[t] = IF status[t] \in {"COMPLETED", "RUNNING"} THEN "SUCCESS" ELSE status[t]
    BY <1>1 DEF wait, TableTypes
  <2> QED BY <2>1, <2>2, <2>3 DEF wait, InTable, planVars
<1>3. TableTypes'
  <2>1. status' \in [Ids -> Statuses]
    BY <1>1 DEF wait, release_task, TableTypes, Statuses
  <2>2. response' \in [Ids -> {"none", "SUCCESS", "COMPLETED", "CANCELLED", "FAILED"}]
    <3>1. response'[t] \in {"none", "SUCCESS", "COMPLETED", "CANCELLED", "FAILED"}
      BY <1>1, <1>2 DEF TableTypes, Statuses
    <3>2. PICK r : response' = [response EXCEPT ![t] = r]
      BY DEF wait
    <3> QED BY <3>1, <3>2, <1>1 DEF TableTypes
  <2>3. request_returned' \in [Ids -> BOOLEAN]
    BY <1>1 DEF wait, TableTypes
  <2> QED BY <2>1, <2>2, <2>3, <1>1, <1>2 DEF TableTypes
<1>4. ChannelInv' /\ hdone' = hdone /\ hstate' = hstate
  BY <1>2, StayStep
<1>5. /\ \A f \in Ids : /\ Unsent(f)' <=> Unsent(f)
                        /\ EndedEverywhere(f)' <=> EndedEverywhere(f)
                        /\ CompletedEverywhere(f)' <=> CompletedEverywhere(f)
      /\ \A f \in Ids : is_completed(f)' => is_completed(f)
  BY <1>0, <1>2, <1>4 DEF Unsent, is_completed, EndedEverywhere, CompletedEverywhere, task_end_op_id
<1>6. t \in created
  BY <1>1, <1>2 DEF TableInv, Fresh
<1>7. Fresh'
  BY <1>1, <1>2, <1>5, <1>6 DEF TableInv, Fresh
<1>8. Mapped' /\ SettledCarryNone' /\ OwnPlans'
  BY <1>1, <1>2, <1>5 DEF TableInv, Mapped, SettledCarryNone, OwnPlans, TableTypes
<1>9. UnreadyTasks'
  BY <1>1, <1>2, <1>5 DEF TableInv, UnreadyTasks
<1>10. HeldPlans'
  BY <1>1, <1>2, <1>5 DEF TableInv, HeldPlans, TableTypes
<1>11. EarlyEnds' /\ CompletedEnds'
  BY <1>1, <1>2, <1>5 DEF AnswerInv, EarlyEnds, CompletedEnds
<1>12. Answers'
  <2>1. status[t] = "RUNNING" => task_type[t] # "PREFETCH" /\ task_end_op_finished[t]
    BY DEF wait, check_completed, is_completed
  <2>2. response'[t] = "SUCCESS" => status[t] \in {"COMPLETED", "RUNNING"}
    BY <1>1, <1>2 DEF TableTypes, Statuses
  <2> QED BY <2>1, <2>2, <1>1, <1>2, <1>5 DEF AnswerInv, Answers, EarlyEnds, CompletedEnds
<1>13. PublishedEverywhere'
  BY <1>0, <1>1, <1>2, <1>4 DEF AnswerInv, PublishedEverywhere
<1> QED BY <1>3, <1>4, <1>7, <1>8, <1>9, <1>10, <1>11, <1>12, <1>13 DEF KVTaskInv, TableInv, AnswerInv

(* reset_cache. *)
LEMMA ResetStep ==
  ASSUME KVTaskInv, scope' = scope, reset_cache
  PROVE  KVTaskInv'
<1>0. Handles' = Handles
  BY DEF Handles
<1>1. ChannelInv /\ TableInv /\ AnswerInv /\ TableTypes
  BY DEF KVTaskInv, TableInv
<1>2. /\ UNCHANGED <<created, task_type, task_end_op_finished, transfer_failed, request_returned,
                     graph, graph_to_task, opDone, response>>
      /\ UNCHANGED <<countVars, handleVars>>
      /\ \A f \in Ids :
           IF status[f] # "none" /\ ~is_completed(f)
             THEN status'[f] = "CANCELLED" /\ callback'[f] = {}
             ELSE status'[f] = status[f] /\ callback'[f] = callback[f]
      /\ \A p \in Tasks : plan[p] = "none" => plan'[p] = "none"
  BY DEF reset_cache, CallbacksAfterReset, InTable
<1>3. TableTypes'
  <2>1. status' \in [Ids -> Statuses]
    BY <1>1 DEF reset_cache, TableTypes, Statuses
  <2>2. plan' \in [Tasks -> {"none", "held", "completed", "aborted", "dropped"}]
    BY <1>1 DEF reset_cache, TableTypes
  <2>3. callback' \in [Ids -> SUBSET Tasks] /\ op_callback_dict' \in [Ids -> BOOLEAN]
    BY <1>1 DEF reset_cache, CallbacksAfterReset, TableTypes
  <2> QED BY <2>1, <2>2, <2>3, <1>1, <1>2 DEF TableTypes
<1>4. ChannelInv' /\ hdone' = hdone /\ hstate' = hstate
  BY <1>2, StayStep
<1>5. \A f \in Ids : /\ Unsent(f)' <=> Unsent(f)
                     /\ EndedEverywhere(f)' <=> EndedEverywhere(f)
                     /\ CompletedEverywhere(f)' <=> CompletedEverywhere(f)
  BY <1>0, <1>2, <1>4 DEF Unsent, EndedEverywhere, CompletedEverywhere, task_end_op_id
<1>6. \A f \in Ids : /\ status[f] # "none" => callback'[f] = {}
                     /\ status[f] = "none" <=> status'[f] = "none"
                     /\ status'[f] \notin {"UNREADY", "RUNNING"}
                     /\ status'[f] = "COMPLETED" => status[f] = "COMPLETED"
                     /\ callback'[f] \subseteq callback[f]
  BY <1>1, <1>2 DEF TableInv, SettledCarryNone, is_completed, TableTypes, Statuses
<1>7. Fresh'
  BY <1>1, <1>2, <1>5 DEF TableInv, Fresh
<1>8. Mapped' /\ OwnPlans'
  BY <1>1, <1>2, <1>6 DEF TableInv, Mapped, OwnPlans, TableTypes, Ids
<1>9. SettledCarryNone' /\ UnreadyTasks'
  BY <1>6 DEF SettledCarryNone, UnreadyTasks, is_completed
<1>10. HeldPlans'
  BY <1>1, <1>2, <1>6 DEF TableInv, HeldPlans, Mapped, TableTypes
<1>11. EarlyEnds' /\ CompletedEnds' /\ Answers'
  BY <1>1, <1>2, <1>5, <1>6 DEF AnswerInv, EarlyEnds, CompletedEnds, Answers
<1>12. PublishedEverywhere'
  BY <1>0, <1>1, <1>2, <1>4 DEF AnswerInv, PublishedEverywhere
<1> QED BY <1>3, <1>4, <1>7, <1>8, <1>9, <1>10, <1>11, <1>12 DEF KVTaskInv, TableInv, AnswerInv
-----------------------------------------------------------------------------
LEMMA InitKVTaskInv ==
  ASSUME Init
  PROVE  KVTaskInv
<1>1. /\ Handles \subseteq AllHandles /\ Handles # {} /\ IsFiniteSet(Handles)
      /\ Planned \in Nat \ {0} /\ scope \in Scopes
  BY ScopeFacts DEF Init
<1>2. TableTypes
  BY <1>1 DEF Init, TableTypes, Statuses, TaskTypes
<1>3. /\ \A h \in Handles, g \in Ids : /\ hstate[h][g] = "new" /\ hdone[h][g] = {}
                                       /\ queue[h] = <<>>
      /\ \A t \in Ids : /\ status[t] = "none" /\ callback[t] = {} /\ ~task_end_op_finished[t]
                        /\ response[t] = "none"
      /\ \A p \in Tasks : plan[p] = "none" /\ opDone[p] = {}
      /\ graph_to_task = {}
  BY <1>1 DEF Init
<1>4. Fresh
  BY <1>3 DEF Fresh, Unsent
<1>5. Mapped /\ UnreadyTasks /\ SettledCarryNone /\ HeldPlans
  BY <1>3 DEF Mapped, UnreadyTasks, SettledCarryNone, HeldPlans
<1>6. OwnPlans
  BY <1>3 DEF OwnPlans, Ids
<1>7. ChannelTypes
  BY DEF Init, ChannelTypes
<1>8. \A h \in Handles : queue[h] = <<>> /\ Len(queue[h]) = 0
  BY <1>1 DEF Init
<1>9. Channels
  <2>1. QueuesOrdered /\ QueuesTrue /\ EndsLast
    BY <1>8 DEF QueuesOrdered, QueuesTrue, EndsLast, Ordered, Has
  <2>2. OpsBelong
    BY <1>3 DEF OpsBelong
  <2> QED BY <2>1, <2>2 DEF Channels
<1>10. \A g \in Ids : Counted(g) = {} /\ \A o \in GraphOps : OpCounted(g, o) = {}
  BY <1>3 DEF Counted, OpCounted, Terminals
<1>11. CopiesOf({}) = 0
  BY FS_EmptySet DEF CopiesOf
<1>12. Counts
  <2>1. uncompleted_ops \in [Ids -> [GraphOps -> [count : Nat, len : 0 .. Planned]]]
    BY <1>1 DEF Init
  <2>2. uncompleted_graphs \in [Ids -> [count : Nat, failed : BOOLEAN]]
    BY DEF Init
  <2>3. \A g \in Ids : /\ uncompleted_graphs[g].count = 0 /\ ~uncompleted_graphs[g].failed
                       /\ \A o \in GraphOps : uncompleted_ops[g][o].count = 0
    BY DEF Init
  <2> QED BY <2>1, <2>2, <2>3, <1>10, <1>11 DEF Counts
<1>13. AnswerInv
  BY <1>3 DEF AnswerInv, EarlyEnds, CompletedEnds, Answers, PublishedEverywhere
<1> QED BY <1>2, <1>4, <1>5, <1>6, <1>7, <1>9, <1>12, <1>13 DEF KVTaskInv, TableInv, ChannelInv

(* Every step, one lemma per kind of step. *)
LEMMA NextKVTaskInv ==
  ASSUME KVTaskInv, [Next]_<<scope, vars>>
  PROVE  KVTaskInv'
<1>1. CASE UNCHANGED <<scope, vars>>
  <2>1. /\ scope' = scope /\ hstate' = hstate /\ hdone' = hdone
        /\ UNCHANGED <<taskVars, planVars, response>> /\ UNCHANGED <<countVars, handleVars>>
    BY <1>1 DEF vars, handleVars
  <2>2. task_type' = task_type
    BY <2>1 DEF taskVars
  <2>3. ChannelInv'
    BY <2>1, <2>2, StayStep
  <2>4. TableInv' /\ AnswerInv'
    BY <2>1, TableFrame
  <2> QED BY <2>3, <2>4 DEF KVTaskInv
<1>2. CASE Next
  <2>0. scope' = scope
    BY <1>2 DEF Next
  <2>1. CASE Create
    BY <2>0, <2>1, CreateStep, EmptyStep DEF Create
  <2>2. CASE Launch
    BY <2>0, <2>2, LaunchStep, BatchStep, BatchRaisesStep DEF Launch
  <2>3. CASE Cancel
    BY <2>0, <2>3, CancelStep DEF Cancel
  <2>4. CASE Transfer
    BY <2>0, <2>4, TransferStep
  <2>5. CASE update_tasks
    BY <2>0, <2>5, QuietMessageStep, FinishOpStep, EndStep DEF update_tasks
  <2>6. CASE Wait
    BY <2>0, <2>6, WaitStep DEF Wait
  <2>7. CASE reset_cache
    BY <2>0, <2>7, ResetStep
  <2> QED BY <1>2, <2>1, <2>2, <2>3, <2>4, <2>5, <2>6, <2>7 DEF Next
<1> QED BY <1>1, <1>2

(* The inductive invariant of the task table and its counters holds in every
   state, for every scope. *)
THEOREM KVTaskCorrect == Spec => []KVTaskInv
<1>1. Init => KVTaskInv
  BY InitKVTaskInv
<1>2. KVTaskInv /\ [Next]_<<scope, vars>> => KVTaskInv'
  BY NextKVTaskInv
<1> QED BY <1>1, <1>2, PTL DEF Spec

(* Types, and no counter ever reaches the number of handles: the copy that would
   make it so deletes the entry. *)
THEOREM KVTaskTypesAlways == Spec => []TypeOK
<1>1. KVTaskInv => TypeOK
  <2> SUFFICES ASSUME KVTaskInv PROVE TypeOK
    OBVIOUS
  <2>1. scope \in Scopes /\ TableTypes /\ Counts
    BY DEF KVTaskInv, TableInv, TableTypes, ChannelInv
  <2>2. IsFiniteSet(Handles) /\ Handles # {} /\ required_completed_count \in Nat
    BY <2>1, ScopeFacts
  <2>3. \A g \in Ids : uncompleted_graphs[g].count \in 0 .. required_completed_count - 1
    <3> TAKE g \in Ids
    <3>1. Counted(g) \in SUBSET Handles
      BY DEF Counted
    <3>2. CopiesOf(Counted(g)) \in 0 .. required_completed_count - 1
      BY <2>2, <3>1, CopiesBelow
    <3> QED BY <2>1, <3>2 DEF Counts
  <2>4. 0 \in 0 .. required_completed_count - 1
    <3>1. Cardinality(Handles) # 0
      BY <2>2, FS_EmptySet
    <3> QED BY <2>2, <3>1 DEF required_completed_count
  <2>5. \A g \in Ids, o \in GraphOps :
          uncompleted_ops[g][o].count \in 0 .. required_completed_count - 1
    <3> TAKE g \in Ids, o \in GraphOps
    <3>1. OpCounted(g, o) \in SUBSET Handles
      BY DEF OpCounted
    <3>2. CopiesOf(OpCounted(g, o)) \in 0 .. required_completed_count - 1
      BY <2>2, <3>1, CopiesBelow
    <3> QED BY <2>1, <2>4, <3>2 DEF Counts
  <2>6. uncompleted_graphs \in [Ids -> [count : 0 .. required_completed_count - 1, failed : BOOLEAN]]
    BY <2>1, <2>3 DEF Counts
  <2>7. uncompleted_ops \in
          [Ids -> [GraphOps -> [count : 0 .. required_completed_count - 1, len : 0 .. Planned]]]
    BY <2>1, <2>5 DEF Counts
  <2> QED BY <2>1, <2>6, <2>7 DEF TypeOK, TableTypes
<1> QED BY <1>1, KVTaskCorrect, PTL

(* No callback publishes a node before every handle has done its op, whatever the
   order in which the handles report and whichever graph carried the plan. *)
THEOREM PublishedEverywhereAlways == Spec => []PublishedEverywhere
<1>1. KVTaskInv => PublishedEverywhere
  BY DEF KVTaskInv, AnswerInv
<1> QED BY <1>1, KVTaskCorrect, PTL

(* A caller is told "success" only of a transfer that every handle has done. *)
THEOREM SuccessIsEarnedAlways == Spec => []SuccessIsEarned
<1>1. KVTaskInv => SuccessIsEarned
  <2> SUFFICES ASSUME KVTaskInv, NEW t \in Ids, NEW h \in Handles,
                      response[t] = "SUCCESS", hstate[h][t] # "new"
               PROVE  /\ task_end_op_id(t) \in hdone[h][t]
                      /\ task_type[t] = "PREFETCH" => hstate[h][t] = "completed"
    BY DEF SuccessIsEarned
  <2>1. CASE CompletedEverywhere(t)
    <3>1. hstate[h][t] = "completed" /\ hdone[h][t] = GraphOps
      BY <2>1 DEF CompletedEverywhere, KVTaskInv, ChannelInv, Channels, OpsBelong
    <3> QED BY <3>1 DEF task_end_op_id, GraphOps
  <2>2. CASE EndedEverywhere(t) /\ task_type[t] # "PREFETCH"
    BY <2>2 DEF EndedEverywhere
  <2> QED BY <2>1, <2>2 DEF KVTaskInv, AnswerInv, Answers, Unsent
<1> QED BY <1>1, KVTaskCorrect, PTL

(* Aggregation leaves no counter behind that could complete. *)
THEOREM CountersDrainedAlways == Spec => []CountersDrained
<1>1. KVTaskInv => CountersDrained
  <2> SUFFICES ASSUME KVTaskInv, NEW g \in Ids, Over(g)
               PROVE  /\ uncompleted_graphs[g].count = 0
                      /\ \A o \in GraphOps :
                           (\/ \E h \in Handles : hstate[h][g] = "failed"
                            \/ \A h \in Handles : Reported(h, g, o)) =>
                              uncompleted_ops[g][o].count = 0
    BY DEF CountersDrained
  <2>1. Counts /\ Channels
    BY DEF KVTaskInv, ChannelInv
  <2>2. \A h \in Handles : hstate[h][g] \in Terminals /\ \A o : ~Has(queue[h], g, o)
    BY DEF Over, Terminals, Has
  <2>3. Counted(g) = Handles
    BY <2>2 DEF Counted
  <2>4. uncompleted_graphs[g].count = 0
    BY <2>1, <2>3 DEF Counts, CopiesOf
  <2>5. ASSUME NEW o \in GraphOps, \E h \in Handles : hstate[h][g] = "failed"
        PROVE  uncompleted_ops[g][o].count = 0
    BY <2>1, <2>3, <2>5 DEF Counts, Purged
  <2>6. ASSUME NEW o \in GraphOps, \A h \in Handles : Reported(h, g, o),
               ~ \E h \in Handles : hstate[h][g] = "failed"
        PROVE  uncompleted_ops[g][o].count = 0
    <3>1. \A h \in Handles : o \in hdone[h][g]
      BY <2>1, <2>2, <2>6 DEF Terminals, Channels, OpsBelong
    <3>2. OpCounted(g, o) = Handles
      BY <2>2, <2>6, <3>1 DEF OpCounted
    <3> QED BY <2>1, <3>2 DEF Counts, CopiesOf
  <2> QED BY <2>4, <2>5, <2>6
<1> QED BY <1>1, KVTaskCorrect, PTL
-----------------------------------------------------------------------------
(* Which plans a step settles, and which op callbacks it runs. *)
Settles(t) ==
  /\ t \in graph_to_task
  /\ \A h \in Handles : hstate[h][t] # "open"

LEMMA PlanStep ==
  ASSUME KVTaskInv, [Next]_<<scope, vars>>, NEW p \in Tasks
  PROVE  /\ opDone'[p] # opDone[p] => \E t \in graph_to_task : p \in callback[t]
         /\ plan'[p] # plan[p] =>
              \/ plan[p] = "none"
              \/ plan[p] = "held" /\ plan'[p] = "dropped"
              \/ \E t \in Ids : Settles(t) /\ p \in callback[t]
<1>1. TableInv /\ ChannelInv /\ TableTypes /\ scope \in Scopes
  BY DEF KVTaskInv, TableInv, TableTypes
<1>2. CASE UNCHANGED planVars
  BY <1>2 DEF planVars
<1>3. ASSUME NEW t \in Tasks, NEW k \in TaskTypes, match(t, k) \/ async(t, k) \/ match_empty(t, k)
      PROVE  opDone' = opDone /\ (plan'[p] # plan[p] => plan[p] = "none")
  <2>1. opDone' = opDone /\ t \notin created
    BY <1>3 DEF match, async, match_empty, create_task
  <2>2. plan'[p] # plan[p] => p = t
    BY <1>1, <1>3 DEF match, async, match_empty, create_task, TableTypes
  <2> QED BY <2>1, <2>2, <1>1 DEF TableInv, Fresh, Ids
<1>4. ASSUME NEW t \in Ids, cancel_task(t)
      PROVE  opDone' = opDone /\ (plan'[p] # plan[p] => Settles(t) /\ p \in callback[t])
  <2>1. opDone' = opDone
    BY <1>4 DEF cancel_task
  <2>2. plan'[p] # plan[p] => p \in callback[t] /\ status[t] = "UNREADY"
    BY <1>4 DEF cancel_task, RolledBack
  <2>3. status[t] = "UNREADY" => Settles(t)
    BY <1>1 DEF TableInv, UnreadyTasks, Unsent, Settles
  <2> QED BY <2>1, <2>2, <2>3
<1>5. ASSUME NEW h \in Handles, NEW raised \in BOOLEAN, FinishOp(h, raised)
      PROVE  plan' = plan /\ (opDone'[p] # opDone[p] => \E t \in graph_to_task : p \in callback[t])
  <2>1. PICK t : t = Msg(h).graph /\ t \in graph_to_task
    BY <1>5 DEF FinishOp
  <2>2. \/ opDone' = opDone
        \/ opDone' = [x \in Tasks |->
             IF x \in callback[t] /\ op_callback_dict[t] /\ ~raised
               THEN opDone[x] \cup {Msg(h).op} ELSE opDone[x]]
    BY <1>5, <2>1 DEF FinishOp
  <2>3. opDone'[p] # opDone[p] => p \in callback[t]
    BY <2>2
  <2> QED BY <1>5, <2>1, <2>3 DEF FinishOp
<1>6. ASSUME NEW h \in Handles, fail_task(h) \/ \E raised \in BOOLEAN : mark_completed(h, raised)
      PROVE  opDone' = opDone /\ (plan'[p] # plan[p] => \E t \in Ids : Settles(t) /\ p \in callback[t])
  <2>1. PICK t : t = Msg(h).graph
    OBVIOUS
  <2>2. /\ LastGraphCopy(h) /\ t \in graph_to_task
        /\ \E outcome, s : Terminate(t, outcome, s)
    BY <1>6, <2>1 DEF fail_task, mark_completed
  <2>3. t \in Ids /\ Settles(t)
    BY <1>1, <2>1, <2>2, LastGraphMeans DEF Settles, Terminals
  <2>4. opDone' = opDone /\ (plan'[p] # plan[p] => p \in callback[t])
    BY <2>2 DEF Terminate
  <2> QED BY <2>3, <2>4
<1>7. CASE reset_cache
  BY <1>7, <1>1 DEF reset_cache, TableTypes
<1>8. CASE Next
  <2>1. CASE Create
    BY <2>1, <1>3 DEF Create
  <2>2. CASE Launch
    BY <2>2, <1>2 DEF Launch, launch, launch_batch, launch_batch_raises
  <2>3. CASE Cancel
    BY <2>3, <1>4 DEF Cancel
  <2>4. CASE Transfer
    BY <2>4, <1>2 DEF Transfer, HandleOp, HandleEnd
  <2>5. CASE update_tasks
    <3>1. PICK h \in Handles :
            \/ CountMessage(h) \/ DropMessage(h) \/ IgnoreTerminal(h)
            \/ \E raised \in BOOLEAN : FinishOp(h, raised)
            \/ fail_task(h) \/ \E raised \in BOOLEAN : mark_completed(h, raised)
      BY <2>5 DEF update_tasks
    <3>2. CASE CountMessage(h) \/ DropMessage(h) \/ IgnoreTerminal(h)
      BY <3>2, <1>2 DEF CountMessage, DropMessage, IgnoreTerminal
    <3>3. CASE \E raised \in BOOLEAN : FinishOp(h, raised)
      BY <3>3, <1>5
    <3>4. CASE fail_task(h) \/ \E raised \in BOOLEAN : mark_completed(h, raised)
      BY <3>4, <1>6
    <3> QED BY <3>1, <3>2, <3>3, <3>4
  <2>6. CASE Wait
    BY <2>6, <1>2 DEF Wait, wait
  <2> QED BY <1>7, <1>8, <2>1, <2>2, <2>3, <2>4, <2>5, <2>6 DEF Next
<1>9. CASE UNCHANGED <<scope, vars>>
  BY <1>9, <1>2 DEF vars
<1> QED BY <1>8, <1>9

(* A plan is settled once, and no callback of it runs afterwards: not by a late
   message, a second carrier, a cancel in flight or a reset. *)
THEOREM SettledOnceAlways == Spec => SettledOnce
<1>1. KVTaskInv /\ [Next]_<<scope, vars>> =>
        [\A p \in Tasks : plan[p] \notin {"none", "held"} =>
           plan'[p] = plan[p] /\ opDone'[p] = opDone[p]]_vars
  <2> SUFFICES ASSUME KVTaskInv, [Next]_<<scope, vars>>, NEW p \in Tasks,
                      plan[p] \notin {"none", "held"}
               PROVE  plan'[p] = plan[p] /\ opDone'[p] = opDone[p]
    OBVIOUS
  <2>1. \A t \in graph_to_task : p \notin callback[t]
    BY DEF KVTaskInv, TableInv, HeldPlans
  <2> QED BY <2>1, PlanStep DEF Settles
<1> QED BY <1>1, KVTaskCorrect, PTL DEF Spec, SettledOnce

(* Blocks are never given back while a handle may still move data for a task that
   carries their plan. *)
THEOREM ReleasedWhenQuietAlways == Spec => ReleasedWhenQuiet
<1>1. KVTaskInv /\ [Next]_<<scope, vars>> =>
        [\A t \in Ids : \A p \in callback[t] :
           plan[p] = "held" /\ plan'[p] \in {"completed", "aborted"} => ~Moving(t)]_vars
  <2> SUFFICES ASSUME KVTaskInv, [Next]_<<scope, vars>>, NEW t \in Ids, NEW p \in callback[t],
                      plan[p] = "held", plan'[p] \in {"completed", "aborted"}
               PROVE  ~Moving(t)
    OBVIOUS
  <2>1. p \in Tasks
    BY DEF KVTaskInv, TableInv, TableTypes
  <2>2. PICK u \in Ids : Settles(u) /\ p \in callback[u]
    BY <2>1, PlanStep
  <2>3. CASE u = t
    BY <2>2, <2>3 DEF Settles, Moving
  <2>4. CASE u # t
    BY <2>2, <2>4 DEF Settles, Moving, KVTaskInv, TableInv, HeldPlans, Unsent
  <2> QED BY <2>3, <2>4
<1> QED BY <1>1, KVTaskCorrect, PTL DEF Spec, ReleasedWhenQuiet
=============================================================================
