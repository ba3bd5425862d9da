---------------------------- MODULE AdapterProofs ----------------------------
(***************************************************************************)
(* Proofs about the two step-driven adapters (Connectors), for any number  *)
(* of requests and tasks, with batches or without, and whether or not the  *)
(* scheduler output names the preempted requests.                          *)
(*                                                                         *)
(* The invariant relates three tables that no single handler sees: the     *)
(* connector's dictionaries, the manager's tasks and the framework's view  *)
(* of its requests.  The handlers are grouped by what they do to these:    *)
(* add a plan, move it to the tasks to launch, launch, forget, end a       *)
(* request.  Each group is one lemma; a handler is shown to be of its      *)
(* group.                                                                  *)
(***************************************************************************)
EXTENDS Connectors, FiniteSetTheorems, WellFoundedInduction, TLAPS

ConnState ==
  [req_id_to_task_dict : [Requests -> Ids \union {NoTask}],
   get_tasks : [Ids -> SUBSET Ids], put_tasks : [Ids -> SUBSET Ids],
   tasks_to_launch : SUBSET Ids, tasks_to_cancel : SUBSET Ids,
   failed_block_ids : SUBSET Requests]

MgrState ==
  [st : [Ids -> {"none", "matched", "running", "success", "failed", "closed"}],
   req : [Ids -> SUBSET Requests], kind : [Ids -> {"none", "get", "put"}],
   next : Nat \ {0}]

LoopTypes ==
  /\ fw \in [Requests -> {"waiting", "loading", "running", "gone"}]
  /\ held \in SUBSET Requests /\ matching \in SUBSET Requests
  /\ visited \in SUBSET Requests /\ dropped \in SUBSET Requests
  /\ kv \in [Requests -> {"none", "garbage"}]
  /\ step \in [preempted : SUBSET Requests, finished : SUBSET Requests, previous : SUBSET Requests]
  /\ conn \in ConnState /\ mgr \in MgrState
  /\ metadata \in [sending : SUBSET Requests, recving : SUBSET Requests, failed : SUBSET Requests]

(* A task the connector asks the manager for; one it will, or may launch. *)
Asked(c, t) == c.get_tasks[t] # {} \/ c.put_tasks[t] # {}
Submitted(c, t) == t \in c.tasks_to_launch \/ Asked(c, t)
Planned(c, t) == t \in c.tasks_to_launch \/ t \in c.tasks_to_cancel
KnownTask(c, t) == Planned(c, t) \/ Asked(c, t)

(* The plans the connector has and the manager's agree. *)
PlansKnown(c, m) ==
  /\ \A t \in Ids : m.st[t] = "matched" <=> Planned(c, t)
  /\ \A t \in Ids : t \in c.tasks_to_launch => t \notin c.tasks_to_cancel
  /\ \A t \in Ids : Planned(c, t) => t <= MaxTask /\ m.kind[t] \in {"get", "put"}

(* What it asks for was launched; what runs is asked for, or was dropped. *)
RunsAsked(c, m, d) ==
  \A t \in Ids : /\ Asked(c, t) => m.st[t] \in {"running", "success", "failed"}
                 /\ m.st[t] = "running" => Asked(c, t) \/ m.req[t] \subseteq d

(* Task ids are handed out in order; the id of a batch is as old as its first member. *)
IdsInOrder(m) ==
  \A t \in 1 .. MaxTask : /\ t >= m.next => m.st[t] = "none"
                          /\ m.st[MaxTask + t] # "none" => m.st[t] = "closed"

(* A request has one known task at most, and then an entry. *)
OneTask(c, m) ==
  \A t \in Ids : \A r \in m.req[t] : KnownTask(c, t) =>
    /\ c.req_id_to_task_dict[r] # NoTask
    /\ \A u \in Ids : KnownTask(c, u) /\ r \in m.req[u] => u = t

(* The requests of a submitted task wait for it; those of a put have ended. *)
BlocksKept(c, m, f, h) ==
  \A t \in Ids : \A r \in m.req[t] :
    /\ Submitted(c, t) => f[r] = "loading" \/ r \in h
    /\ c.put_tasks[t] # {} \/ (t \in c.tasks_to_launch /\ m.kind[t] # "get") => f[r] = "gone"

Tables(c, m, f, h, d) ==
  PlansKnown(c, m) /\ RunsAsked(c, m, d) /\ IdsInOrder(m) /\ OneTask(c, m) /\ BlocksKept(c, m, f, h)

(* Tracked, for given tables. *)
TrackedIn(c, m, r) == \E t \in Ids : r \in m.req[t] /\ Submitted(c, t)

(* Blocks are held for requests that have ended. *)
HeldGone == \A r \in held : fw[r] = "gone"
(* A request with an entry does not run, and waits only while it is looked at. *)
Entries(c, m, f, v, p) ==
  \A r \in Requests : c.req_id_to_task_dict[r] # NoTask =>
    /\ f[r] # "running"
    /\ f[r] = "waiting" => /\ p = "schedule" /\ r \in v
                           /\ c.req_id_to_task_dict[r] \in c.tasks_to_cancel
                           /\ r \in m.req[c.req_id_to_task_dict[r]]
(* A request that waits for blocks has a get of its own, which will be cancelled. *)
Matching ==
  \A r \in matching :
    /\ phase = "schedule" /\ fw[r] = "waiting"
    /\ conn.req_id_to_task_dict[r] \in conn.tasks_to_cancel
    /\ mgr.req[conn.req_id_to_task_dict[r]] = {r} /\ mgr.kind[conn.req_id_to_task_dict[r]] = "get"
(* Preempted requests have no task; what ran before runs, has ended or was preempted. *)
Preempted ==
  /\ \A r \in step.preempted :
       phase = "schedule" /\ fw[r] = "waiting" /\ conn.req_id_to_task_dict[r] = NoTask
  /\ \A r \in step.previous : r \in step.finished \/ fw[r] = "running" \/ r \in step.preempted
(* Reports on their way are about requests whose task is forgotten. *)
Reports ==
  /\ phase # "run" \/ adapter # "trtllm" => metadata = NoMeta
  /\ \A r \in Requests :
       /\ r \in metadata.recving \/ r \in metadata.sending =>
            conn.req_id_to_task_dict[r] = NoTask /\ fw[r] \in {"loading", "gone"}
       /\ r \in metadata.sending => fw[r] = "gone"
  /\ phase = "sync" => adapter = "vllm_sync"
(* Blocks of a failed get are put aside, until the load errors are read. *)
Flags ==
  adapter = "vllm" =>
    \A r \in Requests : kv[r] = "garbage" => r \in conn.failed_block_ids /\ phase = "errors"

(* WaitersAreTracked, over the tables. *)
WaitersHeard ==
  adapter # "vllm_sync" =>
    \A r \in Requests : r \notin dropped /\ (fw[r] = "loading" \/ r \in held) =>
      TrackedIn(conn, mgr, r) \/ r \in metadata.recving \/ r \in metadata.sending

ConnInv ==
  /\ LoopTypes /\ Tables(conn, mgr, fw, held, dropped)
  /\ HeldGone /\ Entries(conn, mgr, fw, visited, phase) /\ Matching /\ Preempted /\ Reports /\ Flags
  /\ WaitersHeard

-----------------------------------------------------------------------------
(* Task ids and batch ids are apart. *)
LEMMA TaskIds ==
  /\ Ids \subseteq Nat /\ NoTask \notin Ids
  /\ \A t \in 1 .. MaxTask : t \in Ids /\ MaxTask + t \in Ids /\ MaxTask + t > MaxTask
BY LoopAssumption DEF Ids, NoTask

(* The fields of the manager's record. *)
LEMMA MgrFields ==
  ASSUME NEW m \in MgrState
  PROVE  /\ m.st \in [Ids -> {"none", "matched", "running", "success", "failed", "closed"}]
         /\ m.req \in [Ids -> SUBSET Requests]
         /\ m.kind \in [Ids -> {"none", "get", "put"}] /\ m.next \in Nat \ {0}
BY DEF MgrState

(* The fields of the connector's record. *)
LEMMA ConnFields ==
  ASSUME NEW c \in ConnState
  PROVE  /\ c.req_id_to_task_dict \in [Requests -> Ids \union {NoTask}]
         /\ c.get_tasks \in [Ids -> SUBSET Ids] /\ c.put_tasks \in [Ids -> SUBSET Ids]
         /\ c.tasks_to_launch \in SUBSET Ids /\ c.tasks_to_cancel \in SUBSET Ids
         /\ c.failed_block_ids \in SUBSET Requests
BY DEF ConnState

(* A task the manager adds in state s. *)
NewTask(m, r, kind, s) ==
  [st |-> [m.st EXCEPT ![m.next] = s], req |-> [m.req EXCEPT ![m.next] = {r}],
   kind |-> [m.kind EXCEPT ![m.next] = kind], next |-> m.next + 1]

TaskIn(m, n, r, kind, s) ==
  /\ n \in MgrState /\ m.next \in Ids /\ m.next \in 1 .. MaxTask /\ n.next = m.next + 1
  /\ \A t \in Ids : t # m.next => n.st[t] = m.st[t] /\ n.req[t] = m.req[t] /\ n.kind[t] = m.kind[t]
  /\ n.st[m.next] = s /\ n.req[m.next] = {r} /\ n.kind[m.next] = kind

(* get_match and put_match touch the next id only. *)
LEMMA NewTaskEffect ==
  ASSUME NEW m \in MgrState, NEW r \in Requests, NEW kind \in {"get", "put"},
         NEW s \in {"matched", "success"}, m.next <= MaxTask
  PROVE  TaskIn(m, NewTask(m, r, kind, s), r, kind, s)
<1> DEFINE n == NewTask(m, r, kind, s)
<1>1. m.next \in 1 .. MaxTask /\ m.next \in Ids
  BY MgrFields, LoopAssumption DEF Ids
<1>2. /\ n.st = [m.st EXCEPT ![m.next] = s] /\ n.req = [m.req EXCEPT ![m.next] = {r}]
      /\ n.kind = [m.kind EXCEPT ![m.next] = kind] /\ n.next = m.next + 1
      /\ n = [st |-> n.st, req |-> n.req, kind |-> n.kind, next |-> n.next]
  BY DEF NewTask
<1> HIDE DEF n
<1>3. /\ n.st \in [Ids -> {"none", "matched", "running", "success", "failed", "closed"}]
      /\ n.req \in [Ids -> SUBSET Requests]
      /\ n.kind \in [Ids -> {"none", "get", "put"}] /\ n.next \in Nat \ {0}
  BY <1>1, <1>2, MgrFields
<1>4. n \in MgrState
  BY <1>2, <1>3 DEF MgrState
<1>5. /\ \A t \in Ids : t # m.next => n.st[t] = m.st[t] /\ n.req[t] = m.req[t] /\ n.kind[t] = m.kind[t]
      /\ n.st[m.next] = s /\ n.req[m.next] = {r} /\ n.kind[m.next] = kind
  BY <1>1, <1>2, MgrFields
<1>6. TaskIn(m, n, r, kind, s)
  BY <1>1, <1>2, <1>4, <1>5 DEF TaskIn
<1> QED BY <1>6 DEF n

(* cancel touches the tasks it is given only. *)
LEMMA CancelEffect ==
  ASSUME NEW m \in MgrState, NEW ts \in SUBSET Ids
  PROVE  LET n == CancelIds(m, ts) IN
         /\ n \in MgrState /\ n.next = m.next
         /\ \A t \in Ids : t \notin ts => n.st[t] = m.st[t] /\ n.req[t] = m.req[t] /\ n.kind[t] = m.kind[t]
         /\ \A t \in ts : n.st[t] = "closed" /\ n.req[t] = {} /\ n.kind[t] = "none"
<1> DEFINE n == CancelIds(m, ts)
<1>2. /\ n.st = [t \in Ids |-> IF t \in ts THEN "closed" ELSE m.st[t]]
      /\ n.req = [t \in Ids |-> IF t \in ts THEN {} ELSE m.req[t]]
      /\ n.kind = [t \in Ids |-> IF t \in ts THEN "none" ELSE m.kind[t]]
      /\ n.next = m.next
  BY MgrFields DEF CancelIds, MgrState
<1>3. n \in MgrState
  BY MgrFields DEF CancelIds, MgrState
<1> QED BY <1>2, <1>3, MgrFields

(* launch without a batch only sets the tasks running. *)
LEMMA LaunchEachEffect ==
  ASSUME NEW m \in MgrState, NEW ts \in SUBSET Ids
  PROVE  LET n == LaunchEach(m, ts) IN
         /\ n \in MgrState /\ n.next = m.next /\ n.req = m.req /\ n.kind = m.kind
         /\ \A t \in Ids : n.st[t] = (IF t \in ts THEN "running" ELSE m.st[t])
<1> DEFINE n == LaunchEach(m, ts)
<1>2. /\ n.st = [t \in Ids |-> IF t \in ts THEN "running" ELSE m.st[t]]
      /\ n.req = m.req /\ n.kind = m.kind /\ n.next = m.next
  BY MgrFields DEF LaunchEach, MgrState
<1>3. n \in MgrState
  BY MgrFields DEF LaunchEach, MgrState
<1> QED BY <1>2, <1>3, MgrFields

(* A batch has a first member. *)
LEMMA LeastOfTasks ==
  ASSUME NEW ts \in SUBSET (1 .. MaxTask), ts # {}
  PROVE  Min(ts) \in ts
<1>1. ts \subseteq Nat
  BY LoopAssumption
<1>2. \E x \in ts : \A y \in ts : ~ (<< y, x >> \in OpToRel(<, Nat))
  BY <1>1, WFMin, NatLessThanWellFounded
<1>3. \A x, y \in ts : y < x => << y, x >> \in OpToRel(<, Nat)
  <2> TAKE x, y \in ts
  <2> HAVE y < x
  <2> DEFINE q == << y, x >>
  <2>1. q \in Nat \X Nat /\ q[1] = y /\ q[2] = x
    BY <1>1
  <2>2. q[1] < q[2]
    BY <2>1
  <2> HIDE DEF q
  <2>3. q \in OpToRel(<, Nat)
    BY <2>1, <2>2, Zenon DEF OpToRel
  <2> QED BY <2>3 DEF q
<1>4. \E x \in ts : \A y \in ts : x =< y
  <2>1. \E x \in ts : \A y \in ts : ~ (y < x)
    BY <1>2, <1>3, Zenon
  <2>2. \A x, y \in ts : ~ (y < x) => x =< y
    BY <1>1
  <2> QED BY <2>1, <2>2, Zenon
<1> QED BY <1>4 DEF Min

(* launch as a batch closes the members; their requests go over to the batch. *)
LEMMA LaunchBatchEffect ==
  ASSUME NEW m \in MgrState, NEW ts \in SUBSET (1 .. MaxTask), ts # {}
  PROVE  LET n == LaunchBatch(m, ts)
             b == BatchId(ts) IN
         /\ n \in MgrState /\ n.next = m.next /\ b \in Ids /\ b \notin ts
         /\ \E t \in ts : b = MaxTask + t
         /\ \A t \in Ids : t \notin ts /\ t # b =>
               n.st[t] = m.st[t] /\ n.req[t] = m.req[t] /\ n.kind[t] = m.kind[t]
         /\ \A t \in ts : n.st[t] = "closed" /\ n.req[t] = {} /\ n.kind[t] = "none"
         /\ n.st[b] = "running" /\ n.req[b] = UNION { m.req[t] : t \in ts }
<1> DEFINE k == CancelIds(m, ts)
           b == BatchId(ts)
           n == LaunchBatch(m, ts)
<1>1. Min(ts) \in ts
  BY LeastOfTasks
<1>2. b = MaxTask + Min(ts) /\ b \in Ids /\ b \notin ts
  <2> PICK x \in ts : x = Min(ts)
    BY <1>1
  <2>1. b = MaxTask + x
    BY DEF BatchId
  <2> QED BY <2>1, LoopAssumption DEF Ids
<1>3. ts \in SUBSET Ids
  BY LoopAssumption DEF Ids
<1>4. k \in MgrState /\ k.next = m.next
  BY <1>3, CancelEffect
<1>5. UNION { m.req[t] : t \in ts } \in SUBSET Requests
  BY <1>3, MgrFields
<1> DEFINE all == UNION { m.req[t] : t \in ts }
<1>6. n = [k EXCEPT !.st[b] = "running", !.req[b] = all]
  BY DEF LaunchBatch
<1> HIDE DEF k, b, all
<1>7. /\ n.st = [k.st EXCEPT ![b] = "running"] /\ n.req = [k.req EXCEPT ![b] = all]
      /\ n.kind = k.kind /\ n.next = k.next
  BY <1>4, <1>6, <1>2, MgrFields DEF MgrState
<1>8. n \in MgrState
  <2>1. n = [st |-> n.st, req |-> n.req, kind |-> n.kind, next |-> n.next]
    BY <1>4, <1>6, <1>2, MgrFields DEF MgrState
  <2>2. /\ n.st \in [Ids -> {"none", "matched", "running", "success", "failed", "closed"}]
        /\ n.req \in [Ids -> SUBSET Requests]
        /\ n.kind \in [Ids -> {"none", "get", "put"}] /\ n.next \in Nat \ {0}
    BY <1>2, <1>4, <1>5, <1>7, MgrFields DEF all
  <2> HIDE DEF n
  <2> QED BY <2>1, <2>2 DEF MgrState
<1>9. /\ \A t \in Ids : t \notin ts => k.st[t] = m.st[t] /\ k.req[t] = m.req[t] /\ k.kind[t] = m.kind[t]
      /\ \A t \in ts : k.st[t] = "closed" /\ k.req[t] = {} /\ k.kind[t] = "none"
  BY <1>3, CancelEffect DEF k
<1>10. /\ \A t \in Ids : t # b => n.st[t] = k.st[t] /\ n.req[t] = k.req[t] /\ n.kind[t] = k.kind[t]
       /\ n.st[b] = "running" /\ n.req[b] = all
  BY <1>7, <1>4, <1>2, MgrFields
<1>11. \E t \in ts : b = MaxTask + t
  BY <1>1, <1>2
<1>12. /\ \A t \in Ids : t \notin ts /\ t # b =>
               n.st[t] = m.st[t] /\ n.req[t] = m.req[t] /\ n.kind[t] = m.kind[t]
       /\ \A t \in ts : n.st[t] = "closed" /\ n.req[t] = {} /\ n.kind[t] = "none"
  BY <1>2, <1>3, <1>9, <1>10
<1> HIDE DEF n
<1> QED BY <1>2, <1>4, <1>7, <1>8, <1>10, <1>11, <1>12 DEF n, b, all

-----------------------------------------------------------------------------
(* What a framework does to requests without an entry, or to a loading one it
   ends and holds, leaves the tables in order. *)
LEMMA FrameworkKeeps ==
  ASSUME NEW c \in ConnState, NEW m \in MgrState, NEW f, NEW h, NEW d, NEW f2, NEW h2,
         Tables(c, m, f, h, d),
         \A q \in Requests : c.req_id_to_task_dict[q] # NoTask =>
           /\ q \in h => q \in h2
           /\ f2[q] = f[q] \/ (f[q] = "loading" /\ f2[q] = "gone" /\ q \in h2)
  PROVE  Tables(c, m, f2, h2, d)
<1>1. BlocksKept(c, m, f2, h2)
  <2> SUFFICES ASSUME NEW t \in Ids, NEW r \in m.req[t], KnownTask(c, t)
               PROVE  /\ Submitted(c, t) => f2[r] = "loading" \/ r \in h2
                      /\ c.put_tasks[t] # {} \/ (t \in c.tasks_to_launch /\ m.kind[t] # "get") => f2[r] = "gone"
    BY DEF BlocksKept, KnownTask, Submitted, Planned, Asked
  <2>1. r \in Requests
    BY MgrFields
  <2>2. c.req_id_to_task_dict[r] # NoTask
    BY DEF Tables, OneTask
  <2>3. /\ Submitted(c, t) => f[r] = "loading" \/ r \in h
        /\ c.put_tasks[t] # {} \/ (t \in c.tasks_to_launch /\ m.kind[t] # "get") => f[r] = "gone"
    BY DEF Tables, BlocksKept
  <2> QED BY <2>1, <2>2, <2>3
<1> QED BY <1>1 DEF Tables

(* A plan for a request without an entry: it joins the tasks to cancel, or the
   tasks to launch if the framework holds the blocks of the ended request. *)
PlanAdded(c, c2, r, t, launch) ==
  /\ c2 \in ConnState
  /\ c2.req_id_to_task_dict[r] = t
  /\ \A q \in Requests : q # r => c2.req_id_to_task_dict[q] = c.req_id_to_task_dict[q]
  /\ c2.get_tasks = c.get_tasks /\ c2.put_tasks = c.put_tasks
  /\ c2.failed_block_ids = c.failed_block_ids
  /\ c2.tasks_to_launch = (IF launch THEN c.tasks_to_launch \union {t} ELSE c.tasks_to_launch)
  /\ c2.tasks_to_cancel = (IF launch THEN c.tasks_to_cancel ELSE c.tasks_to_cancel \union {t})

TaskAdded(m, n, r, kind, states) ==
  /\ n \in MgrState /\ n.next = m.next + 1 /\ m.next \in 1 .. MaxTask
  /\ \A t \in Ids : t # m.next => n.st[t] = m.st[t] /\ n.req[t] = m.req[t] /\ n.kind[t] = m.kind[t]
  /\ n.st[m.next] \in states
  /\ \A q \in n.req[m.next] : q = r
  /\ n.st[m.next] = "matched" => n.req[m.next] = {r} /\ n.kind[m.next] = kind

(* The next id, and the batch id that goes with it, are unused. *)
LEMMA NextIsFree ==
  ASSUME NEW c \in ConnState, NEW m \in MgrState, NEW f, NEW h, NEW d, Tables(c, m, f, h, d),
         m.next \in 1 .. MaxTask
  PROVE  /\ m.next \in Ids /\ ~ KnownTask(c, m.next) /\ m.st[m.next] = "none"
         /\ MaxTask + m.next \in Ids /\ m.st[MaxTask + m.next] = "none"
<1>1. m.next \in Ids /\ m.st[m.next] = "none" /\ MaxTask + m.next \in Ids /\ m.st[MaxTask + m.next] = "none"
  BY TaskIds, MgrFields DEF Tables, IdsInOrder
<1> QED BY <1>1 DEF Tables, PlansKnown, RunsAsked, KnownTask

(* A plan that is added keeps the tables in order and nobody loses a task. *)
LEMMA PlanKeeps ==
  ASSUME NEW c \in ConnState, NEW m \in MgrState, NEW f, NEW h, NEW d,
         NEW c2, NEW n, NEW r \in Requests, NEW kind \in {"get", "put"}, NEW launch \in BOOLEAN,
         Tables(c, m, f, h, d), c.req_id_to_task_dict[r] = NoTask,
         TaskAdded(m, n, r, kind, {"matched"}), PlanAdded(c, c2, r, m.next, launch),
         launch => f[r] = "gone" /\ r \in h
  PROVE  /\ Tables(c2, n, f, h, d)
         /\ \A q \in Requests : TrackedIn(c, m, q) => TrackedIn(c2, n, q)
         /\ launch => TrackedIn(c2, n, r)
<1> DEFINE x == m.next
<1>1. /\ x \in Ids /\ ~ KnownTask(c, x) /\ m.st[x] = "none" /\ x \in 1 .. MaxTask
      /\ MaxTask + x \in Ids /\ m.st[MaxTask + x] = "none"
  BY NextIsFree DEF TaskAdded
<1>2. /\ n.st[x] = "matched" /\ n.req[x] = {r} /\ n.kind[x] = kind
      /\ n \in MgrState /\ c2 \in ConnState /\ n.next = x + 1
      /\ \A t \in Ids : t # x => n.st[t] = m.st[t] /\ n.req[t] = m.req[t] /\ n.kind[t] = m.kind[t]
  BY DEF TaskAdded, PlanAdded
<1>3. /\ \A t \in Ids : t # x => /\ (Planned(c2, t) <=> Planned(c, t))
                                /\ (t \in c2.tasks_to_launch <=> t \in c.tasks_to_launch)
                                /\ (t \in c2.tasks_to_cancel <=> t \in c.tasks_to_cancel)
      /\ \A t \in Ids : /\ (Asked(c2, t) <=> Asked(c, t))
                        /\ (c2.put_tasks[t] # {} <=> c.put_tasks[t] # {})
      /\ Planned(c2, x) /\ ~ Asked(c2, x) /\ c2.put_tasks[x] = {}
      /\ (x \in c2.tasks_to_launch <=> launch) /\ (x \in c2.tasks_to_cancel <=> ~ launch)
  BY <1>1 DEF PlanAdded, Planned, Asked, KnownTask
<1>4. PlansKnown(c2, n)
  BY <1>1, <1>2, <1>3 DEF PlansKnown, Tables, Planned
<1>5. RunsAsked(c2, n, d)
  BY <1>1, <1>2, <1>3 DEF RunsAsked, Tables
<1>6. IdsInOrder(n)
  <2> SUFFICES ASSUME NEW t \in 1 .. MaxTask
               PROVE  /\ t >= n.next => n.st[t] = "none"
                      /\ n.st[MaxTask + t] # "none" => n.st[t] = "closed"
    BY DEF IdsInOrder
  <2>1. /\ t \in Ids /\ MaxTask + t \in Ids /\ MaxTask + t # x
        /\ t >= x => m.st[t] = "none"
        /\ m.st[MaxTask + t] # "none" => m.st[t] = "closed"
    BY <1>1, TaskIds, LoopAssumption DEF IdsInOrder, Tables
  <2>2. t >= n.next => t >= x /\ t # x
    BY <1>1, <1>2, LoopAssumption
  <2> QED BY <1>1, <1>2, <2>1, <2>2
<1>7. ASSUME NEW t \in Ids, KnownTask(c, t) PROVE r \notin m.req[t]
  BY <1>7 DEF Tables, OneTask
<1>8. OneTask(c2, n)
  <2> SUFFICES ASSUME NEW t \in Ids, NEW q \in n.req[t], KnownTask(c2, t)
               PROVE  /\ c2.req_id_to_task_dict[q] # NoTask
                      /\ \A u \in Ids : KnownTask(c2, u) /\ q \in n.req[u] => u = t
    BY DEF OneTask
  <2>1. CASE t = x
    <3>1. q = r /\ c2.req_id_to_task_dict[r] = x /\ x # NoTask
      BY <2>1, <1>1, <1>2, TaskIds DEF PlanAdded
    <3>2. ASSUME NEW u \in Ids, KnownTask(c2, u), q \in n.req[u], u # t PROVE FALSE
      BY <3>1, <3>2, <2>1, <1>2, <1>3, <1>7 DEF KnownTask
    <3> QED BY <3>1, <3>2
  <2>2. CASE t # x
    <3>1. KnownTask(c, t) /\ q \in m.req[t] /\ q # r /\ q \in Requests
      BY <2>2, <1>2, <1>3, <1>7, MgrFields DEF KnownTask
    <3>2. c2.req_id_to_task_dict[q] = c.req_id_to_task_dict[q]
      BY <3>1 DEF PlanAdded
    <3>3. ASSUME NEW u \in Ids, KnownTask(c2, u), q \in n.req[u] PROVE KnownTask(c, u) /\ q \in m.req[u]
      BY <3>1, <3>3, <1>2, <1>3 DEF KnownTask
    <3> QED BY <3>1, <3>2, <3>3 DEF Tables, OneTask
  <2> QED BY <2>1, <2>2
<1>9. BlocksKept(c2, n, f, h)
  <2> SUFFICES ASSUME NEW t \in Ids, NEW q \in n.req[t]
               PROVE  /\ Submitted(c2, t) => f[q] = "loading" \/ q \in h
                      /\ c2.put_tasks[t] # {} \/ (t \in c2.tasks_to_launch /\ n.kind[t] # "get") => f[q] = "gone"
    BY DEF BlocksKept
  <2>1. CASE t = x
    BY <2>1, <1>2, <1>3 DEF Submitted
  <2>2. CASE t # x
    BY <2>2, <1>2, <1>3 DEF Submitted, Tables, BlocksKept
  <2> QED BY <2>1, <2>2
<1>10. \A q \in Requests : TrackedIn(c, m, q) => TrackedIn(c2, n, q)
  <2> SUFFICES ASSUME NEW q \in Requests, NEW t \in Ids, q \in m.req[t], Submitted(c, t)
               PROVE  TrackedIn(c2, n, q)
    BY DEF TrackedIn
  <2>1. t # x
    BY <1>1 DEF Submitted, KnownTask, Planned
  <2>2. q \in n.req[t] /\ Submitted(c2, t)
    BY <2>1, <1>2, <1>3 DEF Submitted
  <2> QED BY <2>2 DEF TrackedIn
<1>11. launch => TrackedIn(c2, n, r)
  BY <1>1, <1>2, <1>3 DEF TrackedIn, Submitted
<1> QED BY <1>4, <1>5, <1>6, <1>8, <1>9, <1>10, <1>11 DEF Tables

(* A match that finds nothing leaves a task nobody knows, ended or closed. *)
LEMMA MissKeeps ==
  ASSUME NEW c \in ConnState, NEW m \in MgrState, NEW f, NEW h, NEW d, NEW n, NEW r, NEW kind,
         Tables(c, m, f, h, d), TaskAdded(m, n, r, kind, {"success", "closed"})
  PROVE  /\ Tables(c, n, f, h, d)
         /\ \A q \in Requests : TrackedIn(c, m, q) => TrackedIn(c, n, q)
<1> DEFINE x == m.next
<1>1. /\ x \in Ids /\ ~ KnownTask(c, x) /\ m.st[x] = "none" /\ x \in 1 .. MaxTask
      /\ MaxTask + x \in Ids /\ m.st[MaxTask + x] = "none"
  BY NextIsFree DEF TaskAdded
<1>2. /\ n.st[x] \in {"success", "closed"} /\ n \in MgrState /\ n.next = x + 1
      /\ \A t \in Ids : t # x => n.st[t] = m.st[t] /\ n.req[t] = m.req[t] /\ n.kind[t] = m.kind[t]
  BY DEF TaskAdded
<1>4. PlansKnown(c, n)
  BY <1>1, <1>2 DEF PlansKnown, Tables, Planned, KnownTask
<1>5. RunsAsked(c, n, d)
  BY <1>1, <1>2 DEF RunsAsked, Tables, KnownTask
<1>6. IdsInOrder(n)
  <2> SUFFICES ASSUME NEW t \in 1 .. MaxTask
               PROVE  /\ t >= n.next => n.st[t] = "none"
                      /\ n.st[MaxTask + t] # "none" => n.st[t] = "closed"
    BY DEF IdsInOrder
  <2>1. /\ t \in Ids /\ MaxTask + t \in Ids /\ MaxTask + t # x
        /\ t >= x => m.st[t] = "none"
        /\ m.st[MaxTask + t] # "none" => m.st[t] = "closed"
    BY <1>1, TaskIds, LoopAssumption DEF IdsInOrder, Tables
  <2>2. t >= n.next => t >= x /\ t # x
    BY <1>1, <1>2, LoopAssumption
  <2> QED BY <1>1, <1>2, <2>1, <2>2
<1>8. OneTask(c, n)
  <2> SUFFICES ASSUME NEW t \in Ids, NEW q \in n.req[t], KnownTask(c, t)
               PROVE  /\ c.req_id_to_task_dict[q] # NoTask
                      /\ \A u \in Ids : KnownTask(c, u) /\ q \in n.req[u] => u = t
    BY DEF OneTask
  <2>1. \A u \in Ids : KnownTask(c, u) => n.req[u] = m.req[u]
    BY <1>1, <1>2
  <2> QED BY <2>1 DEF Tables, OneTask
<1>9. BlocksKept(c, n, f, h)
  <2> SUFFICES ASSUME NEW t \in Ids, NEW q \in n.req[t], KnownTask(c, t)
               PROVE  /\ Submitted(c, t) => f[q] = "loading" \/ q \in h
                      /\ c.put_tasks[t] # {} \/ (t \in c.tasks_to_launch /\ n.kind[t] # "get") => f[q] = "gone"
    BY DEF BlocksKept, KnownTask, Submitted, Planned, Asked
  <2>1. n.req[t] = m.req[t] /\ n.kind[t] = m.kind[t]
    BY <1>1, <1>2
  <2> QED BY <2>1 DEF Tables, BlocksKept
<1>10. \A q \in Requests : TrackedIn(c, m, q) => TrackedIn(c, n, q)
  BY <1>1, <1>2 DEF TrackedIn, Submitted, KnownTask, Planned
<1> QED BY <1>4, <1>5, <1>6, <1>8, <1>9, <1>10 DEF Tables

-----------------------------------------------------------------------------
(* Known tasks are closed and forgotten: cancelled, or answered. *)
Forgets(c, m, c2, m2, ts) ==
  /\ c2 \in ConnState /\ m2 \in MgrState /\ m2.next = m.next
  /\ \A t \in Ids : t \notin ts =>
       /\ m2.st[t] = m.st[t] /\ m2.req[t] = m.req[t] /\ m2.kind[t] = m.kind[t]
       /\ c2.get_tasks[t] = c.get_tasks[t] /\ c2.put_tasks[t] = c.put_tasks[t]
       /\ (t \in c2.tasks_to_launch <=> t \in c.tasks_to_launch)
       /\ (t \in c2.tasks_to_cancel <=> t \in c.tasks_to_cancel)
  /\ \A t \in ts : m2.st[t] = "closed" /\ m2.req[t] = {} /\ ~ KnownTask(c2, t)
  /\ \A q \in Requests :
       c2.req_id_to_task_dict[q] =
         IF \E t \in ts : q \in m.req[t] THEN NoTask ELSE c.req_id_to_task_dict[q]

(* So does forgetting, except for the requests of what is forgotten. *)
LEMMA ForgetKeeps ==
  ASSUME NEW c \in ConnState, NEW m \in MgrState, NEW f, NEW h, NEW d, NEW c2, NEW m2,
         NEW ts \in SUBSET Ids, \A t \in ts : KnownTask(c, t),
         Tables(c, m, f, h, d), Forgets(c, m, c2, m2, ts)
  PROVE  /\ Tables(c2, m2, f, h, d)
         /\ \A q \in Requests : TrackedIn(c, m, q) =>
              TrackedIn(c2, m2, q) \/ \E t \in ts : q \in m.req[t] /\ Submitted(c, t)
<1>1. \A t \in Ids : t \notin ts =>
        /\ m2.st[t] = m.st[t] /\ m2.req[t] = m.req[t] /\ m2.kind[t] = m.kind[t]
        /\ (t \in c2.tasks_to_launch <=> t \in c.tasks_to_launch)
        /\ (t \in c2.tasks_to_cancel <=> t \in c.tasks_to_cancel)
        /\ (Planned(c2, t) <=> Planned(c, t)) /\ (Asked(c2, t) <=> Asked(c, t))
        /\ (c2.put_tasks[t] # {} <=> c.put_tasks[t] # {})
  BY DEF Forgets, Planned, Asked
<1>2. \A t \in ts :
        /\ m2.st[t] = "closed" /\ m2.req[t] = {} /\ ~ Planned(c2, t) /\ ~ Asked(c2, t)
        /\ m.st[t] # "none" /\ t \notin c2.tasks_to_launch /\ c2.put_tasks[t] = {}
  BY DEF Forgets, KnownTask, Planned, Asked, Tables, PlansKnown, RunsAsked
<1>3. m2.next = m.next
  BY DEF Forgets
<1>4. PlansKnown(c2, m2)
  BY <1>1, <1>2 DEF Tables, PlansKnown, Planned
<1>5. RunsAsked(c2, m2, d)
  BY <1>1, <1>2 DEF Tables, RunsAsked
<1>6. IdsInOrder(m2)
  <2> SUFFICES ASSUME NEW t \in 1 .. MaxTask
               PROVE  /\ t >= m2.next => m2.st[t] = "none"
                      /\ m2.st[MaxTask + t] # "none" => m2.st[t] = "closed"
    BY DEF IdsInOrder
  <2>1. /\ t \in Ids /\ MaxTask + t \in Ids
        /\ t >= m.next => m.st[t] = "none"
        /\ m.st[MaxTask + t] # "none" => m.st[t] = "closed"
    BY TaskIds DEF IdsInOrder, Tables
  <2> QED BY <1>1, <1>2, <1>3, <2>1
<1>7. \A t \in Ids : KnownTask(c2, t) => t \notin ts /\ KnownTask(c, t) /\ m2.req[t] = m.req[t]
  BY <1>1, <1>2 DEF KnownTask
<1>8. OneTask(c2, m2)
  <2> SUFFICES ASSUME NEW t \in Ids, NEW q \in m2.req[t], KnownTask(c2, t)
               PROVE  /\ c2.req_id_to_task_dict[q] # NoTask
                      /\ \A u \in Ids : KnownTask(c2, u) /\ q \in m2.req[u] => u = t
    BY DEF OneTask
  <2>1. t \notin ts /\ KnownTask(c, t) /\ q \in m.req[t] /\ q \in Requests
    BY <1>7, MgrFields
  <2>2. /\ c.req_id_to_task_dict[q] # NoTask
        /\ \A u \in Ids : KnownTask(c, u) /\ q \in m.req[u] => u = t
    BY <2>1 DEF Tables, OneTask
  <2>3. ~ \E u \in ts : q \in m.req[u]
    BY <2>1, <2>2
  <2>4. c2.req_id_to_task_dict[q] = c.req_id_to_task_dict[q]
    BY <2>1, <2>3 DEF Forgets
  <2> QED BY <1>7, <2>2, <2>4
<1>9. BlocksKept(c2, m2, f, h)
  <2> SUFFICES ASSUME NEW t \in Ids, NEW q \in m2.req[t]
               PROVE  /\ Submitted(c2, t) => f[q] = "loading" \/ q \in h
                      /\ c2.put_tasks[t] # {} \/ (t \in c2.tasks_to_launch /\ m2.kind[t] # "get") => f[q] = "gone"
    BY DEF BlocksKept
  <2>1. t \notin ts
    BY <1>2
  <2> QED BY <1>1, <2>1 DEF Submitted, Tables, BlocksKept
<1>10. ASSUME NEW q \in Requests, TrackedIn(c, m, q), ~ \E t \in ts : q \in m.req[t] /\ Submitted(c, t)
       PROVE  TrackedIn(c2, m2, q)
  <2> PICK t \in Ids : q \in m.req[t] /\ Submitted(c, t)
    BY <1>10 DEF TrackedIn
  <2>1. t \notin ts
    BY <1>10
  <2> QED BY <1>1, <2>1 DEF TrackedIn, Submitted
<1> QED BY <1>4, <1>5, <1>6, <1>8, <1>9, <1>10 DEF Tables

-----------------------------------------------------------------------------
(* The tasks to launch go out, each under its own id or under that of a batch:
   T[t] are those that go out as t. *)
Carries(m, n, T, ts) ==
  /\ T \in [Ids -> SUBSET ts]
  /\ \A u \in ts : \E t \in Ids : u \in T[t]
  /\ \A t, v \in Ids : \A u \in T[t] : u \in T[v] => t = v
  /\ \A t \in Ids : T[t] # {} =>
       /\ n.st[t] = "running"
       /\ \A q \in Requests : q \in n.req[t] <=> \E u \in T[t] : q \in m.req[u]
       /\ t \in ts \/ \E u \in ts : t = MaxTask + u /\ n.st[u] = "closed"
  /\ \A t \in Ids : T[t] = {} =>
       IF t \in ts THEN n.st[t] = "closed" /\ n.req[t] = {}
       ELSE n.st[t] = m.st[t] /\ n.req[t] = m.req[t] /\ n.kind[t] = m.kind[t]
  /\ n \in MgrState /\ n.next = m.next

(* Launched each under its own id, a task carries itself. *)
LEMMA EachLaunches ==
  ASSUME NEW m \in MgrState, NEW ts \in SUBSET Ids
  PROVE  Carries(m, LaunchEach(m, ts), [t \in Ids |-> IF t \in ts THEN {t} ELSE {}], ts)
<1> DEFINE n == LaunchEach(m, ts)
           T == [t \in Ids |-> IF t \in ts THEN {t} ELSE {}]
<1>1. \A t \in Ids : m.req[t] \subseteq Requests
  BY MgrFields
<1>2. /\ n \in MgrState /\ n.next = m.next /\ n.req = m.req /\ n.kind = m.kind
      /\ \A t \in Ids : n.st[t] = (IF t \in ts THEN "running" ELSE m.st[t])
  BY LaunchEachEffect
<1> HIDE DEF n
<1>3. T \in [Ids -> SUBSET ts] /\ \A t \in Ids : T[t] = (IF t \in ts THEN {t} ELSE {})
  OBVIOUS
<1> HIDE DEF T
<1>4. Carries(m, n, T, ts)
  BY <1>1, <1>2, <1>3 DEF Carries
<1> QED BY <1>4 DEF n, T

(* launch_tasks for one kind: as a batch, or each. *)
LEMMA KindLaunches ==
  ASSUME NEW m \in MgrState, NEW ts \in SUBSET (1 .. MaxTask)
  PROVE  Carries(m, LaunchedKind(m, ts).m, LaunchedKind(m, ts).table, ts)
<1>0. ts \in SUBSET Ids /\ \A t \in Ids : m.req[t] \subseteq Requests
  BY LoopAssumption, MgrFields DEF Ids
<1>1. CASE Batching /\ Cardinality(ts) > 1
  <2> DEFINE n == LaunchBatch(m, ts)
             b == BatchId(ts)
             T == [t \in Ids |-> IF t = b THEN ts ELSE {}]
  <2>1. LaunchedKind(m, ts).m = n /\ LaunchedKind(m, ts).table = T
    BY <1>1 DEF LaunchedKind
  <2>2. ts # {}
    BY <1>1, FS_EmptySet
  <2>3. /\ n \in MgrState /\ n.next = m.next /\ b \in Ids /\ b \notin ts
        /\ \E t \in ts : b = MaxTask + t
        /\ \A t \in Ids : t \notin ts /\ t # b =>
              n.st[t] = m.st[t] /\ n.req[t] = m.req[t] /\ n.kind[t] = m.kind[t]
        /\ \A t \in ts : n.st[t] = "closed" /\ n.req[t] = {} /\ n.kind[t] = "none"
        /\ n.st[b] = "running" /\ n.req[b] = UNION { m.req[t] : t \in ts }
    BY <2>2, LaunchBatchEffect
  <2> HIDE DEF n, b
  <2>4. T \in [Ids -> SUBSET ts] /\ T[b] = ts /\ \A t \in Ids : t # b => T[t] = {}
    BY <2>3
  <2>5. \A q \in Requests : q \in n.req[b] <=> \E u \in ts : q \in m.req[u]
    BY <2>3
  <2> HIDE DEF T
  <2>6. Carries(m, n, T, ts)
    BY <2>2, <2>3, <2>4, <2>5 DEF Carries
  <2> QED BY <2>1, <2>6
<1>2. CASE ~ (Batching /\ Cardinality(ts) > 1)
  <2>1. /\ LaunchedKind(m, ts).m = LaunchEach(m, ts)
        /\ LaunchedKind(m, ts).table = [t \in Ids |-> IF t \in ts THEN {t} ELSE {}]
    BY <1>2 DEF LaunchedKind
  <2> QED BY <1>0, <2>1, EachLaunches
<1> QED BY <1>1, <1>2

(* The gets go out first, then the puts. *)
LEMMA BothKindsLaunch ==
  ASSUME NEW m \in MgrState, NEW A \in SUBSET (1 .. MaxTask), NEW B \in SUBSET (1 .. MaxTask),
         \A t \in A : t \notin B, NEW k, NEW n, NEW S, NEW T,
         Carries(m, k, S, A), Carries(k, n, T, B)
  PROVE  Carries(m, n, [t \in Ids |-> S[t] \union T[t]], A \union B)
<1> DEFINE U == [t \in Ids |-> S[t] \union T[t]]
<1>0. A \subseteq Ids /\ B \subseteq Ids /\ \A t, v \in 1 .. MaxTask : t # MaxTask + v
  BY LoopAssumption DEF Ids
<1>1. /\ \A t \in Ids : S[t] \subseteq A /\ T[t] \subseteq B
      /\ \A t \in Ids : S[t] # {} => t \in A \/ \E u \in A : t = MaxTask + u
      /\ \A t \in Ids : T[t] # {} => t \in B \/ \E u \in B : t = MaxTask + u
  BY DEF Carries
<1>2. \A t \in Ids : S[t] # {} => T[t] = {} /\ t \notin B
  BY <1>0, <1>1, LoopAssumption
<1>3. \A t \in Ids : T[t] # {} => S[t] = {} /\ t \notin A
  BY <1>0, <1>1, LoopAssumption
<1>4. \A u \in B : k.st[u] = m.st[u] /\ k.req[u] = m.req[u]
  BY <1>0, <1>2 DEF Carries
<1>5. \A u \in A : T[u] = {} /\ n.st[u] = k.st[u] /\ n.req[u] = k.req[u]
  BY <1>0, <1>3 DEF Carries
<1>6. \A t \in Ids : /\ S[t] # {} => U[t] = S[t] /\ n.st[t] = k.st[t] /\ n.req[t] = k.req[t]
                     /\ T[t] # {} => U[t] = T[t]
                     /\ S[t] = {} /\ T[t] = {} => U[t] = {}
  <2>1. \A t \in Ids : U[t] = S[t] \union T[t]
    OBVIOUS
  <2> HIDE DEF U
  <2>2. \A t \in Ids : T[t] = {} /\ t \notin B => n.st[t] = k.st[t] /\ n.req[t] = k.req[t]
    BY DEF Carries
  <2> QED BY <1>2, <1>3, <2>1, <2>2
<1>7. U \in [Ids -> SUBSET (A \union B)]
  BY <1>1
<1>8. \A u \in A \union B : \E t \in Ids : u \in U[t]
  BY DEF Carries
<1> HIDE DEF U
<1>9. \A t, v \in Ids : \A u \in U[t] : u \in U[v] => t = v
  <2> SUFFICES ASSUME NEW t \in Ids, NEW v \in Ids, NEW u \in U[t], u \in U[v] PROVE t = v
    OBVIOUS
  <2>1. (u \in S[t] \/ u \in T[t]) /\ (u \in S[v] \/ u \in T[v])
    BY <1>6
  <2>2. (u \in S[t] /\ u \in S[v]) \/ (u \in T[t] /\ u \in T[v])
    BY <2>1, <1>1
  <2>3. CASE u \in S[t] /\ u \in S[v]
    BY <2>3 DEF Carries
  <2>4. CASE u \in T[t] /\ u \in T[v]
    BY <2>4 DEF Carries
  <2> QED BY <2>2, <2>3, <2>4
<1>10. ASSUME NEW t \in Ids, U[t] # {}
       PROVE  /\ n.st[t] = "running"
              /\ \A q \in Requests : q \in n.req[t] <=> \E u \in U[t] : q \in m.req[u]
              /\ t \in A \union B \/ \E u \in A \union B : t = MaxTask + u /\ n.st[u] = "closed"
  <2>1. CASE S[t] # {}
    <3>1. /\ k.st[t] = "running"
          /\ \A q \in Requests : q \in k.req[t] <=> \E u \in S[t] : q \in m.req[u]
          /\ t \in A \/ \E u \in A : t = MaxTask + u /\ k.st[u] = "closed"
      BY <2>1 DEF Carries
    <3> QED BY <3>1, <2>1, <1>5, <1>6
  <2>2. CASE T[t] # {}
    <3>1. /\ n.st[t] = "running"
          /\ \A q \in Requests : q \in n.req[t] <=> \E u \in T[t] : q \in k.req[u]
          /\ t \in B \/ \E u \in B : t = MaxTask + u /\ n.st[u] = "closed"
      BY <2>2 DEF Carries
    <3> QED BY <3>1, <2>2, <1>1, <1>4, <1>6
  <2> QED BY <2>1, <2>2, <1>6, <1>10
<1>11. ASSUME NEW t \in Ids, U[t] = {}
       PROVE  IF t \in A \union B THEN n.st[t] = "closed" /\ n.req[t] = {}
              ELSE n.st[t] = m.st[t] /\ n.req[t] = m.req[t] /\ n.kind[t] = m.kind[t]
  <2>1. S[t] = {} /\ T[t] = {}
    BY <1>6, <1>11
  <2>2. /\ t \in A => k.st[t] = "closed" /\ k.req[t] = {}
        /\ t \notin A => k.st[t] = m.st[t] /\ k.req[t] = m.req[t] /\ k.kind[t] = m.kind[t]
        /\ t \in B => n.st[t] = "closed" /\ n.req[t] = {}
        /\ t \notin B => n.st[t] = k.st[t] /\ n.req[t] = k.req[t] /\ n.kind[t] = k.kind[t]
    BY <2>1 DEF Carries
  <2> QED BY <2>2
<1>12. n \in MgrState /\ n.next = m.next
  BY DEF Carries
<1>13. Carries(m, n, U, A \union B)
  BY <1>7, <1>8, <1>9, <1>10, <1>11, <1>12 DEF Carries
<1> QED BY <1>13 DEF U

Launches(c, m, c2, n, T) ==
  /\ Carries(m, n, T, c.tasks_to_launch)
  /\ c2 \in ConnState /\ c2.tasks_to_launch = {} /\ c2.tasks_to_cancel = c.tasks_to_cancel
  /\ c2.req_id_to_task_dict = c.req_id_to_task_dict
  /\ \A t \in Ids : /\ (Asked(c2, t) <=> (Asked(c, t) \/ T[t] # {}))
                    /\ c2.put_tasks[t] # {} =>
                         c.put_tasks[t] # {} \/ (T[t] # {} /\ \A u \in T[t] : m.kind[u] # "get")

(* Whoever had a task to launch now has one that runs. *)
LEMMA LaunchKeeps ==
  ASSUME NEW c \in ConnState, NEW m \in MgrState, NEW f, NEW h, NEW d, NEW c2, NEW n, NEW T,
         Tables(c, m, f, h, d), Launches(c, m, c2, n, T)
  PROVE  /\ Tables(c2, n, f, h, d)
         /\ \A q \in Requests : TrackedIn(c, m, q) => TrackedIn(c2, n, q)
<1> USE DEF Launches
<1> DEFINE L == c.tasks_to_launch
<1>0. /\ L \subseteq Ids /\ \A u \in L : u \in 1 .. MaxTask /\ m.st[u] = "matched"
      /\ \A t, v \in 1 .. MaxTask : t # MaxTask + v
  <2>1. L \subseteq Ids
    BY ConnFields
  <2>2. \A u \in L : u <= MaxTask /\ m.st[u] = "matched"
    BY <2>1 DEF Tables, PlansKnown, Planned
  <2> QED BY <2>1, <2>2, LoopAssumption DEF Ids
<1>1. /\ \A t \in Ids : T[t] \subseteq L
      /\ \A t \in Ids : T[t] # {} =>
           /\ n.st[t] = "running"
           /\ \A q \in Requests : q \in n.req[t] <=> \E u \in T[t] : q \in m.req[u]
           /\ t \in L \/ \E u \in L : t = MaxTask + u /\ n.st[u] = "closed"
      /\ \A t \in Ids : T[t] = {} /\ t \in L => n.st[t] = "closed" /\ n.req[t] = {}
      /\ \A t \in Ids : T[t] = {} /\ t \notin L =>
           n.st[t] = m.st[t] /\ n.req[t] = m.req[t] /\ n.kind[t] = m.kind[t]
      /\ n \in MgrState /\ n.next = m.next
      /\ \A u \in L : \E t \in Ids : u \in T[t]
      /\ \A t, v \in Ids : \A u \in T[t] : u \in T[v] => t = v
  BY DEF Carries
<1> HIDE DEF L
<1>2. \A t \in Ids : T[t] # {} /\ t <= MaxTask => t \in L
  BY <1>0, <1>1, LoopAssumption
<1>3. \A t \in Ids : T[t] # {} => t \in L \/ m.st[t] = "none"
  <2> SUFFICES ASSUME NEW t \in Ids, NEW u \in L, t = MaxTask + u PROVE m.st[t] = "none"
    BY <1>1
  <2>1. u \in 1 .. MaxTask /\ m.st[u] # "closed"
    BY <1>0
  <2> QED BY <2>1 DEF Tables, IdsInOrder
<1>4. \A t \in Ids : Asked(c, t) \/ t \in c.tasks_to_cancel => T[t] = {} /\ t \notin L
  BY <1>0, <1>3 DEF Tables, PlansKnown, RunsAsked, Planned, L
<1>5. \A t \in Ids : Planned(c2, t) <=> t \in c.tasks_to_cancel
  BY DEF Planned
<1>6. PlansKnown(c2, n)
  <2>1. \A t \in Ids : n.st[t] = "matched" => t \in c.tasks_to_cancel
    BY <1>1 DEF Tables, PlansKnown, Planned, L
  <2>2. \A t \in Ids : t \in c.tasks_to_cancel =>
          n.st[t] = "matched" /\ t <= MaxTask /\ n.kind[t] \in {"get", "put"}
    BY <1>1, <1>4 DEF Tables, PlansKnown, Planned
  <2> QED BY <1>5, <2>1, <2>2 DEF PlansKnown
<1>7. RunsAsked(c2, n, d)
  <2> SUFFICES ASSUME NEW t \in Ids
               PROVE  /\ Asked(c2, t) => n.st[t] \in {"running", "success", "failed"}
                      /\ n.st[t] = "running" => Asked(c2, t) \/ n.req[t] \subseteq d
    BY DEF RunsAsked
  <2>1. CASE T[t] # {}
    BY <2>1, <1>1
  <2>2. CASE T[t] = {} /\ t \in L
    BY <2>2, <1>1, <1>4
  <2>3. CASE T[t] = {} /\ t \notin L
    BY <2>3, <1>1 DEF Tables, RunsAsked
  <2> QED BY <2>1, <2>2, <2>3
<1>8. IdsInOrder(n)
  <2> SUFFICES ASSUME NEW t \in 1 .. MaxTask
               PROVE  /\ t >= n.next => n.st[t] = "none"
                      /\ n.st[MaxTask + t] # "none" => n.st[t] = "closed"
    BY DEF IdsInOrder
  <2>1. /\ t \in Ids /\ MaxTask + t \in Ids /\ t <= MaxTask /\ MaxTask + t \notin L
        /\ t >= m.next => m.st[t] = "none"
        /\ m.st[MaxTask + t] # "none" => m.st[t] = "closed"
    BY <1>0, TaskIds, LoopAssumption DEF IdsInOrder, Tables
  <2>2. t >= n.next => n.st[t] = "none"
    BY <1>0, <1>1, <1>2, <2>1
  <2>3. ASSUME T[MaxTask + t] # {} PROVE n.st[t] = "closed"
    <3> PICK u \in L : MaxTask + t = MaxTask + u /\ n.st[u] = "closed"
      BY <1>1, <2>1, <2>3
    <3>1. u = t
      BY <1>0, LoopAssumption
    <3> QED BY <3>1
  <2>4. ASSUME T[MaxTask + t] = {}, n.st[MaxTask + t] # "none" PROVE n.st[t] = "closed"
    <3>1. m.st[t] = "closed"
      BY <1>1, <2>1, <2>4
    <3>2. t \notin L /\ T[t] = {}
      BY <1>0, <1>2, <2>1, <3>1
    <3> QED BY <1>1, <2>1, <3>1, <3>2
  <2> QED BY <2>2, <2>3, <2>4
<1>9. \A t \in Ids : KnownTask(c2, t) => T[t] # {} \/ (T[t] = {} /\ t \notin L /\ KnownTask(c, t))
  BY <1>4, <1>5 DEF KnownTask, Planned
<1>10. \A u \in L : u \in Ids /\ KnownTask(c, u) /\ Submitted(c, u)
  BY <1>0 DEF KnownTask, Planned, Submitted, L
(* Every known task and request of after comes from one of before. *)
<1>11. ASSUME NEW t \in Ids, NEW q \in n.req[t], KnownTask(c2, t)
       PROVE  \E u \in Ids : /\ KnownTask(c, u) /\ q \in m.req[u]
                             /\ IF T[t] # {} THEN u \in T[t] ELSE u = t /\ u \notin L
  <2>1. q \in Requests
    BY <1>1, MgrFields
  <2>2. CASE T[t] # {}
    <3> PICK u \in T[t] : q \in m.req[u]
      BY <1>1, <2>1, <2>2
    <3> QED BY <1>1, <1>10, <2>2
  <2>3. CASE T[t] = {}
    BY <1>1, <1>9, <1>11, <2>3
  <2> QED BY <2>2, <2>3
<1>12. OneTask(c2, n)
  <2> SUFFICES ASSUME NEW t \in Ids, NEW q \in n.req[t], KnownTask(c2, t)
               PROVE  /\ c2.req_id_to_task_dict[q] # NoTask
                      /\ \A v \in Ids : KnownTask(c2, v) /\ q \in n.req[v] => v = t
    BY DEF OneTask
  <2> PICK u \in Ids : /\ KnownTask(c, u) /\ q \in m.req[u]
                       /\ IF T[t] # {} THEN u \in T[t] ELSE u = t /\ u \notin L
    BY <1>11
  <2>1. c2.req_id_to_task_dict[q] # NoTask
    BY DEF Tables, OneTask
  <2>2. ASSUME NEW v \in Ids, KnownTask(c2, v), q \in n.req[v] PROVE v = t
    <3> PICK w \in Ids : /\ KnownTask(c, w) /\ q \in m.req[w]
                         /\ IF T[v] # {} THEN w \in T[v] ELSE w = v /\ w \notin L
      BY <1>11, <2>2
    <3>1. w = u
      BY DEF Tables, OneTask
    <3> QED BY <3>1, <1>1
  <2> QED BY <2>1, <2>2
<1>13. BlocksKept(c2, n, f, h)
  <2> SUFFICES ASSUME NEW t \in Ids, NEW q \in n.req[t], Asked(c2, t)
               PROVE  /\ f[q] = "loading" \/ q \in h
                      /\ c2.put_tasks[t] # {} => f[q] = "gone"
    BY DEF BlocksKept, Submitted, Asked
  <2> PICK u \in Ids : /\ KnownTask(c, u) /\ q \in m.req[u]
                       /\ IF T[t] # {} THEN u \in T[t] ELSE u = t /\ u \notin L
    BY <1>11 DEF KnownTask
  <2>1. CASE T[t] # {}
    <3>1. u \in L /\ Submitted(c, u) /\ ~ Asked(c, t)
      BY <2>1, <1>1, <1>4, <1>10
    <3>2. c2.put_tasks[t] # {} => m.kind[u] # "get"
      BY <2>1, <3>1 DEF Asked
    <3> QED BY <3>1, <3>2 DEF Tables, BlocksKept, L
  <2>2. CASE T[t] = {}
    <3>1. u = t /\ Submitted(c, t)
      BY <2>2 DEF Submitted
    <3>2. c2.put_tasks[t] # {} => c.put_tasks[t] # {}
      BY <2>2
    <3> QED BY <3>1, <3>2 DEF Tables, BlocksKept
  <2> QED BY <2>1, <2>2
<1>14. ASSUME NEW q \in Requests, TrackedIn(c, m, q) PROVE TrackedIn(c2, n, q)
  <2> PICK t \in Ids : q \in m.req[t] /\ Submitted(c, t)
    BY <1>14 DEF TrackedIn
  <2>1. CASE t \in L
    <3> PICK v \in Ids : t \in T[v]
      BY <1>1, <2>1
    <3>1. q \in n.req[v] /\ Asked(c2, v)
      BY <1>1
    <3> QED BY <3>1 DEF TrackedIn, Submitted
  <2>2. CASE t \notin L
    <3>1. Asked(c, t) /\ T[t] = {}
      BY <2>2, <1>4 DEF Submitted, L
    <3>2. q \in n.req[t] /\ Asked(c2, t)
      BY <1>1, <2>2, <3>1
    <3> QED BY <3>2 DEF TrackedIn, Submitted
  <2> QED BY <2>1, <2>2
<1> QED BY <1>6, <1>7, <1>8, <1>12, <1>13, <1>14 DEF Tables

-----------------------------------------------------------------------------
(* The types that the proofs below use one by one. *)
LEMMA LoopFields ==
  ASSUME LoopTypes
  PROVE  /\ fw \in [Requests -> {"waiting", "loading", "running", "gone"}]
         /\ kv \in [Requests -> {"none", "garbage"}]
         /\ conn \in ConnState /\ mgr \in MgrState
         /\ step.preempted \subseteq Requests /\ step.finished \subseteq Requests
         /\ step.previous \subseteq Requests
         /\ metadata.recving \subseteq Requests /\ metadata.sending \subseteq Requests
         /\ metadata.failed \subseteq Requests
BY DEF LoopTypes

(* Nothing waits for what a request that was never seen in this step had. *)
LEMMA UnseenHasNoEntry ==
  ASSUME ConnInv, NEW r \in Requests, CanSchedule(r)
  PROVE  conn.req_id_to_task_dict[r] = NoTask
BY DEF ConnInv, Entries, CanSchedule

MatchHit(r) ==
  /\ CanSchedule(r)
  /\ TaskAdded(mgr, mgr', r, "get", {"matched"}) /\ PlanAdded(conn, conn', r, mgr.next, FALSE)
  /\ visited' = visited \union {r} /\ matching' = {r}
  /\ UNCHANGED << fw, phase, held, kv, step, adapter, dropped, metadata >>

(* A match with a hit: the plan is to be cancelled unless blocks are found. *)
LEMMA MatchHitKeeps ==
  ASSUME ConnInv, NEW r \in Requests, MatchHit(r) PROVE ConnInv'
<1> USE DEF MatchHit
<1>1. LoopTypes /\ conn.req_id_to_task_dict[r] = NoTask /\ conn \in ConnState /\ mgr \in MgrState
  BY UnseenHasNoEntry DEF ConnInv, LoopTypes
<1>2. Tables(conn, mgr, fw, held, dropped)
  BY DEF ConnInv
<1>3. /\ Tables(conn', mgr', fw', held', dropped')
      /\ \A q \in Requests : TrackedIn(conn, mgr, q) => TrackedIn(conn', mgr', q)
  BY <1>1, <1>2, PlanKeeps
<1>4. LoopTypes'
  BY <1>1 DEF LoopTypes, TaskAdded, PlanAdded
<1>5. /\ conn'.req_id_to_task_dict[r] = mgr.next /\ mgr.next \in conn'.tasks_to_cancel
      /\ mgr'.req[mgr.next] = {r} /\ mgr'.kind[mgr.next] = "get"
      /\ \A q \in Requests : q # r => conn'.req_id_to_task_dict[q] = conn.req_id_to_task_dict[q]
      /\ \A t \in Ids : t # mgr.next => mgr'.req[t] = mgr.req[t]
      /\ conn.tasks_to_cancel \subseteq conn'.tasks_to_cancel /\ mgr.next \notin conn.tasks_to_cancel
      /\ conn'.failed_block_ids = conn.failed_block_ids
  <2>1. ~ KnownTask(conn, mgr.next)
    BY <1>1, <1>2, NextIsFree DEF TaskAdded
  <2> QED BY <2>1 DEF TaskAdded, PlanAdded, KnownTask, Planned
<1>6. Entries(conn', mgr', fw', visited', phase')
  <2> SUFFICES ASSUME NEW q \in Requests, conn'.req_id_to_task_dict[q] # NoTask
               PROVE  /\ fw[q] # "running"
                      /\ fw[q] = "waiting" => /\ phase = "schedule" /\ q \in visited'
                                              /\ conn'.req_id_to_task_dict[q] \in conn'.tasks_to_cancel
                                              /\ q \in mgr'.req[conn'.req_id_to_task_dict[q]]
    BY DEF Entries
  <2>1. CASE q = r
    BY <2>1, <1>5 DEF CanSchedule
  <2>2. CASE q # r
    <3>1. /\ fw[q] # "running"
          /\ fw[q] = "waiting" => /\ phase = "schedule" /\ q \in visited
                                  /\ conn.req_id_to_task_dict[q] \in conn.tasks_to_cancel
                                  /\ q \in mgr.req[conn.req_id_to_task_dict[q]]
      BY <2>2, <1>5 DEF ConnInv, Entries
    <3>2. conn.tasks_to_cancel \subseteq Ids
      BY <1>1, ConnFields
    <3> QED BY <2>2, <3>1, <3>2, <1>5
  <2> QED BY <2>1, <2>2
<1>7. Matching'
  BY <1>5 DEF Matching, CanSchedule
<1>8. Preempted'
  BY <1>1, LoopFields, <1>5 DEF Preempted, CanSchedule, ConnInv
<1>9. Reports'
  BY <1>5 DEF Reports, ConnInv, CanSchedule
<1>10. Flags'
  BY <1>5 DEF Flags, ConnInv
<1>11. WaitersHeard'
  BY <1>3 DEF WaitersHeard, ConnInv
<1>12. HeldGone'
  BY DEF HeldGone, ConnInv
<1> QED BY <1>3, <1>4, <1>6, <1>7, <1>8, <1>9, <1>10, <1>11, <1>12 DEF ConnInv

MatchMiss(r) ==
  /\ CanSchedule(r)
  /\ mgr' = mgr \/ TaskAdded(mgr, mgr', r, "get", {"success", "closed"})
  /\ fw' = fw \/ fw' = [fw EXCEPT ![r] = "running"]
  /\ visited' = visited \union {r} /\ matching' = matching
  /\ UNCHANGED << conn, phase, held, kv, step, adapter, dropped, metadata >>

(* A match without a hit, or none: the connector remembers nothing. *)
LEMMA MatchMissKeeps ==
  ASSUME ConnInv, NEW r \in Requests, MatchMiss(r) PROVE ConnInv'
<1> USE DEF MatchMiss
<1>1. LoopTypes /\ conn.req_id_to_task_dict[r] = NoTask /\ conn \in ConnState /\ mgr \in MgrState
  BY UnseenHasNoEntry DEF ConnInv, LoopTypes
<1>2. Tables(conn, mgr, fw, held, dropped)
  BY DEF ConnInv
<1>3. LoopTypes'
  BY <1>1 DEF LoopTypes, TaskAdded
<1>4. /\ \A q \in Requests : q # r => fw'[q] = fw[q]
      /\ fw'[r] \in {"waiting", "running"} /\ fw[r] = "waiting"
  BY <1>1, LoopFields DEF CanSchedule
<1>5. /\ Tables(conn, mgr', fw, held, dropped)
      /\ \A q \in Requests : TrackedIn(conn, mgr, q) => TrackedIn(conn, mgr', q)
  BY <1>1, <1>2, MissKeeps
<1>6. mgr' \in MgrState
  BY <1>3 DEF LoopTypes
<1>7. Tables(conn', mgr', fw', held', dropped')
  BY <1>1, <1>4, <1>5, <1>6, FrameworkKeeps
<1>8. \A t \in Ids : t \in conn.tasks_to_cancel => mgr'.req[t] = mgr.req[t]
  <2>1. CASE mgr' = mgr
    BY <2>1
  <2>2. CASE TaskAdded(mgr, mgr', r, "get", {"success", "closed"})
    <3>1. ~ KnownTask(conn, mgr.next)
      BY <1>1, <1>2, <2>2, NextIsFree DEF TaskAdded
    <3> QED BY <2>2, <3>1 DEF TaskAdded, KnownTask, Planned
  <2> QED BY <2>1, <2>2
<1>9. Entries(conn', mgr', fw', visited', phase')
  <2> SUFFICES ASSUME NEW q \in Requests, conn.req_id_to_task_dict[q] # NoTask
               PROVE  /\ fw'[q] # "running"
                      /\ fw'[q] = "waiting" => /\ phase = "schedule" /\ q \in visited'
                                               /\ conn.req_id_to_task_dict[q] \in conn.tasks_to_cancel
                                               /\ q \in mgr'.req[conn.req_id_to_task_dict[q]]
    BY DEF Entries
  <2>1. q # r /\ fw'[q] = fw[q]
    BY <1>1, <1>4
  <2>2. /\ fw[q] # "running"
        /\ fw[q] = "waiting" => /\ phase = "schedule" /\ q \in visited
                                /\ conn.req_id_to_task_dict[q] \in conn.tasks_to_cancel
                                /\ q \in mgr.req[conn.req_id_to_task_dict[q]]
    BY DEF ConnInv, Entries
  <2>3. conn.tasks_to_cancel \subseteq Ids
    BY <1>1, ConnFields
  <2> QED BY <2>1, <2>2, <2>3, <1>8
<1>10. Matching'
  BY DEF Matching, CanSchedule
<1>11. Preempted'
  BY <1>1, <1>4, LoopFields DEF Preempted, CanSchedule, ConnInv
<1>12. Reports'
  <2>1. r \notin metadata.recving /\ r \notin metadata.sending
    BY <1>4 DEF Reports, ConnInv
  <2> QED BY <1>4, <2>1 DEF Reports, ConnInv
<1>13. Flags'
  BY DEF Flags, ConnInv
<1>14. WaitersHeard'
  BY <1>4, <1>5 DEF WaitersHeard, ConnInv
<1>15. HeldGone'
  BY <1>4 DEF HeldGone, ConnInv, LoopTypes
<1> QED BY <1>3, <1>7, <1>9, <1>10, <1>11, <1>12, <1>13, <1>14, <1>15 DEF ConnInv

Alloc(r) ==
  /\ r \in matching
  /\ LET t == conn.req_id_to_task_dict[r] IN
       conn' = [conn EXCEPT !.tasks_to_cancel = @ \ {t}, !.tasks_to_launch = @ \union {t}]
  /\ fw' = [fw EXCEPT ![r] = "loading"]
  /\ matching' = {}
  /\ UNCHANGED << phase, held, kv, visited, step, mgr, adapter, dropped, metadata >>

(* Blocks were found: the plan moves to the tasks to launch. *)
LEMMA AllocKeeps ==
  ASSUME ConnInv, NEW r \in Requests, Alloc(r) PROVE ConnInv'
<1> USE DEF Alloc
<1> DEFINE t == conn.req_id_to_task_dict[r]
<1>1. LoopTypes /\ conn \in ConnState /\ mgr \in MgrState /\ Tables(conn, mgr, fw, held, dropped)
  BY DEF ConnInv, LoopTypes
<1>2. /\ t \in conn.tasks_to_cancel /\ t \in Ids /\ mgr.req[t] = {r} /\ mgr.kind[t] = "get"
      /\ fw[r] = "waiting" /\ t \notin conn.tasks_to_launch /\ t # NoTask /\ phase = "schedule"
  <2>1. t \in conn.tasks_to_cancel /\ mgr.req[t] = {r} /\ mgr.kind[t] = "get" /\ fw[r] = "waiting" /\ phase = "schedule"
    BY DEF ConnInv, Matching
  <2>2. t \in Ids /\ t # NoTask
    BY <1>1, <2>1, ConnFields, TaskIds
  <2> QED BY <1>1, <2>1, <2>2 DEF Tables, PlansKnown
<1>3. /\ conn' \in ConnState
      /\ conn'.req_id_to_task_dict = conn.req_id_to_task_dict /\ conn'.get_tasks = conn.get_tasks
      /\ conn'.put_tasks = conn.put_tasks /\ conn'.failed_block_ids = conn.failed_block_ids
      /\ conn'.tasks_to_cancel = conn.tasks_to_cancel \ {t}
      /\ conn'.tasks_to_launch = conn.tasks_to_launch \union {t}
  BY <1>1, <1>2 DEF ConnState
<1>4. /\ \A q \in Requests : q # r => fw'[q] = fw[q]
      /\ fw'[r] = "loading"
  BY <1>1, LoopFields
<1> HIDE DEF t, Alloc
<1>5. mgr' = mgr /\ held' = held /\ dropped' = dropped
  BY DEF Alloc
<1>6. /\ \A u \in Ids : /\ (Planned(conn', u) <=> Planned(conn, u))
                        /\ (Asked(conn', u) <=> Asked(conn, u))
                        /\ (KnownTask(conn', u) <=> KnownTask(conn, u))
                        /\ (conn'.put_tasks[u] # {} <=> conn.put_tasks[u] # {})
      /\ \A u \in Ids : u # t => /\ (u \in conn'.tasks_to_launch <=> u \in conn.tasks_to_launch)
                                 /\ (u \in conn'.tasks_to_cancel <=> u \in conn.tasks_to_cancel)
      /\ t \in conn'.tasks_to_launch /\ t \notin conn'.tasks_to_cancel
      /\ ~ Asked(conn, t) /\ KnownTask(conn, t) /\ conn.put_tasks[t] = {}
  <2>1. ~ Asked(conn, t)
    BY <1>1, <1>2 DEF Tables, PlansKnown, RunsAsked, Planned
  <2> QED BY <1>2, <1>3, <2>1 DEF Planned, Asked, KnownTask
<1>7. PlansKnown(conn', mgr')
  BY <1>1, <1>2, <1>5, <1>6 DEF Tables, PlansKnown
<1>8. RunsAsked(conn', mgr', dropped')
  BY <1>1, <1>5, <1>6 DEF Tables, RunsAsked
<1>9. IdsInOrder(mgr')
  BY <1>1, <1>5 DEF Tables
<1>10. OneTask(conn', mgr')
  BY <1>1, <1>3, <1>5, <1>6 DEF Tables, OneTask
<1>11. BlocksKept(conn', mgr', fw', held')
  <2> SUFFICES ASSUME NEW u \in Ids, NEW q \in mgr.req[u]
               PROVE  /\ Submitted(conn', u) => fw'[q] = "loading" \/ q \in held
                      /\ conn'.put_tasks[u] # {} \/ (u \in conn'.tasks_to_launch /\ mgr.kind[u] # "get") =>
                           fw'[q] = "gone"
    BY <1>5 DEF BlocksKept
  <2>1. CASE u = t
    BY <2>1, <1>2, <1>4, <1>6
  <2>2. CASE u # t
    <3>1. Submitted(conn', u) <=> Submitted(conn, u)
      BY <2>2, <1>6 DEF Submitted
    <3>2. KnownTask(conn, u) => q # r
      BY <2>2, <1>1, <1>2, <1>6 DEF Tables, OneTask
    <3>3. q \in Requests
      BY <1>1, MgrFields
    <3>4. /\ Submitted(conn, u) => fw[q] = "loading" \/ q \in held
          /\ conn.put_tasks[u] # {} \/ (u \in conn.tasks_to_launch /\ mgr.kind[u] # "get") => fw[q] = "gone"
      BY <1>1 DEF Tables, BlocksKept
    <3>5. Submitted(conn, u) \/ conn.put_tasks[u] # {} \/ u \in conn.tasks_to_launch => KnownTask(conn, u)
      BY DEF Submitted, KnownTask, Planned, Asked
    <3> QED BY <2>2, <3>1, <3>2, <3>3, <3>4, <3>5, <1>4, <1>6
  <2> QED BY <2>1, <2>2
<1>12. LoopTypes'
  <2>1. fw' \in [Requests -> {"waiting", "loading", "running", "gone"}]
    BY <1>1, LoopFields DEF Alloc
  <2> QED BY <1>1, <1>3, <2>1 DEF LoopTypes, Alloc
<1>13. Entries(conn', mgr', fw', visited', phase')
  <2> SUFFICES ASSUME NEW q \in Requests, conn.req_id_to_task_dict[q] # NoTask
               PROVE  /\ fw'[q] # "running"
                      /\ fw'[q] = "waiting" => /\ phase = "schedule" /\ q \in visited
                                               /\ conn.req_id_to_task_dict[q] \in conn'.tasks_to_cancel
                                               /\ q \in mgr.req[conn.req_id_to_task_dict[q]]
    BY <1>3 DEF Entries, Alloc
  <2>1. CASE q = r
    BY <2>1, <1>4
  <2>2. CASE q # r
    <3>1. /\ fw[q] # "running"
          /\ fw[q] = "waiting" => /\ phase = "schedule" /\ q \in visited
                                  /\ conn.req_id_to_task_dict[q] \in conn.tasks_to_cancel
                                  /\ q \in mgr.req[conn.req_id_to_task_dict[q]]
      BY DEF ConnInv, Entries
    <3>2. q \in mgr.req[conn.req_id_to_task_dict[q]] => conn.req_id_to_task_dict[q] # t
      BY <2>2, <1>2
    <3> QED BY <2>2, <3>1, <3>2, <1>3, <1>4
  <2> QED BY <2>1, <2>2
<1>14. Matching'
  BY DEF Matching, Alloc
<1>15. Preempted'
  <2>1. r \notin step.preempted
    BY <1>2 DEF ConnInv, Preempted, t
  <2>2. r \in step.previous => r \in step.finished
    BY <1>2, <2>1 DEF ConnInv, Preempted
  <2>3. /\ \A q \in step.preempted :
             phase = "schedule" /\ fw[q] = "waiting" /\ conn.req_id_to_task_dict[q] = NoTask
        /\ \A q \in step.previous : q \in step.finished \/ fw[q] = "running" \/ q \in step.preempted
    BY DEF ConnInv, Preempted
  <2> QED BY <1>1, LoopFields, <1>3, <1>4, <2>1, <2>2, <2>3 DEF Preempted, Alloc
<1>16. Reports'
  <2>1. r \notin metadata.recving /\ r \notin metadata.sending
    BY <1>2 DEF Reports, ConnInv
  <2> QED BY <1>3, <1>4, <2>1 DEF Reports, ConnInv, Alloc
<1>17. Flags'
  BY <1>3 DEF Flags, ConnInv, Alloc
<1>18. WaitersHeard'
  <2> SUFFICES ASSUME adapter # "vllm_sync", NEW q \in Requests, q \notin dropped,
                      fw'[q] = "loading" \/ q \in held
               PROVE  TrackedIn(conn', mgr', q) \/ q \in metadata.recving \/ q \in metadata.sending
    BY DEF WaitersHeard, Alloc
  <2>1. CASE q = r
    BY <2>1, <1>2, <1>5, <1>6 DEF TrackedIn, Submitted
  <2>2. CASE q # r
    <3>1. TrackedIn(conn, mgr, q) \/ q \in metadata.recving \/ q \in metadata.sending
      BY <2>2, <1>4 DEF ConnInv, WaitersHeard
    <3>2. TrackedIn(conn, mgr, q) => TrackedIn(conn', mgr', q)
      BY <1>5, <1>6 DEF TrackedIn, Submitted
    <3> QED BY <3>1, <3>2
  <2> QED BY <2>1, <2>2
<1>19. HeldGone'
  BY <1>2, <1>4 DEF HeldGone, ConnInv, LoopTypes, Alloc
<1> QED BY <1>7, <1>8, <1>9, <1>10, <1>11, <1>12, <1>13, <1>14, <1>15, <1>16, <1>17, <1>18, <1>19
        DEF ConnInv, Tables

(* A request ends: its blocks are held if it has a task or a put was planned. *)
Ends(r, keep) ==
  /\ phase \in {"run", "finish"} /\ fw[r] \in {"waiting", "loading", "running"}
  /\ Gone(r, keep)
  /\ UNCHANGED << phase, matching, visited, adapter, dropped, metadata >>

(* What Gone does, request by request. *)
LEMMA EndEffect ==
  ASSUME ConnInv, NEW r \in Requests, NEW keep \in BOOLEAN, Ends(r, keep)
  PROVE  /\ \A q \in Requests : q # r => fw'[q] = fw[q] /\ kv'[q] = kv[q] /\ (q \in held' <=> q \in held)
         /\ fw'[r] = "gone" /\ kv'[r] = "none" /\ r \notin held /\ (r \in held' <=> keep)
         /\ fw' \in [Requests -> {"waiting", "loading", "running", "gone"}]
         /\ kv' \in [Requests -> {"none", "garbage"}] /\ held' \in SUBSET Requests
         /\ step' \in [preempted : SUBSET Requests, finished : SUBSET Requests, previous : SUBSET Requests]
         /\ step'.preempted = step.preempted /\ step'.previous = step.previous
         /\ step'.finished = step.finished \union {r}
         /\ matching = {} /\ step.preempted = {}
<1>1. LoopTypes /\ held \in SUBSET Requests
  BY DEF ConnInv, LoopTypes
<1>2. r \notin held
  BY DEF ConnInv, HeldGone, Ends
<1>3. matching = {} /\ step.preempted = {}
  BY DEF ConnInv, Matching, Preempted, Ends
<1>4. /\ fw' = [fw EXCEPT ![r] = "gone"] /\ kv' = [kv EXCEPT ![r] = "none"]
      /\ held' = (IF keep THEN held \union {r} ELSE held)
      /\ step' = [step EXCEPT !.finished = @ \union {r}]
  BY DEF Ends, Gone
<1>5. /\ step' \in [preempted : SUBSET Requests, finished : SUBSET Requests, previous : SUBSET Requests]
      /\ step'.preempted = step.preempted /\ step'.previous = step.previous
      /\ step'.finished = step.finished \union {r}
  BY <1>1, <1>4 DEF LoopTypes
<1> QED BY <1>1, <1>2, <1>3, <1>4, <1>5, LoopFields

(* What the end of a request does to the parts that do not depend on the case. *)
LEMMA EndKeeps ==
  ASSUME ConnInv, NEW r \in Requests, NEW keep \in BOOLEAN, Ends(r, keep),
         conn' \in ConnState, mgr' \in MgrState,
         \A q \in Requests : q # r => conn'.req_id_to_task_dict[q] = conn.req_id_to_task_dict[q],
         conn'.failed_block_ids = conn.failed_block_ids,
         r \in metadata.recving \/ r \in metadata.sending => conn'.req_id_to_task_dict[r] = NoTask
  PROVE  /\ LoopTypes' /\ HeldGone' /\ Entries(conn', mgr', fw', visited', phase')
         /\ Matching' /\ Preempted' /\ Reports' /\ Flags'
<1>0. LoopTypes /\ phase' = phase /\ phase \in {"run", "finish"} /\ visited' = visited /\ adapter' = adapter
      /\ matching' = matching /\ dropped' = dropped /\ metadata' = metadata
  BY DEF ConnInv, Ends
<1>1. /\ \A q \in Requests : q # r => fw'[q] = fw[q] /\ kv'[q] = kv[q] /\ (q \in held' <=> q \in held)
      /\ fw'[r] = "gone" /\ kv'[r] = "none" /\ r \notin held /\ (r \in held' <=> keep)
      /\ fw' \in [Requests -> {"waiting", "loading", "running", "gone"}]
      /\ kv' \in [Requests -> {"none", "garbage"}] /\ held' \in SUBSET Requests
      /\ step' \in [preempted : SUBSET Requests, finished : SUBSET Requests, previous : SUBSET Requests]
      /\ step'.preempted = step.preempted /\ step'.previous = step.previous
      /\ step'.finished = step.finished \union {r}
      /\ matching = {} /\ step.preempted = {}
  BY EndEffect
<1>2. LoopTypes'
  BY <1>0, <1>1 DEF LoopTypes
<1>3. HeldGone'
  BY <1>0, <1>1 DEF HeldGone, ConnInv
<1>4. Entries(conn', mgr', fw', visited', phase')
  <2> SUFFICES ASSUME NEW q \in Requests, conn'.req_id_to_task_dict[q] # NoTask
               PROVE  fw'[q] # "running" /\ fw'[q] # "waiting"
    BY DEF Entries
  <2>1. CASE q = r
    BY <2>1, <1>1
  <2>2. CASE q # r
    BY <2>2, <1>0, <1>1 DEF ConnInv, Entries
  <2> QED BY <2>1, <2>2
<1>5. Matching'
  BY <1>0, <1>1 DEF Matching
<1>6. Preempted'
  BY <1>0, <1>1, LoopFields DEF Preempted, ConnInv
<1>7. Reports'
  <2>1. phase' # "run" \/ adapter' # "trtllm" => metadata' = NoMeta
    BY <1>0 DEF ConnInv, Reports
  <2>2. phase' = "sync" => adapter' = "vllm_sync"
    BY <1>0
  <2>3. ASSUME NEW q \in Requests
        PROVE  /\ q \in metadata.recving \/ q \in metadata.sending =>
                    conn'.req_id_to_task_dict[q] = NoTask /\ fw'[q] \in {"loading", "gone"}
               /\ q \in metadata.sending => fw'[q] = "gone"
    <3>1. CASE q = r
      BY <3>1, <1>1
    <3>2. CASE q # r
      BY <3>2, <1>1 DEF ConnInv, Reports
    <3> QED BY <3>1, <3>2
  <2> QED BY <1>0, <2>1, <2>2, <2>3 DEF Reports
<1>8. Flags'
  BY <1>0, <1>1 DEF Flags, ConnInv
<1> QED BY <1>2, <1>3, <1>4, <1>5, <1>6, <1>7, <1>8

(* A request with a task ends: its blocks are held. *)
LEMMA EndInUseKeeps ==
  ASSUME ConnInv, NEW r \in Requests, Ends(r, TRUE), conn.req_id_to_task_dict[r] # NoTask,
         UNCHANGED << conn, mgr >>
  PROVE  ConnInv'
<1>1. LoopTypes /\ conn \in ConnState /\ mgr \in MgrState /\ Tables(conn, mgr, fw, held, dropped)
  BY DEF ConnInv, LoopTypes
<1>2. fw[r] = "loading" /\ r \notin metadata.recving /\ r \notin metadata.sending
  BY DEF ConnInv, Entries, Reports, Ends
<1>3. /\ \A q \in Requests : q # r => fw'[q] = fw[q] /\ (q \in held' <=> q \in held)
      /\ fw'[r] = "gone" /\ r \in held'
  BY EndEffect
<1>4. Tables(conn', mgr', fw', held', dropped')
  <2>1. dropped' = dropped
    BY DEF Ends
  <2> QED BY <1>1, <1>2, <1>3, <2>1, FrameworkKeeps
<1>5. WaitersHeard'
  BY <1>2, <1>3 DEF WaitersHeard, ConnInv, Ends
<1>6. conn' \in ConnState /\ mgr' \in MgrState
  BY <1>1
<1> QED BY <1>2, <1>4, <1>5, <1>6, EndKeeps DEF ConnInv

(* A request without a task ends and nothing is put. *)
LEMMA EndUnusedKeeps ==
  ASSUME ConnInv, NEW r \in Requests, Ends(r, FALSE), conn.req_id_to_task_dict[r] = NoTask,
         mgr' = mgr \/ TaskAdded(mgr, mgr', r, "put", {"success", "closed"}), conn' = conn
  PROVE  ConnInv'
<1>1. LoopTypes /\ conn \in ConnState /\ mgr \in MgrState /\ Tables(conn, mgr, fw, held, dropped)
  BY DEF ConnInv, LoopTypes
<1>2. /\ \A q \in Requests : q # r => fw'[q] = fw[q] /\ (q \in held' <=> q \in held)
      /\ fw'[r] = "gone" /\ r \notin held'
  BY EndEffect
<1>3. mgr' \in MgrState
  BY <1>1 DEF TaskAdded
<1>4. /\ Tables(conn, mgr', fw, held, dropped)
      /\ \A q \in Requests : TrackedIn(conn, mgr, q) => TrackedIn(conn, mgr', q)
  BY <1>1, MissKeeps
<1>5. dropped' = dropped
  BY DEF Ends
<1>6. Tables(conn', mgr', fw', held', dropped')
  BY <1>1, <1>2, <1>3, <1>4, <1>5, FrameworkKeeps
<1>7. WaitersHeard'
  BY <1>2, <1>4 DEF WaitersHeard, ConnInv, Ends
<1> QED BY <1>1, <1>3, <1>6, <1>7, EndKeeps DEF ConnInv

(* A request without a task ends and is put, or there are too few blocks. *)
LEMMA EndPutKeeps ==
  ASSUME ConnInv, NEW r \in Requests, NEW launch \in BOOLEAN, Ends(r, launch),
         conn.req_id_to_task_dict[r] = NoTask,
         r \notin metadata.recving, r \notin metadata.sending,
         TaskAdded(mgr, mgr', r, "put", {"matched"}), PlanAdded(conn, conn', r, mgr.next, launch)
  PROVE  ConnInv'
<1>1. LoopTypes /\ conn \in ConnState /\ mgr \in MgrState /\ Tables(conn, mgr, fw, held, dropped)
  BY DEF ConnInv, LoopTypes
<1>2. /\ \A q \in Requests : q # r => fw'[q] = fw[q] /\ (q \in held' <=> q \in held)
      /\ fw'[r] = "gone" /\ (r \in held' <=> launch)
  BY EndEffect
<1>3. dropped' = dropped
  BY DEF Ends
<1>4. Tables(conn, mgr, fw', held', dropped)
  BY <1>1, <1>2, FrameworkKeeps
<1>5. /\ Tables(conn', mgr', fw', held', dropped')
      /\ \A q \in Requests : TrackedIn(conn, mgr, q) => TrackedIn(conn', mgr', q)
      /\ launch => TrackedIn(conn', mgr', r)
  <2>1. launch => fw'[r] = "gone" /\ r \in held'
    BY <1>2
  <2> HIDE DEF Tables, TaskAdded, PlanAdded, TrackedIn
  <2>2. CASE launch = TRUE
    BY <1>1, <1>3, <1>4, <2>1, <2>2, PlanKeeps
  <2>3. CASE launch = FALSE
    BY <1>1, <1>3, <1>4, <2>3, PlanKeeps
  <2> QED BY <2>2, <2>3
<1>6. WaitersHeard'
  BY <1>2, <1>5 DEF WaitersHeard, ConnInv, Ends
<1>7. /\ conn' \in ConnState /\ mgr' \in MgrState /\ conn'.failed_block_ids = conn.failed_block_ids
      /\ \A q \in Requests : q # r => conn'.req_id_to_task_dict[q] = conn.req_id_to_task_dict[q]
  BY DEF TaskAdded, PlanAdded
<1> QED BY <1>5, <1>6, <1>7, EndKeeps DEF ConnInv

-----------------------------------------------------------------------------
(* The tasks to cancel are no others: whoever waits still has its task. *)
LEMMA CancelKeeps ==
  ASSUME NEW c \in ConnState, NEW m \in MgrState, NEW f, NEW h, NEW d, NEW c2, NEW m2,
         Tables(c, m, f, h, d), Forgets(c, m, c2, m2, c.tasks_to_cancel)
  PROVE  /\ Tables(c2, m2, f, h, d)
         /\ \A q \in Requests : TrackedIn(c, m, q) => TrackedIn(c2, m2, q)
<1>1. c.tasks_to_cancel \in SUBSET Ids /\ \A t \in c.tasks_to_cancel : KnownTask(c, t)
  BY ConnFields DEF KnownTask, Planned
<1>2. \A t \in c.tasks_to_cancel : ~ Submitted(c, t)
  BY <1>1 DEF Tables, PlansKnown, RunsAsked, Planned, Submitted
<1> QED BY <1>1, <1>2, ForgetKeeps

(* cancel_tasks forgets what it cancels. *)
LEMMA CancelForgets ==
  ASSUME NEW c \in ConnState, NEW m \in MgrState, NEW f, NEW h, NEW d, Tables(c, m, f, h, d)
  PROVE  /\ Forgets(c, m, Cancelled(c, m).c, Cancelled(c, m).m, c.tasks_to_cancel)
         /\ Cancelled(c, m).c.tasks_to_cancel = {}
         /\ Cancelled(c, m).c.tasks_to_launch = c.tasks_to_launch
         /\ Cancelled(c, m).c.failed_block_ids = c.failed_block_ids
<1> DEFINE ts == c.tasks_to_cancel
           rs == UNION { m.req[t] : t \in ts }
           m2 == CancelIds(m, ts)
           D == [r \in Requests |-> IF r \in rs THEN NoTask ELSE c.req_id_to_task_dict[r]]
           c2 == [c EXCEPT !.req_id_to_task_dict = D, !.tasks_to_cancel = {}]
<1>1. ts \in SUBSET Ids /\ D \in [Requests -> Ids \union {NoTask}]
  BY ConnFields
<1>2. Cancelled(c, m).c = c2 /\ Cancelled(c, m).m = m2
  BY DEF Cancelled, Pair
<1>3. \A q \in Requests : D[q] = IF \E t \in ts : q \in m.req[t] THEN NoTask ELSE c.req_id_to_task_dict[q]
  OBVIOUS
<1>4. /\ m2 \in MgrState /\ m2.next = m.next
      /\ \A t \in Ids : t \notin ts => m2.st[t] = m.st[t] /\ m2.req[t] = m.req[t] /\ m2.kind[t] = m.kind[t]
      /\ \A t \in ts : m2.st[t] = "closed" /\ m2.req[t] = {} /\ m2.kind[t] = "none"
  BY <1>1, CancelEffect
<1> HIDE DEF D, m2
<1>5. /\ c2 \in ConnState /\ c2.req_id_to_task_dict = D /\ c2.tasks_to_cancel = {}
      /\ c2.tasks_to_launch = c.tasks_to_launch /\ c2.get_tasks = c.get_tasks
      /\ c2.put_tasks = c.put_tasks /\ c2.failed_block_ids = c.failed_block_ids
  BY <1>1 DEF ConnState
<1> HIDE DEF c2
<1>6. \A t \in ts : t \notin c2.tasks_to_launch /\ ~ Asked(c2, t)
  BY <1>1, <1>5 DEF Tables, PlansKnown, RunsAsked, Planned, Asked
<1>7. Forgets(c, m, c2, m2, ts)
  BY <1>1, <1>3, <1>4, <1>5, <1>6 DEF Forgets, KnownTask, Planned
<1> QED BY <1>2, <1>5, <1>7

(* launch_tasks of the vLLM adapter. *)
LEMMA LaunchTasksKeeps ==
  ASSUME NEW c \in ConnState, NEW m \in MgrState, NEW f, NEW h, NEW d, Tables(c, m, f, h, d)
  PROVE  LET z == launch_tasks_effect(c, m) IN
         /\ Tables(z.c, z.m, f, h, d) /\ z.c \in ConnState /\ z.m \in MgrState
         /\ \A q \in Requests : TrackedIn(c, m, q) => TrackedIn(z.c, z.m, q)
         /\ z.c.req_id_to_task_dict = c.req_id_to_task_dict
         /\ z.c.failed_block_ids = c.failed_block_ids
<1> DEFINE gets == { t \in c.tasks_to_launch : m.kind[t] = "get" }
           puts == c.tasks_to_launch \ gets
           g == LaunchedKind(m, gets)
           p == LaunchedKind(g.m, puts)
           S == g.table
           T == p.table
           U == [t \in Ids |-> S[t] \union T[t]]
           G == [t \in Ids |-> c.get_tasks[t] \union S[t]]
           P == [t \in Ids |-> c.put_tasks[t] \union T[t]]
           c2 == [c EXCEPT !.get_tasks = G, !.put_tasks = P, !.tasks_to_launch = {}]
           z == launch_tasks_effect(c, m)
<1>1. c.tasks_to_launch \in SUBSET (1 .. MaxTask)
  <2>1. c.tasks_to_launch \subseteq Ids
    BY ConnFields
  <2>2. \A u \in c.tasks_to_launch : u <= MaxTask
    BY <2>1 DEF Tables, PlansKnown, Planned
  <2> QED BY <2>1, <2>2, LoopAssumption DEF Ids
<1>2. /\ gets \in SUBSET (1 .. MaxTask) /\ puts \in SUBSET (1 .. MaxTask)
      /\ \A t \in gets : t \notin puts
      /\ gets \union puts = c.tasks_to_launch
      /\ \A t \in puts : m.kind[t] # "get"
  BY <1>1
<1>3. z.c = c2 /\ z.m = p.m
  BY DEF launch_tasks_effect, Pair
<1> HIDE DEF gets, puts, z
<1>4. Carries(m, g.m, S, gets)
  BY <1>2, KindLaunches
<1>5. g.m \in MgrState
  BY <1>4 DEF Carries
<1> HIDE DEF g, S
<1>6. Carries(g.m, p.m, T, puts)
  BY <1>2, <1>5, KindLaunches
<1> HIDE DEF p, T
<1>7. Carries(m, p.m, U, c.tasks_to_launch)
  <2>1. Carries(m, p.m, U, gets \union puts)
    BY <1>2, <1>4, <1>6, BothKindsLaunch
  <2> QED BY <2>1, <1>2
<1>8. gets \subseteq Ids /\ puts \subseteq Ids
  BY <1>2, LoopAssumption DEF Ids
<1>9. \A t \in Ids : S[t] \subseteq gets /\ T[t] \subseteq puts
  BY <1>4, <1>6 DEF Carries
<1>10. G \in [Ids -> SUBSET Ids] /\ P \in [Ids -> SUBSET Ids]
  BY <1>8, <1>9, ConnFields
<1>11. \A t \in Ids : /\ G[t] = c.get_tasks[t] \union S[t] /\ P[t] = c.put_tasks[t] \union T[t]
                      /\ U[t] = S[t] \union T[t]
  OBVIOUS
<1> HIDE DEF G, P, U
<1>12. /\ c2 \in ConnState /\ c2.get_tasks = G /\ c2.put_tasks = P /\ c2.tasks_to_launch = {}
       /\ c2.tasks_to_cancel = c.tasks_to_cancel /\ c2.req_id_to_task_dict = c.req_id_to_task_dict
       /\ c2.failed_block_ids = c.failed_block_ids
  BY <1>10 DEF ConnState
<1> HIDE DEF c2
<1>13. \A t \in Ids : /\ (Asked(c2, t) <=> (Asked(c, t) \/ U[t] # {}))
                      /\ c2.put_tasks[t] # {} =>
                           c.put_tasks[t] # {} \/ (U[t] # {} /\ \A u \in U[t] : m.kind[u] # "get")
  <2> SUFFICES ASSUME NEW t \in Ids
               PROVE  /\ (Asked(c2, t) <=> (Asked(c, t) \/ U[t] # {}))
                      /\ c2.put_tasks[t] # {} =>
                           c.put_tasks[t] # {} \/ (U[t] # {} /\ \A u \in U[t] : m.kind[u] # "get")
    OBVIOUS
  <2>1. Asked(c2, t) <=> (Asked(c, t) \/ U[t] # {})
    BY <1>11, <1>12 DEF Asked
  <2>2. T[t] # {} => S[t] = {}
    <3> SUFFICES ASSUME NEW u \in T[t], NEW v \in S[t] PROVE FALSE
      OBVIOUS
    <3>1. u \in puts /\ u \in U[t] /\ v \in gets /\ v \in U[t]
      BY <1>9, <1>11
    <3>2. /\ t \in puts \/ \E w \in puts : t = MaxTask + w
          /\ t \in gets \/ \E w \in gets : t = MaxTask + w
      BY <1>4, <1>6 DEF Carries
    <3>3. \A a, b \in 1 .. MaxTask : a # MaxTask + b /\ (MaxTask + a = MaxTask + b => a = b)
      BY LoopAssumption
    <3> QED BY <1>2, <3>2, <3>3
  <2>3. c2.put_tasks[t] # {} =>
          c.put_tasks[t] # {} \/ (U[t] # {} /\ \A u \in U[t] : m.kind[u] # "get")
    <3> SUFFICES ASSUME c2.put_tasks[t] # {}, c.put_tasks[t] = {}
                 PROVE  U[t] # {} /\ \A u \in U[t] : m.kind[u] # "get"
      OBVIOUS
    <3>1. P[t] = T[t] /\ T[t] # {}
      BY <1>11, <1>12
    <3>2. U[t] = T[t]
      BY <1>11, <2>2, <3>1
    <3> QED BY <1>2, <1>9, <3>1, <3>2
  <2> QED BY <2>1, <2>3
<1>14. /\ Tables(c2, p.m, f, h, d)
       /\ \A q \in Requests : TrackedIn(c, m, q) => TrackedIn(c2, p.m, q)
  <2>1. Launches(c, m, c2, p.m, U)
    BY <1>7, <1>12, <1>13 DEF Launches
  <2> QED BY <2>1, LaunchKeeps
<1>15. p.m \in MgrState
  BY <1>6 DEF Carries
<1> QED BY <1>3, <1>12, <1>14, <1>15 DEF z

-----------------------------------------------------------------------------
(* The framework's own steps. *)

(* The framework preempts a request: it ran, so it has no task. *)
LEMMA PreemptKeeps ==
  ASSUME ConnInv, NEW r \in Requests, Preempt(r), metadata' = metadata PROVE ConnInv'
<1> USE DEF Preempt
<1>1. LoopTypes /\ conn \in ConnState /\ mgr \in MgrState /\ Tables(conn, mgr, fw, held, dropped)
  BY DEF ConnInv, LoopTypes
<1>2. conn.req_id_to_task_dict[r] = NoTask
  BY DEF ConnInv, Entries
<1>3. /\ \A q \in Requests : q # r => fw'[q] = fw[q] /\ kv'[q] = kv[q]
      /\ fw'[r] = "waiting" /\ kv'[r] = "none" /\ fw[r] = "running"
  BY <1>1, LoopFields
<1>4. Tables(conn', mgr', fw', held', dropped')
  <2>1. conn' = conn /\ mgr' = mgr /\ held' = held /\ dropped' = dropped
    OBVIOUS
  <2> HIDE DEF Preempt
  <2>2. Tables(conn, mgr, fw', held, dropped)
    BY <1>1, <1>2, <1>3, FrameworkKeeps
  <2> QED BY <2>1, <2>2
<1>5. /\ step' \in [preempted : SUBSET Requests, finished : SUBSET Requests, previous : SUBSET Requests]
      /\ step'.preempted = step.preempted \union {r} /\ step'.previous = step.previous
      /\ step'.finished = step.finished
  BY <1>1 DEF LoopTypes
<1>6. LoopTypes'
  <2>1. fw' \in [Requests -> {"waiting", "loading", "running", "gone"}] /\ kv' \in [Requests -> {"none", "garbage"}]
    BY <1>1, LoopFields
  <2> QED BY <1>1, <1>5, <2>1 DEF LoopTypes
<1>7. Entries(conn', mgr', fw', visited', phase')
  BY <1>2, <1>3 DEF ConnInv, Entries
<1>8. Matching'
  BY DEF Matching
<1>9. Preempted'
  BY <1>1, <1>2, <1>3, <1>5, LoopFields DEF ConnInv, Preempted
<1>10. Reports'
  BY <1>3 DEF ConnInv, Reports
<1>11. Flags'
  BY <1>3 DEF ConnInv, Flags
<1>12. WaitersHeard'
  BY <1>3 DEF ConnInv, WaitersHeard
<1>13. HeldGone'
  BY <1>1, <1>3 DEF ConnInv, HeldGone, LoopTypes
<1> QED BY <1>4, <1>6, <1>7, <1>8, <1>9, <1>10, <1>11, <1>12, <1>13 DEF ConnInv

(* No room: the plan stays with the tasks to cancel. *)
LEMMA AllocFailsKeeps ==
  ASSUME ConnInv, NEW r \in Requests, AllocFails(r), metadata' = metadata PROVE ConnInv'
BY DEF ConnInv, AllocFails, LoopTypes, HeldGone, Matching, Preempted, Reports, Flags, WaitersHeard

(* A new step of the framework. *)
LEMMA NextStepKeeps ==
  ASSUME ConnInv, NextStep, metadata' = metadata PROVE ConnInv'
<1> USE DEF NextStep
<1>1. LoopTypes' /\ Tables(conn', mgr', fw', held', dropped') /\ HeldGone' /\ WaitersHeard'
  BY DEF ConnInv, LoopTypes, HeldGone, WaitersHeard
<1>2. Entries(conn', mgr', fw', visited', phase') /\ Matching' /\ Reports' /\ Flags'
  BY DEF ConnInv, Entries, Matching, Reports, Flags
<1>3. Preempted'
  BY DEF ConnInv, Preempted
<1> QED BY <1>1, <1>2, <1>3 DEF ConnInv

(* A transfer ends, well or not. *)
LEMMA TransferEndsKeeps ==
  ASSUME ConnInv, NEW t \in Ids, TransferEnds(t), metadata' = metadata PROVE ConnInv'
<1>1. LoopTypes /\ conn \in ConnState /\ mgr \in MgrState /\ Tables(conn, mgr, fw, held, dropped)
  BY DEF ConnInv, LoopTypes
<1> PICK s \in {"success", "failed"} : mgr' = [mgr EXCEPT !.st[t] = s]
  BY DEF TransferEnds
<1>2. /\ mgr' \in MgrState /\ mgr'.req = mgr.req /\ mgr'.kind = mgr.kind /\ mgr'.next = mgr.next
      /\ \A u \in Ids : u # t => mgr'.st[u] = mgr.st[u]
      /\ mgr'.st[t] = s /\ mgr.st[t] = "running"
  <2>1. mgr'.st = [mgr.st EXCEPT ![t] = s] /\ mgr'.req = mgr.req /\ mgr'.kind = mgr.kind /\ mgr'.next = mgr.next
    BY <1>1, MgrFields DEF MgrState
  <2>2. mgr' \in MgrState
    BY <1>1 DEF MgrState
  <2> QED BY <1>1, <2>1, <2>2, MgrFields DEF TransferEnds
<1>3. PlansKnown(conn, mgr')
  BY <1>1, <1>2 DEF Tables, PlansKnown
<1>4. RunsAsked(conn, mgr', dropped)
  BY <1>1, <1>2 DEF Tables, RunsAsked
<1>5. IdsInOrder(mgr')
  <2> SUFFICES ASSUME NEW u \in 1 .. MaxTask
               PROVE  /\ u >= mgr.next => mgr'.st[u] = "none"
                      /\ mgr'.st[MaxTask + u] # "none" => mgr'.st[u] = "closed"
    BY <1>2 DEF IdsInOrder
  <2>1. u \in Ids /\ MaxTask + u \in Ids
    BY TaskIds
  <2> QED BY <1>1, <1>2, <2>1 DEF Tables, IdsInOrder
<1>6. OneTask(conn, mgr') /\ BlocksKept(conn, mgr', fw, held)
  BY <1>1, <1>2 DEF Tables, OneTask, BlocksKept
<1>7. Tables(conn', mgr', fw', held', dropped')
  BY <1>3, <1>4, <1>5, <1>6 DEF Tables, TransferEnds
<1>8. \A q \in Requests : TrackedIn(conn, mgr, q) => TrackedIn(conn, mgr', q)
  BY <1>2 DEF TrackedIn
<1> USE DEF TransferEnds
<1>9. LoopTypes'
  BY <1>1, <1>2 DEF LoopTypes
<1>10. HeldGone' /\ Preempted' /\ Reports' /\ Flags'
  BY DEF ConnInv, HeldGone, Preempted, Reports, Flags
<1>11. Entries(conn', mgr', fw', visited', phase') /\ Matching'
  BY <1>2 DEF ConnInv, Entries, Matching
<1>12. WaitersHeard'
  BY <1>8 DEF ConnInv, WaitersHeard
<1> QED BY <1>7, <1>9, <1>10, <1>11, <1>12 DEF ConnInv

-----------------------------------------------------------------------------
(* The vLLM adapter. *)

(* handle_preemptions finds nothing to take back: a preempted request has run,
   so its get was answered, and no other task of it is to be launched. *)
LEMMA NothingToTakeBack ==
  ASSUME ConnInv, NEW current \in SUBSET Running
  PROVE  HandlePreempted(conn, PreemptedReqs(current)) = conn
<1>1. LoopTypes /\ conn \in ConnState
  BY DEF ConnInv, LoopTypes
<1>2. \A r \in PreemptedReqs(current) : r \in Requests /\ conn.req_id_to_task_dict[r] = NoTask
  <2> SUFFICES ASSUME NEW r \in PreemptedReqs(current)
               PROVE  r \in Requests /\ conn.req_id_to_task_dict[r] = NoTask
    OBVIOUS
  <2>1. r \in step.preempted \/ (r \in step.previous /\ r \notin step.finished)
    BY DEF PreemptedReqs
  <2>2. r \in Requests
    BY <1>1, <2>1, LoopFields
  <2>3. CASE r \in step.preempted
    BY <2>2, <2>3 DEF ConnInv, Preempted
  <2>4. CASE r \notin step.preempted
    <3>1. fw[r] = "running"
      BY <2>1, <2>4 DEF ConnInv, Preempted
    <3> QED BY <2>2, <3>1 DEF ConnInv, Entries
  <2> QED BY <2>2, <2>3, <2>4
<1> DEFINE ts == { conn.req_id_to_task_dict[r] : r \in PreemptedReqs(current) } \intersect conn.tasks_to_launch
<1>3. ts = {}
  BY <1>1, <1>2, ConnFields, TaskIds
<1>4. HandlePreempted(conn, PreemptedReqs(current)) =
        [conn EXCEPT !.tasks_to_launch = @ \ ts, !.tasks_to_cancel = @ \union ts]
  BY DEF HandlePreempted
<1> HIDE DEF ts
<1>5. conn.tasks_to_launch \ ts = conn.tasks_to_launch /\ conn.tasks_to_cancel \union ts = conn.tasks_to_cancel
  BY <1>3
<1> QED BY <1>1, <1>4, <1>5 DEF ConnState

(* build_connector_meta of the vLLM adapter: cancel, then launch. *)
LEMMA BuildKeeps ==
  ASSUME ConnInv, build_connector_meta, metadata' = metadata PROVE ConnInv'
<1>1. /\ LoopTypes /\ conn \in ConnState /\ mgr \in MgrState /\ Tables(conn, mgr, fw, held, dropped)
      /\ adapter \in {"vllm", "vllm_sync"} /\ phase = "schedule"
  BY DEF ConnInv, LoopTypes, build_connector_meta, Vllm
<1> PICK current \in SUBSET Running :
      LET x == HandlePreempted(conn, PreemptedReqs(current))
          y == Cancelled(x, mgr)
          z == launch_tasks_effect(y.c, y.m)
      IN /\ conn' = z.c /\ mgr' = z.m
         /\ step' = [preempted |-> {}, finished |-> {}, previous |-> current]
  BY DEF build_connector_meta
<1> DEFINE y == Cancelled(conn, mgr)
           c == y.c
           m == y.m
<1>2. /\ conn' = launch_tasks_effect(c, m).c /\ mgr' = launch_tasks_effect(c, m).m
      /\ step' = [preempted |-> {}, finished |-> {}, previous |-> current]
  BY NothingToTakeBack
<1>3. Forgets(conn, mgr, c, m, conn.tasks_to_cancel) /\ c.failed_block_ids = conn.failed_block_ids
  BY <1>1, CancelForgets
<1> HIDE DEF c, m, y
<1>4. /\ c \in ConnState /\ m \in MgrState
      /\ \A q \in Requests : c.req_id_to_task_dict[q] =
           IF \E t \in conn.tasks_to_cancel : q \in mgr.req[t] THEN NoTask ELSE conn.req_id_to_task_dict[q]
  BY <1>3 DEF Forgets
<1>5. /\ Tables(c, m, fw, held, dropped)
      /\ \A q \in Requests : TrackedIn(conn, mgr, q) => TrackedIn(c, m, q)
  BY <1>1, <1>3, CancelKeeps
<1>6. /\ Tables(conn', mgr', fw, held, dropped) /\ conn' \in ConnState /\ mgr' \in MgrState
      /\ \A q \in Requests : TrackedIn(c, m, q) => TrackedIn(conn', mgr', q)
      /\ conn'.req_id_to_task_dict = c.req_id_to_task_dict
      /\ conn'.failed_block_ids = c.failed_block_ids
  BY <1>2, <1>4, <1>5, LaunchTasksKeeps
<1>7. /\ phase' = (IF adapter = "vllm_sync" THEN "sync" ELSE "run")
      /\ visited' = {} /\ UNCHANGED << fw, held, kv, matching, adapter, dropped >> /\ matching = {}
  BY DEF build_connector_meta
<1>8. LoopTypes'
  <2>1. step' \in [preempted : SUBSET Requests, finished : SUBSET Requests, previous : SUBSET Requests]
    BY <1>2 DEF Running
  <2> QED BY <1>1, <1>6, <1>7, <2>1 DEF LoopTypes
<1>9. ASSUME NEW q \in Requests, conn'.req_id_to_task_dict[q] # NoTask
      PROVE  conn.req_id_to_task_dict[q] # NoTask /\ fw[q] # "running" /\ fw[q] # "waiting"
  <2>1. /\ conn.req_id_to_task_dict[q] # NoTask
        /\ ~ \E t \in conn.tasks_to_cancel : q \in mgr.req[t]
    BY <1>4, <1>6, <1>9
  <2> QED BY <2>1 DEF ConnInv, Entries
<1>10. Entries(conn', mgr', fw', visited', phase')
  BY <1>7, <1>9 DEF Entries
<1>11. Matching'
  BY <1>7 DEF Matching
<1>12. Preempted'
  BY <1>2, <1>7 DEF Preempted, Running
<1>13. Reports'
  <2>1. metadata = NoMeta
    BY <1>1 DEF ConnInv, Reports
  <2> QED BY <1>1, <1>7, <2>1 DEF Reports, NoMeta
<1>14. Flags'
  BY <1>1, <1>7 DEF ConnInv, Flags
<1>15. WaitersHeard'
  BY <1>5, <1>6, <1>7 DEF ConnInv, WaitersHeard
<1>16. HeldGone'
  BY <1>7 DEF ConnInv, HeldGone
<1> QED BY <1>6, <1>7, <1>8, <1>10, <1>11, <1>12, <1>13, <1>14, <1>15, <1>16 DEF ConnInv

(* Answered tasks are forgotten. *)
LEMMA AnswerForgets ==
  ASSUME NEW c \in ConnState, NEW m \in MgrState, NEW f, NEW h, NEW d, Tables(c, m, f, h, d),
         NEW done \in SUBSET Ids, \A t \in done : Asked(c, t), NEW c2 \in ConnState, NEW m2,
         m2 = CancelIds(m, done),
         c2.tasks_to_launch = c.tasks_to_launch, c2.tasks_to_cancel = c.tasks_to_cancel,
         \A t \in Ids : /\ c2.get_tasks[t] = IF t \in done THEN {} ELSE c.get_tasks[t]
                        /\ c2.put_tasks[t] = IF t \in done THEN {} ELSE c.put_tasks[t],
         \A q \in Requests : c2.req_id_to_task_dict[q] =
           IF \E t \in done : q \in m.req[t] THEN NoTask ELSE c.req_id_to_task_dict[q]
  PROVE  Forgets(c, m, c2, m2, done) /\ \A t \in done : KnownTask(c, t)
<1>1. /\ m2 \in MgrState /\ m2.next = m.next
      /\ \A t \in Ids : t \notin done => m2.st[t] = m.st[t] /\ m2.req[t] = m.req[t] /\ m2.kind[t] = m.kind[t]
      /\ \A t \in done : m2.st[t] = "closed" /\ m2.req[t] = {} /\ m2.kind[t] = "none"
  BY CancelEffect
<1>2. \A t \in done : ~ Planned(c, t)
  BY DEF Tables, PlansKnown, RunsAsked
<1>3. \A t \in done : ~ KnownTask(c2, t)
  BY <1>2 DEF KnownTask, Planned, Asked
<1> QED BY <1>1, <1>3 DEF Forgets, KnownTask

(* What Answered does, field by field. *)
LEMMA AnsweredFields ==
  ASSUME LoopTypes, NEW done \in SUBSET Ids
  PROVE  LET c2 == Answered(conn, done) IN
         /\ c2 \in ConnState
         /\ c2.tasks_to_launch = conn.tasks_to_launch /\ c2.tasks_to_cancel = conn.tasks_to_cancel
         /\ c2.failed_block_ids = conn.failed_block_ids
         /\ \A t \in Ids : /\ c2.get_tasks[t] = IF t \in done THEN {} ELSE conn.get_tasks[t]
                           /\ c2.put_tasks[t] = IF t \in done THEN {} ELSE conn.put_tasks[t]
         /\ \A q \in Requests : c2.req_id_to_task_dict[q] =
              IF \E t \in done : q \in mgr.req[t] THEN NoTask ELSE conn.req_id_to_task_dict[q]
<1> DEFINE G == [t \in Ids |-> IF t \in done THEN {} ELSE conn.get_tasks[t]]
           P == [t \in Ids |-> IF t \in done THEN {} ELSE conn.put_tasks[t]]
           D == [r \in Requests |-> IF r \in ReqsOf(done) THEN NoTask ELSE conn.req_id_to_task_dict[r]]
           c2 == Answered(conn, done)
<1>1. conn \in ConnState
  BY DEF LoopTypes
<1>2. G \in [Ids -> SUBSET Ids] /\ P \in [Ids -> SUBSET Ids] /\ D \in [Requests -> Ids \union {NoTask}]
  BY <1>1, ConnFields
<1>3. c2 = [conn EXCEPT !.get_tasks = G, !.put_tasks = P, !.req_id_to_task_dict = D]
  BY DEF Answered
<1>4. \A q \in Requests : D[q] = IF \E t \in done : q \in mgr.req[t] THEN NoTask ELSE conn.req_id_to_task_dict[q]
  BY DEF ReqsOf
<1>5. \A t \in Ids : /\ G[t] = IF t \in done THEN {} ELSE conn.get_tasks[t]
                     /\ P[t] = IF t \in done THEN {} ELSE conn.put_tasks[t]
  OBVIOUS
<1> HIDE DEF G, P, D, c2
<1>6. /\ c2 \in ConnState /\ c2.get_tasks = G /\ c2.put_tasks = P /\ c2.req_id_to_task_dict = D
      /\ c2.tasks_to_launch = conn.tasks_to_launch /\ c2.tasks_to_cancel = conn.tasks_to_cancel
      /\ c2.failed_block_ids = conn.failed_block_ids
  BY <1>1, <1>2, <1>3 DEF ConnState
<1> QED BY <1>4, <1>5, <1>6 DEF c2

(* The synchronous wait. *)
LEMMA SyncWaitKeeps ==
  ASSUME ConnInv, wait_for_all_get_tasks, metadata' = metadata PROVE ConnInv'
<1> DEFINE done == Launched(conn.get_tasks)
<1>1. /\ LoopTypes /\ conn \in ConnState /\ mgr \in MgrState /\ Tables(conn, mgr, fw, held, dropped)
      /\ phase = "sync" /\ adapter = "vllm_sync"
  BY DEF ConnInv, LoopTypes, wait_for_all_get_tasks, Reports
<1>2. done \in SUBSET Ids /\ \A t \in done : Asked(conn, t)
  BY DEF Launched, Asked
<1>3. /\ conn' = Answered(conn, done) /\ mgr' = CancelIds(mgr, done) /\ phase' = "run"
      /\ UNCHANGED << fw, held, kv, matching, visited, step, adapter, dropped >>
  BY DEF wait_for_all_get_tasks
<1> HIDE DEF done
<1>4. /\ conn' \in ConnState
      /\ conn'.tasks_to_launch = conn.tasks_to_launch /\ conn'.tasks_to_cancel = conn.tasks_to_cancel
      /\ conn'.failed_block_ids = conn.failed_block_ids
      /\ \A t \in Ids : /\ conn'.get_tasks[t] = IF t \in done THEN {} ELSE conn.get_tasks[t]
                        /\ conn'.put_tasks[t] = IF t \in done THEN {} ELSE conn.put_tasks[t]
      /\ \A q \in Requests : conn'.req_id_to_task_dict[q] =
           IF \E t \in done : q \in mgr.req[t] THEN NoTask ELSE conn.req_id_to_task_dict[q]
  BY <1>1, <1>2, <1>3, AnsweredFields
<1>5. Forgets(conn, mgr, conn', mgr', done) /\ \A t \in done : KnownTask(conn, t)
  BY <1>1, <1>2, <1>3, <1>4, AnswerForgets
<1>6. Tables(conn', mgr', fw, held, dropped)
  BY <1>1, <1>2, <1>5, ForgetKeeps
<1>7. mgr' \in MgrState
  BY <1>5 DEF Forgets
<1>8. LoopTypes'
  BY <1>1, <1>3, <1>4, <1>7 DEF LoopTypes
<1>9. \A q \in Requests : conn'.req_id_to_task_dict[q] # NoTask => conn.req_id_to_task_dict[q] # NoTask
  BY <1>4
<1>10. Entries(conn', mgr', fw', visited', phase')
  BY <1>1, <1>3, <1>9 DEF ConnInv, Entries
<1>11. Matching'
  BY <1>1, <1>3 DEF ConnInv, Matching
<1>12. Preempted'
  BY <1>1, <1>3 DEF ConnInv, Preempted
<1>13. Reports'
  <2>1. metadata = NoMeta
    BY <1>1 DEF ConnInv, Reports
  <2> QED BY <1>1, <1>3, <2>1 DEF Reports, NoMeta
<1>14. Flags'
  BY <1>1, <1>3 DEF Flags
<1>15. WaitersHeard'
  BY <1>1, <1>3 DEF WaitersHeard
<1>16. HeldGone'
  BY <1>3 DEF ConnInv, HeldGone
<1> QED BY <1>3, <1>6, <1>8, <1>10, <1>11, <1>12, <1>13, <1>14, <1>15, <1>16 DEF ConnInv

(* update_connector_output: what has ended is reported and forgotten. *)
LEMMA OutputKeeps ==
  ASSUME ConnInv, update_connector_output, metadata' = metadata PROVE ConnInv'
<1>1. /\ LoopTypes /\ conn \in ConnState /\ mgr \in MgrState /\ Tables(conn, mgr, fw, held, dropped)
      /\ phase = "run" /\ adapter \in {"vllm", "vllm_sync"} /\ metadata = NoMeta
  BY DEF ConnInv, LoopTypes, update_connector_output, Vllm, Reports
<1>2. phase' = "errors" /\ UNCHANGED << matching, visited, step, adapter, dropped >>
  BY DEF update_connector_output
<1>3. matching = {} /\ step.preempted = {}
  BY <1>1 DEF ConnInv, Matching, Preempted
<1>4. \A q \in Requests : conn.req_id_to_task_dict[q] # NoTask => fw[q] # "running" /\ fw[q] # "waiting"
  BY <1>1 DEF ConnInv, Entries
<1>5. adapter = "vllm" => \A q \in Requests : kv[q] # "garbage"
  BY <1>1 DEF ConnInv, Flags
<1>6. CASE UNCHANGED << conn, mgr, fw, held, kv >>
  <2>1. LoopTypes' /\ Tables(conn', mgr', fw', held', dropped') /\ HeldGone' /\ WaitersHeard'
    BY <1>2, <1>6 DEF ConnInv, LoopTypes, HeldGone, WaitersHeard
  <2>2. Entries(conn', mgr', fw', visited', phase') /\ Matching' /\ Preempted'
    BY <1>2, <1>3, <1>4, <1>6 DEF ConnInv, Entries, Matching, Preempted
  <2>3. Reports' /\ Flags'
    BY <1>1, <1>2, <1>5, <1>6 DEF Reports, Flags, NoMeta
  <2> QED BY <2>1, <2>2, <2>3 DEF ConnInv
<1>7. CASE ~ UNCHANGED << conn, mgr, fw, held, kv >>
  <2> DEFINE gets == Ended(mgr, Launched(conn.get_tasks))
             puts == Ended(mgr, Launched(conn.put_tasks))
             done == gets \union puts
             bad == ReqsOf({ t \in gets : mgr.st[t] = "failed" })
  <2>1. /\ conn' = [Answered(conn, done) EXCEPT !.failed_block_ids = @ \union FailedGets(gets)]
        /\ mgr' = CancelIds(mgr, done)
        /\ Apply(ReqsOf(gets), ReqsOf(puts), bad)
    BY <1>7 DEF update_connector_output
  <2>2. /\ done \in SUBSET Ids /\ gets \in SUBSET Ids /\ puts \in SUBSET Ids
        /\ \A t \in done : Asked(conn, t)
        /\ \A t \in puts : conn.put_tasks[t] # {}
        /\ \A t \in done : t \in gets \/ t \in puts
    BY DEF Ended, Launched, Asked
  <2>3. /\ \A q : q \in ReqsOf(gets) <=> \E t \in gets : q \in mgr.req[t]
        /\ \A q : q \in ReqsOf(puts) <=> \E t \in puts : q \in mgr.req[t]
        /\ bad = FailedGets(gets) /\ bad \subseteq Requests
    <3>1. \A t \in Ids : mgr.req[t] \subseteq Requests
      BY <1>1, MgrFields
    <3> QED BY <2>2, <3>1 DEF ReqsOf, FailedGets
  <2>4. /\ fw' = [r \in Requests |-> IF r \in ReqsOf(gets) /\ fw[r] = "loading" THEN "running" ELSE fw[r]]
        /\ held' = held \ (ReqsOf(gets) \union ReqsOf(puts))
        /\ kv' = [r \in Requests |-> IF r \in bad /\ fw[r] = "loading" THEN "garbage" ELSE kv[r]]
    BY <2>1 DEF Apply
  <2> HIDE DEF gets, puts, bad
  <2> DEFINE a == Answered(conn, done)
  <2>5. /\ a \in ConnState
        /\ a.tasks_to_launch = conn.tasks_to_launch /\ a.tasks_to_cancel = conn.tasks_to_cancel
        /\ a.failed_block_ids = conn.failed_block_ids
        /\ \A t \in Ids : /\ a.get_tasks[t] = IF t \in done THEN {} ELSE conn.get_tasks[t]
                          /\ a.put_tasks[t] = IF t \in done THEN {} ELSE conn.put_tasks[t]
        /\ \A q \in Requests : a.req_id_to_task_dict[q] =
             IF \E t \in done : q \in mgr.req[t] THEN NoTask ELSE conn.req_id_to_task_dict[q]
    BY <1>1, <2>2, AnsweredFields
  <2>6. conn' = [a EXCEPT !.failed_block_ids = @ \union bad]
    BY <2>1, <2>3
  <2> HIDE DEF a, done
  <2>7. /\ conn' \in ConnState /\ conn'.failed_block_ids = a.failed_block_ids \union bad
        /\ conn'.tasks_to_launch = a.tasks_to_launch /\ conn'.tasks_to_cancel = a.tasks_to_cancel
        /\ conn'.get_tasks = a.get_tasks /\ conn'.put_tasks = a.put_tasks
        /\ conn'.req_id_to_task_dict = a.req_id_to_task_dict
    BY <2>3, <2>5, <2>6 DEF ConnState
  <2>7a. /\ done \in SUBSET Ids /\ mgr' = CancelIds(mgr, done)
         /\ \A t \in done : Asked(conn, t)
    BY <2>1, <2>2 DEF done
  <2>7b. /\ conn'.tasks_to_launch = conn.tasks_to_launch /\ conn'.tasks_to_cancel = conn.tasks_to_cancel
         /\ \A t \in Ids : /\ conn'.get_tasks[t] = IF t \in done THEN {} ELSE conn.get_tasks[t]
                           /\ conn'.put_tasks[t] = IF t \in done THEN {} ELSE conn.put_tasks[t]
         /\ \A q \in Requests : conn'.req_id_to_task_dict[q] =
              IF \E t \in done : q \in mgr.req[t] THEN NoTask ELSE conn.req_id_to_task_dict[q]
    BY <2>5, <2>7
  <2>8. Forgets(conn, mgr, conn', mgr', done) /\ \A t \in done : KnownTask(conn, t)
    BY <1>1, <2>7, <2>7a, <2>7b, AnswerForgets
  <2>9. /\ Tables(conn', mgr', fw, held, dropped)
        /\ \A q \in Requests : TrackedIn(conn, mgr, q) =>
             TrackedIn(conn', mgr', q) \/ \E t \in done : q \in mgr.req[t] /\ Submitted(conn, t)
    BY <1>1, <2>7a, <2>8, ForgetKeeps
  <2>10. /\ mgr' \in MgrState
         /\ \A q \in Requests : conn'.req_id_to_task_dict[q] =
              IF \E t \in done : q \in mgr.req[t] THEN NoTask ELSE conn.req_id_to_task_dict[q]
    BY <2>8 DEF Forgets
  <2>11. \A q \in Requests : /\ q \in ReqsOf(gets) => conn'.req_id_to_task_dict[q] = NoTask
                             /\ q \in ReqsOf(puts) => conn'.req_id_to_task_dict[q] = NoTask /\ fw[q] = "gone"
    <3> SUFFICES ASSUME NEW q \in Requests
                 PROVE  /\ q \in ReqsOf(gets) => conn'.req_id_to_task_dict[q] = NoTask
                        /\ q \in ReqsOf(puts) => conn'.req_id_to_task_dict[q] = NoTask /\ fw[q] = "gone"
      OBVIOUS
    <3>1. gets \subseteq done /\ puts \subseteq done
      BY DEF done
    <3>2. ASSUME NEW t \in puts, q \in mgr.req[t] PROVE fw[q] = "gone"
      BY <1>1, <2>2, <3>2 DEF Tables, BlocksKept
    <3> QED BY <2>3, <2>10, <3>1, <3>2
  <2>12. \A q \in Requests : /\ fw'[q] = IF q \in ReqsOf(gets) /\ fw[q] = "loading" THEN "running" ELSE fw[q]
                             /\ q \in held' <=> q \in held /\ q \notin ReqsOf(gets) /\ q \notin ReqsOf(puts)
    BY <2>4
  <2>13. Tables(conn', mgr', fw', held', dropped')
    <3>1. Tables(conn', mgr', fw', held', dropped)
      BY <2>7, <2>9, <2>10, <2>11, <2>12, FrameworkKeeps
    <3> QED BY <1>2, <3>1
  <2>14. LoopTypes'
    <3>1. fw' \in [Requests -> {"waiting", "loading", "running", "gone"}] /\ kv' \in [Requests -> {"none", "garbage"}]
      BY <1>1, <2>4, LoopFields
    <3>2. held' \in SUBSET Requests
      BY <1>1, <2>4 DEF LoopTypes
    <3> QED BY <1>1, <1>2, <2>7, <2>10, <3>1, <3>2 DEF LoopTypes
  <2>15. HeldGone'
    <3>1. held' \subseteq held /\ held \subseteq Requests
      BY <1>1, <2>4 DEF LoopTypes
    <3> QED BY <2>12, <3>1 DEF ConnInv, HeldGone
  <2>16. Entries(conn', mgr', fw', visited', phase')
    <3> SUFFICES ASSUME NEW q \in Requests, conn'.req_id_to_task_dict[q] # NoTask
                 PROVE  fw'[q] # "running" /\ fw'[q] # "waiting"
      BY DEF Entries
    <3> QED BY <1>4, <2>10, <2>11, <2>12
  <2>17. Matching' /\ Preempted'
    <3>1. \A q \in step.previous : q \in step.finished \/ fw[q] = "running"
      BY <1>3 DEF ConnInv, Preempted
    <3> QED BY <1>1, <1>2, <1>3, <2>12, <3>1, LoopFields DEF Matching, Preempted
  <2>18. Reports'
    BY <1>1, <1>2 DEF Reports, NoMeta
  <2>19. Flags'
    BY <1>2, <1>5, <2>4, <2>7 DEF Flags
  <2>20. WaitersHeard'
    <3> SUFFICES ASSUME adapter # "vllm_sync", NEW q \in Requests, q \notin dropped,
                        fw'[q] = "loading" \/ q \in held'
                 PROVE  TrackedIn(conn', mgr', q)
      BY <1>2 DEF WaitersHeard
    <3>1. /\ fw[q] = "loading" \/ q \in held
          /\ q \notin ReqsOf(gets) /\ q \notin ReqsOf(puts)
      BY <2>11, <2>12
    <3>2. TrackedIn(conn, mgr, q)
      BY <1>1, <3>1 DEF ConnInv, WaitersHeard, NoMeta
    <3>3. ~ \E t \in done : q \in mgr.req[t]
      BY <2>2, <2>3, <3>1
    <3> QED BY <2>9, <3>2, <3>3
  <2> QED BY <2>13, <2>14, <2>15, <2>16, <2>17, <2>18, <2>19, <2>20 DEF ConnInv
<1> QED BY <1>6, <1>7

(* The load errors are handed over. *)
LEMMA FailedIdsKeeps ==
  ASSUME ConnInv, get_and_clear_failed_block_ids, metadata' = metadata PROVE ConnInv'
<1>1. /\ LoopTypes /\ conn \in ConnState /\ mgr \in MgrState /\ Tables(conn, mgr, fw, held, dropped)
      /\ phase = "errors" /\ adapter \in {"vllm", "vllm_sync"} /\ metadata = NoMeta
  BY DEF ConnInv, LoopTypes, get_and_clear_failed_block_ids, Vllm, Reports
<1>2. /\ kv' = [r \in Requests |-> IF r \in conn.failed_block_ids THEN "none" ELSE kv[r]]
      /\ conn' = [conn EXCEPT !.failed_block_ids = {}] /\ phase' = "finish"
      /\ UNCHANGED << fw, held, matching, visited, step, mgr, adapter, dropped >>
  BY DEF get_and_clear_failed_block_ids
<1>3. /\ conn' \in ConnState /\ conn'.req_id_to_task_dict = conn.req_id_to_task_dict
      /\ conn'.get_tasks = conn.get_tasks /\ conn'.put_tasks = conn.put_tasks
      /\ conn'.tasks_to_launch = conn.tasks_to_launch /\ conn'.tasks_to_cancel = conn.tasks_to_cancel
  BY <1>1, <1>2 DEF ConnState
<1>4. Tables(conn', mgr', fw', held', dropped')
  BY <1>1, <1>2, <1>3 DEF Tables, PlansKnown, RunsAsked, OneTask, BlocksKept, Planned, Asked, Submitted, KnownTask
<1>5. kv' \in [Requests -> {"none", "garbage"}]
  BY <1>1, <1>2, LoopFields
<1>6. LoopTypes'
  BY <1>1, <1>2, <1>3, <1>5 DEF LoopTypes
<1>7. HeldGone' /\ Matching' /\ Preempted'
  BY <1>1, <1>2, <1>3 DEF ConnInv, HeldGone, Matching, Preempted
<1>8. Entries(conn', mgr', fw', visited', phase')
  BY <1>1, <1>2, <1>3 DEF ConnInv, Entries
<1>9. Reports' /\ Flags'
  BY <1>1, <1>2 DEF ConnInv, Reports, Flags, NoMeta
<1>10. WaitersHeard'
  BY <1>2, <1>3 DEF ConnInv, WaitersHeard, TrackedIn, Submitted, Asked
<1> QED BY <1>4, <1>6, <1>7, <1>8, <1>9, <1>10 DEF ConnInv

(* A connector that knows nothing. *)
LEMMA NoConnFields ==
  /\ NoConnState \in ConnState
  /\ \A r \in Requests : NoConnState.req_id_to_task_dict[r] = NoTask
  /\ \A t \in Ids : ~ KnownTask(NoConnState, t) /\ ~ Submitted(NoConnState, t)
  /\ \A t \in Ids : NoConnState.put_tasks[t] = {} /\ t \notin NoConnState.tasks_to_launch
  /\ NoConnState.failed_block_ids = {}
<1>1. NoConnState \in ConnState
  BY DEF NoConnState, ConnState
<1>2. /\ NoConnState.req_id_to_task_dict = [r \in Requests |-> NoTask]
      /\ NoConnState.get_tasks = [t \in Ids |-> {}] /\ NoConnState.put_tasks = [t \in Ids |-> {}]
      /\ NoConnState.tasks_to_launch = {} /\ NoConnState.tasks_to_cancel = {}
      /\ NoConnState.failed_block_ids = {}
  BY DEF NoConnState
<1> QED BY <1>1, <1>2 DEF KnownTask, Submitted, Planned, Asked

(* reset_cache: what ran on is dropped, and nothing else was known. *)
LEMMA ResetCacheKeeps ==
  ASSUME ConnInv, reset_cache, metadata' = metadata PROVE ConnInv'
<1>1. /\ LoopTypes /\ conn \in ConnState /\ mgr \in MgrState /\ Tables(conn, mgr, fw, held, dropped)
      /\ phase = "finish" /\ adapter \in {"vllm", "vllm_sync"} /\ metadata = NoMeta
  BY DEF ConnInv, LoopTypes, reset_cache, Vllm, Reports
<1> DEFINE ts == { t \in Ids : mgr.st[t] = "matched" }
<1>2. /\ conn' = NoConnState /\ mgr' = CancelIds(mgr, ts)
      /\ dropped' = dropped \union { r \in Requests : conn.req_id_to_task_dict[r] # NoTask }
      /\ UNCHANGED << phase, fw, held, kv, matching, visited, step, adapter >>
  BY DEF reset_cache
<1>3. /\ mgr' \in MgrState /\ mgr'.next = mgr.next
      /\ \A t \in Ids : mgr.st[t] # "matched" => mgr'.st[t] = mgr.st[t] /\ mgr'.req[t] = mgr.req[t]
      /\ \A t \in Ids : mgr.st[t] = "matched" => mgr'.st[t] = "closed" /\ mgr'.req[t] = {}
  <2>1. ts \in SUBSET Ids
    OBVIOUS
  <2> QED BY <1>1, <1>2, <2>1, CancelEffect
<1> HIDE DEF ts
<1>4. /\ conn' \in ConnState /\ conn'.failed_block_ids = {}
      /\ \A r \in Requests : conn'.req_id_to_task_dict[r] = NoTask
      /\ \A t \in Ids : ~ KnownTask(conn', t) /\ ~ Submitted(conn', t)
      /\ \A t \in Ids : conn'.put_tasks[t] = {} /\ t \notin conn'.tasks_to_launch
  BY <1>2, NoConnFields
<1>5. \A t \in Ids : KnownTask(conn, t) => mgr.req[t] \subseteq dropped'
  <2>1. \A t \in Ids : mgr.req[t] \subseteq Requests
    BY <1>1, MgrFields
  <2> QED BY <1>1, <1>2, <2>1 DEF Tables, OneTask
<1>6. PlansKnown(conn', mgr')
  BY <1>3, <1>4 DEF PlansKnown, KnownTask, Planned
<1>7. RunsAsked(conn', mgr', dropped')
  <2>1. \A t \in Ids : mgr'.st[t] = "running" => mgr.st[t] = "running" /\ mgr'.req[t] = mgr.req[t]
    BY <1>3
  <2>2. \A t \in Ids : mgr.st[t] = "running" => mgr.req[t] \subseteq dropped'
    BY <1>1, <1>2, <1>5 DEF Tables, RunsAsked, KnownTask
  <2> QED BY <1>4, <2>1, <2>2 DEF RunsAsked, KnownTask
<1>8. IdsInOrder(mgr')
  <2> SUFFICES ASSUME NEW t \in 1 .. MaxTask
               PROVE  /\ t >= mgr'.next => mgr'.st[t] = "none"
                      /\ mgr'.st[MaxTask + t] # "none" => mgr'.st[t] = "closed"
    BY DEF IdsInOrder
  <2>1. /\ t \in Ids /\ MaxTask + t \in Ids
        /\ t >= mgr.next => mgr.st[t] = "none"
        /\ mgr.st[MaxTask + t] # "none" => mgr.st[t] = "closed"
    BY <1>1, TaskIds DEF IdsInOrder, Tables
  <2> QED BY <1>3, <2>1
<1>9. OneTask(conn', mgr')
  BY <1>4 DEF OneTask
<1>10. BlocksKept(conn', mgr', fw', held')
  BY <1>4 DEF BlocksKept
<1>11. LoopTypes'
  BY <1>1, <1>2, <1>3, <1>4 DEF LoopTypes
<1>12. HeldGone' /\ Matching' /\ Preempted'
  BY <1>1, <1>2, <1>4 DEF ConnInv, HeldGone, Matching, Preempted
<1>13. Entries(conn', mgr', fw', visited', phase')
  BY <1>4 DEF Entries
<1>14. Reports' /\ Flags'
  BY <1>1, <1>2 DEF ConnInv, Reports, Flags, NoMeta
<1>15. WaitersHeard'
  <2> SUFFICES ASSUME adapter # "vllm_sync", NEW q \in Requests, q \notin dropped',
                      fw[q] = "loading" \/ q \in held
               PROVE  FALSE
    BY <1>2 DEF WaitersHeard
  <2>1. TrackedIn(conn, mgr, q)
    BY <1>1, <1>2 DEF ConnInv, WaitersHeard, NoMeta
  <2> PICK t \in Ids : q \in mgr.req[t] /\ Submitted(conn, t)
    BY <2>1 DEF TrackedIn
  <2> QED BY <1>5 DEF Submitted, KnownTask, Planned
<1> QED BY <1>6, <1>7, <1>8, <1>9, <1>10, <1>11, <1>12, <1>13, <1>14, <1>15 DEF ConnInv, Tables

-----------------------------------------------------------------------------
(* The TensorRT-LLM adapter: cancel_tasks, launch_tasks, query_finished_task. *)
LEMMA TrtCancelledSame ==
  TrtCancelled(conn) = Cancelled(conn, mgr).c /\ CancelIds(mgr, conn.tasks_to_cancel) = Cancelled(conn, mgr).m
BY DEF TrtCancelled, Cancelled, Pair

(* launch_tasks: each task under its own id. *)
TrtLaunches(c, m, c2, n) ==
  /\ n = LaunchEach(m, c.tasks_to_launch)
  /\ c2 \in ConnState /\ c2.tasks_to_launch = {} /\ c2.tasks_to_cancel = c.tasks_to_cancel
  /\ c2.req_id_to_task_dict = c.req_id_to_task_dict
  /\ \A t \in Ids : c2.get_tasks[t] =
       IF t \in c.tasks_to_launch /\ m.kind[t] = "get" THEN {t} ELSE c.get_tasks[t]
  /\ \A t \in Ids : c2.put_tasks[t] =
       IF t \in c.tasks_to_launch /\ m.kind[t] = "put" THEN {t} ELSE c.put_tasks[t]

(* The launch of the TensorRT-LLM adapter keeps the tables. *)
LEMMA TrtLaunchKeeps ==
  ASSUME NEW c \in ConnState, NEW m \in MgrState, NEW f, NEW h, NEW d, Tables(c, m, f, h, d),
         NEW c2, NEW n, TrtLaunches(c, m, c2, n)
  PROVE  /\ n \in MgrState /\ Tables(c2, n, f, h, d)
         /\ \A q \in Requests : TrackedIn(c, m, q) => TrackedIn(c2, n, q)
<1> USE DEF TrtLaunches
<1> DEFINE L == c.tasks_to_launch
           U == [t \in Ids |-> IF t \in L THEN {t} ELSE {}]
<1>1. L \in SUBSET Ids /\ \A t \in L : m.kind[t] \in {"get", "put"}
  BY ConnFields DEF Tables, PlansKnown, Planned
<1>2. \A t \in Ids : U[t] = IF t \in L THEN {t} ELSE {}
  OBVIOUS
<1>3. Carries(m, n, U, L) /\ n \in MgrState
  <2>1. Carries(m, n, U, L)
    BY <1>1, EachLaunches
  <2> QED BY <2>1 DEF Carries
<1> HIDE DEF U
<1>4. ASSUME NEW t \in Ids
      PROVE  /\ (Asked(c2, t) <=> (Asked(c, t) \/ U[t] # {}))
             /\ c2.put_tasks[t] # {} =>
                  c.put_tasks[t] # {} \/ (U[t] # {} /\ \A u \in U[t] : m.kind[u] # "get")
  <2>1. CASE t \in L
    <3>1. U[t] = {t} /\ Asked(c2, t)
      BY <1>1, <1>2, <2>1 DEF Asked
    <3>2. c2.put_tasks[t] # {} /\ c.put_tasks[t] = {} => m.kind[t] = "put"
      OBVIOUS
    <3> QED BY <3>1, <3>2
  <2>2. CASE t \notin L
    BY <2>2, <1>2 DEF Asked
  <2> QED BY <2>1, <2>2
<1>5. \A t \in Ids : /\ (Asked(c2, t) <=> (Asked(c, t) \/ U[t] # {}))
                     /\ c2.put_tasks[t] # {} =>
                          c.put_tasks[t] # {} \/ (U[t] # {} /\ \A u \in U[t] : m.kind[u] # "get")
  BY <1>4
<1>6. /\ Tables(c2, n, f, h, d)
      /\ \A q \in Requests : TrackedIn(c, m, q) => TrackedIn(c2, n, q)
  <2>1. Carries(m, n, U, c.tasks_to_launch)
    BY <1>3
  <2>2. Launches(c, m, c2, n, U)
    BY <1>5, <2>1 DEF Launches
  <2> QED BY <2>2, LaunchKeeps
<1> QED BY <1>3, <1>6

(* What TrtLaunched does, field by field. *)
LEMMA TrtLaunchedFields ==
  ASSUME LoopTypes, NEW c \in ConnState
  PROVE  LET c2 == TrtLaunched(c) IN
         /\ c2 \in ConnState /\ c2.tasks_to_launch = {} /\ c2.tasks_to_cancel = c.tasks_to_cancel
         /\ c2.req_id_to_task_dict = c.req_id_to_task_dict
         /\ c2.failed_block_ids = c.failed_block_ids
         /\ \A t \in Ids : c2.get_tasks[t] =
              IF t \in c.tasks_to_launch /\ mgr.kind[t] = "get" THEN {t} ELSE c.get_tasks[t]
         /\ \A t \in Ids : c2.put_tasks[t] =
              IF t \in c.tasks_to_launch /\ mgr.kind[t] = "put" THEN {t} ELSE c.put_tasks[t]
<1> DEFINE G == [t \in Ids |-> IF t \in c.tasks_to_launch /\ mgr.kind[t] = "get" THEN {t} ELSE c.get_tasks[t]]
           P == [t \in Ids |-> IF t \in c.tasks_to_launch /\ mgr.kind[t] = "put" THEN {t} ELSE c.put_tasks[t]]
           c2 == TrtLaunched(c)
<1>1. c2 = [c EXCEPT !.get_tasks = G, !.put_tasks = P, !.tasks_to_launch = {}]
  BY DEF TrtLaunched
<1>2. G \in [Ids -> SUBSET Ids] /\ P \in [Ids -> SUBSET Ids]
  BY ConnFields
<1>3. /\ \A t \in Ids : G[t] = IF t \in c.tasks_to_launch /\ mgr.kind[t] = "get" THEN {t} ELSE c.get_tasks[t]
      /\ \A t \in Ids : P[t] = IF t \in c.tasks_to_launch /\ mgr.kind[t] = "put" THEN {t} ELSE c.put_tasks[t]
  OBVIOUS
<1> HIDE DEF c2, G, P
<1>4. /\ c2 \in ConnState /\ c2.get_tasks = G /\ c2.put_tasks = P /\ c2.tasks_to_launch = {}
      /\ c2.tasks_to_cancel = c.tasks_to_cancel /\ c2.failed_block_ids = c.failed_block_ids
      /\ c2.req_id_to_task_dict = c.req_id_to_task_dict
  BY <1>1, <1>2 DEF ConnState
<1> QED BY <1>3, <1>4 DEF c2

(* query_finished_task forgets what it reports. *)
TrtDone(c, m) == Ended(m, { t \in Ids : c.get_tasks[t] \union c.put_tasks[t] # {} })

LEMMA TrtQueryForgets ==
  ASSUME NEW c \in ConnState, NEW m \in MgrState, NEW f, NEW h, NEW d, Tables(c, m, f, h, d),
         ~ \A r \in Requests : c.req_id_to_task_dict[r] = NoTask
  PROVE  LET q == TrtQueried(c, m)
             done == TrtDone(c, m) IN
         /\ Forgets(c, m, q.c, q.m, done) /\ q.c.failed_block_ids = c.failed_block_ids
         /\ done \in SUBSET Ids /\ \A t \in done : KnownTask(c, t) /\ Asked(c, t)
         /\ q.meta \in [sending : SUBSET Requests, recving : SUBSET Requests, failed : SUBSET Requests]
         /\ \A r : r \in q.meta.recving <=> \E t \in done : c.get_tasks[t] # {} /\ r \in m.req[t]
         /\ \A r : r \in q.meta.sending <=> \E t \in done : c.get_tasks[t] = {} /\ r \in m.req[t]
<1> DEFINE q == TrtQueried(c, m)
           done == TrtDone(c, m)
           gets == { t \in done : c.get_tasks[t] # {} }
           G == [t \in Ids |-> IF t \in done THEN {} ELSE c.get_tasks[t]]
           P == [t \in Ids |-> IF t \in done THEN {} ELSE c.put_tasks[t]]
           rs(ts) == UNION { m.req[t] : t \in ts }
           D == [r \in Requests |-> IF r \in rs(done) THEN NoTask ELSE c.req_id_to_task_dict[r]]
           c2 == [c EXCEPT !.get_tasks = G, !.put_tasks = P, !.req_id_to_task_dict = D]
           meta == [recving |-> rs(gets), sending |-> rs(done \ gets),
                    failed |-> rs({ t \in gets : m.st[t] = "failed" })]
<1>1. done \in SUBSET Ids /\ \A t \in done : Asked(c, t)
  BY DEF TrtDone, Ended, Asked
<1>2. q.c = c2 /\ q.m = CancelIds(m, done) /\ q.meta = meta
  BY DEF TrtQueried, TrtDone
<1> HIDE DEF q, done
<1>3. /\ G \in [Ids -> SUBSET Ids] /\ P \in [Ids -> SUBSET Ids]
      /\ D \in [Requests -> Ids \union {NoTask}]
  BY ConnFields
<1>4. /\ \A t \in Ids : G[t] = IF t \in done THEN {} ELSE c.get_tasks[t]
      /\ \A t \in Ids : P[t] = IF t \in done THEN {} ELSE c.put_tasks[t]
      /\ \A r \in Requests : D[r] = IF \E t \in done : r \in m.req[t] THEN NoTask ELSE c.req_id_to_task_dict[r]
  OBVIOUS
<1>5. \A t \in Ids : m.req[t] \subseteq Requests
  BY MgrFields
<1>6. /\ meta \in [sending : SUBSET Requests, recving : SUBSET Requests, failed : SUBSET Requests]
      /\ \A r : r \in meta.recving <=> \E t \in done : c.get_tasks[t] # {} /\ r \in m.req[t]
      /\ \A r : r \in meta.sending <=> \E t \in done : c.get_tasks[t] = {} /\ r \in m.req[t]
  BY <1>1, <1>5
<1> HIDE DEF G, P, D, meta
<1>7. /\ c2 \in ConnState /\ c2.get_tasks = G /\ c2.put_tasks = P /\ c2.req_id_to_task_dict = D
      /\ c2.tasks_to_launch = c.tasks_to_launch /\ c2.tasks_to_cancel = c.tasks_to_cancel
      /\ c2.failed_block_ids = c.failed_block_ids
  BY <1>3 DEF ConnState
<1> HIDE DEF c2
<1>8. /\ \A t \in Ids : /\ c2.get_tasks[t] = IF t \in done THEN {} ELSE c.get_tasks[t]
                        /\ c2.put_tasks[t] = IF t \in done THEN {} ELSE c.put_tasks[t]
      /\ \A r \in Requests : c2.req_id_to_task_dict[r] =
           IF \E t \in done : r \in m.req[t] THEN NoTask ELSE c.req_id_to_task_dict[r]
  BY <1>4, <1>7
<1>9. Forgets(c, m, c2, CancelIds(m, done), done) /\ \A t \in done : KnownTask(c, t)
  BY <1>1, <1>7, <1>8, AnswerForgets
<1> QED BY <1>1, <1>2, <1>6, <1>7, <1>9 DEF q, done

(* build_connector_meta of the TensorRT-LLM adapter: cancel, launch, ask. *)
LEMMA TrtBuildKeeps ==
  ASSUME ConnInv, TrtBuildConnectorMeta PROVE ConnInv'
<1>1. /\ LoopTypes /\ conn \in ConnState /\ mgr \in MgrState /\ Tables(conn, mgr, fw, held, dropped)
      /\ adapter = "trtllm" /\ phase = "schedule" /\ matching = {}
  BY DEF ConnInv, LoopTypes, TrtBuildConnectorMeta
<1> DEFINE a == TrtCancelled(conn)
           k == CancelIds(mgr, conn.tasks_to_cancel)
           c == TrtLaunched(a)
           m == LaunchEach(k, conn.tasks_to_launch)
           q == TrtQueried(c, m)
<1>2. /\ conn' = q.c /\ mgr' = q.m /\ metadata' = q.meta /\ phase' = "run"
      /\ step' = [preempted |-> {}, finished |-> {}, previous |-> {}]
      /\ visited' = {} /\ UNCHANGED << fw, held, kv, matching, adapter, dropped >>
  BY DEF TrtBuildConnectorMeta
<1>3. /\ Forgets(conn, mgr, a, k, conn.tasks_to_cancel)
      /\ a.tasks_to_launch = conn.tasks_to_launch
  <2>1. /\ Forgets(conn, mgr, Cancelled(conn, mgr).c, Cancelled(conn, mgr).m, conn.tasks_to_cancel)
        /\ Cancelled(conn, mgr).c.tasks_to_launch = conn.tasks_to_launch
    BY <1>1, CancelForgets
  <2> HIDE DEF a, k
  <2>2. a = Cancelled(conn, mgr).c /\ k = Cancelled(conn, mgr).m
    BY TrtCancelledSame DEF a, k
  <2> QED BY <2>1, <2>2
<1> HIDE DEF a, k
<1>4. /\ a \in ConnState /\ k \in MgrState
      /\ \A r \in Requests : a.req_id_to_task_dict[r] =
           IF \E t \in conn.tasks_to_cancel : r \in mgr.req[t] THEN NoTask ELSE conn.req_id_to_task_dict[r]
  BY <1>3 DEF Forgets
<1>5. /\ Tables(a, k, fw, held, dropped)
      /\ \A r \in Requests : TrackedIn(conn, mgr, r) => TrackedIn(a, k, r)
  BY <1>1, <1>3, CancelKeeps
<1>6. \A t \in a.tasks_to_launch : t \in Ids /\ mgr.kind[t] = k.kind[t]
  <2>1. \A t \in conn.tasks_to_launch : t \in Ids /\ t \notin conn.tasks_to_cancel
    BY <1>1, ConnFields DEF Tables, PlansKnown
  <2> QED BY <1>3, <2>1 DEF Forgets
<1>7. /\ c \in ConnState /\ c.tasks_to_launch = {} /\ c.tasks_to_cancel = a.tasks_to_cancel
      /\ c.req_id_to_task_dict = a.req_id_to_task_dict
      /\ \A t \in Ids : c.get_tasks[t] =
           IF t \in a.tasks_to_launch /\ k.kind[t] = "get" THEN {t} ELSE a.get_tasks[t]
      /\ \A t \in Ids : c.put_tasks[t] =
           IF t \in a.tasks_to_launch /\ k.kind[t] = "put" THEN {t} ELSE a.put_tasks[t]
  BY <1>1, <1>4, <1>6, TrtLaunchedFields
<1>8. m = LaunchEach(k, a.tasks_to_launch)
  BY <1>3
<1> HIDE DEF c, m
<1>9. /\ m \in MgrState /\ Tables(c, m, fw, held, dropped)
      /\ \A r \in Requests : TrackedIn(a, k, r) => TrackedIn(c, m, r)
  <2>1. TrtLaunches(a, k, c, m)
    BY <1>7, <1>8 DEF TrtLaunches
  <2> QED BY <1>4, <1>5, <2>1, TrtLaunchKeeps
<1>10. \A r \in Requests : c.req_id_to_task_dict[r] # NoTask =>
         conn.req_id_to_task_dict[r] # NoTask /\ fw[r] # "running" /\ fw[r] # "waiting"
  <2> SUFFICES ASSUME NEW r \in Requests, c.req_id_to_task_dict[r] # NoTask
               PROVE  conn.req_id_to_task_dict[r] # NoTask /\ fw[r] # "running" /\ fw[r] # "waiting"
    OBVIOUS
  <2>1. /\ conn.req_id_to_task_dict[r] # NoTask
        /\ ~ \E t \in conn.tasks_to_cancel : r \in mgr.req[t]
    BY <1>4, <1>7
  <2> QED BY <2>1 DEF ConnInv, Entries
<1>11. step' \in [preempted : SUBSET Requests, finished : SUBSET Requests, previous : SUBSET Requests]
       /\ Preempted' /\ Matching' /\ HeldGone' /\ Flags'
  BY <1>1, <1>2 DEF Preempted, Matching, HeldGone, Flags, ConnInv
<1>12. \A r \in Requests : r \notin dropped /\ (fw[r] = "loading" \/ r \in held) => TrackedIn(c, m, r)
  <2>1. metadata = NoMeta
    BY <1>1 DEF ConnInv, Reports
  <2> QED BY <1>1, <1>5, <1>9, <2>1 DEF ConnInv, WaitersHeard, NoMeta
<1>13. CASE \A r \in Requests : c.req_id_to_task_dict[r] = NoTask
  <2>1. conn' = c /\ mgr' = m /\ metadata' = NoMeta
    BY <1>2, <1>13 DEF TrtQueried
  <2>2. LoopTypes' /\ Tables(conn', mgr', fw', held', dropped')
    BY <1>1, <1>2, <1>7, <1>9, <1>11, <2>1 DEF LoopTypes, NoMeta
  <2>3. Entries(conn', mgr', fw', visited', phase')
    BY <1>13, <2>1 DEF Entries
  <2>4. Reports' /\ WaitersHeard'
    BY <1>2, <1>12, <2>1 DEF Reports, WaitersHeard, NoMeta
  <2> QED BY <1>11, <2>2, <2>3, <2>4 DEF ConnInv
<1>14. CASE ~ \A r \in Requests : c.req_id_to_task_dict[r] = NoTask
  <2> DEFINE done == TrtDone(c, m)
  <2>1. /\ Forgets(c, m, conn', mgr', done)
        /\ done \in SUBSET Ids /\ \A t \in done : KnownTask(c, t) /\ Asked(c, t)
        /\ metadata' \in [sending : SUBSET Requests, recving : SUBSET Requests, failed : SUBSET Requests]
        /\ \A r : r \in metadata'.recving <=> \E t \in done : c.get_tasks[t] # {} /\ r \in m.req[t]
        /\ \A r : r \in metadata'.sending <=> \E t \in done : c.get_tasks[t] = {} /\ r \in m.req[t]
    BY <1>2, <1>7, <1>9, <1>14, TrtQueryForgets
  <2> HIDE DEF done
  <2>2. /\ Tables(conn', mgr', fw, held, dropped)
        /\ \A r \in Requests : TrackedIn(c, m, r) =>
             TrackedIn(conn', mgr', r) \/ \E t \in done : r \in m.req[t] /\ Submitted(c, t)
    BY <1>7, <1>9, <2>1, ForgetKeeps
  <2>3. /\ conn' \in ConnState /\ mgr' \in MgrState
        /\ \A r \in Requests : conn'.req_id_to_task_dict[r] =
             IF \E t \in done : r \in m.req[t] THEN NoTask ELSE c.req_id_to_task_dict[r]
    BY <2>1 DEF Forgets
  <2>4. LoopTypes' /\ Tables(conn', mgr', fw', held', dropped')
    BY <1>1, <1>2, <1>11, <2>1, <2>2, <2>3 DEF LoopTypes
  <2>5. Entries(conn', mgr', fw', visited', phase')
    BY <1>2, <1>10, <2>3 DEF Entries
  <2>6. ASSUME NEW r \in Requests
        PROVE  /\ r \in metadata'.recving \/ r \in metadata'.sending =>
                    conn'.req_id_to_task_dict[r] = NoTask /\ fw[r] \in {"loading", "gone"}
               /\ r \in metadata'.sending => fw[r] = "gone"
    <3>1. ASSUME NEW t \in done, r \in m.req[t]
          PROVE  /\ conn'.req_id_to_task_dict[r] = NoTask /\ fw[r] \in {"loading", "gone"}
                 /\ c.get_tasks[t] = {} => fw[r] = "gone"
      <4>1. t \in Ids /\ Submitted(c, t) /\ (c.get_tasks[t] = {} => c.put_tasks[t] # {})
        BY <2>1 DEF Submitted, Asked
      <4>2. fw[r] = "loading" \/ r \in held
        BY <1>9, <3>1, <4>1 DEF Tables, BlocksKept
      <4>3. c.get_tasks[t] = {} => fw[r] = "gone"
        BY <1>9, <3>1, <4>1 DEF Tables, BlocksKept
      <4> QED BY <2>3, <3>1, <4>2, <4>3 DEF ConnInv, HeldGone
    <3> QED BY <2>1, <3>1
  <2>7. Reports'
    BY <1>1, <1>2, <2>6 DEF Reports
  <2>8. WaitersHeard'
    <3> SUFFICES ASSUME NEW r \in Requests, r \notin dropped, fw[r] = "loading" \/ r \in held
                 PROVE  TrackedIn(conn', mgr', r) \/ r \in metadata'.recving \/ r \in metadata'.sending
      BY <1>2 DEF WaitersHeard
    <3> QED BY <1>12, <2>1, <2>2
  <2> QED BY <1>11, <2>4, <2>5, <2>7, <2>8 DEF ConnInv
<1> QED BY <1>13, <1>14

(* The worker's get_finished: the reports reach the framework. *)
LEMMA TrtFinishedKeeps ==
  ASSUME ConnInv, TrtGetFinished PROVE ConnInv'
<1>1. /\ LoopTypes /\ conn \in ConnState /\ mgr \in MgrState /\ Tables(conn, mgr, fw, held, dropped)
      /\ phase = "run" /\ adapter = "trtllm" /\ matching = {} /\ step.preempted = {}
  BY DEF ConnInv, LoopTypes, TrtGetFinished, Matching, Preempted
<1>2. /\ phase' = "finish" /\ metadata' = NoMeta
      /\ UNCHANGED << matching, visited, step, conn, mgr, adapter, dropped >>
      /\ fw' = [r \in Requests |-> IF r \in metadata.recving /\ fw[r] = "loading" THEN "running" ELSE fw[r]]
      /\ held' = held \ (metadata.recving \union metadata.sending)
      /\ kv' = [r \in Requests |-> IF r \in metadata.failed /\ fw[r] = "loading" THEN "garbage" ELSE kv[r]]
  BY DEF TrtGetFinished, Apply
<1>3. \A r \in Requests : r \in metadata.recving \/ r \in metadata.sending => conn.req_id_to_task_dict[r] = NoTask
  BY DEF ConnInv, Reports
<1>4. \A r \in Requests : /\ fw'[r] = IF r \in metadata.recving /\ fw[r] = "loading" THEN "running" ELSE fw[r]
                          /\ r \in held' <=> r \in held /\ r \notin metadata.recving /\ r \notin metadata.sending
  BY <1>2
<1>5. Tables(conn', mgr', fw', held', dropped')
  <2>1. Tables(conn, mgr, fw', held', dropped)
    BY <1>1, <1>3, <1>4, FrameworkKeeps
  <2> QED BY <1>2, <2>1
<1>6. LoopTypes'
  <2>1. fw' \in [Requests -> {"waiting", "loading", "running", "gone"}] /\ kv' \in [Requests -> {"none", "garbage"}]
    BY <1>1, <1>2, LoopFields
  <2>2. held' \in SUBSET Requests
    BY <1>1, <1>2 DEF LoopTypes
  <2> QED BY <1>1, <1>2, <2>1, <2>2 DEF LoopTypes, NoMeta
<1>7. HeldGone'
  <2>1. held' \subseteq held /\ held \subseteq Requests
    BY <1>1, <1>2 DEF LoopTypes
  <2> QED BY <1>4, <2>1 DEF ConnInv, HeldGone
<1>8. Entries(conn', mgr', fw', visited', phase')
  <2> SUFFICES ASSUME NEW q \in Requests, conn.req_id_to_task_dict[q] # NoTask
               PROVE  fw'[q] # "running" /\ fw'[q] # "waiting"
    BY <1>2 DEF Entries
  <2>1. fw[q] # "running" /\ fw[q] # "waiting"
    BY <1>1 DEF ConnInv, Entries
  <2> QED BY <1>3, <1>4, <2>1
<1>9. Matching' /\ Preempted'
  <2>1. \A q \in step.previous : q \in step.finished \/ fw[q] = "running"
    BY <1>1 DEF ConnInv, Preempted
  <2> QED BY <1>1, <1>2, <1>4, <2>1, LoopFields DEF Matching, Preempted
<1>10. Reports' /\ Flags'
  BY <1>1, <1>2 DEF Reports, NoMeta, Flags
<1>11. WaitersHeard'
  <2> SUFFICES ASSUME NEW q \in Requests, q \notin dropped, fw'[q] = "loading" \/ q \in held'
               PROVE  TrackedIn(conn, mgr, q)
    BY <1>2 DEF WaitersHeard
  <2>1. (fw[q] = "loading" \/ q \in held) /\ q \notin metadata.recving /\ q \notin metadata.sending
    BY <1>4 DEF ConnInv, Reports
  <2> QED BY <1>1, <2>1 DEF ConnInv, WaitersHeard
<1> QED BY <1>5, <1>6, <1>7, <1>8, <1>9, <1>10, <1>11 DEF ConnInv

-----------------------------------------------------------------------------
(* The handlers, as the steps above. *)
LEMMA HitAdds ==
  ASSUME LoopTypes, CanMatch, NEW r \in Requests, NEW kind \in {"get", "put"}
  PROVE  TaskAdded(mgr, MatchTask(mgr, r, kind, TRUE), r, kind, {"matched"})
<1>1. mgr \in MgrState /\ mgr.next <= MaxTask
  BY DEF LoopTypes, CanMatch
<1> DEFINE n == NewTask(mgr, r, kind, "matched")
<1>2. /\ n \in MgrState /\ mgr.next \in Ids /\ mgr.next \in 1 .. MaxTask /\ n.next = mgr.next + 1
      /\ \A t \in Ids : t # mgr.next => n.st[t] = mgr.st[t] /\ n.req[t] = mgr.req[t] /\ n.kind[t] = mgr.kind[t]
      /\ n.st[mgr.next] = "matched" /\ n.req[mgr.next] = {r} /\ n.kind[mgr.next] = kind
  <2>1. TaskIn(mgr, n, r, kind, "matched")
    BY <1>1, NewTaskEffect
  <2> HIDE DEF n
  <2> QED BY <2>1 DEF TaskIn
<1> HIDE DEF n
<1>3. TaskAdded(mgr, n, r, kind, {"matched"})
  BY <1>2 DEF TaskAdded
<1>4. n = MatchTask(mgr, r, kind, TRUE)
  BY DEF n, NewTask, MatchTask
<1> QED BY <1>3, <1>4

(* A match without a hit leaves a task that has ended, or none. *)
LEMMA MissAdds ==
  ASSUME LoopTypes, CanMatch, NEW r \in Requests, NEW kind \in {"get", "put"}
  PROVE  /\ TaskAdded(mgr, MatchTask(mgr, r, kind, FALSE), r, kind, {"success", "closed"})
         /\ TaskAdded(mgr, CancelIds(MatchTask(mgr, r, kind, FALSE), {mgr.next}), r, kind, {"success", "closed"})
<1>1. mgr \in MgrState /\ mgr.next <= MaxTask
  BY DEF LoopTypes, CanMatch
<1> DEFINE n == NewTask(mgr, r, kind, "success")
           ts == {mgr.next}
           k == CancelIds(n, ts)
<1>2. /\ n \in MgrState /\ mgr.next \in Ids /\ mgr.next \in 1 .. MaxTask /\ n.next = mgr.next + 1
      /\ \A t \in Ids : t # mgr.next => n.st[t] = mgr.st[t] /\ n.req[t] = mgr.req[t] /\ n.kind[t] = mgr.kind[t]
      /\ n.st[mgr.next] = "success" /\ n.req[mgr.next] = {r} /\ n.kind[mgr.next] = kind
  <2>1. TaskIn(mgr, n, r, kind, "success")
    BY <1>1, NewTaskEffect
  <2> HIDE DEF n
  <2> QED BY <2>1 DEF TaskIn
<1> HIDE DEF n
<1>3. /\ k \in MgrState /\ k.next = n.next
      /\ \A t \in Ids : t # mgr.next => k.st[t] = n.st[t] /\ k.req[t] = n.req[t] /\ k.kind[t] = n.kind[t]
      /\ k.st[mgr.next] = "closed" /\ k.req[mgr.next] = {}
  <2>1. ts \in SUBSET Ids /\ \A t : t \in ts <=> t = mgr.next
    BY <1>2
  <2> HIDE DEF ts
  <2> QED BY <1>2, <2>1, CancelEffect
<1> HIDE DEF k
<1>4. TaskAdded(mgr, n, r, kind, {"success", "closed"})
  BY <1>2 DEF TaskAdded
<1>5. TaskAdded(mgr, k, r, kind, {"success", "closed"})
  BY <1>2, <1>3 DEF TaskAdded
<1>6. n = MatchTask(mgr, r, kind, FALSE) /\ k = CancelIds(n, {mgr.next})
  BY DEF n, k, NewTask, MatchTask
<1> QED BY <1>4, <1>5, <1>6

(* The connector's side of a match with a hit. *)
LEMMA PlanEffect ==
  ASSUME LoopTypes, CanMatch, NEW r \in Requests
  PROVE  /\ PlanAdded(conn, [conn EXCEPT !.req_id_to_task_dict[r] = mgr.next,
                                         !.tasks_to_cancel = @ \union {mgr.next}], r, mgr.next, FALSE)
         /\ PlanAdded(conn, [conn EXCEPT !.req_id_to_task_dict[r] = mgr.next,
                                         !.tasks_to_launch = @ \union {mgr.next}], r, mgr.next, TRUE)
<1>1. conn \in ConnState /\ mgr.next \in Ids
  BY MgrFields, LoopAssumption DEF LoopTypes, CanMatch, Ids
<1> DEFINE D == [conn.req_id_to_task_dict EXCEPT ![r] = mgr.next]
<1>2. /\ D \in [Requests -> Ids \union {NoTask}] /\ D[r] = mgr.next
      /\ \A q \in Requests : q # r => D[q] = conn.req_id_to_task_dict[q]
  BY <1>1, ConnFields
<1> DEFINE c == [conn EXCEPT !.req_id_to_task_dict[r] = mgr.next, !.tasks_to_cancel = @ \union {mgr.next}]
           e == [conn EXCEPT !.req_id_to_task_dict[r] = mgr.next, !.tasks_to_launch = @ \union {mgr.next}]
<1>3. /\ c.req_id_to_task_dict = D /\ c.get_tasks = conn.get_tasks /\ c.put_tasks = conn.put_tasks
      /\ c.failed_block_ids = conn.failed_block_ids /\ c.tasks_to_launch = conn.tasks_to_launch
      /\ c.tasks_to_cancel = conn.tasks_to_cancel \union {mgr.next} /\ c \in ConnState
  BY <1>1 DEF ConnState
<1>4. /\ e.req_id_to_task_dict = D /\ e.get_tasks = conn.get_tasks /\ e.put_tasks = conn.put_tasks
      /\ e.failed_block_ids = conn.failed_block_ids /\ e.tasks_to_cancel = conn.tasks_to_cancel
      /\ e.tasks_to_launch = conn.tasks_to_launch \union {mgr.next} /\ e \in ConnState
  BY <1>1 DEF ConnState
<1> HIDE DEF D, c, e
<1>5. PlanAdded(conn, c, r, mgr.next, FALSE) /\ PlanAdded(conn, e, r, mgr.next, TRUE)
  BY <1>2, <1>3, <1>4 DEF PlanAdded
<1> QED BY <1>5 DEF c, e

(* get_num_new_matched_tokens is one of the matches above. *)
LEMMA GetMatchKeeps ==
  ASSUME ConnInv, NEW r \in Requests, get_num_new_matched_tokens(r), metadata' = metadata
  PROVE  ConnInv'
<1>1. /\ LoopTypes /\ CanSchedule(r) /\ visited' = visited \union {r}
      /\ UNCHANGED << phase, held, kv, step, adapter, dropped, metadata >>
  BY DEF ConnInv, get_num_new_matched_tokens
<1>2. CASE fw' \in { fw, [fw EXCEPT ![r] = "running"] } /\ UNCHANGED << mgr, conn, matching >>
  BY <1>1, <1>2, MatchMissKeeps DEF MatchMiss
<1>3. CASE /\ CanMatch /\ fw' = fw /\ mgr' = MatchTask(mgr, r, "get", TRUE)
           /\ conn' = [conn EXCEPT !.req_id_to_task_dict[r] = mgr.next,
                                   !.tasks_to_cancel = @ \union {mgr.next}]
           /\ matching' = {r}
  <2>1. TaskAdded(mgr, mgr', r, "get", {"matched"})
    BY <1>1, <1>3, HitAdds
  <2>2. PlanAdded(conn, conn', r, mgr.next, FALSE)
    BY <1>1, <1>3, PlanEffect
  <2> QED BY <1>1, <1>3, <2>1, <2>2, MatchHitKeeps DEF MatchHit
<1>4. CASE /\ CanMatch /\ fw' \in { fw, [fw EXCEPT ![r] = "running"] }
           /\ mgr' = CancelIds(MatchTask(mgr, r, "get", FALSE), {mgr.next})
           /\ UNCHANGED << conn, matching >>
  <2>1. TaskAdded(mgr, mgr', r, "get", {"success", "closed"})
    BY <1>1, <1>4, MissAdds
  <2> QED BY <1>1, <1>4, <2>1, MatchMissKeeps DEF MatchMiss
<1> QED BY <1>2, <1>3, <1>4 DEF get_num_new_matched_tokens

(* So is the TensorRT-LLM one. *)
LEMMA TrtMatchKeeps ==
  ASSUME ConnInv, NEW r \in Requests, TrtGetMatch(r) PROVE ConnInv'
<1>1. /\ LoopTypes /\ CanSchedule(r) /\ visited' = visited \union {r} /\ matching = {}
      /\ UNCHANGED << phase, held, kv, step, adapter, dropped, metadata >>
  BY DEF ConnInv, TrtGetMatch, CanSchedule
<1>2. CASE fw' \in { fw, [fw EXCEPT ![r] = "running"] } /\ UNCHANGED << mgr, conn, matching >>
  BY <1>1, <1>2, MatchMissKeeps DEF MatchMiss
<1>3. CASE /\ CanMatch /\ fw' = fw /\ mgr' = MatchTask(mgr, r, "get", TRUE)
           /\ conn' = [conn EXCEPT !.req_id_to_task_dict[r] = mgr.next,
                                   !.tasks_to_cancel = @ \union {mgr.next}]
           /\ matching' = {r}
  <2>1. TaskAdded(mgr, mgr', r, "get", {"matched"})
    BY <1>1, <1>3, HitAdds
  <2>2. PlanAdded(conn, conn', r, mgr.next, FALSE)
    BY <1>1, <1>3, PlanEffect
  <2> QED BY <1>1, <1>3, <2>1, <2>2, MatchHitKeeps DEF MatchHit
<1>4. CASE /\ CanMatch /\ fw' \in { fw, [fw EXCEPT ![r] = "running"] }
           /\ mgr' = MatchTask(mgr, r, "get", FALSE) /\ conn' = conn /\ matching' = {}
  <2>1. TaskAdded(mgr, mgr', r, "get", {"success", "closed"})
    BY <1>1, <1>4, MissAdds
  <2> QED BY <1>1, <1>4, <2>1, MatchMissKeeps DEF MatchMiss
<1> QED BY <1>2, <1>3, <1>4 DEF TrtGetMatch

(* update_state_after_alloc, of either adapter. *)
LEMMA AllocatedKeeps ==
  ASSUME ConnInv, NEW r \in Requests,
         (update_state_after_alloc(r) /\ metadata' = metadata) \/ TrtUpdateStateAfterAlloc(r)
  PROVE  ConnInv'
BY AllocKeeps DEF Alloc, update_state_after_alloc, TrtUpdateStateAfterAlloc

(* _put_match: the plan is launched, or cancelled if blocks are missing. *)
LEMMA PutMatchedAdds ==
  ASSUME LoopTypes, CanMatch, NEW r \in Requests, NEW short \in BOOLEAN, PutMatched(r, short)
  PROVE  /\ TaskAdded(mgr, mgr', r, "put", {"matched"})
         /\ short => PlanAdded(conn, conn', r, mgr.next, FALSE)
         /\ ~ short => PlanAdded(conn, conn', r, mgr.next, TRUE)
<1>1. TaskAdded(mgr, mgr', r, "put", {"matched"})
  BY HitAdds DEF PutMatched
<1>2. conn \in ConnState
  BY DEF LoopTypes
<1>3. ASSUME short PROVE PlanAdded(conn, conn', r, mgr.next, FALSE)
  <2>1. conn' = [conn EXCEPT !.req_id_to_task_dict[r] = mgr.next, !.tasks_to_cancel = @ \union {mgr.next}]
    BY <1>2, <1>3 DEF PutMatched, ConnState
  <2> QED BY <2>1, PlanEffect
<1>4. ASSUME ~ short PROVE PlanAdded(conn, conn', r, mgr.next, TRUE)
  <2>1. conn' = [conn EXCEPT !.req_id_to_task_dict[r] = mgr.next, !.tasks_to_launch = @ \union {mgr.next}]
    BY <1>2, <1>4 DEF PutMatched, ConnState
  <2> QED BY <2>1, PlanEffect
<1> QED BY <1>1, <1>3, <1>4

(* request_finished is one of the ends above. *)
LEMMA FinishedKeeps ==
  ASSUME ConnInv, NEW r \in Requests, request_finished(r), metadata' = metadata
  PROVE  ConnInv'
<1>1. /\ LoopTypes /\ phase \in {"run", "finish"} /\ fw[r] \in {"waiting", "loading", "running"}
      /\ UNCHANGED << phase, matching, visited, adapter, dropped, metadata >>
      /\ metadata = NoMeta
  BY DEF ConnInv, request_finished, Vllm, Reports
<1>2. CASE InUse(r)
  <2>1. Gone(r, TRUE) /\ UNCHANGED << conn, mgr >>
    BY <1>2 DEF request_finished
  <2> QED BY <1>1, <1>2, <2>1, EndInUseKeeps DEF Ends, InUse
<1>3. CASE ~ InUse(r)
  <2>0. conn.req_id_to_task_dict[r] = NoTask
    BY <1>3 DEF InUse
  <2>1. CASE Gone(r, FALSE) /\ UNCHANGED << conn, mgr >>
    BY <1>1, <2>0, <2>1, EndUnusedKeeps DEF Ends
  <2>2. CASE /\ CanMatch /\ mgr' = CancelIds(MatchTask(mgr, r, "put", FALSE), {mgr.next})
             /\ Gone(r, FALSE) /\ UNCHANGED conn
    <3>1. TaskAdded(mgr, mgr', r, "put", {"success", "closed"})
      BY <1>1, <2>2, MissAdds
    <3> QED BY <1>1, <2>0, <2>2, <3>1, EndUnusedKeeps DEF Ends
  <2>3. ASSUME CanMatch, NEW short \in BOOLEAN, PutMatched(r, short), Gone(r, ~ short) PROVE ConnInv'
    <3>1. /\ TaskAdded(mgr, mgr', r, "put", {"matched"})
          /\ short => PlanAdded(conn, conn', r, mgr.next, FALSE)
          /\ ~ short => PlanAdded(conn, conn', r, mgr.next, TRUE)
      BY <1>1, <2>3, PutMatchedAdds
    <3>2. r \notin metadata.recving /\ r \notin metadata.sending
      BY <1>1 DEF NoMeta
    <3>3. CASE short
      <4>1. Ends(r, FALSE)
        BY <1>1, <2>3, <3>3 DEF Ends, Gone
      <4> QED BY <2>0, <3>1, <3>2, <3>3, <4>1, EndPutKeeps
    <3>4. CASE ~ short
      <4>1. Ends(r, TRUE)
        BY <1>1, <2>3, <3>4 DEF Ends, Gone
      <4> QED BY <2>0, <3>1, <3>2, <3>4, <4>1, EndPutKeeps
    <3> QED BY <3>3, <3>4
  <2>4. \/ Gone(r, FALSE) /\ UNCHANGED << conn, mgr >>
        \/ /\ CanMatch /\ mgr' = CancelIds(MatchTask(mgr, r, "put", FALSE), {mgr.next})
           /\ Gone(r, FALSE) /\ UNCHANGED conn
        \/ CanMatch /\ \E short \in BOOLEAN : PutMatched(r, short) /\ Gone(r, ~ short)
    BY <1>3 DEF request_finished
  <2> QED BY <2>1, <2>2, <2>3, <2>4
<1> QED BY <1>2, <1>3

(* So is the TensorRT-LLM one. *)
LEMMA TrtRequestKeeps ==
  ASSUME ConnInv, NEW r \in Requests, TrtRequestFinished(r) PROVE ConnInv'
<1>1. /\ LoopTypes /\ phase \in {"run", "finish"} /\ fw[r] \in {"waiting", "loading", "running"}
      /\ UNCHANGED << phase, matching, visited, adapter, dropped, metadata >>
  BY DEF ConnInv, TrtRequestFinished
<1>2. CASE conn.req_id_to_task_dict[r] # NoTask
  <2>1. Gone(r, TRUE) /\ UNCHANGED << conn, mgr >>
    BY <1>2 DEF TrtRequestFinished
  <2> QED BY <1>1, <1>2, <2>1, EndInUseKeeps DEF Ends
<1>3. CASE conn.req_id_to_task_dict[r] = NoTask
  <2>1. CASE Gone(r, FALSE) /\ UNCHANGED << conn, mgr >>
    BY <1>1, <1>3, <2>1, EndUnusedKeeps DEF Ends
  <2>2. CASE CanMatch /\ mgr' = MatchTask(mgr, r, "put", FALSE) /\ conn' = conn /\ Gone(r, FALSE)
    <3>1. TaskAdded(mgr, mgr', r, "put", {"success", "closed"})
      BY <1>1, <2>2, MissAdds
    <3> QED BY <1>1, <1>3, <2>2, <3>1, EndUnusedKeeps DEF Ends
  <2>3. CASE /\ fw[r] = "running" /\ CanMatch /\ mgr' = MatchTask(mgr, r, "put", TRUE)
             /\ conn' = [conn EXCEPT !.req_id_to_task_dict[r] = mgr.next,
                                     !.tasks_to_launch = @ \union {mgr.next}]
             /\ Gone(r, TRUE)
    <3>1. TaskAdded(mgr, mgr', r, "put", {"matched"}) /\ PlanAdded(conn, conn', r, mgr.next, TRUE)
      BY <1>1, <2>3, HitAdds, PlanEffect
    <3>2. r \notin metadata.recving /\ r \notin metadata.sending
      BY <2>3 DEF ConnInv, Reports
    <3>3. Ends(r, TRUE)
      BY <1>1, <2>3 DEF Ends
    <3> QED BY <1>3, <3>1, <3>2, <3>3, EndPutKeeps
  <2> QED BY <1>3, <2>1, <2>2, <2>3 DEF TrtRequestFinished
<1> QED BY <1>2, <1>3

-----------------------------------------------------------------------------
(* The invariant holds at the start, *)
LEMMA ConnInitInv == ConnInit => ConnInv
<1> SUFFICES ASSUME ConnInit PROVE ConnInv
  OBVIOUS
<1>1. /\ phase = "schedule" /\ fw = [r \in Requests |-> "waiting"] /\ held = {}
      /\ kv = [r \in Requests |-> "none"] /\ matching = {} /\ visited = {} /\ dropped = {}
      /\ step = [preempted |-> {}, finished |-> {}, previous |-> {}]
      /\ conn = NoConnState /\ metadata = NoMeta
      /\ mgr = [st |-> [t \in Ids |-> "none"], req |-> [t \in Ids |-> {}],
                kind |-> [t \in Ids |-> "none"], next |-> 1]
  BY DEF ConnInit, LoopInit
<1>2. /\ mgr \in MgrState /\ mgr.next = 1
      /\ \A t \in Ids : mgr.st[t] = "none" /\ mgr.req[t] = {}
  BY <1>1 DEF MgrState
<1>3. /\ conn \in ConnState
      /\ \A r \in Requests : conn.req_id_to_task_dict[r] = NoTask
      /\ \A t \in Ids : ~ KnownTask(conn, t) /\ ~ Submitted(conn, t)
      /\ \A t \in Ids : conn.put_tasks[t] = {} /\ t \notin conn.tasks_to_launch
  BY <1>1, NoConnFields
<1>4. LoopTypes
  BY <1>1, <1>2, <1>3 DEF LoopTypes, NoMeta
<1>5. PlansKnown(conn, mgr) /\ RunsAsked(conn, mgr, dropped)
  BY <1>2, <1>3 DEF PlansKnown, RunsAsked, KnownTask, Planned
<1>6. IdsInOrder(mgr) /\ OneTask(conn, mgr) /\ BlocksKept(conn, mgr, fw, held)
  BY <1>2, <1>3, TaskIds DEF IdsInOrder, OneTask, BlocksKept
<1>7. HeldGone /\ Entries(conn, mgr, fw, visited, phase) /\ Matching /\ Preempted /\ Reports /\ Flags
  BY <1>1, <1>3 DEF HeldGone, Entries, Matching, Preempted, Reports, Flags, NoMeta
<1>8. WaitersHeard
  BY <1>1 DEF WaitersHeard
<1> QED BY <1>4, <1>5, <1>6, <1>7, <1>8 DEF ConnInv, Tables

(* does not depend on anything but the variables, *)
LEMMA ConnStutter == ConnInv /\ UNCHANGED connVars => ConnInv'
BY DEF ConnInv, connVars, loopVars, LoopTypes, HeldGone, Matching, Preempted, Reports, Flags, WaitersHeard

(* and is kept by every action. *)
LEMMA ConnInvStep == ConnInv /\ [ConnNext]_connVars => ConnInv'
<1> SUFFICES ASSUME ConnInv, [ConnNext]_connVars PROVE ConnInv'
  OBVIOUS
<1>1. ASSUME NEW r \in Requests, Preempt(r), metadata' = metadata PROVE ConnInv'
  BY <1>1, PreemptKeeps
<1>2. ASSUME NEW r \in Requests, AllocFails(r), metadata' = metadata PROVE ConnInv'
  BY <1>2, AllocFailsKeeps
<1>3. ASSUME NEW t \in Ids, TransferEnds(t), metadata' = metadata PROVE ConnInv'
  BY <1>3, TransferEndsKeeps
<1>4. CASE NextStep /\ metadata' = metadata
  BY <1>4, NextStepKeeps
<1>5. ASSUME NEW r \in Requests,
             get_num_new_matched_tokens(r) \/ update_state_after_alloc(r) \/ request_finished(r),
             metadata' = metadata
      PROVE  ConnInv'
  BY <1>5, GetMatchKeeps, AllocatedKeeps, FinishedKeeps
<1>6. CASE build_connector_meta /\ metadata' = metadata
  BY <1>6, BuildKeeps
<1>7. CASE wait_for_all_get_tasks /\ metadata' = metadata
  BY <1>7, SyncWaitKeeps
<1>8. CASE update_connector_output /\ metadata' = metadata
  BY <1>8, OutputKeeps
<1>9. CASE get_and_clear_failed_block_ids /\ metadata' = metadata
  BY <1>9, FailedIdsKeeps
<1>10. CASE reset_cache /\ metadata' = metadata
  BY <1>10, ResetCacheKeeps
<1>11. ASSUME NEW r \in Requests,
              TrtGetMatch(r) \/ TrtUpdateStateAfterAlloc(r) \/ TrtRequestFinished(r)
       PROVE  ConnInv'
  BY <1>11, TrtMatchKeeps, AllocatedKeeps, TrtRequestKeeps
<1>12. CASE TrtBuildConnectorMeta
  BY <1>12, TrtBuildKeeps
<1>13. CASE TrtGetFinished
  BY <1>13, TrtFinishedKeeps
<1>14. CASE UNCHANGED connVars
  BY <1>14, ConnStutter
<1>15. CASE Loop /\ metadata' = metadata
  BY <1>15, <1>1, <1>2, <1>3, <1>4 DEF Loop
<1>16. CASE VllmNext /\ metadata' = metadata
  BY <1>16, <1>5, <1>6, <1>7, <1>8, <1>9, <1>10 DEF VllmNext
<1>17. CASE TrtNext
  BY <1>17, <1>11, <1>12, <1>13 DEF TrtNext
<1> QED BY <1>14, <1>15, <1>16, <1>17 DEF ConnNext

\* The invariant holds in every reachable state of either adapter, however many
\* requests there are and with batches or without.
THEOREM ConnectorTables == ConnSpec => []ConnInv
<1>1. ConnInit => ConnInv
  BY ConnInitInv
<1>2. ConnInv /\ [ConnNext]_connVars => ConnInv'
  BY ConnInvStep
<1> QED BY <1>1, <1>2, PTL DEF ConnSpec

\* A request that waits for its KV, or whose blocks are kept after its end, has a
\* task that will be launched or is asked for, or its report is on the way; the
\* exceptions are a reset and the synchronous wait.
THEOREM WaitersTracked == ConnSpec => []WaitersAreTracked
<1>1. ConnInv => WaitersAreTracked
  <2> SUFFICES ASSUME ConnInv, adapter # "vllm_sync", NEW r \in Requests \ dropped,
                      fw[r] = "loading" \/ r \in held
               PROVE  Tracked(r) \/ r \in metadata.recving \union metadata.sending
    BY DEF WaitersAreTracked, SyncWaitersAreTracked
  <2>1. TrackedIn(conn, mgr, r) \/ r \in metadata.recving \/ r \in metadata.sending
    BY DEF ConnInv, WaitersHeard
  <2>2. TrackedIn(conn, mgr, r) => Tracked(r)
    BY DEF TrackedIn, Tracked, Submitted, Asked
  <2> QED BY <2>1, <2>2
<1> QED BY <1>1, ConnectorTables, PTL

\* The blocks a running transfer reads or writes still belong to their request.
THEOREM BlocksStay == ConnSpec => []BlocksStayWhileMoving
<1>1. ConnInv => BlocksStayWhileMoving
  <2> SUFFICES ASSUME ConnInv, NEW t \in Ids, mgr.st[t] = "running", NEW r \in mgr.req[t] \ dropped
               PROVE  OwnsBlocks(r)
    BY DEF BlocksStayWhileMoving
  <2>1. Submitted(conn, t)
    BY DEF ConnInv, Tables, RunsAsked, Submitted
  <2>2. fw[r] = "loading" \/ r \in held
    BY <2>1 DEF ConnInv, Tables, BlocksKept
  <2> QED BY <2>2 DEF OwnsBlocks
<1> QED BY <1>1, ConnectorTables, PTL

\* With the vLLM adapter no request runs on blocks a failed get left unless they
\* are reported as load errors.
THEOREM FailuresFlagged == ConnSpec => []FailedLoadsFlagged
<1>1. ConnInv => FailedLoadsFlagged
  BY DEF ConnInv, Flags, FailedLoadsFlagged, Running
<1> QED BY <1>1, ConnectorTables, PTL

\* Every plan the manager holds open will be launched or cancelled by the connector.
THEOREM PlansRemembered == ConnSpec => []NoForgottenPlan
<1>1. ConnInv => NoForgottenPlan
  BY DEF ConnInv, Tables, PlansKnown, Planned, NoForgottenPlan
<1> QED BY <1>1, ConnectorTables, PTL
=============================================================================
