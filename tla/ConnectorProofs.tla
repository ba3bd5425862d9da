--------------------------- MODULE ConnectorProofs ---------------------------
(***************************************************************************)
(* Proofs about the SGLang connector: the calls of all ranks               *)
(* (SGLangConnector), for any number of ranks, requests, stores and tasks, *)
(* the layerwise loads (LayerCounter), for any number of ranks, loads,     *)
(* layers and event sets, and the collectives under them (SGLangComm), for *)
(* any topology, any channels and any number of scatters.                  *)
(***************************************************************************)
EXTENDS SGLangConnector, LayerCounter, SGLangComm, FiniteSetTheorems, SequenceTheorems,
        NaturalsInduction, WellFoundedInduction, TLAPS

-----------------------------------------------------------------------------
(* SGLangConnector. *)

SgMessage ==
  [op : {"lookup", "prefetch"}, rid : Rids, task : SgTasks]
    \union [op : {"release", "abort", "retrieve", "prefetched", "commit"}, rid : Rids]
    \union [op : {"store"}, key : StoreKeys, task : SgTasks]
    \union [op : {"completed"}, keys : SUBSET StoreKeys]
    \union [op : {"reset"}, ok : BOOLEAN]

SgTypes ==
  /\ task \in [SgTasks -> {"none", "held", "running", "ended", "failed", "closed", "stuck"}]
  /\ nextTask \in Nat \ {0}
  /\ pendingLookups \in [SgRanks -> [Rids -> SgTasks \union {NoLookup}]]
  /\ inflightStores \in [SgRanks -> [StoreKeys -> SgTasks \union {NoLookup}]]
  /\ queue \in [SgFollowers -> Seq(SgMessage)]
  /\ locked \in [SgRanks -> SUBSET StoreKeys]
  /\ storeOf \in [StoreKeys -> SgTasks \union {NoLookup}]

Storing(k) == storeOf[k] # NoLookup /\ task[storeOf[k]] = "running"

(* Tasks are numbered apart, so a lookup that is held is no store. *)
TasksApart ==
  /\ \A k \in StoreKeys : storeOf[k] < nextTask
  /\ \A rid \in Rids : LET t == pendingLookups[SgLeader][rid] IN
       t < nextTask /\ (t # NoLookup => \A k \in StoreKeys : storeOf[k] # t)

(* The leader has every store that runs, under its key. *)
LeaderHolds ==
  \A k \in StoreKeys :
    /\ Storing(k) => inflightStores[SgLeader][k] = storeOf[k] /\ k \in locked[SgLeader]
    /\ inflightStores[SgLeader][k] # NoLookup => inflightStores[SgLeader][k] = storeOf[k]

(* What a follower is told to let go of has ended; a store that runs began after
   every reset the follower has not reached. *)
Releases ==
  \A r \in SgFollowers : \A i \in 1 .. Len(queue[r]) : \A k \in StoreKeys :
    /\ queue[r][i].op = "completed" /\ k \in queue[r][i].keys => storeOf[k] # NoLookup /\ ~ Storing(k)
    /\ queue[r][i].op = "reset" /\ queue[r][i].ok = TRUE /\ Storing(k) =>
         \E j \in 1 .. Len(queue[r]) : i < j /\ queue[r][j].op = "store" /\ queue[r][j].key = k

SgInv == SgTypes /\ TasksApart /\ LeaderHolds /\ Releases /\ StoreSlotsHeld

-----------------------------------------------------------------------------
(* The followers are told one thing more, or nothing. *)
ToldStep(m) ==
  /\ queue' \in [SgFollowers -> Seq(SgMessage)]
  /\ \A r \in SgFollowers :
       /\ Len(queue[r]) \in Nat /\ Len(queue'[r]) = Len(queue[r]) + 1
       /\ \A i \in 1 .. Len(queue[r]) : queue'[r][i] = queue[r][i]
       /\ queue'[r][Len(queue[r]) + 1] = m

LEMMA TellTells ==
  ASSUME SgTypes, NEW m \in SgMessage, Tell(m) PROVE ToldStep(m)
<1>1. queue' = [r \in SgFollowers |-> Append(queue[r], m)]
  BY DEF Tell
<1>2. ASSUME NEW r \in SgFollowers
      PROVE  /\ queue'[r] = Append(queue[r], m) /\ Append(queue[r], m) \in Seq(SgMessage)
             /\ Len(queue[r]) \in Nat /\ Len(Append(queue[r], m)) = Len(queue[r]) + 1
             /\ \A i \in 1 .. Len(queue[r]) : Append(queue[r], m)[i] = queue[r][i]
             /\ Append(queue[r], m)[Len(queue[r]) + 1] = m
  <2>1. queue[r] \in Seq(SgMessage)
    BY DEF SgTypes
  <2>2. queue'[r] = Append(queue[r], m)
    BY <1>1
  <2> QED BY <2>1, <2>2
<1>3. queue' \in [SgFollowers -> Seq(SgMessage)]
  BY <1>1, <1>2
<1> QED BY <1>2, <1>3 DEF ToldStep

(* A store told of is not forgotten by what is told later. *)
LEMMA ToldKeeps ==
  ASSUME NEW m, queue' = queue \/ ToldStep(m), NEW r \in SgFollowers
  PROVE  \A i \in 1 .. Len(queue[r]) : i \in 1 .. Len(queue'[r]) /\ queue'[r][i] = queue[r][i]
<1>1. CASE queue' = queue
  BY <1>1
<1>2. CASE ToldStep(m)
  BY <1>2 DEF ToldStep
<1> QED BY <1>1, <1>2

(* A step after which no store runs that did not, and no rank has let go. *)
LEMMA QuietKeeps ==
  ASSUME SgInv, SgTypes', NEW m, queue' = queue \/ ToldStep(m), m.op \notin {"store", "completed", "reset"},
         storeOf' = storeOf, inflightStores' = inflightStores, locked' = locked,
         \A k \in StoreKeys : Storing(k)' => Storing(k), TasksApart'
  PROVE  SgInv'
<1>1. LeaderHolds'
  BY DEF SgInv, LeaderHolds
<1>2. ASSUME NEW r \in SgFollowers, NEW i \in 1 .. Len(queue'[r]),
             queue'[r][i].op \in {"store", "completed", "reset"}
      PROVE  i \in 1 .. Len(queue[r]) /\ queue'[r][i] = queue[r][i]
  <2>1. CASE queue' = queue
    BY <2>1
  <2>2. CASE ToldStep(m)
    BY <1>2, <2>2 DEF ToldStep
  <2> QED BY <2>1, <2>2
<1>3. ASSUME NEW r \in SgFollowers, NEW i \in 1 .. Len(queue'[r]), NEW k \in StoreKeys
      PROVE  /\ queue'[r][i].op = "completed" /\ k \in queue'[r][i].keys => storeOf[k] # NoLookup /\ ~ Storing(k)'
             /\ queue'[r][i].op = "reset" /\ queue'[r][i].ok = TRUE /\ Storing(k)' =>
                  \E j \in 1 .. Len(queue'[r]) : i < j /\ queue'[r][j].op = "store" /\ queue'[r][j].key = k
  <2>1. CASE queue'[r][i].op \notin {"store", "completed", "reset"}
    BY <2>1
  <2>2. CASE queue'[r][i].op \in {"store", "completed", "reset"}
    <3>1. i \in 1 .. Len(queue[r]) /\ queue'[r][i] = queue[r][i]
      BY <1>2, <2>2
    <3>2. /\ queue[r][i].op = "completed" /\ k \in queue[r][i].keys => storeOf[k] # NoLookup /\ ~ Storing(k)
          /\ queue[r][i].op = "reset" /\ queue[r][i].ok = TRUE /\ Storing(k) =>
               \E j \in 1 .. Len(queue[r]) : i < j /\ queue[r][j].op = "store" /\ queue[r][j].key = k
      BY <3>1 DEF SgInv, Releases
    <3> QED BY <3>1, <3>2, ToldKeeps
  <2> QED BY <2>1, <2>2
<1>4. Releases'
  BY <1>3 DEF Releases
<1>5. StoreSlotsHeld'
  <2> SUFFICES ASSUME NEW k \in StoreKeys, Storing(k)', NEW r \in SgRanks
               PROVE  k \in locked[r] \/ NotThereYet(r, k)'
    BY DEF StoreSlotsHeld, Storing
  <2>1. k \in locked[r] \/ NotThereYet(r, k)
    BY DEF SgInv, StoreSlotsHeld, Storing
  <2>2. NotThereYet(r, k) => NotThereYet(r, k)'
    BY ToldKeeps DEF NotThereYet, SgFollowers
  <2> QED BY <2>1, <2>2
<1> QED BY <1>1, <1>4, <1>5 DEF SgInv

(* What is cancelled does not run. *)
LEMMA CancelledFacts ==
  ASSUME SgTypes, NEW ts
  PROVE  /\ SgCancelled(task, ts) \in [SgTasks -> {"none", "held", "running", "ended", "failed", "closed", "stuck"}]
         /\ \A t \in SgTasks : SgCancelled(task, ts)[t] = "running" => task[t] = "running"
<1>1. \A t \in SgTasks : SgCancelled(task, ts)[t] = IF t \in ts THEN "closed" ELSE task[t]
  BY DEF SgCancelled
<1> QED BY <1>1 DEF SgTypes, SgCancelled

LEMMA LookupKeeps ==
  ASSUME SgInv, NEW rid \in Rids, lookup_kv(rid) PROVE SgInv'
<1> DEFINE was == SgCancelled(task, {pendingLookups[SgLeader][rid]})
           m == [op |-> "lookup", rid |-> rid, task |-> nextTask]
<1>1. /\ nextTask \in SgTasks /\ nextTask' = nextTask + 1 /\ task' = [was EXCEPT ![nextTask] = "held"]
      /\ pendingLookups' = [pendingLookups EXCEPT ![SgLeader][rid] = nextTask]
      /\ Tell(m) /\ inflightStores' = inflightStores /\ locked' = locked /\ storeOf' = storeOf
  BY DEF lookup_kv, NewTask, Replaced
<1>2. was \in [SgTasks -> {"none", "held", "running", "ended", "failed", "closed", "stuck"}]
      /\ \A t \in SgTasks : was[t] = "running" => task[t] = "running"
  BY CancelledFacts DEF SgInv
<1> HIDE DEF was
<1>3. /\ task' \in [SgTasks -> {"none", "held", "running", "ended", "failed", "closed", "stuck"}]
      /\ \A t \in SgTasks : task'[t] = "running" => task[t] = "running"
  BY <1>1, <1>2
<1>4. m \in SgMessage /\ m.op = "lookup"
  BY <1>1 DEF SgMessage
<1> HIDE DEF m
<1>5. ToldStep(m)
  BY <1>1, <1>4, TellTells DEF SgInv
<1>6. /\ pendingLookups' \in [SgRanks -> [Rids -> SgTasks \union {NoLookup}]]
      /\ \A q \in Rids : pendingLookups'[SgLeader][q] = IF q = rid THEN nextTask ELSE pendingLookups[SgLeader][q]
  BY <1>1, SgAssumption DEF SgInv, SgTypes
<1>7. SgTypes'
  BY <1>1, <1>3, <1>5, <1>6 DEF SgInv, SgTypes, ToldStep, SgTasks
<1>8. \A k \in StoreKeys : Storing(k)' => Storing(k)
  BY <1>1, <1>3 DEF Storing, SgInv, SgTypes
<1>9. TasksApart'
  BY <1>1, <1>6 DEF SgInv, SgTypes, TasksApart, SgTasks, NoLookup
<1> QED BY <1>1, <1>4, <1>5, <1>7, <1>8, <1>9, QuietKeeps

LEMMA RetrieveKeeps ==
  ASSUME SgInv, NEW rid \in Rids, retrieve_kv(rid) PROVE SgInv'
<1> DEFINE t == pendingLookups[SgLeader][rid]
           m == [op |-> "retrieve", rid |-> rid]
<1>1. /\ t # NoLookup /\ task' = [task EXCEPT ![t] = "running"] /\ nextTask' = nextTask
      /\ pendingLookups' = [pendingLookups EXCEPT ![SgLeader][rid] = NoLookup]
      /\ Tell(m) /\ inflightStores' = inflightStores /\ locked' = locked /\ storeOf' = storeOf
  BY DEF retrieve_kv
<1>2. t \in SgTasks /\ \A k \in StoreKeys : storeOf[k] # t
  BY <1>1, SgAssumption DEF SgInv, SgTypes, TasksApart
<1> HIDE DEF t
<1>3. /\ task' \in [SgTasks -> {"none", "held", "running", "ended", "failed", "closed", "stuck"}]
      /\ \A u \in SgTasks : u # t => task'[u] = task[u]
  BY <1>1, <1>2 DEF SgInv, SgTypes
<1>4. m \in SgMessage /\ m.op = "retrieve"
  BY DEF SgMessage
<1> HIDE DEF m
<1>5. ToldStep(m)
  BY <1>1, <1>4, TellTells DEF SgInv
<1>6. /\ pendingLookups' \in [SgRanks -> [Rids -> SgTasks \union {NoLookup}]]
      /\ \A q \in Rids : pendingLookups'[SgLeader][q] = IF q = rid THEN NoLookup ELSE pendingLookups[SgLeader][q]
  BY <1>1, SgAssumption DEF SgInv, SgTypes
<1>7. SgTypes'
  BY <1>1, <1>3, <1>5, <1>6 DEF SgInv, SgTypes, ToldStep
<1>8. \A k \in StoreKeys : Storing(k)' => Storing(k)
  BY <1>1, <1>2, <1>3 DEF Storing, SgInv, SgTypes
<1>9. TasksApart'
  BY <1>1, <1>6 DEF SgInv, SgTypes, TasksApart, NoLookup
<1> QED BY <1>1, <1>4, <1>5, <1>7, <1>8, <1>9, QuietKeeps

LEMMA ReleaseKeeps ==
  ASSUME SgInv, NEW rid \in Rids, NEW aborted \in BOOLEAN, release_pending(rid, aborted) PROVE SgInv'
<1> DEFINE m == [op |-> IF aborted THEN "abort" ELSE "release", rid |-> rid]
<1>1. /\ task' = SgCancelled(task, {pendingLookups[SgLeader][rid]}) /\ nextTask' = nextTask
      /\ pendingLookups' = [pendingLookups EXCEPT ![SgLeader][rid] = NoLookup]
      /\ Tell(m) /\ inflightStores' = inflightStores /\ locked' = locked /\ storeOf' = storeOf
  BY DEF release_pending
<1>2. /\ task' \in [SgTasks -> {"none", "held", "running", "ended", "failed", "closed", "stuck"}]
      /\ \A t \in SgTasks : task'[t] = "running" => task[t] = "running"
  BY <1>1, CancelledFacts DEF SgInv
<1>3. m \in SgMessage /\ m.op \in {"abort", "release"}
  BY DEF SgMessage
<1> HIDE DEF m
<1>4. ToldStep(m)
  BY <1>1, <1>3, TellTells DEF SgInv
<1>5. /\ pendingLookups' \in [SgRanks -> [Rids -> SgTasks \union {NoLookup}]]
      /\ \A q \in Rids : pendingLookups'[SgLeader][q] = IF q = rid THEN NoLookup ELSE pendingLookups[SgLeader][q]
  BY <1>1, SgAssumption DEF SgInv, SgTypes
<1>6. SgTypes'
  BY <1>1, <1>2, <1>4, <1>5 DEF SgInv, SgTypes, ToldStep
<1>7. \A k \in StoreKeys : Storing(k)' => Storing(k)
  BY <1>1, <1>2 DEF Storing, SgInv, SgTypes
<1>8. TasksApart'
  BY <1>1, <1>5 DEF SgInv, SgTypes, TasksApart, NoLookup
<1> QED BY <1>1, <1>3, <1>4, <1>6, <1>7, <1>8, QuietKeeps

(* The calls that neither look up nor store, and the manager. *)
LEMMA OtherKeeps ==
  ASSUME SgInv,
         \/ lookup_only \/ retrieve_wait \/ retrieve_barrier
         \/ \E rid \in Rids : prefetch_async(rid) \/ check_prefetch_progress(rid) \/ Commit(rid)
         \/ \E t \in SgTasks : SgTaskEnds(t)
         \/ UNCHANGED sgVars
  PROVE  SgInv'
<1>1. /\ pendingLookups' = pendingLookups /\ inflightStores' = inflightStores /\ locked' = locked
      /\ storeOf' = storeOf
  BY DEF lookup_only, retrieve_wait, retrieve_barrier, prefetch_async, check_prefetch_progress, Commit,
         SgTaskEnds, sgVars
<1>2. \/ task' = task /\ nextTask' = nextTask
      \/ \E t \in SgTasks, s \in {"ended", "failed"} : task' = [task EXCEPT ![t] = s] /\ nextTask' = nextTask
      \/ \E s \in {"closed", "running"} :
           nextTask \in SgTasks /\ nextTask' = nextTask + 1 /\ task' = [task EXCEPT ![nextTask] = s]
  BY DEF lookup_only, retrieve_wait, retrieve_barrier, prefetch_async, check_prefetch_progress, Commit,
         SgTaskEnds, sgVars, NewTask
<1>3. /\ task' \in [SgTasks -> {"none", "held", "running", "ended", "failed", "closed", "stuck"}]
      /\ nextTask' \in Nat \ {0} /\ nextTask' >= nextTask
      /\ \A t \in SgTasks : t # nextTask /\ task'[t] = "running" => task[t] = "running"
  <2>1. /\ task \in [SgTasks -> {"none", "held", "running", "ended", "failed", "closed", "stuck"}]
        /\ nextTask \in Nat \ {0}
    BY DEF SgInv, SgTypes
  <2>2. CASE task' = task /\ nextTask' = nextTask
    BY <2>1, <2>2
  <2>3. ASSUME NEW t \in SgTasks, NEW s \in {"ended", "failed"},
               task' = [task EXCEPT ![t] = s], nextTask' = nextTask
        PROVE  <1>3!:
    BY <2>1, <2>3
  <2>4. ASSUME NEW s \in {"closed", "running"}, nextTask \in SgTasks, nextTask' = nextTask + 1,
               task' = [task EXCEPT ![nextTask] = s]
        PROVE  <1>3!:
    BY <2>1, <2>4
  <2> QED BY <1>2, <2>2, <2>3, <2>4
<1>4. \E m : (queue' = queue \/ ToldStep(m)) /\ m.op \notin {"store", "completed", "reset"}
  <2>1. CASE queue' = queue
    <3>1. [op |-> "none"].op \notin {"store", "completed", "reset"}
      OBVIOUS
    <3> QED BY <2>1, <3>1
  <2>2. ASSUME NEW rid \in Rids, prefetch_async(rid)
        PROVE  \E m : ToldStep(m) /\ m.op \notin {"store", "completed", "reset"}
    <3> DEFINE m == [op |-> "prefetch", rid |-> rid, task |-> nextTask]
    <3>1. Tell(m) /\ m \in SgMessage /\ m.op = "prefetch"
      BY <2>2 DEF prefetch_async, NewTask, SgMessage
    <3> QED BY <3>1, TellTells DEF SgInv
  <2>3. ASSUME NEW rid \in Rids, check_prefetch_progress(rid)
        PROVE  \E m : ToldStep(m) /\ m.op \notin {"store", "completed", "reset"}
    <3> DEFINE m == [op |-> "prefetched", rid |-> rid]
    <3>1. Tell(m) /\ m \in SgMessage /\ m.op = "prefetched"
      BY <2>3 DEF check_prefetch_progress, SgMessage
    <3> QED BY <3>1, TellTells DEF SgInv
  <2>4. ASSUME NEW rid \in Rids, Commit(rid)
        PROVE  \E m : ToldStep(m) /\ m.op \notin {"store", "completed", "reset"}
    <3> DEFINE m == [op |-> "commit", rid |-> rid]
    <3>1. Tell(m) /\ m \in SgMessage /\ m.op = "commit"
      BY <2>4 DEF Commit, SgMessage
    <3> QED BY <3>1, TellTells DEF SgInv
  <2>5. lookup_only \/ retrieve_wait \/ retrieve_barrier \/ (\E t \in SgTasks : SgTaskEnds(t)) \/ UNCHANGED sgVars
          => queue' = queue
    BY DEF lookup_only, retrieve_wait, retrieve_barrier, SgTaskEnds, sgVars
  <2> QED BY <2>1, <2>2, <2>3, <2>4, <2>5
<1>5. PICK m : (queue' = queue \/ ToldStep(m)) /\ m.op \notin {"store", "completed", "reset"}
  BY <1>4
<1>6. SgTypes'
  BY <1>1, <1>3, <1>5 DEF SgInv, SgTypes, ToldStep
<1>7. \A k \in StoreKeys : Storing(k)' => Storing(k)
  BY <1>1, <1>3 DEF Storing, SgInv, SgTypes, TasksApart, SgTasks
<1>8. TasksApart'
  <2>1. \A k \in StoreKeys : storeOf[k] \in Nat /\ storeOf[k] < nextTask
    BY DEF SgInv, SgTypes, TasksApart, SgTasks, NoLookup
  <2>2. \A rid \in Rids : /\ pendingLookups[SgLeader][rid] \in Nat /\ pendingLookups[SgLeader][rid] < nextTask
                          /\ pendingLookups[SgLeader][rid] # NoLookup =>
                               \A k \in StoreKeys : storeOf[k] # pendingLookups[SgLeader][rid]
    BY SgAssumption DEF SgInv, SgTypes, TasksApart, SgTasks, NoLookup
  <2>3. nextTask \in Nat
    BY DEF SgInv, SgTypes
  <2> QED BY <1>1, <1>3, <2>1, <2>2, <2>3 DEF TasksApart
<1> QED BY <1>1, <1>5, <1>6, <1>7, <1>8, QuietKeeps

LEMMA StoreKeeps ==
  ASSUME SgInv, NEW k \in StoreKeys, NEW outcome \in {"active", "skipped", "error"}, store_kv(k, outcome)
  PROVE  SgInv'
<1> DEFINE m == [op |-> "store", key |-> k, task |-> nextTask]
<1>1. /\ nextTask \in SgTasks /\ nextTask' = nextTask + 1 /\ storeOf[k] = NoLookup
      /\ \E s \in {"running", "closed", "stuck"} :
           task' = [task EXCEPT ![nextTask] = s] /\ (s = "running" <=> outcome = "active")
      /\ storeOf' = [storeOf EXCEPT ![k] = nextTask] /\ pendingLookups' = pendingLookups
  BY DEF store_kv, NewTask
<1>2. /\ outcome = "active" => /\ inflightStores' = [inflightStores EXCEPT ![SgLeader][k] = nextTask]
                               /\ locked' = [locked EXCEPT ![SgLeader] = @ \union {k}]
                               /\ Tell(m)
      /\ outcome # "active" => inflightStores' = inflightStores /\ locked' = locked /\ queue' = queue
  BY DEF store_kv, StoreStart
<1>3. SgTypes /\ SgLeader \in SgRanks /\ nextTask \in Nat \ {0}
  BY SgAssumption DEF SgInv, SgTypes
<1>4. /\ task' \in [SgTasks -> {"none", "held", "running", "ended", "failed", "closed", "stuck"}]
      /\ \A t \in SgTasks : t # nextTask => task'[t] = task[t]
      /\ task'[nextTask] = "running" <=> outcome = "active"
  <2>1. PICK s \in {"running", "closed", "stuck"} :
          task' = [task EXCEPT ![nextTask] = s] /\ (s = "running" <=> outcome = "active")
    BY <1>1
  <2> QED BY <1>1, <1>3, <2>1 DEF SgTypes
<1>5. m \in SgMessage /\ m.op = "store" /\ m.key = k
  BY <1>1 DEF SgMessage
<1> HIDE DEF m
<1>6. outcome = "active" => ToldStep(m)
  BY <1>2, <1>3, <1>5, TellTells
<1>7. /\ storeOf' \in [StoreKeys -> SgTasks \union {NoLookup}] /\ storeOf'[k] = nextTask
      /\ \A j \in StoreKeys : j # k => storeOf'[j] = storeOf[j]
  BY <1>1, <1>3 DEF SgTypes
<1>8. /\ inflightStores' \in [SgRanks -> [StoreKeys -> SgTasks \union {NoLookup}]]
      /\ \A j \in StoreKeys : j # k => inflightStores'[SgLeader][j] = inflightStores[SgLeader][j]
      /\ outcome = "active" => inflightStores'[SgLeader][k] = nextTask
      /\ outcome # "active" => inflightStores' = inflightStores
  <2>1. CASE outcome = "active"
    <3>1. inflightStores' = [inflightStores EXCEPT ![SgLeader][k] = nextTask]
      BY <1>2, <2>1
    <3>2. inflightStores \in [SgRanks -> [StoreKeys -> SgTasks \union {NoLookup}]] /\ nextTask \in SgTasks
      BY <1>1, <1>3 DEF SgTypes
    <3> QED BY <1>3, <2>1, <3>1, <3>2
  <2>2. CASE outcome # "active"
    BY <1>2, <1>3, <2>2 DEF SgTypes
  <2> QED BY <2>1, <2>2
<1>9. /\ locked' \in [SgRanks -> SUBSET StoreKeys]
      /\ \A r \in SgRanks : locked[r] \subseteq locked'[r]
      /\ outcome = "active" => k \in locked'[SgLeader]
  <2>1. CASE outcome = "active"
    <3>1. locked' = [locked EXCEPT ![SgLeader] = @ \union {k}]
      BY <1>2, <2>1
    <3>2. locked \in [SgRanks -> SUBSET StoreKeys]
      BY <1>3 DEF SgTypes
    <3> QED BY <1>3, <2>1, <3>1, <3>2
  <2>2. CASE outcome # "active"
    BY <1>2, <1>3, <2>2 DEF SgTypes
  <2> QED BY <2>1, <2>2
<1>10. SgTypes'
  <2>1. nextTask' \in Nat \ {0}
    BY <1>1, <1>3
  <2>2. queue' \in [SgFollowers -> Seq(SgMessage)]
    BY <1>2, <1>3, <1>6 DEF SgTypes, ToldStep
  <2> QED BY <1>1, <1>3, <1>4, <1>7, <1>8, <1>9, <2>1, <2>2 DEF SgTypes
<1>11. \A j \in StoreKeys : storeOf[j] \in Nat /\ storeOf[j] < nextTask
  BY <1>3 DEF SgInv, SgTypes, TasksApart, SgTasks, NoLookup
<1>12. /\ \A j \in StoreKeys : j # k => (Storing(j)' <=> Storing(j))
       /\ Storing(k)' <=> outcome = "active"
       /\ ~ Storing(k)
  <2>1. ASSUME NEW j \in StoreKeys, j # k PROVE Storing(j)' <=> Storing(j)
    <3>1. storeOf'[j] = storeOf[j] /\ storeOf[j] # nextTask
      BY <1>3, <1>7, <1>11, <2>1
    <3>2. storeOf[j] # NoLookup => storeOf[j] \in SgTasks /\ task'[storeOf[j]] = task[storeOf[j]]
      BY <1>3, <1>4, <3>1 DEF SgTypes
    <3> QED BY <3>1, <3>2 DEF Storing
  <2>2. Storing(k)' <=> outcome = "active"
    BY <1>3, <1>4, <1>7 DEF Storing, NoLookup
  <2>3. ~ Storing(k)
    BY <1>1 DEF Storing
  <2> QED BY <2>1, <2>2, <2>3
<1>13. TasksApart'
  <2>1. \A rid \in Rids : /\ pendingLookups[SgLeader][rid] \in Nat /\ pendingLookups[SgLeader][rid] < nextTask
                          /\ pendingLookups[SgLeader][rid] # NoLookup =>
                               \A j \in StoreKeys : storeOf[j] # pendingLookups[SgLeader][rid]
    BY <1>3 DEF SgInv, SgTypes, TasksApart, SgTasks, NoLookup
  <2>2. \A rid \in Rids : pendingLookups[SgLeader][rid] < nextTask' /\ pendingLookups[SgLeader][rid] # nextTask
    BY <1>1, <1>3, <2>1
  <2>3. \A j \in StoreKeys : storeOf'[j] < nextTask'
    BY <1>1, <1>3, <1>7, <1>11
  <2> QED BY <1>1, <1>7, <2>1, <2>2, <2>3 DEF TasksApart
<1>14. LeaderHolds'
  <2>1. inflightStores[SgLeader][k] = NoLookup
    BY <1>1 DEF SgInv, LeaderHolds
  <2>2. ASSUME NEW j \in StoreKeys
        PROVE  /\ Storing(j)' => inflightStores'[SgLeader][j] = storeOf'[j] /\ j \in locked'[SgLeader]
               /\ inflightStores'[SgLeader][j] # NoLookup => inflightStores'[SgLeader][j] = storeOf'[j]
    <3>1. CASE j # k
      BY <1>3, <1>7, <1>8, <1>9, <1>12, <3>1 DEF SgInv, LeaderHolds
    <3>2. CASE j = k
      BY <1>7, <1>8, <1>9, <1>12, <2>1, <3>2
    <3> QED BY <3>1, <3>2
  <2> QED BY <2>2 DEF LeaderHolds
<1>15. ASSUME NEW r \in SgFollowers, NEW i \in 1 .. Len(queue[r])
       PROVE  i \in 1 .. Len(queue'[r]) /\ queue'[r][i] = queue[r][i]
  BY <1>2, <1>6, ToldKeeps
<1>16. Releases'
  <2> SUFFICES ASSUME NEW r \in SgFollowers, NEW i \in 1 .. Len(queue'[r]), NEW j \in StoreKeys
               PROVE  /\ queue'[r][i].op = "completed" /\ j \in queue'[r][i].keys =>
                           storeOf'[j] # NoLookup /\ ~ Storing(j)'
                      /\ queue'[r][i].op = "reset" /\ queue'[r][i].ok = TRUE /\ Storing(j)' =>
                           \E l \in 1 .. Len(queue'[r]) : i < l /\ queue'[r][l].op = "store" /\ queue'[r][l].key = j
    BY DEF Releases
  <2>1. CASE i \in 1 .. Len(queue[r])
    <3>1. queue'[r][i] = queue[r][i]
      BY <1>15, <2>1
    <3>2. /\ queue[r][i].op = "completed" /\ j \in queue[r][i].keys => storeOf[j] # NoLookup /\ ~ Storing(j)
          /\ queue[r][i].op = "reset" /\ queue[r][i].ok = TRUE /\ Storing(j) =>
               \E l \in 1 .. Len(queue[r]) : i < l /\ queue[r][l].op = "store" /\ queue[r][l].key = j
      BY <2>1 DEF SgInv, Releases
    <3>3. CASE j # k
      BY <1>7, <1>12, <1>15, <3>1, <3>2, <3>3
    <3>4. CASE j = k
      <4>1. ~ (queue[r][i].op = "completed" /\ j \in queue[r][i].keys)
        BY <1>1, <3>2, <3>4
      <4>2. ASSUME Storing(j)'
            PROVE  \E l \in 1 .. Len(queue'[r]) : i < l /\ queue'[r][l].op = "store" /\ queue'[r][l].key = j
        <5>1. ToldStep(m)
          BY <1>6, <1>12, <3>4, <4>2
        <5>2. /\ Len(queue[r]) + 1 \in 1 .. Len(queue'[r]) /\ i < Len(queue[r]) + 1
              /\ queue'[r][Len(queue[r]) + 1] = m
          BY <2>1, <5>1 DEF ToldStep
        <5> QED BY <1>5, <3>4, <5>2
      <4> QED BY <3>1, <4>1, <4>2
    <3> QED BY <3>3, <3>4
  <2>2. CASE i \notin 1 .. Len(queue[r])
    <3>1. ToldStep(m)
      BY <1>2, <1>6, <2>2
    <3>2. queue'[r][i] = m
      BY <2>2, <3>1 DEF ToldStep
    <3> QED BY <1>5, <3>2
  <2> QED BY <2>1, <2>2
<1>17. StoreSlotsHeld'
  <2> SUFFICES ASSUME NEW j \in StoreKeys, Storing(j)', NEW r \in SgRanks
               PROVE  j \in locked'[r] \/ NotThereYet(r, j)'
    BY DEF StoreSlotsHeld, Storing
  <2>1. CASE j # k
    <3>1. j \in locked[r] \/ NotThereYet(r, j)
      BY <1>12, <2>1 DEF SgInv, StoreSlotsHeld, Storing
    <3>2. NotThereYet(r, j) => NotThereYet(r, j)'
      BY <1>15 DEF NotThereYet, SgFollowers
    <3> QED BY <1>9, <3>1, <3>2
  <2>2. CASE j = k
    <3>1. outcome = "active" /\ ToldStep(m)
      BY <1>6, <1>12, <2>2
    <3>2. CASE r # SgLeader
      <4>1. r \in SgFollowers
        BY <3>2 DEF SgFollowers
      <4>2. Len(queue[r]) + 1 \in 1 .. Len(queue'[r]) /\ queue'[r][Len(queue[r]) + 1] = m
        BY <3>1, <4>1 DEF ToldStep
      <4> QED BY <1>5, <2>2, <3>2, <4>2 DEF NotThereYet
    <3> QED BY <1>9, <2>2, <3>1, <3>2
  <2> QED BY <2>1, <2>2
<1> QED BY <1>10, <1>13, <1>14, <1>16, <1>17 DEF SgInv

(* The leader lets go of stores that do not run, and tells. *)
LEMMA LetGoKeeps ==
  ASSUME SgInv, SgTypes', TasksApart', storeOf' = storeOf,
         NEW gone \in SUBSET StoreKeys, \A k \in gone : ~ Storing(k),
         \A k \in StoreKeys : Storing(k)' => Storing(k),
         \A k \in StoreKeys :
           inflightStores'[SgLeader][k] = IF k \in gone THEN NoLookup ELSE inflightStores[SgLeader][k],
         \A r \in SgRanks : locked'[r] = IF r = SgLeader THEN locked[r] \ gone ELSE locked[r],
         NEW m, ToldStep(m),
         \/ m.op = "completed" /\ m.keys = gone /\ \A k \in gone : storeOf[k] # NoLookup
         \/ m.op = "reset" /\ (m.ok = TRUE => gone = StoreKeys)
  PROVE  SgInv'
<1>1. SgLeader \in SgRanks
  BY SgAssumption
<1>2. LeaderHolds'
  BY <1>1 DEF SgInv, LeaderHolds
<1>3. ASSUME NEW r \in SgFollowers, NEW i \in 1 .. Len(queue[r])
      PROVE  i \in 1 .. Len(queue'[r]) /\ queue'[r][i] = queue[r][i]
  BY ToldKeeps
<1>4. Releases'
  <2> SUFFICES ASSUME NEW r \in SgFollowers, NEW i \in 1 .. Len(queue'[r]), NEW k \in StoreKeys
               PROVE  /\ queue'[r][i].op = "completed" /\ k \in queue'[r][i].keys =>
                           storeOf'[k] # NoLookup /\ ~ Storing(k)'
                      /\ queue'[r][i].op = "reset" /\ queue'[r][i].ok = TRUE /\ Storing(k)' =>
                           \E j \in 1 .. Len(queue'[r]) : i < j /\ queue'[r][j].op = "store" /\ queue'[r][j].key = k
    BY DEF Releases
  <2>1. CASE i \in 1 .. Len(queue[r])
    <3>1. queue'[r][i] = queue[r][i]
      BY <1>3, <2>1
    <3>2. /\ queue[r][i].op = "completed" /\ k \in queue[r][i].keys => storeOf[k] # NoLookup /\ ~ Storing(k)
          /\ queue[r][i].op = "reset" /\ queue[r][i].ok = TRUE /\ Storing(k) =>
               \E j \in 1 .. Len(queue[r]) : i < j /\ queue[r][j].op = "store" /\ queue[r][j].key = k
      BY <2>1 DEF SgInv, Releases
    <3> QED BY <1>3, <3>1, <3>2
  <2>2. CASE i \notin 1 .. Len(queue[r])
    <3>1. queue'[r][i] = m
      BY <2>2 DEF ToldStep
    <3> QED BY <3>1
  <2> QED BY <2>1, <2>2
<1>5. StoreSlotsHeld'
  <2> SUFFICES ASSUME NEW k \in StoreKeys, Storing(k)', NEW r \in SgRanks
               PROVE  k \in locked'[r] \/ NotThereYet(r, k)'
    BY DEF StoreSlotsHeld, Storing
  <2>1. k \in locked[r] \/ NotThereYet(r, k)
    BY DEF SgInv, StoreSlotsHeld, Storing
  <2>2. NotThereYet(r, k) => NotThereYet(r, k)'
    BY <1>3 DEF NotThereYet, SgFollowers
  <2> QED BY <2>1, <2>2
<1> QED BY <1>2, <1>4, <1>5 DEF SgInv

LEMMA CompletedKeeps ==
  ASSUME SgInv, check_completed_stores PROVE SgInv'
<1> DEFINE done == { k \in StoreKeys : /\ inflightStores[SgLeader][k] # NoLookup
                                       /\ task[inflightStores[SgLeader][k]] \in {"ended", "failed"} }
           m == [op |-> "completed", keys |-> done]
<1>1. /\ inflightStores' = [inflightStores EXCEPT ![SgLeader] =
                              [k \in StoreKeys |-> IF k \in done THEN NoLookup ELSE @[k]]]
      /\ locked' = [locked EXCEPT ![SgLeader] = @ \ done] /\ Tell(m)
      /\ task' = task /\ nextTask' = nextTask /\ pendingLookups' = pendingLookups /\ storeOf' = storeOf
  BY DEF check_completed_stores
<1>2. \A k \in done : storeOf[k] # NoLookup /\ ~ Storing(k)
  BY DEF SgInv, LeaderHolds, Storing
<1>3. done \in SUBSET StoreKeys
  OBVIOUS
<1> HIDE DEF done
<1>4. m \in SgMessage /\ m.op = "completed" /\ m.keys = done
  BY <1>3 DEF SgMessage
<1> HIDE DEF m
<1>5. ToldStep(m)
  BY <1>1, <1>4, TellTells DEF SgInv
<1>6. SgTypes /\ SgLeader \in SgRanks
  BY SgAssumption DEF SgInv
<1>7. /\ inflightStores' \in [SgRanks -> [StoreKeys -> SgTasks \union {NoLookup}]]
      /\ \A k \in StoreKeys :
           inflightStores'[SgLeader][k] = IF k \in done THEN NoLookup ELSE inflightStores[SgLeader][k]
  BY <1>1, <1>6 DEF SgTypes
<1>8. /\ locked' \in [SgRanks -> SUBSET StoreKeys]
      /\ \A r \in SgRanks : locked'[r] = IF r = SgLeader THEN locked[r] \ done ELSE locked[r]
  BY <1>1, <1>6 DEF SgTypes
<1>9. SgTypes'
  BY <1>1, <1>5, <1>6, <1>7, <1>8 DEF SgTypes, ToldStep
<1>10. TasksApart' /\ \A k \in StoreKeys : Storing(k)' => Storing(k)
  BY <1>1 DEF SgInv, TasksApart, Storing
<1> QED BY <1>1, <1>2, <1>3, <1>4, <1>5, <1>7, <1>8, <1>9, <1>10, LetGoKeeps

LEMMA ResetKeeps ==
  ASSUME SgInv, reset PROVE SgInv'
<1> DEFINE m == [op |-> "reset", ok |-> Drained]
           gone == IF Drained THEN StoreKeys ELSE {}
<1>1. /\ task' = SgCancelled(task, { pendingLookups[SgLeader][r] : r \in Rids })
      /\ pendingLookups' = [pendingLookups EXCEPT ![SgLeader] = Nothing]
      /\ Tell(m) /\ nextTask' = nextTask /\ storeOf' = storeOf
  BY DEF reset
<1>2. SgTypes /\ SgLeader \in SgRanks
  BY SgAssumption DEF SgInv
<1>3. /\ inflightStores' \in [SgRanks -> [StoreKeys -> SgTasks \union {NoLookup}]]
      /\ \A k \in StoreKeys :
           inflightStores'[SgLeader][k] = IF k \in gone THEN NoLookup ELSE inflightStores[SgLeader][k]
      /\ locked' \in [SgRanks -> SUBSET StoreKeys]
      /\ \A r \in SgRanks : locked'[r] = IF r = SgLeader THEN locked[r] \ gone ELSE locked[r]
  <2>1. CASE Drained
    <3>1. /\ inflightStores' = [inflightStores EXCEPT ![SgLeader] = [k \in StoreKeys |-> NoLookup]]
          /\ locked' = [locked EXCEPT ![SgLeader] = {}] /\ gone = StoreKeys
      BY <2>1 DEF reset
    <3> HIDE DEF gone
    <3> QED BY <1>2, <3>1 DEF SgTypes
  <2>2. CASE ~ Drained
    <3>1. inflightStores' = inflightStores /\ locked' = locked /\ gone = {}
      BY <2>2 DEF reset
    <3> HIDE DEF gone
    <3> QED BY <1>2, <3>1 DEF SgTypes
  <2> QED BY <2>1, <2>2
<1>4. \A k \in gone : ~ Storing(k)
  <2> SUFFICES ASSUME Drained, NEW k \in StoreKeys, Storing(k) PROVE FALSE
    OBVIOUS
  <2>1. inflightStores[SgLeader][k] = storeOf[k] /\ storeOf[k] # NoLookup /\ task[storeOf[k]] = "running"
    BY DEF SgInv, LeaderHolds, Storing
  <2>2. storeOf[k] \in StoreIds(SgLeader)
    BY <2>1 DEF StoreIds
  <2> QED BY <2>1, <2>2 DEF Drained
<1>5. Drained \in BOOLEAN
  BY DEF Drained
<1>6. m \in SgMessage /\ m.op = "reset" /\ (m.ok = TRUE => gone = StoreKeys) /\ gone \in SUBSET StoreKeys
  BY <1>5 DEF SgMessage
<1> HIDE DEF m, gone
<1>7. ToldStep(m)
  BY <1>1, <1>2, <1>6, TellTells
<1>8. /\ task' \in [SgTasks -> {"none", "held", "running", "ended", "failed", "closed", "stuck"}]
      /\ \A t \in SgTasks : task'[t] = "running" => task[t] = "running"
  BY <1>1, <1>2, CancelledFacts
<1>9. /\ pendingLookups' \in [SgRanks -> [Rids -> SgTasks \union {NoLookup}]]
      /\ \A q \in Rids : pendingLookups'[SgLeader][q] = NoLookup
  BY <1>1, <1>2 DEF SgTypes, Nothing
<1>10. SgTypes'
  BY <1>1, <1>2, <1>3, <1>7, <1>8, <1>9 DEF SgTypes, ToldStep
<1>11. \A k \in StoreKeys : Storing(k)' => Storing(k)
  BY <1>1, <1>2, <1>8 DEF Storing, SgTypes
<1>12. TasksApart'
  BY <1>1, <1>2, <1>9 DEF SgInv, SgTypes, TasksApart, NoLookup
<1> QED BY <1>1, <1>3, <1>4, <1>6, <1>7, <1>10, <1>11, <1>12, LetGoKeeps

LEMMA FollowKeeps ==
  ASSUME SgInv, NEW r \in SgFollowers, Follow(r) PROVE SgInv'
<1> DEFINE m == queue[r][1]
<1>1. /\ queue[r] # << >> /\ queue' = [queue EXCEPT ![r] = Tail(@)]
      /\ task' = task /\ nextTask' = nextTask /\ storeOf' = storeOf
  BY DEF Follow
<1>2. SgTypes /\ r \in SgRanks /\ r # SgLeader /\ SgLeader \in SgRanks
  BY SgAssumption DEF SgInv, SgFollowers
<1>3. /\ queue' \in [SgFollowers -> Seq(SgMessage)] /\ Head(queue[r]) = m /\ m \in SgMessage
      /\ 1 \in 1 .. Len(queue[r])
      /\ \A q \in SgFollowers : q # r => queue'[q] = queue[q]
      /\ Len(queue[r]) \in Nat /\ Len(queue'[r]) = Len(queue[r]) - 1
      /\ \A i \in 1 .. Len(queue'[r]) : i + 1 \in 1 .. Len(queue[r]) /\ queue'[r][i] = queue[r][i + 1]
  <2>1. queue[r] \in Seq(SgMessage) /\ queue[r] # << >>
    BY <1>1, <1>2 DEF SgTypes
  <2>2. /\ Tail(queue[r]) \in Seq(SgMessage) /\ Len(Tail(queue[r])) = Len(queue[r]) - 1
        /\ Len(queue[r]) \in Nat /\ Len(queue[r]) > 0 /\ Head(queue[r]) = queue[r][1]
        /\ \A i \in 1 .. Len(queue[r]) - 1 : Tail(queue[r])[i] = queue[r][i + 1]
    BY <2>1
  <2>3. 1 \in 1 .. Len(queue[r]) /\ queue[r][1] \in SgMessage
    BY <2>1, <2>2
  <2>4. /\ queue' \in [SgFollowers -> Seq(SgMessage)] /\ queue'[r] = Tail(queue[r])
        /\ \A q \in SgFollowers : q # r => queue'[q] = queue[q]
    BY <1>1, <1>2, <2>2 DEF SgTypes
  <2> QED BY <2>2, <2>3, <2>4
<1>4. ASSUME NEW k \in 1 .. Len(queue[r]), k # 1
      PROVE  k - 1 \in 1 .. Len(queue'[r]) /\ queue'[r][k - 1] = queue[r][k]
  <2>1. k - 1 \in 1 .. Len(queue'[r]) /\ (k - 1) + 1 = k
    BY <1>3, <1>4
  <2> QED BY <1>3, <2>1
<1>5. /\ m.op \in {"lookup", "prefetch"} => m.rid \in Rids /\ m.task \in SgTasks
      /\ m.op \in {"release", "abort", "retrieve", "prefetched", "commit"} => m.rid \in Rids
      /\ m.op = "store" => m.key \in StoreKeys /\ m.task \in SgTasks /\ m.task # NoLookup
      /\ m.op = "completed" => m.keys \subseteq StoreKeys
      /\ m.op = "reset" => m.ok \in BOOLEAN
  BY <1>3 DEF SgMessage, SgTasks, NoLookup
<1>6. /\ pendingLookups' \in [SgRanks -> [Rids -> SgTasks \union {NoLookup}]]
      /\ pendingLookups'[SgLeader] = pendingLookups[SgLeader]
  <2>1. pendingLookups' =
          CASE m.op = "lookup" -> [pendingLookups EXCEPT ![r][m.rid] = m.task]
            [] m.op \in {"release", "abort", "retrieve"} -> [pendingLookups EXCEPT ![r][m.rid] = NoLookup]
            [] m.op = "reset" -> [pendingLookups EXCEPT ![r] = Nothing]
            [] OTHER -> pendingLookups
    BY <1>3 DEF Follow
  <2>2. Nothing \in [Rids -> SgTasks \union {NoLookup}]
    BY DEF Nothing
  <2>3. \/ m.op = "lookup" /\ pendingLookups' = [pendingLookups EXCEPT ![r][m.rid] = m.task]
        \/ m.op \in {"release", "abort", "retrieve"} /\ pendingLookups' = [pendingLookups EXCEPT ![r][m.rid] = NoLookup]
        \/ pendingLookups' = [pendingLookups EXCEPT ![r] = Nothing]
        \/ pendingLookups' = pendingLookups
    BY <2>1
  <2> HIDE DEF m
  <2>4. pendingLookups \in [SgRanks -> [Rids -> SgTasks \union {NoLookup}]]
    BY <1>2 DEF SgTypes
  <2>5. CASE m.op = "lookup" /\ pendingLookups' = [pendingLookups EXCEPT ![r][m.rid] = m.task]
    BY <1>2, <1>5, <2>4, <2>5
  <2>6. CASE m.op \in {"release", "abort", "retrieve"} /\ pendingLookups' = [pendingLookups EXCEPT ![r][m.rid] = NoLookup]
    BY <1>2, <1>5, <2>4, <2>6
  <2>7. CASE pendingLookups' = [pendingLookups EXCEPT ![r] = Nothing]
    BY <1>2, <2>2, <2>4, <2>7
  <2> QED BY <2>3, <2>4, <2>5, <2>6, <2>7
<1>7. /\ inflightStores' \in [SgRanks -> [StoreKeys -> SgTasks \union {NoLookup}]]
      /\ inflightStores'[SgLeader] = inflightStores[SgLeader]
  <2>1. inflightStores' =
          CASE m.op = "store" -> [inflightStores EXCEPT ![r][m.key] = m.task]
            [] m.op = "completed" -> [inflightStores EXCEPT ![r] =
                                        [k \in StoreKeys |-> IF k \in m.keys THEN NoLookup ELSE @[k]]]
            [] m.op = "reset" /\ m.ok -> [inflightStores EXCEPT ![r] = [k \in StoreKeys |-> NoLookup]]
            [] OTHER -> inflightStores
    BY <1>3 DEF Follow
  <2>2. \/ m.op = "store" /\ inflightStores' = [inflightStores EXCEPT ![r][m.key] = m.task]
        \/ inflightStores' = [inflightStores EXCEPT ![r] =
                                [k \in StoreKeys |-> IF k \in m.keys THEN NoLookup ELSE @[k]]]
        \/ inflightStores' = [inflightStores EXCEPT ![r] = [k \in StoreKeys |-> NoLookup]]
        \/ inflightStores' = inflightStores
    BY <2>1
  <2> HIDE DEF m
  <2>3. inflightStores \in [SgRanks -> [StoreKeys -> SgTasks \union {NoLookup}]]
    BY <1>2 DEF SgTypes
  <2>4. CASE m.op = "store" /\ inflightStores' = [inflightStores EXCEPT ![r][m.key] = m.task]
    BY <1>2, <1>5, <2>3, <2>4
  <2>5. CASE inflightStores' = [inflightStores EXCEPT ![r] =
                                  [k \in StoreKeys |-> IF k \in m.keys THEN NoLookup ELSE @[k]]]
    BY <1>2, <2>3, <2>5
  <2>6. CASE inflightStores' = [inflightStores EXCEPT ![r] = [k \in StoreKeys |-> NoLookup]]
    BY <1>2, <2>3, <2>6
  <2> QED BY <2>2, <2>3, <2>4, <2>5, <2>6
<1>8. /\ locked' \in [SgRanks -> SUBSET StoreKeys]
      /\ \A q \in SgRanks : q # r => locked'[q] = locked[q]
      /\ m.op = "store" => locked'[r] = locked[r] \union {m.key}
      /\ m.op = "completed" => locked'[r] = locked[r] \ m.keys
      /\ m.op \notin {"store", "completed"} /\ ~ (m.op = "reset" /\ m.ok = TRUE) => locked'[r] = locked[r]
  <2>1. locked' =
          CASE m.op = "store" /\ m.task # NoLookup -> [locked EXCEPT ![r] = @ \union {m.key}]
            [] m.op = "completed" -> [locked EXCEPT ![r] = @ \ m.keys]
            [] m.op = "reset" /\ m.ok -> [locked EXCEPT ![r] = {}]
            [] OTHER -> locked
    BY <1>3 DEF Follow
  <2>2. CASE m.op = "store"
    <3>1. locked' = [locked EXCEPT ![r] = @ \union {m.key}]
      BY <1>5, <2>1, <2>2
    <3> QED BY <1>2, <1>5, <2>2, <3>1 DEF SgTypes
  <2>3. CASE m.op = "completed"
    <3>1. locked' = [locked EXCEPT ![r] = @ \ m.keys]
      BY <2>1, <2>3
    <3> QED BY <1>2, <1>5, <2>3, <3>1 DEF SgTypes
  <2>4. CASE m.op = "reset" /\ m.ok = TRUE
    <3>1. locked' = [locked EXCEPT ![r] = {}]
      BY <2>1, <2>4
    <3> QED BY <1>2, <2>4, <3>1 DEF SgTypes
  <2>5. CASE m.op \notin {"store", "completed"} /\ ~ (m.op = "reset" /\ m.ok = TRUE)
    <3>1. ~ (m.op = "reset" /\ m.ok)
      BY <1>5, <2>5
    <3>2. locked' = locked
      BY <2>1, <2>5, <3>1
    <3> QED BY <1>2, <2>5, <3>2 DEF SgTypes
  <2> QED BY <2>2, <2>3, <2>4, <2>5
<1> HIDE DEF m
<1>9. SgTypes'
  BY <1>1, <1>2, <1>3, <1>6, <1>7, <1>8 DEF SgTypes
<1>10. \A k \in StoreKeys : Storing(k)' <=> Storing(k)
  BY <1>1 DEF Storing
<1>11. TasksApart' /\ LeaderHolds'
  BY <1>1, <1>2, <1>6, <1>7, <1>8, <1>10 DEF SgInv, TasksApart, LeaderHolds
<1>12. Releases'
  <2> SUFFICES ASSUME NEW q \in SgFollowers, NEW i \in 1 .. Len(queue'[q]), NEW k \in StoreKeys
               PROVE  /\ queue'[q][i].op = "completed" /\ k \in queue'[q][i].keys =>
                           storeOf'[k] # NoLookup /\ ~ Storing(k)'
                      /\ queue'[q][i].op = "reset" /\ queue'[q][i].ok = TRUE /\ Storing(k)' =>
                           \E j \in 1 .. Len(queue'[q]) : i < j /\ queue'[q][j].op = "store" /\ queue'[q][j].key = k
    BY DEF Releases
  <2>1. CASE q # r
    BY <1>1, <1>3, <1>10, <2>1 DEF SgInv, Releases
  <2>2. CASE q = r
    <3>1. i + 1 \in 1 .. Len(queue[r]) /\ queue'[r][i] = queue[r][i + 1]
      BY <1>3, <2>2
    <3>2. /\ queue[r][i + 1].op = "completed" /\ k \in queue[r][i + 1].keys => storeOf[k] # NoLookup /\ ~ Storing(k)
          /\ queue[r][i + 1].op = "reset" /\ queue[r][i + 1].ok = TRUE /\ Storing(k) =>
               \E j \in 1 .. Len(queue[r]) : i + 1 < j /\ queue[r][j].op = "store" /\ queue[r][j].key = k
      BY <3>1 DEF SgInv, Releases
    <3>3. ASSUME NEW j \in 1 .. Len(queue[r]), i + 1 < j, queue[r][j].op = "store", queue[r][j].key = k
          PROVE  \E l \in 1 .. Len(queue'[r]) : i < l /\ queue'[r][l].op = "store" /\ queue'[r][l].key = k
      <4>1. j # 1 /\ i < j - 1
        BY <3>3
      <4> QED BY <1>4, <3>3, <4>1
    <3> QED BY <1>1, <1>10, <2>2, <3>1, <3>2, <3>3
  <2> QED BY <2>1, <2>2
<1>13. StoreSlotsHeld'
  <2> SUFFICES ASSUME NEW k \in StoreKeys, Storing(k), NEW q \in SgRanks
               PROVE  k \in locked'[q] \/ NotThereYet(q, k)'
    BY <1>10 DEF StoreSlotsHeld, Storing
  <2>1. k \in locked[q] \/ NotThereYet(q, k)
    BY DEF SgInv, StoreSlotsHeld, Storing
  <2>2. CASE q # r
    <3>1. NotThereYet(q, k) => NotThereYet(q, k)'
      BY <1>3, <2>2 DEF NotThereYet, SgFollowers
    <3> QED BY <1>8, <2>1, <2>2, <3>1
  <2>3. CASE q = r
    <3>1. m = queue[r][1]
      BY DEF m
    <3>2. ASSUME NEW i \in 1 .. Len(queue[r]), i # 1, queue[r][i].op = "store", queue[r][i].key = k
          PROVE  NotThereYet(r, k)'
      BY <1>2, <1>4, <3>2 DEF NotThereYet
    <3>3. CASE m.op = "reset" /\ m.ok = TRUE
      <4>1. \E j \in 1 .. Len(queue[r]) : 1 < j /\ queue[r][j].op = "store" /\ queue[r][j].key = k
        BY <1>3, <3>1, <3>3 DEF SgInv, Releases
      <4> QED BY <2>3, <3>2, <4>1
    <3>4. CASE ~ (m.op = "reset" /\ m.ok = TRUE)
      <4>1. k \in locked[r] => k \in locked'[r]
        <5>1. m.op = "completed" => k \notin m.keys
          BY <1>3, <3>1 DEF SgInv, Releases
        <5> QED BY <1>8, <3>4, <5>1
      <4>2. NotThereYet(r, k) => NotThereYet(r, k)' \/ k \in locked'[r]
        <5> SUFFICES ASSUME NotThereYet(r, k) PROVE NotThereYet(r, k)' \/ k \in locked'[r]
          OBVIOUS
        <5>1. PICK i \in 1 .. Len(queue[r]) : queue[r][i].op = "store" /\ queue[r][i].key = k
          BY DEF NotThereYet
        <5>2. CASE i = 1
          BY <1>8, <3>1, <5>1, <5>2
        <5> QED BY <3>2, <5>1, <5>2
      <4> QED BY <2>1, <2>3, <4>1, <4>2
    <3> QED BY <3>3, <3>4
  <2> QED BY <2>2, <2>3
<1> QED BY <1>9, <1>11, <1>12, <1>13 DEF SgInv

LEMMA InitSgInv == SgInit => SgInv
<1> SUFFICES ASSUME SgInit PROVE SgInv
  OBVIOUS
<1>1. SgTypes
  BY DEF SgInit, SgTypes, Nothing, SgFollowers
<1>2. \A k \in StoreKeys : storeOf[k] = NoLookup
  BY DEF SgInit
<1>3. TasksApart
  BY <1>2, SgAssumption DEF SgInit, TasksApart, Nothing, NoLookup
<1>4. LeaderHolds
  BY <1>2, SgAssumption DEF SgInit, LeaderHolds, Storing
<1>5. Releases
  BY DEF SgInit, Releases
<1>6. StoreSlotsHeld
  BY <1>2 DEF StoreSlotsHeld
<1> QED BY <1>1, <1>3, <1>4, <1>5, <1>6 DEF SgInv

LEMMA NextSgInv == SgInv /\ [SgNext]_sgVars => SgInv'
<1> SUFFICES ASSUME SgInv, [SgNext]_sgVars PROVE SgInv'
  OBVIOUS
<1>1. ASSUME NEW rid \in Rids,
             lookup_kv(rid) \/ retrieve_kv(rid) \/ release_pending(rid, FALSE) \/ release_pending(rid, TRUE)
      PROVE  SgInv'
  BY <1>1, LookupKeeps, RetrieveKeeps, ReleaseKeeps
<1>2. ASSUME NEW rid \in Rids, prefetch_async(rid) \/ check_prefetch_progress(rid) \/ Commit(rid)
      PROVE  SgInv'
  BY <1>2, OtherKeeps
<1>3. ASSUME NEW k \in StoreKeys, NEW o \in {"active", "skipped", "error"}, store_kv(k, o) PROVE SgInv'
  BY <1>3, StoreKeeps
<1>4. ASSUME lookup_only \/ retrieve_wait \/ retrieve_barrier PROVE SgInv'
  BY <1>4, OtherKeeps
<1>5. ASSUME check_completed_stores \/ reset PROVE SgInv'
  BY <1>5, CompletedKeeps, ResetKeeps
<1>6. ASSUME NEW r \in SgFollowers, Follow(r) PROVE SgInv'
  BY <1>6, FollowKeeps
<1>7. ASSUME (\E t \in SgTasks : SgTaskEnds(t)) \/ UNCHANGED sgVars PROVE SgInv'
  BY <1>7, OtherKeeps
<1> QED BY <1>1, <1>2, <1>3, <1>4, <1>5, <1>6, <1>7 DEF SgNext

(* For every number of ranks, requests, stores and calls a follower is behind:
   while a store runs, every rank keeps the slots store_kv reads.  The leader
   releases only what it saw end, and a follower that reaches such a release, or
   a reset, has not yet reached any store begun after it. *)
THEOREM StoreSlotsHeldAlways == SgSpec => []StoreSlotsHeld
<1>1. SgInv => StoreSlotsHeld
  BY DEF SgInv
<1> QED BY <1>1, InitSgInv, NextSgInv, PTL DEF SgSpec

-----------------------------------------------------------------------------
(* LayerCounter.  The invariant ties the counts of a rank's event set to its batch:
   what a layer ahead awaits is the number of loads in the batch, what has been
   signalled is the number of those that have copied the layer. *)

LayerEvents ==
  [finished : BOOLEAN, started : BOOLEAN, remaining : [Layers -> Nat], signals : [Layers -> Nat]]

LayerPreflights ==
  [task : Loads \union {None}, counter : Counters \union {None}, expected : Nat, fresh : BOOLEAN,
   ok : SUBSET Ranks, checked : SUBSET Ranks, added : SUBSET Ranks, told : SUBSET Ranks,
   verdict : {"open", "rollback"}]

LayerWaits == [counter : Counters \union {None}, count : Nat]

CtrTypes ==
  /\ ev \in [Ranks -> [Counters -> LayerEvents]]
  /\ producer \in Counters \union {None}
  /\ consumer \in [Ranks -> Counters \union {None}]
  /\ members \in [Ranks -> SUBSET Loads]
  /\ pre \in LayerPreflights
  /\ fate \in [Loads -> {"new", "preflight", "launched", "refused"}]
  /\ counterOf \in [Loads -> Counters \union {None}]
  /\ copied \in [Ranks -> [Loads -> 0 .. NumLayers]]
  /\ built \in [Ranks -> SUBSET Loads]
  /\ need \in [Ranks -> SUBSET Loads]
  /\ fwd \in [Ranks -> 0 .. NumLayers]
  /\ wait \in [Ranks -> LayerWaits]
  /\ resetting \in SUBSET Ranks
  /\ broken \in BOOLEAN /\ stuck \in BOOLEAN

(* A rank has the load in preflight in its batch, and has not undone it. *)
Preparing(r) == r \in pre.added /\ (pre.verdict = "open" \/ r \notin pre.told)

(* The load in preflight, and what is known of the ranks' part in it. *)
PreflightRules ==
  /\ pre.task = None => pre = Idle
  /\ pre.task # None =>
       /\ pre.counter \in Counters /\ resetting = {}
       /\ pre.verdict = "open" => /\ fate[pre.task] = "preflight"
                                  /\ pre.ok \subseteq pre.added /\ pre.added \subseteq pre.told
       /\ pre.verdict = "rollback" => fate[pre.task] = "refused"

(* A rank's batch: what was added is in it, what the worker still copies is in it,
   under the rank's consumer. *)
BatchMembers ==
  \A r \in Ranks :
    /\ IsFiniteSet(members[r])
    /\ consumer[r] = None => members[r] = {}
    /\ \A t \in members[r] : fate[t] # "new"
    /\ pre.task # None /\ r \notin pre.added => pre.task \notin members[r]
    /\ Preparing(r) => pre.task \in members[r] /\ consumer[r] = pre.counter

BatchLaunched ==
  ~ broken => \A r \in Ranks : \A t \in members[r] :
    (fate[t] = "launched" /\ counterOf[t] = consumer[r]) \/ (Preparing(r) /\ t = pre.task)

Delivery ==
  \A r \in Ranks : \A t \in Loads :
    /\ fate[t] = "launched" /\ copied[r][t] < NumLayers =>
         t \in members[r] /\ counterOf[t] = consumer[r]
    /\ fate[t] # "launched" => copied[r][t] = 0

Signalled(r, l) == { t \in members[r] : fate[t] = "launched" /\ copied[r][t] >= l }

(* A layer the rank's forward pass has not come to. *)
Ahead(r, l) == l > fwd[r] \/ (l = fwd[r] /\ wait[r] = NoSignals)

(* The consumer's event set: until it is finished its counts are those of the batch. *)
RankCounts(r) ==
  consumer[r] # None =>
    LET e == ev[r][consumer[r]] IN
      /\ e.finished => members[r] = {} /\ r = Leader /\ stuck
      /\ ~ e.finished =>
           /\ members[r] = {} => e = Armed
           /\ ~ e.started => \A l \in Layers : e.remaining[l] = Cardinality(members[r])
           /\ \A l \in Layers : Ahead(r, l) =>
                /\ e.remaining[l] = Cardinality(members[r])
                /\ e.signals[l] = Cardinality(Signalled(r, l))

(* Every other event set is free, or armed and empty. *)
ClosedSets ==
  \A r \in Ranks : \A c \in Counters :
    /\ c # consumer[r] => ev[r][c].finished \/ ev[r][c] = Armed
    /\ ev[r][c].finished => ev[r][c].remaining[NumLayers] = 0

(* A wait takes the signals of the whole batch, or is left over from a finished one
   while nothing is on its way. *)
RankWaits(r) ==
  /\ fwd[r] = 0 => wait[r] = NoSignals /\ need[r] = {}
  /\ wait[r] # NoSignals =>
       /\ wait[r].counter \in Counters /\ wait[r].count > 0
       /\ \/ LET e == ev[r][consumer[r]] IN
               /\ wait[r].counter = consumer[r] /\ wait[r].count = Cardinality(members[r])
               /\ ~ e.finished /\ e.started /\ e.remaining[fwd[r]] = 0
               /\ e.signals[fwd[r]] = Cardinality(Signalled(r, fwd[r]))
          \/ /\ r = Leader /\ stuck /\ fwd[r] < NumLayers
             /\ \A t \in need[r] : copied[r][t] = NumLayers

RankSets(r) == RankCounts(r) /\ RankWaits(r)

BatchWork == \A r \in Ranks : \A t \in built[r] \union need[r] : fate[t] = "launched"

ResetQuiet ==
  resetting # {} =>
    /\ pre.task = None
    /\ \A r \in Ranks : fwd[r] = 0
    /\ \A r \in Ranks : \A t \in Loads : fate[t] = "launched" => copied[r][t] = NumLayers

CtrInv ==
  /\ CtrTypes /\ PreflightRules /\ BatchMembers /\ BatchLaunched /\ Delivery /\ ClosedSets
  /\ (\A r \in Ranks : RankSets(r)) /\ BatchWork /\ ResetQuiet /\ NoEarlyLayer

-----------------------------------------------------------------------------
LEMMA EventFacts ==
  /\ NumLayers \in Nat \ {0} /\ 1 \in Layers /\ NumLayers \in Layers /\ None \notin Counters
  /\ Reusable \in LayerEvents /\ Armed \in LayerEvents
  /\ Reusable.finished /\ ~ Reusable.started /\ ~ Armed.finished /\ ~ Armed.started
  /\ \A l \in Layers : /\ Reusable.remaining[l] = 0 /\ Reusable.signals[l] = 0
                       /\ Armed.remaining[l] = 0 /\ Armed.signals[l] = 0
<1>1. NumLayers \in Nat \ {0} /\ 1 \in Layers /\ NumLayers \in Layers /\ None \notin Counters
  BY CounterAssumption DEF Layers, Counters, None
<1>2. Reusable \in LayerEvents /\ Reusable.finished /\ ~ Reusable.started
  BY DEF Reusable, LayerEvents
<1>3. \A l \in Layers : Reusable.remaining[l] = 0 /\ Reusable.signals[l] = 0
  BY DEF Reusable
<1>4. /\ Armed \in LayerEvents /\ ~ Armed.finished /\ ~ Armed.started
      /\ Armed.remaining = Reusable.remaining /\ Armed.signals = Reusable.signals
  BY <1>2 DEF Armed, LayerEvents
<1> QED BY <1>1, <1>2, <1>3, <1>4

(* Only one event set of one rank changes. *)
EventSet(r, c, e) ==
  /\ ev' \in [Ranks -> [Counters -> LayerEvents]]
  /\ ev'[r][c] = e
  /\ \A q \in Ranks : \A d \in Counters : q # r \/ d # c => ev'[q][d] = ev[q][d]

LEMMA EventSetIs ==
  ASSUME CtrTypes, NEW r \in Ranks, NEW c \in Counters, NEW e \in LayerEvents,
         ev' = [ev EXCEPT ![r] = [ev[r] EXCEPT ![c] = e]]
  PROVE  EventSet(r, c, e)
<1>1. ev'[r] = [ev[r] EXCEPT ![c] = e]
  BY DEF CtrTypes
<1>2. ev'[r][c] = e /\ \A d \in Counters : d # c => ev'[r][d] = ev[r][d]
  BY <1>1 DEF CtrTypes
<1>3. ev' \in [Ranks -> [Counters -> LayerEvents]]
  BY <1>1 DEF CtrTypes
<1>4. \A q \in Ranks : q # r => ev'[q] = ev[q]
  BY DEF CtrTypes
<1> QED BY <1>2, <1>3, <1>4 DEF EventSet

(* What the parts of a rank's invariant depend on. *)
LEMMA CountsFrame ==
  ASSUME NEW q \in Ranks, RankCounts(q), consumer'[q] = consumer[q], members'[q] = members[q],
         consumer[q] # None => ev'[q][consumer[q]] = ev[q][consumer[q]], stuck => stuck',
         \A l \in Layers : Signalled(q, l)' = Signalled(q, l) /\ (Ahead(q, l)' => Ahead(q, l))
  PROVE  RankCounts(q)'
  BY DEF RankCounts

LEMMA WaitsFrame ==
  ASSUME NEW q \in Ranks, RankWaits(q), consumer'[q] = consumer[q], members'[q] = members[q],
         consumer[q] # None => ev'[q][consumer[q]] = ev[q][consumer[q]], stuck => stuck',
         wait'[q] = wait[q], fwd'[q] = fwd[q], need'[q] = need[q], fwd[q] \in 0 .. NumLayers,
         \A l \in Layers : Signalled(q, l)' = Signalled(q, l),
         \A t \in need[q] : copied[q][t] = NumLayers => copied'[q][t] = NumLayers
  PROVE  RankWaits(q)'
<1>1. None \notin Counters
  BY EventFacts
<1>2. fwd[q] = 0 \/ fwd[q] \in Layers
  BY EventFacts DEF Layers
<1> QED BY <1>1, <1>2 DEF RankWaits

LEMMA CtrInitInv == CtrInit => CtrInv
<1> SUFFICES ASSUME CtrInit PROVE CtrInv
  OBVIOUS
<1> USE EventFacts
<1>1. CtrTypes
  <2>1. pre \in LayerPreflights
    BY DEF CtrInit, LayerPreflights, Idle
  <2>2. wait \in [Ranks -> LayerWaits]
    BY DEF CtrInit, LayerWaits, NoSignals
  <2>3. ev \in [Ranks -> [Counters -> LayerEvents]]
    BY DEF CtrInit
  <2>4. copied \in [Ranks -> [Loads -> 0 .. NumLayers]] /\ fwd \in [Ranks -> 0 .. NumLayers]
    BY DEF CtrInit
  <2>5. /\ producer \in Counters \union {None} /\ consumer \in [Ranks -> Counters \union {None}]
        /\ counterOf \in [Loads -> Counters \union {None}]
    BY DEF CtrInit
  <2>6. /\ members \in [Ranks -> SUBSET Loads] /\ built \in [Ranks -> SUBSET Loads]
        /\ need \in [Ranks -> SUBSET Loads]
        /\ fate \in [Loads -> {"new", "preflight", "launched", "refused"}]
    BY DEF CtrInit
  <2>7. resetting \in SUBSET Ranks /\ broken \in BOOLEAN /\ stuck \in BOOLEAN
    BY DEF CtrInit
  <2> QED BY <2>1, <2>2, <2>3, <2>4, <2>5, <2>6, <2>7 DEF CtrTypes
<1>2. pre.task = None /\ pre = Idle /\ pre.added = {}
  BY DEF CtrInit, Idle
<1>3. PreflightRules
  BY <1>2 DEF PreflightRules
<1>4. BatchMembers
  BY <1>2, FS_EmptySet DEF BatchMembers, Preparing, CtrInit
<1>5. BatchLaunched /\ Delivery
  BY DEF BatchLaunched, Delivery, CtrInit
<1>6. (\A r \in Ranks : RankCounts(r)) /\ ClosedSets
  BY DEF RankCounts, ClosedSets, CtrInit
<1>7. (\A r \in Ranks : RankWaits(r)) /\ BatchWork /\ ResetQuiet /\ NoEarlyLayer
  BY DEF RankWaits, BatchWork, ResetQuiet, NoEarlyLayer, CtrInit
<1> QED BY <1>1, <1>3, <1>4, <1>5, <1>6, <1>7 DEF CtrInv, RankSets

-----------------------------------------------------------------------------
(* The forward pass goes on to another layer. *)
LEMMA RunBatchKeeps ==
  ASSUME CtrInv, NEW r \in Ranks, RunBatch(r) PROVE CtrInv'
<1> USE EventFacts DEF CtrInv
<1>1. /\ fwd' \in [Ranks -> 0 .. NumLayers] /\ fwd'[r] = 1 /\ fwd[r] = 0
      /\ \A q \in Ranks : fwd[q] \in 0 .. NumLayers /\ (q # r => fwd'[q] = fwd[q])
  BY DEF RunBatch, CtrTypes
<1>2. /\ need' \in [Ranks -> SUBSET Loads] /\ built' \in [Ranks -> SUBSET Loads]
      /\ need'[r] = built[r] /\ built'[r] = {}
      /\ \A q \in Ranks : q # r => need'[q] = need[q] /\ built'[q] = built[q]
  BY DEF RunBatch, CtrTypes
<1>3. UNCHANGED << ev, producer, consumer, members, pre, fate, counterOf, copied, wait, passed,
                   resetting, broken, stuck >> /\ resetting = {}
  BY DEF RunBatch
<1>4. CtrTypes'
  BY <1>1, <1>2, <1>3 DEF CtrTypes
<1>5. PreflightRules' /\ BatchMembers' /\ BatchLaunched' /\ Delivery' /\ ClosedSets'
  BY <1>3 DEF PreflightRules, BatchMembers, BatchLaunched, Delivery, ClosedSets, Preparing
<1>6. \A q \in Ranks : \A l \in Layers :
        Signalled(q, l)' = Signalled(q, l) /\ (Ahead(q, l)' => Ahead(q, l))
  BY <1>1, <1>3 DEF Signalled, Ahead, Layers
<1>7. \A q \in Ranks : RankCounts(q)'
  BY <1>3, <1>6, CountsFrame DEF RankSets
<1>8. ASSUME NEW q \in Ranks PROVE RankWaits(q)'
  <2>1. CASE q = r
    BY <1>1, <1>3, <2>1 DEF RankWaits, RankSets
  <2>2. CASE q # r
    BY <1>1, <1>2, <1>3, <1>6, <2>2, WaitsFrame DEF RankSets
  <2> QED BY <2>1, <2>2
<1>9. BatchWork' /\ ResetQuiet' /\ NoEarlyLayer'
  BY <1>1, <1>2, <1>3 DEF BatchWork, ResetQuiet, NoEarlyLayer
<1> QED BY <1>4, <1>5, <1>7, <1>8, <1>9 DEF RankSets

LEMMA SkipLayerKeeps ==
  ASSUME CtrInv, NEW r \in Ranks, SkipLayer(r) PROVE CtrInv'
<1> USE EventFacts DEF CtrInv
<1>1. /\ fwd' \in [Ranks -> 0 .. NumLayers] /\ fwd'[r] = fwd[r] + 1 /\ fwd[r] # 0 /\ wait[r] = NoSignals
      /\ \A q \in Ranks : fwd[q] \in 0 .. NumLayers /\ (q # r => fwd'[q] = fwd[q])
  BY DEF SkipLayer, CtrTypes
<1>3. UNCHANGED << ev, producer, consumer, members, pre, fate, counterOf, copied, wait, passed,
                   resetting, broken, stuck, need, built >>
  BY DEF SkipLayer
<1>4. CtrTypes'
  BY <1>1, <1>3 DEF CtrTypes
<1>5. PreflightRules' /\ BatchMembers' /\ BatchLaunched' /\ Delivery' /\ ClosedSets'
  BY <1>3 DEF PreflightRules, BatchMembers, BatchLaunched, Delivery, ClosedSets, Preparing
<1>6. \A q \in Ranks : \A l \in Layers :
        Signalled(q, l)' = Signalled(q, l) /\ (Ahead(q, l)' => Ahead(q, l))
  BY <1>1, <1>3 DEF Signalled, Ahead, Layers
<1>7. \A q \in Ranks : RankCounts(q)'
  BY <1>3, <1>6, CountsFrame DEF RankSets
<1>8. ASSUME NEW q \in Ranks PROVE RankWaits(q)'
  <2>1. CASE q = r
    BY <1>1, <1>3, <2>1 DEF RankWaits, RankSets
  <2>2. CASE q # r
    BY <1>1, <1>3, <1>6, <2>2, WaitsFrame DEF RankSets
  <2> QED BY <2>1, <2>2
<1>9. BatchWork' /\ ResetQuiet' /\ NoEarlyLayer'
  BY <1>1, <1>3 DEF BatchWork, ResetQuiet, NoEarlyLayer
<1> QED BY <1>4, <1>5, <1>7, <1>8, <1>9 DEF RankSets

(* Where nothing is waited for, the batch is empty: what the pass needs is there. *)
LEMMA NoWaitKeeps ==
  ASSUME CtrInv, NEW r \in Ranks, NoWait(r) PROVE CtrInv'
<1> USE EventFacts DEF CtrInv
<1>1. /\ fwd[r] \in Layers /\ wait[r] = NoSignals
      /\ consumer[r] # None => ev[r][consumer[r]].remaining[fwd[r]] = 0
  BY DEF NoWait, CtrTypes, Layers
<1> DEFINE n == IF fwd[r] = NumLayers THEN 0 ELSE fwd[r] + 1
<1>2. /\ fwd' = [fwd EXCEPT ![r] = n] /\ n \in 0 .. NumLayers
      /\ need' = [need EXCEPT ![r] = IF fwd[r] = NumLayers THEN {} ELSE need[r]]
  BY <1>1 DEF NoWait, Ran, Layers
<1>3. /\ fwd' \in [Ranks -> 0 .. NumLayers] /\ fwd'[r] = n
      /\ \A q \in Ranks : fwd[q] \in 0 .. NumLayers /\ (q # r => fwd'[q] = fwd[q])
  BY <1>2 DEF CtrTypes
<1>4. /\ need' \in [Ranks -> SUBSET Loads]
      /\ need'[r] = IF fwd[r] = NumLayers THEN {} ELSE need[r]
      /\ \A q \in Ranks : q # r => need'[q] = need[q]
  BY <1>2 DEF CtrTypes
<1>5. UNCHANGED << ev, producer, consumer, members, pre, fate, counterOf, copied, wait,
                   resetting, broken, stuck, built >>
  BY DEF NoWait
<1>6. members[r] = {}
  <2>1. CASE consumer[r] = None
    BY <2>1 DEF BatchMembers
  <2>2. CASE consumer[r] # None /\ ev[r][consumer[r]].finished
    BY <2>2 DEF RankCounts, RankSets
  <2>3. CASE consumer[r] # None /\ ~ ev[r][consumer[r]].finished
    <3>1. Ahead(r, fwd[r])
      BY <1>1 DEF Ahead
    <3>2. Cardinality(members[r]) = 0 /\ IsFiniteSet(members[r])
      BY <1>1, <2>3, <3>1 DEF RankCounts, RankSets, BatchMembers
    <3> QED BY <3>2, FS_EmptySet
  <2> QED BY <2>1, <2>2, <2>3
<1>7. CtrTypes'
  BY <1>3, <1>4, <1>5 DEF CtrTypes
<1>8. PreflightRules' /\ BatchMembers' /\ BatchLaunched' /\ Delivery' /\ ClosedSets'
  BY <1>5 DEF PreflightRules, BatchMembers, BatchLaunched, Delivery, ClosedSets, Preparing
<1>9. NoEarlyLayer'
  <2>1. \A t \in need[r] : t \in Loads /\ fate[t] = "launched" /\ copied[r][t] \in 0 .. NumLayers
    BY DEF BatchWork, CtrTypes
  <2>2. \A t \in need[r] : ~ (copied[r][t] < fwd[r])
    BY <1>1, <1>6, <2>1 DEF Delivery, Layers
  <2>3. passed' = passed \union { t \in need[r] : copied[r][t] < fwd[r] }
    BY DEF NoWait, Ran
  <2> QED BY <2>2, <2>3 DEF NoEarlyLayer
<1>10. \A q \in Ranks : \A l \in Layers : Signalled(q, l)' = Signalled(q, l)
  BY <1>5 DEF Signalled
<1>11. ASSUME NEW q \in Ranks, q # r PROVE RankSets(q)'
  <2>1. \A l \in Layers : Ahead(q, l)' => Ahead(q, l)
    BY <1>3, <1>5, <1>11 DEF Ahead
  <2> QED BY <1>3, <1>4, <1>5, <1>10, <1>11, <2>1, CountsFrame, WaitsFrame DEF RankSets
<1>12. RankCounts(r)'
  <2>1. \A l \in Layers : Signalled(r, l) = {}
    BY <1>6 DEF Signalled
  <2>2. CASE consumer[r] # None /\ ~ ev[r][consumer[r]].finished
    <3>1. ev[r][consumer[r]] = Armed
      BY <1>6, <2>2 DEF RankSets, RankCounts
    <3>2. Cardinality(members'[r]) = 0 /\ \A l \in Layers : Cardinality(Signalled(r, l)') = 0
      BY <1>5, <1>6, <1>10, <2>1, FS_EmptySet
    <3> QED BY <1>5, <1>6, <2>2, <3>1, <3>2 DEF RankCounts
  <2>3. CASE consumer[r] = None \/ ev[r][consumer[r]].finished
    BY <1>5, <2>3 DEF RankSets, RankCounts
  <2> QED BY <2>2, <2>3
<1>13. RankWaits(r)'
  BY <1>1, <1>3, <1>4, <1>5 DEF RankWaits, Layers
<1>14. BatchWork' /\ ResetQuiet'
  BY <1>1, <1>3, <1>4, <1>5 DEF BatchWork, ResetQuiet, Layers
<1> QED BY <1>7, <1>8, <1>9, <1>11, <1>12, <1>13, <1>14 DEF RankSets

(* A wait begins: it is for the whole batch, or for what a finished one left. *)
LEMMA WaitBeginsKeeps ==
  ASSUME CtrInv, NEW r \in Ranks, WaitBegins(r) PROVE CtrInv'
<1> USE EventFacts DEF CtrInv
<1> DEFINE l == fwd[r]
           c == consumer[r]
           e == ev[r][c]
           f == [finished |-> e.finished, started |-> TRUE,
                 remaining |-> [e.remaining EXCEPT ![l] = 0], signals |-> e.signals]
<1>1. /\ l \in Layers /\ c \in Counters /\ c # None /\ e \in LayerEvents /\ wait[r] = NoSignals
      /\ e.remaining[l] > 0
  BY DEF WaitBegins, CtrTypes, Layers
<1>2. f \in LayerEvents /\ f.finished = e.finished /\ f.started /\ f.signals = e.signals
  BY <1>1 DEF LayerEvents
<1>3. f.remaining[l] = 0 /\ \A k \in Layers : k # l => f.remaining[k] = e.remaining[k]
  BY <1>1 DEF LayerEvents
<1>4. EventSet(r, c, f)
  <2>1. ev' = [ev EXCEPT ![r] = [ev[r] EXCEPT ![c] = f]]
    BY DEF WaitBegins, CtrTypes
  <2> HIDE DEF f
  <2> QED BY <1>1, <1>2, <2>1, EventSetIs
<1> HIDE DEF f
<1>5. /\ wait' \in [Ranks -> LayerWaits] /\ wait'[r] = [counter |-> c, count |-> e.remaining[l]]
      /\ \A q \in Ranks : q # r => wait'[q] = wait[q]
  <2>1. [counter |-> c, count |-> e.remaining[l]] \in LayerWaits
    BY <1>1 DEF LayerWaits, LayerEvents
  <2> QED BY <2>1 DEF WaitBegins, CtrTypes
<1>6. UNCHANGED << producer, consumer, members, pre, fate, counterOf, copied, built, need, fwd,
                   passed, resetting, broken, stuck >>
  BY DEF WaitBegins
<1>7. CtrTypes'
  BY <1>4, <1>5, <1>6 DEF CtrTypes, EventSet
<1>8. PreflightRules' /\ BatchMembers' /\ BatchLaunched' /\ Delivery'
  BY <1>6 DEF PreflightRules, BatchMembers, BatchLaunched, Delivery, Preparing
<1>9. ClosedSets'
  <2> SUFFICES ASSUME NEW q \in Ranks, NEW d \in Counters
               PROVE  /\ d # consumer[q] => ev'[q][d].finished \/ ev'[q][d] = Armed
                      /\ ev'[q][d].finished => ev'[q][d].remaining[NumLayers] = 0
    BY <1>6 DEF ClosedSets
  <2>1. CASE q = r /\ d = c
    BY <1>1, <1>2, <1>3, <1>4, <2>1 DEF EventSet, ClosedSets
  <2>2. CASE q # r \/ d # c
    BY <1>4, <2>2 DEF EventSet, ClosedSets
  <2> QED BY <2>1, <2>2
<1>10. \A q \in Ranks : \A k \in Layers : Signalled(q, k)' = Signalled(q, k)
  BY <1>6 DEF Signalled
<1>11. ASSUME NEW q \in Ranks, q # r PROVE RankSets(q)'
  <2>1. \A k \in Layers : Ahead(q, k)' => Ahead(q, k)
    BY <1>5, <1>6, <1>11 DEF Ahead
  <2>2. consumer[q] # None => ev'[q][consumer[q]] = ev[q][consumer[q]]
    BY <1>4, <1>11 DEF EventSet, CtrTypes
  <2>3. fwd[q] \in 0 .. NumLayers
    BY DEF CtrTypes
  <2> QED BY <1>5, <1>6, <1>10, <1>11, <2>1, <2>2, <2>3, CountsFrame, WaitsFrame DEF RankSets
<1>12. ev'[r][c] = f /\ consumer'[r] = c
  BY <1>4, <1>6 DEF EventSet
<1>13. \A k \in Layers : Ahead(r, k)' => k # l /\ Ahead(r, k)
  BY <1>1, <1>5, <1>6 DEF Ahead, NoSignals, Layers
<1>14. Ahead(r, l)
  BY <1>1 DEF Ahead
<1>15. ASSUME e.finished PROVE RankSets(r)'
  <2>1. members[r] = {} /\ r = Leader /\ stuck
    BY <1>1, <1>15 DEF RankSets, RankCounts
  <2>2. RankCounts(r)'
    BY <1>2, <1>6, <1>12, <1>15, <2>1 DEF RankCounts
  <2>3. l < NumLayers
    BY <1>1, <1>15 DEF ClosedSets, Layers
  <2>4. \A t \in need[r] : copied[r][t] = NumLayers
    <3>1. \A t \in need[r] : t \in Loads /\ fate[t] = "launched" /\ copied[r][t] \in 0 .. NumLayers
      BY DEF BatchWork, CtrTypes
    <3> QED BY <2>1, <3>1 DEF Delivery
  <2>5. RankWaits(r)'
    <3>1. fwd'[r] # 0 /\ wait'[r].counter = c /\ wait'[r].count > 0
      BY <1>1, <1>5, <1>6 DEF Layers
    <3> QED BY <1>1, <1>6, <2>1, <2>3, <2>4, <3>1 DEF RankWaits
  <2> QED BY <2>2, <2>5 DEF RankSets
<1>16. ASSUME ~ e.finished PROVE RankSets(r)'
  <2>1. e.remaining[l] = Cardinality(members[r]) /\ e.signals[l] = Cardinality(Signalled(r, l))
    BY <1>1, <1>14, <1>16 DEF RankSets, RankCounts
  <2>2. members[r] # {}
    <3>1. Cardinality({}) = 0
      BY FS_EmptySet
    <3>2. e.remaining[l] # 0
      BY <1>1
    <3> HIDE DEF e
    <3> QED BY <2>1, <3>1, <3>2
  <2>3. \A k \in Layers : Ahead(r, k)' =>
          /\ f.remaining[k] = Cardinality(members[r])
          /\ f.signals[k] = Cardinality(Signalled(r, k))
    BY <1>1, <1>2, <1>3, <1>13, <1>16 DEF RankSets, RankCounts
  <2>4. RankCounts(r)'
    BY <1>2, <1>6, <1>10, <1>12, <1>16, <2>2, <2>3 DEF RankCounts
  <2>5. RankWaits(r)'
    <3>1. fwd'[r] = l /\ l # 0 /\ wait'[r].counter = c /\ wait'[r].count = e.remaining[l]
      BY <1>1, <1>5, <1>6 DEF Layers
    <3>2. Signalled(r, fwd[r])' = Signalled(r, l)
      BY <1>1, <1>6, <1>10
    <3> QED BY <1>1, <1>2, <1>3, <1>6, <1>12, <1>16, <2>1, <3>1, <3>2 DEF RankWaits
  <2> QED BY <2>4, <2>5 DEF RankSets
<1>17. BatchWork' /\ ResetQuiet' /\ NoEarlyLayer'
  BY <1>6 DEF BatchWork, ResetQuiet, NoEarlyLayer
<1> QED BY <1>7, <1>8, <1>9, <1>11, <1>15, <1>16, <1>17

(* A wait ends: if it was for the whole batch, every load of it has come as far. *)
LEMMA WaitEndsKeeps ==
  ASSUME CtrInv, NEW r \in Ranks, WaitEnds(r) PROVE CtrInv'
<1> USE EventFacts DEF CtrInv
<1> DEFINE l == fwd[r]
           d == wait[r].counter
           e == ev[r][d]
           f == [finished |-> e.finished \/ l = NumLayers, started |-> e.started,
                 remaining |-> e.remaining,
                 signals |-> [e.signals EXCEPT ![l] = e.signals[l] - wait[r].count]]
           n == IF l = NumLayers THEN 0 ELSE l + 1
<1>1. /\ wait[r] # NoSignals /\ d \in Counters /\ l \in Layers /\ e \in LayerEvents
      /\ wait[r].count \in Nat /\ wait[r].count > 0 /\ e.signals[l] >= wait[r].count
      /\ n \in 0 .. NumLayers
  <2>1. wait[r] # NoSignals /\ e.signals[l] >= wait[r].count
    BY DEF WaitEnds
  <2>2. d \in Counters /\ wait[r].count > 0 /\ fwd[r] # 0
    BY <2>1 DEF RankSets, RankWaits
  <2>3. wait[r].count \in Nat /\ fwd[r] \in 0 .. NumLayers
    BY DEF CtrTypes, LayerWaits
  <2>4. e \in LayerEvents
    BY <2>2 DEF CtrTypes
  <2>5. l \in Layers /\ n \in 0 .. NumLayers
    BY <2>2, <2>3 DEF Layers
  <2> QED BY <2>1, <2>2, <2>3, <2>4, <2>5
<1>2. f \in LayerEvents /\ f.started = e.started /\ f.remaining = e.remaining
  <2>1. e.finished \in BOOLEAN /\ e.started \in BOOLEAN /\ e.remaining \in [Layers -> Nat]
        /\ e.signals \in [Layers -> Nat]
    BY <1>1 DEF LayerEvents
  <2>2. [e.signals EXCEPT ![l] = e.signals[l] - wait[r].count] \in [Layers -> Nat]
    <3>1. e.signals[l] - wait[r].count \in Nat
      <4>1. e.signals[l] \in Nat
        BY <1>1, <2>1
      <4>2. \A a, b \in Nat : a >= b => a - b \in Nat
        OBVIOUS
      <4> QED BY <1>1, <4>1, <4>2
    <3> HIDE DEF e, l
    <3> QED BY <1>1, <2>1, <3>1
  <2> QED BY <2>1, <2>2 DEF LayerEvents
<1>3. /\ f.finished <=> e.finished \/ l = NumLayers
      /\ \A k \in Layers : k # l => f.signals[k] = e.signals[k]
  BY <1>1 DEF LayerEvents
<1>4. EventSet(r, d, f)
  <2>1. ev' = [ev EXCEPT ![r] = [ev[r] EXCEPT ![d] = f]]
    BY DEF WaitEnds, CtrTypes
  <2> HIDE DEF f
  <2> QED BY <1>1, <1>2, <2>1, EventSetIs
<1> HIDE DEF f
<1>5. /\ wait' \in [Ranks -> LayerWaits] /\ wait'[r] = NoSignals
      /\ \A q \in Ranks : q # r => wait'[q] = wait[q]
  BY DEF WaitEnds, CtrTypes, LayerWaits, NoSignals
<1>6. /\ consumer' \in [Ranks -> Counters \union {None}]
      /\ consumer'[r] = IF l = NumLayers THEN None ELSE consumer[r]
      /\ \A q \in Ranks : q # r => consumer'[q] = consumer[q]
  BY DEF WaitEnds, CtrTypes
<1>7. /\ members' \in [Ranks -> SUBSET Loads]
      /\ members'[r] = IF l = NumLayers THEN {} ELSE members[r]
      /\ \A q \in Ranks : q # r => members'[q] = members[q]
  BY DEF WaitEnds, CtrTypes
<1>8. /\ fwd' = [fwd EXCEPT ![r] = n]
      /\ need' = [need EXCEPT ![r] = IF l = NumLayers THEN {} ELSE need[r]]
      /\ passed' = passed \union { t \in need[r] : copied[r][t] < l }
  BY DEF WaitEnds, Ran
<1>9. /\ fwd' \in [Ranks -> 0 .. NumLayers] /\ fwd'[r] = n
      /\ \A q \in Ranks : fwd[q] \in 0 .. NumLayers /\ (q # r => fwd'[q] = fwd[q])
  BY <1>1, <1>8 DEF CtrTypes
<1>10. /\ need' \in [Ranks -> SUBSET Loads]
       /\ need'[r] = IF l = NumLayers THEN {} ELSE need[r]
       /\ \A q \in Ranks : q # r => need'[q] = need[q]
  BY <1>8 DEF CtrTypes
<1>11. UNCHANGED << producer, pre, fate, counterOf, copied, built, resetting, broken, stuck >>
  BY DEF WaitEnds
<1>12. CtrTypes'
  BY <1>4, <1>5, <1>6, <1>7, <1>9, <1>10, <1>11 DEF CtrTypes, EventSet
<1> DEFINE whole == /\ d = consumer[r] /\ wait[r].count = Cardinality(members[r])
                    /\ ~ e.finished /\ e.remaining[l] = 0
                    /\ e.signals[l] = Cardinality(Signalled(r, l))
           stale == l < NumLayers /\ \A t \in need[r] : copied[r][t] = NumLayers
<1>13. whole \/ stale
  BY <1>1 DEF RankSets, RankWaits
<1>14. whole => \A t \in members[r] : fate[t] = "launched" /\ copied[r][t] >= l
  <2> SUFFICES ASSUME whole PROVE Signalled(r, l) = members[r]
    BY DEF Signalled
  <2>1. IsFiniteSet(members[r]) /\ Signalled(r, l) \subseteq members[r]
    BY DEF BatchMembers, Signalled
  <2>2. Cardinality(Signalled(r, l)) >= Cardinality(members[r])
    BY <1>1
  <2>3. Cardinality(Signalled(r, l)) \in Nat /\ Cardinality(members[r]) \in Nat
        /\ Cardinality(Signalled(r, l)) <= Cardinality(members[r])
    BY <2>1, FS_Subset, FS_CardinalityType
  <2> QED BY <2>1, <2>2, <2>3, FS_Subset
<1>15. \A t \in need[r] : t \in Loads /\ fate[t] = "launched" /\ copied[r][t] \in 0 .. NumLayers
  BY DEF BatchWork, CtrTypes
<1>16. \A t \in need[r] : ~ (copied[r][t] < l)
  <2>1. CASE whole
    BY <1>1, <1>14, <1>15, <2>1 DEF Delivery, Layers
  <2>2. CASE stale
    BY <1>1, <1>15, <2>2 DEF Layers
  <2> QED BY <1>13, <2>1, <2>2
<1>17. NoEarlyLayer'
  BY <1>8, <1>16 DEF NoEarlyLayer
<1>18. l = NumLayers => whole
  BY <1>1, <1>13 DEF Layers
<1> HIDE DEF stale
<1>19. l = NumLayers => ~ Preparing(r)
  <2> SUFFICES ASSUME l = NumLayers, Preparing(r) PROVE FALSE
    OBVIOUS
  <2>1. pre.task \in members[r]
    BY DEF BatchMembers
  <2>2. pre.task # None
    BY DEF Preparing, PreflightRules, Idle
  <2> QED BY <1>14, <1>18, <2>1, <2>2 DEF PreflightRules, CtrTypes, LayerPreflights
<1>20. PreflightRules'
  BY <1>11 DEF PreflightRules
<1>21. BatchMembers'
  <2>1. IsFiniteSet({})
    BY FS_EmptySet
  <2>2. \A q \in Ranks : Preparing(q)' <=> Preparing(q)
    BY <1>11 DEF Preparing
  <2>3. \A q \in Ranks : members'[q] = members[q] \/ members'[q] = {}
    BY <1>7
  <2>4. \A q \in Ranks : consumer'[q] = None => members'[q] = {}
    BY <1>6, <1>7 DEF BatchMembers
  <2>5. \A q \in Ranks : Preparing(q) => consumer'[q] = consumer[q] /\ members'[q] = members[q]
    BY <1>6, <1>7, <1>19
  <2> QED BY <1>11, <2>1, <2>2, <2>3, <2>4, <2>5 DEF BatchMembers
<1>22. BatchLaunched'
  BY <1>6, <1>7, <1>11 DEF BatchLaunched, Preparing
<1>23. Delivery'
  <2> SUFFICES ASSUME NEW q \in Ranks, NEW t \in Loads
               PROVE  /\ fate[t] = "launched" /\ copied[q][t] < NumLayers =>
                           t \in members'[q] /\ counterOf[t] = consumer'[q]
                      /\ fate[t] # "launched" => copied[q][t] = 0
    BY <1>11 DEF Delivery
  <2>1. copied[q][t] \in 0 .. NumLayers
    BY DEF CtrTypes
  <2>2. CASE q = r /\ l = NumLayers
    BY <1>14, <1>18, <2>1, <2>2 DEF Delivery
  <2>3. CASE q # r \/ l # NumLayers
    BY <1>6, <1>7, <2>3 DEF Delivery
  <2> QED BY <2>2, <2>3
<1>24. ClosedSets'
  <2> SUFFICES ASSUME NEW q \in Ranks, NEW g \in Counters
               PROVE  /\ g # consumer'[q] => ev'[q][g].finished \/ ev'[q][g] = Armed
                      /\ ev'[q][g].finished => ev'[q][g].remaining[NumLayers] = 0
    BY DEF ClosedSets
  <2>1. CASE q = r /\ g = d
    <3>1. ev'[q][g] = f
      BY <1>4, <2>1 DEF EventSet
    <3>2. f.finished => f.remaining[NumLayers] = 0
      <4>1. CASE e.finished
        BY <1>1, <1>2, <4>1 DEF ClosedSets
      <4>2. CASE l = NumLayers
        BY <1>2, <1>18, <4>2
      <4> QED BY <1>3, <4>1, <4>2
    <3>3. ASSUME g # consumer'[q], ~ f.finished PROVE FALSE
      <4>1. g # consumer[q] /\ ~ e.finished
        BY <1>3, <1>6, <2>1, <3>3
      <4>2. e = Armed
        BY <1>1, <2>1, <4>1 DEF ClosedSets
      <4>3. e.signals[l] = 0
        BY <1>1, <4>2
      <4> QED BY <1>1, <4>3
    <3> QED BY <3>1, <3>2, <3>3
  <2>2. CASE q # r \/ g # d
    <3>1. ev'[q][g] = ev[q][g]
      BY <1>4, <2>2 DEF EventSet
    <3>2. g # consumer'[q] => g # consumer[q]
      BY <1>6, <1>18, <2>2
    <3> QED BY <3>1, <3>2 DEF ClosedSets
  <2> QED BY <2>1, <2>2
<1>25. ASSUME NEW q \in Ranks, q # r PROVE RankSets(q)'
  <2>1. \A k \in Layers : (Ahead(q, k)' => Ahead(q, k)) /\ Signalled(q, k)' = Signalled(q, k)
    BY <1>5, <1>7, <1>9, <1>11, <1>25 DEF Ahead, Signalled
  <2>2. consumer[q] # None => ev'[q][consumer[q]] = ev[q][consumer[q]]
    BY <1>4, <1>25 DEF EventSet, CtrTypes
  <2> QED BY <1>5, <1>6, <1>7, <1>9, <1>10, <1>11, <1>25, <2>1, <2>2, CountsFrame, WaitsFrame DEF RankSets
<1>26. RankWaits(r)'
  <2>1. fwd'[r] = 0 => need'[r] = {}
    BY <1>1, <1>9, <1>10 DEF Layers
  <2> QED BY <1>5, <2>1 DEF RankWaits
<1>27. RankCounts(r)'
  <2>1. CASE l = NumLayers
    BY <1>6, <2>1 DEF RankCounts
  <2>2. CASE l # NumLayers /\ consumer[r] # None
    <3>1. /\ consumer'[r] = consumer[r] /\ members'[r] = members[r]
          /\ \A k \in Layers : Signalled(r, k)' = Signalled(r, k)
      BY <1>6, <1>7, <1>11, <2>2 DEF Signalled
    <3>2. \A k \in Layers : Ahead(r, k)' => k # l /\ Ahead(r, k)
      BY <1>1, <1>5, <1>9, <2>2 DEF Ahead, Layers
    <3>3. CASE d = consumer[r]
      <4>1. ev'[r][consumer[r]] = f
        BY <1>4, <3>3 DEF EventSet
      <4>2. f.finished <=> e.finished
        BY <1>3, <2>2
      <4>3. members[r] = {} /\ ~ e.finished => e = Armed
        BY <2>2, <3>3 DEF RankSets, RankCounts
      <4>4. ~ (members[r] = {} /\ ~ e.finished)
        <5>1. e = Armed => e.signals[l] = 0
          BY <1>1
        <5> QED BY <1>1, <4>3, <5>1
      <4>5. \A k \in Layers : ~ e.finished /\ Ahead(r, k)' =>
              f.remaining[k] = Cardinality(members[r]) /\ f.signals[k] = Cardinality(Signalled(r, k))
        <5>1. RankCounts(r) /\ consumer[r] # None /\ e = ev[r][consumer[r]]
          BY <2>2, <3>3 DEF RankSets
        <5>2. \A k \in Layers : ~ e.finished /\ Ahead(r, k) =>
                e.remaining[k] = Cardinality(members[r]) /\ e.signals[k] = Cardinality(Signalled(r, k))
          BY <5>1 DEF RankCounts
        <5>3. \A k \in Layers : Ahead(r, k)' => f.remaining[k] = e.remaining[k] /\ f.signals[k] = e.signals[k]
          BY <1>2, <1>3, <3>2
        <5> QED BY <3>2, <5>2, <5>3
      <4>6. e.finished => members[r] = {} /\ r = Leader /\ stuck
        BY <2>2, <3>3 DEF RankSets, RankCounts
      <4>7. ~ e.finished /\ ~ e.started => \A k \in Layers : f.remaining[k] = Cardinality(members[r])
        BY <1>2, <2>2, <3>3 DEF RankSets, RankCounts
      <4>8. CASE e.finished
        BY <1>11, <3>1, <4>1, <4>2, <4>6, <4>8 DEF RankCounts
      <4>9. CASE ~ e.finished
        <5>1. ~ f.finished /\ (f.started <=> e.started) /\ members'[r] # {}
          BY <1>2, <3>1, <4>2, <4>4, <4>9
        <5>2. ev'[r][consumer'[r]] = f
          BY <3>1, <4>1
        <5>3. ~ f.started => \A k \in Layers : f.remaining[k] = Cardinality(members'[r])
          BY <3>1, <4>7, <4>9, <5>1
        <5>4. \A k \in Layers : Ahead(r, k)' =>
                /\ f.remaining[k] = Cardinality(members'[r])
                /\ f.signals[k] = Cardinality(Signalled(r, k)')
          BY <3>1, <4>5, <4>9
        <5> QED BY <5>1, <5>2, <5>3, <5>4 DEF RankCounts
      <4> QED BY <4>8, <4>9
    <3>4. CASE d # consumer[r]
      <4>1. ev'[r][consumer[r]] = ev[r][consumer[r]]
        BY <1>4, <2>2, <3>4 DEF EventSet, CtrTypes
      <4> QED BY <1>11, <3>1, <3>2, <4>1, CountsFrame DEF RankSets
    <3> QED BY <3>3, <3>4
  <2>3. CASE l # NumLayers /\ consumer[r] = None
    BY <1>6, <2>3 DEF RankCounts
  <2> QED BY <2>1, <2>2, <2>3
<1>28. BatchWork' /\ ResetQuiet'
  BY <1>1, <1>9, <1>10, <1>11 DEF BatchWork, ResetQuiet, Layers
<1> QED BY <1>12, <1>17, <1>20, <1>21, <1>22, <1>23, <1>24, <1>25, <1>26, <1>27, <1>28 DEF RankSets

-----------------------------------------------------------------------------
(* The worker: a load is still in the batch of the rank whose layer it copies. *)
LEMMA CopyLayerKeeps ==
  ASSUME CtrInv, NEW r \in Ranks, NEW t \in Loads, CopyLayer(r, t) PROVE CtrInv'
<1> USE EventFacts DEF CtrInv
<1> DEFINE c == counterOf[t]
           e == ev[r][c]
           k == copied[r][t] + 1
           s == [e.signals EXCEPT ![k] = e.signals[k] + 1]
           f == [e EXCEPT !.signals = s]
<1>1. /\ fate[t] = "launched" /\ copied[r][t] \in 0 .. NumLayers /\ copied[r][t] < NumLayers
      /\ k \in Layers
  BY DEF CopyLayer, CtrTypes, Layers
<1>2. t \in members[r] /\ c = consumer[r] /\ c \in Counters /\ c # None /\ e \in LayerEvents
  <2>1. t \in members[r] /\ c = consumer[r]
    BY <1>1 DEF Delivery
  <2>2. consumer[r] # None
    BY <2>1 DEF BatchMembers
  <2> QED BY <2>1, <2>2 DEF CtrTypes
<1>3. /\ f \in LayerEvents /\ f.finished = e.finished /\ f.started = e.started
      /\ f.remaining = e.remaining
  <2>1. s \in [Layers -> Nat]
    <3>1. e.signals \in [Layers -> Nat] /\ e.signals[k] + 1 \in Nat
      BY <1>1, <1>2 DEF LayerEvents
    <3> HIDE DEF e, k
    <3> QED BY <1>1, <3>1
  <2> HIDE DEF s
  <2> QED BY <1>2, <2>1 DEF LayerEvents
<1>4. f.signals[k] = e.signals[k] + 1 /\ \A l \in Layers : l # k => f.signals[l] = e.signals[l]
  BY <1>1, <1>2 DEF LayerEvents
<1>5. EventSet(r, c, f)
  <2>1. ev' = [ev EXCEPT ![r] = [ev[r] EXCEPT ![c] = f]]
    BY <1>2 DEF CopyLayer, CtrTypes
  <2> HIDE DEF f
  <2> QED BY <1>2, <1>3, <2>1, EventSetIs
<1> HIDE DEF f
<1>6. /\ copied' \in [Ranks -> [Loads -> 0 .. NumLayers]] /\ copied'[r][t] = k
      /\ \A q \in Ranks : \A u \in Loads : q # r \/ u # t => copied'[q][u] = copied[q][u]
  <2>1. copied' = [copied EXCEPT ![r] = [copied[r] EXCEPT ![t] = k]]
    BY DEF CopyLayer, CtrTypes
  <2>2. k \in 0 .. NumLayers
    BY <1>1 DEF Layers
  <2> HIDE DEF k
  <2> QED BY <2>1, <2>2 DEF CtrTypes
<1>7. UNCHANGED << producer, consumer, members, pre, fate, counterOf, built, need, fwd, wait, passed,
                   resetting, broken, stuck >>
  BY DEF CopyLayer
<1>8. CtrTypes'
  BY <1>5, <1>6, <1>7 DEF CtrTypes, EventSet
<1>9. PreflightRules' /\ BatchMembers' /\ BatchLaunched' /\ BatchWork' /\ NoEarlyLayer'
  BY <1>7 DEF PreflightRules, BatchMembers, BatchLaunched, Preparing, BatchWork, NoEarlyLayer
<1>10. ResetQuiet'
  BY <1>1, <1>7 DEF ResetQuiet
<1>11. Delivery'
  <2> SUFFICES ASSUME NEW q \in Ranks, NEW u \in Loads
               PROVE  /\ fate[u] = "launched" /\ copied'[q][u] < NumLayers =>
                           u \in members[q] /\ counterOf[u] = consumer[q]
                      /\ fate[u] # "launched" => copied'[q][u] = 0
    BY <1>7 DEF Delivery
  <2>1. CASE q = r /\ u = t
    BY <1>1, <1>2, <2>1
  <2>2. CASE q # r \/ u # t
    BY <1>6, <2>2 DEF Delivery
  <2> QED BY <2>1, <2>2
<1>12. members[r] # {} /\ ~ e.finished
  BY <1>2 DEF RankSets, RankCounts
<1>13. ClosedSets'
  <2> SUFFICES ASSUME NEW q \in Ranks, NEW g \in Counters
               PROVE  /\ g # consumer[q] => ev'[q][g].finished \/ ev'[q][g] = Armed
                      /\ ev'[q][g].finished => ev'[q][g].remaining[NumLayers] = 0
    BY <1>7 DEF ClosedSets
  <2>1. CASE q = r /\ g = c
    BY <1>2, <1>3, <1>5, <1>12, <2>1 DEF EventSet
  <2>2. CASE q # r \/ g # c
    BY <1>5, <2>2 DEF EventSet, ClosedSets
  <2> QED BY <2>1, <2>2
<1>14. \A q \in Ranks : \A l \in Layers : Ahead(q, l)' <=> Ahead(q, l)
  BY <1>7 DEF Ahead
<1>15. ASSUME NEW q \in Ranks, q # r PROVE RankSets(q)'
  <2>1. \A l \in Layers : Signalled(q, l)' = Signalled(q, l)
    BY <1>6, <1>7, <1>15 DEF Signalled, CtrTypes
  <2>2. consumer[q] # None => ev'[q][consumer[q]] = ev[q][consumer[q]]
    BY <1>5, <1>15 DEF EventSet, CtrTypes
  <2>3. fwd[q] \in 0 .. NumLayers /\ need[q] \subseteq Loads
    BY DEF CtrTypes
  <2>4. \A u \in need[q] : copied[q][u] = NumLayers => copied'[q][u] = NumLayers
    BY <1>6, <1>15, <2>3
  <2> QED BY <1>7, <1>14, <2>1, <2>2, <2>3, <2>4, CountsFrame, WaitsFrame DEF RankSets
<1>16. \A l \in Layers : f.signals[l] - e.signals[l] =
                           Cardinality(Signalled(r, l)') - Cardinality(Signalled(r, l))
  <2> SUFFICES ASSUME NEW l \in Layers
               PROVE  f.signals[l] - e.signals[l] =
                        Cardinality(Signalled(r, l)') - Cardinality(Signalled(r, l))
    OBVIOUS
  <2>1. e.signals[l] \in Nat
    BY <1>2 DEF LayerEvents
  <2>2. IsFiniteSet(Signalled(r, l))
    <3>1. IsFiniteSet(members[r]) /\ Signalled(r, l) \subseteq members[r]
      BY DEF BatchMembers, Signalled
    <3> QED BY <3>1, FS_Subset
  <2>3. Cardinality(Signalled(r, l)) \in Nat
    BY <2>2, FS_CardinalityType
  <2>4. CASE l = k
    <3>1. t \notin Signalled(r, l)
      BY <1>1, <2>4 DEF Signalled, Layers
    <3>2. Signalled(r, l)' = Signalled(r, l) \union {t}
      <4>1. \A u \in members[r] : u # t => copied'[r][u] = copied[r][u]
        BY <1>6 DEF CtrTypes
      <4>2. copied'[r][t] >= l
        BY <1>1, <1>6, <2>4 DEF Layers
      <4> QED BY <1>1, <1>2, <1>7, <4>1, <4>2 DEF Signalled
    <3>3. Cardinality(Signalled(r, l)') = Cardinality(Signalled(r, l)) + 1
      <4>1. Cardinality(Signalled(r, l) \union {t}) = Cardinality(Signalled(r, l)) + 1
        BY <2>2, <3>1, FS_AddElement
      <4> QED BY <3>2, <4>1
    <3> QED BY <1>4, <2>1, <2>3, <2>4, <3>3
  <2>5. CASE l # k
    <3>1. Signalled(r, l)' = Signalled(r, l)
      <4>1. \A u \in members[r] : u # t => copied'[r][u] = copied[r][u]
        BY <1>6 DEF CtrTypes
      <4>2. copied'[r][t] >= l <=> copied[r][t] >= l
        <5>1. l \in Nat /\ copied[r][t] \in Nat /\ copied'[r][t] = copied[r][t] + 1 /\ l # copied[r][t] + 1
          BY <1>1, <1>6, <2>5 DEF Layers
        <5> QED BY <5>1
      <4> QED BY <1>7, <4>1, <4>2 DEF Signalled
    <3> QED BY <1>4, <2>1, <2>3, <2>5, <3>1
  <2> QED BY <2>4, <2>5
<1>17. \A l \in Layers : e.signals[l] = Cardinality(Signalled(r, l)) =>
                           f.signals[l] = Cardinality(Signalled(r, l)')
  <2> SUFFICES ASSUME NEW l \in Layers, e.signals[l] = Cardinality(Signalled(r, l))
               PROVE  f.signals[l] = Cardinality(Signalled(r, l)')
    OBVIOUS
  <2>1. e.signals[l] \in Nat /\ f.signals[l] \in Nat
    BY <1>2, <1>3 DEF LayerEvents
  <2>2. Cardinality(Signalled(r, l)') \in Nat
    <3>1. IsFiniteSet(members'[r]) /\ Signalled(r, l)' \subseteq members'[r]
      BY <1>9 DEF BatchMembers, Signalled
    <3> QED BY <3>1, FS_Subset, FS_CardinalityType
  <2>3. f.signals[l] - e.signals[l] = Cardinality(Signalled(r, l)') - Cardinality(Signalled(r, l))
    BY <1>16
  <2> HIDE DEF e
  <2> QED BY <2>1, <2>2, <2>3, EventFacts DEF Layers
<1>18. ev'[r][consumer'[r]] = f /\ consumer'[r] = c /\ members'[r] = members[r]
  BY <1>2, <1>5, <1>7 DEF EventSet
<1>19. RankCounts(r)'
  <2>1. ~ e.started => \A l \in Layers : f.remaining[l] = Cardinality(members[r])
    BY <1>2, <1>3, <1>12 DEF RankSets, RankCounts
  <2>2. \A l \in Layers : Ahead(r, l) =>
          e.remaining[l] = Cardinality(members[r]) /\ e.signals[l] = Cardinality(Signalled(r, l))
    BY <1>2, <1>12 DEF RankSets, RankCounts
  <2>3. \A l \in Layers : Ahead(r, l)' =>
          f.remaining[l] = Cardinality(members[r]) /\ f.signals[l] = Cardinality(Signalled(r, l)')
    BY <1>3, <1>14, <1>17, <2>2
  <2> QED BY <1>3, <1>12, <1>18, <2>1, <2>3 DEF RankCounts
<1>20. RankWaits(r)'
  <2>1. fwd[r] # 0 => fwd[r] \in Layers
    BY DEF CtrTypes, Layers
  <2>2. \A u \in need[r] : copied[r][u] = NumLayers => copied'[r][u] = NumLayers
    <3>1. need[r] \subseteq Loads /\ copied[r][t] # NumLayers
      BY <1>1 DEF CtrTypes
    <3> QED BY <1>6, <3>1
  <2>3. CASE wait[r] = NoSignals
    BY <1>7, <2>3 DEF RankSets, RankWaits
  <2>4. CASE wait[r] # NoSignals
    <3>1. fwd[r] \in Layers /\ wait[r].counter \in Counters /\ wait[r].count > 0
      BY <2>1, <2>4 DEF RankSets, RankWaits
    <3>2. CASE /\ r = Leader /\ stuck /\ fwd[r] < NumLayers
               /\ \A u \in need[r] : copied[r][u] = NumLayers
      BY <1>7, <2>1, <2>2, <3>1, <3>2 DEF RankWaits, Layers
    <3>3. CASE /\ wait[r].counter = c /\ wait[r].count = Cardinality(members[r])
               /\ ~ e.finished /\ e.started /\ e.remaining[fwd[r]] = 0
               /\ e.signals[fwd[r]] = Cardinality(Signalled(r, fwd[r]))
      <4>1. PICK l \in Layers : l = fwd[r]
        BY <3>1
      <4>2. f.signals[fwd[r]] = Cardinality(Signalled(r, fwd[r])')
        <5>1. f.signals[l] = Cardinality(Signalled(r, l)')
          BY <1>17, <3>3, <4>1
        <5>2. Signalled(r, l)' = Signalled(r, fwd[r])'
          BY <1>7, <4>1 DEF Signalled
        <5> QED BY <4>1, <5>1, <5>2
      <4>3. fwd'[r] = fwd[r] /\ fwd[r] # 0 /\ wait'[r] = wait[r]
        BY <1>7, <3>1 DEF Layers
      <4> QED BY <1>3, <1>18, <3>1, <3>3, <4>2, <4>3 DEF RankWaits
    <3> QED BY <1>2, <2>4, <3>2, <3>3 DEF RankSets, RankWaits
  <2> QED BY <2>3, <2>4
<1> QED BY <1>8, <1>9, <1>10, <1>11, <1>13, <1>15, <1>19, <1>20 DEF RankSets

-----------------------------------------------------------------------------
(* A reset comes when everything is copied and nobody waits. *)
LEMMA LeaderResetsKeeps ==
  ASSUME CtrInv, LeaderResets PROVE CtrInv'
<1> USE EventFacts DEF CtrInv
<1>1. UNCHANGED << ev, producer, consumer, members, pre, fate, counterOf, copied, built, need,
                   fwd, wait, passed, broken, stuck >>
  BY DEF LeaderResets
<1>2. /\ pre = Idle /\ resetting' = Ranks /\ \A r \in Ranks : fwd[r] = 0
      /\ \A t \in Loads : fate[t] = "launched" => \A r \in Ranks : copied[r][t] = NumLayers
  BY DEF LeaderResets
<1>3. pre.task = None
  BY <1>2 DEF Idle
<1>4. CtrTypes'
  BY <1>1, <1>2 DEF CtrTypes
<1>5. PreflightRules' /\ BatchMembers' /\ BatchLaunched' /\ Delivery' /\ ClosedSets' /\ BatchWork'
      /\ NoEarlyLayer'
  BY <1>1, <1>3 DEF PreflightRules, BatchMembers, BatchLaunched, Delivery, ClosedSets, Preparing, BatchWork, NoEarlyLayer
<1>6. ResetQuiet'
  BY <1>1, <1>2, <1>3 DEF ResetQuiet
<1>7. \A q \in Ranks : \A l \in Layers : Signalled(q, l)' = Signalled(q, l) /\ (Ahead(q, l)' => Ahead(q, l))
  BY <1>1 DEF Signalled, Ahead
<1>8. \A q \in Ranks : RankSets(q)'
  <2>1. \A q \in Ranks : RankCounts(q) /\ RankWaits(q) /\ fwd[q] \in 0 .. NumLayers
    BY DEF RankSets, CtrTypes
  <2>2. \A q \in Ranks : RankCounts(q)'
    BY <1>1, <1>7, <2>1, CountsFrame
  <2>3. \A q \in Ranks : RankWaits(q)'
    BY <1>1, <1>7, <2>1, WaitsFrame
  <2> QED BY <2>2, <2>3 DEF RankSets
<1> QED BY <1>4, <1>5, <1>6, <1>8

LEMMA ResetRankKeeps ==
  ASSUME CtrInv, NEW r \in Ranks, ResetRank(r) PROVE CtrInv'
<1> USE EventFacts DEF CtrInv
<1>1. UNCHANGED << pre, fate, counterOf, copied, need, fwd, wait, passed, broken >>
  BY DEF ResetRank
<1>2. /\ r \in resetting /\ pre.task = None /\ \A q \in Ranks : fwd[q] = 0
      /\ \A q \in Ranks : \A t \in Loads : fate[t] = "launched" => copied[q][t] = NumLayers
  BY DEF ResetRank, ResetQuiet
<1>3. /\ ev' \in [Ranks -> [Counters -> LayerEvents]] /\ \A c \in Counters : ev'[r][c] = Reusable
      /\ \A q \in Ranks : q # r => ev'[q] = ev[q]
  <2>1. [c \in Counters |-> Reusable] \in [Counters -> LayerEvents]
    OBVIOUS
  <2> QED BY <2>1 DEF ResetRank, CtrTypes
<1>4. /\ consumer' \in [Ranks -> Counters \union {None}] /\ consumer'[r] = None
      /\ \A q \in Ranks : q # r => consumer'[q] = consumer[q]
  BY DEF ResetRank, CtrTypes
<1>5. /\ members' \in [Ranks -> SUBSET Loads] /\ members'[r] = {}
      /\ built' \in [Ranks -> SUBSET Loads] /\ built'[r] = {}
      /\ \A q \in Ranks : q # r => members'[q] = members[q] /\ built'[q] = built[q]
  BY DEF ResetRank, CtrTypes
<1>6. producer' \in Counters \union {None} /\ resetting' \subseteq resetting /\ stuck' \in BOOLEAN
      /\ (r # Leader => (stuck' <=> stuck)) /\ resetting' \in SUBSET Ranks
  BY DEF ResetRank, CtrTypes
<1>7. CtrTypes'
  BY <1>1, <1>3, <1>4, <1>5, <1>6 DEF CtrTypes
<1>8. pre = Idle /\ \A q \in Ranks : ~ Preparing(q)
  BY <1>2 DEF PreflightRules, Preparing, Idle
<1>9. PreflightRules' /\ ResetQuiet' /\ NoEarlyLayer'
  BY <1>1, <1>2, <1>6 DEF PreflightRules, ResetQuiet, NoEarlyLayer
<1>10. BatchMembers' /\ BatchLaunched'
  <2>1. \A q \in Ranks : ~ Preparing(q)'
    BY <1>1, <1>8 DEF Preparing, Idle
  <2>2. IsFiniteSet({})
    BY FS_EmptySet
  <2>3. BatchMembers'
    <3>1. \A q \in Ranks : IsFiniteSet(members[q]) /\ members'[q] \subseteq members[q]
                            /\ (consumer[q] = None => members[q] = {})
      BY <1>5 DEF BatchMembers
    <3>2. \A q \in Ranks : IsFiniteSet(members'[q])
      BY <3>1, FS_Subset
    <3>3. \A q \in Ranks : consumer'[q] = None => members'[q] = {}
      BY <1>4, <1>5, <3>1
    <3>4. \A q \in Ranks : \A t \in members'[q] : fate'[t] # "new"
      BY <1>1, <3>1 DEF BatchMembers
    <3> QED BY <1>1, <1>2, <2>1, <3>2, <3>3, <3>4 DEF BatchMembers
  <2>4. BatchLaunched'
    BY <1>1, <1>4, <1>5, <1>8 DEF BatchLaunched
  <2> QED BY <2>3, <2>4
<1>11. Delivery' /\ BatchWork'
  BY <1>1, <1>2, <1>5 DEF Delivery, BatchWork
<1>12. ClosedSets'
  BY <1>3, <1>4 DEF ClosedSets
<1>13. ASSUME NEW q \in Ranks PROVE RankSets(q)'
  <2>1. RankWaits(q)'
    <3>1. wait[q] = NoSignals /\ need[q] = {}
      BY <1>2 DEF RankSets, RankWaits
    <3> QED BY <1>1, <3>1 DEF RankWaits
  <2>2. CASE q = r
    BY <1>4, <2>1, <2>2 DEF RankSets, RankCounts
  <2>3. CASE q # r
    <3>1. \A l \in Layers : Signalled(q, l)' = Signalled(q, l) /\ (Ahead(q, l)' => Ahead(q, l))
      BY <1>1, <1>5, <2>3 DEF Signalled, Ahead
    <3>2. RankCounts(q)
      BY DEF RankSets
    <3>3. q = Leader /\ stuck => stuck'
      BY <1>6, <2>3
    <3> QED BY <1>3, <1>4, <1>5, <2>1, <2>3, <3>1, <3>2, <3>3 DEF RankSets, RankCounts
  <2> QED BY <2>2, <2>3
<1> QED BY <1>7, <1>9, <1>10, <1>11, <1>12, <1>13

-----------------------------------------------------------------------------
(* The load protocol. *)
LEMMA CheckManifestKeeps ==
  ASSUME CtrInv, NEW r \in Ranks, NEW x \in BOOLEAN, CheckManifest(r, x) PROVE CtrInv'
<1> USE EventFacts DEF CtrInv
<1>1. UNCHANGED << ev, producer, consumer, members, fate, counterOf, copied, built, need, fwd,
                   wait, passed, resetting, broken, stuck >>
  BY DEF CheckManifest
<1>2. pre # Idle /\ pre.verdict = "open" /\ pre \in LayerPreflights
  BY DEF CheckManifest, CtrTypes
<1>3. \/ pre' = [pre EXCEPT !.checked = pre.checked \union {r}]
      \/ pre' = [pre EXCEPT !.told = pre.told \union {r}]
  BY DEF CheckManifest
<1>4. pre' \in LayerPreflights
  BY <1>2, <1>3 DEF LayerPreflights
<1>5. /\ pre'.task = pre.task /\ pre'.counter = pre.counter /\ pre'.ok = pre.ok
      /\ pre'.added = pre.added /\ pre'.verdict = "open" /\ pre.told \subseteq pre'.told
  BY <1>2, <1>3 DEF LayerPreflights
<1>6. pre.task # None
  BY <1>2 DEF PreflightRules
<1>7. CtrTypes'
  BY <1>1, <1>4 DEF CtrTypes
<1>8. \A q \in Ranks : Preparing(q)' <=> Preparing(q)
  BY <1>2, <1>5 DEF Preparing
<1>9. PreflightRules'
  BY <1>1, <1>2, <1>5, <1>6 DEF PreflightRules
<1>10. BatchMembers'
  BY <1>1, <1>5, <1>8 DEF BatchMembers
<1>11. BatchLaunched'
  BY <1>1, <1>5, <1>8 DEF BatchLaunched
<1>12. Delivery' /\ ClosedSets' /\ BatchWork' /\ NoEarlyLayer'
  BY <1>1 DEF Delivery, ClosedSets, BatchWork, NoEarlyLayer
<1>13. ResetQuiet'
  BY <1>1, <1>6 DEF ResetQuiet
<1>14. \A q \in Ranks : \A l \in Layers : Signalled(q, l)' = Signalled(q, l) /\ (Ahead(q, l)' => Ahead(q, l))
  BY <1>1 DEF Signalled, Ahead
<1>15. \A q \in Ranks : RankCounts(q) /\ RankWaits(q) /\ fwd[q] \in 0 .. NumLayers
  BY DEF RankSets, CtrTypes
<1>16. \A q \in Ranks : RankCounts(q)'
  BY <1>1, <1>14, <1>15, CountsFrame
<1>17. \A q \in Ranks : RankWaits(q)'
  BY <1>1, <1>14, <1>15, WaitsFrame
<1> QED BY <1>7, <1>9, <1>10, <1>11, <1>12, <1>13, <1>16, <1>17 DEF RankSets

(* When all agree, every rank has the load in its batch. *)
LEMMA AllReduceKeeps ==
  ASSUME CtrInv, AllReduce PROVE CtrInv'
<1> USE EventFacts DEF CtrInv
<1> DEFINE t == pre.task
<1>1. UNCHANGED << ev, producer, consumer, members, copied, need, fwd, wait, passed, resetting,
                   broken, stuck >>
  BY DEF AllReduce
<1>2. pre # Idle /\ pre.verdict = "open" /\ pre.told = Ranks /\ pre \in LayerPreflights
  BY DEF AllReduce, CtrTypes
<1>3. /\ t \in Loads /\ t # None /\ pre.counter \in Counters /\ resetting = {} /\ fate[t] = "preflight"
      /\ pre.ok \subseteq pre.added
  BY <1>2 DEF PreflightRules, LayerPreflights
<1>4. \A q \in Ranks : copied[q][t] = 0
  BY <1>3 DEF Delivery
<1>5. \A q \in Ranks : \A u \in built[q] \union need[q] : fate[u] = "launched" /\ u # t
  BY <1>3 DEF BatchWork
<1>6. PICK v \in {"launched", "refused"} : fate' = [fate EXCEPT ![t] = v]
  BY DEF AllReduce
<1>7. /\ fate' \in [Loads -> {"new", "preflight", "launched", "refused"}] /\ fate'[t] = v
      /\ \A u \in Loads : u # t => fate'[u] = fate[u]
  BY <1>3, <1>6 DEF CtrTypes
<1>8. \A q \in Ranks : \A l \in Layers : Signalled(q, l)' = Signalled(q, l) /\ (Ahead(q, l)' => Ahead(q, l))
  <2> SUFFICES ASSUME NEW q \in Ranks, NEW l \in Layers
               PROVE  Signalled(q, l)' = Signalled(q, l) /\ (Ahead(q, l)' => Ahead(q, l))
    OBVIOUS
  <2>1. Ahead(q, l)' => Ahead(q, l)
    BY <1>1 DEF Ahead
  <2>2. members[q] \subseteq Loads /\ members'[q] = members[q] /\ copied'[q] = copied[q]
    BY <1>1 DEF CtrTypes
  <2>3. ~ (copied[q][t] >= l)
    BY <1>4 DEF Layers
  <2> QED BY <1>7, <2>1, <2>2, <2>3 DEF Signalled
<1>9. \A q \in Ranks : RankCounts(q) /\ RankWaits(q) /\ fwd[q] \in 0 .. NumLayers
  BY DEF RankSets, CtrTypes
<1>10. \A q \in Ranks : RankCounts(q)'
  BY <1>1, <1>8, <1>9, CountsFrame
<1>11. \A q \in Ranks : RankWaits(q)'
  BY <1>1, <1>8, <1>9, WaitsFrame
<1>12. ClosedSets' /\ NoEarlyLayer' /\ ResetQuiet'
  BY <1>1, <1>3 DEF ClosedSets, NoEarlyLayer, ResetQuiet
<1>13. CASE pre.ok = Ranks
  <2>1. /\ fate' = [fate EXCEPT ![t] = "launched"] /\ counterOf' = [counterOf EXCEPT ![t] = pre.counter]
        /\ built' = [q \in Ranks |-> built[q] \union {t}] /\ pre' = Idle
    BY <1>13 DEF AllReduce
  <2>2. fate'[t] = "launched"
    BY <1>3, <2>1 DEF CtrTypes
  <2>3. /\ counterOf' \in [Loads -> Counters \union {None}] /\ counterOf'[t] = pre.counter
        /\ \A u \in Loads : u # t => counterOf'[u] = counterOf[u]
    BY <1>3, <2>1 DEF CtrTypes
  <2>4. built' \in [Ranks -> SUBSET Loads] /\ \A q \in Ranks : built'[q] = built[q] \union {t}
    BY <1>3, <2>1 DEF CtrTypes
  <2>5. pre' \in LayerPreflights /\ pre'.task = None /\ pre'.added = {}
    BY <2>1 DEF Idle, LayerPreflights
  <2>6. \A q \in Ranks : t \in members[q] /\ consumer[q] = pre.counter
    BY <1>2, <1>3, <1>13 DEF BatchMembers, Preparing
  <2>7. CtrTypes'
    BY <1>1, <1>7, <2>3, <2>4, <2>5 DEF CtrTypes
  <2>8. PreflightRules'
    BY <2>1, <2>5 DEF PreflightRules
  <2>9. BatchMembers'
    <3>1. \A q \in Ranks : \A u \in members[q] : u \in Loads /\ fate'[u] # "new"
      BY <1>7, <2>2 DEF BatchMembers, CtrTypes
    <3> QED BY <1>1, <2>5, <3>1 DEF BatchMembers, Preparing
  <2>10. BatchLaunched'
    <3>1. \A q \in Ranks : members[q] \subseteq Loads
      BY DEF CtrTypes
    <3> QED BY <1>1, <1>7, <2>2, <2>3, <2>6, <3>1 DEF BatchLaunched
  <2>11. Delivery'
    BY <1>1, <1>4, <1>7, <2>2, <2>3, <2>6 DEF Delivery
  <2>12. BatchWork'
    <3>1. \A q \in Ranks : built[q] \subseteq Loads /\ need[q] \subseteq Loads
      BY DEF CtrTypes
    <3> QED BY <1>1, <1>5, <1>7, <2>2, <2>4, <3>1 DEF BatchWork
  <2> QED BY <1>10, <1>11, <1>12, <2>7, <2>8, <2>9, <2>10, <2>11, <2>12 DEF RankSets
<1>14. CASE pre.ok # Ranks
  <2>1. /\ fate' = [fate EXCEPT ![t] = "refused"] /\ UNCHANGED << counterOf, built >>
        /\ pre' = [pre EXCEPT !.verdict = "rollback", !.told = {}]
    BY <1>14 DEF AllReduce
  <2>2. fate'[t] = "refused"
    BY <1>3, <2>1 DEF CtrTypes
  <2>3. pre' \in LayerPreflights
    BY <1>2, <2>1 DEF LayerPreflights
  <2>4. /\ pre'.task = t /\ pre'.counter = pre.counter /\ pre'.added = pre.added
        /\ pre'.verdict = "rollback" /\ pre'.told = {}
    BY <1>2, <2>1 DEF LayerPreflights
  <2>5. CtrTypes'
    BY <1>1, <1>7, <2>1, <2>3 DEF CtrTypes
  <2>6. PreflightRules'
    BY <1>1, <1>3, <2>2, <2>4 DEF PreflightRules
  <2>7. \A q \in Ranks : Preparing(q)' <=> Preparing(q)
    BY <1>2, <2>4 DEF Preparing
  <2>8. \A q \in Ranks : \A u \in members[q] : u \in Loads /\ fate'[u] # "new"
    BY <1>7, <2>2 DEF BatchMembers, CtrTypes
  <2>9. BatchMembers'
    BY <1>1, <2>4, <2>7, <2>8 DEF BatchMembers
  <2>10. BatchLaunched'
    BY <1>1, <1>3, <1>7, <2>1, <2>4, <2>7, <2>8 DEF BatchLaunched
  <2>11. Delivery'
    BY <1>1, <1>4, <1>7, <2>1, <2>2 DEF Delivery
  <2>12. BatchWork'
    <3>1. \A q \in Ranks : built[q] \subseteq Loads /\ need[q] \subseteq Loads
      BY DEF CtrTypes
    <3> QED BY <1>1, <1>5, <1>7, <2>1, <3>1 DEF BatchWork
  <2> QED BY <1>10, <1>11, <1>12, <2>5, <2>6, <2>9, <2>10, <2>11, <2>12 DEF RankSets
<1> QED BY <1>13, <1>14

(* The leader's choice arms a set that is finished, or leaves the open one alone. *)
LEMMA LeaderSelectsKeeps ==
  ASSUME CtrInv, NEW t \in Loads, LeaderSelects(t) PROVE CtrInv'
<1> USE EventFacts DEF CtrInv
<1> DEFINE c == consumer[Leader]
           open == c # None /\ ~ ev[Leader][c].finished /\ ~ ev[Leader][c].started
           n == IF open THEN c ELSE (producer + 1) % NumCounters
           usable == open \/ ev[Leader][n].finished
           x == IF open THEN ev[Leader][n].remaining[1] + 1
                ELSE IF usable /\ c \in {None, n} THEN 1 ELSE 0
<1>1. UNCHANGED << consumer, members, counterOf, copied, built, need, fwd, wait, passed,
                   resetting, broken, stuck >>
  BY DEF LeaderSelects
<1>2. pre = Idle /\ resetting = {} /\ fate[t] = "new" /\ fate' = [fate EXCEPT ![t] = "preflight"]
  BY DEF LeaderSelects
<1>3. /\ producer' = IF open THEN producer ELSE n
      /\ ev' = IF ~ open /\ usable THEN [ev EXCEPT ![Leader][n] = Arm(ev[Leader][n])] ELSE ev
      /\ pre' = [Idle EXCEPT !.task = t, !.counter = n, !.expected = x, !.fresh = usable /\ c # n]
  BY DEF LeaderSelects
<1>4. Leader \in Ranks /\ n \in Counters
  <2>1. Leader \in Ranks /\ c \in Counters \union {None} /\ producer \in Counters \union {None}
    BY CounterAssumption DEF CtrTypes
  <2>2. producer + 1 \in Nat /\ NumCounters \in Nat \ {0}
    BY <2>1, CounterAssumption DEF Counters, None
  <2>3. (producer + 1) % NumCounters \in Counters
    BY <2>2 DEF Counters
  <2> QED BY <2>1, <2>3
<1>5. x \in Nat
  <2>1. ev[Leader][n].remaining[1] \in Nat
    BY <1>4 DEF CtrTypes, LayerEvents
  <2> QED BY <2>1
<1>6. /\ ~ open /\ usable => ev[Leader][n].finished /\ EventSet(Leader, n, Armed)
      /\ ~ (~ open /\ usable) => ev' = ev
  <2>1. ~ open /\ usable => ev[Leader][n].finished
    OBVIOUS
  <2>2. ASSUME ~ open, usable PROVE EventSet(Leader, n, Armed)
    <3>1. ev' = [ev EXCEPT ![Leader] = [ev[Leader] EXCEPT ![n] = Armed]]
      BY <1>3, <1>4, <2>2 DEF Arm, CtrTypes
    <3> HIDE DEF n
    <3> QED BY <1>4, <3>1, EventSetIs
  <2> QED BY <1>3, <2>1, <2>2
<1>7. producer' \in Counters \union {None}
  BY <1>3, <1>4 DEF CtrTypes
<1>8. PICK y \in BOOLEAN : pre' = [Idle EXCEPT !.task = t, !.counter = n, !.expected = x, !.fresh = y]
  BY <1>3
<1>9. ev' \in [Ranks -> [Counters -> LayerEvents]]
  BY <1>6 DEF EventSet, CtrTypes
<1> HIDE DEF n, x
<1>10. pre' \in LayerPreflights
  BY <1>4, <1>5, <1>8 DEF LayerPreflights, Idle
<1>11. pre'.task = t /\ pre'.counter = n /\ pre'.ok = {} /\ pre'.added = {} /\ pre'.told = {} /\ pre'.verdict = "open"
  BY <1>8 DEF Idle
<1>12. pre.task = None /\ pre.added = {}
  BY <1>2 DEF Idle
<1>13. /\ fate' \in [Loads -> {"new", "preflight", "launched", "refused"}] /\ fate'[t] = "preflight"
       /\ \A u \in Loads : u # t => fate'[u] = fate[u]
  BY <1>2 DEF CtrTypes
<1>14. CtrTypes'
  BY <1>1, <1>7, <1>9, <1>10, <1>13 DEF CtrTypes
<1>15. t # None
  BY CounterAssumption DEF None
<1>16. PreflightRules'
  BY <1>1, <1>2, <1>4, <1>11, <1>13, <1>15 DEF PreflightRules
<1>17. \A q \in Ranks : members[q] \subseteq Loads /\ t \notin members[q]
  BY <1>2 DEF BatchMembers, CtrTypes
<1>18. \A q \in Ranks : \A u \in members[q] : fate'[u] = fate[u]
  BY <1>13, <1>17
<1>19. BatchMembers'
  BY <1>1, <1>11, <1>17, <1>18 DEF BatchMembers, Preparing
<1>20. BatchLaunched'
  BY <1>1, <1>12, <1>18 DEF BatchLaunched, Preparing
<1>21. Delivery'
  BY <1>1, <1>2, <1>13 DEF Delivery
<1>22. BatchWork' /\ ResetQuiet' /\ NoEarlyLayer'
  <2>1. \A q \in Ranks : built[q] \subseteq Loads /\ need[q] \subseteq Loads
    BY DEF CtrTypes
  <2>2. \A q \in Ranks : t \notin built[q] \union need[q]
    BY <1>2 DEF BatchWork
  <2> QED BY <1>1, <1>2, <1>13, <2>1, <2>2 DEF BatchWork, ResetQuiet, NoEarlyLayer
<1>23. ClosedSets'
  <2>1. CASE ~ open /\ usable
    BY <1>1, <1>6, <2>1 DEF ClosedSets, EventSet
  <2>2. CASE ~ (~ open /\ usable)
    BY <1>1, <1>6, <2>2 DEF ClosedSets
  <2> QED BY <2>1, <2>2
<1>24. \A q \in Ranks : \A l \in Layers : Signalled(q, l)' = Signalled(q, l) /\ (Ahead(q, l)' => Ahead(q, l))
  BY <1>1, <1>18 DEF Signalled, Ahead
<1>25. \A q \in Ranks : /\ RankCounts(q) /\ RankWaits(q) /\ fwd[q] \in 0 .. NumLayers
                        /\ consumer[q] \in Counters \union {None}
  BY DEF RankSets, CtrTypes
<1>26. ASSUME NEW q \in Ranks PROVE RankSets(q)'
  <2>1. CASE consumer[q] # None => ev'[q][consumer[q]] = ev[q][consumer[q]]
    <3>1. RankCounts(q)'
      BY <1>1, <1>24, <1>25, <2>1, CountsFrame
    <3>2. RankWaits(q)'
      BY <1>1, <1>24, <1>25, <2>1, WaitsFrame
    <3> QED BY <3>1, <3>2 DEF RankSets
  <2>2. CASE consumer[q] # None /\ ev'[q][consumer[q]] # ev[q][consumer[q]]
    <3>1. ~ open /\ usable /\ q = Leader /\ consumer[q] = n
      BY <1>6, <1>25, <2>2 DEF EventSet
    <3>2. ev[q][consumer[q]].finished /\ ev'[q][consumer[q]] = Armed
      BY <1>6, <3>1 DEF EventSet
    <3>3. members[q] = {} /\ stuck
      BY <1>25, <2>2, <3>2 DEF RankCounts
    <3>4. Cardinality(members'[q]) = 0 /\ \A l \in Layers : Cardinality(Signalled(q, l)') = 0
      <4>1. members'[q] = {} /\ \A l \in Layers : Signalled(q, l)' = {}
        BY <1>1, <3>3 DEF Signalled
      <4> QED BY <4>1, FS_EmptySet
    <3>5. RankCounts(q)'
      BY <1>1, <3>2, <3>4 DEF RankCounts
    <3>6. RankWaits(q)'
      BY <1>1, <1>25, <3>2 DEF RankWaits
    <3> QED BY <3>5, <3>6 DEF RankSets
  <2> QED BY <2>1, <2>2
<1> QED BY <1>14, <1>16, <1>19, <1>20, <1>21, <1>22, <1>23, <1>26

(* A load joins the batch a rank has open, or one that begins with it. *)
LEMMA RegisterKeeps ==
  ASSUME CtrInv, NEW r \in Ranks, Register(r) PROVE CtrInv'
<1> USE EventFacts DEF CtrInv
<1> DEFINE t == pre.task
           c == pre.counter
           e == IF ev[r][c].finished THEN Arm(ev[r][c]) ELSE ev[r][c]
           f == Plus(e, 1)
<1>1. UNCHANGED << producer, fate, counterOf, copied, built, need, fwd, wait, passed, resetting,
                   broken >>
  BY DEF Register
<1>2. /\ pre # Idle /\ pre.verdict = "open" /\ r \in pre.checked /\ r \notin pre.told
      /\ pre \in LayerPreflights
  BY DEF Register, CtrTypes
<1>3. /\ t \in Loads /\ t # None /\ c \in Counters /\ resetting = {} /\ fate[t] = "preflight"
      /\ pre.ok \subseteq pre.added /\ pre.added \subseteq pre.told /\ r \notin pre.added
  BY <1>2 DEF PreflightRules, LayerPreflights
<1>4. /\ t \notin members[r] /\ members[r] \subseteq Loads /\ IsFiniteSet(members[r])
      /\ consumer[r] \in Counters \union {None} /\ (consumer[r] = None => members[r] = {})
  BY <1>3 DEF BatchMembers, CtrTypes
<1>5. \A q \in Ranks : /\ RankCounts(q) /\ RankWaits(q) /\ fwd[q] \in 0 .. NumLayers
                       /\ consumer[q] \in Counters \union {None}
  BY DEF RankSets, CtrTypes
<1>6. \A q \in Ranks : \A l \in Layers : Ahead(q, l)' => Ahead(q, l)
  BY <1>1 DEF Ahead
<1>7. ResetQuiet' /\ BatchWork' /\ NoEarlyLayer'
  BY <1>1, <1>3 DEF ResetQuiet, BatchWork, NoEarlyLayer
<1>8. CASE Joins(r)
  <2>1. /\ ev' = [ev EXCEPT ![r][c] = f]
        /\ members' = [members EXCEPT ![r] = members[r] \union {t}]
        /\ consumer' = [consumer EXCEPT ![r] = c] /\ stuck' = stuck
    BY <1>8 DEF Register
  <2>2. PICK z \in {pre.ok, pre.ok \union {r}} :
          pre' = [pre EXCEPT !.told = pre.told \union {r}, !.added = pre.added \union {r}, !.ok = z]
    BY <1>8 DEF Register
  <2>3. pre' \in LayerPreflights
    <3>1. z \in SUBSET Ranks /\ pre.told \union {r} \in SUBSET Ranks /\ pre.added \union {r} \in SUBSET Ranks
      BY <1>2 DEF LayerPreflights
    <3> QED BY <1>2, <2>2, <3>1 DEF LayerPreflights
  <2>4. /\ pre'.task = t /\ pre'.counter = c /\ pre'.verdict = "open"
        /\ pre'.told = pre.told \union {r} /\ pre'.added = pre.added \union {r}
        /\ pre'.ok \subseteq pre.ok \union {r}
    BY <1>2, <2>2 DEF LayerPreflights
  <2>5. consumer[r] \in {None, c} /\ (consumer[r] = c => ~ ev[r][c].finished /\ ~ ev[r][c].started)
    BY <1>3, <1>8 DEF Joins, ExpectedCount, Countable
  <2>6. e \in LayerEvents /\ ~ e.finished /\ ~ e.started
    <3>1. ev[r][c] \in LayerEvents
      BY <1>3 DEF CtrTypes
    <3>2. CASE consumer[r] = c
      BY <2>5, <3>1, <3>2
    <3>3. CASE consumer[r] # c
      BY <1>3, <3>1, <3>3 DEF ClosedSets, Arm
    <3> QED BY <3>2, <3>3
  <2>7. /\ members[r] = {} => e = Armed
        /\ \A l \in Layers : e.remaining[l] = Cardinality(members[r])
        /\ \A l \in Layers : Ahead(r, l) => e.signals[l] = Cardinality(Signalled(r, l))
    <3>1. CASE consumer[r] = c
      BY <1>3, <1>5, <2>5, <3>1 DEF RankCounts
    <3>2. CASE consumer[r] # c
      <4>1. members[r] = {} /\ \A l \in Layers : Signalled(r, l) = {}
        BY <1>4, <2>5, <3>2 DEF Signalled
      <4>2. e = Armed
        BY <1>3, <3>2 DEF ClosedSets, Arm
      <4>3. Cardinality(members[r]) = 0 /\ \A l \in Layers : Cardinality(Signalled(r, l)) = 0
        BY <4>1, FS_EmptySet
      <4> HIDE DEF e
      <4> QED BY <4>2, <4>3
    <3> QED BY <3>1, <3>2
  <2> HIDE DEF e
  <2>8. /\ f \in LayerEvents /\ ~ f.finished /\ ~ f.started /\ f.signals = e.signals
        /\ \A l \in Layers : f.remaining[l] = e.remaining[l] + 1
    <3>1. \A l \in Layers : e.remaining[l] + 1 \in Nat
      BY <2>6 DEF LayerEvents
    <3> QED BY <2>6, <3>1 DEF Plus, LayerEvents
  <2> HIDE DEF f
  <2>9. EventSet(r, c, f)
    <3>1. ev' = [ev EXCEPT ![r] = [ev[r] EXCEPT ![c] = f]]
      BY <1>3, <2>1 DEF CtrTypes
    <3> QED BY <1>3, <2>8, <3>1, EventSetIs
  <2>10. /\ members' \in [Ranks -> SUBSET Loads] /\ members'[r] = members[r] \union {t}
         /\ \A q \in Ranks : q # r => members'[q] = members[q]
    BY <1>3, <2>1 DEF CtrTypes
  <2>11. /\ consumer' \in [Ranks -> Counters \union {None}] /\ consumer'[r] = c
         /\ \A q \in Ranks : q # r => consumer'[q] = consumer[q]
    BY <1>3, <2>1 DEF CtrTypes
  <2>12. CtrTypes'
    BY <1>1, <2>1, <2>3, <2>9, <2>10, <2>11 DEF CtrTypes, EventSet
  <2>13. PreflightRules'
    BY <1>1, <1>3, <2>4 DEF PreflightRules
  <2>14. Preparing(r)' /\ ~ Preparing(r) /\ \A q \in Ranks : q # r => (Preparing(q)' <=> Preparing(q))
    BY <1>2, <1>3, <2>4 DEF Preparing
  <2>15. IsFiniteSet(members'[r]) /\ Cardinality(members'[r]) = Cardinality(members[r]) + 1
    <3>1. /\ IsFiniteSet(members[r] \union {t})
          /\ Cardinality(members[r] \union {t}) = Cardinality(members[r]) + 1
      BY <1>4, FS_AddElement
    <3> QED BY <2>10, <3>1
  <2>16. BatchMembers'
    <3> SUFFICES ASSUME NEW q \in Ranks
                 PROVE  /\ IsFiniteSet(members'[q])
                        /\ consumer'[q] = None => members'[q] = {}
                        /\ \A u \in members'[q] : fate'[u] # "new"
                        /\ q \notin pre'.added => t \notin members'[q]
                        /\ Preparing(q)' => t \in members'[q] /\ consumer'[q] = c
      BY <2>4 DEF BatchMembers
    <3>1. CASE q = r
      <4>1. consumer'[r] # None /\ r \in pre'.added /\ t \in members'[r]
        BY <1>3, <2>4, <2>10, <2>11
      <4>2. \A u \in members'[r] : fate'[u] # "new"
        BY <1>1, <1>3, <2>10 DEF BatchMembers
      <4> QED BY <2>11, <2>15, <3>1, <4>1, <4>2
    <3>2. CASE q # r
      BY <1>1, <1>3, <2>4, <2>10, <2>11, <2>14, <3>2 DEF BatchMembers
    <3> QED BY <3>1, <3>2
  <2>17. consumer[r] # None => consumer[r] = c
    BY <2>5
  <2>18. BatchLaunched'
    <3> SUFFICES ASSUME ~ broken, NEW q \in Ranks, NEW u \in members'[q]
                 PROVE  (fate[u] = "launched" /\ counterOf[u] = consumer'[q]) \/ (Preparing(q)' /\ u = t)
      BY <1>1, <2>4 DEF BatchLaunched
    <3>1. CASE q = r
      BY <1>4, <2>10, <2>11, <2>14, <2>17, <3>1 DEF BatchLaunched
    <3>2. CASE q # r
      BY <2>10, <2>11, <2>14, <3>2 DEF BatchLaunched
    <3> QED BY <3>1, <3>2
  <2>19. Delivery'
    <3> SUFFICES ASSUME NEW q \in Ranks, NEW u \in Loads
                 PROVE  /\ fate[u] = "launched" /\ copied[q][u] < NumLayers =>
                             u \in members'[q] /\ counterOf[u] = consumer'[q]
                        /\ fate[u] # "launched" => copied[q][u] = 0
      BY <1>1 DEF Delivery
    <3>1. CASE q = r
      BY <1>4, <2>10, <2>11, <2>17, <3>1 DEF Delivery
    <3>2. CASE q # r
      BY <2>10, <2>11, <3>2 DEF Delivery
    <3> QED BY <3>1, <3>2
  <2>20. ClosedSets'
    <3> SUFFICES ASSUME NEW q \in Ranks, NEW g \in Counters
                 PROVE  /\ g # consumer'[q] => ev'[q][g].finished \/ ev'[q][g] = Armed
                        /\ ev'[q][g].finished => ev'[q][g].remaining[NumLayers] = 0
      BY DEF ClosedSets
    <3>1. CASE q = r /\ g = c
      BY <2>8, <2>9, <2>11, <3>1 DEF EventSet
    <3>2. CASE q # r \/ g # c
      <4>1. ev'[q][g] = ev[q][g]
        BY <2>9, <3>2 DEF EventSet
      <4>2. g # consumer'[q] => g # consumer[q]
        BY <2>11, <2>17, <3>2
      <4> QED BY <4>1, <4>2 DEF ClosedSets
    <3> QED BY <3>1, <3>2
  <2>21. \A q \in Ranks : \A l \in Layers : Signalled(q, l)' = Signalled(q, l)
    <3> SUFFICES ASSUME NEW q \in Ranks, NEW l \in Layers PROVE Signalled(q, l)' = Signalled(q, l)
      OBVIOUS
    <3>1. fate[t] # "launched"
      BY <1>3
    <3>2. members'[q] = members[q] \/ members'[q] = members[q] \union {t}
      BY <2>10
    <3> QED BY <1>1, <3>1, <3>2 DEF Signalled
  <2>22. ASSUME NEW q \in Ranks, q # r PROVE RankSets(q)'
    <3>1. consumer[q] # None => ev'[q][consumer[q]] = ev[q][consumer[q]]
      BY <1>5, <2>9, <2>22 DEF EventSet
    <3>2. RankCounts(q)'
      BY <1>5, <1>6, <2>1, <2>10, <2>11, <2>21, <2>22, <3>1, CountsFrame
    <3>3. RankWaits(q)'
      BY <1>1, <1>5, <2>1, <2>10, <2>11, <2>21, <2>22, <3>1, WaitsFrame
    <3> QED BY <3>2, <3>3 DEF RankSets
  <2>23. RankCounts(r)'
    <3>1. ev'[r][consumer'[r]] = f
      BY <2>9, <2>11 DEF EventSet
    <3>2. \A l \in Layers : f.remaining[l] = Cardinality(members'[r])
      BY <2>7, <2>8, <2>15
    <3>3. \A l \in Layers : Ahead(r, l)' => f.signals[l] = Cardinality(Signalled(r, l)')
      BY <1>6, <2>7, <2>8, <2>21
    <3>4. members'[r] # {}
      BY <2>10
    <3> QED BY <2>8, <3>1, <3>2, <3>3, <3>4 DEF RankCounts
  <2>24. RankWaits(r)'
    <3>1. wait[r] # NoSignals => /\ wait[r].counter \in Counters /\ wait[r].count > 0
                                 /\ r = Leader /\ stuck /\ fwd[r] < NumLayers
                                 /\ \A u \in need[r] : copied[r][u] = NumLayers
      BY <1>5, <2>5 DEF RankWaits
    <3>2. fwd[r] = 0 => wait[r] = NoSignals /\ need[r] = {}
      BY <1>5 DEF RankWaits
    <3> QED BY <1>1, <2>1, <3>1, <3>2 DEF RankWaits
  <2> QED BY <1>7, <2>12, <2>13, <2>16, <2>18, <2>19, <2>20, <2>22, <2>23, <2>24 DEF RankSets
<1>9. CASE ~ Joins(r)
  <2>1. /\ UNCHANGED << ev, members >> /\ pre' = [pre EXCEPT !.told = pre.told \union {r}]
        /\ consumer' = [consumer EXCEPT ![r] = IF r = Leader /\ consumer[r] = None THEN c ELSE consumer[r]]
    BY <1>9 DEF Register
  <2>2. stuck' <=> (stuck \/ (r = Leader /\ consumer[r] = None))
    BY <1>9 DEF Register
  <2>3. stuck' \in BOOLEAN
    BY <1>9 DEF Register
  <2>4. pre' \in LayerPreflights
    BY <1>2, <2>1 DEF LayerPreflights
  <2>5. /\ pre'.task = t /\ pre'.counter = c /\ pre'.verdict = "open" /\ pre'.ok = pre.ok
        /\ pre'.told = pre.told \union {r} /\ pre'.added = pre.added
    BY <1>2, <2>1 DEF LayerPreflights
  <2>6. /\ consumer' \in [Ranks -> Counters \union {None}]
        /\ consumer'[r] = IF r = Leader /\ consumer[r] = None THEN c ELSE consumer[r]
        /\ \A q \in Ranks : q # r => consumer'[q] = consumer[q]
    BY <1>3, <2>1 DEF CtrTypes
  <2>7. CtrTypes'
    BY <1>1, <2>1, <2>3, <2>4, <2>6 DEF CtrTypes
  <2>8. PreflightRules'
    BY <1>1, <1>3, <2>5 DEF PreflightRules
  <2>9. \A q \in Ranks : Preparing(q)' <=> Preparing(q)
    BY <1>2, <2>5 DEF Preparing
  <2>10. ~ Preparing(r)
    BY <1>3 DEF Preparing
  <2>11. \A q \in Ranks : consumer'[q] = consumer[q] \/ (q = r /\ consumer[r] = None /\ members[q] = {})
    BY <1>4, <2>6
  <2>12. BatchMembers'
    <3>1. \A q \in Ranks : consumer'[q] = None => members[q] = {}
      BY <2>11 DEF BatchMembers
    <3>2. \A q \in Ranks : Preparing(q) => t \in members[q] /\ consumer'[q] = c
      BY <2>10, <2>11 DEF BatchMembers
    <3> QED BY <1>1, <2>1, <2>5, <2>9, <3>1, <3>2 DEF BatchMembers
  <2>13. BatchLaunched'
    BY <1>1, <2>1, <2>5, <2>9, <2>11 DEF BatchLaunched
  <2>14. Delivery'
    BY <1>1, <2>1, <2>11 DEF Delivery
  <2>15. ClosedSets'
    <3>1. \A q \in Ranks : \A g \in Counters : g # consumer'[q] => g # consumer[q]
      BY <2>11
    <3> QED BY <2>1, <3>1 DEF ClosedSets
  <2>16. \A q \in Ranks : \A l \in Layers : Signalled(q, l)' = Signalled(q, l)
    BY <1>1, <2>1 DEF Signalled
  <2>17. ASSUME NEW q \in Ranks, consumer'[q] = consumer[q] PROVE RankSets(q)'
    <3>1. stuck => stuck'
      BY <2>2
    <3>2. RankCounts(q)'
      BY <1>5, <1>6, <2>1, <2>16, <2>17, <3>1, CountsFrame
    <3>3. RankWaits(q)'
      BY <1>1, <1>5, <2>1, <2>16, <2>17, <3>1, WaitsFrame
    <3> QED BY <3>2, <3>3 DEF RankSets
  <2>18. ASSUME consumer'[r] # consumer[r] PROVE RankSets(r)'
    <3>1. r = Leader /\ consumer[r] = None /\ consumer'[r] = c /\ stuck' /\ members[r] = {}
      BY <1>4, <2>2, <2>6, <2>18
    <3>2. ev[r][c].finished \/ ev[r][c].started
      BY <1>9, <3>1 DEF Joins
    <3>3. ev[r][c].finished
      BY <1>3, <3>1, <3>2 DEF ClosedSets
    <3>4. RankCounts(r)'
      BY <2>1, <3>1, <3>3 DEF RankCounts
    <3>5. RankWaits(r)'
      BY <1>1, <1>5, <3>1 DEF RankWaits
    <3> QED BY <3>4, <3>5 DEF RankSets
  <2>19. \A q \in Ranks : RankSets(q)'
    BY <2>11, <2>17, <2>18
  <2> QED BY <1>7, <2>7, <2>8, <2>12, <2>13, <2>14, <2>15, <2>19
<1> QED BY <1>8, <1>9

(* A rollback takes the load out of a batch no wait has begun on; a batch that is
   left empty goes back to the ring. *)
LEMMA RollBackKeeps ==
  ASSUME CtrInv, NEW r \in Ranks, RollBack(r) PROVE CtrInv'
<1> USE EventFacts DEF CtrInv
<1> DEFINE t == pre.task
           c == pre.counter
           e == ev[r][c]
           left == IF r \in pre.added THEN Plus(e, -1) ELSE e
           raises == r \in pre.added /\ ~ (Countable(e) /\ e.remaining[1] > 0)
           mine == r \in pre.added \/ (r = Leader /\ (pre.fresh \/ r \in pre.checked))
           empty == mine /\ Countable(e) /\ left.remaining[1] = 0
           f == IF empty THEN Reusable ELSE left
<1>1. UNCHANGED << producer, fate, counterOf, copied, built, need, fwd, wait, passed, resetting,
                   stuck >>
  BY DEF RollBack
<1>2. /\ pre.verdict = "rollback" /\ r \notin pre.told /\ pre \in LayerPreflights
      /\ pre' = IF pre.told \union {r} = Ranks THEN Idle
                ELSE [pre EXCEPT !.told = pre.told \union {r}]
  BY DEF RollBack, CtrTypes
<1>3. /\ ev' = IF raises THEN ev ELSE [ev EXCEPT ![r][c] = f]
      /\ consumer' = [consumer EXCEPT ![r] = IF empty /\ ~ raises /\ consumer[r] = c THEN None
                                             ELSE consumer[r]]
      /\ members' = IF raises THEN members ELSE [members EXCEPT ![r] = members[r] \ {t}]
  BY DEF RollBack
<1>4. broken' \in BOOLEAN /\ (broken' <=> (broken \/ raises))
  BY DEF RollBack
<1>5. pre.task # None
  BY <1>2 DEF PreflightRules, Idle
<1>6. t \in Loads /\ c \in Counters /\ resetting = {} /\ fate[t] = "refused" /\ e \in LayerEvents
  BY <1>2, <1>5 DEF PreflightRules, LayerPreflights, CtrTypes
<1>7. /\ pre' \in LayerPreflights
      /\ pre'.task # None => /\ pre'.task = t /\ pre'.counter = c /\ pre'.added = pre.added
                             /\ pre'.told = pre.told \union {r} /\ pre'.verdict = "rollback"
      /\ pre'.task = None => pre' = Idle /\ pre'.added = {} /\ pre.told \union {r} = Ranks
  <2>1. CASE pre.told \union {r} = Ranks
    <3>1. pre' = Idle
      BY <1>2, <2>1
    <3>2. Idle \in LayerPreflights /\ Idle.task = None /\ Idle.added = {}
      BY DEF Idle, LayerPreflights
    <3> QED BY <2>1, <3>1, <3>2
  <2>2. CASE pre.told \union {r} # Ranks
    <3>1. pre' = [pre EXCEPT !.told = pre.told \union {r}]
      BY <1>2, <2>2
    <3>2. pre' \in LayerPreflights
      BY <1>2, <3>1 DEF LayerPreflights
    <3>3. /\ pre'.task = t /\ pre'.counter = c /\ pre'.added = pre.added
          /\ pre'.told = pre.told \union {r} /\ pre'.verdict = "rollback"
      BY <1>2, <3>1 DEF LayerPreflights
    <3> QED BY <1>5, <3>2, <3>3
  <2> QED BY <2>1, <2>2
<1>8. \A q \in Ranks : (Preparing(q)' => pre'.task # None) /\ (Preparing(q)' <=> (q # r /\ Preparing(q)))
  <2> SUFFICES ASSUME NEW q \in Ranks
               PROVE  (Preparing(q)' => pre'.task # None) /\ (Preparing(q)' <=> (q # r /\ Preparing(q)))
    OBVIOUS
  <2>1. CASE pre'.task = None
    <3>1. q = r \/ q \in pre.told
      BY <1>7, <2>1
    <3> QED BY <1>2, <1>7, <2>1, <3>1 DEF Preparing
  <2>2. CASE pre'.task # None
    BY <1>2, <1>7, <2>2 DEF Preparing
  <2> QED BY <2>1, <2>2
<1>9. \A q \in Ranks : /\ RankCounts(q) /\ RankWaits(q) /\ fwd[q] \in 0 .. NumLayers
                       /\ consumer[q] \in Counters \union {None}
                       /\ IsFiniteSet(members[q]) /\ members[q] \subseteq Loads
  BY DEF RankSets, CtrTypes, BatchMembers
<1>10. \A q \in Ranks : \A l \in Layers : Ahead(q, l)' <=> Ahead(q, l)
  BY <1>1 DEF Ahead
<1>11. PreflightRules' /\ ResetQuiet' /\ BatchWork' /\ NoEarlyLayer'
  BY <1>1, <1>6, <1>7 DEF PreflightRules, ResetQuiet, BatchWork, NoEarlyLayer
<1>12. Cardinality(members[r]) \in Nat
  BY <1>9, FS_CardinalityType
(* A rank that added the load has it under this set. *)
<1>13. r \in pre.added => t \in members[r] /\ consumer[r] = c /\ ~ e.finished
  <2>1. r \in pre.added => t \in members[r] /\ consumer[r] = c
    BY <1>2 DEF BatchMembers, Preparing
  <2>2. r \in pre.added => c # None
    BY <1>6
  <2> QED BY <1>9, <2>1, <2>2 DEF RankCounts
<1>14. r \notin pre.added => t \notin members[r]
  BY <1>5 DEF BatchMembers
<1>15. r \in pre.added /\ ~ raises =>
         ~ e.started /\ \A l \in Layers : e.remaining[l] = Cardinality(members[r])
  BY <1>6, <1>9, <1>13 DEF Countable, RankCounts
<1>16. CASE raises
  <2>1. UNCHANGED << ev, members >> /\ broken'
    BY <1>3, <1>4, <1>16
  <2>2. consumer' = consumer
    BY <1>3, <1>16 DEF CtrTypes
  <2>3. CtrTypes'
    BY <1>1, <1>4, <1>7, <2>1, <2>2 DEF CtrTypes
  <2>4. BatchMembers'
    BY <1>1, <1>7, <1>8, <2>1, <2>2 DEF BatchMembers
  <2>5. BatchLaunched' /\ Delivery' /\ ClosedSets'
    BY <1>1, <2>1, <2>2 DEF BatchLaunched, Delivery, ClosedSets
  <2>6. \A q \in Ranks : \A l \in Layers : Signalled(q, l)' = Signalled(q, l)
    BY <1>1, <2>1 DEF Signalled
  <2>7. \A q \in Ranks : RankCounts(q)'
    BY <1>1, <1>9, <1>10, <2>1, <2>2, <2>6, CountsFrame
  <2>8. \A q \in Ranks : RankWaits(q)'
    BY <1>1, <1>9, <2>1, <2>2, <2>6, WaitsFrame
  <2> QED BY <1>11, <2>3, <2>4, <2>5, <2>7, <2>8 DEF RankSets
<1>17. CASE ~ raises
  <2>1. f \in LayerEvents
    <3>1. ASSUME r \in pre.added PROVE Plus(e, -1) \in LayerEvents
      <4>1. t \in members[r] /\ Cardinality(members[r]) # 0
        BY <1>9, <1>13, <3>1, FS_EmptySet
      <4>2. \A l \in Layers : e.remaining[l] + (-1) \in Nat
        BY <1>12, <1>15, <1>17, <3>1, <4>1
      <4> QED BY <1>6, <4>2 DEF Plus, LayerEvents
    <3> QED BY <1>6, <3>1
  <2>2. EventSet(r, c, f)
    <3>1. ev' = [ev EXCEPT ![r] = [ev[r] EXCEPT ![c] = f]]
      BY <1>3, <1>6, <1>17 DEF CtrTypes
    <3> HIDE DEF f
    <3> QED BY <1>6, <2>1, <3>1, EventSetIs
  <2>3. /\ members' \in [Ranks -> SUBSET Loads] /\ members'[r] = members[r] \ {t}
        /\ \A q \in Ranks : q # r => members'[q] = members[q]
    BY <1>3, <1>17 DEF CtrTypes
  <2>4. /\ consumer' \in [Ranks -> Counters \union {None}]
        /\ consumer'[r] = IF empty /\ consumer[r] = c THEN None ELSE consumer[r]
        /\ \A q \in Ranks : q # r => consumer'[q] = consumer[q]
    <3> HIDE DEF empty, raises
    <3> QED BY <1>3, <1>17 DEF CtrTypes
  <2>5. CtrTypes'
    BY <1>1, <1>4, <1>7, <2>2, <2>3, <2>4 DEF CtrTypes, EventSet
  <2>6. \A q \in Ranks : \A l \in Layers : Signalled(q, l)' = Signalled(q, l)
    <3> SUFFICES ASSUME NEW q \in Ranks, NEW l \in Layers PROVE Signalled(q, l)' = Signalled(q, l)
      OBVIOUS
    <3>1. fate[t] # "launched"
      BY <1>6
    <3>2. members'[q] = members[q] \/ members'[q] = members[q] \ {t}
      BY <2>3
    <3> QED BY <1>1, <3>1, <3>2 DEF Signalled
  (* What an empty set means for the batch. *)
  <2>7. /\ IsFiniteSet(members'[r])
        /\ Cardinality(members'[r]) = IF r \in pre.added THEN Cardinality(members[r]) - 1
                                      ELSE Cardinality(members[r])
    <3>1. CASE r \in pre.added
      <4>1. /\ IsFiniteSet(members[r] \ {t})
            /\ Cardinality(members[r] \ {t}) = Cardinality(members[r]) - 1
        BY <1>9, <1>13, <3>1, FS_RemoveElement
      <4> QED BY <2>3, <3>1, <4>1
    <3>2. CASE r \notin pre.added
      <4>1. members'[r] = members[r]
        BY <1>14, <2>3, <3>2
      <4> QED BY <1>9, <3>2, <4>1
    <3> QED BY <3>1, <3>2
  <2>8. consumer[r] = c /\ ~ e.finished /\ ~ e.started =>
          \A l \in Layers : left.remaining[l] = Cardinality(members'[r])
    <3>1. CASE r \in pre.added
      <4>1. \A l \in Layers : Plus(e, -1).remaining[l] = e.remaining[l] - 1
        BY <1>6 DEF Plus, LayerEvents
      <4> QED BY <1>12, <1>15, <1>17, <2>7, <3>1, <4>1
    <3>2. CASE r \notin pre.added
      BY <1>6, <1>9, <2>7, <3>2 DEF RankCounts
    <3> QED BY <3>1, <3>2
  <2>9. /\ left \in LayerEvents /\ left.signals = e.signals
        /\ left.finished = e.finished /\ left.started = e.started
    <3>1. CASE r \in pre.added
      <4>1. t \in members[r] /\ Cardinality(members[r]) # 0
        BY <1>9, <1>13, <3>1, FS_EmptySet
      <4>2. \A l \in Layers : e.remaining[l] + (-1) \in Nat
        BY <1>12, <1>15, <1>17, <3>1, <4>1
      <4> QED BY <1>6, <3>1, <4>2 DEF Plus, LayerEvents
    <3>2. CASE r \notin pre.added
      BY <1>6, <3>2
    <3> QED BY <3>1, <3>2
  <2>10. empty => ~ e.started /\ left.remaining[1] = 0
    BY DEF Countable
  <2>11. empty /\ consumer[r] = c => members'[r] = {}
    <3>1. CASE e.finished
      BY <1>6, <1>9, <2>3, <3>1 DEF RankCounts
    <3>2. ASSUME ~ e.finished, empty, consumer[r] = c PROVE members'[r] = {}
      <4>1. Cardinality(members'[r]) = 0
        BY <2>8, <2>10, <3>2
      <4> QED BY <2>7, <4>1, FS_EmptySet
    <3> QED BY <3>1, <3>2
  <2>12. ~ empty /\ r \in pre.added => members'[r] # {}
    <3> SUFFICES ASSUME ~ empty, r \in pre.added, members'[r] = {} PROVE FALSE
      OBVIOUS
    <3>1. Cardinality(members'[r]) = 0
      BY FS_EmptySet
    <3>2. left.remaining[1] = 0
      BY <1>13, <1>15, <1>17, <2>8, <3>1
    <3> QED BY <1>17, <3>2
  <2>13. r \notin pre.added => members'[r] = members[r] /\ left = e
    BY <1>14, <2>3
  <2>14. f = IF empty THEN Reusable ELSE left
    OBVIOUS
  <2> HIDE DEF f, empty, left, mine
  <2>15. BatchMembers'
    <3> SUFFICES ASSUME NEW q \in Ranks
                 PROVE  /\ IsFiniteSet(members'[q])
                        /\ consumer'[q] = None => members'[q] = {}
                        /\ \A u \in members'[q] : fate'[u] # "new"
                        /\ pre'.task # None /\ q \notin pre'.added => pre'.task \notin members'[q]
                        /\ Preparing(q)' => pre'.task \in members'[q] /\ consumer'[q] = pre'.counter
      BY DEF BatchMembers
    <3>1. CASE q = r
      <4>1. consumer'[r] = None => members'[r] = {}
        <5>1. consumer[r] = None => members[r] = {}
          BY DEF BatchMembers
        <5> QED BY <2>3, <2>4, <2>11, <5>1
      <4>2. \A u \in members'[r] : fate'[u] # "new"
        BY <1>1, <2>3 DEF BatchMembers
      <4> QED BY <1>7, <1>8, <2>3, <2>7, <3>1, <4>1, <4>2
    <3>2. CASE q # r
      BY <1>1, <1>5, <1>7, <1>8, <2>3, <2>4, <3>2 DEF BatchMembers
    <3> QED BY <3>1, <3>2
  <2>16. BatchLaunched'
    <3> SUFFICES ASSUME ~ broken, NEW q \in Ranks, NEW u \in members'[q]
                 PROVE  \/ fate[u] = "launched" /\ counterOf[u] = consumer'[q]
                        \/ Preparing(q)' /\ u = pre'.task
      BY <1>1, <1>4 DEF BatchLaunched
    <3>1. CASE q = r
      <4>1. u \in members[r] /\ u # t /\ consumer'[r] = consumer[r]
        BY <2>3, <2>4, <2>11, <3>1
      <4> QED BY <3>1, <4>1 DEF BatchLaunched
    <3>2. CASE q # r
      BY <1>7, <1>8, <2>3, <2>4, <3>2 DEF BatchLaunched
    <3> QED BY <3>1, <3>2
  <2>17. Delivery'
    <3> SUFFICES ASSUME NEW q \in Ranks, NEW u \in Loads
                 PROVE  /\ fate[u] = "launched" /\ copied[q][u] < NumLayers =>
                             u \in members'[q] /\ counterOf[u] = consumer'[q]
                        /\ fate[u] # "launched" => copied[q][u] = 0
      BY <1>1 DEF Delivery
    <3>1. fate[u] = "launched" => u # t
      BY <1>6
    <3>2. fate[u] = "launched" /\ copied[q][u] < NumLayers => u \in members'[q]
      BY <2>3, <3>1 DEF Delivery
    <3>3. u \in members'[q] => consumer'[q] = consumer[q]
      BY <2>4, <2>11
    <3> QED BY <3>2, <3>3 DEF Delivery
  <2>18. ClosedSets'
    <3> SUFFICES ASSUME NEW q \in Ranks, NEW g \in Counters
                 PROVE  /\ g # consumer'[q] => ev'[q][g].finished \/ ev'[q][g] = Armed
                        /\ ev'[q][g].finished => ev'[q][g].remaining[NumLayers] = 0
      BY DEF ClosedSets
    <3>1. CASE q = r /\ g = c
      <4>1. ev'[q][g] = f
        BY <2>2, <3>1 DEF EventSet
      <4>2. CASE empty
        BY <2>14, <4>1, <4>2
      <4>3. CASE ~ empty /\ r \in pre.added
        BY <1>13, <2>4, <2>9, <2>14, <3>1, <4>1, <4>3
      <4>4. CASE ~ empty /\ r \notin pre.added
        BY <2>4, <2>13, <2>14, <3>1, <4>1, <4>4 DEF ClosedSets
      <4> QED BY <4>2, <4>3, <4>4
    <3>2. CASE q # r \/ g # c
      <4>1. ev'[q][g] = ev[q][g]
        BY <2>2, <3>2 DEF EventSet
      <4>2. g # consumer'[q] => g # consumer[q]
        BY <2>4, <3>2
      <4> QED BY <4>1, <4>2 DEF ClosedSets
    <3> QED BY <3>1, <3>2
  <2>19. ASSUME NEW q \in Ranks, q # r \/ consumer[r] # c PROVE RankSets(q)'
    <3>1. /\ consumer[q] # None => ev'[q][consumer[q]] = ev[q][consumer[q]]
          /\ consumer'[q] = consumer[q] /\ members'[q] = members[q]
      <4>1. CASE q # r
        BY <1>9, <2>2, <2>3, <2>4, <4>1 DEF EventSet
      <4>2. CASE q = r /\ consumer[r] # c
        <5>1. members'[r] = members[r] /\ consumer'[r] = consumer[r]
          BY <1>13, <2>4, <2>13, <4>2
        <5>2. consumer[r] # None => ev'[r][consumer[r]] = ev[r][consumer[r]]
          BY <1>9, <2>2, <4>2 DEF EventSet
        <5> QED BY <4>2, <5>1, <5>2
      <4> QED BY <2>19, <4>1, <4>2
    <3>2. RankCounts(q)'
      BY <1>1, <1>9, <1>10, <2>6, <3>1, CountsFrame
    <3>3. RankWaits(q)'
      BY <1>1, <1>9, <2>6, <3>1, WaitsFrame
    <3> QED BY <3>2, <3>3 DEF RankSets
  <2>20. ASSUME consumer[r] = c PROVE RankCounts(r)'
    <3>1. CASE empty
      BY <2>4, <2>20, <3>1 DEF RankCounts
    <3>2. CASE ~ empty
      <4>1. consumer'[r] = c /\ ev'[r][c] = left
        BY <2>2, <2>4, <2>14, <2>20, <3>2 DEF EventSet
      <4>2. CASE r \notin pre.added
        <5>1. ev'[r][c] = ev[r][c] /\ members'[r] = members[r]
          BY <2>13, <4>1, <4>2
        <5> QED BY <1>1, <1>9, <1>10, <2>6, <2>20, <4>1, <5>1, CountsFrame
      <4>3. CASE r \in pre.added
        <5>1. ~ left.finished /\ ~ left.started /\ members'[r] # {}
          BY <1>13, <1>15, <1>17, <2>9, <2>12, <3>2, <4>3
        <5>2. \A l \in Layers : left.remaining[l] = Cardinality(members'[r])
          BY <1>13, <1>15, <1>17, <2>8, <4>3
        <5>3. \A l \in Layers : Ahead(r, l)' => left.signals[l] = Cardinality(Signalled(r, l)')
          BY <1>6, <1>9, <1>10, <1>13, <2>6, <2>9, <4>3 DEF RankCounts
        <5> QED BY <4>1, <5>1, <5>2, <5>3 DEF RankCounts
      <4> QED BY <4>2, <4>3
    <3> QED BY <3>1, <3>2
  <2>21. ASSUME consumer[r] = c PROVE RankWaits(r)'
    <3>1. CASE r \notin pre.added /\ ~ empty
      <4>1. consumer'[r] = consumer[r] /\ ev'[r][c] = ev[r][c] /\ members'[r] = members[r]
        BY <2>2, <2>4, <2>13, <2>14, <3>1 DEF EventSet
      <4> QED BY <1>1, <1>9, <2>6, <2>21, <4>1, WaitsFrame
    <3>2. CASE r \in pre.added \/ empty
      <4>1. ~ e.started
        BY <1>15, <1>17, <2>10, <3>2
      <4>2. wait[r] # NoSignals => /\ wait[r].counter \in Counters /\ wait[r].count > 0
                                   /\ r = Leader /\ stuck /\ fwd[r] < NumLayers
                                   /\ \A u \in need[r] : copied[r][u] = NumLayers
        BY <1>9, <2>21, <4>1 DEF RankWaits
      <4>3. fwd[r] = 0 => wait[r] = NoSignals /\ need[r] = {}
        BY <1>9 DEF RankWaits
      <4> QED BY <1>1, <4>2, <4>3 DEF RankWaits
    <3> QED BY <3>1, <3>2
  <2> QED BY <1>11, <2>5, <2>15, <2>16, <2>17, <2>18, <2>19, <2>20, <2>21 DEF RankSets
<1> QED BY <1>16, <1>17

-----------------------------------------------------------------------------
LEMMA CtrStepInv == CtrInv /\ [CtrNext]_ctrVars => CtrInv'
<1> SUFFICES ASSUME CtrInv, [CtrNext]_ctrVars PROVE CtrInv'
  OBVIOUS
<1>1. CASE \E t \in Loads : LeaderSelects(t)
  BY <1>1, LeaderSelectsKeeps
<1>2. CASE \E r \in Ranks, x \in BOOLEAN : CheckManifest(r, x)
  BY <1>2, CheckManifestKeeps
<1>3. CASE AllReduce
  BY <1>3, AllReduceKeeps
<1>4. CASE \E r \in Ranks : Register(r) \/ RollBack(r)
  BY <1>4, RegisterKeeps, RollBackKeeps
<1>5. CASE \E r \in Ranks : RunBatch(r) \/ SkipLayer(r) \/ NoWait(r)
  BY <1>5, RunBatchKeeps, SkipLayerKeeps, NoWaitKeeps
<1>6. CASE \E r \in Ranks : WaitBegins(r) \/ WaitEnds(r)
  BY <1>6, WaitBeginsKeeps, WaitEndsKeeps
<1>7. CASE \E r \in Ranks, t \in Loads : CopyLayer(r, t)
  BY <1>7, CopyLayerKeeps
<1>8. CASE LeaderResets \/ \E r \in Ranks : ResetRank(r)
  BY <1>8, LeaderResetsKeeps, ResetRankKeeps
<1>9. CASE UNCHANGED ctrVars
  <2>1. UNCHANGED << ev, producer, consumer, members, pre, fate, counterOf, copied, built,
                     need, fwd, wait, passed, resetting, broken, stuck >>
    BY <1>9 DEF ctrVars
  <2>2. CtrTypes'
    BY <2>1 DEF CtrInv, CtrTypes
  <2>3. PreflightRules' /\ BatchMembers' /\ BatchLaunched'
    BY <2>1 DEF CtrInv, PreflightRules, BatchMembers, BatchLaunched, Preparing
  <2>4. Delivery' /\ ClosedSets' /\ BatchWork' /\ ResetQuiet' /\ NoEarlyLayer'
    BY <2>1 DEF CtrInv, Delivery, ClosedSets, BatchWork, ResetQuiet, NoEarlyLayer
  <2>5. \A q \in Ranks : \A l \in Layers :
          Signalled(q, l)' = Signalled(q, l) /\ (Ahead(q, l)' => Ahead(q, l))
    BY <2>1 DEF Signalled, Ahead
  <2>6. \A q \in Ranks : RankCounts(q) /\ RankWaits(q) /\ fwd[q] \in 0 .. NumLayers
    BY DEF CtrInv, RankSets, CtrTypes
  <2>7. \A q \in Ranks : RankCounts(q)'
    BY <2>1, <2>5, <2>6, CountsFrame
  <2>8. \A q \in Ranks : RankWaits(q)'
    BY <2>1, <2>5, <2>6, WaitsFrame
  <2> QED BY <2>2, <2>3, <2>4, <2>7, <2>8 DEF CtrInv, RankSets
<1> QED BY <1>1, <1>2, <1>3, <1>4, <1>5, <1>6, <1>7, <1>8, <1>9 DEF CtrNext

(* What is coming to a rank's event set is its batch less what has signalled. *)
LEMMA CtrInvBacks == CtrInv => WaitsAreBacked
<1> SUFFICES ASSUME CtrInv, NEW r \in Ranks, ~ broken, pre = Idle, ~ (stuck /\ r = Leader),
                    consumer[r] # None, NEW l \in Layers, l >= fwd[r]
             PROVE  ev[r][consumer[r]].signals[l] + Cardinality(Coming(r, consumer[r], l)) =
                      IF l = fwd[r] /\ wait[r] # NoSignals THEN wait[r].count
                      ELSE ev[r][consumer[r]].remaining[l]
  BY DEF WaitsAreBacked
<1> DEFINE c == consumer[r]
           e == ev[r][c]
<1>1. c \in Counters /\ e \in LayerEvents /\ members[r] \subseteq Loads /\ fwd[r] \in 0 .. NumLayers
      /\ \A t \in Loads : copied[r][t] \in 0 .. NumLayers
  BY DEF CtrInv, CtrTypes
<1>2. RankCounts(r) /\ RankWaits(r) /\ IsFiniteSet(members[r])
  BY DEF CtrInv, RankSets, BatchMembers
<1>3. ~ e.finished
  BY <1>2 DEF RankCounts
<1>4. \A t \in members[r] : fate[t] = "launched" /\ counterOf[t] = c
  <2>1. ~ Preparing(r)
    BY DEF Preparing, Idle
  <2> QED BY <2>1 DEF CtrInv, BatchLaunched
<1>5. Coming(r, c, l) = members[r] \ Signalled(r, l)
  <2>1. \A t \in Loads : fate[t] = "launched" /\ copied[r][t] < l => t \in members[r]
    <3>1. \A t \in Loads : copied[r][t] < l => copied[r][t] < NumLayers
      BY <1>1, EventFacts DEF Layers
    <3> QED BY <3>1 DEF CtrInv, Delivery
  <2>2. \A t \in Loads : copied[r][t] < l <=> ~ (copied[r][t] >= l)
    BY <1>1 DEF Layers
  <2>3. ASSUME NEW t \in Loads
        PROVE  t \in Coming(r, c, l) <=> t \in members[r] \ Signalled(r, l)
    BY <1>4, <2>1, <2>2 DEF Coming, Signalled
  <2>4. Coming(r, c, l) \subseteq Loads
    BY DEF Coming
  <2> QED BY <1>1, <2>3, <2>4
<1>6. /\ Cardinality(Coming(r, c, l)) = Cardinality(members[r]) - Cardinality(Signalled(r, l))
      /\ Cardinality(members[r]) \in Nat /\ Cardinality(Signalled(r, l)) \in Nat
  <2>1. Signalled(r, l) \subseteq members[r] /\ members[r] \cap Signalled(r, l) = Signalled(r, l)
    BY DEF Signalled
  <2>2. Cardinality(members[r] \ Signalled(r, l)) =
          Cardinality(members[r]) - Cardinality(members[r] \cap Signalled(r, l))
    BY <1>2, FS_Difference
  <2>3. IsFiniteSet(Signalled(r, l))
    BY <1>2, <2>1, FS_Subset
  <2> QED BY <1>2, <1>5, <2>1, <2>2, <2>3, FS_CardinalityType
<1>7. CASE Ahead(r, l)
  <2>1. e.remaining[l] = Cardinality(members[r]) /\ e.signals[l] = Cardinality(Signalled(r, l))
    BY <1>2, <1>3, <1>7 DEF RankCounts
  <2>2. ~ (l = fwd[r] /\ wait[r] # NoSignals)
    BY <1>1, <1>7 DEF Ahead, Layers
  <2> QED BY <1>6, <2>1, <2>2
<1>8. CASE ~ Ahead(r, l)
  <2>1. l = fwd[r] /\ wait[r] # NoSignals
    BY <1>1, <1>8 DEF Ahead, Layers
  <2>2. /\ wait[r].count = Cardinality(members[r])
        /\ e.signals[fwd[r]] = Cardinality(Signalled(r, fwd[r]))
    BY <1>2, <2>1 DEF RankWaits
  <2> QED BY <1>6, <2>1, <2>2
<1> QED BY <1>7, <1>8

LEMMA CtrInvAlways == CtrSpec => []CtrInv
  BY CtrInitInv, CtrStepInv, PTL DEF CtrSpec

(* No layer of a forward pass runs before every load of its batch has copied that layer
   to the rank (wait_until of FlexKVLayerDoneCounter against the worker's signals),
   however the loads, the refusals, the resets and the passes of the ranks interleave. *)
THEOREM NoEarlyLayerAlways == CtrSpec => []NoEarlyLayer
<1>1. CtrInv => NoEarlyLayer
  BY DEF CtrInv
<1> QED BY <1>1, CtrInvAlways, PTL

(* Outside the load protocol a rank's waits are exactly backed: for every layer its
   forward pass has before it, the signals that are there and the ones the worker will
   still send are together what the wait takes (add_transfer, rollback_prepared_transfer
   and wait_until of FlexKVLayerDoneCounter). *)
THEOREM WaitsAreBackedAlways == CtrSpec => []WaitsAreBacked
  BY CtrInvAlways, CtrInvBacks, PTL

-----------------------------------------------------------------------------
(* SGLangComm. *)

(* What travels: payloads of scatters, and values of the reduction. *)
Payloads == (Channels \X Nat) \union {<< >>}
Tags == ((1 .. 3) \X Channels) \union {ReduceTag, BcastTag}
CommMessages == [tag : Tags, data : Payloads \union {0, 1}]
CommOps == {"idle", "scatter", "tp", "cp", "pp", "answer", "bcast", "done"}

CommTypes ==
  /\ topo \in Topologies
  /\ at \in [World -> [op : CommOps, ch : Channels \union {"none"}, hop : 0 .. 4, data : Payloads]]
  /\ entered \in [World -> [Channels -> Nat]]
  /\ net \in [World \X World -> Seq(CommMessages)]
  /\ value \in [World -> {0, 1}] /\ input \in [World -> {0, 1}]
  /\ heard \subseteq StageLeaders \ {0}
  /\ \A r \in World : at[r].op = "scatter" => at[r].ch \in Channels /\ at[r].hop \in 1 .. 4
  /\ \A r \in World : at[r].op = "scatter" /\ at[r].hop <= 3 => TakesPart(r, at[r].hop)

(* The rank that sends in the hop, and who takes its payload from it there. *)
Source(r, h) == Min(Group(r, h))
Receives(r, h) == TakesPart(r, h) /\ r # Source(r, h)

(* How many scatters of a channel a rank has taken through hop h. *)
Passed(r, h, c) ==
  IF at[r].op = "scatter" /\ at[r].ch = c /\ at[r].hop <= h
  THEN entered[r][c] - 1 ELSE entered[r][c]

(* A rank that leads, or has received, has the payload of its operation. *)
Informed ==
  \A r \in World :
    /\ at[r].op = "scatter"
    /\ r = 0 \/ \E h \in 1 .. 3 : h < at[r].hop /\ Receives(r, h)
    => at[r].data = << at[r].ch, entered[r][at[r].ch] >>

(* The messages of a queue that carry a tag. *)
Tagged(q, tag) == { i \in 1 .. Len(q) : q[i].tag = tag }

(* In the queue are, under the tag of hop h and channel c, the payloads after
   lo up to hi, in their order. *)
Flow(q, h, c, lo, hi) ==
  LET m == Tagged(q, << h, c >>) IN
  /\ lo <= hi
  /\ \A i \in m : \E k \in lo + 1 .. hi : q[i].data = << c, k >>
  /\ \A i, j \in m : i < j => q[i].data[2] < q[j].data[2]
  /\ \A k \in lo + 1 .. hi : \E i \in m : q[i].data = << c, k >>

(* On the way to a rank is what its source has sent and it has not received. *)
Feeds(s, d, h) == Receives(d, h) /\ s = Source(d, h)
OnTheWay ==
  \A s, d \in World, h \in 1 .. 3, c \in Channels :
    /\ Feeds(s, d, h) => Flow(net[<< s, d >>], h, c, Passed(d, h, c), Passed(s, h, c))
    /\ ~ Feeds(s, d, h) => Tagged(net[<< s, d >>], << h, c >>) = {}

(* The minimum of what ranks put in. *)
Low(S) == Min({ input[q] : q \in S })

(* The part of the minimum a rank has, by the stage it is at. *)
PartOf(r) ==
  /\ at[r].op \in {"idle", "scatter", "tp"} => value[r] = input[r]
  /\ at[r].op = "cp" => value[r] = Low(TpGroup(r))
  /\ at[r].op = "pp" /\ r # 0 => value[r] = Low(StageMembers(r))
  /\ at[r].op = "pp" /\ r = 0 => value[r] = Low(UNION { StageMembers(s) : s \in heard \union {0} })
  /\ at[r].op = "answer" => IsStageLeader(r) /\ r # 0 /\ value[r] = Low(StageMembers(r))
  /\ at[r].op = "bcast" =>
       value[r] = IF IsStageLeader(r) THEN Low(World) ELSE Low(StageMembers(r))
  /\ at[r].op = "done" => value[r] = Low(World)
Parts == \A r \in World : PartOf(r)

(* Rank 0 hears from the other leaders once its own stage is done. *)
HeardLate == heard # {} => at[0].op \in {"pp", "bcast", "done"}

(* What messages of the reduction say. *)
Says(s, d, m) ==
  /\ m.tag = ReduceTag => m.data = IF d = 0 THEN Low(StageMembers(s)) ELSE Low(World)
  /\ m.tag = BcastTag => m.data = Low(World)
NetSays ==
  \A s, d \in World : \A i \in 1 .. Len(net[<< s, d >>]) : Says(s, d, net[<< s, d >>][i])

(* The invariant. *)
CommInv == CommTypes /\ Informed /\ OnTheWay /\ Parts /\ HeardLate /\ NetSays /\ ~ mixed

-----------------------------------------------------------------------------
(* SGLangComm.  A rank's place is its stage, its tensor group in the stage and
   its position in that group.  The first lemmas are all the division there is. *)

(* A product is monotonic. *)
LEMMA TimesGrows ==
  ASSUME NEW a \in Int, NEW b \in Int, NEW s \in Nat, a < b
  PROVE  a * s + s <= b * s
<1>1. b - a - 1 \in Nat
  OBVIOUS
<1>2. (b - a - 1) * s \in Nat
  BY <1>1
<1>3. (b - a - 1) * s = b * s - a * s - s
  OBVIOUS
<1>4. a * s \in Int /\ b * s \in Int
  OBVIOUS
<1> QED BY <1>2, <1>3, <1>4

(* Quotient and remainder. *)
LEMMA Quotient ==
  ASSUME NEW a \in Int, NEW s \in Nat \ {0}
  PROVE  /\ a \div s \in Int /\ a % s \in 0 .. s - 1
         /\ a = (a \div s) * s + (a % s)
<1>1. a \div s \in Int /\ a % s \in 0 .. s - 1
  OBVIOUS
<1>2. a = s * (a \div s) + (a % s)
  OBVIOUS
<1>3. s * (a \div s) = (a \div s) * s
  BY <1>1
<1> QED BY <1>1, <1>2, <1>3

(* There is one. *)
LEMMA OneQuotient ==
  ASSUME NEW a \in Int, NEW s \in Nat \ {0}, NEW q \in Int, q * s <= a, a < q * s + s
  PROVE  a \div s = q /\ a % s = a - q * s
<1>1. /\ a \div s \in Int /\ a % s \in Int /\ 0 <= a % s /\ a % s < s
      /\ a = (a \div s) * s + (a % s)
  BY Quotient
<1> DEFINE d == a \div s
<1>2. d * s \in Int /\ q * s \in Int /\ s \in Nat
  BY <1>1
<1>3. ~ (d < q)
  <2>1. ASSUME d < q PROVE d * s + s <= q * s
    BY <2>1, <1>1, <1>2, TimesGrows
  <2> HIDE DEF d
  <2> QED BY <1>1, <1>2, <2>1 DEF d
<1>4. ~ (q < d)
  <2>1. ASSUME q < d PROVE q * s + s <= d * s
    BY <2>1, <1>1, <1>2, TimesGrows
  <2> HIDE DEF d
  <2> QED BY <1>1, <1>2, <2>1 DEF d
<1>5. d = q
  <2> HIDE DEF d
  <2> QED BY <1>1, <1>3, <1>4 DEF d
<1> QED BY <1>1, <1>5, <1>2

(* The sizes of a topology. *)
LEMMA Sizes ==
  ASSUME topo \in Topologies
  PROVE  /\ pp_size \in Nat \ {0} /\ attn_cp_size \in Nat \ {0} /\ attn_tp_size \in Nat \ {0}
         /\ stride \in Nat \ {0} /\ stride = attn_cp_size * attn_tp_size
         /\ attn_tp_size <= stride /\ pp_size * stride \in Nat \ {0}
<1>1. topo \in (Nat \ {0}) \X (Nat \ {0}) \X (Nat \ {0})
  BY CommAssumption
<1>2. pp_size \in Nat \ {0} /\ attn_cp_size \in Nat \ {0} /\ attn_tp_size \in Nat \ {0}
  BY <1>1 DEF pp_size, attn_cp_size, attn_tp_size
<1>3. \A a, b \in Nat \ {0} : a * b \in Nat \ {0} /\ a * b = b * a /\ a <= a * b
  <2> TAKE a \in Nat \ {0}, b \in Nat \ {0}
  <2>1. 0 * a + a <= b * a
    BY TimesGrows
  <2>2. 0 * a = 0 /\ b * a \in Int /\ a * b = b * a
    OBVIOUS
  <2> QED BY <2>1, <2>2
<1>4. stride \in Nat \ {0} /\ stride = attn_cp_size * attn_tp_size /\ attn_tp_size <= stride
  BY <1>2, <1>3 DEF stride
<1>5. pp_size * stride \in Nat \ {0}
  BY <1>2, <1>3, <1>4
<1> QED BY <1>2, <1>4, <1>5

(* A number between two multiples. *)
LEMMA Within ==
  ASSUME NEW n \in Nat \ {0}, NEW s \in Nat \ {0}, NEW d \in Int
  PROVE  /\ n * s \in Int /\ d * s \in Int
         /\ d \in 0 .. n - 1 => 0 <= d * s /\ d * s + s <= n * s
         /\ \A m \in 0 .. s - 1 : d * s + m \in 0 .. n * s - 1 => d \in 0 .. n - 1
<1>1. n * s \in Int /\ d * s \in Int /\ 0 * s = 0 /\ -1 * s = - s
  OBVIOUS
<1>2. d < n => d * s + s <= n * s
  BY TimesGrows
<1>3. d < 0 => d * s + s <= 0 * s
  BY TimesGrows
<1>4. -1 < d => -1 * s + s <= d * s
  BY TimesGrows
<1>5. n < d => n * s + s <= d * s
  BY TimesGrows
<1>6. d = n => n * s = d * s
  OBVIOUS
<1>7. d \in 0 .. n - 1 => 0 <= d * s /\ d * s + s <= n * s
  BY <1>1, <1>2, <1>4
<1>8. ASSUME NEW m \in 0 .. s - 1, d * s + m \in 0 .. n * s - 1 PROVE d \in 0 .. n - 1
  <2>1. ~ (d < 0)
    BY <1>1, <1>3, <1>8
  <2>2. d < n
    BY <1>1, <1>5, <1>6, <1>8
  <2> QED BY <2>1, <2>2
<1> QED BY <1>1, <1>7, <1>8

(* The place of a rank. *)
LEMMA PlaceOf ==
  ASSUME topo \in Topologies, NEW r \in World
  PROVE  /\ pp_rank(r) \in 0 .. pp_size - 1 /\ cp_rank(r) \in 0 .. attn_cp_size - 1
         /\ StageOffset(r) = pp_rank(r) * stride
         /\ StageOffset(r) \in Nat /\ cp_rank(r) * attn_tp_size \in Nat
         /\ StageOffset(r) + cp_rank(r) * attn_tp_size <= r
         /\ r < StageOffset(r) + cp_rank(r) * attn_tp_size + attn_tp_size
         /\ cp_rank(r) * attn_tp_size + attn_tp_size <= stride
         /\ StageOffset(r) + stride <= pp_size * stride
<1> DEFINE d == r \div stride
           m == r % stride
           c == m \div attn_tp_size
           l == m % attn_tp_size
<1>1. /\ pp_size \in Nat \ {0} /\ attn_cp_size \in Nat \ {0} /\ attn_tp_size \in Nat \ {0}
      /\ stride \in Nat \ {0} /\ stride = attn_cp_size * attn_tp_size
      /\ pp_size * stride \in Nat
  BY Sizes
<1>2. r \in Int /\ r \in 0 .. pp_size * stride - 1
  BY <1>1 DEF World
<1>3. d \in Int /\ m \in 0 .. stride - 1 /\ r = d * stride + m
  BY <1>1, <1>2, Quotient
<1>4. m \in Int /\ c \in Int /\ l \in 0 .. attn_tp_size - 1 /\ m = c * attn_tp_size + l
  <2>1. m \in Int
    BY <1>1, <1>3
  <2> HIDE DEF m
  <2> QED BY <1>1, <2>1, Quotient
<1>5. pp_rank(r) = d /\ cp_rank(r) = c /\ StageOffset(r) = d * stride
  BY DEF pp_rank, cp_rank, StageOffset
<1> HIDE DEF d, m, c, l
<1>6. d \in 0 .. pp_size - 1
  BY <1>1, <1>2, <1>3, Within
<1>7. 0 <= d * stride /\ d * stride + stride <= pp_size * stride /\ d * stride \in Int
  BY <1>1, <1>3, <1>6, Within
<1>8. c \in 0 .. attn_cp_size - 1
  BY <1>1, <1>3, <1>4, Within
<1>9. /\ 0 <= c * attn_tp_size /\ c * attn_tp_size + attn_tp_size <= stride
      /\ c * attn_tp_size \in Int
  BY <1>1, <1>4, <1>8, Within
<1> QED BY <1>1, <1>2, <1>3, <1>4, <1>5, <1>6, <1>7, <1>8, <1>9

(* Only one rank has it. *)
LEMMA InPlace ==
  ASSUME topo \in Topologies, NEW p \in 0 .. pp_size - 1, NEW c \in 0 .. attn_cp_size - 1,
         NEW q \in Int, p * stride + c * attn_tp_size <= q,
         q < p * stride + c * attn_tp_size + attn_tp_size
  PROVE  /\ q \in World /\ pp_rank(q) = p /\ cp_rank(q) = c /\ StageOffset(q) = p * stride
<1>1. /\ pp_size \in Nat \ {0} /\ attn_cp_size \in Nat \ {0} /\ attn_tp_size \in Nat \ {0}
      /\ stride \in Nat \ {0} /\ stride = attn_cp_size * attn_tp_size
      /\ pp_size * stride \in Nat
  BY Sizes
<1>2. /\ 0 <= p * stride /\ p * stride + stride <= pp_size * stride /\ p * stride \in Int
  BY <1>1, Within
<1>3. /\ 0 <= c * attn_tp_size /\ c * attn_tp_size + attn_tp_size <= stride
      /\ c * attn_tp_size \in Int
  BY <1>1, Within
<1>4. q \in World
  BY <1>1, <1>2, <1>3 DEF World
<1>5. p * stride <= q /\ q < p * stride + stride
  BY <1>1, <1>2, <1>3
<1>0. p \in Int /\ c \in Int
  BY <1>1
<1>6. q \div stride = p /\ q % stride = q - p * stride
  BY <1>0, <1>1, <1>5, OneQuotient
<1>7. q - p * stride \in Int /\ c * attn_tp_size <= q - p * stride
      /\ q - p * stride < c * attn_tp_size + attn_tp_size
  BY <1>1, <1>2, <1>3
<1>8. (q - p * stride) \div attn_tp_size = c
  BY <1>1, <1>7, OneQuotient
<1> QED BY <1>4, <1>6, <1>8 DEF pp_rank, cp_rank, StageOffset

(* What Min is. *)
LEMMA MinIs ==
  ASSUME NEW S, S \subseteq Int, NEW x \in S, \A y \in S : x <= y
  PROVE  Min(S) = x
<1>1. Min(S) \in S /\ \A y \in S : Min(S) <= y
  BY DEF Min
<1>2. Min(S) <= x /\ x <= Min(S) /\ Min(S) \in Int /\ x \in Int
  BY <1>1
<1> QED BY <1>2

(* Every set of numbers has one. *)
LEMMA MinOfNats ==
  ASSUME NEW S, S \subseteq Nat, S # {}
  PROVE  Min(S) \in S /\ \A y \in S : Min(S) <= y
<1>2. \E x \in S : \A y \in S : ~ (<< y, x >> \in OpToRel(<, Nat))
  BY WFMin, NatLessThanWellFounded
<1>3. \A x, y \in S : y < x => << y, x >> \in OpToRel(<, Nat)
  <2> TAKE x, y \in S
  <2> HAVE y < x
  <2> DEFINE q == << y, x >>
  <2>1. q \in Nat \X Nat /\ q[1] = y /\ q[2] = x
    OBVIOUS
  <2>2. q[1] < q[2]
    BY <2>1
  <2> HIDE DEF q
  <2>3. q \in OpToRel(<, Nat)
    BY <2>1, <2>2, Zenon DEF OpToRel
  <2> QED BY <2>3 DEF q
<1>4. \E x \in S : \A y \in S : x =< y
  <2>1. \E x \in S : \A y \in S : ~ (y < x)
    BY <1>2, <1>3, Zenon
  <2>2. \A x, y \in S : ~ (y < x) => x =< y
    OBVIOUS
  <2> QED BY <2>1, <2>2, Zenon
<1> QED BY <1>4 DEF Min

(* A stage: its members have the same offset, which is its leader. *)
LEMMA StageOf ==
  ASSUME topo \in Topologies, NEW r \in World
  PROVE  /\ StageOffset(r) \in World /\ StageOffset(StageOffset(r)) = StageOffset(r)
         /\ StageOffset(r) \in StageLeaders /\ r \in StageMembers(r)
         /\ \A q \in StageMembers(r) : q \in World /\ pp_rank(q) = pp_rank(r)
              /\ StageOffset(q) = StageOffset(r) /\ StageMembers(q) = StageMembers(r)
<1> DEFINE o == StageOffset(r)
<1>1. /\ pp_rank(r) \in 0 .. pp_size - 1 /\ o = pp_rank(r) * stride /\ o \in Nat
      /\ o <= r /\ r < o + stride /\ o + stride <= pp_size * stride
  BY PlaceOf, Sizes DEF World
<1>2. /\ pp_size \in Nat /\ stride \in Nat \ {0} /\ pp_size * stride \in Nat /\ pp_rank(r) \in Int
  BY <1>1, Sizes
<1> HIDE DEF o
<1>3. ASSUME NEW q \in o .. o + stride - 1
      PROVE  q \in World /\ pp_rank(q) = pp_rank(r) /\ StageOffset(q) = o
  <2>1. q \in Int /\ pp_rank(r) * stride <= q /\ q < pp_rank(r) * stride + stride
    BY <1>1, <1>2
  <2>2. q \div stride = pp_rank(r)
    BY <1>2, <2>1, OneQuotient
  <2>3. q \in World
    BY <1>1, <1>2 DEF World
  <2> QED BY <1>1, <2>2, <2>3 DEF pp_rank, StageOffset
<1>4. StageMembers(r) = o .. o + stride - 1
  BY DEF StageMembers, o
<1>5. o \in o .. o + stride - 1 /\ r \in o .. o + stride - 1
  BY <1>1, <1>2 DEF World
<1>6. o \in StageLeaders
  BY <1>1 DEF StageLeaders
<1>7. \A q \in StageMembers(r) : StageMembers(q) = StageMembers(r)
  BY <1>3, <1>4 DEF StageMembers
<1> QED BY <1>3, <1>4, <1>5, <1>6, <1>7 DEF o

(* The leader of a stage has its place. *)
LEMMA StageLeader ==
  ASSUME topo \in Topologies, NEW s \in StageLeaders
  PROVE  s \in World /\ IsStageLeader(s) /\ s \in Nat
<1>1. PICK p \in 0 .. pp_size - 1 : s = p * stride
  BY DEF StageLeaders
<1>2. /\ pp_size \in Nat \ {0} /\ attn_cp_size \in Nat \ {0} /\ attn_tp_size \in Nat \ {0}
      /\ stride \in Nat \ {0} /\ pp_size * stride \in Nat
  BY Sizes
<1>3. s \in Nat /\ 0 * attn_tp_size = 0 /\ p * stride \in Int
  BY <1>1, <1>2
<1>4. 0 \in 0 .. attn_cp_size - 1
  BY <1>2
<1>5. p * stride + 0 * attn_tp_size <= s /\ s < p * stride + 0 * attn_tp_size + attn_tp_size
  BY <1>1, <1>2, <1>3
<1>6. s \in World /\ StageOffset(s) = p * stride
  BY <1>3, <1>4, <1>5, InPlace
<1> QED BY <1>1, <1>3, <1>6 DEF IsStageLeader

(* Rank 0 leads the first stage, and the stages are all there is. *)
LEMMA Stages ==
  ASSUME topo \in Topologies
  PROVE  /\ 0 \in World /\ 0 \in StageLeaders /\ IsStageLeader(0)
         /\ \A r \in World : IsStageLeader(r) <=> r \in StageLeaders
         /\ World = UNION { StageMembers(s) : s \in StageLeaders }
<1>1. /\ pp_size \in Nat \ {0} /\ stride \in Nat \ {0} /\ pp_size * stride \in Nat \ {0}
  BY Sizes
<1>2. 0 \in World
  BY <1>1 DEF World
<1>3. 0 \in 0 .. pp_size - 1 /\ 0 * stride = 0
  BY <1>1
<1>4. 0 \in StageLeaders
  BY <1>3 DEF StageLeaders
<1>5. \A r \in World : IsStageLeader(r) <=> r \in StageLeaders
  BY StageOf, StageLeader DEF IsStageLeader
<1>6. ASSUME NEW r \in World PROVE \E s \in StageLeaders : r \in StageMembers(s)
  <2>1. StageOffset(r) \in StageLeaders /\ StageOffset(StageOffset(r)) = StageOffset(r)
        /\ r \in StageMembers(r)
    BY StageOf
  <2>2. r \in StageMembers(StageOffset(r))
    BY <2>1 DEF StageMembers
  <2> QED BY <2>1, <2>2
<1>7. \A s \in StageLeaders : StageMembers(s) \subseteq World
  BY StageLeader, StageOf
<1>8. World = UNION { StageMembers(s) : s \in StageLeaders }
  BY <1>6, <1>7
<1> QED BY <1>2, <1>4, <1>5, <1>8

(* A tensor group. *)
LEMMA TpGroupOf ==
  ASSUME topo \in Topologies, NEW r \in World
  PROVE  LET b == StageOffset(r) + cp_rank(r) * attn_tp_size IN
         /\ b \in World /\ r \in TpGroup(r) /\ b \in TpGroup(r) /\ Min(TpGroup(r)) = b
         /\ TpGroup(r) \subseteq StageMembers(r)
         /\ \A q \in TpGroup(r) : q \in World /\ TpGroup(q) = TpGroup(r)
              /\ StageOffset(q) = StageOffset(r) /\ cp_rank(q) = cp_rank(r)
<1> DEFINE o == StageOffset(r)
           w == cp_rank(r) * attn_tp_size
           g == o + w .. o + w + attn_tp_size - 1
<1>1. /\ pp_rank(r) \in 0 .. pp_size - 1 /\ cp_rank(r) \in 0 .. attn_cp_size - 1
      /\ o = pp_rank(r) * stride /\ o \in Nat /\ w \in Nat /\ o + w <= r
      /\ r < o + w + attn_tp_size /\ w + attn_tp_size <= stride
  BY PlaceOf
<1>2. attn_tp_size \in Nat \ {0} /\ stride \in Nat \ {0} /\ r \in Int
  BY Sizes DEF World
<1>3. TpGroup(r) = g
  BY DEF TpGroup
<1>4. ASSUME NEW q \in g
      PROVE  q \in World /\ StageOffset(q) = o /\ cp_rank(q) = cp_rank(r)
  <2>1. q \in Int /\ pp_rank(r) * stride + cp_rank(r) * attn_tp_size <= q
        /\ q < pp_rank(r) * stride + cp_rank(r) * attn_tp_size + attn_tp_size
    BY <1>1, <1>2
  <2> QED BY <1>1, <2>1, InPlace
<1>5. \A q \in g : TpGroup(q) = TpGroup(r)
  BY <1>4 DEF TpGroup
<1> HIDE DEF o, w
<1>6. o + w \in g /\ r \in g /\ g \subseteq Int /\ \A q \in g : o + w <= q
  BY <1>1, <1>2
<1>7. g \subseteq o .. o + stride - 1
  BY <1>1, <1>2
<1>8. Min(g) = o + w
  <2> HIDE DEF g
  <2> QED BY <1>6, MinIs
<1>9. StageMembers(r) = o .. o + stride - 1
  BY DEF StageMembers, o
<1> HIDE DEF g
<1> QED BY <1>3, <1>4, <1>5, <1>6, <1>7, <1>8, <1>9 DEF o, w

(* The leaders of the tensor groups of a stage. *)
LEMMA CpLeadersOf ==
  ASSUME topo \in Topologies, NEW r \in World
  PROVE  /\ StageOffset(r) \in CpLeaders(r) /\ Min(CpLeaders(r)) = StageOffset(r)
         /\ StageOffset(r) + cp_rank(r) * attn_tp_size \in CpLeaders(r)
         /\ \A q \in CpLeaders(r) : q \in World /\ StageOffset(q) = StageOffset(r)
              /\ CpLeaders(q) = CpLeaders(r)
<1> DEFINE o == StageOffset(r)
<1>1. /\ pp_rank(r) \in 0 .. pp_size - 1 /\ cp_rank(r) \in 0 .. attn_cp_size - 1
      /\ o = pp_rank(r) * stride /\ o \in Nat
  BY PlaceOf
<1>2. attn_tp_size \in Nat \ {0} /\ attn_cp_size \in Nat \ {0} /\ stride \in Nat \ {0}
  BY Sizes
<1>3. CpLeaders(r) = { o + c * attn_tp_size : c \in 0 .. attn_cp_size - 1 }
  BY DEF CpLeaders
<1>4. ASSUME NEW q \in CpLeaders(r) PROVE q \in World /\ StageOffset(q) = o /\ o <= q /\ q \in Int
  <2>1. PICK c \in 0 .. attn_cp_size - 1 : q = o + c * attn_tp_size
    BY <1>3
  <2>2. c \in Nat /\ c * attn_tp_size \in Nat
    BY <1>2
  <2>3. q \in Int /\ o <= q /\ q < o + c * attn_tp_size + attn_tp_size
        /\ o + c * attn_tp_size <= q
    BY <1>1, <1>2, <2>1, <2>2
  <2>4. q \in World /\ StageOffset(q) = pp_rank(r) * stride
    BY <1>1, <2>3, InPlace
  <2> QED BY <1>1, <2>3, <2>4
<1>5. \A q \in CpLeaders(r) : CpLeaders(q) = CpLeaders(r)
  BY <1>4 DEF CpLeaders
<1>6. 0 \in 0 .. attn_cp_size - 1 /\ o + 0 * attn_tp_size = o
  BY <1>1, <1>2
<1>7. o \in CpLeaders(r)
  BY <1>3, <1>6
<1>8. o + cp_rank(r) * attn_tp_size \in CpLeaders(r)
  BY <1>1, <1>3
<1>9. Min(CpLeaders(r)) = o
  <2>1. CpLeaders(r) \subseteq Int
    BY <1>4
  <2> QED BY <1>4, <1>7, <2>1, MinIs
<1> QED BY <1>4, <1>5, <1>7, <1>8, <1>9

(* The leaders of the stages. *)
LEMMA StageLeadersMin ==
  ASSUME topo \in Topologies
  PROVE  Min(StageLeaders) = 0
<1>1. 0 \in StageLeaders /\ StageLeaders \subseteq Nat
  BY Stages, StageLeader
<1>2. StageLeaders \subseteq Int /\ \A y \in StageLeaders : 0 <= y
  BY <1>1
<1> QED BY <1>1, <1>2, MinIs

(* The members of a hop's group have the same group, and one source. *)
LEMMA GroupOf ==
  ASSUME topo \in Topologies, NEW r \in World, NEW h \in 1 .. 3, r \in Group(r, h)
  PROVE  /\ Source(r, h) \in Group(r, h) /\ Group(r, h) \subseteq World
         /\ \A q \in Group(r, h) : Group(q, h) = Group(r, h)
<1>1. CASE h = 1
  <2>1. \A q \in World : Group(q, h) = IF IsStageLeader(q) THEN StageLeaders ELSE {}
    BY <1>1 DEF Group
  <2>2. \A q \in StageLeaders : q \in World /\ IsStageLeader(q)
    BY StageLeader
  <2> QED BY <2>1, <2>2, StageLeadersMin, Stages DEF Source
<1>2. CASE h = 2
  <2>1. \A q \in World : Group(q, h) = IF attn_cp_size > 1 THEN CpLeaders(q) ELSE {}
    BY <1>2 DEF Group
  <2> QED BY <2>1, CpLeadersOf DEF Source
<1>3. CASE h = 3
  <2>1. \A q \in World : Group(q, h) = TpGroup(q)
    BY <1>3 DEF Group
  <2> QED BY <2>1, TpGroupOf DEF Source
<1> QED BY <1>1, <1>2, <1>3

(* Who is not the source receives. *)
LEMMA ReceivesIf ==
  ASSUME topo \in Topologies, NEW r \in World, NEW h \in 1 .. 3, r \in Group(r, h),
         r # Source(r, h)
  PROVE  Receives(r, h)
<1> DEFINE g == Group(r, h)
<1>1. Source(r, h) \in g /\ r \in g /\ g \subseteq World
  BY GroupOf
<1>2. IsFiniteSet(World)
  <2>1. pp_size * stride - 1 \in Int
    BY Sizes
  <2> QED BY <2>1, FS_Interval DEF World
<1> HIDE DEF g
<1>3. IsFiniteSet(g)
  BY <1>1, <1>2, FS_Subset
<1>4. Cardinality(g) \in Nat /\ Cardinality(g) # 0 /\ Cardinality(g) # 1
  <2>1. g # {} /\ ~ \E x : g = {x}
    BY <1>1
  <2> QED BY <1>3, <2>1, FS_CardinalityType, FS_EmptySet, FS_Singleton
<1>5. Cardinality(g) > 1
  BY <1>4
<1> QED BY <1>1, <1>5 DEF g, Receives, TakesPart

(* The ranks of a hop. *)
LEMMA Together ==
  ASSUME topo \in Topologies, NEW r \in World, NEW h \in 1 .. 3, TakesPart(r, h)
  PROVE  /\ Source(r, h) \in Group(r, h) /\ Source(r, h) \in World /\ TakesPart(Source(r, h), h)
         /\ Source(Source(r, h), h) = Source(r, h)
         /\ \A q \in Group(r, h) : q \in World /\ TakesPart(q, h) /\ Source(q, h) = Source(r, h)
<1>1. r \in Group(r, h) /\ Cardinality(Group(r, h)) > 1
  BY DEF TakesPart
<1>2. /\ Source(r, h) \in Group(r, h) /\ Group(r, h) \subseteq World
      /\ \A q \in Group(r, h) : Group(q, h) = Group(r, h)
  BY <1>1, GroupOf
<1>3. \A q \in Group(r, h) : q \in World /\ TakesPart(q, h) /\ Source(q, h) = Source(r, h)
  BY <1>1, <1>2 DEF TakesPart, Source
<1> QED BY <1>2, <1>3

(* Every rank but the leader receives in some hop, before it sends. *)
LEMMA Routed ==
  ASSUME topo \in Topologies, NEW r \in World, r # 0
  PROVE  /\ \E k \in 1 .. 3 : Receives(r, k)
         /\ \A h \in 1 .. 3 : TakesPart(r, h) /\ r = Source(r, h) =>
              \E k \in 1 .. 3 : k < h /\ Receives(r, k)
<1> DEFINE b == StageOffset(r) + cp_rank(r) * attn_tp_size
<1>1. Group(r, 1) = (IF IsStageLeader(r) THEN StageLeaders ELSE {})
      /\ Group(r, 2) = (IF attn_cp_size > 1 THEN CpLeaders(r) ELSE {})
      /\ Group(r, 3) = TpGroup(r)
  BY DEF Group
<1>2. IsStageLeader(r) => Receives(r, 1)
  <2> SUFFICES ASSUME IsStageLeader(r) PROVE Receives(r, 1)
    OBVIOUS
  <2>1. r \in Group(r, 1) /\ Source(r, 1) = 0
    BY <1>1, Stages, StageLeadersMin DEF Source
  <2> QED BY <2>1, ReceivesIf
<1>3. r = b /\ ~ IsStageLeader(r) => Receives(r, 2)
  <2> SUFFICES ASSUME r = b, ~ IsStageLeader(r) PROVE Receives(r, 2)
    OBVIOUS
  <2>1. cp_rank(r) \in 0 .. attn_cp_size - 1 /\ StageOffset(r) \in Nat
        /\ attn_cp_size \in Nat /\ attn_tp_size \in Nat
    BY PlaceOf, Sizes
  <2>2. cp_rank(r) # 0
    <3>1. 0 * attn_tp_size = 0
      BY <2>1
    <3>2. ASSUME cp_rank(r) = 0 PROVE FALSE
      <4>1. b = StageOffset(r) + 0 * attn_tp_size
        BY <3>2
      <4>2. b = StageOffset(r)
        BY <2>1, <3>1, <4>1
      <4> QED BY <4>2 DEF IsStageLeader
    <3> QED BY <3>2
  <2>3. attn_cp_size > 1
    <3>1. \A n \in Nat : \A c \in 0 .. n - 1 : c # 0 => n > 1
      OBVIOUS
    <3> QED BY <2>1, <2>2, <3>1
  <2>4. r \in Group(r, 2) /\ Source(r, 2) = StageOffset(r)
    BY <1>1, <2>3, CpLeadersOf DEF Source
  <2>5. r # Source(r, 2)
    BY <2>4 DEF IsStageLeader
  <2> QED BY <2>4, <2>5, ReceivesIf
<1>4. Source(r, 3) = b /\ r \in Group(r, 3)
  BY <1>1, TpGroupOf DEF Source
<1> HIDE DEF b
<1>5. r # b => Receives(r, 3)
  BY <1>4, ReceivesIf
<1>6. \E k \in 1 .. 3 : Receives(r, k)
  BY <1>2, <1>3, <1>5
<1>7. ASSUME NEW h \in 1 .. 3, TakesPart(r, h), r = Source(r, h)
      PROVE  \E k \in 1 .. 3 : k < h /\ Receives(r, k)
  <2>1. CASE h = 1
    <3>1. r \in Group(r, 1)
      BY <1>7, <2>1 DEF TakesPart
    <3>2. Source(r, 1) = 0
      BY <1>1, <3>1, StageLeadersMin DEF Source
    <3> QED BY <1>7, <2>1, <3>2
  <2>2. CASE h = 2
    <3>1. r \in Group(r, 2)
      BY <1>7, <2>2 DEF TakesPart
    <3>2. Source(r, 2) = StageOffset(r)
      BY <1>1, <3>1, CpLeadersOf DEF Source
    <3> QED BY <1>2, <1>7, <2>2, <3>2 DEF IsStageLeader
  <2>3. CASE h = 3
    BY <1>2, <1>3, <1>4, <1>7, <2>3
  <2> QED BY <2>1, <2>2, <2>3
<1> QED BY <1>6, <1>7

(* The next hop is the first one the rank takes part in. *)
LEMMA NextHopIs ==
  ASSUME NEW r, NEW h \in 1 .. 4
  PROVE  /\ NextHop(r, h) \in h .. 4 /\ NextHop(r, h) \in 1 .. 4
         /\ NextHop(r, h) <= 3 => TakesPart(r, NextHop(r, h))
         /\ \A k \in h .. 3 : TakesPart(r, k) => NextHop(r, h) <= k
<1> DEFINE S == { k \in h .. 3 : TakesPart(r, k) } \union {4}
<1>1. S \subseteq Nat /\ S # {} /\ S \subseteq h .. 4
  OBVIOUS
<1>2. NextHop(r, h) = Min(S)
  BY DEF NextHop
<1>3. NextHop(r, h) \in S /\ \A k \in S : NextHop(r, h) <= k
  <2> HIDE DEF S
  <2> QED BY <1>1, <1>2, MinOfNats
<1> QED BY <1>1, <1>3

(* A queue without one of its messages. *)
LEMMA TakenOut ==
  ASSUME NEW M, NEW q \in Seq(M), NEW i \in 1 .. Len(q)
  PROVE  /\ Without(q, i) \in Seq(M) /\ Len(Without(q, i)) = Len(q) - 1
         /\ \A j \in 1 .. Len(q) - 1 : Without(q, i)[j] = IF j < i THEN q[j] ELSE q[j + 1]
<1> DEFINE a == SubSeq(q, 1, i - 1)
           b == SubSeq(q, i + 1, Len(q))
<1>1. Len(q) \in Nat /\ i \in Int /\ i - 1 \in Int /\ i + 1 \in Int /\ \A j \in 1 .. Len(q) : q[j] \in M
  OBVIOUS
<1>2. a \in Seq(M) /\ Len(a) = i - 1 /\ \A j \in 1 .. i - 1 : a[j] = q[j]
  <2>1. \A j \in 1 .. i - 1 : q[j] \in M
    BY <1>1
  <2>2. /\ a \in Seq(M) /\ Len(a) = IF 1 <= i - 1 THEN i - 1 - 1 + 1 ELSE 0
        /\ \A j \in 1 .. i - 1 - 1 + 1 : a[j] = q[1 + j - 1]
    BY <1>1, <2>1, SubSeqProperties
  <2>3. \A j \in 1 .. i - 1 : j \in 1 .. i - 1 - 1 + 1 /\ 1 + j - 1 = j
    BY <1>1
  <2>4. \A j \in 1 .. i - 1 : a[j] = q[j]
    BY <2>2, <2>3, Zenon
  <2>5. Len(a) = i - 1
    BY <1>1, <2>2
  <2> QED BY <2>2, <2>4, <2>5
<1>3. b \in Seq(M) /\ Len(b) = Len(q) - i /\ \A j \in 1 .. Len(q) - i : b[j] = q[i + j]
  <2>1. \A j \in i + 1 .. Len(q) : q[j] \in M
    BY <1>1
  <2>2. /\ b \in Seq(M) /\ Len(b) = IF i + 1 <= Len(q) THEN Len(q) - (i + 1) + 1 ELSE 0
        /\ \A j \in 1 .. Len(q) - (i + 1) + 1 : b[j] = q[i + 1 + j - 1]
    BY <1>1, <2>1, SubSeqProperties
  <2>3. \A j \in 1 .. Len(q) - i : j \in 1 .. Len(q) - (i + 1) + 1 /\ i + 1 + j - 1 = i + j
    BY <1>1
  <2>4. \A j \in 1 .. Len(q) - i : b[j] = q[i + j]
    BY <2>2, <2>3, Zenon
  <2>5. Len(b) = Len(q) - i
    BY <1>1, <2>2
  <2> QED BY <2>2, <2>4, <2>5
<1>4. Without(q, i) = a \o b
  BY DEF Without
<1> HIDE DEF a, b
<1>5. /\ a \o b \in Seq(M) /\ Len(a \o b) = Len(a) + Len(b)
      /\ \A j \in 1 .. Len(a) + Len(b) : (a \o b)[j] = IF j <= Len(a) THEN a[j] ELSE b[j - Len(a)]
  BY <1>2, <1>3, ConcatProperties
<1>6. Len(a) + Len(b) = Len(q) - 1
  BY <1>1, <1>2, <1>3
<1>7. ASSUME NEW j \in 1 .. Len(q) - 1
      PROVE  (a \o b)[j] = IF j < i THEN q[j] ELSE q[j + 1]
  <2>1. (a \o b)[j] = IF j <= i - 1 THEN a[j] ELSE b[j - (i - 1)]
    BY <1>2, <1>5, <1>6
  <2>2. j <= i - 1 => a[j] = q[j] /\ j < i
    BY <1>1, <1>2
  <2>3. ~ (j <= i - 1) => b[j - (i - 1)] = q[j + 1] /\ ~ (j < i)
    <3> SUFFICES ASSUME ~ (j <= i - 1) PROVE b[j - (i - 1)] = q[j + 1] /\ ~ (j < i)
      OBVIOUS
    <3>1. j - (i - 1) \in 1 .. Len(q) - i /\ i + (j - (i - 1)) = j + 1 /\ ~ (j < i)
      BY <1>1
    <3>2. b[j - (i - 1)] = q[i + (j - (i - 1))]
      BY <1>3, <3>1, Zenon
    <3> QED BY <3>1, <3>2
  <2> QED BY <2>1, <2>2, <2>3
<1> QED BY <1>4, <1>5, <1>6, <1>7

(* Where the messages of a tag are once one was taken out. *)
LEMMA TaggedWithout ==
  ASSUME NEW M, NEW q \in Seq(M), NEW tag, NEW i \in 1 .. Len(q)
  PROVE  /\ Tagged(Without(q, i), tag) \subseteq 1 .. Len(q) - 1
         /\ \A j \in 1 .. Len(q) - 1 : j \in Tagged(Without(q, i), tag) <=>
              (IF j < i THEN j ELSE j + 1) \in Tagged(q, tag)
<1>1. Len(q) \in Nat
  OBVIOUS
<1>2. /\ Len(Without(q, i)) = Len(q) - 1
      /\ \A j \in 1 .. Len(q) - 1 : Without(q, i)[j] = IF j < i THEN q[j] ELSE q[j + 1]
  BY TakenOut
<1>3. Tagged(Without(q, i), tag) = { j \in 1 .. Len(q) - 1 : Without(q, i)[j].tag = tag }
  BY <1>2 DEF Tagged
<1>4. ASSUME NEW j \in 1 .. Len(q) - 1
      PROVE  j \in Tagged(Without(q, i), tag) <=> (IF j < i THEN j ELSE j + 1) \in Tagged(q, tag)
  <2>1. j \in 1 .. Len(q) /\ j + 1 \in 1 .. Len(q)
    BY <1>1
  <2> QED BY <1>2, <1>3, <2>1 DEF Tagged
<1> QED BY <1>3, <1>4

(* Where they are once one was sent. *)
LEMMA TaggedAppend ==
  ASSUME NEW M, NEW q \in Seq(M), NEW tag, NEW x \in M
  PROVE  /\ x.tag = tag => Tagged(Append(q, x), tag) = Tagged(q, tag) \union {Len(q) + 1}
         /\ x.tag # tag => Tagged(Append(q, x), tag) = Tagged(q, tag)
<1>1. Len(q) \in Nat
  OBVIOUS
<1>2. /\ Len(Append(q, x)) = Len(q) + 1 /\ \A i \in 1 .. Len(q) : Append(q, x)[i] = q[i]
      /\ Append(q, x)[Len(q) + 1] = x
  BY AppendProperties
<1>3. 1 .. Len(q) + 1 = (1 .. Len(q)) \union {Len(q) + 1}
  BY <1>1
<1>4. Tagged(Append(q, x), tag) = { i \in 1 .. Len(q) + 1 : Append(q, x)[i].tag = tag }
  BY <1>2 DEF Tagged
<1> QED BY <1>2, <1>3, <1>4 DEF Tagged

(* A message under another tag does not matter. *)
LEMMA FlowPastOther ==
  ASSUME NEW q \in Seq(CommMessages), NEW x \in CommMessages, NEW h, NEW c, NEW lo \in Int,
         NEW hi \in Int, Flow(q, h, c, lo, hi), x.tag # << h, c >>
  PROVE  Flow(Append(q, x), h, c, lo, hi)
<1>1. Tagged(Append(q, x), << h, c >>) = Tagged(q, << h, c >>)
  BY TaggedAppend
<1>2. \A i \in 1 .. Len(q) : Append(q, x)[i] = q[i]
  BY AppendProperties
<1>3. Tagged(q, << h, c >>) \subseteq 1 .. Len(q)
  BY DEF Tagged
<1> QED BY <1>1, <1>2, <1>3 DEF Flow

(* The source sends the next payload. *)
LEMMA FlowSend ==
  ASSUME NEW q \in Seq(CommMessages), NEW x \in CommMessages, NEW h, NEW c, NEW lo \in Int,
         NEW hi \in Int, Flow(q, h, c, lo, hi), x.tag = << h, c >>, x.data = << c, hi + 1 >>
  PROVE  Flow(Append(q, x), h, c, lo, hi + 1)
<1> DEFINE m == Tagged(q, << h, c >>)
           n == Len(q) + 1
           a == Append(q, x)
<1>1. Tagged(a, << h, c >>) = m \union {n}
  BY TaggedAppend
<1>2. (\A i \in 1 .. Len(q) : a[i] = q[i]) /\ a[n] = x
  BY AppendProperties
<1>3. m \subseteq 1 .. Len(q) /\ Len(q) \in Nat
  BY DEF Tagged
<1>4. /\ lo <= hi
      /\ \A i \in m : \E k \in lo + 1 .. hi : q[i].data = << c, k >>
      /\ \A i, j \in m : i < j => q[i].data[2] < q[j].data[2]
      /\ \A k \in lo + 1 .. hi : \E i \in m : q[i].data = << c, k >>
  BY DEF Flow
<1> HIDE DEF m, n, a
<1>5. n \notin m /\ \A i \in m : i < n /\ a[i] = q[i]
  <2>1. \A i \in 1 .. Len(q) : i < n
    BY <1>3 DEF n
  <2>2. n \notin 1 .. Len(q)
    BY <1>3 DEF n
  <2> QED BY <1>2, <1>3, <2>1, <2>2
<1>6. lo <= hi + 1 /\ hi + 1 \in lo + 1 .. hi + 1 /\ \A k \in lo + 1 .. hi : k \in lo + 1 .. hi + 1 /\ k < hi + 1
  BY <1>4
<1>7. \A i \in m \union {n} : \E k \in lo + 1 .. hi + 1 : a[i].data = << c, k >>
  BY <1>2, <1>4, <1>5, <1>6
<1>8. ASSUME NEW i \in m \union {n}, NEW j \in m \union {n}, i < j
      PROVE  a[i].data[2] < a[j].data[2]
  <2>1. i \in m
    BY <1>3, <1>5, <1>8 DEF n
  <2>2. CASE j \in m
    BY <1>4, <1>5, <1>8, <2>1, <2>2
  <2>3. CASE j = n
    <3>1. PICK k \in lo + 1 .. hi : q[i].data = << c, k >>
      BY <1>4, <2>1
    <3> QED BY <1>2, <1>5, <1>6, <2>1, <2>3, <3>1
  <2> QED BY <2>2, <2>3
<1>9. ASSUME NEW k \in lo + 1 .. hi + 1 PROVE \E i \in m \union {n} : a[i].data = << c, k >>
  <2>1. CASE k = hi + 1
    BY <1>2, <2>1
  <2>2. CASE k # hi + 1
    <3>1. k \in lo + 1 .. hi
      BY <2>2
    <3>2. PICK i \in m : q[i].data = << c, k >>
      BY <1>4, <3>1
    <3> QED BY <1>5, <3>2
  <2> QED BY <2>1, <2>2
<1>10. Flow(a, h, c, lo, hi + 1)
  BY <1>1, <1>6, <1>7, <1>8, <1>9 DEF Flow
<1> QED BY <1>10 DEF a

(* The place a message moves to when another one is taken out. *)
LEMMA Moved ==
  ASSUME NEW q \in Seq(CommMessages), NEW i \in 1 .. Len(q), NEW tag
  PROVE  LET w == Without(q, i) IN
         /\ \A j \in Tagged(w, tag) : \E k \in Tagged(q, tag) \ {i} :
              w[j] = q[k] /\ k = (IF j < i THEN j ELSE j + 1)
         /\ \A k \in Tagged(q, tag) \ {i} : \E j \in Tagged(w, tag) :
              w[j] = q[k] /\ k = (IF j < i THEN j ELSE j + 1)
<1> DEFINE w == Without(q, i)
<1>1. Len(q) \in Nat /\ i \in Int
  OBVIOUS
<1>2. /\ \A j \in 1 .. Len(q) - 1 : w[j] = IF j < i THEN q[j] ELSE q[j + 1]
      /\ \A j \in 1 .. Len(q) - 1 : j \in Tagged(w, tag) <=>
           (IF j < i THEN j ELSE j + 1) \in Tagged(q, tag)
      /\ Tagged(w, tag) \subseteq 1 .. Len(q) - 1
      /\ Tagged(q, tag) \subseteq 1 .. Len(q)
  <2>1. \A j \in 1 .. Len(q) - 1 : w[j] = IF j < i THEN q[j] ELSE q[j + 1]
    BY TakenOut
  <2>2. Tagged(q, tag) \subseteq 1 .. Len(q)
    BY DEF Tagged
  <2> QED BY <2>1, <2>2, TaggedWithout
<1> HIDE DEF w
<1>3. ASSUME NEW j \in Tagged(w, tag)
      PROVE  \E k \in Tagged(q, tag) \ {i} : w[j] = q[k] /\ k = (IF j < i THEN j ELSE j + 1)
  <2>1. j \in 1 .. Len(q) - 1
    BY <1>2
  <2>2. (IF j < i THEN j ELSE j + 1) # i
    BY <1>1, <2>1
  <2> QED BY <1>2, <2>1, <2>2
<1>4. ASSUME NEW k \in Tagged(q, tag) \ {i}
      PROVE  \E j \in Tagged(w, tag) : w[j] = q[k] /\ k = (IF j < i THEN j ELSE j + 1)
  <2> DEFINE j == IF k < i THEN k ELSE k - 1
  <2>1. k \in 1 .. Len(q) /\ k # i
    BY <1>2
  <2>2. j \in 1 .. Len(q) - 1 /\ k = (IF j < i THEN j ELSE j + 1)
    BY <1>1, <2>1
  <2> HIDE DEF j
  <2>3. j \in Tagged(w, tag) /\ w[j] = q[k]
    BY <1>2, <2>2
  <2> QED BY <2>2, <2>3
<1> QED BY <1>3, <1>4 DEF w

(* What a queue keeps when a message is taken out: order and contents. *)
LEMMA OrderKept ==
  ASSUME NEW q \in Seq(CommMessages), NEW i \in 1 .. Len(q), NEW tag,
         NEW j \in Tagged(Without(q, i), tag), NEW k \in Tagged(Without(q, i), tag), j < k
  PROVE  \E a, b \in Tagged(q, tag) \ {i} :
           a < b /\ Without(q, i)[j] = q[a] /\ Without(q, i)[k] = q[b]
<1>1. PICK a \in Tagged(q, tag) \ {i} :
        Without(q, i)[j] = q[a] /\ a = (IF j < i THEN j ELSE j + 1)
  BY Moved
<1>2. PICK b \in Tagged(q, tag) \ {i} :
        Without(q, i)[k] = q[b] /\ b = (IF k < i THEN k ELSE k + 1)
  BY Moved
<1>3. j \in Int /\ k \in Int /\ i \in Int
  <2>1. Tagged(Without(q, i), tag) \subseteq 1 .. Len(q) - 1
    BY TaggedWithout
  <2> QED BY <2>1
<1>4. a < b
  BY <1>1, <1>2, <1>3
<1> QED BY <1>1, <1>2, <1>4

(* A message under another tag is taken out. *)
LEMMA FlowOtherTaken ==
  ASSUME NEW q \in Seq(CommMessages), NEW i \in 1 .. Len(q), NEW h, NEW c, NEW lo \in Int,
         NEW hi \in Int, Flow(q, h, c, lo, hi), q[i].tag # << h, c >>
  PROVE  Flow(Without(q, i), h, c, lo, hi)
<1> DEFINE tag == << h, c >>
           m == Tagged(q, tag)
           w == Without(q, i)
<1>1. i \notin m
  BY DEF Tagged
<1>2. /\ lo <= hi
      /\ \A j \in m : \E k \in lo + 1 .. hi : q[j].data = << c, k >>
      /\ \A j, k \in m : j < k => q[j].data[2] < q[k].data[2]
      /\ \A k \in lo + 1 .. hi : \E j \in m : q[j].data = << c, k >>
  BY DEF Flow
<1>3. \A j \in Tagged(w, tag) : \E k \in m : w[j] = q[k]
  BY Moved
<1>4. \A k \in m : \E j \in Tagged(w, tag) : w[j] = q[k]
  BY <1>1, Moved
<1>5. \A j, k \in Tagged(w, tag) : j < k => \E a, b \in m : a < b /\ w[j] = q[a] /\ w[k] = q[b]
  BY OrderKept
<1> HIDE DEF m, w, tag
<1>6. \A j \in Tagged(w, tag) : \E k \in lo + 1 .. hi : w[j].data = << c, k >>
  BY <1>2, <1>3
<1>7. \A k \in lo + 1 .. hi : \E j \in Tagged(w, tag) : w[j].data = << c, k >>
  BY <1>2, <1>4
<1>8. \A j, k \in Tagged(w, tag) : j < k => w[j].data[2] < w[k].data[2]
  BY <1>2, <1>5
<1> QED BY <1>2, <1>6, <1>7, <1>8 DEF Flow, w, tag

(* A queue without one of its messages has the others of a tag, in their order. *)
LEMMA Rearranged ==
  ASSUME NEW q \in Seq(CommMessages), NEW tag
  PROVE  \A i \in 1 .. Len(q) :
           /\ \A j \in Tagged(Without(q, i), tag) :
                \E k \in Tagged(q, tag) \ {i} : Without(q, i)[j] = q[k]
           /\ \A k \in Tagged(q, tag) \ {i} :
                \E j \in Tagged(Without(q, i), tag) : Without(q, i)[j] = q[k]
           /\ \A j, k \in Tagged(Without(q, i), tag) : j < k =>
                \E a, b \in Tagged(q, tag) :
                  a < b /\ Without(q, i)[j] = q[a] /\ Without(q, i)[k] = q[b]
<1> TAKE i \in 1 .. Len(q)
<1>1. /\ \A j \in Tagged(Without(q, i), tag) :
           \E k \in Tagged(q, tag) \ {i} : Without(q, i)[j] = q[k]
      /\ \A k \in Tagged(q, tag) \ {i} :
           \E j \in Tagged(Without(q, i), tag) : Without(q, i)[j] = q[k]
  BY Moved
<1>2. \A j, k \in Tagged(Without(q, i), tag) : j < k =>
        \E a, b \in Tagged(q, tag) :
          a < b /\ Without(q, i)[j] = q[a] /\ Without(q, i)[k] = q[b]
  BY OrderKept
<1> QED BY <1>1, <1>2

(* The oldest message of the tag has the next payload, and then the rest is
   what is left. *)
LEMMA FlowTaken ==
  ASSUME NEW q \in Seq(CommMessages), NEW h, NEW c, NEW lo \in Int, NEW hi \in Int,
         Flow(q, h, c, lo, hi), NEW i \in Tagged(q, << h, c >>),
         \A j \in Tagged(q, << h, c >>) : i <= j
  PROVE  /\ i \in 1 .. Len(q) /\ q[i].tag = << h, c >> /\ q[i].data = << c, lo + 1 >>
         /\ Flow(Without(q, i), h, c, lo + 1, hi)
<1> DEFINE tag == << h, c >>
           m == Tagged(q, tag)
           w == Without(q, i)
<1>1. m \subseteq 1 .. Len(q) /\ m \subseteq Nat /\ \A j \in m : q[j].tag = tag
  BY DEF Tagged
<1>2. i \in m /\ \A j \in m : i <= j
  OBVIOUS
<1>3. /\ \A j \in m : \E k \in lo + 1 .. hi : q[j].data = << c, k >>
      /\ \A j, k \in m : j < k => q[j].data[2] < q[k].data[2]
      /\ \A k \in lo + 1 .. hi : \E j \in m : q[j].data = << c, k >>
  BY DEF Flow
<1>4. i \in 1 .. Len(q) /\ q[i].tag = tag
  BY <1>1, <1>2
<1>5. (\A j \in Tagged(w, tag) : \E k \in m \ {i} : w[j] = q[k])
      /\ (\A k \in m \ {i} : \E j \in Tagged(w, tag) : w[j] = q[k])
      /\ (\A j, k \in Tagged(w, tag) : j < k => \E a, b \in m : a < b /\ w[j] = q[a] /\ w[k] = q[b])
  <2>1. \A j \in 1 .. Len(q) :
          /\ \A k \in Tagged(Without(q, j), tag) :
               \E b \in Tagged(q, tag) \ {j} : Without(q, j)[k] = q[b]
          /\ \A k \in Tagged(q, tag) \ {j} :
               \E b \in Tagged(Without(q, j), tag) : Without(q, j)[b] = q[k]
          /\ \A k, l \in Tagged(Without(q, j), tag) : k < l =>
               \E a, b \in Tagged(q, tag) :
                 a < b /\ Without(q, j)[k] = q[a] /\ Without(q, j)[l] = q[b]
    <3> HIDE DEF tag
    <3> QED BY Rearranged
  <2> QED BY <1>4, <2>1
<1> HIDE DEF m, w, tag
<1>7. PICK n \in lo + 1 .. hi : q[i].data = << c, n >>
  BY <1>2, <1>3
<1>8. lo + 1 \in lo + 1 .. hi /\ lo + 1 <= hi
  BY <1>7
<1>9. n = lo + 1
  <2>1. PICK j \in m : q[j].data = << c, lo + 1 >>
    BY <1>3, <1>8
  <2>2. i <= j /\ i \in Nat /\ j \in Nat
    BY <1>1, <1>2
  <2>3. i < j => n < lo + 1
    BY <1>2, <1>3, <1>7, <2>1
  <2>4. ~ (i < j)
    BY <1>7, <2>3
  <2>5. i = j
    BY <2>2, <2>4
  <2> QED BY <1>7, <2>1, <2>5
<1>10. \A k \in m \ {i} : \E l \in lo + 2 .. hi : q[k].data = << c, l >>
  <2> TAKE k \in m \ {i}
  <2>1. PICK l \in lo + 1 .. hi : q[k].data = << c, l >>
    BY <1>3
  <2>2. i < k
    BY <1>1, <1>2
  <2>3. q[i].data[2] < q[k].data[2]
    BY <1>2, <1>3, <2>2
  <2>4. lo + 1 < l
    BY <1>7, <1>9, <2>1, <2>3
  <2> QED BY <2>1, <2>4
<1>11. \A j \in Tagged(w, tag) : \E l \in lo + 1 + 1 .. hi : w[j].data = << c, l >>
  BY <1>5, <1>10
<1>12. ASSUME NEW l \in lo + 1 + 1 .. hi PROVE \E j \in Tagged(w, tag) : w[j].data = << c, l >>
  <2>1. l \in lo + 1 .. hi /\ l # lo + 1
    OBVIOUS
  <2>2. PICK k \in m : q[k].data = << c, l >>
    BY <1>3, <2>1
  <2>3. k # i
    BY <1>7, <1>9, <2>1, <2>2
  <2> QED BY <1>5, <2>2, <2>3
<1>13. \A j, k \in Tagged(w, tag) : j < k => w[j].data[2] < w[k].data[2]
  <2> TAKE j, k \in Tagged(w, tag)
  <2> HAVE j < k
  <2>1. PICK a, b \in m : a < b /\ w[j] = q[a] /\ w[k] = q[b]
    BY <1>5
  <2>2. q[a].data[2] < q[b].data[2]
    BY <1>3, <2>1
  <2> QED BY <2>1, <2>2
<1>14. Flow(w, h, c, lo + 1, hi)
  BY <1>8, <1>11, <1>12, <1>13 DEF Flow, tag
<1> QED BY <1>4, <1>7, <1>9, <1>14 DEF m, w, tag

(* A tag nobody sends under stays away. *)
LEMMA NoneTaken ==
  ASSUME NEW q \in Seq(CommMessages), NEW i \in 1 .. Len(q), NEW tag, Tagged(q, tag) = {}
  PROVE  Tagged(Without(q, i), tag) = {}
BY Moved

-----------------------------------------------------------------------------
(* Steps. *)

(* The places are the topology's. *)
LEMMA SamePlaces ==
  ASSUME UNCHANGED topo
  PROVE  /\ World' = World /\ StageLeaders' = StageLeaders
         /\ \A r : /\ StageMembers(r)' = StageMembers(r) /\ TpGroup(r)' = TpGroup(r)
                   /\ IsStageLeader(r)' = IsStageLeader(r)
         /\ \A r, h : /\ TakesPart(r, h)' = TakesPart(r, h) /\ Receives(r, h)' = Receives(r, h)
                      /\ Source(r, h)' = Source(r, h)
         /\ \A s, d, h : Feeds(s, d, h)' = Feeds(s, d, h)
<1>1. pp_size' = pp_size /\ attn_cp_size' = attn_cp_size /\ attn_tp_size' = attn_tp_size
  BY DEF pp_size, attn_cp_size, attn_tp_size
<1>2. stride' = stride
  BY <1>1 DEF stride
<1>3. World' = World /\ StageLeaders' = StageLeaders
  BY <1>1, <1>2 DEF World, StageLeaders
<1>4. \A r : pp_rank(r)' = pp_rank(r) /\ cp_rank(r)' = cp_rank(r)
  BY <1>1, <1>2 DEF pp_rank, cp_rank
<1>5. \A r : StageOffset(r)' = StageOffset(r)
  BY <1>2, <1>4 DEF StageOffset
<1>6. \A r : /\ StageMembers(r)' = StageMembers(r) /\ TpGroup(r)' = TpGroup(r)
             /\ IsStageLeader(r)' = IsStageLeader(r) /\ CpLeaders(r)' = CpLeaders(r)
  BY <1>1, <1>2, <1>4, <1>5 DEF StageMembers, TpGroup, IsStageLeader, CpLeaders
<1>7. \A r, h : Group(r, h)' = Group(r, h)
  BY <1>1, <1>3, <1>6 DEF Group
<1>8. \A r, h : TakesPart(r, h)' = TakesPart(r, h) /\ Source(r, h)' = Source(r, h)
  BY <1>7 DEF TakesPart, Source
<1>9. \A r, h : Receives(r, h)' = Receives(r, h)
  BY <1>8 DEF Receives
<1>10. \A s, d, h : Feeds(s, d, h)' = Feeds(s, d, h)
  BY <1>8, <1>9 DEF Feeds
<1> QED BY <1>3, <1>6, <1>8, <1>9, <1>10

(* Counts are numbers. *)
LEMMA PassedInt ==
  ASSUME CommTypes, NEW r \in World, NEW h \in 1 .. 3, NEW c \in Channels
  PROVE  Passed(r, h, c) \in Int
BY DEF CommTypes, Passed

(* A pair that feeds takes part on both sides. *)
LEMMA FeedsPart ==
  ASSUME CommTypes, NEW s \in World, NEW d \in World, NEW h \in 1 .. 3, Feeds(s, d, h)
  PROVE  /\ TakesPart(s, h) /\ TakesPart(d, h) /\ s # d /\ s = Source(s, h) /\ d # Source(d, h)
         /\ d \in Group(s, h)
<1>1. TakesPart(d, h) /\ s = Source(d, h) /\ s # d
  BY DEF Feeds, Receives
<1>2. TakesPart(s, h) /\ Source(s, h) = s /\ s \in Group(d, h) /\ d \in Group(d, h)
  BY <1>1, Together DEF CommTypes, TakesPart
<1>3. Group(s, h) = Group(d, h)
  BY <1>2, GroupOf DEF CommTypes
<1> QED BY <1>1, <1>2, <1>3

(* Minima of what was put in do not change. *)
LEMMA SameLows ==
  ASSUME UNCHANGED << topo, input >>
  PROVE  /\ World' = World /\ Low(World)' = Low(World)
         /\ \A s : Low(StageMembers(s))' = Low(StageMembers(s)) /\ Low(TpGroup(s))' = Low(TpGroup(s))
         /\ \A s, d, x : Says(s, d, x)' = Says(s, d, x)
<1>1. World' = World /\ \A s : StageMembers(s)' = StageMembers(s) /\ TpGroup(s)' = TpGroup(s)
  BY SamePlaces
<1>2. Low(World)' = Low(World)
  BY <1>1 DEF Low
<1>3. ASSUME NEW s
      PROVE  Low(StageMembers(s))' = Low(StageMembers(s)) /\ Low(TpGroup(s))' = Low(TpGroup(s))
  <2>1. StageMembers(s)' = StageMembers(s) /\ TpGroup(s)' = TpGroup(s)
    BY <1>1
  <2> QED BY <2>1 DEF Low
<1>4. ASSUME NEW s, NEW d, NEW x PROVE Says(s, d, x)' = Says(s, d, x)
  BY <1>2, <1>3 DEF Says, ReduceTag, BcastTag
<1> QED BY <1>1, <1>2, <1>3, <1>4

(* Messages are sent. *)
LEMMA Sending ==
  ASSUME CommTypes, NetSays, UNCHANGED << topo, input >>, NEW r \in World, NEW ds \in SUBSET World,
         NEW m \in CommMessages, net' = SendAll(net, r, ds, m), \A d \in ds : Says(r, d, m)
  PROVE  /\ net' \in [World \X World -> Seq(CommMessages)] /\ NetSays'
         /\ \A d \in ds : net'[<< r, d >>] = Append(net[<< r, d >>], m)
         /\ \A s, d \in World : s # r \/ d \notin ds => net'[<< s, d >>] = net[<< s, d >>]
<1>1. \A s, d \in World : net[<< s, d >>] \in Seq(CommMessages)
  BY DEF CommTypes
<1>2. \A s, d \in World :
        net'[<< s, d >>] = IF s = r /\ d \in ds THEN Append(net[<< s, d >>], m) ELSE net[<< s, d >>]
  BY DEF SendAll
<1>3. net' \in [World \X World -> Seq(CommMessages)]
  <2>1. \A p \in World \X World : net[p] \in Seq(CommMessages) /\ Append(net[p], m) \in Seq(CommMessages)
    BY AppendProperties DEF CommTypes
  <2> QED BY <2>1 DEF SendAll
<1>4. World' = World /\ \A s, d, x : Says(s, d, x)' = Says(s, d, x)
  BY SameLows
<1>5. ASSUME NEW s \in World, NEW d \in World, NEW i \in 1 .. Len(net'[<< s, d >>])
      PROVE  Says(s, d, net'[<< s, d >>][i])
  <2>1. CASE s = r /\ d \in ds
    <3>1. net'[<< s, d >>] = Append(net[<< s, d >>], m)
      BY <1>2, <2>1
    <3>2. /\ Len(net'[<< s, d >>]) = Len(net[<< s, d >>]) + 1
          /\ \A j \in 1 .. Len(net[<< s, d >>]) : net'[<< s, d >>][j] = net[<< s, d >>][j]
          /\ net'[<< s, d >>][Len(net[<< s, d >>]) + 1] = m
      BY <1>1, <3>1, AppendProperties
    <3>3. i \in 1 .. Len(net[<< s, d >>]) \/ i = Len(net[<< s, d >>]) + 1
      BY <1>1, <3>2
    <3> QED BY <2>1, <3>2, <3>3 DEF NetSays
  <2>2. CASE ~ (s = r /\ d \in ds)
    BY <1>2, <2>2 DEF NetSays
  <2> QED BY <2>1, <2>2
<1>6. NetSays'
  BY <1>4, <1>5 DEF NetSays
<1>7. /\ \A d \in ds : net'[<< r, d >>] = Append(net[<< r, d >>], m)
      /\ \A s, d \in World : s # r \/ d \notin ds => net'[<< s, d >>] = net[<< s, d >>]
  BY <1>2
<1> QED BY <1>3, <1>6, <1>7

(* A message is received. *)
LEMMA Taking ==
  ASSUME CommTypes, NetSays, UNCHANGED << topo, input >>, NEW s \in World, NEW d \in World,
         NEW i \in 1 .. Len(net[<< s, d >>]),
         net' = [net EXCEPT ![<< s, d >>] = Without(@, i)]
  PROVE  /\ net' \in [World \X World -> Seq(CommMessages)] /\ NetSays'
         /\ net'[<< s, d >>] = Without(net[<< s, d >>], i)
         /\ \A u, v \in World : << u, v >> # << s, d >> => net'[<< u, v >>] = net[<< u, v >>]
<1> DEFINE q == net[<< s, d >>]
           w == Without(q, i)
<1>1. << s, d >> \in World \X World /\ net \in [World \X World -> Seq(CommMessages)]
  BY DEF CommTypes
<1>2. q \in Seq(CommMessages) /\ Len(q) \in Nat
  BY <1>1
<1>3. /\ w \in Seq(CommMessages) /\ Len(w) = Len(q) - 1
      /\ \A j \in 1 .. Len(q) - 1 : w[j] = IF j < i THEN q[j] ELSE q[j + 1]
  BY <1>2, TakenOut
<1> HIDE DEF w
<1>4. net' = [net EXCEPT ![<< s, d >>] = w]
  BY DEF w
<1>5. /\ net' \in [World \X World -> Seq(CommMessages)] /\ net'[<< s, d >>] = w
      /\ \A p \in World \X World : p # << s, d >> => net'[p] = net[p]
  BY <1>1, <1>3, <1>4
<1>6. \A u, v \in World : << u, v >> # << s, d >> => net'[<< u, v >>] = net[<< u, v >>]
  BY <1>5
<1>7. World' = World /\ \A a, b, x : Says(a, b, x)' = Says(a, b, x)
  BY SameLows
<1>8. ASSUME NEW u \in World, NEW v \in World, NEW j \in 1 .. Len(net'[<< u, v >>])
      PROVE  Says(u, v, net'[<< u, v >>][j])
  <2>1. CASE << u, v >> = << s, d >>
    <3>1. j \in 1 .. Len(q) - 1 /\ u = s /\ v = d
      BY <1>3, <1>5, <2>1
    <3>2. w[j] = IF j < i THEN q[j] ELSE q[j + 1]
      BY <1>3, <3>1
    <3>4. j \in 1 .. Len(q) /\ j + 1 \in 1 .. Len(q)
      <4> HIDE DEF q
      <4> QED BY <1>2, <3>1
    <3>3. \A k \in 1 .. Len(q) : Says(s, d, q[k])
      BY DEF NetSays
    <3> HIDE DEF q
    <3> QED BY <1>5, <3>1, <3>2, <3>3, <3>4
  <2>2. CASE << u, v >> # << s, d >>
    BY <1>6, <2>2 DEF NetSays
  <2> QED BY <2>1, <2>2
<1>9. NetSays'
  BY <1>7, <1>8 DEF NetSays
<1> QED BY <1>5, <1>6, <1>9 DEF w

(* A rank whose step does not touch its part. *)
LEMMA PartStays ==
  ASSUME UNCHANGED << topo, input >>, NEW r, UNCHANGED heard \/ r # 0, PartOf(r), value'[r] = value[r],
         \/ at'[r].op = at[r].op
         \/ {at[r].op, at'[r].op} \subseteq {"idle", "scatter", "tp"}
  PROVE  PartOf(r)'
<1>1. \A S : Low(S)' = Low(S)
  BY DEF Low
<1>2. /\ World' = World /\ StageMembers(r)' = StageMembers(r) /\ TpGroup(r)' = TpGroup(r)
      /\ IsStageLeader(r)' = IsStageLeader(r) /\ \A s : StageMembers(s)' = StageMembers(s)
  BY SamePlaces
<1>3. r = 0 => (UNION { StageMembers(s) : s \in heard \union {0} })' =
                    UNION { StageMembers(s) : s \in heard \union {0} }
  BY <1>2
<1>4. /\ Low(TpGroup(r))' = Low(TpGroup(r)) /\ Low(StageMembers(r))' = Low(StageMembers(r))
      /\ Low(World)' = Low(World)
      /\ r = 0 => Low(UNION { StageMembers(s) : s \in heard \union {0} })' =
           Low(UNION { StageMembers(s) : s \in heard \union {0} })
  BY <1>2, <1>3 DEF Low
<1> QED BY <1>2, <1>4 DEF PartOf

(* What messages say does not change while they are on the way. *)
LEMMA NetStays ==
  ASSUME NetSays, UNCHANGED << topo, input, net >>
  PROVE  NetSays'
<1>1. World' = World /\ \A s, d, x : Says(s, d, x)' = Says(s, d, x)
  BY SameLows
<1> SUFFICES ASSUME NEW s \in World, NEW d \in World, NEW i \in 1 .. Len(net[<< s, d >>])
             PROVE  Says(s, d, net[<< s, d >>][i])'
  BY <1>1 DEF NetSays
<1>2. Says(s, d, net[<< s, d >>][i])
  BY DEF NetSays
<1> QED BY <1>1, <1>2

(* A rank enters a scatter: it has not come to any of its hops. *)
LEMMA EnterScatterKeeps ==
  ASSUME CommInv, NEW r \in World, NEW ch \in Channels, EnterScatter(r, ch)
  PROVE  CommInv'
<1> DEFINE n == NextHop(r, 1)
           e == entered[r][ch] + 1
           a == [op |-> "scatter", ch |-> ch, hop |-> n, data |-> IF r = 0 THEN << ch, e >> ELSE << >>]
<1>1. CommTypes /\ UNCHANGED << topo, net, value, input, heard, mixed >> /\ at[r] = Home
  BY DEF CommInv, EnterScatter
<1>2. n \in 1 .. 4 /\ (n <= 3 => TakesPart(r, n))
  BY NextHopIs
<1>3. \A k \in 1 .. 3 : TakesPart(r, k) => n <= k
  BY NextHopIs
<1>4. entered[r][ch] \in Nat /\ e \in Nat /\ at[r].op = "idle"
  BY <1>1 DEF CommTypes, Home
<1>5. at' = [at EXCEPT ![r] = a] /\ entered' = [entered EXCEPT ![r][ch] = e]
  BY DEF EnterScatter
<1> HIDE DEF n, e
<1>6. a \in [op : CommOps, ch : Channels \union {"none"}, hop : 0 .. 4, data : Payloads]
  <2>1. (IF r = 0 THEN << ch, e >> ELSE << >>) \in Payloads
    BY <1>4 DEF Payloads
  <2>2. n \in 0 .. 4 /\ "scatter" \in CommOps
    BY <1>2 DEF CommOps
  <2> QED BY <2>1, <2>2
<1>7. a.op = "scatter" /\ a.ch = ch /\ a.hop = n /\ (r = 0 => a.data = << ch, e >>)
  OBVIOUS
<1> HIDE DEF a
<1>8. /\ at' \in [World -> [op : CommOps, ch : Channels \union {"none"}, hop : 0 .. 4, data : Payloads]]
      /\ at'[r] = a /\ \A q \in World \ {r} : at'[q] = at[q]
  BY <1>1, <1>5, <1>6 DEF CommTypes
<1>9. /\ entered' \in [World -> [Channels -> Nat]] /\ entered'[r][ch] = e
      /\ \A q \in World, c \in Channels : q # r \/ c # ch => entered'[q][c] = entered[q][c]
  BY <1>1, <1>4, <1>5 DEF CommTypes
<1>10. /\ World' = World /\ StageLeaders' = StageLeaders
       /\ \A q, h : TakesPart(q, h)' = TakesPart(q, h) /\ Receives(q, h)' = Receives(q, h)
       /\ \A s, d, h : Feeds(s, d, h)' = Feeds(s, d, h)
  BY <1>1, SamePlaces
<1>11. CommTypes'
  BY <1>1, <1>2, <1>7, <1>8, <1>9, <1>10 DEF CommTypes
<1>12. Informed'
  <2> SUFFICES ASSUME NEW q \in World, at'[q].op = "scatter",
                      q = 0 \/ \E h \in 1 .. 3 : h < at'[q].hop /\ Receives(q, h)
               PROVE  at'[q].data = << at'[q].ch, entered'[q][at'[q].ch] >>
    BY <1>10 DEF Informed
  <2>1. CASE q = r
    <3>1. q = 0
      <4>1. ASSUME NEW h \in 1 .. 3, h < n, Receives(r, h) PROVE FALSE
        <5>1. n <= h
          BY <1>3, <4>1 DEF Receives
        <5> QED BY <1>2, <4>1, <5>1
      <4> QED BY <1>7, <1>8, <2>1, <4>1
    <3> QED BY <1>7, <1>8, <1>9, <2>1, <3>1
  <2>2. CASE q # r
    <3>1. at'[q] = at[q] /\ at[q].ch \in Channels
      BY <1>1, <1>8, <2>2 DEF CommTypes
    <3>2. entered'[q][at[q].ch] = entered[q][at[q].ch]
      BY <1>9, <2>2, <3>1
    <3> QED BY <3>1, <3>2 DEF CommInv, Informed
  <2> QED BY <2>1, <2>2
<1>13. ASSUME NEW q \in World, NEW h \in 1 .. 3, NEW c \in Channels, TakesPart(q, h)
       PROVE  Passed(q, h, c)' = Passed(q, h, c)
  <2>1. CASE q = r
    <3>1. n <= h
      BY <1>3, <1>13, <2>1
    <3>2. Passed(r, h, c) = entered[r][c]
      BY <1>4 DEF Passed
    <3>3. Passed(r, h, c)' = IF c = ch THEN e - 1 ELSE entered[r][c]
      BY <1>7, <1>8, <1>9, <3>1 DEF Passed
    <3> QED BY <1>4, <2>1, <3>2, <3>3 DEF e
  <2>2. CASE q # r
    BY <1>8, <1>9, <2>2 DEF Passed
  <2> QED BY <2>1, <2>2
<1>14. OnTheWay'
  <2> SUFFICES ASSUME NEW s \in World, NEW d \in World, NEW h \in 1 .. 3, NEW c \in Channels
               PROVE  /\ Feeds(s, d, h) =>
                           Flow(net[<< s, d >>], h, c, Passed(d, h, c)', Passed(s, h, c)')
                      /\ ~ Feeds(s, d, h) => Tagged(net[<< s, d >>], << h, c >>) = {}
    BY <1>1, <1>10 DEF OnTheWay
  <2> QED BY <1>1, <1>13, FeedsPart DEF CommInv, OnTheWay
<1>15. Parts'
  BY <1>1, <1>4, <1>7, <1>8, <1>10, PartStays DEF CommInv, Parts
<1>16. HeardLate'
  BY <1>1, <1>4, <1>8, Stages DEF CommInv, HeardLate, CommTypes
<1>17. NetSays' /\ ~ mixed'
  BY <1>1, NetStays DEF CommInv
<1> QED BY <1>11, <1>12, <1>14, <1>15, <1>16, <1>17 DEF CommInv

(* A scatter returns: its rank has received. *)
LEMMA ScatterReturnsKeeps ==
  ASSUME CommInv, NEW r \in World, ScatterReturns(r)
  PROVE  CommInv'
<1>1. CommTypes /\ UNCHANGED << topo, entered, net, value, input, heard >> /\ at[r].op = "scatter"
      /\ at[r].hop = 4
  BY DEF CommInv, ScatterReturns
<1>2. /\ at' \in [World -> [op : CommOps, ch : Channels \union {"none"}, hop : 0 .. 4, data : Payloads]]
      /\ at'[r] = Home /\ \A q \in World \ {r} : at'[q] = at[q]
  <2>1. Home \in [op : CommOps, ch : Channels \union {"none"}, hop : 0 .. 4, data : Payloads]
    BY DEF Home, CommOps, Payloads
  <2> QED BY <1>1, <2>1 DEF CommTypes, ScatterReturns
<1>3. Home.op = "idle"
  BY DEF Home
<1>4. /\ World' = World /\ StageLeaders' = StageLeaders
      /\ \A q, h : TakesPart(q, h)' = TakesPart(q, h) /\ Receives(q, h)' = Receives(q, h)
      /\ \A s, d, h : Feeds(s, d, h)' = Feeds(s, d, h)
  BY <1>1, SamePlaces
<1>5. CommTypes'
  BY <1>1, <1>2, <1>3, <1>4 DEF CommTypes
<1>6. Informed'
  BY <1>1, <1>2, <1>3, <1>4 DEF CommInv, Informed
<1>7. ASSUME NEW q \in World, NEW h \in 1 .. 3, NEW c \in Channels
      PROVE  Passed(q, h, c)' = Passed(q, h, c)
  <2>1. CASE q = r
    <3>1. ~ (at[r].hop <= h)
      BY <1>1
    <3> QED BY <1>1, <1>2, <1>3, <2>1, <3>1 DEF Passed
  <2>2. CASE q # r
    BY <1>1, <1>2, <2>2 DEF Passed
  <2> QED BY <2>1, <2>2
<1>8. OnTheWay'
  <2> SUFFICES ASSUME NEW s \in World, NEW d \in World, NEW h \in 1 .. 3, NEW c \in Channels
               PROVE  /\ Feeds(s, d, h) =>
                           Flow(net[<< s, d >>], h, c, Passed(d, h, c)', Passed(s, h, c)')
                      /\ ~ Feeds(s, d, h) => Tagged(net[<< s, d >>], << h, c >>) = {}
    BY <1>1, <1>4 DEF OnTheWay
  <2> QED BY <1>7 DEF CommInv, OnTheWay
<1>9. Parts'
  BY <1>1, <1>2, <1>3, <1>4, PartStays DEF CommInv, Parts
<1>10. HeardLate'
  BY <1>1, <1>2, Stages DEF CommInv, HeardLate, CommTypes
<1>11. NetSays'
  BY <1>1, NetStays DEF CommInv
<1>12. ~ mixed'
  <2>1. r = 0 \/ \E h \in 1 .. 3 : h < at[r].hop /\ Receives(r, h)
    BY <1>1, Routed DEF CommTypes
  <2>2. at[r].data = << at[r].ch, entered[r][at[r].ch] >>
    BY <1>1, <2>1 DEF CommInv, Informed
  <2> QED BY <2>2 DEF CommInv, ScatterReturns
<1> QED BY <1>5, <1>6, <1>8, <1>9, <1>10, <1>11, <1>12 DEF CommInv

(* What a hop does to the rank that takes it. *)
LEMMA HopTaken ==
  ASSUME CommInv, NEW r \in World, ScatterHop(r), NEW x \in Payloads,
         at' = [at EXCEPT ![r].hop = NextHop(r, at[r].hop + 1), ![r].data = x],
         x = << at[r].ch, entered[r][at[r].ch] >>,
         net' \in [World \X World -> Seq(CommMessages)]
  PROVE  /\ CommTypes' /\ Informed' /\ Parts' /\ HeardLate'
         /\ \A q \in World, k \in 1 .. 3, c \in Channels : TakesPart(q, k) =>
              Passed(q, k, c)' = IF q = r /\ k = at[r].hop /\ c = at[r].ch
                                 THEN Passed(q, k, c) + 1 ELSE Passed(q, k, c)
         /\ Passed(r, at[r].hop, at[r].ch) = entered[r][at[r].ch] - 1
<1> DEFINE h == at[r].hop
           ch == at[r].ch
           n == NextHop(r, h + 1)
           a == [at[r] EXCEPT !.hop = n, !.data = x]
<1>1. CommTypes /\ UNCHANGED << topo, entered, value, input, heard, mixed >>
      /\ at[r].op = "scatter" /\ h <= 3
  BY DEF CommInv, ScatterHop
<1>2. ch \in Channels /\ h \in 1 .. 3 /\ TakesPart(r, h)
      /\ at[r] \in [op : CommOps, ch : Channels \union {"none"}, hop : 0 .. 4, data : Payloads]
  BY <1>1 DEF CommTypes
<1>3. h + 1 \in 1 .. 4
  BY <1>2
<1>4. n \in h + 1 .. 4 /\ n \in 1 .. 4 /\ (n <= 3 => TakesPart(r, n))
  BY <1>3, NextHopIs
<1>5. \A k \in h + 1 .. 3 : TakesPart(r, k) => n <= k
  BY <1>3, NextHopIs
<1>6. at' = [at EXCEPT ![r] = a]
  BY <1>1 DEF CommTypes
<1> HIDE DEF n
<1>7. /\ a \in [op : CommOps, ch : Channels \union {"none"}, hop : 0 .. 4, data : Payloads]
      /\ a.op = "scatter" /\ a.ch = ch /\ a.hop = n /\ a.data = x
  <2> DEFINE y == at[r]
  <2>1. /\ y \in [op : CommOps, ch : Channels \union {"none"}, hop : 0 .. 4, data : Payloads]
        /\ y.op = "scatter" /\ y.ch = ch /\ n \in 0 .. 4
    BY <1>1, <1>2, <1>4
  <2>2. a = [y EXCEPT !.hop = n, !.data = x]
    OBVIOUS
  <2> HIDE DEF y, a, ch
  <2>3. a \in [op : CommOps, ch : Channels \union {"none"}, hop : {n}, data : {x}]
    BY <2>1, <2>2
  <2>4. a.op = y.op /\ a.ch = y.ch
    BY <2>1, <2>2
  <2>5. a \in [op : CommOps, ch : Channels \union {"none"}, hop : 0 .. 4, data : Payloads]
        /\ a.hop = n /\ a.data = x
    BY <2>1, <2>3
  <2> QED BY <2>1, <2>4, <2>5
<1> HIDE DEF a
<1>8. /\ at' \in [World -> [op : CommOps, ch : Channels \union {"none"}, hop : 0 .. 4, data : Payloads]]
      /\ at'[r] = a /\ \A q \in World \ {r} : at'[q] = at[q]
  BY <1>1, <1>6, <1>7 DEF CommTypes
<1>9. /\ World' = World /\ StageLeaders' = StageLeaders
      /\ \A q, k : TakesPart(q, k)' = TakesPart(q, k) /\ Receives(q, k)' = Receives(q, k)
  BY <1>1, SamePlaces
<1>10. CommTypes'
  BY <1>1, <1>2, <1>4, <1>7, <1>8, <1>9 DEF CommTypes
<1>11. Informed'
  <2> SUFFICES ASSUME NEW q \in World, at'[q].op = "scatter",
                      q = 0 \/ \E k \in 1 .. 3 : k < at'[q].hop /\ Receives(q, k)
               PROVE  at'[q].data = << at'[q].ch, entered'[q][at'[q].ch] >>
    BY <1>9 DEF Informed
  <2>1. CASE q = r
    BY <1>1, <1>7, <1>8, <2>1
  <2>2. CASE q # r
    BY <1>1, <1>8, <2>2 DEF CommInv, Informed
  <2> QED BY <2>1, <2>2
<1>12. Parts'
  BY <1>1, <1>7, <1>8, <1>9, PartStays DEF CommInv, Parts
<1>13. HeardLate'
  BY <1>1, <1>7, <1>8, Stages DEF CommInv, HeardLate, CommTypes
<1>14. ASSUME NEW q \in World, NEW k \in 1 .. 3, NEW c \in Channels, TakesPart(q, k)
       PROVE  Passed(q, k, c)' = IF q = r /\ k = h /\ c = ch THEN Passed(q, k, c) + 1
                                 ELSE Passed(q, k, c)
  <2>1. CASE q # r
    BY <1>1, <1>8, <2>1 DEF Passed
  <2>2. CASE q = r
    <3>1. entered[r][c] \in Nat
      BY <1>1 DEF CommTypes
    <3>2. Passed(r, k, c) = IF ch = c /\ h <= k THEN entered[r][c] - 1 ELSE entered[r][c]
      BY <1>1 DEF Passed
    <3>3. Passed(r, k, c)' = IF ch = c /\ n <= k THEN entered[r][c] - 1 ELSE entered[r][c]
      BY <1>1, <1>7, <1>8 DEF Passed
    <3>4. CASE k < h
      <4>1. ~ (h <= k) /\ ~ (n <= k) /\ k # h
        BY <1>2, <1>4, <3>4
      <4> QED BY <2>2, <3>2, <3>3, <4>1
    <3>5. CASE k = h
      <4>1. h <= k /\ ~ (n <= k)
        BY <1>2, <1>4, <3>5
      <4>2. entered[r][c] - 1 + 1 = entered[r][c]
        BY <3>1
      <4> HIDE DEF h
      <4> QED BY <2>2, <3>2, <3>3, <3>5, <4>1, <4>2
    <3>6. CASE h < k
      <4>1. k \in h + 1 .. 3
        BY <1>2, <3>6
      <4>2. n <= k /\ h <= k /\ k # h
        BY <1>2, <1>5, <1>14, <2>2, <3>6, <4>1
      <4> QED BY <2>2, <3>2, <3>3, <4>2
    <3> QED BY <1>2, <3>4, <3>5, <3>6
  <2> QED BY <2>1, <2>2
<1>15. Passed(r, h, ch) = entered[r][ch] - 1
  <2>1. h <= h
    BY <1>2
  <2> QED BY <1>1, <2>1 DEF Passed
<1> QED BY <1>10, <1>11, <1>12, <1>13, <1>14, <1>15

(* A scatter tag is none of the reduction's. *)
LEMMA TagsApart ==
  /\ \A h, c : << h, c >> # ReduceTag /\ << h, c >> # BcastTag
  /\ ReduceTag # BcastTag
  /\ \A h, c : ScatterTag(h, c) = << h, c >>
BY DEF ReduceTag, BcastTag, ScatterTag

(* The source of a hop sends. *)
LEMMA HopSendKeeps ==
  ASSUME CommInv, NEW r \in World, ScatterHop(r), r = Source(r, at[r].hop),
         net' = SendAll(net, r, Group(r, at[r].hop) \ {r},
                        [tag |-> ScatterTag(at[r].hop, at[r].ch), data |-> at[r].data]),
         at' = [at EXCEPT ![r].hop = NextHop(r, at[r].hop + 1)]
  PROVE  CommInv'
<1> DEFINE h == at[r].hop
           ch == at[r].ch
           m == [tag |-> << h, ch >>, data |-> at[r].data]
           ds == Group(r, h) \ {r}
<1>1. CommTypes /\ NetSays /\ UNCHANGED << topo, entered, value, input, heard, mixed >>
      /\ at[r].op = "scatter" /\ h <= 3
  BY DEF CommInv, ScatterHop
<1>2. ch \in Channels /\ h \in 1 .. 3 /\ TakesPart(r, h) /\ at[r].data \in Payloads
  BY <1>1 DEF CommTypes
<1>3. at[r].data = << ch, entered[r][ch] >>
  <2>1. r = 0 \/ \E k \in 1 .. 3 : k < h /\ Receives(r, k)
    BY <1>1, <1>2, Routed DEF CommTypes
  <2> QED BY <1>1, <2>1 DEF CommInv, Informed
<1>4. m \in CommMessages /\ m.tag = << h, ch >> /\ m.data = << ch, entered[r][ch] >>
  <2>1. << h, ch >> \in Tags
    BY <1>2 DEF Tags
  <2> QED BY <1>2, <1>3, <2>1 DEF CommMessages
<1>5. ds \in SUBSET World /\ \A d \in ds : Feeds(r, d, h)
  BY <1>1, <1>2, Together DEF CommTypes, Feeds, Receives
<1>6. net' = SendAll(net, r, ds, m)
  BY TagsApart
<1>7. \A d \in ds : Says(r, d, m)
  BY <1>4, TagsApart DEF Says
<1> HIDE DEF m, ds
<1>8. /\ net' \in [World \X World -> Seq(CommMessages)] /\ NetSays'
      /\ \A d \in ds : net'[<< r, d >>] = Append(net[<< r, d >>], m)
      /\ \A s, d \in World : s # r \/ d \notin ds => net'[<< s, d >>] = net[<< s, d >>]
  <2>1. UNCHANGED << topo, input >>
    BY <1>1
  <2>2. PICK x \in CommMessages : x = m
    BY <1>4
  <2>3. PICK D \in SUBSET World : D = ds
    BY <1>5
  <2>4. net' = SendAll(net, r, D, x) /\ \A d \in D : Says(r, d, x)
    BY <1>6, <1>7, <2>2, <2>3
  <2>5. /\ net' \in [World \X World -> Seq(CommMessages)] /\ NetSays'
        /\ \A d \in D : net'[<< r, d >>] = Append(net[<< r, d >>], x)
        /\ \A s, d \in World : s # r \/ d \notin D => net'[<< s, d >>] = net[<< s, d >>]
    BY <1>1, <2>1, <2>4, Sending
  <2> QED BY <2>2, <2>3, <2>5
<1>9. at' = [at EXCEPT ![r].hop = NextHop(r, at[r].hop + 1), ![r].data = at[r].data]
  BY <1>1 DEF CommTypes
<1>10. /\ CommTypes' /\ Informed' /\ Parts' /\ HeardLate'
       /\ \A q \in World, k \in 1 .. 3, c \in Channels : TakesPart(q, k) =>
            Passed(q, k, c)' = IF q = r /\ k = h /\ c = ch
                               THEN Passed(q, k, c) + 1 ELSE Passed(q, k, c)
       /\ Passed(r, h, ch) = entered[r][ch] - 1
  BY <1>2, <1>3, <1>8, <1>9, HopTaken
<1>11. ASSUME NEW s \in World, NEW d \in World, NEW k \in 1 .. 3, NEW c \in Channels
       PROVE  /\ Feeds(s, d, k) => Flow(net'[<< s, d >>], k, c, Passed(d, k, c)', Passed(s, k, c)')
              /\ ~ Feeds(s, d, k) => Tagged(net'[<< s, d >>], << k, c >>) = {}
  <2> DEFINE q == net[<< s, d >>]
  <2>1. q \in Seq(CommMessages) /\ Passed(d, k, c) \in Int /\ Passed(s, k, c) \in Int
    BY <1>1, PassedInt DEF CommTypes
  <2>2. /\ Feeds(s, d, k) => Flow(q, k, c, Passed(d, k, c), Passed(s, k, c))
        /\ ~ Feeds(s, d, k) => Tagged(q, << k, c >>) = {}
    BY DEF CommInv, OnTheWay
  <2>3. net'[<< s, d >>] = IF s = r /\ d \in ds THEN Append(q, m) ELSE q
    BY <1>8
  <2> HIDE DEF q
  <2>4. ASSUME Feeds(s, d, k)
        PROVE  Flow(net'[<< s, d >>], k, c, Passed(d, k, c)', Passed(s, k, c)')
    <3>1. /\ TakesPart(s, k) /\ TakesPart(d, k) /\ s # d /\ s = Source(s, k) /\ d # Source(d, k)
          /\ d \in Group(s, k)
      BY <1>1, <2>4, FeedsPart
    <3>2. CASE k = h /\ c = ch
      <4>1. d # r
        BY <3>1, <3>2
      <4>2. Passed(d, k, c)' = Passed(d, k, c)
        BY <1>10, <3>1, <4>1
      <4>3. CASE s = r
        <5>1. d \in ds /\ net'[<< s, d >>] = Append(q, m)
          BY <2>3, <3>1, <3>2, <4>1, <4>3 DEF ds
        <5>2. Passed(s, k, c)' = Passed(s, k, c) + 1
          BY <1>10, <3>1, <3>2, <4>3
        <5>3. m.tag = << k, c >> /\ m.data = << c, Passed(s, k, c) + 1 >>
          <6>1. entered[r][ch] \in Nat
            BY <1>1, <1>2 DEF CommTypes
          <6>2. Passed(s, k, c) + 1 = entered[r][ch]
            BY <1>10, <3>2, <4>3, <6>1
          <6> QED BY <1>4, <3>2, <6>2
        <5> QED BY <1>4, <2>1, <2>2, <2>4, <4>2, <5>1, <5>2, <5>3, FlowSend
      <4>4. CASE s # r
        BY <1>10, <2>2, <2>3, <2>4, <3>1, <4>2, <4>4
      <4> QED BY <4>3, <4>4
    <3>3. CASE ~ (k = h /\ c = ch)
      <4>1. Passed(d, k, c)' = Passed(d, k, c) /\ Passed(s, k, c)' = Passed(s, k, c)
        BY <1>10, <3>1, <3>3
      <4>2. m.tag # << k, c >>
        BY <1>4, <3>3
      <4>3. Flow(Append(q, m), k, c, Passed(d, k, c), Passed(s, k, c))
        BY <1>4, <2>1, <2>2, <2>4, <4>2, FlowPastOther
      <4> QED BY <2>2, <2>3, <2>4, <4>1, <4>3
    <3> QED BY <3>2, <3>3
  <2>5. ASSUME ~ Feeds(s, d, k) PROVE Tagged(net'[<< s, d >>], << k, c >>) = {}
    <3>1. CASE s = r /\ d \in ds
      <4>1. k # h
        BY <1>5, <2>5, <3>1
      <4>2. m.tag # << k, c >>
        BY <1>4, <4>1
      <4>3. Tagged(Append(q, m), << k, c >>) = Tagged(q, << k, c >>)
        BY <1>4, <2>1, <4>2, TaggedAppend
      <4> QED BY <2>2, <2>3, <2>5, <3>1, <4>3
    <3>2. CASE ~ (s = r /\ d \in ds)
      BY <2>2, <2>3, <2>5, <3>2
    <3> QED BY <3>1, <3>2
  <2> QED BY <2>4, <2>5
<1>12. OnTheWay'
  <2>1. World' = World /\ \A s, d, k : Feeds(s, d, k)' = Feeds(s, d, k)
    BY <1>1, SamePlaces
  <2> QED BY <1>11, <2>1 DEF OnTheWay
<1> QED BY <1>1, <1>8, <1>10, <1>12 DEF CommInv

(* Another rank of the hop receives: what it takes is the payload of its own
   operation, because the ones before it were taken by the ones before. *)
LEMMA HopReceiveKeeps ==
  ASSUME CommInv, NEW r \in World, ScatterHop(r), NEW src \in World,
         src = Source(r, at[r].hop), r # src,
         Matching(src, r, ScatterTag(at[r].hop, at[r].ch)) # {},
         NEW i, i = Min(Matching(src, r, ScatterTag(at[r].hop, at[r].ch))),
         at' = [at EXCEPT ![r].hop = NextHop(r, at[r].hop + 1), ![r].data = net[<< src, r >>][i].data],
         net' = [net EXCEPT ![<< src, r >>] = Without(@, i)]
  PROVE  CommInv'
<1> DEFINE h == at[r].hop
           ch == at[r].ch
           q == net[<< src, r >>]
           lo == Passed(r, h, ch)
<1>1. CommTypes /\ NetSays /\ UNCHANGED << topo, entered, value, input, heard, mixed >>
      /\ at[r].op = "scatter" /\ h <= 3
  BY DEF CommInv, ScatterHop
<1>2. ch \in Channels /\ h \in 1 .. 3 /\ TakesPart(r, h) /\ entered[r][ch] \in Nat
  BY <1>1 DEF CommTypes
<1>3. Feeds(src, r, h)
  BY <1>2 DEF Feeds, Receives
<1>4. Matching(src, r, ScatterTag(h, ch)) = Tagged(q, << h, ch >>)
  BY TagsApart DEF Matching, Tagged
<1>5. q \in Seq(CommMessages) /\ lo \in Int /\ Passed(src, h, ch) \in Int
  BY <1>1, <1>2, PassedInt DEF CommTypes
<1>6. Flow(q, h, ch, lo, Passed(src, h, ch))
  BY <1>2, <1>3 DEF CommInv, OnTheWay
<1>7. /\ i \in 1 .. Len(q) /\ q[i].tag = << h, ch >> /\ q[i].data = << ch, lo + 1 >>
      /\ Flow(Without(q, i), h, ch, lo + 1, Passed(src, h, ch))
  <2>1. i \in Tagged(q, << h, ch >>) /\ \A j \in Tagged(q, << h, ch >>) : i <= j
    <3>1. Tagged(q, << h, ch >>) # {} /\ i = Min(Tagged(q, << h, ch >>))
      BY <1>4
    <3>2. Tagged(q, << h, ch >>) \subseteq Nat
      BY DEF Tagged
    <3> QED BY <3>1, <3>2, MinOfNats
  <2> HIDE DEF q, lo, h, ch
  <2> QED BY <1>5, <1>6, <2>1, FlowTaken
<1>8. lo = entered[r][ch] - 1
  <2>1. h <= h
    BY <1>2
  <2> QED BY <1>1, <2>1 DEF Passed
<1>9. q[i].data = << ch, entered[r][ch] >> /\ q[i].data \in Payloads
  <2>1. lo + 1 = entered[r][ch]
    BY <1>2, <1>8
  <2> HIDE DEF lo, q, h, ch
  <2>2. q[i].data = << ch, entered[r][ch] >>
    BY <1>7, <2>1
  <2> QED BY <1>2, <2>2 DEF Payloads
<1>10. /\ net' \in [World \X World -> Seq(CommMessages)] /\ NetSays'
       /\ net'[<< src, r >>] = Without(q, i)
       /\ \A u, v \in World : << u, v >> # << src, r >> => net'[<< u, v >>] = net[<< u, v >>]
  <2>1. UNCHANGED << topo, input >>
    BY <1>1
  <2> QED BY <1>1, <1>7, <2>1, Taking
<1>11. /\ CommTypes' /\ Informed' /\ Parts' /\ HeardLate'
       /\ \A p \in World, k \in 1 .. 3, c \in Channels : TakesPart(p, k) =>
            Passed(p, k, c)' = IF p = r /\ k = h /\ c = ch
                               THEN Passed(p, k, c) + 1 ELSE Passed(p, k, c)
  <2>1. PICK x \in Payloads : x = q[i].data
    BY <1>9
  <2>2. /\ at' = [at EXCEPT ![r].hop = NextHop(r, at[r].hop + 1), ![r].data = x]
        /\ x = << at[r].ch, entered[r][at[r].ch] >>
    BY <1>9, <2>1
  <2>3. net' \in [World \X World -> Seq(CommMessages)]
    BY <1>10
  <2> QED BY <2>2, <2>3, HopTaken
<1>12. ASSUME NEW s \in World, NEW d \in World, NEW k \in 1 .. 3, NEW c \in Channels
       PROVE  /\ Feeds(s, d, k) => Flow(net'[<< s, d >>], k, c, Passed(d, k, c)', Passed(s, k, c)')
              /\ ~ Feeds(s, d, k) => Tagged(net'[<< s, d >>], << k, c >>) = {}
  <2>1. /\ Feeds(s, d, k) => Flow(net[<< s, d >>], k, c, Passed(d, k, c), Passed(s, k, c))
        /\ ~ Feeds(s, d, k) => Tagged(net[<< s, d >>], << k, c >>) = {}
    BY DEF CommInv, OnTheWay
  <2>2. net[<< s, d >>] \in Seq(CommMessages) /\ Passed(d, k, c) \in Int /\ Passed(s, k, c) \in Int
    BY <1>1, PassedInt DEF CommTypes
  <2>3. ASSUME Feeds(s, d, k)
        PROVE  Flow(net'[<< s, d >>], k, c, Passed(d, k, c)', Passed(s, k, c)')
    <3>1. /\ TakesPart(s, k) /\ TakesPart(d, k) /\ s # d /\ s = Source(s, k) /\ d # Source(d, k)
      BY <1>1, <2>3, FeedsPart
    <3>2. CASE k = h /\ c = ch
      <4>1. s # r
        BY <3>1, <3>2
      <4>2. Passed(s, k, c)' = Passed(s, k, c)
        BY <1>11, <3>1, <4>1
      <4>3. CASE d = r
        <5>1. s = src
          BY <2>3, <3>2, <4>3 DEF Feeds
        <5>2. Passed(d, k, c)' = Passed(d, k, c) + 1
          BY <1>11, <3>1, <3>2, <4>3
        <5> HIDE DEF h, ch
        <5>3. Passed(d, k, c)' = lo + 1 /\ Passed(s, k, c)' = Passed(src, h, ch)
          BY <3>2, <4>2, <4>3, <5>1, <5>2
        <5> HIDE DEF lo, q
        <5> QED BY <1>7, <1>10, <3>2, <4>3, <5>1, <5>3
      <4>4. CASE d # r
        <5>1. Passed(d, k, c)' = Passed(d, k, c)
          BY <1>11, <3>1, <4>4
        <5>2. net'[<< s, d >>] = net[<< s, d >>]
          BY <1>10, <4>4
        <5> QED BY <2>1, <2>3, <4>2, <5>1, <5>2
      <4> QED BY <4>3, <4>4
    <3>3. CASE ~ (k = h /\ c = ch)
      <4>1. Passed(d, k, c)' = Passed(d, k, c) /\ Passed(s, k, c)' = Passed(s, k, c)
        BY <1>11, <3>1, <3>3
      <4>2. CASE << s, d >> = << src, r >>
        <5>1. s = src /\ d = r /\ net[<< s, d >>] = q
          BY <4>2
        <5>2. q[i].tag # << k, c >>
          <6> HIDE DEF q, h, ch
          <6> QED BY <1>7, <3>3
        <5>3. Flow(Without(q, i), k, c, Passed(d, k, c), Passed(s, k, c))
          <6> HIDE DEF q
          <6> QED BY <1>5, <1>7, <2>1, <2>2, <2>3, <5>1, <5>2, FlowOtherTaken
        <5> QED BY <1>10, <4>1, <5>1, <5>3
      <4>3. CASE << s, d >> # << src, r >>
        BY <1>10, <2>1, <2>3, <4>1, <4>3
      <4> QED BY <4>2, <4>3
    <3> QED BY <3>2, <3>3
  <2>4. ASSUME ~ Feeds(s, d, k) PROVE Tagged(net'[<< s, d >>], << k, c >>) = {}
    <3>1. CASE << s, d >> = << src, r >>
      <4>1. Tagged(q, << k, c >>) = {} /\ net'[<< s, d >>] = Without(q, i)
        BY <1>10, <2>1, <2>4, <3>1
      <4> HIDE DEF q
      <4> QED BY <1>5, <1>7, <4>1, NoneTaken
    <3>2. CASE << s, d >> # << src, r >>
      BY <1>10, <2>1, <2>4, <3>2
    <3> QED BY <3>1, <3>2
  <2> QED BY <2>3, <2>4
<1>13. OnTheWay'
  <2>1. World' = World /\ \A s, d, k : Feeds(s, d, k)' = Feeds(s, d, k)
    BY <1>1, SamePlaces
  <2> QED BY <1>12, <2>1 DEF OnTheWay
<1> QED BY <1>1, <1>10, <1>11, <1>13 DEF CommInv

(* A hop of a scatter. *)
LEMMA ScatterHopKeeps ==
  ASSUME CommInv, NEW r \in World, ScatterHop(r)
  PROVE  CommInv'
<1> DEFINE h == at[r].hop
           src == Source(r, h)
           m == Matching(src, r, ScatterTag(h, at[r].ch))
<1>1. h \in 1 .. 3 /\ TakesPart(r, h) /\ CommTypes /\ src \in World
  <2>1. h \in 1 .. 3 /\ TakesPart(r, h) /\ CommTypes
    BY DEF CommInv, CommTypes, ScatterHop
  <2> QED BY <2>1, Together DEF CommTypes
<1>2. CASE r = src /\ net' = SendAll(net, r, Group(r, h) \ {r},
                                     [tag |-> ScatterTag(h, at[r].ch), data |-> at[r].data])
           /\ at' = [at EXCEPT ![r].hop = NextHop(r, h + 1)]
  BY <1>2, HopSendKeeps
<1>3. CASE r # src /\ m # {}
           /\ at' = [at EXCEPT ![r].hop = NextHop(r, h + 1), ![r].data = net[<< src, r >>][Min(m)].data]
           /\ net' = [net EXCEPT ![<< src, r >>] = Without(@, Min(m))]
  <2>1. PICK u \in World : u = src
    BY <1>1
  <2>2. PICK i : i = Min(m)
    OBVIOUS
  <2> QED BY <1>3, <2>1, <2>2, HopReceiveKeeps
<1> QED BY <1>2, <1>3 DEF ScatterHop, Source

-----------------------------------------------------------------------------
(* The minimum. *)

(* The minimum of some bits. *)
LEMMA MinOfBits ==
  ASSUME NEW S, S \subseteq {0, 1}, S # {}
  PROVE  Min(S) \in {0, 1} /\ (Min(S) = 0 <=> 0 \in S)
<1>1. CASE 0 \in S
  <2>1. S \subseteq Int /\ \A y \in S : 0 <= y
    OBVIOUS
  <2>2. Min(S) = 0
    BY <1>1, <2>1, MinIs
  <2> QED BY <1>1, <2>2
<1>2. CASE 0 \notin S
  <2>1. S = {1}
    BY <1>2
  <2>2. S \subseteq Int /\ 1 \in S /\ \A y \in S : 1 <= y
    BY <2>1
  <2>3. Min(S) = 1
    BY <2>2, MinIs
  <2> QED BY <1>2, <2>3
<1> QED BY <1>1, <1>2

(* What some ranks put in has a minimum, 0 if one of them put in 0. *)
LEMMA LowIs ==
  ASSUME CommTypes, NEW S \in SUBSET World, S # {}
  PROVE  Low(S) \in {0, 1} /\ (Low(S) = 0 <=> \E q \in S : input[q] = 0)
<1> DEFINE I == { input[q] : q \in S }
<1>1. I \subseteq {0, 1} /\ I # {} /\ (0 \in I <=> \E q \in S : input[q] = 0)
  BY DEF CommTypes
<1> HIDE DEF I
<1>2. Min(I) \in {0, 1} /\ (Min(I) = 0 <=> 0 \in I)
  BY <1>1, MinOfBits
<1> QED BY <1>1, <1>2 DEF Low, I

(* A context group meets every tensor group of its stage. *)
LEMMA CpGroupOf ==
  ASSUME topo \in Topologies, NEW r \in World
  PROVE  /\ r \in CpGroup(r) /\ CpGroup(r) \subseteq StageMembers(r)
         /\ StageMembers(r) = UNION { TpGroup(p) : p \in CpGroup(r) }
<1> DEFINE t == attn_tp_size
           o == StageOffset(r)
           w == cp_rank(r) * t
<1>1. /\ o \in Nat /\ w \in Nat /\ o + w <= r /\ r < o + w + t /\ cp_rank(r) \in 0 .. attn_cp_size - 1
      /\ o = pp_rank(r) * stride /\ pp_rank(r) \in 0 .. pp_size - 1
  BY PlaceOf
<1>2. t \in Nat \ {0} /\ r \in Int /\ attn_cp_size \in Nat
  BY Sizes DEF World
<1>3. CpGroup(r) \subseteq StageMembers(r)
  BY DEF CpGroup
<1>4. (r - r) % t = 0
  BY <1>2
<1>5. r \in CpGroup(r)
  BY <1>4, StageOf DEF CpGroup
<1>6. ASSUME NEW p \in CpGroup(r) PROVE TpGroup(p) \subseteq StageMembers(r)
  <2>1. p \in World /\ StageMembers(p) = StageMembers(r)
    BY <1>3, StageOf
  <2> QED BY <2>1, TpGroupOf
<1>7. ASSUME NEW q \in StageMembers(r) PROVE \E p \in CpGroup(r) : q \in TpGroup(p)
  <2> DEFINE c == cp_rank(q)
             p == o + c * t + (r - (o + w))
  <2>1. q \in World /\ StageOffset(q) = o /\ pp_rank(q) = pp_rank(r)
    BY StageOf
  <2>2. /\ c \in 0 .. attn_cp_size - 1 /\ c * t \in Nat /\ o + c * t <= q /\ q < o + c * t + t
        /\ c * t + t <= stride
    BY <2>1, PlaceOf
  <2>3. p \in Int /\ o + c * t <= p /\ p < o + c * t + t /\ p - r = c * t - w
    <3> HIDE DEF t, o, w, c
    <3> QED BY <1>1, <1>2, <2>2
  <2>4. c \in Int /\ cp_rank(r) \in Int
    BY <1>1, <1>2, <2>2
  <2>5. p - r = (c - cp_rank(r)) * t
    <3>1. \A a, b, s \in Int : a * s - b * s = (a - b) * s
      OBVIOUS
    <3>2. c * t - w = (c - cp_rank(r)) * t
      BY <1>2, <2>4, <3>1
    <3> QED BY <2>3, <3>2
  <2>6. (p - r) % t = 0
    <3> DEFINE k == c - cp_rank(r)
               x == p - r
    <3>1. k \in Int /\ x = k * t /\ x \in Int /\ k * t \in Int
      BY <1>2, <2>3, <2>4, <2>5
    <3> HIDE DEF k, x, t, p
    <3>2. k * t <= x /\ x < k * t + t
      BY <1>2, <3>1
    <3>3. x % t = x - k * t
      BY <1>2, <3>1, <3>2, OneQuotient
    <3>4. x % t = 0
      BY <3>1, <3>3
    <3> QED BY <3>4 DEF x
  <2>7. p \in World /\ cp_rank(p) = c /\ StageOffset(p) = o
    BY <1>1, <2>2, <2>3, InPlace
  <2>8. p \in StageMembers(r)
    <3>1. stride \in Nat
      BY Sizes
    <3>2. p \in o .. o + stride - 1
      <4> HIDE DEF p, t, c, o
      <4> QED BY <1>1, <1>2, <2>2, <2>3, <3>1
    <3> QED BY <3>2 DEF StageMembers
  <2>9. q \in TpGroup(p)
    <3>1. TpGroup(p) = o + c * t .. o + c * t + t - 1
      BY <2>7 DEF TpGroup
    <3>2. q \in Int
      BY <2>1 DEF World
    <3> DEFINE x == c * t
    <3>3. x \in Nat /\ o + x <= q /\ q < o + x + t /\ o \in Nat
      BY <1>1, <2>2
    <3>4. TpGroup(p) = o + x .. o + x + t - 1
      BY <3>1
    <3> HIDE DEF t, c, p, o, x
    <3>5. q \in o + x .. o + x + t - 1
      BY <1>2, <3>2, <3>3
    <3> QED BY <3>4, <3>5
  <2> QED BY <2>6, <2>8, <2>9 DEF CpGroup
<1>8. StageMembers(r) = UNION { TpGroup(p) : p \in CpGroup(r) }
  BY <1>6, <1>7
<1> QED BY <1>3, <1>5, <1>8

(* With one stage, everybody is in it. *)
LEMMA OneStage ==
  ASSUME topo \in Topologies, pp_size = 1, NEW r \in World
  PROVE  StageMembers(r) = World
<1>1. stride \in Nat
  BY Sizes
<1>2. StageLeaders = { s * stride : s \in 0 .. 0 }
  BY DEF StageLeaders
<1>3. StageLeaders = {0}
  BY <1>1, <1>2
<1>4. World = StageMembers(0)
  BY <1>3, Stages
<1> QED BY <1>4, Stages, StageOf

-----------------------------------------------------------------------------
(* The reduction. *)

(* Ranks go to another stage of the reduction. *)
LEMMA StageMoves ==
  ASSUME CommInv, NEW g \in SUBSET World, NEW stage \in CommOps, stage # "scatter",
         \A q \in g : at[q].op # "scatter",
         at' = [q \in World |-> IF q \in g THEN [at[q] EXCEPT !.op = stage] ELSE at[q]],
         UNCHANGED << topo, entered, input >>,
         net' \in [World \X World -> Seq(CommMessages)],
         value' \in [World -> {0, 1}], heard' \subseteq StageLeaders \ {0}
  PROVE  /\ CommTypes' /\ Informed'
         /\ \A q \in World, h \in 1 .. 3, c \in Channels : Passed(q, h, c)' = Passed(q, h, c)
         /\ \A q \in World : (q \in g => at'[q].op = stage) /\ (q \notin g => at'[q] = at[q])
<1> DEFINE A == [op : CommOps, ch : Channels \union {"none"}, hop : 0 .. 4, data : Payloads]
<1>1. CommTypes /\ \A q \in World : at[q] \in A
  BY DEF CommInv, CommTypes
<1>2. ASSUME NEW q \in World
      PROVE  [at[q] EXCEPT !.op = stage] \in A /\ [at[q] EXCEPT !.op = stage].op = stage
  <2>1. at[q] \in A
    BY <1>1
  <2> QED BY <2>1
<1> HIDE DEF A
<1>3. /\ at' \in [World -> A]
      /\ \A q \in World : (q \in g => at'[q].op = stage) /\ (q \notin g => at'[q] = at[q])
  BY <1>1, <1>2
<1>4. /\ World' = World /\ StageLeaders' = StageLeaders
      /\ \A q, h : TakesPart(q, h)' = TakesPart(q, h) /\ Receives(q, h)' = Receives(q, h)
  BY SamePlaces
<1>5. \A q \in World : at'[q].op = "scatter" => at'[q] = at[q] /\ at[q].op = "scatter"
  BY <1>3
<1>6. CommTypes'
  BY <1>1, <1>3, <1>4, <1>5 DEF CommTypes, A
<1>7. Informed'
  BY <1>4, <1>5 DEF CommInv, Informed
<1>8. ASSUME NEW q \in World, NEW h \in 1 .. 3, NEW c \in Channels
      PROVE  Passed(q, h, c)' = Passed(q, h, c)
  BY <1>3, <1>5 DEF Passed
<1> QED BY <1>3, <1>6, <1>7, <1>8

(* Messages of the reduction do not disturb the payloads on the way. *)
LEMMA WayStays ==
  ASSUME CommInv, UNCHANGED topo,
         \A q \in World, h \in 1 .. 3, c \in Channels : Passed(q, h, c)' = Passed(q, h, c),
         \A s, d \in World :
           \/ net'[<< s, d >>] = net[<< s, d >>]
           \/ \E x \in CommMessages : /\ x.tag \in {ReduceTag, BcastTag}
                                      /\ net'[<< s, d >>] = Append(net[<< s, d >>], x)
           \/ \E i \in 1 .. Len(net[<< s, d >>]) :
                /\ net[<< s, d >>][i].tag \in {ReduceTag, BcastTag}
                /\ net'[<< s, d >>] = Without(net[<< s, d >>], i)
  PROVE  OnTheWay'
<1>1. World' = World /\ \A s, d, h : Feeds(s, d, h)' = Feeds(s, d, h)
  BY SamePlaces
<1> SUFFICES ASSUME NEW s \in World, NEW d \in World, NEW h \in 1 .. 3, NEW c \in Channels
             PROVE  /\ Feeds(s, d, h) =>
                         Flow(net'[<< s, d >>], h, c, Passed(d, h, c)', Passed(s, h, c)')
                    /\ ~ Feeds(s, d, h) => Tagged(net'[<< s, d >>], << h, c >>) = {}
  BY <1>1 DEF OnTheWay
<1> DEFINE q == net[<< s, d >>]
<1>2. /\ q \in Seq(CommMessages) /\ Passed(d, h, c) \in Int /\ Passed(s, h, c) \in Int
  BY PassedInt DEF CommInv, CommTypes
<1>3. /\ Feeds(s, d, h) => Flow(q, h, c, Passed(d, h, c), Passed(s, h, c))
      /\ ~ Feeds(s, d, h) => Tagged(q, << h, c >>) = {}
  BY DEF CommInv, OnTheWay
<1>4. << h, c >> \notin {ReduceTag, BcastTag}
  BY TagsApart
<1>5. \/ net'[<< s, d >>] = q
      \/ \E x \in CommMessages : x.tag \in {ReduceTag, BcastTag} /\ net'[<< s, d >>] = Append(q, x)
      \/ \E i \in 1 .. Len(q) : q[i].tag \in {ReduceTag, BcastTag} /\ net'[<< s, d >>] = Without(q, i)
  OBVIOUS
<1> HIDE DEF q
<1>6. ASSUME NEW x \in CommMessages, x.tag \in {ReduceTag, BcastTag}
      PROVE  /\ Feeds(s, d, h) => Flow(Append(q, x), h, c, Passed(d, h, c), Passed(s, h, c))
             /\ ~ Feeds(s, d, h) => Tagged(Append(q, x), << h, c >>) = {}
  <2>1. x.tag # << h, c >>
    BY <1>4, <1>6
  <2>2. Feeds(s, d, h) => Flow(Append(q, x), h, c, Passed(d, h, c), Passed(s, h, c))
    BY <1>2, <1>3, <2>1, FlowPastOther
  <2>3. Tagged(Append(q, x), << h, c >>) = Tagged(q, << h, c >>)
    BY <1>2, <2>1, TaggedAppend
  <2> QED BY <1>3, <2>2, <2>3
<1>7. ASSUME NEW i \in 1 .. Len(q), q[i].tag \in {ReduceTag, BcastTag}
      PROVE  /\ Feeds(s, d, h) => Flow(Without(q, i), h, c, Passed(d, h, c), Passed(s, h, c))
             /\ ~ Feeds(s, d, h) => Tagged(Without(q, i), << h, c >>) = {}
  <2>1. q[i].tag # << h, c >>
    BY <1>4, <1>7
  <2>2. Feeds(s, d, h) => Flow(Without(q, i), h, c, Passed(d, h, c), Passed(s, h, c))
    BY <1>2, <1>3, <2>1, FlowOtherTaken
  <2> QED BY <1>2, <1>3, <2>2, NoneTaken
<1>8. Passed(d, h, c)' = Passed(d, h, c) /\ Passed(s, h, c)' = Passed(s, h, c)
  OBVIOUS
<1> QED BY <1>3, <1>5, <1>6, <1>7, <1>8

(* The oldest message with a tag is one of the queue. *)
LEMMA Oldest ==
  ASSUME CommTypes, NEW s \in World, NEW d \in World, NEW tag, Matching(s, d, tag) # {}
  PROVE  \E i \in 1 .. Len(net[<< s, d >>]) :
           i = Min(Matching(s, d, tag)) /\ net[<< s, d >>][i].tag = tag
<1> DEFINE M == Matching(s, d, tag)
<1>1. M \subseteq Nat
  BY DEF Matching, CommTypes
<1> HIDE DEF M
<1>2. Min(M) \in M
  BY <1>1, MinOfNats DEF M
<1> QED BY <1>2 DEF M, Matching

(* One rank goes on in the reduction, and has its part there. *)
LEMMA OneMoves ==
  ASSUME CommInv, NEW r \in World, NEW stage \in CommOps, stage # "scatter",
         at[r].op # "scatter", Go(r, stage), UNCHANGED << topo, entered, input, heard, mixed >>,
         net' \in [World \X World -> Seq(CommMessages)], NetSays',
         \A s, d \in World :
           \/ net'[<< s, d >>] = net[<< s, d >>]
           \/ \E x \in CommMessages : /\ x.tag \in {ReduceTag, BcastTag}
                                      /\ net'[<< s, d >>] = Append(net[<< s, d >>], x)
           \/ \E i \in 1 .. Len(net[<< s, d >>]) :
                /\ net[<< s, d >>][i].tag \in {ReduceTag, BcastTag}
                /\ net'[<< s, d >>] = Without(net[<< s, d >>], i),
         value' \in [World -> {0, 1}], \A q \in World \ {r} : value'[q] = value[q],
         at'[r].op = stage => PartOf(r)',
         stage = "tp" => at[r].op = "idle",
         stage \in {"tp", "bcast", "done", "answer"},
         stage = "answer" => r # 0
  PROVE  CommInv'
<1>1. CommTypes /\ heard' \subseteq StageLeaders \ {0}
  BY DEF CommInv, CommTypes
<1>2. {r} \in SUBSET World /\ \A q \in {r} : at[q].op # "scatter"
  OBVIOUS
<1>3. at' = [q \in World |-> IF q \in {r} THEN [at[q] EXCEPT !.op = stage] ELSE at[q]]
  BY <1>1 DEF Go, CommTypes
<1>4. /\ CommTypes' /\ Informed'
      /\ \A q \in World, h \in 1 .. 3, c \in Channels : Passed(q, h, c)' = Passed(q, h, c)
      /\ \A q \in World : (q \in {r} => at'[q].op = stage) /\ (q \notin {r} => at'[q] = at[q])
  BY <1>1, <1>2, <1>3, StageMoves
<1>5. OnTheWay'
  BY <1>4, WayStays
<1>6. World' = World
  BY SamePlaces
<1>7. Parts'
  <2> SUFFICES ASSUME NEW q \in World PROVE PartOf(q)'
    BY <1>6 DEF Parts
  <2>1. CASE q = r
    BY <1>4, <2>1
  <2>2. CASE q # r
    <3>1. at'[q].op = at[q].op /\ value'[q] = value[q] /\ PartOf(q)
      BY <1>4, <2>2 DEF CommInv, Parts
    <3> QED BY <3>1, PartStays
  <2> QED BY <2>1, <2>2
<1>8. HeardLate'
  <2>1. 0 \in World
    BY <1>1, Stages DEF CommTypes
  <2>2. heard # {} => at[0].op \in {"pp", "bcast", "done"}
    BY DEF CommInv, HeardLate
  <2> QED BY <1>4, <2>1, <2>2 DEF HeardLate
<1> QED BY <1>4, <1>5, <1>7, <1>8 DEF CommInv

(* A rank enters the reduction with what it puts in. *)
LEMMA EnterReduceKeeps ==
  ASSUME CommInv, NEW r \in World, EnterReduce(r)
  PROVE  CommInv'
<1>1. /\ CommTypes /\ UNCHANGED << topo, entered, net, value, input, heard, mixed >>
      /\ at[r].op = "idle" /\ Go(r, "tp")
  BY DEF CommInv, EnterReduce, Home
<1>2. at'[r].op = "tp" => PartOf(r)'
  <2>1. PartOf(r) /\ value'[r] = value[r]
    BY <1>1 DEF CommInv, Parts
  <2> QED BY <1>1, <2>1, PartStays
<1>3. NetSays'
  BY <1>1, NetStays DEF CommInv
<1>4. /\ net' \in [World \X World -> Seq(CommMessages)] /\ value' \in [World -> {0, 1}]
      /\ \A q \in World \ {r} : value'[q] = value[q]
      /\ \A s, d \in World : net'[<< s, d >>] = net[<< s, d >>]
  BY <1>1 DEF CommTypes
<1>5. "tp" \in CommOps
  BY DEF CommOps
<1> QED BY <1>1, <1>2, <1>3, <1>4, <1>5, OneMoves

(* The tensor group leaves with its minimum. *)
LEMMA TpKeeps ==
  ASSUME CommInv, NEW r \in World, Collective(r, TpGroup(r), "tp", "cp")
  PROVE  CommInv'
<1> DEFINE g == TpGroup(r)
           v == Min({ value[p] : p \in g })
<1>1. /\ CommTypes /\ UNCHANGED << topo, entered, net, input, heard, mixed >>
      /\ \A q \in g : at[q].op = "tp"
      /\ value' = [q \in World |-> IF q \in g THEN v ELSE value[q]]
      /\ at' = [q \in World |-> IF q \in g THEN [at[q] EXCEPT !.op = "cp"] ELSE at[q]]
  BY DEF CommInv, Collective, At
<1>2. g \in SUBSET World /\ r \in g /\ \A q \in g : TpGroup(q) = g
  BY <1>1, TpGroupOf DEF CommTypes
<1>3. v = Low(g)
  <2>1. \A p \in g : value[p] = input[p]
    BY <1>1, <1>2 DEF CommInv, Parts, PartOf
  <2> HIDE DEF g
  <2>2. { value[p] : p \in g } = { input[p] : p \in g }
    BY <2>1
  <2> QED BY <2>2 DEF Low
<1> HIDE DEF v
<1>4. Low(g) \in {0, 1}
  BY <1>1, <1>2, LowIs
<1>5. /\ value' \in [World -> {0, 1}]
      /\ \A q \in World : (q \in g => value'[q] = Low(g)) /\ (q \notin g => value'[q] = value[q])
  <2> HIDE DEF g
  <2> QED BY <1>1, <1>3, <1>4 DEF CommTypes
<1>6. /\ CommTypes' /\ Informed'
      /\ \A q \in World, h \in 1 .. 3, c \in Channels : Passed(q, h, c)' = Passed(q, h, c)
      /\ \A q \in World : (q \in g => at'[q].op = "cp") /\ (q \notin g => at'[q] = at[q])
  <2>1. PICK G \in SUBSET World : G = g
    BY <1>2
  <2>2. "cp" \in CommOps /\ \A q \in G : at[q].op # "scatter"
    BY <1>1, <2>1 DEF CommOps
  <2>3. /\ net' \in [World \X World -> Seq(CommMessages)] /\ heard' \subseteq StageLeaders \ {0}
        /\ UNCHANGED << topo, entered, input >>
    BY <1>1 DEF CommTypes
  <2>4. at' = [q \in World |-> IF q \in G THEN [at[q] EXCEPT !.op = "cp"] ELSE at[q]]
    BY <1>1, <2>1
  <2>5. /\ CommTypes' /\ Informed'
        /\ \A q \in World, h \in 1 .. 3, c \in Channels : Passed(q, h, c)' = Passed(q, h, c)
        /\ \A q \in World : (q \in G => at'[q].op = "cp") /\ (q \notin G => at'[q] = at[q])
    BY <1>5, <2>2, <2>3, <2>4, StageMoves
  <2> QED BY <2>1, <2>5
<1>7. OnTheWay' /\ NetSays'
  <2>1. \A s, d \in World : net'[<< s, d >>] = net[<< s, d >>]
    BY <1>1
  <2> QED BY <1>1, <1>6, <2>1, WayStays, NetStays DEF CommInv
<1>8. World' = World /\ \A q : Low(TpGroup(q))' = Low(TpGroup(q))
  BY <1>1, SameLows
<1>9. Parts'
  <2> SUFFICES ASSUME NEW q \in World PROVE PartOf(q)'
    BY <1>8 DEF Parts
  <2>1. CASE q \in g
    <3>1. at'[q].op = "cp" /\ value'[q] = Low(TpGroup(q))'
      BY <1>2, <1>5, <1>6, <1>8, <2>1
    <3> QED BY <3>1 DEF PartOf
  <2>2. CASE q \notin g
    <3>1. at'[q].op = at[q].op /\ value'[q] = value[q] /\ PartOf(q)
      BY <1>5, <1>6, <2>2 DEF CommInv, Parts
    <3> QED BY <1>1, <3>1, PartStays
  <2> QED BY <2>1, <2>2
<1>10. HeardLate'
  <2>1. 0 \in World
    BY <1>1, Stages DEF CommTypes
  <2>2. heard # {} => at[0].op \in {"pp", "bcast", "done"}
    BY DEF CommInv, HeardLate
  <2> QED BY <1>1, <1>6, <2>1, <2>2 DEF HeardLate
<1> QED BY <1>1, <1>6, <1>7, <1>9, <1>10 DEF CommInv

(* The context group leaves with the minimum of its stage. *)
LEMMA CpKeeps ==
  ASSUME CommInv, NEW r \in World, Collective(r, CpGroup(r), "cp", "pp")
  PROVE  CommInv'
<1> DEFINE g == CpGroup(r)
           V == { value[p] : p \in g }
           v == Min(V)
           S == StageMembers(r)
<1>1. /\ CommTypes /\ UNCHANGED << topo, entered, net, input, heard, mixed >>
      /\ \A q \in g : at[q].op = "cp"
      /\ value' = [q \in World |-> IF q \in g THEN v ELSE value[q]]
      /\ at' = [q \in World |-> IF q \in g THEN [at[q] EXCEPT !.op = "pp"] ELSE at[q]]
  BY DEF CommInv, Collective, At
<1>2. /\ g \in SUBSET World /\ r \in g /\ \A q \in g : StageMembers(q) = S
      /\ S \in SUBSET World /\ r \in S /\ S = UNION { TpGroup(p) : p \in g }
  BY <1>1, CpGroupOf, StageOf DEF CommTypes
<1>3. v = Low(S)
  <2>1. \A p \in g : value[p] = Low(TpGroup(p)) /\ value[p] \in {0, 1}
    BY <1>1, <1>2 DEF CommInv, Parts, PartOf, CommTypes
  <2>2. ASSUME NEW p \in g
        PROVE  Low(TpGroup(p)) = 0 <=> \E q \in TpGroup(p) : input[q] = 0
    <3>1. p \in World
      BY <1>2
    <3>2. TpGroup(p) \in SUBSET World /\ TpGroup(p) # {}
      BY <1>1, <3>1, TpGroupOf DEF CommTypes
    <3> QED BY <1>1, <3>2, LowIs
  <2>3. Low(S) \in {0, 1} /\ (Low(S) = 0 <=> \E q \in S : input[q] = 0)
    BY <1>1, <1>2, LowIs
  <2> HIDE DEF g, S
  <2>4. V \subseteq {0, 1} /\ V # {} /\ (0 \in V <=> \E p \in g : value[p] = 0)
    BY <1>2, <2>1
  <2>5. (\E p \in g : value[p] = 0) <=> \E q \in S : input[q] = 0
    BY <1>2, <2>1, <2>2
  <2> HIDE DEF V
  <2>6. v \in {0, 1} /\ (v = 0 <=> 0 \in V)
    BY <2>4, MinOfBits
  <2> HIDE DEF v
  <2> QED BY <2>3, <2>4, <2>5, <2>6
<1> HIDE DEF v
<1>4. Low(S) \in {0, 1}
  BY <1>1, <1>2, LowIs
<1>5. /\ value' \in [World -> {0, 1}]
      /\ \A q \in World : (q \in g => value'[q] = Low(S)) /\ (q \notin g => value'[q] = value[q])
  <2> HIDE DEF g, S
  <2> QED BY <1>1, <1>3, <1>4 DEF CommTypes
<1>6. /\ CommTypes' /\ Informed'
      /\ \A q \in World, h \in 1 .. 3, c \in Channels : Passed(q, h, c)' = Passed(q, h, c)
      /\ \A q \in World : (q \in g => at'[q].op = "pp") /\ (q \notin g => at'[q] = at[q])
  <2>1. PICK G \in SUBSET World : G = g
    BY <1>2
  <2>2. "pp" \in CommOps /\ \A q \in G : at[q].op # "scatter"
    BY <1>1, <2>1 DEF CommOps
  <2>3. /\ net' \in [World \X World -> Seq(CommMessages)] /\ heard' \subseteq StageLeaders \ {0}
        /\ UNCHANGED << topo, entered, input >>
    BY <1>1 DEF CommTypes
  <2>4. at' = [q \in World |-> IF q \in G THEN [at[q] EXCEPT !.op = "pp"] ELSE at[q]]
    BY <1>1, <2>1
  <2>5. /\ CommTypes' /\ Informed'
        /\ \A q \in World, h \in 1 .. 3, c \in Channels : Passed(q, h, c)' = Passed(q, h, c)
        /\ \A q \in World : (q \in G => at'[q].op = "pp") /\ (q \notin G => at'[q] = at[q])
    BY <1>5, <2>2, <2>3, <2>4, StageMoves
  <2> QED BY <2>1, <2>5
<1>7. OnTheWay' /\ NetSays'
  <2>1. \A s, d \in World : net'[<< s, d >>] = net[<< s, d >>]
    BY <1>1
  <2> QED BY <1>1, <1>6, <2>1, WayStays, NetStays DEF CommInv
<1>8. World' = World /\ \A q : Low(StageMembers(q))' = Low(StageMembers(q))
  BY <1>1, SameLows
<1>9. 0 \in World /\ (heard # {} => at[0].op \in {"pp", "bcast", "done"})
  BY <1>1, Stages DEF CommInv, HeardLate, CommTypes
<1>10. Parts'
  <2> SUFFICES ASSUME NEW q \in World PROVE PartOf(q)'
    BY <1>8 DEF Parts
  <2>1. CASE q \in g
    <3>1. at'[q].op = "pp" /\ value'[q] = Low(StageMembers(q))'
      BY <1>2, <1>5, <1>6, <1>8, <2>1
    <3>2. q = 0 => heard' = {}
      BY <1>1, <1>9, <2>1
    <3>3. q = 0 => (UNION { StageMembers(s) : s \in heard \union {0} })' = StageMembers(q)'
      BY <3>2
    <3>4. q = 0 => Low(UNION { StageMembers(s) : s \in heard \union {0} })' = Low(StageMembers(q))'
      BY <3>3 DEF Low
    <3> QED BY <3>1, <3>4 DEF PartOf
  <2>2. CASE q \notin g
    <3>1. at'[q].op = at[q].op /\ value'[q] = value[q] /\ PartOf(q)
      BY <1>5, <1>6, <2>2 DEF CommInv, Parts
    <3> QED BY <1>1, <3>1, PartStays
  <2> QED BY <2>1, <2>2
<1>11. HeardLate'
  BY <1>1, <1>6, <1>9 DEF HeardLate
<1> QED BY <1>1, <1>6, <1>7, <1>10, <1>11 DEF CommInv

(* A message of the reduction is sent. *)
LEMMA ReduceSends ==
  ASSUME CommInv, UNCHANGED << topo, input >>, NEW r \in World, NEW ds \in SUBSET World,
         NEW tag \in {ReduceTag, BcastTag}, NEW v \in {0, 1},
         net' = SendAll(net, r, ds, [tag |-> tag, data |-> v]),
         \A d \in ds : Says(r, d, [tag |-> tag, data |-> v])
  PROVE  /\ net' \in [World \X World -> Seq(CommMessages)] /\ NetSays'
         /\ \A s, d \in World :
              \/ net'[<< s, d >>] = net[<< s, d >>]
              \/ \E x \in CommMessages : /\ x.tag \in {ReduceTag, BcastTag}
                                         /\ net'[<< s, d >>] = Append(net[<< s, d >>], x)
<1> DEFINE m == [tag |-> tag, data |-> v]
<1>1. m \in CommMessages /\ m.tag \in {ReduceTag, BcastTag}
  BY DEF CommMessages, Tags
<1> HIDE DEF m
<1>2. /\ net' \in [World \X World -> Seq(CommMessages)] /\ NetSays'
      /\ \A d \in ds : net'[<< r, d >>] = Append(net[<< r, d >>], m)
      /\ \A s, d \in World : s # r \/ d \notin ds => net'[<< s, d >>] = net[<< s, d >>]
  <2>1. net' = SendAll(net, r, ds, m) /\ \A d \in ds : Says(r, d, m)
    BY DEF m
  <2> QED BY <1>1, <2>1, Sending DEF CommInv
<1> QED BY <1>1, <1>2

(* A message of the reduction is received. *)
LEMMA ReduceTakes ==
  ASSUME CommInv, UNCHANGED << topo, input >>, NEW r \in World, NEW src \in World,
         NEW i \in 1 .. Len(net[<< src, r >>]),
         net[<< src, r >>][i].tag \in {ReduceTag, BcastTag},
         net' = [net EXCEPT ![<< src, r >>] = Without(@, i)]
  PROVE  /\ net' \in [World \X World -> Seq(CommMessages)] /\ NetSays'
         /\ \A s, d \in World :
              \/ net'[<< s, d >>] = net[<< s, d >>]
              \/ \E j \in 1 .. Len(net[<< s, d >>]) :
                   /\ net[<< s, d >>][j].tag \in {ReduceTag, BcastTag}
                   /\ net'[<< s, d >>] = Without(net[<< s, d >>], j)
<1>1. /\ net' \in [World \X World -> Seq(CommMessages)] /\ NetSays'
      /\ net'[<< src, r >>] = Without(net[<< src, r >>], i)
      /\ \A s, d \in World : << s, d >> # << src, r >> => net'[<< s, d >>] = net[<< s, d >>]
  BY Taking DEF CommInv
<1> QED BY <1>1

(* A rank takes the overall minimum from a message, and goes on with it. *)
LEMMA TakeFromKeeps ==
  ASSUME CommInv, NEW r \in World, NEW src \in World, NEW tag \in {ReduceTag, BcastTag},
         NEW next \in {"bcast", "done"}, at[r].op # "scatter",
         tag = ReduceTag => r # 0, next = "bcast" => IsStageLeader(r),
         TakeFrom(r, src, tag, next), UNCHANGED << topo, entered, input, heard, mixed >>
  PROVE  CommInv'
<1>1. CommTypes /\ Matching(src, r, tag) # {} /\ Go(r, next)
  BY DEF CommInv, TakeFrom
<1>2. PICK i \in 1 .. Len(net[<< src, r >>]) :
        i = Min(Matching(src, r, tag)) /\ net[<< src, r >>][i].tag = tag
  BY <1>1, Oldest
<1>3. /\ value' = [value EXCEPT ![r] = net[<< src, r >>][i].data]
      /\ net' = [net EXCEPT ![<< src, r >>] = Without(@, i)]
  BY <1>2 DEF TakeFrom
<1>4. Says(src, r, net[<< src, r >>][i])
  BY DEF CommInv, NetSays
<1>5. net[<< src, r >>][i].data = Low(World)
  BY <1>2, <1>4 DEF Says
<1>6. Low(World) \in {0, 1}
  <2>1. World \in SUBSET World /\ World # {}
    OBVIOUS
  <2> QED BY <1>1, <2>1, LowIs
<1>7. /\ value' \in [World -> {0, 1}] /\ value'[r] = Low(World)
      /\ \A q \in World \ {r} : value'[q] = value[q]
  BY <1>1, <1>3, <1>5, <1>6 DEF CommTypes
<1>8. /\ net' \in [World \X World -> Seq(CommMessages)] /\ NetSays'
      /\ \A s, d \in World :
           \/ net'[<< s, d >>] = net[<< s, d >>]
           \/ \E j \in 1 .. Len(net[<< s, d >>]) :
                /\ net[<< s, d >>][j].tag \in {ReduceTag, BcastTag}
                /\ net'[<< s, d >>] = Without(net[<< s, d >>], j)
  BY <1>2, <1>3, ReduceTakes
<1>9. at'[r].op = next => PartOf(r)'
  <2>1. Low(World)' = Low(World) /\ IsStageLeader(r)' = IsStageLeader(r)
    BY SameLows, SamePlaces
  <2> QED BY <1>7, <2>1 DEF PartOf
<1>10. next \in CommOps
  BY DEF CommOps
<1> QED BY <1>1, <1>7, <1>8, <1>9, <1>10, OneMoves

(* A leader has its answer. *)
LEMMA PpAnswerKeeps ==
  ASSUME CommInv, NEW r \in World, PpAnswer(r)
  PROVE  CommInv'
<1>1. /\ at[r].op = "answer" /\ TakeFrom(r, 0, ReduceTag, "bcast")
      /\ UNCHANGED << topo, entered, input, heard, mixed >>
  BY DEF PpAnswer, At
<1>2. IsStageLeader(r) /\ r # 0 /\ 0 \in World
  BY <1>1, Stages DEF CommInv, CommTypes, Parts, PartOf
<1> QED BY <1>1, <1>2, TakeFromKeeps

(* A rank leaves the reduction. *)
LEMMA BcastKeeps ==
  ASSUME CommInv, NEW r \in World, Bcast(r)
  PROVE  CommInv'
<1>1. /\ CommTypes /\ at[r].op = "bcast" /\ UNCHANGED << topo, entered, input, heard, mixed >>
      /\ value[r] = IF IsStageLeader(r) THEN Low(World) ELSE Low(StageMembers(r))
      /\ value \in [World -> {0, 1}] /\ value[r] \in {0, 1} /\ "done" \in CommOps
  BY DEF CommInv, CommTypes, Parts, PartOf, Bcast, At, CommOps
<1>2. World' = World /\ Low(World)' = Low(World)
  BY <1>1, SameLows
<1>3. CASE pp_size = 1 /\ Go(r, "done") /\ UNCHANGED << net, value >>
  <2>1. value[r] = Low(World)
    BY <1>1, <1>3, OneStage DEF CommTypes
  <2>2. at'[r].op = "done" => PartOf(r)'
    BY <1>2, <1>3, <2>1 DEF PartOf
  <2>3. NetSays'
    BY <1>1, <1>3, NetStays DEF CommInv
  <2>4. /\ net' \in [World \X World -> Seq(CommMessages)] /\ value' \in [World -> {0, 1}]
        /\ \A q \in World \ {r} : value'[q] = value[q]
        /\ \A s, d \in World : net'[<< s, d >>] = net[<< s, d >>]
    BY <1>1, <1>3 DEF CommTypes
  <2> QED BY <1>1, <1>3, <2>2, <2>3, <2>4, OneMoves
<1>4. CASE /\ pp_size > 1 /\ IsStageLeader(r)
           /\ net' = SendAll(net, r, StageMembers(r) \ {r}, [tag |-> BcastTag, data |-> value[r]])
           /\ Go(r, "done") /\ UNCHANGED value
  <2>1. value[r] = Low(World)
    BY <1>1, <1>4
  <2>2. at'[r].op = "done" => PartOf(r)'
    BY <1>2, <1>4, <2>1 DEF PartOf
  <2>3. PICK v \in {0, 1} : v = value[r]
    BY <1>1
  <2>4. PICK D \in SUBSET World : D = StageMembers(r) \ {r}
    BY <1>1, StageOf DEF CommTypes
  <2>5. net' = SendAll(net, r, D, [tag |-> BcastTag, data |-> v])
    BY <1>4, <2>3, <2>4
  <2>6. \A d \in D : Says(r, d, [tag |-> BcastTag, data |-> v])
    BY <2>1, <2>3, TagsApart DEF Says
  <2>7. /\ net' \in [World \X World -> Seq(CommMessages)] /\ NetSays'
        /\ \A s, d \in World :
             \/ net'[<< s, d >>] = net[<< s, d >>]
             \/ \E x \in CommMessages : /\ x.tag \in {ReduceTag, BcastTag}
                                        /\ net'[<< s, d >>] = Append(net[<< s, d >>], x)
    BY <1>1, <2>5, <2>6, ReduceSends
  <2>8. value' \in [World -> {0, 1}] /\ \A q \in World \ {r} : value'[q] = value[q]
    BY <1>1, <1>4
  <2> QED BY <1>1, <1>4, <2>2, <2>7, <2>8, OneMoves
<1>5. CASE pp_size > 1 /\ ~ IsStageLeader(r) /\ TakeFrom(r, StageOffset(r), BcastTag, "done")
  <2>1. PICK s \in World : s = StageOffset(r)
    BY <1>1, StageOf DEF CommTypes
  <2>2. BcastTag # ReduceTag
    BY TagsApart
  <2> QED BY <1>1, <1>5, <2>1, <2>2, TakeFromKeeps
<1> QED BY <1>3, <1>4, <1>5 DEF Bcast

(* The first leader hears from another stage. *)
LEMMA HearKeeps ==
  ASSUME CommInv, NEW src \in StageLeaders \ {0}, at[0].op = "pp",
         Matching(src, 0, ReduceTag) # {},
         NEW i \in 1 .. Len(net[<< src, 0 >>]), net[<< src, 0 >>][i].tag = ReduceTag,
         value' = [value EXCEPT ![0] = Min({@, net[<< src, 0 >>][i].data})],
         net' = [net EXCEPT ![<< src, 0 >>] = Without(@, i)],
         heard' = heard \union {src}, UNCHANGED << topo, at, entered, input, mixed >>
  PROVE  CommInv'
<1> DEFINE H == UNION { StageMembers(s) : s \in heard \union {0} }
           S == StageMembers(src)
           K == UNION { StageMembers(s) : s \in (heard \union {src}) \union {0} }
           x == net[<< src, 0 >>][i].data
<1>1. CommTypes /\ topo \in Topologies /\ heard \subseteq StageLeaders \ {0} /\ 0 \in World /\ src \in World
  BY Stages, StageLeader DEF CommInv, CommTypes
<1>2. \A s \in heard \union {src, 0} : s \in World
  BY <1>1, StageLeader
<1>3. \A s \in heard \union {src, 0} : s \in StageMembers(s) /\ StageMembers(s) \subseteq World
  BY <1>1, <1>2, StageOf
<1>4. /\ H \in SUBSET World /\ H # {} /\ S \in SUBSET World /\ S # {} /\ K \in SUBSET World /\ K # {}
  BY <1>3
<1>5. K = H \union S
  OBVIOUS
<1>6. value[0] = Low(H) /\ value \in [World -> {0, 1}]
  BY <1>1 DEF CommInv, CommTypes, Parts, PartOf
<1>7. x = Low(S)
  <2>1. Says(src, 0, net[<< src, 0 >>][i])
    BY <1>1 DEF CommInv, NetSays
  <2> QED BY <2>1 DEF Says
<1> HIDE DEF H, S, K, x
<1>8. /\ Low(H) \in {0, 1} /\ (Low(H) = 0 <=> \E q \in H : input[q] = 0)
      /\ Low(S) \in {0, 1} /\ (Low(S) = 0 <=> \E q \in S : input[q] = 0)
      /\ Low(K) \in {0, 1} /\ (Low(K) = 0 <=> \E q \in K : input[q] = 0)
  BY <1>1, <1>4, LowIs
<1>9. Min({value[0], x}) = Low(K)
  <2> DEFINE B == {value[0], x}
  <2>1. B \subseteq {0, 1} /\ B # {} /\ (0 \in B <=> Low(H) = 0 \/ Low(S) = 0)
    BY <1>6, <1>7, <1>8
  <2> HIDE DEF B
  <2>2. Min(B) \in {0, 1} /\ (Min(B) = 0 <=> 0 \in B)
    BY <2>1, MinOfBits
  <2>3. Min(B) = Low(K)
    BY <1>5, <1>8, <2>1, <2>2
  <2> QED BY <2>3 DEF B
<1>10. /\ value' \in [World -> {0, 1}] /\ value'[0] = Low(K)
       /\ \A q \in World \ {0} : value'[q] = value[q]
  <2>1. value' = [value EXCEPT ![0] = Min({value[0], x})]
    BY DEF x
  <2> QED BY <1>1, <1>6, <1>8, <1>9, <2>1
<1>11. /\ net' \in [World \X World -> Seq(CommMessages)] /\ NetSays'
       /\ \A s, d \in World :
            \/ net'[<< s, d >>] = net[<< s, d >>]
            \/ \E j \in 1 .. Len(net[<< s, d >>]) :
                 /\ net[<< s, d >>][j].tag \in {ReduceTag, BcastTag}
                 /\ net'[<< s, d >>] = Without(net[<< s, d >>], j)
  BY <1>1, ReduceTakes
<1>12. /\ CommTypes' /\ Informed'
       /\ \A q \in World, h \in 1 .. 3, c \in Channels : Passed(q, h, c)' = Passed(q, h, c)
  <2>1. /\ World' = World /\ StageLeaders' = StageLeaders
        /\ \A q, h : TakesPart(q, h)' = TakesPart(q, h) /\ Receives(q, h)' = Receives(q, h)
    BY SamePlaces
  <2>2. CommTypes'
    BY <1>1, <1>10, <1>11, <2>1 DEF CommTypes
  <2>3. Informed'
    BY <2>1 DEF CommInv, Informed
  <2> QED BY <2>2, <2>3 DEF Passed
<1>13. OnTheWay'
  BY <1>11, <1>12, WayStays
<1>14. /\ World' = World /\ \A s : StageMembers(s)' = StageMembers(s)
  BY SamePlaces
<1>15. Parts'
  <2> SUFFICES ASSUME NEW q \in World PROVE PartOf(q)'
    BY <1>14 DEF Parts
  <2>1. CASE q = 0
    <3>1. (UNION { StageMembers(s) : s \in heard \union {0} })' = K
      BY <1>14 DEF K
    <3>2. Low(UNION { StageMembers(s) : s \in heard \union {0} })' = Low(K)
      BY <3>1 DEF Low
    <3> QED BY <1>10, <2>1, <3>2 DEF PartOf
  <2>2. CASE q # 0
    <3>1. PartOf(q) /\ value'[q] = value[q]
      BY <1>10, <2>2 DEF CommInv, Parts
    <3> QED BY <2>2, <3>1, PartStays
  <2> QED BY <2>1, <2>2
<1>16. HeardLate'
  BY DEF HeardLate
<1> QED BY <1>11, <1>12, <1>13, <1>15, <1>16 DEF CommInv

(* The leaders reduce. *)
LEMMA PpReduceKeeps ==
  ASSUME CommInv, NEW r \in World, PpReduce(r)
  PROVE  CommInv'
<1>1. /\ CommTypes /\ topo \in Topologies /\ at[r].op = "pp" /\ UNCHANGED << topo, entered, input, mixed >>
      /\ value \in [World -> {0, 1}] /\ value[r] \in {0, 1} /\ "bcast" \in CommOps /\ "answer" \in CommOps
  BY DEF CommInv, CommTypes, PpReduce, At, CommOps
<1>2. 0 \in World /\ 0 \in StageLeaders /\ IsStageLeader(0)
  BY <1>1, Stages
<1>3. /\ World' = World /\ Low(World)' = Low(World) /\ IsStageLeader(r)' = IsStageLeader(r)
      /\ Low(StageMembers(r))' = Low(StageMembers(r))
  BY <1>1, SameLows, SamePlaces
<1>4. PartOf(r)
  BY DEF CommInv, Parts
<1>5. CASE ~ IsStageLeader(r) /\ Go(r, "bcast") /\ UNCHANGED << net, value, heard >>
  <2>1. value[r] = Low(StageMembers(r))
    BY <1>1, <1>2, <1>4, <1>5 DEF PartOf
  <2>2. at'[r].op = "bcast" => PartOf(r)'
    BY <1>3, <1>5, <2>1 DEF PartOf
  <2>3. NetSays'
    BY <1>1, <1>5, NetStays DEF CommInv
  <2>4. /\ net' \in [World \X World -> Seq(CommMessages)] /\ value' \in [World -> {0, 1}]
        /\ \A q \in World \ {r} : value'[q] = value[q]
        /\ \A s, d \in World : net'[<< s, d >>] = net[<< s, d >>]
    BY <1>1, <1>5 DEF CommTypes
  <2> QED BY <1>1, <1>5, <2>2, <2>3, <2>4, OneMoves
<1>6. CASE /\ IsStageLeader(r) /\ r # 0
           /\ net' = SendAll(net, r, {0}, [tag |-> ReduceTag, data |-> value[r]])
           /\ Go(r, "answer") /\ UNCHANGED << value, heard >>
  <2>1. value[r] = Low(StageMembers(r))
    BY <1>1, <1>4, <1>6 DEF PartOf
  <2>2. at'[r].op = "answer" => PartOf(r)'
    BY <1>3, <1>6, <2>1 DEF PartOf
  <2>3. PICK v \in {0, 1} : v = value[r]
    BY <1>1
  <2>4. net' = SendAll(net, r, {0}, [tag |-> ReduceTag, data |-> v]) /\ {0} \in SUBSET World
    BY <1>2, <1>6, <2>3
  <2>5. \A d \in {0} : Says(r, d, [tag |-> ReduceTag, data |-> v])
    BY <2>1, <2>3, TagsApart DEF Says
  <2>6. /\ net' \in [World \X World -> Seq(CommMessages)] /\ NetSays'
        /\ \A s, d \in World :
             \/ net'[<< s, d >>] = net[<< s, d >>]
             \/ \E x \in CommMessages : /\ x.tag \in {ReduceTag, BcastTag}
                                        /\ net'[<< s, d >>] = Append(net[<< s, d >>], x)
    BY <1>1, <2>4, <2>5, ReduceSends
  <2>7. value' \in [World -> {0, 1}] /\ \A q \in World \ {r} : value'[q] = value[q]
    BY <1>1, <1>6
  <2> QED BY <1>1, <1>6, <2>2, <2>6, <2>7, OneMoves
<1>7. ASSUME NEW src \in StageLeaders \ {0}, r = 0, Matching(src, 0, ReduceTag) # {},
             value' = [value EXCEPT ![0] = Min({@, net[<< src, 0 >>][Min(Matching(src, 0, ReduceTag))].data})],
             net' = [net EXCEPT ![<< src, 0 >>] = Without(@, Min(Matching(src, 0, ReduceTag)))],
             heard' = heard \union {src}, UNCHANGED at
      PROVE  CommInv'
  <2>1. src \in World
    BY <1>1, <1>7, StageLeader
  <2>2. PICK i \in 1 .. Len(net[<< src, 0 >>]) :
          i = Min(Matching(src, 0, ReduceTag)) /\ net[<< src, 0 >>][i].tag = ReduceTag
    BY <1>1, <1>2, <1>7, <2>1, Oldest
  <2>3. /\ value' = [value EXCEPT ![0] = Min({@, net[<< src, 0 >>][i].data})]
        /\ net' = [net EXCEPT ![<< src, 0 >>] = Without(@, i)]
    BY <1>7, <2>2
  <2> QED BY <1>1, <1>7, <2>2, <2>3, HearKeeps
<1>8. CASE /\ r = 0 /\ heard = StageLeaders \ {0}
           /\ net' = SendAll(net, 0, StageLeaders \ {0}, [tag |-> ReduceTag, data |-> value[0]])
           /\ Go(0, "bcast") /\ UNCHANGED << value, heard >>
  <2>1. value[0] = Low(World)
    <3>1. heard \union {0} = StageLeaders
      BY <1>2, <1>8
    <3>2. World = UNION { StageMembers(s) : s \in heard \union {0} }
      BY <1>1, <3>1, Stages
    <3>3. value[0] = Low(UNION { StageMembers(s) : s \in heard \union {0} })
      BY <1>1, <1>4, <1>8 DEF PartOf
    <3> QED BY <3>2, <3>3
  <2>2. at'[0].op = "bcast" => PartOf(0)'
    BY <1>2, <1>3, <1>8, <2>1 DEF PartOf
  <2>3. PICK v \in {0, 1} : v = value[0]
    BY <1>1, <1>8
  <2>4. PICK D \in SUBSET World : D = StageLeaders \ {0}
    BY <1>1, StageLeader
  <2>5. net' = SendAll(net, 0, D, [tag |-> ReduceTag, data |-> v])
    BY <1>8, <2>3, <2>4
  <2>6. \A d \in D : Says(0, d, [tag |-> ReduceTag, data |-> v])
    BY <2>1, <2>3, <2>4, TagsApart DEF Says
  <2>7. /\ net' \in [World \X World -> Seq(CommMessages)] /\ NetSays'
        /\ \A s, d \in World :
             \/ net'[<< s, d >>] = net[<< s, d >>]
             \/ \E x \in CommMessages : /\ x.tag \in {ReduceTag, BcastTag}
                                        /\ net'[<< s, d >>] = Append(net[<< s, d >>], x)
    BY <1>1, <1>2, <2>5, <2>6, ReduceSends
  <2>8. value' \in [World -> {0, 1}] /\ \A q \in World \ {0} : value'[q] = value[q]
    BY <1>1, <1>8
  <2> QED BY <1>1, <1>2, <1>8, <2>2, <2>7, <2>8, OneMoves
<1> QED BY <1>5, <1>6, <1>7, <1>8 DEF PpReduce

(* Where nothing was sent, nothing is on the way. *)
LEMMA FlowNone ==
  ASSUME NEW q, NEW h, NEW c, Tagged(q, << h, c >>) = {}
  PROVE  Flow(q, h, c, 0, 0)
<1>1. \A k : k \notin 0 + 1 .. 0
  OBVIOUS
<1> QED BY <1>1 DEF Flow

(* At first nothing is on the way. *)
LEMMA CommInitInv ==
  ASSUME CommInit
  PROVE  CommInv
<1>1. Home \in [op : CommOps, ch : Channels \union {"none"}, hop : 0 .. 4, data : Payloads] /\ Home.op = "idle"
  BY DEF Home, CommOps, Payloads
<1>2. /\ topo \in Topologies /\ \A r \in World : at[r] = Home /\ value[r] = input[r]
      /\ \A r \in World, c \in Channels : entered[r][c] = 0
      /\ \A s, d \in World : net[<< s, d >>] = << >>
      /\ heard = {} /\ ~ mixed
  BY DEF CommInit
<1>3. CommTypes
  <2>1. net \in [World \X World -> Seq(CommMessages)]
    <3>1. << >> \in Seq(CommMessages)
      BY EmptySeq
    <3> QED BY <3>1 DEF CommInit
  <2>2. value \in [World -> {0, 1}] /\ input \in [World -> {0, 1}]
    BY DEF CommInit
  <2>3. entered \in [World -> [Channels -> Nat]]
    BY DEF CommInit
  <2>4. at \in [World -> [op : CommOps, ch : Channels \union {"none"}, hop : 0 .. 4, data : Payloads]]
    BY <1>1 DEF CommInit
  <2> QED BY <1>1, <1>2, <2>1, <2>2, <2>3, <2>4 DEF CommTypes
<1>4. Informed /\ Parts /\ HeardLate
  BY <1>1, <1>2 DEF Informed, Parts, PartOf, HeardLate
<1>5. \A h, c : Tagged(<< >>, << h, c >>) = {}
  BY DEF Tagged
<1>6. ASSUME NEW s \in World, NEW d \in World, NEW h \in 1 .. 3, NEW c \in Channels
      PROVE  /\ Feeds(s, d, h) => Flow(net[<< s, d >>], h, c, Passed(d, h, c), Passed(s, h, c))
             /\ ~ Feeds(s, d, h) => Tagged(net[<< s, d >>], << h, c >>) = {}
  <2>1. Passed(d, h, c) = 0 /\ Passed(s, h, c) = 0
    BY <1>1, <1>2 DEF Passed
  <2>2. Tagged(net[<< s, d >>], << h, c >>) = {}
    BY <1>2, <1>5
  <2>3. Flow(net[<< s, d >>], h, c, 0, 0)
    BY <2>2, FlowNone
  <2> QED BY <2>1, <2>2, <2>3
<1>7. OnTheWay
  BY <1>6 DEF OnTheWay
<1>8. NetSays
  BY <1>2 DEF NetSays
<1> QED BY <1>2, <1>3, <1>4, <1>7, <1>8 DEF CommInv

(* A step of something else. *)
LEMMA CommStutter ==
  ASSUME CommInv, UNCHANGED commVars
  PROVE  CommInv'
<1>1. UNCHANGED << topo, at, entered, net, value, input, heard, mixed >>
  BY DEF commVars
<1>2. /\ World' = World /\ StageLeaders' = StageLeaders
      /\ \A q, h : TakesPart(q, h)' = TakesPart(q, h) /\ Receives(q, h)' = Receives(q, h)
      /\ \A s, d, h : Feeds(s, d, h)' = Feeds(s, d, h)
  BY <1>1, SamePlaces
<1>3. CommTypes'
  BY <1>1, <1>2 DEF CommInv, CommTypes
<1>4. Informed' /\ HeardLate'
  BY <1>1, <1>2 DEF CommInv, Informed, HeardLate
<1>5. \A q \in World, h \in 1 .. 3, c \in Channels : Passed(q, h, c)' = Passed(q, h, c)
  BY <1>1 DEF Passed
<1>6. OnTheWay'
  <2>1. \A s, d \in World : net'[<< s, d >>] = net[<< s, d >>]
    BY <1>1
  <2> QED BY <1>1, <1>5, <2>1, WayStays
<1>7. Parts'
  BY <1>1, <1>2, PartStays DEF CommInv, Parts
<1>8. NetSays'
  BY <1>1, NetStays DEF CommInv
<1> QED BY <1>1, <1>3, <1>4, <1>6, <1>7, <1>8 DEF CommInv

(* Every step keeps the invariant. *)
LEMMA CommStep ==
  ASSUME CommInv, [CommNext]_commVars
  PROVE  CommInv'
<1>1. CASE UNCHANGED commVars
  BY <1>1, CommStutter
<1>2. ASSUME NEW r \in World,
             \/ \E ch \in Channels : EnterScatter(r, ch)
             \/ ScatterHop(r) \/ ScatterReturns(r) \/ EnterReduce(r)
             \/ Collective(r, TpGroup(r), "tp", "cp") \/ Collective(r, CpGroup(r), "cp", "pp")
             \/ PpReduce(r) \/ PpAnswer(r) \/ Bcast(r)
      PROVE  CommInv'
  BY <1>2, EnterScatterKeeps, ScatterHopKeeps, ScatterReturnsKeeps, EnterReduceKeeps, TpKeeps,
     CpKeeps, PpReduceKeeps, PpAnswerKeeps, BcastKeeps
<1> QED BY <1>1, <1>2 DEF CommNext

(* FlexKVComm: with every topology, every set of channels and any number of
   scatters, a scatter returns the payload the leader gave to the same
   operation, and who leaves the reduction has the minimum of all ranks. *)
THEOREM CollectivesAgreeAlways == CommInit /\ [][CommNext]_commVars => []CollectivesAgree
<1>1. CommInit => CommInv
  BY CommInitInv
<1>2. CommInv /\ [CommNext]_commVars => CommInv'
  BY CommStep
<1>3. CommInv => CollectivesAgree
  BY DEF CommInv, Parts, PartOf, Low, CollectivesAgree, At
<1> QED BY <1>1, <1>2, <1>3, PTL
=============================================================================
