--------------------------- MODULE SGLangConnector ---------------------------
(***************************************************************************)
(* The SGLang connector on all ranks of a model instance.  The scheduler   *)
(* of every rank makes the same calls in the same order; only the leader   *)
(* talks to the manager, and what it learns is scattered to the followers, *)
(* which apply it when they reach that call.  A follower may be several    *)
(* calls behind, so the leader's calls are queued for it.  The framework's *)
(* side (locks on the slots of a store, leases of the slots of a restore)  *)
(* follows the patch shipped with the connector.  Layerwise loads are      *)
(* LayerCounter.                                                           *)
(***************************************************************************)
EXTENDS Naturals, Sequences

CONSTANTS SgRanks, SgLeader,
          Rids,        \* requests
          StoreKeys,   \* keys of stores; the framework uses each key once
          MaxSgTask,   \* bound on the tasks of the manager
          MaxLag       \* bound on the calls a follower is behind

ASSUME SgAssumption == SgLeader \in SgRanks /\ MaxSgTask \in Nat /\ MaxLag \in Nat \ {0}

SgFollowers == SgRanks \ {SgLeader}
SgTasks == 1 .. MaxSgTask
NoLookup == 0

VARIABLES task,      \* the manager's tasks: "none", "held", "running", "ended", "failed",
                     \* "closed", or "stuck" where a launch raised
          nextTask,
          pendingLookups,    \* _pending_lookups, per rank
          inflightStores,    \* _inflight_stores, per rank
          ongoingPrefetches, \* _ongoing_prefetches, per rank
          queue,     \* calls of the leader a follower has not made yet
          call,      \* what the leader is doing: "idle", or a retrieve that waits
          locked,    \* store keys whose slots a rank's framework keeps
          lease,     \* restores a rank's framework believes to be on the GPU
          returned,  \* ghost: what the last retrieve_kv returned, per rank
          storeOf    \* ghost: the task of each store key

sgVars == << task, nextTask, pendingLookups, inflightStores, ongoingPrefetches, queue, call,
             locked, lease, returned, storeOf >>

NoCall == [op |-> "idle", rid |-> "none", task |-> NoLookup, loaded |-> FALSE]
Nothing == [r \in Rids |-> NoLookup]

SgInit ==
  /\ task = [t \in SgTasks |-> "none"] /\ nextTask = 1
  /\ pendingLookups = [r \in SgRanks |-> Nothing]
  /\ inflightStores = [r \in SgRanks |-> [k \in StoreKeys |-> NoLookup]]
  /\ ongoingPrefetches = [r \in SgRanks |-> Nothing]
  /\ queue = [r \in SgFollowers |-> << >>] /\ call = NoCall
  /\ locked = [r \in SgRanks |-> {}] /\ lease = [r \in SgRanks |-> {}]
  /\ returned = [r \in SgRanks |-> "none"] /\ storeOf = [k \in StoreKeys |-> NoLookup]

-----------------------------------------------------------------------------
\* The leader makes a call and the followers are told its result.
CanCall == call = NoCall /\ \A r \in SgFollowers : Len(queue[r]) < MaxLag
Tell(m) == queue' = [r \in SgFollowers |-> Append(queue[r], m)]
NewTask == nextTask \in SgTasks /\ nextTask' = nextTask + 1

\* cancel, for the tasks the leader holds.
SgCancelled(tk, ts) == [t \in SgTasks |-> IF t \in ts THEN "closed" ELSE tk[t]]

\* The lookup a new one replaces is cancelled.
Replaced(tk, t) == SgCancelled(tk, {t})

\* lookup_kv with a hit.  A miss, or an error, leaves nothing behind.  The
\* framework does not look a request up again while it has a restore.
lookup_kv(rid) ==
  /\ CanCall /\ NewTask /\ rid \notin lease[SgLeader]
  /\ task' = [Replaced(task, pendingLookups[SgLeader][rid]) EXCEPT ![nextTask] = "held"]
  /\ pendingLookups' = [pendingLookups EXCEPT ![SgLeader][rid] = nextTask]
  /\ Tell([op |-> "lookup", rid |-> rid, task |-> nextTask])
  /\ UNCHANGED << inflightStores, ongoingPrefetches, call, locked, lease, returned, storeOf >>

\* lookup_kv without a request id: the plan is cancelled at once.
lookup_only ==
  /\ CanCall /\ NewTask
  /\ task' = [task EXCEPT ![nextTask] = "closed"]
  /\ UNCHANGED << pendingLookups, inflightStores, ongoingPrefetches, queue, call, locked, lease,
                  returned, storeOf >>

\* release_pending: no slots could be allocated, or the request is aborted, and
\* then cancel_prefetch forgets its prefetch as well.
release_pending(rid, aborted) ==
  /\ CanCall
  /\ task' = SgCancelled(task, {pendingLookups[SgLeader][rid]})
  /\ pendingLookups' = [pendingLookups EXCEPT ![SgLeader][rid] = NoLookup]
  /\ ongoingPrefetches' = IF aborted THEN [ongoingPrefetches EXCEPT ![SgLeader][rid] = NoLookup]
                          ELSE ongoingPrefetches
  /\ Tell([op |-> IF aborted THEN "abort" ELSE "release", rid |-> rid])
  /\ UNCHANGED << nextTask, inflightStores, call, locked, lease, returned, storeOf >>

\* retrieve_kv: the leader launches the load and waits for it.
retrieve_kv(rid) ==
  LET t == pendingLookups[SgLeader][rid] IN
    /\ CanCall /\ t # NoLookup
    /\ pendingLookups' = [pendingLookups EXCEPT ![SgLeader][rid] = NoLookup]
    /\ task' = [task EXCEPT ![t] = "running"]
    /\ call' = [op |-> "wait", rid |-> rid, task |-> t, loaded |-> FALSE]
    /\ Tell([op |-> "retrieve", rid |-> rid])
    /\ returned' = [r \in SgRanks |-> "none"]
    /\ UNCHANGED << nextTask, inflightStores, ongoingPrefetches, locked, lease, storeOf >>

\* The wait ends with the task, or after 30 seconds without it.
retrieve_wait ==
  /\ call.op = "wait"
  /\ call' = [call EXCEPT !.op = "barrier", !.loaded = task[call.task] = "ended"]
  /\ UNCHANGED << task, nextTask, pendingLookups, inflightStores, ongoingPrefetches, queue,
                  locked, lease, returned, storeOf >>

\* The barrier: every follower has made its call, which returns all slots; the
\* leader returns none if the load was not seen to succeed.
retrieve_barrier ==
  /\ call.op = "barrier" /\ \A r \in SgFollowers : queue[r] = << >>
  /\ returned' = [r \in SgRanks |-> IF r = SgLeader /\ ~ call.loaded THEN "nothing" ELSE "all"]
  /\ lease' = [r \in SgRanks |-> IF returned'[r] = "all" THEN lease[r] \union {call.rid} ELSE lease[r]]
  /\ call' = NoCall
  /\ UNCHANGED << task, nextTask, pendingLookups, inflightStores, ongoingPrefetches, queue, locked, storeOf >>

-----------------------------------------------------------------------------
(* Stores *)

\* Seeded fault: only the leader learns that a store is active.
TellsInactive(k, t) == [op |-> "store", key |-> k, task |-> NoLookup]

StoreStart(k, t) == [op |-> "store", key |-> k, task |-> t]

\* store_kv: nothing to write, a launch that raises on all ranks, or an active
\* store whose slots every rank keeps.  The plan of a launch that raised is left.
store_kv(k, outcome) ==
  /\ CanCall /\ NewTask /\ storeOf[k] = NoLookup
  /\ task' = [task EXCEPT ![nextTask] =
                CASE outcome = "active" -> "running" [] outcome = "skipped" -> "closed" [] OTHER -> "stuck"]
  /\ storeOf' = [storeOf EXCEPT ![k] = nextTask]
  /\ IF outcome = "active"
     THEN /\ inflightStores' = [inflightStores EXCEPT ![SgLeader][k] = nextTask]
          /\ locked' = [locked EXCEPT ![SgLeader] = @ \union {k}]
          /\ Tell(StoreStart(k, nextTask))
     ELSE UNCHANGED << inflightStores, locked, queue >>
  /\ UNCHANGED << pendingLookups, ongoingPrefetches, call, lease, returned >>

\* check_completed_stores: the leader polls; every rank lets go of what ended.
check_completed_stores ==
  LET done == { k \in StoreKeys : /\ inflightStores[SgLeader][k] # NoLookup
                                  /\ task[inflightStores[SgLeader][k]] \in {"ended", "failed"} }
  IN /\ CanCall /\ done # {}
     /\ inflightStores' = [inflightStores EXCEPT ![SgLeader] =
                             [k \in StoreKeys |-> IF k \in done THEN NoLookup ELSE @[k]]]
     /\ locked' = [locked EXCEPT ![SgLeader] = @ \ done]
     /\ Tell([op |-> "completed", keys |-> done])
     /\ UNCHANGED << task, nextTask, pendingLookups, ongoingPrefetches, call, lease, returned, storeOf >>

-----------------------------------------------------------------------------
(* Prefetch, requests, reset *)

prefetch_async(rid) ==
  /\ CanCall /\ NewTask
  /\ task' = [task EXCEPT ![nextTask] = "running"]
  /\ ongoingPrefetches' = [ongoingPrefetches EXCEPT ![SgLeader][rid] = nextTask]
  /\ Tell([op |-> "prefetch", rid |-> rid, task |-> nextTask])
  /\ UNCHANGED << pendingLookups, inflightStores, call, locked, lease, returned, storeOf >>

check_prefetch_progress(rid) ==
  LET t == ongoingPrefetches[SgLeader][rid] IN
    /\ CanCall /\ t # NoLookup /\ task[t] \in {"ended", "failed"}
    /\ ongoingPrefetches' = [ongoingPrefetches EXCEPT ![SgLeader][rid] = NoLookup]
    /\ Tell([op |-> "prefetched", rid |-> rid])
    /\ UNCHANGED << task, nextTask, pendingLookups, inflightStores, call, locked, lease, returned, storeOf >>

\* The framework takes the restored slots over, on every rank.
Commit(rid) ==
  /\ CanCall /\ rid \in lease[SgLeader]
  /\ lease' = [lease EXCEPT ![SgLeader] = @ \ {rid}]
  /\ Tell([op |-> "commit", rid |-> rid])
  /\ UNCHANGED << task, nextTask, pendingLookups, inflightStores, ongoingPrefetches, call, locked,
                  returned, storeOf >>

StoreIds(r) == { inflightStores[r][k] : k \in StoreKeys } \ {NoLookup}

\* Every store of the leader has reached a terminal state.
Drained == \A t \in StoreIds(SgLeader) : task[t] \in {"ended", "failed"}

\* reset: held lookups are cancelled, and the stores are waited for.  If they do
\* not end in 30 seconds all ranks raise and the framework keeps its locks.
reset ==
  /\ CanCall
  /\ task' = SgCancelled(task, { pendingLookups[SgLeader][r] : r \in Rids })
  /\ pendingLookups' = [pendingLookups EXCEPT ![SgLeader] = Nothing]
  /\ ongoingPrefetches' = [ongoingPrefetches EXCEPT ![SgLeader] = Nothing]
  /\ Tell([op |-> "reset", ok |-> Drained])
  /\ IF Drained
     THEN /\ inflightStores' = [inflightStores EXCEPT ![SgLeader] = [k \in StoreKeys |-> NoLookup]]
          /\ locked' = [locked EXCEPT ![SgLeader] = {}]
          /\ lease' = [lease EXCEPT ![SgLeader] = {}]
     ELSE UNCHANGED << inflightStores, locked, lease >>
  /\ UNCHANGED << nextTask, call, returned, storeOf >>

\* A follower makes its next call.
Follow(r) ==
  /\ queue[r] # << >>
  /\ LET m == Head(queue[r]) IN
       /\ pendingLookups' =
            CASE m.op = "lookup" -> [pendingLookups EXCEPT ![r][m.rid] = m.task]
              [] m.op \in {"release", "abort", "retrieve"} -> [pendingLookups EXCEPT ![r][m.rid] = NoLookup]
              [] m.op = "reset" -> [pendingLookups EXCEPT ![r] = Nothing]
              [] OTHER -> pendingLookups
       /\ ongoingPrefetches' =
            CASE m.op = "prefetch" -> [ongoingPrefetches EXCEPT ![r][m.rid] = m.task]
              [] m.op \in {"abort", "prefetched"} -> [ongoingPrefetches EXCEPT ![r][m.rid] = NoLookup]
              [] m.op = "reset" -> [ongoingPrefetches EXCEPT ![r] = Nothing]
              [] OTHER -> ongoingPrefetches
       /\ inflightStores' =
            CASE m.op = "store" -> [inflightStores EXCEPT ![r][m.key] = m.task]
              [] m.op = "completed" -> [inflightStores EXCEPT ![r] =
                                          [k \in StoreKeys |-> IF k \in m.keys THEN NoLookup ELSE @[k]]]
              [] m.op = "reset" /\ m.ok -> [inflightStores EXCEPT ![r] = [k \in StoreKeys |-> NoLookup]]
              [] OTHER -> inflightStores
       /\ locked' =
            CASE m.op = "store" /\ m.task # NoLookup -> [locked EXCEPT ![r] = @ \union {m.key}]
              [] m.op = "completed" -> [locked EXCEPT ![r] = @ \ m.keys]
              [] m.op = "reset" /\ m.ok -> [locked EXCEPT ![r] = {}]
              [] OTHER -> locked
       /\ lease' =
            CASE m.op = "commit" -> [lease EXCEPT ![r] = @ \ {m.rid}]
              [] m.op = "reset" /\ m.ok -> [lease EXCEPT ![r] = {}]
              [] OTHER -> lease
  /\ queue' = [queue EXCEPT ![r] = Tail(@)]
  /\ UNCHANGED << task, nextTask, call, returned, storeOf >>

\* The manager ends a transfer.
SgTaskEnds(t) ==
  /\ task[t] = "running"
  /\ \E s \in {"ended", "failed"} : task' = [task EXCEPT ![t] = s]
  /\ UNCHANGED << nextTask, pendingLookups, inflightStores, ongoingPrefetches, queue, call,
                  locked, lease, returned, storeOf >>

SgNext ==
  \/ \E rid \in Rids : \/ lookup_kv(rid) \/ retrieve_kv(rid)
                       \/ release_pending(rid, FALSE) \/ release_pending(rid, TRUE)
                       \/ prefetch_async(rid) \/ check_prefetch_progress(rid) \/ Commit(rid)
  \/ \E k \in StoreKeys, o \in {"active", "skipped", "error"} : store_kv(k, o)
  \/ lookup_only \/ retrieve_wait \/ retrieve_barrier \/ check_completed_stores \/ reset
  \/ \E r \in SgFollowers : Follow(r)
  \/ \E t \in SgTasks : SgTaskEnds(t)

SgSpec == SgInit /\ [][SgNext]_sgVars

-----------------------------------------------------------------------------
\* A call to store the key is still in the follower's queue: its framework locks
\* the slots when it gets there.
NotThereYet(r, k) ==
  r # SgLeader /\ \E i \in 1 .. Len(queue[r]) : queue[r][i].op = "store" /\ queue[r][i].key = k

\* While a store runs, every rank keeps the GPU slots it reads: the leader's
\* polls, a reset, and followers that are calls behind never free them early.
StoreSlotsHeld ==
  \A k \in StoreKeys :
    storeOf[k] # NoLookup /\ task[storeOf[k]] = "running" =>
      \A r \in SgRanks : k \in locked[r] \/ NotThereYet(r, k)

\* retrieve_kv is documented to return the number of slots loaded.  Not so: only
\* the leader sees a failed or late load, the other ranks return all slots.
LoadCountAgrees ==
  \A r \in SgRanks : returned[r] = returned[SgLeader]
=============================================================================
