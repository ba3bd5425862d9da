# FlexKV: TLA+ models, checks and proofs

FlexKV keeps the KV cache of an LLM server in a hierarchy of block stores (CPU
memory, SSD, remote or peer stores), indexes it with radix trees over token
prefixes, and moves blocks between tiers with graphs of transfer operations that
worker processes execute. Nodes can share their blocks through Redis and RDMA. This
directory models the control logic of that system: who owns a block, which node may
be published, evicted or read when, which operation may run next, when a task has
ended, and what is given back when something fails.

## 1. Inventory

| Component (source) | State it keeps | Operations | Hard behaviour |
|---|---|---|---|
| Mempool (`flexkv/cache/mempool.py`) | free mask, cached count, snapshot of free ids with a cursor | `allocate_blocks`, `recycle_blocks`, `reset` | the snapshot is stale by design |
| RadixTreeIndex (`flexkv/cache/radixtree.py`; C++ twin `csrc/radix_tree.cpp`) | nodes with block lists, `is_ready`, lock count, leaf table | `match_prefix`, `insert`, `evict`, `lock`, `unlock`, `set_ready`, `remove_unready_leaf` | nodes are split and shrunk while plans in flight hold references to them |
| CacheEngine, GlobalCacheEngine (`flexkv/cache/cache_engine.py`) | a tree and a pool per tier, open plans | `get`, `put`, op callbacks, `_transfer_callback`, `_abort_transfer_plan`, deferred inserts | a plan spans tiers and stays open while others are made; loads from the store arrive in part |
| KVTaskManager / KVTaskEngine (`flexkv/kvtask.py`) | task table, graph-to-task map, counters per op and graph | match/async/launch/batch/wait/cancel/reset | N handles report independently; failure, cancel and reset race with late messages |
| TransferScheduler, TransferOpGraph (`flexkv/transfer/scheduler.py`, `flexkv/common/transfer.py`) | graphs in flight, dirty queue, ready sets | `add_transfer_graph`, `fail_graph`, `schedule`, `merge_to_batch_graph` | what is not dirty is not visited; a merge rebuilds the dependencies |
| TransferEngine (`flexkv/transfer/transfer_engine.py`) | ops dispatched, replica counts, failed ops and graphs, worker processes | scheduler thread, start-up, suspend/resume, shutdown | a tick mixes new graphs, successes and failures; a worker may die |
| SharedOpPool (`flexkv/common/ring_buffer.py`) | slots of block ids shared with workers, reference counts | `allocate_slot`, `free_slot` | a slot is reused while a worker reads it |
| Workers (`flexkv/transfer/worker.py`, `layerwise.py`) | one op at a time, control pipe | `run`, control messages, shutdown | late replies, hangs, death |
| TransferManager (`flexkv/transfer_manager.py`) | in-process, process and remote handles | submit, poll, readiness, suspend/resume, shutdown | a process tree; two sockets per remote task |
| Server / client (`flexkv/server`) | client table, one request loop | registration, sync and async requests | handlers that raise; clients that crash |
| Framework connectors (`flexkv/integration`) | tasks and requests in flight, event sets, leases of slots | callbacks of vLLM, TensorRT-LLM and SGLang | aborts, preemption, ranks that run at different speeds |
| Distributed index (`csrc/dist`, `flexkv/cache/redis_meta.py`, `hie_cache_engine.py`) | leases, metadata in Redis, copies of other nodes' trees | publish, renew, evict, rebuild, register, reset | leases expire under readers; trees are swapped under readers; nodes crash |
| SWA cache (`flexkv/swa`, `cache/swa_cache_engine.py`) | slots mounted on tree nodes | mount, evict, pin | a second resource on the same nodes |
| CUDA kernels, GDS, compression, SSD I/O, allocators, memory handles, configuration, metrics | | | no control state of the cache |

How they interact: a framework's callbacks become calls of the task layer
(`get_match`, `put_async`, ...), directly or through the server. A call runs the
global cache engine, which matches, takes blocks from the pools, inserts unready
nodes and locks matched ones, and returns a graph with callbacks. The task layer
hands the graph, alone or merged with others, to every transfer handle. The
scheduler thread of each handle releases the ops in dependency order, workers move
the data and report, the handle reports ops and finally the graph; the task layer
aggregates the reports of all handles and runs the callbacks, which publish nodes
(`set_ready`, and `insert_and_publish` to other nodes), unlock them and recycle
staging blocks. Failure, cancel and reset take the other way out of the same plan.

What makes each component correct:

* **Mempool**: a block has one owner; nothing is handed out from the stale snapshot
  that is not free.
* **Tree and cache engine**: a ready node holds the data of its prefix; a transfer
  finds its source in place when it runs; blocks neither leak nor alias; the leaf
  table has exactly the leaves; no placeholder stays unready for ever.
* **Scheduler, engine**: dependency order; the incremental queue misses nothing; one
  terminal message per graph, after its last job has drained; every graph ends.
* **SharedOpPool**: a worker reads its own ids.
* **Task layer**: a plan is settled exactly once, and only when no handle moves data
  for it; a success is answered only after every handle has done the data path.
* **Batches**: what a member's transfers had to wait for they still wait for; a
  member's report is about its own blocks.
* **Connectors**: a framework's blocks stay while a transfer touches them; every
  waiting request is answered; no layer is computed before it is loaded; ranks agree
  on every collective.
* **Server**: a synchronous call gets an answer, its own.
* **Processes**: nothing survives the manager that pinned memory; shutdown ends; a
  rank frees its memory only when no worker maps it.
* **Sharing**: a peer reads a block only while its owner keeps it; no freed index is
  touched; live nodes stay registered; blocks are reset only when nobody finds them.

`PROJECT.json` lists under "hazards" the lines where each of these could go wrong.

## 2. Modules and how they correspond to the code

| Module | Models | State and actions |
|---|---|---|
| `BlockPool` | what callers assume of a pool | owner of each block; take, give back, reset |
| `Mempool` | `mempool.py` | `free_mask`, `num_free`, `free_ids` (the part of the snapshot behind the cursor), `lent`. Implements `BlockPool` (`PoolSpec`) |
| `RadixTree` | `radixtree.py` | operators on a tree value: `match_prefix`, `insert` (splits), `EvictChoices`/`Without` (evict and shrink, any policy), `lock`, `set_ready`, `UnreadyLeaf` (rollback), leaf table |
| `CacheEngine` | engines of the tiers and the end of a plan, `cache_engine.py` | a tree and a free set per tier, contents of blocks, open plans; `take`, `Move` (the data plane), `op_callback`, `transfer_callback`, `abort_transfer_plan`, deferred inserts, `reset` |
| `GlobalCacheEngine` | `get` and `put`, `cache_engine.py` | EXTENDS `CacheEngine` with the plans over CPU, SSD, an indexed remote tier and the key-addressed store |
| `TransferScheduler` | `scheduler.py`, `TransferOpGraph` | dirty queue, ready sets, `add_transfer_graph`, `fail_graph`, `schedule` one graph at a time |
| `TransferHandle` | what the task layer assumes of an engine | one log of all messages; of every graph its ops in dependency order, each once, closed by one terminal message |
| `TransferEngine` | `_scheduler_loop` and what it calls, worker reports | the phases of a tick; replicas, pending counts, failed ops and graphs, slot references. EXTENDS `TransferScheduler`, implements `TransferHandle` (`HandleSpec`) |
| `SharedOpPool` | `ring_buffer.py`, `register_op_to_buffer`, `free_op_from_buffer` | slots, map from ids to slots, reference counts; the two sides of a job one after the other |
| `KVTask` | `kvtask.py`, the remote side's filter in `transfer_manager.py` | task table, graph map, counters, fate of each plan, queues of the handles; the whole task API, one action per call |
| `BatchGraph` | `merge_to_batch_graph`, `set_gpu_blocks`, SWA ops, `_init_workers` | one batch: bind slots, merge, run the merged graph in any order it allows |
| `FrameworkLoop` | the serving framework (external) and the API the adapters call | requests, the phases of a step |
| `VllmConnector`, `TrtllmConnector` | the scheduler sides of the two adapters | the record `conn` with the adapters' own field names; one action per handler |
| `Connectors` | a framework with one of them | composition and its properties |
| `LayerCounter` | SGLang's layerwise loads | event sets per rank; the scheduler thread chooses, checks, registers and rolls back, the forward thread waits in two steps, so a load may be registered or refused between them |
| `SGLangConnector` | load, store, prefetch, reset on all ranks | a leader, followers that are some calls behind |
| `SGLangComm` | `FlexKVComm` | scatter and reduce hop by hop over ordered channels |
| `ServerClient` | `server.py`, `client.py` | client table, request loop, sync calls, crashes and restarts; `refused` remembers which incarnations the server refused to register |
| `GpuRemap` | suspend and resume, ranks to workers | requests down the transfer pipes, timeouts, late replies |
| `ProcessTree` | start-up, rollback, shutdown, signals | parent, manager, workers; SIGTERM, SIGCHLD, SIGKILL |
| `RemoteManager` | remote handle and `TransferManagerOnRemote` | command, registration and result sockets, the two pending tables |
| `LeaseIndex` | `LocalRadixTree`, `RedisMetaChannel`, a peer's copy | the cache's thread, the refresh thread, Redis, the peer and the clock |
| `IndexSwap` | `DistributedRadixTree` | current, previous and dropped trees, reference counts, renew queue |
| `NodeRegistry` | `RedisNodeInfo`, `RedisMeta` | node and meta keys with their time to live, processes of a host |
| `ResetBarrier` | `HierarchyLRCacheEngine.reset` | epochs and arrivals in Redis, what each node still finds |

How detail is abstracted:

* A block hash covers everything before the block, so `RadixTree` uses the prefix
  itself. A node is known by its last prefix: a split keeps the end with the object
  that plans refer to. Block contents are prefixes, so "this block holds the right
  data" is an equation.
* Eviction order is a policy; the model allows any order the heap can produce: leaves
  first, whole nodes but the last, locked and unready nodes never.
* Plan making runs under the tree lock and is one step. Transfers and callbacks are
  steps of their own and interleave freely across plans.
* In `KVTask` a graph has two ops, one after the other; which of the two ends the
  data path depends on the kind of task. A handle to another node forwards an op
  message only if it carries block results or is the registered end of the data path.
* `LeaseIndex` has one path of one-block nodes and counts time in units no longer
  than a renewal period. Redis is atomic per command; commands of one method are
  separate steps where another actor could come between and a property could tell.
* Hashes of id arrays (`SharedOpPool`) do not collide.

Definitions whose comment begins "Seeded fault", or whose name is that of the
definition that follows with a suffix, are variants of it with a bug one could
plausibly write there. They are part of no specification: `PROJECT.json` pairs each
with the property that must catch it.

## 3. Runs

| Run | Instance | What it shows |
|---|---|---|
| `transfer_engine` | a put graph (two pipeline siblings, then one worker, then a virtual sink) and a get graph on the siblings behind a virtual op; four jobs may fail, one worker may die | dependency order, no stranded work, completion reports, balanced slots, quiet terminals; refines `TransferHandle`; every graph ends unless the worker dies |
| `kvtask` | one task on a local and a remote handle, with raising callbacks, cancels in flight, resets and a load of 2 blocks; and two tasks on one handle with one batch id | aggregation, early answers, settling once and only when all is quiet, every plan settles |
| `cache_engine_local` | three sequences that fork after one and two blocks, 3 CPU blocks, 3 plans, aborts, eviction ahead of need; CPU over SSD with GDS, 2 plans | tree, leaf table, locks and pool stay consistent; what is ready is written; sources stay in place |
| `cache_engine_tiered` | SSD staged through the CPU, a remote tier with an index, all three tiers, and the store with write-back to the SSD and partly failed loads | the same invariants as one, plus deferred inserts and (without aborts) no holes |
| `connectors` | both step-driven adapters with two requests and four tasks; layerwise loads of two ranks, three loads, two event sets; SGLang with one follower up to two calls behind; three topologies of its collectives; a server with two clients, one of which may be started twice, two calls, three requests waiting | what a framework may rely on |
| `service` | nine independent parts, see below | |
| `lease_overrun`, `remote_submit`, `service_orphan`, `service_dead_worker`, `kvtask_cancel_running`, `cache_engine_unready_source` | small | violations, section 6 |

`connectors` and `service` start in one of several parts and stay in it: the parts
share no state, so exploring their product would only multiply the same behaviours.
Those of `service`: the block account (4 blocks, 3 holders; implements `BlockPool`),
the id slots (4 jobs with shared and oversized id arrays, 2 slots), sleep and wake (2
ranks, 2 workers, 7 control requests), the process tree (2 workers), batches of two
tasks of up to 2 blocks under six configurations, leases (2 hashes, 2 blocks, clock
to 4), index swap (2 readers, 4 trees), the registry (2 process slots of one host, 2
ids), the reset barrier (3 nodes, 2 epochs).

Why these bounds are enough to be interesting: a pool of four with three holders
exhausts the snapshot while earlier blocks are on their way back; three sequences on
three blocks cannot all be cached, so every plan competes for evictions with nodes
others have matched, split or not written yet; two siblings are the least that lets
one replica fail while another runs; two slots for four jobs fill the pool and reuse
slots; two handles are the least for which the order of arrival matters, and the most
the code configures; two event sets for three loads are reused while the first is in
use; 7 control requests let a time-out be followed by a late reply, a retry and a
second sleep; with two hashes and two blocks a block is evicted and reused for the
same and for another hash while the peer still holds the old entry; four trees let a
reader outlive two rebuilds; three nodes let one die while two meet at the barrier.

Where a bound or an assumption hides something, it is named:

* The SSD of the passing cache runs never evicts ahead of need, because one that does
  shows the flaw of `cache_engine_unready_source`.
* `LeaseCovers` passes with `SafetyTTL >= 2 * RenewEvery`, renewals on time, evict
  calls shorter than a clock unit, and `Prompt` (publications leave the queue before
  the next eviction). Without them it fails (`lease_overrun`). Peer nodes whose lease
  was fetched again by hash are excluded: the block id is not fetched with it, so
  after an eviction and a new insertion of the hash the peer reads the old block with
  a new lease. With `LeaseLimit = 2` no node is without a lease.
* `LiveNodesKept` needs `StartsApart`: HSET and EXPIRE of a registration are two
  commands, and a process of the same host that starts between them takes the key
  without a time to live for a dead one's. The heartbeat never registers again. Ids
  stay below 10: the clean-up pattern `meta:<id>*` also takes the ids that begin with
  the same digits.
* `ResetTogether` needs `JoinsApart`: a node that registers during a reset joins the
  open epoch after others have passed the barrier.
* `AnswersAreOwn` exempts a client whose earlier incarnation was refused: when the
  later one registers first, the earlier one's registration raises, and its requests,
  still in the inbox, are answered to the later one. Three waiting requests
  (`MaxInbox`) are the least that reach this. Two calls do not merge a batch of
  several tasks at the server, which takes three; what a merge does to the table is
  not what the two server properties are about.
* `WaitsAreBacked` exempts a rank group in which a rollback raised because a wait had
  begun (`broken`), and until the next reset a leader whose batch ended between the
  choice of its event set and the registration (`stuck`): `set_consumer` has then named
  a finished set, no rollback takes that back, and later loads are refused until the
  ring comes round to the set or a reset comes.
* `NoFreedMapping` has `GoesOn = FALSE`: ranks do not sleep again after a wake-up that
  failed. The vLLM adapter with a synchronous wait is exempt from
  `WaitersAreTracked`. `PlanSettles` exempts tasks a raising batch stranded.

Deadlock is checked in the cache runs; the others may stop, because their ids
(graphs, tasks, jobs, calls) are used once.

### Fairness

* `TransferEngine`: the scheduler thread (`Tick`) runs while it has work, since
  `select()` returns as long as a queue is readable; a worker that lives answers every
  job (`TransferWorkerBase.run` turns exceptions into failure reports); the task layer
  polls. A dead worker is exempt: `EveryGraphEnds` says so.
* `KVTask`: handles end every graph (what `EveryGraphEnds` shows of them), and
  callers poll, launch or cancel what they matched, and ask for the answer of what
  they launched. The last is an assumption about callers: a task that is matched and
  forgotten keeps its plan until the table expires it, which is not modelled.
* `ProcessTree`: joins with time-outs return, the manager's thread and its signal
  handler run, and a worker that is not hung runs. Hanging and dying are never fair.
* `RemoteManager`: sockets are read by polling threads that never stop; ranks send
  the mapping of a task they launched.

## 4. Proofs

| Module | Theorems | Inductive invariant and why it is needed |
|---|---|---|
| `PoolProofs` | `AccountCorrect`, `SoleOwnerAlways`, `MempoolImplementsPool` | `Account` = `TypeOK`, `NumFreeExact`, `SnapshotIsFree`, `SoleOwner`. The counter is exact only because what is handed out was free, which follows from the unread part of the snapshot being free; so the four are proved together |
| | `WorkersReadOwnIds`, `CountsExact` | `PoolInv` = types, `RefCountExact`, `KeyMapped`, `MapFilled`, `InPhase`. That a worker reads its own ids needs that a mapped slot holds its key and that a slot somebody holds is neither free nor remapped |
| | `BatchOrder` | `BatchInv`: the merged graph is the merge of its batch, no batch has gets and puts, and what is complete has its predecessors complete. The rest is by cases over the three merges, from what a configuration can plan (`Plannable`): the workers a configuration creates are those its plans need only because a plan moves between tiers it has |
| `TransferEngineProofs` | `SchedulerTypes`, `DependencyOrderAlways`, `CompletionReportAlways` | `SchedInv` = types, `PredsDone` (what an op no longer waits for has completed), `StartedFree`, `ReadyFree`, `FinishedStarted`, `KnownGraphs`, `CompletionReport`. Release does not look at predecessors again, so the ready set must be known to have none left |
| | `NoStrandedWorkAlways`, `MarksRunningAlways` | `DrainInv` next to `SchedInv`: the ready set of a graph has every op that waits for nothing, and a graph that is not queued has none of these. That something runs in a graph that is left alone is where acyclicity enters: the ops that have not completed have a least one |
| | `EngineTypesAlways`, `SlotsBalancedAlways`, `TerminalMeansQuietAlways`, `EngineCorrect` | `EngineInv` = the scheduler's invariants, what the phases of a tick leave behind (`Phases`), each job reported once (`JobsOnce`), `pending_count` equal to the reports to come (`CountsExact`), ops under way running and not dispatched again (`MovingRuns`), failed graphs out of the scheduler (`FailedApart`), ended graphs known to no part (`EndedForgotten`). A terminal is sent when the last pending count reaches zero, so it is quiet only because the counts are exact |
| | `EngineSchedules`, `EngineImplementsHandle` | every step of the engine is a step of the scheduler or leaves it alone; and, with `HandleInv` (`SaidOnce`, `DoneIsSaid`), a step of `TransferHandle` or a stutter |
| `CacheProofs` | `CacheInvariant`, `Accounted`, `Held`, `Shapes`, `CacheTypesOK` | `CacheInv` = `CacheTypes`, for each tier the account of its blocks with the shape and the leaf table of its tree (`AccountOf`, over `Tier`: `Shape`, `LeavesExact`, blocks in one place each), what an open plan holds is there (`PlanOK`), lock counts are the holds of the open plans (`LocksCounted`). `take` evicts between a plan's match and its insert, so the account needs that the matched node survives, which needs that a locked node has nothing above it evicted; that needs the locks to be exact, and exact locks need that splits and shrinks leave the held boundaries in place. No conjunct is inductive alone |
| `KVTaskProofs` | `KVTaskTypesAlways`, `PublishedEverywhereAlways`, `SuccessIsEarnedAlways`, `CountersDrainedAlways`, `SettledOnceAlways`, `ReleasedWhenQuietAlways`, `KVTaskCorrect` | `TableInv` (what a graph resolves to holds its plans, alone: `Mapped`, `OwnPlans`, `HeldPlans`), `ChannelInv` (a handle's queue says each thing once, truly, the end last; a counter is the number of handles whose copy was read, `Counts`), `AnswerInv` (early and final answers have their work done on every handle). The two action properties follow from one step of it |
| `SharingProofs` | `FreedIndexUnreachable` | `SwapInv`: a tree has one owner (current, previous, being dropped), its count is that owner plus its readers, and what is queued for renewal lies in a tree that is owned |
| | `ResetIsTogether` | `BarrierInv`: who is through the barrier has seen every registered node arrive, who has arrived has no keys and no copy and stays out until the epoch closes, and nobody of the same epoch is left behind |
| | `NodeKeysStay`, `LiveNodesStay` | `NodeInv` and `MetaFresh`: ids are held by one process, and the age of a key is bounded by the heartbeat that is due, so what a clean-up takes for stale belongs to a dead process |
| | `LeasesCover` | `LeaseInv`: a node that is renewed has the whole of its last renewal (`LeasesRenewed`); a hash Redis is renewed for is held under the id Redis has, and is renewed in memory too or its mark is on the way to the refresh thread with a bound on its age, which depends on the phase of the round (`NormalKept`, `MarkComing`); a queued publication is still true of its node (`PublishedAsKept`); a lease that runs in Redis or at the peer runs as long in memory (`RedisKept`, `PeerKept`). A mark can miss one report and be a period older than that round, so two periods are the margin the argument needs |
| `ServiceProofs` | `ManagerIsLastAlways` | `TreeInv`: while the manager stops its workers, a handle it is done with has no live process behind it |
| | `NoFreedMappingAlways` | `RemapInv`: a rank has one request under way; memory generations of the ranks differ by the wake-up in progress only; request ids are apart and an answered request is in no pipe; a resume still in a pipe is the one waited for, or a wake-up has failed; a granted suspend has every worker unmapped. A late reply is harmless only because of the ids, a late resume only because its payload is not freed yet |
| | `SyncCallsAnsweredAlways`, `AnswersAreOwnAlways` | `ServerInv`: a port belongs to one incarnation of one client and its requests stay in order (`PortsUsed`, `SentBy`, `InOrder`); it registers once, and once that was handled it is the registered one, unless one of this client was refused (`RegistersOnce`, `Served`); of the synchronous requests of a client at most one is under way (`OneAnswer`); ids of requests under way are new until the counter wraps (`FreshIds`). An answer goes to whoever is registered under the sender's id, so it is the sender's own only because of `Served` |
| `ConnectorProofs` | `StoreSlotsHeldAlways` | `SgInv`: the leader has every running store under its key, tasks are numbered apart, and in a follower's queue a release names stores that have ended, and a store that runs comes after every reset that is still in front of the follower |
| | `NoEarlyLayerAlways`, `WaitsAreBackedAlways` | `CtrInv`: a load the worker still copies is in the batch of every rank, under the consumer's event set (`Delivery`, `BatchLaunched`); of a layer the pass has not come to, that set awaits as many signals as the batch has loads and holds as many as have copied the layer (`RankCounts`); a wait under way takes the whole batch, or is left over from a finished set while nothing is on its way (`RankWaits`); every other set is free or armed and empty (`ClosedSets`). A signal does not say whose it is, so a layer is safe only because these counts are exact |
| | `CollectivesAgreeAlways` | `CommInv`: between a rank and the source it has in a hop, the payloads of a channel on the way are exactly those the source has sent and the rank has not received, in their order (`OnTheWay`); who leads or has received in an earlier hop has the payload of its own operation (`Informed`), so what a source sends is right; a value is the minimum over the tensor group, the stage, the stages heard from, all ranks, by the stage of the reduction its rank is at (`Parts`, `HeardLate`), and a message of the reduction says the like (`NetSays`). A receive takes the oldest message of its tag, which is that of its own operation only because the counts of both sides fit. That every rank but the leader receives before it sends, and that the tensor groups of a context group make up its stage, is arithmetic of the places (`PlaceOf`, `Routed`, `CpGroupOf`), for every topology |
| `AdapterProofs` | `ConnectorTables`, `WaitersTracked`, `BlocksStay`, `FailuresFlagged`, `PlansRemembered` | `ConnInv` relates three tables no single handler sees, the connector's dictionaries, the manager's tasks and the framework's requests: the manager's matched plans are exactly those to launch or to cancel (`PlansKnown`), what is asked for was launched (`RunsAsked`), a request has one known task at most, and then an entry (`OneTask`), the requests of a submitted task wait for it and those of a put have ended (`BlocksKept`), a request with an entry does not run (`Entries`), reports on their way are about forgotten tasks (`Reports`). A callback writes what another reads a step later, so each property needs what all the callbacks between leave there |

They hold for every value of the constants: capacities, sets of holders, graphs and
dependencies, replicas, workers, tasks, handles, ranks, clients, nodes, readers, loads,
layers, event sets, topologies and times to live, from the named assumptions of the modules only (`PoolAssumption` and its like:
finite sets, ranges; `SeqsAssumption`: the sequences are sequences). `AcyclicAssumption` says of the dependency relation that every
nonempty set of ops has one without a predecessor in the set, which is what
`add_dependency` of a graph built in order gives.

Where a theorem has a hypothesis, it is the one the run has, and the property fails
without it:

* `EngineImplementsHandle` has `CanCrash = {}`. When a worker has died, a dispatch to
  it raises in the scheduler thread's round; the messages of virtual ops that
  completed in the same round are then never sent, and the graph ends without them.
* `NoFreedMappingAlways` has `GoesOn = FALSE`, `ResetIsTogether` has `JoinsApart`,
  `NodeKeysStay` and `LiveNodesStay` have `StartsApart`, the last also `NoPrefix` (no
  id begins with the digits of another): section 3 says what goes wrong otherwise.
* `LeasesCover` has `LeaseMargin`: `Prompt`, and a safety margin of at least two
  renewal periods. TLC finds a counterexample when either is dropped, with one period
  as margin too; the defaults have 100 ms against 4000 ms (`lease_overrun`).

The refinement theorems show that `Init` maps to initial states of the abstract
specification and every step to a step or a stutter. Each inductive invariant was
model-checked before it was proved. A proof that could not be found was a finding
three times: `AnswersAreOwn` did not hold as first stated (section 3); the abstract
handle had to become one log of all messages, because per-graph logs cannot say in
which order the task layer sees them; and the waits of `LayerCounter` had to become two
steps, because `wait_until` marks the event set before it blocks, which is what a
rollback or a registration meanwhile sees. One proof showed code that never acts: a
preempted request has run, so its get was answered and has no entry any more, and
`handle_preemptions` finds no task to take back (`NothingToTakeBack`).

Only model-checked: liveness (`EveryGraphEnds`, `PlanSettles`, `ShutdownEnds`) and
everything that needs `ENABLED`, which the prover does not do; and, of
the cache engine, `ReadyIsWritten`, `SourcesIntact` and `CacheConsistent`, which speak of
the contents of blocks and of ops still to run. `ReadyIsWritten` does not hold in every
configuration (`cache_engine_unready_source`), so a theorem would have to single out the
configurations first. What a recursive definition computes for all inputs needs
induction over data, which is out of the prover's reach: so does `OwnBlocksOnly`, which
is about the concatenations of `BatchGraph`.

The proof of the cache engine goes from the bottom up. `HashAt`, `IsPrefix` and `SubSeq`
are dealt with once, so that no later step looks into a sequence. Then what each
operator of `RadixTree` keeps: `insert` at the matched node, with the split inside an
edge, keeps `Shape` and `LeavesExact` and adds just its blocks; `Without` cuts a set
that is closed downwards, and the sets `EvictChoices` and `UnreadyLeaf` give are of that
kind and hold nothing locked or above a lock. The four planners (get and put, local
and with a remote tier or the store) are shown once to leave good tiers and a good plan
(`ResultOK`); that any such result may be adopted, and that op callbacks, completion,
abort and reset keep `CacheInv`, is one lemma each. Two things a reviewer of the code
would ask are answered on the way: an abort removes a node only if nobody else holds or
extends it, so no other plan's blocks are given back twice; and `insert` is never
refused as stale (`NeverStale`), although the tree may have been cut since the match.

## 5. Not modelled

Listed with reasons in `PROJECT.json`. In short: the C++ twin of the prefix index;
SWA slots on tree nodes (their ops in batches are); plans that read from a peer;
splits, shrinks and the merge of several owners' trees in the distributed index, the
lease pool's free list and Redis commands that fail; the worker sides of the
connectors and their start-up; the 30-minute expiry of the task table and return
masks. Kernels, I/O, allocators, memory handles, configuration, metrics and wrappers
of external stores move data or set things up and have no control state of the cache.

`abort_transfer_plan` can leave an unready inner node when a later plan has already
inserted below the aborted one. The code documents that; the part of `CacheConsistent`
about holes is therefore stated where plans are not aborted.

## 6. Findings

Each of these is a run that TLC must find violated.

* `kvtask_cancel_running`: cancelling a task in flight releases it, its graph no
  longer resolves, no callback runs, and its locks, unready nodes and staging blocks
  are never given back. The comment in `_cancel_task` expects the callbacks to fire.
* `cache_engine_unready_source`: `put` may copy a matched but unwritten CPU block to
  the SSD and publish it, when the SSD has lost a prefix another put is just bringing
  back.
* `service_orphan`: the manager process holds a copy of the parent's end of its
  command pipe, so it never sees the end of file when the parent dies.
* `service_dead_worker`: the SIGCHLD handler takes the exit status of a worker that
  died while starting; `is_alive` then says True for ever and the start never fails.
* `remote_submit`: the slot mapping of a graph submitted alone goes to the
  registration port, which is no longer read; the graph waits for ever.
* `lease_overrun`: Redis is renewed for a block already marked about to evict, so a
  peer is promised a block longer than its owner keeps it.

Seen while modelling, kept as definitions or assumptions and without a run of their own:

* `SyncWaitersAreTracked` (FLEXKV_SYNC_GET): `wait_for_all_get_tasks` takes finished
  gets out of the tables and nobody reports them.
* `LoadCountAgrees`: only SGLang's leader sees a failed or late load, the other ranks
  return all slots. After the leader's 30 s time-out the slots are freed while the
  load runs. A store whose launch raises keeps its put plan.
* `TransfersSeeMappings`: a transfer dispatched between the check of a suspend and its
  control request runs on released mappings.
* A batch with an already completed member raises after other members were made
  RUNNING; nothing is submitted for them (`Stranded`). A batched GET with SSD
  write-back raises "cannot mix GET and PUT"; callbacks of virtual ops are dropped by
  a merge; under layerwise loading no worker takes DISK2H.
* With a second node, op messages its manager does not forward leave the local copies
  counted for ever; only failed graphs purge their counters.
* A client that launches a one-task batch gets a batch id the engine does not know
  (`client.py:222`, `kvtask.py:1826`).
* A heartbeat whose HSET comes after the unregistration leaves a node key without a
  time to live, for which every later reset waits until it times out; a reset that
  times out leaves the refresh threads stopped.
* `remote_cache_engine.insert_and_publish` (`cache_engine.py:3454`) does not exist on
  `HierarchyLRCacheEngine`.

## 7. Plan

Done, in this order: pool, scheduler, engine, id slots, tasks, tree and cache engine
with remote tiers; batches; processes, sleep and wake, remote managers; connectors and
server; leases, index swap, registry and reset between nodes.

Theorems, in this order: block account, scheduler, id slots; then index swap, reset
barrier and registry, the engine and its refinement, tasks, process tree, sleep and
wake, server and clients, SGLang's stores and layerwise loads, the two step-driven
adapters, leases, batches, and the prefix index with the cache engines over it.

Next, in this order:

1. Theorems: `SourcesIntact` over `CacheInv` and what each op of a plan reads and
   writes, and from it `ReadyIsWritten` for the configurations where it holds.
2. SWA slots mounted on tree nodes, with pins and merge.
3. `LeaseIndex` with nodes of several blocks, splits and two owners.
4. The C++ index, compared with `RadixTree` operation by operation.
