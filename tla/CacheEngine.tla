------------------------------ MODULE CacheEngine ------------------------------
(***************************************************************************)
(* flexkv/cache/cache_engine.py: the cache engines of the tiers, the plans *)
(* GlobalCacheEngine makes over them when no remote tier takes part, and   *)
(* what becomes of any plan: its transfers with the data they move, op     *)
(* callbacks, completion with deferred inserts, abort, reset.              *)
(* GlobalCacheEngine.tla adds the plans that use a remote tier.  Not here: *)
(* peer tiers, SWA.                                                        *)
(*                                                                         *)
(* Making a plan is one step (it runs under the tree lock), and so is each *)
(* callback; the transfers of the open plans run in between, in any order  *)
(* their dependencies allow.  Blocks come from a pool as BlockPool         *)
(* promises.                                                               *)
(***************************************************************************)
EXTENDS RadixTree

CONSTANTS
  Plans,        \* ids of plans; an id is free again when its plan is settled
  Configs       \* the configurations to consider, each with its workload

Tiers == {"CPU", "SSD", "REMOTE"}

ASSUME CacheAssumption ==
  /\ IsFiniteSet(Plans)
  /\ \A c \in Configs :
       /\ c.ssd \in BOOLEAN /\ c.gds \in BOOLEAN
       /\ c.remote \in {"none", "index", "store"}
       /\ c.num_blocks \in [Tiers -> Nat]
       /\ c.target_free \in [Tiers -> Nat] /\ c.min_evict \in [Tiers -> Nat]
       /\ c.aborts \in BOOLEAN
       /\ c.seqs \subseteq Seqs
       /\ c.plans \in Nat

VARIABLES
  tree,      \* tree[t]: the index of tier t
  free,      \* free[t]: the free blocks of its pool
  content,   \* content[t][b]: the prefix whose data block b holds
  plan,      \* plan[p]: the open plan p
  conflict,  \* an insert was refused as stale
  conf       \* cache_config, fixed from the start

(* conf has the fields of the configuration:
     ssd, gds       enable_ssd, enable_gds
     remote         none, a tier with an index of its own, or the key-addressed
                    store (use_mooncake_store_backend)
     num_blocks[t]  blocks of tier t
     target_free[t] free blocks eviction aims at, from evict_start_threshold
     min_evict[t]   blocks evicted at least, from evict_ratio
   and the bounds of the workload considered with it:
     seqs           sequences asked for
     plans          plans open at a time
     aborts         plans are cancelled, or their transfers fail *)

vars == <<tree, free, content, plan, conflict, conf>>

(* CacheStrategy: what put passes and get defaults to, what get_match passes
   for cpu_only, and what prefetch_async passes. *)
DEFAULT == [ignore_gpu |-> FALSE, ignore_ssd |-> FALSE, ignore_gds |-> FALSE,
            ignore_remote |-> FALSE]
CPUONLY == [ignore_gpu |-> FALSE, ignore_ssd |-> TRUE, ignore_gds |-> TRUE,
            ignore_remote |-> TRUE]
PREFETCH == [ignore_gpu |-> TRUE, ignore_ssd |-> FALSE, ignore_gds |-> TRUE,
             ignore_remote |-> FALSE]

Blocks == [t \in Tiers |-> 1 .. conf.num_blocks[t]]
Junk == <<"junk">>
None == [open |-> FALSE]

Init ==
  /\ conf \in Configs
  /\ tree = [t \in Tiers |-> EmptyTree]
  /\ free = Blocks
  /\ content = [t \in Tiers |-> [b \in Blocks[t] |-> Junk]]
  /\ plan = [p \in Plans |-> None]
  /\ conflict = FALSE

Greater(a, b) == IF a > b THEN a ELSE b
-----------------------------------------------------------------------------
(* CacheEngine.take, strict = FALSE.  How much it evicts first: *)
EvictNum(t, num) ==
  LET have == Cardinality(free[t]) IN
  IF have <= conf.target_free[t] \/ num > have
    THEN Greater(num - have, Greater(conf.target_free[t] - have, conf.min_evict[t]))
    ELSE 0

(* and what: protected, the node the plan will insert below, stays. *)
TakeEvicts(t, num, protected) ==
  IF EvictNum(t, num) > 0
    THEN EvictChoices(lock(tree[t], protected), EvictNum(t, num)) ELSE {{}}

(* Seeded fault: evicted blocks are not given back. *)
FreeAfter_lost(t, gone) == free[t]

(* evicted or rolled back blocks go back to the pool. *)
FreeAfter(t, gone) == free[t] \cup {tree[t].phys[h] : h \in gone}

(* The n-th block of a set of blocks. *)
Nth(S, n) == CHOOSE b \in S : Cardinality({c \in S : c < b}) = n - 1

(* Blocks for the prefixes from + 1 .. to of seq, out of pool. *)
Allocate(pool, seq, from, to) ==
  [h \in {HashAt(seq, n) : n \in from + 1 .. to} |-> Nth(pool, Len(h) - from)]

BlocksOf(f) == {f[h] : h \in DOMAIN f}

(* A transfer: moves[h] is the pair of the source and the destination block of
   prefix h; src "GPU" stands for data the serving engine provides, "STORE"
   for the key-addressed store.  It runs after the ops of the plan at the
   positions in after; publish names the node its callback makes ready. *)
Op(src, dst, moves, publish, after) ==
  [src |-> src, dst |-> dst, moves |-> moves, publish |-> publish,
   after |-> after]
NoNode == [tier |-> "none", node |-> Root, len |-> 0]
Node(t, T, e) == [tier |-> t, node |-> e, len |-> size(T, e)]

(* DeferredCacheInsert: blocks that are in no tree until the graph is complete.
   They hold the prefixes from + 1 .. to of seq, from remote + 1 on as far as
   the load brought them (load), which is only known then. *)
Deferred(t, seq, blocks, from, remote, to, load) ==
  [tier |-> t, seq |-> seq, blocks |-> blocks, from |-> from,
   remote |-> remote, to |-> to, load |-> load]

(* TransferPlanHandle: a new plan, and one that has gone on. *)
PlanOf(ops, nodes, buffer, deferred, loaded, moved, called) ==
  [open |-> TRUE, ops |-> ops, nodes |-> nodes,
   buffer |-> buffer,  \* CPU blocks of no node
   deferred |-> deferred,
   loaded |-> loaded,  \* what the store returned (MooncakeLoadResult)
   moved |-> moved, called |-> called]
NewPlan(ops, nodes, buffer, deferred) == PlanOf(ops, nodes, buffer, deferred, {}, {}, {})
GoneOn(P, loaded, moved, called) ==
  PlanOf(P.ops, P.nodes, P.buffer, P.deferred, loaded, moved, called)

(* Seeded fault: a plan does not lock its nodes. *)
LockAll_none(T, t, nodes) == T

(* The locks get() and put() take on the nodes of a plan. *)
LockAll(T, t, nodes) ==
  IF \E n \in nodes : n.tier = t
    THEN lock(T, (CHOOSE n \in nodes : n.tier = t).node) ELSE T
-----------------------------------------------------------------------------
(* match_local: the matches of seq in the tiers a strategy looks at. *)
match_local(seq, strategy) ==
  [t \in Tiers |-> match_prefix(IF t = "SSD" /\ strategy.ignore_ssd
                                  THEN EmptyTree ELSE tree[t], seq)]
uses_ssd(strategy) == conf.ssd /\ ~strategy.ignore_ssd
uses_gds(strategy) == conf.gds /\ ~strategy.ignore_gds

(* A plan that was made, or what a refused one leaves: what take() evicted is
   gone, what it allocated is back. *)
Made(trees, pools, thePlan) ==
  [trees |-> trees, pools |-> pools, plan |-> thePlan, stale |-> FALSE]
Refused(trees, pools, stale) ==
  [trees |-> trees, pools |-> pools, plan |-> None, stale |-> stale]

(* put and get end alike: the plan's nodes are locked, its callbacks kept. *)
Adopt(p, r) ==
  /\ tree' = IF r.plan.open
               THEN [t \in Tiers |-> LockAll(r.trees[t], t, r.plan.nodes)]
               ELSE r.trees
  /\ free' = r.pools
  /\ plan' = [plan EXCEPT ![p] = r.plan]
  /\ conflict' = (conflict \/ r.stale)
  /\ UNCHANGED <<content, conf>>

(* How many blocks a put needs in each tier.  It writes what the CPU tier has
   not matched, ready or not; nothing if that is all. *)
PutFragments(seq) ==
  LET m == match_local(seq, DEFAULT) IN
  [t \in Tiers |-> IF t = "REMOTE" \/ (t = "SSD" /\ ~conf.ssd) THEN 0
                    ELSE Len(seq) - m[t].matched]

(* _put_impl_local, after its takes evicted gone[t] from tier t.  The H2DISK
   transfer reaches back into the matched CPU blocks when the SSD has matched
   less than the CPU. *)
put_impl_local(seq, gone) ==
  LET m == match_local(seq, DEFAULT)
      need == PutFragments(seq)
      into == {t \in Tiers : need[t] > 0}
      left == [t \in Tiers |-> Without(tree[t], gone[t])]
      pool == [t \in Tiers |-> FreeAfter(t, gone[t])]
      new == [t \in Tiers |-> Allocate(pool[t], seq, Len(seq) - need[t], Len(seq))]
      grown == [t \in Tiers |->
                  IF t \in into
                    THEN insert(left[t], seq, m[t].matched, Len(seq), new[t])
                    ELSE left[t]]
      node(t) == Node(t, grown[t], seq)
      d2h == Op("GPU", "CPU",
                [h \in DOMAIN new["CPU"] |-> <<h, new["CPU"][h]>>], node("CPU"), {})
      h2disk == Op("CPU", "SSD",
                   [h \in DOMAIN new["SSD"] |->
                      <<grown["CPU"].phys[h], new["SSD"][h]>>], node("SSD"), {1})
      enough == \A t \in into : need[t] <= Cardinality(pool[t])
      valid == \A t \in into : ValidTarget(left[t], seq, m[t].matched)
  IN IF enough /\ valid
       THEN Made(grown,
                 [t \in Tiers |-> pool[t] \ BlocksOf(new[t])],
                 NewPlan(IF "SSD" \in into THEN <<d2h, h2disk>> ELSE <<d2h>>,
                         {node(t) : t \in into}, {}, {}))
       ELSE Refused(left, pool, enough)

-----------------------------------------------------------------------------
(* What a get can load of seq beyond its first start blocks, which the GPU
   has: fragment 1 is ready in the CPU tier, fragment 2 in the SSD tier only. *)
GetFragments(seq, start, strategy) ==
  LET m == match_local(seq, strategy)
      ready(t) == Greater(m[t].ready - start, 0)
  IN <<ready("CPU"), Greater(ready("SSD") - ready("CPU"), 0)>>

(* CPU blocks a get needs for fragment 2: none when GDS reads the SSD. *)
Staging(seq, start, strategy) ==
  IF uses_gds(strategy) THEN 0 ELSE GetFragments(seq, start, strategy)[2]

(* _get_impl_local, after its take evicted gone.  The staging blocks stay in
   the CPU tree if they continue a prefix all of which is ready; otherwise
   they are given back at the end.  A prefetch stops at the CPU. *)
get_impl_local(seq, start, strategy, gone) ==
  LET m == match_local(seq, strategy)
      f == GetFragments(seq, start, strategy)
      f1 == start + f[1]
      f2 == f1 + f[2]
      staged == Staging(seq, start, strategy)
      cpu == Without(tree["CPU"], gone)
      pool == FreeAfter("CPU", gone)
      enough == staged <= Cardinality(pool)
      keep == /\ staged > 0
              /\ m["CPU"].ready >= start
              /\ m["CPU"].ready = m["CPU"].matched
      valid == keep => ValidTarget(cpu, seq, m["CPU"].matched)
      new == Allocate(pool, seq, f2 - staged, f2)
      grown == IF keep THEN insert(cpu, seq, m["CPU"].matched, f2, new) ELSE cpu
      nodeC == Node("CPU", grown, IF keep THEN HashAt(seq, f2)
                                  ELSE m["CPU"].last_ready_node)
      nodeS == Node("SSD", tree["SSD"], m["SSD"].last_ready_node)
      ssd(h) == tree["SSD"].phys[h]
      disk2h == Op("SSD", "CPU", [h \in DOMAIN new |-> <<ssd(h), new[h]>>],
                   IF keep THEN nodeC ELSE NoNode, {})
      disk2d == Op("SSD", "GPU",
                   [h \in {HashAt(seq, i) : i \in f1 + 1 .. f2} |-> <<ssd(h), h>>],
                   nodeS, {})
      h2d == Op("CPU", "GPU",
                [h \in {HashAt(seq, i) : i \in start + 1 .. f1} \cup DOMAIN new |->
                   <<IF h \in DOMAIN new THEN new[h] ELSE cpu.phys[h], h>>],
                NoNode, IF staged > 0 THEN {1} ELSE {})
      fromDisk == IF f[2] = 0 THEN <<>>
                  ELSE IF uses_gds(strategy) THEN <<disk2d>> ELSE <<disk2h>>
      toGPU == IF strategy.ignore_gpu THEN <<>> ELSE <<h2d>>
  IN IF enough /\ valid
       THEN Made([tree EXCEPT !["CPU"] = grown],
                 [free EXCEPT !["CPU"] = pool \ BlocksOf(new)],
                 NewPlan(fromDisk \o toGPU,
                         IF uses_ssd(strategy) THEN {nodeC, nodeS} ELSE {nodeC},
                         IF keep THEN {} ELSE BlocksOf(new), {}))
       ELSE Refused([tree EXCEPT !["CPU"] = cpu],
                    [free EXCEPT !["CPU"] = pool], enough)

-----------------------------------------------------------------------------
(* The transfers of a plan that may run. *)
CanRun(p) == {i \in DOMAIN plan[p].ops \ plan[p].moved :
                plan[p].ops[i].after \subseteq plan[p].moved}

(* A load from the store may fail for any of its blocks; the worker then
   reports which, and what is in them is anybody's guess. *)
Outcomes(op) == IF op.src = "STORE" THEN SUBSET DOMAIN op.moves
                ELSE {DOMAIN op.moves}

(* The data plane runs a transfer, with the blocks in ok copied (external). *)
Move(p, i, ok) ==
  LET op == plan[p].ops[i]
      from(h) == IF h \notin ok THEN Junk
                 ELSE IF op.src \in {"GPU", "STORE"} THEN h
                 ELSE content[op.src][op.moves[h][1]]
      to == {op.moves[h][2] : h \in DOMAIN op.moves}
  IN
  /\ content' =
       IF op.dst \in {"GPU", "STORE"} THEN content
       ELSE [content EXCEPT ![op.dst] = [b \in DOMAIN @ |->
         IF b \in to
           THEN from(CHOOSE h \in DOMAIN op.moves : op.moves[h][2] = b)
           ELSE @[b]]]
  /\ plan' = [plan EXCEPT ![p] = GoneOn(@, IF op.src = "STORE" THEN ok ELSE @.loaded,
                                        @.moved \cup {i}, @.called)]
  /\ UNCHANGED <<tree, free, conflict, conf>>

(* Seeded fault: the callbacks run when the graph is launched. *)
OpMayPublish_early(p) == DOMAIN plan[p].ops \ plan[p].called

(* The ops that are done and whose callback has not run. *)
OpMayPublish(p) == plan[p].moved \ plan[p].called

op_callback(p, i) ==
  /\ LET n == plan[p].ops[i].publish IN
     tree' = IF n.len = 0 THEN tree
             ELSE [tree EXCEPT ![n.tier] = set_ready(@, n.node, n.len)]
  /\ plan' = [plan EXCEPT ![p] = GoneOn(@, @.loaded, @.moved, @.called \cup {i})]
  /\ UNCHANGED <<free, content, conflict, conf>>

(* Seeded fault: what was loaded counts, not how far it goes without a gap. *)
publish_end_counted(d, loaded) ==
  IF d.load THEN d.remote + Cardinality(loaded) ELSE d.to

(* How far a deferred insert has its data: MooncakeLoadResult.successful_prefix
   of the load, or all of it. *)
publish_end(d, loaded) ==
  IF d.load
    THEN Greatest({n \in d.remote .. d.to :
                     \A i \in d.remote + 1 .. n : HashAt(d.seq, i) \in loaded})
    ELSE d.to

(* The blocks of a deferred insert that go back to the pool. *)
Unused(d, used) == {d.blocks[h] : h \in DOMAIN d.blocks \ used}

(* _commit_deferred_insert: match again, and publish what the tree lacks now,
   unless somebody else is writing there or the tree has become shorter.  The
   node is inserted and made ready in one step. *)
commit_deferred_insert(T, d, loaded) ==
  LET end == publish_end(d, loaded)
      m == match_prefix(T, d.seq)
      used == {HashAt(d.seq, i) : i \in m.matched + 1 .. end}
      grown == insert(T, d.seq, m.matched, end, [h \in used |-> d.blocks[h]])
  IN IF m.matched # m.ready \/ m.matched < d.from \/ m.matched >= end
       THEN [tree |-> T, unused |-> Unused(d, {})]
       ELSE [tree |-> set_ready(grown, HashAt(d.seq, end), end - m.matched),
             unused |-> Unused(d, used)]

(* _transfer_callback: the graph is complete. *)
transfer_callback(p) ==
  LET done(t) ==
        IF \E d \in plan[p].deferred : d.tier = t
          THEN commit_deferred_insert(tree[t],
                 CHOOSE d \in plan[p].deferred : d.tier = t, plan[p].loaded)
          ELSE [tree |-> tree[t], unused |-> {}]
  IN
  /\ plan[p].open
  /\ plan[p].called = DOMAIN plan[p].ops
  /\ tree' = [t \in Tiers |->
       IF \E n \in plan[p].nodes : n.tier = t
         THEN LET n == CHOOSE n \in plan[p].nodes : n.tier = t
              IN set_ready(unlock(done(t).tree, n.node), n.node, n.len)
         ELSE done(t).tree]
  /\ free' = [t \in Tiers |-> free[t] \cup done(t).unused \cup
                IF t = "CPU" THEN plan[p].buffer ELSE {}]
  /\ plan' = [plan EXCEPT ![p] = None]
  /\ UNCHANGED <<content, conflict, conf>>

(* The blocks of tier t that are neither free nor in the tree but the plan's. *)
Staged(p, t) ==
  (UNION {BlocksOf(d.blocks) : d \in {e \in plan[p].deferred : e.tier = t}})
    \cup IF t = "CPU" THEN plan[p].buffer ELSE {}

(* Seeded fault: the rolled back node is not looked at again. *)
RolledBack_whatever(T, e) == Run(T, e)

(* rollback_unready_insert, on the unlocked tree. *)
RolledBack(T, e) == UnreadyLeaf(T, e)

(* _abort_transfer_plan: the plan was never launched, or one of its transfers
   failed and the others have drained. *)
abort_transfer_plan(p) ==
  LET held(t) == {n \in plan[p].nodes : n.tier = t}
      unlocked(t) == IF held(t) = {} THEN tree[t]
                     ELSE unlock(tree[t], (CHOOSE n \in held(t) : TRUE).node)
      gone(t) == UNION {RolledBack(unlocked(t), n.node) : n \in held(t)}
  IN
  /\ conf.aborts
  /\ plan[p].open
  /\ plan[p].called = plan[p].moved
  /\ plan[p].moved # DOMAIN plan[p].ops
  /\ tree' = [t \in Tiers |-> Without(unlocked(t), gone(t))]
  /\ free' = [t \in Tiers |-> FreeAfter(t, gone(t)) \cup Staged(p, t)]
  /\ plan' = [plan EXCEPT ![p] = None]
  /\ UNCHANGED <<content, conflict, conf>>

(* GlobalCacheEngine.reset, at the quiesced boundary reset_cache asks for. *)
reset ==
  /\ \A p \in Plans : ~plan[p].open
  /\ tree' = [t \in Tiers |-> EmptyTree]
  /\ free' = Blocks
  /\ UNCHANGED <<content, plan, conflict, conf>>
-----------------------------------------------------------------------------
Open == {p \in Plans : plan[p].open}

(* Types: lock counts stay natural (unlock asserts it), and only nodes of the
   tree are ready. *)
TypeOK ==
  /\ \A t \in Tiers :
       /\ tree[t].phys \in [Cached(tree[t]) -> Blocks[t]]
       /\ tree[t].is_ready \subseteq tree[t].ends
       /\ tree[t].ends \subseteq Cached(tree[t])
       /\ tree[t].lock_cnt \in [Hashes \cup {Root} -> Nat]
  /\ free \in [Tiers -> SUBSET UNION {Blocks[t] : t \in Tiers}]
  /\ conflict \in BOOLEAN

(* Every block is in one place: free, in the tree once, or staging memory of
   one plan.  None leaks when a plan is refused, aborted or completed. *)
BlocksAccounted ==
  \A t \in Tiers :
    LET inTree == BlocksOf(tree[t].phys)
        staged(p) == Staged(p, t)
        all == {free[t], inTree} \cup {staged(p) : p \in Open}
    IN /\ UNION all = Blocks[t]
       /\ Cardinality(free[t]) + Cardinality(Cached(tree[t]))
            = Cardinality(Blocks[t]) - Cardinality(UNION {staged(p) : p \in Open})
       /\ \A p, q \in Open : p # q => staged(p) \cap staged(q) = {}

(* The tree is a tree: what is cached is closed under prefixes, every node
   boundary is cached, and forks happen at boundaries only. *)
PrefixClosed ==
  \A t \in Tiers : LET T == tree[t] IN
    \A h \in Cached(T) :
      /\ Len(h) > 1 => HashAt(h, Len(h) - 1) \in Cached(T)
      /\ h \in T.ends \/
           Cardinality({q \in Cached(T) : Len(q) = Len(h) + 1 /\ IsPrefix(h, q)}) = 1

(* leaf_nodes, where eviction starts, has exactly the leaves, each under the
   hash of its first block, through splits, shrinks, evictions and rollbacks. *)
LeafTableExact ==
  \A t \in Tiers : LET T == tree[t]
                       leaves == {e \in T.ends : is_leaf(T, e)} IN
    /\ DOMAIN T.leaf_nodes = {head_hash(T, e) : e \in leaves}
    /\ \A e \in leaves : T.leaf_nodes[head_hash(T, e)] = e

(* num_ready_matched_blocks are the blocks that can really be read: a block of
   a ready node holds the data of its prefix. *)
ReadyIsWritten ==
  \A t \in Tiers : \A h \in Cached(tree[t]) :
    NodeOf(tree[t], h) \in tree[t].is_ready =>
      content[t][tree[t].phys[h]] = h

(* What the store was asked for and did not return. *)
Missing(p) ==
  (UNION {DOMAIN plan[p].ops[i].moves :
            i \in {j \in plan[p].moved : plan[p].ops[j].src = "STORE"}})
    \ plan[p].loaded

(* A transfer that may run now finds in each of its source blocks the data of
   the prefix it was planned for: nothing it relies on was evicted, recycled
   or rewritten since the plan was made (blocks a load failed to bring apart,
   which no tree will show). *)
SourcesIntact ==
  \A p \in Open : \A i \in CanRun(p) :
    LET op == plan[p].ops[i] IN
    op.src \in {"GPU", "STORE"} \/
      \A h \in DOMAIN op.moves \ Missing(p) :
        content[op.src][op.moves[h][1]] = h

(* The nodes of an open plan are in the tree, locked once per plan, and the
   walk of set_ready from them ends on a node boundary, as it asserts. *)
HeldNodes ==
  /\ \A t \in Tiers, e \in Hashes \cup {Root} :
       tree[t].lock_cnt[e] =
         Cardinality({p \in Open : \E n \in plan[p].nodes : n.tier = t /\ n.node = e})
  /\ \A p \in Open : \A n \in plan[p].nodes :
       LET T == tree[n.tier] IN
       /\ n.node \in T.ends \cup {Root}
       /\ HashAt(n.node, Len(n.node) - n.len) \in T.ends \cup {Root}

(* An insert is never refused: take() evicts between match and insert, but not
   the node the insert hangs on. *)
NeverStale == ~conflict

(* The tree and its leaf table stay what the code takes them for through
   splits, shrinks, evictions between match and insert, and rollbacks. *)
TreeShape == PrefixClosed /\ LeafTableExact /\ NeverStale

(* A node that is not ready has an open plan that will make it ready: there
   are no holes, which could be neither matched, rewritten nor evicted.  Where
   plans are aborted that is so only if their inserts wait for the end, as with
   the store: remove_unready_leaf leaves a node that another plan has split or
   extended. *)
NoHoles ==
  (conf.aborts => conf.remote = "store") =>
  \A t \in Tiers : \A e \in tree[t].ends \ tree[t].is_ready :
    \E p \in Open : \E n \in plan[p].nodes :
      /\ n.tier = t
      /\ IsPrefix(e, n.node)
      /\ Len(e) > Len(n.node) - n.len

(* All of this at once: pools, trees, plans and data agree. *)
CacheConsistent ==
  BlocksAccounted /\ TreeShape /\ HeldNodes /\ NoHoles /\ ReadyIsWritten /\ SourcesIntact
=============================================================================
