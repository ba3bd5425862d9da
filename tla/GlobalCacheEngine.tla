--------------------------- MODULE GlobalCacheEngine ---------------------------
(***************************************************************************)
(* flexkv/cache/cache_engine.py: get and put of GlobalCacheEngine, with    *)
(* the plans that use a remote tier: one with an index like that of the    *)
(* other tiers, whose nodes are inserted when the plan is made, or the     *)
(* key-addressed Mooncake store, which has no index here, may fail for     *)
(* single blocks, and makes the inserts of CPU and SSD wait for the end of *)
(* the graph.                                                              *)
(***************************************************************************)
EXTENDS CacheEngine

uses_store == conf.remote = "store"

(* match_all: the matches of seq in all tiers.  What the store has is not ours
   to know: other nodes write to it and it evicts on its own, so it may claim
   any prefix, up to hit (external). *)
match_all(seq, hit) ==
  [t \in Tiers |->
     IF t = "REMOTE" /\ uses_store
       THEN [matched |-> hit, ready |-> hit, last_node |-> Root,
             last_ready_node |-> Root]
       ELSE match_prefix(tree[t], seq)]
StoreHits(seq) == IF uses_store THEN 0 .. Len(seq) ELSE {0}

(* The prefixes a + 1 .. b of seq. *)
Stretch(seq, a, b) == {HashAt(seq, i) : i \in a + 1 .. b}

(* Where the three fragments of a get end: ready in the CPU tier, then in the
   SSD tier, then in the remote tier. *)
GlobalFragments(m, start) ==
  LET end(t) == Greater(m[t].ready, start)
      f12 == Greater(end("CPU"), end("SSD"))
  IN [f1 |-> end("CPU"), f12 |-> f12, f123 |-> Greater(f12, end("REMOTE"))]

(* A load from the store is published when the graph is complete. *)
defer_get_commit(f) == uses_store /\ f.f123 > f.f12

(* What came from the remote tier goes to the SSD as well, if it continues a
   prefix that is all there. *)
writes_back(m, f, start) ==
  /\ conf.ssd
  /\ f.f123 > f.f12
  /\ m["SSD"].ready >= start
  /\ m["SSD"].ready = m["SSD"].matched
  /\ m["SSD"].matched = f.f12

(* The transfers of a get: into the CPU blocks new from the SSD and the remote
   tier, on to the SSD blocks newS if written back, and from the CPU to the
   GPU.  With two sources the CPU node is published by a virtual op after both. *)
GlobalGetOps(seq, start, f, strategy, new, newS, nodeC, nodeS) ==
  LET both == f.f12 > f.f1 /\ f.f123 > f.f12
      host(n) == IF both THEN NoNode ELSE n
      disk2h == Op("SSD", "CPU",
                   [h \in Stretch(seq, f.f1, f.f12) |->
                      <<tree["SSD"].phys[h], new[h]>>], host(nodeC), {})
      remote2h == Op(IF uses_store THEN "STORE" ELSE "REMOTE", "CPU",
                     [h \in Stretch(seq, f.f12, f.f123) |->
                        <<IF uses_store THEN h ELSE tree["REMOTE"].phys[h],
                          new[h]>>], host(nodeC), {})
      sources == (IF f.f12 > f.f1 THEN <<disk2h>> ELSE <<>>) \o
                 (IF f.f123 > f.f12 THEN <<remote2h>> ELSE <<>>)
      join == IF both THEN <<Op("CPU", "CPU", <<>>, nodeC, {1, 2})>> ELSE <<>>
      h2disk == Op("CPU", "SSD", [h \in DOMAIN newS |-> <<new[h], newS[h]>>],
                   nodeS, {Len(sources)})
      back == IF DOMAIN newS = {} THEN <<>> ELSE <<h2disk>>
      h2d == Op("CPU", "GPU",
                [h \in Stretch(seq, start, f.f123) |->
                   <<IF h \in DOMAIN new THEN new[h]
                     ELSE tree["CPU"].phys[h], h>>],
                NoNode, DOMAIN sources)
  IN sources \o join \o back \o IF strategy.ignore_gpu THEN <<>> ELSE <<h2d>>

(* _get_impl_global, after its takes evicted gone[t] from tier t. *)
get_impl_global(seq, start, strategy, hit, gone) ==
  LET m == match_all(seq, hit)
      f == GlobalFragments(m, start)
      defer == defer_get_commit(f)
      left == [t \in Tiers |-> Without(tree[t], gone[t])]
      pool == [t \in Tiers |-> FreeAfter(t, gone[t])]
      enough == f.f123 - f.f1 <= Cardinality(pool["CPU"])
      new == Allocate(pool["CPU"], seq, f.f1, f.f123)
      keep == /\ f.f123 > f.f1 /\ ~defer
              /\ m["CPU"].ready >= start
              /\ m["CPU"].ready = m["CPU"].matched
      back == writes_back(m, f, start) /\ f.f123 - f.f12 <= Cardinality(pool["SSD"])
      newS == IF back THEN Allocate(pool["SSD"], seq, f.f12, f.f123) ELSE <<>>
      keepS == back /\ ~defer
      grown == [t \in Tiers |->
        IF t = "CPU" /\ keep THEN insert(left[t], seq, m[t].matched, f.f123, new)
        ELSE IF t = "SSD" /\ keepS THEN insert(left[t], seq, m[t].matched, f.f123, newS)
        ELSE left[t]]
      valid == /\ keep => ValidTarget(left["CPU"], seq, m["CPU"].matched)
               /\ keepS => ValidTarget(left["SSD"], seq, m["SSD"].matched)
      node(t, kept) == Node(t, grown[t], IF kept THEN HashAt(seq, f.f123)
                                         ELSE m[t].last_ready_node)
      held(n) == [tier |-> n.tier, node |-> n.node, len |-> IF defer THEN 0 ELSE n.len]
      nodes == {held(node("CPU", keep))}
                 \cup (IF conf.ssd THEN {held(node("SSD", keepS))} ELSE {})
                 \cup (IF uses_store THEN {} ELSE {node("REMOTE", FALSE)})
      deferred ==
        {Deferred("CPU", seq, new, f.f1, f.f12, f.f123, TRUE)} \cup
        IF back THEN {Deferred("SSD", seq, newS, f.f12, f.f12, f.f123, TRUE)} ELSE {}
  IN IF ~enough
       THEN Refused([tree EXCEPT !["CPU"] = left["CPU"]],
                    [free EXCEPT !["CPU"] = pool["CPU"]], FALSE)
     ELSE IF ~valid THEN Refused(left, pool, TRUE)
     ELSE Made(grown,
               [t \in Tiers |-> pool[t] \ IF t = "CPU" THEN BlocksOf(new)
                                          ELSE IF t = "SSD" THEN BlocksOf(newS) ELSE {}],
               NewPlan(GlobalGetOps(seq, start, f, strategy, new, newS,
                                    IF keep THEN node("CPU", TRUE) ELSE NoNode,
                                    IF keepS THEN node("SSD", TRUE) ELSE NoNode),
                       nodes,
                       IF keep \/ defer THEN {} ELSE BlocksOf(new),
                       IF defer THEN deferred ELSE {}))

get_global(p, seq, start, strategy) ==
  \E hit \in StoreHits(seq) :
    LET m == match_all(seq, hit)
        f == GlobalFragments(m, start)
        staged == f.f123 - f.f1
    IN
    /\ f.f123 > start
    /\ \E goneC \in IF staged > 0
                      THEN TakeEvicts("CPU", staged, m["CPU"].last_node)
                      ELSE {{}},
          goneS \in IF writes_back(m, f, start)
                      THEN TakeEvicts("SSD", f.f123 - f.f12, m["SSD"].last_node)
                      ELSE {{}} :
         Adopt(p, get_impl_global(seq, start, strategy, hit,
                                  [CPU |-> goneC, SSD |-> goneS, REMOTE |-> {}]))
-----------------------------------------------------------------------------
(* How much of seq a put finds in each tier.  With the store it counts what is
   ready, since what it writes on comes from there. *)
Found(m, t) == IF uses_store THEN m[t].ready ELSE m[t].matched

GlobalPutNeeds(seq, m) ==
  [t \in Tiers |-> IF t = "SSD" /\ ~conf.ssd THEN 0 ELSE Len(seq) - Found(m, t)]

(* The node take() must not evict. *)
Anchor(m, t) == IF uses_store THEN m[t].last_ready_node ELSE m[t].last_node

(* The transfers of a put: from the GPU to the CPU, and on from there, from
   blocks the CPU had already where it has more than the tier below. *)
GlobalPutOps(seq, m, new, into, node) ==
  LET cpu(h) == IF h \in DOMAIN new["CPU"] THEN new["CPU"][h]
                ELSE tree["CPU"].phys[h]
      d2h == Op("GPU", "CPU", [h \in DOMAIN new["CPU"] |-> <<h, new["CPU"][h]>>],
                node["CPU"], {})
      first == IF "CPU" \in into THEN <<d2h>> ELSE <<>>
      h2disk == Op("CPU", "SSD",
                   [h \in DOMAIN new["SSD"] |-> <<cpu(h), new["SSD"][h]>>],
                   node["SSD"], DOMAIN first)
      h2remote == Op("CPU", IF uses_store THEN "STORE" ELSE "REMOTE",
                     [h \in Stretch(seq, m["REMOTE"].matched, Len(seq)) |->
                        <<cpu(h), IF uses_store THEN h ELSE new["REMOTE"][h]>>],
                     node["REMOTE"], DOMAIN first)
  IN first \o (IF "SSD" \in into THEN <<h2disk>> ELSE <<>>) \o
     IF "REMOTE" \in into THEN <<h2remote>> ELSE <<>>

(* _put_impl_global, after its takes evicted gone[t] from tier t.  A tier below
   the CPU that is full is left out. *)
put_impl_global(seq, hit, gone) ==
  LET m == match_all(seq, hit)
      need == GlobalPutNeeds(seq, m)
      left == [t \in Tiers |-> Without(tree[t], gone[t])]
      pool == [t \in Tiers |-> FreeAfter(t, gone[t])]
      enough(t) == need[t] <= Cardinality(pool[t]) \/ (t = "REMOTE" /\ uses_store)
      into == {t \in Tiers : need[t] > 0 /\ enough(t)}
      inserted == IF uses_store THEN {} ELSE into
      new == [t \in Tiers |->
                IF t \in into /\ ~(t = "REMOTE" /\ uses_store)
                  THEN Allocate(pool[t], seq, Len(seq) - need[t], Len(seq))
                  ELSE <<>>]
      grown == [t \in Tiers |->
                  IF t \in inserted
                    THEN insert(left[t], seq, m[t].matched, Len(seq), new[t])
                    ELSE left[t]]
      valid == \A t \in inserted : ValidTarget(left[t], seq, m[t].matched)
      node == [t \in Tiers |-> IF t \in inserted THEN Node(t, grown[t], seq)
                               ELSE NoNode]
      anchors == {[tier |-> t, node |-> m[t].last_ready_node, len |-> 0] :
                    t \in {u \in {"CPU"} \cup (into \cap {"SSD"}) : Found(m, u) > 0}}
      deferred == {Deferred(t, seq, new[t], Found(m, t), Found(m, t), Len(seq), FALSE) :
                     t \in into \ {"REMOTE"}}
  IN IF ~enough("CPU")
       THEN Refused([tree EXCEPT !["CPU"] = left["CPU"]],
                    [free EXCEPT !["CPU"] = pool["CPU"]], FALSE)
     ELSE IF ~valid THEN Refused(left, pool, TRUE)
     ELSE Made(grown, [t \in Tiers |-> pool[t] \ BlocksOf(new[t])],
               NewPlan(GlobalPutOps(seq, m, new, into, node),
                       IF uses_store THEN anchors
                       ELSE {node[t] : t \in inserted},
                       {}, IF uses_store THEN deferred ELSE {}))

put_global(p, seq) ==
  \E hit \in StoreHits(seq) :
    LET m == match_all(seq, hit)
        need == GlobalPutNeeds(seq, m)
        evicts(t) == IF t = "CPU" \/ (need[t] > 0 /\ ~(t = "REMOTE" /\ uses_store))
                       THEN TakeEvicts(t, need[t], Anchor(m, t)) ELSE {{}}
    IN
    /\ need["CPU"] > 0 \/ (uses_store /\ \E t \in Tiers : need[t] > 0)
    /\ \E goneC \in evicts("CPU"), goneS \in evicts("SSD"), goneR \in evicts("REMOTE") :
         Adopt(p, put_impl_global(seq, hit,
                                  [CPU |-> goneC, SSD |-> goneS, REMOTE |-> goneR]))
-----------------------------------------------------------------------------
put_local(p, seq) ==
  LET m == match_local(seq, DEFAULT)
      need == PutFragments(seq)
  IN
  /\ need["CPU"] > 0
  /\ \E goneC \in TakeEvicts("CPU", need["CPU"], m["CPU"].last_node),
        goneS \in IF conf.ssd
                    THEN TakeEvicts("SSD", need["SSD"], m["SSD"].last_node)
                    ELSE {{}} :
       Adopt(p, put_impl_local(seq, [CPU |-> goneC, SSD |-> goneS, REMOTE |-> {}]))

get_local(p, seq, start, strategy) ==
  LET staged == Staging(seq, start, strategy) IN
  /\ \E i \in 1 .. 2 : GetFragments(seq, start, strategy)[i] > 0
  /\ \E gone \in IF staged > 0
                    THEN TakeEvicts("CPU", staged,
                                    match_local(seq, strategy)["CPU"].last_node)
                    ELSE {{}} :
       Adopt(p, get_impl_local(seq, start, strategy, gone))

(* resolve_get_cache_strategy: with the store only a prefetch goes there. *)
ignores_remote(strategy) ==
  \/ conf.remote = "none"
  \/ strategy.ignore_remote
  \/ uses_store /\ ~strategy.ignore_gpu

put(p, seq) ==
  /\ ~plan[p].open
  /\ Cardinality(Open) < conf.plans
  /\ IF conf.remote = "none" THEN put_local(p, seq) ELSE put_global(p, seq)

get(p, seq, start, strategy) ==
  /\ ~plan[p].open
  /\ Cardinality(Open) < conf.plans
  /\ IF ignores_remote(strategy) THEN get_local(p, seq, start, strategy)
     ELSE get_global(p, seq, start, strategy)

Next ==
  \/ \E p \in Plans, seq \in conf.seqs :
       \/ put(p, seq)
       \/ \E start \in 0 .. Len(seq) - 1, strategy \in {DEFAULT, CPUONLY, PREFETCH} :
            get(p, seq, start, strategy)
  \/ \E p \in Open :
       \/ \E i \in CanRun(p) : \E ok \in Outcomes(plan[p].ops[i]) : Move(p, i, ok)
       \/ \E i \in OpMayPublish(p) : op_callback(p, i)
       \/ transfer_callback(p)
       \/ abort_transfer_plan(p)
  \/ reset

Spec == Init /\ [][Next]_vars
=============================================================================
