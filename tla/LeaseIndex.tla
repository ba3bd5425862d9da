----------------------------- MODULE LeaseIndex -----------------------------
(***************************************************************************)
(* The leases under which a node shares its blocks                         *)
(* (csrc/dist/local_radix_tree.cpp, redis_meta_channel.cpp and the reading *)
(* side, distributed_radix_tree.cpp).                                      *)
(*                                                                         *)
(* The owner inserts blocks under a lease, publishes them to Redis through *)
(* a queue, and renews the leases, in memory and in Redis, every           *)
(* RenewEvery; a block that has to go is first marked about to evict,      *)
(* which stops its renewals, and is removed once its lease is over.  A     *)
(* peer copies the entries of Redis and reads a block over RDMA as long as *)
(* its copy of the lease runs.  The cache's thread (insert, complete,      *)
(* evict) and the refresh thread (report, renew) share the tree and the    *)
(* queues without a lock.                                                  *)
(*                                                                         *)
(* A tree node is one block and the tree one path: block d hangs under     *)
(* block d - 1.  The clock counts in units of one renewal period or less.  *)
(***************************************************************************)
EXTENDS Integers, Sequences, FiniteSets

CONSTANTS Depth,        \* blocks of the longest sequence
          PhysBlocks,   \* physical blocks of the tier
          LeaseTTL,     \* lease_ttl_ms
          SafetyTTL,    \* safety_ttl_ms
          RenewEvery,   \* renew_lease_ms
          MatchMargin,  \* the 1500 ms a match wants left of a lease
          LeaseLimit,   \* max_num_blocks - swap_block_threshold
          Prompt,       \* publications leave the queue before the next eviction
          MaxNow,       \* bound on the clock
          MaxPending    \* bound on the evictions not yet reported

ASSUME LeaseAssumption ==
  /\ {Depth, LeaseTTL, SafetyTTL, RenewEvery, MatchMargin, LeaseLimit, MaxNow,
      MaxPending} \subseteq Nat
  /\ RenewEvery > 0 /\ LeaseTTL > RenewEvery
  /\ PhysBlocks \subseteq Nat \ {0}
  /\ Prompt \in BOOLEAN

VARIABLES now, node, free, evicting, new_block_queue, about_queue, evicted_queue,
          normal_block_hashes, refresher, next_renew, redis, peer

ownerVars == << node, free, evicting >>
queueVars == << new_block_queue, about_queue, evicted_queue >>
workVars == << normal_block_hashes, refresher, next_renew >>
leaseVars == << now, ownerVars, queueVars, workVars, redis, peer >>

Hashes == 1..Depth
NoNode == [phys |-> 0, lease |-> 0, state |-> "none", published |-> FALSE, ready |-> FALSE]
NoEntry == [phys |-> 0, lt |-> 0, state |-> "none"]
NoEviction == [blocks |-> {}, gone |-> {}, about |-> {}, busy |-> FALSE]

\* The nodes are a path from the root; its last one is the only leaf.
Held == {h \in Hashes : node[h].phys # 0}
Leaf == Cardinality(Held)

-----------------------------------------------------------------------------
(* The cache's thread. *)

\* lease_time <= now, or no lease at all (lease 0): the block may go at once.
Expired(h) == node[h].lease <= now

\* The lease of a new node under its parent: none when the tier is nearly full
\* or the parent has none, a fresh one under the root, else the parent's.
NewLease(h) ==
  IF Leaf + 1 > LeaseLimit THEN [lease |-> 0, state |-> "none"]
  ELSE IF h = 1 THEN [lease |-> now + LeaseTTL + SafetyTTL, state |-> "normal"]
  ELSE [lease |-> node[h - 1].lease, state |-> node[h - 1].state]

LeaseInsert(p) ==
  /\ ~evicting.busy
  /\ Leaf < Depth
  /\ p \in free
  /\ LET h == Leaf + 1 IN
       node' = [node EXCEPT ![h] =
                  [phys |-> p, lease |-> NewLease(h).lease, state |-> NewLease(h).state,
                   published |-> FALSE, ready |-> FALSE]]
  /\ free' = free \ {p}
  /\ UNCHANGED << now, evicting, queueVars, workVars, redis, peer >>

\* publish_single_node: the entry carries the lease less the safety margin.
NewBlockMeta(h) ==
  [hash |-> h, phys |-> node[h].phys, lt |-> node[h].lease - SafetyTTL,
   state |-> node[h].state]

\* insert_and_publish collects the unpublished nodes up to the nearest published
\* one; a node without a lease is passed over.
Unpublished(h) ==
  {a \in 1..h : /\ node[a].lease # 0 /\ ~node[a].published
                /\ \A b \in a..h : ~node[b].published}

\* The transfer that fills the block is done: set_ready, then publish from the
\* root down, ancestors that are still being written included.
LeaseComplete(h) ==
  /\ ~evicting.busy
  /\ h \in Held /\ ~node[h].ready
  /\ node' = [a \in Hashes |-> [phys |-> node[a].phys, lease |-> node[a].lease,
                                state |-> node[a].state,
                                published |-> node[a].published \/ a \in Unpublished(h),
                                ready |-> node[a].ready \/ a = h]]
  /\ \E down \in [1..Cardinality(Unpublished(h)) -> Unpublished(h)] :
       /\ \A i, j \in DOMAIN down : i < j => down[i] < down[j]
       /\ new_block_queue' =
            new_block_queue \o [i \in DOMAIN down |-> NewBlockMeta(down[i])]
  /\ UNCHANGED << now, free, evicting, about_queue, evicted_queue, workVars, redis, peer >>

\* The blocks evict removes, leaf first: ready and expired, at most need.
Removable(need) ==
  {h \in Held : /\ h > Leaf - need
                /\ \A a \in h..Leaf : node[a].ready /\ Expired(a)}

\* When they are not enough, the leaf that is left is marked.  One that is marked
\* already is skipped by the scan, but not when it became the leaf just now.
ToMark(need) ==
  LET gone == Removable(need)
      rest == Leaf - Cardinality(gone)
  IN  {h \in {rest} : /\ Cardinality(gone) < need /\ rest > 0
                      /\ node[rest].ready /\ ~Expired(rest)
                      /\ gone # {} \/ node[rest].state = "normal"}

\* evict: the tree first, and only then the queues the refresh thread reads.
LeaseEvict(need) ==
  /\ ~evicting.busy
  /\ Prompt => new_block_queue = << >>
  /\ Len(evicted_queue) < MaxPending /\ Len(about_queue) < MaxPending
  /\ Removable(need) \cup ToMark(need) # {}
  /\ node' = [h \in Hashes |-> IF h \in Removable(need) THEN NoNode
                               ELSE IF h \in ToMark(need) THEN [node[h] EXCEPT !.state = "about"]
                               ELSE node[h]]
  /\ evicting' = [blocks |-> {node[h].phys : h \in Removable(need)},
                  gone |-> Removable(need), about |-> ToMark(need), busy |-> TRUE]
  /\ UNCHANGED << now, free, queueVars, workVars, redis, peer >>

Pushed(q, hs) == IF hs = {} THEN q ELSE Append(q, hs)

\* The end of evict, and take's recycle_blocks.
LeaseEvictDone ==
  /\ evicting.busy
  /\ evicted_queue' = Pushed(evicted_queue, evicting.gone)
  /\ about_queue' = Pushed(about_queue, evicting.about)
  /\ free' = free \cup evicting.blocks
  /\ evicting' = NoEviction
  /\ UNCHANGED << now, node, new_block_queue, workVars, redis, peer >>

-----------------------------------------------------------------------------
(* The refresh thread: local_block_report drains the three queues in turn, *)
(* then the leases are renewed when it is time.                            *)

At(phase) == refresher.phase = phase
Go(phase) == refresher' = [refresher EXCEPT !.phase = phase]

\* The hashes that stay due for renewal in Redis when some are withdrawn.
StillNormal_all(hs) == normal_block_hashes
StillNormal(hs) == normal_block_hashes \ hs

ReportEvicted ==
  /\ At("delete") /\ evicted_queue # << >>
  /\ redis' = [h \in Hashes |-> IF h \in Head(evicted_queue) THEN NoEntry ELSE redis[h]]
  /\ normal_block_hashes' = StillNormal(Head(evicted_queue))
  /\ evicted_queue' = Tail(evicted_queue)
  /\ UNCHANGED << now, ownerVars, new_block_queue, about_queue, refresher, next_renew, peer >>

\* HSET of one field makes a partial entry when the key is gone.
ReportAbout ==
  /\ At("about") /\ about_queue # << >>
  /\ redis' = [h \in Hashes |-> IF h \in Head(about_queue)
                                  THEN [redis[h] EXCEPT !.state = "about"] ELSE redis[h]]
  /\ normal_block_hashes' = StillNormal(Head(about_queue))
  /\ about_queue' = Tail(about_queue)
  /\ UNCHANGED << now, ownerVars, new_block_queue, evicted_queue, refresher, next_renew, peer >>

ReportNew ==
  /\ At("publish") /\ new_block_queue # << >>
  /\ LET m == Head(new_block_queue) IN
       /\ redis' = [redis EXCEPT ![m.hash] = [phys |-> m.phys, lt |-> m.lt, state |-> m.state]]
       /\ normal_block_hashes' =
            normal_block_hashes \cup {h \in {m.hash} : m.state = "normal"}
  /\ new_block_queue' = Tail(new_block_queue)
  /\ UNCHANGED << now, ownerVars, about_queue, evicted_queue, refresher, next_renew, peer >>

ReportNext ==
  /\ \/ At("delete") /\ evicted_queue = << >> /\ Go("about")
     \/ At("about") /\ about_queue = << >> /\ Go("publish")
     \/ At("publish") /\ new_block_queue = << >> /\ now < next_renew /\ Go("delete")
     \/ At("publish") /\ new_block_queue = << >> /\ now >= next_renew /\ Go("renew")
  /\ UNCHANGED << now, ownerVars, queueVars, normal_block_hashes, next_renew, redis, peer >>

\* renew_relese_time, first half: the leases in memory of the nodes not marked.
RenewMemory ==
  /\ At("renew")
  /\ node' = [h \in Hashes |-> IF node[h].state = "normal"
                THEN [node[h] EXCEPT !.lease = now + LeaseTTL + SafetyTTL] ELSE node[h]]
  /\ refresher' = [phase |-> "redis", new_lt |-> now + LeaseTTL]
  /\ UNCHANGED << now, free, evicting, queueVars, normal_block_hashes, next_renew, redis, peer >>

\* Second half: the entries of Redis the thread believes to be normal.
RenewRedis ==
  /\ At("redis")
  /\ redis' = [h \in Hashes |-> IF h \in normal_block_hashes
                 THEN [redis[h] EXCEPT !.lt = refresher.new_lt] ELSE redis[h]]
  /\ next_renew' = now + RenewEvery
  /\ refresher' = [phase |-> "delete", new_lt |-> 0]
  /\ UNCHANGED << now, ownerVars, queueVars, normal_block_hashes, peer >>

-----------------------------------------------------------------------------
(* A peer. *)

IsWhole(e) == e.phys # 0 /\ e.lt # 0 /\ e.state # "none"
Prefix == {h \in Hashes : \A a \in 1..h : IsWhole(redis[a])}
Least(S) == CHOOSE x \in S : \A y \in S : x <= y

\* remote_tree_refresh: a path of entries becomes one node with the least lease.
PeerRebuild ==
  /\ peer' = [phys |-> [h \in Prefix |-> redis[h].phys],
              lease |-> IF Prefix = {} THEN 0 ELSE Least({redis[h].lt : h \in Prefix}),
              queued |-> FALSE, renewed |-> FALSE]
  /\ UNCHANGED << now, ownerVars, queueVars, workVars, redis >>

\* A match that finds too little left asks for the lease again.
PeerMatch ==
  /\ DOMAIN peer.phys # {} /\ ~peer.queued
  /\ peer.lease - now <= MatchMargin
  /\ peer' = [peer EXCEPT !.queued = TRUE]
  /\ UNCHANGED << now, ownerVars, queueVars, workVars, redis >>

\* refresh_nodes_lease_from_redis: the least lease of the node's hashes whose
\* entry is normal; the entries that are not are passed over, and so are their
\* block ids.
PeerRenew ==
  /\ peer.queued
  /\ LET seen == {h \in DOMAIN peer.phys : redis[h].lt # 0 /\ redis[h].state = "normal"}
     IN  peer' = IF seen = {} THEN [peer EXCEPT !.queued = FALSE]
                 ELSE [peer EXCEPT !.lease = Least({redis[h].lt : h \in seen}),
                                   !.queued = FALSE, !.renewed = TRUE]
  /\ UNCHANGED << now, ownerVars, queueVars, workVars, redis >>

-----------------------------------------------------------------------------
\* The clock waits for the two threads: a renewal is never late, and no call of
\* evict lasts longer than one unit.
LeaseTick ==
  /\ now < MaxNow /\ now < next_renew /\ ~evicting.busy
  /\ now' = now + 1
  /\ UNCHANGED << ownerVars, queueVars, workVars, redis, peer >>

LeaseInit ==
  /\ now = 0
  /\ node = [h \in Hashes |-> NoNode]
  /\ free = PhysBlocks
  /\ evicting = NoEviction
  /\ new_block_queue = << >> /\ about_queue = << >> /\ evicted_queue = << >>
  /\ normal_block_hashes = {}
  /\ refresher = [phase |-> "delete", new_lt |-> 0]
  /\ next_renew = RenewEvery
  /\ redis = [h \in Hashes |-> NoEntry]
  /\ peer = [phys |-> << >>, lease |-> 0, queued |-> FALSE, renewed |-> FALSE]

LeaseNext ==
  \/ \E p \in PhysBlocks : LeaseInsert(p)
  \/ \E h \in Hashes : LeaseComplete(h)
  \/ \E need \in 1..2 : LeaseEvict(need)
  \/ LeaseEvictDone
  \/ ReportEvicted \/ ReportAbout \/ ReportNew \/ ReportNext
  \/ RenewMemory \/ RenewRedis
  \/ PeerRebuild \/ PeerMatch \/ PeerRenew
  \/ LeaseTick

LeaseSpec == LeaseInit /\ [][LeaseNext]_leaseVars

-----------------------------------------------------------------------------
(* The promise of the subtracted safety margin (publish_single_node, "so   *)
(* that we can ensure the block is still in the cache after lease_time of  *)
(* redis"): as long as the lease a peer can see runs, in Redis or in the   *)
(* peer's own index, the owner still keeps that hash in that very block.   *)
(* A peer's node whose lease was fetched again by hash is left out: the    *)
(* block ids are not fetched with it.                                      *)
Keeps(h, p) == node[h].phys = p

LeaseCovers ==
  /\ \A h \in Hashes :
       IsWhole(redis[h]) /\ redis[h].lt > now => Keeps(h, redis[h].phys)
  /\ ~peer.renewed /\ peer.lease > now =>
       \A h \in DOMAIN peer.phys : Keeps(h, peer.phys[h])
=============================================================================
