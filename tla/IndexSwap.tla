------------------------------ MODULE IndexSwap ------------------------------
(***************************************************************************)
(* How a node replaces its copy of the other nodes' indexes while it is    *)
(* being read (csrc/dist/distributed_radix_tree.cpp).  The refresh thread  *)
(* builds a new tree, makes it the current one, keeps the previous one for *)
(* one more round and gives up the one before; matching threads pin the    *)
(* tree they walk by its reference count, and leave nodes of it in a queue *)
(* for the refresh thread, which must not touch a node of a freed tree.    *)
(***************************************************************************)
EXTENDS Integers, Sequences, FiniteSets

CONSTANTS Readers,    \* threads in match_prefix
          MaxTrees,   \* bound on the trees built
          MaxQueue    \* bound on the renew queue

ASSUME SwapAssumption == IsFiniteSet(Readers)

VARIABLES trees,              \* generation -> reference count; 0 is deleted
          c_index, old_index, \* generations, 0 when there is none
          renew_lease_queue,  \* generations of the queued nodes' trees
          reading,            \* reader -> generation it walks, 0 when idle
          swapper             \* the refresh thread

swapVars == << trees, c_index, old_index, renew_lease_queue, reading, swapper >>

Built == DOMAIN trees
Freed(g) == g \in Built /\ trees[g] = 0
\* dec_ref_cnt deletes the tree with the last reference.
Dec(ts, g) == IF g = 0 THEN ts ELSE [ts EXCEPT ![g] = @ - 1]

-----------------------------------------------------------------------------
(* match_prefix and is_empty: the count is raised under the shared lock. *)

MatchBegin(r) ==
  /\ reading[r] = 0 /\ c_index # 0
  /\ reading' = [reading EXCEPT ![r] = c_index]
  /\ trees' = [trees EXCEPT ![c_index] = @ + 1]
  /\ UNCHANGED << c_index, old_index, renew_lease_queue, swapper >>

\* A node whose lease is nearly over is queued with its tree's generation.
MatchQueues(r) ==
  /\ reading[r] # 0 /\ Len(renew_lease_queue) < MaxQueue
  /\ renew_lease_queue' = Append(renew_lease_queue, reading[r])
  /\ UNCHANGED << trees, c_index, old_index, reading, swapper >>

MatchEnd(r) ==
  /\ reading[r] # 0
  /\ trees' = Dec(trees, reading[r])
  /\ reading' = [reading EXCEPT ![r] = 0]
  /\ UNCHANGED << c_index, old_index, renew_lease_queue, swapper >>

-----------------------------------------------------------------------------
(* refresh_worker. *)

\* The generations whose nodes may be touched are read once per round.
RefreshRound ==
  /\ swapper.pc = "round"
  /\ swapper' = [swapper EXCEPT !.pc = "collect", !.valid = {c_index, old_index}]
  /\ UNCHANGED << trees, c_index, old_index, renew_lease_queue, reading >>

StillValid_any(g) == TRUE
StillValid(g) == g \in swapper.valid

RefreshCollects ==
  /\ swapper.pc = "collect" /\ renew_lease_queue # << >>
  /\ LET g == Head(renew_lease_queue) IN
       swapper' = [swapper EXCEPT !.batch = @ \cup {t \in {g} : StillValid(t)}]
  /\ renew_lease_queue' = Tail(renew_lease_queue)
  /\ UNCHANGED << trees, c_index, old_index, reading >>

\* refresh_nodes_lease_from_redis reads and writes the nodes of the batch.
RefreshRenews ==
  /\ swapper.pc = "collect" /\ renew_lease_queue = << >>
  /\ swapper' = [swapper EXCEPT !.pc = "timer", !.batch = {}]
  /\ UNCHANGED << trees, c_index, old_index, renew_lease_queue, reading >>

\* It is not time for a rebuild, or Redis gave no node keys.
RefreshSkips ==
  /\ swapper.pc = "timer"
  /\ swapper' = [swapper EXCEPT !.pc = "round", !.valid = {}]
  /\ UNCHANGED << trees, c_index, old_index, renew_lease_queue, reading >>

\* remote_tree_refresh built a tree; the swap under the exclusive lock.
RefreshSwaps ==
  /\ swapper.pc = "timer" /\ Len(trees) < MaxTrees
  /\ trees' = Append(trees, 1)
  /\ c_index' = Len(trees) + 1
  /\ old_index' = c_index
  /\ swapper' = [swapper EXCEPT !.pc = "release", !.drop = old_index]
  /\ UNCHANGED << renew_lease_queue, reading >>

\* The tree before the previous one is given up, whatever its count.
RefreshReleases ==
  /\ swapper.pc = "release"
  /\ trees' = Dec(trees, swapper.drop)
  /\ swapper' = [swapper EXCEPT !.pc = "round", !.drop = 0, !.valid = {}]
  /\ UNCHANGED << c_index, old_index, renew_lease_queue, reading >>

-----------------------------------------------------------------------------
(* stop joins the thread at the head of its loop; reset then drops both    *)
(* trees, under matches that still walk them; start begins again.          *)

RefreshStops ==
  /\ swapper.pc = "round"
  /\ swapper' = [swapper EXCEPT !.pc = "stopped"]
  /\ UNCHANGED << trees, c_index, old_index, renew_lease_queue, reading >>

IndexReset ==
  /\ swapper.pc = "stopped" /\ c_index # 0
  /\ trees' = Dec(Dec(trees, c_index), old_index)
  /\ c_index' = 0 /\ old_index' = 0
  /\ renew_lease_queue' = << >>
  /\ UNCHANGED << reading, swapper >>

RefreshStarts ==
  /\ swapper.pc = "stopped"
  /\ swapper' = [swapper EXCEPT !.pc = "round"]
  /\ UNCHANGED << trees, c_index, old_index, renew_lease_queue, reading >>

SwapInit ==
  /\ trees = << >> /\ c_index = 0 /\ old_index = 0
  /\ renew_lease_queue = << >>
  /\ reading = [r \in Readers |-> 0]
  /\ swapper = [pc |-> "round", valid |-> {}, batch |-> {}, drop |-> 0]

SwapNext ==
  \/ \E r \in Readers : MatchBegin(r) \/ MatchQueues(r) \/ MatchEnd(r)
  \/ RefreshRound \/ RefreshCollects \/ RefreshRenews \/ RefreshSkips
  \/ RefreshSwaps \/ RefreshReleases
  \/ RefreshStops \/ IndexReset \/ RefreshStarts

SwapSpec == SwapInit /\ [][SwapNext]_swapVars

-----------------------------------------------------------------------------
(* No thread touches a node of a deleted tree: not a match that outlives   *)
(* two rebuilds or a reset, not the refresh thread with nodes queued long  *)
(* ago.  And nothing leaks: a tree that is neither current nor previous    *)
(* nor being given up is kept by its readers alone.                        *)
NoFreedIndex ==
  /\ \A r \in Readers : ~Freed(reading[r])
  /\ \A g \in swapper.batch : ~Freed(g)
  /\ \A g \in Built \ {c_index, old_index, swapper.drop} :
       trees[g] > 0 => \E r \in Readers : reading[r] = g
=============================================================================
