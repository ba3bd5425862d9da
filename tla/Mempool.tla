------------------------------- MODULE Mempool -------------------------------
(***************************************************************************)
(* flexkv/cache/mempool.py: the account of the physical blocks of one      *)
(* tier.  free_mask is the truth; num_free caches its population count;    *)
(* free_ids is a snapshot of the free ids, consumed through a cursor, and  *)
(* is NOT refreshed when blocks come back: it is rebuilt only when what is *)
(* left of it is too short for a request.                                  *)
(*                                                                         *)
(* The code keeps the snapshot as an ascending array and an offset; the    *)
(* model keeps the set of ids behind the cursor (free_ids[offset:]) and    *)
(* hands out its smallest members, which is what slicing an ascending      *)
(* array does.                                                             *)
(***************************************************************************)
EXTENDS Integers, FiniteSets

CONSTANTS
  num_total_blocks,  \* capacity of the pool
  Holders            \* who may hold blocks: a plan in flight, the radix tree

ASSUME MempoolAssumption == num_total_blocks \in Nat \ {0}

Blocks == 0 .. num_total_blocks - 1

VARIABLES
  free_mask,  \* the set of ids whose mask bit is True
  num_free,   \* the cached count of free blocks
  free_ids,   \* the part of the snapshot behind the cursor
  lent        \* ghost: lent[h] is what holder h was given and still has

memVars == <<free_mask, num_free, free_ids, lent>>

MemInit ==
  /\ free_mask = Blocks
  /\ num_free = num_total_blocks
  /\ free_ids = Blocks
  /\ lent = [h \in Holders |-> {}]

(* Mempool.reset; the contract of reset is that every user of the pool
   forgets its blocks at the same time. *)
reset ==
  /\ free_mask' = Blocks
  /\ num_free' = num_total_blocks
  /\ free_ids' = Blocks
  /\ lent' = [h \in Holders |-> {}]

(* The snapshot an allocation of num blocks consumes: the old one, or the
   free set when the old one is too short (_update_free_ids). *)
Snapshot(num) ==
  IF num > Cardinality(free_ids) THEN free_mask ELSE free_ids

(* The num smallest ids of a snapshot: _free_ids[offset : offset + num]. *)
IsSlice(got, snapshot, num) ==
  /\ got \subseteq snapshot
  /\ Cardinality(got) = num
  /\ \A b \in got, c \in snapshot \ got : b < c

(* Seeded fault: the cursor is not advanced. *)
allocate_blocks_cursorStays(h, num) ==
  /\ num <= num_free
  /\ \E got \in SUBSET Blocks :
       /\ IsSlice(got, Snapshot(num), num)
       /\ free_ids' = Snapshot(num)
       /\ free_mask' = free_mask \ got
       /\ num_free' = num_free - num
       /\ lent' = [lent EXCEPT ![h] = @ \cup got]

(* Mempool.allocate_blocks; with too few free blocks it raises and changes
   nothing. *)
allocate_blocks(h, num) ==
  /\ num <= num_free
  /\ \E got \in SUBSET Blocks :
       /\ IsSlice(got, Snapshot(num), num)
       /\ free_ids' = Snapshot(num) \ got
       /\ free_mask' = free_mask \ got
       /\ num_free' = num_free - num
       /\ lent' = [lent EXCEPT ![h] = @ \cup got]

(* Mempool.recycle_blocks, called by holder h with a set of ids (the code
   removes duplicates first).  An id that is already free makes the call
   raise before anything changes. *)
recycle_blocks(h, ids) ==
  /\ ids # {}
  /\ ids \cap free_mask = {}
  /\ free_mask' = free_mask \cup ids
  /\ num_free' = num_free + Cardinality(ids)
  /\ lent' = [lent EXCEPT ![h] = @ \ ids]
  /\ UNCHANGED free_ids

MemNext ==
  \/ \E h \in Holders, num \in 0 .. num_total_blocks : allocate_blocks(h, num)
  \/ \E h \in Holders : \E ids \in SUBSET lent[h] : recycle_blocks(h, ids)
  \/ reset

MemSpec == MemInit /\ [][MemNext]_memVars
-----------------------------------------------------------------------------
(* Types: masks and lent sets hold ids of the pool only. *)
MemTypeOK ==
  /\ free_mask \subseteq Blocks
  /\ num_free \in Int
  /\ free_ids \subseteq Blocks
  /\ lent \in [Holders -> SUBSET Blocks]

(* The cached counter, which eviction triggers read (num_free_blocks), is
   the population count of the mask after any history of calls. *)
NumFreeExact == num_free = Cardinality(free_mask)

(* What is left of the stale snapshot is still free, so an allocation that
   is served from it never hands out a block somebody holds. *)
SnapshotIsFree == free_ids \subseteq free_mask

(* Two holders never own the same block, and the mask is exactly the blocks
   nobody holds: no block is lost and none is in two places. *)
SoleOwner ==
  /\ \A g, h \in Holders : g # h => lent[g] \cap lent[h] = {}
  /\ free_mask = {b \in Blocks : \A h \in Holders : b \notin lent[h]}

(* The account implements the block pool contract. *)
Pool == INSTANCE BlockPool WITH Blocks <- Blocks, lent <- lent
PoolSpec == Pool!PoolSpec
=============================================================================
