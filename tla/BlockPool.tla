------------------------------ MODULE BlockPool ------------------------------
(***************************************************************************)
(* What a pool of physical cache blocks promises its users, whatever data  *)
(* structure keeps the account: a block is free or lent to one holder; an  *)
(* allocation of n blocks lends n blocks that were free; a block comes     *)
(* back only from its holder; a reset makes every block free.              *)
(* flexkv/cache/mempool.py implements this contract (module Mempool).      *)
(***************************************************************************)
EXTENDS Integers, FiniteSets

CONSTANTS
  Blocks,     \* the physical block ids of one cache tier
  Holders     \* the parties that hold blocks: plans, the radix tree

VARIABLE lent \* lent[h]: the blocks holder h has and has not given back

PoolInit == lent = [h \in Holders |-> {}]

Lend(h, got) ==
  /\ got \subseteq Blocks
  /\ \A g \in Holders : got \cap lent[g] = {}
  /\ lent' = [lent EXCEPT ![h] = @ \cup got]

GiveBack(h, ids) ==
  /\ ids \subseteq lent[h]
  /\ lent' = [lent EXCEPT ![h] = @ \ ids]

ResetAll == lent' = [h \in Holders |-> {}]

PoolNext ==
  \/ \E h \in Holders, ids \in SUBSET Blocks : Lend(h, ids) \/ GiveBack(h, ids)
  \/ ResetAll

PoolSpec == PoolInit /\ [][PoolNext]_lent
=============================================================================
