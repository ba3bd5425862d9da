---------------------------- MODULE ResetBarrier ----------------------------
(***************************************************************************)
(* The reset of a tier that is shared between nodes                        *)
(* (flexkv/cache/hie_cache_engine.py reset, csrc/dist/redis_meta_channel   *)
(* .cpp).  A node may reuse its physical blocks only when no other node    *)
(* can still read them: the nodes agree on an epoch in Redis, every one    *)
(* drops its trees and its block keys and reports its arrival, and each    *)
(* waits until all registered nodes have arrived and no block key is left, *)
(* or gives up after a timeout with its blocks as they were.               *)
(***************************************************************************)
EXTENDS Integers

CONSTANTS Members,    \* the nodes
          JoinsApart, \* no node registers while another is in a reset
          MaxEpoch,   \* bound on reset epochs
          MaxRound    \* bound on the resets of one node's blocks

VARIABLES resetter,       \* node -> its reset call and what it knows
          node_set,   \* node:* keys in Redis
          block_keys,   \* block keys in Redis, [by, gen]
          barrier       \* the reset:* keys

barrierVars == << resetter, node_set, block_keys, barrier >>

Is(n, pc) == resetter[n].pc = pc
KeysOf(n) == {k \in block_keys : k.by = n}

-----------------------------------------------------------------------------
(* Life outside a reset. *)

MemberJoins(n) ==
  /\ Is(n, "off")
  /\ JoinsApart => \A m \in Members : resetter[m].pc \in {"off", "up", "dead", "stopped"}
  /\ node_set' = node_set \cup {n}
  /\ resetter' = [resetter EXCEPT ![n].pc = "up"]
  /\ UNCHANGED << block_keys, barrier >>

\* The node dies; its key goes with the lease, its block keys only when some
\* other node notices (_cleanup_node_data).
MemberDies(n) ==
  /\ resetter[n].pc \notin {"off", "dead"}
  /\ resetter' = [resetter EXCEPT ![n] = [@ EXCEPT !.pc = "dead", !.index = {}]]
  /\ UNCHANGED << node_set, block_keys, barrier >>
MemberForgotten(n) ==
  /\ Is(n, "dead") /\ n \in node_set
  /\ node_set' = node_set \ {n}
  /\ UNCHANGED << resetter, block_keys, barrier >>
MemberCleaned(n) ==
  /\ Is(n, "dead") /\ n \notin node_set /\ KeysOf(n) # {}
  /\ block_keys' = block_keys \ KeysOf(n)
  /\ UNCHANGED << resetter, node_set, barrier >>

\* The refresh threads of a node that is up: publish blocks, copy the others'.
BlocksPublished(n) ==
  /\ Is(n, "up")
  /\ block_keys' = block_keys \cup {[by |-> n, gen |-> resetter[n].gen]}
  /\ UNCHANGED << resetter, node_set, barrier >>
IndexRebuilt(n) ==
  /\ Is(n, "up")
  /\ resetter' = [resetter EXCEPT ![n].index = {k \in block_keys : k.by \in node_set \ {n}}]
  /\ UNCHANGED << node_set, block_keys, barrier >>

-----------------------------------------------------------------------------
(* reset: stop both refresh threads, remembering whether they ran, and     *)
(* join the epoch in progress or open the next one.                        *)
ResetBegins(n) ==
  /\ resetter[n].pc \in {"up", "stopped"} /\ resetter[n].gen < MaxRound
  /\ barrier.active = 0 => barrier.epoch < MaxEpoch
  /\ LET e == IF barrier.active # 0 THEN barrier.active ELSE barrier.epoch + 1
     IN  /\ barrier' = [barrier EXCEPT !.active = e, !.epoch = IF @ < e THEN e ELSE @]
         /\ resetter' = [resetter EXCEPT ![n] =
                           [@ EXCEPT !.pc = "begun", !.epoch = e, !.restart = Is(n, "up")]]
  /\ UNCHANGED << node_set, block_keys >>

\* LocalRadixTree::reset drops the queues and deletes the node's block keys,
\* DistributedRadixTree::reset the copy of the other nodes' trees.
TreesDropped(n) ==
  /\ Is(n, "begun")
  /\ block_keys' = block_keys \ KeysOf(n)
  /\ resetter' = [resetter EXCEPT ![n] = [@ EXCEPT !.pc = "dropped", !.index = {}]]
  /\ UNCHANGED << node_set, barrier >>

ResetArrives(n) ==
  /\ Is(n, "dropped")
  /\ barrier' = [barrier EXCEPT !.arrivals[n] = resetter[n].epoch]
  /\ resetter' = [resetter EXCEPT ![n].pc = "waiting"]
  /\ UNCHANGED << node_set, block_keys >>

\* _wait_for_global_block_cleanup asks twice: have all arrived, are keys left.
AllArrived_some(n) == \E m \in node_set : barrier.arrivals[m] = resetter[n].epoch
AllArrived(n) == \A m \in node_set : barrier.arrivals[m] = resetter[n].epoch

BarrierSeen(n) ==
  /\ Is(n, "waiting") /\ AllArrived(n)
  /\ resetter' = [resetter EXCEPT ![n].pc = "arrived"]
  /\ UNCHANGED << node_set, block_keys, barrier >>
NoKeysSeen(n) ==
  /\ Is(n, "arrived")
  /\ resetter' = [resetter EXCEPT ![n].pc = IF block_keys = {} THEN "clean" ELSE "waiting"]
  /\ UNCHANGED << node_set, block_keys, barrier >>

\* The deadline passes: the exception leaves the threads stopped and the blocks
\* as they were.
ResetTimesOut(n) ==
  /\ Is(n, "waiting")
  /\ resetter' = [resetter EXCEPT ![n].pc = "stopped"]
  /\ UNCHANGED << node_set, block_keys, barrier >>

\* finish_reset_barrier: refused when another epoch is open by now.
BarrierFinished(n) ==
  /\ Is(n, "clean")
  /\ IF barrier.active \in {0, resetter[n].epoch}
       THEN /\ barrier' = [barrier EXCEPT !.active = 0]
            /\ resetter' = [resetter EXCEPT ![n].pc = "finished"]
       ELSE resetter' = [resetter EXCEPT ![n].pc = "stopped"] /\ UNCHANGED barrier
  /\ UNCHANGED << node_set, block_keys >>

\* mempool.reset: from here on the node writes other data to its blocks.  The
\* threads are started again if they ran before.
BlocksReset(n) ==
  /\ Is(n, "finished")
  /\ resetter' = [resetter EXCEPT ![n] =
                    [@ EXCEPT !.pc = IF resetter[n].restart THEN "up" ELSE "stopped",
                              !.gen = resetter[n].gen + 1, !.epoch = 0]]
  /\ UNCHANGED << node_set, block_keys, barrier >>

BarrierInit ==
  /\ resetter = [n \in Members |-> [pc |-> "off", restart |-> FALSE, epoch |-> 0, gen |-> 0,
                               index |-> {}]]
  /\ node_set = {}
  /\ block_keys = {}
  /\ barrier = [active |-> 0, epoch |-> 0, arrivals |-> [n \in Members |-> 0]]

BarrierNext ==
  \E n \in Members :
    \/ MemberJoins(n) \/ MemberDies(n) \/ MemberForgotten(n) \/ MemberCleaned(n)
    \/ BlocksPublished(n) \/ IndexRebuilt(n)
    \/ ResetBegins(n) \/ TreesDropped(n) \/ ResetArrives(n)
    \/ BarrierSeen(n) \/ NoKeysSeen(n) \/ ResetTimesOut(n)
    \/ BarrierFinished(n) \/ BlocksReset(n)

BarrierSpec == BarrierInit /\ [][BarrierNext]_barrierVars

-----------------------------------------------------------------------------
(* A node's blocks are never reused while they can be found: what Redis    *)
(* and the live nodes' copies of it say about a node is about the blocks   *)
(* as they are since its last reset.                                       *)
ResetTogether ==
  \A k \in block_keys \cup UNION {resetter[n].index : n \in Members} :
    resetter[k.by].gen = k.gen
=============================================================================
