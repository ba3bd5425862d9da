------------------------------- MODULE RadixTree -------------------------------
(***************************************************************************)
(* flexkv/cache/radixtree.py: the radix tree of one tier, as a value and   *)
(* the operations on it (without SWA slots).                               *)
(*                                                                         *)
(* The hash of a block covers everything before it, so it stands for a     *)
(* prefix of a token sequence; the model uses the prefix itself.  A tree   *)
(* maps the prefixes it caches to physical blocks.  A node is a run of     *)
(* prefixes and is known by its last one, its end: split() keeps the end   *)
(* with the node object that plans refer to and gives the front half to a  *)
(* new object, and a node that is locked is neither shrunk nor removed.    *)
(***************************************************************************)
EXTENDS Integers, Sequences, FiniteSets

CONSTANT Seqs  \* token sequences, in blocks

ASSUME SeqsAssumption == \A s \in Seqs : s \in Seq({s[i] : i \in DOMAIN s})

Hashes == UNION {{SubSeq(s, 1, n) : n \in 1 .. Len(s)} : s \in Seqs}
Root == <<>>

HashAt(seq, n) == SubSeq(seq, 1, n)
IsPrefix(p, q) == Len(p) <= Len(q) /\ SubSeq(q, 1, Len(p)) = p

Greatest(S) == CHOOSE n \in S : \A m \in S : m <= n
Longest(S) == CHOOSE p \in S : \A q \in S : Len(q) <= Len(p)
Shortest(S) == CHOOSE p \in S : \A q \in S : Len(p) <= Len(q)

TreeOf(phys, ends, is_ready, lock_cnt, leaf_nodes) ==
  [phys |-> phys,                 \* prefix -> physical block
   ends |-> ends,                 \* the nodes
   is_ready |-> is_ready,         \* nodes whose data is in place
   lock_cnt |-> lock_cnt,
   leaf_nodes |-> leaf_nodes]     \* head hash -> node

(* RadixTreeIndex.__init__, reset *)
EmptyTree == TreeOf(<<>>, {}, {}, [h \in Hashes \cup {Root} |-> 0], <<>>)

Cached(T) == DOMAIN T.phys

(* The node that holds prefix p, its parent, its prefixes and its head. *)
NodeOf(T, p) == IF p = Root THEN Root
                ELSE Shortest({e \in T.ends : IsPrefix(p, e)})
Parent(T, e) == Longest({f \in T.ends : IsPrefix(f, e) /\ f # e} \cup {Root})
Run(T, e) == {HashAt(e, n) : n \in Len(Parent(T, e)) + 1 .. Len(e)}
size(T, e) == Len(e) - Len(Parent(T, e))
head_hash(T, e) == HashAt(e, Len(Parent(T, e)) + 1)

is_leaf(T, e) == \A p \in Cached(T) : IsPrefix(e, p) => p = e
in_use(T, e) == T.lock_cnt[e] > 0 \/ e \notin T.is_ready

(* match_prefix: how much of seq is cached, how much of that, from the front,
   is in ready nodes, and where the two end. *)
match_prefix(T, seq) ==
  LET matched == Greatest({n \in 0 .. Len(seq) :
                             \A i \in 1 .. n : HashAt(seq, i) \in Cached(T)})
      ready == Greatest({n \in 0 .. matched :
                 \A i \in 1 .. n : NodeOf(T, HashAt(seq, i)) \in T.is_ready})
  IN [matched |-> matched,
      ready |-> ready,
      last_node |-> NodeOf(T, HashAt(seq, matched)),
      last_ready_node |-> NodeOf(T, HashAt(seq, ready))]

lock(T, e) ==
  TreeOf(T.phys, T.ends, T.is_ready, [T.lock_cnt EXCEPT ![e] = @ + 1], T.leaf_nodes)
unlock(T, e) ==
  TreeOf(T.phys, T.ends, T.is_ready, [T.lock_cnt EXCEPT ![e] = @ - 1], T.leaf_nodes)

(* set_ready: node e and the nodes above it down to the front of the last
   ready_length prefixes, which splits may have put there. *)
set_ready(T, e, ready_length) ==
  TreeOf(T.phys, T.ends,
         T.is_ready \cup {f \in T.ends : IsPrefix(f, e) /\ Len(f) > Len(e) - ready_length},
         T.lock_cnt, T.leaf_nodes)

(* The leaf table without the keys in gone and with those of nodes. *)
LeafTable(T, gone, nodes) ==
  LET heads == {head_hash(T, e) : e \in nodes} IN
  [h \in (DOMAIN T.leaf_nodes \ gone) \cup heads |->
     IF h \in heads THEN CHOOSE e \in nodes : head_hash(T, e) = h
     ELSE T.leaf_nodes[h]]
-----------------------------------------------------------------------------
(* _validate_insert_target: the match the insert is based on still holds. *)
ValidTarget(T, seq, matched) ==
  /\ matched > 0 => HashAt(seq, matched) \in Cached(T)
  /\ HashAt(seq, matched + 1) \notin Cached(T)

(* The leaf table after inserting node: the node it hangs on, if it was a
   leaf, goes out under its old head and its back half, if it was split,
   comes in under the new one. *)
LeavesAfterInsert(old, T, last_node, node) ==
  LET leaf == last_node # Root /\ is_leaf(old, last_node) IN
  LeafTable(T, IF leaf THEN {head_hash(old, last_node)} ELSE {},
            IF leaf /\ is_leaf(T, last_node) THEN {last_node, node} ELSE {node})

(* insert of the prefixes matched + 1 .. num of seq as one unready node;
   blocks gives their physical blocks. *)
insert(T, seq, matched, num, blocks) ==
  LET anchor == HashAt(seq, matched)
      node == HashAt(seq, num)
      last_node == NodeOf(T, anchor)
      front == {anchor} \ {Root}  \* a node already, or split off now
      grown(leaf_nodes) ==
        TreeOf([p \in Cached(T) \cup DOMAIN blocks |->
                  IF p \in DOMAIN blocks THEN blocks[p] ELSE T.phys[p]],
               T.ends \cup front \cup {node},
               T.is_ready \cup (IF last_node \in T.is_ready THEN front ELSE {}),
               T.lock_cnt, leaf_nodes)
  IN grown(LeavesAfterInsert(T, grown(T.leaf_nodes), last_node, node))

(* The tree without the prefixes in gone, which are whole nodes or the backs
   of nodes, each with everything below it. *)
Without(T, gone) ==
  LET left == Cached(T) \ gone
      cut == {Longest(Run(T, e) \ gone) :
                e \in {f \in T.ends \cap gone : ~(Run(T, f) \subseteq gone)}}
      lost == {head_hash(T, e) : e \in {f \in T.ends : Run(T, f) \subseteq gone}}
      rest(leaf_nodes) == TreeOf([p \in left |-> T.phys[p]], (T.ends \ gone) \cup cut,
                                 (T.is_ready \ gone) \cup cut, T.lock_cnt, leaf_nodes)
      same == rest(T.leaf_nodes)
      leaves == {e \in same.ends : is_leaf(same, e) /\
                   (e \in cut \/ ~is_leaf(T, e))}
  IN rest(LeafTable(same, lost, leaves))

(* Prefixes evict() can get at: no node at or below them is in use.  The heap
   is filled from the leaf table, and from there upwards. *)
Evictable(T) ==
  {p \in Cached(T) : /\ \A e \in T.ends : IsPrefix(p, e) => ~in_use(T, e)
                     /\ \A e \in T.ends : IsPrefix(p, e) /\ is_leaf(T, e) =>
                          head_hash(T, e) \in DOMAIN T.leaf_nodes}

(* What evict(num_evicted) may evict, whatever the policy: leaves first, whole
   nodes except for the last one, which may be shrunk. *)
EvictChoices(T, num_evicted) ==
  LET all == Evictable(T)
      num == IF num_evicted < Cardinality(all) THEN num_evicted
             ELSE Cardinality(all)
  IN {gone \in SUBSET all :
        /\ Cardinality(gone) = num
        /\ \A p \in gone, q \in Cached(T) : IsPrefix(p, q) => q \in gone
        /\ Cardinality({e \in T.ends \cap gone : ~(Run(T, e) \subseteq gone)}) <= 1}

(* remove_unready_leaf: what is taken out, if anything. *)
UnreadyLeaf(T, e) ==
  IF e # Root /\ e \notin T.is_ready /\ T.lock_cnt[e] = 0 /\ is_leaf(T, e)
    THEN Run(T, e) ELSE {}
=============================================================================
