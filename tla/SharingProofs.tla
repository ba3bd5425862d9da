---------------------------- MODULE SharingProofs ----------------------------
(***************************************************************************)
(* Proofs about what nodes share: the copy of the other nodes' indexes     *)
(* that is swapped under its readers (IndexSwap), the reset of a tier      *)
(* whose blocks other nodes read (ResetBarrier), the registration that     *)
(* says which nodes there are (NodeRegistry), and the leases under which   *)
(* they read each other's blocks (LeaseIndex).                             *)
(***************************************************************************)
EXTENDS IndexSwap, ResetBarrier, NodeRegistry, LeaseIndex, FiniteSetTheorems,
        WellFoundedInduction, TLAPS

-----------------------------------------------------------------------------
(* IndexSwap. *)

SwapTypeOK ==
  /\ trees \in Seq(Nat)
  /\ c_index \in 0..Len(trees) /\ old_index \in 0..Len(trees)
  /\ renew_lease_queue \in Seq(Nat)
  /\ reading \in [Readers -> 0..Len(trees)]
  /\ swapper \in [pc : {"round", "collect", "timer", "release", "stopped"},
                  valid : SUBSET Nat, batch : SUBSET Nat, drop : 0..Len(trees)]

(* A tree has one owner's reference at most: it is the current one, the
   previous one or the one that is being given up, and not two of these. *)
OneOwner ==
  /\ c_index # 0 => c_index # old_index /\ c_index # swapper.drop
  /\ old_index # 0 => old_index # swapper.drop
  /\ c_index = 0 => old_index = 0
  /\ swapper.drop # 0 => swapper.pc = "release"

Walkers(f, g) == {r \in Readers : f[r] = g}
Owned(g) == g \in {c_index, old_index, swapper.drop}
OwnerRef(g) == IF Owned(g) THEN 1 ELSE 0

(* The reference count of a tree is the number of its readers, and one more as
   long as it has an owner. *)
CountsExact ==
  \A g \in Built : trees[g] = Cardinality(Walkers(reading, g)) + OwnerRef(g)

(* What the refresh thread has collected belongs to the trees it may touch,
   and those are still the current and the previous one. *)
BatchValid ==
  /\ swapper.pc = "collect" => swapper.batch \subseteq {c_index, old_index}
  /\ swapper.pc = "collect" => swapper.valid = {c_index, old_index}
  /\ swapper.pc # "collect" => swapper.batch = {}

SwapInv == SwapTypeOK /\ OneOwner /\ CountsExact /\ BatchValid

(* The readers of a tree can be counted. *)
LEMMA WalkersFinite ==
  ASSUME NEW f, NEW g
  PROVE  /\ IsFiniteSet(Walkers(f, g))
         /\ Cardinality(Walkers(f, g)) \in Nat
         /\ Cardinality(Walkers(f, g)) = 0 <=> Walkers(f, g) = {}
<1>1. Walkers(f, g) \in SUBSET Readers BY DEF Walkers
<1>2. IsFiniteSet(Walkers(f, g)) BY <1>1, FS_Subset, SwapAssumption
<1> QED BY <1>2, FS_CardinalityType, FS_EmptySet

(* The counts follow from the invariant on who reads and who owns. *)
LEMMA CountsImplySafe == SwapInv => NoFreedIndex
<1> SUFFICES ASSUME SwapInv PROVE NoFreedIndex OBVIOUS
<1> USE DEF SwapInv
<1>1. ASSUME NEW r \in Readers PROVE ~Freed(reading[r])
  <2> DEFINE g == reading[r]
  <2> SUFFICES ASSUME g \in Built PROVE trees[g] # 0 BY DEF Freed
  <2>1. r \in Walkers(reading, g) BY DEF Walkers
  <2>2. Cardinality(Walkers(reading, g)) \in Nat \ {0} BY <2>1, WalkersFinite
  <2>3. trees[g] = Cardinality(Walkers(reading, g)) + OwnerRef(g) BY DEF CountsExact
  <2>4. OwnerRef(g) \in {0, 1} BY DEF OwnerRef
  <2> HIDE DEF g
  <2> QED BY <2>2, <2>3, <2>4
<1>2. ASSUME NEW g \in swapper.batch PROVE ~Freed(g)
  <2> SUFFICES ASSUME g \in Built PROVE trees[g] # 0 BY DEF Freed
  <2>1. Owned(g) BY <1>2 DEF BatchValid, Owned
  <2>2. trees[g] = Cardinality(Walkers(reading, g)) + 1 BY <2>1 DEF CountsExact, OwnerRef
  <2> QED BY <2>2, WalkersFinite
<1>3. ASSUME NEW g \in Built \ {c_index, old_index, swapper.drop}, trees[g] > 0
      PROVE  \E r \in Readers : reading[r] = g
  <2>1. trees[g] = Cardinality(Walkers(reading, g)) + 0 BY <1>3 DEF CountsExact, OwnerRef, Owned
  <2>2. Cardinality(Walkers(reading, g)) # 0 BY <2>1, <1>3, WalkersFinite
  <2>3. Walkers(reading, g) # {} BY <2>2, WalkersFinite
  <2> QED BY <2>3 DEF Walkers
<1> QED BY <1>1, <1>2, <1>3 DEF NoFreedIndex

(* Before the first rebuild. *)
LEMMA SwapInitInv == SwapInit => SwapInv
<1> SUFFICES ASSUME SwapInit PROVE SwapInv OBVIOUS
<1>1. SwapTypeOK BY DEF SwapInit, SwapTypeOK
<1>2. OneOwner /\ BatchValid BY DEF SwapInit, OneOwner, BatchValid
<1>3. CountsExact BY DEF SwapInit, CountsExact, Built
<1> QED BY <1>1, <1>2, <1>3 DEF SwapInv

(* match_prefix raises the count of the tree it pins. *)
LEMMA MatchBeginStep ==
  ASSUME SwapInv, NEW r \in Readers, MatchBegin(r) PROVE SwapInv'
<1> USE DEF SwapInv, MatchBegin
<1>1. SwapTypeOK' BY DEF SwapTypeOK
<1>2. OneOwner' /\ BatchValid' BY DEF OneOwner, BatchValid
<1>3. CountsExact'
  <2> SUFFICES ASSUME NEW g \in Built'
               PROVE  trees'[g] = Cardinality(Walkers(reading', g)) + OwnerRef(g)'
    BY DEF CountsExact
  <2>1. g \in Built /\ g # 0 BY DEF Built, SwapTypeOK
  <2>2. OwnerRef(g)' = OwnerRef(g) BY DEF Owned, OwnerRef
  <2>3. trees[g] = Cardinality(Walkers(reading, g)) + OwnerRef(g) BY <2>1 DEF CountsExact
  <2>4. OwnerRef(g) \in {0, 1} /\ Cardinality(Walkers(reading, g)) \in Nat BY WalkersFinite DEF OwnerRef
  <2>5. trees'[g] = IF g = c_index THEN trees[g] + 1 ELSE trees[g]
    BY <2>1 DEF SwapTypeOK, Built
  <2>6. Cardinality(Walkers(reading', g)) = IF g = c_index THEN Cardinality(Walkers(reading, g)) + 1
                                   ELSE Cardinality(Walkers(reading, g))
    <3>1. CASE g = c_index
      <4>1. Walkers(reading', g) = Walkers(reading, g) \cup {r} /\ r \notin Walkers(reading, g)
        BY <3>1 DEF Walkers, SwapTypeOK
      <4>2. IsFiniteSet(Walkers(reading, g)) BY WalkersFinite
      <4>3. Cardinality(Walkers(reading, g) \cup {r}) = Cardinality(Walkers(reading, g)) + 1
        BY <4>1, <4>2, FS_AddElement
      <4> QED BY <3>1, <4>1, <4>3
    <3>2. CASE g # c_index
      <4>1. Walkers(reading', g) = Walkers(reading, g)
        BY <2>1, <3>2 DEF Walkers, SwapTypeOK
      <4> QED BY <3>2, <4>1
    <3> QED BY <3>1, <3>2
  <2> QED BY <2>2, <2>3, <2>4, <2>5, <2>6
<1> QED BY <1>1, <1>2, <1>3

(* The end of a match gives up one reference. *)
LEMMA MatchEndStep ==
  ASSUME SwapInv, NEW r \in Readers, MatchEnd(r) PROVE SwapInv'
<1> USE DEF SwapInv, MatchEnd
<1> DEFINE o == reading[r]
<1>0. o \in Built /\ o # 0 BY DEF SwapTypeOK, Built
<1>1. trees' = [trees EXCEPT ![o] = @ - 1] BY <1>0 DEF Dec
<1>2. trees[o] > 0
  <2>1. r \in Walkers(reading, o) BY DEF Walkers
  <2>2. Cardinality(Walkers(reading, o)) \in Nat \ {0} BY <2>1, WalkersFinite
  <2>3. trees[o] = Cardinality(Walkers(reading, o)) + OwnerRef(o) BY <1>0 DEF CountsExact
  <2>4. OwnerRef(o) \in {0, 1} BY DEF OwnerRef
  <2> HIDE DEF o
  <2> QED BY <2>2, <2>3, <2>4
<1>3. SwapTypeOK' BY <1>0, <1>1, <1>2, SMTT(20) DEF SwapTypeOK, Built
<1>4. OneOwner' /\ BatchValid' BY DEF OneOwner, BatchValid
<1>5. CountsExact'
  <2> SUFFICES ASSUME NEW g \in Built'
               PROVE  trees'[g] = Cardinality(Walkers(reading', g)) + OwnerRef(g)'
    BY DEF CountsExact
  <2>1. g \in Built /\ g # 0 BY <1>1 DEF Built, SwapTypeOK
  <2>2. OwnerRef(g)' = OwnerRef(g) BY DEF Owned, OwnerRef
  <2>3. trees[g] = Cardinality(Walkers(reading, g)) + OwnerRef(g) BY <2>1 DEF CountsExact
  <2>4. OwnerRef(g) \in {0, 1} /\ Cardinality(Walkers(reading, g)) \in Nat BY WalkersFinite DEF OwnerRef
  <2>5. trees'[g] = IF g = o THEN trees[g] - 1 ELSE trees[g]
    BY <1>1, <2>1 DEF SwapTypeOK, Built
  <2>6. Cardinality(Walkers(reading', g)) = IF g = o THEN Cardinality(Walkers(reading, g)) - 1
                                   ELSE Cardinality(Walkers(reading, g))
    <3>1. CASE g = o
      <4>1. Walkers(reading', g) = Walkers(reading, g) \ {r} /\ r \in Walkers(reading, g)
        BY <3>1 DEF Walkers, SwapTypeOK
      <4> QED BY <3>1, <4>1, WalkersFinite, FS_RemoveElement, ZenonT(30)
    <3>2. CASE g # o
      <4>1. Walkers(reading', g) = Walkers(reading, g)
        BY <2>1, <3>2 DEF Walkers, SwapTypeOK
      <4> QED BY <3>2, <4>1
    <3> QED BY <3>1, <3>2
  <2> QED BY <2>2, <2>3, <2>4, <2>5, <2>6
<1> QED BY <1>3, <1>4, <1>5

(* The new tree comes with its owner's reference, and the owners move on. *)
LEMMA RefreshSwapsStep == ASSUME SwapInv, RefreshSwaps PROVE SwapInv'
<1> USE DEF SwapInv, RefreshSwaps
<1> PICK n : n = Len(trees) + 1 OBVIOUS
<1>0. swapper.drop = 0 BY DEF OneOwner
<1>1. /\ Len(trees') = n /\ trees'[n] = 1
      /\ \A g \in Built : trees'[g] = trees[g]
      /\ Built' = Built \cup {n} /\ n \notin Built
  BY DEF SwapTypeOK, Built
<1>2. SwapTypeOK'
  <2>1. trees' \in Seq(Nat) BY DEF SwapTypeOK
  <2>2. 0..Len(trees) \subseteq 0..n /\ n \in 0..n BY DEF SwapTypeOK
  <2>3. c_index' \in 0..n /\ old_index' \in 0..n /\ swapper'.drop \in 0..n
    BY <2>2 DEF SwapTypeOK
  <2>4. reading' \in [Readers -> 0..n] BY <2>2 DEF SwapTypeOK
  <2> QED BY <1>1, <2>1, <2>3, <2>4 DEF SwapTypeOK
<1>3. OneOwner' BY <1>0 DEF OneOwner, SwapTypeOK
<1>4. BatchValid' BY DEF BatchValid, SwapTypeOK
<1>5. \A g : Walkers(reading', g) = Walkers(reading, g) BY DEF Walkers
<1>6. CountsExact'
  <2>1. ASSUME NEW g \in Built PROVE CountsExact!(g)'
    <3>1. g # n BY <1>1
    <3>2. swapper'.drop = old_index BY DEF SwapTypeOK
    <3>3. g # 0 BY DEF Built, SwapTypeOK
    <3>4. Owned(g)' <=> Owned(g) BY <1>0, <3>1, <3>2, <3>3 DEF Owned
    <3> QED BY <1>1, <1>5, <3>4 DEF CountsExact, OwnerRef
  <2>2. CountsExact!(n)'
    <3>1. Walkers(reading, n) = {} BY DEF Walkers, SwapTypeOK
    <3>2. OwnerRef(n)' = 1 BY DEF Owned, OwnerRef
    <3>3. Cardinality(Walkers(reading', n)) = 0 BY <1>5, <3>1, FS_EmptySet
    <3> QED BY <1>1, <3>2, <3>3
  <2> QED BY <1>1, <2>1, <2>2 DEF CountsExact
<1> QED BY <1>2, <1>3, <1>4, <1>6

(* Giving up the tree before the previous one takes its owner's reference. *)
LEMMA RefreshReleasesStep == ASSUME SwapInv, RefreshReleases PROVE SwapInv'
<1> USE DEF SwapInv, RefreshReleases
<1> DEFINE d == swapper.drop
<1>0. swapper'.drop = 0 /\ swapper'.pc = "round" /\ swapper'.batch = swapper.batch
  BY DEF SwapTypeOK
<1>1. \A g \in Built : trees[g] \in Nat /\ (g = d => trees[g] > 0)
  BY WalkersFinite DEF SwapTypeOK, Built, CountsExact, Owned, OwnerRef
<1>2. /\ Built' = Built /\ Len(trees') = Len(trees) /\ trees' \in Seq(Nat)
      /\ \A g \in Built : trees'[g] = IF g = d THEN trees[g] - 1 ELSE trees[g]
  BY <1>1 DEF SwapTypeOK, Built, Dec
<1>3. SwapTypeOK'
  <2>1. swapper' \in [pc : {"round"}, valid : {{}}, batch : SUBSET Nat, drop : {0}]
    BY DEF SwapTypeOK
  <2> QED BY <1>2, <2>1 DEF SwapTypeOK
<1>4. OneOwner' /\ BatchValid' BY <1>0 DEF OneOwner, BatchValid
<1>5. \A g : Walkers(reading', g) = Walkers(reading, g) BY DEF Walkers
<1>6. ASSUME NEW g \in Built PROVE CountsExact!(g)'
  <2>1. g # 0 BY DEF Built, SwapTypeOK
  <2>2. g = d => Owned(g) /\ ~Owned(g)' BY <1>0, <2>1 DEF Owned, OneOwner
  <2>3. g # d => (Owned(g)' <=> Owned(g)) BY <1>0, <2>1 DEF Owned
  <2>4. trees[g] = Cardinality(Walkers(reading, g)) + OwnerRef(g) BY DEF CountsExact
  <2>5. Cardinality(Walkers(reading, g)) \in Nat BY WalkersFinite
  <2>6. CASE g = d
    BY <1>2, <1>5, <2>2, <2>4, <2>5, <2>6 DEF OwnerRef
  <2>7. CASE g # d
    BY <1>2, <1>5, <2>3, <2>4, <2>7 DEF OwnerRef
  <2> QED BY <2>6, <2>7
<1> QED BY <1>2, <1>3, <1>4, <1>6 DEF CountsExact

(* reset takes the references of the current and the previous tree; a match
   that walks one of them keeps it. *)
LEMMA IndexResetStep == ASSUME SwapInv, IndexReset PROVE SwapInv'
<1> USE DEF SwapInv, IndexReset
<1>0. swapper.drop = 0 /\ c_index # 0 /\ c_index # old_index BY DEF OneOwner
<1>1. \A g \in Built : trees[g] \in Nat /\ (Owned(g) => trees[g] > 0)
  BY WalkersFinite DEF SwapTypeOK, Built, CountsExact, OwnerRef
<1>2. /\ Built' = Built /\ Len(trees') = Len(trees) /\ trees' \in Seq(Nat)
      /\ \A g \in Built : trees'[g] = IF Owned(g) THEN trees[g] - 1 ELSE trees[g]
  <2> DEFINE ts == Dec(trees, c_index)
  <2>1. /\ ts \in Seq(Nat) /\ Len(ts) = Len(trees)
        /\ \A g \in Built : ts[g] = IF g = c_index THEN trees[g] - 1 ELSE trees[g]
    BY <1>0, <1>1 DEF SwapTypeOK, Built, Dec, Owned
  <2> HIDE DEF ts
  <2>2. \A g \in Built : g = old_index => ts[g] > 0 BY <1>0, <1>1, <2>1 DEF Owned
  <2>3. trees' = Dec(ts, old_index) BY DEF ts
  <2>4. /\ trees' \in Seq(Nat) /\ Len(trees') = Len(trees)
        /\ \A g \in Built : trees'[g] = IF g = old_index THEN ts[g] - 1 ELSE ts[g]
    <3>1. CASE old_index = 0
      <4>1. trees' = ts /\ \A g \in Built : g # old_index
        BY <2>3, <3>1 DEF Dec, Built, SwapTypeOK
      <4> QED BY <2>1, <4>1
    <3>2. CASE old_index # 0
      <4>1. Built = 1..Len(ts) BY <2>1 DEF SwapTypeOK, Built
      <4>2. old_index \in Built BY <3>2 DEF SwapTypeOK, Built
      <4>3. ts[old_index] \in Nat /\ ts[old_index] > 0 BY <2>1, <2>2, <4>1, <4>2
      <4>4. trees' = [ts EXCEPT ![old_index] = @ - 1] BY <2>3, <3>2 DEF Dec
      <4> QED BY <2>1, <4>1, <4>2, <4>3, <4>4
    <3> QED BY <3>1, <3>2
  <2>5. Built' = Built BY <2>4 DEF Built, SwapTypeOK
  <2>6. \A g \in Built : g # 0 BY DEF Built, SwapTypeOK
  <2> QED BY <1>0, <2>1, <2>4, <2>5, <2>6 DEF Owned
<1>3. SwapTypeOK' BY <1>2 DEF SwapTypeOK
<1>4. OneOwner' /\ BatchValid' BY <1>0 DEF OneOwner, BatchValid
<1>5. \A g : Walkers(reading', g) = Walkers(reading, g) BY DEF Walkers
<1>6. ASSUME NEW g \in Built PROVE CountsExact!(g)'
  <2>1. g # 0 BY DEF Built, SwapTypeOK
  <2>2. ~Owned(g)' BY <1>0, <2>1 DEF Owned
  <2>3. trees[g] = Cardinality(Walkers(reading, g)) + OwnerRef(g) BY DEF CountsExact
  <2> QED BY <1>2, <1>5, <2>2, <2>3, WalkersFinite DEF OwnerRef
<1> QED BY <1>2, <1>3, <1>4, <1>6 DEF CountsExact

(* The other steps of the refresh thread, and a match that queues a node,
   leave the trees, their owners and their readers alone. *)
LEMMA QuietSwapStep ==
  ASSUME SwapInv,
         \/ \E r \in Readers : MatchQueues(r)
         \/ RefreshRound \/ RefreshCollects \/ RefreshRenews \/ RefreshSkips
         \/ RefreshStops \/ RefreshStarts
  PROVE  SwapInv'
<1> USE DEF SwapInv
<1>1. UNCHANGED << trees, c_index, old_index, reading, swapper.drop >>
  BY DEF MatchQueues, RefreshRound, RefreshCollects, RefreshRenews, RefreshSkips,
         RefreshStops, RefreshStarts, SwapTypeOK
<1>2. CountsExact' BY <1>1 DEF CountsExact, Built, Walkers, Owned, OwnerRef
<1>3. SwapTypeOK' /\ OneOwner' /\ BatchValid'
  <2>1. CASE \E r \in Readers : MatchQueues(r)
    BY <2>1 DEF MatchQueues, SwapTypeOK, OneOwner, BatchValid
  <2>2. CASE RefreshRound
    <3>1. {c_index, old_index} \in SUBSET Nat BY DEF SwapTypeOK
    <3>2. swapper.batch = {} /\ swapper.drop = 0 BY <2>2 DEF RefreshRound, OneOwner, BatchValid
    <3> QED BY <2>2, <3>1, <3>2 DEF RefreshRound, SwapTypeOK, OneOwner, BatchValid
  <2>3. CASE RefreshCollects
    <3>1. Head(renew_lease_queue) \in Nat /\ Tail(renew_lease_queue) \in Seq(Nat)
      BY <2>3 DEF RefreshCollects, SwapTypeOK
    <3> QED BY <2>3, <3>1
         DEF RefreshCollects, StillValid, SwapTypeOK, OneOwner, BatchValid
  <2>4. CASE RefreshRenews BY <2>4 DEF RefreshRenews, SwapTypeOK, OneOwner, BatchValid
  <2>5. CASE RefreshSkips BY <2>5 DEF RefreshSkips, SwapTypeOK, OneOwner, BatchValid
  <2>6. CASE RefreshStops BY <2>6 DEF RefreshStops, SwapTypeOK, OneOwner, BatchValid
  <2>7. CASE RefreshStarts BY <2>7 DEF RefreshStarts, SwapTypeOK, OneOwner, BatchValid
  <2> QED BY <2>1, <2>2, <2>3, <2>4, <2>5, <2>6, <2>7
<1> QED BY <1>2, <1>3

(* No thread touches a node of a deleted tree, and no tree is kept for good,
   for any number of matching threads, rebuilds, resets and queued nodes. *)
THEOREM FreedIndexUnreachable == SwapSpec => []NoFreedIndex
<1>1. SwapInv /\ [SwapNext]_swapVars => SwapInv'
  <2> SUFFICES ASSUME SwapInv, [SwapNext]_swapVars PROVE SwapInv' OBVIOUS
  <2>1. CASE UNCHANGED swapVars
    <3> USE <2>1 DEF swapVars
    <3>1. SwapTypeOK' BY DEF SwapInv, SwapTypeOK
    <3>2. OneOwner' /\ BatchValid' BY DEF SwapInv, OneOwner, BatchValid
    <3>3. CountsExact' BY DEF SwapInv, CountsExact, Built, Walkers, Owned, OwnerRef
    <3> QED BY <3>1, <3>2, <3>3 DEF SwapInv
  <2>2. CASE SwapNext
    BY <2>2, MatchBeginStep, MatchEndStep, RefreshSwapsStep, RefreshReleasesStep,
       IndexResetStep, QuietSwapStep DEF SwapNext
  <2> QED BY <2>1, <2>2
<1> QED BY <1>1, SwapInitInv, CountsImplySafe, PTL DEF SwapSpec

-----------------------------------------------------------------------------
(* ResetBarrier. *)

Past == {"dropped", "waiting", "arrived", "clean", "finished"}
InReset(n) == resetter[n].pc \in {"begun"} \cup Past
Through(n) == resetter[n].pc \in {"arrived", "clean", "finished"}
Alive(n) == resetter[n].pc \notin {"off", "dead"}
Arrived(n) == barrier.arrivals[n]
BlockKeys == [by : Members, gen : Nat]
Knows(m, n) == \E k \in resetter[m].index : k.by = n

BarrierRec ==
  [pc : {"off", "up", "dead", "stopped", "begun"} \cup Past, restart : BOOLEAN,
   epoch : Nat, gen : Nat, index : SUBSET BlockKeys]

BarrierTypeOK ==
  /\ resetter \in [Members -> BarrierRec]
  /\ node_set \in SUBSET Members
  /\ block_keys \in SUBSET BlockKeys
  /\ barrier \in [active : Nat, epoch : Nat, arrivals : [Members -> Nat]]

(* The epoch that is open is the latest; nobody is ahead of it, and a node has
   not arrived at a later epoch than the one it is in. *)
EpochsInStep ==
  /\ barrier.active \in {0, barrier.epoch}
  /\ \A n \in Members :
       /\ Arrived(n) <= barrier.epoch
       /\ resetter[n].pc = "off" => Arrived(n) = 0
       /\ InReset(n) => /\ 1 <= resetter[n].epoch /\ resetter[n].epoch <= barrier.epoch
                        /\ Arrived(n) <= resetter[n].epoch
       /\ resetter[n].pc = "waiting" \/ Through(n) => Arrived(n) = resetter[n].epoch

(* A node that has dropped its trees has no keys in Redis and no copy. *)
Dropped ==
  /\ \A n \in Members : resetter[n].pc \in Past \cup {"stopped", "off"} => KeysOf(n) = {}
  /\ \A n \in Members : resetter[n].index # {} => resetter[n].pc \in {"up", "begun"}
  /\ \A n \in Members : Alive(n) => n \in node_set

(* A node that arrived at the open epoch stays out until it closes. *)
ArrivedStaysOut ==
  \A n \in Members : barrier.active # 0 /\ Arrived(n) = barrier.active =>
    /\ resetter[n].pc \notin {"off", "up", "finished"}
    /\ resetter[n].index = {}

(* A node that has arrived at its epoch has no keys, even if it began again. *)
ArrivedHasNoKeys ==
  \A n \in Members : InReset(n) /\ Arrived(n) = resetter[n].epoch => KeysOf(n) = {}

(* Who is through the barrier has seen every registered node arrive. *)
ThroughMeansAll ==
  \A m \in Members : Through(m) => \A n \in node_set : resetter[m].epoch <= Arrived(n)

(* No node is through an epoch, or up again after it, while another that is in
   the same epoch has not arrived. *)
NobodyLeftBehind ==
  \A m, n \in Members :
    (Through(m) \/ resetter[m].pc = "up") /\ InReset(n) /\ resetter[n].epoch = Arrived(m)
      => Arrived(n) = resetter[n].epoch

(* A node that has arrived at another's epoch has no copy of its keys. *)
ArrivedForgets ==
  \A m, n \in Members : InReset(n) /\ Arrived(m) = resetter[n].epoch => ~Knows(m, n)

(* Nobody knows a block of a node that is through. *)
ThroughIsUnknown ==
  \A m, n \in Members : Through(n) => ~Knows(m, n)

BarrierInv ==
  /\ BarrierTypeOK /\ EpochsInStep /\ Dropped /\ ArrivedStaysOut /\ ArrivedHasNoKeys
  /\ ThroughMeansAll /\ NobodyLeftBehind /\ ArrivedForgets /\ ThroughIsUnknown
  /\ ResetTogether

(* Before any node has joined. *)
LEMMA BarrierInitInv == BarrierInit => BarrierInv
<1> SUFFICES ASSUME BarrierInit PROVE BarrierInv OBVIOUS
<1> USE DEF BarrierInit, Past, InReset, Through, Arrived, KeysOf, Knows, Alive
<1>1. BarrierTypeOK BY DEF BarrierTypeOK, BarrierRec
<1>2. EpochsInStep BY DEF EpochsInStep
<1>3. Dropped /\ ArrivedStaysOut /\ ArrivedHasNoKeys
  BY DEF Dropped, ArrivedStaysOut, ArrivedHasNoKeys
<1>4. ThroughMeansAll /\ NobodyLeftBehind /\ ArrivedForgets /\ ThroughIsUnknown
  BY DEF ThroughMeansAll, NobodyLeftBehind, ArrivedForgets, ThroughIsUnknown
<1>5. ResetTogether BY DEF ResetTogether
<1> QED BY <1>1, <1>2, <1>3, <1>4, <1>5 DEF BarrierInv

(* A node that joins meets no reset: it has arrived nowhere and holds nothing. *)
LEMMA MemberJoinsStep ==
  ASSUME BarrierInv, JoinsApart, NEW n \in Members, MemberJoins(n) PROVE BarrierInv'
<1> USE DEF BarrierInv, MemberJoins, Is, Past, InReset, Through, Arrived, KeysOf, Knows, Alive
<1>1. BarrierTypeOK'
  <2>1. resetter' \in [Members -> BarrierRec]
    BY ONLY BarrierTypeOK, MemberJoins(n), n \in Members DEF BarrierTypeOK, BarrierRec, MemberJoins, Is, Past
  <2> QED BY <2>1 DEF BarrierTypeOK, BlockKeys
<1>2. EpochsInStep' BY DEF EpochsInStep, BarrierTypeOK, BarrierRec
<1>3. Dropped' BY DEF Dropped, BarrierTypeOK, BarrierRec
<1>4. ArrivedStaysOut' BY DEF ArrivedStaysOut, BarrierTypeOK, BarrierRec
<1>5. ArrivedHasNoKeys' BY DEF ArrivedHasNoKeys, BarrierTypeOK, BarrierRec
<1>6. ThroughMeansAll' BY DEF ThroughMeansAll, BarrierTypeOK, BarrierRec
<1>7. NobodyLeftBehind' BY DEF NobodyLeftBehind, BarrierTypeOK, BarrierRec
<1>8. ArrivedForgets' BY DEF ArrivedForgets, BarrierTypeOK, BarrierRec
<1>9. ThroughIsUnknown' BY DEF ThroughIsUnknown, BarrierTypeOK, BarrierRec
<1>10. ResetTogether' BY DEF ResetTogether, BarrierTypeOK, BarrierRec
<1> QED BY <1>1, <1>2, <1>3, <1>4, <1>5, <1>6, <1>7, <1>8, <1>9, <1>10

(* A dead node has no copy; its keys stay and keep their generation. *)
LEMMA MemberDiesStep ==
  ASSUME BarrierInv, JoinsApart, NEW n \in Members, MemberDies(n) PROVE BarrierInv'
<1> USE DEF BarrierInv, MemberDies, Is, Past, InReset, Through, Arrived, KeysOf, Knows, Alive
<1>1. BarrierTypeOK'
  <2>1. [resetter[n] EXCEPT !.pc = "dead", !.index = {}] \in BarrierRec
    BY ZenonT(30) DEF BarrierTypeOK, BarrierRec
  <2> QED BY <2>1 DEF BarrierTypeOK
<1>2. EpochsInStep' BY DEF EpochsInStep, BarrierTypeOK, BarrierRec
<1>3. Dropped' BY DEF Dropped, BarrierTypeOK, BarrierRec
<1>4. ArrivedStaysOut' BY DEF ArrivedStaysOut, BarrierTypeOK, BarrierRec
<1>5. ArrivedHasNoKeys' BY DEF ArrivedHasNoKeys, BarrierTypeOK, BarrierRec
<1>6. ThroughMeansAll' BY DEF ThroughMeansAll, BarrierTypeOK, BarrierRec
<1>7. NobodyLeftBehind' BY DEF NobodyLeftBehind, BarrierTypeOK, BarrierRec
<1>8. ArrivedForgets' BY DEF ArrivedForgets, BarrierTypeOK, BarrierRec
<1>9. ThroughIsUnknown' BY DEF ThroughIsUnknown, BarrierTypeOK, BarrierRec
<1>10. ResetTogether' BY DEF ResetTogether, BarrierTypeOK, BarrierRec
<1> QED BY <1>1, <1>2, <1>3, <1>4, <1>5, <1>6, <1>7, <1>8, <1>9, <1>10

(* The lease of a dead node ends. *)
LEMMA MemberForgottenStep ==
  ASSUME BarrierInv, JoinsApart, NEW n \in Members, MemberForgotten(n) PROVE BarrierInv'
<1> USE DEF BarrierInv, MemberForgotten, Is, Past, InReset, Through, Arrived, KeysOf, Knows, Alive
<1>1. BarrierTypeOK'
  <2>1. resetter' \in [Members -> BarrierRec]
    BY ONLY BarrierTypeOK, MemberForgotten(n), n \in Members DEF BarrierTypeOK, BarrierRec, MemberForgotten, Is, Past
  <2> QED BY <2>1 DEF BarrierTypeOK, BlockKeys
<1>2. EpochsInStep' BY DEF EpochsInStep, BarrierTypeOK, BarrierRec
<1>3. Dropped' BY DEF Dropped, BarrierTypeOK, BarrierRec
<1>4. ArrivedStaysOut' BY DEF ArrivedStaysOut, BarrierTypeOK, BarrierRec
<1>5. ArrivedHasNoKeys' BY DEF ArrivedHasNoKeys, BarrierTypeOK, BarrierRec
<1>6. ThroughMeansAll' BY DEF ThroughMeansAll, BarrierTypeOK, BarrierRec
<1>7. NobodyLeftBehind' BY DEF NobodyLeftBehind, BarrierTypeOK, BarrierRec
<1>8. ArrivedForgets' BY DEF ArrivedForgets, BarrierTypeOK, BarrierRec
<1>9. ThroughIsUnknown' BY DEF ThroughIsUnknown, BarrierTypeOK, BarrierRec
<1>10. ResetTogether' BY DEF ResetTogether, BarrierTypeOK, BarrierRec
<1> QED BY <1>1, <1>2, <1>3, <1>4, <1>5, <1>6, <1>7, <1>8, <1>9, <1>10

(* The block keys of a dead node go. *)
LEMMA MemberCleanedStep ==
  ASSUME BarrierInv, JoinsApart, NEW n \in Members, MemberCleaned(n) PROVE BarrierInv'
<1> USE DEF BarrierInv, MemberCleaned, Is, Past, InReset, Through, Arrived, KeysOf, Knows, Alive
<1>1. BarrierTypeOK'
  <2>1. resetter' \in [Members -> BarrierRec]
    BY ONLY BarrierTypeOK, MemberCleaned(n), n \in Members DEF BarrierTypeOK, BarrierRec, MemberCleaned, Is, Past
  <2> QED BY <2>1 DEF BarrierTypeOK, BlockKeys
<1>2. EpochsInStep' BY DEF EpochsInStep, BarrierTypeOK, BarrierRec
<1>3. Dropped' BY DEF Dropped, BarrierTypeOK, BarrierRec
<1>4. ArrivedStaysOut' BY DEF ArrivedStaysOut, BarrierTypeOK, BarrierRec
<1>5. ArrivedHasNoKeys' BY DEF ArrivedHasNoKeys, BarrierTypeOK, BarrierRec
<1>6. ThroughMeansAll' BY DEF ThroughMeansAll, BarrierTypeOK, BarrierRec
<1>7. NobodyLeftBehind' BY DEF NobodyLeftBehind, BarrierTypeOK, BarrierRec
<1>8. ArrivedForgets' BY DEF ArrivedForgets, BarrierTypeOK, BarrierRec
<1>9. ThroughIsUnknown' BY DEF ThroughIsUnknown, BarrierTypeOK, BarrierRec
<1>10. ResetTogether' BY DEF ResetTogether, BarrierTypeOK, BarrierRec
<1> QED BY <1>1, <1>2, <1>3, <1>4, <1>5, <1>6, <1>7, <1>8, <1>9, <1>10

(* A node that is up publishes blocks of its present generation. *)
LEMMA BlocksPublishedStep ==
  ASSUME BarrierInv, JoinsApart, NEW n \in Members, BlocksPublished(n) PROVE BarrierInv'
<1> USE DEF BarrierInv, BlocksPublished, Is, Past, InReset, Through, Arrived, KeysOf, Knows, Alive
<1>1. BarrierTypeOK'
  <2>1. resetter' \in [Members -> BarrierRec]
    BY ONLY BarrierTypeOK, BlocksPublished(n), n \in Members DEF BarrierTypeOK, BarrierRec, BlocksPublished, Is, Past
  <2>2. resetter[n].gen \in Nat
    BY DEF BarrierTypeOK, BarrierRec
  <2> QED BY <2>1, <2>2 DEF BarrierTypeOK, BlockKeys
<1>2. EpochsInStep' BY DEF EpochsInStep, BarrierTypeOK, BarrierRec
<1>3. Dropped' BY DEF Dropped, BarrierTypeOK, BarrierRec
<1>4. ArrivedStaysOut' BY DEF ArrivedStaysOut, BarrierTypeOK, BarrierRec
<1>5. ArrivedHasNoKeys' BY DEF ArrivedHasNoKeys, BarrierTypeOK, BarrierRec
<1>6. ThroughMeansAll' BY DEF ThroughMeansAll, BarrierTypeOK, BarrierRec
<1>7. NobodyLeftBehind' BY DEF NobodyLeftBehind, BarrierTypeOK, BarrierRec
<1>8. ArrivedForgets' BY DEF ArrivedForgets, BarrierTypeOK, BarrierRec
<1>9. ThroughIsUnknown' BY DEF ThroughIsUnknown, BarrierTypeOK, BarrierRec
<1>10. ResetTogether' BY DEF ResetTogether, BarrierTypeOK, BarrierRec
<1> QED BY <1>1, <1>2, <1>3, <1>4, <1>5, <1>6, <1>7, <1>8, <1>9, <1>10

(* A rebuilt copy holds keys that are in Redis: none of a node that waits for
   this one, because that node has arrived and dropped its own. *)
LEMMA IndexRebuiltStep ==
  ASSUME BarrierInv, JoinsApart, NEW n \in Members, IndexRebuilt(n) PROVE BarrierInv'
<1> USE DEF BarrierInv, IndexRebuilt, Is, Past, InReset, Through, Arrived, KeysOf, Knows, Alive
<1>1. BarrierTypeOK'
  <2>1. resetter' \in [Members -> BarrierRec]
    BY ONLY BarrierTypeOK, IndexRebuilt(n), n \in Members DEF BarrierTypeOK, BarrierRec, IndexRebuilt, Is, Past
  <2> QED BY <2>1 DEF BarrierTypeOK, BlockKeys
<1>2. ArrivedForgets'
  BY DEF ArrivedForgets, NobodyLeftBehind, ArrivedHasNoKeys, BarrierTypeOK, BarrierRec
<1>3. ThroughIsUnknown'
  BY DEF ThroughIsUnknown, Dropped, BarrierTypeOK, BarrierRec
<1>4. EpochsInStep' BY DEF EpochsInStep, BarrierTypeOK, BarrierRec
<1>5. Dropped' BY DEF Dropped, BarrierTypeOK, BarrierRec
<1>6. ArrivedStaysOut' BY DEF ArrivedStaysOut, BarrierTypeOK, BarrierRec
<1>7. ArrivedHasNoKeys' BY DEF ArrivedHasNoKeys, BarrierTypeOK, BarrierRec
<1>8. ThroughMeansAll' BY DEF ThroughMeansAll, BarrierTypeOK, BarrierRec
<1>9. NobodyLeftBehind' BY DEF NobodyLeftBehind, BarrierTypeOK, BarrierRec
<1>10. ResetTogether' BY DEF ResetTogether, BarrierTypeOK, BarrierRec
<1> QED BY <1>1, <1>2, <1>3, <1>4, <1>5, <1>6, <1>7, <1>8, <1>9, <1>10

(* A reset joins the open epoch, at which nobody that is up has arrived, or
   opens one at which nobody has. *)
LEMMA ResetBeginsStep ==
  ASSUME BarrierInv, JoinsApart, NEW n \in Members, ResetBegins(n) PROVE BarrierInv'
<1> USE DEF BarrierInv, ResetBegins, Is, Past, InReset, Through, Arrived, KeysOf, Knows, Alive
<1>1. BarrierTypeOK'
  <2> PICK e : e = IF barrier.active # 0 THEN barrier.active ELSE barrier.epoch + 1 OBVIOUS
  <2>1. e \in Nat BY DEF BarrierTypeOK, BarrierRec
  <2>2. barrier' \in [active : Nat, epoch : Nat, arrivals : [Members -> Nat]]
    BY <2>1 DEF BarrierTypeOK
  <2>3. [resetter[n] EXCEPT !.pc = "begun", !.epoch = e, !.restart = Is(n, "up")] \in BarrierRec
    <3>1. Is(n, "up") \in BOOLEAN OBVIOUS
    <3>2. resetter[n] \in BarrierRec BY DEF BarrierTypeOK
    <3> HIDE DEF Is
    <3> QED BY <2>1, <3>1, <3>2 DEF BarrierRec
  <2>4. resetter' \in [Members -> BarrierRec] BY <2>3 DEF BarrierTypeOK
  <2> QED BY <2>2, <2>4 DEF BarrierTypeOK
<1>2. ArrivedStaysOut'
  BY DEF ArrivedStaysOut, EpochsInStep, Dropped, BarrierTypeOK, BarrierRec
<1>3. ArrivedHasNoKeys'
  BY DEF ArrivedHasNoKeys, ArrivedStaysOut, EpochsInStep, Dropped, BarrierTypeOK, BarrierRec
<1>4. NobodyLeftBehind'
  BY DEF NobodyLeftBehind, ThroughMeansAll, ArrivedStaysOut, EpochsInStep, Dropped, BarrierTypeOK, BarrierRec
<1>5. ArrivedForgets'
  BY DEF ArrivedForgets, ArrivedStaysOut, EpochsInStep, BarrierTypeOK, BarrierRec
<1>6. EpochsInStep' BY DEF EpochsInStep, BarrierTypeOK, BarrierRec
<1>7. Dropped' BY DEF Dropped, BarrierTypeOK, BarrierRec
<1>8. ThroughMeansAll' BY DEF ThroughMeansAll, BarrierTypeOK, BarrierRec
<1>9. ThroughIsUnknown' BY DEF ThroughIsUnknown, BarrierTypeOK, BarrierRec
<1>10. ResetTogether' BY DEF ResetTogether, BarrierTypeOK, BarrierRec
<1> QED BY <1>1, <1>2, <1>3, <1>4, <1>5, <1>6, <1>7, <1>8, <1>9, <1>10

(* The keys and the copy of a resetting node go. *)
LEMMA TreesDroppedStep ==
  ASSUME BarrierInv, JoinsApart, NEW n \in Members, TreesDropped(n) PROVE BarrierInv'
<1> USE DEF BarrierInv, TreesDropped, Is, Past, InReset, Through, Arrived, KeysOf, Knows, Alive
<1>1. BarrierTypeOK'
  <2>1. block_keys' \in SUBSET BlockKeys BY DEF BarrierTypeOK, BarrierRec
  <2>2. resetter' \in [Members -> BarrierRec]
    <3>1. resetter[n] \in BarrierRec BY DEF BarrierTypeOK
    <3>2. [resetter[n] EXCEPT !.pc = "dropped", !.index = {}] \in BarrierRec
      BY <3>1 DEF BarrierRec
    <3> QED BY <3>2 DEF BarrierTypeOK
  <2> QED BY <2>1, <2>2 DEF BarrierTypeOK
<1>2. EpochsInStep' BY DEF EpochsInStep, BarrierTypeOK, BarrierRec
<1>3. Dropped' BY DEF Dropped, BarrierTypeOK, BarrierRec
<1>4. ArrivedStaysOut' BY DEF ArrivedStaysOut, BarrierTypeOK, BarrierRec
<1>5. ArrivedHasNoKeys' BY DEF ArrivedHasNoKeys, BarrierTypeOK, BarrierRec
<1>6. ThroughMeansAll' BY DEF ThroughMeansAll, BarrierTypeOK, BarrierRec
<1>7. NobodyLeftBehind' BY DEF NobodyLeftBehind, BarrierTypeOK, BarrierRec
<1>8. ArrivedForgets' BY DEF ArrivedForgets, BarrierTypeOK, BarrierRec
<1>9. ThroughIsUnknown' BY DEF ThroughIsUnknown, BarrierTypeOK, BarrierRec
<1>10. ResetTogether' BY DEF ResetTogether, BarrierTypeOK, BarrierRec
<1> QED BY <1>1, <1>2, <1>3, <1>4, <1>5, <1>6, <1>7, <1>8, <1>9, <1>10

(* A node arrives when it has dropped everything. *)
LEMMA ResetArrivesStep ==
  ASSUME BarrierInv, JoinsApart, NEW n \in Members, ResetArrives(n) PROVE BarrierInv'
<1> USE DEF BarrierInv, ResetArrives, Is, Past, InReset, Through, Arrived, KeysOf, Knows, Alive
<1>1. BarrierTypeOK'
  <2>1. resetter' \in [Members -> BarrierRec]
    BY ONLY BarrierTypeOK, ResetArrives(n), n \in Members DEF BarrierTypeOK, BarrierRec, ResetArrives, Is, Past
  <2>2. resetter[n].epoch \in Nat
    BY DEF BarrierTypeOK, BarrierRec
  <2> QED BY <2>1, <2>2 DEF BarrierTypeOK, BlockKeys
<1>2. ArrivedStaysOut'
  BY DEF ArrivedStaysOut, Dropped, BarrierTypeOK, BarrierRec
<1>3. ArrivedHasNoKeys'
  BY DEF ArrivedHasNoKeys, Dropped, BarrierTypeOK, BarrierRec
<1>4. ThroughMeansAll'
  BY DEF ThroughMeansAll, EpochsInStep, BarrierTypeOK, BarrierRec
<1>5. ArrivedForgets'
  BY DEF ArrivedForgets, Dropped, BarrierTypeOK, BarrierRec
<1>6. EpochsInStep' BY DEF EpochsInStep, BarrierTypeOK, BarrierRec
<1>7. Dropped' BY DEF Dropped, BarrierTypeOK, BarrierRec
<1>8. NobodyLeftBehind' BY DEF NobodyLeftBehind, BarrierTypeOK, BarrierRec
<1>9. ThroughIsUnknown' BY DEF ThroughIsUnknown, BarrierTypeOK, BarrierRec
<1>10. ResetTogether' BY DEF ResetTogether, BarrierTypeOK, BarrierRec
<1> QED BY <1>1, <1>2, <1>3, <1>4, <1>5, <1>6, <1>7, <1>8, <1>9, <1>10

(* All registered nodes have arrived: nobody has a copy of this node's keys. *)
LEMMA BarrierSeenStep ==
  ASSUME BarrierInv, JoinsApart, NEW n \in Members, BarrierSeen(n) PROVE BarrierInv'
<1> USE DEF BarrierInv, BarrierSeen, Is, Past, InReset, Through, Arrived, KeysOf, Knows, Alive
<1>1. BarrierTypeOK'
  <2>1. resetter' \in [Members -> BarrierRec]
    BY ONLY BarrierTypeOK, BarrierSeen(n), n \in Members DEF BarrierTypeOK, BarrierRec, BarrierSeen, Is, Past
  <2> QED BY <2>1 DEF BarrierTypeOK, BlockKeys
<1>2. ThroughMeansAll'
  BY DEF ThroughMeansAll, AllArrived, BarrierTypeOK, BarrierRec
<1>3. NobodyLeftBehind'
  BY DEF NobodyLeftBehind, AllArrived, EpochsInStep, Dropped, BarrierTypeOK, BarrierRec
<1>4. ThroughIsUnknown'
  BY DEF ThroughIsUnknown, ArrivedForgets, AllArrived, Dropped, BarrierTypeOK, BarrierRec
<1>5. EpochsInStep' BY DEF EpochsInStep, BarrierTypeOK, BarrierRec
<1>6. Dropped' BY DEF Dropped, BarrierTypeOK, BarrierRec
<1>7. ArrivedStaysOut' BY DEF ArrivedStaysOut, BarrierTypeOK, BarrierRec
<1>8. ArrivedHasNoKeys' BY DEF ArrivedHasNoKeys, BarrierTypeOK, BarrierRec
<1>9. ArrivedForgets' BY DEF ArrivedForgets, BarrierTypeOK, BarrierRec
<1>10. ResetTogether' BY DEF ResetTogether, BarrierTypeOK, BarrierRec
<1> QED BY <1>1, <1>2, <1>3, <1>4, <1>5, <1>6, <1>7, <1>8, <1>9, <1>10

(* The second question of the wait changes nothing but the answer. *)
LEMMA NoKeysSeenStep ==
  ASSUME BarrierInv, JoinsApart, NEW n \in Members, NoKeysSeen(n) PROVE BarrierInv'
<1> USE DEF BarrierInv, NoKeysSeen, Is, Past, InReset, Through, Arrived, KeysOf, Knows, Alive
<1>1. BarrierTypeOK'
  <2>1. resetter' \in [Members -> BarrierRec]
    BY ONLY BarrierTypeOK, NoKeysSeen(n), n \in Members DEF BarrierTypeOK, BarrierRec, NoKeysSeen, Is, Past
  <2> QED BY <2>1 DEF BarrierTypeOK, BlockKeys
<1>2. EpochsInStep' BY DEF EpochsInStep, BarrierTypeOK, BarrierRec
<1>3. Dropped' BY DEF Dropped, BarrierTypeOK, BarrierRec
<1>4. ArrivedStaysOut' BY DEF ArrivedStaysOut, BarrierTypeOK, BarrierRec
<1>5. ArrivedHasNoKeys' BY DEF ArrivedHasNoKeys, BarrierTypeOK, BarrierRec
<1>6. ThroughMeansAll' BY DEF ThroughMeansAll, BarrierTypeOK, BarrierRec
<1>7. NobodyLeftBehind' BY DEF NobodyLeftBehind, BarrierTypeOK, BarrierRec
<1>8. ArrivedForgets' BY DEF ArrivedForgets, BarrierTypeOK, BarrierRec
<1>9. ThroughIsUnknown' BY DEF ThroughIsUnknown, BarrierTypeOK, BarrierRec
<1>10. ResetTogether' BY DEF ResetTogether, BarrierTypeOK, BarrierRec
<1> QED BY <1>1, <1>2, <1>3, <1>4, <1>5, <1>6, <1>7, <1>8, <1>9, <1>10

(* A node that gives up has dropped its keys and its copy. *)
LEMMA ResetTimesOutStep ==
  ASSUME BarrierInv, JoinsApart, NEW n \in Members, ResetTimesOut(n) PROVE BarrierInv'
<1> USE DEF BarrierInv, ResetTimesOut, Is, Past, InReset, Through, Arrived, KeysOf, Knows, Alive
<1>1. BarrierTypeOK'
  <2>1. resetter' \in [Members -> BarrierRec]
    BY ONLY BarrierTypeOK, ResetTimesOut(n), n \in Members DEF BarrierTypeOK, BarrierRec, ResetTimesOut, Is, Past
  <2> QED BY <2>1 DEF BarrierTypeOK, BlockKeys
<1>2. EpochsInStep' BY DEF EpochsInStep, BarrierTypeOK, BarrierRec
<1>3. Dropped' BY DEF Dropped, BarrierTypeOK, BarrierRec
<1>4. ArrivedStaysOut' BY DEF ArrivedStaysOut, BarrierTypeOK, BarrierRec
<1>5. ArrivedHasNoKeys' BY DEF ArrivedHasNoKeys, BarrierTypeOK, BarrierRec
<1>6. ThroughMeansAll' BY DEF ThroughMeansAll, BarrierTypeOK, BarrierRec
<1>7. NobodyLeftBehind' BY DEF NobodyLeftBehind, BarrierTypeOK, BarrierRec
<1>8. ArrivedForgets' BY DEF ArrivedForgets, BarrierTypeOK, BarrierRec
<1>9. ThroughIsUnknown' BY DEF ThroughIsUnknown, BarrierTypeOK, BarrierRec
<1>10. ResetTogether' BY DEF ResetTogether, BarrierTypeOK, BarrierRec
<1> QED BY <1>1, <1>2, <1>3, <1>4, <1>5, <1>6, <1>7, <1>8, <1>9, <1>10

(* The epoch is closed, or another one is open by now and the node gives up. *)
LEMMA BarrierFinishedStep ==
  ASSUME BarrierInv, JoinsApart, NEW n \in Members, BarrierFinished(n) PROVE BarrierInv'
<1> USE DEF BarrierInv, BarrierFinished, Is, Past, InReset, Through, Arrived, KeysOf, Knows, Alive
<1>1. BarrierTypeOK'
  <2>1. resetter' \in [Members -> BarrierRec]
    BY ONLY BarrierTypeOK, BarrierFinished(n), n \in Members DEF BarrierTypeOK, BarrierRec, BarrierFinished, Is, Past
  <2> QED BY <2>1 DEF BarrierTypeOK, BlockKeys
<1>2. EpochsInStep' BY DEF EpochsInStep, BarrierTypeOK, BarrierRec
<1>3. Dropped'
  <2>1. \A m \in Members : /\ resetter'[m].index = resetter[m].index
                           /\ resetter'[m].pc = resetter[m].pc \/ m = n
    BY DEF BarrierTypeOK, BarrierRec
  <2>2. resetter'[n].pc \in {"finished", "stopped"} BY DEF BarrierTypeOK, BarrierRec
  <2> QED BY <2>1, <2>2 DEF Dropped
<1>4. ArrivedStaysOut' BY DEF ArrivedStaysOut, BarrierTypeOK, BarrierRec
<1>5. ArrivedHasNoKeys' BY DEF ArrivedHasNoKeys, BarrierTypeOK, BarrierRec
<1>6. ThroughMeansAll' BY DEF ThroughMeansAll, BarrierTypeOK, BarrierRec
<1>7. NobodyLeftBehind' BY DEF NobodyLeftBehind, BarrierTypeOK, BarrierRec
<1>8. ArrivedForgets' BY SMTT(20) DEF ArrivedForgets, BarrierTypeOK, BarrierRec
<1>9. ThroughIsUnknown' BY DEF ThroughIsUnknown, BarrierTypeOK, BarrierRec
<1>10. ResetTogether'
  <2>1. \A m \in Members : /\ resetter'[m].index = resetter[m].index
                           /\ resetter'[m].gen = resetter[m].gen
    BY DEF BarrierTypeOK, BarrierRec
  <2> QED BY <2>1 DEF ResetTogether, BarrierTypeOK, BarrierRec, BlockKeys
<1> QED BY <1>1, <1>2, <1>3, <1>4, <1>5, <1>6, <1>7, <1>8, <1>9, <1>10

(* The blocks begin a new generation when no key and no copy speaks of the
   old one. *)
LEMMA BlocksResetStep ==
  ASSUME BarrierInv, JoinsApart, NEW n \in Members, BlocksReset(n) PROVE BarrierInv'
<1> USE DEF BarrierInv, BlocksReset, Is, Past, InReset, Through, Arrived, KeysOf, Knows, Alive
<1>1. BarrierTypeOK'
  <2> DEFINE rec == [resetter[n] EXCEPT !.pc = IF resetter[n].restart THEN "up" ELSE "stopped",
                                    !.gen = resetter[n].gen + 1, !.epoch = 0]
  <2>1. resetter[n] \in BarrierRec BY DEF BarrierTypeOK
  <2>2. rec \in BarrierRec
    <3>1. ASSUME NEW x \in BarrierRec, NEW pc \in {"up", "stopped"}, NEW g \in Nat
          PROVE  [x EXCEPT !.pc = pc, !.gen = g, !.epoch = 0] \in BarrierRec
      BY DEF BarrierRec
    <3>2. resetter[n].gen + 1 \in Nat BY <2>1 DEF BarrierRec
    <3>3. (IF resetter[n].restart THEN "up" ELSE "stopped") \in {"up", "stopped"} OBVIOUS
    <3> QED BY <2>1, <3>1, <3>2, <3>3
  <2>3. resetter' = [resetter EXCEPT ![n] = rec] OBVIOUS
  <2> HIDE DEF rec
  <2>4. resetter' \in [Members -> BarrierRec] BY <2>2, <2>3 DEF BarrierTypeOK
  <2> QED BY <2>4 DEF BarrierTypeOK
<1>2. ResetTogether'
  BY DEF ResetTogether, ThroughIsUnknown, Dropped, BarrierTypeOK, BarrierRec
<1>3. EpochsInStep' BY DEF EpochsInStep, BarrierTypeOK, BarrierRec
<1>4. Dropped' BY DEF Dropped, BarrierTypeOK, BarrierRec
<1>5. ArrivedStaysOut' BY DEF ArrivedStaysOut, BarrierTypeOK, BarrierRec
<1>6. ArrivedHasNoKeys' BY DEF ArrivedHasNoKeys, BarrierTypeOK, BarrierRec
<1>7. ThroughMeansAll' BY DEF ThroughMeansAll, BarrierTypeOK, BarrierRec
<1>8. NobodyLeftBehind' BY DEF NobodyLeftBehind, BarrierTypeOK, BarrierRec
<1>9. ArrivedForgets' BY DEF ArrivedForgets, BarrierTypeOK, BarrierRec
<1>10. ThroughIsUnknown' BY DEF ThroughIsUnknown, BarrierTypeOK, BarrierRec
<1> QED BY <1>1, <1>2, <1>3, <1>4, <1>5, <1>6, <1>7, <1>8, <1>9, <1>10

(* A node's blocks are never reused while Redis or a live node's copy of it
   still says what was in them, for any number of nodes, resets, epochs, crashes
   and time-outs, as long as no node registers while another is in a reset. *)
THEOREM ResetIsTogether == ASSUME JoinsApart PROVE BarrierSpec => []ResetTogether
<1>1. BarrierInv /\ [BarrierNext]_barrierVars => BarrierInv'
  <2> SUFFICES ASSUME BarrierInv, [BarrierNext]_barrierVars PROVE BarrierInv' OBVIOUS
  <2>1. CASE UNCHANGED barrierVars
    BY <2>1 DEF barrierVars, BarrierInv, BarrierTypeOK, EpochsInStep, Dropped, ArrivedStaysOut,
       ArrivedHasNoKeys, ThroughMeansAll, NobodyLeftBehind, ArrivedForgets, ThroughIsUnknown,
       ResetTogether, InReset, Through, Arrived, KeysOf, Knows, Alive
  <2>2. CASE BarrierNext
    BY <2>2, MemberJoinsStep, MemberDiesStep, MemberForgottenStep, MemberCleanedStep,
       BlocksPublishedStep, IndexRebuiltStep, ResetBeginsStep, TreesDroppedStep,
       ResetArrivesStep, BarrierSeenStep, NoKeysSeenStep, ResetTimesOutStep,
       BarrierFinishedStep, BlocksResetStep DEF BarrierNext
  <2> QED BY <2>1, <2>2
<1>2. BarrierInv => ResetTogether BY DEF BarrierInv
<1> QED BY <1>1, <1>2, BarrierInitInv, PTL DEF BarrierSpec

-----------------------------------------------------------------------------
(* NodeRegistry. *)

HasId(p) == proc[p].pc \in {"expire", "up", "leaving"}
ProcRec ==
  [pc : {"off", "clean", "incr", "expire", "up", "leaving"}, id : Nat,
   stale : SUBSET Ids, known : SUBSET Ids, told : BOOLEAN, tracked : BOOLEAN,
   due : BOOLEAN, stamp : BOOLEAN]

RegistryTypeOK ==
  /\ proc \in [ProcSlots -> ProcRec]
  /\ node_keys \in [Ids -> [ttl : Int, ip : {Host[p] : p \in ProcSlots} \cup {"none"}]]
  /\ meta_keys \in [Ids -> Int]
  /\ node_id \in Nat /\ FirstId <= node_id

(* Ids are given out once, and only an id that was given out has a key. *)
OwnIds ==
  /\ \A p \in ProcSlots : HasId(p) => proc[p].id \in Ids /\ proc[p].id <= node_id
  /\ \A p, q \in ProcSlots : p # q /\ HasId(p) /\ HasId(q) => proc[p].id # proc[q].id
  /\ \A i \in Ids : HasKey(i) => i <= node_id

(* Only a process that is up has a heartbeat to send; its second half may
   still come when the process is leaving. *)
Beats ==
  \A p \in ProcSlots : /\ proc[p].due => Up(p)
                       /\ proc[p].stamp => proc[p].pc \in {"up", "leaving"}
                       /\ proc[p].tracked => proc[p].pc \in {"up", "leaving"}

(* The key of a process that is up says where it runs and is never half gone:
   it loses at most one heartbeat interval. *)
KeyFresh ==
  \A p \in ProcSlots :
    /\ proc[p].pc = "expire" => node_keys[proc[p].id].ttl = NoExpiry
    /\ Up(p) => /\ node_keys[proc[p].id].ip = Host[p]
                /\ node_keys[proc[p].id].ttl >= NodeTTL - NodeTTL \div 3
                /\ ~proc[p].due => node_keys[proc[p].id].ttl = NodeTTL
    /\ proc[p].pc = "expire" => node_keys[proc[p].id].ip = Host[p]

(* What a starting process has marked as left behind is nobody's. *)
StaleIsDead ==
  \A p \in ProcSlots : \A i \in proc[p].stale :
    /\ i <= node_id
    /\ \A q \in ProcSlots : proc[q].pc \in {"expire", "up"} => proc[q].id # i

NodeInv == RegistryTypeOK /\ OwnIds /\ Beats /\ KeyFresh /\ StaleIsDead

(* Metadata that was registered is renewed with the key. *)
MetaFresh ==
  \A p \in ProcSlots : Up(p) /\ proc[p].tracked =>
    /\ meta_keys[proc[p].id] >= MetaTTL - NodeTTL \div 3
    /\ ~proc[p].due /\ ~proc[p].stamp => meta_keys[proc[p].id] = MetaTTL

(* No id begins with the digits of another. *)
NoPrefix == \A i, j \in Ids : j \div 10 # i

(* A third of the time to live leaves more than half of it. *)
LEMMA ThirdOfTTL ==
  /\ NodeTTL \in Nat /\ NodeTTL \div 3 \in Nat /\ NodeTTL \div 2 \in Nat
  /\ NodeTTL - NodeTTL \div 3 > NodeTTL \div 2
  /\ MetaTTL \in Nat /\ MetaTTL > NodeTTL \div 3
  /\ Ids \subseteq Nat
BY RegistryAssumption DEF Ids

(* A publication changes nothing but what the processes have been told. *)
LEMMA ToldFields ==
  ASSUME NEW ps \in [ProcSlots -> ProcRec]
  PROVE  /\ Told(ps) \in [ProcSlots -> ProcRec]
         /\ \A q \in ProcSlots :
              /\ Told(ps)[q].pc = ps[q].pc /\ Told(ps)[q].id = ps[q].id
              /\ Told(ps)[q].stale = ps[q].stale /\ Told(ps)[q].tracked = ps[q].tracked
              /\ Told(ps)[q].due = ps[q].due /\ Told(ps)[q].stamp = ps[q].stamp
<1>1. ASSUME NEW q \in ProcSlots
      PROVE  [ps[q] EXCEPT !.told = ps[q].pc # "off"] \in ProcRec
  <2>1. ps[q] \in ProcRec /\ (ps[q].pc # "off") \in BOOLEAN OBVIOUS
  <2>2. ASSUME NEW x \in ProcRec, NEW b \in BOOLEAN PROVE [x EXCEPT !.told = b] \in ProcRec
    BY DEF ProcRec
  <2> QED BY <2>1, <2>2
<1>2. Told(ps) \in [ProcSlots -> ProcRec] BY <1>1 DEF Told
<1>3. ASSUME NEW q \in ProcSlots
      PROVE  /\ Told(ps)[q].pc = ps[q].pc /\ Told(ps)[q].id = ps[q].id
             /\ Told(ps)[q].stale = ps[q].stale /\ Told(ps)[q].tracked = ps[q].tracked
             /\ Told(ps)[q].due = ps[q].due /\ Told(ps)[q].stamp = ps[q].stamp
  BY DEF Told, ProcRec
<1> QED BY <1>2, <1>3

(* Before the first registration. *)
LEMMA RegistryInitInv == RegistryInit => NodeInv /\ MetaFresh
<1> SUFFICES ASSUME RegistryInit PROVE NodeInv /\ MetaFresh OBVIOUS
<1> USE ThirdOfTTL DEF RegistryInit, Off, NoKey, Gone, Up, HasId, HasKey
<1>1. RegistryTypeOK BY RegistryAssumption DEF RegistryTypeOK, ProcRec
<1>2. OwnIds /\ Beats BY DEF OwnIds, Beats
<1>3. KeyFresh /\ StaleIsDead BY DEF KeyFresh, StaleIsDead
<1>4. MetaFresh BY DEF MetaFresh
<1> QED BY <1>1, <1>2, <1>3, <1>4 DEF NodeInv

(* register_node begins: what it marks is half gone or of a process that never
   gave it a time to live; on this host, no such process is registering. *)
LEMMA RegisterScansStep ==
  ASSUME NodeInv, StartsApart, NEW p \in ProcSlots, RegisterScans(p)
  PROVE  NodeInv' /\ (MetaFresh => MetaFresh')
<1> USE ThirdOfTTL DEF NodeInv, RegisterScans, Off, Up, HasId, HasKey
<1>1. RegistryTypeOK' BY DEF RegistryTypeOK, ProcRec, StaleByIp
<1>2. OwnIds' /\ Beats' BY DEF RegistryTypeOK, ProcRec, OwnIds, Beats
<1>3. KeyFresh' BY DEF RegistryTypeOK, ProcRec, KeyFresh
<1>4. StaleIsDead'
  BY DEF RegistryTypeOK, ProcRec, StaleIsDead, StaleByIp, SameHost, OwnIds, KeyFresh
<1>5. MetaFresh => MetaFresh' BY DEF RegistryTypeOK, ProcRec, MetaFresh
<1> QED BY <1>1, <1>2, <1>3, <1>4, <1>5

(* register_node removes what was left behind, and its metadata. *)
LEMMA RegisterCleansStep ==
  ASSUME NodeInv, NEW p \in ProcSlots, RegisterCleans(p)
  PROVE  NodeInv' /\ (NoPrefix /\ MetaFresh => MetaFresh')
<1> USE ThirdOfTTL DEF NodeInv
<1> DEFINE next == [proc EXCEPT ![p] = [@ EXCEPT !.pc = "incr", !.stale = {}]]
<1>1. next \in [ProcSlots -> ProcRec]
  <2>1. ASSUME NEW x \in ProcRec PROVE [x EXCEPT !.pc = "incr", !.stale = {}] \in ProcRec
    BY DEF ProcRec
  <2> QED BY <2>1 DEF RegistryTypeOK
<1>2. /\ proc' \in [ProcSlots -> ProcRec]
      /\ \A q \in ProcSlots :
           /\ proc'[q].pc = next[q].pc /\ proc'[q].id = next[q].id
           /\ proc'[q].stale = next[q].stale /\ proc'[q].tracked = next[q].tracked
           /\ proc'[q].due = next[q].due /\ proc'[q].stamp = next[q].stamp
  <2>1. proc' = next \/ proc' = Told(next) BY DEF RegisterCleans
  <2> HIDE DEF next
  <2> QED BY <1>1, <2>1, ToldFields
<1>3. proc[p].pc = "clean" /\ node_id' = node_id BY DEF RegisterCleans
<1>4. \A q \in ProcSlots :
        /\ proc'[q].id = proc[q].id /\ proc'[q].tracked = proc[q].tracked
        /\ proc'[q].due = proc[q].due /\ proc'[q].stamp = proc[q].stamp
        /\ q # p => proc'[q].pc = proc[q].pc /\ proc'[q].stale = proc[q].stale
        /\ q = p => proc'[q].pc = "incr" /\ proc'[q].stale = {}
  BY <1>2 DEF RegistryTypeOK, ProcRec
<1>5. \A i \in Ids : node_keys'[i] = IF i \in proc[p].stale THEN NoKey ELSE node_keys[i]
  BY DEF RegisterCleans
<1>6. RegistryTypeOK'
  <2>1. node_keys' \in [Ids -> [ttl : Int, ip : {Host[q] : q \in ProcSlots} \cup {"none"}]]
    BY DEF RegisterCleans, RegistryTypeOK, NoKey, Gone
  <2>2. meta_keys' \in [Ids -> Int]
    BY DEF RegisterCleans, RegistryTypeOK, MetaWithout, Gone
  <2> QED BY <1>2, <1>3, <2>1, <2>2 DEF RegistryTypeOK
<1>7. OwnIds' /\ Beats' BY <1>3, <1>4, <1>5 DEF OwnIds, Beats, HasId, HasKey, Up, NoKey, Gone, RegistryTypeOK, ProcRec
<1>8. KeyFresh' BY <1>3, <1>4, <1>5 DEF KeyFresh, StaleIsDead, OwnIds, HasId, Up, RegistryTypeOK, ProcRec
<1>9. StaleIsDead' BY <1>3, <1>4 DEF StaleIsDead
<1>10. NoPrefix /\ MetaFresh => MetaFresh'
  <2> SUFFICES ASSUME NoPrefix, MetaFresh PROVE MetaFresh' OBVIOUS
  <2>1. \A i \in Ids : i \notin proc[p].stale => meta_keys'[i] = meta_keys[i]
    BY DEF RegisterCleans, MetaWithout, MetaPattern, NoPrefix, RegistryTypeOK, ProcRec
  <2> QED BY <1>3, <1>4, <2>1 DEF MetaFresh, StaleIsDead, OwnIds, HasId, Up, RegistryTypeOK, ProcRec
<1> QED BY <1>6, <1>7, <1>8, <1>9, <1>10

(* INCR and HSET: the id is new. *)
LEMMA RegisterWritesStep ==
  ASSUME NodeInv, NEW p \in ProcSlots, RegisterWrites(p)
  PROVE  NodeInv' /\ (MetaFresh => MetaFresh')
<1> USE ThirdOfTTL DEF NodeInv
<1> DEFINE rec == [proc[p] EXCEPT !.pc = "expire", !.id = node_id + 1]
<1>1. /\ proc' = [proc EXCEPT ![p] = rec] /\ proc[p].pc = "incr" /\ proc[p] \in ProcRec
      /\ node_id' = node_id + 1 /\ node_id + 1 \in Ids /\ node_id + 1 \in Nat
  BY RegistryAssumption DEF RegisterWrites, RegistryTypeOK, Ids
<1>2. rec \in ProcRec
  <2>1. ASSUME NEW x \in ProcRec, NEW i \in Nat
        PROVE  [x EXCEPT !.pc = "expire", !.id = i] \in ProcRec
    BY DEF ProcRec
  <2> QED BY <1>1, <2>1
<1>3. \A q \in ProcSlots :
        /\ proc'[q].pc = IF q = p THEN "expire" ELSE proc[q].pc
        /\ proc'[q].id = IF q = p THEN node_id + 1 ELSE proc[q].id
        /\ proc'[q].stale = proc[q].stale /\ proc'[q].tracked = proc[q].tracked
        /\ proc'[q].due = proc[q].due /\ proc'[q].stamp = proc[q].stamp
  BY <1>1 DEF RegistryTypeOK, ProcRec
<1>4. \A q \in ProcSlots : HasId(q) => proc[q].id \in Nat /\ proc[q].id # node_id + 1
  BY DEF OwnIds, RegistryTypeOK, ProcRec
<1>5. /\ node_keys'[node_id + 1] = [ttl |-> NoExpiry, ip |-> Host[p]]
      /\ \A i \in Ids : i # node_id + 1 => node_keys'[i] = node_keys[i]
  BY <1>1 DEF RegisterWrites, RegistryTypeOK
<1>6. RegistryTypeOK'
  <2>1. proc' \in [ProcSlots -> ProcRec]
    <3> HIDE DEF rec
    <3> QED BY <1>1, <1>2 DEF RegistryTypeOK
  <2>2. node_keys' \in [Ids -> [ttl : Int, ip : {Host[q] : q \in ProcSlots} \cup {"none"}]]
    <3>1. [ttl |-> NoExpiry, ip |-> Host[p]]
            \in [ttl : Int, ip : {Host[q] : q \in ProcSlots} \cup {"none"}]
      BY DEF NoExpiry
    <3> QED BY <3>1 DEF RegisterWrites, RegistryTypeOK
  <2> QED BY <1>1, <2>1, <2>2, RegistryAssumption DEF RegisterWrites, RegistryTypeOK
<1> HIDE DEF rec
<1>7. OwnIds'
  <2>1. \A q \in ProcSlots : HasId(q)' => proc'[q].id \in Ids /\ proc'[q].id <= node_id'
    BY <1>1, <1>3, <1>4 DEF OwnIds, HasId, RegistryTypeOK
  <2>2. \A q, r \in ProcSlots : q # r /\ HasId(q)' /\ HasId(r)' => proc'[q].id # proc'[r].id
    BY <1>1, <1>3, <1>4 DEF OwnIds, HasId
  <2>3. \A i \in Ids : HasKey(i)' => i <= node_id'
    BY <1>1, <1>5 DEF OwnIds, HasKey, RegistryTypeOK
  <2> QED BY <2>1, <2>2, <2>3 DEF OwnIds
<1>8. Beats' BY <1>1, <1>3, <1>4 DEF Beats, Up, RegistryTypeOK, ProcRec
<1>9. KeyFresh'
  BY <1>1, <1>3, <1>4, <1>5 DEF KeyFresh, OwnIds, HasId, Up
<1>10. StaleIsDead'
  <2>0. node_id \in Nat /\ Ids \subseteq Nat BY DEF RegistryTypeOK
  <2> HIDE DEF NodeInv
  <2>1. \A i \in Ids : i <= node_id => i <= node_id + 1 /\ i # node_id + 1 BY <2>0
  <2>2. \A q \in ProcSlots : proc[q].stale \subseteq Ids BY DEF NodeInv, RegistryTypeOK, ProcRec
  <2> USE DEF NodeInv
  <2> SUFFICES ASSUME NEW q \in ProcSlots, NEW i \in proc[q].stale
               PROVE  /\ i <= node_id'
                      /\ \A r \in ProcSlots : proc'[r].pc \in {"expire", "up"} => proc'[r].id # i
    BY <1>3 DEF StaleIsDead
  <2>3. /\ i \in Ids /\ i <= node_id
        /\ \A r \in ProcSlots : proc[r].pc \in {"expire", "up"} => proc[r].id # i
    BY <2>2 DEF StaleIsDead
  <2> QED BY <1>1, <1>3, <2>1, <2>3
<1>11. MetaFresh => MetaFresh'
  BY <1>1, <1>3, <1>4 DEF MetaFresh, Up, RegisterWrites, RegistryTypeOK, ProcRec
<1> QED BY <1>6, <1>7, <1>8, <1>9, <1>10, <1>11

(* EXPIRE finds the key it was written under; the process is up. *)
LEMMA RegisterExpiresStep ==
  ASSUME NodeInv, NEW p \in ProcSlots, RegisterExpires(p)
  PROVE  NodeInv' /\ (MetaFresh => MetaFresh')
<1> USE ThirdOfTTL DEF NodeInv
<1> DEFINE next == [proc EXCEPT ![p].pc = "up"]
<1>1. next \in [ProcSlots -> ProcRec] BY DEF RegistryTypeOK, ProcRec
<1>2. /\ proc' = Told(next) /\ proc[p].pc = "expire" /\ proc[p].id \in Ids
      /\ UNCHANGED << meta_keys, node_id >>
  BY DEF RegisterExpires, OwnIds, HasId
<1>3. /\ proc' \in [ProcSlots -> ProcRec]
      /\ \A q \in ProcSlots :
           /\ proc'[q].pc = next[q].pc /\ proc'[q].id = next[q].id
           /\ proc'[q].stale = next[q].stale /\ proc'[q].tracked = next[q].tracked
           /\ proc'[q].due = next[q].due /\ proc'[q].stamp = next[q].stamp
  <2> HIDE DEF next
  <2> QED BY <1>1, <1>2, ToldFields
<1>4. \A q \in ProcSlots :
        /\ proc'[q].id = proc[q].id /\ proc'[q].tracked = proc[q].tracked
        /\ proc'[q].due = proc[q].due /\ proc'[q].stamp = proc[q].stamp
        /\ proc'[q].stale = proc[q].stale
        /\ proc'[q].pc = IF q = p THEN "up" ELSE proc[q].pc
  BY <1>3 DEF RegistryTypeOK, ProcRec
<1>5. /\ \A i \in Ids : i # proc[p].id => node_keys'[i] = node_keys[i]
      /\ node_keys'[proc[p].id].ttl = NodeTTL /\ node_keys'[proc[p].id].ip = Host[p]
  BY <1>2 DEF RegisterExpires, RegistryTypeOK, KeyFresh, Gone, NoExpiry
<1>6. RegistryTypeOK'
  <2>1. node_keys' \in [Ids -> [ttl : Int, ip : {Host[q] : q \in ProcSlots} \cup {"none"}]]
    BY <1>2 DEF RegisterExpires, RegistryTypeOK, Gone
  <2> QED BY <1>2, <1>3, <2>1 DEF RegistryTypeOK
<1> HIDE DEF next
<1>7. OwnIds' BY <1>2, <1>4, <1>5 DEF OwnIds, HasId, HasKey, RegistryTypeOK, ProcRec
<1>8. Beats' BY <1>2, <1>4 DEF Beats, Up, RegistryTypeOK, ProcRec
<1>9. KeyFresh' BY <1>2, <1>4, <1>5 DEF KeyFresh, OwnIds, HasId, Up, RegistryTypeOK, ProcRec
<1>10. StaleIsDead' BY <1>2, <1>4 DEF StaleIsDead
<1>11. MetaFresh => MetaFresh' BY <1>2, <1>4 DEF MetaFresh, Up, Beats, RegistryTypeOK, ProcRec
<1> QED BY <1>6, <1>7, <1>8, <1>9, <1>10, <1>11

(* regist_node_meta. *)
LEMMA RegistNodeMetaStep ==
  ASSUME NodeInv, NEW p \in ProcSlots, RegistNodeMeta(p)
  PROVE  NodeInv' /\ (MetaFresh => MetaFresh')
<1> USE ThirdOfTTL DEF NodeInv
<1>1. /\ Up(p) /\ proc[p].id \in Ids /\ UNCHANGED << node_keys, node_id >>
      /\ \A q \in ProcSlots :
           /\ proc'[q].id = proc[q].id /\ proc'[q].pc = proc[q].pc
           /\ proc'[q].due = proc[q].due /\ proc'[q].stamp = proc[q].stamp
           /\ proc'[q].stale = proc[q].stale
           /\ (proc'[q].tracked <=> q = p \/ proc[q].tracked)
      /\ \A i \in Ids : meta_keys'[i] = IF i = proc[p].id THEN MetaTTL ELSE meta_keys[i]
  BY DEF RegistNodeMeta, RegistryTypeOK, ProcRec, OwnIds, HasId, Up
<1>2. RegistryTypeOK'
  <2>1. proc' \in [ProcSlots -> ProcRec]
    <3>1. ASSUME NEW x \in ProcRec PROVE [x EXCEPT !.tracked = TRUE] \in ProcRec
      BY DEF ProcRec
    <3> QED BY <3>1 DEF RegistNodeMeta, RegistryTypeOK
  <2>2. meta_keys' \in [Ids -> Int] BY <1>1 DEF RegistNodeMeta, RegistryTypeOK
  <2> QED BY <1>1, <2>1, <2>2 DEF RegistryTypeOK
<1>3. OwnIds' /\ Beats' BY <1>1 DEF OwnIds, Beats, HasId, HasKey, Up, RegistryTypeOK, ProcRec
<1>4. KeyFresh' /\ StaleIsDead' BY <1>1 DEF KeyFresh, StaleIsDead, Up
<1>5. MetaFresh => MetaFresh' BY <1>1 DEF MetaFresh, OwnIds, HasId, Up, RegistryTypeOK, ProcRec
<1> QED BY <1>2, <1>3, <1>4, <1>5

(* The heartbeat's EXPIRE finds the key. *)
LEMMA HeartbeatExpiresStep ==
  ASSUME NodeInv, NEW p \in ProcSlots, HeartbeatExpires(p)
  PROVE  NodeInv' /\ (MetaFresh => MetaFresh')
<1> USE ThirdOfTTL DEF NodeInv
<1>0. /\ Up(p) /\ proc[p].id \in Ids /\ UNCHANGED << meta_keys, node_id >>
      /\ node_keys[proc[p].id].ttl > 0 /\ HasKey(proc[p].id) = TRUE
  BY DEF HeartbeatExpires, RegistryTypeOK, OwnIds, KeyFresh, HasId, HasKey, Up, Gone
<1>1. proc' = [proc EXCEPT ![p] = [proc[p] EXCEPT !.due = FALSE, !.stamp = TRUE]]
  BY <1>0 DEF HeartbeatExpires
<1>2. /\ \A q \in ProcSlots :
           /\ proc'[q].id = proc[q].id /\ proc'[q].pc = proc[q].pc
           /\ proc'[q].tracked = proc[q].tracked /\ proc'[q].stale = proc[q].stale
           /\ (proc'[q].due <=> q # p /\ proc[q].due)
           /\ (proc'[q].stamp <=> q = p \/ proc[q].stamp)
  BY <1>1 DEF RegistryTypeOK, ProcRec
<1>3. /\ \A i \in Ids : i # proc[p].id => node_keys'[i] = node_keys[i]
      /\ node_keys'[proc[p].id].ttl = NodeTTL /\ node_keys'[proc[p].id].ip = Host[p]
  BY <1>0 DEF HeartbeatExpires, RegistryTypeOK, KeyFresh, Gone
<1>4. RegistryTypeOK'
  <2>1. proc' \in [ProcSlots -> ProcRec]
    <3>1. ASSUME NEW x \in ProcRec PROVE [x EXCEPT !.due = FALSE, !.stamp = TRUE] \in ProcRec
      BY DEF ProcRec
    <3> QED BY <1>1, <3>1 DEF RegistryTypeOK
  <2>2. node_keys' \in [Ids -> [ttl : Int, ip : {Host[q] : q \in ProcSlots} \cup {"none"}]]
    BY <1>0 DEF HeartbeatExpires, RegistryTypeOK, Gone
  <2> QED BY <1>0, <2>1, <2>2 DEF RegistryTypeOK
<1>5. OwnIds' /\ Beats' BY <1>0, <1>2, <1>3 DEF OwnIds, Beats, HasId, HasKey, Up, RegistryTypeOK, ProcRec
<1>6. KeyFresh' BY <1>0, <1>2, <1>3 DEF KeyFresh, OwnIds, HasId, Up, RegistryTypeOK, ProcRec
<1>7. StaleIsDead' BY <1>0, <1>2 DEF StaleIsDead
<1>8. MetaFresh => MetaFresh' BY <1>0, <1>2 DEF MetaFresh, Up, RegistryTypeOK, ProcRec
<1> QED BY <1>4, <1>5, <1>6, <1>7, <1>8

(* The second half of a heartbeat writes under the process's own id. *)
LEMMA HeartbeatStampsStep ==
  ASSUME NodeInv, NEW p \in ProcSlots, HeartbeatStamps(p)
  PROVE  NodeInv' /\ (MetaFresh => MetaFresh')
<1> USE ThirdOfTTL DEF NodeInv
<1>1. proc[p].pc \in {"up", "leaving"} /\ proc[p].id \in Ids /\ node_id' = node_id
  BY DEF HeartbeatStamps, Beats, OwnIds, HasId
<1>2. \A q \in ProcSlots :
        /\ proc'[q].id = proc[q].id /\ proc'[q].pc = proc[q].pc
        /\ proc'[q].tracked = proc[q].tracked /\ proc'[q].stale = proc[q].stale
        /\ proc'[q].due = proc[q].due
        /\ (proc'[q].stamp <=> q # p /\ proc[q].stamp)
  BY DEF HeartbeatStamps, RegistryTypeOK, ProcRec
<1>3. /\ \A i \in Ids : i # proc[p].id => node_keys'[i] = node_keys[i]
      /\ Up(p) => node_keys'[proc[p].id] = node_keys[proc[p].id]
  BY <1>1 DEF HeartbeatStamps, RegistryTypeOK, KeyFresh, Up, Gone
<1>4. /\ \A i \in Ids : i # proc[p].id => meta_keys'[i] = meta_keys[i]
      /\ meta_keys'[proc[p].id] = IF meta_keys[proc[p].id] # Gone /\ proc[p].tracked
                                    THEN MetaTTL ELSE meta_keys[proc[p].id]
  BY <1>1 DEF HeartbeatStamps, RegistryTypeOK
<1>5. RegistryTypeOK'
  <2>1. proc' \in [ProcSlots -> ProcRec]
    <3>1. ASSUME NEW x \in ProcRec PROVE [x EXCEPT !.stamp = FALSE] \in ProcRec
      BY DEF ProcRec
    <3> QED BY <3>1 DEF HeartbeatStamps, RegistryTypeOK
  <2>2. node_keys' \in [Ids -> [ttl : Int, ip : {Host[q] : q \in ProcSlots} \cup {"none"}]]
    BY <1>1 DEF HeartbeatStamps, RegistryTypeOK, Gone, NoExpiry
  <2>3. meta_keys' \in [Ids -> Int] BY <1>1 DEF HeartbeatStamps, RegistryTypeOK
  <2> QED BY <1>1, <2>1, <2>2, <2>3 DEF RegistryTypeOK
<1>6. OwnIds' /\ Beats' BY <1>1, <1>2, <1>3 DEF OwnIds, Beats, HasId, HasKey, Up, RegistryTypeOK, ProcRec
<1>7. KeyFresh' BY <1>1, <1>2, <1>3 DEF KeyFresh, OwnIds, HasId, Up, RegistryTypeOK, ProcRec
<1>8. StaleIsDead' BY <1>1, <1>2 DEF StaleIsDead
<1>9. MetaFresh => MetaFresh' BY <1>1, <1>2, <1>4 DEF MetaFresh, OwnIds, HasId, Up, Gone, RegistryTypeOK, ProcRec
<1> QED BY <1>5, <1>6, <1>7, <1>8, <1>9

(* The listener removes the metadata of ids without a key, and a process that
   is up has its key. *)
LEMMA ScanActiveNodesStep ==
  ASSUME NodeInv, NEW p \in ProcSlots, ScanActiveNodes(p)
  PROVE  NodeInv' /\ (NoPrefix /\ MetaFresh => MetaFresh')
<1> USE ThirdOfTTL DEF NodeInv
<1>1. /\ UNCHANGED << node_keys, node_id >>
      /\ \A q \in ProcSlots :
           /\ proc'[q].id = proc[q].id /\ proc'[q].pc = proc[q].pc
           /\ proc'[q].tracked = proc[q].tracked /\ proc'[q].stale = proc[q].stale
           /\ proc'[q].due = proc[q].due /\ proc'[q].stamp = proc[q].stamp
  BY DEF ScanActiveNodes, RegistryTypeOK, ProcRec
<1>2. RegistryTypeOK'
  <2>1. proc' \in [ProcSlots -> ProcRec]
    <3>1. ASSUME NEW x \in ProcRec, NEW ids \in SUBSET Ids
          PROVE  [x EXCEPT !.known = ids, !.told = FALSE] \in ProcRec
      BY DEF ProcRec
    <3>2. {i \in Ids : HasKey(i)} \in SUBSET Ids OBVIOUS
    <3> QED BY <3>1, <3>2 DEF ScanActiveNodes, RegistryTypeOK
  <2>2. meta_keys' \in [Ids -> Int]
    BY DEF ScanActiveNodes, RegistryTypeOK, MetaWithout, Gone
  <2> QED BY <1>1, <2>1, <2>2 DEF RegistryTypeOK
<1>3. OwnIds' /\ Beats' BY <1>1 DEF OwnIds, Beats, HasId, HasKey, Up, RegistryTypeOK, ProcRec
<1>4. KeyFresh' /\ StaleIsDead' BY <1>1 DEF KeyFresh, StaleIsDead, Up
<1>5. NoPrefix /\ MetaFresh => MetaFresh'
  <2> SUFFICES ASSUME NoPrefix, MetaFresh PROVE MetaFresh' OBVIOUS
  <2>1. \A i \in Ids : HasKey(i) => meta_keys'[i] = meta_keys[i]
    BY DEF ScanActiveNodes, MetaWithout, MetaPattern, NoPrefix, RegistryTypeOK, ProcRec
  <2>2. \A q \in ProcSlots : Up(q) => proc[q].id \in Ids /\ HasKey(proc[q].id)
    BY DEF OwnIds, KeyFresh, HasId, HasKey, Up, Gone, RegistryTypeOK
  <2> QED BY <1>1, <2>1, <2>2 DEF MetaFresh, Up, RegistryTypeOK, ProcRec
<1> QED BY <1>2, <1>3, <1>4, <1>5

(* unregister_node takes the key and the metadata of the process's own id. *)
LEMMA UnregisterNodeStep ==
  ASSUME NodeInv, NEW p \in ProcSlots, UnregisterNode(p)
  PROVE  NodeInv' /\ (NoPrefix /\ MetaFresh => MetaFresh')
<1> USE ThirdOfTTL DEF NodeInv
<1> DEFINE next == [proc EXCEPT ![p] = [@ EXCEPT !.pc = "leaving", !.due = FALSE]]
<1>1. next \in [ProcSlots -> ProcRec]
  <2>1. ASSUME NEW x \in ProcRec PROVE [x EXCEPT !.pc = "leaving", !.due = FALSE] \in ProcRec
    BY DEF ProcRec
  <2> QED BY <2>1 DEF RegistryTypeOK
<1>2. /\ proc' = Told(next) /\ proc[p].pc = "up" /\ proc[p].id \in Ids /\ node_id' = node_id
  BY DEF UnregisterNode, OwnIds, HasId, Up
<1>3. /\ proc' \in [ProcSlots -> ProcRec]
      /\ \A q \in ProcSlots :
           /\ proc'[q].pc = next[q].pc /\ proc'[q].id = next[q].id
           /\ proc'[q].stale = next[q].stale /\ proc'[q].tracked = next[q].tracked
           /\ proc'[q].due = next[q].due /\ proc'[q].stamp = next[q].stamp
  <2> HIDE DEF next
  <2> QED BY <1>1, <1>2, ToldFields
<1>4. \A q \in ProcSlots :
        /\ proc'[q].id = proc[q].id /\ proc'[q].tracked = proc[q].tracked
        /\ proc'[q].stamp = proc[q].stamp /\ proc'[q].stale = proc[q].stale
        /\ proc'[q].pc = IF q = p THEN "leaving" ELSE proc[q].pc
        /\ (proc'[q].due <=> q # p /\ proc[q].due)
  <2>1. \A q \in ProcSlots :
          next[q] = IF q = p THEN [proc[p] EXCEPT !.pc = "leaving", !.due = FALSE] ELSE proc[q]
    BY DEF RegistryTypeOK
  <2> HIDE DEF next
  <2>2. /\ next[p].pc = "leaving" /\ next[p].id = proc[p].id /\ ~next[p].due
        /\ next[p].stale = proc[p].stale /\ next[p].tracked = proc[p].tracked
        /\ next[p].stamp = proc[p].stamp
    BY <2>1 DEF RegistryTypeOK, ProcRec
  <2>3. \A q \in ProcSlots : q # p => next[q] = proc[q] BY <2>1
  <2> QED BY <1>3, <2>2, <2>3
<1> HIDE DEF next
<1>5. \A i \in Ids : node_keys'[i] = IF i = proc[p].id THEN NoKey ELSE node_keys[i]
  BY <1>2 DEF UnregisterNode, RegistryTypeOK
<1>6. RegistryTypeOK'
  <2>1. node_keys' \in [Ids -> [ttl : Int, ip : {Host[q] : q \in ProcSlots} \cup {"none"}]]
    BY <1>2 DEF UnregisterNode, RegistryTypeOK, NoKey, Gone
  <2>2. meta_keys' \in [Ids -> Int]
    BY DEF UnregisterNode, RegistryTypeOK, MetaWithout, Gone
  <2> QED BY <1>2, <1>3, <2>1, <2>2 DEF RegistryTypeOK
<1>7. OwnIds' BY <1>2, <1>4, <1>5 DEF OwnIds, HasId, HasKey, NoKey, Gone, RegistryTypeOK, ProcRec
<1>8. Beats' BY <1>2, <1>4 DEF Beats, Up, RegistryTypeOK, ProcRec
<1>9. KeyFresh' BY <1>2, <1>4, <1>5 DEF KeyFresh, OwnIds, HasId, Up, RegistryTypeOK, ProcRec
<1>10. StaleIsDead' BY <1>2, <1>4 DEF StaleIsDead
<1>11. NoPrefix /\ MetaFresh => MetaFresh'
  <2> SUFFICES ASSUME NoPrefix, MetaFresh PROVE MetaFresh' OBVIOUS
  <2>1. \A i \in Ids : i # proc[p].id => meta_keys'[i] = meta_keys[i]
    BY <1>2 DEF UnregisterNode, MetaWithout, MetaPattern, NoPrefix, RegistryTypeOK
  <2> QED BY <1>2, <1>4, <2>1 DEF MetaFresh, OwnIds, HasId, Up, RegistryTypeOK, ProcRec
<1> QED BY <1>6, <1>7, <1>8, <1>9, <1>10, <1>11

(* A process ends, cleanly or not: what it left stays. *)
LEMMA ProcessEndsStep ==
  ASSUME NodeInv, NEW p \in ProcSlots, ProcessEnds(p)
  PROVE  NodeInv' /\ (MetaFresh => MetaFresh')
<1> USE ThirdOfTTL DEF NodeInv, ProcessEnds, Off, Up, HasId, HasKey
<1>1. RegistryTypeOK' BY DEF RegistryTypeOK, ProcRec
<1>2. OwnIds' /\ Beats' BY DEF RegistryTypeOK, ProcRec, OwnIds, Beats
<1>3. KeyFresh' /\ StaleIsDead' BY DEF RegistryTypeOK, ProcRec, KeyFresh, StaleIsDead
<1>4. MetaFresh => MetaFresh' BY DEF RegistryTypeOK, ProcRec, MetaFresh
<1> QED BY <1>1, <1>2, <1>3, <1>4

(* A third of the time to live passes when every heartbeat has been sent. *)
LEMMA RegistryTickStep ==
  ASSUME NodeInv, RegistryTick PROVE NodeInv' /\ (MetaFresh => MetaFresh')
<1> USE ThirdOfTTL DEF NodeInv
<1>1. \A q \in ProcSlots :
        /\ proc'[q].id = proc[q].id /\ proc'[q].tracked = proc[q].tracked
        /\ proc'[q].stamp = proc[q].stamp /\ proc'[q].stale = proc[q].stale
        /\ proc'[q].pc = proc[q].pc /\ (proc'[q].due <=> Up(q))
        /\ ~proc[q].due /\ ~proc[q].stamp
  BY DEF RegistryTick, RegistryTypeOK, ProcRec
<1>2. \A i \in Ids : /\ node_keys[i].ttl = NodeTTL =>
                          /\ node_keys'[i].ttl = NodeTTL - NodeTTL \div 3
                          /\ node_keys'[i].ip = node_keys[i].ip
                     /\ node_keys[i].ttl = NoExpiry => node_keys'[i] = node_keys[i]
                     /\ node_keys[i].ttl = Gone => node_keys'[i].ttl = Gone
  BY DEF RegistryTick, RegistryTypeOK, Aged, NoKey, Gone, NoExpiry
<1>3. \A i \in Ids : meta_keys[i] = MetaTTL => meta_keys'[i] = MetaTTL - NodeTTL \div 3
  BY DEF RegistryTick, RegistryTypeOK, Aged, Gone
<1>4. RegistryTypeOK'
  <2>1. proc' \in [ProcSlots -> ProcRec]
    <3>1. ASSUME NEW x \in ProcRec, NEW b \in BOOLEAN PROVE [x EXCEPT !.due = b] \in ProcRec
      BY DEF ProcRec
    <3>2. \A q \in ProcSlots : Up(q) \in BOOLEAN BY DEF Up
    <3> QED BY <3>1, <3>2 DEF RegistryTick, RegistryTypeOK
  <2>2. node_keys' \in [Ids -> [ttl : Int, ip : {Host[q] : q \in ProcSlots} \cup {"none"}]]
    BY DEF RegistryTick, RegistryTypeOK, Aged, NoKey, Gone
  <2>3. meta_keys' \in [Ids -> Int] BY DEF RegistryTick, RegistryTypeOK, Aged, Gone
  <2> QED BY <2>1, <2>2, <2>3 DEF RegistryTick, RegistryTypeOK
<1>5. node_id' = node_id BY DEF RegistryTick
<1>6. OwnIds' BY <1>1, <1>2, <1>5 DEF OwnIds, HasId, HasKey, RegistryTypeOK, ProcRec
<1>7. Beats' BY <1>1 DEF Beats, Up, RegistryTypeOK, ProcRec
<1>8. KeyFresh' BY <1>1, <1>2 DEF KeyFresh, OwnIds, HasId, Up, RegistryTypeOK, ProcRec
<1>9. StaleIsDead' BY <1>1, <1>5 DEF StaleIsDead
<1>10. MetaFresh => MetaFresh' BY <1>1, <1>3 DEF MetaFresh, OwnIds, HasId, Up, RegistryTypeOK, ProcRec
<1> QED BY <1>4, <1>6, <1>7, <1>8, <1>9, <1>10

(* Every step keeps the node keys, and, if no id is a prefix of another, the
   metadata. *)
LEMMA RegistryStep ==
  ASSUME StartsApart, NodeInv, [RegistryNext]_registryVars
  PROVE  NodeInv' /\ (NoPrefix /\ MetaFresh => MetaFresh')
<1>1. CASE UNCHANGED registryVars
  BY <1>1 DEF registryVars, NodeInv, RegistryTypeOK, OwnIds, Beats, KeyFresh, StaleIsDead,
              MetaFresh, HasId, HasKey, Up
<1>2. CASE RegistryNext
  BY <1>2, RegisterScansStep, RegisterCleansStep, RegisterWritesStep, RegisterExpiresStep,
     RegistNodeMetaStep, HeartbeatExpiresStep, HeartbeatStampsStep, ScanActiveNodesStep,
     UnregisterNodeStep, ProcessEndsStep, RegistryTickStep DEF RegistryNext
<1> QED BY <1>1, <1>2

(* The node key of a process that is up is in Redis. *)
NodeKeysKept == \A p \in ProcSlots : Up(p) => HasKey(proc[p].id)

(* The invariants say what is kept. *)
LEMMA FreshMeansKept == NodeInv => NodeKeysKept /\ (MetaFresh => LiveNodesKept)
BY ThirdOfTTL DEF NodeInv, MetaFresh, NodeKeysKept, LiveNodesKept, KeyFresh, OwnIds, HasId,
   HasKey, Up, Gone, RegistryTypeOK

(* Nobody removes the node key of a process that is up, for any number of
   processes and hosts, times to live and ids, as long as the processes of one
   host do not register at the same time. *)
THEOREM NodeKeysStay == ASSUME StartsApart PROVE RegistrySpec => []NodeKeysKept
<1>1. NodeInv /\ [RegistryNext]_registryVars => NodeInv' BY RegistryStep
<1> QED BY <1>1, RegistryInitInv, FreshMeansKept, PTL DEF RegistrySpec

(* Nor the metadata it registered, if besides no id begins with the digits of
   another: the clean-up's pattern meta:<id>* takes those too. *)
THEOREM LiveNodesStay ==
  ASSUME StartsApart, NoPrefix PROVE RegistrySpec => []LiveNodesKept
<1>1. (NodeInv /\ MetaFresh) /\ [RegistryNext]_registryVars => (NodeInv /\ MetaFresh)'
  BY RegistryStep
<1>2. NodeInv /\ MetaFresh => LiveNodesKept BY FreshMeansKept
<1> QED BY <1>1, <1>2, RegistryInitInv, PTL DEF RegistrySpec

-----------------------------------------------------------------------------
(* LeaseIndex. *)

(* A node's record, an entry of Redis and a queued publication. *)
LeaseNode == [phys : PhysBlocks \cup {0}, lease : Nat,
              state : {"none", "normal", "about"},
              published : BOOLEAN, ready : BOOLEAN]
LeaseEntry == [phys : Nat, lt : Nat, state : {"none", "normal", "about"}]
LeaseMeta == [hash : Hashes, phys : Nat, lt : Nat, state : {"none", "normal", "about"}]

LeaseTypeOK ==
  /\ now \in Nat /\ next_renew \in Nat
  /\ node \in [Hashes -> LeaseNode]
  /\ free \subseteq PhysBlocks
  /\ evicting \in [blocks : SUBSET PhysBlocks, gone : SUBSET Hashes, about : SUBSET Hashes,
                   busy : BOOLEAN]
  /\ about_queue \in Seq(SUBSET Hashes)
  /\ normal_block_hashes \subseteq Hashes
  /\ refresher \in [phase : {"delete", "about", "publish", "renew", "redis"}, new_lt : Nat]
  /\ redis \in [Hashes -> LeaseEntry]
  /\ peer \in [phys : UNION {[D -> Nat] : D \in SUBSET Hashes}, lease : Nat,
               queued : BOOLEAN, renewed : BOOLEAN]

(* The clock never passes the next renewal, and a renewal is made when it is due. *)
RenewalsOnTime ==
  /\ now <= next_renew /\ next_renew <= now + RenewEvery
  /\ refresher.phase \in {"renew", "redis"} => now = next_renew
  /\ refresher.phase = "redis" => refresher.new_lt = now + LeaseTTL

(* What the tree holds is a path from the root. *)
LeasePath == \E k \in 0..Depth : Held = 1..k

(* When the leases in memory were last renewed. *)
LastRenewal == IF refresher.phase = "redis" THEN next_renew ELSE next_renew - RenewEvery

(* A node that is renewed has the whole of its last renewal. *)
LeasesRenewed ==
  \A h \in Hashes :
    /\ node[h].lease <= now + LeaseTTL + SafetyTTL
    /\ node[h].lease # 0 => node[h].lease >= SafetyTTL
    /\ node[h].state = "normal" =>
         node[h].phys # 0 /\ node[h].lease >= LastRenewal + LeaseTTL + SafetyTTL

(* The least a mark that is still in the queue has left of the lease. *)
MarkedSince ==
  IF refresher.phase \in {"delete", "about"} THEN next_renew - 3 * RenewEvery
  ELSE next_renew - 2 * RenewEvery

(* The mark of block h is on its way to the refresh thread, in evict or in the queue. *)
MarkComing(h) ==
  \/ h \in evicting.about /\ node[h].lease >= now - RenewEvery + LeaseTTL + SafetyTTL
  \/ /\ \E i \in DOMAIN about_queue : h \in about_queue[i]
     /\ node[h].lease >= MarkedSince + LeaseTTL + SafetyTTL

(* A block that Redis is renewed for is held, under the id Redis has, and is
   renewed in memory too, or its mark is on the way. *)
NormalKept ==
  \A h \in normal_block_hashes :
    /\ node[h].phys # 0
    /\ node[h].state = "normal" \/ MarkComing(h)
    /\ redis[h].phys # 0 => redis[h].phys = node[h].phys

(* A publication that is still queued says what is true of its node. *)
QueuedAsKept(m) ==
  /\ m.hash \in Hashes /\ m.lt \in Nat /\ m.phys \in Nat
  /\ m.state \in {"none", "normal", "about"}
  /\ m.phys # 0 /\ m.phys = node[m.hash].phys /\ m.state = node[m.hash].state
  /\ m.lt + SafetyTTL <= node[m.hash].lease

PublishedAsKept ==
  /\ new_block_queue \in Seq(LeaseMeta)
  /\ \A i \in DOMAIN new_block_queue : QueuedAsKept(new_block_queue[i])

(* Between two calls of evict nothing is left to report. *)
EvictedApart == ~evicting.busy => evicting = NoEviction

(* A lease that runs in Redis, or in the copy of a peer, runs in memory as long
   and for the same block. *)
RedisKept ==
  \A h \in Hashes : redis[h].phys # 0 /\ redis[h].lt > now =>
     node[h].phys = redis[h].phys /\ node[h].lease >= redis[h].lt

PeerKept ==
  ~peer.renewed /\ peer.lease > now =>
     \A h \in DOMAIN peer.phys :
        /\ peer.phys[h] # 0
        /\ node[h].phys = peer.phys[h] /\ node[h].lease >= peer.lease

LeaseInv ==
  /\ LeaseTypeOK /\ RenewalsOnTime /\ LeasePath /\ LeasesRenewed /\ NormalKept
  /\ PublishedAsKept /\ EvictedApart /\ RedisKept /\ PeerKept

(* What the promise needs of the configuration. *)
LeaseMargin == Prompt /\ SafetyTTL >= 2 * RenewEvery

(* The constants are numbers. *)
LEMMA LeaseConstants ==
  /\ Depth \in Nat /\ LeaseTTL \in Nat /\ SafetyTTL \in Nat /\ RenewEvery \in Nat
  /\ RenewEvery > 0 /\ LeaseTTL > RenewEvery
  /\ PhysBlocks \subseteq Nat \ {0}
  /\ Hashes = 1..Depth
BY LeaseAssumption DEF Hashes

(* The fields of the peer's copy. *)
LEMMA PeerFields ==
  ASSUME LeaseTypeOK
  PROVE  peer.lease \in Nat /\ peer.renewed \in BOOLEAN /\ DOMAIN peer.phys \subseteq Hashes
<1>1. PICK D \in SUBSET Hashes : peer.phys \in [D -> Nat]
  BY DEF LeaseTypeOK
<1> QED BY <1>1 DEF LeaseTypeOK

(* The last block of the path is the number of blocks. *)
LEMMA LeafOfPath ==
  ASSUME NEW k \in 0..Depth, Held = 1..k
  PROVE  Leaf = k
<1>1. Cardinality(1..k) = k
  BY FS_Interval, LeaseConstants
<1> QED BY <1>1 DEF Leaf

(* The promise is part of the invariant. *)
LEMMA LeaseCoverFollows == LeaseInv => LeaseCovers
BY LeaseConstants DEF LeaseInv, LeaseCovers, RedisKept, PeerKept, IsWhole, Keeps

(* Leases run in memory as long as Redis counts on them. *)
LEMMA NormalNotExpired ==
  ASSUME LeaseInv, LeaseMargin, NEW h \in normal_block_hashes
  PROVE  node[h].lease > now
<1>1. h \in Hashes /\ node[h].lease \in Nat /\ now \in Nat /\ next_renew \in Nat
  BY DEF LeaseInv, LeaseTypeOK, LeaseNode
<1>2. now <= next_renew /\ next_renew <= now + RenewEvery
  BY DEF LeaseInv, RenewalsOnTime
<1>3. node[h].state = "normal" \/ MarkComing(h)
  BY DEF LeaseInv, NormalKept
<1>4. CASE node[h].state = "normal"
  <2>1. node[h].lease >= LastRenewal + LeaseTTL + SafetyTTL
    BY <1>1, <1>4 DEF LeaseInv, LeasesRenewed
  <2> QED BY <2>1, <1>1, <1>2, LeaseConstants DEF LastRenewal, LeaseMargin
<1>5. CASE MarkComing(h)
  BY <1>1, <1>2, <1>5, LeaseConstants DEF MarkComing, MarkedSince, LeaseMargin
<1> QED BY <1>3, <1>4, <1>5

(* An empty tree keeps every promise. *)
LEMMA LeaseStarts == LeaseInit => LeaseInv
<1> SUFFICES ASSUME LeaseInit PROVE LeaseInv OBVIOUS
<1> USE DEF LeaseInit
<1>1. LeaseTypeOK
  <2>1. peer.phys \in [{} -> Nat]
    OBVIOUS
  <2>2. peer.phys \in UNION {[D -> Nat] : D \in SUBSET Hashes}
    BY <2>1, Zenon
  <2>3. peer \in [phys : UNION {[D -> Nat] : D \in SUBSET Hashes}, lease : Nat,
                  queued : BOOLEAN, renewed : BOOLEAN]
    BY <2>2
  <2>4. node \in [Hashes -> LeaseNode] /\ redis \in [Hashes -> LeaseEntry]
    BY DEF LeaseNode, LeaseEntry, NoNode, NoEntry
  <2>5. evicting \in [blocks : SUBSET PhysBlocks, gone : SUBSET Hashes, about : SUBSET Hashes,
                      busy : BOOLEAN]
    BY DEF NoEviction
  <2>6. now \in Nat /\ next_renew \in Nat /\ free \subseteq PhysBlocks
        /\ about_queue \in Seq(SUBSET Hashes) /\ normal_block_hashes \subseteq Hashes
    BY LeaseConstants
  <2>7. refresher \in [phase : {"delete", "about", "publish", "renew", "redis"}, new_lt : Nat]
    OBVIOUS
  <2> HIDE DEF LeaseInit
  <2> QED BY <2>3, <2>4, <2>5, <2>6, <2>7 DEF LeaseTypeOK
<1>2. RenewalsOnTime
  BY LeaseConstants DEF RenewalsOnTime
<1>3. \A h \in Hashes : node[h] = NoNode
  OBVIOUS
<1>4. Held = 1..0
  BY <1>3, LeaseConstants DEF Held, NoNode
<1>5. LeasePath
  <2> HIDE DEF LeaseInit
  <2>1. 0 \in 0..Depth
    BY LeaseConstants
  <2> QED BY <1>4, <2>1, Zenon DEF LeasePath
<1>6. LeasesRenewed
  BY <1>3, LeaseConstants DEF LeasesRenewed, NoNode
<1>7. NormalKept /\ EvictedApart
  BY DEF NormalKept, EvictedApart, NoEviction
<1>8. PublishedAsKept
  BY DEF PublishedAsKept
<1>9. RedisKept /\ PeerKept
  BY DEF RedisKept, PeerKept, NoEntry
<1> QED BY <1>1, <1>2, <1>5, <1>6, <1>7, <1>8, <1>9 DEF LeaseInv

(* A new node is at the end of the path and has its parent's lease or a fresh one. *)
LEMMA InsertKeeps ==
  ASSUME LeaseInv, NEW p \in PhysBlocks, LeaseInsert(p) PROVE LeaseInv'
<1> USE LeaseConstants
<1> DEFINE h == Leaf + 1
<1>1. PICK k \in 0..Depth : Held = 1..k
  BY DEF LeaseInv, LeasePath
<1>2. Leaf = k
  BY <1>1, LeafOfPath
<1>3. h = k + 1 /\ h \in Hashes /\ h \notin Held
  BY <1>1, <1>2 DEF LeaseInsert
<1>4. node[h].phys = 0
  BY <1>3 DEF Held
<1> HIDE DEF h
<1>5. node \in [Hashes -> LeaseNode] /\ now \in Nat /\ p \in Nat /\ p # 0
  BY DEF LeaseInv, LeaseTypeOK
<1>6. NewLease(h).lease \in Nat /\ NewLease(h).state \in {"none", "normal", "about"}
  BY <1>3, <1>5 DEF NewLease, LeaseNode
<1>7. node' = [node EXCEPT ![h] =
                  [phys |-> p, lease |-> NewLease(h).lease, state |-> NewLease(h).state,
                   published |-> FALSE, ready |-> FALSE]]
  BY DEF LeaseInsert, h
<1>8. /\ node' \in [Hashes -> LeaseNode]
      /\ \A a \in Hashes : a # h => node'[a] = node[a]
      /\ node'[h].phys = p /\ node'[h].lease = NewLease(h).lease
      /\ node'[h].state = NewLease(h).state
  BY <1>3, <1>5, <1>6, <1>7 DEF LeaseNode
<1>9. UNCHANGED << now, evicting, queueVars, workVars, redis, peer >> /\ free' = free \ {p}
  BY DEF LeaseInsert
<1>10. UNCHANGED << now, evicting, new_block_queue, about_queue, normal_block_hashes,
                    refresher, next_renew, redis, peer >>
  BY <1>9 DEF queueVars, workVars
<1>11. LeaseTypeOK'
  BY <1>8, <1>9, <1>10 DEF LeaseInv, LeaseTypeOK
<1>12. RenewalsOnTime'
  BY <1>10 DEF LeaseInv, RenewalsOnTime
<1>13. LeasePath'
  <2>1. Held' = 1..h
    BY <1>1, <1>3, <1>5, <1>8 DEF Held, Hashes
  <2> QED BY <2>1, <1>3 DEF LeasePath
<1>14. LeasesRenewed'
  <2>1. now <= next_renew /\ next_renew <= now + RenewEvery /\ next_renew \in Nat
        /\ (refresher.phase = "redis" => now = next_renew)
    BY DEF LeaseInv, RenewalsOnTime, LeaseTypeOK
  <2>2. /\ NewLease(h).lease <= now + LeaseTTL + SafetyTTL
        /\ NewLease(h).lease # 0 => NewLease(h).lease >= SafetyTTL
        /\ NewLease(h).state = "normal" =>
             NewLease(h).lease >= LastRenewal + LeaseTTL + SafetyTTL
    <3>1. CASE Leaf + 1 > LeaseLimit
      BY <3>1, <1>5 DEF NewLease
    <3>2. CASE ~(Leaf + 1 > LeaseLimit) /\ h = 1
      BY <3>2, <2>1, <1>5 DEF NewLease, LastRenewal
    <3>3. CASE ~(Leaf + 1 > LeaseLimit) /\ h # 1
      <4>1. h - 1 \in Hashes
        BY <3>3, <1>3
      <4>2. NewLease(h).lease = node[h - 1].lease /\ NewLease(h).state = node[h - 1].state
        BY <3>3 DEF NewLease
      <4> QED BY <4>1, <4>2 DEF LeaseInv, LeasesRenewed
    <3> QED BY <3>1, <3>2, <3>3
  <2>3. LastRenewal' = LastRenewal
    BY <1>10 DEF LastRenewal
  <2> SUFFICES ASSUME NEW a \in Hashes
               PROVE  /\ node'[a].lease <= now + LeaseTTL + SafetyTTL
                      /\ node'[a].lease # 0 => node'[a].lease >= SafetyTTL
                      /\ node'[a].state = "normal" =>
                           node'[a].phys # 0 /\ node'[a].lease >= LastRenewal + LeaseTTL + SafetyTTL
    BY <1>10, <2>3 DEF LeasesRenewed
  <2>4. CASE a = h
    BY <2>4, <2>2, <1>5, <1>8
  <2>5. CASE a # h
    BY <2>5, <1>8 DEF LeaseInv, LeasesRenewed
  <2> QED BY <2>4, <2>5
<1>15. NormalKept'
  <2> SUFFICES ASSUME NEW a \in normal_block_hashes
               PROVE  /\ node'[a].phys # 0
                      /\ node'[a].state = "normal" \/ MarkComing(a)'
                      /\ redis[a].phys # 0 => redis[a].phys = node'[a].phys
    BY <1>10 DEF NormalKept
  <2>1. a \in Hashes /\ node[a].phys # 0
    BY DEF LeaseInv, LeaseTypeOK, NormalKept
  <2>2. node'[a] = node[a]
    BY <2>1, <1>4, <1>8
  <2>3. MarkComing(a) => MarkComing(a)'
    BY <2>2, <1>10 DEF MarkComing, MarkedSince
  <2> QED BY <2>2, <2>3 DEF LeaseInv, NormalKept
<1>16. PublishedAsKept'
  <2> SUFFICES ASSUME NEW i \in DOMAIN new_block_queue
               PROVE  QueuedAsKept(new_block_queue[i])'
    BY <1>10 DEF LeaseInv, PublishedAsKept
  <2>1. QueuedAsKept(new_block_queue[i])
    BY DEF LeaseInv, PublishedAsKept
  <2>2. node'[new_block_queue[i].hash] = node[new_block_queue[i].hash]
    BY <2>1, <1>4, <1>8 DEF QueuedAsKept
  <2> QED BY <2>1, <2>2, <1>10 DEF QueuedAsKept
<1>17. EvictedApart'
  BY <1>10 DEF LeaseInv, EvictedApart
<1>18. RedisKept'
  BY <1>4, <1>8, <1>10 DEF LeaseInv, RedisKept
<1>19. PeerKept'
  <2>1. DOMAIN peer.phys \subseteq Hashes
    BY PeerFields DEF LeaseInv
  <2> QED BY <1>4, <1>8, <1>10, <2>1 DEF LeaseInv, PeerKept
<1> QED BY <1>11, <1>12, <1>13, <1>14, <1>15, <1>16, <1>17, <1>18, <1>19 DEF LeaseInv

(* What is published is what the node holds, the lease cut by the margin. *)
LEMMA CompleteKeeps ==
  ASSUME LeaseInv, NEW h \in Hashes, LeaseComplete(h) PROVE LeaseInv'
<1> USE LeaseConstants
<1> DEFINE Out == Unpublished(h)
<1>1. node \in [Hashes -> LeaseNode] /\ now \in Nat
  BY DEF LeaseInv, LeaseTypeOK
<1>2. node' = [a \in Hashes |-> [phys |-> node[a].phys, lease |-> node[a].lease,
                                state |-> node[a].state,
                                published |-> node[a].published \/ a \in Out,
                                ready |-> node[a].ready \/ a = h]]
  BY DEF LeaseComplete
<1>3. Out \subseteq Hashes /\ \A a \in Out : node[a].lease # 0
  BY DEF Unpublished
<1>4. PICK down \in [1..Cardinality(Out) -> Out] :
        new_block_queue' = new_block_queue \o [i \in DOMAIN down |-> NewBlockMeta(down[i])]
  BY DEF LeaseComplete
<1>5. h \in Held /\ \A a \in Out : a \in 1..h
  BY DEF LeaseComplete, Unpublished
<1>6. Cardinality(Out) \in Nat
  <2>1. IsFiniteSet(1..h)
    BY FS_Interval
  <2>2. IsFiniteSet(Out)
    BY <1>5, <2>1, FS_Subset
  <2> QED BY <2>2, FS_CardinalityType
<1> HIDE DEF Out
<1>7. node' \in [Hashes -> LeaseNode]
  BY <1>1, <1>2 DEF LeaseNode
<1>8. \A a \in Hashes : node'[a].phys = node[a].phys /\ node'[a].lease = node[a].lease
                        /\ node'[a].state = node[a].state
  BY <1>2
<1>9. UNCHANGED << now, free, evicting, about_queue, normal_block_hashes, refresher,
                   next_renew, redis, peer >>
  BY DEF LeaseComplete, workVars
<1>10. LeaseTypeOK'
  BY <1>7, <1>9 DEF LeaseInv, LeaseTypeOK
<1>11. RenewalsOnTime'
  BY <1>9 DEF LeaseInv, RenewalsOnTime
<1>12. LeasePath'
  <2>1. Held' = Held
    BY <1>8 DEF Held
  <2> QED BY <2>1 DEF LeaseInv, LeasePath
<1>13. LeasesRenewed'
  <2>1. LastRenewal' = LastRenewal
    BY <1>9 DEF LastRenewal
  <2> QED BY <1>8, <1>9, <2>1 DEF LeaseInv, LeasesRenewed
<1>14. NormalKept'
  <2> SUFFICES ASSUME NEW a \in normal_block_hashes
               PROVE  /\ node'[a].phys # 0
                      /\ node'[a].state = "normal" \/ MarkComing(a)'
                      /\ redis[a].phys # 0 => redis[a].phys = node'[a].phys
    BY <1>9 DEF NormalKept
  <2>1. a \in Hashes /\ node[a].phys # 0
    BY DEF LeaseInv, LeaseTypeOK, NormalKept
  <2>3. MarkComing(a) => MarkComing(a)'
    BY <2>1, <1>8, <1>9 DEF MarkComing, MarkedSince
  <2> QED BY <2>1, <1>8, <2>3 DEF LeaseInv, NormalKept
<1>15. PublishedAsKept'
  <2> DEFINE metas == [i \in 1..Cardinality(Out) |-> NewBlockMeta(down[i])]
  <2>1. new_block_queue' = new_block_queue \o metas
    BY <1>4
  <2>2. PICK k \in 0..Depth : Held = 1..k
    BY DEF LeaseInv, LeasePath
  <2>3. \A a \in Out : /\ a \in Hashes /\ node[a].phys # 0 /\ node[a].phys \in Nat
                       /\ node[a].lease - SafetyTTL \in Nat
                       /\ node[a].state \in {"none", "normal", "about"}
    <3> SUFFICES ASSUME NEW a \in Out
                 PROVE  /\ a \in Hashes /\ node[a].phys # 0 /\ node[a].phys \in Nat
                        /\ node[a].lease - SafetyTTL \in Nat
                        /\ node[a].state \in {"none", "normal", "about"}
      OBVIOUS
    <3>1. a \in Held
      BY <1>5, <2>2
    <3>2. a \in Hashes /\ node[a].phys # 0 /\ node[a].lease # 0
      BY <3>1, <1>3 DEF Held
    <3>3. node[a].lease \in Nat /\ node[a].lease >= SafetyTTL
      BY <3>2, <1>1 DEF LeaseInv, LeasesRenewed, LeaseNode
    <3>4. node[a].phys \in Nat /\ node[a].state \in {"none", "normal", "about"}
      BY <3>2, <1>1 DEF LeaseNode
    <3> QED BY <3>2, <3>3, <3>4
  <2>4. \A i \in 1..Cardinality(Out) :
          /\ metas[i] \in LeaseMeta
          /\ metas[i].hash \in Hashes
          /\ metas[i].phys = node[metas[i].hash].phys /\ metas[i].phys # 0
          /\ metas[i].state = node[metas[i].hash].state
          /\ metas[i].lt + SafetyTTL <= node[metas[i].hash].lease
    <3> SUFFICES ASSUME NEW i \in 1..Cardinality(Out)
                 PROVE  /\ NewBlockMeta(down[i]) \in LeaseMeta
                        /\ NewBlockMeta(down[i]).hash = down[i]
                        /\ NewBlockMeta(down[i]).phys = node[down[i]].phys
                        /\ node[down[i]].phys # 0 /\ down[i] \in Hashes
                        /\ NewBlockMeta(down[i]).state = node[down[i]].state
                        /\ NewBlockMeta(down[i]).lt + SafetyTTL <= node[down[i]].lease
      BY Zenon
    <3>1. down[i] \in Out
      BY <1>4
    <3>2. node[down[i]].lease \in Nat
      BY <3>1, <2>3, <1>1 DEF LeaseNode
    <3> QED BY <3>1, <3>2, <2>3 DEF NewBlockMeta, LeaseMeta
  <2>5. metas \in Seq(LeaseMeta)
    BY <2>4, <1>6
  <2>6. Len(metas) = Cardinality(Out)
    BY <1>6
  <2> HIDE DEF metas
  <2>7. new_block_queue \in Seq(LeaseMeta)
    BY DEF LeaseInv, PublishedAsKept
  <2>8. new_block_queue' \in Seq(LeaseMeta)
    BY <2>1, <2>5, <2>7
  <2>9. \A i \in DOMAIN new_block_queue' :
          \/ i \in DOMAIN new_block_queue /\ new_block_queue'[i] = new_block_queue[i]
          \/ \E j \in 1..Cardinality(Out) : new_block_queue'[i] = metas[j]
    <3> SUFFICES ASSUME NEW i \in DOMAIN new_block_queue'
                 PROVE  \/ i \in DOMAIN new_block_queue /\ new_block_queue'[i] = new_block_queue[i]
                        \/ \E j \in 1..Cardinality(Out) : new_block_queue'[i] = metas[j]
      OBVIOUS
    <3>1. CASE i <= Len(new_block_queue)
      BY <3>1, <2>1, <2>5, <2>7
    <3>2. CASE i > Len(new_block_queue)
      <4>1. i - Len(new_block_queue) \in 1..Cardinality(Out)
        BY <3>2, <2>1, <2>5, <2>6, <2>7
      <4>2. new_block_queue'[i] = metas[i - Len(new_block_queue)]
        BY <3>2, <2>1, <2>5, <2>7
      <4> QED BY <4>1, <4>2
    <3>3. i \in Nat /\ Len(new_block_queue) \in Nat
      BY <2>7, <2>8
    <3> QED BY <3>1, <3>2, <3>3
  <2> SUFFICES ASSUME NEW i \in DOMAIN new_block_queue'
               PROVE  QueuedAsKept(new_block_queue[i])'
    BY <2>8 DEF PublishedAsKept
  <2> DEFINE m == new_block_queue'[i]
  <2>10. m \in LeaseMeta
    BY <2>8
  <2>11. /\ m.phys # 0 /\ m.phys = node[m.hash].phys /\ m.state = node[m.hash].state
         /\ m.lt + SafetyTTL <= node[m.hash].lease
    <3>1. CASE i \in DOMAIN new_block_queue /\ m = new_block_queue[i]
      <4>1. QueuedAsKept(m)
        BY <3>1 DEF LeaseInv, PublishedAsKept
      <4> QED BY <4>1 DEF QueuedAsKept
    <3>2. CASE \E j \in 1..Cardinality(Out) : m = metas[j]
      BY <3>2, <2>4
    <3> QED BY <3>1, <3>2, <2>9
  <2> HIDE DEF m
  <2>12. m.hash \in Hashes /\ m.lt \in Nat /\ m.phys \in Nat
         /\ m.state \in {"none", "normal", "about"}
    BY <2>10 DEF LeaseMeta
  <2>13. /\ m.phys # 0 /\ m.phys = node'[m.hash].phys /\ m.state = node'[m.hash].state
         /\ m.lt + SafetyTTL <= node'[m.hash].lease
    BY <2>11, <2>12, <1>8
  <2> QED BY <2>12, <2>13 DEF QueuedAsKept, m
<1>16. EvictedApart'
  BY <1>9 DEF LeaseInv, EvictedApart
<1>17. RedisKept'
  BY <1>8, <1>9 DEF LeaseInv, RedisKept
<1>18. PeerKept'
  <2>1. DOMAIN peer.phys \subseteq Hashes
    BY PeerFields DEF LeaseInv
  <2> QED BY <1>8, <1>9, <2>1 DEF LeaseInv, PeerKept
<1> QED BY <1>10, <1>11, <1>12, <1>13, <1>14, <1>15, <1>16, <1>17, <1>18 DEF LeaseInv

(* What evict does to the path: the leaf goes, or the leaf and its parent, or
   neither; what is marked is the leaf that is left. *)
LEMMA EvictedPath ==
  ASSUME NEW k \in 0..Depth, Held = 1..k, NEW need \in 1..2
  PROVE  /\ Removable(need) \subseteq Held
         /\ \E j \in 0..Depth : Held \ Removable(need) = 1..j
         /\ ToMark(need) \subseteq Held \ Removable(need)
<1> USE LeaseConstants
<1> DEFINE gone == Removable(need)
<1>1. Leaf = k
  BY LeafOfPath
<1>2. gone = {h \in 1..k : h > k - need /\ \A a \in h..k : node[a].ready /\ Expired(a)}
  BY <1>1 DEF Removable
<1>3. ToMark(need) \subseteq {Leaf - Cardinality(gone)} /\ (ToMark(need) # {} => Leaf - Cardinality(gone) > 0)
  BY DEF ToMark
<1>4. (k \in gone /\ k > 0) \/ gone = {}
  <2>1. ASSUME NEW h \in gone PROVE k \in gone /\ k > 0
    BY <2>1, <1>2
  <2> QED BY <2>1
<1>5. gone = {} \/ gone = {k} \/ (gone = {k - 1, k} /\ k - 1 > 0)
  <2>1. gone \subseteq {k - 1, k} /\ (k - 1 \in gone => k - 1 > 0)
    BY <1>2
  <2> QED BY <1>4, <2>1
<1> HIDE DEF gone
<1>6. CASE gone = {}
  <2>1. Cardinality(gone) = 0
    BY <1>6, FS_EmptySet
  <2> QED BY <1>1, <1>3, <1>6, <2>1 DEF gone
<1>7. CASE gone = {k}
  <2>1. Cardinality(gone) = 1
    BY <1>7, FS_Singleton
  <2>2. k > 0
    BY <1>4, <1>7
  <2>3. Held \ gone = 1..(k - 1) /\ k - 1 \in 0..Depth
    BY <1>7, <2>2
  <2>4. gone \subseteq Held
    BY <1>7, <2>2
  <2>5. ToMark(need) \subseteq Held \ gone
    BY <1>1, <1>3, <2>1, <2>3
  <2> QED BY <2>3, <2>4, <2>5 DEF gone
<1>8. CASE gone = {k - 1, k} /\ k - 1 > 0
  <2>1. Cardinality(gone) = 2
    <3>1. Cardinality({k}) = 1 /\ IsFiniteSet({k})
      BY FS_Singleton
    <3>2. Cardinality({k} \cup {k - 1}) = 2
      <4>1. k - 1 \notin {k}
        OBVIOUS
      <4>2. Cardinality({k} \cup {k - 1}) = Cardinality({k}) + 1
        BY <3>1, <4>1, FS_AddElement, Zenon
      <4> QED BY <3>1, <4>2
    <3>3. gone = {k} \cup {k - 1}
      BY <1>8
    <3> QED BY <3>1, <3>2, <3>3
  <2>3. Held \ gone = 1..(k - 2) /\ k - 2 \in 0..Depth
    BY <1>8
  <2>4. gone \subseteq Held
    BY <1>8
  <2>5. ToMark(need) \subseteq Held \ gone
    BY <1>1, <1>3, <2>1, <2>3
  <2> QED BY <2>3, <2>4, <2>5 DEF gone
<1> QED BY <1>5, <1>6, <1>7, <1>8

(* A block that goes has no lease left, so nobody counts on it; one that is marked
   keeps the lease it has. *)
LEMMA EvictKeeps ==
  ASSUME LeaseInv, LeaseMargin, NEW need \in 1..2, LeaseEvict(need) PROVE LeaseInv'
<1> USE LeaseConstants
<1> DEFINE gone == Removable(need)
           mark == ToMark(need)
<1>1. node \in [Hashes -> LeaseNode] /\ now \in Nat
  BY DEF LeaseInv, LeaseTypeOK
<1>2. PICK k \in 0..Depth : Held = 1..k
  BY DEF LeaseInv, LeasePath
<1>3. /\ gone \subseteq Held /\ mark \subseteq Held \ gone /\ Held \subseteq Hashes
      /\ \E j \in 0..Depth : Held \ gone = 1..j
  BY <1>2, EvictedPath DEF Held
<1>4. \A a \in gone : node[a].lease <= now
  <2>1. Leaf \in Int /\ \A a \in Held : a <= Leaf
    BY <1>2, LeafOfPath
  <2> SUFFICES ASSUME NEW a \in gone PROVE node[a].lease <= now
    OBVIOUS
  <2>2. a \in Held /\ \A b \in a..Leaf : Expired(b)
    BY DEF Removable
  <2>3. a \in a..Leaf
    BY <2>1, <2>2, <1>3
  <2> QED BY <2>2, <2>3 DEF Expired
<1>6. /\ node' = [h \in Hashes |-> IF h \in gone THEN NoNode
                                  ELSE IF h \in mark THEN [node[h] EXCEPT !.state = "about"]
                                  ELSE node[h]]
      /\ evicting' = [blocks |-> {node[h].phys : h \in gone}, gone |-> gone,
                      about |-> mark, busy |-> TRUE]
      /\ ~evicting.busy /\ new_block_queue = << >>
      /\ UNCHANGED << now, free, new_block_queue, about_queue, normal_block_hashes, refresher,
                      next_renew, redis, peer >>
  BY DEF LeaseEvict, LeaseMargin, queueVars, workVars
<1>7. evicting.about = {}
  BY <1>6 DEF LeaseInv, EvictedApart, NoEviction
<1> HIDE DEF gone, mark
<1>9. node' \in [Hashes -> LeaseNode]
  <2>1. NoNode \in LeaseNode
    BY DEF LeaseNode, NoNode
  <2>2. \A h \in Hashes : [node[h] EXCEPT !.state = "about"] \in LeaseNode
    BY <1>1 DEF LeaseNode
  <2> QED BY <2>1, <2>2, <1>1, <1>6
<1>10. \A a \in Hashes :
         /\ a \in gone => node'[a].phys = 0 /\ node'[a].lease = 0 /\ node'[a].state = "none"
         /\ a \notin gone => node'[a].phys = node[a].phys /\ node'[a].lease = node[a].lease
         /\ a \in mark => node'[a].state = "about"
         /\ a \notin gone /\ a \notin mark => node'[a].state = node[a].state
  BY <1>1, <1>3, <1>6 DEF LeaseNode, NoNode
<1>11. LeaseTypeOK'
  <2>1. \A h \in gone : node[h].phys \in PhysBlocks
    BY <1>1, <1>3 DEF LeaseNode, Held
  <2>2. evicting' \in [blocks : SUBSET PhysBlocks, gone : SUBSET Hashes, about : SUBSET Hashes,
                       busy : BOOLEAN]
    BY <2>1, <1>3, <1>6
  <2> QED BY <2>2, <1>6, <1>9 DEF LeaseInv, LeaseTypeOK
<1>12. RenewalsOnTime'
  BY <1>6 DEF LeaseInv, RenewalsOnTime
<1>13. LeasePath'
  <2>1. Held' = Held \ gone
    BY <1>3, <1>10 DEF Held
  <2> QED BY <2>1, <1>3 DEF LeasePath
<1>14. LeasesRenewed'
  <2>1. LastRenewal' = LastRenewal
    BY <1>6 DEF LastRenewal
  <2> SUFFICES ASSUME NEW a \in Hashes
               PROVE  /\ node'[a].lease <= now + LeaseTTL + SafetyTTL
                      /\ node'[a].lease # 0 => node'[a].lease >= SafetyTTL
                      /\ node'[a].state = "normal" =>
                           node'[a].phys # 0 /\ node'[a].lease >= LastRenewal + LeaseTTL + SafetyTTL
    BY <1>6, <2>1 DEF LeasesRenewed
  <2>2. CASE a \in gone
    BY <2>2, <1>1, <1>10
  <2>3. CASE a \notin gone
    <3>1. node'[a].state = "normal" => node[a].state = "normal"
      BY <2>3, <1>10
    <3> QED BY <2>3, <3>1, <1>10 DEF LeaseInv, LeasesRenewed
  <2> QED BY <2>2, <2>3
<1>15. NormalKept'
  <2> SUFFICES ASSUME NEW a \in normal_block_hashes
               PROVE  /\ node'[a].phys # 0
                      /\ node'[a].state = "normal" \/ MarkComing(a)'
                      /\ redis[a].phys # 0 => redis[a].phys = node'[a].phys
    BY <1>6 DEF NormalKept
  <2>1. a \in Hashes /\ node[a].phys # 0 /\ (redis[a].phys # 0 => redis[a].phys = node[a].phys)
    BY DEF LeaseInv, LeaseTypeOK, NormalKept
  <2>2. a \notin gone
    BY <2>1, <1>1, <1>4, NormalNotExpired DEF LeaseNode
  <2>3. node'[a].phys = node[a].phys /\ node'[a].lease = node[a].lease
    BY <2>1, <2>2, <1>10
  <2>4. MarkComing(a) => MarkComing(a)'
    BY <2>3, <1>6, <1>7 DEF MarkComing, MarkedSince
  <2>5. CASE a \notin mark
    BY <2>1, <2>2, <2>3, <2>4, <2>5, <1>10 DEF LeaseInv, NormalKept
  <2>6. CASE a \in mark /\ node[a].state = "normal"
    <3>1. node[a].lease >= LastRenewal + LeaseTTL + SafetyTTL /\ node[a].lease \in Nat
      BY <2>1, <2>6, <1>1 DEF LeaseInv, LeasesRenewed, LeaseNode
    <3>2. now <= next_renew /\ next_renew \in Nat
      BY DEF LeaseInv, RenewalsOnTime, LeaseTypeOK
    <3>3. node[a].lease >= now - RenewEvery + LeaseTTL + SafetyTTL
      BY <3>1, <3>2, <1>1 DEF LastRenewal
    <3>4. a \in evicting'.about
      BY <2>6, <1>6
    <3>5. MarkComing(a)'
      BY <3>3, <3>4, <2>3, <1>6 DEF MarkComing
    <3> QED BY <3>5, <2>1, <2>3
  <2>7. CASE node[a].state # "normal"
    BY <2>1, <2>3, <2>4, <2>7 DEF LeaseInv, NormalKept
  <2> QED BY <2>5, <2>6, <2>7
<1>16. PublishedAsKept'
  BY <1>6 DEF PublishedAsKept
<1>17. EvictedApart'
  BY <1>6 DEF EvictedApart
<1>18. RedisKept'
  <2> SUFFICES ASSUME NEW a \in Hashes, redis[a].phys # 0, redis[a].lt > now
               PROVE  node'[a].phys = redis[a].phys /\ node'[a].lease >= redis[a].lt
    BY <1>6 DEF RedisKept
  <2>1. node[a].phys = redis[a].phys /\ node[a].lease >= redis[a].lt
        /\ redis[a].lt \in Nat /\ node[a].lease \in Nat
    BY <1>1 DEF LeaseInv, RedisKept, LeaseTypeOK, LeaseEntry, LeaseNode
  <2>2. a \notin gone
    BY <2>1, <1>1, <1>4
  <2> QED BY <2>1, <2>2, <1>10
<1>19. PeerKept'
  <2> SUFFICES ASSUME ~peer.renewed, peer.lease > now, NEW a \in DOMAIN peer.phys
               PROVE  /\ peer.phys[a] # 0
                      /\ node'[a].phys = peer.phys[a] /\ node'[a].lease >= peer.lease
    BY <1>6 DEF PeerKept
  <2>1. a \in Hashes /\ peer.lease \in Nat
    BY PeerFields DEF LeaseInv
  <2>2. node[a].phys = peer.phys[a] /\ node[a].lease >= peer.lease /\ peer.phys[a] # 0
    BY DEF LeaseInv, PeerKept
  <2>3. a \notin gone
    BY <2>1, <2>2, <1>1, <1>4 DEF LeaseNode
  <2> QED BY <2>1, <2>2, <2>3, <1>10
<1> QED BY <1>11, <1>12, <1>13, <1>14, <1>15, <1>16, <1>17, <1>18, <1>19 DEF LeaseInv

(* A mark of the present period is younger than any that a round may have missed. *)
LEMMA NewMarkIsYoung ==
  ASSUME now \in Nat, next_renew \in Nat, next_renew <= now + RenewEvery,
         NEW l \in Nat, l >= now - RenewEvery + LeaseTTL + SafetyTTL
  PROVE  l >= MarkedSince + LeaseTTL + SafetyTTL
<1>1. RenewEvery \in Nat /\ LeaseTTL \in Nat /\ SafetyTTL \in Nat
  BY LeaseConstants
<1>2. next_renew - 2 * RenewEvery <= now - RenewEvery
      /\ next_renew - 3 * RenewEvery <= now - RenewEvery
  BY <1>1
<1>3. MarkedSince \in Int /\ MarkedSince <= now - RenewEvery
  BY <1>1, <1>2 DEF MarkedSince
<1> QED BY <1>1, <1>3

(* The mark comes to the queue in the period it was made in. *)
LEMMA EvictDoneKeeps ==
  ASSUME LeaseInv, LeaseEvictDone PROVE LeaseInv'
<1> USE LeaseConstants
<1>1. /\ UNCHANGED << now, node, new_block_queue, normal_block_hashes, refresher, next_renew,
                      redis, peer >>
      /\ about_queue' = Pushed(about_queue, evicting.about)
      /\ evicting' = NoEviction /\ free' = free \cup evicting.blocks
  BY DEF LeaseEvictDone, workVars
<1>2. about_queue \in Seq(SUBSET Hashes) /\ evicting.about \in SUBSET Hashes
      /\ now \in Nat /\ next_renew \in Nat /\ node \in [Hashes -> LeaseNode]
  BY DEF LeaseInv, LeaseTypeOK
<1>3. /\ about_queue' \in Seq(SUBSET Hashes)
      /\ \A i \in DOMAIN about_queue : i \in DOMAIN about_queue' /\ about_queue'[i] = about_queue[i]
      /\ evicting.about # {} => \E i \in DOMAIN about_queue' : about_queue'[i] = evicting.about
  <2>1. CASE evicting.about = {}
    BY <2>1, <1>1, <1>2 DEF Pushed
  <2>2. CASE evicting.about # {}
    <3>1. about_queue' = Append(about_queue, evicting.about)
      BY <2>2, <1>1 DEF Pushed
    <3>2. Len(about_queue) + 1 \in DOMAIN about_queue'
          /\ about_queue'[Len(about_queue) + 1] = evicting.about
      BY <3>1, <1>2
    <3> QED BY <3>1, <3>2, <1>2
  <2> QED BY <2>1, <2>2
<1>4. LeaseTypeOK'
  BY <1>1, <1>3 DEF LeaseInv, LeaseTypeOK, NoEviction
<1>5. RenewalsOnTime'
  BY <1>1 DEF LeaseInv, RenewalsOnTime
<1>6. LeasePath'
  BY <1>1 DEF LeaseInv, LeasePath, Held
<1>7. LeasesRenewed'
  BY <1>1 DEF LeaseInv, LeasesRenewed, LastRenewal
<1>8. NormalKept'
  <2> SUFFICES ASSUME NEW a \in normal_block_hashes, MarkComing(a)
               PROVE  MarkComing(a)'
    BY <1>1 DEF LeaseInv, NormalKept
  <2>1. next_renew <= now + RenewEvery /\ a \in Hashes /\ node[a].lease \in Nat
    BY <1>2 DEF LeaseInv, RenewalsOnTime, LeaseTypeOK, LeaseNode
  <2>2. MarkedSince' = MarkedSince
    BY <1>1 DEF MarkedSince
  <2>3. CASE a \in evicting.about /\ node[a].lease >= now - RenewEvery + LeaseTTL + SafetyTTL
    <3>1. node[a].lease >= MarkedSince + LeaseTTL + SafetyTTL
      BY <2>1, <2>3, <1>2, NewMarkIsYoung
    <3>2. \E i \in DOMAIN about_queue' : a \in about_queue'[i]
      BY <2>3, <1>3
    <3> QED BY <3>1, <3>2, <2>2, <1>1 DEF MarkComing
  <2>4. CASE /\ \E i \in DOMAIN about_queue : a \in about_queue[i]
             /\ node[a].lease >= MarkedSince + LeaseTTL + SafetyTTL
    <3>1. \E i \in DOMAIN about_queue' : a \in about_queue'[i]
      BY <2>4, <1>3
    <3> QED BY <3>1, <2>4, <2>2, <1>1 DEF MarkComing
  <2> QED BY <2>3, <2>4 DEF MarkComing
<1>9. PublishedAsKept'
  BY <1>1 DEF LeaseInv, PublishedAsKept, QueuedAsKept
<1>10. EvictedApart'
  BY <1>1 DEF EvictedApart
<1>11. RedisKept' /\ PeerKept'
  BY <1>1 DEF LeaseInv, RedisKept, PeerKept
<1> QED BY <1>4, <1>5, <1>6, <1>7, <1>8, <1>9, <1>10, <1>11 DEF LeaseInv

(* A withdrawal: what leaves Redis, or is only marked there, is not renewed. *)
LEMMA ReportEvictedKeeps ==
  ASSUME LeaseInv, ReportEvicted PROVE LeaseInv'
<1> USE LeaseConstants
<1> DEFINE hs == Head(evicted_queue)
<1>1. /\ UNCHANGED << now, node, free, evicting, new_block_queue, about_queue, refresher,
                      next_renew, peer >>
      /\ redis' = [h \in Hashes |-> IF h \in hs THEN NoEntry ELSE redis[h]]
      /\ normal_block_hashes' = normal_block_hashes \ hs
  BY DEF ReportEvicted, ownerVars, StillNormal
<1> HIDE DEF hs
<1>2. redis' \in [Hashes -> LeaseEntry]
  BY <1>1 DEF LeaseInv, LeaseTypeOK, LeaseEntry, NoEntry
<1>3. \A h \in Hashes : redis'[h].phys = 0 \/ redis'[h] = redis[h]
  BY <1>1 DEF NoEntry
<1>4. LeaseTypeOK'
  BY <1>1, <1>2 DEF LeaseInv, LeaseTypeOK
<1>5. RenewalsOnTime' /\ LeasePath' /\ LeasesRenewed' /\ EvictedApart' /\ PeerKept'
  BY <1>1 DEF LeaseInv, RenewalsOnTime, LeasePath, Held, LeasesRenewed, LastRenewal,
              EvictedApart, PeerKept
<1>6. NormalKept'
  <2> SUFFICES ASSUME NEW a \in normal_block_hashes'
               PROVE  /\ node[a].phys # 0
                      /\ node[a].state = "normal" \/ MarkComing(a)'
                      /\ redis'[a].phys # 0 => redis'[a].phys = node[a].phys
    BY <1>1 DEF NormalKept
  <2>1. a \in normal_block_hashes /\ a \in Hashes
    BY <1>1 DEF LeaseInv, LeaseTypeOK
  <2>2. MarkComing(a) => MarkComing(a)'
    BY <1>1 DEF MarkComing, MarkedSince
  <2> QED BY <2>1, <2>2, <1>3 DEF LeaseInv, NormalKept
<1>7. PublishedAsKept'
  BY <1>1 DEF LeaseInv, PublishedAsKept, QueuedAsKept
<1>8. RedisKept'
  BY <1>1, <1>3 DEF LeaseInv, RedisKept
<1> QED BY <1>4, <1>5, <1>6, <1>7, <1>8 DEF LeaseInv

(* The mark arrives, and ends the renewals in Redis. *)
LEMMA ReportAboutKeeps ==
  ASSUME LeaseInv, ReportAbout PROVE LeaseInv'
<1> USE LeaseConstants
<1> DEFINE hs == Head(about_queue)
<1>1. /\ UNCHANGED << now, node, free, evicting, new_block_queue, refresher, next_renew, peer >>
      /\ redis' = [h \in Hashes |-> IF h \in hs THEN [redis[h] EXCEPT !.state = "about"]
                                    ELSE redis[h]]
      /\ normal_block_hashes' = normal_block_hashes \ hs
      /\ about_queue' = Tail(about_queue) /\ about_queue # << >>
  BY DEF ReportAbout, ownerVars, StillNormal
<1>2. about_queue \in Seq(SUBSET Hashes) /\ redis \in [Hashes -> LeaseEntry]
  BY DEF LeaseInv, LeaseTypeOK
<1>3. \A i \in DOMAIN about_queue : i # 1 =>
        i - 1 \in DOMAIN about_queue' /\ about_queue'[i - 1] = about_queue[i]
  BY <1>1, <1>2
<1>4. hs = about_queue[1] /\ about_queue' \in Seq(SUBSET Hashes)
  BY <1>1, <1>2
<1> HIDE DEF hs
<1>5. redis' \in [Hashes -> LeaseEntry]
  BY <1>1, <1>2 DEF LeaseEntry
<1>6. \A h \in Hashes : redis'[h].phys = redis[h].phys /\ redis'[h].lt = redis[h].lt
  BY <1>1, <1>2 DEF LeaseEntry
<1>7. LeaseTypeOK'
  BY <1>1, <1>4, <1>5 DEF LeaseInv, LeaseTypeOK
<1>8. RenewalsOnTime' /\ LeasePath' /\ LeasesRenewed' /\ EvictedApart' /\ PeerKept'
  BY <1>1 DEF LeaseInv, RenewalsOnTime, LeasePath, Held, LeasesRenewed, LastRenewal,
              EvictedApart, PeerKept
<1>9. NormalKept'
  <2> SUFFICES ASSUME NEW a \in normal_block_hashes'
               PROVE  /\ node[a].phys # 0
                      /\ node[a].state = "normal" \/ MarkComing(a)'
                      /\ redis'[a].phys # 0 => redis'[a].phys = node[a].phys
    BY <1>1 DEF NormalKept
  <2>1. a \in normal_block_hashes /\ a \in Hashes /\ a \notin about_queue[1]
    BY <1>1, <1>4 DEF LeaseInv, LeaseTypeOK
  <2>2. (\E i \in DOMAIN about_queue : a \in about_queue[i]) =>
          \E i \in DOMAIN about_queue' : a \in about_queue'[i]
    BY <2>1, <1>3
  <2>3. MarkComing(a) => MarkComing(a)'
    BY <2>2, <1>1 DEF MarkComing, MarkedSince
  <2> QED BY <2>1, <2>3, <1>6 DEF LeaseInv, NormalKept
<1>10. PublishedAsKept'
  BY <1>1 DEF LeaseInv, PublishedAsKept, QueuedAsKept
<1>11. RedisKept'
  BY <1>1, <1>6 DEF LeaseInv, RedisKept
<1> QED BY <1>7, <1>8, <1>9, <1>10, <1>11 DEF LeaseInv

(* A publication arrives before anything happened to its node. *)
LEMMA ReportNewKeeps ==
  ASSUME LeaseInv, ReportNew PROVE LeaseInv'
<1> USE LeaseConstants
<1> DEFINE m == Head(new_block_queue)
<1>1. /\ UNCHANGED << now, node, free, evicting, about_queue, refresher, next_renew, peer >>
      /\ redis' = [redis EXCEPT ![m.hash] = [phys |-> m.phys, lt |-> m.lt, state |-> m.state]]
      /\ normal_block_hashes' =
           normal_block_hashes \cup {h \in {m.hash} : m.state = "normal"}
      /\ new_block_queue' = Tail(new_block_queue) /\ new_block_queue # << >>
  BY DEF ReportNew, ownerVars
<1>2. new_block_queue \in Seq(LeaseMeta) /\ redis \in [Hashes -> LeaseEntry]
  BY DEF LeaseInv, LeaseTypeOK, PublishedAsKept
<1>3. /\ new_block_queue' \in Seq(LeaseMeta)
      /\ \A i \in DOMAIN new_block_queue' :
           i + 1 \in DOMAIN new_block_queue /\ new_block_queue'[i] = new_block_queue[i + 1]
  BY <1>1, <1>2
<1>4. 1 \in DOMAIN new_block_queue /\ m = new_block_queue[1]
  BY <1>1, <1>2
<1>5. QueuedAsKept(m)
  BY <1>4 DEF LeaseInv, PublishedAsKept
<1> HIDE DEF m
<1>6. redis' \in [Hashes -> LeaseEntry]
  BY <1>1, <1>2, <1>5 DEF LeaseEntry, QueuedAsKept
<1>7. /\ \A h \in Hashes : h # m.hash => redis'[h] = redis[h]
      /\ redis'[m.hash].phys = m.phys /\ redis'[m.hash].lt = m.lt
  BY <1>1, <1>2, <1>5 DEF QueuedAsKept
<1>8. LeaseTypeOK'
  <2>1. normal_block_hashes' \subseteq Hashes
    BY <1>1, <1>5 DEF LeaseInv, LeaseTypeOK, QueuedAsKept
  <2> QED BY <2>1, <1>1, <1>6 DEF LeaseInv, LeaseTypeOK
<1>9. RenewalsOnTime' /\ LeasePath' /\ LeasesRenewed' /\ EvictedApart' /\ PeerKept'
  BY <1>1 DEF LeaseInv, RenewalsOnTime, LeasePath, Held, LeasesRenewed, LastRenewal,
              EvictedApart, PeerKept
<1>10. NormalKept'
  <2> SUFFICES ASSUME NEW a \in normal_block_hashes'
               PROVE  /\ node[a].phys # 0
                      /\ node[a].state = "normal" \/ MarkComing(a)'
                      /\ redis'[a].phys # 0 => redis'[a].phys = node[a].phys
    BY <1>1 DEF NormalKept
  <2>1. MarkComing(a) => MarkComing(a)'
    BY <1>1 DEF MarkComing, MarkedSince
  <2>2. CASE a = m.hash /\ m.state = "normal"
    BY <2>2, <1>5, <1>7 DEF QueuedAsKept
  <2>3. CASE a = m.hash /\ m.state # "normal"
    <3>1. a \in normal_block_hashes
      BY <2>3, <1>1
    <3> QED BY <3>1, <2>1, <2>3, <1>5, <1>7 DEF LeaseInv, NormalKept, QueuedAsKept
  <2>4. CASE a # m.hash
    <3>1. a \in normal_block_hashes /\ a \in Hashes
      BY <2>4, <1>1 DEF LeaseInv, LeaseTypeOK
    <3> QED BY <3>1, <2>1, <2>4, <1>7 DEF LeaseInv, NormalKept
  <2> QED BY <2>2, <2>3, <2>4
<1>11. PublishedAsKept'
  <2> SUFFICES ASSUME NEW i \in DOMAIN new_block_queue'
               PROVE  QueuedAsKept(new_block_queue[i])'
    BY <1>3 DEF PublishedAsKept
  <2>1. QueuedAsKept(new_block_queue[i + 1])
    BY <1>3 DEF LeaseInv, PublishedAsKept
  <2> QED BY <2>1, <1>1, <1>3 DEF QueuedAsKept
<1>12. RedisKept'
  <2> SUFFICES ASSUME NEW a \in Hashes, redis'[a].phys # 0, redis'[a].lt > now
               PROVE  node[a].phys = redis'[a].phys /\ node[a].lease >= redis'[a].lt
    BY <1>1 DEF RedisKept
  <2>1. CASE a = m.hash
    <3>1. node[a].lease \in Nat
      BY DEF LeaseInv, LeaseTypeOK, LeaseNode
    <3> QED BY <3>1, <2>1, <1>5, <1>7 DEF QueuedAsKept
  <2>2. CASE a # m.hash
    BY <2>2, <1>7 DEF LeaseInv, RedisKept
  <2> QED BY <2>1, <2>2
<1> QED BY <1>8, <1>9, <1>10, <1>11, <1>12 DEF LeaseInv

(* Once the marks are drained, none in the queue is older than the next renewal
   less two periods. *)
LEMMA ReportNextKeeps ==
  ASSUME LeaseInv, ReportNext PROVE LeaseInv'
<1> USE LeaseConstants
<1>1. UNCHANGED << now, node, free, evicting, new_block_queue, about_queue, normal_block_hashes,
                   next_renew, redis, peer >>
  BY DEF ReportNext, ownerVars, queueVars
<1>2. /\ refresher' \in [phase : {"delete", "about", "publish", "renew"}, new_lt : Nat]
      /\ refresher.phase # "redis" /\ (refresher.phase = "about" => about_queue = << >>)
      /\ refresher.phase \in {"delete", "about", "publish"}
      /\ refresher.phase = "delete" => refresher'.phase = "about"
      /\ refresher.phase = "about" => refresher'.phase = "publish"
      /\ refresher.phase = "publish" => \/ refresher'.phase = "delete"
                                        \/ refresher'.phase = "renew" /\ now >= next_renew
  BY DEF ReportNext, At, Go, LeaseInv, LeaseTypeOK
<1>3. now \in Nat /\ next_renew \in Nat /\ now <= next_renew /\ node \in [Hashes -> LeaseNode]
      /\ normal_block_hashes \subseteq Hashes
  BY DEF LeaseInv, LeaseTypeOK, RenewalsOnTime
<1>4. LeaseTypeOK'
  BY <1>1, <1>2 DEF LeaseInv, LeaseTypeOK
<1>5. RenewalsOnTime'
  BY <1>1, <1>2, <1>3 DEF LeaseInv, RenewalsOnTime
<1>6. LeasePath' /\ EvictedApart' /\ PeerKept' /\ RedisKept'
  BY <1>1 DEF LeaseInv, LeasePath, Held, EvictedApart, PeerKept, RedisKept
<1>7. LeasesRenewed'
  <2>1. LastRenewal' = LastRenewal
    BY <1>1, <1>2 DEF LastRenewal
  <2> QED BY <2>1, <1>1 DEF LeaseInv, LeasesRenewed
<1>8. NormalKept'
  <2> SUFFICES ASSUME NEW a \in normal_block_hashes, MarkComing(a)
               PROVE  MarkComing(a)'
    BY <1>1 DEF LeaseInv, NormalKept
  <2>1. node[a].lease \in Nat
    BY <1>3 DEF LeaseNode
  <2>2. CASE refresher.phase = "about"
    BY <2>2, <1>1, <1>2 DEF MarkComing
  <2>3. CASE refresher.phase # "about"
    <3>1. MarkedSince' <= MarkedSince
      BY <2>3, <1>1, <1>2, <1>3 DEF MarkedSince
    <3>2. MarkedSince \in Int /\ MarkedSince' \in Int
      BY <1>1, <1>3 DEF MarkedSince
    <3> QED BY <2>1, <3>1, <3>2, <1>1 DEF MarkComing
  <2> QED BY <2>2, <2>3
<1>9. PublishedAsKept'
  BY <1>1 DEF LeaseInv, PublishedAsKept, QueuedAsKept
<1> QED BY <1>4, <1>5, <1>6, <1>7, <1>8, <1>9 DEF LeaseInv

(* The renewal in memory goes first: no lease gets shorter. *)
LEMMA RenewMemoryKeeps ==
  ASSUME LeaseInv, RenewMemory PROVE LeaseInv'
<1> USE LeaseConstants
<1>1. /\ UNCHANGED << now, free, evicting, new_block_queue, about_queue, normal_block_hashes,
                      next_renew, redis, peer >>
      /\ node' = [h \in Hashes |-> IF node[h].state = "normal"
                    THEN [node[h] EXCEPT !.lease = now + LeaseTTL + SafetyTTL] ELSE node[h]]
      /\ refresher' = [phase |-> "redis", new_lt |-> now + LeaseTTL]
      /\ refresher.phase = "renew"
  BY DEF RenewMemory, queueVars, At
<1>2. now \in Nat /\ next_renew \in Nat /\ now = next_renew /\ node \in [Hashes -> LeaseNode]
      /\ normal_block_hashes \subseteq Hashes /\ DOMAIN peer.phys \subseteq Hashes
      /\ redis \in [Hashes -> LeaseEntry] /\ peer.lease \in Nat
  BY <1>1, PeerFields DEF LeaseInv, LeaseTypeOK, RenewalsOnTime
<1>3. node' \in [Hashes -> LeaseNode]
  <2> DEFINE l == now + LeaseTTL + SafetyTTL
  <2>1. l \in Nat
    BY <1>2
  <2>2. node' = [h \in Hashes |-> IF node[h].state = "normal"
                   THEN [node[h] EXCEPT !.lease = l] ELSE node[h]]
    BY <1>1
  <2> HIDE DEF l
  <2>3. \A h \in Hashes : [node[h] EXCEPT !.lease = l] \in LeaseNode
    BY <2>1, <1>2 DEF LeaseNode
  <2> QED BY <2>2, <2>3, <1>2
<1>4. \A h \in Hashes :
        /\ node'[h].phys = node[h].phys /\ node'[h].state = node[h].state
        /\ node[h].state = "normal" => node'[h].lease = now + LeaseTTL + SafetyTTL
        /\ node[h].state # "normal" => node'[h].lease = node[h].lease
  BY <1>1, <1>2 DEF LeaseNode
<1>5. \A h \in Hashes : node[h].lease \in Nat /\ node'[h].lease \in Nat
  BY <1>2, <1>3 DEF LeaseNode
<1>6. \A h \in Hashes : node'[h].lease >= node[h].lease
  BY <1>2, <1>4, <1>5 DEF LeaseInv, LeasesRenewed
<1>7. LeaseTypeOK'
  BY <1>1, <1>2, <1>3 DEF LeaseInv, LeaseTypeOK
<1>8. RenewalsOnTime'
  BY <1>1, <1>2 DEF RenewalsOnTime
<1>9. LeasePath'
  <2>1. Held' = Held
    BY <1>4 DEF Held
  <2> QED BY <2>1 DEF LeaseInv, LeasePath
<1>10. LeasesRenewed'
  <2>1. LastRenewal' = now
    BY <1>1, <1>2 DEF LastRenewal
  <2> QED BY <2>1, <1>1, <1>2, <1>4, <1>5 DEF LeaseInv, LeasesRenewed
<1>11. NormalKept'
  <2> SUFFICES ASSUME NEW a \in normal_block_hashes
               PROVE  /\ node'[a].phys # 0
                      /\ node'[a].state = "normal" \/ MarkComing(a)'
                      /\ redis[a].phys # 0 => redis[a].phys = node'[a].phys
    BY <1>1 DEF NormalKept
  <2>1. a \in Hashes
    BY <1>2
  <2>2. MarkedSince' = MarkedSince /\ MarkedSince \in Int
    BY <1>1, <1>2 DEF MarkedSince
  <2>3. MarkComing(a) => MarkComing(a)'
    <3>1. \A x \in Int : node[a].lease >= x => node'[a].lease >= x
      BY <2>1, <1>5, <1>6
    <3>2. now - RenewEvery + LeaseTTL + SafetyTTL \in Int
          /\ MarkedSince + LeaseTTL + SafetyTTL \in Int
      BY <2>2, <1>2
    <3> QED BY <3>1, <3>2, <2>2, <1>1 DEF MarkComing
  <2> QED BY <2>1, <2>3, <1>4 DEF LeaseInv, NormalKept
<1>12. PublishedAsKept'
  <2> SUFFICES ASSUME NEW i \in DOMAIN new_block_queue
               PROVE  QueuedAsKept(new_block_queue[i])'
    BY <1>1 DEF LeaseInv, PublishedAsKept
  <2>1. QueuedAsKept(new_block_queue[i])
    BY DEF LeaseInv, PublishedAsKept
  <2> DEFINE m == new_block_queue[i]
  <2>2. m.lt + SafetyTTL <= node'[m.hash].lease
    BY <2>1, <1>5, <1>6 DEF QueuedAsKept
  <2> QED BY <2>1, <2>2, <1>1, <1>4 DEF QueuedAsKept
<1>13. EvictedApart'
  BY <1>1 DEF LeaseInv, EvictedApart
<1>14. RedisKept'
  <2> SUFFICES ASSUME NEW a \in Hashes, redis[a].phys # 0, redis[a].lt > now
               PROVE  node'[a].phys = redis[a].phys /\ node'[a].lease >= redis[a].lt
    BY <1>1 DEF RedisKept
  <2>1. node[a].phys = redis[a].phys /\ node[a].lease >= redis[a].lt /\ redis[a].lt \in Nat
    BY <1>2 DEF LeaseInv, RedisKept, LeaseEntry
  <2> QED BY <2>1, <1>4, <1>5, <1>6
<1>15. PeerKept'
  <2> SUFFICES ASSUME ~peer.renewed, peer.lease > now, NEW a \in DOMAIN peer.phys
               PROVE  /\ peer.phys[a] # 0
                      /\ node'[a].phys = peer.phys[a] /\ node'[a].lease >= peer.lease
    BY <1>1 DEF PeerKept
  <2>1. node[a].phys = peer.phys[a] /\ node[a].lease >= peer.lease /\ peer.phys[a] # 0
    BY DEF LeaseInv, PeerKept
  <2> QED BY <2>1, <1>2, <1>4, <1>5, <1>6
<1> QED BY <1>7, <1>8, <1>9, <1>10, <1>11, <1>12, <1>13, <1>14, <1>15 DEF LeaseInv

(* The renewal in Redis promises no more than memory keeps.  The margin pays for
   the marks that have not reached the refresh thread: a mark that was too late for
   the report of the previous round was made less than two periods ago. *)
LEMMA RenewRedisKeeps ==
  ASSUME LeaseInv, LeaseMargin, RenewRedis PROVE LeaseInv'
<1> USE LeaseConstants
<1>1. /\ UNCHANGED << now, node, free, evicting, new_block_queue, about_queue,
                      normal_block_hashes, peer >>
      /\ redis' = [h \in Hashes |-> IF h \in normal_block_hashes
                     THEN [redis[h] EXCEPT !.lt = refresher.new_lt] ELSE redis[h]]
      /\ next_renew' = now + RenewEvery
      /\ refresher' = [phase |-> "delete", new_lt |-> 0]
      /\ refresher.phase = "redis"
  BY DEF RenewRedis, ownerVars, queueVars, At
<1>2. now \in Nat /\ next_renew \in Nat /\ now = next_renew /\ node \in [Hashes -> LeaseNode]
      /\ normal_block_hashes \subseteq Hashes /\ redis \in [Hashes -> LeaseEntry]
      /\ refresher.new_lt = now + LeaseTTL
  BY <1>1 DEF LeaseInv, LeaseTypeOK, RenewalsOnTime
<1>3. redis' \in [Hashes -> LeaseEntry]
  <2> DEFINE l == refresher.new_lt
  <2>1. l \in Nat
    BY <1>2
  <2>2. redis' = [h \in Hashes |-> IF h \in normal_block_hashes
                    THEN [redis[h] EXCEPT !.lt = l] ELSE redis[h]]
    BY <1>1
  <2> HIDE DEF l
  <2>3. \A h \in Hashes : [redis[h] EXCEPT !.lt = l] \in LeaseEntry
    BY <2>1, <1>2 DEF LeaseEntry
  <2> QED BY <2>2, <2>3, <1>2
<1>4. \A h \in Hashes :
        /\ redis'[h].phys = redis[h].phys
        /\ h \in normal_block_hashes => redis'[h].lt = now + LeaseTTL
        /\ h \notin normal_block_hashes => redis'[h].lt = redis[h].lt
  BY <1>1, <1>2 DEF LeaseEntry
<1>5. \A h \in normal_block_hashes : node[h].lease >= now + LeaseTTL
  <2> SUFFICES ASSUME NEW h \in normal_block_hashes PROVE node[h].lease >= now + LeaseTTL
    OBVIOUS
  <2>1. h \in Hashes /\ node[h].lease \in Nat
    BY <1>2 DEF LeaseNode
  <2>2. node[h].state = "normal" \/ MarkComing(h)
    BY DEF LeaseInv, NormalKept
  <2>3. CASE node[h].state = "normal"
    <3>1. node[h].lease >= LastRenewal + LeaseTTL + SafetyTTL /\ LastRenewal = now
      BY <2>1, <2>3, <1>1, <1>2 DEF LeaseInv, LeasesRenewed, LastRenewal
    <3> QED BY <3>1, <2>1, <1>2
  <2>4. CASE MarkComing(h)
    BY <2>1, <2>4, <1>1, <1>2 DEF MarkComing, MarkedSince, LeaseMargin
  <2> QED BY <2>2, <2>3, <2>4
<1>6. LeaseTypeOK'
  <2>1. next_renew' \in Nat
    BY <1>1, <1>2
  <2>2. refresher' \in [phase : {"delete", "about", "publish", "renew", "redis"}, new_lt : Nat]
    BY <1>1
  <2> QED BY <2>1, <2>2, <1>1, <1>3 DEF LeaseInv, LeaseTypeOK
<1>7. RenewalsOnTime'
  BY <1>1, <1>2 DEF RenewalsOnTime
<1>8. LeasePath' /\ EvictedApart' /\ PeerKept'
  BY <1>1 DEF LeaseInv, LeasePath, Held, EvictedApart, PeerKept
<1>9. LeasesRenewed'
  <2>1. LastRenewal' = LastRenewal
    BY <1>1, <1>2 DEF LastRenewal
  <2> QED BY <2>1, <1>1 DEF LeaseInv, LeasesRenewed
<1>10. NormalKept'
  <2> SUFFICES ASSUME NEW a \in normal_block_hashes
               PROVE  /\ node[a].phys # 0
                      /\ node[a].state = "normal" \/ MarkComing(a)'
                      /\ redis'[a].phys # 0 => redis'[a].phys = node[a].phys
    BY <1>1 DEF NormalKept
  <2>1. MarkedSince' = MarkedSince
    BY <1>1, <1>2 DEF MarkedSince
  <2>2. MarkComing(a) => MarkComing(a)'
    BY <2>1, <1>1 DEF MarkComing
  <2> QED BY <2>2, <1>2, <1>4 DEF LeaseInv, NormalKept
<1>11. PublishedAsKept'
  BY <1>1 DEF LeaseInv, PublishedAsKept, QueuedAsKept
<1>12. RedisKept'
  <2> SUFFICES ASSUME NEW a \in Hashes, redis'[a].phys # 0, redis'[a].lt > now
               PROVE  node[a].phys = redis'[a].phys /\ node[a].lease >= redis'[a].lt
    BY <1>1 DEF RedisKept
  <2>1. CASE a \in normal_block_hashes
    BY <2>1, <1>4, <1>5 DEF LeaseInv, NormalKept
  <2>2. CASE a \notin normal_block_hashes
    BY <2>2, <1>4 DEF LeaseInv, RedisKept
  <2> QED BY <2>1, <2>2
<1> QED BY <1>6, <1>7, <1>8, <1>9, <1>10, <1>11, <1>12 DEF LeaseInv

(* The least of some leases is one of them. *)
LEMMA LeastLease ==
  ASSUME NEW S \in SUBSET Nat, S # {}
  PROVE  Least(S) \in S /\ \A y \in S : Least(S) <= y
<1>1. \E x \in S : \A y \in S : ~ (<< y, x >> \in OpToRel(<, Nat))
  BY WFMin, NatLessThanWellFounded
<1>2. \A x, y \in S : y < x => << y, x >> \in OpToRel(<, Nat)
  <2> TAKE x, y \in S
  <2> HAVE y < x
  <2> DEFINE q == << y, x >>
  <2>1. q \in Nat \X Nat /\ q[1] = y /\ q[2] = x
    OBVIOUS
  <2>2. q[1] < q[2]
    BY <2>1
  <2> HIDE DEF q
  <2>3. q \in OpToRel(<, Nat)
    BY <2>1, <2>2, Zenon DEF OpToRel
  <2> QED BY <2>3 DEF q
<1>3. \E x \in S : \A y \in S : x <= y
  <2>1. \E x \in S : \A y \in S : ~ (y < x)
    BY <1>1, <1>2, Zenon
  <2>2. \A x, y \in S : ~ (y < x) => x <= y
    OBVIOUS
  <2> QED BY <2>1, <2>2
<1> QED BY <1>3, Zenon DEF Least

(* The copy of a path runs no longer than the shortest lease on it. *)
LEMMA PeerRebuildKeeps ==
  ASSUME LeaseInv, PeerRebuild PROVE LeaseInv'
<1> USE LeaseConstants
<1>1. UNCHANGED << now, node, free, evicting, new_block_queue, about_queue,
                   normal_block_hashes, refresher, next_renew, redis >>
  BY DEF PeerRebuild, ownerVars, queueVars, workVars
<1>2. redis \in [Hashes -> LeaseEntry] /\ node \in [Hashes -> LeaseNode] /\ now \in Nat
  BY DEF LeaseInv, LeaseTypeOK
<1> DEFINE lts == {redis[h].lt : h \in Prefix}
<1>3. Prefix \subseteq Hashes /\ \A h \in Prefix : redis[h].phys # 0 /\ redis[h].lt \in Nat
  <2>1. \A h \in Prefix : h \in Hashes /\ IsWhole(redis[h])
    BY DEF Prefix
  <2> QED BY <2>1, <1>2 DEF LeaseEntry, IsWhole
<1>4. Prefix # {} => Least(lts) \in Nat /\ \A h \in Prefix : Least(lts) <= redis[h].lt
  <2> SUFFICES ASSUME Prefix # {}
               PROVE  Least(lts) \in Nat /\ \A h \in Prefix : Least(lts) <= redis[h].lt
    OBVIOUS
  <2>1. lts \in SUBSET Nat /\ lts # {}
    BY <1>3
  <2> HIDE DEF lts
  <2>2. Least(lts) \in lts /\ \A y \in lts : Least(lts) <= y
    BY <2>1, LeastLease
  <2> QED BY <2>1, <2>2 DEF lts
<1>5. /\ peer'.phys = [h \in Prefix |-> redis[h].phys]
      /\ peer'.lease = IF Prefix = {} THEN 0 ELSE Least(lts)
      /\ peer'.renewed = FALSE
  BY DEF PeerRebuild
<1> HIDE DEF lts
<1>6. LeaseTypeOK'
  <2>1. (IF Prefix = {} THEN 0 ELSE Least(lts)) \in Nat
    BY <1>4
  <2>2. [h \in Prefix |-> redis[h].phys] \in [Prefix -> Nat]
    BY <1>2, <1>3 DEF LeaseEntry
  <2>3. [h \in Prefix |-> redis[h].phys] \in UNION {[D -> Nat] : D \in SUBSET Hashes}
    BY <1>3, <2>2, Zenon
  <2>4. peer' \in [phys : UNION {[D -> Nat] : D \in SUBSET Hashes}, lease : Nat,
                   queued : BOOLEAN, renewed : BOOLEAN]
    BY <2>1, <2>3 DEF PeerRebuild, lts
  <2> QED BY <2>4, <1>1 DEF LeaseInv, LeaseTypeOK
<1>7. RenewalsOnTime' /\ LeasePath' /\ LeasesRenewed' /\ EvictedApart' /\ RedisKept'
  BY <1>1 DEF LeaseInv, RenewalsOnTime, LeasePath, Held, LeasesRenewed, LastRenewal,
              EvictedApart, RedisKept
<1>8. NormalKept' /\ PublishedAsKept'
  BY <1>1 DEF LeaseInv, NormalKept, MarkComing, MarkedSince, PublishedAsKept, QueuedAsKept
<1>9. PeerKept'
  <2> SUFFICES ASSUME peer'.lease > now, NEW a \in DOMAIN peer'.phys
               PROVE  /\ peer'.phys[a] # 0
                      /\ node[a].phys = peer'.phys[a] /\ node[a].lease >= peer'.lease
    BY <1>1 DEF PeerKept
  <2>1. a \in Prefix /\ peer'.phys[a] = redis[a].phys /\ peer'.lease = Least(lts)
    BY <1>5
  <2>2. Least(lts) \in Nat /\ Least(lts) <= redis[a].lt /\ redis[a].lt \in Nat /\ a \in Hashes
        /\ redis[a].phys # 0
    BY <2>1, <1>3, <1>4
  <2>3. redis[a].lt > now
    BY <2>1, <2>2, <1>2
  <2>4. node[a].phys = redis[a].phys /\ node[a].lease >= redis[a].lt /\ node[a].lease \in Nat
    BY <2>2, <2>3, <1>2 DEF LeaseInv, RedisKept, LeaseNode
  <2> QED BY <2>1, <2>2, <2>4
<1> QED BY <1>6, <1>7, <1>8, <1>9 DEF LeaseInv

(* A lease that is fetched again is marked as such. *)
LEMMA PeerMatchKeeps ==
  ASSUME LeaseInv, PeerMatch \/ PeerRenew PROVE LeaseInv'
<1> USE LeaseConstants
<1>1. UNCHANGED << now, node, free, evicting, new_block_queue, about_queue,
                   normal_block_hashes, refresher, next_renew, redis >>
  BY DEF PeerMatch, PeerRenew, ownerVars, queueVars, workVars
<1>2. peer \in [phys : UNION {[D -> Nat] : D \in SUBSET Hashes}, lease : Nat,
               queued : BOOLEAN, renewed : BOOLEAN]
  BY DEF LeaseInv, LeaseTypeOK
<1>3. /\ peer' \in [phys : UNION {[D -> Nat] : D \in SUBSET Hashes}, lease : Nat,
                    queued : BOOLEAN, renewed : BOOLEAN]
      /\ peer'.phys = peer.phys
      /\ peer'.renewed \/ peer'.lease = peer.lease
      /\ peer.renewed => peer'.renewed
  <2>1. CASE PeerMatch
    BY <2>1, <1>2 DEF PeerMatch
  <2>2. CASE PeerRenew
    <3> DEFINE seen == {h \in DOMAIN peer.phys : redis[h].lt # 0 /\ redis[h].state = "normal"}
               lts == {redis[h].lt : h \in seen}
               l == Least(lts)
    <3>1. peer' = IF seen = {} THEN [peer EXCEPT !.queued = FALSE]
                  ELSE [peer EXCEPT !.lease = l, !.queued = FALSE, !.renewed = TRUE]
      BY <2>2 DEF PeerRenew
    <3>2. seen # {} => l \in Nat
      <4> SUFFICES ASSUME seen # {} PROVE l \in Nat
        OBVIOUS
      <4>1. seen \subseteq Hashes /\ redis \in [Hashes -> LeaseEntry]
        BY PeerFields DEF LeaseInv, LeaseTypeOK
      <4>2. lts \in SUBSET Nat /\ lts # {}
        BY <4>1 DEF LeaseEntry
      <4> HIDE DEF lts
      <4> QED BY <4>2, LeastLease
    <3> HIDE DEF l, seen
    <3> QED BY <3>1, <3>2, <1>2
  <2> QED BY <2>1, <2>2
<1>6. LeaseTypeOK'
  BY <1>1, <1>3 DEF LeaseInv, LeaseTypeOK
<1>7. RenewalsOnTime' /\ LeasePath' /\ LeasesRenewed' /\ EvictedApart' /\ RedisKept'
  BY <1>1 DEF LeaseInv, RenewalsOnTime, LeasePath, Held, LeasesRenewed, LastRenewal,
              EvictedApart, RedisKept
<1>8. NormalKept' /\ PublishedAsKept'
  BY <1>1 DEF LeaseInv, NormalKept, MarkComing, MarkedSince, PublishedAsKept, QueuedAsKept
<1>9. PeerKept'
  BY <1>1, <1>3 DEF LeaseInv, PeerKept
<1> QED BY <1>6, <1>7, <1>8, <1>9 DEF LeaseInv

(* The clock does not pass a renewal that is due. *)
LEMMA TickKeeps ==
  ASSUME LeaseInv, LeaseTick PROVE LeaseInv'
<1> USE LeaseConstants
<1>1. UNCHANGED << node, free, evicting, new_block_queue, about_queue, normal_block_hashes,
                   refresher, next_renew, redis, peer >>
  BY DEF LeaseTick, ownerVars, queueVars, workVars
<1>2. now' = now + 1 /\ now < next_renew /\ ~evicting.busy
  BY DEF LeaseTick
<1>3. now \in Nat /\ next_renew \in Nat /\ node \in [Hashes -> LeaseNode]
      /\ redis \in [Hashes -> LeaseEntry] /\ peer.lease \in Nat
      /\ DOMAIN peer.phys \subseteq Hashes /\ normal_block_hashes \subseteq Hashes
  BY PeerFields DEF LeaseInv, LeaseTypeOK
<1>4. \A h \in Hashes : node[h].lease \in Nat /\ redis[h].lt \in Nat
  BY <1>3 DEF LeaseNode, LeaseEntry
<1>5. evicting.about = {}
  BY <1>2 DEF LeaseInv, EvictedApart, NoEviction
<1>6. LeaseTypeOK'
  BY <1>1, <1>2, <1>3 DEF LeaseInv, LeaseTypeOK
<1>7. RenewalsOnTime'
  BY <1>1, <1>2, <1>3 DEF LeaseInv, RenewalsOnTime
<1>8. LeasePath' /\ EvictedApart'
  BY <1>1 DEF LeaseInv, LeasePath, Held, EvictedApart
<1>9. LeasesRenewed'
  <2>1. LastRenewal' = LastRenewal
    BY <1>1 DEF LastRenewal
  <2> SUFFICES ASSUME NEW a \in Hashes
               PROVE  /\ node[a].lease <= now + 1 + LeaseTTL + SafetyTTL
                      /\ node[a].lease # 0 => node[a].lease >= SafetyTTL
                      /\ node[a].state = "normal" =>
                           node[a].phys # 0 /\ node[a].lease >= LastRenewal + LeaseTTL + SafetyTTL
    BY <1>1, <1>2, <2>1 DEF LeasesRenewed
  <2>2. node[a].lease <= now + LeaseTTL + SafetyTTL
    BY DEF LeaseInv, LeasesRenewed
  <2>3. node[a].lease <= now + 1 + LeaseTTL + SafetyTTL
    BY <2>2, <1>3, <1>4
  <2> QED BY <2>3 DEF LeaseInv, LeasesRenewed
<1>10. NormalKept'
  <2> SUFFICES ASSUME NEW a \in normal_block_hashes, MarkComing(a) PROVE MarkComing(a)'
    BY <1>1 DEF LeaseInv, NormalKept
  <2> QED BY <1>1, <1>5 DEF MarkComing, MarkedSince
<1>11. PublishedAsKept'
  BY <1>1 DEF LeaseInv, PublishedAsKept, QueuedAsKept
<1>12. RedisKept'
  <2>1. \A h \in Hashes : redis[h].lt > now' => redis[h].lt > now
    BY <1>2, <1>3, <1>4
  <2> QED BY <2>1, <1>1 DEF LeaseInv, RedisKept
<1>13. PeerKept'
  <2>1. peer.lease > now' => peer.lease > now
    BY <1>2, <1>3
  <2> QED BY <2>1, <1>1 DEF LeaseInv, PeerKept
<1> QED BY <1>6, <1>7, <1>8, <1>9, <1>10, <1>11, <1>12, <1>13 DEF LeaseInv

(* A step that changes nothing keeps the invariant. *)
LEMMA LeaseStutters ==
  ASSUME LeaseInv, UNCHANGED leaseVars PROVE LeaseInv'
<1>1. UNCHANGED << now, node, free, evicting, new_block_queue, about_queue,
                   normal_block_hashes, refresher, next_renew, redis, peer >>
  BY DEF leaseVars, ownerVars, queueVars, workVars
<1>2. LeaseTypeOK' /\ RenewalsOnTime' /\ LeasePath' /\ LeasesRenewed'
  BY <1>1 DEF LeaseInv, LeaseTypeOK, RenewalsOnTime, LeasePath, Held, LeasesRenewed, LastRenewal
<1>3. NormalKept' /\ PublishedAsKept' /\ EvictedApart' /\ RedisKept' /\ PeerKept'
  BY <1>1 DEF LeaseInv, NormalKept, MarkComing, MarkedSince, PublishedAsKept, QueuedAsKept,
              EvictedApart, RedisKept, PeerKept
<1> QED BY <1>2, <1>3 DEF LeaseInv

(* Every step keeps it. *)
LEMMA LeaseStep ==
  ASSUME LeaseInv, LeaseMargin, [LeaseNext]_leaseVars PROVE LeaseInv'
BY InsertKeeps, CompleteKeeps, EvictKeeps, EvictDoneKeeps, ReportEvictedKeeps,
   ReportAboutKeeps, ReportNewKeeps, ReportNextKeeps, RenewMemoryKeeps, RenewRedisKeeps,
   PeerRebuildKeeps, PeerMatchKeeps, TickKeeps, LeaseStutters DEF LeaseNext

(* The promise of publish_single_node's safety margin holds whatever the lease
   time, the size of the tier and the length of the run, when the margin is at least
   two renewal periods and what is published leaves the queue before the next
   eviction.  A mark can miss the report of the round in which Redis is renewed, and
   be older than that round by another period: two periods are the least margin that
   pays for it, and neither hypothesis can be dropped (the run lease_overrun). *)
THEOREM LeasesCover ==
  ASSUME LeaseMargin
  PROVE  LeaseSpec => []LeaseCovers
<1>1. LeaseInit => LeaseInv
  BY LeaseStarts
<1>2. LeaseInv /\ [LeaseNext]_leaseVars => LeaseInv'
  BY LeaseStep
<1>3. LeaseInv => LeaseCovers
  BY LeaseCoverFollows
<1> QED BY <1>1, <1>2, <1>3, PTL DEF LeaseSpec
=============================================================================
