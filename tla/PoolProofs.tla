----------------------------- MODULE PoolProofs -----------------------------
(***************************************************************************)
(* Proofs about the two pools the rest of the system takes from: the block *)
(* account of a tier (Mempool), for every capacity and every set of        *)
(* holders, and the block ids shared with the workers (SharedOpPool), for  *)
(* every number of slots and jobs and every way jobs share their arrays;   *)
(* and about the ops the workers then run for a batch (BatchGraph), for    *)
(* every configuration and every batch of gets or of puts.                 *)
(***************************************************************************)
EXTENDS Mempool, SharedOpPool, BatchGraph, FiniteSetTheorems, TLAPS

-----------------------------------------------------------------------------
(* Mempool. *)

(* The account is consistent: the inductive invariant behind every result
   of this module. *)
Account == MemTypeOK /\ NumFreeExact /\ SnapshotIsFree /\ SoleOwner

(* A pool has finitely many blocks, so every set of blocks can be counted. *)
LEMMA BlocksFinite ==
  /\ IsFiniteSet(Blocks)
  /\ Cardinality(Blocks) = num_total_blocks
BY FS_Interval, MempoolAssumption DEF Blocks

(* Handing out members of a set of blocks lowers its count by theirs. *)
LEMMA CountOut ==
  ASSUME NEW S \in SUBSET Blocks, NEW T \in SUBSET S
  PROVE  Cardinality(S \ T) = Cardinality(S) - Cardinality(T)
<1>1. IsFiniteSet(S) BY BlocksFinite, FS_Subset
<1>2. S \cap T = T OBVIOUS
<1> QED BY <1>1, <1>2, FS_Difference

(* Taking back blocks that were not members raises the count by theirs. *)
LEMMA CountIn ==
  ASSUME NEW S \in SUBSET Blocks, NEW T \in SUBSET Blocks, S \cap T = {}
  PROVE  Cardinality(S \cup T) = Cardinality(S) + Cardinality(T)
<1>1. IsFiniteSet(S) /\ IsFiniteSet(T) BY BlocksFinite, FS_Subset
<1>2. Cardinality(S) \in Nat /\ Cardinality(T) \in Nat
  BY <1>1, FS_CardinalityType
<1>3. Cardinality(S \cap T) = 0 BY FS_EmptySet
<1>4. Cardinality(S \cup T)
        = Cardinality(S) + Cardinality(T) - Cardinality(S \cap T)
  BY <1>1, FS_Union
<1> QED BY <1>2, <1>3, <1>4

(* Mempool.__init__ sets up a consistent account. *)
LEMMA AccountInit == MemInit => Account
<1> SUFFICES ASSUME MemInit PROVE Account OBVIOUS
<1> QED
  BY BlocksFinite, MempoolAssumption
  DEF MemInit, Account, MemTypeOK, NumFreeExact, SnapshotIsFree, SoleOwner

(* Every call of the pool keeps the account consistent. *)
LEMMA AccountStep == Account /\ [MemNext]_memVars => Account'
<1> SUFFICES ASSUME Account, [MemNext]_memVars PROVE Account' OBVIOUS
<1> USE DEF Account
<1>1. ASSUME NEW h \in Holders, NEW num \in 0 .. num_total_blocks,
             allocate_blocks(h, num)
      PROVE  Account'
  <2>1. PICK got \in SUBSET Blocks :
          /\ IsSlice(got, Snapshot(num), num)
          /\ free_ids' = Snapshot(num) \ got
          /\ free_mask' = free_mask \ got
          /\ num_free' = num_free - num
          /\ lent' = [lent EXCEPT ![h] = @ \cup got]
    BY <1>1 DEF allocate_blocks
  <2>2. got \subseteq free_mask /\ Cardinality(got) = num
    BY <2>1 DEF IsSlice, Snapshot, SnapshotIsFree
  <2>3. MemTypeOK' BY <2>1 DEF MemTypeOK, Snapshot
  <2>4. NumFreeExact' BY <2>1, <2>2, CountOut DEF MemTypeOK, NumFreeExact
  <2>5. SnapshotIsFree' BY <2>1 DEF SnapshotIsFree, Snapshot
  <2>6. SoleOwner' BY <2>1, <2>2 DEF SoleOwner, MemTypeOK
  <2> QED BY <2>3, <2>4, <2>5, <2>6
<1>2. ASSUME NEW h \in Holders, NEW ids \in SUBSET lent[h],
             recycle_blocks(h, ids)
      PROVE  Account'
  <2>1. ids \subseteq Blocks BY DEF MemTypeOK
  <2>3. MemTypeOK'
    <3>1. Cardinality(ids) \in Nat
      BY <2>1, BlocksFinite, FS_Subset, FS_CardinalityType
    <3> QED BY <1>2, <2>1, <3>1 DEF recycle_blocks, MemTypeOK
  <2>4. NumFreeExact'
    BY <1>2, <2>1, CountIn DEF recycle_blocks, MemTypeOK, NumFreeExact
  <2>5. SnapshotIsFree' BY <1>2 DEF recycle_blocks, SnapshotIsFree
  <2>6. SoleOwner' BY <1>2, <2>1 DEF recycle_blocks, SoleOwner, MemTypeOK
  <2> QED BY <2>3, <2>4, <2>5, <2>6
<1>3. CASE reset
  BY <1>3, BlocksFinite, MempoolAssumption
  DEF reset, MemTypeOK, NumFreeExact, SnapshotIsFree, SoleOwner
<1>4. CASE UNCHANGED memVars
  BY <1>4 DEF memVars, MemTypeOK, NumFreeExact, SnapshotIsFree, SoleOwner
<1> QED BY <1>1, <1>2, <1>3, <1>4 DEF MemNext

(* After any history of reset, allocate_blocks and recycle_blocks calls the
   cached counter is the population of the mask, the stale snapshot holds
   only free blocks, and every block is free or has one holder. *)
THEOREM AccountCorrect == MemSpec => []Account
BY AccountInit, AccountStep, PTL DEF MemSpec

(* No block is ever held twice or lost: the part of the account that the
   users of the pool rely on. *)
THEOREM SoleOwnerAlways == MemSpec => []SoleOwner
BY AccountCorrect, PTL DEF Account

(* The mask, the counter and the lazily refreshed snapshot of Mempool
   implement the abstract block pool. *)
THEOREM MempoolImplementsPool == MemSpec => PoolSpec
<1>1. MemInit => Pool!PoolInit BY DEF MemInit, Pool!PoolInit
<1>2. Account /\ [MemNext]_memVars => [Pool!PoolNext]_lent
  <2> SUFFICES ASSUME Account, [MemNext]_memVars PROVE [Pool!PoolNext]_lent
    OBVIOUS
  <2> USE DEF Account
  <2>1. ASSUME NEW h \in Holders, NEW num \in 0 .. num_total_blocks,
               allocate_blocks(h, num)
        PROVE  Pool!PoolNext
    <3>1. PICK got \in SUBSET Blocks :
            /\ IsSlice(got, Snapshot(num), num)
            /\ lent' = [lent EXCEPT ![h] = @ \cup got]
      BY <2>1 DEF allocate_blocks
    <3>2. got \subseteq free_mask
      BY <3>1 DEF IsSlice, Snapshot, SnapshotIsFree
    <3>3. Pool!Lend(h, got) BY <3>1, <3>2 DEF Pool!Lend, SoleOwner
    <3> QED BY <3>3 DEF Pool!PoolNext
  <2>2. ASSUME NEW h \in Holders, NEW ids \in SUBSET lent[h],
               recycle_blocks(h, ids)
        PROVE  Pool!PoolNext
    <3>1. ids \in SUBSET Blocks BY DEF MemTypeOK
    <3>2. Pool!GiveBack(h, ids) BY <2>2 DEF recycle_blocks, Pool!GiveBack
    <3> QED BY <3>1, <3>2 DEF Pool!PoolNext
  <2>3. CASE reset BY <2>3 DEF reset, Pool!PoolNext, Pool!ResetAll
  <2>4. CASE UNCHANGED memVars BY <2>4 DEF memVars
  <2> QED BY <2>1, <2>2, <2>3, <2>4 DEF MemNext
<1> QED
  BY <1>1, <1>2, AccountCorrect, PTL DEF MemSpec, PoolSpec, Pool!PoolSpec

-----------------------------------------------------------------------------
(* SharedOpPool. *)

(* A slot that is held is filled with its holder's ids, and the map leads from
   those ids to it: free_slot never meets an unmapped key. *)
KeyMapped ==
  \A j \in Jobs, s \in Sides : Holds(j, s) =>
    /\ slot_id[j][s] \in Slots
    /\ slot_hashes[slot_id[j][s]] = key[j][s]
    /\ buffer[slot_id[j][s]] = key[j][s]
    /\ slot_map[key[j][s]] = slot_id[j][s]

(* A slot in the map is not free and is filled with the ids it is mapped from. *)
MapFilled ==
  \A k \in Keys : slot_map[k] # NoSlot =>
    /\ slot_map[k] \notin free_slots
    /\ slot_hashes[slot_map[k]] = k
    /\ buffer[slot_map[k]] = k

(* A side is registered once, and both sides before the job is sent. *)
InPhase ==
  \A j \in Jobs :
    /\ phase[j] = "sent" => sides[j] = Sides
    /\ \A s \in Sides :
         phase[j] = "new" /\ s \in sides[j] => slot_id[j][s] = NoSlot

PoolInv == OpTypeOK /\ RefCountExact /\ KeyMapped /\ MapFilled /\ InPhase

(* The references to a slot can be counted. *)
LEMMA ReferencesFinite ==
  ASSUME NEW slot PROVE IsFiniteSet(References(slot))
<1>1. IsFiniteSet(Sides)
  <2>1. IsFiniteSet({"src"}) BY FS_Singleton
  <2>2. Sides = {"src"} \cup {"dst"} BY DEF Sides
  <2> QED BY <2>1, <2>2, FS_AddElement
<1>2. IsFiniteSet(Jobs \X Sides) BY <1>1, FS_Product, PoolAssumption
<1>3. References(slot) \in SUBSET (Jobs \X Sides) BY DEF References
<1> QED BY <1>2, <1>3, FS_Subset

(* SharedOpPool.__init__: nothing is held. *)
LEMMA PoolInit == OpInit => PoolInv
<1> SUFFICES ASSUME OpInit PROVE PoolInv OBVIOUS
<1>1. OpTypeOK BY DEF OpInit, OpTypeOK
<1>2. \A j \in Jobs, s \in Sides : ~Holds(j, s) BY DEF OpInit, Holds
<1>3. \A slot : References(slot) = {} BY <1>2 DEF References
<1>4. RefCountExact BY <1>3, FS_EmptySet DEF RefCountExact, OpInit
<1>5. KeyMapped BY <1>2 DEF KeyMapped
<1>6. MapFilled BY DEF MapFilled, OpInit
<1>7. InPhase BY DEF InPhase, OpInit
<1> QED BY <1>1, <1>4, <1>5, <1>6, <1>7 DEF PoolInv

(* register_op_to_buffer touches no reference but the one it makes. *)
LEMMA RegisterHolds ==
  ASSUME PoolInv, NEW j \in Jobs, NEW s \in Sides,
         NEW slot \in Slots \cup {NoSlot}, register_op_to_buffer(j, s, slot)
  PROVE  /\ slot_id[j][s] = NoSlot
         /\ slot_id'[j][s] = slot
         /\ Holds(j, s)' <=> slot # NoSlot
         /\ \A i \in Jobs, r \in Sides : <<i, r>> # <<j, s>> =>
              /\ slot_id'[i][r] = slot_id[i][r]
              /\ Holds(i, r)' <=> Holds(i, r)
<1> USE DEF PoolInv
<1>1. phase[j] = "new" /\ s \in sides[j]
  BY DEF register_op_to_buffer, InTurn
<1>2. slot_id[j][s] = NoSlot BY <1>1 DEF InPhase
<1>3. slot_id'[j][s] = slot
  BY DEF register_op_to_buffer, OpTypeOK
<1>4. \A i \in Jobs, r \in Sides : <<i, r>> # <<j, s>> => slot_id'[i][r] = slot_id[i][r]
  BY DEF register_op_to_buffer, OpTypeOK
<1>5. phase'[j] # "reported" /\ phase[j] # "reported"
  BY <1>1 DEF register_op_to_buffer, OpTypeOK
<1>6. \A i \in Jobs : i # j => phase'[i] = phase[i] /\ sides'[i] = sides[i]
  BY DEF register_op_to_buffer, OpTypeOK
<1>7. Holds(j, s)' <=> slot # NoSlot BY <1>3, <1>5 DEF Holds
<1>8. \A i \in Jobs, r \in Sides : <<i, r>> # <<j, s>> => (Holds(i, r)' <=> Holds(i, r))
  BY <1>4, <1>5, <1>6 DEF Holds
<1> QED BY <1>2, <1>3, <1>4, <1>7, <1>8

(* The types and phases after a registration. *)
LEMMA RegisterTypes ==
  ASSUME PoolInv, NEW j \in Jobs, NEW s \in Sides,
         NEW slot \in Slots \cup {NoSlot}, register_op_to_buffer(j, s, slot)
  PROVE  OpTypeOK' /\ InPhase'
<1> USE DEF PoolInv
<1>0. key[j][s] \in Keys BY PoolAssumption
<1>1. /\ free_slots' \subseteq Slots
      /\ slot_map' \in [Keys -> Slots \cup {NoSlot}]
      /\ slot_ref_count' \in [Slots -> Nat]
      /\ slot_hashes' \in [Slots -> Keys]
      /\ buffer' \in [Slots -> Keys]
  <2>1. CASE NoneFor(key[j][s], slot) BY <2>1 DEF NoneFor, poolVars, OpTypeOK
  <2>2. CASE slot_map[key[j][s]] # NoSlot /\ Reuse(key[j][s], slot)
    BY <1>0, <2>2 DEF Reuse, OpTypeOK
  <2>3. CASE Fill(key[j][s], slot) BY <1>0, <2>3 DEF Fill, OpTypeOK
  <2> QED BY <2>1, <2>2, <2>3 DEF register_op_to_buffer, allocate_slot
<1>2. /\ slot_id' \in [Jobs -> [Sides -> Slots \cup {NoSlot}]]
      /\ phase' \in [Jobs -> {"new", "sent", "reported"}]
      /\ sides' \in [Jobs -> SUBSET Sides]
  BY DEF register_op_to_buffer, OpTypeOK
<1>3. InPhase'
  <2>1. ASSUME NEW i \in Jobs, i # j PROVE InPhase!(i)'
    BY <2>1 DEF register_op_to_buffer, OpTypeOK, InPhase
  <2>2. phase'[j] = "sent" => sides'[j] = Sides
    BY DEF register_op_to_buffer, OpTypeOK, InPhase
  <2>3. ASSUME NEW r \in Sides, phase'[j] = "new", r \in sides'[j]
        PROVE  slot_id'[j][r] = NoSlot
    <3>1. sides[j] # {s} /\ sides'[j] = sides[j] \ {s} /\ phase[j] = "new"
      BY <2>3 DEF register_op_to_buffer, OpTypeOK
    <3>2. r # s /\ r \in sides[j] BY <2>3, <3>1
    <3> QED BY <3>1, <3>2, RegisterHolds DEF InPhase
  <2> QED BY <2>1, <2>2, <2>3 DEF InPhase
<1> QED BY <1>1, <1>2, <1>3 DEF OpTypeOK

(* A registration that finds no slot. *)
LEMMA NoneStep ==
  ASSUME PoolInv, NEW j \in Jobs, NEW s \in Sides,
         NEW slot \in Slots \cup {NoSlot}, register_op_to_buffer(j, s, slot),
         NoneFor(key[j][s], slot)
  PROVE  RefCountExact' /\ KeyMapped' /\ MapFilled'
<1> USE DEF PoolInv
<1>1. slot = NoSlot /\ UNCHANGED poolVars BY DEF NoneFor
<1>2. \A i \in Jobs, r \in Sides :
        slot_id'[i][r] = slot_id[i][r] /\ (Holds(i, r)' <=> Holds(i, r))
  BY <1>1, RegisterHolds DEF Holds
<1>3. \A x : References(x)' = References(x) BY <1>2 DEF References
<1> QED BY <1>1, <1>2, <1>3 DEF poolVars, RefCountExact, KeyMapped, MapFilled

(* A registration that shares the slot its ids are already in. *)
LEMMA ReuseStep ==
  ASSUME PoolInv, NEW j \in Jobs, NEW s \in Sides,
         NEW slot \in Slots \cup {NoSlot}, register_op_to_buffer(j, s, slot),
         slot_map[key[j][s]] # NoSlot, Reuse(key[j][s], slot)
  PROVE  RefCountExact' /\ KeyMapped' /\ MapFilled'
<1> USE DEF PoolInv
<1> DEFINE k == key[j][s]
<1>0. k \in Keys BY PoolAssumption
<1>1. slot \in Slots /\ slot # NoSlot /\ slot = slot_map[k]
  BY <1>0 DEF Reuse, OpTypeOK
<1>2. slot \notin free_slots /\ slot_hashes[slot] = k /\ buffer[slot] = k
  BY <1>0, <1>1 DEF MapFilled
<1>3. /\ free_slots' = free_slots /\ slot_map' = slot_map /\ buffer' = buffer
      /\ slot_hashes' = slot_hashes
      /\ slot_ref_count' = [slot_ref_count EXCEPT ![slot] = @ + 1]
  BY <1>2 DEF Reuse, OpTypeOK
<1>4. References(slot)' = References(slot) \cup {<<j, s>>} /\ <<j, s>> \notin References(slot)
  BY <1>1, RegisterHolds DEF References, Holds
<1>5. \A x : x # slot => References(x)' = References(x)
  BY <1>1, RegisterHolds DEF References, Holds
<1>6. Cardinality(References(slot)') = Cardinality(References(slot)) + 1
  BY <1>4, ReferencesFinite, FS_AddElement
<1>7. RefCountExact'
  BY <1>1, <1>2, <1>3, <1>4, <1>5, <1>6, ZenonT(30) DEF RefCountExact, OpTypeOK
<1>8. KeyMapped' BY <1>1, <1>2, <1>3, RegisterHolds DEF KeyMapped
<1>9. MapFilled' BY <1>3 DEF MapFilled
<1> QED BY <1>7, <1>8, <1>9

(* A registration that fills a free slot. *)
LEMMA FillStep ==
  ASSUME PoolInv, NEW j \in Jobs, NEW s \in Sides,
         NEW slot \in Slots \cup {NoSlot}, register_op_to_buffer(j, s, slot),
         slot_map[key[j][s]] = NoSlot, Fill(key[j][s], slot)
  PROVE  RefCountExact' /\ KeyMapped' /\ MapFilled'
<1> USE DEF PoolInv
<1> DEFINE k == key[j][s]
<1>0. k \in Keys BY PoolAssumption
<1>1. slot \in Slots /\ slot # NoSlot /\ slot \in free_slots
  BY PoolAssumption DEF Fill, OpTypeOK, NoSlot
<1>2. References(slot) = {} /\ slot_ref_count[slot] = 0
  BY <1>1, FS_EmptySet DEF RefCountExact
<1>3. /\ free_slots' = free_slots \ {slot}
      /\ slot_map' = [slot_map EXCEPT ![k] = slot]
      /\ slot_ref_count' = [slot_ref_count EXCEPT ![slot] = @ + 1]
      /\ slot_hashes' = [slot_hashes EXCEPT ![slot] = k]
      /\ buffer' = [buffer EXCEPT ![slot] = k]
  BY DEF Fill
<1>4. References(slot)' = {<<j, s>>}
  BY <1>1, <1>2, RegisterHolds DEF References, Holds
<1>5. \A x : x # slot => References(x)' = References(x)
  BY <1>1, RegisterHolds DEF References, Holds
<1>6. Cardinality(References(slot)') = 1 BY <1>4, FS_Singleton
<1>7. RefCountExact'
  <2>1. slot_ref_count'[slot] = 1 /\ slot \notin free_slots' /\ References(slot)' # {}
    BY <1>1, <1>2, <1>3, <1>4 DEF OpTypeOK
  <2>2. ASSUME NEW x \in Slots, x # slot
        PROVE  slot_ref_count'[x] = slot_ref_count[x] /\ (x \in free_slots' <=> x \in free_slots)
    BY <1>3, <2>2 DEF OpTypeOK
  <2> QED BY <1>5, <1>6, <2>1, <2>2 DEF RefCountExact
<1>8. KeyMapped'
  <2> SUFFICES ASSUME NEW i \in Jobs, NEW r \in Sides, Holds(i, r)'
               PROVE  KeyMapped!(i, r)!2'
    BY DEF KeyMapped
  <2>1. CASE <<i, r>> = <<j, s>>
    BY <1>0, <1>1, <1>3, <2>1, RegisterHolds DEF OpTypeOK
  <2>2. CASE <<i, r>> # <<j, s>>
    <3>1. Holds(i, r) /\ slot_id'[i][r] = slot_id[i][r] BY <2>2, RegisterHolds
    <3>2. <<i, r>> \notin References(slot) BY <1>2
    <3>3. slot_id[i][r] # slot BY <3>1, <3>2 DEF References
    <3>4. slot_id[i][r] # NoSlot BY <3>1 DEF Holds
    <3>5. key[i][r] # k /\ key[i][r] \in Keys
      BY <3>1, <3>4, PoolAssumption DEF KeyMapped
    <3> QED BY <1>3, <3>1, <3>3, <3>5 DEF KeyMapped, OpTypeOK
  <2> QED BY <2>1, <2>2
<1>9. MapFilled'
  <2> SUFFICES ASSUME NEW q \in Keys, slot_map'[q] # NoSlot
               PROVE  MapFilled!(q)!2'
    BY DEF MapFilled
  <2>1. CASE q = k BY <1>0, <1>1, <1>3, <2>1 DEF OpTypeOK
  <2>2. CASE q # k
    <3>1. slot_map'[q] = slot_map[q] BY <1>3, <2>2 DEF OpTypeOK
    <3>2. slot_map[q] # slot /\ slot_map[q] \in Slots BY <1>1, <3>1 DEF MapFilled, OpTypeOK
    <3> QED BY <1>3, <3>1, <3>2 DEF MapFilled, OpTypeOK
  <2> QED BY <2>1, <2>2
<1> QED BY <1>7, <1>8, <1>9

(* The worker's report changes no reference. *)
LEMMA ReportStep ==
  ASSUME PoolInv, NEW j \in Jobs, Report(j)
  PROVE  PoolInv'
<1> USE DEF PoolInv
<1>1. \A i \in Jobs, r \in Sides : Holds(i, r)' <=> Holds(i, r)
  BY DEF Report, Holds, InPhase, OpTypeOK
<1>2. \A x : References(x)' = References(x) BY <1>1 DEF References, Report
<1>3. OpTypeOK' BY DEF Report, OpTypeOK, poolVars
<1>4. RefCountExact' BY <1>2 DEF Report, RefCountExact, poolVars
<1>5. KeyMapped' BY <1>1 DEF Report, KeyMapped, poolVars
<1>6. MapFilled' BY DEF Report, MapFilled, poolVars
<1>7. InPhase' BY DEF Report, InPhase, OpTypeOK, poolVars
<1> QED BY <1>3, <1>4, <1>5, <1>6, <1>7

(* free_op_from_buffer takes away the reference it frees and no other. *)
LEMMA FreeHolds ==
  ASSUME PoolInv, NEW j \in Jobs, NEW s \in Sides, free_op_from_buffer(j, s)
  PROVE  /\ ~Holds(j, s)'
         /\ Holds(j, s) <=> slot_id[j][s] # NoSlot
         /\ slot_id' = slot_id
         /\ \A i \in Jobs, r \in Sides :
              <<i, r>> # <<j, s>> => (Holds(i, r)' <=> Holds(i, r))
<1> USE DEF PoolInv
<1>1. /\ phase[j] = "reported" /\ s \in sides[j]
      /\ sides' = [sides EXCEPT ![j] = @ \ {s}]
      /\ slot_id' = slot_id /\ phase' = phase
  BY DEF free_op_from_buffer, InTurn
<1>2. s \notin sides'[j] BY <1>1 DEF OpTypeOK
<1>3. \A i \in Jobs, r \in Sides :
        <<i, r>> # <<j, s>> => (r \in sides'[i] <=> r \in sides[i])
  BY <1>1 DEF OpTypeOK
<1> QED BY <1>1, <1>2, <1>3 DEF Holds

(* The types and phases after a free. *)
LEMMA FreeTypes ==
  ASSUME PoolInv, NEW j \in Jobs, NEW s \in Sides, free_op_from_buffer(j, s)
  PROVE  OpTypeOK' /\ InPhase'
<1> USE DEF PoolInv
<1>1. /\ slot_id' \in [Jobs -> [Sides -> Slots \cup {NoSlot}]]
      /\ phase' \in [Jobs -> {"new", "sent", "reported"}]
      /\ sides' \in [Jobs -> SUBSET Sides]
  BY DEF free_op_from_buffer, OpTypeOK
<1>2. InPhase' BY DEF free_op_from_buffer, InPhase, OpTypeOK
<1>3. CASE slot_id[j][s] = NoSlot
  BY <1>1, <1>2, <1>3 DEF free_op_from_buffer, OpTypeOK, poolVars
<1>4. CASE slot_id[j][s] # NoSlot
  <2> DEFINE slot == slot_id[j][s]
  <2>1. slot \in Slots /\ free_slot(slot) /\ Holds(j, s)
    <3>1. slot \in Slots BY <1>4 DEF OpTypeOK
    <3>2. free_slot(slot) BY <1>4 DEF free_op_from_buffer
    <3>3. Holds(j, s) BY <1>4, FreeHolds
    <3> QED BY <3>1, <3>2, <3>3
  <2>2. <<j, s>> \in References(slot) BY <2>1 DEF References
  <2>3. slot_ref_count[slot] # 0 BY <2>1, <2>2, ReferencesFinite, FS_EmptySet DEF RefCountExact
  <2>4. slot_ref_count' \in [Slots -> Nat]
    <3>1. slot_ref_count' = [slot_ref_count EXCEPT ![slot] = @ - 1]
      BY <2>1 DEF free_slot
    <3>2. slot_ref_count[slot] \in Nat \ {0} BY <2>1, <2>3 DEF OpTypeOK
    <3>3. slot_ref_count[slot] - 1 \in Nat BY <3>2
    <3> QED BY <3>1, <3>3 DEF OpTypeOK
  <2>5. slot_hashes[slot] \in Keys BY <2>1 DEF OpTypeOK
  <2>6. free_slots' \subseteq Slots /\ slot_map' \in [Keys -> Slots \cup {NoSlot}]
    BY <2>1, <2>5 DEF free_slot, OpTypeOK
  <2> QED BY <1>1, <1>2, <2>1, <2>4, <2>6 DEF free_slot, OpTypeOK
<1> QED BY <1>3, <1>4

(* free_op_from_buffer keeps the counts, the map and the contents right. *)
LEMMA FreeStep ==
  ASSUME PoolInv, NEW j \in Jobs, NEW s \in Sides, free_op_from_buffer(j, s)
  PROVE  PoolInv'
<1> USE DEF PoolInv
<1> DEFINE slot == slot_id[j][s]
<1> DEFINE k == key[j][s]
<1>0. k \in Keys BY PoolAssumption
<1>1. CASE slot = NoSlot
  <2>1. UNCHANGED poolVars BY <1>1 DEF free_op_from_buffer
  <2>2. \A i \in Jobs, r \in Sides :
          slot_id'[i][r] = slot_id[i][r] /\ (Holds(i, r)' <=> Holds(i, r))
    BY <1>1, FreeHolds
  <2>3. \A x : References(x)' = References(x) BY <2>2 DEF References
  <2> QED
    BY <2>1, <2>2, <2>3, FreeTypes DEF poolVars, RefCountExact, KeyMapped, MapFilled
<1>2. CASE slot # NoSlot
  <2>1. slot \in Slots /\ free_slot(slot) /\ Holds(j, s)
    <3>1. slot \in Slots BY <1>2 DEF OpTypeOK
    <3>2. free_slot(slot) BY <1>2 DEF free_op_from_buffer
    <3>3. Holds(j, s) BY <1>2, FreeHolds
    <3> QED BY <3>1, <3>2, <3>3
  <2>2. slot_hashes[slot] = k /\ slot_map[k] = slot BY <2>1 DEF KeyMapped
  <2>3. References(slot)' = References(slot) \ {<<j, s>>} /\ <<j, s>> \in References(slot)
    BY <2>1, FreeHolds DEF References
  <2>4. \A x : x # slot => References(x)' = References(x)
    BY FreeHolds DEF References
  <2>5. Cardinality(References(slot)') = Cardinality(References(slot)) - 1
    BY <2>3, ReferencesFinite, FS_RemoveElement
  <2>6. slot_ref_count[slot] = Cardinality(References(slot)) /\ slot \notin free_slots
    BY <2>1, <2>3 DEF RefCountExact
  <2>7. slot_ref_count' = [slot_ref_count EXCEPT ![slot] = @ - 1]
    BY <2>1 DEF free_slot
  <2>8. slot_hashes' = slot_hashes /\ buffer' = buffer BY <2>1 DEF free_slot
  <2>9. IsFiniteSet(References(slot)') BY <2>3, ReferencesFinite, FS_RemoveElement
  <2>10. References(slot)' = {} <=> slot_ref_count[slot] = 1
    <3>1. Cardinality(References(slot)') = 0 <=> References(slot)' = {}
      BY <2>9, FS_EmptySet
    <3> QED BY <2>1, <2>5, <2>6, <3>1 DEF OpTypeOK
  <2>11. CASE slot_ref_count[slot] = 1
    <3>1. /\ free_slots' = free_slots \cup {slot}
          /\ slot_map' = [slot_map EXCEPT ![k] = NoSlot]
      BY <2>1, <2>2, <2>11 DEF free_slot, LastReference
    <3>2. RefCountExact'
      <4>1. slot_ref_count'[slot] = Cardinality(References(slot)')
        BY <2>1, <2>5, <2>6, <2>7 DEF OpTypeOK
      <4>2. ASSUME NEW x \in Slots, x # slot
            PROVE  slot_ref_count'[x] = slot_ref_count[x] /\ (x \in free_slots' <=> x \in free_slots)
        BY <2>7, <3>1, <4>2 DEF OpTypeOK
      <4> SUFFICES ASSUME NEW x \in Slots PROVE RefCountExact!(x)'
        BY DEF RefCountExact
      <4>3. CASE x = slot BY <2>10, <2>11, <3>1, <4>1, <4>3, FreeHolds
      <4>4. CASE x # slot BY <2>4, <4>2, <4>4 DEF RefCountExact
      <4> QED BY <4>3, <4>4
    <3>3. KeyMapped'
      <4> SUFFICES ASSUME NEW i \in Jobs, NEW r \in Sides, Holds(i, r)'
                   PROVE  KeyMapped!(i, r)!2'
        BY DEF KeyMapped
      <4>1. <<i, r>> # <<j, s>> /\ Holds(i, r) BY FreeHolds
      <4>2. <<i, r>> \notin References(slot) BY <2>3, <2>10, <2>11, <4>1
      <4>3. slot_id[i][r] # slot BY <4>1, <4>2 DEF References
      <4>4. key[i][r] # k /\ key[i][r] \in Keys
        BY <2>2, <4>1, <4>3, PoolAssumption DEF KeyMapped
      <4> QED BY <2>8, <3>1, <4>1, <4>4, FreeHolds DEF KeyMapped, OpTypeOK
    <3>4. MapFilled'
      <4> SUFFICES ASSUME NEW q \in Keys, slot_map'[q] # NoSlot
                   PROVE  MapFilled!(q)!2'
        BY DEF MapFilled
      <4>1. q # k /\ slot_map'[q] = slot_map[q] BY <1>0, <3>1 DEF OpTypeOK
      <4>2. slot_map[q] # slot BY <2>2, <4>1 DEF MapFilled
      <4> QED BY <2>8, <3>1, <4>1, <4>2 DEF MapFilled
    <3> QED BY <3>2, <3>3, <3>4, FreeTypes
  <2>12. CASE slot_ref_count[slot] # 1
    <3>1. free_slots' = free_slots /\ slot_map' = slot_map
      BY <2>1, <2>12 DEF free_slot, LastReference
    <3>2. RefCountExact'
      <4>1. slot_ref_count'[slot] = Cardinality(References(slot)')
        BY <2>1, <2>5, <2>6, <2>7 DEF OpTypeOK
      <4>2. ASSUME NEW x \in Slots, x # slot PROVE slot_ref_count'[x] = slot_ref_count[x]
        BY <2>7, <4>2 DEF OpTypeOK
      <4> SUFFICES ASSUME NEW x \in Slots PROVE RefCountExact!(x)'
        BY DEF RefCountExact
      <4>3. CASE x = slot BY <2>6, <2>10, <2>12, <3>1, <4>1, <4>3, FreeHolds
      <4>4. CASE x # slot BY <2>4, <3>1, <4>2, <4>4 DEF RefCountExact
      <4> QED BY <4>3, <4>4
    <3>3. KeyMapped' BY <2>8, <3>1, FreeHolds DEF KeyMapped
    <3>4. MapFilled' BY <2>8, <3>1 DEF MapFilled
    <3> QED BY <3>2, <3>3, <3>4, FreeTypes
  <2> QED BY <2>11, <2>12
<1> QED BY <1>1, <1>2

(* Every step of the scheduler thread and of the workers keeps PoolInv. *)
LEMMA PoolStep == PoolInv /\ [OpNext]_opVars => PoolInv'
<1> SUFFICES ASSUME PoolInv, [OpNext]_opVars PROVE PoolInv' OBVIOUS
<1>1. ASSUME NEW j \in Jobs, NEW s \in Sides, NEW slot \in Slots \cup {NoSlot},
             register_op_to_buffer(j, s, slot)
      PROVE  PoolInv'
  <2>1. OpTypeOK' /\ InPhase' BY <1>1, RegisterTypes
  <2>2. RefCountExact' /\ KeyMapped' /\ MapFilled'
    <3>1. \/ NoneFor(key[j][s], slot)
          \/ slot_map[key[j][s]] # NoSlot /\ Reuse(key[j][s], slot)
          \/ slot_map[key[j][s]] = NoSlot /\ Fill(key[j][s], slot)
      BY <1>1 DEF register_op_to_buffer, allocate_slot
    <3> QED BY <1>1, <3>1, NoneStep, ReuseStep, FillStep
  <2> QED BY <2>1, <2>2 DEF PoolInv
<1>2. CASE UNCHANGED opVars
  <2>1. \A x : References(x)' = References(x)
    BY <1>2 DEF opVars, poolVars, References, Holds
  <2> QED
    BY <1>2, <2>1 DEF opVars, poolVars, PoolInv, OpTypeOK, RefCountExact, KeyMapped,
                      MapFilled, InPhase, Holds
<1> QED BY <1>1, <1>2, ReportStep, FreeStep DEF OpNext

(* The pool is consistent in every reachable state. *)
THEOREM PoolAlways == OpSpec => []PoolInv
BY PoolInit, PoolStep, PTL DEF OpSpec

(* A worker that reads the slot of a job between the send and the report finds
   the ids of that job, whatever is registered and freed meanwhile. *)
THEOREM WorkersReadOwnIds == OpSpec => []ReadsOwnIds
<1>1. PoolInv => ReadsOwnIds
  BY DEF PoolInv, KeyMapped, Holds, ReadsOwnIds
<1> QED BY <1>1, PoolAlways, PTL

(* slot_ref_count is exact and no slot leaks. *)
THEOREM CountsExact == OpSpec => []RefCountExact
<1>1. PoolInv => RefCountExact BY DEF PoolInv
<1> QED BY <1>1, PoolAlways, PTL

-----------------------------------------------------------------------------
(* BatchGraph: the merge of the graphs of several tasks. *)

(* A batch as merge_to_batch_graph is given it. *)
BatchPlanned ==
  /\ config \in [layerwise : BOOLEAN, ssd : BOOLEAN, gds : BOOLEAN,
                 remote : {"none", "index", "store"}, swa : BOOLEAN]
  /\ member \in Batches

(* The types a configuration can plan in a lane, other than direct loads. *)
Plannable(c, k) ==
  /\ k[1] \in {"DISK2H", "H2DISK"} => c.ssd
  /\ k[1] \in {"REMOTE2H", "H2REMOTE"} => c.remote # "none"
  /\ k[2] = "swa" => c.swa

(* What Task leaves in moves. *)
LEMMA TaskKeys ==
  ASSUME NEW full, NEW swa, NEW calls
  PROVE  /\ DOMAIN Task(full, swa, calls).moves \subseteq (supported_types \cup GdsTypes) \X Lanes
         /\ \A k \in DOMAIN Task(full, swa, calls).moves :
              /\ k[2] = "full" => k[1] \in DOMAIN full /\ full[k[1]] # {}
              /\ k[2] # "full" => k[1] \in swa
<1> DEFINE all == [k \in (supported_types \cup GdsTypes) \X Lanes |->
                    IF k[2] = "full" THEN (IF k[1] \in DOMAIN full THEN full[k[1]] ELSE {})
                    ELSE IF k[1] \in swa THEN {1} ELSE {}]
           there == {k \in DOMAIN all : all[k] # {}}
<1>1. Task(full, swa, calls).moves = [k \in there |-> all[k]]
  BY DEF Task
<1>2. DOMAIN Task(full, swa, calls).moves = there
  BY <1>1
<1>3. DOMAIN all = (supported_types \cup GdsTypes) \X Lanes
  OBVIOUS
<1>4. ASSUME NEW k \in there
      PROVE  /\ k[2] = "full" => k[1] \in DOMAIN full /\ full[k[1]] # {}
             /\ k[2] # "full" => k[1] \in swa
  <2>1. k \in DOMAIN all /\ all[k] # {}
    OBVIOUS
  <2>2. all[k] = IF k[2] = "full" THEN (IF k[1] \in DOMAIN full THEN full[k[1]] ELSE {})
                 ELSE IF k[1] \in swa THEN {1} ELSE {}
    BY <2>1, <1>3
  <2> QED BY <2>1, <2>2
<1>5. there \subseteq (supported_types \cup GdsTypes) \X Lanes
  BY <1>3
<1> QED BY <1>2, <1>4, <1>5

(* A get plans what its configuration has. *)
LEMMA GetKeys ==
  ASSUME NEW c \in [layerwise : BOOLEAN, ssd : BOOLEAN, gds : BOOLEAN,
                    remote : {"none", "index", "store"}, swa : BOOLEAN],
         NEW t \in GetTasks(c), NEW k \in DOMAIN t.moves
  PROVE  k \in (supported_types \cup GdsTypes) \X Lanes /\ Plannable(c, k)
<1>1. PICK p \in GetPlans(c) : t = GetTask(c, p)
  BY DEF GetTasks
<1> DEFINE full == [DISK2H |-> IF c.gds THEN {} ELSE p.cpu + 1 .. p.disk,
                    DISK2D |-> IF c.gds THEN p.cpu + 1 .. p.disk ELSE {},
                    REMOTE2H |-> p.disk + 1 .. p.n,
                    H2DISK |-> IF p.back THEN p.disk + 1 .. p.n ELSE {},
                    H2D |-> 1 .. IF c.gds THEN p.cpu ELSE p.n]
           calls == {Key("H2D", "swa")} \cup
                      IF p.kept THEN {Key(x, "full") : x \in GetTypes \ {"H2D"}} ELSE {}
<1>2. t = Task(full, p.swa, calls)
  BY <1>1 DEF GetTask
<1>3. /\ p.n \in Nat /\ p.cpu \in Nat /\ p.disk \in Nat /\ p.swa \in GetChains(c)
      /\ p.disk > p.cpu => c.ssd
      /\ p.n > p.disk => c.remote # "none"
      /\ p.back => c.ssd
  BY BatchAssumption DEF GetPlans
<1>4. /\ full["DISK2H"] # {} => c.ssd
      /\ full["REMOTE2H"] # {} => c.remote # "none"
      /\ full["H2DISK"] # {} => c.ssd
  <2>1. full["DISK2H"] = IF c.gds THEN {} ELSE p.cpu + 1 .. p.disk
    OBVIOUS
  <2>2. full["REMOTE2H"] = p.disk + 1 .. p.n
    OBVIOUS
  <2>3. full["H2DISK"] = IF p.back THEN p.disk + 1 .. p.n ELSE {}
    OBVIOUS
  <2> HIDE DEF full
  <2> QED BY <2>1, <2>2, <2>3, <1>3
<1>5. DOMAIN full = {"DISK2H", "DISK2D", "REMOTE2H", "H2DISK", "H2D"}
  OBVIOUS
<1> HIDE DEF full, calls
<1>6. /\ k \in (supported_types \cup GdsTypes) \X Lanes
      /\ k[2] = "full" => k[1] \in DOMAIN full /\ full[k[1]] # {}
      /\ k[2] # "full" => k[1] \in p.swa
  BY <1>2, TaskKeys
<1>7. CASE k[2] = "full"
  BY <1>4, <1>5, <1>6, <1>7 DEF Plannable
<1>8. CASE k[2] # "full"
  <2>1. k[1] \in p.swa
    BY <1>6, <1>8
  <2>2. /\ c.swa
        /\ k[1] \in {"H2D", "DISK2H", "REMOTE2H"}
        /\ k[1] = "DISK2H" => c.ssd
        /\ k[1] = "REMOTE2H" => c.remote # "none"
    BY <2>1, <1>3 DEF GetChains
  <2> QED BY <2>2, <1>6 DEF Plannable
<1> QED BY <1>7, <1>8

(* And so does a put. *)
LEMMA PutKeys ==
  ASSUME NEW c \in [layerwise : BOOLEAN, ssd : BOOLEAN, gds : BOOLEAN,
                    remote : {"none", "index", "store"}, swa : BOOLEAN],
         NEW t \in PutTasks(c), NEW k \in DOMAIN t.moves
  PROVE  k \in (supported_types \cup GdsTypes) \X Lanes /\ Plannable(c, k)
<1>1. PICK p \in PutPlans(c) : t = PutTask(c, p)
  BY DEF PutTasks
<1> DEFINE full == [D2H |-> p.cpu + 1 .. MaxBlocks,
                    H2DISK |-> IF c.ssd THEN p.disk + 1 .. MaxBlocks ELSE {},
                    H2REMOTE |-> IF c.remote = "none" THEN {} ELSE p.remote + 1 .. MaxBlocks]
           calls == IF c.remote = "store" THEN {} ELSE PutTypes \X Lanes
<1>2. t = Task(full, p.swa, calls)
  BY <1>1 DEF PutTask
<1>3. p.swa \in PutChains(c)
  BY DEF PutPlans
<1>4. /\ full["H2DISK"] # {} => c.ssd
      /\ full["H2REMOTE"] # {} => c.remote # "none"
      /\ DOMAIN full = {"D2H", "H2DISK", "H2REMOTE"}
  OBVIOUS
<1> HIDE DEF full, calls
<1>6. /\ k \in (supported_types \cup GdsTypes) \X Lanes
      /\ k[2] = "full" => k[1] \in DOMAIN full /\ full[k[1]] # {}
      /\ k[2] # "full" => k[1] \in p.swa
  BY <1>2, TaskKeys
<1>7. CASE k[2] = "full"
  BY <1>4, <1>6, <1>7 DEF Plannable
<1>8. CASE k[2] # "full"
  <2>1. k[1] \in p.swa
    BY <1>6, <1>8
  <2>2. /\ c.swa
        /\ k[1] \in {"D2H", "H2DISK", "H2REMOTE"}
        /\ k[1] = "H2DISK" => c.ssd
        /\ k[1] = "H2REMOTE" => c.remote # "none"
    BY <2>1, <1>3 DEF PutChains
  <2> QED BY <2>2, <1>6 DEF Plannable
<1> QED BY <1>7, <1>8

(* The keys of a batch. *)
LEMMA BatchKeys ==
  ASSUME BatchPlanned, NEW m \in Batch, NEW k \in DOMAIN member[m].moves
  PROVE  k \in (supported_types \cup GdsTypes) \X Lanes /\ Plannable(config, k)
<1>1. member[m] \in GetTasks(config) \/ member[m] \in PutTasks(config)
  BY DEF BatchPlanned, Batches
<1> QED BY <1>1, GetKeys, PutKeys DEF BatchPlanned

(* The ops of a merged graph are finitely many, and are known. *)
LEMMA PresentFacts ==
  ASSUME BatchPlanned
  PROVE  /\ IsFiniteSet(Present)
         /\ \A k \in Present : /\ k \in supported_types \X Lanes
                               /\ k = << k[1], k[2] >>
                               /\ Plannable(config, k)
         /\ \A m \in Batch : \A k \in DOMAIN member[m].moves :
              k[1] \in supported_types => k \in Present
<1>1. IsFiniteSet(supported_types) /\ IsFiniteSet(Lanes)
  <2>1. IsFiniteSet({}) BY FS_EmptySet
  <2>2. Lanes = ({} \cup {"full"}) \cup {"swa"} BY DEF Lanes
  <2>3. supported_types = ((((({} \cup {"DISK2H"}) \cup {"REMOTE2H"}) \cup {"H2D"}) \cup {"D2H"}) \cup {"H2DISK"}) \cup {"H2REMOTE"}
    BY DEF supported_types, GetTypes, PutTypes
  <2> QED BY <2>1, <2>2, <2>3, FS_AddElement, Zenon
<1>2. IsFiniteSet(supported_types \X Lanes)
  BY <1>1, FS_Product
<1>3. Present \subseteq supported_types \X Lanes
  BY DEF Present
<1>4. IsFiniteSet(Present)
  BY <1>2, <1>3, FS_Subset
<1>5. \A k \in Present : k = << k[1], k[2] >> /\ Plannable(config, k)
  BY BatchKeys DEF Present, Has
<1>6. \A m \in Batch : \A k \in DOMAIN member[m].moves :
        k[1] \in supported_types => k \in Present
  BY BatchKeys DEF Present, Has
<1> QED BY <1>3, <1>4, <1>5, <1>6

(* The merged graph is the one of its case, which the batch decides. *)
MergeOf ==
  IF config.layerwise /\ has_get THEN MergeLayerwise
  ELSE IF has_get THEN MergeGet ELSE MergePut

(* The inductive invariant: the graph stays the merge of its batch, and what
   is complete was after what is complete. *)
BatchInv ==
  /\ BatchPlanned
  /\ merged.state = "none" => ran = {}
  /\ Merged => /\ merged = MergeOf
               /\ ~AnyOf(GdsTypes) /\ ~(has_get /\ has_put)
               /\ \A op \in merged.ops : op.name \in ran => op.after \subseteq ran

(* A sink, where there is one, comes after every terminal. *)
LEMMA SinkFacts ==
  ASSUME NEW ops, NEW terminals, IsFiniteSet(terminals)
  PROVE  \/ \E t \in terminals : /\ terminals = {t}
                                 /\ WithSink(ops, terminals) = Graph(ops, t)
         \/ WithSink(ops, terminals) = Graph(ops \cup {MergedOp(VIRTUAL, {}, terminals)}, VIRTUAL)
<1>1. CASE Cardinality(terminals) = 1
  <2>1. PICK t : terminals = {t}
    BY <1>1, FS_Singleton
  <2>2. (CHOOSE x \in terminals : TRUE) = t
    BY <2>1
  <2> QED BY <1>1, <2>1, <2>2 DEF WithSink
<1>2. CASE Cardinality(terminals) # 1
  BY <1>2 DEF WithSink
<1> QED BY <1>1, <1>2

(* The predecessors of an op that stands for itself. *)
AfterInGet(k) == IF k[1] = "H2D" THEN get_after(k) ELSE {}
AfterInPut(k) == IF k[1] = "D2H" THEN {} ELSE Before(k, {"D2H"})

(* The two cases of the sink, in a get and in a put. *)
LEMMA GetShape ==
  ASSUME BatchPlanned
  PROVE  LET own == {MergedOp(k, {k}, AfterInGet(k)) : k \in Present}
         IN \/ \E t \in Sinks("H2D") : Sinks("H2D") = {t} /\ MergeGet = Graph(own, t)
            \/ MergeGet = Graph(own \cup {MergedOp(VIRTUAL, {}, Sinks("H2D"))}, VIRTUAL)
<1>1. IsFiniteSet(Sinks("H2D"))
  <2>1. Sinks("H2D") \subseteq Present BY DEF Sinks
  <2> QED BY <2>1, PresentFacts, FS_Subset
<1> QED BY <1>1, SinkFacts DEF MergeGet, AfterInGet

LEMMA PutShape ==
  ASSUME BatchPlanned
  PROVE  LET own == {MergedOp(k, {k}, AfterInPut(k)) : k \in Present}
         IN \/ \E t \in Sinks("D2H") : Sinks("D2H") = {t} /\ MergePut = Graph(own, t)
            \/ MergePut = Graph(own \cup {MergedOp(VIRTUAL, {}, Sinks("D2H"))}, VIRTUAL)
<1>1. IsFiniteSet(Sinks("D2H"))
  <2>1. Sinks("D2H") \subseteq Present BY DEF Sinks
  <2> QED BY <2>1, PresentFacts, FS_Subset
<1> QED BY <1>1, SinkFacts DEF MergePut, AfterInPut

(* What the three graphs have in common: every op is one of a few kinds, each
   transfer of the batch has an op, and no two ops have a name. *)
OwnOp(op, k) == op.name = k /\ op.keys = {k}
GetOps(G) ==
  /\ \A op \in G.ops :
       \/ \E k \in Present : OwnOp(op, k) /\ op.after = AfterInGet(k)
       \/ op.name = VIRTUAL /\ op.keys = {} /\ op.after = Sinks("H2D")
  /\ \A k \in Present : \E op \in G.ops : OwnOp(op, k)
  /\ \/ Sinks("H2D") = {G.end}
     \/ G.end = VIRTUAL /\ \E op \in G.ops : op.name = VIRTUAL
PutOps(G) ==
  /\ \A op \in G.ops :
       \/ \E k \in Present : OwnOp(op, k) /\ op.after = AfterInPut(k)
       \/ op.name = VIRTUAL /\ op.keys = {} /\ op.after = Sinks("D2H")
  /\ \A k \in Present : \E op \in G.ops : OwnOp(op, k)
  /\ \/ Sinks("D2H") = {G.end}
     \/ G.end = VIRTUAL /\ \E op \in G.ops : op.name = VIRTUAL
LayerwiseOps(G) ==
  LET remote == {k \in Present : k[1] = "REMOTE2H"} IN
  /\ \A op \in G.ops :
       \/ \E k \in remote : OwnOp(op, k) /\ op.after = {}
       \/ op.name = LAYERWISE /\ op.keys = Present \ remote /\ op.after = remote
  /\ \A k \in remote : \E op \in G.ops : OwnOp(op, k)
  /\ \E op \in G.ops : op.name = LAYERWISE
  /\ G.end = LAYERWISE

LEMMA GetOpsOf == BatchPlanned => GetOps(MergeGet)
<1> SUFFICES ASSUME BatchPlanned PROVE GetOps(MergeGet) OBVIOUS
<1> DEFINE own == {MergedOp(k, {k}, AfterInGet(k)) : k \in Present}
           sink == MergedOp(VIRTUAL, {}, Sinks("H2D"))
<1>1. /\ \A op \in own : \E k \in Present :
           OwnOp(op, k) /\ op.after = AfterInGet(k)
      /\ \A k \in Present : \E op \in own : OwnOp(op, k)
  <2>1. \A k \in Present : /\ OwnOp(MergedOp(k, {k}, AfterInGet(k)), k)
                       /\ MergedOp(k, {k}, AfterInGet(k)).after = AfterInGet(k)
                       /\ MergedOp(k, {k}, AfterInGet(k)) \in own
    BY DEF MergedOp, OwnOp
  <2> QED BY <2>1
<1>2. sink.name = VIRTUAL /\ sink.keys = {} /\ sink.after = Sinks("H2D")
  BY DEF MergedOp
<1> HIDE DEF own, sink
<1>3. CASE \E t \in Sinks("H2D") : Sinks("H2D") = {t} /\ MergeGet = Graph(own, t)
  <2>1. PICK t \in Sinks("H2D") : Sinks("H2D") = {t} /\ MergeGet = Graph(own, t)
    BY <1>3
  <2>2. MergeGet.ops = own /\ MergeGet.end = t
    BY <2>1 DEF Graph
  <2> QED BY <1>1, <2>1, <2>2 DEF GetOps
<1>4. CASE MergeGet = Graph(own \cup {sink}, VIRTUAL)
  <2>2. MergeGet.ops = own \cup {sink} /\ MergeGet.end = VIRTUAL
    BY <1>4 DEF Graph
  <2> QED BY <1>1, <1>2, <2>2 DEF GetOps
<1> QED BY <1>3, <1>4, GetShape DEF own, sink

LEMMA PutOpsOf == BatchPlanned => PutOps(MergePut)
<1> SUFFICES ASSUME BatchPlanned PROVE PutOps(MergePut) OBVIOUS
<1> DEFINE own == {MergedOp(k, {k}, AfterInPut(k)) : k \in Present}
           sink == MergedOp(VIRTUAL, {}, Sinks("D2H"))
<1>1. /\ \A op \in own : \E k \in Present :
           OwnOp(op, k) /\ op.after = AfterInPut(k)
      /\ \A k \in Present : \E op \in own : OwnOp(op, k)
  <2>1. \A k \in Present : /\ OwnOp(MergedOp(k, {k}, AfterInPut(k)), k)
                       /\ MergedOp(k, {k}, AfterInPut(k)).after = AfterInPut(k)
                       /\ MergedOp(k, {k}, AfterInPut(k)) \in own
    BY DEF MergedOp, OwnOp
  <2> QED BY <2>1
<1>2. sink.name = VIRTUAL /\ sink.keys = {} /\ sink.after = Sinks("D2H")
  BY DEF MergedOp
<1> HIDE DEF own, sink
<1>3. CASE \E t \in Sinks("D2H") : Sinks("D2H") = {t} /\ MergePut = Graph(own, t)
  <2>1. PICK t \in Sinks("D2H") : Sinks("D2H") = {t} /\ MergePut = Graph(own, t)
    BY <1>3
  <2>2. MergePut.ops = own /\ MergePut.end = t
    BY <2>1 DEF Graph
  <2> QED BY <1>1, <2>1, <2>2 DEF PutOps
<1>4. CASE MergePut = Graph(own \cup {sink}, VIRTUAL)
  <2>2. MergePut.ops = own \cup {sink} /\ MergePut.end = VIRTUAL
    BY <1>4 DEF Graph
  <2> QED BY <1>1, <1>2, <2>2 DEF PutOps
<1> QED BY <1>3, <1>4, PutShape DEF own, sink

LEMMA LayerwiseOpsOf == LayerwiseOps(MergeLayerwise)
<1> DEFINE remote == {k \in Present : k[1] = "REMOTE2H"}
           own == {MergedOp(k, {k}, {}) : k \in remote}
           fused == MergedOp(LAYERWISE, Present \ remote, remote)
<1>1. /\ \A op \in own : \E k \in remote : OwnOp(op, k) /\ op.after = {}
      /\ \A k \in remote : \E op \in own : OwnOp(op, k)
  <2>1. \A k \in remote : /\ OwnOp(MergedOp(k, {k}, {}), k)
                       /\ MergedOp(k, {k}, {}).after = {}
                       /\ MergedOp(k, {k}, {}) \in own
    BY DEF MergedOp, OwnOp
  <2> QED BY <2>1
<1>2. fused.name = LAYERWISE /\ fused.keys = Present \ remote /\ fused.after = remote
  BY DEF MergedOp
<1>3. MergeLayerwise = Graph(own \cup {fused}, LAYERWISE)
  BY DEF MergeLayerwise
<1> HIDE DEF own, fused
<1>4. MergeLayerwise.ops = own \cup {fused} /\ MergeLayerwise.end = LAYERWISE
  BY <1>3 DEF Graph
<1> QED BY <1>1, <1>2, <1>4 DEF LayerwiseOps

(* No two ops of a merged graph have one name and different predecessors, and
   a graph is merged once it is made. *)
LEMMA NamesTellOps ==
  ASSUME BatchPlanned
  PROVE  /\ MergeOf.state = "merged"
         /\ \A o, p \in MergeOf.ops : o.name = p.name => o.after = p.after
<1>1. \A k \in Present : k # VIRTUAL /\ k # LAYERWISE
  BY PresentFacts DEF VIRTUAL, LAYERWISE, Key, supported_types, GetTypes, PutTypes
<1>2. CASE config.layerwise /\ has_get
  <2>1. MergeOf = MergeLayerwise /\ LayerwiseOps(MergeLayerwise)
    BY <1>2, LayerwiseOpsOf DEF MergeOf
  <2>2. MergeLayerwise.state = "merged"
    BY DEF MergeLayerwise, Graph
  <2>3. ASSUME NEW o \in MergeLayerwise.ops
        PROVE  /\ o.name = LAYERWISE => o.after = {k \in Present : k[1] = "REMOTE2H"}
               /\ o.name # LAYERWISE => o.after = {}
    BY <1>1, <2>1 DEF LayerwiseOps, OwnOp
  <2> QED BY <2>1, <2>2, <2>3
<1>3. CASE ~(config.layerwise /\ has_get) /\ has_get
  <2>1. MergeOf = MergeGet /\ GetOps(MergeGet)
    BY <1>3, GetOpsOf DEF MergeOf
  <2>2. MergeGet.state = "merged"
    BY GetShape DEF Graph
  <2> QED BY <1>1, <2>1, <2>2 DEF GetOps, OwnOp
<1>4. CASE ~has_get
  <2>1. MergeOf = MergePut /\ PutOps(MergePut)
    BY <1>4, PutOpsOf DEF MergeOf
  <2>2. MergePut.state = "merged"
    BY PutShape DEF Graph
  <2> QED BY <1>1, <2>1, <2>2 DEF PutOps, OwnOp
<1> QED BY <1>2, <1>3, <1>4

LEMMA BatchInvInit ==
  BatchInit /\ config \in BatchConfigs /\ member \in Batches => BatchInv
BY BatchAssumption DEF BatchInit, BatchInv, BatchPlanned, Merged

LEMMA BatchInvStep == BatchInv /\ [BatchNext]_batchVars => BatchInv'
<1> SUFFICES ASSUME BatchInv, [BatchNext]_batchVars PROVE BatchInv' OBVIOUS
<1>1. config' = config /\ member' = member
  BY DEF BatchNext, merge_to_batch_graph, Complete, batchVars
<1>2. /\ Batches' = Batches /\ Present' = Present /\ (BatchPlanned <=> BatchPlanned')
      /\ MergeOf' = MergeOf /\ (has_get' <=> has_get) /\ (has_put' <=> has_put)
      /\ (AnyOf(GdsTypes)' <=> AnyOf(GdsTypes))
  <2>1. Present' = Present
    BY <1>1 DEF Present, Has
  <2>2. Batches' = Batches /\ (BatchPlanned <=> BatchPlanned')
    BY <1>1 DEF Batches, BatchPlanned
  <2>3. /\ (has_get' <=> has_get) /\ (has_put' <=> has_put)
        /\ (AnyOf(GdsTypes)' <=> AnyOf(GdsTypes))
    BY <1>1 DEF has_get, has_put, AnyOf, Has
  <2>4. MergeLayerwise' = MergeLayerwise /\ MergePut' = MergePut /\ MergeGet' = MergeGet
    BY <2>1 DEF MergeLayerwise, MergePut, MergeGet, WithSink, Sinks, Before, get_after
  <2> QED BY <1>1, <2>1, <2>2, <2>3, <2>4 DEF MergeOf
<1>3. CASE merge_to_batch_graph
  <2>1. ran' = ran /\ ran = {}
    BY <1>3 DEF merge_to_batch_graph, BatchInv
  <2>2. CASE AnyOf(GdsTypes) \/ (has_get /\ has_put)
    <3>1. merged'.state # "merged" /\ merged'.state # "none"
      <4>1. merged' = [merged EXCEPT !.state = "raised"] /\ merged.state = "none"
        BY <1>3, <2>2 DEF merge_to_batch_graph
      <4> QED BY <4>1
    <3> QED BY <3>1, <1>2, <2>1 DEF BatchInv, Merged
  <2>3. CASE ~(AnyOf(GdsTypes) \/ (has_get /\ has_put))
    <3>1. merged' = MergeOf
      BY <1>3, <2>3 DEF merge_to_batch_graph, MergeOf
    <3> QED BY <3>1, <1>2, <2>1, <2>3 DEF BatchInv, Merged
  <2> QED BY <2>2, <2>3
<1>4. ASSUME Merged, NEW op \in merged.ops, NEW report, Complete(op, report)
      PROVE  BatchInv'
  <2>1. /\ merged' = merged /\ ran' = ran \cup {op.name} /\ op.after \subseteq ran
    BY <1>4 DEF Complete
  <2>2. \A o \in merged.ops : o.name = op.name => o.after = op.after
    BY <1>4, NamesTellOps DEF BatchInv
  <2>3. \A o \in merged'.ops : o.name \in ran' => o.after \subseteq ran'
    BY <1>4, <2>1, <2>2 DEF BatchInv
  <2> QED BY <1>2, <1>4, <2>1, <2>3 DEF BatchInv, Merged
<1>5. CASE UNCHANGED batchVars
  BY <1>2, <1>5 DEF BatchInv, Merged, batchVars
<1> QED BY <1>3, <1>4, <1>5 DEF BatchNext

(* The graph of a get, of a put and of a layerwise load keep the order. *)
LEMMA KeepsOrder == BatchInv => BatchKeepsOrder
<1> SUFFICES ASSUME BatchInv, Merged PROVE BatchKeepsOrder
  BY DEF BatchKeepsOrder
<1>1. /\ BatchPlanned /\ merged = MergeOf /\ ~AnyOf(GdsTypes) /\ ~(has_get /\ has_put)
      /\ \A op \in merged.ops : op.name \in ran => op.after \subseteq ran
  BY DEF BatchInv
<1>2. ASSUME NEW m \in Batch, NEW k \in DOMAIN member[m].moves
      PROVE  /\ k \in Present
             /\ has_get => k[1] \in GetTypes
             /\ ~has_get => k[1] \in PutTypes
  <2>1. k \in (supported_types \cup GdsTypes) \X Lanes /\ k = << k[1], k[2] >>
    BY <1>1, BatchKeys
  <2>2. k[1] \notin GdsTypes
    BY <1>1, <2>1 DEF AnyOf, Key, Has
  <2>3. k[1] \in supported_types
    BY <2>1, <2>2
  <2>4. (k[1] \in GetTypes => has_get) /\ (k[1] \in PutTypes => has_put)
    BY <2>1 DEF has_get, has_put, AnyOf, Key, Has
  <2> QED BY <1>1, <2>3, <2>4, PresentFacts DEF supported_types
<1>3. \A k \in Present : /\ k \in supported_types \X Lanes
                         /\ k = << k[1], k[2] >>
                         /\ Plannable(config, k)
                         /\ has_get => k[1] \in GetTypes
                         /\ ~has_get => k[1] \in PutTypes
  BY <1>1, <1>2, PresentFacts DEF Present, Has
<1>4. \A k \in Present : k # VIRTUAL /\ k # LAYERWISE
  BY PresentFacts, <1>1 DEF VIRTUAL, LAYERWISE, Key, supported_types, GetTypes, PutTypes
<1>5. /\ config.layerwise \in BOOLEAN /\ config.ssd \in BOOLEAN /\ config.swa \in BOOLEAN
      /\ config.gds \in BOOLEAN
  BY <1>1 DEF BatchPlanned
<1>6. CASE config.layerwise /\ has_get
  <2>1. LayerwiseOps(merged)
    BY <1>1, <1>6, LayerwiseOpsOf DEF MergeOf
  <2> DEFINE remote == {k \in Present : k[1] = "REMOTE2H"}
  <2>2. PICK fused \in merged.ops : fused.name = LAYERWISE
    BY <2>1 DEF LayerwiseOps
  <2>3. fused.keys = Present \ remote /\ fused.after = remote
    BY <2>1, <2>2, <1>4 DEF LayerwiseOps, OwnOp
  <2>4. \A k \in Present : k \in remote => (Moved(k) <=> k \in ran)
    BY <2>1, <1>4 DEF LayerwiseOps, OwnOp, Moved
  <2>5. \A k \in Present : k \notin remote => (Moved(k) <=> LAYERWISE \in ran)
    BY <2>1, <2>2, <2>3 DEF LayerwiseOps, OwnOp, Moved
  <2>6. LAYERWISE \in ran => remote \subseteq ran
    BY <1>1, <2>2, <2>3
  <2>7. \A m \in Batch : \A o \in Ordered(m) : Moved(o[2]) => Moved(o[1])
    <3> SUFFICES ASSUME NEW m \in Batch, NEW o \in Ordered(m), Moved(o[2]) PROVE Moved(o[1])
      OBVIOUS
    <3>1. o[1] \in Present /\ o[2] \in Present /\ Precedes(o[1], o[2])
      BY <1>2 DEF Ordered
    <3>2. o[2][1] = "H2D"
      BY <3>1, <1>2, <1>6 DEF Precedes, Ordered, GetTypes
    <3> QED BY <3>1, <3>2, <2>4, <2>5, <2>6
  <2>8. ASSUME NEW op \in merged.ops PROVE HasWorker(op)
    <3>1. CASE op.name = LAYERWISE
      BY <3>1, <1>6 DEF HasWorker, worker_map, layerwise_workers, OnlyIf, LAYERWISE, Key
    <3>2. CASE \E k \in remote : OwnOp(op, k)
      <4>1. PICK k \in remote : op.name = k
        BY <3>2 DEF OwnOp
      <4>2. config.remote # "none" /\ k[1] = "REMOTE2H" /\ k[2] \in {"full", "swa"}
            /\ (k[2] = "swa" => config.swa)
        BY <1>3 DEF Plannable, Lanes
      <4>3. "REMOTE2H" \in remote_workers
        BY <4>2 DEF remote_workers, OnlyIf
      <4> QED BY <4>1, <4>2, <4>3 DEF HasWorker, worker_map, swa_tier_workers, OnlyIf
    <3> QED BY <3>1, <3>2, <2>1 DEF LayerwiseOps
  <2>9. \A k \in Present : \E op \in merged.ops : k \in op.keys
    BY <2>1, <2>2, <2>3 DEF LayerwiseOps, OwnOp
  <2>10. merged.end \in ran => \A k \in Present : Moved(k)
    BY <2>1, <2>4, <2>5, <2>6 DEF LayerwiseOps
  <2> QED BY <1>2, <2>7, <2>8, <2>9, <2>10 DEF BatchKeepsOrder
<1>7. CASE ~config.layerwise /\ has_get
  <2>1. GetOps(merged)
    BY <1>1, <1>7, GetOpsOf DEF MergeOf
  <2>2. \A k \in Present : Moved(k) <=> k \in ran
    BY <2>1, <1>4 DEF GetOps, OwnOp, Moved
  <2>3. \A k \in Present : k[1] = "H2D" /\ k \in ran => get_after(k) \subseteq ran
    <3> SUFFICES ASSUME NEW k \in Present, k[1] = "H2D", k \in ran PROVE get_after(k) \subseteq ran
      OBVIOUS
    <3>1. PICK op \in merged.ops : OwnOp(op, k)
      BY <2>1 DEF GetOps
    <3>2. op.after = get_after(k)
      BY <2>1, <3>1, <1>4 DEF GetOps, OwnOp, AfterInGet
    <3> QED BY <1>1, <3>1, <3>2 DEF OwnOp
  <2>7. \A m \in Batch : \A o \in Ordered(m) : Moved(o[2]) => Moved(o[1])
    <3> SUFFICES ASSUME NEW m \in Batch, NEW o \in Ordered(m), Moved(o[2]) PROVE Moved(o[1])
      OBVIOUS
    <3>1. o[1] \in Present /\ o[2] \in Present /\ Precedes(o[1], o[2])
      BY <1>2 DEF Ordered
    <3>2. o[2][1] = "H2D" /\ o[1][1] \in {"DISK2H", "REMOTE2H"} /\ o[1][2] = o[2][2]
      BY <3>1, <1>3, <1>7 DEF Precedes, GetTypes
    <3>3. o[1] \in get_after(o[2])
      BY <3>1, <3>2, <1>3 DEF get_after, Before, Key
    <3> QED BY <3>1, <3>2, <3>3, <2>2, <2>3
  <2>8. ASSUME NEW op \in merged.ops PROVE HasWorker(op)
    <3>1. CASE op.name = VIRTUAL
      BY <3>1 DEF HasWorker
    <3>2. CASE \E k \in Present : OwnOp(op, k)
      <4>1. PICK k \in Present : op.name = k
        BY <3>2 DEF OwnOp
      <4>2. k[1] \in {"DISK2H", "REMOTE2H", "H2D"} /\ k[2] \in {"full", "swa"}
        BY <1>3, <1>7 DEF Lanes, GetTypes
      <4>3. /\ k[1] = "DISK2H" => config.ssd
            /\ k[1] = "REMOTE2H" => config.remote # "none"
            /\ k[2] = "swa" => config.swa
        BY <1>3 DEF Plannable
      <4>4. /\ k[1] = "DISK2H" => k[1] \in ssd_workers /\ k[1] \in swa_tier_workers
            /\ k[1] = "REMOTE2H" => k[1] \in remote_workers /\ k[1] \in swa_tier_workers
            /\ k[1] = "H2D" => k[1] \in gpu_workers /\ k[1] \in swa_gpu_workers
        BY <1>7, <4>3 DEF ssd_workers, swa_tier_workers, remote_workers, gpu_workers, swa_gpu_workers, OnlyIf
      <4> QED BY <4>1, <4>2, <4>3, <4>4 DEF HasWorker, worker_map, OnlyIf
    <3> QED BY <3>1, <3>2, <2>1 DEF GetOps
  <2>9. \A k \in Present : \E op \in merged.ops : k \in op.keys
    BY <2>1 DEF GetOps, OwnOp
  <2>10. merged.end \in ran => Sinks("H2D") \subseteq ran
    BY <2>1, <1>1, <1>4 DEF GetOps, OwnOp
  <2>11. \A m \in Batch : \A k \in DOMAIN member[m].moves :
           k[1] \in {"H2D", "D2H"} => k \in Sinks("H2D") /\ k \in Present
    BY <1>2, <1>7 DEF Sinks, GetTypes
  <2> QED BY <1>2, <2>2, <2>7, <2>8, <2>9, <2>10, <2>11 DEF BatchKeepsOrder
<1>8. CASE ~has_get
  <2>1. PutOps(merged)
    BY <1>1, <1>8, PutOpsOf DEF MergeOf
  <2>2. \A k \in Present : Moved(k) <=> k \in ran
    BY <2>1, <1>4 DEF PutOps, OwnOp, Moved
  <2>3. \A k \in Present : k[1] # "D2H" /\ k \in ran => Before(k, {"D2H"}) \subseteq ran
    <3> SUFFICES ASSUME NEW k \in Present, k[1] # "D2H", k \in ran PROVE Before(k, {"D2H"}) \subseteq ran
      OBVIOUS
    <3>1. PICK op \in merged.ops : OwnOp(op, k)
      BY <2>1 DEF PutOps
    <3>2. op.after = Before(k, {"D2H"})
      BY <2>1, <3>1, <1>4 DEF PutOps, OwnOp, AfterInPut
    <3> QED BY <1>1, <3>1, <3>2 DEF OwnOp
  <2>7. \A m \in Batch : \A o \in Ordered(m) : Moved(o[2]) => Moved(o[1])
    <3> SUFFICES ASSUME NEW m \in Batch, NEW o \in Ordered(m), Moved(o[2]) PROVE Moved(o[1])
      OBVIOUS
    <3>1. o[1] \in Present /\ o[2] \in Present /\ Precedes(o[1], o[2])
      BY <1>2 DEF Ordered
    <3>2. o[2][1] \in {"H2DISK", "H2REMOTE"} /\ o[1][1] = "D2H" /\ o[1][2] = o[2][2]
      BY <3>1, <1>3, <1>8 DEF Precedes, PutTypes
    <3>3. o[1] \in Before(o[2], {"D2H"})
      BY <3>1, <3>2, <1>3 DEF Before, Key
    <3> QED BY <3>1, <3>2, <3>3, <2>2, <2>3
  <2>8. ASSUME NEW op \in merged.ops PROVE HasWorker(op)
    <3>1. CASE op.name = VIRTUAL
      BY <3>1 DEF HasWorker
    <3>2. CASE \E k \in Present : OwnOp(op, k)
      <4>1. PICK k \in Present : op.name = k
        BY <3>2 DEF OwnOp
      <4>2. k[1] \in {"D2H", "H2DISK", "H2REMOTE"} /\ k[2] \in {"full", "swa"}
        BY <1>3, <1>8 DEF Lanes, PutTypes
      <4>3. /\ k[1] = "H2DISK" => config.ssd
            /\ k[1] = "H2REMOTE" => config.remote # "none"
            /\ k[2] = "swa" => config.swa
        BY <1>3 DEF Plannable
      <4>4. /\ k[1] = "H2DISK" => k[1] \in ssd_workers /\ k[1] \in swa_tier_workers
            /\ k[1] = "H2REMOTE" => k[1] \in remote_workers /\ k[1] \in swa_tier_workers
            /\ k[1] = "D2H" => k[1] \in gpu_workers /\ k[1] \in swa_gpu_workers
        BY <4>3 DEF ssd_workers, swa_tier_workers, remote_workers, gpu_workers, swa_gpu_workers, OnlyIf
      <4> QED BY <4>1, <4>2, <4>3, <4>4 DEF HasWorker, worker_map, OnlyIf
    <3> QED BY <3>1, <3>2, <2>1 DEF PutOps
  <2>9. \A k \in Present : \E op \in merged.ops : k \in op.keys
    BY <2>1 DEF PutOps, OwnOp
  <2>10. merged.end \in ran => Sinks("D2H") \subseteq ran
    BY <2>1, <1>1, <1>4 DEF PutOps, OwnOp
  <2>11. \A m \in Batch : \A k \in DOMAIN member[m].moves :
           k[1] \in {"H2D", "D2H"} => k \in Sinks("D2H") /\ k \in Present
    BY <1>2, <1>8 DEF Sinks, PutTypes
  <2> QED BY <1>2, <2>2, <2>7, <2>8, <2>9, <2>10, <2>11 DEF BatchKeepsOrder
<1> QED BY <1>5, <1>6, <1>7, <1>8

(* The merge of any batch of gets or of puts, in any configuration and of any
   size, keeps every order its members had, has a worker for every op, leaves
   no transfer out, and its end op comes after all that touches the GPU. *)
THEOREM BatchOrder == BatchSpec => []BatchKeepsOrder
<1>1. BatchSpec => BatchInv /\ [][BatchNext]_batchVars
  BY BatchInvInit DEF BatchSpec
<1>2. BatchInv /\ [BatchNext]_batchVars => BatchInv'
  BY BatchInvStep
<1> QED BY <1>1, <1>2, KeepsOrder, PTL
=============================================================================
