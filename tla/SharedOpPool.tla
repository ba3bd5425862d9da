----------------------------- MODULE SharedOpPool -----------------------------
(***************************************************************************)
(* flexkv/common/ring_buffer.py: the slots of shared memory through which  *)
(* the scheduler thread passes block id arrays to worker processes, with   *)
(* register_op_to_buffer and free_op_from_buffer of transfer_engine.py,    *)
(* its only callers, and WorkerTransferOp, which decides where a worker    *)
(* finds the ids of a job.                                                 *)
(*                                                                         *)
(* A key stands for an array of block ids with its device prefix; two keys *)
(* differ exactly when their hashes do (64-bit hashes do not collide).     *)
(* The lock-free copy of the ids is part of the allocation: one thread     *)
(* makes all the calls.  The order of the free queue is left open.         *)
(***************************************************************************)
EXTENDS Integers, FiniteSets

CONSTANTS
  Slots,   \* 0 .. max_op_num - 1
  Jobs,    \* ops and replicas that are registered, each once
  Keys,    \* block id arrays with their device prefix
  key,     \* key[j][s]: the ids of side s of job j
  Fits     \* keys that are neither empty nor longer than max_block_num

NoSlot == -1
Sides == {"src", "dst"}

ASSUME PoolAssumption ==
  /\ Slots \subseteq Nat
  /\ IsFiniteSet(Jobs)
  /\ key \in [Jobs -> [Sides -> Keys]]
  /\ Fits \subseteq Keys

VARIABLES
  free_slots,
  slot_map,        \* slot_map[k]: the slot of key k, NoSlot if it has none
  slot_ref_count,
  slot_hashes,     \* the key a slot was last given to
  buffer,          \* the ids a slot holds
  slot_id,         \* slot_id[j][s]: TransferOp.src_slot_id, dst_slot_id
  phase,           \* "new", "sent" (a worker may read), "reported"
  sides            \* sides of the job at hand that are still to be done

poolVars == <<free_slots, slot_map, slot_ref_count, slot_hashes, buffer>>
opVars == <<poolVars, slot_id, phase, sides>>

OpInit ==
  /\ free_slots = Slots
  /\ slot_map = [k \in Keys |-> NoSlot]
  /\ slot_ref_count = [s \in Slots |-> 0]
  /\ slot_hashes \in [Slots -> Keys]  \* 0 in the code, a hash of nothing
  /\ buffer = slot_hashes             \* torch.empty
  /\ slot_id = [j \in Jobs |-> [s \in Sides |-> NoSlot]]
  /\ phase = [j \in Jobs |-> "new"]
  /\ sides = [j \in Jobs |-> Sides]

(* The thread is not in the middle of another job. *)
Mine(j) == \A i \in Jobs \ {j} : sides[i] = {} \/ sides[i] = Sides

(* The thread takes the source side first. *)
InTurn(j, s) == s \in sides[j] /\ (s = "dst" => "src" \notin sides[j])

(* allocate_slot finds key k in the map. *)
Reuse(k, slot) ==
  /\ slot = slot_map[k]
  /\ slot_ref_count' = [slot_ref_count EXCEPT ![slot] = @ + 1]
  /\ slot_hashes' = [slot_hashes EXCEPT ![slot] = k]
  /\ UNCHANGED <<free_slots, slot_map, buffer>>

(* allocate_slot takes a free slot for key k and copies the ids. *)
Fill(k, slot) ==
  /\ slot \in free_slots
  /\ free_slots' = free_slots \ {slot}
  /\ slot_map' = [slot_map EXCEPT ![k] = slot]
  /\ slot_ref_count' = [slot_ref_count EXCEPT ![slot] = @ + 1]
  /\ slot_hashes' = [slot_hashes EXCEPT ![slot] = k]
  /\ buffer' = [buffer EXCEPT ![slot] = k]

(* Too long, empty, or no slot left: the ids travel with the message. *)
NoneFor(k, slot) ==
  /\ k \notin Fits \/ (slot_map[k] = NoSlot /\ free_slots = {})
  /\ slot = NoSlot
  /\ UNCHANGED poolVars

allocate_slot(k, slot) ==
  \/ NoneFor(k, slot)
  \/ k \in Fits /\ slot_map[k] # NoSlot /\ Reuse(k, slot)
  \/ k \in Fits /\ slot_map[k] = NoSlot /\ Fill(k, slot)

(* register_op_to_buffer for one side; the job is sent after both. *)
register_op_to_buffer(j, s, slot) ==
  /\ phase[j] = "new"
  /\ InTurn(j, s)
  /\ Mine(j)
  /\ allocate_slot(key[j][s], slot)
  /\ slot_id' = [slot_id EXCEPT ![j][s] = slot]
  /\ sides' = [sides EXCEPT ![j] = IF @ = {s} THEN Sides ELSE @ \ {s}]
  /\ phase' = [phase EXCEPT ![j] = IF sides[j] = {s} THEN "sent" ELSE @]

(* The worker has reported the job; it will not look at the slots again. *)
Report(j) ==
  /\ phase[j] = "sent"
  /\ phase' = [phase EXCEPT ![j] = "reported"]
  /\ UNCHANGED <<poolVars, slot_id, sides>>

(* Seeded fault: a slot is given back with its first reader. *)
LastReference_any(slot) == TRUE

LastReference(slot) == slot_ref_count[slot] = 1

(* free_slot; it raises when the key of the slot is not mapped, which no held slot
   meets (KeyMapped in PoolProofs). *)
free_slot(slot) ==
  /\ slot_ref_count' = [slot_ref_count EXCEPT ![slot] = @ - 1]
  /\ IF LastReference(slot)
       THEN /\ free_slots' = free_slots \cup {slot}
            /\ slot_map' = [slot_map EXCEPT ![slot_hashes[slot]] = NoSlot]
       ELSE UNCHANGED <<free_slots, slot_map>>
  /\ UNCHANGED <<slot_hashes, buffer>>

(* free_op_from_buffer for one side. *)
free_op_from_buffer(j, s) ==
  /\ phase[j] = "reported"
  /\ InTurn(j, s)
  /\ Mine(j)
  /\ IF slot_id[j][s] = NoSlot THEN UNCHANGED poolVars
                               ELSE free_slot(slot_id[j][s])
  /\ sides' = [sides EXCEPT ![j] = @ \ {s}]
  /\ UNCHANGED <<slot_id, phase>>

OpNext ==
  \E j \in Jobs :
    \/ \E s \in Sides, slot \in Slots \cup {NoSlot} :
         register_op_to_buffer(j, s, slot)
    \/ Report(j)
    \/ \E s \in Sides : free_op_from_buffer(j, s)

OpSpec == OpInit /\ [][OpNext]_opVars
-----------------------------------------------------------------------------
(* Types: reference counts stay natural, and slot_map and the jobs point to
   slots of the pool. *)
OpTypeOK ==
  /\ free_slots \subseteq Slots
  /\ slot_map \in [Keys -> Slots \cup {NoSlot}]
  /\ slot_ref_count \in [Slots -> Nat]
  /\ slot_hashes \in [Slots -> Keys]
  /\ buffer \in [Slots -> Keys]
  /\ slot_id \in [Jobs -> [Sides -> Slots \cup {NoSlot}]]
  /\ phase \in [Jobs -> {"new", "sent", "reported"}]
  /\ sides \in [Jobs -> SUBSET Sides]

(* The references: sides registered and not yet freed. *)
Holds(j, s) ==
  /\ slot_id[j][s] # NoSlot
  /\ phase[j] = "reported" => s \in sides[j]
References(slot) ==
  {r \in Jobs \X Sides : Holds(r[1], r[2]) /\ slot_id[r[1]][r[2]] = slot}

(* slot_ref_count is the number of job sides that hold the slot, and a slot is
   in the free queue exactly when nobody does: none leaks when replicas share
   a slot, when one side found no slot, or when the pool is full. *)
RefCountExact ==
  \A slot \in Slots :
    /\ slot_ref_count[slot] = Cardinality(References(slot))
    /\ slot \in free_slots <=> References(slot) = {}

(* What a worker reads from the slot of a job is that job's ids, at any time
   between the send and the report, whatever other jobs come and go. *)
ReadsOwnIds ==
  \A j \in Jobs, s \in Sides :
    phase[j] = "sent" /\ slot_id[j][s] # NoSlot =>
      buffer[slot_id[j][s]] = key[j][s]
=============================================================================
