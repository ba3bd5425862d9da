------------------------------ MODULE BatchGraph ------------------------------
(***************************************************************************)
(* flexkv/common/transfer.py, merge_to_batch_graph: the graphs of several  *)
(* tasks become one.  The transfers of one type and one lane (the full     *)
(* cache, or the sliding-window cache) become one op; the dependencies of  *)
(* the members are dropped and rebuilt from the types.  The workers that   *)
(* run the ops are the ones TransferEngine._init_workers creates.          *)
(*                                                                         *)
(* A behaviour takes one configuration and one batch, binds GPU slots,     *)
(* merges, and runs the merged graph in any order its dependencies allow.  *)
(***************************************************************************)
EXTENDS Naturals, Sequences, FiniteSets

CONSTANTS MaxBlocks,     \* bound: blocks of a task
          Batch,         \* positions of the tasks of a batch, 1 .. n
          BatchConfigs   \* the configurations to consider

ASSUME BatchAssumption ==
  /\ MaxBlocks \in Nat /\ IsFiniteSet(Batch)
  /\ Batch = 1 .. Cardinality(Batch) /\ Batch # {}
  /\ BatchConfigs \subseteq [layerwise : BOOLEAN, ssd : BOOLEAN, gds : BOOLEAN,
                             remote : {"none", "index", "store"}, swa : BOOLEAN]

VARIABLES config,   \* one of BatchConfigs
          member,   \* the tasks of the batch
          merged,   \* the merged graph: its ops and its end, and whether it is there
          ran,      \* ops of the merged graph that are complete
          results,  \* results[op]: per position of the op, did the copy succeed
          heard     \* what the callbacks of the members were called with

batchVars == << config, member, merged, ran, results, heard >>

Lanes == {"full", "swa"}
GetTypes == {"DISK2H", "REMOTE2H", "H2D"}
PutTypes == {"D2H", "H2DISK", "H2REMOTE"}
supported_types == GetTypes \cup PutTypes
GdsTypes == {"DISK2D"}
Key(type, lane) == << type, lane >>
VIRTUAL == Key("VIRTUAL", "full")
LAYERWISE == Key("LAYERWISE", "full")

(* A task as the cache engine plans it: moves[k] are its blocks, numbered in
   the order of the sequence, that its op of type and lane k moves; calls are
   the ops with a callback. *)
Task(full, swa, calls) ==
  LET all == [k \in (supported_types \cup GdsTypes) \X Lanes |->
                IF k[2] = "full" THEN (IF k[1] \in DOMAIN full THEN full[k[1]] ELSE {})
                ELSE IF k[1] \in swa THEN {1} ELSE {}]
      there == {k \in DOMAIN all : all[k] # {}}
  IN [moves |-> [k \in there |-> all[k]], calls |-> calls \cap there]

(* SWAOpConstructor.build_get_chain, build_put_chain: one slot, staged through
   the CPU from where it is, or written through. *)
GetChains(c) ==
  IF c.swa THEN {{}, {"H2D"}} \cup (IF c.ssd THEN {{"H2D", "DISK2H"}} ELSE {})
                  \cup (IF c.remote # "none" THEN {{"H2D", "REMOTE2H"}} ELSE {})
  ELSE {{}}
PutChains(c) ==
  IF c.swa
    THEN {{}} \cup {{"D2H"} \cup s : s \in SUBSET (
            (IF c.ssd THEN {"H2DISK"} ELSE {}) \cup
            (IF c.remote # "none" THEN {"H2REMOTE"} ELSE {}))}
    ELSE {{}}

(* What a get plans: blocks up to cpu are in the CPU tier, up to disk in the
   SSD tier, the rest in the remote tier, from where they may be written back.
   The staged blocks have callbacks if they are kept. *)
GetPlans(c) ==
  {p \in [n : 1 .. MaxBlocks, cpu : 0 .. MaxBlocks, disk : 0 .. MaxBlocks,
          kept : BOOLEAN, back : BOOLEAN, swa : GetChains(c)] :
     /\ p.cpu <= p.disk /\ p.disk <= p.n
     /\ p.disk > p.cpu => c.ssd
     /\ p.n > p.disk => c.remote # "none" /\ ~c.gds
     /\ p.back => c.ssd /\ c.remote = "index" /\ ~c.layerwise
     /\ p.kept => p.n > p.cpu}

GetTask(c, p) ==
  Task([DISK2H |-> IF c.gds THEN {} ELSE p.cpu + 1 .. p.disk,
        DISK2D |-> IF c.gds THEN p.cpu + 1 .. p.disk ELSE {},
        REMOTE2H |-> p.disk + 1 .. p.n,
        H2DISK |-> IF p.back THEN p.disk + 1 .. p.n ELSE {},
        H2D |-> 1 .. IF c.gds THEN p.cpu ELSE p.n],
       p.swa,
       {Key("H2D", "swa")} \cup
         IF p.kept THEN {Key(t, "full") : t \in GetTypes \ {"H2D"}} ELSE {})

GetTasks(c) == {GetTask(c, p) : p \in GetPlans(c)}

(* What a put plans: the tiers hold the blocks up to cpu, disk and remote.
   With the store it may find everything in the CPU tier, and has no callbacks. *)
PutPlans(c) ==
  {p \in [cpu : 0 .. MaxBlocks, disk : 0 .. MaxBlocks, remote : 0 .. MaxBlocks,
          swa : PutChains(c)] :
     \/ p.cpu < MaxBlocks
     \/ c.remote = "store" /\ (p.remote < MaxBlocks \/ (c.ssd /\ p.disk < MaxBlocks))}

PutTask(c, p) ==
  Task([D2H |-> p.cpu + 1 .. MaxBlocks,
        H2DISK |-> IF c.ssd THEN p.disk + 1 .. MaxBlocks ELSE {},
        H2REMOTE |-> IF c.remote = "none" THEN {} ELSE p.remote + 1 .. MaxBlocks],
       p.swa,
       IF c.remote = "store" THEN {} ELSE PutTypes \X Lanes)

PutTasks(c) == {PutTask(c, p) : p \in PutPlans(c)}

Batches == [Batch -> GetTasks(config)] \cup [Batch -> PutTasks(config)]

BatchInit ==
  /\ merged = [state |-> "none", ops |-> {}, end |-> VIRTUAL]
  /\ ran = {} /\ results = << >> /\ heard = {}
-----------------------------------------------------------------------------
Has(m, k) == k \in DOMAIN member[m].moves

(* The blocks of a set in the order of the sequence. *)
Ascending(S) == [i \in 1 .. Cardinality(S) |->
                   CHOOSE b \in S : Cardinality({c \in S : c < b}) = i - 1]

(* set_gpu_blocks: the slots for the blocks a task moves to or from the GPU,
   in order; the i-th element is the slot of the i-th block of op k. *)
GpuSide(m) == UNION {member[m].moves[k] :
                       k \in {j \in DOMAIN member[m].moves :
                                j[2] = "full" /\ j[1] \in {"H2D", "DISK2D", "D2H"}}}

Bound(m, k) ==
  LET slots == Ascending(GpuSide(m))
      count == Cardinality(member[m].moves[k])
  IN IF k[1] = "DISK2D" THEN SubSeq(slots, Len(slots) - count + 1, Len(slots))
     ELSE SubSeq(slots, 1, count)

(* What _merge_ops and _merge_swa_ops concatenate: the blocks of op k of each
   member, in the order of the batch, as pairs of member and block. *)
BlocksOfOp(m, k) == IF Has(m, k) THEN Ascending(member[m].moves[k]) ELSE << >>
Concatenated(k) ==
  LET upTo[m \in Nat] ==
        IF m = 0 THEN << >>
        ELSE upTo[m - 1] \o [i \in DOMAIN BlocksOfOp(m, k) |-> << m, BlocksOfOp(m, k)[i] >>]
  IN upTo[Cardinality(Batch)]

(* The number of blocks of the members before m, of those in some. *)
Offset(k, m, some) ==
  LET upTo[i \in Nat] ==
        IF i = 0 THEN 0
        ELSE upTo[i - 1] + IF i \in some THEN Len(BlocksOfOp(i, k)) ELSE 0
  IN upTo[m - 1]

(* Seeded fault: only members with a callback move the offset on. *)
Span_called(k, m) ==
  << Offset(k, m, {i \in Batch : k \in member[i].calls}), Len(BlocksOfOp(m, k)) >>

(* _attach_merged_callbacks: offset and count of a member in the merged op. *)
Span(k, m) == << Offset(k, m, Batch), Len(BlocksOfOp(m, k)) >>

(* _bucket_has *)
AnyOf(types) == \E m \in Batch, t \in types, l \in Lanes : Has(m, Key(t, l))
has_get == AnyOf(GetTypes)
has_put == AnyOf(PutTypes)

(* An op of the merged graph: the keys it stands for and the ops before it. *)
MergedOp(name, keys, after) == [name |-> name, keys |-> keys, after |-> after]
Present == {k \in supported_types \X Lanes : \E m \in Batch : Has(m, k)}
Before(k, types) == {Key(t, k[2]) : t \in types} \cap Present

(* Seeded fault: the two sources of a lane exclude each other. *)
get_after_one(k) == LET s == Before(k, {"DISK2H"})
                    IN IF s = {} THEN Before(k, {"REMOTE2H"}) ELSE s

get_after(k) == Before(k, {"DISK2H", "REMOTE2H"})

Graph(ops, end) == [state |-> "merged", ops |-> ops, end |-> end]

(* _add_batch_sink: a virtual op after several terminals. *)
WithSink(ops, terminals) ==
  IF Cardinality(terminals) = 1
    THEN Graph(ops, CHOOSE t \in terminals : TRUE)
    ELSE Graph(ops \cup {MergedOp(VIRTUAL, {}, terminals)}, VIRTUAL)

(* The terminals: what touches the GPU, or everything if nothing does. *)
Sinks(gpu) == LET s == {k \in Present : k[1] = gpu} IN IF s = {} THEN Present ELSE s

MergeGet ==
  WithSink({MergedOp(k, {k}, IF k[1] = "H2D" THEN get_after(k) ELSE {}) : k \in Present},
           Sinks("H2D"))
MergePut ==
  WithSink({MergedOp(k, {k}, IF k[1] = "D2H" THEN {} ELSE Before(k, {"D2H"})) : k \in Present},
           Sinks("D2H"))
MergeLayerwise ==
  LET remote == {k \in Present : k[1] = "REMOTE2H"} IN
  Graph({MergedOp(k, {k}, {}) : k \in remote} \cup
          {MergedOp(LAYERWISE, Present \ remote, remote)}, LAYERWISE)

(* merge_to_batch_graph; it raises for an unsupported type, and for gets and
   puts in one batch, which a write-back makes of a get. *)
merge_to_batch_graph ==
  /\ merged.state = "none"
  /\ merged' = IF AnyOf(GdsTypes) \/ (has_get /\ has_put)
                 THEN [merged EXCEPT !.state = "raised"]
               ELSE IF config.layerwise /\ has_get THEN MergeLayerwise
               ELSE IF has_get THEN MergeGet ELSE MergePut
  /\ UNCHANGED << config, member, ran, results, heard >>
-----------------------------------------------------------------------------
(* _init_workers: the types with a worker, in each lane. *)
OnlyIf(on, types) == IF on THEN types ELSE {}
gpu_workers == {"D2H"} \cup OnlyIf(~config.layerwise, {"H2D"})
ssd_workers == OnlyIf(config.ssd, {"H2DISK"} \cup OnlyIf(~config.layerwise, {"DISK2H"}))
remote_workers == OnlyIf(config.remote # "none", {"H2REMOTE", "REMOTE2H"})
gds_workers == OnlyIf(config.gds, {"DISK2D", "D2DISK"})
layerwise_workers == OnlyIf(config.layerwise, {"LAYERWISE"})
swa_gpu_workers == {"D2H"} \cup OnlyIf(~config.layerwise, {"H2D"})
swa_tier_workers == remote_workers \cup OnlyIf(config.ssd, {"H2DISK", "DISK2H"})
                      \cup OnlyIf(config.ssd /\ config.gds, {"DISK2D", "D2DISK"})
worker_map(lane) ==
  IF lane = "full"
    THEN gpu_workers \cup ssd_workers \cup remote_workers \cup gds_workers \cup layerwise_workers
    ELSE OnlyIf(config.swa, swa_gpu_workers \cup swa_tier_workers)

(* _assign_op_to_worker, _assign_swa_op_to_worker, the fused op. *)
HasWorker(op) ==
  op.name = VIRTUAL \/ op.name[1] \in worker_map(op.name[2])

Merged == merged.state = "merged"

(* A load from the store reports each block; other workers report nothing. *)
Reports(op) ==
  IF config.remote = "store" /\ \E l \in Lanes : op.name = Key("REMOTE2H", l)
    THEN [1 .. Len(Concatenated(op.name)) -> BOOLEAN]
    ELSE {[i \in 1 .. (IF op.keys = {op.name} THEN Len(Concatenated(op.name)) ELSE 0) |-> TRUE]}

(* The part of a merged op's report that is about member m. *)
PartOf(k, m, report) == SubSeq(report, Span(k, m)[1] + 1, Span(k, m)[1] + Span(k, m)[2])

(* The op is complete: its callbacks run, each with the part of the report
   that is its member's; the callbacks of the fused op get no part. *)
Complete(op, report) ==
  /\ op.name \notin ran /\ op.after \subseteq ran /\ HasWorker(op)
  /\ ran' = ran \cup {op.name}
  /\ results' = [o \in DOMAIN results \cup {op.name} |->
                   IF o = op.name THEN report ELSE results[o]]
  /\ heard' = heard \cup
       {[member |-> x[1], key |-> x[2],
         part |-> IF op.name = LAYERWISE THEN << >> ELSE PartOf(x[2], x[1], report)] :
          x \in {y \in Batch \X op.keys : y[2] \in member[y[1]].calls}}
  /\ UNCHANGED << config, member, merged >>

BatchNext ==
  \/ merge_to_batch_graph
  \/ Merged /\ \E op \in merged.ops : \E report \in Reports(op) : Complete(op, report)

BatchSpec ==
  /\ config \in BatchConfigs /\ member \in Batches /\ BatchInit
  /\ [][BatchNext]_batchVars
-----------------------------------------------------------------------------
(* Op k of every member is complete. *)
Moved(k) == \E op \in merged.ops : k \in op.keys /\ op.name \in ran

(* What a member's own graph orders: staging before the H2D, the D2H before
   what is written on. *)
Precedes(a, b) ==
  /\ a[2] = b[2]
  /\ \/ a[1] \in {"DISK2H", "REMOTE2H"} /\ b[1] = "H2D"
     \/ a[1] = "D2H" /\ b[1] \in {"H2DISK", "H2REMOTE"}
Ordered(m) == {o \in (DOMAIN member[m].moves) \X (DOMAIN member[m].moves) :
                 Precedes(o[1], o[2])}

(* merge_to_batch_graph throws the members' dependencies away.  The merged
   graph still orders whatever a member ordered, it can run to its end with
   the workers of the configuration, and when its end op is complete no
   transfer of any member will touch the GPU any more, so that the framework
   may use the slots. *)
BatchKeepsOrder ==
  Merged =>
    /\ \A m \in Batch : \A o \in Ordered(m) : Moved(o[2]) => Moved(o[1])
    /\ \A op \in merged.ops : HasWorker(op)
    /\ \A m \in Batch : \A k \in DOMAIN member[m].moves :
         \E op \in merged.ops : k \in op.keys
    /\ merged.end \in ran =>
         \A m \in Batch : \A k \in DOMAIN member[m].moves :
           k[1] \in {"H2D", "D2H"} => Moved(k)

(* What was reported for the blocks of member m in the merged op k. *)
Own(k, m) ==
  LET at == Ascending({i \in DOMAIN results[k] : Concatenated(k)[i][1] = m})
  IN [i \in DOMAIN at |-> results[k][at[i]]]

(* Every member hears of each of its transfers once, with the outcome of its
   own blocks though its neighbours' are in the same op, and the slot bound to
   a block is the block's own. *)
OwnBlocksOnly ==
  /\ \A m \in Batch : \A k \in DOMAIN member[m].moves :
       k[2] = "full" /\ k[1] \in {"H2D", "DISK2D", "D2H"} =>
         Bound(m, k) = Ascending(member[m].moves[k])
  /\ Merged =>
       \A m \in Batch : \A k \in member[m].calls :
         LET calls == {h \in heard : h.member = m /\ h.key = k} IN
         /\ Cardinality(calls) = IF Moved(k) THEN 1 ELSE 0
         /\ \A h \in calls : k \in ran => h.part = Own(k, m)
=============================================================================
