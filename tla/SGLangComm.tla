------------------------------ MODULE SGLangComm ------------------------------
(***************************************************************************)
(* FlexKVComm: how the leader's results reach all ranks of a model that    *)
(* runs with pipeline, context and tensor parallelism.  A scatter goes     *)
(* hop by hop (pipeline stage leaders, context leaders of a stage, tensor  *)
(* group) over point-to-point messages that are ordered per pair and tag.  *)
(* Ranks enter the operations of different channels in different orders.   *)
(* A minimum over all ranks follows; a barrier has the same three stages   *)
(* without a value.                                                        *)
(***************************************************************************)
EXTENDS Integers, Sequences, FiniteSets, FiniteSetsExt

CONSTANTS Topologies,  \* triples <<pp_size, attn_cp_size, attn_tp_size>>
          Channels,    \* logical operations that scatter
          Rounds       \* scatters per channel

ASSUME CommAssumption ==
  /\ Topologies \subseteq (Nat \ {0}) \X (Nat \ {0}) \X (Nat \ {0}) /\ Topologies # {}
  /\ Rounds \in Nat

VARIABLES topo,   \* the topology of this run
          at,     \* where each rank is: [op, ch, hop, data]
          entered,\* scatters each rank has entered, per channel
          net,    \* messages per pair of ranks, in order of sending
          value,  \* what each rank puts into, and then has of, the minimum
          input,  \* what each rank put in
          heard,  \* stage leaders the first one has heard from
          mixed   \* ghost: a scatter returned something else than the leader's payload

commVars == << topo, at, entered, net, value, input, heard, mixed >>

pp_size == topo[1]
attn_cp_size == topo[2]
attn_tp_size == topo[3]
stride == attn_tp_size * attn_cp_size
World == 0 .. pp_size * stride - 1

\* The place of a rank, and the routing tables.
pp_rank(r) == r \div stride
cp_rank(r) == (r % stride) \div attn_tp_size
StageOffset(r) == pp_rank(r) * stride
IsStageLeader(r) == r = StageOffset(r)
StageLeaders == { s * stride : s \in 0 .. pp_size - 1 }
StageMembers(r) == StageOffset(r) .. StageOffset(r) + stride - 1
CpLeaders(r) == { StageOffset(r) + c * attn_tp_size : c \in 0 .. attn_cp_size - 1 }
TpGroup(r) == LET o == StageOffset(r) + cp_rank(r) * attn_tp_size IN o .. o + attn_tp_size - 1
CpGroup(r) == { q \in StageMembers(r) : (q - r) % attn_tp_size = 0 }

Home == [op |-> "idle", ch |-> "none", hop |-> 0, data |-> << >>]

CommInit ==
  /\ topo \in Topologies
  /\ at = [r \in World |-> Home]
  /\ entered = [r \in World |-> [c \in Channels |-> 0]]
  /\ net = [p \in World \X World |-> << >>]
  /\ \E low \in World : input = [r \in World |-> IF r = low THEN 0 ELSE 1]
  /\ value = input /\ heard = {} /\ mixed = FALSE

-----------------------------------------------------------------------------
\* Seeded fault: one tag for the scatters of all channels.
OneTag(base, ch) == << base, "any" >>

\* _scatter_tag: the base tag of the hop plus the offset of the channel.
ScatterTag(base, ch) == << base, ch >>

\* The groups of the three hops; a rank outside a group, or alone in it, skips it.
Group(r, h) == CASE h = 1 -> IF IsStageLeader(r) THEN StageLeaders ELSE {}
                 [] h = 2 -> IF attn_cp_size > 1 THEN CpLeaders(r) ELSE {}
                 [] h = 3 -> TpGroup(r)
TakesPart(r, h) == r \in Group(r, h) /\ Cardinality(Group(r, h)) > 1
NextHop(r, h) == Min({ k \in h .. 3 : TakesPart(r, k) } \union {4})

SendAll(n, r, dsts, m) == [p \in World \X World |->
                             IF p[1] = r /\ p[2] \in dsts THEN Append(n[p], m) ELSE n[p]]

\* A receive matches the oldest message of the pair that carries the tag.
Matching(src, r, tag) == { i \in 1 .. Len(net[<< src, r >>]) : net[<< src, r >>][i].tag = tag }
Without(s, i) == SubSeq(s, 1, i - 1) \o SubSeq(s, i + 1, Len(s))

\* A rank calls scatter.  Only the leader's data counts.
EnterScatter(r, ch) ==
  /\ at[r] = Home /\ entered[r][ch] < Rounds
  /\ entered' = [entered EXCEPT ![r][ch] = @ + 1]
  /\ at' = [at EXCEPT ![r] = [op |-> "scatter", ch |-> ch, hop |-> NextHop(r, 1),
              data |-> IF r = 0 THEN << ch, entered[r][ch] + 1 >> ELSE << >>]]
  /\ UNCHANGED << topo, net, value, input, heard, mixed >>

\* _scatter_group for the hop the rank is at.
ScatterHop(r) ==
  LET h == at[r].hop
      ch == at[r].ch
      tag == ScatterTag(h, ch)
      src == Min(Group(r, h))
  IN /\ at[r].op = "scatter" /\ h <= 3
     /\ \/ /\ r = src
           /\ net' = SendAll(net, r, Group(r, h) \ {r}, [tag |-> tag, data |-> at[r].data])
           /\ at' = [at EXCEPT ![r].hop = NextHop(r, h + 1)]
        \/ /\ r # src /\ Matching(src, r, tag) # {}
           /\ LET i == Min(Matching(src, r, tag)) IN
                /\ at' = [at EXCEPT ![r].hop = NextHop(r, h + 1), ![r].data = net[<< src, r >>][i].data]
                /\ net' = [net EXCEPT ![<< src, r >>] = Without(@, i)]
     /\ UNCHANGED << topo, entered, value, input, heard, mixed >>

\* scatter returns; a payload of another operation would not be recognised.
ScatterReturns(r) ==
  /\ at[r].op = "scatter" /\ at[r].hop = 4
  /\ mixed' = (mixed \/ at[r].data # << at[r].ch, entered[r][at[r].ch] >>)
  /\ at' = [at EXCEPT ![r] = Home]
  /\ UNCHANGED << topo, entered, net, value, input, heard >>

-----------------------------------------------------------------------------
(* all_reduce_min, after the scatters: tensor group, context group, stage   *)
(* leaders, and back to the members of each stage.                          *)
At(r, stage) == at[r].op = stage
Go(r, stage) == at' = [at EXCEPT ![r].op = stage]

EnterReduce(r) ==
  /\ at[r] = Home /\ \A c \in Channels : entered[r][c] = Rounds
  /\ Go(r, "tp")
  /\ UNCHANGED << topo, entered, net, value, input, heard, mixed >>

\* A collective of a group waits for all its members.
Collective(r, g, stage, next) ==
  /\ r = Min(g) /\ \A q \in g : At(q, stage)
  /\ value' = [q \in World |-> IF q \in g THEN Min({ value[p] : p \in g }) ELSE value[q]]
  /\ at' = [q \in World |-> IF q \in g THEN [at[q] EXCEPT !.op = next] ELSE at[q]]
  /\ UNCHANGED << topo, entered, net, input, heard, mixed >>

ReduceTag == << "AR_MIN" >>
BcastTag == << "AR_BCAST" >>

\* _pp_all_reduce_min_p2p: the other stage leaders send and wait for the answer.
PpReduce(r) ==
  /\ At(r, "pp")
  /\ \/ /\ ~ IsStageLeader(r) /\ Go(r, "bcast") /\ UNCHANGED << net, value, heard >>
     \/ /\ IsStageLeader(r) /\ r # 0
        /\ net' = SendAll(net, r, {0}, [tag |-> ReduceTag, data |-> value[r]])
        /\ Go(r, "answer") /\ UNCHANGED << value, heard >>
     \/ \E src \in StageLeaders \ {0} :
          /\ r = 0 /\ Matching(src, 0, ReduceTag) # {}
          /\ LET i == Min(Matching(src, 0, ReduceTag)) IN
               /\ value' = [value EXCEPT ![0] = Min({@, net[<< src, 0 >>][i].data})]
               /\ net' = [net EXCEPT ![<< src, 0 >>] = Without(@, i)]
          /\ heard' = heard \union {src} /\ UNCHANGED at
     \/ /\ r = 0 /\ heard = StageLeaders \ {0}
        /\ net' = SendAll(net, 0, StageLeaders \ {0}, [tag |-> ReduceTag, data |-> value[0]])
        /\ Go(0, "bcast") /\ UNCHANGED << value, heard >>
  /\ UNCHANGED << topo, entered, input, mixed >>

TakeFrom(r, src, tag, next) ==
  /\ Matching(src, r, tag) # {}
  /\ LET i == Min(Matching(src, r, tag)) IN
       /\ value' = [value EXCEPT ![r] = net[<< src, r >>][i].data]
       /\ net' = [net EXCEPT ![<< src, r >>] = Without(@, i)]
  /\ Go(r, next)

PpAnswer(r) ==
  /\ At(r, "answer") /\ TakeFrom(r, 0, ReduceTag, "bcast")
  /\ UNCHANGED << topo, entered, input, heard, mixed >>

\* _bcast_to_stage_members, only with pipeline parallelism.
Bcast(r) ==
  /\ At(r, "bcast")
  /\ \/ pp_size = 1 /\ Go(r, "done") /\ UNCHANGED << net, value >>
     \/ /\ pp_size > 1 /\ IsStageLeader(r)
        /\ net' = SendAll(net, r, StageMembers(r) \ {r}, [tag |-> BcastTag, data |-> value[r]])
        /\ Go(r, "done") /\ UNCHANGED value
     \/ pp_size > 1 /\ ~ IsStageLeader(r) /\ TakeFrom(r, StageOffset(r), BcastTag, "done")
  /\ UNCHANGED << topo, entered, input, heard, mixed >>

CommNext ==
  \E r \in World :
    \/ \E ch \in Channels : EnterScatter(r, ch)
    \/ ScatterHop(r) \/ ScatterReturns(r) \/ EnterReduce(r)
    \/ Collective(r, TpGroup(r), "tp", "cp") \/ Collective(r, CpGroup(r), "cp", "pp")
    \/ PpReduce(r) \/ PpAnswer(r) \/ Bcast(r)

-----------------------------------------------------------------------------
\* Every scatter returns on every rank the payload the leader gave to the same
\* operation, however the ranks order their operations; and whoever leaves the
\* reduction has the minimum over all ranks, so nobody leaves it before the last
\* rank has entered it.
CollectivesAgree ==
  /\ ~ mixed
  /\ \A r \in World : At(r, "done") => value[r] = Min({ input[q] : q \in World })
=============================================================================
