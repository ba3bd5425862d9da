----------------------------- MODULE MCCacheEngine -----------------------------
(* Model-checking instances of GlobalCacheEngine.  The sequences fork after    *)
(* one and after two blocks, so that nodes are split, extended and shared.     *)
EXTENDS GlobalCacheEngine, TLC

Extended == {<<"a", "b", "c">>, <<"a", "b">>}
Forked == {<<"a", "b", "c">>, <<"a", "d">>}
Short == {<<"a", "b">>, <<"a", "d">>}
Apart == {<<"a", "b", "c">>, <<"e", "f">>}
Nested == Extended \cup Forked
MCSeqs == Nested \cup Apart
Symmetry == Permutations(Plans)

PerTier(cpu, ssd, remote) == [CPU |-> cpu, SSD |-> ssd, REMOTE |-> remote]

(* blocks per tier; evict: free blocks aimed at, and evicted at least. *)
Config(ssd, gds, remote, blocks, evict, seqs, plans, aborts) ==
  [ssd |-> ssd, gds |-> gds, remote |-> remote, num_blocks |-> blocks,
   target_free |-> PerTier(evict, IF ssd THEN evict ELSE 0, 0),
   min_evict |-> PerTier(evict, IF ssd THEN evict ELSE 0, 0),
   seqs |-> seqs, plans |-> plans, aborts |-> aborts]

(* Three plans at a time on the CPU tier alone. *)
CpuOnly == Config(FALSE, FALSE, "none", PerTier(3, 0, 0), 1, Nested, 3, TRUE)

(* Below it an SSD tier, read through the CPU or by GDS; *)
WithSsd(gds, seqs) ==
  Config(TRUE, gds, "none", PerTier(3, 4, 0), 0, seqs, 2, FALSE)

(* a remote tier with an index, alone and with an SSD tier that has lost less
   than the CPU and more than the remote tier (one plan at a time); the store, with an SSD tier
   to write back to. *)
Indexed(seqs) ==
  Config(FALSE, FALSE, "index", PerTier(3, 0, 4), 0, seqs, 2, FALSE)
AllTiers == Config(TRUE, FALSE, "index", PerTier(3, 4, 5), 0, Apart, 1, FALSE)
Stored == Config(TRUE, FALSE, "store", PerTier(2, 2, 0), 0, Short, 2, TRUE)

Local == {CpuOnly} \cup {WithSsd(TRUE, s) : s \in {Extended, Forked, Short}}
Tiered == {Stored, AllTiers} \cup
            UNION {{WithSsd(FALSE, s), Indexed(s)} : s \in {Extended, Forked, Short}}

(* Eviction ahead of need, on both tiers. *)
Evicting == {Config(TRUE, FALSE, "none", PerTier(3, 3, 0), 1, Nested, 2, FALSE)}
=============================================================================
