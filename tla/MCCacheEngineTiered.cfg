CONSTANTS
  p1 = p1
  p2 = p2
  Plans = {p1, p2}
  Seqs <- MCSeqs
  Configs <- Tiered
SPECIFICATION Spec
SYMMETRY Symmetry
INVARIANTS
  CacheConsistent
