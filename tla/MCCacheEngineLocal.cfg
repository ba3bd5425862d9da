CONSTANTS
  p1 = p1
  p2 = p2
  p3 = p3
  Plans = {p1, p2, p3}
  Seqs <- MCSeqs
  Configs <- Local
SPECIFICATION Spec
SYMMETRY Symmetry
INVARIANTS
  BlocksAccounted
  TreeShape
  ReadyIsWritten
  HeldNodes
  SourcesIntact
