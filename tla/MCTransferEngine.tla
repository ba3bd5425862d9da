--------------------------- MODULE MCTransferEngine ---------------------------
(* Model-checking instance of TransferEngine.  g1 is the graph of a put: D2H    *)
(* on two pipeline-parallel siblings, then H2DISK on one worker, then the      *)
(* virtual sink.  g2 is an H2D on the two siblings, behind a virtual op.       *)
EXTENDS TransferEngine

MCGraphs == {"g1", "g2"}
MCVirtual == {"sink", "gate"}
MCDeps == [d2h |-> {}, h2disk |-> {"d2h"}, sink |-> {"d2h", "h2disk"},
           gate |-> {}, h2d |-> {"gate"}]
MCOps == DOMAIN MCDeps
MCGraphId == [o \in MCOps |-> IF o \in {"gate", "h2d"} THEN "g2" ELSE "g1"]
MCSiblings == [d2h |-> {"pp0", "pp1"}, h2disk |-> {}, sink |-> {}, gate |-> {},
               h2d |-> {"pp0", "pp1"}]
MCCanFail == {<<"d2h", "pp0">>, <<"d2h", "pp1">>, <<"h2disk", "single">>,
              <<"h2d", "pp1">>}
=============================================================================
