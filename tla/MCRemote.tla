------------------------------- MODULE MCRemote -------------------------------
(* Two graphs, two GPUs on the remote node.                                *)
EXTENDS RemoteManager

MCGraphs == {"g1", "g2"}
=============================================================================
