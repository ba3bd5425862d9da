----------------------------- MODULE MCConnectors -----------------------------
(***************************************************************************)
(* One behaviour runs one part: a step-driven adapter with its framework,  *)
(* the SGLang connector on two ranks, its layerwise loads, its             *)
(* communication on four ranks, or a server with two clients.              *)
(***************************************************************************)
EXTENDS Connectors, LayerCounter, SGLangConnector, SGLangComm, ServerClient, TLC

VARIABLE part

MCRequests == {"r1", "r2"}
MCAdapters == {"vllm", "vllm_sync", "trtllm"}
MCTopologies == {<< 2, 2, 1 >>, << 2, 1, 2 >>, << 1, 2, 2 >>}
\* Client 0 may be started twice, under its old id.
MCStarts == 0 :> 2 @@ 1 :> 1
MCParts == {"adapter", "layerwise", "sglang", "comm", "server"}

MCInit(parts) ==
  /\ part \in parts
  /\ ConnInit /\ (part # "adapter" => adapter = CHOOSE a \in Adapters : TRUE)
  /\ CtrInit /\ SgInit
  /\ CommInit /\ (part # "comm" => topo = CHOOSE t \in Topologies : TRUE)
              /\ (part # "comm" => input[0] = 0)
  /\ ServerInit /\ (part # "server" => mode = "embedded")

MCNext ==
  /\ \/ part = "adapter" /\ ConnNext /\ UNCHANGED << ctrVars, sgVars, commVars, serverVars >>
     \/ part = "layerwise" /\ CtrNext /\ UNCHANGED << connVars, sgVars, commVars, serverVars >>
     \/ part = "sglang" /\ SgNext /\ UNCHANGED << connVars, ctrVars, commVars, serverVars >>
     \/ part = "comm" /\ CommNext /\ UNCHANGED << connVars, ctrVars, sgVars, serverVars >>
     \/ part = "server" /\ ServerNext /\ UNCHANGED << connVars, ctrVars, sgVars, commVars >>
  /\ UNCHANGED part

mcVars == << part, connVars, ctrVars, sgVars, commVars, serverVars >>

MCSpec == MCInit(MCParts) /\ [][MCNext]_mcVars
MCAdapterSpec == MCInit({"adapter"}) /\ [][MCNext]_mcVars
MCSglangSpec == MCInit({"sglang"}) /\ [][MCNext]_mcVars
=============================================================================
