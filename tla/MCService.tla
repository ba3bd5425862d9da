------------------------------ MODULE MCService ------------------------------
(***************************************************************************)
(* The processes around the task engine and the pools they share.  One     *)
(* behaviour runs one part: sleep and wake of two ranks, the process tree  *)
(* of a manager with two workers, the block pool of a tier, the pool of op *)
(* ids, a batch of two tasks, or a piece of the sharing between nodes: the *)
(* leases, the swap of the index copy, the registry, the reset barrier.    *)
(***************************************************************************)
EXTENDS GpuRemap, ProcessTree, Mempool, SharedOpPool, BatchGraph, LeaseIndex, IndexSwap,
        NodeRegistry, ResetBarrier

VARIABLE part

MCGpuWorkers == << "h2d", "d2h" >>

\* The pool of one tier, with its tree and two plans as the holders of blocks.
MCHolders == {"tree", "plan1", "plan2"}

\* Two replicas of one op that share their host ids, a job that shares one side
\* with them, and a job one side of which is too long.
MCKeys == {"gpu", "host", "disk", "long"}
MCFits == MCKeys \ {"long"}
MCKey == [r0 |-> [src |-> "host", dst |-> "gpu"],
          r1 |-> [src |-> "host", dst |-> "gpu"],
          h2disk |-> [src |-> "host", dst |-> "disk"],
          put |-> [src |-> "long", dst |-> "disk"]]
MCJobs == DOMAIN MCKey

\* The configurations that merge and route differently: with the remote index,
\* the store, the SSD tier only, layerwise loading without and with the store,
\* and direct SSD-to-GPU loads.
BC(layerwise, gds, ssd, remote, swa) ==
  [layerwise |-> layerwise, gds |-> gds, ssd |-> ssd, remote |-> remote, swa |-> swa]
MCBatchConfigs ==
  {BC(FALSE, FALSE, TRUE, "index", FALSE), BC(FALSE, FALSE, FALSE, "store", TRUE),
   BC(FALSE, FALSE, TRUE, "none", TRUE), BC(TRUE, FALSE, TRUE, "none", TRUE),
   BC(TRUE, FALSE, TRUE, "store", FALSE), BC(FALSE, TRUE, TRUE, "none", FALSE)}
MCNoTask == [m \in Batch |-> [moves |-> << >>, calls |-> {}]]

\* Two process slots of one host.
MCHost == [p \in ProcSlots |-> "host"]

MCParts ==
  {"remap", "tree", "blocks", "ops", "batch", "lease", "index", "registry", "barrier"}

MCInit(parts) ==
  /\ part \in parts
  /\ RemapInit /\ TreeInit /\ MemInit
  /\ OpInit /\ (part # "ops" => slot_hashes = [s \in Slots |-> "long"])
  /\ BatchInit /\ LeaseInit /\ SwapInit /\ RegistryInit /\ BarrierInit
  /\ IF part = "batch"
       THEN config \in BatchConfigs /\ member \in Batches
       ELSE config = BC(FALSE, FALSE, FALSE, "none", FALSE) /\ member = MCNoTask

\* The parts of the service proper, and those of the sharing between nodes.
nodeVars == << remapVars, treeVars, memVars, opVars, batchVars >>
shareVars == << leaseVars, swapVars, registryVars, barrierVars >>

MCNext ==
  /\ \/ part = "remap" /\ RemapNext /\ UNCHANGED << treeVars, memVars, opVars, batchVars, shareVars >>
     \/ part = "tree" /\ TreeNext /\ UNCHANGED << remapVars, memVars, opVars, batchVars, shareVars >>
     \/ part = "blocks" /\ MemNext /\ UNCHANGED << remapVars, treeVars, opVars, batchVars, shareVars >>
     \/ part = "ops" /\ OpNext /\ UNCHANGED << remapVars, treeVars, memVars, batchVars, shareVars >>
     \/ part = "batch" /\ BatchNext /\ UNCHANGED << remapVars, treeVars, memVars, opVars, shareVars >>
     \/ part = "lease" /\ LeaseNext /\ UNCHANGED << swapVars, registryVars, barrierVars, nodeVars >>
     \/ part = "index" /\ SwapNext /\ UNCHANGED << leaseVars, registryVars, barrierVars, nodeVars >>
     \/ part = "registry" /\ RegistryNext /\ UNCHANGED << leaseVars, swapVars, barrierVars, nodeVars >>
     \/ part = "barrier" /\ BarrierNext /\ UNCHANGED << leaseVars, swapVars, registryVars, nodeVars >>
  /\ UNCHANGED part

mcVars == << part, nodeVars, shareVars >>

MCSpec == MCInit(MCParts) /\ [][MCNext]_mcVars /\ TreeFairness
MCLeaseSpec == MCInit({"lease"}) /\ [][MCNext]_mcVars
MCTreeSpec == MCInit({"tree"}) /\ [][MCNext]_mcVars /\ TreeFairness
=============================================================================
