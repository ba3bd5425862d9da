---------------------------- MODULE NodeRegistry ----------------------------
(***************************************************************************)
(* Who is in the cluster (flexkv/cache/redis_meta.py).  A process gets a   *)
(* node id from a counter in Redis, writes node:<id> under a time to live  *)
(* and meta:<id> with its buffer addresses, and a heartbeat thread renews  *)
(* both; a process that crashes is forgotten when they expire.  A starting *)
(* process removes what earlier ones left behind on its host, and every    *)
(* process that hears of a change removes the data of the ids that went.   *)
(***************************************************************************)
EXTENDS Integers

CONSTANTS ProcSlots,       \* process slots; a slot runs one process at a time
          Host,          \* slot -> IP address
          NodeTTL,       \* node_ttl_seconds; a heartbeat comes every third of it
          MetaTTL,       \* node_ttl_seconds * META_TTL_MULTIPLIER
          FirstId,       \* global:node_id before the first registration
          MaxId,         \* bound on the ids given out
          StartsApart    \* processes of one host do not register at the same time

ASSUME RegistryAssumption ==
  /\ NodeTTL \in Nat \ {0}
  /\ MetaTTL \in Nat /\ MetaTTL > NodeTTL \div 3
  /\ FirstId \in Nat /\ MaxId \in Nat

VARIABLES proc,        \* slot -> the process
          node_keys,     \* id -> node:<id>
          meta_keys,     \* id -> time left of meta:<id>
          node_id        \* global:node_id

registryVars == << proc, node_keys, meta_keys, node_id >>

Gone == 0          \* a key that does not exist
NoExpiry == -1     \* a key without a time to live
Ids == (FirstId + 1)..MaxId
NoKey == [ttl |-> Gone, ip |-> "none"]
Off == [pc |-> "off", id |-> 0, stale |-> {}, known |-> {}, told |-> FALSE,
        tracked |-> FALSE, due |-> FALSE, stamp |-> FALSE]

Running(p) == proc[p].pc # "off"
Up(p) == proc[p].pc = "up"
HasKey(i) == node_keys[i].ttl # Gone
SameHost(p) == {q \in ProcSlots : Host[q] = Host[p]}
\* publish: every subscribed process will scan.
Told(ps) == [q \in ProcSlots |-> [ps[q] EXCEPT !.told = ps[q].pc # "off"]]

\* _cleanup_node_data: the pattern meta:<id>* takes the ids that begin with the
\* same digits too.
MetaPattern(i) == {j \in Ids : j = i \/ j \div 10 = i}
MetaWithout(is) == [j \in Ids |-> IF \E i \in is : j \in MetaPattern(i) THEN Gone ELSE meta_keys[j]]

-----------------------------------------------------------------------------
(* register_node. *)

\* A key of this host whose time to live is half gone, or that has none, is
\* taken for that of a dead process.
StaleByIp_anyTtl(p) == {i \in Ids : HasKey(i) /\ node_keys[i].ip = Host[p]}
StaleByIp(p) ==
  {i \in Ids : /\ HasKey(i) /\ node_keys[i].ip = Host[p]
               /\ node_keys[i].ttl <= NodeTTL \div 2}

RegisterScans(p) ==
  /\ proc[p].pc = "off"
  /\ StartsApart => \A q \in SameHost(p) : proc[q].pc \in {"off", "up"}
  /\ proc' = [proc EXCEPT ![p] = [Off EXCEPT !.pc = "clean", !.stale = StaleByIp(p)]]
  /\ UNCHANGED << node_keys, meta_keys, node_id >>

RegisterCleans(p) ==
  /\ proc[p].pc = "clean"
  /\ node_keys' = [i \in Ids |-> IF i \in proc[p].stale THEN NoKey ELSE node_keys[i]]
  /\ meta_keys' = MetaWithout(proc[p].stale)
  /\ LET next == [proc EXCEPT ![p] = [@ EXCEPT !.pc = "incr", !.stale = {}]]
     IN  proc' = IF proc[p].stale = {} THEN next ELSE Told(next)
  /\ UNCHANGED node_id

\* INCR and HSET; EXPIRE is a command of its own.
RegisterWrites(p) ==
  /\ proc[p].pc = "incr" /\ node_id < MaxId
  /\ node_id' = node_id + 1
  /\ node_keys' = [node_keys EXCEPT ![node_id + 1] = [ttl |-> NoExpiry, ip |-> Host[p]]]
  /\ proc' = [proc EXCEPT ![p] = [@ EXCEPT !.pc = "expire", !.id = node_id + 1]]
  /\ UNCHANGED meta_keys

\* EXPIRE does nothing to a key that is gone.  init_meta scans right after.
RegisterExpires(p) ==
  /\ proc[p].pc = "expire"
  /\ node_keys' = [node_keys EXCEPT ![proc[p].id].ttl = IF @ = Gone THEN Gone ELSE NodeTTL]
  /\ proc' = Told([proc EXCEPT ![p].pc = "up"])
  /\ UNCHANGED << meta_keys, node_id >>

RegistNodeMeta(p) ==
  /\ Up(p) /\ ~proc[p].tracked
  /\ meta_keys' = [meta_keys EXCEPT ![proc[p].id] = MetaTTL]
  /\ proc' = [proc EXCEPT ![p].tracked = TRUE]
  /\ UNCHANGED << node_keys, node_id >>

-----------------------------------------------------------------------------
(* The heartbeat thread: EXPIRE, and only if that found the key, HSET and  *)
(* the metadata.                                                           *)

HeartbeatExpires(p) ==
  /\ Up(p) /\ proc[p].due
  /\ node_keys' = [node_keys EXCEPT ![proc[p].id].ttl = IF @ = Gone THEN Gone ELSE NodeTTL]
  /\ proc' = [proc EXCEPT ![p] = [@ EXCEPT !.due = FALSE, !.stamp = HasKey(proc[p].id)]]
  /\ UNCHANGED << meta_keys, node_id >>

HeartbeatStamps(p) ==
  /\ Running(p) /\ proc[p].stamp
  /\ node_keys' = [node_keys EXCEPT ![proc[p].id].ttl = IF @ = Gone THEN NoExpiry ELSE @]
  /\ meta_keys' = [meta_keys EXCEPT ![proc[p].id] =
                     IF @ # Gone /\ proc[p].tracked THEN MetaTTL ELSE @]
  /\ proc' = [proc EXCEPT ![p].stamp = FALSE]
  /\ UNCHANGED node_id

\* The listener: a scan, and the data of the ids that disappeared goes.
ScanActiveNodes(p) ==
  /\ Running(p) /\ proc[p].told
  /\ LET active == {i \in Ids : HasKey(i)}
     IN  /\ meta_keys' = MetaWithout((proc[p].known \ active) \ {proc[p].id})
         /\ proc' = [proc EXCEPT ![p] = [@ EXCEPT !.known = active, !.told = FALSE]]
  /\ UNCHANGED << node_keys, node_id >>

-----------------------------------------------------------------------------
(* The end of a process: unregister_node, or a crash. *)

UnregisterNode(p) ==
  /\ Up(p)
  /\ node_keys' = [node_keys EXCEPT ![proc[p].id] = NoKey]
  /\ meta_keys' = MetaWithout({proc[p].id})
  /\ proc' = Told([proc EXCEPT ![p] = [@ EXCEPT !.pc = "leaving", !.due = FALSE]])
  /\ UNCHANGED node_id

ProcessEnds(p) ==
  /\ Running(p)
  /\ proc' = [proc EXCEPT ![p] = Off]
  /\ UNCHANGED << node_keys, meta_keys, node_id >>

\* A third of the time to live passes; no heartbeat is late.
Aged(t, step) == IF t <= 0 THEN t ELSE IF t <= step THEN Gone ELSE t - step
RegistryTick ==
  /\ \A p \in ProcSlots : ~proc[p].due /\ ~proc[p].stamp
  /\ node_keys' = [i \in Ids |-> LET t == Aged(node_keys[i].ttl, NodeTTL \div 3)
                                 IN IF t = Gone THEN NoKey ELSE [node_keys[i] EXCEPT !.ttl = t]]
  /\ meta_keys' = [i \in Ids |-> Aged(meta_keys[i], NodeTTL \div 3)]
  /\ proc' = [p \in ProcSlots |-> [proc[p] EXCEPT !.due = Up(p)]]
  /\ UNCHANGED node_id

RegistryInit ==
  /\ proc = [p \in ProcSlots |-> Off]
  /\ node_keys = [i \in Ids |-> NoKey]
  /\ meta_keys = [i \in Ids |-> Gone]
  /\ node_id = FirstId

RegistryNext ==
  \/ \E p \in ProcSlots :
       \/ RegisterScans(p) \/ RegisterCleans(p) \/ RegisterWrites(p) \/ RegisterExpires(p)
       \/ RegistNodeMeta(p) \/ HeartbeatExpires(p) \/ HeartbeatStamps(p)
       \/ ScanActiveNodes(p) \/ UnregisterNode(p) \/ ProcessEnds(p)
  \/ RegistryTick

RegistrySpec == RegistryInit /\ [][RegistryNext]_registryVars

-----------------------------------------------------------------------------
(* Nobody throws a live node out: as long as a process is up and its       *)
(* heartbeats are in time, its node key and the metadata it registered are *)
(* in Redis, whatever other processes start, stop, crash or clean up on    *)
(* its host and elsewhere.                                                 *)
LiveNodesKept ==
  \A p \in ProcSlots : Up(p) =>
    /\ HasKey(proc[p].id)
    /\ proc[p].tracked => meta_keys[proc[p].id] # Gone
=============================================================================
