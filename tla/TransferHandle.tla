---------------------------- MODULE TransferHandle ----------------------------
(***************************************************************************)
(* What the task layer relies on from a transfer engine, whatever runs     *)
(* inside it: of every submitted graph the op completions in dependency    *)
(* order, each op once, closed by exactly one terminal message; nothing    *)
(* comes after it.  The messages of different graphs mix freely.           *)
(***************************************************************************)
EXTENDS Sequences, Naturals

CONSTANTS
  Graphs, Ops, graph_id, deps

VARIABLES
  given,  \* graphs the engine was given
  log     \* the messages of the engine, fetched or not

handleVars == <<given, log>>

OpDone(o) == [kind |-> "op", graph |-> graph_id[o], op |-> o]
End(g, outcome) == [kind |-> outcome, graph |-> g]

In(m) == \E i \in 1 .. Len(log) : log[i] = m

(* g was given and its end was not reported. *)
Open(g) == /\ g \in given
           /\ \A outcome \in {"completed", "failed"} : ~In(End(g, outcome))

HandleInit ==
  /\ given = {}
  /\ log = <<>>

Submit(gs) ==
  /\ gs # {}
  /\ gs \cap given = {}
  /\ given' = given \cup gs
  /\ UNCHANGED log

Report(g, m) ==
  /\ Open(g)
  /\ log' = Append(log, m)
  /\ UNCHANGED given

ReportOp(o) ==
  /\ ~In(OpDone(o))
  /\ \A p \in deps[o] : In(OpDone(p))
  /\ Report(graph_id[o], OpDone(o))

ReportCompleted(g) ==
  /\ \A o \in Ops : graph_id[o] = g => In(OpDone(o))
  /\ Report(g, End(g, "completed"))

ReportFailed(g) == Report(g, End(g, "failed"))

HandleNext ==
  \/ \E gs \in SUBSET Graphs : Submit(gs)
  \/ \E o \in Ops : ReportOp(o)
  \/ \E g \in Graphs : ReportCompleted(g) \/ ReportFailed(g)

HandleSpec == HandleInit /\ [][HandleNext]_handleVars
=============================================================================
