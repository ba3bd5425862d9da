----------------------------- MODULE RemoteManager -----------------------------
(***************************************************************************)
(* Remote mode: the master's TransferManagerMultiNodeHandle and the        *)
(* TransferManagerOnRemote process on another node (or, under TensorRT-LLM, *)
(* on the same one).  Commands and results travel over PUSH/PULL sockets;  *)
(* readiness is a query with a timeout.                                    *)
(*                                                                         *)
(* A graph that is submitted alone waits on the remote side for the slot   *)
(* mapping of its task.  A rank sends that mapping over the socket of its  *)
(* GPU registration, which the remote side reads only until all GPUs have  *)
(* registered.                                                             *)
(***************************************************************************)
EXTENDS Naturals, Sequences

CONSTANTS RemoteGraphs,  \* graphs, each of one task
          RemoteGpus     \* registrations the remote side waits for

VARIABLES remote,            \* "config", "registering", "ready"
          command_socket,    \* messages to the remote side
          register_socket,   \* messages of the ranks to the registration port
          gpus,              \* ranks registered so far
          query,             \* a query is waiting for its answer
          is_ready,          \* the master has seen a positive answer
          _pending_graphs,   \* graphs that wait for a slot mapping
          _pending_slot_mappings,
          _active_graphs,    \* the op whose end is reported early, per graph
          in_engine,         \* progress of the graphs submitted to the engine
          result_socket,     \* completions on their way to the master
          _result_buffer,    \* completions the master has received
          sent               \* graphs launched, and mappings sent, so far

remoteVars == << remote, command_socket, register_socket, gpus, query, is_ready, _pending_graphs,
                 _pending_slot_mappings, _active_graphs, in_engine, result_socket, _result_buffer, sent >>

RmInit ==
  /\ remote = "config" /\ command_socket = << [type |-> "config"] >>   \* send_config_to_remotes
  /\ register_socket = << >> /\ gpus = 0
  /\ query = FALSE /\ is_ready = FALSE
  /\ _pending_graphs = {} /\ _pending_slot_mappings = {}
  /\ _active_graphs = [g \in RemoteGraphs |-> "none"]
  /\ in_engine = [g \in RemoteGraphs |-> "none"]
  /\ result_socket = << >> /\ _result_buffer = << >>
  /\ sent = [graphs |-> {}, mappings |-> {}]

-----------------------------------------------------------------------------
(* The master and the ranks *)

\* query_ready: sent again after a timeout; the reply of an older query is
\* dropped (REQ_RELAXED, REQ_CORRELATE).
AskReady ==
  /\ ~ is_ready /\ ~ query
  /\ query' = TRUE
  /\ UNCHANGED << remote, command_socket, register_socket, gpus, is_ready, _pending_graphs,
                  _pending_slot_mappings, _active_graphs, in_engine, result_socket, _result_buffer, sent >>

AskTimeout ==
  /\ query
  /\ query' = FALSE
  /\ UNCHANGED << remote, command_socket, register_socket, gpus, is_ready, _pending_graphs,
                  _pending_slot_mappings, _active_graphs, in_engine, result_socket, _result_buffer, sent >>

Launch(g, message) ==
  /\ is_ready /\ g \notin sent.graphs
  /\ sent' = [sent EXCEPT !.graphs = @ \union {g}]
  /\ command_socket' = Append(command_socket, message)
  /\ UNCHANGED << remote, register_socket, gpus, query, is_ready, _pending_graphs,
                  _pending_slot_mappings, _active_graphs, in_engine, result_socket, _result_buffer >>

\* _launch_task: one graph with its task_end_op_id.
submit(g) == Launch(g, [type |-> "submit", graph |-> g, task_end_op_id |-> "end"])

\* launch_tasks: the end op is not part of the message.
submit_batch(g) == Launch(g, [type |-> "submit_batch", graph |-> g])

\* KVTPClient: registration, and later the slot mapping, down the same socket.
RegisterRank ==
  /\ Len(register_socket) + gpus < RemoteGpus
  /\ register_socket' = Append(register_socket, [type |-> "register"])
  /\ UNCHANGED << remote, command_socket, gpus, query, is_ready, _pending_graphs,
                  _pending_slot_mappings, _active_graphs, in_engine, result_socket, _result_buffer, sent >>

set_slot_mapping(g) ==
  /\ g \in sent.graphs \ sent.mappings
  /\ sent' = [sent EXCEPT !.mappings = @ \union {g}]
  /\ register_socket' = Append(register_socket, [type |-> "set_slot_mapping", task_id |-> g])
  /\ UNCHANGED << remote, command_socket, gpus, query, is_ready, _pending_graphs,
                  _pending_slot_mappings, _active_graphs, in_engine, result_socket, _result_buffer >>

\* The master's _polling_worker.
ReceiveResult ==
  /\ result_socket # << >>
  /\ _result_buffer' = Append(_result_buffer, Head(result_socket))
  /\ result_socket' = Tail(result_socket)
  /\ UNCHANGED << remote, command_socket, register_socket, gpus, query, is_ready, _pending_graphs,
                  _pending_slot_mappings, _active_graphs, in_engine, sent >>

-----------------------------------------------------------------------------
(* The remote side *)

_initialize_with_config ==
  /\ remote = "config" /\ command_socket # << >>
  /\ command_socket' = Tail(command_socket) /\ remote' = "registering"
  /\ UNCHANGED << register_socket, gpus, query, is_ready, _pending_graphs,
                  _pending_slot_mappings, _active_graphs, in_engine, result_socket, _result_buffer, sent >>

\* The only reader of the registration port; it stops at the last GPU.
ReadRegistration ==
  /\ remote = "registering" /\ register_socket # << >>
  /\ register_socket' = Tail(register_socket)
  /\ gpus' = gpus + 1
  /\ remote' = IF gpus' = RemoteGpus THEN "ready" ELSE remote
  /\ UNCHANGED << command_socket, query, is_ready, _pending_graphs,
                  _pending_slot_mappings, _active_graphs, in_engine, result_socket, _result_buffer, sent >>

Run(g, end) ==
  /\ _active_graphs' = [_active_graphs EXCEPT ![g] = end]
  /\ in_engine' = [in_engine EXCEPT ![g] = "running"]

_handle_submit(g, end) ==
  IF g \in _pending_slot_mappings
  THEN /\ _pending_slot_mappings' = _pending_slot_mappings \ {g}
       /\ Run(g, end) /\ UNCHANGED _pending_graphs
  ELSE /\ _pending_graphs' = _pending_graphs \union {g}
       /\ UNCHANGED << _pending_slot_mappings, _active_graphs, in_engine >>

\* _polling_worker: commands.  No sender of the program reaches the branch for
\* set_slot_mapping messages.
ReadCommand ==
  /\ remote = "ready" /\ command_socket # << >>
  /\ command_socket' = Tail(command_socket)
  /\ LET m == Head(command_socket)
     IN IF m.type = "submit" THEN _handle_submit(m.graph, m.task_end_op_id)
        ELSE Run(m.graph, "whole") /\ UNCHANGED << _pending_graphs, _pending_slot_mappings >>
  /\ UNCHANGED << remote, register_socket, gpus, query, is_ready, result_socket, _result_buffer, sent >>

AnswerReady ==
  /\ remote = "ready" /\ query
  /\ query' = FALSE /\ is_ready' = TRUE
  /\ UNCHANGED << remote, command_socket, register_socket, gpus, _pending_graphs,
                  _pending_slot_mappings, _active_graphs, in_engine, result_socket, _result_buffer, sent >>

\* wait, then the completions that are forwarded.  The end op is reported early
\* where the submit named it.
EngineReports(g) ==
  /\ in_engine[g] \in {"running", "tail"}
  /\ LET op == IF in_engine[g] = "running" THEN "end" ELSE "whole"
     IN /\ in_engine' = [in_engine EXCEPT ![g] = IF op = "end" THEN "tail" ELSE "done"]
        /\ result_socket' = IF op = "whole" \/ _active_graphs[g] = op
                            THEN Append(result_socket, << g, op >>) ELSE result_socket
        /\ _active_graphs' = IF op = "whole" THEN [_active_graphs EXCEPT ![g] = "none"] ELSE _active_graphs
  /\ UNCHANGED << remote, command_socket, register_socket, gpus, query, is_ready, _pending_graphs,
                  _pending_slot_mappings, _result_buffer, sent >>

RmNext ==
  \/ AskReady \/ AskTimeout \/ RegisterRank \/ ReceiveResult
  \/ _initialize_with_config \/ ReadRegistration \/ ReadCommand \/ AnswerReady
  \/ \E g \in RemoteGraphs : submit(g) \/ submit_batch(g) \/ set_slot_mapping(g) \/ EngineReports(g)

\* Both sides run; ranks send the mapping of every graph that was launched.
RmFairness ==
  /\ WF_remoteVars(ReceiveResult) /\ WF_remoteVars(ReadCommand) /\ WF_remoteVars(ReadRegistration)
  /\ \A g \in RemoteGraphs : WF_remoteVars(set_slot_mapping(g)) /\ WF_remoteVars(EngineReports(g))

RmSpec == RmInit /\ [][RmNext]_remoteVars /\ RmFairness

-----------------------------------------------------------------------------
\* "Send set_slot_mapping message to TransferManagerOnRemote via existing ZMQ
\* channel": a graph whose slot mapping a rank has sent is run to its end.
MappedGraphsRun ==
  \A g \in RemoteGraphs : (g \in sent.mappings) ~> (\E i \in DOMAIN _result_buffer : _result_buffer[i] = << g, "whole" >>)
=============================================================================
