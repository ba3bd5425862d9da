----------------------------- MODULE ServerClient -----------------------------
(***************************************************************************)
(* Server-client mode of KVManager.  The KVServer process owns the task    *)
(* engine and handles the requests of all data-parallel clients one at a   *)
(* time.  A client's synchronous calls block without a timeout until the   *)
(* server pushes an answer to the port the client registered; a handler    *)
(* that raises sends none.  Clients may leave, crash and be started again  *)
(* under their old id.                                                     *)
(*                                                                         *)
(* Of the task engine (KVTask) only the ids in its table matter here.      *)
(***************************************************************************)
EXTENDS Naturals, Sequences, FiniteSets

CONSTANTS DpClients,    \* dp_client_ids, numbers
          TotalClients, \* capacity of the ClientManager
          IdRange,      \* task ids of a client; 10^7 in the code
          MaxStarts,    \* bound: incarnations of each client
          MaxCalls,     \* bound: calls of all clients
          MaxInbox      \* bound: requests waiting at the server

ASSUME ServerAssumption ==
  /\ DpClients \subseteq Nat /\ IsFiniteSet(DpClients)
  /\ TotalClients \in Nat /\ IdRange \in Nat \ {0} /\ MaxStarts \in [DpClients -> Nat \ {0}] /\ MaxCalls \in Nat
  /\ MaxInbox \in Nat

VARIABLES mode,        \* server_launch_mode
          server,      \* "idle" before the start request, "running", "draining",
                       \* "stopped", "killed", "dead" where run() raised
          inbox,       \* recv_from_client: requests of each port, in order
          client_dict, \* the port registered for each client, NoPort if none
          refused,     \* history: ports whose registration raised
          tasks,       \* ids in the engine's table
          client,      \* [starts, state, counter, waits] of each client
          mail,        \* answers not yet read, per port
          calls        \* calls made so far; numbers the requests

dictVars == << client_dict, refused >>
serverVars == << mode, server, inbox, dictVars, tasks, client, mail, calls >>

NoPort == << >>
NoRequest == [op |-> "none"]
Ports == UNION { {c} \X (1 .. MaxStarts[c]) : c \in DpClients }
PortOf(c) == << c, client[c].starts >>

\* The range of task ids of a client.
FirstId(c) == c * IdRange
TaskIds == UNION { FirstId(c) .. FirstId(c) + IdRange - 1 : c \in DpClients }

\* KVDPClient.__init__
Fresh(c, n) == [starts |-> n, state |-> "new", counter |-> FirstId(c), waits |-> NoRequest]

ServerInit ==
  /\ mode \in {"embedded", "external"}
  /\ server = "idle" /\ inbox = [p \in Ports |-> << >>]
  /\ client_dict = [c \in DpClients |-> NoPort] /\ refused = {}
  /\ tasks = {}
  /\ client = [c \in DpClients |-> Fresh(c, 1)]
  /\ mail = [p \in Ports |-> << >>] /\ calls = 0

-----------------------------------------------------------------------------
(* KVDPClient *)
Request(c, op) == [op |-> op, from |-> c, port |-> PortOf(c), seq |-> calls,
                   task |-> client[c].counter, ids |-> {}]

\* _get_task_id
NextId(c) == IF client[c].counter + 1 >= FirstId(c) + IdRange THEN FirstId(c) ELSE client[c].counter + 1

Sent(c, m) == [inbox EXCEPT ![PortOf(c)] = Append(@, m)]
Room == Cardinality({ e \in Ports \X (1 .. MaxInbox) : e[2] <= Len(inbox[e[1]]) }) < MaxInbox
CanSend(c) == Room /\ client[c].state = "up" /\ client[c].waits = NoRequest /\ calls < MaxCalls

\* start_server_and_register: two messages, between which others may arrive.
start_server(c) ==
  /\ Room /\ client[c].state = "new"
  /\ inbox' = Sent(c, Request(c, "start"))
  /\ client' = [client EXCEPT ![c].state = "started"]
  /\ UNCHANGED << mode, server, dictVars, tasks, mail, calls >>

register_to_server(c) ==
  /\ Room /\ client[c].state = "started"
  /\ inbox' = Sent(c, Request(c, "register"))
  /\ client' = [client EXCEPT ![c].state = "up"]
  /\ UNCHANGED << mode, server, dictVars, tasks, mail, calls >>

\* is_ready / wait / try_wait, get_match / put_match, reset: send, then block.
SyncOps == {"poll", "match", "reset"}
Call(c, op) ==
  /\ CanSend(c)
  /\ inbox' = Sent(c, Request(c, op))
  /\ client' = [client EXCEPT ![c] =
                  [@ EXCEPT !.waits = Request(c, op),
                            !.counter = IF op = "match" THEN NextId(c) ELSE client[c].counter]]
  /\ calls' = calls + 1
  /\ UNCHANGED << mode, server, dictVars, tasks, mail >>

\* get_async / put_async / prefetch_async.
CallAsync(c) ==
  /\ CanSend(c)
  /\ inbox' = Sent(c, Request(c, "create"))
  /\ client' = [client EXCEPT ![c].counter = NextId(c)]
  /\ calls' = calls + 1
  /\ UNCHANGED << mode, server, dictVars, tasks, mail >>

\* launch_tasks, with an id for the batch if as_batch, and cancel_tasks.
Launch(c, op, ids, as_batch) ==
  /\ CanSend(c)
  /\ inbox' = Sent(c, [Request(c, op) EXCEPT !.ids = ids])
  /\ client' = [client EXCEPT ![c].counter = IF as_batch THEN NextId(c) ELSE @]
  /\ calls' = calls + 1
  /\ UNCHANGED << mode, server, dictVars, tasks, mail >>

\* recv_pyobj of a blocked call.
Receive(c) ==
  /\ client[c].waits # NoRequest /\ mail[PortOf(c)] # << >>
  /\ mail' = [mail EXCEPT ![PortOf(c)] = Tail(@)]
  /\ client' = [client EXCEPT ![c].waits = NoRequest]
  /\ UNCHANGED << mode, server, inbox, dictVars, tasks, calls >>

\* KVManager.shutdown: an external server loses a client, an embedded one stops.
Leave(c) ==
  /\ Room /\ client[c].state = "up" /\ client[c].waits = NoRequest
  /\ inbox' = Sent(c, Request(c, IF mode = "external" THEN "unregister" ELSE "shutdown"))
  /\ client' = [client EXCEPT ![c].state = "gone"]
  /\ UNCHANGED << mode, server, dictVars, tasks, mail, calls >>

\* The client's process dies, at any point.
Crash(c) ==
  /\ client[c].state \in {"started", "up"}
  /\ client' = [client EXCEPT ![c] = [@ EXCEPT !.state = "gone", !.waits = NoRequest]]
  /\ UNCHANGED << mode, server, inbox, dictVars, tasks, mail, calls >>

Restart(c) ==
  /\ client[c].state = "gone" /\ client[c].starts < MaxStarts[c]
  /\ client' = [client EXCEPT ![c] = Fresh(c, client[c].starts + 1)]
  /\ UNCHANGED << mode, server, inbox, dictVars, tasks, mail, calls >>

-----------------------------------------------------------------------------
(* KVServer *)

\* The first message must be the start request; run() raises otherwise.
ServerStart(p) ==
  /\ server = "idle" /\ inbox[p] # << >>
  /\ server' = IF Head(inbox[p]).op = "start" THEN "running" ELSE "dead"
  /\ inbox' = [inbox EXCEPT ![p] = Tail(@)]
  /\ UNCHANGED << mode, dictVars, tasks, client, mail, calls >>

\* get_zmq(req.dp_client_id): the answer goes to the registered port; with none
\* registered the handler raises and nobody is answered.
Answer(m) ==
  mail' = IF client_dict[m.from] = NoPort THEN mail
          ELSE [mail EXCEPT ![client_dict[m.from]] = Append(@, m)]

\* Seeded fault: a registered id is simply registered again.
AcceptsAgain(c) == TRUE

\* register_dp_client refuses an id that is there and a client over the capacity.
MayRegister(c) ==
  /\ client_dict[c] = NoPort
  /\ Cardinality({ d \in DpClients : client_dict[d] # NoPort }) < TotalClients

\* Seeded fault: an exception of the engine leaves the reset handler.
ResetRaises(failed) == ~ failed

\* _handle_reset_request answers whether the reset succeeded or not.
ResetAnswers(failed) == TRUE

Handle(m, failed) ==
  /\ client_dict' =
       CASE m.op = "register" /\ MayRegister(m.from) -> [client_dict EXCEPT ![m.from] = m.port]
         [] m.op = "unregister" -> [client_dict EXCEPT ![m.from] = NoPort]
         [] OTHER -> client_dict
  /\ refused' = IF m.op = "register" /\ ~ MayRegister(m.from) THEN refused \union {m.port} ELSE refused
  /\ tasks' =
       CASE m.op \in {"match", "create"} -> tasks \union {m.task}
         \* merge_to_batch_kvtask: a batch of several takes the place of its tasks
         [] m.op = "launch_batch" /\ Cardinality(m.ids) > 1 /\ m.ids \subseteq tasks -> (tasks \ m.ids) \union {m.task}
         [] m.op = "cancel" -> tasks \ m.ids
         [] OTHER -> tasks
  /\ IF \/ m.op = "poll"
        \/ m.op = "match" /\ m.task \notin tasks
        \/ m.op = "reset" /\ ResetAnswers(failed)
     THEN Answer(m) ELSE UNCHANGED mail
  /\ server' = IF m.op = "shutdown" THEN "draining" ELSE server

\* One round of run(): the requests of different clients are received in any
\* order.  Every exception is logged, and the loop goes on.
ServerStep(p, failed) ==
  /\ server = "running" /\ inbox[p] # << >>
  /\ failed => Head(inbox[p]).op = "reset"
  /\ Handle(Head(inbox[p]), failed)
  /\ inbox' = [inbox EXCEPT ![p] = Tail(@)]
  /\ UNCHANGED << mode, client, calls >>

\* A task that ended and was returned leaves the table; so does an expired one.
Forget(t) ==
  /\ t \in tasks /\ tasks' = tasks \ {t}
  /\ UNCHANGED << mode, server, inbox, dictVars, client, mail, calls >>

\* After the loop the engine is shut down; KVServerHandle.shutdown waits five
\* seconds for that and then terminates the process.
Drain ==
  /\ server = "draining"
  /\ server' \in {"stopped", "killed"}
  /\ UNCHANGED << mode, inbox, dictVars, tasks, client, mail, calls >>

ServerNext ==
  \/ \E c \in DpClients :
       \/ start_server(c) \/ register_to_server(c) \/ CallAsync(c) \/ Receive(c)
       \/ Leave(c) \/ Crash(c) \/ Restart(c)
       \/ \E op \in SyncOps : Call(c, op)
       \/ \E ids \in SUBSET (FirstId(c) .. client[c].counter - 1) :
            \/ ids # {} /\ Launch(c, "launch", ids, FALSE)
            \/ ids # {} /\ Launch(c, "launch_batch", ids, TRUE)
            \/ ids # {} /\ Launch(c, "cancel", ids, FALSE)
  \/ \E p \in Ports : ServerStart(p) \/ \E failed \in BOOLEAN : ServerStep(p, failed)
  \/ Drain
  \/ \E t \in TaskIds : Forget(t)

ServerSpec == ServerInit /\ [][ServerNext]_serverVars

-----------------------------------------------------------------------------
\* The request a client waits for is still to be handled, or is answered.
OnItsWay(c) ==
  \/ \E i \in 1 .. Len(inbox[PortOf(c)]) : inbox[PortOf(c)][i] = client[c].waits
  \/ \E i \in 1 .. Len(mail[PortOf(c)]) : mail[PortOf(c)][i] = client[c].waits

\* The server handled the request of a client that blocks for its answer and has
\* sent none only if it ended, if this incarnation of the client is not registered
\* (it was refused, or an earlier one unregistered it), or if the request named
\* a task id that was already in the table (the ids of an earlier incarnation,
\* or a counter that wrapped around).  In every other case the call returns.
SyncCallsAnswered ==
  \A c \in DpClients : client[c].waits # NoRequest =>
    \/ OnItsWay(c)
    \/ server # "running"
    \/ client_dict[c] # PortOf(c)
    \/ client[c].waits.op = "match" /\ (client[c].starts > 1 \/ calls > IdRange)

\* An earlier incarnation of a client was refused: its requests may still be in
\* the inbox, and are answered to whoever is registered under its id.
RefusedBefore(c) == \E n \in 1 .. client[c].starts - 1 : << c, n >> \in refused

\* A call returns the answer to its own request: answers to requests of an
\* earlier incarnation are never read by a later one, unless the server refused
\* to register the earlier one.
AnswersAreOwn ==
  \A c \in DpClients : client[c].state = "up" /\ ~ RefusedBefore(c) =>
    \A i \in 1 .. Len(mail[PortOf(c)]) : mail[PortOf(c)][i] = client[c].waits
=============================================================================
