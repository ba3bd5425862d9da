------------------------------- MODULE MCKVTask -------------------------------
(* Model-checking instances of KVTask.                                         *)
EXTENDS KVTask

CONSTANTS t1, t2, b1, local, remote

Scope(tasks, batches, handles, planned, hostile, terminal) ==
  [tasks |-> tasks, batches |-> batches, handles |-> handles, planned |-> planned,
   callbackRaises |-> hostile, cancelRunning |-> hostile, reset |-> hostile,
   batchTerminal |-> terminal]

\* One task on a local and a remote handle, with callbacks that raise, resets,
\* and cancels in flight; and two tasks that may be merged into a batch.
MCScopes == {Scope({t1}, {}, {local, remote}, 2, TRUE, FALSE),
             Scope({t1, t2}, {b1}, {local}, 1, FALSE, TRUE)}
\* One task that the caller cancels in flight.
MCCancelled == {[Scope({t1}, {}, {local}, 1, FALSE, FALSE) EXCEPT !.cancelRunning = TRUE]}
=============================================================================
