----------------------------- MODULE LayerCounter -----------------------------
(***************************************************************************)
(* Layerwise loads of the SGLang connector.  Every rank owns a small ring  *)
(* of event sets (one semaphore eventfd per layer); the FlexKV worker adds *)
(* one signal per load and layer, and the rank's forward pass takes as     *)
(* many signals of a layer as loads were added to its batch.  The leader   *)
(* chooses the event set, every rank checks and registers it, and only if  *)
(* all ranks agree is the load launched; otherwise all roll back.          *)
(*                                                                         *)
(* Each rank has a scheduler thread (the load protocol) and a forward      *)
(* thread (the waits); their calls interleave.                             *)
(***************************************************************************)
EXTENDS Integers, FiniteSets

CONSTANTS Ranks, Leader,  \* the ranks that register GPU buffers, the sync leader
          Loads,          \* load tasks, numbered in the order they are started
          NumCounters,    \* event sets of a ring
          NumLayers

ASSUME CounterAssumption ==
  Leader \in Ranks /\ IsFiniteSet(Ranks) /\ Loads \subseteq Nat /\ NumCounters \in Nat \ {0} /\ NumLayers \in Nat \ {0}

Layers == 1 .. NumLayers
Counters == 0 .. NumCounters - 1
None == -1

VARIABLES ev,        \* ev[r][c]: FlexKVLayerLoadingEvent c of rank r
          producer,  \* producer_index of the leader
          consumer,  \* consumer_index of each rank
          members,   \* _consumer_task_ids of each rank
          pre,       \* the load in preflight
          fate,      \* "new", "launched" or "refused" per load
          counterOf, \* event set of a launched load
          copied,    \* layers the worker has copied, per rank and load
          built,     \* loads of the batch a rank is building
          need,      \* loads of the batch a rank's forward pass runs
          fwd,       \* layer the forward pass is at, 0 when idle
          wait,      \* the signals a rank's wait under way takes, and from where
          passed,    \* ghost: loads whose data a layer used before it was there
          resetting, \* ranks that have not yet done the reset the leader decided
          broken,    \* a rank raised out of the rollback
          stuck      \* ghost: the leader was left with a finished set as its consumer

ctrVars == << ev, producer, consumer, members, pre, fate, counterOf, copied, built,
              need, fwd, wait, passed, resetting, broken, stuck >>

Idle == [task |-> None, counter |-> None, expected |-> 0, fresh |-> FALSE,
         ok |-> {}, checked |-> {}, added |-> {}, told |-> {}, verdict |-> "open"]

NoSignals == [counter |-> None, count |-> 0]

Reusable == [finished |-> TRUE, started |-> FALSE,
             remaining |-> [l \in Layers |-> 0], signals |-> [l \in Layers |-> 0]]

\* reset_for_new_transfer: drain what is left of earlier loads, then arm.
Armed == [Reusable EXCEPT !.finished = FALSE]

CtrInit ==
  /\ ev = [r \in Ranks |-> [c \in Counters |-> Reusable]]
  /\ producer = None /\ consumer = [r \in Ranks |-> None]
  /\ members = [r \in Ranks |-> {}] /\ pre = Idle
  /\ fate = [t \in Loads |-> "new"] /\ counterOf = [t \in Loads |-> None]
  /\ copied = [r \in Ranks |-> [t \in Loads |-> 0]]
  /\ built = [r \in Ranks |-> {}] /\ need = [r \in Ranks |-> {}]
  /\ fwd = [r \in Ranks |-> 0] /\ wait = [r \in Ranks |-> NoSignals]
  /\ passed = {} /\ resetting = {} /\ broken = FALSE /\ stuck = FALSE

-----------------------------------------------------------------------------
(* FlexKVLayerDoneCounter *)

\* pending_transfers: defined while no wait has started and the layers agree.
Countable(e) == ~ e.started /\ \A l \in Layers : e.remaining[l] = e.remaining[1]

\* expected_transfer_count on a rank that is not the leader, 0 where it raises.
ExpectedCount(r, c) ==
  LET e == ev[r][c] IN
    IF consumer[r] = c THEN IF ~ e.finished /\ Countable(e) THEN e.remaining[1] + 1 ELSE 0
    ELSE IF consumer[r] = None /\ e.finished THEN 1 ELSE 0

\* Seeded fault: a load marks the layers as pending and does not count.
MarksOnly(e, n) == [e EXCEPT !.remaining = [l \in Layers |-> IF n > 0 THEN 1 ELSE 0]]

\* add_transfer and its undo, remove_transfer.
Plus(e, n) == [e EXCEPT !.remaining = [l \in Layers |-> e.remaining[l] + n]]

-----------------------------------------------------------------------------
(* start_load_kv_layerwise *)

Arm(e) == Armed

\* The leader chooses: the batch that is still open, or the next event set of
\* the ring, which update_producer arms.  The manifest carries the choice.
LeaderSelects(t) ==
  /\ pre = Idle /\ resetting = {} /\ ~ broken
  /\ fate[t] = "new" /\ \A u \in Loads : u < t => fate[u] # "new"
  /\ LET c == consumer[Leader]
         open == c # None /\ ~ ev[Leader][c].finished /\ ~ ev[Leader][c].started
         n == IF open THEN c ELSE (producer + 1) % NumCounters
         usable == open \/ ev[Leader][n].finished
         x == IF open THEN ev[Leader][n].remaining[1] + 1
              ELSE IF usable /\ c \in {None, n} THEN 1 ELSE 0
     IN /\ producer' = IF open THEN producer ELSE n
        /\ ev' = IF ~ open /\ usable THEN [ev EXCEPT ![Leader][n] = Arm(@)] ELSE ev
        /\ pre' = [Idle EXCEPT !.task = t, !.counter = n, !.expected = x,
                               !.fresh = usable /\ c # n]
  /\ fate' = [fate EXCEPT ![t] = "preflight"]
  /\ UNCHANGED << consumer, members, counterOf, copied, built, need, fwd, wait, passed,
                  resetting, broken, stuck >>

\* The checks of the manifest on a rank; a follower looks at its own batch.
ManifestOK(r) ==
  /\ pre.expected > 0
  /\ r # Leader => ExpectedCount(r, pre.counter) = pre.expected

\* A rank checks the manifest and sends its slots to a remote manager if it has
\* to, which may fail.
CheckManifest(r, sendFails) ==
  /\ pre # Idle /\ pre.verdict = "open" /\ r \notin pre.told \union pre.checked
  /\ pre' = IF ManifestOK(r) /\ ~ sendFails THEN [pre EXCEPT !.checked = @ \union {r}]
            ELSE [pre EXCEPT !.told = @ \union {r}]
  /\ UNCHANGED << ev, producer, consumer, members, fate, counterOf, copied, built, need, fwd,
                  wait, passed, resetting, broken, stuck >>

\* Seeded fault: the leader's add_transfer takes a load after waits have begun.
JoinsLate(r) == r # Leader => ExpectedCount(r, pre.counter) > 0

\* What the forward thread did in the meantime is seen by add_transfer on the
\* leader and by a second expected_transfer_count on a follower.
Joins(r) ==
  LET c == pre.counter IN
    IF r = Leader
    THEN consumer[r] \in {None, c} /\ ~ ev[r][c].finished /\ ~ ev[r][c].started
    ELSE ExpectedCount(r, c) > 0

\* register_task and set_consumer; the latter names the consumer before
\* add_transfer may refuse.  A count other than the manifest's is an error, too,
\* found when the load is in the batch.
Register(r) ==
  /\ pre # Idle /\ pre.verdict = "open" /\ r \in pre.checked \ pre.told
  /\ LET c == pre.counter
         e == IF ev[r][c].finished THEN Arm(ev[r][c]) ELSE ev[r][c]
         agrees == e.remaining[1] + 1 = pre.expected
     IN IF Joins(r)
        THEN /\ ev' = [ev EXCEPT ![r][c] = Plus(e, 1)]
             /\ members' = [members EXCEPT ![r] = @ \union {pre.task}]
             /\ pre' = [pre EXCEPT !.told = @ \union {r}, !.added = @ \union {r},
                                   !.ok = IF agrees THEN @ \union {r} ELSE @]
             /\ consumer' = [consumer EXCEPT ![r] = c] /\ UNCHANGED stuck
        ELSE /\ pre' = [pre EXCEPT !.told = @ \union {r}]
             /\ consumer' = [consumer EXCEPT ![r] = IF r = Leader /\ @ = None THEN c ELSE @]
             /\ stuck' = (stuck \/ (r = Leader /\ consumer[r] = None))
             /\ UNCHANGED << ev, members >>
  /\ UNCHANGED << producer, fate, counterOf, copied, built, need, fwd, wait, passed, resetting,
                  broken >>

\* all_reduce_min over the ranks' results; if all agree the leader launches and
\* every rank goes on with the load in its batch.
AllReduce ==
  /\ pre # Idle /\ pre.verdict = "open" /\ pre.told = Ranks
  /\ IF pre.ok = Ranks
     THEN /\ fate' = [fate EXCEPT ![pre.task] = "launched"]
          /\ counterOf' = [counterOf EXCEPT ![pre.task] = pre.counter]
          /\ built' = [r \in Ranks |-> built[r] \union {pre.task}]
          /\ pre' = Idle
     ELSE /\ fate' = [fate EXCEPT ![pre.task] = "refused"]
          /\ pre' = [pre EXCEPT !.verdict = "rollback", !.told = {}]
          /\ UNCHANGED << counterOf, built >>
  /\ UNCHANGED << ev, producer, consumer, members, copied, need, fwd, wait, passed, resetting,
                  broken, stuck >>

\* rollback_prepared_transfer takes the load out, and raises if waits have begun.
\* A leader that has registered and not added, or has armed an event set and not
\* registered (abort_unregistered_selection), gives an empty event set back.
RollBack(r) ==
  /\ pre.verdict = "rollback" /\ r \notin pre.told
  /\ LET c == pre.counter
         e == ev[r][c]
         left == IF r \in pre.added THEN Plus(e, -1) ELSE e
         raises == r \in pre.added /\ ~ (Countable(e) /\ e.remaining[1] > 0)
         mine == r \in pre.added \/ (r = Leader /\ (pre.fresh \/ r \in pre.checked))
         empty == mine /\ Countable(e) /\ left.remaining[1] = 0
     IN /\ ev' = IF raises THEN ev ELSE [ev EXCEPT ![r][c] = IF empty THEN Reusable ELSE left]
        /\ consumer' = [consumer EXCEPT ![r] = IF empty /\ ~ raises /\ @ = c THEN None ELSE @]
        /\ members' = IF raises THEN members ELSE [members EXCEPT ![r] = @ \ {pre.task}]
        /\ broken' = (broken \/ raises)
  /\ pre' = IF pre.told \union {r} = Ranks THEN Idle ELSE [pre EXCEPT !.told = @ \union {r}]
  /\ UNCHANGED << producer, fate, counterOf, copied, built, need, fwd, wait, passed, resetting,
                  stuck >>

-----------------------------------------------------------------------------
(* The worker (LayerwiseTransferWorker): layer by layer, then a signal. *)
CopyLayer(r, t) ==
  /\ fate[t] = "launched" /\ copied[r][t] < NumLayers
  /\ copied' = [copied EXCEPT ![r][t] = @ + 1]
  /\ ev' = [ev EXCEPT ![r][counterOf[t]].signals[copied[r][t] + 1] = @ + 1]
  /\ UNCHANGED << producer, consumer, members, pre, fate, counterOf, built, need, fwd, wait, passed,
                  resetting, broken, stuck >>

(* The forward pass of a rank. *)

\* The scheduler hands its batch to the forward pass.
RunBatch(r) ==
  /\ fwd[r] = 0 /\ built[r] # {} /\ ~ broken /\ resetting = {}
  /\ need' = [need EXCEPT ![r] = built[r]] /\ built' = [built EXCEPT ![r] = {}]
  /\ fwd' = [fwd EXCEPT ![r] = 1]
  /\ UNCHANGED << ev, producer, consumer, members, pre, fate, counterOf, copied, wait,
                  passed, resetting, broken, stuck >>

\* A layer that ran: record what it should have waited for and did not.
Ran(r, l) ==
  /\ passed' = passed \union { t \in need[r] : copied[r][t] < l }
  /\ fwd' = [fwd EXCEPT ![r] = IF l = NumLayers THEN 0 ELSE l + 1]
  /\ need' = [need EXCEPT ![r] = IF l = NumLayers THEN {} ELSE @]

\* wait_until: nothing to wait for, ...
NoWait(r) ==
  /\ fwd[r] # 0 /\ wait[r] = NoSignals
  /\ consumer[r] # None => ev[r][consumer[r]].remaining[fwd[r]] = 0
  /\ Ran(r, fwd[r])
  /\ UNCHANGED << ev, producer, consumer, members, pre, fate, counterOf, copied, built, wait,
                  resetting, broken, stuck >>

\* ... or the signals of the layer: no load joins from here on, ...
WaitBegins(r) ==
  LET l == fwd[r]
      c == consumer[r]
      e == ev[r][c]
  IN /\ l # 0 /\ wait[r] = NoSignals /\ c # None
     /\ e.remaining[l] > 0
     /\ wait' = [wait EXCEPT ![r] = [counter |-> c, count |-> e.remaining[l]]]
     /\ ev' = [ev EXCEPT ![r][c] =
                  [finished |-> e.finished, started |-> TRUE,
                   remaining |-> [e.remaining EXCEPT ![l] = 0], signals |-> e.signals]]
     /\ UNCHANGED << producer, consumer, members, pre, fate, counterOf, copied, built, need, fwd,
                     passed, resetting, broken, stuck >>

\* ... and all of them are taken; the last layer frees the event set.
WaitEnds(r) ==
  LET l == fwd[r]
      w == wait[r]
      e == ev[r][w.counter]
  IN /\ w # NoSignals
     /\ e.signals[l] >= w.count
     /\ ev' = [ev EXCEPT ![r][w.counter] =
                  [finished |-> e.finished \/ l = NumLayers, started |-> e.started,
                   remaining |-> e.remaining,
                   signals |-> [e.signals EXCEPT ![l] = @ - w.count]]]
     /\ consumer' = [consumer EXCEPT ![r] = IF l = NumLayers THEN None ELSE @]
     /\ members' = [members EXCEPT ![r] = IF l = NumLayers THEN {} ELSE @]
     /\ wait' = [wait EXCEPT ![r] = NoSignals]
     /\ Ran(r, l)
     /\ UNCHANGED << producer, pre, fate, counterOf, copied, built, resetting, broken, stuck >>

\* A backend that does not read the buffers of a layer never waits for it, and
\* the signals of that layer stay behind.
SkipLayer(r) ==
  /\ fwd[r] \in 1 .. NumLayers - 1 /\ wait[r] = NoSignals
  /\ fwd' = [fwd EXCEPT ![r] = @ + 1]
  /\ UNCHANGED << ev, producer, consumer, members, pre, fate, counterOf, copied, built, need, wait,
                  passed, resetting, broken, stuck >>

\* reset: the leader waits until every launched load is completely done; then
\* every rank returns its event sets to the ring.
LeaderResets ==
  /\ pre = Idle /\ resetting = {} /\ ~ broken
  /\ \A t \in Loads : fate[t] = "launched" => \A r \in Ranks : copied[r][t] = NumLayers
  /\ \A r \in Ranks : fwd[r] = 0
  /\ \E t \in Loads : fate[t] = "launched"
  /\ resetting' = Ranks
  /\ UNCHANGED << ev, producer, consumer, members, pre, fate, counterOf, copied, built, need,
                  fwd, wait, passed, broken, stuck >>

ResetRank(r) ==
  /\ r \in resetting
  /\ ev' = [ev EXCEPT ![r] = [c \in Counters |-> Reusable]]
  /\ producer' = IF r = Leader THEN None ELSE producer
  /\ consumer' = [consumer EXCEPT ![r] = None]
  /\ members' = [members EXCEPT ![r] = {}]
  /\ built' = [built EXCEPT ![r] = {}]
  /\ resetting' = resetting \ {r} /\ stuck' = (stuck /\ r # Leader)
  /\ UNCHANGED << pre, fate, counterOf, copied, need, fwd, wait, passed, broken >>

CtrNext ==
  \/ \E t \in Loads : LeaderSelects(t)
  \/ \E r \in Ranks, f \in BOOLEAN : CheckManifest(r, f)
  \/ AllReduce
  \/ \E r \in Ranks : Register(r) \/ RollBack(r) \/ RunBatch(r) \/ SkipLayer(r) \/ ResetRank(r)
                      \/ NoWait(r) \/ WaitBegins(r) \/ WaitEnds(r)
  \/ \E r \in Ranks, t \in Loads : CopyLayer(r, t)
  \/ LeaderResets

CtrSpec == CtrInit /\ [][CtrNext]_ctrVars

-----------------------------------------------------------------------------
\* No layer of a forward pass runs before every load of its batch has copied
\* that layer to the rank: signals of another load, of an earlier batch or of
\* another rank's idea of the batch never stand in for the right one.
NoEarlyLayer == passed = {}

\* Loads of an event set that have not copied a layer yet.
Coming(r, c, l) ==
  { t \in Loads : fate[t] = "launched" /\ counterOf[t] = c /\ copied[r][t] < l }

\* Outside the load protocol, a rank waits for exactly the signals the worker
\* has sent or will send for the layers its forward pass has before it: the batch
\* of a rank never counts a load that was refused, or that another rank left out.
\* Otherwise the pass blocks until its timeout although every load succeeded.
\* Exempt are a rollback that raised because a wait had begun, and until the next
\* reset a leader whose batch ended between the choice and the registration:
\* set_consumer has then named the finished set, and no rollback takes that back.
WaitsAreBacked ==
  \A r \in Ranks :
    /\ ~ broken /\ pre = Idle /\ ~ (stuck /\ r = Leader)
    /\ consumer[r] # None
    => LET e == ev[r][consumer[r]] IN
         \A l \in Layers : l >= fwd[r] =>
           e.signals[l] + Cardinality(Coming(r, consumer[r], l)) =
             IF l = fwd[r] /\ wait[r] # NoSignals THEN wait[r].count ELSE e.remaining[l]
=============================================================================
