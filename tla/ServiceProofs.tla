---------------------------- MODULE ServiceProofs ----------------------------
(***************************************************************************)
(* Proofs about the processes around the task engine: the tree of the      *)
(* manager and its workers (ProcessTree), for any number of workers, sleep *)
(* and wake of the inference engine (GpuRemap), for any number of ranks,   *)
(* workers, control requests and transfers, and the calls of the clients   *)
(* of a server (ServerClient), for any number of clients, starts and       *)
(* calls.                                                                  *)
(***************************************************************************)
EXTENDS ProcessTree, GpuRemap, ServerClient, TLAPS

-----------------------------------------------------------------------------
(* ProcessTree. *)

ProcPhases == {"none", "init", "run", "hung", "closing", "ended", "died"}
ManagerPhases == {"registering", "spawning", "waiting", "running", "stopping", "rollback",
                  "exiting", "exit_join", "ended", "died"}

TreeTypes ==
  /\ manager \in ManagerPhases
  /\ worker \in [Procs -> ProcPhases]
  /\ handle \in [Procs -> {"idle", "joining", "terminated", "closed", "stray"}]

(* While the manager stops its workers, a handle that is done with has no live
   process behind it, and every other one is being seen to. *)
HandlesDone ==
  manager \in {"stopping", "rollback"} =>
    \A w \in Procs : /\ handle[w] # "idle"
                     /\ handle[w] \in {"closed", "stray"} => ~ Alive(w)

TreeInv == TreeTypes /\ HandlesDone /\ ManagerIsLast

LEMMA NextTreeInv ==
  ASSUME TreeInv, [TreeNext]_treeVars
  PROVE  TreeInv'
<1> USE DEF TreeInv, TreeTypes, HandlesDone, ManagerIsLast, ManagerPhases, ProcPhases, Alive
<1>1. CASE shutdown \/ ParentJoins \/ ParentDies \/ _reap_children
  BY <1>1 DEF shutdown, ParentJoins, ParentDies, _reap_children, parentOnly
<1>2. CASE ParentTerminates
  BY <1>2 DEF ParentTerminates, AfterSigterm, Sentinels, Handles, ManagerEnded
<1>3. CASE ParentKills
  BY <1>3 DEF ParentKills, parentOnly
<1>4. CASE RegisterGpu
  BY <1>4 DEF RegisterGpu, managerOnly
<1>5. CASE SpawnWorker
  BY <1>5 DEF SpawnWorker, managerOnly
<1>6. CASE SpawnFails
  BY <1>6 DEF SpawnFails, RollBack, Handles, managerOnly
<1>7. CASE WorkerIsReady
  BY <1>7 DEF WorkerIsReady, managerOnly
<1>8. CASE DeathNoticed
  BY <1>8 DEF DeathNoticed, RollBack, Handles
<1>9. CASE LeaveLoop
  BY <1>9 DEF LeaveLoop, Handles
<1>10. CASE ExitHandler
  BY <1>10 DEF ExitHandler, managerOnly
<1>11. CASE ManagerEnds
  BY <1>11 DEF ManagerEnds, managerOnly
<1>12. ASSUME NEW w \in Procs, HandleJoins(w)
       PROVE  TreeInv'
  BY <1>12 DEF HandleJoins, Ended
<1>13. ASSUME NEW w \in Procs, HandleTerminates(w)
       PROVE  TreeInv'
  BY <1>13 DEF HandleTerminates, managerOnly
<1>14. ASSUME NEW w \in Procs, HandleKills(w)
       PROVE  TreeInv'
  BY <1>14 DEF HandleKills, managerOnly
<1>15. ASSUME NEW w \in Procs, ProcStep(w) \/ WorkerHangs(w) \/ WorkerDies(w)
       PROVE  TreeInv'
  BY <1>15 DEF ProcStep, WorkerPins, WorkerStarts, WorkerInitFails, WorkerLeaves, WorkerCloses,
               WorkerHangs, WorkerDies, workerOnly
<1>16. CASE UNCHANGED treeVars
  BY <1>16 DEF treeVars
<1> QED BY <1>1, <1>2, <1>3, <1>4, <1>5, <1>6, <1>7, <1>8, <1>9, <1>10, <1>11, <1>12, <1>13,
           <1>14, <1>15, <1>16 DEF TreeNext, ParentStep, ManagerStep

(* No worker outlives a manager that ended by itself, for any number of workers. *)
THEOREM ManagerIsLastAlways == TreeSpec => []ManagerIsLast
<1>1. TreeInit => TreeInv
  BY DEF TreeInit, TreeInv, TreeTypes, HandlesDone, ManagerIsLast, ManagerPhases, ProcPhases
<1>2. TreeInv /\ [TreeNext]_treeVars => TreeInv'
  BY NextTreeInv
<1>3. TreeInv => ManagerIsLast
  BY DEF TreeInv
<1> QED BY <1>1, <1>2, <1>3, PTL DEF TreeSpec

-----------------------------------------------------------------------------
(* GpuRemap. *)

Phases == {"awake", "suspending", "asleep", "resuming", "broken"}
Requests == {"suspend_gpu", "resume_gpu"}
Control == [type : Requests, rank : GpuRanks, at : 1 .. Len(GpuWorkers), request_id : Nat]
PipeMessage == [type : {"op"}] \union
               [type : Requests, request_id : Nat, payload : [GpuRanks -> Nat]]

RemapTypes ==
  /\ rank \in [GpuRanks -> [phase : Phases, gen : Nat \ {0}]]
  /\ freed \in SUBSET (GpuRanks \X Nat)
  /\ asked \in [GpuRanks -> Requests \union {"none"}]
  /\ reply \in [GpuRanks -> {"none", "ok", "error"}]
  /\ gpu_suspended \in BOOLEAN
  /\ pending_resume_registrations \in [GpuRanks -> Nat]
  /\ control = Idle \/ control \in Control
  /\ controls \in Nat
  /\ pipe \in [WorkerSet -> Seq(PipeMessage)]
  /\ acks \in [WorkerSet -> Seq([request_id : Nat, ok : BOOLEAN])]
  /\ gpu_blocks \in [WorkerSet -> [GpuRanks -> Nat]]

(* What the manager is doing for a rank, and what a rank still wants of it. *)
Serving(r) == control.type \in Requests /\ control.rank = r
Wants(r, t) == asked[r] = t \/ (Serving(r) /\ control.type = t)
ResumeAt(w, i) == pipe[w][i].type = "resume_gpu"
NoResumeSent == \A w \in WorkerSet : \A i \in 1 .. Len(pipe[w]) : ~ ResumeAt(w, i)
NothingMapped == \A w \in WorkerSet : \A r \in GpuRanks : gpu_blocks[w][r] = 0
NoneRegistered == \A s \in GpuRanks : pending_resume_registrations[s] = 0
AllRegistered == \A s \in GpuRanks : pending_resume_registrations[s] > 0

(* The REQ socket of a rank: one request of it is under way, of the kind that
   its phase says.  A rank that timed out may still have one. *)
OneRequest ==
  \A r \in GpuRanks :
    /\ asked[r] # "none" => reply[r] = "none" /\ ~ Serving(r)
    /\ Serving(r) => reply[r] = "none"
    /\ rank[r].phase \in {"awake", "asleep"} => asked[r] = "none" /\ reply[r] = "none" /\ ~ Serving(r)
    /\ Wants(r, "suspend_gpu") => rank[r].phase \in {"suspending", "broken"}
    /\ Wants(r, "resume_gpu") => rank[r].phase \in {"resuming", "broken"}

(* Nothing of a resume is left over while a rank is being put to sleep. *)
SuspendActive == \E r \in GpuRanks : rank[r].phase = "suspending" \/ Wants(r, "suspend_gpu")
SuspendAlone ==
  SuspendActive =>
    /\ NoneRegistered /\ NoResumeSent
    /\ \A r \in GpuRanks : rank[r].phase # "resuming" /\ ~ Wants(r, "resume_gpu")

(* The registrations of a wake-up: of the memory a rank has now, of ranks that
   woke; a rank that is missing has not woken, or has not been answered; and
   they are all there only while the last one is being served or has failed. *)
Registered ==
  /\ ~ gpu_suspended => NoneRegistered
  /\ control.type = "resume_gpu" => AllRegistered
  /\ \A s \in GpuRanks :
       pending_resume_registrations[s] > 0 =>
         /\ pending_resume_registrations[s] = rank[s].gen
         /\ rank[s].phase \in {"resuming", "awake", "broken"}
  /\ \A s, t \in GpuRanks :
       pending_resume_registrations[t] = 0 /\ pending_resume_registrations[s] > 0 =>
         rank[t].gen < rank[s].gen \/ rank[t].phase \in {"resuming", "broken"}
  /\ \A t \in GpuRanks :
       rank[t].phase = "resuming" /\ reply[t] = "ok" =>
         pending_resume_registrations[t] > 0 \/ ~ gpu_suspended
  /\ \A q \in GpuRanks : AllRegistered =>
       \E r \in GpuRanks :
         \/ rank[r].phase = "broken"
         \/ rank[r].phase = "resuming" /\ (reply[r] = "error" \/ (Serving(r) /\ control.type = "resume_gpu"))

(* Ranks sleep and wake together: memory generations differ by the wake-up under
   way only, and a rank that is awake without having registered, while mappings
   are suspended, has not slept. *)
Generations ==
  \A r, t \in GpuRanks :
    /\ SuspendActive => rank[r].gen = rank[t].gen
    /\ rank[r].phase = "asleep" /\ rank[t].phase = "asleep" => rank[r].gen = rank[t].gen
    /\ (rank[r].phase = "resuming" \/ Wants(r, "resume_gpu")) /\ rank[t].phase = "asleep" =>
         rank[t].gen < rank[r].gen
    /\ rank[t].phase = "awake" /\ gpu_suspended /\ pending_resume_registrations[t] = 0 =>
         /\ rank[r].phase = "asleep" => rank[r].gen >= rank[t].gen
         /\ rank[r].phase # "resuming" /\ ~ Wants(r, "resume_gpu")

(* Control requests are numbered apart, and a request that was answered is no
   longer in a pipe. *)
MessageIds ==
  /\ control.type \in Requests => control.request_id <= controls
  /\ \A w \in WorkerSet : \A i \in 1 .. Len(pipe[w]) :
       pipe[w][i].type # "op" => pipe[w][i].request_id \in 1 .. controls
  /\ \A w \in WorkerSet : \A i \in 1 .. Len(acks[w]) : acks[w][i].request_id \in 1 .. controls
  /\ \A w, v \in WorkerSet : \A i \in 1 .. Len(pipe[w]), j \in 1 .. Len(pipe[v]) :
       pipe[w][i].type # "op" /\ pipe[v][j].type # "op" /\ pipe[w][i].request_id = pipe[v][j].request_id
         => w = v /\ i = j
  /\ \A w, v \in WorkerSet : \A i \in 1 .. Len(pipe[w]), j \in 1 .. Len(acks[v]) :
       pipe[w][i].type # "op" => pipe[w][i].request_id # acks[v][j].request_id

(* A resume still in a pipe is the one being waited for, unless a wake-up has
   failed. *)
WakeFailed ==
  \E r \in GpuRanks : rank[r].phase = "broken" \/ (rank[r].phase = "resuming" /\ reply[r] = "error")
NoLateResume ==
  \A w \in WorkerSet : \A i \in 1 .. Len(pipe[w]) :
    ResumeAt(w, i) =>
      WakeFailed \/ (control.type = "resume_gpu" /\ pipe[w][i].request_id = control.request_id)

FreshPayloads ==
  \A w \in WorkerSet : \A i \in 1 .. Len(pipe[w]) :
    ResumeAt(w, i) => \A r \in GpuRanks : << r, pipe[w][i].payload[r] >> \notin freed

(* A granted suspend has every worker unmapped; a running one has those it is
   past, and the one whose reply to this very request is there. *)
Unmapped ==
  /\ \A r \in GpuRanks : rank[r].phase = "suspending" /\ reply[r] = "ok" => NothingMapped
  /\ gpu_suspended /\ NoneRegistered => NothingMapped /\ NoResumeSent
  /\ control.type = "suspend_gpu" =>
       /\ \A i \in 1 .. control.at - 1 : \A r \in GpuRanks : gpu_blocks[GpuWorkers[i]][r] = 0
       /\ \A w \in WorkerSet : \A i \in 1 .. Len(acks[w]) :
            acks[w][i].request_id = control.request_id =>
              \A r \in GpuRanks : gpu_blocks[w][r] = 0

FreedIsOld ==
  \A r \in GpuRanks : \A g \in Nat :
    << r, g >> \in freed => g > 0 /\ (g < rank[r].gen \/ (g = rank[r].gen /\ rank[r].phase = "asleep"))

RemapInv ==
  /\ RemapTypes /\ OneRequest /\ SuspendAlone /\ Registered /\ Generations
  /\ MessageIds /\ NoLateResume /\ FreshPayloads /\ Unmapped /\ FreedIsOld /\ NoFreedMapping

LEMMA ControlIdle ==
  ASSUME RemapTypes
  PROVE  /\ control = Idle <=> control.type = "idle"
         /\ control # Idle <=> control.type \in Requests
         /\ control.type \in Requests => control \in Control
BY DEF RemapTypes, Control, Requests, Idle

LEMMA SameIds ==
  ASSUME MessageIds, controls' = controls, control' = control, pipe' = pipe, acks' = acks
  PROVE  MessageIds'
BY DEF MessageIds

LEMMA SuspendRemapInv ==
  ASSUME GoesOn = FALSE, RemapInv, NEW r \in GpuRanks, suspend_gpu_mappings(r)
  PROVE  RemapInv'
<1> USE DEF Requests
<1>1. /\ rank[r].phase = "awake" /\ rank' \in [GpuRanks -> [phase : Phases, gen : Nat \ {0}]]
      /\ rank'[r].phase = "suspending"
      /\ \A s \in GpuRanks : rank'[s].gen = rank[s].gen /\ (s # r => rank'[s] = rank[s])
  BY DEF suspend_gpu_mappings, RemapInv, RemapTypes, Phases
<1>2. \A s \in GpuRanks : /\ rank[s].gen = rank[r].gen /\ rank[s].phase # "resuming"
                          /\ rank[s].phase # "broken"
  BY DEF suspend_gpu_mappings
<1>3. /\ asked' \in [GpuRanks -> Requests \union {"none"}]
      /\ asked'[r] = "suspend_gpu" /\ \A s \in GpuRanks : s # r => asked'[s] = asked[s]
  BY DEF suspend_gpu_mappings, RemapInv, RemapTypes
<1>4. /\ freed' = freed /\ reply' = reply /\ gpu_suspended' = gpu_suspended /\ control' = control
      /\ pending_resume_registrations' = pending_resume_registrations /\ controls' = controls
      /\ pipe' = pipe /\ acks' = acks /\ gpu_blocks' = gpu_blocks
  BY DEF suspend_gpu_mappings, ctlVars
<1>5. /\ asked[r] = "none" /\ reply[r] = "none" /\ ~ Serving(r)
      /\ \A s \in GpuRanks : ~ Wants(s, "resume_gpu")
  BY <1>1, <1>2 DEF RemapInv, OneRequest
<1>6. ~ AllRegistered
  BY <1>2, <1>5 DEF RemapInv, Registered, Wants
<1>7. NoneRegistered
  <2>1. pending_resume_registrations \in [GpuRanks -> Nat] /\ \A s \in GpuRanks : rank[s].gen \in Nat
    BY DEF RemapInv, RemapTypes
  <2>2. PICK t \in GpuRanks : pending_resume_registrations[t] = 0
    BY <1>6, <2>1 DEF AllRegistered
  <2>3. \A s \in GpuRanks : ~ (pending_resume_registrations[s] > 0)
    BY <1>2, <2>1, <2>2 DEF RemapInv, Registered
  <2> QED BY <2>1, <2>3 DEF NoneRegistered
<1>8. control.type # "resume_gpu"
  BY <1>5, ControlIdle DEF RemapInv, Wants, Serving, Control
<1>9. NoResumeSent
  BY <1>2, <1>8 DEF RemapInv, NoLateResume, WakeFailed, NoResumeSent
<1>10. RemapTypes'
  BY <1>1, <1>3, <1>4 DEF RemapInv, RemapTypes
<1>11. OneRequest'
  BY <1>1, <1>3, <1>4, <1>5 DEF RemapInv, RemapTypes, OneRequest, Wants, Serving
<1>12. SuspendAlone'
  <2>1. NoneRegistered' /\ NoResumeSent'
    BY <1>4, <1>7, <1>9 DEF NoneRegistered, NoResumeSent, ResumeAt
  <2> QED BY <1>1, <1>2, <1>3, <1>4, <1>5, <2>1 DEF SuspendAlone, Wants, Serving
<1>13. Registered'
  BY <1>1, <1>4, <1>7, <1>8 DEF RemapInv, Registered, NoneRegistered, AllRegistered
<1>14. MessageIds'
  BY <1>4, SameIds DEF RemapInv
<1>15. NoLateResume' /\ FreshPayloads'
  BY <1>4, <1>9 DEF NoLateResume, FreshPayloads, NoResumeSent, ResumeAt
<1>16. Unmapped'
  BY <1>1, <1>4, <1>5 DEF RemapInv, Unmapped, NothingMapped, NoneRegistered, NoResumeSent, ResumeAt
<1>17. FreedIsOld' /\ NoFreedMapping'
  BY <1>1, <1>4 DEF RemapInv, FreedIsOld, NoFreedMapping
<1>18. Generations'
  <2>1. \A s, t \in GpuRanks : rank'[s].gen = rank'[t].gen /\ rank'[s].gen \in Nat
    BY <1>1, <1>2
  <2>2. \A s \in GpuRanks : rank'[s].phase # "resuming" /\ ~ Wants(s, "resume_gpu")'
    BY <1>1, <1>2, <1>3, <1>4, <1>5 DEF Wants, Serving
  <2> QED BY <2>1, <2>2 DEF Generations
<1> QED BY <1>10, <1>11, <1>12, <1>13, <1>14, <1>15, <1>16, <1>17, <1>18 DEF RemapInv

LEMMA WakeRemapInv ==
  ASSUME RemapInv, NEW r \in GpuRanks, after_device_wake(r)
  PROVE  RemapInv'
<1> USE DEF Requests
<1>1. /\ rank[r].phase = "asleep" /\ rank[r].gen \in Nat
      /\ rank' \in [GpuRanks -> [phase : Phases, gen : Nat \ {0}]]
      /\ rank'[r].phase = "resuming" /\ rank'[r].gen = rank[r].gen + 1
      /\ \A s \in GpuRanks : s # r => rank'[s] = rank[s]
  <2>1. rank[r].phase = "asleep" /\ rank[r].gen \in Nat
    BY DEF after_device_wake, RemapInv, RemapTypes
  <2> QED BY <2>1 DEF after_device_wake, RemapInv, RemapTypes, Phases
<1>2. \A s \in GpuRanks : rank[s].phase \in {"asleep", "resuming", "awake"}
  BY DEF after_device_wake
<1>3. /\ asked' \in [GpuRanks -> Requests \union {"none"}]
      /\ asked'[r] = "resume_gpu" /\ \A s \in GpuRanks : s # r => asked'[s] = asked[s]
  BY DEF after_device_wake, RemapInv, RemapTypes
<1>4. /\ freed' = freed /\ reply' = reply /\ gpu_suspended' = gpu_suspended /\ control' = control
      /\ pending_resume_registrations' = pending_resume_registrations /\ controls' = controls
      /\ pipe' = pipe /\ acks' = acks /\ gpu_blocks' = gpu_blocks
  BY DEF after_device_wake, ctlVars
<1>5. /\ asked[r] = "none" /\ reply[r] = "none" /\ ~ Serving(r)
      /\ \A s \in GpuRanks : ~ Wants(s, "suspend_gpu")
  BY <1>1, <1>2 DEF RemapInv, OneRequest
<1>6. pending_resume_registrations[r] = 0 /\ pending_resume_registrations \in [GpuRanks -> Nat]
  <2>1. pending_resume_registrations \in [GpuRanks -> Nat]
    BY DEF RemapInv, RemapTypes
  <2> QED BY <1>1, <2>1 DEF RemapInv, Registered
<1>7. RemapTypes'
  BY <1>1, <1>3, <1>4 DEF RemapInv, RemapTypes
<1>8. OneRequest'
  BY <1>1, <1>3, <1>4, <1>5 DEF RemapInv, RemapTypes, OneRequest, Wants, Serving
<1>9. SuspendAlone'
  BY <1>1, <1>2, <1>3, <1>4, <1>5 DEF SuspendAlone, SuspendActive, Wants, Serving
<1>10. Registered'
  BY <1>1, <1>4, <1>5, <1>6 DEF RemapInv, Registered, NoneRegistered, AllRegistered, Serving
<1>11. MessageIds'
  BY <1>4, SameIds DEF RemapInv
<1>12. NoLateResume' /\ FreshPayloads'
  <2>1. WakeFailed => WakeFailed'
    <3>1. \A s \in GpuRanks : rank[s].phase \in {"broken", "resuming"} => rank'[s] = rank[s]
      BY <1>1
    <3> QED BY <1>4, <3>1 DEF WakeFailed
  <2>2. NoLateResume'
    BY <1>4, <2>1 DEF RemapInv, NoLateResume, ResumeAt
  <2>3. FreshPayloads'
    BY <1>4 DEF RemapInv, FreshPayloads, ResumeAt
  <2> QED BY <2>2, <2>3
<1>13. Unmapped'
  BY <1>1, <1>4, <1>5 DEF RemapInv, Unmapped, NothingMapped, NoneRegistered, NoResumeSent, ResumeAt
<1>14. FreedIsOld'
  BY <1>1, <1>4 DEF RemapInv, RemapTypes, FreedIsOld
<1>15. NoFreedMapping'
  BY <1>4 DEF RemapInv, NoFreedMapping
<1>16. Generations'
  <2>1. ~ SuspendActive'
    BY <1>1, <1>2, <1>3, <1>4, <1>5 DEF SuspendActive, Wants, Serving
  <2>2. \A s \in GpuRanks : \/ rank[s].phase = "asleep"
                            \/ rank[s].gen = rank[r].gen + 1 /\ rank[s].phase \in {"resuming", "awake"}
    BY DEF after_device_wake
  <2>3. \A s \in GpuRanks : rank[s].gen \in Nat /\ rank'[s].gen \in Nat
    BY <1>1 DEF RemapInv, RemapTypes
  <2>4. \A s \in GpuRanks : Wants(s, "resume_gpu")' <=> s = r \/ Wants(s, "resume_gpu")
    BY <1>3, <1>4, <1>5 DEF Wants, Serving
  <2>5. \A t \in GpuRanks : rank[t].phase = "awake" => ~ (gpu_suspended /\ pending_resume_registrations[t] = 0)
    BY <1>1, <2>2, <2>3 DEF RemapInv, Generations
  <2>6. \A t \in GpuRanks : rank[t].phase = "asleep" => rank[t].gen = rank[r].gen
    BY <1>1 DEF RemapInv, Generations
  <2> QED BY <1>1, <1>4, <2>1, <2>3, <2>4, <2>5, <2>6 DEF RemapInv, Generations
<1> QED BY <1>7, <1>8, <1>9, <1>10, <1>11, <1>12, <1>13, <1>14, <1>15, <1>16 DEF RemapInv

LEMMA TimeoutRemapInv ==
  ASSUME RemapInv, NEW r \in GpuRanks, RankTimeout(r)
  PROVE  RemapInv'
<1> USE DEF Requests
<1>1. /\ rank[r].phase \in {"suspending", "resuming"} /\ reply[r] = "none"
      /\ rank' \in [GpuRanks -> [phase : Phases, gen : Nat \ {0}]]
      /\ rank'[r].phase = "broken"
      /\ \A s \in GpuRanks : rank'[s].gen = rank[s].gen /\ (s # r => rank'[s] = rank[s])
  BY DEF RankTimeout, RemapInv, RemapTypes, Phases
<1>2. /\ freed' = freed /\ reply' = reply /\ gpu_suspended' = gpu_suspended /\ control' = control
      /\ pending_resume_registrations' = pending_resume_registrations /\ controls' = controls
      /\ pipe' = pipe /\ acks' = acks /\ gpu_blocks' = gpu_blocks /\ asked' = asked
  BY DEF RankTimeout, ctlVars
<1>3. RemapTypes'
  BY <1>1, <1>2 DEF RemapInv, RemapTypes
<1>4. OneRequest'
  BY <1>1, <1>2 DEF RemapInv, RemapTypes, OneRequest, Wants, Serving
<1>5. SuspendAlone'
  <2>1. SuspendActive' => SuspendActive
    BY <1>1, <1>2 DEF SuspendActive, Wants, Serving
  <2> QED BY <1>1, <1>2, <2>1 DEF RemapInv, SuspendAlone, NoneRegistered, NoResumeSent, ResumeAt, Wants, Serving
<1>6. Registered'
  BY <1>1, <1>2 DEF RemapInv, Registered, NoneRegistered, AllRegistered, Serving
<1>7. MessageIds'
  BY <1>2, SameIds DEF RemapInv
<1>8. NoLateResume' /\ FreshPayloads'
  BY <1>1, <1>2 DEF RemapInv, NoLateResume, FreshPayloads, ResumeAt, WakeFailed
<1>9. Unmapped'
  BY <1>1, <1>2 DEF RemapInv, Unmapped, NothingMapped, NoneRegistered, NoResumeSent, ResumeAt
<1>10. FreedIsOld'
  BY <1>1, <1>2, SMTT(20) DEF RemapInv, RemapTypes, FreedIsOld
<1>11. NoFreedMapping'
  BY <1>2 DEF RemapInv, NoFreedMapping
<1>12. Generations'
  <2>1. SuspendActive' => SuspendActive
    BY <1>1, <1>2 DEF SuspendActive, Wants, Serving
  <2>2. \A s \in GpuRanks : Wants(s, "resume_gpu")' <=> Wants(s, "resume_gpu")
    BY <1>2 DEF Wants, Serving
  <2> QED BY <1>1, <1>2, <2>1, <2>2 DEF RemapInv, Generations
<1> QED BY <1>3, <1>4, <1>5, <1>6, <1>7, <1>8, <1>9, <1>10, <1>11, <1>12 DEF RemapInv

LEMMA AnsweredRemapInv ==
  ASSUME RemapInv, NEW r \in GpuRanks, RankAnswered(r)
  PROVE  RemapInv'
<1> USE DEF Requests
<1> DEFINE granted == reply[r] = "ok" /\ rank[r].phase = "suspending"
<1>1. /\ rank[r].phase \in {"suspending", "resuming"} /\ reply[r] \in {"ok", "error"}
      /\ rank' \in [GpuRanks -> [phase : Phases, gen : Nat \ {0}]]
      /\ granted => rank'[r].phase = "asleep"
      /\ (reply[r] = "error" /\ rank[r].phase = "resuming") => rank'[r].phase = "broken"
      /\ (reply[r] = "error" /\ rank[r].phase = "suspending") => rank'[r].phase = "awake"
      /\ (reply[r] = "ok" /\ rank[r].phase = "resuming") => rank'[r].phase = "awake"
      /\ \A s \in GpuRanks : rank'[s].gen = rank[s].gen /\ (s # r => rank'[s] = rank[s])
  <2>1. reply[r] # "none" /\ rank[r].phase \in {"suspending", "resuming"}
    BY DEF RankAnswered
  <2>2. reply[r] \in {"ok", "error"} /\ rank[r].gen \in Nat \ {0}
    BY <2>1 DEF RemapInv, RemapTypes
  <2>3. PICK p \in Phases :
          /\ rank' = [rank EXCEPT ![r].phase = p]
          /\ granted => p = "asleep"
          /\ (reply[r] = "error" /\ rank[r].phase = "resuming") => p = "broken"
          /\ (reply[r] = "error" /\ rank[r].phase = "suspending") => p = "awake"
          /\ (reply[r] = "ok" /\ rank[r].phase = "resuming") => p = "awake"
    BY <2>1, <2>2 DEF RankAnswered, Phases
  <2> QED BY <2>1, <2>2, <2>3 DEF RemapInv, RemapTypes
<1>2. /\ freed' = IF granted THEN freed \union {<< r, rank[r].gen >>} ELSE freed
      /\ reply' \in [GpuRanks -> {"none", "ok", "error"}]
      /\ reply'[r] = "none" /\ \A s \in GpuRanks : s # r => reply'[s] = reply[s]
  BY DEF RankAnswered, RemapInv, RemapTypes
<1>3. /\ gpu_suspended' = gpu_suspended /\ control' = control
      /\ pending_resume_registrations' = pending_resume_registrations /\ controls' = controls
      /\ pipe' = pipe /\ acks' = acks /\ gpu_blocks' = gpu_blocks /\ asked' = asked
  BY DEF RankAnswered, ctlVars
<1>4. asked[r] = "none" /\ ~ Serving(r)
  BY <1>1 DEF RemapInv, RemapTypes, OneRequest
<1>5. granted => NothingMapped /\ NoResumeSent
  BY <1>1 DEF RemapInv, Unmapped, SuspendAlone, SuspendActive
<1>6. RemapTypes'
  <2>1. freed' \in SUBSET (GpuRanks \X Nat)
    BY <1>2 DEF RemapInv, RemapTypes
  <2> QED BY <1>1, <1>2, <1>3, <2>1 DEF RemapInv, RemapTypes
<1>7. OneRequest'
  BY <1>1, <1>2, <1>3, <1>4 DEF RemapInv, RemapTypes, OneRequest, Wants, Serving
<1>8. SuspendAlone'
  <2>1. SuspendActive' => SuspendActive
    BY <1>1, <1>3 DEF SuspendActive, Wants, Serving
  <2> QED BY <1>1, <1>3, <2>1 DEF RemapInv, SuspendAlone, NoneRegistered, NoResumeSent, ResumeAt, Wants, Serving
<1>9. Registered'
  <2>1. rank[r].phase = "suspending" => NoneRegistered
    BY DEF RemapInv, SuspendAlone, SuspendActive
  <2>2. rank[r].phase = "resuming" /\ reply[r] = "ok" =>
          pending_resume_registrations[r] > 0 \/ NoneRegistered
    BY DEF RemapInv, Registered
  <2>3. pending_resume_registrations \in [GpuRanks -> Nat]
    BY DEF RemapInv, RemapTypes
  <2>4. CASE NoneRegistered
    BY <1>1, <1>2, <1>3, <1>4, <2>4 DEF RemapInv, Registered, NoneRegistered, AllRegistered, Serving
  <2>5. CASE ~ NoneRegistered
    <3>1. rank[r].phase = "resuming" /\ rank'[r].phase \in {"awake", "broken"}
      BY <1>1, <2>1, <2>5
    <3>2. reply[r] = "ok" => pending_resume_registrations[r] > 0
      BY <2>2, <2>5, <3>1
    <3>3. Registered
      BY DEF RemapInv
    <3>4. /\ ~ gpu_suspended' => NoneRegistered'
          /\ control'.type = "resume_gpu" => AllRegistered'
      BY <1>3, <3>3 DEF Registered, NoneRegistered, AllRegistered
    <3>5. \A s \in GpuRanks : pending_resume_registrations'[s] > 0 =>
            /\ pending_resume_registrations'[s] = rank'[s].gen
            /\ rank'[s].phase \in {"resuming", "awake", "broken"}
      BY <1>1, <1>3, <3>1, <3>3 DEF Registered
    <3>6. \A s, t \in GpuRanks :
            pending_resume_registrations'[t] = 0 /\ pending_resume_registrations'[s] > 0 =>
              rank'[t].gen < rank'[s].gen \/ rank'[t].phase \in {"resuming", "broken"}
      <4>1. pending_resume_registrations[r] = 0 => rank'[r].phase = "broken"
        BY <1>1, <3>1, <3>2
      <4>2. \A s, t \in GpuRanks :
              pending_resume_registrations[t] = 0 /\ pending_resume_registrations[s] > 0 =>
                rank[t].gen < rank[s].gen \/ rank[t].phase \in {"resuming", "broken"}
        BY <3>3 DEF Registered
      <4> QED BY <1>1, <1>3, <4>1, <4>2
    <3>7. \A t \in GpuRanks : rank'[t].phase = "resuming" /\ reply'[t] = "ok" =>
            pending_resume_registrations'[t] > 0 \/ ~ gpu_suspended'
      BY <1>1, <1>2, <1>3, <3>3 DEF Registered
    <3>8. \A q \in GpuRanks : AllRegistered' =>
            \E s \in GpuRanks :
              \/ rank'[s].phase = "broken"
              \/ rank'[s].phase = "resuming" /\ (reply'[s] = "error" \/ (Serving(s)' /\ control'.type = "resume_gpu"))
      <4>1. ASSUME AllRegistered PROVE \E s \in GpuRanks :
              \/ rank[s].phase = "broken"
              \/ rank[s].phase = "resuming" /\ (reply[s] = "error" \/ (Serving(s) /\ control.type = "resume_gpu"))
        BY <3>3, <4>1 DEF Registered
      <4>2. AllRegistered' <=> AllRegistered
        BY <1>3 DEF AllRegistered
      <4>3. \A s \in GpuRanks : Serving(s)' <=> Serving(s)
        BY <1>3 DEF Serving
      <4> QED BY <1>1, <1>2, <1>3, <1>4, <3>1, <4>1, <4>2, <4>3
    <3> QED BY <3>4, <3>5, <3>6, <3>7, <3>8 DEF Registered
  <2> QED BY <2>4, <2>5
<1>10. MessageIds'
  BY <1>3, SameIds DEF RemapInv
<1>11. NoLateResume'
  BY <1>1, <1>2, <1>3 DEF RemapInv, NoLateResume, ResumeAt, WakeFailed
<1>12. FreshPayloads'
  BY <1>2, <1>3, <1>5 DEF RemapInv, FreshPayloads, NoResumeSent, ResumeAt
<1>13. Unmapped'
  BY <1>1, <1>2, <1>3 DEF RemapInv, Unmapped, NothingMapped, NoneRegistered, NoResumeSent, ResumeAt
<1>14. FreedIsOld'
  <2>1. rank[r].gen \in Nat \ {0}
    BY DEF RemapInv, RemapTypes
  <2>2. CASE granted
    BY <1>1, <1>2, <2>1, <2>2 DEF RemapInv, FreedIsOld
  <2>3. CASE ~ granted
    BY <1>1, <1>2, <2>3 DEF RemapInv, FreedIsOld
  <2> QED BY <2>2, <2>3
<1>15. NoFreedMapping'
  BY <1>1, <1>2, <1>3, <1>5 DEF RemapInv, RemapTypes, NoFreedMapping, NothingMapped
<1>16. Generations'
  <2>1. SuspendActive' => SuspendActive
    BY <1>1, <1>3 DEF SuspendActive, Wants, Serving
  <2>2. \A s \in GpuRanks : Wants(s, "resume_gpu")' <=> Wants(s, "resume_gpu")
    BY <1>3 DEF Wants, Serving
  <2>3. \A s \in GpuRanks : rank[s].gen \in Nat
    BY DEF RemapInv, RemapTypes
  <2>4. CASE rank[r].phase = "suspending"
    <3>1. SuspendActive
      BY <2>4 DEF SuspendActive
    <3>2. \A s, t \in GpuRanks : rank[s].gen = rank[t].gen
      BY <3>1 DEF RemapInv, Generations
    <3>3. \A s \in GpuRanks : rank'[s].phase # "resuming" /\ ~ Wants(s, "resume_gpu")
      BY <1>1, <2>4, <3>1 DEF RemapInv, SuspendAlone
    <3> QED BY <1>1, <2>2, <2>3, <3>2, <3>3 DEF Generations
  <2>5. CASE rank[r].phase = "resuming"
    <3>1. rank'[r].phase = "awake" => ~ (gpu_suspended /\ pending_resume_registrations[r] = 0)
      BY <1>1, <2>5 DEF RemapInv, RemapTypes, Registered
    <3>2. rank'[r].phase \in {"awake", "broken"}
      BY <1>1, <2>5
    <3> QED BY <1>1, <1>3, <2>1, <2>2, <2>5, <3>1, <3>2 DEF RemapInv, Generations
  <2> QED BY <1>1, <2>4, <2>5
<1> QED BY <1>6, <1>7, <1>8, <1>9, <1>10, <1>11, <1>12, <1>13, <1>14, <1>15, <1>16 DEF RemapInv

(* The manager takes a request up: it refuses it, answers at once, or starts to
   serve it.  A suspend finds nothing registered; a resume registers memory. *)
LEMMA BeginRemapInv ==
  ASSUME RemapInv, NEW r \in GpuRanks, Begin(r)
  PROVE  RemapInv'
<1> USE DEF Requests
<1> DEFINE started == [type |-> asked[r], rank |-> r, at |-> 1, request_id |-> 0]
           joined == [pending_resume_registrations EXCEPT ![r] = rank[r].gen]
<1>1. /\ control = Idle /\ control.type = "idle" /\ asked[r] \in Requests
      /\ asked' \in [GpuRanks -> Requests \union {"none"}]
      /\ asked'[r] = "none" /\ \A s \in GpuRanks : s # r => asked'[s] = asked[s]
  BY DEF Begin, RemapInv, RemapTypes, Idle
<1>2. /\ rank' = rank /\ freed' = freed /\ gpu_suspended' = gpu_suspended /\ controls' = controls
      /\ pipe' = pipe /\ acks' = acks /\ gpu_blocks' = gpu_blocks
  BY DEF Begin
<1>3. reply[r] = "none" /\ reply \in [GpuRanks -> {"none", "ok", "error"}]
  BY <1>1 DEF RemapInv, RemapTypes, OneRequest
<1>4. /\ control' \in {Idle, started}
      /\ reply' \in [GpuRanks -> {"none", "ok", "error"}]
      /\ \A s \in GpuRanks : s # r => reply'[s] = reply[s]
      /\ control' = started => reply' = reply
  <2>1. \/ control' = started /\ reply' = reply
        \/ control' = Idle /\ reply' = [reply EXCEPT ![r] = "error"]
        \/ control' = Idle /\ reply' = [reply EXCEPT ![r] = "ok"]
    BY DEF Begin
  <2>2. started # Idle
    BY <1>1 DEF Idle
  <2> QED BY <1>3, <2>1, <2>2
<1>5. CASE asked[r] = "suspend_gpu"
  <2>1. /\ pending_resume_registrations' = pending_resume_registrations
        /\ reply'[r] = "ok" => gpu_suspended
    BY <1>3, <1>5 DEF Begin
  <2>2. /\ control'.type \in {"idle", "suspend_gpu"}
        /\ control'.type = "suspend_gpu" =>
             control'.rank = r /\ control'.at = 1 /\ control'.request_id = 0 /\ reply' = reply
    BY <1>4, <1>5 DEF Idle
  <2>3. control' = Idle \/ control' \in Control
    <3>1. 1 \in 1 .. Len(GpuWorkers)
      BY RemapAssumption
    <3> QED BY <1>1, <1>4, <3>1 DEF Control
  <2>4. SuspendActive /\ rank[r].phase \in {"suspending", "broken"}
    BY <1>5 DEF RemapInv, OneRequest, SuspendActive, Wants
  <2>5. /\ NoneRegistered /\ NoResumeSent
        /\ \A s \in GpuRanks : rank[s].phase # "resuming" /\ ~ Wants(s, "resume_gpu")
    BY <2>4 DEF RemapInv, SuspendAlone
  <2>6. RemapTypes'
    BY <1>1, <1>2, <1>4, <2>1, <2>3 DEF RemapInv, RemapTypes
  <2>7. \A s \in GpuRanks : /\ Serving(s)' => s = r
                            /\ Wants(s, "suspend_gpu")' => Wants(s, "suspend_gpu")
                            /\ ~ Wants(s, "resume_gpu")'
    BY <1>1, <1>5, <2>2, <2>5 DEF Wants, Serving
  <2>8. OneRequest'
    BY <1>1, <1>2, <1>3, <1>4, <2>2, <2>4, <2>7 DEF RemapInv, OneRequest, Serving
  <2>9. SuspendAlone'
    BY <1>2, <2>1, <2>5, <2>7 DEF SuspendAlone, NoneRegistered, NoResumeSent, ResumeAt
  <2>10. Registered'
    BY <1>2, <2>1, <2>2, <2>5 DEF Registered, NoneRegistered, AllRegistered
  <2>11. Generations'
    BY <1>2, <2>1, <2>4, <2>5, <2>7 DEF RemapInv, RemapTypes, Generations
  <2>12. MessageIds'
    BY <1>2, <2>2 DEF RemapInv, RemapTypes, MessageIds
  <2>13. NoLateResume' /\ FreshPayloads'
    BY <1>2, <2>5 DEF NoLateResume, FreshPayloads, NoResumeSent, ResumeAt
  <2>14. Unmapped'
    <3>1. gpu_suspended => NothingMapped
      BY <2>5 DEF RemapInv, Unmapped
    <3>2. \A w \in WorkerSet : \A i \in 1 .. Len(acks[w]) : acks[w][i].request_id # 0
      BY DEF RemapInv, MessageIds
    <3> QED BY <1>2, <1>4, <2>1, <2>2, <3>1, <3>2
            DEF RemapInv, Unmapped, NothingMapped, NoneRegistered, NoResumeSent, ResumeAt
  <2>15. FreedIsOld' /\ NoFreedMapping'
    BY <1>2 DEF RemapInv, FreedIsOld, NoFreedMapping
  <2> QED BY <2>6, <2>8, <2>9, <2>10, <2>11, <2>12, <2>13, <2>14, <2>15 DEF RemapInv
<1>6. CASE asked[r] = "resume_gpu"
  <2>1. /\ ~ gpu_suspended => /\ control' = Idle /\ reply'[r] = "error"
                              /\ pending_resume_registrations' = pending_resume_registrations
        /\ gpu_suspended => /\ pending_resume_registrations' = joined
                            /\ control' = started <=> \A s \in GpuRanks : joined[s] > 0
                            /\ control' = Idle => reply'[r] = "ok"
    <3>1. started # Idle
      BY <1>6 DEF Idle
    <3> QED BY <1>3, <1>6, <3>1 DEF Begin
  <2>2. /\ control'.type \in {"idle", "resume_gpu"}
        /\ control'.type = "idle" <=> control' = Idle
        /\ control'.type = "resume_gpu" <=> control' = started
        /\ control'.type = "resume_gpu" => control'.rank = r /\ control'.request_id = 0 /\ reply' = reply
    BY <1>4, <1>6 DEF Idle
  <2>3. control' = Idle \/ control' \in Control
    <3>1. 1 \in 1 .. Len(GpuWorkers)
      BY RemapAssumption
    <3> QED BY <1>1, <1>4, <3>1 DEF Control
  <2>4. rank[r].phase \in {"resuming", "broken"} /\ Wants(r, "resume_gpu")
    BY <1>6 DEF RemapInv, OneRequest, Wants
  <2>5. ~ SuspendActive
    BY <2>4 DEF RemapInv, SuspendAlone
  <2>6. /\ pending_resume_registrations \in [GpuRanks -> Nat]
        /\ \A s \in GpuRanks : rank[s].gen \in Nat \ {0}
    BY DEF RemapInv, RemapTypes
  <2>7. /\ joined \in [GpuRanks -> Nat] /\ joined[r] = rank[r].gen
        /\ \A s \in GpuRanks : s # r => joined[s] = pending_resume_registrations[s]
    BY <2>6
  <2>8. RemapTypes'
    BY <1>1, <1>2, <1>4, <2>1, <2>3, <2>7 DEF RemapInv, RemapTypes
  <2>9. \A s \in GpuRanks : /\ Serving(s)' => s = r
                            /\ ~ Wants(s, "suspend_gpu")'
                            /\ Wants(s, "resume_gpu")' => Wants(s, "resume_gpu")
    BY <1>1, <1>6, <2>2, <2>5 DEF Wants, Serving, SuspendActive
  <2>10. OneRequest'
    BY <1>1, <1>2, <1>3, <1>4, <2>2, <2>4, <2>9 DEF RemapInv, OneRequest, Serving
  <2>11. ~ SuspendActive'
    BY <1>2, <2>5, <2>9 DEF SuspendActive
  <2>12. Registered'
    <3>1. CASE ~ gpu_suspended
      BY <1>2, <1>4, <2>1, <2>2, <3>1 DEF RemapInv, Registered, NoneRegistered, AllRegistered
    <3>2. CASE gpu_suspended
      <4>1. /\ pending_resume_registrations' = joined
            /\ control'.type = "resume_gpu" <=> AllRegistered'
            /\ control'.type = "idle" => reply'[r] = "ok"
        BY <2>1, <2>2, <3>2 DEF AllRegistered
      <4>2. \A t \in GpuRanks : pending_resume_registrations[t] = 0 =>
              rank[t].gen < rank[r].gen \/ rank[t].phase \in {"resuming", "broken"}
        <5> SUFFICES ASSUME NEW t \in GpuRanks, pending_resume_registrations[t] = 0,
                            rank[t].phase \notin {"resuming", "broken"}
                     PROVE  rank[t].gen < rank[r].gen
          BY <2>6
        <5>1. rank[t].phase # "awake"
          BY <2>4, <3>2 DEF RemapInv, Generations
        <5>2. rank[t].phase # "suspending"
          BY <2>5 DEF SuspendActive
        <5>3. rank[t].phase = "asleep"
          BY <5>1, <5>2 DEF RemapInv, RemapTypes, Phases
        <5> QED BY <2>4, <5>3 DEF RemapInv, Generations
      <4>3. \A s \in GpuRanks : joined[s] > 0 =>
              joined[s] = rank[s].gen /\ rank[s].phase \in {"resuming", "awake", "broken"}
        BY <2>4, <2>7 DEF RemapInv, Registered
      <4>4. \A s, t \in GpuRanks : joined[t] = 0 /\ joined[s] > 0 =>
              rank[t].gen < rank[s].gen \/ rank[t].phase \in {"resuming", "broken"}
        BY <2>6, <2>7, <4>2 DEF RemapInv, Registered
      <4>5. \A t \in GpuRanks : rank[t].phase = "resuming" /\ reply'[t] = "ok" => joined[t] > 0
        BY <1>4, <2>6, <2>7, <3>2 DEF RemapInv, Registered
      <4>6. AllRegistered' => Serving(r)' /\ control'.type = "resume_gpu"
        BY <2>2, <4>1 DEF Serving
      <4>7. \A q \in GpuRanks : AllRegistered' =>
              \E s \in GpuRanks :
                \/ rank[s].phase = "broken"
                \/ rank[s].phase = "resuming" /\ (reply'[s] = "error" \/ (Serving(s)' /\ control'.type = "resume_gpu"))
        BY <2>4, <4>6
      <4> QED BY <1>2, <3>2, <4>1, <4>3, <4>4, <4>5, <4>7 DEF Registered
    <3> QED BY <3>1, <3>2 DEF RemapInv, RemapTypes
  <2>13. Generations'
    <3>1. \A t \in GpuRanks : pending_resume_registrations'[t] = 0 => pending_resume_registrations[t] = 0
      BY <2>1, <2>6, <2>7 DEF RemapInv, RemapTypes
    <3> QED BY <1>2, <2>9, <2>11, <3>1 DEF RemapInv, Generations
  <2>14. MessageIds'
    BY <1>2, <2>2 DEF RemapInv, RemapTypes, MessageIds
  <2>15. NoLateResume' /\ FreshPayloads'
    <3>1. WakeFailed => WakeFailed'
      BY <1>2, <1>3, <1>4 DEF WakeFailed
    <3> QED BY <1>1, <1>2, <3>1 DEF RemapInv, NoLateResume, FreshPayloads, ResumeAt
  <2>16. Unmapped'
    <3>1. gpu_suspended => ~ NoneRegistered'
      BY <2>1, <2>6, <2>7 DEF NoneRegistered
    <3>2. \A s \in GpuRanks : rank[s].phase # "suspending"
      BY <2>5 DEF SuspendActive
    <3> QED BY <1>2, <2>2, <3>1, <3>2 DEF Unmapped
  <2>17. FreedIsOld' /\ NoFreedMapping'
    BY <1>2 DEF RemapInv, FreedIsOld, NoFreedMapping
  <2> QED BY <2>8, <2>10, <2>11, <2>12, <2>13, <2>14, <2>15, <2>16, <2>17 DEF RemapInv, SuspendAlone
<1> QED BY <1>1, <1>5, <1>6

LEMMA SendRemapInv ==
  ASSUME RemapInv, SendControl
  PROVE  RemapInv'
<1> USE DEF Requests
<1> DEFINE w == GpuWorkers[control.at]
           m == [type |-> control.type, request_id |-> controls + 1,
                 payload |-> pending_resume_registrations]
<1>1. /\ control \in Control /\ control.type \in Requests /\ control.request_id = 0
      /\ controls \in Nat /\ controls' = controls + 1 /\ control' = [control EXCEPT !.request_id = controls + 1]
  BY ControlIdle DEF SendControl, RemapInv, RemapTypes
<1>2. /\ control' \in Control /\ control'.type = control.type /\ control'.rank = control.rank
      /\ control'.at = control.at /\ control'.request_id = controls + 1
  BY <1>1 DEF Control
<1>3. /\ rank' = rank /\ freed' = freed /\ gpu_suspended' = gpu_suspended /\ asked' = asked /\ reply' = reply
      /\ pending_resume_registrations' = pending_resume_registrations
      /\ acks' = acks /\ gpu_blocks' = gpu_blocks
  BY DEF SendControl, rankVars
<1>4. w \in WorkerSet /\ m \in PipeMessage
  BY <1>1 DEF RemapInv, RemapTypes, Control, WorkerSet, PipeMessage
<1>5. /\ pipe' \in [WorkerSet -> Seq(PipeMessage)]
      /\ \A v \in WorkerSet : \A i \in 1 .. Len(pipe'[v]) :
           \/ i \in 1 .. Len(pipe[v]) /\ pipe'[v][i] = pipe[v][i]
           \/ v = w /\ i = Len(pipe[w]) + 1 /\ pipe'[v][i] = m
  <2>1. pipe' = [pipe EXCEPT ![w] = Append(pipe[w], m)] /\ pipe \in [WorkerSet -> Seq(PipeMessage)]
    BY DEF SendControl, RemapInv, RemapTypes
  <2>2. /\ pipe[w] \in Seq(PipeMessage) /\ Append(pipe[w], m) \in Seq(PipeMessage)
        /\ Len(Append(pipe[w], m)) = Len(pipe[w]) + 1 /\ Len(pipe[w]) \in Nat
        /\ \A i \in 1 .. Len(pipe[w]) + 1 :
             Append(pipe[w], m)[i] = IF i \in 1 .. Len(pipe[w]) THEN pipe[w][i] ELSE m
    BY <1>4, <2>1
  <2> QED BY <1>4, <2>1, <2>2
<1>51. m.type = control.type /\ m.request_id = controls + 1 /\ m.payload = pending_resume_registrations
  OBVIOUS
<1> HIDE DEF m, w
<1>6. RemapTypes'
  BY <1>1, <1>2, <1>3, <1>5 DEF RemapInv, RemapTypes
<1>7. \A s \in GpuRanks : /\ Serving(s)' <=> Serving(s)
                          /\ Wants(s, "suspend_gpu")' <=> Wants(s, "suspend_gpu")
                          /\ Wants(s, "resume_gpu")' <=> Wants(s, "resume_gpu")
  BY <1>2, <1>3 DEF Serving, Wants
<1>8. /\ control.rank \in GpuRanks
      /\ control.type = "resume_gpu" => AllRegistered /\ ~ SuspendActive /\ ~ NoneRegistered
  <2>1. control.rank \in GpuRanks
    BY <1>1 DEF Control
  <2>2. control.type = "resume_gpu" => Wants(control.rank, "resume_gpu")
    BY DEF Wants, Serving
  <2>3. control.type = "resume_gpu" => AllRegistered
    BY DEF RemapInv, Registered
  <2> QED BY <2>1, <2>2, <2>3 DEF RemapInv, SuspendAlone, AllRegistered, NoneRegistered
<1>9. NoResumeSent /\ control.type # "resume_gpu" => NoResumeSent'
  BY <1>5, <1>51 DEF NoResumeSent, ResumeAt
<1>10. OneRequest' /\ SuspendAlone' /\ Generations'
  <2>1. OneRequest' /\ Generations'
    BY <1>3, <1>7 DEF RemapInv, OneRequest, Generations, SuspendActive
  <2>2. SuspendAlone'
    BY <1>3, <1>7, <1>8, <1>9 DEF RemapInv, SuspendAlone, SuspendActive, NoneRegistered
  <2> QED BY <2>1, <2>2
<1>11. Registered'
  BY <1>2, <1>3, <1>7 DEF RemapInv, Registered, NoneRegistered, AllRegistered
<1>12. MessageIds'
  <2>1. /\ \A v \in WorkerSet : \A i \in 1 .. Len(pipe[v]) :
             pipe[v][i].type # "op" => pipe[v][i].request_id \in 1 .. controls
        /\ \A v \in WorkerSet : \A i \in 1 .. Len(acks[v]) : acks[v][i].request_id \in 1 .. controls
    BY DEF RemapInv, MessageIds
  <2>2. /\ control'.request_id <= controls'
        /\ \A v \in WorkerSet : \A i \in 1 .. Len(pipe'[v]) :
             pipe'[v][i].type # "op" => pipe'[v][i].request_id \in 1 .. controls'
    <3>1. control'.request_id <= controls'
      BY <1>1, <1>2
    <3>2. ASSUME NEW v \in WorkerSet, NEW i \in 1 .. Len(pipe'[v]), pipe'[v][i].type # "op"
          PROVE  pipe'[v][i].request_id \in 1 .. controls'
      <4>1. \/ i \in 1 .. Len(pipe[v]) /\ pipe'[v][i] = pipe[v][i]
            \/ pipe'[v][i].request_id = controls + 1
        BY <1>5, <1>51
      <4> QED BY <1>1, <2>1, <3>2, <4>1
    <3> QED BY <3>1, <3>2
  <2>3. \A v \in WorkerSet : \A i \in 1 .. Len(acks'[v]) : acks'[v][i].request_id \in 1 .. controls'
    BY <1>1, <1>3, <2>1
  <2>4. ASSUME NEW u \in WorkerSet, NEW v \in WorkerSet,
               NEW i \in 1 .. Len(pipe'[u]), NEW j \in 1 .. Len(pipe'[v]),
               pipe'[u][i].type # "op", pipe'[v][j].type # "op", pipe'[u][i].request_id = pipe'[v][j].request_id
        PROVE  u = v /\ i = j
    <3>1. CASE i \in 1 .. Len(pipe[u]) /\ pipe'[u][i] = pipe[u][i]
      <4>1. pipe'[v][j].request_id # controls + 1
        BY <1>1, <2>1, <2>4, <3>1
      <4>2. j \in 1 .. Len(pipe[v]) /\ pipe'[v][j] = pipe[v][j]
        BY <1>5, <1>51, <4>1
      <4> QED BY <2>4, <3>1, <4>2 DEF RemapInv, MessageIds
    <3>2. CASE u = w /\ i = Len(pipe[w]) + 1 /\ pipe'[u][i] = m
      <4>1. pipe'[v][j].request_id = controls + 1
        BY <1>51, <2>4, <3>2
      <4>2. ~ (j \in 1 .. Len(pipe[v]) /\ pipe'[v][j] = pipe[v][j])
        BY <1>1, <2>1, <2>4, <4>1
      <4> QED BY <1>5, <3>2, <4>2
    <3> QED BY <1>5, <3>1, <3>2
  <2>5. ASSUME NEW u \in WorkerSet, NEW v \in WorkerSet,
               NEW i \in 1 .. Len(pipe'[u]), NEW j \in 1 .. Len(acks'[v]), pipe'[u][i].type # "op"
        PROVE  pipe'[u][i].request_id # acks'[v][j].request_id
    <3>1. CASE i \in 1 .. Len(pipe[u]) /\ pipe'[u][i] = pipe[u][i]
      BY <1>3, <2>5, <3>1 DEF RemapInv, MessageIds
    <3>2. CASE pipe'[u][i] = m
      BY <1>1, <1>3, <1>51, <2>1, <3>2
    <3> QED BY <1>5, <3>1, <3>2
  <2> QED BY <2>2, <2>3, <2>4, <2>5 DEF MessageIds
<1>13. NoLateResume'
  <2>1. WakeFailed' <=> WakeFailed
    BY <1>3 DEF WakeFailed
  <2>2. \A v \in WorkerSet : \A i \in 1 .. Len(pipe[v]) : ResumeAt(v, i) => WakeFailed
    BY <1>1 DEF RemapInv, NoLateResume, MessageIds, ResumeAt
  <2> QED BY <1>2, <1>5, <1>51, <2>1, <2>2 DEF NoLateResume, ResumeAt
<1>14. FreshPayloads'
  <2>1. control.type = "resume_gpu" =>
          \A r \in GpuRanks : << r, pending_resume_registrations[r] >> \notin freed
    <3>1. \A r \in GpuRanks : pending_resume_registrations[r] \in Nat /\ rank[r].gen \in Nat
      BY DEF RemapInv, RemapTypes
    <3>2. control.type = "resume_gpu" =>
            \A r \in GpuRanks : pending_resume_registrations[r] = rank[r].gen /\ rank[r].phase # "asleep"
      BY <1>8 DEF RemapInv, Registered, AllRegistered
    <3> QED BY <3>1, <3>2 DEF RemapInv, FreedIsOld
  <2> QED BY <1>3, <1>5, <1>51, <2>1 DEF RemapInv, FreshPayloads, ResumeAt
<1>15. Unmapped'
  <2>1. \A v \in WorkerSet : \A i \in 1 .. Len(acks[v]) : acks[v][i].request_id # controls + 1
    BY <1>1 DEF RemapInv, MessageIds
  <2> QED BY <1>2, <1>3, <1>8, <1>9, <2>1 DEF RemapInv, Unmapped, NothingMapped, NoneRegistered
<1>16. FreedIsOld' /\ NoFreedMapping'
  BY <1>3 DEF RemapInv, FreedIsOld, NoFreedMapping
<1> QED BY <1>6, <1>10, <1>11, <1>12, <1>13, <1>14, <1>15, <1>16 DEF RemapInv

(* Receiving a reply takes it away and adds none. *)
AcksKept ==
  /\ acks' \in [WorkerSet -> Seq([request_id : Nat, ok : BOOLEAN])]
  /\ \A v \in WorkerSet : \A i \in 1 .. Len(acks'[v]) :
       \E j \in 1 .. Len(acks[v]) : acks'[v][i] = acks[v][j]

LEMMA KeptIds ==
  ASSUME MessageIds, AcksKept, pipe' = pipe, controls' = controls,
         control'.type \in Requests => control'.request_id <= controls
  PROVE  MessageIds'
<1>1. \A w \in WorkerSet : \A i \in 1 .. Len(acks'[w]) : acks'[w][i].request_id \in 1 .. controls
  BY DEF MessageIds, AcksKept
<1>2. \A w, v \in WorkerSet : \A i \in 1 .. Len(pipe[w]), j \in 1 .. Len(acks'[v]) :
        pipe[w][i].type # "op" => pipe[w][i].request_id # acks'[v][j].request_id
  <2> SUFFICES ASSUME NEW w \in WorkerSet, NEW v \in WorkerSet, NEW i \in 1 .. Len(pipe[w]),
                      NEW j \in 1 .. Len(acks'[v]), pipe[w][i].type # "op"
               PROVE  pipe[w][i].request_id # acks'[v][j].request_id
    OBVIOUS
  <2>1. PICK k \in 1 .. Len(acks[v]) : acks'[v][j] = acks[v][k]
    BY DEF AcksKept
  <2>2. pipe[w][i].request_id # acks[v][k].request_id
    BY ONLY MessageIds, pipe[w][i].type # "op", i \in 1 .. Len(pipe[w]), w \in WorkerSet,
            v \in WorkerSet, k \in 1 .. Len(acks[v]) DEF MessageIds
  <2> QED BY <2>1, <2>2
<1> QED BY <1>1, <1>2 DEF MessageIds

LEMMA FailRemapInv ==
  ASSUME RemapInv, Waits, Fail, AcksKept,
         UNCHANGED << controls, pipe, gpu_blocks, rank, freed, asked >>
  PROVE  RemapInv'
<1> USE DEF Requests
<1> DEFINE q == control.rank
<1>1. control.type \in Requests /\ q \in GpuRanks /\ Serving(q)
  BY ControlIdle DEF Waits, RemapInv, Control, Serving
<1>2. /\ control' = Idle /\ control'.type = "idle"
      /\ reply' \in [GpuRanks -> {"none", "ok", "error"}]
      /\ reply'[q] = "error" /\ \A s \in GpuRanks : s # q => reply'[s] = reply[s]
      /\ gpu_suspended' = gpu_suspended /\ pending_resume_registrations' = pending_resume_registrations
  BY <1>1 DEF Fail, Idle, RemapInv, RemapTypes
<1>3. /\ controls' = controls /\ pipe' = pipe /\ gpu_blocks' = gpu_blocks /\ rank' = rank
      /\ freed' = freed /\ asked' = asked
  OBVIOUS
<1>4. /\ reply[q] = "none" /\ asked[q] = "none"
      /\ control.type = "suspend_gpu" => rank[q].phase \in {"suspending", "broken"} /\ SuspendActive
      /\ control.type = "resume_gpu" => rank[q].phase \in {"resuming", "broken"}
  BY <1>1 DEF RemapInv, RemapTypes, OneRequest, Wants, SuspendActive
<1>5. RemapTypes'
  BY <1>2, <1>3 DEF RemapInv, RemapTypes, AcksKept
<1>6. \A s \in GpuRanks : /\ ~ Serving(s)'
                          /\ Wants(s, "suspend_gpu")' => Wants(s, "suspend_gpu")
                          /\ Wants(s, "resume_gpu")' => Wants(s, "resume_gpu")
  BY <1>2, <1>3 DEF Serving, Wants
<1>7. SuspendActive' => SuspendActive
  BY <1>3, <1>6 DEF SuspendActive
<1>8. OneRequest'
  BY <1>1, <1>2, <1>3, <1>4, <1>6 DEF RemapInv, OneRequest
<1>9. SuspendAlone' /\ Generations'
  BY <1>2, <1>3, <1>6, <1>7 DEF RemapInv, SuspendAlone, Generations, NoneRegistered, NoResumeSent, ResumeAt
<1>10. WakeFailed' \/ (control.type = "suspend_gpu" /\ NoResumeSent /\ NoneRegistered)
  BY <1>1, <1>2, <1>3, <1>4 DEF RemapInv, SuspendAlone, WakeFailed
<1>11. Registered'
  <2>1. \A s \in GpuRanks : AllRegistered =>
          \E r \in GpuRanks : rank[r].phase = "broken" \/ (rank[r].phase = "resuming" /\ reply'[r] = "error")
    BY <1>3, <1>10 DEF WakeFailed, AllRegistered, NoneRegistered
  <2> QED BY <1>2, <1>3, <2>1 DEF RemapInv, Registered, NoneRegistered, AllRegistered
<1>12. MessageIds'
  BY <1>2, <1>3, KeptIds DEF RemapInv
<1>13. NoLateResume' /\ FreshPayloads'
  BY <1>3, <1>10 DEF RemapInv, NoLateResume, FreshPayloads, NoResumeSent, ResumeAt
<1>14. Unmapped'
  BY <1>2, <1>3 DEF RemapInv, Unmapped, NothingMapped, NoneRegistered, NoResumeSent, ResumeAt
<1>15. FreedIsOld' /\ NoFreedMapping'
  BY <1>3 DEF RemapInv, FreedIsOld, NoFreedMapping
<1> QED BY <1>5, <1>8, <1>9, <1>11, <1>12, <1>13, <1>14, <1>15 DEF RemapInv

LEMMA TailKept ==
  ASSUME RemapInv, NEW w \in WorkerSet, acks[w] # << >>, acks' = [acks EXCEPT ![w] = Tail(acks[w])]
  PROVE  AcksKept /\ 1 \in 1 .. Len(acks[w]) /\ Head(acks[w]) = acks[w][1]
<1> DEFINE Acks == [request_id : Nat, ok : BOOLEAN]
<1>1. acks \in [WorkerSet -> Seq(Acks)] /\ acks[w] \in Seq(Acks)
  BY DEF RemapInv, RemapTypes
<1>2. /\ Len(acks[w]) \in Nat /\ Len(acks[w]) > 0
      /\ Tail(acks[w]) \in Seq(Acks) /\ Len(Tail(acks[w])) = Len(acks[w]) - 1
      /\ \A i \in 1 .. Len(acks[w]) - 1 : Tail(acks[w])[i] = acks[w][i + 1]
  BY <1>1
<1>3. \A i \in 1 .. Len(acks'[w]) : i + 1 \in 1 .. Len(acks[w]) /\ acks'[w][i] = acks[w][i + 1]
  BY <1>1, <1>2
<1>4. \A v \in WorkerSet : v # w => acks'[v] = acks[v]
  BY <1>1
<1>5. acks' \in [WorkerSet -> Seq(Acks)]
  BY <1>1, <1>2
<1> QED BY <1>2, <1>3, <1>4, <1>5 DEF AcksKept

LEMMA AnsweredGone ==
  ASSUME MessageIds, NEW w \in WorkerSet, 1 \in 1 .. Len(acks[w])
  PROVE  \A v \in WorkerSet : \A i \in 1 .. Len(pipe[v]) :
           pipe[v][i].type # "op" => pipe[v][i].request_id # acks[w][1].request_id
BY DEF MessageIds

(* A worker confirmed the request sent to it, and the next worker is due. *)
LEMMA AdvanceRemapInv ==
  ASSUME RemapInv, Waits, AcksKept, NEW w \in WorkerSet, w = GpuWorkers[control.at],
         acks[w] # << >>, acks[w][1].request_id = control.request_id, 1 \in 1 .. Len(acks[w]),
         control.at < Len(GpuWorkers),
         control' = [control EXCEPT !.at = control.at + 1, !.request_id = 0],
         UNCHANGED << reply, gpu_suspended, pending_resume_registrations >>,
         UNCHANGED << controls, pipe, gpu_blocks, rank, freed, asked >>
  PROVE  RemapInv'
<1> USE DEF Requests
<1>1. control \in Control /\ control.type \in Requests
  BY ControlIdle DEF Waits, RemapInv
<1>2. /\ control' \in Control /\ control'.type = control.type /\ control'.rank = control.rank
      /\ control'.at = control.at + 1 /\ control'.request_id = 0 /\ control.at \in Nat
  <2>1. control.at \in 1 .. Len(GpuWorkers) /\ Len(GpuWorkers) \in Nat
    BY <1>1, RemapAssumption DEF Control
  <2>2. control.at + 1 \in 1 .. Len(GpuWorkers)
    BY <2>1
  <2>3. control' = [type |-> control.type, rank |-> control.rank, at |-> control.at + 1, request_id |-> 0]
    BY <1>1 DEF Control
  <2>4. control.rank \in GpuRanks
    BY <1>1 DEF Control
  <2> QED BY <1>1, <2>1, <2>2, <2>3, <2>4 DEF Control
<1>3. /\ controls' = controls /\ pipe' = pipe /\ gpu_blocks' = gpu_blocks /\ rank' = rank
      /\ freed' = freed /\ asked' = asked /\ reply' = reply /\ gpu_suspended' = gpu_suspended
      /\ pending_resume_registrations' = pending_resume_registrations
  OBVIOUS
<1>4. RemapTypes'
  BY <1>2, <1>3 DEF RemapInv, RemapTypes, AcksKept
<1>5. \A s \in GpuRanks : /\ Serving(s)' <=> Serving(s)
                          /\ Wants(s, "suspend_gpu")' <=> Wants(s, "suspend_gpu")
                          /\ Wants(s, "resume_gpu")' <=> Wants(s, "resume_gpu")
  BY <1>2, <1>3 DEF Serving, Wants
<1>6. OneRequest' /\ SuspendAlone' /\ Generations'
  BY <1>3, <1>5 DEF RemapInv, OneRequest, SuspendAlone, Generations, SuspendActive, NoneRegistered,
                    NoResumeSent, ResumeAt
<1>7. Registered'
  BY <1>2, <1>3, <1>5 DEF RemapInv, Registered, NoneRegistered, AllRegistered
<1>8. MessageIds'
  <2>1. controls \in Nat
    BY DEF RemapInv, RemapTypes
  <2> QED BY <1>2, <1>3, <2>1, KeptIds DEF RemapInv
<1>9. NoLateResume'
  <2>1. \A v \in WorkerSet : \A i \in 1 .. Len(pipe[v]) :
          pipe[v][i].type # "op" => pipe[v][i].request_id # control.request_id
    BY AnsweredGone DEF RemapInv
  <2>2. \A v \in WorkerSet : \A i \in 1 .. Len(pipe[v]) : ResumeAt(v, i) => WakeFailed
    BY <2>1 DEF RemapInv, NoLateResume, ResumeAt
  <2> QED BY <1>3, <2>2 DEF NoLateResume, ResumeAt, WakeFailed
<1>10. FreshPayloads'
  BY <1>3 DEF RemapInv, FreshPayloads, ResumeAt
<1>11. Unmapped'
  <2>1. control.type = "suspend_gpu" => \A r \in GpuRanks : gpu_blocks[w][r] = 0
    BY DEF RemapInv, Unmapped
  <2>2. control.type = "suspend_gpu" =>
          \A i \in 1 .. control.at : \A r \in GpuRanks : gpu_blocks[GpuWorkers[i]][r] = 0
    BY <1>2, <2>1 DEF RemapInv, Unmapped
  <2>3. \A v \in WorkerSet : \A i \in 1 .. Len(acks'[v]) : acks'[v][i].request_id # 0
    BY <1>8 DEF MessageIds
  <2>4. control'.at - 1 = control.at
    BY <1>2
  <2> QED BY <1>2, <1>3, <2>2, <2>3, <2>4
          DEF RemapInv, Unmapped, NothingMapped, NoneRegistered, NoResumeSent, ResumeAt
<1>12. FreedIsOld' /\ NoFreedMapping'
  BY <1>3 DEF RemapInv, FreedIsOld, NoFreedMapping
<1> QED BY <1>4, <1>6, <1>7, <1>8, <1>9, <1>10, <1>11, <1>12 DEF RemapInv

(* The last worker confirmed the request sent to it. *)
LEMMA FinishRemapInv ==
  ASSUME RemapInv, Waits, AcksKept, NEW w \in WorkerSet, w = GpuWorkers[control.at],
         acks[w] # << >>, acks[w][1].request_id = control.request_id, 1 \in 1 .. Len(acks[w]),
         ~ (control.at < Len(GpuWorkers)), Finish,
         UNCHANGED << controls, pipe, gpu_blocks, rank, freed, asked >>
  PROVE  RemapInv'
<1> USE DEF Requests
<1> DEFINE q == control.rank
<1>1. control \in Control /\ control.type \in Requests /\ q \in GpuRanks /\ Serving(q)
  BY ControlIdle DEF Waits, RemapInv, Control, Serving
<1>2. /\ control' = Idle /\ control'.type = "idle"
      /\ reply' \in [GpuRanks -> {"none", "ok", "error"}]
      /\ reply'[q] = "ok" /\ \A s \in GpuRanks : s # q => reply'[s] = reply[s]
      /\ gpu_suspended' <=> control.type = "suspend_gpu"
      /\ gpu_suspended' \in BOOLEAN
      /\ pending_resume_registrations' \in [GpuRanks -> Nat] /\ NoneRegistered'
  BY <1>1 DEF Finish, Idle, None, NoneRegistered, RemapInv, RemapTypes
<1>3. /\ controls' = controls /\ pipe' = pipe /\ gpu_blocks' = gpu_blocks /\ rank' = rank
      /\ freed' = freed /\ asked' = asked
  OBVIOUS
<1>4. /\ reply[q] = "none" /\ asked[q] = "none"
      /\ control.type = "suspend_gpu" => rank[q].phase \in {"suspending", "broken"} /\ SuspendActive
      /\ control.type = "resume_gpu" => rank[q].phase \in {"resuming", "broken"} /\ ~ SuspendActive
  <2>1. /\ reply[q] = "none" /\ asked[q] = "none"
        /\ control.type = "suspend_gpu" => rank[q].phase \in {"suspending", "broken"} /\ SuspendActive
        /\ control.type = "resume_gpu" => rank[q].phase \in {"resuming", "broken"} /\ Wants(q, "resume_gpu")
    BY <1>1 DEF RemapInv, RemapTypes, OneRequest, Wants, SuspendActive
  <2> QED BY <1>1, <2>1 DEF RemapInv, SuspendAlone
<1>5. RemapTypes'
  BY <1>2, <1>3 DEF RemapInv, RemapTypes, AcksKept
<1>6. \A s \in GpuRanks : /\ ~ Serving(s)'
                          /\ Wants(s, "suspend_gpu")' => Wants(s, "suspend_gpu")
                          /\ Wants(s, "resume_gpu")' => Wants(s, "resume_gpu")
  BY <1>2, <1>3 DEF Serving, Wants
<1>7. SuspendActive' => SuspendActive
  BY <1>3, <1>6 DEF SuspendActive
<1>8. OneRequest'
  BY <1>1, <1>2, <1>3, <1>4, <1>6 DEF RemapInv, OneRequest
<1>9. SuspendAlone'
  BY <1>2, <1>3, <1>6, <1>7 DEF RemapInv, SuspendAlone, NoResumeSent, ResumeAt
<1>10. Generations'
  <2>1. CASE control.type = "suspend_gpu"
    <3>1. SuspendActive
      BY <1>4, <2>1
    <3>2. \A s, t \in GpuRanks : rank[s].gen = rank[t].gen /\ rank[s].gen \in Nat
      BY <3>1 DEF RemapInv, RemapTypes, Generations
    <3>3. \A s \in GpuRanks : rank[s].phase # "resuming" /\ ~ Wants(s, "resume_gpu")
      BY <3>1 DEF RemapInv, SuspendAlone
    <3> QED BY <1>3, <1>6, <3>2, <3>3 DEF Generations
  <2>2. CASE control.type = "resume_gpu"
    <3>1. ~ gpu_suspended' /\ ~ SuspendActive'
      BY <1>2, <1>4, <1>7, <2>2
    <3> QED BY <1>3, <1>6, <3>1 DEF RemapInv, Generations
  <2> QED BY <1>1, <2>1, <2>2
<1>11. Registered'
  <2>1. \A t \in GpuRanks : rank[t].phase = "resuming" => ~ gpu_suspended'
    BY <1>2, <1>4 DEF RemapInv, SuspendAlone
  <2> QED BY <1>2, <1>3, <2>1 DEF Registered, NoneRegistered, AllRegistered
<1>12. MessageIds'
  BY <1>2, <1>3, KeptIds DEF RemapInv
<1>13. NoLateResume'
  <2>1. \A v \in WorkerSet : \A i \in 1 .. Len(pipe[v]) :
          pipe[v][i].type # "op" => pipe[v][i].request_id # control.request_id
    BY AnsweredGone DEF RemapInv
  <2>2. \A v \in WorkerSet : \A i \in 1 .. Len(pipe[v]) : ResumeAt(v, i) => WakeFailed
    BY <2>1 DEF RemapInv, NoLateResume, ResumeAt
  <2>3. WakeFailed => WakeFailed'
    BY <1>2, <1>3, <1>4 DEF WakeFailed
  <2> QED BY <1>3, <2>2, <2>3 DEF NoLateResume, ResumeAt
<1>14. FreshPayloads'
  BY <1>3 DEF RemapInv, FreshPayloads, ResumeAt
<1>15. Unmapped'
  <2>1. CASE control.type = "suspend_gpu"
    <3>1. \A r \in GpuRanks : gpu_blocks[w][r] = 0
      BY <2>1 DEF RemapInv, Unmapped
    <3>2. control.at = Len(GpuWorkers) /\ Len(GpuWorkers) \in Nat
      BY <1>1, RemapAssumption DEF Control
    <3>3. \A i \in 1 .. Len(GpuWorkers) : \A r \in GpuRanks : gpu_blocks[GpuWorkers[i]][r] = 0
      BY <2>1, <3>1, <3>2 DEF RemapInv, Unmapped
    <3>4. NothingMapped' /\ NoResumeSent'
      BY <1>3, <1>4, <2>1, <3>3 DEF RemapInv, SuspendAlone, NothingMapped, NoResumeSent, ResumeAt, WorkerSet
    <3> QED BY <1>2, <3>4 DEF Unmapped
  <2>2. CASE control.type = "resume_gpu"
    BY <1>2, <1>3, <1>4, <2>2 DEF Unmapped, SuspendActive
  <2> QED BY <1>1, <2>1, <2>2
<1>16. FreedIsOld' /\ NoFreedMapping'
  BY <1>3 DEF RemapInv, FreedIsOld, NoFreedMapping
<1> QED BY <1>5, <1>8, <1>9, <1>10, <1>11, <1>12, <1>13, <1>14, <1>15, <1>16 DEF RemapInv

LEMMA ReceiveRemapInv ==
  ASSUME RemapInv, ReceiveAck
  PROVE  RemapInv'
<1> DEFINE w == GpuWorkers[control.at]
<1>1. Waits /\ acks[w] # << >> /\ acks' = [acks EXCEPT ![w] = Tail(acks[w])]
  BY DEF ReceiveAck
<1>2. w \in WorkerSet
  BY <1>1, ControlIdle DEF Waits, RemapInv, Control, WorkerSet
<1>3. AcksKept /\ 1 \in 1 .. Len(acks[w]) /\ Head(acks[w]) = acks[w][1]
  BY <1>1, <1>2, TailKept
<1>4. UNCHANGED << controls, pipe, gpu_blocks, rank, freed, asked >>
  BY DEF ReceiveAck
<1>5. CASE ~ Accepted(Head(acks[w]))
  <2>1. Fail
    BY <1>5 DEF ReceiveAck
  <2> QED BY <1>1, <1>3, <1>4, <2>1, FailRemapInv
<1>6. CASE Accepted(Head(acks[w])) /\ control.at < Len(GpuWorkers)
  <2>1. /\ control' = [control EXCEPT !.at = control.at + 1, !.request_id = 0]
        /\ UNCHANGED << reply, gpu_suspended, pending_resume_registrations >>
    BY <1>6 DEF ReceiveAck
  <2>2. acks[w][1].request_id = control.request_id
    BY <1>3, <1>6 DEF Accepted
  <2> HIDE DEF w
  <2> QED BY <1>1, <1>2, <1>3, <1>4, <1>6, <2>1, <2>2, AdvanceRemapInv DEF w
<1>7. CASE Accepted(Head(acks[w])) /\ ~ (control.at < Len(GpuWorkers))
  <2>1. Finish
    BY <1>7 DEF ReceiveAck
  <2>2. acks[w][1].request_id = control.request_id
    BY <1>3, <1>7 DEF Accepted
  <2> QED BY <1>1, <1>2, <1>3, <1>4, <1>7, <2>1, <2>2, FinishRemapInv
<1> QED BY <1>5, <1>6, <1>7

LEMMA ControlTimeoutRemapInv ==
  ASSUME RemapInv, ControlTimeout
  PROVE  RemapInv'
<1>1. Waits /\ Fail /\ acks' = acks /\ UNCHANGED << controls, pipe, gpu_blocks, rank, freed, asked >>
  BY DEF ControlTimeout
<1>2. AcksKept
  BY <1>1 DEF AcksKept, RemapInv, RemapTypes
<1> QED BY <1>1, <1>2, FailRemapInv

(* A worker takes the first message of its pipe. *)
PipeTaken(w) ==
  /\ 1 \in 1 .. Len(pipe[w])
  /\ pipe' \in [WorkerSet -> Seq(PipeMessage)]
  /\ \A i \in 1 .. Len(pipe'[w]) : i + 1 \in 1 .. Len(pipe[w]) /\ pipe'[w][i] = pipe[w][i + 1]
  /\ \A v \in WorkerSet : v # w => pipe'[v] = pipe[v]

LEMMA TailTaken ==
  ASSUME RemapInv, NEW w \in WorkerSet, pipe[w] # << >>, pipe' = [pipe EXCEPT ![w] = Tail(pipe[w])]
  PROVE  PipeTaken(w) /\ Head(pipe[w]) = pipe[w][1] /\ pipe[w][1] \in PipeMessage
<1>1. pipe \in [WorkerSet -> Seq(PipeMessage)] /\ pipe[w] \in Seq(PipeMessage)
  BY DEF RemapInv, RemapTypes
<1>2. /\ Len(pipe[w]) \in Nat /\ Len(pipe[w]) > 0
      /\ Tail(pipe[w]) \in Seq(PipeMessage) /\ Len(Tail(pipe[w])) = Len(pipe[w]) - 1
      /\ \A i \in 1 .. Len(pipe[w]) - 1 : Tail(pipe[w])[i] = pipe[w][i + 1]
  BY <1>1
<1>3. \A i \in 1 .. Len(pipe'[w]) : i + 1 \in 1 .. Len(pipe[w]) /\ pipe'[w][i] = pipe[w][i + 1]
  BY <1>1, <1>2
<1>4. \A v \in WorkerSet : v # w => pipe'[v] = pipe[v]
  BY <1>1
<1>5. pipe' \in [WorkerSet -> Seq(PipeMessage)]
  BY <1>1, <1>2
<1> QED BY <1>1, <1>2, <1>3, <1>4, <1>5 DEF PipeTaken

(* What is left in the pipes was there before, in another place than the
   message taken. *)
LEMMA TakenPlaces ==
  ASSUME NEW w \in WorkerSet, PipeTaken(w), NEW v \in WorkerSet, NEW i \in 1 .. Len(pipe'[v])
  PROVE  \E j \in 1 .. Len(pipe[v]) :
           pipe'[v][i] = pipe[v][j] /\ (v = w => j = i + 1) /\ (v # w => j = i)
<1>1. CASE v = w
  <2>1. i + 1 \in 1 .. Len(pipe[v]) /\ pipe'[v][i] = pipe[v][i + 1]
    BY <1>1 DEF PipeTaken
  <2> QED BY <1>1, <2>1
<1>2. CASE v # w
  <2>1. i \in 1 .. Len(pipe[v]) /\ pipe'[v][i] = pipe[v][i]
    BY <1>2 DEF PipeTaken
  <2> QED BY <1>2, <2>1
<1> QED BY <1>1, <1>2

LEMMA TakenKeeps ==
  ASSUME NEW w \in WorkerSet, PipeTaken(w),
         rank' = rank, freed' = freed, reply' = reply, control' = control
  PROVE  /\ NoResumeSent => NoResumeSent'
         /\ NoLateResume => NoLateResume'
         /\ FreshPayloads => FreshPayloads'
<1>1. ASSUME NoResumeSent PROVE NoResumeSent'
  BY <1>1, TakenPlaces DEF NoResumeSent, ResumeAt
<1>2. ASSUME NoLateResume PROVE NoLateResume'
  BY <1>2, TakenPlaces DEF NoLateResume, ResumeAt, WakeFailed
<1>3. ASSUME FreshPayloads PROVE FreshPayloads'
  BY <1>3, TakenPlaces DEF FreshPayloads, ResumeAt
<1> QED BY <1>1, <1>2, <1>3

(* The replies after a worker took a message: the ones there were, and at this
   worker possibly the reply to that message. *)
AcksGrown(w) ==
  /\ acks' \in [WorkerSet -> Seq([request_id : Nat, ok : BOOLEAN])]
  /\ \A v \in WorkerSet : \A i \in 1 .. Len(acks'[v]) :
       \/ \E j \in 1 .. Len(acks[v]) : acks'[v][i] = acks[v][j]
       \/ v = w /\ pipe[w][1].type # "op" /\ acks'[v][i].request_id = pipe[w][1].request_id

LEMMA TakenIds ==
  ASSUME MessageIds, NEW w \in WorkerSet, PipeTaken(w), AcksGrown(w),
         control' = control, controls' = controls
  PROVE  MessageIds'
<1>1. \A v \in WorkerSet : \A i \in 1 .. Len(pipe[v]) :
        pipe[v][i].type # "op" => pipe[v][i].request_id \in 1 .. controls
  BY DEF MessageIds
<1>2. ASSUME NEW v \in WorkerSet, NEW i \in 1 .. Len(pipe'[v]), pipe'[v][i].type # "op"
      PROVE  pipe'[v][i].request_id \in 1 .. controls
  <2>1. PICK j \in 1 .. Len(pipe[v]) : pipe'[v][i] = pipe[v][j]
    BY TakenPlaces
  <2> QED BY <1>1, <1>2, <2>1
<1>3. ASSUME NEW v \in WorkerSet, NEW i \in 1 .. Len(acks'[v])
      PROVE  acks'[v][i].request_id \in 1 .. controls
  <2>1. CASE \E j \in 1 .. Len(acks[v]) : acks'[v][i] = acks[v][j]
    BY <2>1 DEF MessageIds
  <2>2. CASE pipe[w][1].type # "op" /\ acks'[v][i].request_id = pipe[w][1].request_id
    BY <1>1, <2>2 DEF PipeTaken
  <2> QED BY <2>1, <2>2 DEF AcksGrown
<1>4. ASSUME NEW u \in WorkerSet, NEW v \in WorkerSet,
             NEW i \in 1 .. Len(pipe'[u]), NEW j \in 1 .. Len(pipe'[v]),
             pipe'[u][i].type # "op", pipe'[v][j].type # "op", pipe'[u][i].request_id = pipe'[v][j].request_id
      PROVE  u = v /\ i = j
  <2>1. PICK k \in 1 .. Len(pipe[u]) : pipe'[u][i] = pipe[u][k] /\ (u = w => k = i + 1) /\ (u # w => k = i)
    BY TakenPlaces
  <2>2. PICK l \in 1 .. Len(pipe[v]) : pipe'[v][j] = pipe[v][l] /\ (v = w => l = j + 1) /\ (v # w => l = j)
    BY TakenPlaces
  <2>3. u = v /\ k = l
    BY <1>4, <2>1, <2>2 DEF MessageIds
  <2> QED BY <2>1, <2>2, <2>3
<1>5. ASSUME NEW u \in WorkerSet, NEW v \in WorkerSet,
             NEW i \in 1 .. Len(pipe'[u]), NEW j \in 1 .. Len(acks'[v]), pipe'[u][i].type # "op"
      PROVE  pipe'[u][i].request_id # acks'[v][j].request_id
  <2>1. PICK k \in 1 .. Len(pipe[u]) : pipe'[u][i] = pipe[u][k] /\ (u = w => k = i + 1)
    BY TakenPlaces
  <2>2. CASE \E l \in 1 .. Len(acks[v]) : acks'[v][j] = acks[v][l]
    <3>1. PICK l \in 1 .. Len(acks[v]) : acks'[v][j] = acks[v][l]
      BY <2>2
    <3>2. pipe[u][k].request_id # acks[v][l].request_id
      BY <1>5, <2>1 DEF MessageIds
    <3> QED BY <2>1, <3>1, <3>2
  <2>3. CASE pipe[w][1].type # "op" /\ acks'[v][j].request_id = pipe[w][1].request_id
    <3>1. 1 \in 1 .. Len(pipe[w]) /\ (u = w => k # 1)
      BY <2>1 DEF PipeTaken
    <3>2. pipe[u][k].request_id # pipe[w][1].request_id
      BY <1>5, <2>1, <2>3, <3>1 DEF MessageIds
    <3> QED BY <2>1, <2>3, <3>2
  <2> QED BY <2>2, <2>3 DEF AcksGrown
<1> QED BY <1>2, <1>3, <1>4, <1>5 DEF MessageIds

(* What a message does not touch, whatever it is. *)
LEMMA TakenRemapInv ==
  ASSUME RemapInv, NEW w \in WorkerSet, PipeTaken(w), AcksGrown(w),
         gpu_blocks' \in [WorkerSet -> [GpuRanks -> Nat]], Unmapped', NoFreedMapping',
         UNCHANGED << gpu_suspended, pending_resume_registrations, control, controls, rankVars >>
  PROVE  RemapInv'
<1>1. /\ rank' = rank /\ freed' = freed /\ asked' = asked /\ reply' = reply /\ gpu_suspended' = gpu_suspended
      /\ pending_resume_registrations' = pending_resume_registrations
      /\ control' = control /\ controls' = controls
  BY DEF rankVars
<1>2. RemapTypes'
  BY <1>1 DEF RemapInv, RemapTypes, PipeTaken, AcksGrown
<1>3. OneRequest' /\ SuspendAlone' /\ Registered' /\ Generations'
  <2>1. NoResumeSent => NoResumeSent'
    BY <1>1, TakenKeeps
  <2>2. OneRequest' /\ Registered' /\ Generations'
    BY <1>1 DEF RemapInv, OneRequest, Registered, Generations, SuspendActive, NoneRegistered, AllRegistered,
                Wants, Serving
  <2>3. SuspendAlone'
    BY <1>1, <2>1 DEF RemapInv, SuspendAlone, SuspendActive, NoneRegistered, Wants, Serving
  <2> QED BY <2>2, <2>3
<1>4. MessageIds'
  BY <1>1, TakenIds DEF RemapInv
<1>5. NoLateResume' /\ FreshPayloads'
  BY <1>1, TakenKeeps DEF RemapInv
<1>6. FreedIsOld'
  BY <1>1 DEF RemapInv, FreedIsOld
<1> QED BY <1>2, <1>3, <1>4, <1>5, <1>6 DEF RemapInv

LEMMA WorkerRemapInv ==
  ASSUME RemapInv, NEW w \in WorkerSet, WorkerStep(w)
  PROVE  RemapInv'
<1> USE DEF Requests
<1> DEFINE m == pipe[w][1]
           Acks == [request_id : Nat, ok : BOOLEAN]
<1>1. /\ pipe[w] # << >> /\ pipe' = [pipe EXCEPT ![w] = Tail(pipe[w])]
      /\ UNCHANGED << gpu_suspended, pending_resume_registrations, control, controls, rankVars >>
  BY DEF WorkerStep
<1>2. PipeTaken(w) /\ Head(pipe[w]) = m /\ m \in PipeMessage
  BY <1>1, TailTaken
<1>3. /\ rank' = rank /\ freed' = freed /\ reply' = reply /\ control' = control /\ gpu_suspended' = gpu_suspended
      /\ pending_resume_registrations' = pending_resume_registrations
  BY <1>1 DEF rankVars
<1>4. /\ acks \in [WorkerSet -> Seq(Acks)] /\ gpu_blocks \in [WorkerSet -> [GpuRanks -> Nat]]
  BY DEF RemapInv, RemapTypes
<1>5. NoResumeSent => NoResumeSent'
  BY <1>2, <1>3, TakenKeeps
<1>6. ASSUME NEW b \in BOOLEAN, m.type # "op",
             acks' = [acks EXCEPT ![w] = Append(acks[w], [request_id |-> m.request_id, ok |-> b])]
      PROVE  /\ AcksGrown(w)
             /\ \A v \in WorkerSet : v # w => acks'[v] = acks[v]
  <2> DEFINE a == [request_id |-> m.request_id, ok |-> b]
  <2>1. a \in Acks /\ a.request_id = m.request_id
    BY <1>2, <1>6 DEF PipeMessage
  <2> HIDE DEF a
  <2>2. /\ acks[w] \in Seq(Acks) /\ Append(acks[w], a) \in Seq(Acks)
        /\ Len(Append(acks[w], a)) = Len(acks[w]) + 1 /\ Len(acks[w]) \in Nat
        /\ \A i \in 1 .. Len(acks[w]) + 1 :
             Append(acks[w], a)[i] = IF i \in 1 .. Len(acks[w]) THEN acks[w][i] ELSE a
    BY <1>4, <2>1
  <2>3. acks' = [acks EXCEPT ![w] = Append(acks[w], a)]
    BY <1>6 DEF a
  <2>4. \A v \in WorkerSet : v # w => acks'[v] = acks[v]
    BY <1>4, <2>3
  <2>5. \A i \in 1 .. Len(acks'[w]) : \/ i \in 1 .. Len(acks[w]) /\ acks'[w][i] = acks[w][i]
                                      \/ acks'[w][i] = a
    BY <1>4, <2>2, <2>3
  <2>6. acks' \in [WorkerSet -> Seq(Acks)]
    BY <1>4, <2>2, <2>3
  <2> QED BY <1>6, <2>1, <2>4, <2>5, <2>6 DEF AcksGrown
<1>7. CASE m.type = "suspend_gpu" /\ control_suspend(w, m)
  <2>1. /\ gpu_blocks' \in [WorkerSet -> [GpuRanks -> Nat]]
        /\ \A v \in WorkerSet, r \in GpuRanks : gpu_blocks'[v][r] = IF v = w THEN 0 ELSE gpu_blocks[v][r]
    BY <1>4, <1>7 DEF control_suspend, None
  <2>2. AcksGrown(w) /\ \A v \in WorkerSet : v # w => acks'[v] = acks[v]
    BY <1>6, <1>7 DEF control_suspend
  <2>3. Unmapped'
    <3>1. NothingMapped => NothingMapped'
      BY <2>1 DEF NothingMapped
    <3>2. \A i \in 1 .. control.at - 1 : \A r \in GpuRanks :
            control.type = "suspend_gpu" => gpu_blocks'[GpuWorkers[i]][r] = 0
      <4>1. ASSUME NEW i \in 1 .. control.at - 1, control.type = "suspend_gpu"
            PROVE  GpuWorkers[i] \in WorkerSet
        BY <4>1, RemapAssumption, ControlIdle DEF RemapInv, Control, WorkerSet
      <4> QED BY <2>1, <4>1, ZenonT(30) DEF RemapInv, Unmapped
    <3>3. \A v \in WorkerSet : \A i \in 1 .. Len(acks'[v]) :
            control.type = "suspend_gpu" /\ acks'[v][i].request_id = control.request_id =>
              \A r \in GpuRanks : gpu_blocks'[v][r] = 0
      <4> SUFFICES ASSUME NEW v \in WorkerSet, NEW i \in 1 .. Len(acks'[v]), v # w,
                          control.type = "suspend_gpu", acks'[v][i].request_id = control.request_id
                   PROVE  \A r \in GpuRanks : gpu_blocks'[v][r] = 0
        BY <2>1
      <4>1. \A r \in GpuRanks : gpu_blocks[v][r] = 0
        BY <2>2 DEF RemapInv, Unmapped
      <4> QED BY <2>1, <4>1
    <3> QED BY <1>3, <1>5, <3>1, <3>2, <3>3 DEF RemapInv, Unmapped, NoneRegistered
  <2>4. NoFreedMapping'
    BY <1>3, <2>1 DEF RemapInv, NoFreedMapping, FreedIsOld
  <2> QED BY <1>1, <1>2, <2>1, <2>2, <2>3, <2>4, TakenRemapInv
<1>8. CASE m.type = "resume_gpu" /\ control_resume(w, m)
  <2>1. m.payload \in [GpuRanks -> Nat] /\ 1 \in 1 .. Len(pipe[w]) /\ ~ NoResumeSent
    BY <1>2, <1>8 DEF PipeMessage, PipeTaken, NoResumeSent, ResumeAt
  <2>2. /\ gpu_blocks' \in [WorkerSet -> [GpuRanks -> Nat]]
        /\ \A v \in WorkerSet : gpu_blocks'[v] = gpu_blocks[v] \/ (v = w /\ gpu_blocks'[v] = m.payload)
    BY <1>4, <1>8, <2>1 DEF control_resume
  <2>3. AcksGrown(w)
    <3>1. (gpu_blocks[w] = None) \in BOOLEAN
      OBVIOUS
    <3>2. acks' = [acks EXCEPT ![w] = Append(acks[w], [request_id |-> m.request_id, ok |-> gpu_blocks[w] = None])]
      BY <1>8 DEF control_resume
    <3> QED BY <1>6, <1>8, <3>1, <3>2
  <2>4. Unmapped'
    <3>1. ~ SuspendActive /\ ~ (gpu_suspended /\ NoneRegistered)
      BY <2>1 DEF RemapInv, SuspendAlone, Unmapped
    <3>2. control.type # "suspend_gpu"
      BY <3>1, ControlIdle DEF SuspendActive, Wants, Serving, RemapInv, Control
    <3> QED BY <1>3, <3>1, <3>2 DEF Unmapped, SuspendActive, NoneRegistered
  <2>5. NoFreedMapping'
    BY <1>3, <1>8, <2>1, <2>2 DEF RemapInv, NoFreedMapping, FreshPayloads, ResumeAt
  <2> QED BY <1>1, <1>2, <2>2, <2>3, <2>4, <2>5, TakenRemapInv
<1>9. CASE acks' = acks /\ gpu_blocks' = gpu_blocks
  <2>1. AcksGrown(w)
    BY <1>4, <1>9 DEF AcksGrown
  <2>2. Unmapped' /\ NoFreedMapping'
    BY <1>3, <1>5, <1>9 DEF RemapInv, Unmapped, NothingMapped, NoneRegistered, NoFreedMapping
  <2> QED BY <1>1, <1>2, <1>4, <1>9, <2>1, <2>2, TakenRemapInv
<1> QED BY <1>2, <1>7, <1>8, <1>9 DEF WorkerStep

LEMMA DispatchRemapInv ==
  ASSUME RemapInv, NEW w \in WorkerSet, DispatchOp(w)
  PROVE  RemapInv'
<1> DEFINE m == [type |-> "op"]
<1>1. /\ rank' = rank /\ freed' = freed /\ asked' = asked /\ reply' = reply /\ gpu_suspended' = gpu_suspended
      /\ pending_resume_registrations' = pending_resume_registrations /\ acks' = acks
      /\ control' = control /\ controls' = controls /\ gpu_blocks' = gpu_blocks
  BY DEF DispatchOp, rankVars
<1>2. m \in PipeMessage /\ m.type = "op"
  BY DEF PipeMessage
<1>3. pipe' = [pipe EXCEPT ![w] = Append(pipe[w], m)] /\ pipe \in [WorkerSet -> Seq(PipeMessage)]
  BY DEF DispatchOp, RemapInv, RemapTypes
<1> HIDE DEF m
<1>4. /\ pipe' \in [WorkerSet -> Seq(PipeMessage)]
      /\ \A v \in WorkerSet : \A i \in 1 .. Len(pipe'[v]) :
           \/ i \in 1 .. Len(pipe[v]) /\ pipe'[v][i] = pipe[v][i]
           \/ pipe'[v][i].type = "op"
  <2>1. /\ pipe[w] \in Seq(PipeMessage) /\ Append(pipe[w], m) \in Seq(PipeMessage)
        /\ Len(Append(pipe[w], m)) = Len(pipe[w]) + 1 /\ Len(pipe[w]) \in Nat
        /\ \A i \in 1 .. Len(pipe[w]) + 1 :
             Append(pipe[w], m)[i] = IF i \in 1 .. Len(pipe[w]) THEN pipe[w][i] ELSE m
    BY <1>2, <1>3
  <2> QED BY <1>2, <1>3, <2>1
<1>5. RemapTypes'
  BY <1>1, <1>4 DEF RemapInv, RemapTypes
<1>6. NoResumeSent => NoResumeSent'
  BY <1>4 DEF NoResumeSent, ResumeAt
<1>7. OneRequest' /\ Registered' /\ Generations'
  BY <1>1 DEF RemapInv, OneRequest, Registered, Generations, SuspendActive, NoneRegistered, AllRegistered,
              Wants, Serving
<1>8. SuspendAlone'
  BY <1>1, <1>6 DEF RemapInv, SuspendAlone, SuspendActive, NoneRegistered, Wants, Serving
<1>9. MessageIds'
  <2>1. \A v \in WorkerSet : \A i \in 1 .. Len(pipe'[v]) :
          pipe'[v][i].type # "op" => i \in 1 .. Len(pipe[v]) /\ pipe'[v][i] = pipe[v][i]
    BY <1>4
  <2>2. MessageIds
    BY DEF RemapInv
  <2>3. ASSUME NEW u \in WorkerSet, NEW v \in WorkerSet,
               NEW i \in 1 .. Len(pipe'[u]), NEW j \in 1 .. Len(pipe'[v]),
               pipe'[u][i].type # "op", pipe'[v][j].type # "op", pipe'[u][i].request_id = pipe'[v][j].request_id
        PROVE  u = v /\ i = j
    <3>1. /\ i \in 1 .. Len(pipe[u]) /\ pipe'[u][i] = pipe[u][i]
          /\ j \in 1 .. Len(pipe[v]) /\ pipe'[v][j] = pipe[v][j]
      BY <2>1, <2>3
    <3> QED BY ONLY <2>2, <2>3, <3>1, u \in WorkerSet, v \in WorkerSet DEF MessageIds
  <2>4. ASSUME NEW u \in WorkerSet, NEW v \in WorkerSet,
               NEW i \in 1 .. Len(pipe'[u]), NEW j \in 1 .. Len(acks[v]), pipe'[u][i].type # "op"
        PROVE  pipe'[u][i].request_id # acks[v][j].request_id
    <3>1. i \in 1 .. Len(pipe[u]) /\ pipe'[u][i] = pipe[u][i]
      BY <2>1, <2>4
    <3> QED BY ONLY <2>2, <2>4, <3>1, u \in WorkerSet, v \in WorkerSet, j \in 1 .. Len(acks[v]) DEF MessageIds
  <2>5. \A v \in WorkerSet : \A i \in 1 .. Len(pipe'[v]) :
          pipe'[v][i].type # "op" => pipe'[v][i].request_id \in 1 .. controls
    BY ONLY <2>1, <2>2 DEF MessageIds
  <2> QED BY <1>1, <2>2, <2>3, <2>4, <2>5 DEF MessageIds
<1>10. NoLateResume' /\ FreshPayloads'
  BY <1>1, <1>4, ZenonT(30) DEF RemapInv, NoLateResume, FreshPayloads, ResumeAt, WakeFailed
<1>11. Unmapped' /\ FreedIsOld' /\ NoFreedMapping'
  BY <1>1, <1>6 DEF RemapInv, Unmapped, NothingMapped, NoneRegistered, FreedIsOld, NoFreedMapping
<1> QED BY <1>5, <1>7, <1>8, <1>9, <1>10, <1>11 DEF RemapInv

LEMMA NextRemapInv ==
  ASSUME GoesOn = FALSE, RemapInv, [RemapNext]_remapVars
  PROVE  RemapInv'
<1>1. ASSUME NEW r \in GpuRanks,
             suspend_gpu_mappings(r) \/ after_device_wake(r) \/ RankAnswered(r) \/ RankTimeout(r) \/ Begin(r)
      PROVE  RemapInv'
  BY <1>1, SuspendRemapInv, WakeRemapInv, AnsweredRemapInv, TimeoutRemapInv, BeginRemapInv
<1>2. CASE SendControl \/ ReceiveAck \/ ControlTimeout
  BY <1>2, SendRemapInv, ReceiveRemapInv, ControlTimeoutRemapInv
<1>3. ASSUME NEW w \in WorkerSet, WorkerStep(w) \/ DispatchOp(w)
      PROVE  RemapInv'
  BY <1>3, WorkerRemapInv, DispatchRemapInv
<1>4. CASE SubmitGraph \/ TakeGraph \/ CollectOp \/ UNCHANGED remapVars
  <2>1. UNCHANGED << ctlVars, rankVars >>
    BY <1>4 DEF SubmitGraph, TakeGraph, CollectOp, remapVars
  <2>2. /\ rank' = rank /\ freed' = freed /\ asked' = asked /\ reply' = reply /\ gpu_suspended' = gpu_suspended
        /\ pending_resume_registrations' = pending_resume_registrations /\ acks' = acks
        /\ control' = control /\ controls' = controls /\ gpu_blocks' = gpu_blocks /\ pipe' = pipe
    BY <2>1 DEF ctlVars, rankVars
  <2> QED BY <2>2 DEF RemapInv, RemapTypes, OneRequest, SuspendAlone, Registered, Generations, MessageIds,
                      NoLateResume, FreshPayloads, Unmapped, FreedIsOld, NoFreedMapping, SuspendActive,
                      NoneRegistered, AllRegistered, NoResumeSent, ResumeAt, NothingMapped, WakeFailed,
                      Wants, Serving
<1> QED BY <1>1, <1>2, <1>3, <1>4 DEF RemapNext

LEMMA InitRemapInv ==
  ASSUME RemapInit
  PROVE  RemapInv
<1>1. /\ rank \in [GpuRanks -> [phase : Phases, gen : Nat \ {0}]]
      /\ \A r \in GpuRanks : rank[r].phase = "awake" /\ rank[r].gen = 1
      /\ freed = {} /\ asked = [r \in GpuRanks |-> "none"] /\ reply = [r \in GpuRanks |-> "none"]
      /\ gpu_suspended = FALSE /\ pending_resume_registrations = None
      /\ control.type = "idle" /\ control = Idle /\ controls = 0
  BY DEF RemapInit, Phases, Idle
<1>2. /\ pipe \in [WorkerSet -> Seq(PipeMessage)]
      /\ acks \in [WorkerSet -> Seq([request_id : Nat, ok : BOOLEAN])]
      /\ \A w \in WorkerSet : Len(pipe[w]) = 0 /\ Len(acks[w]) = 0
      /\ gpu_blocks \in [WorkerSet -> [GpuRanks -> Nat]]
  BY DEF RemapInit
<1>3. RemapTypes
  BY <1>1, <1>2 DEF RemapTypes, None, Requests
<1>4. /\ \A r \in GpuRanks : asked[r] = "none" /\ reply[r] = "none" /\ ~ Serving(r)
      /\ \A r \in GpuRanks : pending_resume_registrations[r] = 0
      /\ \A r \in GpuRanks : ~ Wants(r, "suspend_gpu") /\ ~ Wants(r, "resume_gpu")
      /\ control.type \notin Requests
  BY <1>1 DEF None, Serving, Wants, Requests
<1>5. ~ SuspendActive /\ \A w \in WorkerSet : 1 .. Len(pipe[w]) = {} /\ 1 .. Len(acks[w]) = {}
  BY <1>1, <1>2, <1>4 DEF SuspendActive
<1>6. OneRequest /\ SuspendAlone /\ Generations
  BY <1>1, <1>4, <1>5 DEF OneRequest, SuspendAlone, Generations
<1>7. Registered
  BY <1>1, <1>4 DEF Registered, NoneRegistered, AllRegistered
<1>8. MessageIds /\ NoLateResume /\ FreshPayloads /\ Unmapped /\ FreedIsOld /\ NoFreedMapping
  BY <1>1, <1>4, <1>5 DEF MessageIds, NoLateResume, FreshPayloads, Unmapped, FreedIsOld, NoFreedMapping, Requests
<1> QED BY <1>3, <1>6, <1>7, <1>8 DEF RemapInv

(* No worker maps GPU memory that the framework has freed: for any number of
   ranks and workers, whatever control requests time out, are answered late or
   are retried, as long as the framework does not put ranks to sleep again once
   a wake-up has failed. *)
THEOREM NoFreedMappingAlways ==
  ASSUME GoesOn = FALSE
  PROVE  RemapSpec => []NoFreedMapping
<1>1. RemapInit => RemapInv
  BY InitRemapInv
<1>2. RemapInv /\ [RemapNext]_remapVars => RemapInv'
  BY NextRemapInv
<1>3. RemapInv => NoFreedMapping
  BY DEF RemapInv
<1> QED BY <1>1, <1>2, <1>3, PTL DEF RemapSpec

-----------------------------------------------------------------------------
(* ServerClient. *)

ServerPhases == {"idle", "running", "draining", "stopped", "killed", "dead"}
ClientPhases == {"new", "started", "up", "gone"}
Adders == {"match", "create", "launch_batch"}
Farewells == {"unregister", "shutdown"}
Kinds == {"start", "register", "poll", "match", "reset", "create", "launch", "launch_batch", "cancel"}
           \union Farewells
IdsOf(c) == FirstId(c) .. FirstId(c) + IdRange - 1
ClientRequest ==
  [op : Kinds, from : DpClients, port : Ports, seq : Nat, task : Nat, ids : SUBSET Nat]

At(p, ops) == \E i \in 1 .. Len(inbox[p]) : inbox[p][i].op \in ops
Port(c, n) == << c, n >>

ServerTypes ==
  /\ mode \in {"embedded", "external"}
  /\ server \in ServerPhases
  /\ inbox \in [Ports -> Seq(ClientRequest)]
  /\ client_dict \in [DpClients -> Ports \union {NoPort}]
  /\ refused \subseteq Ports
  /\ tasks \subseteq Nat
  /\ client \in [DpClients -> [starts : Nat \ {0}, state : ClientPhases, counter : Nat,
                               waits : ClientRequest \union {NoRequest}]]
  /\ mail \in [Ports -> Seq(ClientRequest)]
  /\ calls \in Nat

(* A port is used by one incarnation of one client, from its start on. *)
PortsUsed ==
  \A c \in DpClients :
    /\ client[c].starts <= MaxStarts[c]
    /\ client_dict[c] = NoPort \/ \E n \in 1 .. client[c].starts : client_dict[c] = Port(c, n)
    /\ \A n \in 1 .. MaxStarts[c] : n > client[c].starts =>
         inbox[Port(c, n)] = << >> /\ mail[Port(c, n)] = << >> /\ Port(c, n) \notin refused

(* A request names its sender, its port and an id of its range. *)
SentBy ==
  /\ \A p \in Ports : \A i \in 1 .. Len(inbox[p]) :
       inbox[p][i].from = p[1] /\ inbox[p][i].port = p /\ inbox[p][i].task \in IdsOf(p[1])
  /\ \A c \in DpClients : client[c].counter \in IdsOf(c)

(* On a port, only start comes before register, and nothing after a farewell. *)
InOrder ==
  \A p \in Ports : \A i, j \in 1 .. Len(inbox[p]) : i < j =>
    /\ inbox[p][j].op = "register" => inbox[p][i].op = "start"
    /\ inbox[p][i].op \notin Farewells

(* What a client has sent by when, and that no start was read before run()
   read one. *)
Starting ==
  /\ \A c \in DpClients :
       /\ client[c].state \in {"new", "started"} =>
            /\ \A i \in 1 .. Len(inbox[PortOf(c)]) : inbox[PortOf(c)][i].op = "start"
            /\ mail[PortOf(c)] = << >> /\ PortOf(c) \notin refused /\ client_dict[c] # PortOf(c)
       /\ client[c].state = "new" => inbox[PortOf(c)] = << >>
       /\ client[c].state # "gone" => ~ At(PortOf(c), Farewells)
       /\ server = "idle" /\ client[c].state \in {"started", "up"} => inbox[PortOf(c)] # << >>
  /\ server = "idle" => \A p \in Ports : inbox[p] # << >> => inbox[p][1].op = "start"

(* A port registers once, and is refused or accepted. *)
RegistersOnce ==
  \A p \in Ports :
    /\ client_dict[p[1]] = p \/ p \in refused => ~ At(p, {"register"})
    /\ p \in refused => client_dict[p[1]] # p

(* A port whose registration was handled is the registered one, until the server
   refuses one of this client. *)
SomeRefused(c) == \E n \in 1 .. MaxStarts[c] : Port(c, n) \in refused
Settled(p) ==
  /\ ~ At(p, {"register"})
  /\ (p = PortOf(p[1]) /\ client[p[1]].state = "up") \/ At(p, Kinds \ {"start", "register"})
Served == \A p \in Ports : Settled(p) => client_dict[p[1]] = p \/ SomeRefused(p[1])

Blocked ==
  \A c \in DpClients : client[c].waits # NoRequest =>
    client[c].state = "up" /\ client[c].waits.op \in SyncOps

(* One synchronous request of a client is under way: the one it waits for, in the
   inbox or answered. *)
OneAnswer ==
  \A c \in DpClients : client[c].state = "up" /\ ~ RefusedBefore(c) =>
    /\ Len(mail[PortOf(c)]) <= 1
    /\ \A i \in 1 .. Len(mail[PortOf(c)]) : mail[PortOf(c)][i] = client[c].waits
    /\ \A i \in 1 .. Len(inbox[PortOf(c)]) : inbox[PortOf(c)][i].op \in SyncOps =>
         /\ inbox[PortOf(c)][i] = client[c].waits
         /\ mail[PortOf(c)] = << >>
         /\ \A j \in 1 .. Len(inbox[PortOf(c)]) : inbox[PortOf(c)][j].op \in SyncOps => j = i

(* A client blocks for a request under way, or for one of those excused. *)
Answering ==
  \A c \in DpClients : client[c].waits # NoRequest =>
    \/ OnItsWay(c)
    \/ server \in {"draining", "stopped", "killed", "dead"}
    \/ client_dict[c] # PortOf(c) /\ ~ At(PortOf(c), {"register"})
    \/ client[c].waits.op = "match" /\ (client[c].starts > 1 \/ calls > IdRange)

(* As long as no id was given twice, those of requests under way are new. *)
FreshIds ==
  \A c \in DpClients : client[c].starts = 1 =>
    /\ calls < IdRange =>
         /\ client[c].counter <= FirstId(c) + calls
         /\ \A t \in tasks : t \in IdsOf(c) => t < client[c].counter
         /\ \A i \in 1 .. Len(inbox[Port(c, 1)]) :
              inbox[Port(c, 1)][i].op \in Adders => inbox[Port(c, 1)][i].task < client[c].counter
    /\ calls <= IdRange =>
         \A i \in 1 .. Len(inbox[Port(c, 1)]) : inbox[Port(c, 1)][i].op \in Adders =>
           /\ inbox[Port(c, 1)][i].task \notin tasks
           /\ \A j \in 1 .. Len(inbox[Port(c, 1)]) :
                inbox[Port(c, 1)][j].op \in Adders
                  /\ inbox[Port(c, 1)][j].task = inbox[Port(c, 1)][i].task => j = i

ServerInv ==
  /\ ServerTypes /\ PortsUsed /\ SentBy /\ InOrder /\ Starting /\ RegistersOnce
  /\ Served /\ Blocked /\ OneAnswer /\ Answering /\ FreshIds
-----------------------------------------------------------------------------
LEMMA PortFacts ==
  /\ \A c \in DpClients : \A n \in 1 .. MaxStarts[c] :
       /\ Port(c, n) \in Ports /\ Port(c, n)[1] = c /\ Port(c, n)[2] = n /\ Port(c, n) # NoPort
  /\ \A p \in Ports : /\ p[1] \in DpClients /\ p[2] \in 1 .. MaxStarts[p[1]]
                      /\ p = Port(p[1], p[2])
BY ServerAssumption DEF Ports, Port, NoPort

(* The port of the running incarnation, and that no other client has it. *)
LEMMA OwnPort ==
  ASSUME ServerTypes, PortsUsed, NEW c \in DpClients
  PROVE  /\ client[c].starts \in 1 .. MaxStarts[c] /\ MaxStarts[c] \in Nat
         /\ PortOf(c) = Port(c, client[c].starts)
         /\ PortOf(c) \in Ports /\ PortOf(c)[1] = c /\ PortOf(c)[2] = client[c].starts
         /\ \A d \in DpClients : d # c => PortOf(d) # PortOf(c)
<1>1. \A d \in DpClients : client[d].starts \in 1 .. MaxStarts[d] /\ MaxStarts[d] \in Nat
  BY ServerAssumption DEF ServerTypes, PortsUsed
<1>2. \A d \in DpClients : PortOf(d) = Port(d, client[d].starts)
  BY DEF PortOf, Port
<1> QED BY <1>1, <1>2, PortFacts

(* Requests are no NoRequest. *)
LEMMA RequestsAreSome ==
  /\ \A m \in ClientRequest : m # NoRequest
  /\ NoRequest.op = "none"
BY DEF ClientRequest, NoRequest, Kinds, Farewells

(* The ids of different clients are apart. *)
LEMMA IdsApart ==
  ASSUME NEW c \in DpClients, NEW d \in DpClients, NEW x \in Nat, x \in IdsOf(c), x \in IdsOf(d)
  PROVE  c = d
<1>1. c \in Nat /\ d \in Nat /\ IdRange \in Nat /\ IdRange > 0
  BY ServerAssumption
<1>2. ASSUME NEW a \in Nat, NEW b \in Nat, a < b
      PROVE  a * IdRange + IdRange <= b * IdRange
  <2>1. PICK k \in Nat : b = a + 1 + k
    <3>1. b - a - 1 \in Nat /\ b = a + 1 + (b - a - 1)
      BY <1>2
    <3> QED BY <3>1
  <2>2. b * IdRange = a * IdRange + IdRange + k * IdRange /\ k * IdRange >= 0
    BY <1>1, <2>1
  <2>3. a * IdRange \in Nat /\ k * IdRange \in Nat
    BY <1>1, <2>1
  <2> QED BY <1>1, <2>2, <2>3
<1>3. c * IdRange \in Nat /\ d * IdRange \in Nat
  BY <1>1
<1>4. ~ (c < d) /\ ~ (d < c)
  BY <1>1, <1>2, <1>3 DEF IdsOf, FirstId
<1> QED BY <1>1, <1>4

LEMMA FirstIdNat ==
  ASSUME NEW c \in DpClients
  PROVE  FirstId(c) \in Nat /\ IdRange \in Nat /\ IdRange > 0 /\ FirstId(c) \in IdsOf(c)
<1>1. c \in Nat /\ IdRange \in Nat /\ IdRange > 0
  BY ServerAssumption
<1>2. c * IdRange \in Nat
  BY <1>1
<1> QED BY <1>1, <1>2 DEF FirstId, IdsOf

LEMMA NextIdFacts ==
  ASSUME NEW c \in DpClients, client[c].counter \in IdsOf(c)
  PROVE  /\ NextId(c) \in IdsOf(c)
         /\ client[c].counter < FirstId(c) + IdRange - 1 => NextId(c) = client[c].counter + 1
BY FirstIdNat DEF NextId, IdsOf

-----------------------------------------------------------------------------
(* Sending: one request more at the end of one port's inbox. *)
Grown(p, m) ==
  /\ inbox' \in [Ports -> Seq(ClientRequest)]
  /\ \A q \in Ports : q # p => inbox'[q] = inbox[q]
  /\ Len(inbox[p]) \in Nat /\ Len(inbox'[p]) = Len(inbox[p]) + 1
  /\ \A i \in 1 .. Len(inbox[p]) : inbox'[p][i] = inbox[p][i]
  /\ inbox'[p][Len(inbox[p]) + 1] = m

LEMMA SentGrows ==
  ASSUME ServerTypes, PortsUsed, NEW c \in DpClients, NEW m \in ClientRequest, inbox' = Sent(c, m)
  PROVE  Grown(PortOf(c), m)
<1>1. PortOf(c) \in Ports
  BY OwnPort
<1>2. inbox \in [Ports -> Seq(ClientRequest)]
  BY DEF ServerTypes
<1> DEFINE p == PortOf(c)
<1>3. p \in Ports /\ inbox[p] \in Seq(ClientRequest) /\ inbox' = [inbox EXCEPT ![p] = Append(inbox[p], m)]
  BY <1>1, <1>2 DEF Sent
<1> HIDE DEF p
<1>4. Append(inbox[p], m) \in Seq(ClientRequest) /\ Len(inbox[p]) \in Nat
  BY <1>3
<1>5. /\ Len(Append(inbox[p], m)) = Len(inbox[p]) + 1
      /\ \A i \in 1 .. Len(inbox[p]) : Append(inbox[p], m)[i] = inbox[p][i]
      /\ Append(inbox[p], m)[Len(inbox[p]) + 1] = m
  BY <1>3
<1>6. Grown(p, m)
  BY <1>2, <1>3, <1>4, <1>5 DEF Grown
<1> QED BY <1>6 DEF p

(* What every request does: its sender goes from phase to phase, takes an id if
   the request needs one, and blocks if it is synchronous. *)
Opening == {"start", "register"}
SendStep(c, m) ==
  /\ Grown(PortOf(c), m)
  /\ m \in ClientRequest /\ m.from = c /\ m.port = PortOf(c) /\ m.task = client[c].counter
  /\ client' \in [DpClients -> [starts : Nat \ {0}, state : ClientPhases, counter : Nat,
                                waits : ClientRequest \union {NoRequest}]]
  /\ \A d \in DpClients : d # c => client'[d] = client[d]
  /\ client'[c].starts = client[c].starts /\ client[c].waits = NoRequest
  /\ client'[c].waits = IF m.op \in SyncOps THEN m ELSE NoRequest
  /\ \/ m.op = "start" /\ client[c].state = "new" /\ client'[c].state = "started"
     \/ m.op = "register" /\ client[c].state = "started" /\ client'[c].state = "up"
     \/ /\ m.op \notin Opening \union Farewells
        /\ client[c].state = "up" /\ client'[c].state = "up"
     \/ m.op \in Farewells /\ client[c].state = "up" /\ client'[c].state = "gone"
  /\ m.op \in Opening \union Farewells => calls' = calls
  /\ m.op \notin Opening \union Farewells => calls' = calls + 1
  /\ client'[c].counter = IF m.op \in Adders THEN NextId(c) ELSE client[c].counter
  /\ mode' = mode /\ server' = server /\ client_dict' = client_dict /\ refused' = refused
  /\ tasks' = tasks /\ mail' = mail

LEMMA SendPorts ==
  ASSUME ServerInv, NEW c \in DpClients, NEW m, SendStep(c, m)
  PROVE  /\ ServerTypes' /\ PortsUsed' /\ SentBy'
         /\ \A d \in DpClients : PortOf(d)' = PortOf(d) /\ client'[d].starts = client[d].starts
<1>1. \A d \in DpClients : client'[d].starts = client[d].starts /\ PortOf(d)' = PortOf(d)
  BY DEF SendStep, PortOf
<1>2. client[c].counter \in IdsOf(c) /\ client'[c].counter \in IdsOf(c)
  BY NextIdFacts DEF SendStep, ServerInv, SentBy
<1>3. /\ PortOf(c) \in Ports /\ PortOf(c)[1] = c /\ PortOf(c)[2] = client[c].starts
      /\ client[c].starts \in Nat
  BY OwnPort DEF ServerInv, ServerTypes
<1>4. ServerTypes'
  BY DEF ServerInv, ServerTypes, SendStep, Grown
<1>5. PortsUsed'
  <2>1. ASSUME NEW d \in DpClients, NEW n \in 1 .. MaxStarts[d], n > client[d].starts
        PROVE  inbox'[Port(d, n)] = << >>
    <3>1. Port(d, n) \in Ports /\ Port(d, n)[1] = d /\ Port(d, n)[2] = n
      BY PortFacts
    <3>2. Port(d, n) # PortOf(c)
      BY <1>3, <2>1, <3>1 DEF ServerInv, ServerTypes
    <3> QED BY <2>1, <3>1, <3>2 DEF SendStep, Grown, ServerInv, PortsUsed
  <2> QED BY <1>1, <2>1 DEF ServerInv, PortsUsed, SendStep
<1>6. SentBy'
  <2>1. ASSUME NEW p \in Ports, NEW i \in 1 .. Len(inbox'[p])
        PROVE  inbox'[p][i].from = p[1] /\ inbox'[p][i].port = p /\ inbox'[p][i].task \in IdsOf(p[1])
    <3>1. CASE p # PortOf(c) \/ i \in 1 .. Len(inbox[p])
      BY <3>1 DEF SendStep, Grown, ServerInv, SentBy
    <3>2. CASE p = PortOf(c) /\ i = Len(inbox[p]) + 1
      BY <1>2, <1>3, <3>2 DEF SendStep, Grown
    <3> QED BY <3>1, <3>2 DEF SendStep, Grown
  <2>2. ASSUME NEW d \in DpClients PROVE client'[d].counter \in IdsOf(d)
    BY <1>2 DEF SendStep, ServerInv, SentBy
  <2> QED BY <2>1, <2>2 DEF SentBy, IdsOf, FirstId
<1> QED BY <1>1, <1>4, <1>5, <1>6

(* What is in an inbox after a request was sent. *)
LEMMA SendAt ==
  ASSUME ServerInv, NEW c \in DpClients, NEW m, SendStep(c, m)
  PROVE  /\ \A p \in Ports : \A ops : p # PortOf(c) => (At(p, ops)' <=> At(p, ops))
         /\ \A ops : At(PortOf(c), ops)' <=> At(PortOf(c), ops) \/ m.op \in ops
<1>1. PortOf(c)' = PortOf(c) /\ PortOf(c) \in Ports
  BY SendPorts, OwnPort DEF ServerInv
<1>2. ASSUME NEW p \in Ports, NEW ops, p # PortOf(c) PROVE At(p, ops)' <=> At(p, ops)
  BY <1>2 DEF SendStep, Grown, At
<1>3. ASSUME NEW ops PROVE At(PortOf(c), ops)' <=> At(PortOf(c), ops) \/ m.op \in ops
  <2> DEFINE p == PortOf(c)
  <2>1. /\ Len(inbox[p]) \in Nat /\ Len(inbox'[p]) = Len(inbox[p]) + 1
        /\ \A i \in 1 .. Len(inbox[p]) : inbox'[p][i] = inbox[p][i]
        /\ inbox'[p][Len(inbox[p]) + 1] = m
    BY DEF SendStep, Grown
  <2>2. p' = p
    BY <1>1
  <2> HIDE DEF p
  <2>3. ASSUME At(p, ops)' PROVE At(p, ops) \/ m.op \in ops
    <3>1. PICK i \in 1 .. Len(inbox'[p]) : inbox'[p][i].op \in ops
      BY <2>2, <2>3 DEF At
    <3>2. i \in 1 .. Len(inbox[p]) \/ i = Len(inbox[p]) + 1
      BY <2>1
    <3> QED BY <2>1, <3>1, <3>2 DEF At
  <2>4. ASSUME At(p, ops) PROVE At(p, ops)'
    <3>1. PICK i \in 1 .. Len(inbox[p]) : inbox[p][i].op \in ops
      BY <2>4 DEF At
    <3>2. i \in 1 .. Len(inbox'[p]) /\ inbox'[p][i] = inbox[p][i]
      BY <2>1
    <3> QED BY <2>2, <3>1, <3>2 DEF At
  <2>5. ASSUME m.op \in ops PROVE At(p, ops)'
    <3>1. Len(inbox[p]) + 1 \in 1 .. Len(inbox'[p])
      BY <2>1
    <3> QED BY <2>1, <2>2, <2>5, <3>1 DEF At
  <2> QED BY <2>3, <2>4, <2>5 DEF p
<1> QED BY <1>2, <1>3

LEMMA SendOrder ==
  ASSUME ServerInv, NEW c \in DpClients, NEW m, SendStep(c, m)
  PROVE  InOrder' /\ Starting' /\ RegistersOnce' /\ Served'
<1> DEFINE P == PortOf(c)
<1>1. /\ P \in Ports /\ P[1] = c /\ \A d \in DpClients : d # c => PortOf(d) # P
      /\ \A d \in DpClients : PortOf(d) \in Ports /\ PortOf(d)' = PortOf(d) /\ PortOf(d)[1] = d
  BY SendPorts, OwnPort DEF ServerInv
<1>0. P' = P
  BY <1>1
<1>2. /\ \A p \in Ports : \A ops : p # P => (At(p, ops)' <=> At(p, ops))
      /\ \A ops : At(P, ops)' <=> At(P, ops) \/ m.op \in ops
  BY SendAt
<1>3. /\ \A q \in Ports : q # P => inbox'[q] = inbox[q]
      /\ Len(inbox[P]) \in Nat /\ Len(inbox'[P]) = Len(inbox[P]) + 1
      /\ \A i \in 1 .. Len(inbox[P]) : inbox'[P][i] = inbox[P][i]
      /\ inbox'[P][Len(inbox[P]) + 1] = m
  BY DEF SendStep, Grown
<1>4. /\ \A d \in DpClients : d # c => client'[d] = client[d]
      /\ mail' = mail /\ refused' = refused /\ client_dict' = client_dict /\ server' = server
  BY DEF SendStep
<1>5. /\ \/ m.op = "start" /\ client[c].state = "new" /\ client'[c].state = "started"
         \/ m.op = "register" /\ client[c].state = "started" /\ client'[c].state = "up"
         \/ /\ m.op \notin Opening \union Farewells
            /\ client[c].state = "up" /\ client'[c].state = "up"
         \/ m.op \in Farewells /\ client[c].state = "up" /\ client'[c].state = "gone"
      /\ m.op \in Kinds
  BY DEF SendStep, ClientRequest
<1>6. InOrder /\ Starting /\ RegistersOnce /\ Served
  BY DEF ServerInv
<1> HIDE DEF P
<1>7. InOrder'
  <2>1. ~ At(P, Farewells)
    BY <1>5, <1>6 DEF Starting, P
  <2>2. m.op = "register" => \A i \in 1 .. Len(inbox[P]) : inbox[P][i].op = "start"
    BY <1>5, <1>6 DEF Starting, P, Opening, Farewells
  <2>3. ASSUME NEW p \in Ports, NEW i \in 1 .. Len(inbox'[p]), NEW j \in 1 .. Len(inbox'[p]), i < j
        PROVE  /\ inbox'[p][j].op = "register" => inbox'[p][i].op = "start"
               /\ inbox'[p][i].op \notin Farewells
    <3>1. CASE p # P
      BY <1>3, <1>6, <2>3, <3>1 DEF InOrder
    <3>2. CASE p = P /\ j \in 1 .. Len(inbox[P])
      <4>1. i \in 1 .. Len(inbox[P])
        BY <2>3, <3>2
      <4>2. inbox'[P][i] = inbox[P][i] /\ inbox'[P][j] = inbox[P][j]
        BY <1>3, <3>2, <4>1
      <4>3. /\ inbox[P][j].op = "register" => inbox[P][i].op = "start"
            /\ inbox[P][i].op \notin Farewells
        BY <1>1, <1>6, <2>3, <3>2, <4>1 DEF InOrder
      <4> QED BY <3>2, <4>2, <4>3
    <3>3. CASE p = P /\ j = Len(inbox[P]) + 1
      <4>1. i \in 1 .. Len(inbox[P])
        BY <1>3, <2>3, <3>3
      <4> QED BY <1>3, <2>1, <2>2, <3>3, <4>1 DEF At
    <3> QED BY <1>3, <3>1, <3>2, <3>3
  <2> QED BY <2>3 DEF InOrder
<1>8. Starting'
  <2>1. ASSUME NEW d \in DpClients, d # c
        PROVE  /\ client'[d].state \in {"new", "started"} =>
                    /\ \A i \in 1 .. Len(inbox'[PortOf(d)]) : inbox'[PortOf(d)][i].op = "start"
                    /\ mail'[PortOf(d)] = << >> /\ PortOf(d) \notin refused' /\ client_dict'[d] # PortOf(d)
               /\ client'[d].state = "new" => inbox'[PortOf(d)] = << >>
               /\ client'[d].state # "gone" => ~ At(PortOf(d), Farewells)'
               /\ server' = "idle" /\ client'[d].state \in {"started", "up"} => inbox'[PortOf(d)] # << >>
    <3>1. inbox'[PortOf(d)] = inbox[PortOf(d)] /\ PortOf(d) # P /\ PortOf(d)' = PortOf(d)
      BY <1>1, <1>3, <2>1
    <3>2. At(PortOf(d), Farewells)' <=> At(PortOf(d), Farewells)
      BY <1>1, <3>1, <1>2
    <3> QED BY <1>4, <1>6, <2>1, <3>1, <3>2 DEF Starting
  <2>2. /\ client'[c].state \in {"new", "started"} =>
             /\ \A i \in 1 .. Len(inbox'[P]) : inbox'[P][i].op = "start"
             /\ mail'[P] = << >> /\ P \notin refused' /\ client_dict'[c] # P
        /\ client'[c].state # "new"
        /\ client'[c].state # "gone" => ~ At(P, Farewells)'
        /\ inbox'[P] # << >>
    <3>1. inbox'[P] # << >>
      BY <1>3
    <3>2. client'[c].state # "gone" => ~ At(P, Farewells)'
      BY <1>2, <1>5, <1>6 DEF Starting, P, Farewells
    <3>3. client'[c].state \in {"new", "started"} =>
             /\ \A i \in 1 .. Len(inbox'[P]) : inbox'[P][i].op = "start"
             /\ mail'[P] = << >> /\ P \notin refused' /\ client_dict'[c] # P
      <4> SUFFICES ASSUME client'[c].state \in {"new", "started"}
                   PROVE  /\ \A i \in 1 .. Len(inbox'[P]) : inbox'[P][i].op = "start"
                          /\ mail'[P] = << >> /\ P \notin refused' /\ client_dict'[c] # P
        OBVIOUS
      <4>1. m.op = "start" /\ client[c].state = "new"
        BY <1>5
      <4>2. /\ \A i \in 1 .. Len(inbox[P]) : inbox[P][i].op = "start"
            /\ mail[P] = << >> /\ P \notin refused /\ client_dict[c] # P
        BY <1>6, <4>1 DEF Starting, P
      <4> QED BY <1>3, <1>4, <4>1, <4>2
    <3> QED BY <1>5, <3>1, <3>2, <3>3
  <2>3. ASSUME server' = "idle", NEW p \in Ports, inbox'[p] # << >> PROVE inbox'[p][1].op = "start"
    <3>1. CASE p # P
      BY <1>3, <1>4, <1>6, <2>3, <3>1 DEF Starting
    <3>2. CASE p = P /\ inbox[P] # << >>
      <4>1. 1 \in 1 .. Len(inbox[P])
        BY <3>2, <1>1 DEF ServerInv, ServerTypes
      <4> QED BY <1>1, <1>3, <1>4, <1>6, <2>3, <3>2, <4>1 DEF Starting
    <3>3. CASE p = P /\ inbox[P] = << >>
      <4>1. m.op = "start"
        BY <1>4, <1>5, <1>6, <2>3, <3>3 DEF Starting, P
      <4> QED BY <1>3, <3>3, <4>1
    <3> QED BY <3>1, <3>2, <3>3
  <2>5. ASSUME NEW d \in DpClients
        PROVE  /\ client'[d].state \in {"new", "started"} =>
                    /\ \A i \in 1 .. Len(inbox'[PortOf(d)]) : inbox'[PortOf(d)][i].op = "start"
                    /\ mail'[PortOf(d)] = << >> /\ PortOf(d) \notin refused' /\ client_dict'[d] # PortOf(d)
               /\ client'[d].state = "new" => inbox'[PortOf(d)] = << >>
               /\ client'[d].state # "gone" => ~ At(PortOf(d), Farewells)'
               /\ server' = "idle" /\ client'[d].state \in {"started", "up"} => inbox'[PortOf(d)] # << >>
    <3>1. CASE d # c
      BY <2>1, <3>1
    <3>2. CASE d = c
      BY <1>0, <2>2, <3>2 DEF P
    <3> QED BY <3>1, <3>2
  <2> QED BY <1>1, <2>3, <2>5 DEF Starting
<1>9. RegistersOnce'
  <2>1. m.op = "register" => P \notin refused /\ client_dict[c] # P
    BY <1>5, <1>6 DEF Starting, P, Opening, Farewells
  <2>2. ASSUME NEW p \in Ports, client_dict[p[1]] = p \/ p \in refused PROVE ~ At(p, {"register"})'
    <3>1. CASE p # P
      BY <1>2, <1>6, <2>2, <3>1 DEF RegistersOnce
    <3>2. CASE p = P
      BY <1>0, <1>1, <1>2, <1>6, <2>1, <2>2, <3>2 DEF RegistersOnce
    <3> QED BY <3>1, <3>2
  <2> QED BY <1>4, <1>6, <2>2 DEF RegistersOnce
<1>10. Served'
  <2>1. \A d : SomeRefused(d)' <=> SomeRefused(d)
    BY <1>4 DEF SomeRefused
  <2>2. ASSUME NEW p \in Ports, Settled(p)' PROVE Settled(p)
    <3>1. p[1] \in DpClients
      BY PortFacts
    <3>2. CASE p # P
      <4>1. /\ At(p, {"register"})' <=> At(p, {"register"})
            /\ At(p, Kinds \ {"start", "register"})' <=> At(p, Kinds \ {"start", "register"})
        BY <1>2, <3>2
      <4>2. p[1] = c => p # PortOf(p[1])
        BY <3>2 DEF P
      <4>3. PortOf(p[1])' = PortOf(p[1]) /\ (p[1] # c => client'[p[1]] = client[p[1]])
        BY <1>1, <1>4, <3>1
      <4> QED BY <2>2, <4>1, <4>2, <4>3 DEF Settled
    <3>3. CASE p = P
      <4>1. ~ At(P, {"register"}) /\ m.op # "register"
        BY <1>0, <1>2, <2>2, <3>3 DEF Settled
      <4>2. client[c].state = "up" \/ At(P, Kinds \ {"start", "register"})
        <5>1. CASE m.op = "start"
          <6>1. At(P, Kinds \ {"start", "register"})
            <7>1. client'[p[1]].state # "up"
              BY <1>1, <1>5, <3>3, <5>1 DEF Opening, Farewells
            <7>2. At(p, Kinds \ {"start", "register"})'
              BY <2>2, <7>1 DEF Settled
            <7>3. At(P, Kinds \ {"start", "register"})'
              BY <1>0, <3>3, <7>2
            <7> QED BY <1>2, <5>1, <7>3
          <6> QED BY <6>1
        <5> QED BY <1>5, <4>1, <5>1
      <4> QED BY <1>1, <3>3, <4>1, <4>2 DEF Settled, P
    <3> QED BY <3>2, <3>3
  <2> QED BY <1>4, <1>6, <2>1, <2>2 DEF Served
<1> QED BY <1>7, <1>8, <1>9, <1>10

LEMMA SendBlocks ==
  ASSUME ServerInv, NEW c \in DpClients, NEW m, SendStep(c, m)
  PROVE  Blocked' /\ OneAnswer' /\ Answering' /\ FreshIds'
<1> DEFINE P == PortOf(c)
<1>1. /\ P \in Ports /\ P[1] = c /\ \A d \in DpClients : d # c => PortOf(d) # P
      /\ \A d \in DpClients : /\ PortOf(d) \in Ports /\ PortOf(d)' = PortOf(d)
                              /\ client'[d].starts = client[d].starts
  BY SendPorts, OwnPort DEF ServerInv
<1>2. P' = P
  BY <1>1
<1>3. /\ \A q \in Ports : q # P => inbox'[q] = inbox[q]
      /\ Len(inbox[P]) \in Nat /\ Len(inbox'[P]) = Len(inbox[P]) + 1
      /\ \A i \in 1 .. Len(inbox[P]) : inbox'[P][i] = inbox[P][i]
      /\ inbox'[P][Len(inbox[P]) + 1] = m
  BY DEF SendStep, Grown
<1>4. /\ \A d \in DpClients : d # c => client'[d] = client[d]
      /\ mail' = mail /\ refused' = refused /\ client_dict' = client_dict /\ server' = server /\ tasks' = tasks
      /\ client[c].waits = NoRequest /\ client'[c].waits = IF m.op \in SyncOps THEN m ELSE NoRequest
      /\ m \in ClientRequest
  BY DEF SendStep
<1>5. /\ \/ m.op = "start" /\ client[c].state = "new" /\ client'[c].state = "started"
         \/ m.op = "register" /\ client[c].state = "started" /\ client'[c].state = "up"
         \/ /\ m.op \notin Opening \union Farewells
            /\ client[c].state = "up" /\ client'[c].state = "up"
         \/ m.op \in Farewells /\ client[c].state = "up" /\ client'[c].state = "gone"
      /\ m.op \in SyncOps => m.op \notin Opening \union Farewells
  BY DEF SendStep, SyncOps, Opening, Farewells
<1>6. Starting /\ Blocked /\ OneAnswer /\ Answering /\ FreshIds /\ ServerTypes /\ SentBy
  BY DEF ServerInv
<1>7. \A d \in DpClients : RefusedBefore(d)' <=> RefusedBefore(d)
  BY <1>1, <1>4 DEF RefusedBefore
<1>8. m # NoRequest /\ \A p \in Ports : \A i \in 1 .. Len(inbox[p]) : inbox[p][i] # NoRequest
  <2>1. \A p \in Ports : \A i \in 1 .. Len(inbox[p]) : inbox[p][i] \in ClientRequest
    BY <1>6 DEF ServerTypes
  <2> QED BY <1>4, <2>1, RequestsAreSome
<1>9. \A i \in 1 .. Len(mail[P]) : mail[P][i] # NoRequest
  <2>1. \A i \in 1 .. Len(mail[P]) : mail[P][i] \in ClientRequest
    BY <1>1, <1>6 DEF ServerTypes
  <2> QED BY <2>1, RequestsAreSome
<1>10. Len(mail[P]) \in Nat /\ (Len(mail[P]) = 0 <=> mail[P] = << >>)
  BY <1>1, <1>6 DEF ServerTypes
<1> HIDE DEF P
<1>11. Blocked'
  <2>1. ASSUME NEW d \in DpClients, client'[d].waits # NoRequest
        PROVE  client'[d].state = "up" /\ client'[d].waits.op \in SyncOps
    <3>1. CASE d # c
      BY <1>4, <1>6, <2>1, <3>1 DEF Blocked
    <3>2. CASE d = c
      BY <1>4, <1>5, <2>1, <3>2 DEF Opening
    <3> QED BY <3>1, <3>2
  <2> QED BY <2>1 DEF Blocked
<1>12. OneAnswer'
  <2>1. ASSUME NEW d \in DpClients, d # c, client'[d].state = "up", ~ RefusedBefore(d)'
        PROVE  /\ Len(mail'[PortOf(d)]) <= 1
               /\ \A i \in 1 .. Len(mail'[PortOf(d)]) : mail'[PortOf(d)][i] = client'[d].waits
               /\ \A i \in 1 .. Len(inbox'[PortOf(d)]) : inbox'[PortOf(d)][i].op \in SyncOps =>
                    /\ inbox'[PortOf(d)][i] = client'[d].waits
                    /\ mail'[PortOf(d)] = << >>
                    /\ \A j \in 1 .. Len(inbox'[PortOf(d)]) : inbox'[PortOf(d)][j].op \in SyncOps => j = i
    <3>1. inbox'[PortOf(d)] = inbox[PortOf(d)] /\ client'[d] = client[d] /\ mail' = mail /\ ~ RefusedBefore(d)
      BY <1>1, <1>3, <1>4, <1>7, <2>1
    <3> QED BY <1>6, <2>1, <3>1 DEF OneAnswer
  <2>2. ASSUME client'[c].state = "up", ~ RefusedBefore(c)'
        PROVE  /\ mail[P] = << >>
               /\ \A i \in 1 .. Len(inbox[P]) : inbox[P][i].op \notin SyncOps
    <3>1. CASE client[c].state = "started"
      BY <1>6, <3>1 DEF Starting, P, SyncOps
    <3>2. CASE client[c].state = "up"
      <4>1. /\ \A i \in 1 .. Len(mail[P]) : mail[P][i] = NoRequest
            /\ \A i \in 1 .. Len(inbox[P]) : inbox[P][i].op \in SyncOps => inbox[P][i] = NoRequest
        BY <1>4, <1>6, <1>7, <2>2, <3>2 DEF OneAnswer, P
      <4>2. Len(mail[P]) = 0
        BY <1>9, <1>10, <4>1
      <4> QED BY <1>1, <1>8, <1>10, <4>1, <4>2
    <3> QED BY <1>5, <2>2, <3>1, <3>2
  <2>3. ASSUME client'[c].state = "up", ~ RefusedBefore(c)'
        PROVE  /\ Len(mail'[P]) <= 1
               /\ \A i \in 1 .. Len(mail'[P]) : mail'[P][i] = client'[c].waits
               /\ \A i \in 1 .. Len(inbox'[P]) : inbox'[P][i].op \in SyncOps =>
                    /\ inbox'[P][i] = client'[c].waits
                    /\ mail'[P] = << >>
                    /\ \A j \in 1 .. Len(inbox'[P]) : inbox'[P][j].op \in SyncOps => j = i
    <3>1. \A i \in 1 .. Len(inbox'[P]) : inbox'[P][i].op \in SyncOps => i = Len(inbox[P]) + 1
      BY <1>3, <2>2, <2>3
    <3> QED BY <1>3, <1>4, <1>10, <2>2, <2>3, <3>1
  <2> QED BY <1>1, <1>2, <2>1, <2>3 DEF OneAnswer, P
<1>13. Answering'
  <2> SUFFICES ASSUME NEW d \in DpClients, client'[d].waits # NoRequest
               PROVE  \/ OnItsWay(d)'
                      \/ server' \in {"draining", "stopped", "killed", "dead"}
                      \/ client_dict'[d] # PortOf(d)' /\ ~ At(PortOf(d), {"register"})'
                      \/ client'[d].waits.op = "match" /\ (client'[d].starts > 1 \/ calls' > IdRange)
    BY DEF Answering
  <2>1. CASE d # c
    <3>1. /\ inbox'[PortOf(d)] = inbox[PortOf(d)] /\ client'[d] = client[d] /\ mail' = mail
          /\ client_dict' = client_dict /\ server' = server /\ PortOf(d)' = PortOf(d)
      BY <1>1, <1>3, <1>4, <2>1
    <3>2. (calls' = calls \/ calls' = calls + 1) /\ calls \in Nat /\ IdRange \in Nat
      BY <1>6, ServerAssumption DEF SendStep, ServerTypes
    <3>3. OnItsWay(d)' <=> OnItsWay(d)
      BY <3>1 DEF OnItsWay
    <3>4. At(PortOf(d), {"register"})' <=> At(PortOf(d), {"register"})
      BY <3>1 DEF At
    <3> QED BY <1>6, <3>1, <3>2, <3>3, <3>4 DEF Answering
  <2>2. CASE d = c
    <3>1. client'[c].waits = m
      BY <1>4, <2>2
    <3>2. Len(inbox[P]) + 1 \in 1 .. Len(inbox'[P]) /\ inbox'[P][Len(inbox[P]) + 1] = m
      BY <1>3
    <3>3. PortOf(c)' = P
      BY <1>1 DEF P
    <3>4. OnItsWay(c)'
      BY <3>1, <3>2, <3>3 DEF OnItsWay
    <3> QED BY <2>2, <3>4
  <2> QED BY <2>1, <2>2
<1>14. FreshIds'
  <2> SUFFICES ASSUME NEW d \in DpClients, client'[d].starts = 1
               PROVE  /\ calls' < IdRange =>
                           /\ client'[d].counter <= FirstId(d) + calls'
                           /\ \A t \in tasks' : t \in IdsOf(d) => t < client'[d].counter
                           /\ \A i \in 1 .. Len(inbox'[Port(d, 1)]) :
                                inbox'[Port(d, 1)][i].op \in Adders => inbox'[Port(d, 1)][i].task < client'[d].counter
                      /\ calls' <= IdRange =>
                           \A i \in 1 .. Len(inbox'[Port(d, 1)]) : inbox'[Port(d, 1)][i].op \in Adders =>
                             /\ inbox'[Port(d, 1)][i].task \notin tasks'
                             /\ \A j \in 1 .. Len(inbox'[Port(d, 1)]) :
                                  inbox'[Port(d, 1)][j].op \in Adders
                                    /\ inbox'[Port(d, 1)][j].task = inbox'[Port(d, 1)][i].task => j = i
    BY DEF FreshIds, FirstId, IdsOf, Port, Adders
  <2>1. Port(d, 1) = PortOf(d) /\ client[d].starts = 1 /\ Port(d, 1) \in Ports
    BY <1>1 DEF Port, PortOf
  <2>2. /\ FirstId(d) \in Nat /\ IdRange \in Nat /\ calls \in Nat /\ client[d].counter \in Nat
        /\ calls' = calls \/ calls' = calls + 1
    BY <1>6, FirstIdNat DEF ServerTypes, SendStep
  <2>3. CASE d # c
    <3>1. inbox'[Port(d, 1)] = inbox[Port(d, 1)] /\ client'[d] = client[d] /\ tasks' = tasks
      BY <1>1, <1>3, <1>4, <2>1, <2>3
    <3>2. calls' < IdRange => calls < IdRange
      BY <2>2
    <3>3. calls' <= IdRange => calls <= IdRange
      BY <2>2
    <3>4. /\ calls' < IdRange =>
               /\ client[d].counter <= FirstId(d) + calls
               /\ \A t \in tasks : t \in IdsOf(d) => t < client[d].counter
               /\ \A i \in 1 .. Len(inbox[Port(d, 1)]) :
                    inbox[Port(d, 1)][i].op \in Adders => inbox[Port(d, 1)][i].task < client[d].counter
      BY <1>6, <2>1, <3>2 DEF FreshIds
    <3>5. calls' <= IdRange =>
            \A i \in 1 .. Len(inbox[Port(d, 1)]) : inbox[Port(d, 1)][i].op \in Adders =>
              /\ inbox[Port(d, 1)][i].task \notin tasks
              /\ \A j \in 1 .. Len(inbox[Port(d, 1)]) :
                   inbox[Port(d, 1)][j].op \in Adders
                     /\ inbox[Port(d, 1)][j].task = inbox[Port(d, 1)][i].task => j = i
      BY <1>6, <2>1, <3>3 DEF FreshIds
    <3>6. calls' < IdRange => client[d].counter <= FirstId(d) + calls'
      BY <2>2, <3>4
    <3> QED BY <3>1, <3>4, <3>5, <3>6
  <2>4. CASE d = c /\ m.op \notin Adders
    <3>1. Port(d, 1) = P /\ client'[c].counter = client[c].counter
      BY <2>1, <2>4 DEF P, SendStep
    <3>2. \A i \in 1 .. Len(inbox'[P]) : inbox'[P][i].op \in Adders =>
            i \in 1 .. Len(inbox[P]) /\ inbox'[P][i] = inbox[P][i]
      BY <1>3, <2>4
    <3>3. calls' < IdRange => calls < IdRange /\ client[c].counter <= FirstId(c) + calls'
      BY <1>6, <2>1, <2>2, <2>4 DEF FreshIds
    <3>4. calls' <= IdRange => calls <= IdRange
      BY <2>2
    <3>5. calls' < IdRange =>
            /\ \A t \in tasks : t \in IdsOf(c) => t < client[c].counter
            /\ \A i \in 1 .. Len(inbox[P]) : inbox[P][i].op \in Adders => inbox[P][i].task < client[c].counter
      BY <1>6, <2>1, <2>4, <3>1, <3>3 DEF FreshIds
    <3>6. calls' <= IdRange =>
            \A i \in 1 .. Len(inbox[P]) : inbox[P][i].op \in Adders =>
              /\ inbox[P][i].task \notin tasks
              /\ \A j \in 1 .. Len(inbox[P]) :
                   inbox[P][j].op \in Adders /\ inbox[P][j].task = inbox[P][i].task => j = i
      BY <1>6, <2>1, <2>4, <3>1, <3>4 DEF FreshIds
    <3>7. calls' < IdRange =>
            \A i \in 1 .. Len(inbox'[P]) : inbox'[P][i].op \in Adders => inbox'[P][i].task < client[c].counter
      BY <3>2, <3>5
    <3>8. calls' <= IdRange =>
            \A i \in 1 .. Len(inbox'[P]) : inbox'[P][i].op \in Adders =>
              /\ inbox'[P][i].task \notin tasks
              /\ \A j \in 1 .. Len(inbox'[P]) :
                   inbox'[P][j].op \in Adders /\ inbox'[P][j].task = inbox'[P][i].task => j = i
      BY <3>2, <3>6
    <3>9. tasks' = tasks
      BY <1>4
    <3> QED BY <2>4, <3>1, <3>3, <3>5, <3>7, <3>8, <3>9
  <2>5. CASE d = c /\ m.op \in Adders
    <3>1. /\ Port(d, 1) = P /\ client'[c].counter = NextId(c) /\ calls' = calls + 1 /\ m.task = client[c].counter
      BY <2>1, <2>5 DEF P, SendStep, Adders, Opening, Farewells
    <3>2. client[c].counter \in IdsOf(c)
      BY <1>6 DEF SentBy
    <3>3. calls' <= IdRange =>
            /\ client[c].counter <= FirstId(c) + calls
            /\ \A t \in tasks : t \in IdsOf(c) => t < client[c].counter
            /\ \A i \in 1 .. Len(inbox[P]) : inbox[P][i].op \in Adders => inbox[P][i].task < client[c].counter
            /\ \A i \in 1 .. Len(inbox[P]) : inbox[P][i].op \in Adders =>
                 /\ inbox[P][i].task \notin tasks
                 /\ \A j \in 1 .. Len(inbox[P]) :
                      inbox[P][j].op \in Adders /\ inbox[P][j].task = inbox[P][i].task => j = i
      <4>1. calls' <= IdRange => calls < IdRange /\ calls <= IdRange
        BY <2>2, <3>1
      <4> QED BY <1>6, <2>1, <2>5, <3>1, <4>1 DEF FreshIds
    <3>4. \A i \in 1 .. Len(inbox'[P]) :
            \/ i \in 1 .. Len(inbox[P]) /\ inbox'[P][i] = inbox[P][i]
            \/ i = Len(inbox[P]) + 1 /\ inbox'[P][i] = m
      BY <1>3
    <3>5. calls' < IdRange => client'[c].counter = client[c].counter + 1
      BY <2>2, <2>5, <3>1, <3>2, <3>3, NextIdFacts
    <3>6. \A i \in 1 .. Len(inbox[P]) : inbox[P][i].task \in Nat
      <4>1. \A i \in 1 .. Len(inbox[P]) : inbox[P][i] \in ClientRequest
        BY <1>1, <1>6 DEF ServerTypes
      <4> QED BY <4>1 DEF ClientRequest
    <3>7. \A t \in tasks : t \in Nat
      BY <1>6 DEF ServerTypes
    <3>8. ASSUME calls' < IdRange
          PROVE  /\ client'[c].counter <= FirstId(c) + calls'
                 /\ \A t \in tasks : t \in IdsOf(c) => t < client'[c].counter
                 /\ \A i \in 1 .. Len(inbox'[P]) :
                      inbox'[P][i].op \in Adders => inbox'[P][i].task < client'[c].counter
      <4>1. client'[c].counter = client[c].counter + 1 /\ calls' <= IdRange
        BY <2>2, <3>1, <3>5, <3>8
      <4>2. client'[c].counter <= FirstId(c) + calls'
        BY <2>2, <2>5, <3>1, <3>3, <4>1
      <4>3. \A t \in tasks : t \in IdsOf(c) => t < client'[c].counter
        BY <2>2, <2>5, <3>3, <3>7, <4>1
      <4>4. \A i \in 1 .. Len(inbox'[P]) :
              inbox'[P][i].op \in Adders => inbox'[P][i].task < client'[c].counter
        <5> SUFFICES ASSUME NEW i \in 1 .. Len(inbox'[P]), inbox'[P][i].op \in Adders
                     PROVE  inbox'[P][i].task < client'[c].counter
          OBVIOUS
        <5>1. CASE i \in 1 .. Len(inbox[P]) /\ inbox'[P][i] = inbox[P][i]
          <6>1. inbox[P][i].task < client[c].counter /\ inbox[P][i].task \in Nat
            BY <3>3, <3>6, <4>1, <5>1
          <6> QED BY <2>2, <2>5, <4>1, <5>1, <6>1
        <5>2. CASE inbox'[P][i] = m
          BY <2>2, <2>5, <3>1, <4>1, <5>2
        <5> QED BY <3>4, <5>1, <5>2
      <4> QED BY <4>2, <4>3, <4>4
    <3>9. ASSUME calls' <= IdRange, NEW i \in 1 .. Len(inbox'[P]), inbox'[P][i].op \in Adders
          PROVE  /\ inbox'[P][i].task \notin tasks
                 /\ \A j \in 1 .. Len(inbox'[P]) :
                      inbox'[P][j].op \in Adders /\ inbox'[P][j].task = inbox'[P][i].task => j = i
      <4>1. client[c].counter \in Nat /\ client[c].counter \notin tasks
        BY <2>2, <2>5, <3>2, <3>3, <3>7, <3>9
      <4>2. \A j \in 1 .. Len(inbox[P]) : inbox[P][j].op \in Adders => inbox[P][j].task # client[c].counter
        BY <2>2, <2>5, <3>3, <3>6, <3>9
      <4>3. inbox'[P][i].task \notin tasks
        BY <3>1, <3>3, <3>4, <3>9, <4>1
      <4>4. ASSUME NEW j \in 1 .. Len(inbox'[P]), inbox'[P][j].op \in Adders,
                   inbox'[P][j].task = inbox'[P][i].task
            PROVE  j = i
        <5>1. CASE i \in 1 .. Len(inbox[P]) /\ j \in 1 .. Len(inbox[P])
          <6>1. inbox'[P][i] = inbox[P][i] /\ inbox'[P][j] = inbox[P][j]
            BY <1>3, <5>1
          <6> QED BY <3>3, <3>9, <4>4, <5>1, <6>1
        <5>2. CASE i = Len(inbox[P]) + 1 \/ j = Len(inbox[P]) + 1
          <6>1. CASE i = Len(inbox[P]) + 1 /\ j \in 1 .. Len(inbox[P])
            <7>1. inbox'[P][i] = m /\ inbox'[P][j] = inbox[P][j]
              BY <1>3, <6>1
            <7> QED BY <3>1, <4>2, <4>4, <6>1, <7>1
          <6>2. CASE j = Len(inbox[P]) + 1 /\ i \in 1 .. Len(inbox[P])
            <7>1. inbox'[P][j] = m /\ inbox'[P][i] = inbox[P][i]
              BY <1>3, <6>2
            <7> QED BY <3>1, <3>9, <4>2, <4>4, <6>2, <7>1
          <6> QED BY <1>3, <5>2, <6>1, <6>2
        <5> QED BY <1>3, <5>1, <5>2
      <4> QED BY <4>3, <4>4
    <3> QED BY <1>4, <2>5, <3>1, <3>8, <3>9
  <2> QED BY <2>3, <2>4, <2>5
<1> QED BY <1>11, <1>12, <1>13, <1>14

LEMMA SendKeeps ==
  ASSUME ServerInv, NEW c \in DpClients, NEW m, SendStep(c, m)
  PROVE  ServerInv'
BY SendPorts, SendOrder, SendBlocks DEF ServerInv

LEMMA RequestFacts ==
  ASSUME ServerInv, NEW c \in DpClients, NEW op \in Kinds, NEW ids \in SUBSET Nat
  PROVE  LET m == [Request(c, op) EXCEPT !.ids = ids]
         IN  /\ m \in ClientRequest /\ Request(c, op) \in ClientRequest
             /\ m.op = op /\ m.from = c /\ m.port = PortOf(c) /\ m.task = client[c].counter
             /\ Request(c, op).op = op /\ Request(c, op).from = c /\ Request(c, op).port = PortOf(c)
             /\ Request(c, op).task = client[c].counter
<1>1. PortOf(c) \in Ports /\ calls \in Nat /\ client[c].counter \in Nat
  BY OwnPort DEF ServerInv, ServerTypes
<1> QED BY <1>1 DEF Request, ClientRequest

LEMMA OpeningSends ==
  ASSUME ServerInv, NEW c \in DpClients, start_server(c) \/ register_to_server(c)
  PROVE  \E m : SendStep(c, m)
<1> DEFINE op == IF start_server(c) THEN "start" ELSE "register"
           m == Request(c, op)
           next == IF start_server(c) THEN "started" ELSE "up"
<1>1. op \in Kinds /\ op \in Opening /\ op \notin SyncOps \union Adders \union Farewells
  BY DEF Kinds, Opening, SyncOps, Adders, Farewells
<1>2. /\ inbox' = Sent(c, m) /\ client' = [client EXCEPT ![c].state = next]
      /\ client[c].state = IF op = "start" THEN "new" ELSE "started"
      /\ next = IF op = "start" THEN "started" ELSE "up"
      /\ mode' = mode /\ server' = server /\ client_dict' = client_dict /\ refused' = refused
      /\ tasks' = tasks /\ mail' = mail /\ calls' = calls
  BY DEF start_server, register_to_server, dictVars
<1>3. /\ m \in ClientRequest /\ m.op = op /\ m.from = c /\ m.port = PortOf(c) /\ m.task = client[c].counter
  BY <1>1, RequestFacts, {} \in SUBSET Nat, ZenonT(30)
<1> HIDE DEF op, m, next
<1>4. Grown(PortOf(c), m)
  BY <1>2, <1>3, SentGrows DEF ServerInv
<1>5. client[c].waits = NoRequest
  BY <1>2 DEF ServerInv, Blocked
<1>6. /\ client' \in [DpClients -> [starts : Nat \ {0}, state : ClientPhases, counter : Nat,
                                    waits : ClientRequest \union {NoRequest}]]
      /\ \A d \in DpClients : d # c => client'[d] = client[d]
      /\ client'[c].starts = client[c].starts /\ client'[c].waits = client[c].waits
      /\ client'[c].state = next /\ client'[c].counter = client[c].counter
  <2>1. next \in ClientPhases
    BY <1>2 DEF ClientPhases
  <2> QED BY <1>2, <2>1 DEF ServerInv, ServerTypes
<1>7. op = "start" \/ op = "register"
  BY <1>1 DEF Opening
<1>8. SendStep(c, m)
  BY <1>1, <1>2, <1>3, <1>4, <1>5, <1>6, <1>7 DEF SendStep
<1> QED BY <1>8

(* Calls: c goes on, blocked if the call is synchronous. *)
LEMMA CallSends ==
  ASSUME ServerInv, NEW c \in DpClients,
         NEW op \in SyncOps \union {"create", "launch", "launch_batch", "cancel"}, NEW m \in ClientRequest,
         m.op = op, m.from = c, m.port = PortOf(c), m.task = client[c].counter,
         CanSend(c), inbox' = Sent(c, m), calls' = calls + 1,
         client' \in [DpClients -> [starts : Nat \ {0}, state : ClientPhases, counter : Nat,
                                    waits : ClientRequest \union {NoRequest}]],
         \A d \in DpClients : d # c => client'[d] = client[d],
         client'[c].starts = client[c].starts, client'[c].state = client[c].state,
         client'[c].waits = (IF op \in SyncOps THEN m ELSE NoRequest),
         client'[c].counter = (IF op \in Adders THEN NextId(c) ELSE client[c].counter),
         UNCHANGED << mode, server, dictVars, tasks, mail >>
  PROVE  SendStep(c, m)
<1>1. Grown(PortOf(c), m)
  BY SentGrows DEF ServerInv
<1>2. client[c].state = "up" /\ client[c].waits = NoRequest
  BY DEF CanSend
<1>3. op \notin Opening \union Farewells
  BY DEF Opening, Farewells, SyncOps
<1> QED BY <1>1, <1>2, <1>3 DEF SendStep, dictVars

LEMMA SyncSends ==
  ASSUME ServerInv, NEW c \in DpClients, NEW op \in SyncOps, Call(c, op)
  PROVE  \E m : SendStep(c, m)
<1> DEFINE m == Request(c, op)
<1>1. op \in Kinds /\ (op = "match" <=> op \in Adders)
  BY DEF Kinds, SyncOps, Adders
<1>2. m \in ClientRequest /\ m.op = op /\ m.from = c /\ m.port = PortOf(c) /\ m.task = client[c].counter
  BY <1>1, RequestFacts, {} \in SUBSET Nat, ZenonT(30)
<1>3. NextId(c) \in Nat
  BY NextIdFacts, FirstIdNat DEF ServerInv, SentBy, IdsOf
<1> DEFINE n == IF op = "match" THEN NextId(c) ELSE client[c].counter
<1>4. /\ client' = [client EXCEPT ![c] = [client[c] EXCEPT !.waits = m, !.counter = n]]
      /\ CanSend(c) /\ inbox' = Sent(c, m) /\ calls' = calls + 1
      /\ UNCHANGED << mode, server, dictVars, tasks, mail >>
  BY DEF Call
<1>5. client \in [DpClients -> [starts : Nat \ {0}, state : ClientPhases, counter : Nat,
                                    waits : ClientRequest \union {NoRequest}]]
  BY DEF ServerInv, ServerTypes
<1>6. n \in Nat
  BY <1>3, <1>5
<1>7. n = IF op \in Adders THEN NextId(c) ELSE client[c].counter
  BY <1>1
<1> HIDE DEF m, n
<1> DEFINE r == [client[c] EXCEPT !.waits = m, !.counter = n]
<1>8. /\ r \in [starts : Nat \ {0}, state : ClientPhases, counter : Nat,
                waits : ClientRequest \union {NoRequest}]
      /\ r.starts = client[c].starts /\ r.state = client[c].state /\ r.waits = m /\ r.counter = n
  BY <1>2, <1>5, <1>6
<1>9. client' = [client EXCEPT ![c] = r]
  BY <1>4
<1> HIDE DEF r
<1>10. /\ client' \in [DpClients -> [starts : Nat \ {0}, state : ClientPhases, counter : Nat,
                                    waits : ClientRequest \union {NoRequest}]]
       /\ \A d \in DpClients : d # c => client'[d] = client[d]
       /\ client'[c] = r
  BY <1>5, <1>8, <1>9
<1>11. SendStep(c, m)
  BY <1>2, <1>4, <1>7, <1>8, <1>10, CallSends
<1> QED BY <1>11

LEMMA AsyncSends ==
  ASSUME ServerInv, NEW c \in DpClients, NEW op \in {"create", "launch", "launch_batch", "cancel"},
         NEW ids \in SUBSET Nat, NEW as_batch \in BOOLEAN,
         as_batch <=> op = "launch_batch",
         (op = "create" /\ CallAsync(c)) \/ (op # "create" /\ Launch(c, op, ids, as_batch))
  PROVE  \E m : SendStep(c, m)
<1> DEFINE m == IF op = "create" THEN Request(c, op) ELSE [Request(c, op) EXCEPT !.ids = ids]
           n == IF op \in Adders THEN NextId(c) ELSE client[c].counter
<1>1. op \in Kinds /\ op \notin SyncOps /\ (op \in Adders <=> op = "create" \/ as_batch)
  BY DEF Kinds, SyncOps, Adders
<1>2. m \in ClientRequest /\ m.op = op /\ m.from = c /\ m.port = PortOf(c) /\ m.task = client[c].counter
  BY <1>1, RequestFacts
<1>3. NextId(c) \in Nat
  BY NextIdFacts, FirstIdNat DEF ServerInv, SentBy, IdsOf
<1>4. /\ CanSend(c) /\ inbox' = Sent(c, m) /\ calls' = calls + 1
      /\ UNCHANGED << mode, server, dictVars, tasks, mail >>
  BY DEF CallAsync, Launch
<1>5. client' = [client EXCEPT ![c].counter = n]
  <2>1. CASE op = "create"
    BY <1>1, <2>1 DEF CallAsync
  <2>2. CASE op # "create"
    BY <1>1, <2>2 DEF Launch
  <2> QED BY <2>1, <2>2
<1>6. n \in Nat
  BY <1>3 DEF ServerInv, ServerTypes
<1>7. n = IF op \in Adders THEN NextId(c) ELSE client[c].counter
  BY <1>1
<1> HIDE DEF m, n
<1>8. client[c].waits = NoRequest
  BY <1>4 DEF CanSend
<1>9. /\ client' \in [DpClients -> [starts : Nat \ {0}, state : ClientPhases, counter : Nat,
                                    waits : ClientRequest \union {NoRequest}]]
      /\ \A d \in DpClients : d # c => client'[d] = client[d]
      /\ client'[c].starts = client[c].starts /\ client'[c].state = client[c].state
      /\ client'[c].waits = client[c].waits /\ client'[c].counter = n
  BY <1>5, <1>6 DEF ServerInv, ServerTypes
<1>10. SendStep(c, m)
  BY <1>1, <1>2, <1>4, <1>7, <1>8, <1>9, CallSends
<1> QED BY <1>10

LEMMA LeaveSends ==
  ASSUME ServerInv, NEW c \in DpClients, Leave(c)
  PROVE  \E m : SendStep(c, m)
<1> DEFINE op == IF mode = "external" THEN "unregister" ELSE "shutdown"
           m == Request(c, op)
<1>1. op \in Kinds /\ op \in Farewells /\ op \notin SyncOps \union Adders \union Opening
  BY DEF Kinds, Opening, SyncOps, Adders, Farewells
<1>2. m \in ClientRequest /\ m.op = op /\ m.from = c /\ m.port = PortOf(c) /\ m.task = client[c].counter
  BY <1>1, RequestFacts, {} \in SUBSET Nat
<1>3. /\ inbox' = Sent(c, m) /\ client' = [client EXCEPT ![c].state = "gone"]
      /\ client[c].state = "up" /\ client[c].waits = NoRequest
      /\ mode' = mode /\ server' = server /\ client_dict' = client_dict /\ refused' = refused
      /\ tasks' = tasks /\ mail' = mail /\ calls' = calls
  BY DEF Leave, dictVars
<1> HIDE DEF op, m
<1>4. Grown(PortOf(c), m)
  BY <1>2, <1>3, SentGrows DEF ServerInv
<1>5. /\ client' \in [DpClients -> [starts : Nat \ {0}, state : ClientPhases, counter : Nat,
                                    waits : ClientRequest \union {NoRequest}]]
      /\ \A d \in DpClients : d # c => client'[d] = client[d]
      /\ client'[c].starts = client[c].starts /\ client'[c].waits = client[c].waits
      /\ client'[c].state = "gone" /\ client'[c].counter = client[c].counter
  BY <1>3 DEF ServerInv, ServerTypes, ClientPhases
<1>6. SendStep(c, m)
  BY <1>1, <1>2, <1>3, <1>4, <1>5 DEF SendStep
<1> QED BY <1>6

-----------------------------------------------------------------------------
(* Receiving, crashing and starting again. *)
LEMMA ReceiveKeeps ==
  ASSUME ServerInv, NEW c \in DpClients, Receive(c)
  PROVE  ServerInv'
<1> DEFINE P == PortOf(c)
<1>1. /\ P \in Ports /\ P = Port(c, client[c].starts) /\ client[c].starts \in Nat
      /\ \A d \in DpClients : PortOf(d) \in Ports /\ (d # c => PortOf(d) # P)
  BY OwnPort DEF ServerInv, ServerTypes
<1>2. /\ client[c].waits # NoRequest /\ mail[P] # << >> /\ mail' = [mail EXCEPT ![P] = Tail(mail[P])]
      /\ client' = [client EXCEPT ![c].waits = NoRequest]
      /\ mode' = mode /\ server' = server /\ client_dict' = client_dict /\ refused' = refused
      /\ tasks' = tasks /\ inbox' = inbox /\ calls' = calls
  BY DEF Receive, dictVars
<1>3. /\ client' \in [DpClients -> [starts : Nat \ {0}, state : ClientPhases, counter : Nat,
                                    waits : ClientRequest \union {NoRequest}]]
      /\ \A d \in DpClients : /\ d # c => client'[d] = client[d]
                              /\ client'[d].starts = client[d].starts /\ client'[d].state = client[d].state
                              /\ client'[d].counter = client[d].counter
      /\ client'[c].waits = NoRequest
  BY <1>2 DEF ServerInv, ServerTypes
<1>4. \A d \in DpClients : PortOf(d)' = PortOf(d)
  BY <1>3 DEF PortOf
<1>5. /\ mail' \in [Ports -> Seq(ClientRequest)] /\ \A q \in Ports : q # P => mail'[q] = mail[q]
      /\ Len(mail'[P]) = Len(mail[P]) - 1 /\ Len(mail[P]) \in Nat /\ Len(mail[P]) > 0
  <2>1. mail \in [Ports -> Seq(ClientRequest)]
    BY DEF ServerInv, ServerTypes
  <2>2. mail[P] \in Seq(ClientRequest) /\ mail[P] # << >>
    BY <1>1, <1>2, <2>1
  <2>3. /\ Tail(mail[P]) \in Seq(ClientRequest) /\ Len(Tail(mail[P])) = Len(mail[P]) - 1
        /\ Len(mail[P]) \in Nat /\ Len(mail[P]) > 0
    BY <2>2
  <2> QED BY <1>1, <1>2, <2>1, <2>3
<1>6. client[c].state = "up"
  BY <1>2 DEF ServerInv, Blocked
<1> HIDE DEF P
<1>7. ServerTypes' /\ SentBy' /\ InOrder' /\ RegistersOnce'
  <2>1. ServerTypes'
    BY <1>2, <1>3, <1>5 DEF ServerInv, ServerTypes
  <2>2. SentBy'
    BY <1>2, <1>3 DEF ServerInv, SentBy
  <2>3. InOrder' /\ RegistersOnce'
    BY <1>2 DEF ServerInv, InOrder, RegistersOnce, At
  <2> QED BY <2>1, <2>2, <2>3
<1>8. PortsUsed'
  <2>1. ASSUME NEW d \in DpClients, NEW n \in 1 .. MaxStarts[d], n > client[d].starts
        PROVE  mail'[Port(d, n)] = << >>
    <3>1. Port(d, n) \in Ports /\ Port(d, n) # P
      BY <1>1, <2>1, PortFacts DEF Port
    <3> QED BY <1>5, <2>1, <3>1 DEF ServerInv, PortsUsed
  <2> QED BY <1>2, <1>3, <2>1 DEF ServerInv, PortsUsed
<1>9. Starting'
  <2>1. \A d \in DpClients : client[d].state \in {"new", "started"} => mail'[PortOf(d)] = mail[PortOf(d)]
    BY <1>1, <1>5, <1>6
  <2>2. \A d \in DpClients : At(PortOf(d), Farewells)' <=> At(PortOf(d), Farewells)
    BY <1>2, <1>4 DEF At
  <2> QED BY <1>2, <1>3, <1>4, <2>1, <2>2 DEF ServerInv, Starting
<1>10. Served'
  <2>1. \A p \in Ports : Settled(p)' <=> Settled(p)
    <3>1. \A p \in Ports : \A ops : At(p, ops)' <=> At(p, ops)
      BY <1>2 DEF At
    <3> QED BY <1>3, <1>4, <3>1, PortFacts DEF Settled
  <2>2. \A d : SomeRefused(d)' <=> SomeRefused(d)
    BY <1>2 DEF SomeRefused
  <2> QED BY <1>2, <2>1, <2>2 DEF ServerInv, Served
<1>11. Blocked'
  BY <1>3 DEF ServerInv, Blocked
<1>12. OneAnswer'
  <2>1. \A d \in DpClients : RefusedBefore(d)' <=> RefusedBefore(d)
    BY <1>2, <1>3 DEF RefusedBefore
  <2>2. ASSUME NEW d \in DpClients, d # c, client'[d].state = "up", ~ RefusedBefore(d)
        PROVE  /\ Len(mail'[PortOf(d)]) <= 1
               /\ \A i \in 1 .. Len(mail'[PortOf(d)]) : mail'[PortOf(d)][i] = client'[d].waits
               /\ \A i \in 1 .. Len(inbox[PortOf(d)]) : inbox[PortOf(d)][i].op \in SyncOps =>
                    /\ inbox[PortOf(d)][i] = client'[d].waits
                    /\ mail'[PortOf(d)] = << >>
                    /\ \A j \in 1 .. Len(inbox[PortOf(d)]) : inbox[PortOf(d)][j].op \in SyncOps => j = i
    <3>1. client'[d] = client[d] /\ mail'[PortOf(d)] = mail[PortOf(d)]
      BY <1>1, <1>3, <1>5, <2>2
    <3> QED BY <2>2, <3>1 DEF ServerInv, OneAnswer
  <2>3. ASSUME ~ RefusedBefore(c)
        PROVE  /\ Len(mail'[P]) = 0
               /\ \A i \in 1 .. Len(inbox[P]) : inbox[P][i].op \notin SyncOps
    BY <1>2, <1>5, <1>6, <2>3 DEF ServerInv, OneAnswer, P
  <2>4. ASSUME NEW d \in DpClients, client'[d].state = "up", ~ RefusedBefore(d)
        PROVE  /\ Len(mail'[PortOf(d)]) <= 1
               /\ \A i \in 1 .. Len(mail'[PortOf(d)]) : mail'[PortOf(d)][i] = client'[d].waits
               /\ \A i \in 1 .. Len(inbox[PortOf(d)]) : inbox[PortOf(d)][i].op \in SyncOps =>
                    /\ inbox[PortOf(d)][i] = client'[d].waits
                    /\ mail'[PortOf(d)] = << >>
                    /\ \A j \in 1 .. Len(inbox[PortOf(d)]) : inbox[PortOf(d)][j].op \in SyncOps => j = i
    <3>1. CASE d = c
      BY <2>3, <2>4, <3>1 DEF P
    <3> QED BY <2>2, <2>4, <3>1
  <2> QED BY <1>2, <1>4, <2>1, <2>4 DEF OneAnswer
<1>13. Answering'
  <2> SUFFICES ASSUME NEW d \in DpClients, client'[d].waits # NoRequest
               PROVE  \/ OnItsWay(d)'
                      \/ server' \in {"draining", "stopped", "killed", "dead"}
                      \/ client_dict'[d] # PortOf(d)' /\ ~ At(PortOf(d), {"register"})'
                      \/ client'[d].waits.op = "match" /\ (client'[d].starts > 1 \/ calls' > IdRange)
    BY DEF Answering
  <2>1. d # c /\ client'[d] = client[d] /\ mail'[PortOf(d)] = mail[PortOf(d)] /\ PortOf(d)' = PortOf(d)
    BY <1>1, <1>3, <1>4, <1>5
  <2>2. OnItsWay(d)' <=> OnItsWay(d)
    BY <1>2, <2>1 DEF OnItsWay
  <2>3. At(PortOf(d), {"register"})' <=> At(PortOf(d), {"register"})
    BY <1>2, <2>1 DEF At
  <2> QED BY <1>2, <2>1, <2>2, <2>3 DEF ServerInv, Answering
<1>14. FreshIds'
  BY <1>2, <1>3 DEF ServerInv, FreshIds
<1> QED BY <1>7, <1>8, <1>9, <1>10, <1>11, <1>12, <1>13, <1>14 DEF ServerInv

LEMMA CrashKeeps ==
  ASSUME ServerInv, NEW c \in DpClients, Crash(c)
  PROVE  ServerInv'
<1>1. /\ client' = [client EXCEPT ![c] = [client[c] EXCEPT !.state = "gone", !.waits = NoRequest]]
      /\ mode' = mode /\ server' = server /\ client_dict' = client_dict /\ refused' = refused
      /\ tasks' = tasks /\ inbox' = inbox /\ calls' = calls /\ mail' = mail
  BY DEF Crash, dictVars
<1> DEFINE r == [client[c] EXCEPT !.state = "gone", !.waits = NoRequest]
<1>2. /\ r \in [starts : Nat \ {0}, state : ClientPhases, counter : Nat,
                waits : ClientRequest \union {NoRequest}]
      /\ r.starts = client[c].starts /\ r.state = "gone" /\ r.counter = client[c].counter
      /\ r.waits = NoRequest
  BY DEF ServerInv, ServerTypes, ClientPhases
<1>3. client' = [client EXCEPT ![c] = r]
  BY <1>1
<1> HIDE DEF r
<1>4. /\ client' \in [DpClients -> [starts : Nat \ {0}, state : ClientPhases, counter : Nat,
                                    waits : ClientRequest \union {NoRequest}]]
      /\ \A d \in DpClients : /\ d # c => client'[d] = client[d]
                              /\ client'[d].starts = client[d].starts
                              /\ client'[d].counter = client[d].counter
      /\ client'[c].state = "gone" /\ client'[c].waits = NoRequest
  BY <1>2, <1>3 DEF ServerInv, ServerTypes
<1>5. \A d \in DpClients : PortOf(d)' = PortOf(d)
  BY <1>4 DEF PortOf
<1>6. \A p, ops : At(p, ops)' <=> At(p, ops)
  BY <1>1 DEF At
<1>7. ServerTypes' /\ PortsUsed'
  BY <1>1, <1>4 DEF ServerInv, ServerTypes, PortsUsed
<1>8. SentBy' /\ InOrder' /\ RegistersOnce'
  BY <1>1, <1>4 DEF ServerInv, SentBy, InOrder, RegistersOnce, At
<1>9. Starting'
  <2>1. \A d \in DpClients : At(PortOf(d), Farewells)' <=> At(PortOf(d), Farewells)
    BY <1>1, <1>5 DEF At
  <2> QED BY <1>1, <1>4, <1>5, <2>1 DEF ServerInv, Starting
<1>10. Served'
  <2>1. \A p \in Ports : Settled(p)' => Settled(p)
    BY <1>1, <1>4, <1>5, PortFacts DEF Settled, At
  <2>2. \A d : SomeRefused(d)' <=> SomeRefused(d)
    BY <1>1 DEF SomeRefused
  <2> QED BY <1>1, <2>1, <2>2 DEF ServerInv, Served
<1>11. Blocked'
  BY <1>4 DEF ServerInv, Blocked
<1>12. OneAnswer'
  <2>1. \A d \in DpClients : RefusedBefore(d)' <=> RefusedBefore(d)
    BY <1>1, <1>4 DEF RefusedBefore
  <2> QED BY <1>1, <1>4, <1>5, <2>1 DEF ServerInv, OneAnswer
<1>13. Answering'
  <2>1. \A d \in DpClients : d # c => (OnItsWay(d)' <=> OnItsWay(d))
    BY <1>1, <1>4, <1>5 DEF OnItsWay
  <2>2. \A d \in DpClients : At(PortOf(d), {"register"})' <=> At(PortOf(d), {"register"})
    BY <1>1, <1>5 DEF At
  <2> QED BY <1>1, <1>4, <1>5, <2>1, <2>2 DEF ServerInv, Answering
<1>14. FreshIds'
  BY <1>1, <1>4 DEF ServerInv, FreshIds
<1> QED BY <1>7, <1>8, <1>9, <1>10, <1>11, <1>12, <1>13, <1>14 DEF ServerInv

LEMMA RestartKeeps ==
  ASSUME ServerInv, NEW c \in DpClients, Restart(c)
  PROVE  ServerInv'
<1> DEFINE k == client[c].starts + 1
           Q == Port(c, k)
<1>1. /\ client[c].state = "gone" /\ client[c].starts < MaxStarts[c]
      /\ client' = [client EXCEPT ![c] = Fresh(c, k)]
      /\ mode' = mode /\ server' = server /\ client_dict' = client_dict /\ refused' = refused
      /\ tasks' = tasks /\ inbox' = inbox /\ calls' = calls /\ mail' = mail
  BY DEF Restart, dictVars
<1>2. client[c].starts \in Nat /\ client[c].starts > 0 /\ MaxStarts[c] \in Nat /\ k \in 1 .. MaxStarts[c] /\ k > 1
  <2>1. client[c].starts \in 1 .. MaxStarts[c] /\ MaxStarts[c] \in Nat
    BY OwnPort DEF ServerInv
  <2> QED BY <1>1, <2>1
<1>3. /\ client' \in [DpClients -> [starts : Nat \ {0}, state : ClientPhases, counter : Nat,
                                    waits : ClientRequest \union {NoRequest}]]
      /\ \A d \in DpClients : d # c => client'[d] = client[d]
      /\ client'[c].state = "new" /\ client'[c].waits = NoRequest
      /\ client'[c].starts = k /\ client'[c].counter = FirstId(c)
  BY <1>1, <1>2, FirstIdNat DEF ServerInv, ServerTypes, Fresh, ClientPhases
<1>4. /\ PortOf(c)' = Q /\ Q \in Ports
      /\ \A d \in DpClients : d # c => PortOf(d)' = PortOf(d)
  BY <1>2, <1>3, PortFacts DEF PortOf, Port
<1>5. inbox[Q] = << >> /\ mail[Q] = << >> /\ Q \notin refused
  BY <1>2 DEF ServerInv, PortsUsed
<1>6. client_dict[c] # Q
  <2>1. ASSUME NEW n \in 1 .. client[c].starts PROVE Port(c, n) # Q
    BY <1>2 DEF Port
  <2>2. NoPort # Q
    BY <1>2, PortFacts
  <2> QED BY <2>1, <2>2 DEF ServerInv, PortsUsed
<1> HIDE DEF k, Q
<1>7. ServerTypes'
  BY <1>1, <1>3 DEF ServerInv, ServerTypes
<1>8. PortsUsed'
  <2>1. \A n \in 1 .. MaxStarts[c] : n > client'[c].starts => n > client[c].starts
    BY <1>2, <1>3 DEF k
  <2>2. \A n \in 1 .. client[c].starts : n \in 1 .. client'[c].starts
    BY <1>2, <1>3 DEF k
  <2>3. client'[c].starts <= MaxStarts[c]
    BY <1>2, <1>3
  <2>4. ASSUME NEW d \in DpClients
        PROVE  /\ client'[d].starts <= MaxStarts[d]
               /\ client_dict[d] = NoPort \/ \E n \in 1 .. client'[d].starts : client_dict[d] = Port(d, n)
               /\ \A n \in 1 .. MaxStarts[d] : n > client'[d].starts =>
                    inbox[Port(d, n)] = << >> /\ mail[Port(d, n)] = << >> /\ Port(d, n) \notin refused
    <3>1. CASE d # c
      BY <1>3, <3>1 DEF ServerInv, PortsUsed
    <3>2. CASE d = c
      BY <2>1, <2>2, <2>3, <3>2 DEF ServerInv, PortsUsed
    <3> QED BY <3>1, <3>2
  <2> QED BY <1>1, <2>4 DEF PortsUsed
<1>9. SentBy' /\ InOrder' /\ RegistersOnce'
  <2>1. \A d \in DpClients : client'[d].counter \in IdsOf(d)
    BY <1>3, FirstIdNat DEF ServerInv, SentBy
  <2> QED BY <1>1, <2>1 DEF ServerInv, SentBy, InOrder, RegistersOnce, At
<1>10. Starting'
  <2>1. ASSUME NEW d \in DpClients
        PROVE  /\ client'[d].state \in {"new", "started"} =>
                    /\ \A i \in 1 .. Len(inbox[PortOf(d)']) : inbox[PortOf(d)'][i].op = "start"
                    /\ mail[PortOf(d)'] = << >> /\ PortOf(d)' \notin refused /\ client_dict[d] # PortOf(d)'
               /\ client'[d].state = "new" => inbox[PortOf(d)'] = << >>
               /\ client'[d].state # "gone" => ~ At(PortOf(d), Farewells)'
               /\ server = "idle" /\ client'[d].state \in {"started", "up"} => inbox[PortOf(d)'] # << >>
    <3>1. CASE d # c
      <4>1. PortOf(d)' = PortOf(d) /\ client'[d] = client[d]
        BY <1>3, <1>4, <3>1
      <4>2. At(PortOf(d), Farewells)' <=> At(PortOf(d), Farewells)
        BY <1>1, <4>1 DEF At
      <4> QED BY <4>1, <4>2 DEF ServerInv, Starting
    <3>2. CASE d = c
      <4>1. Len(inbox[Q]) = 0
        BY <1>5
      <4>2. ~ At(PortOf(c), Farewells)'
        BY <1>1, <1>4, <4>1 DEF At
      <4> QED BY <1>3, <1>4, <1>5, <1>6, <3>2, <4>1, <4>2
    <3> QED BY <3>1, <3>2
  <2> QED BY <1>1, <2>1 DEF ServerInv, Starting
<1>11. Served'
  <2>1. \A p \in Ports : \A ops : At(p, ops)' <=> At(p, ops)
    BY <1>1 DEF At
  <2>2. \A p \in Ports : Settled(p)' => Settled(p)
    <3>1. ASSUME NEW p \in Ports, p = PortOf(p[1])', client'[p[1]].state = "up"
          PROVE  p = PortOf(p[1]) /\ client[p[1]].state = "up"
      BY <1>3, <1>4, <3>1, PortFacts
    <3> QED BY <2>1, <3>1 DEF Settled
  <2>3. \A d : SomeRefused(d)' <=> SomeRefused(d)
    BY <1>1 DEF SomeRefused
  <2> QED BY <1>1, <2>2, <2>3 DEF ServerInv, Served
<1>12. Blocked'
  BY <1>3 DEF ServerInv, Blocked
<1>13. OneAnswer'
  <2>1. ASSUME NEW d \in DpClients, client'[d].state = "up", ~ RefusedBefore(d)'
        PROVE  d # c /\ client'[d] = client[d] /\ PortOf(d)' = PortOf(d) /\ ~ RefusedBefore(d)
    BY <1>1, <1>3, <1>4, <2>1 DEF RefusedBefore
  <2> QED BY <1>1, <2>1 DEF ServerInv, OneAnswer
<1>14. Answering'
  <2>1. \A d \in DpClients : client'[d].waits # NoRequest =>
          d # c /\ client'[d] = client[d] /\ PortOf(d)' = PortOf(d)
    BY <1>3, <1>4
  <2>2. \A d \in DpClients : d # c => (OnItsWay(d)' <=> OnItsWay(d))
    BY <1>1, <1>3, <1>4, SMTT(20) DEF OnItsWay
  <2>3. \A d \in DpClients : d # c => (At(PortOf(d), {"register"})' <=> At(PortOf(d), {"register"}))
    BY <1>1, <1>4 DEF At
  <2> QED BY <1>1, <2>1, <2>2, <2>3 DEF ServerInv, Answering
<1>15. FreshIds'
  <2>1. \A d \in DpClients : client'[d].starts = 1 => client'[d] = client[d]
    BY <1>2, <1>3
  <2> QED BY <1>1, <2>1 DEF ServerInv, FreshIds
<1> QED BY <1>7, <1>8, <1>9, <1>10, <1>11, <1>12, <1>13, <1>14, <1>15 DEF ServerInv

(* The engine forgets a task, the server ends. *)
LEMMA EngineKeeps ==
  ASSUME ServerInv, (\E t \in TaskIds : Forget(t)) \/ Drain \/ UNCHANGED serverVars
  PROVE  ServerInv'
<1>1. /\ tasks' \subseteq tasks /\ client' = client /\ mail' = mail /\ inbox' = inbox /\ calls' = calls
      /\ mode' = mode /\ client_dict' = client_dict /\ refused' = refused
      /\ server' = server \/ (server = "draining" /\ server' \in {"stopped", "killed"})
  BY DEF Forget, Drain, serverVars, dictVars
<1>2. /\ \A d \in DpClients : PortOf(d)' = PortOf(d)
      /\ \A d \in DpClients : RefusedBefore(d)' <=> RefusedBefore(d)
      /\ \A d \in DpClients : OnItsWay(d)' <=> OnItsWay(d)
  BY <1>1 DEF PortOf, RefusedBefore, OnItsWay
<1>3. \A d \in DpClients : \A ops : At(PortOf(d), ops)' <=> At(PortOf(d), ops)
  BY <1>1, <1>2 DEF At
<1>4. ServerTypes'
  BY <1>1 DEF ServerInv, ServerTypes, ServerPhases
<1>5. PortsUsed' /\ SentBy' /\ InOrder' /\ RegistersOnce' /\ Blocked'
  BY <1>1 DEF ServerInv, PortsUsed, SentBy, InOrder, RegistersOnce, Blocked, At
<1>6. Starting'
  BY <1>1, <1>2, <1>3 DEF ServerInv, Starting
<1>7. Served'
  BY <1>1 DEF ServerInv, Served, Settled, SomeRefused, At, PortOf
<1>8. OneAnswer'
  BY <1>1, <1>2 DEF ServerInv, OneAnswer
<1>9. Answering'
  BY <1>1, <1>2, <1>3 DEF ServerInv, Answering
<1>10. FreshIds'
  BY <1>1 DEF ServerInv, FreshIds
<1> QED BY <1>4, <1>5, <1>6, <1>7, <1>8, <1>9, <1>10 DEF ServerInv

-----------------------------------------------------------------------------
(* The server takes the first request of a port. *)
TakeStep(p) ==
  /\ 1 \in 1 .. Len(inbox[p])
  /\ inbox' \in [Ports -> Seq(ClientRequest)]
  /\ \A q \in Ports : q # p => inbox'[q] = inbox[q]
  /\ Len(inbox[p]) \in Nat /\ Len(inbox'[p]) = Len(inbox[p]) - 1
  /\ \A i \in 1 .. Len(inbox'[p]) : i + 1 \in 1 .. Len(inbox[p]) /\ inbox'[p][i] = inbox[p][i + 1]
  /\ client' = client /\ calls' = calls /\ mode' = mode

(* and does with it what Handle says. *)
Answered(c, m) ==
  /\ client_dict[c] \in Ports
  /\ \A q \in Ports : q # client_dict[c] => mail'[q] = mail[q]
  /\ Len(mail[client_dict[c]]) \in Nat
  /\ Len(mail'[client_dict[c]]) = Len(mail[client_dict[c]]) + 1
  /\ \A i \in 1 .. Len(mail[client_dict[c]]) : mail'[client_dict[c]][i] = mail[client_dict[c]][i]
  /\ mail'[client_dict[c]][Len(mail[client_dict[c]]) + 1] = m

HandleStep(p, c, m) ==
  /\ server \in {"idle", "running"}
  /\ server' = IF m.op = "shutdown" THEN "draining" ELSE "running"
  /\ client_dict' \in [DpClients -> Ports \union {NoPort}]
  /\ \A d \in DpClients : d # c => client_dict'[d] = client_dict[d]
  /\ m.op = "register" => \/ client_dict[c] = NoPort /\ client_dict'[c] = p /\ refused' = refused
                          \/ client_dict'[c] = client_dict[c] /\ refused' = refused \union {p}
  /\ m.op # "register" => refused' = refused
  /\ m.op = "unregister" => client_dict'[c] = NoPort
  /\ m.op \notin {"register", "unregister"} => client_dict'[c] = client_dict[c]
  /\ mail' \in [Ports -> Seq(ClientRequest)]
  /\ mail' = mail \/ (m.op \in SyncOps /\ Answered(c, m))
  /\ \/ m.op \notin SyncOps \/ client_dict[c] = NoPort \/ Answered(c, m)
     \/ m.op = "match" /\ m.task \in tasks
  /\ tasks' \subseteq Nat
  /\ \A t \in tasks' : t \in tasks \/ (m.op \in Adders /\ t = m.task)

LEMMA TakeFacts ==
  ASSUME ServerInv, NEW p \in Ports, inbox[p] # << >>, inbox' = [inbox EXCEPT ![p] = Tail(@)],
         client' = client, calls' = calls, mode' = mode
  PROVE  /\ TakeStep(p) /\ Head(inbox[p]) = inbox[p][1] /\ inbox[p][1] \in ClientRequest
         /\ inbox[p][1].from = p[1] /\ inbox[p][1].port = p /\ inbox[p][1].task \in IdsOf(p[1])
<1>1. inbox \in [Ports -> Seq(ClientRequest)]
  BY DEF ServerInv, ServerTypes
<1>2. inbox[p] \in Seq(ClientRequest) /\ inbox[p] # << >>
  BY <1>1
<1>3. /\ Tail(inbox[p]) \in Seq(ClientRequest) /\ Len(Tail(inbox[p])) = Len(inbox[p]) - 1
      /\ Len(inbox[p]) \in Nat /\ Len(inbox[p]) > 0 /\ Head(inbox[p]) = inbox[p][1]
      /\ \A i \in 1 .. Len(inbox[p]) - 1 : Tail(inbox[p])[i] = inbox[p][i + 1]
  BY <1>2
<1>4. 1 \in 1 .. Len(inbox[p]) /\ \A i \in 1 .. Len(inbox[p]) - 1 : i + 1 \in 1 .. Len(inbox[p])
  BY <1>3
<1>5. /\ inbox' \in [Ports -> Seq(ClientRequest)]
      /\ \A q \in Ports : q # p => inbox'[q] = inbox[q]
      /\ inbox'[p] = Tail(inbox[p])
  BY <1>1, <1>3
<1>6. TakeStep(p)
  BY <1>3, <1>4, <1>5 DEF TakeStep
<1>7. inbox[p][1] \in ClientRequest
  BY <1>2, <1>4
<1> QED BY <1>3, <1>4, <1>6, <1>7 DEF ServerInv, SentBy

LEMMA StartHandles ==
  ASSUME ServerInv, NEW p \in Ports, ServerStart(p)
  PROVE  TakeStep(p) /\ HandleStep(p, p[1], inbox[p][1])
<1>1. /\ server = "idle" /\ inbox[p] # << >> /\ inbox' = [inbox EXCEPT ![p] = Tail(@)]
      /\ client' = client /\ calls' = calls /\ mode' = mode /\ client_dict' = client_dict
      /\ refused' = refused /\ tasks' = tasks /\ mail' = mail
      /\ server' = IF Head(inbox[p]).op = "start" THEN "running" ELSE "dead"
  BY DEF ServerStart, dictVars
<1>2. TakeStep(p) /\ Head(inbox[p]) = inbox[p][1]
  BY <1>1, TakeFacts
<1>3. inbox[p][1].op = "start"
  BY <1>1 DEF ServerInv, Starting
<1> QED BY <1>1, <1>2, <1>3 DEF HandleStep, ServerInv, ServerTypes, SyncOps

LEMMA StepHandles ==
  ASSUME ServerInv, NEW p \in Ports, NEW failed \in BOOLEAN, ServerStep(p, failed)
  PROVE  TakeStep(p) /\ HandleStep(p, p[1], inbox[p][1])
<1> DEFINE m == inbox[p][1]
           c == p[1]
<1>1. /\ server = "running" /\ inbox[p] # << >> /\ inbox' = [inbox EXCEPT ![p] = Tail(@)]
      /\ client' = client /\ calls' = calls /\ mode' = mode /\ Handle(Head(inbox[p]), failed)
  BY DEF ServerStep
<1>2. /\ TakeStep(p) /\ Head(inbox[p]) = m /\ m \in ClientRequest
      /\ m.from = c /\ m.port = p /\ c \in DpClients
  BY <1>1, TakeFacts, PortFacts
<1>3. Handle(m, failed)
  BY <1>1, <1>2
<1> HIDE DEF m, c
<1>4. ServerTypes /\ m.op \in Kinds /\ m.task \in Nat /\ client_dict[c] \in Ports \union {NoPort}
  BY <1>2 DEF ClientRequest, ServerInv, ServerTypes
<1>5. /\ client_dict' \in [DpClients -> Ports \union {NoPort}]
      /\ \A d \in DpClients : d # c => client_dict'[d] = client_dict[d]
      /\ m.op = "register" => \/ client_dict[c] = NoPort /\ client_dict'[c] = p /\ refused' = refused
                              \/ client_dict'[c] = client_dict[c] /\ refused' = refused \union {p}
      /\ m.op # "register" => refused' = refused
      /\ m.op = "unregister" => client_dict'[c] = NoPort
      /\ m.op \notin {"register", "unregister"} => client_dict'[c] = client_dict[c]
  <2>1. CASE m.op = "register" /\ MayRegister(c)
    <3>1. client_dict' = [client_dict EXCEPT ![c] = p] /\ refused' = refused /\ client_dict[c] = NoPort
      BY <1>2, <1>3, <2>1 DEF Handle, MayRegister
    <3> QED BY <1>2, <1>4, <2>1, <3>1 DEF ServerTypes
  <2>2. CASE m.op = "register" /\ ~ MayRegister(c)
    <3>1. client_dict' = client_dict /\ refused' = refused \union {p}
      BY <1>2, <1>3, <2>2 DEF Handle
    <3> QED BY <1>4, <2>2, <3>1 DEF ServerTypes
  <2>3. CASE m.op = "unregister"
    <3>1. client_dict' = [client_dict EXCEPT ![c] = NoPort] /\ refused' = refused
      BY <1>2, <1>3, <2>3 DEF Handle
    <3> QED BY <1>2, <1>4, <2>3, <3>1 DEF ServerTypes
  <2>4. CASE m.op \notin {"register", "unregister"}
    <3>1. client_dict' = client_dict /\ refused' = refused
      BY <1>3, <2>4 DEF Handle
    <3> QED BY <1>4, <2>4, <3>1 DEF ServerTypes
  <2> QED BY <2>1, <2>2, <2>3, <2>4
<1>6. /\ tasks' \subseteq Nat
      /\ \A t \in tasks' : t \in tasks \/ (m.op \in Adders /\ t = m.task)
  <2>1. tasks \subseteq Nat
    BY <1>4 DEF ServerTypes
  <2>2. CASE m.op \in {"match", "create"}
    <3>1. tasks' = tasks \union {m.task}
      BY <1>3, <2>2 DEF Handle
    <3> QED BY <1>4, <2>1, <2>2, <3>1 DEF Adders
  <2>3. CASE m.op = "launch_batch"
    <3>1. tasks' = (tasks \ m.ids) \union {m.task} \/ tasks' = tasks
      BY <1>3, <2>3 DEF Handle
    <3> QED BY <1>4, <2>1, <2>3, <3>1 DEF Adders
  <2>4. CASE m.op \notin {"match", "create", "launch_batch"}
    <3>1. tasks' = tasks \ m.ids \/ tasks' = tasks
      BY <1>3, <2>4 DEF Handle
    <3> QED BY <2>1, <3>1
  <2> QED BY <2>2, <2>3, <2>4
<1>7. server' = IF m.op = "shutdown" THEN "draining" ELSE "running"
  BY <1>1, <1>3 DEF Handle
<1>8. client_dict[c] # NoPort =>
        LET a == client_dict[c] IN
        [mail EXCEPT ![a] = Append(@, m)] \in [Ports -> Seq(ClientRequest)] /\
        (mail' = [mail EXCEPT ![a] = Append(@, m)] => Answered(c, m))
  <2> SUFFICES ASSUME client_dict[c] # NoPort
               PROVE  LET a == client_dict[c] IN
                      [mail EXCEPT ![a] = Append(@, m)] \in [Ports -> Seq(ClientRequest)] /\
                      (mail' = [mail EXCEPT ![a] = Append(@, m)] => Answered(c, m))
    OBVIOUS
  <2> DEFINE a == client_dict[c]
  <2>1. a \in Ports
    BY <1>4
  <2>2. a = client_dict[c]
    OBVIOUS
  <2> HIDE DEF a
  <2>3. mail \in [Ports -> Seq(ClientRequest)] /\ mail[a] \in Seq(ClientRequest)
    BY <1>4, <2>1 DEF ServerTypes
  <2>4. /\ Append(mail[a], m) \in Seq(ClientRequest) /\ Len(mail[a]) \in Nat
        /\ Len(Append(mail[a], m)) = Len(mail[a]) + 1
        /\ \A i \in 1 .. Len(mail[a]) : Append(mail[a], m)[i] = mail[a][i]
        /\ Append(mail[a], m)[Len(mail[a]) + 1] = m
    BY <1>2, <2>3
  <2>5. [mail EXCEPT ![a] = Append(@, m)] \in [Ports -> Seq(ClientRequest)]
    BY <2>1, <2>3, <2>4
  <2>6. ASSUME mail' = [mail EXCEPT ![a] = Append(@, m)] PROVE Answered(c, m)
    <3>1. mail'[a] = Append(mail[a], m) /\ \A q \in Ports : q # a => mail'[q] = mail[q]
      BY <2>1, <2>3, <2>6
    <3> QED BY <2>1, <2>2, <2>4, <3>1 DEF Answered
  <2> QED BY <2>2, <2>5, <2>6
<1>9. Answer(m) => /\ mail' \in [Ports -> Seq(ClientRequest)]
                   /\ client_dict[c] = NoPort => mail' = mail
                   /\ client_dict[c] # NoPort => Answered(c, m)
  BY <1>2, <1>4, <1>8 DEF Answer, ServerTypes
<1>10. /\ mail' \in [Ports -> Seq(ClientRequest)]
       /\ mail' = mail \/ (m.op \in SyncOps /\ Answered(c, m))
       /\ \/ m.op \notin SyncOps \/ client_dict[c] = NoPort \/ Answered(c, m)
          \/ m.op = "match" /\ m.task \in tasks
  <2>1. CASE m.op \in {"poll", "reset"} \/ (m.op = "match" /\ m.task \notin tasks)
    <3>1. Answer(m) /\ m.op \in SyncOps
      BY <1>3, <2>1 DEF Handle, ResetAnswers, SyncOps
    <3> QED BY <1>9, <3>1
  <2>2. CASE ~ (m.op \in {"poll", "reset"} \/ (m.op = "match" /\ m.task \notin tasks))
    <3>1. mail' = mail
      BY <1>3, <2>2 DEF Handle
    <3> QED BY <1>4, <2>2, <3>1 DEF ServerTypes, SyncOps
  <2> QED BY <2>1, <2>2
<1>11. HandleStep(p, c, m)
  BY <1>1, <1>5, <1>6, <1>7, <1>10 DEF HandleStep
<1> QED BY <1>2, <1>11 DEF m, c

LEMMA TakeOrder ==
  ASSUME ServerInv, NEW p \in Ports, NEW c, NEW m, c = p[1], m = inbox[p][1], TakeStep(p), HandleStep(p, c, m)
  PROVE  ServerTypes' /\ PortsUsed' /\ SentBy' /\ InOrder' /\ Blocked'
<1>1. /\ c \in DpClients /\ p = Port(c, p[2]) /\ p[2] \in 1 .. MaxStarts[c]
      /\ client[c].starts \in Nat /\ MaxStarts[c] \in Nat
  BY PortFacts, OwnPort DEF ServerInv
<1>2. p[2] <= client[c].starts
  <2>1. inbox[p] # << >>
    BY DEF TakeStep
  <2> QED BY <1>1, <2>1 DEF ServerInv, PortsUsed
<1>3. ServerTypes'
  <2>1. refused' \subseteq Ports /\ server' \in ServerPhases
    BY DEF HandleStep, ServerInv, ServerTypes, ServerPhases
  <2> QED BY <2>1 DEF TakeStep, HandleStep, ServerInv, ServerTypes
<1>4. PortsUsed'
  <2>1. ASSUME NEW d \in DpClients, NEW n \in 1 .. MaxStarts[d], n > client[d].starts
        PROVE  inbox'[Port(d, n)] = << >> /\ mail'[Port(d, n)] = << >> /\ Port(d, n) \notin refused'
    <3>1. /\ Port(d, n) \in Ports /\ inbox[Port(d, n)] = << >> /\ mail[Port(d, n)] = << >>
          /\ Port(d, n) \notin refused
      BY <2>1, PortFacts DEF ServerInv, PortsUsed
    <3>2. Port(d, n) # p
      BY <1>1, <1>2, <2>1 DEF Port
    <3>3. Port(d, n) # client_dict[c]
      <4>1. ASSUME NEW k \in 1 .. client[c].starts PROVE Port(d, n) # Port(c, k)
        BY <1>1, <2>1, <4>1 DEF Port
      <4> QED BY <1>1, <4>1, PortFacts DEF ServerInv, PortsUsed
    <3> QED BY <3>1, <3>2, <3>3 DEF TakeStep, HandleStep, Answered
  <2>2. ASSUME NEW d \in DpClients
        PROVE  client_dict'[d] = NoPort \/ \E n \in 1 .. client[d].starts : client_dict'[d] = Port(d, n)
    <3>1. client_dict'[d] = client_dict[d] \/ (d = c /\ client_dict'[d] \in {p, NoPort})
      BY DEF HandleStep
    <3>2. p[2] \in 1 .. client[c].starts
      BY <1>1, <1>2
    <3> QED BY <1>1, <3>1, <3>2 DEF ServerInv, PortsUsed
  <2> QED BY <2>1, <2>2 DEF TakeStep, ServerInv, PortsUsed
<1>5. SentBy'
  <2>1. ASSUME NEW q \in Ports, NEW i \in 1 .. Len(inbox'[q])
        PROVE  inbox'[q][i].from = q[1] /\ inbox'[q][i].port = q /\ inbox'[q][i].task \in IdsOf(q[1])
    <3>1. CASE q # p
      BY <2>1, <3>1 DEF TakeStep, ServerInv, SentBy
    <3>2. CASE q = p
      <4>1. i + 1 \in 1 .. Len(inbox[p]) /\ inbox'[p][i] = inbox[p][i + 1]
        BY <2>1, <3>2 DEF TakeStep
      <4> QED BY <3>2, <4>1 DEF ServerInv, SentBy
    <3> QED BY <3>1, <3>2
  <2>2. \A d \in DpClients : client'[d].counter \in IdsOf(d)
    BY DEF TakeStep, ServerInv, SentBy
  <2> QED BY <2>1, <2>2 DEF SentBy, IdsOf, FirstId
<1>6. InOrder'
  <2>1. ASSUME NEW q \in Ports, NEW i \in 1 .. Len(inbox'[q]), NEW j \in 1 .. Len(inbox'[q]), i < j
        PROVE  /\ inbox'[q][j].op = "register" => inbox'[q][i].op = "start"
               /\ inbox'[q][i].op \notin Farewells
    <3>1. CASE q # p
      BY <2>1, <3>1 DEF TakeStep, ServerInv, InOrder
    <3>2. CASE q = p
      <4>1. /\ i + 1 \in 1 .. Len(inbox[p]) /\ inbox'[p][i] = inbox[p][i + 1]
            /\ j + 1 \in 1 .. Len(inbox[p]) /\ inbox'[p][j] = inbox[p][j + 1]
            /\ i + 1 < j + 1
        BY <2>1, <3>2 DEF TakeStep
      <4> QED BY <3>2, <4>1 DEF ServerInv, InOrder
    <3> QED BY <3>1, <3>2
  <2> QED BY <2>1 DEF InOrder
<1>7. Blocked'
  BY DEF TakeStep, ServerInv, Blocked
<1> QED BY <1>3, <1>4, <1>5, <1>6, <1>7

(* What is in an inbox after a request was taken. *)
LEMMA TakeAt ==
  ASSUME ServerInv, NEW p \in Ports, TakeStep(p)
  PROVE  /\ \A q \in Ports : \A ops : q # p => (At(q, ops)' <=> At(q, ops))
         /\ \A ops : At(p, ops)' => At(p, ops)
         /\ \A ops : At(p, ops) /\ inbox[p][1].op \notin ops => At(p, ops)'
         /\ inbox[p][1].op # "start" => ~ At(p, {"register"})'
         /\ inbox[p][1].op \in Farewells => \A ops : ~ At(p, ops)'
<1>1. ASSUME NEW q \in Ports, NEW ops, q # p PROVE At(q, ops)' <=> At(q, ops)
  BY <1>1 DEF TakeStep, At
<1>2. ASSUME NEW ops, At(p, ops)' PROVE At(p, ops)
  BY <1>2 DEF TakeStep, At
<1>3. ASSUME NEW ops, At(p, ops), inbox[p][1].op \notin ops PROVE At(p, ops)'
  <2>1. PICK i \in 1 .. Len(inbox[p]) : inbox[p][i].op \in ops
    BY <1>3 DEF At
  <2>2. i - 1 \in 1 .. Len(inbox'[p]) /\ i = (i - 1) + 1
    BY <1>3, <2>1 DEF TakeStep
  <2>3. inbox'[p][i - 1] = inbox[p][i]
    BY <2>2 DEF TakeStep
  <2> QED BY <2>1, <2>2, <2>3 DEF At
<1>4. ASSUME NEW i \in 1 .. Len(inbox'[p])
      PROVE  /\ inbox'[p][i].op = "register" => inbox[p][1].op = "start"
             /\ inbox[p][1].op \notin Farewells
  <2>1. 1 \in 1 .. Len(inbox[p]) /\ i + 1 \in 1 .. Len(inbox[p]) /\ 1 < i + 1 /\ inbox'[p][i] = inbox[p][i + 1]
    BY DEF TakeStep
  <2> QED BY <2>1 DEF ServerInv, InOrder
<1>5. inbox[p][1].op # "start" => ~ At(p, {"register"})'
  BY <1>4 DEF At
<1>6. inbox[p][1].op \in Farewells => \A ops : ~ At(p, ops)'
  BY <1>4 DEF At
<1> QED BY <1>1, <1>2, <1>3, <1>5, <1>6

(* Where a request of an inbox was before the first was taken. *)
LEMMA TakeShifts ==
  ASSUME ServerInv, NEW p \in Ports, NEW q \in Ports, TakeStep(p)
  PROVE  /\ \A i \in 1 .. Len(inbox'[q]) :
              \E k \in 1 .. Len(inbox[q]) :
                /\ inbox'[q][i] = inbox[q][k]
                /\ k = IF q = p THEN i + 1 ELSE i
         /\ \A k \in 1 .. Len(inbox[q]) : q # p \/ k # 1 =>
              \E i \in 1 .. Len(inbox'[q]) : inbox'[q][i] = inbox[q][k]
<1>1. CASE q # p
  BY <1>1 DEF TakeStep
<1>2. CASE q = p
  <2>1. ASSUME NEW k \in 1 .. Len(inbox[p]), k # 1
        PROVE  k - 1 \in 1 .. Len(inbox'[p]) /\ inbox'[p][k - 1] = inbox[p][k]
    <3>1. k - 1 \in 1 .. Len(inbox'[p]) /\ (k - 1) + 1 = k
      BY <2>1 DEF TakeStep
    <3> QED BY <3>1 DEF TakeStep
  <2>2. ASSUME NEW i \in 1 .. Len(inbox'[p])
        PROVE  i + 1 \in 1 .. Len(inbox[p]) /\ inbox'[p][i] = inbox[p][i + 1]
    BY <2>2 DEF TakeStep
  <2> QED BY <1>2, <2>1, <2>2
<1> QED BY <1>1, <1>2

LEMMA TakeRegisters ==
  ASSUME ServerInv, NEW p \in Ports, NEW c, NEW m, c = p[1], m = inbox[p][1], TakeStep(p), HandleStep(p, c, m)
  PROVE  Starting' /\ RegistersOnce' /\ Served'
<1>1. /\ c \in DpClients /\ p = Port(c, p[2]) /\ p[2] \in 1 .. MaxStarts[c] /\ p # NoPort
      /\ \A q \in Ports : q[1] \in DpClients /\ q # NoPort
      /\ \A d \in DpClients : PortOf(d) \in Ports /\ PortOf(d)[1] = d
  BY PortFacts, OwnPort DEF ServerInv
<1>2. \A d \in DpClients : PortOf(d)' = PortOf(d) /\ client'[d] = client[d]
  BY DEF TakeStep, PortOf
<1>3. 1 \in 1 .. Len(inbox[p]) /\ m.op \in Kinds
  <2>1. 1 \in 1 .. Len(inbox[p])
    BY DEF TakeStep
  <2>2. m \in ClientRequest
    BY <2>1 DEF ServerInv, ServerTypes
  <2> QED BY <2>1, <2>2 DEF ClientRequest
<1>4. m.op = "register" => At(p, {"register"}) /\ p \notin refused /\ client_dict[c] # p
  BY <1>3 DEF At, ServerInv, RegistersOnce
<1>5. \A d \in DpClients : client_dict[d] = NoPort \/ (client_dict[d] \in Ports /\ client_dict[d][1] = d)
  <2>1. ASSUME NEW d \in DpClients, NEW n \in 1 .. client[d].starts
        PROVE  Port(d, n) \in Ports /\ Port(d, n)[1] = d
    <3>1. n \in 1 .. MaxStarts[d]
      BY OwnPort DEF ServerInv
    <3> QED BY <3>1, PortFacts
  <2> QED BY <2>1 DEF ServerInv, PortsUsed
<1>6. Starting'
  <2>1. ASSUME NEW d \in DpClients, client[d].state \in {"new", "started"}
        PROVE  /\ \A i \in 1 .. Len(inbox'[PortOf(d)]) : inbox'[PortOf(d)][i].op = "start"
               /\ mail'[PortOf(d)] = << >> /\ PortOf(d) \notin refused' /\ client_dict'[d] # PortOf(d)
    <3>1. /\ \A i \in 1 .. Len(inbox[PortOf(d)]) : inbox[PortOf(d)][i].op = "start"
          /\ mail[PortOf(d)] = << >> /\ PortOf(d) \notin refused /\ client_dict[d] # PortOf(d)
      BY <2>1 DEF ServerInv, Starting
    <3>2. \A i \in 1 .. Len(inbox'[PortOf(d)]) : inbox'[PortOf(d)][i].op = "start"
      <4>1. PICK q \in Ports : q = PortOf(d)
        BY <1>1
      <4>2. \A i \in 1 .. Len(inbox'[q]) : \E k \in 1 .. Len(inbox[q]) : inbox'[q][i] = inbox[q][k]
        BY TakeShifts, ZenonT(30)
      <4> QED BY <3>1, <4>1, <4>2
    <3>3. p = PortOf(d) => m.op = "start"
      BY <1>3, <3>1
    <3>4. PortOf(d) \notin refused' /\ client_dict'[d] # PortOf(d)
      BY <1>1, <3>1, <3>3 DEF HandleStep
    <3>5. client_dict[c] # PortOf(d)
      BY <1>1, <1>5, <3>1
    <3>6. mail'[PortOf(d)] = << >>
      BY <1>1, <3>1, <3>5 DEF HandleStep, Answered
    <3> QED BY <3>2, <3>4, <3>6
  <2>2. ASSUME NEW d \in DpClients, client[d].state = "new" PROVE inbox'[PortOf(d)] = << >>
    <3>1. inbox[PortOf(d)] = << >>
      BY <2>2 DEF ServerInv, Starting
    <3>2. p # PortOf(d)
      BY <1>3, <3>1
    <3> QED BY <1>1, <3>1, <3>2 DEF TakeStep
  <2>3. ASSUME NEW d \in DpClients, client[d].state # "gone" PROVE ~ At(PortOf(d), Farewells)'
    <3>1. ~ At(PortOf(d), Farewells)
      BY <2>3 DEF ServerInv, Starting
    <3>2. \A q \in Ports : At(q, Farewells)' => At(q, Farewells)
      BY TakeAt
    <3>3. PICK q \in Ports : q = PortOf(d)
      BY <1>1
    <3>4. At(PortOf(d), Farewells)' <=> At(q, Farewells)'
      BY <1>2, <3>3 DEF At
    <3> QED BY <3>1, <3>2, <3>3, <3>4
  <2>4. server' # "idle"
    BY DEF HandleStep
  <2> QED BY <1>2, <2>1, <2>2, <2>3, <2>4 DEF Starting
<1>7. RegistersOnce'
  <2>1. ASSUME NEW q \in Ports, client_dict'[q[1]] = q \/ q \in refused'
        PROVE  ~ At(q, {"register"})'
    <3>1. CASE q = p /\ m.op = "register"
      BY <3>1, TakeAt
    <3>2. CASE ~ (q = p /\ m.op = "register")
      <4>1. client_dict[q[1]] = q \/ q \in refused
        BY <1>1, <2>1, <3>2 DEF HandleStep
      <4>2. ~ At(q, {"register"})
        BY <4>1 DEF ServerInv, RegistersOnce
      <4> QED BY <4>2, TakeAt
    <3> QED BY <3>1, <3>2
  <2>2. ASSUME NEW q \in Ports, q \in refused' PROVE client_dict'[q[1]] # q
    <3>1. q \in refused => client_dict[q[1]] # q
      BY DEF ServerInv, RegistersOnce
    <3> QED BY <1>1, <1>4, <2>2, <3>1 DEF HandleStep
  <2> QED BY <2>1, <2>2 DEF RegistersOnce
<1>8. Served'
  <2>1. \A d : SomeRefused(d) => SomeRefused(d)'
    BY DEF SomeRefused, HandleStep
  <2>2. p \in refused' => SomeRefused(c)'
    BY <1>1 DEF SomeRefused
  <2> SUFFICES ASSUME NEW q \in Ports, Settled(q)' PROVE client_dict'[q[1]] = q \/ SomeRefused(q[1])'
    BY DEF Served
  <2>3. q[1] \in DpClients
    BY <1>1
  <2>4. CASE m.op = "register" /\ q = p
    BY <2>2, <2>4 DEF HandleStep
  <2>5. CASE m.op = "unregister" /\ q = p
    <3>1. m.op \in Farewells
      BY <2>5 DEF Farewells
    <3>2. ~ At(p, Kinds \ {"start", "register"})'
      BY <3>1, TakeAt
    <3>3. p = PortOf(c) /\ client[c].state = "up"
      BY <1>1, <1>2, <2>5, <3>2 DEF Settled
    <3>4. At(p, Farewells)
      BY <1>3, <3>1 DEF At
    <3>5. ~ At(PortOf(c), Farewells)
      BY <1>1, <3>3 DEF ServerInv, Starting
    <3> QED BY <3>3, <3>4, <3>5
  <2>6. CASE ~ (q = p /\ m.op \in {"register", "unregister"})
    <3>1. At(q, {"register"}) => At(q, {"register"})'
      BY <2>6, TakeAt
    <3>2. At(q, Kinds \ {"start", "register"})' => At(q, Kinds \ {"start", "register"})
      BY TakeAt
    <3>3. Settled(q)
      BY <1>2, <2>3, <3>1, <3>2 DEF Settled
    <3>4. client_dict[q[1]] = q \/ SomeRefused(q[1])
      BY <3>3 DEF ServerInv, Served
    <3>5. CASE q[1] # c \/ m.op \notin {"register", "unregister"}
      BY <2>1, <2>3, <3>4, <3>5 DEF HandleStep
    <3>6. CASE q[1] = c /\ m.op = "register"
      <4>1. CASE client_dict[c] = q
        <5>1. p \in refused'
          BY <1>1, <3>6, <4>1 DEF HandleStep
        <5> QED BY <2>2, <3>6, <5>1
      <4> QED BY <2>1, <3>4, <3>6, <4>1
    <3>7. CASE q[1] = c /\ m.op = "unregister"
      <4>1. ~ At(p, {"register"})
        <5>1. ~ At(p, {"register"})'
          BY <3>7, TakeAt
        <5> QED BY <3>7, <5>1, TakeAt
      <4>2. At(p, Kinds \ {"start", "register"})
        BY <1>3, <3>7 DEF At
      <4>3. client_dict[c] = p \/ SomeRefused(c)
        BY <4>1, <4>2 DEF ServerInv, Served, Settled
      <4> QED BY <2>1, <2>6, <3>4, <3>7, <4>3
    <3> QED BY <3>5, <3>6, <3>7
  <2> QED BY <2>4, <2>5, <2>6
<1> QED BY <1>6, <1>7, <1>8

LEMMA TakeAnswers ==
  ASSUME ServerInv, NEW p \in Ports, NEW c, NEW m, c = p[1], m = inbox[p][1], TakeStep(p), HandleStep(p, c, m)
  PROVE  OneAnswer' /\ Answering' /\ FreshIds'
<1>1. /\ c \in DpClients /\ p = Port(c, p[2]) /\ p[2] \in 1 .. MaxStarts[c] /\ p # NoPort
      /\ \A d \in DpClients : /\ PortOf(d) \in Ports /\ PortOf(d)[1] = d /\ PortOf(d) # NoPort
                              /\ PortOf(d) = Port(d, client[d].starts)
                              /\ client[d].starts \in 1 .. MaxStarts[d] /\ MaxStarts[d] \in Nat
  BY PortFacts, OwnPort DEF ServerInv
<1>2. \A d \in DpClients : PortOf(d)' = PortOf(d) /\ client'[d] = client[d]
  BY DEF TakeStep, PortOf
<1>3. /\ 1 \in 1 .. Len(inbox[p]) /\ m \in ClientRequest /\ m.op \in Kinds
      /\ m.task \in IdsOf(c) /\ m.task \in Nat
  <2>1. 1 \in 1 .. Len(inbox[p])
    BY DEF TakeStep
  <2>2. m \in ClientRequest
    BY <2>1 DEF ServerInv, ServerTypes
  <2>3. m.task \in IdsOf(c)
    BY <2>1 DEF ServerInv, SentBy
  <2> QED BY <2>1, <2>2, <2>3 DEF ClientRequest
<1>4. p[2] <= client[c].starts
  <2>1. inbox[p] # << >>
    BY DEF TakeStep
  <2> QED BY <1>1, <2>1 DEF ServerInv, PortsUsed
<1>5. \A q \in Ports : Len(mail[q]) \in Nat /\ Len(inbox[q]) \in Nat
  BY DEF ServerInv, ServerTypes
<1>6. OneAnswer'
  <2> SUFFICES ASSUME NEW d \in DpClients, client[d].state = "up", ~ RefusedBefore(d)',
                      NEW P \in Ports, P = PortOf(d)
               PROVE  /\ Len(mail'[P]) <= 1
                      /\ \A i \in 1 .. Len(mail'[P]) : mail'[P][i] = client[d].waits
                      /\ \A i \in 1 .. Len(inbox'[P]) : inbox'[P][i].op \in SyncOps =>
                           /\ inbox'[P][i] = client[d].waits
                           /\ mail'[P] = << >>
                           /\ \A j \in 1 .. Len(inbox'[P]) : inbox'[P][j].op \in SyncOps => j = i
    <3> SUFFICES ASSUME NEW d \in DpClients, client'[d].state = "up", ~ RefusedBefore(d)'
                 PROVE  /\ Len(mail'[PortOf(d)']) <= 1
                        /\ \A i \in 1 .. Len(mail'[PortOf(d)']) : mail'[PortOf(d)'][i] = client'[d].waits
                        /\ \A i \in 1 .. Len(inbox'[PortOf(d)']) : inbox'[PortOf(d)'][i].op \in SyncOps =>
                             /\ inbox'[PortOf(d)'][i] = client'[d].waits
                             /\ mail'[PortOf(d)'] = << >>
                             /\ \A j \in 1 .. Len(inbox'[PortOf(d)']) :
                                  inbox'[PortOf(d)'][j].op \in SyncOps => j = i
      BY DEF OneAnswer
    <3>1. PortOf(d)' = PortOf(d) /\ client'[d] = client[d] /\ PortOf(d) \in Ports
      BY <1>1, <1>2
    <3> QED BY <3>1
  <2>1. ~ RefusedBefore(d)
    BY <1>2 DEF RefusedBefore, HandleStep
  <2>2. /\ Len(mail[P]) <= 1
        /\ \A i \in 1 .. Len(mail[P]) : mail[P][i] = client[d].waits
        /\ \A i \in 1 .. Len(inbox[P]) : inbox[P][i].op \in SyncOps =>
             /\ inbox[P][i] = client[d].waits
             /\ mail[P] = << >>
             /\ \A j \in 1 .. Len(inbox[P]) : inbox[P][j].op \in SyncOps => j = i
    BY <2>1 DEF ServerInv, OneAnswer
  <2>3. CASE mail'[P] = mail[P]
    <3>1. ASSUME NEW i \in 1 .. Len(inbox'[P]), inbox'[P][i].op \in SyncOps
          PROVE  /\ inbox'[P][i] = client[d].waits /\ mail[P] = << >>
                 /\ \A j \in 1 .. Len(inbox'[P]) : inbox'[P][j].op \in SyncOps => j = i
      <4>1. PICK k \in 1 .. Len(inbox[P]) : inbox'[P][i] = inbox[P][k] /\ k = IF P = p THEN i + 1 ELSE i
        BY TakeShifts
      <4>2. ASSUME NEW j \in 1 .. Len(inbox'[P]), inbox'[P][j].op \in SyncOps PROVE j = i
        <5>1. PICK l \in 1 .. Len(inbox[P]) : inbox'[P][j] = inbox[P][l] /\ l = IF P = p THEN j + 1 ELSE j
          BY TakeShifts
        <5>2. l = k
          BY <2>2, <3>1, <4>1, <4>2, <5>1
        <5> QED BY <4>1, <5>1, <5>2
      <4> QED BY <2>2, <3>1, <4>1, <4>2
    <3> QED BY <2>2, <2>3, <3>1
  <2>4. CASE mail'[P] # mail[P]
    <3>1. m.op \in SyncOps /\ Answered(c, m) /\ client_dict[c] = P
      BY <2>4 DEF HandleStep, Answered
    <3>2. c = d
      <4>1. PICK n \in 1 .. client[c].starts : P = Port(c, n)
        BY <1>1, <3>1 DEF ServerInv, PortsUsed
      <4>2. n \in 1 .. MaxStarts[c]
        BY <1>1, <4>1 DEF ServerInv, PortsUsed
      <4>3. P[1] = c
        BY <1>1, <4>1, <4>2, PortFacts
      <4>4. P[1] = d
        BY <1>1
      <4> QED BY <4>3, <4>4
    <3>3. m.op \in Kinds \ {"start", "register"}
      BY <1>3, <3>1 DEF SyncOps
    <3>4. ~ At(p, {"register"})
      BY <3>3, TakeAt
    <3>5. At(p, Kinds \ {"start", "register"})
      BY <1>3, <3>3 DEF At
    <3>6. client_dict[c] = p \/ SomeRefused(c)
      BY <3>4, <3>5 DEF ServerInv, Served, Settled
    <3>7. ~ SomeRefused(c)
      <4> SUFFICES ASSUME NEW n \in 1 .. MaxStarts[c], Port(c, n) \in refused PROVE FALSE
        BY DEF SomeRefused
      <4>1. ~ (n > client[c].starts)
        BY <1>1 DEF ServerInv, PortsUsed
      <4>2. n # client[c].starts
        BY <1>1, <3>1, <3>2 DEF ServerInv, RegistersOnce
      <4>3. n \in 1 .. client[c].starts - 1
        BY <1>1, <4>1, <4>2
      <4> QED BY <2>1, <3>2, <4>3 DEF RefusedBefore, Port
    <3>8. P = p /\ m = client[d].waits /\ mail[P] = << >>
      BY <1>3, <2>2, <3>1, <3>6, <3>7
    <3>9. \A i \in 1 .. Len(inbox'[P]) : inbox'[P][i].op \notin SyncOps
      <4> SUFFICES ASSUME NEW i \in 1 .. Len(inbox'[P]), inbox'[P][i].op \in SyncOps PROVE FALSE
        OBVIOUS
      <4>1. PICK k \in 1 .. Len(inbox[P]) : inbox'[P][i] = inbox[P][k] /\ k = i + 1
        BY <3>8, TakeShifts
      <4>2. k = 1
        BY <1>3, <2>2, <3>1, <3>8, <4>1
      <4> QED BY <4>1, <4>2
    <3>10. Len(mail[P]) = 0 /\ Len(mail'[P]) = 1 /\ mail'[P][1] = m
      <4>1. Len(mail[P]) = 0
        BY <3>8
      <4> QED BY <3>1, <4>1 DEF Answered
    <3> QED BY <3>8, <3>9, <3>10
  <2> QED BY <2>3, <2>4
<1>7. Answering'
  <2> SUFFICES ASSUME NEW d \in DpClients, client[d].waits # NoRequest, NEW P \in Ports, P = PortOf(d)
               PROVE  \/ \E i \in 1 .. Len(inbox'[P]) : inbox'[P][i] = client[d].waits
                      \/ \E i \in 1 .. Len(mail'[P]) : mail'[P][i] = client[d].waits
                      \/ client_dict'[d] # P /\ ~ At(P, {"register"})'
                      \/ client[d].waits.op = "match" /\ (client[d].starts > 1 \/ calls > IdRange)
    <3>1. \A d \in DpClients, P \in Ports : P = PortOf(d) => (At(PortOf(d), {"register"})' <=> At(P, {"register"})')
      BY <1>2 DEF At
    <3>2. calls' = calls
      BY DEF TakeStep
    <3> QED BY <1>1, <1>2, <3>1, <3>2 DEF Answering, OnItsWay
  <2>1. CASE client_dict[d] # P /\ ~ At(P, {"register"})
    <3>1. ~ At(P, {"register"})'
      BY <2>1, TakeAt
    <3>2. client_dict'[d] # P
      <4>1. m.op = "register" => P # p
        BY <1>3, <2>1 DEF At
      <4> QED BY <1>1, <2>1, <4>1 DEF HandleStep
    <3> QED BY <3>1, <3>2
  <2>2. CASE client[d].waits.op = "match" /\ (client[d].starts > 1 \/ calls > IdRange)
    BY <2>2
  <2>3. CASE \E i \in 1 .. Len(mail[P]) : mail[P][i] = client[d].waits
    <3>1. PICK i \in 1 .. Len(mail[P]) : mail[P][i] = client[d].waits
      BY <2>3
    <3>2. i \in 1 .. Len(mail'[P]) /\ mail'[P][i] = mail[P][i]
      <4>1. CASE mail'[P] = mail[P]
        BY <3>1, <4>1
      <4>2. CASE mail'[P] # mail[P]
        <5>1. Answered(c, m) /\ client_dict[c] = P
          BY <4>2 DEF HandleStep, Answered
        <5> QED BY <1>5, <3>1, <5>1 DEF Answered
      <4> QED BY <4>1, <4>2
    <3> QED BY <3>1, <3>2
  <2>4. CASE \E k \in 1 .. Len(inbox[P]) : inbox[P][k] = client[d].waits
    <3>1. PICK k \in 1 .. Len(inbox[P]) : inbox[P][k] = client[d].waits
      BY <2>4
    <3>2. CASE P # p \/ k # 1
      <4>1. \E i \in 1 .. Len(inbox'[P]) : inbox'[P][i] = inbox[P][k]
        BY <3>2, TakeShifts, ZenonT(30)
      <4> QED BY <3>1, <4>1
    <3>3. CASE P = p /\ k = 1
      <4>1. c = d /\ m = client[d].waits /\ m.op \in SyncOps
        BY <1>1, <3>1, <3>3 DEF ServerInv, Blocked
      <4>2. CASE client_dict[c] = P /\ Answered(c, m)
        BY <1>5, <4>1, <4>2 DEF Answered
      <4>3. CASE client_dict[c] # P
        <5>1. ~ At(P, {"register"})'
          BY <3>3, <4>1, TakeAt DEF SyncOps
        <5>2. client_dict'[c] = client_dict[c]
          BY <4>1 DEF HandleStep, SyncOps
        <5> QED BY <4>1, <4>3, <5>1, <5>2
      <4>4. CASE m.op = "match" /\ m.task \in tasks
        <5>1. ASSUME client[d].starts = 1, calls <= IdRange PROVE FALSE
          <6>1. P = Port(d, 1)
            BY <1>1, <5>1
          <6>2. m.op \in Adders
            BY <4>4 DEF Adders
          <6> QED BY <1>3, <3>3, <4>4, <5>1, <6>1, <6>2 DEF ServerInv, FreshIds
        <5>2. client[d].starts \in Nat /\ client[d].starts >= 1 /\ calls \in Nat /\ IdRange \in Nat
          BY <1>1, ServerAssumption DEF ServerInv, ServerTypes
        <5> QED BY <4>1, <4>4, <5>1, <5>2
      <4> QED BY <1>1, <3>3, <4>1, <4>2, <4>3, <4>4 DEF HandleStep
    <3> QED BY <3>2, <3>3
  <2> QED BY <2>1, <2>2, <2>3, <2>4 DEF ServerInv, Answering, OnItsWay, HandleStep
<1>8. FreshIds'
  <2> SUFFICES ASSUME NEW d \in DpClients, client[d].starts = 1, NEW P \in Ports, P = Port(d, 1)
               PROVE  /\ calls < IdRange =>
                           /\ client[d].counter <= FirstId(d) + calls
                           /\ \A t \in tasks' : t \in IdsOf(d) => t < client[d].counter
                           /\ \A i \in 1 .. Len(inbox'[P]) :
                                inbox'[P][i].op \in Adders => inbox'[P][i].task < client[d].counter
                      /\ calls <= IdRange =>
                           \A i \in 1 .. Len(inbox'[P]) : inbox'[P][i].op \in Adders =>
                             /\ inbox'[P][i].task \notin tasks'
                             /\ \A j \in 1 .. Len(inbox'[P]) :
                                  inbox'[P][j].op \in Adders /\ inbox'[P][j].task = inbox'[P][i].task => j = i
    <3>1. calls' = calls
      BY DEF TakeStep
    <3>2. ASSUME NEW d \in DpClients PROVE Port(d, 1) \in Ports
      BY ServerAssumption, PortFacts
    <3> QED BY <1>2, <3>1, <3>2 DEF FreshIds, Port, FirstId, IdsOf
  <2>1. ASSUME NEW t \in tasks', t \notin tasks, t \in IdsOf(d) PROVE P = p /\ m.op \in Adders /\ t = m.task
    <3>1. m.op \in Adders /\ t = m.task
      BY <2>1 DEF HandleStep
    <3>2. c = d
      BY <1>1, <1>3, <2>1, <3>1, IdsApart
    <3>3. p[2] = 1
      BY <1>1, <1>4, <3>2
    <3> QED BY <1>1, <3>1, <3>2, <3>3
  <2>2. calls < IdRange =>
          /\ client[d].counter <= FirstId(d) + calls
          /\ \A t \in tasks : t \in IdsOf(d) => t < client[d].counter
          /\ \A i \in 1 .. Len(inbox[P]) : inbox[P][i].op \in Adders => inbox[P][i].task < client[d].counter
    BY DEF ServerInv, FreshIds
  <2>3. calls <= IdRange =>
          \A i \in 1 .. Len(inbox[P]) : inbox[P][i].op \in Adders =>
            /\ inbox[P][i].task \notin tasks
            /\ \A j \in 1 .. Len(inbox[P]) :
                 inbox[P][j].op \in Adders /\ inbox[P][j].task = inbox[P][i].task => j = i
    BY DEF ServerInv, FreshIds
  <2>4. ASSUME calls < IdRange
        PROVE  /\ client[d].counter <= FirstId(d) + calls
               /\ \A t \in tasks' : t \in IdsOf(d) => t < client[d].counter
               /\ \A i \in 1 .. Len(inbox'[P]) :
                    inbox'[P][i].op \in Adders => inbox'[P][i].task < client[d].counter
    <3>1. ASSUME NEW t \in tasks', t \in IdsOf(d) PROVE t < client[d].counter
      BY <1>3, <2>1, <2>2, <2>4, <3>1
    <3>2. ASSUME NEW i \in 1 .. Len(inbox'[P]), inbox'[P][i].op \in Adders
          PROVE  inbox'[P][i].task < client[d].counter
      <4>1. PICK k \in 1 .. Len(inbox[P]) : inbox'[P][i] = inbox[P][k]
        BY TakeShifts
      <4> QED BY <2>2, <2>4, <3>2, <4>1
    <3> QED BY <2>2, <2>4, <3>1, <3>2
  <2>5. ASSUME calls <= IdRange, NEW i \in 1 .. Len(inbox'[P]), inbox'[P][i].op \in Adders
        PROVE  /\ inbox'[P][i].task \notin tasks'
               /\ \A j \in 1 .. Len(inbox'[P]) :
                    inbox'[P][j].op \in Adders /\ inbox'[P][j].task = inbox'[P][i].task => j = i
    <3>1. PICK k \in 1 .. Len(inbox[P]) : inbox'[P][i] = inbox[P][k] /\ k = IF P = p THEN i + 1 ELSE i
      BY TakeShifts
    <3>2. inbox[P][k].task \notin tasks /\ inbox[P][k].task \in IdsOf(d)
      <4>1. P[1] = d
        BY DEF Port
      <4>2. inbox[P][k].task \in IdsOf(P[1])
        BY DEF ServerInv, SentBy
      <4> QED BY <2>3, <2>5, <3>1, <4>1, <4>2
    <3>3. inbox[P][k].task \notin tasks'
      <4> SUFFICES ASSUME inbox[P][k].task \in tasks' PROVE FALSE
        OBVIOUS
      <4>1. P = p /\ m.op \in Adders /\ inbox[P][k].task = m.task
        BY <2>1, <3>2
      <4>2. k = 1
        BY <1>3, <2>3, <2>5, <3>1, <4>1
      <4> QED BY <3>1, <4>1, <4>2
    <3>4. ASSUME NEW j \in 1 .. Len(inbox'[P]), inbox'[P][j].op \in Adders,
                 inbox'[P][j].task = inbox'[P][i].task
          PROVE  j = i
      <4>1. PICK l \in 1 .. Len(inbox[P]) : inbox'[P][j] = inbox[P][l] /\ l = IF P = p THEN j + 1 ELSE j
        BY TakeShifts
      <4>2. l = k
        BY <2>3, <2>5, <3>1, <3>4, <4>1
      <4> QED BY <3>1, <4>1, <4>2
    <3> QED BY <3>1, <3>3, <3>4
  <2> QED BY <2>2, <2>4, <2>5
<1> QED BY <1>6, <1>7, <1>8

-----------------------------------------------------------------------------
LEMMA ServerStepsKeep ==
  ASSUME ServerInv, NEW p \in Ports, ServerStart(p) \/ \E failed \in BOOLEAN : ServerStep(p, failed)
  PROVE  ServerInv'
<1>1. TakeStep(p) /\ HandleStep(p, p[1], inbox[p][1])
  BY StartHandles, StepHandles
<1>2. ServerTypes' /\ PortsUsed' /\ SentBy' /\ InOrder' /\ Blocked'
  BY <1>1, TakeOrder
<1>3. Starting' /\ RegistersOnce' /\ Served'
  BY <1>1, TakeRegisters
<1>4. OneAnswer' /\ Answering' /\ FreshIds'
  BY <1>1, TakeAnswers
<1> QED BY <1>2, <1>3, <1>4 DEF ServerInv

LEMMA InitServerInv == ServerInit => ServerInv
<1> SUFFICES ASSUME ServerInit PROVE ServerInv
  OBVIOUS
<1>1. /\ mode \in {"embedded", "external"} /\ server = "idle" /\ refused = {} /\ tasks = {} /\ calls = 0
      /\ \A p \in Ports : inbox[p] = << >> /\ mail[p] = << >>
      /\ \A c \in DpClients :
           /\ client_dict[c] = NoPort /\ client[c].starts = 1 /\ client[c].state = "new"
           /\ client[c].counter = FirstId(c) /\ client[c].waits = NoRequest
  BY DEF ServerInit, Fresh
<1>2. \A c \in DpClients : /\ MaxStarts[c] \in Nat /\ MaxStarts[c] >= 1 /\ PortOf(c) \in Ports
                           /\ PortOf(c) # NoPort /\ Port(c, 1) \in Ports
  <2>1. ASSUME NEW c \in DpClients PROVE MaxStarts[c] \in Nat /\ MaxStarts[c] >= 1 /\ 1 \in 1 .. MaxStarts[c]
    BY ServerAssumption
  <2>2. ASSUME NEW c \in DpClients PROVE PortOf(c) = Port(c, 1)
    BY <1>1 DEF PortOf, Port
  <2> QED BY <2>1, <2>2, PortFacts
<1>3. ServerTypes
  <2>1. ASSUME NEW c \in DpClients
        PROVE  Fresh(c, 1) \in [starts : Nat \ {0}, state : ClientPhases, counter : Nat,
                                waits : ClientRequest \union {NoRequest}]
    BY FirstIdNat DEF Fresh, ClientPhases
  <2>2. client \in [DpClients -> [starts : Nat \ {0}, state : ClientPhases, counter : Nat,
                                  waits : ClientRequest \union {NoRequest}]]
    BY <2>1 DEF ServerInit
  <2>3. << >> \in Seq(ClientRequest)
    OBVIOUS
  <2> QED BY <1>1, <2>2, <2>3 DEF ServerInit, ServerTypes, ServerPhases
<1>4. PortsUsed
  BY <1>1, <1>2, PortFacts DEF PortsUsed
<1>5. SentBy
  BY <1>1, FirstIdNat DEF SentBy
<1>6. InOrder
  BY <1>1 DEF InOrder
<1>7. \A p \in Ports : \A ops : ~ At(p, ops)
  BY <1>1 DEF At
<1>8. Starting
  BY <1>1, <1>2, <1>7 DEF Starting
<1>9. RegistersOnce
  BY <1>7, <1>1, PortFacts DEF RegistersOnce
<1>10. Served
  BY <1>1, <1>7, PortFacts DEF Served, Settled
<1>11. Blocked /\ OneAnswer /\ Answering
  BY <1>1 DEF Blocked, OneAnswer, Answering
<1>12. FreshIds
  BY <1>1, <1>2, FirstIdNat DEF FreshIds
<1> QED BY <1>3, <1>4, <1>5, <1>6, <1>8, <1>9, <1>10, <1>11, <1>12 DEF ServerInv

LEMMA NextServerInv == ServerInv /\ [ServerNext]_serverVars => ServerInv'
<1> SUFFICES ASSUME ServerInv, [ServerNext]_serverVars PROVE ServerInv'
  OBVIOUS
<1>1. ASSUME NEW c \in DpClients, start_server(c) \/ register_to_server(c) PROVE ServerInv'
  BY <1>1, OpeningSends, SendKeeps
<1>2. ASSUME NEW c \in DpClients, NEW op \in SyncOps, Call(c, op) PROVE ServerInv'
  BY <1>2, SyncSends, SendKeeps
<1>3. ASSUME NEW c \in DpClients, CallAsync(c) PROVE ServerInv'
  BY <1>3, AsyncSends, SendKeeps
<1>4. ASSUME NEW c \in DpClients, NEW ids \in SUBSET (FirstId(c) .. client[c].counter - 1),
             \/ Launch(c, "launch", ids, FALSE)
             \/ Launch(c, "launch_batch", ids, TRUE)
             \/ Launch(c, "cancel", ids, FALSE)
      PROVE  ServerInv'
  <2>1. ids \in SUBSET Nat
    BY FirstIdNat, ServerAssumption DEF ServerInv, ServerTypes
  <2> QED BY <1>4, <2>1, AsyncSends, SendKeeps
<1>5. ASSUME NEW c \in DpClients, Leave(c) PROVE ServerInv'
  BY <1>5, LeaveSends, SendKeeps
<1>6. ASSUME NEW c \in DpClients, Receive(c) \/ Crash(c) \/ Restart(c) PROVE ServerInv'
  BY <1>6, ReceiveKeeps, CrashKeeps, RestartKeeps
<1>7. ASSUME NEW p \in Ports, ServerStart(p) \/ \E failed \in BOOLEAN : ServerStep(p, failed) PROVE ServerInv'
  BY <1>7, ServerStepsKeep
<1>8. ASSUME (\E t \in TaskIds : Forget(t)) \/ Drain \/ UNCHANGED serverVars PROVE ServerInv'
  BY <1>8, EngineKeeps
<1> QED BY <1>1, <1>2, <1>3, <1>4, <1>5, <1>6, <1>7, <1>8 DEF ServerNext

LEMMA ServerSafe == ServerSpec => []ServerInv
BY InitServerInv, NextServerInv, PTL DEF ServerSpec

(* For every number of clients, starts, calls and ids: a client blocks for an
   answer that the server will never send only after the server ended, when this
   incarnation is not the registered one, or when its task id was in the table
   already (kvtask's "task_id already exists").  In every other case its request
   is still in recv_from_client or its answer waits at its port. *)
THEOREM SyncCallsAnsweredAlways == ServerSpec => []SyncCallsAnswered
<1>1. ServerInv => SyncCallsAnswered
  BY DEF ServerInv, Answering, SyncCallsAnswered
<1> QED BY <1>1, ServerSafe, PTL

(* For every number of clients, starts, calls and ids: what a blocked call of
   KVDPClient reads from its port answers that call, never one of an earlier
   incarnation, unless the server refused to register an earlier one. *)
THEOREM AnswersAreOwnAlways == ServerSpec => []AnswersAreOwn
<1>1. ServerInv => AnswersAreOwn
  BY DEF ServerInv, OneAnswer, AnswersAreOwn
<1> QED BY <1>1, ServerSafe, PTL
=============================================================================
