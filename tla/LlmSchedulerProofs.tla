------------------------- MODULE LlmSchedulerProofs -------------------------
(***************************************************************************)
(* Theorems about LlmScheduler, for any jobs, models, sizes, priorities    *)
(* and numbers of retries, restarts and removals.                          *)
(*                                                                         *)
(* Inv says what a lane may rely on when the generation it awaits returns: *)
(* the job is still running, no other lane works on it, and its usage has  *)
(* not been recorded.                                                      *)
(***************************************************************************)
EXTENDS LlmScheduler, TLAPS

(* A lane works only on jobs of its own. *)
OwnJobs == \A l \in Lane : lane[l].job # None => LaneOf[lane[l].job] = l

(* The memory of the process is gone when it is down. *)
DownIsIdle == ~up => \A l \in Lane : lane[l] = IdleLane

(* A job that waits, or ran when the process ended, has a try left for     *)
(* every restart and every retry.                                          *)
TriesLeft ==
    \A j \in Job :
        /\ job[j].attempts <= MaxRetries + 1 + kills
        /\ Is(j, "none") => job[j].attempts = 0
        /\ Is(j, "queued") \/ (Is(j, "running") /\ ~up)
              => job[j].attempts <= MaxRetries + kills

LaneInv == TypeOK /\ OwnJobs /\ DownIsIdle /\ RunningHasLane

Inv == LaneInv /\ MemoryWithinBudget /\ UsageAtMostOnce /\ NoLostWakeup /\ TriesLeft

-----------------------------------------------------------------------------
(* The helpers that rewrite the jobs table *)

LEMMA WithStatusType ==
    ASSUME TypeOK, NEW S, NEW s \in JobStatus
    PROVE  WithStatus(S, s) \in [Job -> [status: JobStatus, attempts: Nat]]
BY DEF TypeOK, WithStatus

LEMMA UsageRecordedType ==
    ASSUME TypeOK, NEW S
    PROVE  UsageRecorded(S) \in [Job -> Nat]
BY DEF TypeOK, UsageRecorded

LEMMA AskedType ==
    ASSUME TypeOK, NEW S
    PROVE  Asked(S) \in [Model -> RequestStatus]
BY DEF TypeOK, Asked, RequestStatus

LEMMA AvailableType ==
    /\ Unknown \in [known: BOOLEAN, models: SUBSET Model]
    /\ \A X \in SUBSET Model :
          [known |-> TRUE, models |-> X] \in [known: BOOLEAN, models: SUBSET Model]
BY DEF Unknown

(* The job a lane generates for. *)
LEMMA LaneJob ==
    ASSUME TypeOK, NEW l \in Lane
    PROVE  /\ lane[l].pc = "idle" <=> lane[l].job = None
           /\ lane[l].pc # "idle" => lane[l].job \in Job
BY SchedulerAssumption DEF TypeOK, IdleLane

(* What _pick chooses is waiting in its lane and fits.                     *)
LEMMA ChoiceFits ==
    ASSUME NEW l \in Lane, NEW j \in Choice(l)
    PROVE  /\ j \in Queued(l) /\ ~Oversize(j)
           /\ Size[ModelOf[j]] <= Budget - UsedElsewhere(l)
BY DEF Choice, First, Preferred, Loaded, Affordable

-----------------------------------------------------------------------------
LEMMA TypeInit == Init => TypeOK
<1> SUFFICES ASSUME Init PROVE TypeOK
  OBVIOUS
<1>1. NoJob \in [status: JobStatus, attempts: Nat]
  BY DEF NoJob, JobStatus
<1>2. job \in [Job -> [status: JobStatus, attempts: Nat]]
  BY <1>1 DEF Init
<1>3. lane \in [Lane -> {IdleLane} \cup [pc: {"generate", "backoff"}, job: Job]]
  BY DEF Init
<1>4. available \in [known: BOOLEAN, models: SUBSET Model]
  BY DEF Init, Unknown
<1>5. loop \in [pc: {"idle", "tags", "triage"}, list: SUBSET Model, model: {None}]
  BY DEF Init, IdleLoop
<1>6. usage \in [Job -> Nat] /\ req \in [Model -> RequestStatus]
  BY DEF Init, RequestStatus
<1>7. kills \in 0 .. MaxKills /\ removals \in 0 .. MaxRemovals
  BY SchedulerAssumption DEF Init
<1> QED
  BY <1>2, <1>3, <1>4, <1>5, <1>6, <1>7, SchedulerAssumption DEF Init, TypeOK

LEMMA PickType ==
    ASSUME TypeOK, NEW l \in Lane, Pick(l)
    PROVE  TypeOK'
<1>1. /\ WithStatus(Doomed(l), "failed") \in [Job -> [status: JobStatus, attempts: Nat]]
      /\ UsageRecorded(Doomed(l)) \in [Job -> Nat]
  BY WithStatusType, UsageRecordedType DEF JobStatus
<1>2. waiting' \subseteq Job /\ usage' \in [Job -> Nat]
  BY <1>1 DEF Pick, Woken, TypeOK
<1>3. UNCHANGED <<earlier, old, models, process>>
  BY DEF Pick
<1>4. CASE job' = WithStatus(Doomed(l), "failed") /\ UNCHANGED lanes
  BY <1>1, <1>2, <1>3, <1>4 DEF TypeOK, lanes, models, process
<1>5. ASSUME NEW j \in Choice(l),
             job' = [WithStatus(Doomed(l), "failed") EXCEPT
                        ![j] = [status |-> "running", attempts |-> job[j].attempts + 1]],
             lane' = [lane EXCEPT ![l] = [pc |-> "generate", job |-> j]],
             lastModel' = ModelOf[j]
      PROVE  TypeOK'
  <2>1. j \in Job
    BY ChoiceFits DEF Queued
  <2>2. [status |-> "running", attempts |-> job[j].attempts + 1]
            \in [status: JobStatus, attempts: Nat]
    BY <2>1 DEF TypeOK, JobStatus
  <2>3. job' \in [Job -> [status: JobStatus, attempts: Nat]]
    BY <1>1, <1>5, <2>2
  <2>4. lane' \in [Lane -> {IdleLane} \cup [pc: {"generate", "backoff"}, job: Job]]
    BY <1>5, <2>1 DEF TypeOK
  <2>5. lastModel' \in Model
    BY <1>5, <2>1, SchedulerAssumption
  <2> QED
    BY <1>2, <1>3, <2>3, <2>4, <2>5 DEF TypeOK, models, process
<1> QED BY <1>4, <1>5 DEF Pick

LEMMA LaneStepType ==
    ASSUME TypeOK, NEW l \in Lane, LaneStep(l)
    PROVE  TypeOK'
<1>1. LaneLeft(l) \in [Lane -> {IdleLane} \cup [pc: {"generate", "backoff"}, job: Job]]
  BY DEF TypeOK, LaneLeft
<1>2. \A s \in {"succeeded", "failed"} : Finished({lane[l].job}, s) =>
          /\ job' \in [Job -> [status: JobStatus, attempts: Nat]]
          /\ usage' \in [Job -> Nat] /\ waiting' \subseteq Job
  BY WithStatusType, UsageRecordedType DEF Finished, Woken, JobStatus, TypeOK
<1>3. CASE Pick(l) BY <1>3, PickType
<1>4. CASE GenerateSucceeds(l)
  BY <1>1, <1>2, <1>4 DEF GenerateSucceeds, TypeOK, models, process
<1>5. CASE GenerateRetried(l)
  <2>1. job' \in [Job -> [status: JobStatus, attempts: Nat]]
    BY <1>5, WithStatusType DEF GenerateRetried, JobStatus
  <2>2. lane' \in [Lane -> {IdleLane} \cup [pc: {"generate", "backoff"}, job: Job]]
    BY <1>5 DEF GenerateRetried, TypeOK, IdleLane
  <2> QED
    BY <1>5, <2>1, <2>2 DEF GenerateRetried, TypeOK, models, process
<1>6. CASE GenerateFails(l)
  BY <1>1, <1>2, <1>6 DEF GenerateFails, TypeOK, models, process
<1>7. CASE BackoffEnds(l)
  BY <1>1, <1>7 DEF BackoffEnds, TypeOK, jobs, models, process
<1> QED BY <1>3, <1>4, <1>5, <1>6, <1>7 DEF LaneStep
LEMMA JobStepType ==
    ASSUME TypeOK, NEW j \in Job,
           \/ Generate(j) \/ WaitTimesOut(j) \/ CancelJob(j) \/ Purge(j) \/ GrowOld(j)
    PROVE  TypeOK'
<1>1. CASE Generate(j)
  <2>1. job' \in [Job -> [status: JobStatus, attempts: Nat]]
    BY <1>1 DEF Generate, TypeOK, JobStatus
  <2>2. earlier' \subseteq Job \X Job /\ waiting' \subseteq Job
    BY <1>1 DEF Generate, TypeOK
  <2> QED BY <1>1, <2>1, <2>2 DEF Generate, TypeOK, lanes, models, process
<1>2. CASE WaitTimesOut(j)
  BY <1>2 DEF WaitTimesOut, TypeOK, lanes, models, process
<1>3. CASE CancelJob(j)
  BY <1>3, WithStatusType
     DEF CancelJob, Woken, JobStatus, TypeOK, lanes, models, process
<1>4. CASE Purge(j)
  <2>1. NoJob \in [status: JobStatus, attempts: Nat]
    BY DEF NoJob, JobStatus
  <2>2. job' \in [Job -> [status: JobStatus, attempts: Nat]] /\ usage' \in [Job -> Nat]
    BY <1>4, <2>1 DEF Purge, TypeOK
  <2> QED BY <1>4, <2>2 DEF Purge, TypeOK, lanes, models, process
<1>5. CASE GrowOld(j)
  BY <1>5 DEF GrowOld, TypeOK, lanes, models, process
<1> QED BY <1>1, <1>2, <1>3, <1>4, <1>5

LEMMA LoopStepType ==
    ASSUME TypeOK, LoopStep
    PROVE  TypeOK'
<1> DEFINE Resting == [pc: {"idle", "tags", "triage"}, list: SUBSET Model, model: {None}]
<1>1. /\ IdleLoop \in Resting
      /\ \A x \in Resting : x \in Resting \cup [pc: {"pull"}, list: {{}}, model: Model]
  BY DEF IdleLoop
<1>2. CASE RefreshStart
  <2>1. loop' \in Resting
    BY <1>2 DEF RefreshStart, IdleLoop, TypeOK
  <2> QED BY <1>2, <2>1 DEF RefreshStart, TypeOK, jobs, lanes, process
<1>3. CASE RefreshEnds
  <2>1. loop' \in Resting
    BY <1>3 DEF RefreshEnds, IdleLoop
  <2>2. loop.list \in SUBSET Model
    BY DEF TypeOK
  <2>3. available' \in [known: BOOLEAN, models: SUBSET Model]
    BY <1>3, <2>2, AvailableType DEF RefreshEnds
  <2> QED BY <1>3, <2>1, <2>3 DEF RefreshEnds, TypeOK, jobs, lanes, process
<1>4. CASE Triage
  <2>1. /\ job' \in [Job -> [status: JobStatus, attempts: Nat]]
        /\ usage' \in [Job -> Nat] /\ waiting' \subseteq Job
    BY <1>4, WithStatusType, UsageRecordedType DEF Triage, Finished, Woken, JobStatus, TypeOK
  <2>2. req' \in [Model -> RequestStatus] /\ loop' \in Resting
    BY <1>4, <1>1, AskedType DEF Triage
  <2> QED BY <1>4, <2>1, <2>2 DEF Triage, TypeOK, lanes, process
<1>5. ASSUME NEW m \in Model, PullStart(m) PROVE TypeOK'
  <2>1. loop' \in [pc: {"pull"}, list: {{}}, model: Model]
    BY <1>5 DEF PullStart, IdleLoop
  <2>2. req' \in [Model -> RequestStatus]
    BY <1>5 DEF PullStart, TypeOK, RequestStatus
  <2> QED BY <1>5, <2>1, <2>2 DEF PullStart, TypeOK, jobs, lanes, process
<1>6. CASE PullProgress
  <2>1. req' \in [Model -> RequestStatus]
    BY <1>6 DEF PullProgress, TypeOK, RequestStatus
  <2> QED BY <1>6, <2>1 DEF PullProgress, TypeOK, jobs, lanes, process
<1>7. ASSUME NEW outcome \in {"ready", "failed"}, PullEnds(outcome) PROVE TypeOK'
  <2>1. loop.model \in Model
    BY <1>7 DEF PullEnds, TypeOK
  <2>2. req' \in [Model -> RequestStatus]
    BY <1>7 DEF PullEnds, TypeOK, RequestStatus
  <2>3. installed' \subseteq Model /\ loop' \in Resting
    BY <1>7, <1>1, <2>1 DEF PullEnds, TypeOK
  <2> QED BY <1>7, <2>2, <2>3 DEF PullEnds, TypeOK, jobs, lanes, process
<1> QED BY <1>2, <1>3, <1>4, <1>5, <1>6, <1>7 DEF LoopStep

LEMMA AdminType ==
    ASSUME TypeOK, NEW m \in Model, ModelAdmin(m)
    PROVE  TypeOK'
<1>1. CASE EmbedMissing(m)
  BY <1>1, AskedType DEF EmbedMissing, TypeOK, jobs, lanes, process
<1>2. ASSUME NEW d \in {"approved", "rejected"}, Decide(m, d) PROVE TypeOK'
  <2>1. req' \in [Model -> RequestStatus]
    BY <1>2 DEF Decide, TypeOK, RequestStatus
  <2> QED BY <1>2, <2>1 DEF Decide, TypeOK, jobs, lanes, process
<1>3. CASE Install(m)
  <2>1. req' \in [Model -> RequestStatus]
    BY <1>3 DEF Install, TypeOK, RequestStatus
  <2> QED BY <1>3, <2>1 DEF Install, TypeOK, jobs, lanes, process
<1>4. CASE DeleteStart(m)
  BY <1>4 DEF DeleteStart, TypeOK, jobs, lanes, process
<1>5. CASE RemovedByHand(m)
  BY <1>5, SchedulerAssumption DEF RemovedByHand, TypeOK, jobs, lanes, process
<1> QED BY <1>1, <1>2, <1>3, <1>4, <1>5 DEF ModelAdmin

LEMMA ProcessType ==
    ASSUME TypeOK,
           \/ \E dm \in deleting, done \in BOOLEAN : DeleteEnds(dm, done)
           \/ Start \/ Kill
           \/ \E j \in Job, s \in {"succeeded", "failed"} : KillInFinish(j, s)
    PROVE  TypeOK'
<1>2. ASSUME NEW dm \in deleting, NEW done \in BOOLEAN, DeleteEnds(dm, done) PROVE TypeOK'
  <2>1. CASE UNCHANGED <<installed, req, available>>
    BY <1>2, <2>1 DEF DeleteEnds, TypeOK, jobs, lanes, process
  <2>2. CASE /\ installed' = installed \ {dm}
             /\ req' = [req EXCEPT ![dm] = "none"]
             /\ available' = [available EXCEPT !.models = @ \ {dm}]
    <3>1. req' \in [Model -> RequestStatus]
      BY <2>2 DEF TypeOK, RequestStatus
    <3>2. available' \in [known: BOOLEAN, models: SUBSET Model]
      BY <2>2 DEF TypeOK
    <3> QED BY <1>2, <2>2, <3>1, <3>2 DEF DeleteEnds, TypeOK, jobs, lanes, process
  <2> QED BY <1>2, <2>1, <2>2 DEF DeleteEnds
<1>3. CASE Start
  <2>1. job' \in [Job -> [status: JobStatus, attempts: Nat]]
    BY <1>3, WithStatusType DEF Start, Recovered, JobStatus
  <2>2. available' \in [known: BOOLEAN, models: SUBSET Model]
    BY <1>3, AvailableType DEF Start, TypeOK
  <2> QED BY <1>3, <2>1, <2>2 DEF Start, TypeOK, lanes, process
<1>4. ASSUME MemoryLost, job' \in [Job -> [status: JobStatus, attempts: Nat]]
      PROVE  TypeOK'
  <2>1. lane' \in [Lane -> {IdleLane} \cup [pc: {"generate", "backoff"}, job: Job]]
    BY <1>4 DEF MemoryLost
  <2>2. loop' \in [pc: {"idle", "tags", "triage"}, list: SUBSET Model, model: {None}]
    BY <1>4 DEF MemoryLost, IdleLoop
  <2>3. kills' \in 0 .. MaxKills
    BY <1>4, SchedulerAssumption DEF MemoryLost, TypeOK
  <2> QED BY <1>4, AvailableType, <2>1, <2>2, <2>3 DEF MemoryLost, TypeOK
<1>5. CASE Kill
  BY <1>4, <1>5 DEF Kill, TypeOK
<1>6. ASSUME NEW j \in Job, NEW s \in {"succeeded", "failed"}, KillInFinish(j, s)
      PROVE  TypeOK'
  BY <1>4, <1>6, WithStatusType DEF KillInFinish, JobStatus
<1> QED BY <1>2, <1>3, <1>5, <1>6

LEMMA TypeStep ==
    ASSUME TypeOK, [Next]_vars
    PROVE  TypeOK'
<1>1. CASE UNCHANGED vars
  BY <1>1 DEF vars, jobs, lanes, models, process, TypeOK
<1>2. CASE Next
  BY <1>2, JobStepType, LaneStepType, LoopStepType, AdminType, ProcessType DEF Next
<1> QED BY <1>1, <1>2

-----------------------------------------------------------------------------
(* What the steps do to a job, field by field *)

LEMMA WithStatusIs ==
    ASSUME TypeOK, NEW S, NEW s, NEW j \in Job
    PROVE  /\ WithStatus(S, s)[j].status = IF j \in S THEN s ELSE job[j].status
           /\ WithStatus(S, s)[j].attempts = job[j].attempts
BY DEF TypeOK, WithStatus

Working(j) == \E l \in Lane : lane[l].pc = "generate" /\ lane[l].job = j

LEMMA WorkingIs ==
    TypeOK => (RunningHasLane <=> (up => \A j \in Job : Is(j, "running") <=> Working(j)))
<1> SUFFICES ASSUME TypeOK
             PROVE  RunningHasLane <=> (up => \A j \in Job : Is(j, "running") <=> Working(j))
  OBVIOUS
<1>1. ASSUME NEW l \in Lane, NEW j \in Job
      PROVE  lane[l] = [pc |-> "generate", job |-> j]
                <=> lane[l].pc = "generate" /\ lane[l].job = j
  BY DEF TypeOK, IdleLane
<1> QED BY <1>1 DEF RunningHasLane, Working

(* The same, of the state after a step. *)
LEMMA WorkingIsNext ==
    ASSUME TypeOK'
    PROVE  RunningHasLane'
              <=> (up' => \A j \in Job : (job'[j].status = "running") <=> Working(j)')
<1>1. ASSUME NEW l \in Lane, NEW j \in Job
      PROVE  lane'[l] = [pc |-> "generate", job |-> j]
                <=> lane'[l].pc = "generate" /\ lane'[l].job = j
  BY DEF TypeOK, IdleLane
<1>2. \A j \in Job : (\E l \in Lane : lane'[l] = [pc |-> "generate", job |-> j]) <=> Working(j)'
  BY <1>1 DEF Working
<1> QED BY <1>2 DEF RunningHasLane, Is

(* The lane whose generation returns works on a running job of its own,    *)
(* and the other lane on another one.                                      *)
LEMMA Returning ==
    ASSUME LaneInv, NEW l \in Lane, lane[l].pc = "generate"
    PROVE  /\ up /\ lane[l].job \in Job /\ Is(lane[l].job, "running")
           /\ \A x \in Lane : x # l => lane[x].job # lane[l].job
<1>1. up /\ lane[l].job \in Job
  BY LaneJob DEF LaneInv, DownIsIdle, IdleLane
<1>2. Is(lane[l].job, "running")
  BY <1>1, WorkingIs DEF LaneInv, Working
<1>3. lane[l].job # None
  BY <1>1, SchedulerAssumption
<1> QED BY <1>1, <1>2, <1>3 DEF LaneInv, OwnJobs

(* What _pick does: some jobs that waited fail, one that waited may run.   *)
LEMMA Picking ==
    ASSUME LaneInv, NEW l \in Lane, Pick(l)
    PROVE  /\ up /\ lane[l].pc = "idle"
           /\ \A k \in Doomed(l) : k \in Job /\ Is(k, "queued")
           /\ \/ /\ lane' = lane
                 /\ job' = WithStatus(Doomed(l), "failed")
              \/ \E j \in Job :
                    /\ Is(j, "queued") /\ LaneOf[j] = l /\ j \notin Doomed(l)
                    /\ Size[ModelOf[j]] <= Budget - Holds(Other(l))
                    /\ lane' = [lane EXCEPT ![l] = [pc |-> "generate", job |-> j]]
                    /\ job'[j] = [status |-> "running", attempts |-> job[j].attempts + 1]
                    /\ \A k \in Job \ {j} : job'[k] = WithStatus(Doomed(l), "failed")[k]
<1>1. up /\ lane[l].pc = "idle"
  BY DEF Pick
<1>2. \A k \in Doomed(l) : k \in Job /\ Is(k, "queued")
  BY DEF Doomed, Queued
<1>3. CASE job' = WithStatus(Doomed(l), "failed") /\ UNCHANGED lanes
  BY <1>1, <1>2, <1>3 DEF lanes
<1>4. ASSUME NEW j \in Choice(l),
             job' = [WithStatus(Doomed(l), "failed") EXCEPT
                        ![j] = [status |-> "running", attempts |-> job[j].attempts + 1]],
             lane' = [lane EXCEPT ![l] = [pc |-> "generate", job |-> j]]
      PROVE  \E i \in Job :
                    /\ Is(i, "queued") /\ LaneOf[i] = l /\ i \notin Doomed(l)
                    /\ Size[ModelOf[i]] <= Budget - Holds(Other(l))
                    /\ lane' = [lane EXCEPT ![l] = [pc |-> "generate", job |-> i]]
                    /\ job'[i] = [status |-> "running", attempts |-> job[i].attempts + 1]
                    /\ \A k \in Job \ {i} : job'[k] = WithStatus(Doomed(l), "failed")[k]
  <2>1. /\ j \in Job /\ Is(j, "queued") /\ LaneOf[j] = l /\ j \notin Doomed(l)
        /\ Size[ModelOf[j]] <= Budget - Holds(Other(l))
    BY ChoiceFits DEF Queued, Doomed, UsedElsewhere
  <2>2. DOMAIN WithStatus(Doomed(l), "failed") = Job
    BY DEF WithStatus
  <2>3. /\ job'[j] = [status |-> "running", attempts |-> job[j].attempts + 1]
        /\ \A k \in Job \ {j} : job'[k] = WithStatus(Doomed(l), "failed")[k]
    BY <1>4, <2>1, <2>2
  <2> QED BY <1>4, <2>1, <2>3
<1> QED BY <1>1, <1>2, <1>3, <1>4 DEF Pick

-----------------------------------------------------------------------------
(* The lanes and the jobs they run *)

LEMMA SameLanes ==
    ASSUME LaneInv, TypeOK', UNCHANGED <<lane, up>>,
           \A j \in Job : (job'[j].status = "running") <=> Is(j, "running")
    PROVE  LaneInv'
<1>1. RunningHasLane'
  BY DEF LaneInv, RunningHasLane, Is
<1> QED BY <1>1 DEF LaneInv, OwnJobs, DownIsIdle

LEMMA LaneStepLanes ==
    ASSUME LaneInv, TypeOK', NEW l \in Lane, LaneStep(l)
    PROVE  LaneInv'
<1> USE DEF LaneInv
<1>1. CASE Pick(l)
  <2>1. /\ up /\ up' = up /\ lane[l].pc = "idle" /\ lane[l].job = None
        /\ \A k \in Doomed(l) : k \in Job /\ Is(k, "queued")
    BY <1>1, Picking, LaneJob DEF Pick, process
  <2>2. \A k \in Job : (WithStatus(Doomed(l), "failed")[k].status = "running")
                            <=> Is(k, "running")
    BY <2>1, WithStatusIs DEF Is
  <2>3. CASE lane' = lane /\ job' = WithStatus(Doomed(l), "failed")
    BY <2>1, <2>2, <2>3, SameLanes
  <2>4. ASSUME NEW j \in Job, Is(j, "queued"), LaneOf[j] = l,
               lane' = [lane EXCEPT ![l] = [pc |-> "generate", job |-> j]],
               job'[j] = [status |-> "running", attempts |-> job[j].attempts + 1],
               \A k \in Job \ {j} : job'[k] = WithStatus(Doomed(l), "failed")[k]
        PROVE  LaneInv'
    <3>1. /\ lane'[l].pc = "generate" /\ lane'[l].job = j
          /\ \A x \in Lane : x # l => lane'[x] = lane[x]
      BY <2>4 DEF TypeOK
    <3>2. OwnJobs'
      BY <2>4, <3>1 DEF OwnJobs
    <3>3. \A k \in Job \ {j} : Working(k)' <=> Working(k)
      BY <2>1, <3>1 DEF Working
    <3>4. Working(j)' /\ Is(j, "running")'
      BY <2>4, <3>1 DEF Working, Is
    <3>5. \A k \in Job \ {j} : Is(k, "running")' <=> Is(k, "running")
      BY <2>2, <2>4 DEF Is
    <3>6. RunningHasLane'
      BY <2>1, <3>3, <3>4, <3>5, WorkingIs, WorkingIsNext DEF Is
    <3> QED BY <2>1, <3>2, <3>6 DEF DownIsIdle
  <2> QED BY <1>1, <2>3, <2>4, Picking
<1>2. CASE GenerateSucceeds(l) \/ GenerateFails(l) \/ GenerateRetried(l)
  <2>0. PICK j : j = lane[l].job
    OBVIOUS
  <2>1. /\ lane[l].pc = "generate" /\ up' = up
        /\ \E s \in {"succeeded", "failed", "queued"} : job' = WithStatus({j}, s)
    BY <1>2, <2>0 DEF GenerateSucceeds, GenerateFails, GenerateRetried, Finished, process
  <2>2. /\ up /\ j \in Job /\ Is(j, "running")
        /\ \A x \in Lane : x # l => lane[x].job # j
    BY <2>0, <2>1, Returning
  <2>3. /\ lane'[l].pc # "generate" /\ lane'[l].job \in {None, j}
        /\ \A x \in Lane : x # l => lane'[x] = lane[x]
    BY <1>2, <2>0, <2>1, <2>2
       DEF GenerateSucceeds, GenerateFails, GenerateRetried, LaneLeft, IdleLane, TypeOK
  <2>4. OwnJobs'
    BY <2>0, <2>3 DEF OwnJobs
  <2>5. \A k \in Job \ {j} : Working(k)' <=> Working(k)
    BY <2>0, <2>2, <2>3 DEF Working
  <2>6. ~Working(j)'
    BY <2>2, <2>3 DEF Working
  <2>7. \A k \in Job \ {j} : Is(k, "running")' <=> Is(k, "running")
    BY <2>1, WithStatusIs DEF Is
  <2>8. ~Is(j, "running")'
    BY <2>1, <2>2, WithStatusIs DEF Is
  <2>9. RunningHasLane'
    BY <2>1, <2>2, <2>5, <2>6, <2>7, <2>8, WorkingIs, WorkingIsNext DEF Is
  <2> QED BY <2>1, <2>2, <2>4, <2>9 DEF DownIsIdle
<1>3. CASE BackoffEnds(l)
  <2>1. /\ lane'[l] = IdleLane /\ lane[l].pc = "backoff" /\ up' = up /\ job' = job
        /\ \A x \in Lane : x # l => lane'[x] = lane[x]
    BY <1>3 DEF BackoffEnds, LaneLeft, TypeOK, jobs, process
  <2>2. OwnJobs' /\ DownIsIdle'
    BY <2>1 DEF OwnJobs, DownIsIdle, IdleLane
  <2>3. \A k \in Job : Working(k)' <=> Working(k)
    BY <2>1 DEF Working, IdleLane
  <2>4. RunningHasLane'
    BY <2>1, <2>3, WorkingIs, WorkingIsNext DEF Is
  <2> QED BY <2>2, <2>4
<1> QED BY <1>1, <1>2, <1>3 DEF LaneStep

LEMMA LaneInvStep ==
    ASSUME LaneInv, [Next]_vars
    PROVE  LaneInv'
<1>1. TypeOK'
  BY TypeStep DEF LaneInv
<1>2. ASSUME UNCHANGED <<job, lane, up>> PROVE LaneInv'
  BY <1>1, <1>2, SameLanes DEF Is
<1>3. ASSUME NEW j \in Job,
             \/ Generate(j) \/ WaitTimesOut(j) \/ CancelJob(j) \/ Purge(j) \/ GrowOld(j)
      PROVE  LaneInv'
  <2>1. UNCHANGED <<lane, up>>
    BY <1>3 DEF Generate, WaitTimesOut, CancelJob, Purge, GrowOld, lanes, process
  <2>2. \A k \in Job : (job'[k].status = "running") <=> Is(k, "running")
    <3>1. CASE Generate(j) \/ Purge(j)
      BY <3>1 DEF Generate, Purge, NoJob, Is, Terminal, LaneInv, TypeOK
    <3>2. CASE CancelJob(j)
      BY <3>2, WithStatusIs DEF CancelJob, Withdrawable, Is, LaneInv
    <3>3. CASE WaitTimesOut(j) \/ GrowOld(j)
      BY <3>3 DEF WaitTimesOut, GrowOld, Is
    <3> QED BY <1>3, <3>1, <3>2, <3>3
  <2> QED BY <1>1, <2>1, <2>2, SameLanes
<1>4. ASSUME NEW l \in Lane, LaneStep(l) PROVE LaneInv'
  BY <1>1, <1>4, LaneStepLanes
<1>5. CASE Triage
  <2>1. \A k \in Job : (job'[k].status = "running") <=> Is(k, "running")
    BY <1>5, WithStatusIs DEF Triage, Finished, Hopeless, Missing, Is, LaneInv
  <2> QED BY <1>1, <1>5, <2>1, SameLanes DEF Triage, lanes, process
<1>6. CASE LoopStep /\ ~Triage
  BY <1>2, <1>6
     DEF LoopStep, RefreshStart, RefreshEnds, PullStart, PullProgress, PullEnds, jobs, lanes,
         process
<1>7. ASSUME NEW m \in Model, ModelAdmin(m) PROVE LaneInv'
  BY <1>2, <1>7
     DEF ModelAdmin, EmbedMissing, Decide, Install, DeleteStart, RemovedByHand, jobs, lanes,
         process
<1>8. ASSUME NEW dm \in deleting, NEW done \in BOOLEAN, DeleteEnds(dm, done) PROVE LaneInv'
  BY <1>2, <1>8 DEF DeleteEnds, jobs, lanes, process
<1>9. CASE Start
  <2>1. /\ lane' = lane /\ \A l \in Lane : lane[l] = IdleLane
    BY <1>9 DEF Start, lanes, LaneInv, DownIsIdle
  <2>2. \A k \in Job : ~Is(k, "running")' /\ ~Working(k)'
    BY <1>9, <2>1, WithStatusIs DEF Start, Recovered, Is, Working, IdleLane, LaneInv
  <2> QED
    BY <1>1, <1>9, <2>1, <2>2, WorkingIsNext DEF Start, Is, LaneInv, OwnJobs, DownIsIdle
<1>10. CASE Kill \/ \E j \in Job, s \in {"succeeded", "failed"} : KillInFinish(j, s)
  <2>1. up' = FALSE /\ \A l \in Lane : lane'[l] = IdleLane
    BY <1>10 DEF Kill, KillInFinish, MemoryLost
  <2> QED BY <1>1, <2>1 DEF LaneInv, OwnJobs, DownIsIdle, RunningHasLane, IdleLane
<1>11. CASE UNCHANGED vars
  BY <1>2, <1>11 DEF vars, jobs, lanes, process
<1> QED BY <1>3, <1>4, <1>5, <1>6, <1>7, <1>8, <1>9, <1>10, <1>11 DEF Next

-----------------------------------------------------------------------------
(* Memory *)

LEMMA HoldsType ==
    ASSUME TypeOK, NEW l \in Lane
    PROVE  Holds(l) \in Nat /\ Other(l) \in Lane /\ Other(l) # l
BY SchedulerAssumption DEF TypeOK, Holds, Other, Lane, IdleLane

LEMMA BudgetStep ==
    ASSUME LaneInv, LaneInv', MemoryWithinBudget, [Next]_vars
    PROVE  MemoryWithinBudget'
<1>1. CASE lane' = lane
  BY <1>1 DEF MemoryWithinBudget, Holds
<1>2. \A l \in Lane : Holds(l) \in Nat /\ Holds(l)' \in Nat
  <2>1. \A l \in Lane : Holds(l) \in Nat
    BY HoldsType DEF LaneInv
  <2>2. \A l \in Lane : Holds(l)' \in Nat
    BY SchedulerAssumption DEF LaneInv, TypeOK, Holds, IdleLane
  <2> QED BY <2>1, <2>2
<1>3. ASSUME \A l \in Lane : Holds(l)' = Holds(l) \/ Holds(l)' = 0
      PROVE  MemoryWithinBudget'
  BY <1>2, <1>3, SchedulerAssumption DEF MemoryWithinBudget, Lane
<1>4. ASSUME NEW l \in Lane, LaneStep(l), ~Pick(l) PROVE MemoryWithinBudget'
  <2>1. /\ lane'[l].job \in {None, lane[l].job}
        /\ \A x \in Lane : x # l => lane'[x] = lane[x]
    BY <1>4
       DEF LaneStep, GenerateSucceeds, GenerateFails, GenerateRetried, BackoffEnds, LaneLeft,
           IdleLane, LaneInv, TypeOK
  <2>2. \A x \in Lane : Holds(x)' = Holds(x) \/ Holds(x)' = 0
    BY <2>1 DEF Holds
  <2> QED BY <1>3, <2>2
<1>5. ASSUME NEW l \in Lane, Pick(l) PROVE MemoryWithinBudget'
  <2>1. ASSUME NEW j \in Job, Size[ModelOf[j]] <= Budget - Holds(Other(l)),
               lane' = [lane EXCEPT ![l] = [pc |-> "generate", job |-> j]]
        PROVE  MemoryWithinBudget'
    <3>1. lane'[l].job = j /\ j # None
      BY <2>1, SchedulerAssumption DEF LaneInv, TypeOK
    <3>2. Holds(l)' = Size[ModelOf[j]]
      BY <3>1 DEF Holds
    <3>3. Other(l) \in Lane /\ Other(l) # l
      BY HoldsType DEF LaneInv
    <3>4. Holds(Other(l))' = Holds(Other(l))
      BY <2>1, <3>3 DEF Holds, LaneInv, TypeOK, Other
    <3>5. Holds(l)' + Holds(Other(l))' <= Budget
      BY <1>2, <2>1, <3>2, <3>3, <3>4, SchedulerAssumption
    <3> QED BY <1>2, <3>5 DEF MemoryWithinBudget, Other, Lane
  <2> QED BY <1>1, <1>5, <2>1, Picking
<1>6. CASE \/ Kill
           \/ \E j \in Job, s \in {"succeeded", "failed"} : KillInFinish(j, s)
  <2>1. \A l \in Lane : lane'[l] = IdleLane
    BY <1>6 DEF Kill, KillInFinish, MemoryLost
  <2>2. \A l \in Lane : Holds(l)' = 0
    BY <2>1 DEF Holds, IdleLane
  <2> QED BY <1>3, <2>2
<1>7. CASE UNCHANGED vars
  BY <1>1, <1>7 DEF vars, lanes
<1>8. CASE LoopStep
  BY <1>1, <1>8
     DEF LoopStep, RefreshStart, RefreshEnds, Triage, PullStart, PullProgress, PullEnds, lanes
<1>9. ASSUME NEW m \in Model, ModelAdmin(m) PROVE MemoryWithinBudget'
  BY <1>1, <1>9 DEF ModelAdmin, EmbedMissing, Decide, Install, DeleteStart, RemovedByHand, lanes
<1>10. CASE Start \/ \E dm \in deleting, done \in BOOLEAN : DeleteEnds(dm, done)
  BY <1>1, <1>10 DEF Start, DeleteEnds, lanes
<1>11. ASSUME NEW j \in Job,
              \/ Generate(j) \/ WaitTimesOut(j) \/ CancelJob(j) \/ Purge(j) \/ GrowOld(j)
       PROVE  MemoryWithinBudget'
  BY <1>1, <1>11 DEF Generate, WaitTimesOut, CancelJob, Purge, GrowOld, lanes
<1> QED BY <1>4, <1>5, <1>6, <1>7, <1>8, <1>9, <1>10, <1>11 DEF Next

-----------------------------------------------------------------------------
(* Usage and waiters *)

Rows == UsageAtMostOnce /\ NoLostWakeup

(* Jobs that waited or ran are finished: each is counted once and nobody   *)
(* waits for it any longer.                                                *)
LEMMA FinishedRows ==
    ASSUME TypeOK, Rows, NEW S, NEW s \in {"succeeded", "failed"},
           \A j \in S \cap Job : job[j].status \in {"queued", "running"},
           usage' = UsageRecorded(S), waiting' = Woken(S),
           \A j \in Job : \/ job'[j] = WithStatus(S, s)[j]
                          \/ job'[j].status = "running" /\ Is(j, "queued") /\ j \notin S
    PROVE  Rows'
<1>1. ASSUME NEW j \in Job
      PROVE  usage'[j] <= 1 /\ (usage'[j] = 1 => job'[j].status \in {"succeeded", "failed"})
  <2>1. /\ usage[j] \in Nat /\ usage[j] <= 1
        /\ usage[j] = 1 => job[j].status \in {"succeeded", "failed"}
    BY DEF Rows, UsageAtMostOnce, TypeOK
  <2>2. usage'[j] = IF j \in S THEN usage[j] + 1 ELSE usage[j]
    BY DEF UsageRecorded
  <2>3. CASE j \in S
    BY <2>1, <2>2, <2>3, WithStatusIs DEF Is
  <2>4. CASE j \notin S
    BY <2>1, <2>2, <2>4, WithStatusIs DEF Is
  <2> QED BY <2>3, <2>4
<1>2. ASSUME NEW j \in waiting' PROVE job'[j].status \in {"queued", "running"}
  <2>1. j \in Job /\ j \notin S /\ job[j].status \in {"queued", "running"}
    BY <1>2 DEF Woken, TypeOK, Rows, NoLostWakeup
  <2> QED BY <2>1, WithStatusIs
<1> QED BY <1>1, <1>2 DEF Rows, UsageAtMostOnce, NoLostWakeup

(* Usage is as it was, and no job that counts changes but to be purged.    *)
LEMMA OtherRows ==
    ASSUME TypeOK, Rows,
           \A j \in Job :
              \/ usage'[j] = 0
              \/ usage'[j] = usage[j]
                    /\ (job'[j].status = job[j].status \/ job[j].status \in {"queued", "running"}),
           \A j \in waiting' : j \in Job /\ job'[j].status \in {"queued", "running"}
    PROVE  Rows'
BY DEF Rows, UsageAtMostOnce, NoLostWakeup, TypeOK

LEMMA LaneStepRows ==
    ASSUME LaneInv, Rows, NEW l \in Lane, LaneStep(l)
    PROVE  Rows'
<1>1. CASE Pick(l)
  <2>1. /\ usage' = UsageRecorded(Doomed(l)) /\ waiting' = Woken(Doomed(l))
        /\ \A k \in Doomed(l) : k \in Job /\ Is(k, "queued")
    BY <1>1, Picking DEF Pick
  <2>2. ASSUME NEW k \in Job
        PROVE  \/ job'[k] = WithStatus(Doomed(l), "failed")[k]
               \/ job'[k].status = "running" /\ Is(k, "queued") /\ k \notin Doomed(l)
    <3>1. CASE job' = WithStatus(Doomed(l), "failed")
      BY <3>1
    <3>2. ASSUME NEW j \in Job, Is(j, "queued"), j \notin Doomed(l),
                 job'[j] = [status |-> "running", attempts |-> job[j].attempts + 1],
                 \A i \in Job \ {j} : job'[i] = WithStatus(Doomed(l), "failed")[i]
          PROVE  \/ job'[k] = WithStatus(Doomed(l), "failed")[k]
                 \/ job'[k].status = "running" /\ Is(k, "queued") /\ k \notin Doomed(l)
      <4>1. CASE k = j BY <3>2, <4>1
      <4>2. CASE k # j BY <3>2, <4>2
      <4> QED BY <4>1, <4>2
    <3> QED BY <1>1, <3>1, <3>2, Picking
  <2> QED BY <2>1, <2>2, FinishedRows DEF LaneInv, Is
<1>2. CASE GenerateSucceeds(l) \/ GenerateFails(l)
  <2>1. PICK s \in {"succeeded", "failed"} : Finished({lane[l].job}, s)
    BY <1>2 DEF GenerateSucceeds, GenerateFails
  <2>2. lane[l].job \in Job /\ Is(lane[l].job, "running")
    BY <1>2, Returning DEF GenerateSucceeds, GenerateFails
  <2> QED BY <2>1, <2>2, FinishedRows DEF Finished, LaneInv, Is
<1>3. CASE GenerateRetried(l)
  <2>1. lane[l].job \in Job /\ Is(lane[l].job, "running")
    BY <1>3, Returning DEF GenerateRetried
  <2>2. /\ usage' = usage /\ waiting' = waiting
        /\ job' = WithStatus({lane[l].job}, "queued")
    BY <1>3 DEF GenerateRetried
  <2>3. \A j \in Job : job'[j].status = IF j = lane[l].job THEN "queued" ELSE job[j].status
    BY <2>2, WithStatusIs DEF LaneInv
  <2> QED BY <2>1, <2>2, <2>3, OtherRows DEF LaneInv, Rows, NoLostWakeup, TypeOK, Is
<1>4. CASE BackoffEnds(l)
  BY <1>4, OtherRows DEF BackoffEnds, jobs, LaneInv, Rows, NoLostWakeup, TypeOK
<1> QED BY <1>1, <1>2, <1>3, <1>4 DEF LaneStep

LEMMA RowsStep ==
    ASSUME LaneInv, Rows, [Next]_vars
    PROVE  Rows'
<1>1. ASSUME UNCHANGED <<job, usage>>, waiting' \subseteq waiting PROVE Rows'
  BY <1>1, OtherRows DEF LaneInv, Rows, NoLostWakeup, TypeOK
<1>2. ASSUME NEW j \in Job, Generate(j) PROVE Rows'
  <2>1. /\ job'[j].status = "queued" /\ usage' = usage /\ waiting' \subseteq waiting \cup {j}
        /\ \A k \in Job \ {j} : job'[k] = job[k]
    BY <1>2 DEF Generate, LaneInv, TypeOK
  <2>2. usage[j] = 0
    <3>1. job[j].status = "none"
      BY <1>2 DEF Generate, Is
    <3>2. usage[j] \in Nat /\ usage[j] <= 1 /\ usage[j] # 1
      BY <3>1 DEF LaneInv, TypeOK, Rows, UsageAtMostOnce
    <3> QED BY <3>2
  <2> QED BY <2>1, <2>2, OtherRows DEF LaneInv, Rows, NoLostWakeup, TypeOK
<1>3. ASSUME NEW j \in Job, CancelJob(j) PROVE Rows'
  <2>1. /\ Is(j, "queued") /\ usage' = usage /\ waiting' = waiting \ {j}
        /\ \A k \in Job : job'[k].status = IF k = j THEN "cancelled" ELSE job[k].status
    BY <1>3, WithStatusIs DEF CancelJob, Withdrawable, Woken, LaneInv
  <2> QED BY <2>1, OtherRows DEF LaneInv, Rows, NoLostWakeup, TypeOK, Is
<1>4. ASSUME NEW j \in Job, Purge(j) PROVE Rows'
  <2>1. /\ usage'[j] = 0 /\ waiting' = waiting /\ j \notin waiting
        /\ \A k \in Job \ {j} : job'[k] = job[k] /\ usage'[k] = usage[k]
    BY <1>4 DEF Purge, LaneInv, TypeOK
  <2> QED BY <2>1, OtherRows DEF LaneInv, Rows, NoLostWakeup, TypeOK
<1>5. ASSUME NEW j \in Job, WaitTimesOut(j) \/ GrowOld(j) PROVE Rows'
  BY <1>1, <1>5 DEF WaitTimesOut, GrowOld
<1>6. ASSUME NEW l \in Lane, LaneStep(l) PROVE Rows'
  BY <1>6, LaneStepRows
<1>7. CASE Triage
  <2>1. \A j \in Hopeless : j \in Job /\ Is(j, "queued")
    BY DEF Hopeless, Missing
  <2> QED BY <1>7, <2>1, FinishedRows DEF Triage, Finished, LaneInv, Is
<1>8. CASE LoopStep /\ ~Triage
  BY <1>1, <1>8
     DEF LoopStep, RefreshStart, RefreshEnds, PullStart, PullProgress, PullEnds, jobs
<1>9. ASSUME NEW m \in Model, ModelAdmin(m) PROVE Rows'
  BY <1>1, <1>9 DEF ModelAdmin, EmbedMissing, Decide, Install, DeleteStart, RemovedByHand, jobs
<1>10. CASE \E dm \in deleting, done \in BOOLEAN : DeleteEnds(dm, done)
  BY <1>1, <1>10 DEF DeleteEnds, jobs
<1>11. CASE Start
  <2>1. /\ usage' = usage /\ waiting' = waiting
        /\ \A j \in Job : job'[j].status = IF Is(j, "running") THEN "queued" ELSE job[j].status
    BY <1>11, WithStatusIs DEF Start, Recovered, LaneInv
  <2> QED BY <2>1, OtherRows DEF LaneInv, Rows, NoLostWakeup, TypeOK, Is
<1>12. CASE Kill
  BY <1>1, <1>12 DEF Kill, MemoryLost
<1>13. ASSUME NEW j \in Job, NEW s \in {"succeeded", "failed"}, KillInFinish(j, s)
       PROVE  Rows'
  <2>1. job[j].status \in {"queued", "running"}
    BY <1>13, Returning DEF KillInFinish, Is
  <2>2. /\ usage' = usage /\ waiting' = {}
        /\ \A k \in Job : job'[k].status = IF k = j THEN s ELSE job[k].status
    BY <1>13, WithStatusIs DEF KillInFinish, MemoryLost, LaneInv
  <2> QED BY <2>1, <2>2, OtherRows DEF LaneInv
<1>14. CASE UNCHANGED vars
  BY <1>1, <1>14 DEF vars, jobs
<1> QED
  BY <1>2, <1>3, <1>4, <1>5, <1>6, <1>7, <1>8, <1>9, <1>10, <1>11, <1>12, <1>13, <1>14 DEF Next

-----------------------------------------------------------------------------
(* Attempts *)

LEMMA TriesStep ==
    ASSUME LaneInv, TypeOK', TriesLeft, [Next]_vars
    PROVE  TriesLeft'
<1> DEFINE Left(j) ==
        /\ job'[j].attempts <= MaxRetries + 1 + kills'
        /\ job'[j].status = "none" => job'[j].attempts = 0
        /\ job'[j].status = "queued" \/ (job'[j].status = "running" /\ ~up')
              => job'[j].attempts <= MaxRetries + kills'
<1>1. SUFFICES ASSUME NEW j \in Job PROVE Left(j)
  BY DEF TriesLeft, Is
<1>2. /\ job[j].attempts \in Nat /\ kills \in Nat /\ MaxRetries \in Nat
      /\ job[j].attempts <= MaxRetries + 1 + kills
      /\ job[j].status = "none" => job[j].attempts = 0
      /\ job[j].status = "queued" \/ (job[j].status = "running" /\ ~up)
            => job[j].attempts <= MaxRetries + kills
  BY SchedulerAssumption DEF LaneInv, TypeOK, TriesLeft, Is
<1> HIDE DEF Left
<1>3. ASSUME kills' = kills, up' = up, job'[j] = job[j] PROVE Left(j)
  BY <1>2, <1>3 DEF Left
<1>4. ASSUME kills' = kills, up' = up, job'[j].attempts = job[j].attempts,
             job'[j].status = job[j].status \/ job'[j].status \in Terminal
      PROVE  Left(j)
  BY <1>2, <1>4 DEF Left, Terminal
<1>5. ASSUME NEW i \in Job, Generate(i) PROVE Left(j)
  <2>1. kills' = kills /\ up' = up /\ (i # j => job'[j] = job[j])
    BY <1>5 DEF Generate, process, LaneInv, TypeOK
  <2>2. CASE i = j
    <3>1. job[j].status = "none" /\ job'[j].attempts = job[j].attempts /\ job'[j].status = "queued"
      BY <1>5, <2>2 DEF Generate, Is, LaneInv, TypeOK
    <3> QED BY <1>2, <2>1, <3>1 DEF Left
  <2> QED BY <1>3, <2>1, <2>2
<1>6. ASSUME NEW i \in Job, CancelJob(i) PROVE Left(j)
  BY <1>4, <1>6, WithStatusIs DEF CancelJob, Terminal, process, LaneInv
<1>7. ASSUME NEW i \in Job, Purge(i) PROVE Left(j)
  <2>1. kills' = kills /\ up' = up /\ (i # j => job'[j] = job[j])
    BY <1>7 DEF Purge, process, LaneInv, TypeOK
  <2>2. CASE i = j
    <3>1. job'[j].attempts = 0 /\ job'[j].status = "none"
      BY <1>7, <2>2 DEF Purge, NoJob, LaneInv, TypeOK
    <3> QED BY <1>2, <2>1, <3>1 DEF Left
  <2> QED BY <1>3, <2>1, <2>2
<1>8. ASSUME NEW i \in Job, WaitTimesOut(i) \/ GrowOld(i) PROVE Left(j)
  BY <1>3, <1>8 DEF WaitTimesOut, GrowOld, process
<1>9. ASSUME NEW l \in Lane, Pick(l) PROVE Left(j)
  <2>1. kills' = kills /\ up' = up /\ up
    BY <1>9 DEF Pick, process
  <2>2. ASSUME job'[j] = WithStatus(Doomed(l), "failed")[j] PROVE Left(j)
    BY <1>4, <2>1, <2>2, WithStatusIs DEF LaneInv, Terminal
  <2>3. ASSUME NEW i \in Job, Is(i, "queued"),
               job'[i] = [status |-> "running", attempts |-> job[i].attempts + 1],
               \A k \in Job \ {i} : job'[k] = WithStatus(Doomed(l), "failed")[k]
        PROVE  Left(j)
    <3>1. CASE i = j
      <4>1. job[j].attempts <= MaxRetries + kills
        BY <1>2, <2>3, <3>1 DEF Is
      <4>2. job'[j].status = "running" /\ job'[j].attempts = job[j].attempts + 1
        BY <2>3, <3>1
      <4> QED BY <1>2, <2>1, <4>1, <4>2 DEF Left
    <3> QED BY <2>2, <2>3, <3>1
  <2> QED BY <1>9, <2>2, <2>3, Picking
<1>10. ASSUME NEW l \in Lane, GenerateSucceeds(l) \/ GenerateFails(l) PROVE Left(j)
  BY <1>4, <1>10, WithStatusIs
     DEF GenerateSucceeds, GenerateFails, Finished, Terminal, process, LaneInv
<1>11. ASSUME NEW l \in Lane, GenerateRetried(l) PROVE Left(j)
  <2>1. /\ kills' = kills /\ up' = up /\ MayRetry(lane[l].job)
        /\ job'[j].attempts = job[j].attempts
        /\ job'[j].status = IF j = lane[l].job THEN "queued" ELSE job[j].status
    BY <1>11, WithStatusIs DEF GenerateRetried, process, LaneInv
  <2>2. CASE j = lane[l].job
    <3>1. job[j].attempts <= MaxRetries
      BY <2>1, <2>2 DEF MayRetry
    <3> QED BY <1>2, <2>1, <2>2, <3>1 DEF Left
  <2> QED BY <1>4, <2>1, <2>2
<1>12. ASSUME NEW l \in Lane, BackoffEnds(l) PROVE Left(j)
  BY <1>3, <1>12 DEF BackoffEnds, jobs, process
<1>13. CASE Triage
  BY <1>4, <1>13, WithStatusIs DEF Triage, Finished, Terminal, process, LaneInv
<1>14. CASE LoopStep /\ ~Triage
  BY <1>3, <1>14
     DEF LoopStep, RefreshStart, RefreshEnds, PullStart, PullProgress, PullEnds, jobs, process
<1>15. ASSUME NEW m \in Model, ModelAdmin(m) PROVE Left(j)
  BY <1>3, <1>15
     DEF ModelAdmin, EmbedMissing, Decide, Install, DeleteStart, RemovedByHand, jobs, process
<1>16. CASE \E dm \in deleting, done \in BOOLEAN : DeleteEnds(dm, done)
  BY <1>3, <1>16 DEF DeleteEnds, jobs, process
<1>17. CASE Start
  <2>1. /\ ~up /\ up' /\ kills' = kills /\ job'[j].attempts = job[j].attempts
        /\ job'[j].status = IF Is(j, "running") THEN "queued" ELSE job[j].status
    BY <1>17, WithStatusIs DEF Start, Recovered, LaneInv
  <2> QED BY <1>2, <2>1 DEF Left, Is
<1>18. CASE Kill \/ \E i \in Job, s \in {"succeeded", "failed"} : KillInFinish(i, s)
  <2>1. kills' = kills + 1
    BY <1>18 DEF Kill, KillInFinish, MemoryLost
  <2>2. /\ job'[j].attempts = job[j].attempts
        /\ job'[j].status = job[j].status \/ job'[j].status \in Terminal
    <3>1. CASE Kill
      BY <3>1 DEF Kill
    <3>2. ASSUME NEW i \in Job, NEW s \in {"succeeded", "failed"}, KillInFinish(i, s)
          PROVE  /\ job'[j].attempts = job[j].attempts
                 /\ job'[j].status = job[j].status \/ job'[j].status \in Terminal
      BY <3>2, WithStatusIs DEF KillInFinish, Terminal, LaneInv
    <3> QED BY <1>18, <3>1, <3>2
  <2> QED BY <1>2, <2>1, <2>2 DEF Left, Terminal
<1>19. CASE UNCHANGED vars
  BY <1>3, <1>19 DEF vars, jobs, process
<1> QED
  BY <1>5, <1>6, <1>7, <1>8, <1>9, <1>10, <1>11, <1>12, <1>13, <1>14, <1>15, <1>16, <1>17,
     <1>18, <1>19 DEF Next, LaneStep

-----------------------------------------------------------------------------
(* The theorems *)

LEMMA InvInit == Init => Inv
<1> SUFFICES ASSUME Init PROVE Inv
  OBVIOUS
<1>1. TypeOK
  BY TypeInit
<1>2. \A l \in Lane : lane[l] = IdleLane
  BY DEF Init
<1>3. OwnJobs /\ DownIsIdle /\ RunningHasLane
  BY <1>2 DEF Init, OwnJobs, DownIsIdle, RunningHasLane, IdleLane
<1>4. MemoryWithinBudget
  BY <1>2, SchedulerAssumption DEF MemoryWithinBudget, Holds, IdleLane, Lane
<1>5. UsageAtMostOnce /\ NoLostWakeup
  BY DEF Init, UsageAtMostOnce, NoLostWakeup
<1>6. kills = 0 /\ MaxRetries \in Nat
  BY SchedulerAssumption DEF Init
<1>7. ASSUME NEW j \in Job
      PROVE  /\ job[j].attempts = 0
             /\ job[j].attempts <= MaxRetries + 1 + kills
             /\ job[j].attempts <= MaxRetries + kills
  <2>1. job[j].attempts = 0
    BY DEF Init, NoJob
  <2> QED BY <1>6, <2>1
<1>8. TriesLeft
  BY <1>7 DEF TriesLeft
<1> QED BY <1>1, <1>3, <1>4, <1>5, <1>8 DEF Inv, LaneInv

(* Inv holds of every reachable state: it is inductive. *)
THEOREM Inductive == Spec => []Inv
<1>1. Inv /\ [Next]_vars => Inv'
  <2> SUFFICES ASSUME Inv, [Next]_vars PROVE Inv'
    OBVIOUS
  <2>1. LaneInv'
    BY LaneInvStep DEF Inv
  <2>2. MemoryWithinBudget'
    BY <2>1, BudgetStep DEF Inv
  <2>3. Rows'
    BY RowsStep DEF Inv, Rows
  <2>4. TriesLeft'
    BY <2>1, TriesStep DEF Inv, LaneInv
  <2> QED BY <2>1, <2>2, <2>3, <2>4 DEF Inv, Rows
<1> QED BY <1>1, InvInit, PTL DEF Spec

(* The job store, the requests and the lanes keep their types, and the     *)
(* counters their bounds, through every retry, cancel and restart.         *)
THEOREM StoreTyped == Spec => []TypeOK
<1>1. Inv => TypeOK
  BY DEF Inv, LaneInv
<1> QED BY <1>1, Inductive, PTL

(* The two lanes never hold more memory than the budget (_pick,            *)
(* _used_memory_gb).                                                       *)
THEOREM BudgetKept == Spec => []MemoryWithinBudget
<1>1. Inv => MemoryWithinBudget
  BY DEF Inv
<1> QED BY <1>1, Inductive, PTL

(* While the process is up, the running jobs are those a lane works on     *)
(* (claim, _run, recover_running).                                         *)
THEOREM EveryRunHasLane == Spec => []RunningHasLane
<1>1. Inv => RunningHasLane
  BY DEF Inv, LaneInv
<1> QED BY <1>1, Inductive, PTL

(* The usage of a job is recorded at most once (record_usage).             *)
THEOREM UsageOnce == Spec => []UsageAtMostOnce
<1>1. Inv => UsageAtMostOnce
  BY DEF Inv
<1> QED BY <1>1, Inductive, PTL

(* No request waits for a settled job (wait_for, _notify).                 *)
THEOREM WaitersWoken == Spec => []NoLostWakeup
<1>1. Inv => NoLostWakeup
  BY DEF Inv
<1> QED BY <1>1, Inductive, PTL

(* Tries are bounded by the retries and the restarts (claim,               *)
(* _handle_failure).                                                       *)
THEOREM TriesBounded == Spec => []AttemptsBounded
<1>1. Inv => AttemptsBounded
  BY DEF Inv, TriesLeft, AttemptsBounded
<1> QED BY <1>1, Inductive, PTL

-----------------------------------------------------------------------------
(* The promise to the owner of a job *)

LEMMA SeenIs ==
    ASSUME TypeOK, NEW j \in Job
    PROVE  /\ (Seen(j) = "absent") <=> Is(j, "none")
           /\ (Seen(j) = "waiting") <=> Is(j, "queued")
           /\ (Seen(j) = "working") <=> Is(j, "running")
           /\ \A s \in Terminal : (Seen(j) = s) <=> Is(j, s)
           /\ Seen(j) \in {"absent", "waiting", "working"} \cup Terminal
BY DEF TypeOK, JobStatus, Terminal, Seen, Is

LEMMA SeenIsNext ==
    ASSUME TypeOK', NEW j \in Job
    PROVE  /\ (Seen(j)' = "absent") <=> job'[j].status = "none"
           /\ (Seen(j)' = "waiting") <=> job'[j].status = "queued"
           /\ (Seen(j)' = "working") <=> job'[j].status = "running"
           /\ \A s \in Terminal : (Seen(j)' = s) <=> job'[j].status = s
           /\ Seen(j)' \in {"absent", "waiting", "working"} \cup Terminal
BY DEF TypeOK, JobStatus, Terminal, Seen, Is

(* The only ways in which the work on a job shows.                         *)
Worked(j) ==
    \/ job'[j].status = job[j].status
    \/ Is(j, "running") /\ job'[j].status \in {"queued", "succeeded", "failed"}
    \/ Is(j, "queued") /\ job'[j].status \in {"running", "failed"}

LEMMA WorkShows ==
    ASSUME TypeOK, TypeOK', \A j \in Job : Worked(j)
    PROVE  Promise!Work
<1>1. \A j \in Job : Seen(j)' \in {"absent", "waiting", "working"} \cup Promise!Settled
  BY SeenIsNext DEF Promise!Settled, Terminal
<1>2. ASSUME NEW j \in Job
      PROVE  \/ Seen(j)' = Seen(j)
             \/ Seen(j) = "working" /\ Seen(j)' \in {"waiting", "succeeded", "failed"}
             \/ Seen(j) = "waiting" /\ Seen(j)' \in {"working", "failed"}
  <2>1. CASE job'[j].status = job[j].status
    BY <2>1 DEF Seen, Is
  <2>2. CASE Is(j, "running") /\ job'[j].status \in {"queued", "succeeded", "failed"}
    BY <2>2, SeenIs, SeenIsNext DEF Terminal
  <2>3. CASE Is(j, "queued") /\ job'[j].status \in {"running", "failed"}
    BY <2>3, SeenIs, SeenIsNext DEF Terminal
  <2> QED BY <2>1, <2>2, <2>3 DEF Worked
<1> QED BY <1>1, <1>2 DEF Promise!Work

LEMMA LaneStepWorks ==
    ASSUME LaneInv, NEW l \in Lane, LaneStep(l), NEW j \in Job
    PROVE  Worked(j)
<1>1. CASE Pick(l)
  <2>1. ASSUME job'[j] = WithStatus(Doomed(l), "failed")[j] PROVE Worked(j)
    BY <1>1, <2>1, Picking, WithStatusIs DEF Worked, LaneInv, Is
  <2>2. ASSUME NEW i \in Job, Is(i, "queued"),
               job'[i] = [status |-> "running", attempts |-> job[i].attempts + 1],
               \A k \in Job \ {i} : job'[k] = WithStatus(Doomed(l), "failed")[k]
        PROVE  Worked(j)
    <3>1. CASE i = j BY <2>2, <3>1 DEF Worked
    <3>2. CASE i # j BY <2>1, <2>2, <3>2
    <3> QED BY <3>1, <3>2
  <2> QED BY <1>1, <2>1, <2>2, Picking
<1>2. CASE GenerateSucceeds(l) \/ GenerateFails(l) \/ GenerateRetried(l)
  <2>1. /\ lane[l].pc = "generate"
        /\ \E s \in {"succeeded", "failed", "queued"} : job' = WithStatus({lane[l].job}, s)
    BY <1>2 DEF GenerateSucceeds, GenerateFails, GenerateRetried, Finished
  <2>2. Is(lane[l].job, "running")
    BY <2>1, Returning
  <2> QED BY <2>1, <2>2, WithStatusIs DEF Worked, LaneInv
<1>3. CASE BackoffEnds(l)
  BY <1>3 DEF BackoffEnds, jobs, Worked
<1> QED BY <1>1, <1>2, <1>3 DEF LaneStep

LEMMA PromiseStep ==
    ASSUME LaneInv, TypeOK', [Next]_vars
    PROVE  [Promise!Next]_([j \in Job |-> Seen(j)])
<1>0. TypeOK
  BY DEF LaneInv
<1>1. ASSUME \A j \in Job : Worked(j) PROVE Promise!Next
  BY <1>0, <1>1, WorkShows DEF Promise!Next
<1>2. ASSUME UNCHANGED job PROVE Promise!Next
  BY <1>1, <1>2 DEF Worked
<1>3. ASSUME NEW j \in Job, Generate(j) PROVE Promise!Next
  <2>1. /\ Is(j, "none") /\ job'[j].status = "queued"
        /\ \A k \in Job \ {j} : job'[k] = job[k]
    BY <1>0, <1>3 DEF Generate, TypeOK
  <2>2. /\ Seen(j) = "absent" /\ Seen(j)' = "waiting"
        /\ \A k \in Job \ {j} : Seen(k)' = Seen(k)
    BY <1>0, <2>1, SeenIs, SeenIsNext DEF Seen, Is
  <2>3. Promise!Queue(j)
    BY <2>2 DEF Promise!Queue
  <2> QED BY <2>3 DEF Promise!Next
<1>4. ASSUME NEW j \in Job, CancelJob(j) PROVE Promise!Next
  <2>1. /\ Is(j, "queued")
        /\ \A k \in Job : job'[k].status = IF k = j THEN "cancelled" ELSE job[k].status
    BY <1>0, <1>4, WithStatusIs DEF CancelJob, Withdrawable
  <2>2. /\ Seen(j) = "waiting" /\ Seen(j)' = "cancelled"
        /\ \A k \in Job \ {j} : Seen(k)' = Seen(k)
    BY <1>0, <2>1, SeenIs, SeenIsNext DEF Seen, Is, Terminal
  <2>3. Promise!Withdraw(j)
    BY <2>2 DEF Promise!Withdraw
  <2> QED BY <2>3 DEF Promise!Next
<1>5. ASSUME NEW j \in Job, Purge(j) PROVE Promise!Next
  <2>1. /\ job[j].status \in Terminal /\ job'[j].status = "none"
        /\ \A k \in Job \ {j} : job'[k] = job[k]
    BY <1>0, <1>5 DEF Purge, NoJob, TypeOK
  <2>2. /\ Seen(j) \in Promise!Settled /\ Seen(j)' = "absent"
        /\ \A k \in Job \ {j} : Seen(k)' = Seen(k)
    BY <1>0, <2>1, SeenIs, SeenIsNext DEF Seen, Is, Terminal, Promise!Settled
  <2>3. Promise!Purge(j)
    BY <2>2 DEF Promise!Purge
  <2> QED BY <2>3 DEF Promise!Next
<1>6. ASSUME NEW j \in Job, WaitTimesOut(j) \/ GrowOld(j) PROVE Promise!Next
  BY <1>2, <1>6 DEF WaitTimesOut, GrowOld
<1>7. ASSUME NEW l \in Lane, LaneStep(l) PROVE Promise!Next
  BY <1>1, <1>7, LaneStepWorks
<1>8. CASE Triage
  <2>1. \A j \in Hopeless : Is(j, "queued")
    BY DEF Hopeless, Missing
  <2> QED BY <1>0, <1>1, <1>8, <2>1, WithStatusIs DEF Triage, Finished, Worked
<1>9. CASE LoopStep /\ ~Triage
  BY <1>2, <1>9 DEF LoopStep, RefreshStart, RefreshEnds, PullStart, PullProgress, PullEnds, jobs
<1>10. ASSUME NEW m \in Model, ModelAdmin(m) PROVE Promise!Next
  BY <1>2, <1>10 DEF ModelAdmin, EmbedMissing, Decide, Install, DeleteStart, RemovedByHand, jobs
<1>11. CASE Kill \/ \E dm \in deleting, done \in BOOLEAN : DeleteEnds(dm, done)
  BY <1>2, <1>11 DEF Kill, DeleteEnds, jobs
<1>12. CASE Start
  BY <1>0, <1>1, <1>12, WithStatusIs DEF Start, Recovered, Worked, Is
<1>13. ASSUME NEW j \in Job, NEW s \in {"succeeded", "failed"}, KillInFinish(j, s)
       PROVE  Promise!Next
  <2>1. Is(j, "running") \/ (Is(j, "queued") /\ s = "failed")
    BY <1>13, Returning DEF KillInFinish
  <2> QED BY <1>0, <1>1, <1>13, <2>1, WithStatusIs DEF KillInFinish, Worked
<1>14. CASE UNCHANGED vars
  BY <1>2, <1>14 DEF vars, jobs
<1> QED
  BY <1>3, <1>4, <1>5, <1>6, <1>7, <1>8, <1>9, <1>10, <1>11, <1>12, <1>13, <1>14 DEF Next

(* The scheduler implements JobPromise: whatever the lanes, cancels,       *)
(* restarts and the model loop do to a job is one of the promised moves.   *)
THEOREM PromiseImplemented == Spec => PromiseKept
<1>1. Init => Promise!Init
  <2> SUFFICES ASSUME Init PROVE Promise!Init
    OBVIOUS
  <2>1. \A j \in Job : Seen(j) = "absent"
    BY DEF Init, NoJob, Seen, Is
  <2> QED BY <2>1 DEF Promise!Init
<1>2. Inv /\ Inv' /\ [Next]_vars => [Promise!Next]_([j \in Job |-> Seen(j)])
  BY PromiseStep DEF Inv, LaneInv
<1> QED BY <1>1, <1>2, Inductive, PTL DEF Spec, PromiseKept, Promise!Spec

-----------------------------------------------------------------------------
(* A refused or failed model is not asked for again by the jobs that want  *)
(* it (ensure_model_request): only a decision, an install or a deletion    *)
(* moves its request.                                                      *)
THEOREM RefusalKept == Spec => RefusalStands
<1>1. ASSUME Inv, [Next]_vars, NEW m \in Model, req[m] \in {"rejected", "failed"}
      PROVE  req'[m] # "pending"
  <2>0. req \in [Model -> RequestStatus]
    BY <1>1 DEF Inv, LaneInv, TypeOK
  <2>1. ASSUME req' = req PROVE req'[m] # "pending"
    BY <1>1, <2>1
  <2>2. ASSUME NEW S, req' = Asked(S) PROVE req'[m] # "pending"
    BY <1>1, <2>2 DEF Asked
  <2>3. ASSUME NEW x, NEW s, s # "pending", req' = [req EXCEPT ![x] = s]
        PROVE  req'[m] # "pending"
    BY <1>1, <2>0, <2>3
  <2>4. ASSUME NEW j \in Job,
               \/ Generate(j) \/ WaitTimesOut(j) \/ CancelJob(j) \/ Purge(j) \/ GrowOld(j)
        PROVE  req'[m] # "pending"
    BY <2>1, <2>4 DEF Generate, WaitTimesOut, CancelJob, Purge, GrowOld, models
  <2>5. ASSUME NEW l \in Lane, LaneStep(l) PROVE req'[m] # "pending"
    BY <2>1, <2>5
       DEF LaneStep, Pick, GenerateSucceeds, GenerateFails, GenerateRetried, BackoffEnds, models
  <2>6. CASE LoopStep
    <3>1. CASE Triage
      BY <2>2, <3>1 DEF Triage
    <3>2. CASE RefreshStart \/ RefreshEnds
      BY <2>1, <3>2 DEF RefreshStart, RefreshEnds
    <3>3. ASSUME NEW n \in Model, PullStart(n) PROVE req'[m] # "pending"
      BY <2>3, <3>3 DEF PullStart
    <3>4. CASE PullProgress
      BY <2>3, <3>4 DEF PullProgress
    <3>5. ASSUME NEW outcome \in {"ready", "failed"}, PullEnds(outcome)
          PROVE  req'[m] # "pending"
      BY <2>3, <3>5 DEF PullEnds
    <3> QED BY <2>6, <3>1, <3>2, <3>3, <3>4, <3>5 DEF LoopStep
  <2>7. ASSUME NEW n \in Model, ModelAdmin(n) PROVE req'[m] # "pending"
    <3>1. CASE EmbedMissing(n)
      BY <2>2, <3>1 DEF EmbedMissing
    <3>2. ASSUME NEW d \in {"approved", "rejected"}, Decide(n, d) PROVE req'[m] # "pending"
      BY <2>3, <3>2 DEF Decide
    <3>3. CASE Install(n)
      BY <2>3, <3>3 DEF Install
    <3>4. CASE DeleteStart(n) \/ RemovedByHand(n)
      BY <2>1, <3>4 DEF DeleteStart, RemovedByHand
    <3> QED BY <2>7, <3>1, <3>2, <3>3, <3>4 DEF ModelAdmin
  <2>8. ASSUME NEW dm \in deleting, NEW done \in BOOLEAN, DeleteEnds(dm, done)
        PROVE  req'[m] # "pending"
    BY <2>1, <2>3, <2>8 DEF DeleteEnds
  <2>9. CASE \/ Start \/ Kill \/ UNCHANGED vars
             \/ \E j \in Job, s \in {"succeeded", "failed"} : KillInFinish(j, s)
    BY <2>1, <2>9 DEF Start, Kill, KillInFinish, MemoryLost, vars, models
  <2> QED BY <1>1, <2>4, <2>5, <2>6, <2>7, <2>8, <2>9 DEF Next
<1>2. Inv /\ [Next]_vars
         => (\A m \in Model : req[m] \in {"rejected", "failed"} => req'[m] # "pending")
  BY <1>1
<1>3. Inv /\ [Next]_vars
         => [\A m \in Model : req[m] \in {"rejected", "failed"} => req'[m] # "pending"]_vars
  BY <1>2
<1> QED BY <1>3, Inductive, PTL DEF Spec, RefusalStands
=============================================================================
