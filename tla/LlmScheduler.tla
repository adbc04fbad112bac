---------------------------- MODULE LlmScheduler ----------------------------
(***************************************************************************)
(* The scheduler of the LLM gateway: scheduler.py (two lanes, the memory   *)
(* budget, retries, the models loop), the tables of store.py it works on,  *)
(* and the handlers of main.py that create, cancel and wait for jobs and   *)
(* decide on models.                                                       *)
(*                                                                         *)
(* All of it runs on one event loop, so what happens between two awaits is *)
(* one action.  The awaits are the generation, the pause before a retry,   *)
(* the list of models, the pull of a model and its deletion.               *)
(*                                                                         *)
(* A job id stands for one kind of request (its lane, model and priority   *)
(* are copied into the row when it is queued) and is used again once the   *)
(* old row is purged.                                                      *)
(***************************************************************************)
EXTENDS Integers

CONSTANTS
    Job,            \* job rows
    Model,          \* names of models
    None,           \* null
    LaneOf, ModelOf, PriorityOf,    \* what a job is queued with
    Awaited,        \* jobs whose request waits for the outcome
    Size,           \* model -> memory it takes (roles.model_size_gb)
    Budget,         \* roles.mem_budget_gb
    MaxRetries,     \* retries after the first try
    AutoInstall,    \* whether the models loop runs
    Present,        \* models the backend has at first
    Embeds,         \* models that at some time an embedding role names
    Unused,         \* models that at some time no role names
    MaxKills,       \* bound: stops and kills of the process
    MaxRemovals     \* bound: models removed from the machine by hand

Lane == {"interactive", "batch"}

ASSUME SchedulerAssumption ==
    /\ LaneOf \in [Job -> Lane]
    /\ ModelOf \in [Job -> Model]
    /\ PriorityOf \in [Job -> Int]
    /\ Size \in [Model -> Nat]
    /\ Budget \in Nat
    /\ MaxRetries \in Nat
    /\ Present \subseteq Model
    /\ Awaited \subseteq Job
    /\ Embeds \subseteq Model
    /\ Unused \subseteq Model
    /\ MaxKills \in Nat
    /\ MaxRemovals \in Nat
    /\ AutoInstall \in BOOLEAN
    /\ None \notin Job \cup Model

VARIABLES
    job,        \* jobs table: status and attempts
    earlier,    \* <<j, k>>: the row of j was created before that of k
    old,        \* jobs that waited starvation_seconds
    usage,      \* rows of the usage table, by job
    req,        \* model_requests table: status by model
    lane,       \* _running, with what the lane awaits
    lastModel,  \* _last_model
    available,  \* _available, with whether it is known
    waiting,    \* jobs whose event a request awaits
    loop,       \* _models_loop
    deleting,   \* the models admin_delete_model awaits the deletion of
    up,         \* the lanes are open
    kills,
    removals,
    installed   \* models the backend has

jobs == <<job, earlier, old, usage, waiting>>
lanes == <<lane, lastModel>>
models == <<req, available, loop, deleting, installed, removals>>
process == <<up, kills>>
vars == <<jobs, lanes, models, process>>

JobStatus == {"none", "queued", "running", "succeeded", "failed", "cancelled"}
Terminal == {"succeeded", "failed", "cancelled"}
RequestStatus ==
    {"none", "pending", "approved", "pulling", "ready", "rejected", "failed"}

NoJob == [status |-> "none", attempts |-> 0]
IdleLane == [pc |-> "idle", job |-> None]
IdleLoop == [pc |-> "idle", list |-> {}, model |-> None]
Unknown == [known |-> FALSE, models |-> {}]

TypeOK ==
    /\ job \in [Job -> [status: JobStatus, attempts: Nat]]
    /\ earlier \subseteq Job \X Job
    /\ old \subseteq Job
    /\ usage \in [Job -> Nat]
    /\ req \in [Model -> RequestStatus]
    /\ lane \in [Lane -> {IdleLane} \cup [pc: {"generate", "backoff"}, job: Job]]
    /\ lastModel \in Model \cup {None}
    /\ available \in [known: BOOLEAN, models: SUBSET Model]
    /\ waiting \subseteq Job
    /\ loop \in [pc: {"idle", "tags", "triage"}, list: SUBSET Model, model: {None}]
                  \cup [pc: {"pull"}, list: {{}}, model: Model]
    /\ deleting \subseteq Model
    /\ up \in BOOLEAN
    /\ kills \in 0 .. MaxKills
    /\ removals \in 0 .. MaxRemovals
    /\ installed \subseteq Model

Init ==
    /\ job = [j \in Job |-> NoJob]
    /\ earlier = {}
    /\ old = {}
    /\ usage = [j \in Job |-> 0]
    /\ req = [m \in Model |-> "none"]
    /\ lane = [l \in Lane |-> IdleLane]
    /\ lastModel = None
    /\ available = Unknown
    /\ waiting = {}
    /\ loop = IdleLoop
    /\ deleting = {}
    /\ up = FALSE
    /\ kills = 0
    /\ removals = 0
    /\ installed = Present

-----------------------------------------------------------------------------
(* The jobs table *)

Is(j, status) == job[j].status = status

(* Fault: any job can be cancelled. *)
KnownJob(j) == ~Is(j, "none")

(* cancel and fail_if_queued: WHERE status = 'queued'. *)
Withdrawable(j) == Is(j, "queued")

WithStatus(S, status) ==
    [j \in Job |-> IF j \in S THEN [job[j] EXCEPT !.status = status] ELSE job[j]]

UsageRecorded(S) == [j \in Job |-> IF j \in S THEN usage[j] + 1 ELSE usage[j]]

(* Fault: nobody is woken. *)
NobodyWoken(S) == waiting

(* _notify: the event of the job is set and forgotten. *)
Woken(S) == waiting \ S

(* finish or fail_if_queued, then record_usage and _notify. *)
Finished(S, status) ==
    /\ job' = WithStatus(S, status)
    /\ usage' = UsageRecorded(S)
    /\ waiting' = Woken(S)

(* generate: the job is queued and its event awaited in the same step. *)
Generate(j) ==
    /\ up
    /\ Is(j, "none")
    /\ job' = [job EXCEPT ![j].status = "queued"]
    /\ earlier' = earlier \cup {<<k, j>> : k \in {i \in Job : ~Is(i, "none")}}
    /\ waiting' = waiting \cup ({j} \cap Awaited)
    /\ UNCHANGED <<old, usage, lanes, models, process>>

(* wait_for ends by its time limit; the service polls the job from then on. *)
WaitTimesOut(j) ==
    /\ j \in waiting
    /\ waiting' = waiting \ {j}
    /\ UNCHANGED <<job, earlier, old, usage, lanes, models, process>>

CancelJob(j) ==
    /\ up
    /\ Withdrawable(j)
    /\ job' = WithStatus({j}, "cancelled")
    /\ waiting' = Woken({j})
    /\ UNCHANGED <<earlier, old, usage, lanes, models, process>>

(* purge_old: the rows of jobs settled long ago. *)
Purge(j) ==
    /\ up
    /\ job[j].status \in Terminal
    /\ j \notin waiting
    /\ job' = [job EXCEPT ![j] = NoJob]
    /\ usage' = [usage EXCEPT ![j] = 0]
    /\ earlier' = {e \in earlier : j \notin {e[1], e[2]}}
    /\ old' = old \ {j}
    /\ UNCHANGED <<waiting, lanes, models, process>>

(* Time passes: the oldest rows reach starvation_seconds first. *)
GrowOld(j) ==
    /\ Is(j, "queued")
    /\ \A k \in Job : <<k, j>> \in earlier /\ Is(k, "queued") => k \in old
    /\ old' = old \cup {j}
    /\ j \notin old
    /\ UNCHANGED <<job, earlier, usage, waiting, lanes, models, process>>

-----------------------------------------------------------------------------
(* The choice of the next job: _pick *)

ModelReady(m) == ~available.known \/ m \in available.models

Other(l) == IF l = "interactive" THEN "batch" ELSE "interactive"

(* _running counts for a lane until _run returns, pauses included. *)
Holds(l) == IF lane[l].job = None THEN 0 ELSE Size[ModelOf[lane[l].job]]

(* Fault: the memory of the other lane is not counted. *)
NothingElsewhere(l) == 0

(* _used_memory_gb(exclude_lane) *)
UsedElsewhere(l) == Holds(Other(l))

Queued(l) == {j \in Job : Is(j, "queued") /\ LaneOf[j] = l}

Oversize(j) == Size[ModelOf[j]] > Budget

Affordable(l) ==
    {j \in Queued(l) : ~Oversize(j) /\ ModelReady(ModelOf[j])
                         /\ Size[ModelOf[j]] <= Budget - UsedElsewhere(l)}

(* ORDER BY priority DESC, created_at ASC. *)
First(S) ==
    {j \in S : \A k \in S \ {j} :
        \/ PriorityOf[j] > PriorityOf[k]
        \/ PriorityOf[j] = PriorityOf[k] /\ <<j, k>> \in earlier}

Loaded(S) == {j \in S : ModelOf[j] = lastModel}

(* Fault: the loaded model always comes first. *)
LoadedFirst(S) == IF Loaded(S) # {} THEN Loaded(S) ELSE S

(* A job that waited too long, else one of the loaded model, else any. *)
Preferred(S) ==
    IF S \cap old # {} THEN S \cap old
    ELSE IF Loaded(S) # {} THEN Loaded(S) ELSE S

Doomed(l) == {j \in Queued(l) : Oversize(j)}
Choice(l) == First(Preferred(Affordable(l)))

(* _pick: jobs that can never run fail; the choice is claimed and _run     *)
(* begins, all without an await.                                           *)
Pick(l) ==
    /\ up
    /\ lane[l].pc = "idle"
    /\ Doomed(l) \cup Choice(l) # {}
    /\ usage' = UsageRecorded(Doomed(l))
    /\ waiting' = Woken(Doomed(l))
    /\ \/ /\ Choice(l) = {}
          /\ job' = WithStatus(Doomed(l), "failed")
          /\ UNCHANGED lanes
       \/ \E j \in Choice(l) :
          /\ job' = [WithStatus(Doomed(l), "failed") EXCEPT
                        ![j] = [status |-> "running", attempts |-> job[j].attempts + 1]]
          /\ lane' = [lane EXCEPT ![l] = [pc |-> "generate", job |-> j]]
          /\ lastModel' = ModelOf[j]
    /\ UNCHANGED <<earlier, old, models, process>>

-----------------------------------------------------------------------------
(* _run and _handle_failure *)

(* Fault: _running keeps the job. *)
LaneKept(l) == [lane EXCEPT ![l].pc = "idle"]

(* _run returns: whatever happened, _running forgets the lane. *)
LaneLeft(l) == [lane EXCEPT ![l] = IdleLane]

(* What the backend can run is its own: any call may end in any way. *)
GenerateSucceeds(l) ==
    /\ lane[l].pc = "generate"
    /\ Finished({lane[l].job}, "succeeded")
    /\ lane' = LaneLeft(l)
    /\ UNCHANGED <<earlier, old, lastModel, models, process>>

(* Fault: attempts are not counted. *)
AlwaysRetry(j) == TRUE

(* attempts counts the first try too. *)
MayRetry(j) == job[j].attempts <= MaxRetries

(* The backend may be back later: the job goes back to the queue and the   *)
(* lane pauses.                                                            *)
GenerateRetried(l) ==
    /\ lane[l].pc = "generate"
    /\ MayRetry(lane[l].job)
    /\ job' = WithStatus({lane[l].job}, "queued")
    /\ lane' = [lane EXCEPT ![l].pc = "backoff"]
    /\ UNCHANGED <<earlier, old, usage, waiting, lastModel, models, process>>

(* The backend refused, or the tries are used up. *)
GenerateFails(l) ==
    /\ lane[l].pc = "generate"
    /\ Finished({lane[l].job}, "failed")
    /\ lane' = LaneLeft(l)
    /\ UNCHANGED <<earlier, old, lastModel, models, process>>

BackoffEnds(l) ==
    /\ lane[l].pc = "backoff"
    /\ lane' = LaneLeft(l)
    /\ UNCHANGED <<jobs, lastModel, models, process>>

-----------------------------------------------------------------------------
(* Requests for models *)

(* Fault: any request that is not under way is asked again. *)
AskedAgain(S) ==
    [m \in Model |-> IF m \in S /\ req[m] \notin {"approved", "pulling"} THEN "pending"
                     ELSE req[m]]

(* ensure_model_request: a refusal or a failure is not asked again. *)
Asked(S) ==
    [m \in Model |-> IF m \in S /\ req[m] \in {"none", "ready"} THEN "pending" ELSE req[m]]

(* embed: a request for a missing model fails and asks for the model. *)
EmbedMissing(m) ==
    /\ up
    /\ m \in Embeds
    /\ ~ModelReady(m)
    /\ req' = Asked({m})
    /\ UNCHANGED <<jobs, lanes, available, loop, deleting, installed, removals, process>>

UnderWay(m) == req[m] \in {"approved", "pulling"}

(* decide_model_request. *)
Decide(m, decision) ==
    /\ up
    /\ req[m] # "none" /\ ~UnderWay(m)
    /\ decision = "approved" => req[m] # "ready"
    /\ req' = [req EXCEPT ![m] = decision]
    /\ UNCHANGED <<jobs, lanes, available, loop, deleting, installed, removals, process>>

(* admin_install_model. *)
Install(m) ==
    /\ up
    /\ Size[m] <= Budget
    /\ ~ModelReady(m)
    /\ ~UnderWay(m)
    /\ req' = [req EXCEPT ![m] = "approved"]
    /\ UNCHANGED <<jobs, lanes, available, loop, deleting, installed, removals, process>>

(* admin_delete_model: the blockers are looked at before the await.  One   *)
(* deletion of a model at a time (bound); a second one does no more.       *)
DeleteStart(m) ==
    /\ up
    /\ m \in Unused \ deleting
    /\ ~UnderWay(m)
    /\ \A j \in Job : ModelOf[j] = m => ~Is(j, "queued")
    /\ \A l \in Lane : lane[l].job # None => ModelOf[lane[l].job] # m
    /\ deleting' = deleting \cup {m}
    /\ UNCHANGED <<jobs, lanes, req, available, loop, installed, removals, process>>

DeleteEnds(m, done) ==
    /\ deleting' = deleting \ {m}
    /\ \/ /\ done
          /\ installed' = installed \ {m}
          /\ req' = [req EXCEPT ![m] = "none"]
          /\ available' = [available EXCEPT !.models = @ \ {m}]
       \/ /\ ~done
          /\ UNCHANGED <<installed, req, available>>
    /\ UNCHANGED <<jobs, lanes, loop, removals, process>>

-----------------------------------------------------------------------------
(* _models_loop *)

(* _refresh_models asks the backend for its list. *)
RefreshStart ==
    /\ up /\ AutoInstall
    /\ loop.pc = "idle"
    /\ loop' = [IdleLoop EXCEPT !.pc = "tags", !.list = installed]
    /\ UNCHANGED <<jobs, lanes, req, available, deleting, installed, removals, process>>

(* The list, as it was, or no answer. *)
RefreshEnds ==
    /\ loop.pc = "tags"
    /\ \/ /\ available' = [known |-> TRUE, models |-> loop.list]
          /\ loop' = [IdleLoop EXCEPT !.pc = "triage"]
       \/ /\ available' = Unknown
          /\ loop' = IdleLoop
    /\ UNCHANGED <<jobs, lanes, req, deleting, installed, removals, process>>

(* Queued jobs of a model that is not there; those of a refused or failed  *)
(* one (DEAD_STATUSES) will never run.                                     *)
Missing ==
    {j \in Job : Is(j, "queued") /\ ~Oversize(j) /\ ~ModelReady(ModelOf[j])}
Hopeless == {j \in Missing : req[ModelOf[j]] \in {"rejected", "failed"}}

(* _triage_missing: queued jobs of a missing model fail if the model was   *)
(* refused or failed, and ask for it otherwise.                            *)
Triage ==
    /\ loop.pc = "triage"
    /\ Finished(Hopeless, "failed")
    /\ req' = Asked({ModelOf[j] : j \in Missing})
    /\ loop' = IdleLoop
    /\ UNCHANGED <<earlier, old, lanes, available, deleting, installed, removals, process>>

(* _pull_next: claim_approved_model, then the pull.                        *)
PullStart(m) ==
    /\ up /\ AutoInstall
    /\ loop.pc = "idle"
    /\ req[m] = "approved"
    /\ req' = [req EXCEPT ![m] = "pulling"]
    /\ loop' = [IdleLoop EXCEPT !.pc = "pull", !.model = m]
    /\ UNCHANGED <<jobs, lanes, available, deleting, installed, removals, process>>

(* on_progress: the row, if it is still there, says pulling again. *)
PullProgress ==
    /\ loop.pc = "pull"
    /\ req[loop.model] # "none"
    /\ req' = [req EXCEPT ![loop.model] = "pulling"]
    /\ UNCHANGED <<jobs, lanes, available, loop, deleting, installed, removals, process>>

(* The row may have been deleted meanwhile: then nothing is updated. *)
PullEnds(outcome) ==
    /\ loop.pc = "pull"
    /\ req' = [req EXCEPT ![loop.model] = IF @ = "none" THEN @ ELSE outcome]
    /\ installed' = IF outcome = "ready" THEN installed \cup {loop.model} ELSE installed
    /\ loop' = IdleLoop
    /\ UNCHANGED <<jobs, lanes, available, deleting, removals, process>>

-----------------------------------------------------------------------------
(* Start and end of the process *)

(* Fault: what ran is left as it is. *)
NothingRecovered == job

(* recover_running: jobs that ran when the process ended are queued again. *)
Recovered == WithStatus({j \in Job : Is(j, "running")}, "queued")

(* Scheduler.start; with AutoInstall the list is read before the lanes open. *)
Start ==
    /\ ~up
    /\ up' = TRUE
    /\ job' = Recovered
    /\ \/ available' = Unknown
       \/ AutoInstall /\ available' = [known |-> TRUE, models |-> installed]
    /\ UNCHANGED <<earlier, old, usage, waiting, lanes, req, loop, deleting, installed, removals,
                   kills>>

MemoryLost ==
    /\ kills < MaxKills
    /\ kills' = kills + 1
    /\ up' = FALSE
    /\ lane' = [l \in Lane |-> IdleLane]
    /\ lastModel' = None
    /\ available' = Unknown
    /\ waiting' = {}
    /\ loop' = IdleLoop
    /\ deleting' = {}
    /\ UNCHANGED <<earlier, old, usage, req, installed, removals>>

(* The process is stopped or killed; no table is written on the way out. *)
Kill ==
    /\ up
    /\ MemoryLost
    /\ UNCHANGED job

(* It is killed after finish or fail_if_queued has committed and before    *)
(* record_usage.                                                           *)
KillInFinish(j, status) ==
    /\ \/ \E l \in Lane : lane[l] = [pc |-> "generate", job |-> j]
       \/ /\ up /\ status = "failed"
          /\ Is(j, "queued")
          /\ Oversize(j) \/ (loop.pc = "triage" /\ j \in Hopeless)
    /\ MemoryLost
    /\ job' = WithStatus({j}, status)

(* Someone removes a model from the backend's machine by hand. *)
RemovedByHand(m) ==
    /\ removals < MaxRemovals
    /\ m \in installed
    /\ installed' = installed \ {m}
    /\ removals' = removals + 1
    /\ UNCHANGED <<jobs, lanes, req, available, loop, deleting, process>>

-----------------------------------------------------------------------------
LaneStep(l) ==
    \/ Pick(l)
    \/ GenerateSucceeds(l)
    \/ GenerateRetried(l)
    \/ GenerateFails(l)
    \/ BackoffEnds(l)

LoopStep ==
    \/ RefreshStart
    \/ RefreshEnds
    \/ Triage
    \/ \E m \in Model : PullStart(m)
    \/ PullProgress
    \/ \E outcome \in {"ready", "failed"} : PullEnds(outcome)

ModelAdmin(m) ==
    \/ EmbedMissing(m)
    \/ \E decision \in {"approved", "rejected"} : Decide(m, decision)
    \/ Install(m)
    \/ DeleteStart(m)
    \/ RemovedByHand(m)

Next ==
    \/ \E j \in Job :
          \/ Generate(j) \/ WaitTimesOut(j) \/ CancelJob(j) \/ Purge(j) \/ GrowOld(j)
    \/ \E l \in Lane : LaneStep(l)
    \/ LoopStep
    \/ \E m \in Model : ModelAdmin(m)
    \/ \E m \in deleting, done \in BOOLEAN : DeleteEnds(m, done)
    \/ Start
    \/ Kill
    \/ \E j \in Job, status \in {"succeeded", "failed"} : KillInFinish(j, status)

Spec == Init /\ [][Next]_vars

(* The lanes and the models loop go on, calls to the backend end by their  *)
(* time limit, a stopped process is started again, and time passes.        *)
Fairness ==
    /\ \A l \in Lane : WF_vars(LaneStep(l))
    /\ WF_vars(RefreshStart) /\ WF_vars(RefreshEnds) /\ WF_vars(Triage)
    /\ \A m \in Model : SF_vars(PullStart(m))
    /\ WF_vars(\E outcome \in {"ready", "failed"} : PullEnds(outcome))
    /\ WF_vars(Start)
    /\ \A j \in Job : WF_vars(GrowOld(j))

FairSpec == Spec /\ Fairness

-----------------------------------------------------------------------------
(* What a service sees of its jobs. *)
Seen(j) ==
    CASE Is(j, "none") -> "absent"
      [] Is(j, "queued") -> "waiting"
      [] Is(j, "running") -> "working"
      [] OTHER -> job[j].status

Promise == INSTANCE JobPromise WITH state <- [j \in Job |-> Seen(j)]

(* The scheduler keeps its promise: a settled job stays settled, over      *)
(* retries, cancels, restarts and late answers; a cancelled one never ran  *)
(* on (finish, requeue, cancel, recover_running).                          *)
PromiseKept == Promise!Spec

-----------------------------------------------------------------------------
(* Properties *)

(* The two lanes together never hold more memory than the budget, counting *)
(* a lane that pauses before a retry (_pick, _used_memory_gb).             *)
MemoryWithinBudget == Holds("interactive") + Holds("batch") <= Budget

(* A job is tried at most once more than it may be retried, plus once for  *)
(* every time the process was stopped under it (claim, recover_running).   *)
AttemptsBounded == \A j \in Job : job[j].attempts <= MaxRetries + 1 + kills

(* The usage of a job is recorded at most once, and only when it has an    *)
(* outcome other than cancelled (record_usage).                            *)
UsageAtMostOnce ==
    \A j \in Job : usage[j] <= 1 /\ (usage[j] = 1 => job[j].status \in {"succeeded", "failed"})

(* No request waits for a job that is settled (_notify, wait_for).         *)
NoLostWakeup ==
    \A j \in waiting : job[j].status \in {"queued", "running"}

(* A job is running only while a lane works on it, or the process is down: *)
(* no job is stuck in 'running' and none is run by two lanes.              *)
RunningHasLane ==
    up => \A j \in Job :
             Is(j, "running") <=> \E l \in Lane : lane[l] = [pc |-> "generate", job |-> j]

(* A refused or failed model is asked for again only by a decision, never  *)
(* by the jobs that want it (ensure_model_request).                        *)
RefusalStands ==
    [][\A m \in Model : req[m] \in {"rejected", "failed"} => req'[m] # "pending"]_vars

(* An old job goes first: no lane starts a young job while an old job of   *)
(* the same lane, of the same or a higher priority, whose model is there,  *)
(* still waits (_pick).                                                    *)
OldJobFirst ==
    [][\A l \in Lane, j, k \in Job :
          /\ lane[l].job = None /\ lane'[l].job = j
          /\ k \in Queued(l) \cap old /\ ~Oversize(k) /\ ModelReady(ModelOf[k])
          /\ PriorityOf[k] >= PriorityOf[j]
          => j \in old]_vars

(* A job whose model fits beside any other is not passed over for ever by  *)
(* jobs of the loaded model (_pick): it leaves the queue, unless its model *)
(* is missing or jobs of a higher priority come in.                        *)
FitsBesideAny(m) ==
    \A n \in Model : Size[n] <= Budget => Size[m] + Size[n] <= Budget

TopPriority(j) == \A k \in Job : PriorityOf[k] <= PriorityOf[j]

SmallJobServed ==
    \A j \in {k \in Job : FitsBesideAny(ModelOf[k]) /\ TopPriority(k)} :
        Is(j, "queued") ~> (~Is(j, "queued") \/ ~ModelReady(ModelOf[j]))

(* An approved model is pulled, with one outcome or the other (_pull_next).*)
ApprovedModelArrives ==
    \A m \in Model : req[m] = "approved" ~> req[m] \in {"ready", "failed"}
=============================================================================
