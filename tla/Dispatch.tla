------------------------------ MODULE Dispatch ------------------------------
(***************************************************************************)
(* The cluster: the sweep CronJob releases stale runs and creates one       *)
(* Kubernetes Job per queued task, named after the task; the Job's pod runs *)
(* dear-agent run <task id> once (backoffLimit 0); the Job object stays     *)
(* until its TTL is over and blocks a second Job of the same name.          *)
(*                                                                          *)
(* The pods are the workers of WorkerRuns, one per task.  The CronJob's     *)
(* concurrencyPolicy Forbid makes the sweep a single process.  Kubernetes   *)
(* is external: create_job, the pod's start and the TTL controller.         *)
(***************************************************************************)
EXTENDS WorkerRuns

CONSTANTS
    Limit,        \* TaskDispatcher.limit
    MaxHitches    \* bound on failing API calls and on pods that die before
                  \* their claim: neither costs an attempt

ASSUME DispatchAssumption ==
    /\ Workers = Tasks
    /\ Limit \in Nat
    /\ MaxHitches \in Nat

VARIABLES
    jobs,      \* the Job of each task: "none", "created", "up" or "over"
    sweepPc,   \* where the sweep is
    listed,    \* the queued tasks it listed and has not looked at
    doomed,    \* the task it is about to fail
    hitches    \* how many of those there were

clusterVars == <<jobs, sweepPc, listed, doomed, hitches>>
dispatchVars == <<vars, clusterVars>>

DispatchTypeOK ==
    /\ TypeOK
    /\ jobs \in [Tasks -> {"none", "created", "up", "over"}]
    /\ sweepPc \in {"idle", "list", "dispatch", "fail"}
    /\ listed \subseteq Tasks
    /\ doomed \in Tasks \union {NULL}
    /\ hitches \in 0..MaxHitches

DispatchInit ==
    /\ Init
    /\ jobs = [t \in Tasks |-> "none"]
    /\ sweepPc = "idle" /\ listed = {} /\ doomed = NULL
    /\ hitches = 0

-----------------------------------------------------------------------------
(* The sweep                                                               *)

SweepReleaseEveryRun ==
    /\ sweepPc = "idle"
    /\ state' = [t \in Tasks |-> IF state[t] = "running" THEN "queued" ELSE state[t]]
    /\ attempts' = [t \in Tasks |-> IF state[t] = "running" THEN attempts[t] + 1 ELSE attempts[t]]
    /\ leaseUntil' = [t \in Tasks |-> NULL]
    /\ sweepPc' = "list"
    /\ UNCHANGED <<evidence, order, clock, workerVars, gitVars, runs, jobs, listed, doomed, hitches>>

\* release_stale
SweepRelease ==
    /\ sweepPc = "idle"
    /\ ReleaseStale \/ (Stale = {} /\ UNCHANGED queueVars)
    /\ sweepPc' = "list"
    /\ UNCHANGED <<workerVars, gitVars, runs, jobs, listed, doomed, hitches>>

\* dispatch_once lists the oldest queued tasks.
SweepList ==
    /\ sweepPc = "list"
    /\ listed' = List("queued", Limit)
    /\ sweepPc' = "dispatch"
    /\ UNCHANGED <<vars, jobs, doomed, hitches>>

\* A Job that exists is success: nothing is created.
CreateJob(t) == jobs' = [jobs EXCEPT ![t] = IF @ = "none" THEN "created" ELSE @]

\* The loop of dispatch_once, oldest task first.
DispatchTask ==
    /\ sweepPc = "dispatch"
    /\ \E t \in listed :
        /\ \A u \in listed : ~Older(u, t)
        /\ listed' = listed \ {t}
        /\ LET status == DependencyStatus(t)
           IN \/ status = "ready" /\ CreateJob(t) /\ UNCHANGED <<sweepPc, doomed>>
              \/ status = "blocked" /\ UNCHANGED <<jobs, sweepPc, doomed>>
              \/ status = "failed" /\ sweepPc' = "fail" /\ doomed' = t /\ UNCHANGED jobs
    /\ UNCHANGED <<vars, hitches>>

FailDependentSkipped ==
    /\ sweepPc = "fail"
    /\ sweepPc' = "dispatch"
    /\ doomed' = NULL
    /\ UNCHANGED <<vars, jobs, listed, hitches>>

\* The swap from queued; a conflict ends the pass.
FailDependent ==
    /\ sweepPc = "fail"
    /\ \/ /\ Transition(doomed, "queued", "failed", NoEvidence)
          /\ sweepPc' = "dispatch"
          /\ UNCHANGED listed
       \/ /\ state[doomed] # "queued"
          /\ sweepPc' = "idle" /\ listed' = {}
          /\ UNCHANGED queueVars
    /\ doomed' = NULL
    /\ UNCHANGED <<workerVars, gitVars, runs, jobs, hitches>>

SweepEnd ==
    /\ sweepPc = "dispatch" /\ listed = {}
    /\ sweepPc' = "idle"
    /\ UNCHANGED <<vars, jobs, listed, doomed, hitches>>

\* The API cannot be reached: the pass ends, also after release_stale.
SweepFails ==
    /\ sweepPc # "idle"
    /\ hitches < MaxHitches
    /\ hitches' = hitches + 1
    /\ sweepPc' = "idle" /\ listed' = {} /\ doomed' = NULL
    /\ UNCHANGED <<vars, jobs>>

SweepStep == SweepRelease \/ SweepList \/ DispatchTask \/ FailDependent \/ SweepEnd

-----------------------------------------------------------------------------
(* Jobs and pods                                                           *)

StartPod(t) ==
    /\ jobs[t] = "created"
    /\ StartRun(t, t)
    /\ jobs' = [jobs EXCEPT ![t] = "up"]
    /\ UNCHANGED <<sweepPc, listed, doomed, hitches>>

\* When the process ends, with or without success, so does the Job.
PodStep(t) ==
    /\ \/ Pick(t) \/ GiveUp(t) \/ CheckDependencies(t) \/ CheckPolicy(t) \/ FailTask(t)
       \/ ClaimTask(t) \/ ClaimLost(t) \/ Reread(t) \/ WorktreeFails(t)
       \/ RunHarness(t) \/ Push(t) \/ OpenDraftPr(t) \/ Finish(t)
    /\ jobs' = [jobs EXCEPT ![t] = IF pc'[t] = "idle" THEN "over" ELSE @]
    /\ UNCHANGED <<sweepPc, listed, doomed, hitches>>

\* The pod is evicted, killed at its deadline, or its node is lost.
PodDies(t) ==
    /\ Crash(t)
    /\ jobs' = [jobs EXCEPT ![t] = "over"]
    /\ \/ pc[t] \in Executing /\ UNCHANGED hitches
       \/ pc[t] \in Guarding /\ hitches < MaxHitches /\ hitches' = hitches + 1
    /\ UNCHANGED <<sweepPc, listed, doomed>>

\* ttlSecondsAfterFinished, a day, is over.  A pass of the sweep is shorter:
\* the Jobs of the tasks it listed are not collected under it.
CollectJob(t) ==
    /\ jobs[t] = "over"
    /\ t \notin listed
    /\ jobs' = [jobs EXCEPT ![t] = "none"]
    /\ UNCHANGED <<vars, sweepPc, listed, doomed, hitches>>

Beside ==
    /\ \/ \E t \in Tasks : Submit(t) \/ OperatorClaim(t)
       \/ \E t \in Tasks, to \in OperatorMoves : OperatorMove(t, to)
       \/ PassTime
    /\ UNCHANGED clusterVars

DispatchNext ==
    \/ SweepStep \/ SweepFails
    \/ \E t \in Tasks : StartPod(t) \/ PodStep(t) \/ PodDies(t) \/ CollectJob(t)
    \/ Beside

DispatchSpec == DispatchInit /\ [][DispatchNext]_dispatchVars

\* The CronJob fires every two minutes; Kubernetes starts pods; a live process
\* goes on; time passes.  A finished Job that a pass lists again and again is
\* collected between two passes: the controller is strongly fair.  Nobody has
\* to submit anything.
FairDispatchSpec ==
    /\ DispatchSpec
    /\ WF_dispatchVars(SweepStep)
    /\ WF_dispatchVars(PassTime /\ UNCHANGED clusterVars)
    /\ \A t \in Tasks :
        /\ WF_dispatchVars(StartPod(t))
        /\ WF_dispatchVars(PodStep(t))
        /\ SF_dispatchVars(CollectJob(t))

-----------------------------------------------------------------------------
(* Properties                                                              *)

\* dispatch_once bounds its listing before it skips what is blocked: when every
\* task of the page waits for one that is not started, the pass starts nothing,
\* and no queued task comes to its turn.
Starved ==
    IF \A t \in List("queued", Limit) : \E d \in Deps[t] : state[d] \in {"absent", "queued"}
      THEN {t \in Tasks : state[t] = "queued"}
      ELSE {}

Lifecycle ==
    INSTANCE TaskLifecycle WITH
        Limit <- MaxAttempts, st <- state, att <- attempts, held <- Starved

\* Without operators the cluster keeps the promise of TaskLifecycle for every
\* task: what is settled stays settled, a run is given back at most
\* max_attempts times, and every submitted task settles, although pods die,
\* leases expire under live pods, the API fails and finished Jobs block new
\* ones for a day.  The one condition: the oldest Limit queued tasks are not
\* all waiting for tasks that nobody submitted or that are queued behind them
\* (dispatch.py:106).  A page that holds some other task moves on, however
\* small Limit is.
ImplementsLifecycle == Lifecycle!Spec

=============================================================================
