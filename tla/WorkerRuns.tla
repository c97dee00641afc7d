----------------------------- MODULE WorkerRuns -----------------------------
(***************************************************************************)
(* Worker processes (dear-agent run [task_id]: a runner Job's pod, or an   *)
(* operator's shell) executing tasks of the shared queue, with the sweep   *)
(* and the operator's task commands running beside them.  TaskWorker's     *)
(* guards read a snapshot of the row and act on it later; TaskExecutor     *)
(* claims, re-reads, runs the harness, publishes and records the outcome.  *)
(* Between any two steps another process may act, and a worker may die.    *)
(*                                                                         *)
(* What the harness, the verify gate and the debate do inside the worktree *)
(* is one choice here (RunHarness); module Execution details it.  The      *)
(* error budget only refuses to start a run, which is a step not taken.    *)
(***************************************************************************)
EXTENDS TaskQueue

CONSTANTS
    Workers,      \* processes that run tasks
    MaxAttempts,  \* TaskWorker.max_attempts
    Deps,         \* depends_on of each task
    Faults,       \* whether the harness, git or the forge may fail
    Crashes,      \* whether a worker may die
    OperatorMoves \* the CLI commands in use: the states "dear-agent task
                  \* complete | fail | requeue | cancel" move a task to,
                  \* "running" for task claim, "policy" for policy edits

ASSUME WorkerAssumption ==
    /\ IsFiniteSet(Workers)
    /\ MaxAttempts \in Nat
    /\ Deps \in [Tasks -> SUBSET Tasks]
    /\ Faults \in BOOLEAN
    /\ Crashes \in BOOLEAN
    /\ OperatorMoves \subseteq {"done", "failed", "queued", "rejected", "running", "policy"}

VARIABLES
    pc,      \* where each worker is
    mode,    \* "run" for run(task_id), "next" for run_next()
    todo,    \* run_next: the rows of its listing it has not looked at
    snap,    \* the row the worker works on, as it last read it
    myLease, \* the lease its claim set
    myRun,   \* the number of its run among the task's runs
    result,  \* the outcome it will record
    runs,    \* how many runs of each task have started
    remote,  \* the task's branch on the remote: the run whose commit it holds
    prs      \* the run that opened the task's draft pull request

workerVars == <<pc, mode, todo, snap, myLease, myRun, result>>
gitVars == <<remote, prs>>
vars == <<queueVars, workerVars, gitVars, runs>>

\* From its claim until its last transition a worker executes the task.
Executing == {"reread", "work", "push", "pr", "finish"}
Guarding == {"idle", "pick", "deps", "policy", "fail", "claim"}

Snapshot == [task : Tasks, state : TaskState, attempts : Nat]
Outcome == [ok : BOOLEAN, commit : Link, pr : Link]

WorkerTypeOK ==
    /\ pc \in [Workers -> Guarding \union Executing]
    /\ mode \in [Workers -> {"run", "next"}]
    /\ todo \in [Workers -> SUBSET Snapshot]
    /\ snap \in [Workers -> Snapshot \union {NULL}]
    /\ \A w \in Workers : pc[w] \notin {"idle", "pick"} => snap[w] \in Snapshot
    /\ myLease \in [Workers -> Nat]
    /\ myRun \in [Workers -> 0..MaxRuns]
    /\ result \in [Workers -> Outcome]
    /\ runs \in [Tasks -> 0..MaxRuns]
    /\ remote \in [Tasks -> Link]
    /\ prs \in [Tasks -> Link]

TypeOK == QueueTypeOK /\ WorkerTypeOK

NoOutcome == [ok |-> FALSE, commit |-> NULL, pr |-> NULL]

Init ==
    /\ QueueInit
    /\ pc = [w \in Workers |-> "idle"]
    /\ mode = [w \in Workers |-> "run"]
    /\ todo = [w \in Workers |-> {}]
    /\ snap = [w \in Workers |-> NULL]
    /\ myLease = [w \in Workers |-> 0]
    /\ myRun = [w \in Workers |-> 0]
    /\ result = [w \in Workers |-> NoOutcome]
    /\ runs = [t \in Tasks |-> 0]
    /\ remote = [t \in Tasks |-> NULL]
    /\ prs = [t \in Tasks |-> NULL]

-----------------------------------------------------------------------------
(* TaskWorker: reading and guarding                                        *)

RowOf(t) == [task |-> t, state |-> state[t], attempts |-> attempts[t]]

Goto(w, place) == pc' = [pc EXCEPT ![w] = place]

\* The process ends; what it held in memory is gone.
Forget(w) ==
    /\ pc' = [pc EXCEPT ![w] = "idle"]
    /\ mode' = [mode EXCEPT ![w] = "run"]
    /\ todo' = [todo EXCEPT ![w] = {}]
    /\ snap' = [snap EXCEPT ![w] = NULL]
    /\ myLease' = [myLease EXCEPT ![w] = 0]
    /\ myRun' = [myRun EXCEPT ![w] = 0]
    /\ result' = [result EXCEPT ![w] = NoOutcome]

\* run(task_id) reads the one row; run_next() lists the queued ones.
StartRun(w, t) ==
    /\ pc[w] = "idle"
    /\ state[t] # "absent"
    /\ todo' = [todo EXCEPT ![w] = {RowOf(t)}]
    /\ mode' = [mode EXCEPT ![w] = "run"]
    /\ Goto(w, "pick")
    /\ UNCHANGED <<queueVars, snap, myLease, myRun, result, runs, gitVars>>

StartRunNext(w) ==
    /\ pc[w] = "idle"
    /\ todo' = [todo EXCEPT ![w] = {RowOf(t) : t \in List("queued", 100)}]
    /\ mode' = [mode EXCEPT ![w] = "next"]
    /\ Goto(w, "pick")
    /\ UNCHANGED <<queueVars, snap, myLease, myRun, result, runs, gitVars>>

TooManyAttemptsNever(row) == FALSE

\* _guard_attempts, on the snapshot.
TooManyAttempts(row) == row.attempts >= MaxAttempts

\* The loop of run_next over its listing; run() has the one row.  run()
\* looks at the attempts first, run_next() at the dependencies.
Pick(w) ==
    /\ pc[w] = "pick"
    /\ \E row \in todo[w] :
        /\ \A other \in todo[w] : ~Older(other.task, row.task)
        /\ snap' = [snap EXCEPT ![w] = row]
        /\ todo' = [todo EXCEPT ![w] = @ \ {row}]
        /\ Goto(w, IF mode[w] = "run" /\ TooManyAttempts(row) THEN "fail" ELSE "deps")
    /\ UNCHANGED <<queueVars, mode, myLease, myRun, result, runs, gitVars>>

\* No row is left, or run()'s one row was refused: TaskWorkerError.
GiveUp(w) ==
    /\ pc[w] = "pick"
    /\ todo[w] = {}
    /\ Forget(w)
    /\ UNCHANGED <<queueVars, runs, gitVars>>

DependencyStatusOfStarted(t) ==
    IF \E d \in Deps[t] : state[d] \in {"failed", "rejected"} THEN "failed"
    ELSE IF \A d \in Deps[t] : state[d] \in {"running", "done"} THEN "ready"
    ELSE "blocked"

\* An unknown dependency blocks, as does one that is not finished.
DependencyStatus(t) ==
    IF \E d \in Deps[t] : state[d] \in {"failed", "rejected"} THEN "failed"
    ELSE IF \A d \in Deps[t] : state[d] = "done" THEN "ready"
    ELSE "blocked"

CheckDependencies(w) ==
    /\ pc[w] = "deps"
    /\ LET status == DependencyStatus(snap[w].task)
       IN \/ status = "failed" /\ Goto(w, "fail")
          \/ status = "blocked" /\ Goto(w, "pick")
          \/ /\ status = "ready"
             /\ Goto(w, IF mode[w] = "next" /\ TooManyAttempts(snap[w]) THEN "fail" ELSE "policy")
    /\ UNCHANGED <<queueVars, mode, todo, snap, myLease, myRun, result, runs, gitVars>>

\* ProjectPolicy.enabled of the task's repository, in a table that may be
\* edited at any time.
CheckPolicy(w) ==
    /\ pc[w] = "policy"
    /\ Goto(w, "claim") \/ ("policy" \in OperatorMoves /\ Goto(w, "fail"))
    /\ UNCHANGED <<queueVars, mode, todo, snap, myLease, myRun, result, runs, gitVars>>

\* A guard that refuses the task for good moves it to failed from whatever
\* state the snapshot shows.  A conflict escapes run_next's loop.
FailTask(w) ==
    /\ pc[w] = "fail"
    /\ LET row == snap[w]
       IN \/ /\ Transition(row.task, row.state, "failed", NoEvidence)
             /\ Goto(w, "pick")
             /\ UNCHANGED <<mode, todo, snap, myLease, myRun, result>>
          \/ /\ state[row.task] # row.state
             /\ Forget(w)
             /\ UNCHANGED queueVars
    /\ UNCHANGED <<runs, gitVars>>

-----------------------------------------------------------------------------
(* TaskExecutor                                                            *)

ClaimTask(w) ==
    /\ pc[w] = "claim"
    /\ LET t == snap[w].task
       IN  /\ runs[t] < MaxRuns
           /\ Claim(t, Lease)
           /\ runs' = [runs EXCEPT ![t] = @ + 1]
           /\ myRun' = [myRun EXCEPT ![w] = runs[t] + 1]
           /\ myLease' = [myLease EXCEPT ![w] = clock + Lease]
    /\ todo' = [todo EXCEPT ![w] = {}]
    /\ Goto(w, "reread")
    /\ UNCHANGED <<mode, snap, result, gitVars>>

\* Another worker was first: run() raises, run_next() looks further.
ClaimLost(w) ==
    /\ pc[w] = "claim"
    /\ state[snap[w].task] # "queued"
    /\ Goto(w, "pick")
    /\ UNCHANGED <<queueVars, mode, todo, snap, myLease, myRun, result, runs, gitVars>>

\* running = queue.get(task.id): the state the last transition will expect.
Reread(w) ==
    /\ pc[w] = "reread"
    /\ snap' = [snap EXCEPT ![w] = RowOf(snap[w].task)]
    /\ Goto(w, "work")
    /\ UNCHANGED <<queueVars, mode, todo, myLease, myRun, result, runs, gitVars>>

\* Worktree.create raised: the task is failed and the error escapes.
WorktreeFails(w) ==
    /\ pc[w] = "work"
    /\ Faults
    /\ TryTransition(snap[w].task, snap[w].state, "failed", NoEvidence)
    /\ Forget(w)
    /\ UNCHANGED <<runs, gitVars>>

\* The harness, verify and debate: a change to publish, no change at all
\* (commit_all then returns the base's commit), or a failure before the
\* commit.
RunHarness(w) ==
    /\ pc[w] = "work"
    /\ \/ /\ Goto(w, "push")
          /\ result' = [result EXCEPT ![w] = [ok |-> TRUE, commit |-> myRun[w], pr |-> NULL]]
       \/ /\ Faults
          /\ Goto(w, "finish")
          /\ \E c \in {0, NULL} :
                result' = [result EXCEPT ![w] = [ok |-> FALSE, commit |-> c, pr |-> NULL]]
    /\ UNCHANGED <<queueVars, mode, todo, snap, myLease, myRun, runs, gitVars>>

PublishFailed(w) ==
    /\ result' = [result EXCEPT ![w] = [ok |-> FALSE, commit |-> @.commit, pr |-> NULL]]
    /\ Goto(w, "finish")

PushForced(w) == TRUE

\* git push without force: a branch of this task that another run pushed is
\* not an ancestor of this run's commit.
PushAccepted(w) == remote[snap[w].task] = NULL

Push(w) ==
    /\ pc[w] = "push"
    /\ \/ /\ PushAccepted(w)
          /\ remote' = [remote EXCEPT ![snap[w].task] = myRun[w]]
          /\ Goto(w, "pr")
          /\ UNCHANGED result
       \/ /\ ~PushAccepted(w) \/ Faults
          /\ PublishFailed(w)
          /\ UNCHANGED remote
    /\ UNCHANGED <<queueVars, mode, todo, snap, myLease, myRun, runs, prs>>

\* The forge opens the draft PR, refuses, or opens it and the answer is lost.
OpenDraftPr(w) ==
    /\ pc[w] = "pr"
    /\ LET t == snap[w].task
       IN \/ /\ prs[t] = NULL
             /\ prs' = [prs EXCEPT ![t] = myRun[w]]
             /\ \/ /\ result' = [result EXCEPT ![w].pr = myRun[w]]
                   /\ Goto(w, "finish")
                \/ /\ Faults
                   /\ PublishFailed(w)
          \/ /\ Faults
             /\ PublishFailed(w)
             /\ UNCHANGED prs
    /\ UNCHANGED <<queueVars, mode, todo, snap, myLease, myRun, runs, remote>>

\* The last transition, a swap on the state that Reread saw; on a conflict
\* the error escapes and the process ends.
Finish(w) ==
    /\ pc[w] = "finish"
    /\ TryTransition(snap[w].task, snap[w].state,
                     IF result[w].ok THEN "done" ELSE "failed",
                     [commit |-> result[w].commit, pr |-> result[w].pr])
    /\ Forget(w)
    /\ UNCHANGED <<runs, gitVars>>

\* The process dies, or an exception that nothing handles ends it
\* (resolve_spec's, after run_next's claim or before run()'s).
Crash(w) ==
    /\ Crashes
    /\ pc[w] # "idle"
    /\ Forget(w)
    /\ UNCHANGED <<queueVars, runs, gitVars>>

-----------------------------------------------------------------------------
(* Beside the workers                                                      *)

Submit(t) == Enqueue(t, "queued") /\ UNCHANGED <<workerVars, gitVars, runs>>

Sweep == ReleaseStale /\ UNCHANGED <<workerVars, gitVars, runs>>

PassTime == Tick /\ UNCHANGED <<workerVars, gitVars, runs>>

\* dear-agent task complete | fail | requeue | cancel: get, then a swap from
\* whatever state was read.
OperatorMove(t, to) ==
    /\ to \in OperatorMoves \ {"running", "policy"}
    /\ state[t] \in TaskState
    /\ Transition(t, state[t], to, NoEvidence)
    /\ UNCHANGED <<workerVars, gitVars, runs>>

OperatorClaim(t) ==
    /\ "running" \in OperatorMoves
    /\ Claim(t, Lease)
    /\ UNCHANGED <<workerVars, gitVars, runs>>

WorkerStep(w) ==
    \/ \E t \in Tasks : StartRun(w, t)
    \/ StartRunNext(w) \/ Pick(w) \/ GiveUp(w)
    \/ CheckDependencies(w) \/ CheckPolicy(w) \/ FailTask(w)
    \/ ClaimTask(w) \/ ClaimLost(w) \/ Reread(w) \/ WorktreeFails(w)
    \/ RunHarness(w) \/ Push(w) \/ OpenDraftPr(w) \/ Finish(w)
    \/ Crash(w)

Next ==
    \/ \E w \in Workers : WorkerStep(w)
    \/ \E t \in Tasks : Submit(t) \/ OperatorClaim(t)
    \/ \E t \in Tasks, to \in OperatorMoves : OperatorMove(t, to)
    \/ Sweep \/ PassTime

Spec == Init /\ [][Next]_vars

-----------------------------------------------------------------------------
(* Properties                                                              *)

Live(w) == pc[w] \in Executing /\ clock <= myLease[w]

\* No two workers execute one task while the leases of both last, whatever
\* stale rows their guards acted on and whatever died or was swept in
\* between (claim, release_stale).  It takes an operator's requeue to break
\* it, so the runs that check it leave requeue out.
MutualExclusion ==
    \A v, w \in Workers :
        Live(v) /\ Live(w) /\ snap[v].task = snap[w].task => v = w

\* While a worker's lease lasts nobody can start another run of its task: the
\* row is running under exactly this worker's lease, or it was settled.  It is
\* what makes MutualExclusion inductive, and it relates three clocks: the
\* lease in the row, the worker's own and the sweep's.
LeaseHeld ==
    \A w \in Workers : Live(w) =>
        LET t == snap[w].task
        IN  /\ state[t] \in TaskState \ {"queued", "action"}
            /\ state[t] = "running" => leaseUntil[t] = myLease[w]

\* Every run of a task after its first was paid for with an attempt, and the
\* next run of a queued task is already paid, also when a late worker and the
\* sweep race for the row: without a requeue the number of runs that ever
\* started is bounded by the attempts.
RunsArePaid ==
    \A t \in Tasks :
        runs[t] + (IF state[t] \in {"absent", "queued"} THEN 1 ELSE 0) <= attempts[t] + 1

\* A crash loop stops, whatever rows an operator claims.  _guard_attempts
\* looks at a snapshot, which may be older than the row that is claimed, so
\* the limit can be passed, but by at most one run for every worker.
RetryBound ==
    \A t \in Tasks : runs[t] <= MaxAttempts + Cardinality(Workers)

\* A task that the workers report done points at the commit its branch holds
\* on the remote and at its open pull request, also when the run that is
\* recorded lost its lease and another run of the task was started.
DoneIsPublished ==
    \A t \in Tasks : state[t] = "done" =>
        /\ evidence[t].commit = remote[t] /\ remote[t] \in 1..MaxRuns
        /\ evidence[t].pr = prs[t] /\ prs[t] = remote[t]

\* What a worker is about to record is what the remote holds: between its push
\* and its last transition no other run of the task, however late, replaces
\* the branch or opens a second pull request (plane.push, open_draft_pr).
PublishTrace ==
    /\ \A t \in Tasks : remote[t] \in (1..MaxRuns) \union {NULL} /\ prs[t] \in {NULL, remote[t]}
    /\ \A w \in Workers :
        /\ pc[w] \in Executing => myRun[w] \in 1..MaxRuns
        /\ pc[w] \in {"push", "pr"} => result[w].commit = myRun[w]
        /\ pc[w] = "pr" => remote[snap[w].task] = myRun[w]
        /\ pc[w] = "finish" /\ result[w].ok =>
                /\ remote[snap[w].task] \in 1..MaxRuns
                /\ result[w].commit = remote[snap[w].task]
                /\ result[w].pr = remote[snap[w].task]
                /\ prs[snap[w].task] = remote[snap[w].task]

\* No run of a task starts before every task it depends on was published,
\* although the dependencies are read long before the claim and a done
\* dependency may be failed in between (dependency_status).
DependencyPublishedFirst ==
    \A t \in Tasks : runs[t] > 0 =>
        \A d \in Deps[t] : remote[d] \in 1..MaxRuns /\ prs[d] = remote[d]

\* Workers, sweep and operator together never do more to the table than the
\* operations of the Queue port allow (queue/port.py).
ImplementsQueue == QueueSpec

\* A retried run "starts from a clean tree instead of failing"
\* (runners/worktree.py): where nothing else fails, a task fails only when its
\* attempts are used up.
RetryDoesNotFail ==
    \A t \in Tasks : state[t] = "failed" => attempts[t] >= MaxAttempts
=============================================================================
