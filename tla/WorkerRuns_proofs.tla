------------------------- MODULE WorkerRuns_proofs -------------------------
(***************************************************************************)
(* What the workers guarantee for any number of workers and tasks, any     *)
(* dependencies, lease, attempt limit and clock; and the same for the two  *)
(* ways they are deployed: processes under an error budget (ErrorBudget)   *)
(* and pods that the sweep starts (Dispatch).                              *)
(***************************************************************************)
EXTENDS ErrorBudget, Dispatch, TaskQueue_proofs, FiniteSetTheorems

-----------------------------------------------------------------------------
(* Types, and the queue steps behind the workers' steps                    *)

\* The row of a claimed task exists: no operation of the port deletes one.
Stored == \A w \in Workers : pc[w] \in Executing => state[snap[w].task] # "absent"

TypeInv == TypeOK /\ Stored

LEMMA SnapTyped ==
    ASSUME TypeOK, NEW w \in Workers, pc[w] \notin {"idle", "pick"}
    PROVE  /\ snap[w] \in Snapshot
           /\ snap[w].task \in Tasks
           /\ snap[w].state \in TaskState
           /\ snap[w].attempts \in Nat
BY DEF TypeOK, WorkerTypeOK, Snapshot

LEMMA ForgetTyped ==
    ASSUME TypeOK, NEW w \in Workers, Forget(w), UNCHANGED <<runs, gitVars>>
    PROVE  WorkerTypeOK'
<1>1. NoOutcome \in Outcome
  BY DEF NoOutcome, Outcome, Link
<1>2. QED
  BY <1>1, QueueAssumption DEF TypeOK, WorkerTypeOK, Forget, gitVars, Guarding

LEMMA FinishEvidence ==
    ASSUME TypeOK, NEW w \in Workers
    PROVE  /\ [commit |-> result[w].commit, pr |-> result[w].pr] \in Evidence
           /\ NoEvidence \in Evidence
BY DEF TypeOK, WorkerTypeOK, Outcome, Evidence, NoEvidence, Link

\* Every step of the workers, the sweep and the operator is one operation of
\* the queue, or none.
LEMMA QueueStep ==
    TypeOK /\ [Next]_vars => [QueueNext]_queueVars
<1> SUFFICES ASSUME TypeOK, [Next]_vars
             PROVE  [QueueNext]_queueVars
  OBVIOUS
<1> USE QueueAssumption, WorkerAssumption
<1>1. ASSUME NEW w \in Workers, WorkerStep(w)
      PROVE  [QueueNext]_queueVars
  <2>1. ASSUME FailTask(w)
        PROVE  [QueueNext]_queueVars
    BY <2>1, SnapTyped, FinishEvidence DEF FailTask, QueueNext, TaskState
  <2>2. ASSUME ClaimTask(w)
        PROVE  [QueueNext]_queueVars
    BY <2>2, SnapTyped DEF ClaimTask, QueueNext
  <2>3. ASSUME WorktreeFails(w)
        PROVE  [QueueNext]_queueVars
    BY <2>3, SnapTyped, FinishEvidence DEF WorktreeFails, TryTransition, QueueNext, TaskState
  <2>4. ASSUME Finish(w)
        PROVE  [QueueNext]_queueVars
    BY <2>4, SnapTyped, FinishEvidence DEF Finish, TryTransition, QueueNext, TaskState
  <2>5. ASSUME \/ \E t \in Tasks : StartRun(w, t)
               \/ StartRunNext(w) \/ Pick(w) \/ GiveUp(w)
               \/ CheckDependencies(w) \/ CheckPolicy(w)
               \/ ClaimLost(w) \/ Reread(w)
               \/ RunHarness(w) \/ Push(w) \/ OpenDraftPr(w) \/ Crash(w)
        PROVE  UNCHANGED queueVars
    BY <2>5 DEF StartRun, StartRunNext, Pick, GiveUp, CheckDependencies, CheckPolicy,
                ClaimLost, Reread, RunHarness, Push, OpenDraftPr, Crash
  <2>6. QED
    BY <1>1, <2>1, <2>2, <2>3, <2>4, <2>5 DEF WorkerStep
<1>2. ASSUME NEW t \in Tasks, Submit(t) \/ OperatorClaim(t)
      PROVE  [QueueNext]_queueVars
  BY <1>2 DEF Submit, OperatorClaim, QueueNext
<1>3. ASSUME NEW t \in Tasks, NEW to \in OperatorMoves, OperatorMove(t, to)
      PROVE  [QueueNext]_queueVars
  <2>1. to \in TaskState \ {"running"}
    BY <1>3 DEF OperatorMove, TaskState
  <2>2. NoEvidence \in Evidence
    BY DEF Evidence, NoEvidence, Link
  <2>3. QED
    BY <1>3, <2>1, <2>2 DEF OperatorMove, QueueNext
<1>4. ASSUME Sweep \/ PassTime
      PROVE  [QueueNext]_queueVars
  BY <1>4 DEF Sweep, PassTime, QueueNext
<1>5. ASSUME UNCHANGED vars
      PROVE  [QueueNext]_queueVars
  BY <1>5 DEF vars
<1>6. QED
  BY <1>1, <1>2, <1>3, <1>4, <1>5 DEF Next

\* Only a won claim makes a worker execute a task.
LEMMA EnterExecuting ==
    ASSUME TypeOK, [Next]_vars, NEW w \in Workers, pc[w] \notin Executing, pc'[w] \in Executing
    PROVE  ClaimTask(w)
<1> USE DEF TypeOK, WorkerTypeOK
<1>1. ASSUME NEW v \in Workers, WorkerStep(v)
      PROVE  ClaimTask(w)
  BY <1>1 DEF WorkerStep, StartRun, StartRunNext, Pick, GiveUp, CheckDependencies, CheckPolicy,
              FailTask, ClaimTask, ClaimLost, Reread, WorktreeFails, RunHarness, Push,
              OpenDraftPr, Finish, Crash, PublishFailed, Forget, Goto, Executing
<1>2. ASSUME NEW t \in Tasks, Submit(t) \/ OperatorClaim(t)
      PROVE  FALSE
  BY <1>2 DEF Submit, OperatorClaim, workerVars
<1>3. ASSUME NEW t \in Tasks, NEW to \in OperatorMoves, OperatorMove(t, to)
      PROVE  FALSE
  BY <1>3 DEF OperatorMove, workerVars
<1>4. ASSUME Sweep \/ PassTime \/ UNCHANGED vars
      PROVE  FALSE
  BY <1>4 DEF Sweep, PassTime, vars, workerVars
<1>5. QED
  BY <1>1, <1>2, <1>3, <1>4 DEF Next

\* A worker that goes on executing stays with its task, its lease and its run.
LEMMA KeepTask ==
    ASSUME TypeOK, [Next]_vars, NEW w \in Workers, pc[w] \in Executing, pc'[w] \in Executing
    PROVE  /\ snap'[w].task = snap[w].task
           /\ myLease'[w] = myLease[w]
           /\ myRun'[w] = myRun[w]
<1> USE DEF TypeOK, WorkerTypeOK
<1>1. ASSUME NEW v \in Workers, WorkerStep(v)
      PROVE  /\ snap'[w].task = snap[w].task
             /\ myLease'[w] = myLease[w]
             /\ myRun'[w] = myRun[w]
  BY <1>1 DEF WorkerStep, StartRun, StartRunNext, Pick, GiveUp, CheckDependencies, CheckPolicy,
              FailTask, ClaimTask, ClaimLost, Reread, WorktreeFails, RunHarness, Push,
              OpenDraftPr, Finish, Crash, PublishFailed, Forget, Goto, Executing, RowOf
<1>2. ASSUME NEW t \in Tasks, Submit(t) \/ OperatorClaim(t)
      PROVE  UNCHANGED workerVars
  BY <1>2 DEF Submit, OperatorClaim
<1>3. ASSUME NEW t \in Tasks, NEW to \in OperatorMoves, OperatorMove(t, to)
      PROVE  UNCHANGED workerVars
  BY <1>3 DEF OperatorMove
<1>4. ASSUME Sweep \/ PassTime \/ UNCHANGED vars
      PROVE  UNCHANGED workerVars
  BY <1>4 DEF Sweep, PassTime, vars
<1>5. QED
  BY <1>1, <1>2, <1>3, <1>4 DEF Next, workerVars

\* The steps that work on the worker's own variables keep them typed.
LEMMA WorkerTypeStep ==
    ASSUME TypeInv, NEW w \in Workers, WorkerStep(w)
    PROVE  WorkerTypeOK'
<1> USE QueueAssumption, WorkerAssumption
<1> USE DEF TypeInv, TypeOK, WorkerTypeOK
<1>1. ASSUME NEW t \in Tasks, StartRun(w, t)
      PROVE  WorkerTypeOK'
  <2>1. RowOf(t) \in Snapshot
    BY <1>1 DEF StartRun, RowOf, Snapshot, QueueTypeOK
  <2>2. QED
    BY <1>1, <2>1 DEF StartRun, Goto, Guarding, gitVars
<1>2. ASSUME StartRunNext(w)
      PROVE  WorkerTypeOK'
  <2>1. {RowOf(t) : t \in List("queued", 100)} \subseteq Snapshot
    <3>1. ASSUME NEW t \in List("queued", 100)
          PROVE  RowOf(t) \in Snapshot
      BY DEF RowOf, List, Snapshot, QueueTypeOK, TaskState
    <3>2. QED
      BY <3>1
  <2>2. QED
    BY <1>2, <2>1 DEF StartRunNext, Goto, Guarding, gitVars
<1>3. ASSUME Pick(w)
      PROVE  WorkerTypeOK'
  <2>1. PICK row \in todo[w] :
            /\ snap' = [snap EXCEPT ![w] = row]
            /\ todo' = [todo EXCEPT ![w] = @ \ {row}]
            /\ Goto(w, IF mode[w] = "run" /\ TooManyAttempts(row) THEN "fail" ELSE "deps")
    BY <1>3 DEF Pick
  <2>2. row \in Snapshot
    BY <2>1 DEF Snapshot
  <2>3. todo' \in [Workers -> SUBSET Snapshot]
    BY <2>1
  <2>4. QED
    BY <1>3, <2>1, <2>2, <2>3 DEF Pick, Goto, Guarding, gitVars
<1>4. ASSUME CheckDependencies(w) \/ CheckPolicy(w) \/ ClaimLost(w)
      PROVE  WorkerTypeOK'
  BY <1>4 DEF CheckDependencies, CheckPolicy, ClaimLost, Goto, Guarding, gitVars
<1>5. ASSUME FailTask(w)
      PROVE  WorkerTypeOK'
  <2>1. CASE Forget(w)
    BY <1>5, <2>1, ForgetTyped DEF FailTask
  <2>2. CASE Goto(w, "pick") /\ UNCHANGED <<mode, todo, snap, myLease, myRun, result>>
    BY <1>5, <2>2 DEF FailTask, Goto, Guarding, gitVars
  <2>3. QED
    BY <1>5, <2>1, <2>2 DEF FailTask
<1>6. ASSUME ClaimTask(w)
      PROVE  WorkerTypeOK'
  <2>1. runs' \in [Tasks -> 0..MaxRuns] /\ myRun' \in [Workers -> 0..MaxRuns]
    BY <1>6, SnapTyped DEF ClaimTask
  <2>2. myLease' \in [Workers -> Nat]
    BY <1>6 DEF ClaimTask, QueueTypeOK
  <2>3. todo' \in [Workers -> SUBSET Snapshot]
    BY <1>6 DEF ClaimTask
  <2>4. QED
    BY <1>6, <2>1, <2>2, <2>3 DEF ClaimTask, Goto, Executing, gitVars
<1>7. ASSUME Reread(w)
      PROVE  WorkerTypeOK'
  <2>1. RowOf(snap[w].task) \in Snapshot
    BY <1>7, SnapTyped DEF Reread, RowOf, Snapshot, QueueTypeOK, Stored, Executing
  <2>2. QED
    BY <1>7, <2>1 DEF Reread, Goto, Executing, gitVars
<1>8. ASSUME RunHarness(w)
      PROVE  WorkerTypeOK'
  <2>1. PICK ok \in BOOLEAN, c \in {myRun[w], 0, NULL} :
            result' = [result EXCEPT ![w] = [ok |-> ok, commit |-> c, pr |-> NULL]]
    BY <1>8 DEF RunHarness
  <2>2. [ok |-> ok, commit |-> c, pr |-> NULL] \in Outcome
    BY DEF Outcome, Link
  <2>3. QED
    BY <1>8, <2>1, <2>2 DEF RunHarness, Goto, Executing, gitVars
<1>9. ASSUME Push(w) \/ OpenDraftPr(w)
      PROVE  WorkerTypeOK'
  <2>1. result' \in [Workers -> Outcome]
    <3>1. CASE PublishFailed(w)
      <4>1. [ok |-> FALSE, commit |-> result[w].commit, pr |-> NULL] \in Outcome
        BY DEF Outcome, Link
      <4>2. QED
        BY <3>1, <4>1 DEF PublishFailed
    <3>2. CASE result' = [result EXCEPT ![w].pr = myRun[w]]
      <4>1. [result[w] EXCEPT !.pr = myRun[w]] \in Outcome
        BY DEF Outcome, Link
      <4>2. QED
        BY <3>2, <4>1
    <3>3. QED
      BY <1>9, <3>1, <3>2 DEF Push, OpenDraftPr
  <2>2. remote' \in [Tasks -> Link] /\ prs' \in [Tasks -> Link]
    BY <1>9, SnapTyped DEF Push, OpenDraftPr, Link
  <2>3. QED
    BY <1>9, <2>1, <2>2 DEF Push, OpenDraftPr, PublishFailed, Goto, Executing
<1>10. ASSUME GiveUp(w) \/ WorktreeFails(w) \/ Finish(w) \/ Crash(w)
       PROVE  WorkerTypeOK'
  BY <1>10, ForgetTyped DEF GiveUp, WorktreeFails, Finish, Crash
<1>11. QED
  BY <1>1, <1>2, <1>3, <1>4, <1>5, <1>6, <1>7, <1>8, <1>9, <1>10 DEF WorkerStep

\* The row a worker executes stays stored.
LEMMA StoredStep ==
    TypeInv /\ [Next]_vars => Stored'
<1> SUFFICES ASSUME TypeInv, [Next]_vars, NEW w \in Workers, pc'[w] \in Executing
             PROVE  state'[snap'[w].task] # "absent"
  BY DEF Stored
<1> USE DEF TypeInv
<1>1. [QueueNext]_queueVars
  BY QueueStep
<1>2. ASSUME pc[w] \in Executing, snap'[w].task = snap[w].task
      PROVE  state'[snap'[w].task] # "absent"
  <2>1. snap[w].task \in Tasks
    BY <1>2, SnapTyped DEF Executing
  <2>2. QED
    BY <1>1, <1>2, <2>1, RowsStay DEF Stored, TypeOK
<1>3. CASE pc[w] \notin Executing
  <2>1. ClaimTask(w)
    BY <1>3, EnterExecuting DEF TypeOK
  <2>2. QED
    BY <2>1, SnapTyped DEF ClaimTask, Claim, TypeOK, QueueTypeOK
<1>4. CASE pc[w] \in Executing
  BY <1>2, <1>4, KeepTask
<1>5. QED
  BY <1>3, <1>4

LEMMA TypeInvStep ==
    TypeInv /\ [Next]_vars => TypeInv'
<1> SUFFICES ASSUME TypeInv, [Next]_vars
             PROVE  TypeInv'
  OBVIOUS
<1>1. Stored'
  BY StoredStep
<1>2. QueueTypeOK'
  BY QueueStep, QueueTypeStep DEF TypeInv, TypeOK
<1>3. WorkerTypeOK'
  <2>1. CASE \E w \in Workers : WorkerStep(w)
    BY <2>1, WorkerTypeStep
  <2>2. CASE UNCHANGED <<workerVars, gitVars, runs>>
    BY <2>2 DEF TypeInv, TypeOK, WorkerTypeOK, workerVars, gitVars
  <2>3. ASSUME ~\E w \in Workers : WorkerStep(w)
        PROVE  UNCHANGED <<workerVars, gitVars, runs>>
    BY <2>3 DEF Next, Submit, OperatorClaim, OperatorMove, Sweep, PassTime, vars,
                TypeInv, TypeOK, WorkerTypeOK
  <2>4. QED
    BY <2>1, <2>2, <2>3
<1>4. QED
  BY <1>1, <1>2, <1>3 DEF TypeInv, TypeOK

LEMMA TypeInvInit ==
    Init => TypeInv
<1> SUFFICES ASSUME Init PROVE TypeInv
  OBVIOUS
<1> USE QueueAssumption, WorkerAssumption DEF Init
<1>1. QueueTypeOK
  BY DEF QueueInit, QueueTypeOK, Evidence, NoEvidence, Link
<1>2. NoOutcome \in Outcome
  BY DEF NoOutcome, Outcome, Link
<1>3. WorkerTypeOK
  BY <1>2 DEF WorkerTypeOK, Guarding, Link
<1>4. Stored
  BY DEF Stored, Executing
<1>5. QED
  BY <1>1, <1>3, <1>4 DEF TypeInv, TypeOK

LEMMA TypeInvCorrect == Spec => []TypeInv
  BY TypeInvInit, TypeInvStep, PTL DEF Spec

\* The state of the queue, of every worker and of the remotes stays
\* well-formed; in particular the executor's assertion that the row it claimed
\* can be read again (execute: assert running is not None) never fails.
THEOREM TypeCorrect == Spec => []TypeOK
<1>1. TypeInv => TypeOK
  BY DEF TypeInv
<1>2. QED
  BY <1>1, TypeInvCorrect, PTL

\* Workers, sweep and operator together implement the queue: what is proved of
\* QueueSpec holds of every deployment.
THEOREM WorkersImplementQueue == Spec => ImplementsQueue
<1>1. Init => QueueInit
  BY DEF Init
<1>2. TypeInv /\ [Next]_vars => [QueueNext]_queueVars
  BY QueueStep DEF TypeInv
<1>3. QED
  BY <1>1, <1>2, TypeInvCorrect, PTL DEF Spec, QueueSpec, ImplementsQueue

-----------------------------------------------------------------------------
(* Mutual exclusion                                                        *)

\* What a step of anyone can do to the row of a task while no operator
\* requeues: it is not put back into the queue before its lease ended.
LEMMA HeldRowStep ==
    ASSUME "queued" \notin OperatorMoves, TypeInv, [Next]_vars,
           NEW t \in Tasks, NEW until \in Nat, clock' <= until,
           state[t] \in TaskState \ {"queued", "action"},
           state[t] = "running" => leaseUntil[t] = until
    PROVE  /\ state'[t] \in TaskState \ {"queued", "action"}
           /\ state'[t] = "running" => leaseUntil'[t] = until
<1> USE QueueAssumption, WorkerAssumption
<1> USE DEF TypeInv, TypeOK, QueueTypeOK
<1> DEFINE Held == /\ state'[t] \in TaskState \ {"queued", "action"}
                   /\ state'[t] = "running" => leaseUntil'[t] = until
<1> SUFFICES Held
  OBVIOUS
<1>1. ASSUME NEW u \in Tasks, NEW from \in TaskState,
             NEW to \in TaskState \ {"queued", "action", "running"},
             NEW ev \in Evidence, Transition(u, from, to, ev)
      PROVE  Held
  BY <1>1 DEF Transition
<1>2. ASSUME NEW u \in Tasks, Claim(u, Lease)
      PROVE  Held
  BY <1>2 DEF Claim
<1>3. CASE UNCHANGED queueVars
  BY <1>3 DEF queueVars
<1>4. ASSUME NEW w \in Workers, WorkerStep(w)
      PROVE  Held
  <2>1. CASE FailTask(w)
    BY <2>1, <1>1, <1>3, SnapTyped, FinishEvidence DEF FailTask, TaskState
  <2>2. CASE ClaimTask(w)
    BY <2>2, <1>2, SnapTyped DEF ClaimTask
  <2>3. CASE WorktreeFails(w)
    BY <2>3, <1>1, <1>3, SnapTyped, FinishEvidence DEF WorktreeFails, TryTransition, TaskState
  <2>4. CASE Finish(w)
    BY <2>4, <1>1, <1>3, SnapTyped, FinishEvidence DEF Finish, TryTransition, TaskState
  <2>5. QED
    BY <1>3, <1>4, <2>1, <2>2, <2>3, <2>4 DEF WorkerStep, StartRun, StartRunNext, Pick, GiveUp,
       CheckDependencies, CheckPolicy, ClaimLost, Reread, RunHarness, Push, OpenDraftPr, Crash
<1>5. ASSUME NEW u \in Tasks, Submit(u) \/ OperatorClaim(u)
      PROVE  Held
  BY <1>5, <1>2 DEF Submit, Enqueue, OperatorClaim, TaskState
<1>6. ASSUME NEW u \in Tasks, NEW to \in OperatorMoves, OperatorMove(u, to)
      PROVE  Held
  <2>1. to \in TaskState \ {"queued", "action", "running"}
    BY <1>6 DEF OperatorMove, TaskState
  <2>2. NoEvidence \in Evidence
    BY DEF Evidence, NoEvidence, Link
  <2>3. QED
    BY <1>6, <1>1, <2>1, <2>2 DEF OperatorMove
<1>7. CASE Sweep
  <2>1. t \notin Stale
    BY <1>7 DEF Sweep, ReleaseStale, Stale
  <2>2. QED
    BY <1>7, <2>1 DEF Sweep, ReleaseStale
<1>8. CASE PassTime
  BY <1>8 DEF PassTime, Tick
<1>9. CASE UNCHANGED vars
  BY <1>9, <1>3 DEF vars
<1>10. QED
  BY <1>4, <1>5, <1>6, <1>7, <1>8, <1>9 DEF Next

LEMMA LeaseHeldStep ==
    "queued" \notin OperatorMoves /\ TypeInv /\ LeaseHeld /\ [Next]_vars => LeaseHeld'
<1> SUFFICES ASSUME "queued" \notin OperatorMoves, TypeInv, LeaseHeld, [Next]_vars,
                    NEW w \in Workers, Live(w)'
             PROVE  /\ state'[snap'[w].task] \in TaskState \ {"queued", "action"}
                    /\ state'[snap'[w].task] = "running"
                          => leaseUntil'[snap'[w].task] = myLease'[w]
  BY DEF LeaseHeld
<1>1. TypeInv'
  BY TypeInvStep
<1>2. clock \in Nat /\ clock' \in Nat /\ clock <= clock'
  <2>1. [QueueNext]_queueVars
    BY QueueStep DEF TypeInv
  <2>2. QED
    BY <1>1, <2>1 DEF TypeInv, TypeOK, QueueTypeOK, QueueNext, queueVars, Enqueue, Claim,
                      Transition, ClaimNext, ReleaseStale, Tick
<1>3. CASE pc[w] \notin Executing
  <2>1. ClaimTask(w)
    BY <1>3, EnterExecuting DEF Live, TypeInv
  <2>2. QED
    BY <2>1, SnapTyped DEF ClaimTask, Claim, TypeInv, TypeOK, QueueTypeOK, WorkerTypeOK, TaskState
<1>4. CASE pc[w] \in Executing
  <2>1. snap'[w].task = snap[w].task /\ myLease'[w] = myLease[w]
    BY <1>4, KeepTask DEF Live, TypeInv
  <2>2. snap[w].task \in Tasks /\ myLease[w] \in Nat
    BY <1>4, SnapTyped DEF Executing, TypeInv, TypeOK, WorkerTypeOK
  <2>3. Live(w) /\ clock' <= myLease[w]
    BY <1>2, <1>4, <2>1, <2>2 DEF Live
  <2>4. QED
    BY <2>1, <2>2, <2>3, HeldRowStep DEF LeaseHeld
<1>5. QED
  BY <1>3, <1>4

LEMMA MutualExclusionStep ==
    TypeInv /\ LeaseHeld /\ MutualExclusion /\ [Next]_vars => MutualExclusion'
<1> SUFFICES ASSUME TypeInv, LeaseHeld, MutualExclusion, [Next]_vars,
                    NEW v \in Workers, NEW w \in Workers,
                    Live(v)', Live(w)', snap'[v].task = snap'[w].task
             PROVE  v = w
  BY DEF MutualExclusion
<1> USE DEF TypeInv
<1>1. clock <= clock' /\ clock \in Nat /\ clock' \in Nat
  <2>1. [QueueNext]_queueVars /\ QueueTypeOK'
    BY QueueStep, QueueTypeStep DEF TypeOK
  <2>2. QED
    BY <2>1 DEF TypeOK, QueueTypeOK, QueueNext, queueVars, Enqueue, Claim, Transition,
                ClaimNext, ReleaseStale, Tick
<1>2. ASSUME NEW u \in Workers, Live(u)', pc[u] \in Executing
      PROVE  Live(u) /\ snap'[u].task = snap[u].task
  <2>1. myLease'[u] = myLease[u] /\ snap'[u].task = snap[u].task
    BY <1>2, KeepTask DEF Live
  <2>2. myLease[u] \in Nat
    BY DEF TypeOK, WorkerTypeOK
  <2>3. QED
    BY <1>1, <1>2, <2>1, <2>2 DEF Live
<1>3. ASSUME NEW u \in Workers, NEW x \in Workers, u # x, Live(u)', Live(x)',
             snap'[u].task = snap'[x].task, pc[u] \notin Executing
      PROVE  FALSE
  <2>1. ClaimTask(u)
    BY <1>3, EnterExecuting DEF Live
  <2>2. pc'[x] = pc[x] /\ snap'[u] = snap[u]
    BY <1>3, <2>1 DEF ClaimTask, Goto, TypeOK, WorkerTypeOK
  <2>3. Live(x) /\ snap[x].task = snap[u].task
    BY <1>2, <1>3, <2>2 DEF Live
  <2>4. QED
    BY <2>1, <2>3 DEF LeaseHeld, ClaimTask, Claim
<1>4. QED
  BY <1>2, <1>3 DEF MutualExclusion, Live

\* While no operator requeues, a worker that executes a task under a lease
\* that still lasts is the only one, for any number of workers, crashes and
\* sweeps.
THEOREM Exclusion == "queued" \notin OperatorMoves => (Spec => []MutualExclusion)
<1> SUFFICES ASSUME "queued" \notin OperatorMoves
             PROVE  Spec => []MutualExclusion
  OBVIOUS
<1>1. Init => LeaseHeld /\ MutualExclusion
  BY DEF Init, LeaseHeld, MutualExclusion, Live, Executing
<1>2. TypeInv /\ LeaseHeld /\ MutualExclusion /\ [Next]_vars => (LeaseHeld /\ MutualExclusion)'
  BY LeaseHeldStep, MutualExclusionStep
<1>3. QED
  BY <1>1, <1>2, TypeInvCorrect, PTL DEF Spec

-----------------------------------------------------------------------------
(* Attempts pay for runs                                                   *)

LEMMA PaidStep ==
    "queued" \notin OperatorMoves /\ TypeInv /\ RunsArePaid /\ [Next]_vars => RunsArePaid'
<1> SUFFICES ASSUME "queued" \notin OperatorMoves, TypeInv, RunsArePaid, [Next]_vars
             PROVE  RunsArePaid'
  OBVIOUS
<1> USE QueueAssumption, WorkerAssumption
<1> USE DEF TypeInv
<1>1. ASSUME NEW u \in Tasks, NEW from \in TaskState,
             NEW to \in TaskState \ {"queued", "running"},
             NEW ev \in Evidence, Transition(u, from, to, ev), runs' = runs
      PROVE  RunsArePaid'
  BY <1>1 DEF Transition, TaskState, TypeOK, QueueTypeOK, WorkerTypeOK, RunsArePaid
<1>2. CASE UNCHANGED <<queueVars, runs>>
  BY <1>2 DEF queueVars, RunsArePaid
<1>3. ASSUME NEW w \in Workers, WorkerStep(w)
      PROVE  RunsArePaid'
  <2>1. CASE FailTask(w)
    BY <2>1, <1>1, <1>2, SnapTyped, FinishEvidence DEF FailTask, TaskState
  <2>2. CASE ClaimTask(w)
    <3>1. /\ snap[w].task \in Tasks
          /\ \A t \in Tasks : runs'[t] = IF t = snap[w].task THEN runs[t] + 1 ELSE runs[t]
          /\ state[snap[w].task] = "queued"
          /\ \A t \in Tasks : state'[t] = IF t = snap[w].task THEN "running" ELSE state[t]
          /\ attempts' = attempts
      BY <2>2, SnapTyped DEF ClaimTask, Claim, TypeOK, QueueTypeOK, WorkerTypeOK
    <3>2. \A t \in Tasks : runs[t] \in Nat /\ attempts[t] \in Nat
      BY DEF TypeOK, QueueTypeOK, WorkerTypeOK
    <3>3. QED
      BY <3>1, <3>2 DEF RunsArePaid
  <2>3. CASE WorktreeFails(w)
    BY <2>3, <1>1, <1>2, SnapTyped, FinishEvidence DEF WorktreeFails, TryTransition, TaskState
  <2>4. CASE Finish(w)
    BY <2>4, <1>1, <1>2, SnapTyped, FinishEvidence DEF Finish, TryTransition, TaskState
  <2>5. QED
    BY <1>2, <1>3, <2>1, <2>2, <2>3, <2>4 DEF WorkerStep, StartRun, StartRunNext, Pick, GiveUp,
       CheckDependencies, CheckPolicy, ClaimLost, Reread, RunHarness, Push, OpenDraftPr, Crash
<1>4. ASSUME NEW u \in Tasks, Submit(u) \/ OperatorClaim(u)
      PROVE  RunsArePaid'
  <2>1. \A t \in Tasks : runs[t] \in Nat /\ attempts[t] \in Nat
    BY DEF TypeOK, QueueTypeOK, WorkerTypeOK
  <2>2. /\ runs' = runs /\ attempts' = attempts
        /\ \A t \in Tasks : state'[t] \in {"absent", "queued"} => state[t] \in {"absent", "queued"}
    BY <1>4 DEF Submit, Enqueue, OperatorClaim, Claim, TypeOK, QueueTypeOK
  <2>3. QED
    BY <2>1, <2>2 DEF RunsArePaid
<1>5. ASSUME NEW u \in Tasks, NEW to \in OperatorMoves, OperatorMove(u, to)
      PROVE  RunsArePaid'
  <2>1. to \in TaskState \ {"queued", "running"}
    BY <1>5 DEF OperatorMove, TaskState
  <2>2. NoEvidence \in Evidence
    BY DEF Evidence, NoEvidence, Link
  <2>3. QED
    BY <1>5, <1>1, <2>1, <2>2 DEF OperatorMove
<1>6. CASE Sweep
  BY <1>6 DEF Sweep, ReleaseStale, Stale, TypeOK, QueueTypeOK, WorkerTypeOK, RunsArePaid
<1>7. CASE PassTime \/ UNCHANGED vars
  BY <1>7, <1>2 DEF PassTime, Tick, vars, queueVars, RunsArePaid
<1>8. QED
  BY <1>3, <1>4, <1>5, <1>6, <1>7 DEF Next

\* While no operator requeues, a task is run at most once more than its
\* attempts count, whatever dies and however late its worker comes back.
THEOREM PaidRuns == "queued" \notin OperatorMoves => (Spec => []RunsArePaid)
<1> SUFFICES ASSUME "queued" \notin OperatorMoves
             PROVE  Spec => []RunsArePaid
  OBVIOUS
<1>1. Init => RunsArePaid
  BY DEF Init, QueueInit, RunsArePaid
<1>2. TypeInv /\ RunsArePaid /\ [Next]_vars => RunsArePaid'
  BY PaidStep
<1>3. QED
  BY <1>1, <1>2, TypeInvCorrect, PTL DEF Spec

-----------------------------------------------------------------------------
(* What done means                                                         *)

LEMMA PublishTraceStep ==
    TypeInv /\ PublishTrace /\ [Next]_vars => PublishTrace'
<1> SUFFICES ASSUME TypeInv, PublishTrace, [Next]_vars
             PROVE  PublishTrace'
  OBVIOUS
<1> USE QueueAssumption
<1> USE DEF TypeInv, TypeOK, WorkerTypeOK, PublishTrace
<1>1. CASE UNCHANGED <<workerVars, gitVars>>
  BY <1>1 DEF workerVars, gitVars
<1>2. ASSUME NEW w \in Workers, WorkerStep(w)
      PROVE  PublishTrace'
  <2>1. CASE Forget(w) /\ UNCHANGED gitVars
    BY <2>1 DEF Forget, gitVars, Executing
  <2>2. ASSUME NEW place \in Guarding, Goto(w, place),
               UNCHANGED <<myRun, result, gitVars>>,
               \A v \in Workers : v # w => snap'[v] = snap[v]
        PROVE  PublishTrace'
    BY <2>2 DEF Goto, gitVars, Guarding, Executing
  <2>3. CASE \/ \E t \in Tasks : StartRun(w, t)
             \/ StartRunNext(w) \/ CheckDependencies(w) \/ CheckPolicy(w) \/ ClaimLost(w)
    BY <2>2, <2>3 DEF StartRun, StartRunNext, CheckDependencies, CheckPolicy, ClaimLost, Guarding
  <2>4. CASE Pick(w)
    BY <2>2, <2>4 DEF Pick, Guarding
  <2>5. CASE FailTask(w)
    BY <2>1, <2>2, <2>5 DEF FailTask, Guarding
  <2>6. CASE GiveUp(w) \/ WorktreeFails(w) \/ Finish(w) \/ Crash(w)
    BY <2>1, <2>6 DEF GiveUp, WorktreeFails, Finish, Crash
  <2>7. CASE ClaimTask(w)
    BY <2>7, SnapTyped DEF ClaimTask, Goto, gitVars, Executing
  <2>8. CASE Reread(w)
    BY <2>8 DEF Reread, RowOf, Goto, gitVars, Executing
  <2>9. CASE RunHarness(w)
    BY <2>9 DEF RunHarness, Goto, gitVars, Executing
  <2>10. CASE Push(w)
    <3>1. snap[w].task \in Tasks
      BY <2>10, SnapTyped DEF Push
    <3>2. CASE PublishFailed(w) /\ UNCHANGED remote
      BY <2>10, <3>2 DEF Push, PublishFailed, Goto, Executing
    <3>3. CASE /\ PushAccepted(w)
               /\ remote' = [remote EXCEPT ![snap[w].task] = myRun[w]]
               /\ Goto(w, "pr")
               /\ UNCHANGED result
      <4>1. remote[snap[w].task] = NULL /\ prs[snap[w].task] = NULL /\ NULL \notin 1..MaxRuns
        BY <3>1, <3>3 DEF PushAccepted
      <4>2. pc[w] = "push" /\ myRun[w] \in 1..MaxRuns /\ result[w].commit = myRun[w]
        BY <2>10 DEF Push, Executing
      <4>3. ASSUME NEW v \in Workers, v # w
            PROVE  /\ pc'[v] = pc[v]
                   /\ pc[v] = "pr" \/ (pc[v] = "finish" /\ result[v].ok)
                        => snap[v].task # snap[w].task
        BY <3>3, <4>1, <4>3 DEF Goto, Executing
      <4>4. UNCHANGED <<snap, myRun, result, prs>>
        BY <2>10, <3>3 DEF Push
      <4>5. \A t \in Tasks : remote'[t] = IF t = snap[w].task THEN myRun[w] ELSE remote[t]
        BY <3>1, <3>3
      <4>6. \A t \in Tasks :
                remote'[t] \in (1..MaxRuns) \union {NULL} /\ prs'[t] \in {NULL, remote'[t]}
        BY <4>1, <4>2, <4>4, <4>5
      <4>7. pc'[w] = "pr"
        BY <3>3 DEF Goto
      <4>8. \A v \in Workers : pc[v] \in {"pr", "finish"} => snap[v].task \in Tasks
        BY SnapTyped
      <4>9. QED
        BY <3>1, <4>1, <4>2, <4>3, <4>4, <4>5, <4>6, <4>7, <4>8 DEF Executing
    <3>4. QED
      BY <2>10, <3>2, <3>3 DEF Push
  <2>11. CASE OpenDraftPr(w)
    <3>1. snap[w].task \in Tasks
      BY <2>11, SnapTyped DEF OpenDraftPr
    <3>2. CASE PublishFailed(w)
      <4>1. /\ pc[w] = "pr" /\ myRun[w] = remote[snap[w].task]
            /\ UNCHANGED <<remote, snap, myRun>>
        BY <2>11 DEF OpenDraftPr
      <4>2. \A t \in Tasks :
                /\ prs'[t] \in {NULL, remote[t]}
                /\ prs[t] # NULL => prs'[t] = prs[t]
        BY <2>11, <3>1, <4>1 DEF OpenDraftPr
      <4>3. /\ pc'[w] = "finish" /\ ~result'[w].ok
            /\ \A v \in Workers : v # w => pc'[v] = pc[v] /\ result'[v] = result[v]
        BY <3>2 DEF PublishFailed, Goto
      <4>4. \A v \in Workers : pc[v] \in {"pr", "finish"} => snap[v].task \in Tasks
        BY SnapTyped
      <4>5. NULL \notin 1..MaxRuns
        OBVIOUS
      <4>6. QED
        BY <4>1, <4>2, <4>3, <4>4, <4>5 DEF Executing
    <3>3. CASE /\ prs[snap[w].task] = NULL
               /\ prs' = [prs EXCEPT ![snap[w].task] = myRun[w]]
               /\ result' = [result EXCEPT ![w].pr = myRun[w]]
               /\ Goto(w, "finish")
      BY <2>11, <3>1, <3>3 DEF OpenDraftPr, Goto, Executing, Outcome
    <3>4. QED
      BY <2>11, <3>2, <3>3 DEF OpenDraftPr
  <2>12. QED
    BY <1>2, <2>3, <2>4, <2>5, <2>6, <2>7, <2>8, <2>9, <2>10, <2>11 DEF WorkerStep
<1>3. ASSUME ~\E w \in Workers : WorkerStep(w)
      PROVE  UNCHANGED <<workerVars, gitVars>>
  BY <1>3 DEF Next, Submit, OperatorClaim, OperatorMove, Sweep, PassTime, vars
<1>4. QED
  BY <1>1, <1>2, <1>3

LEMMA DoneStep ==
    /\ "done" \notin OperatorMoves
    /\ TypeInv /\ PublishTrace /\ DoneIsPublished
    /\ [Next]_vars
    => DoneIsPublished'
<1> SUFFICES ASSUME "done" \notin OperatorMoves, TypeInv, PublishTrace, DoneIsPublished,
                    [Next]_vars
             PROVE  DoneIsPublished'
  OBVIOUS
<1> USE QueueAssumption, WorkerAssumption
<1> USE DEF TypeInv
<1>1. ASSUME NEW u \in Tasks, NEW from \in TaskState, NEW to \in TaskState \ {"done"},
             NEW ev \in Evidence, Transition(u, from, to, ev), UNCHANGED gitVars
      PROVE  DoneIsPublished'
  BY <1>1 DEF Transition, gitVars, TypeOK, QueueTypeOK, WorkerTypeOK, DoneIsPublished
<1>2. ASSUME NEW u \in Tasks, Claim(u, Lease), UNCHANGED gitVars
      PROVE  DoneIsPublished'
  BY <1>2 DEF Claim, gitVars, TypeOK, QueueTypeOK, WorkerTypeOK, DoneIsPublished
<1>3. CASE UNCHANGED <<queueVars, gitVars>>
  BY <1>3 DEF queueVars, gitVars, DoneIsPublished
<1>4. ASSUME NEW w \in Workers, WorkerStep(w)
      PROVE  DoneIsPublished'
  <2>1. CASE FailTask(w)
    BY <2>1, <1>1, <1>3, SnapTyped, FinishEvidence DEF FailTask, TaskState
  <2>2. CASE ClaimTask(w)
    BY <2>2, <1>2, SnapTyped DEF ClaimTask
  <2>3. CASE WorktreeFails(w)
    BY <2>3, <1>1, <1>3, SnapTyped, FinishEvidence DEF WorktreeFails, TryTransition, TaskState
  <2>4. CASE Finish(w)
    <3>1. CASE UNCHANGED queueVars
      BY <2>4, <3>1, <1>3 DEF Finish
    <3>2. CASE ~result[w].ok
      BY <2>4, <3>1, <3>2, <1>1, SnapTyped, FinishEvidence DEF Finish, TryTransition, TaskState
    <3>3. CASE result[w].ok
      <4>1. /\ snap[w].task \in Tasks
            /\ result[w].commit = remote[snap[w].task]
            /\ result[w].pr = remote[snap[w].task]
            /\ prs[snap[w].task] = remote[snap[w].task]
            /\ remote[snap[w].task] \in 1..MaxRuns
        BY <2>4, <3>3, SnapTyped DEF Finish, PublishTrace
      <4>2. result[w].commit # NULL /\ result[w].pr # NULL
        BY <4>1
      <4>3. UNCHANGED gitVars
        BY <2>4 DEF Finish
      <4>4. CASE Transition(snap[w].task, snap[w].state, "done",
                            [commit |-> result[w].commit, pr |-> result[w].pr])
        BY <4>1, <4>2, <4>3, <4>4 DEF Transition, Coalesce, gitVars,
           TypeOK, QueueTypeOK, WorkerTypeOK, DoneIsPublished
      <4>5. QED
        BY <2>4, <3>1, <3>3, <4>4 DEF Finish, TryTransition
    <3>4. QED
      BY <3>2, <3>3
  <2>5. CASE Push(w)
    <3>1. UNCHANGED <<state, evidence, prs>>
      BY <2>5 DEF Push, queueVars
    <3>2. \A t \in Tasks : remote[t] # NULL => remote'[t] = remote[t]
      BY <2>5, SnapTyped DEF Push, PushAccepted, TypeOK, WorkerTypeOK
    <3>3. NULL \notin 1..MaxRuns
      OBVIOUS
    <3>4. QED
      BY <3>1, <3>2, <3>3 DEF DoneIsPublished
  <2>6. CASE OpenDraftPr(w)
    <3>1. UNCHANGED <<state, evidence, remote>>
      BY <2>6 DEF OpenDraftPr, queueVars
    <3>2. \A t \in Tasks : prs[t] # NULL => prs'[t] = prs[t]
      BY <2>6, SnapTyped DEF OpenDraftPr, TypeOK, WorkerTypeOK
    <3>3. NULL \notin 1..MaxRuns
      OBVIOUS
    <3>4. QED
      BY <3>1, <3>2, <3>3 DEF DoneIsPublished
  <2>7. QED
    BY <1>3, <1>4, <2>1, <2>2, <2>3, <2>4, <2>5, <2>6 DEF WorkerStep, StartRun, StartRunNext,
       Pick, GiveUp, CheckDependencies, CheckPolicy, ClaimLost, Reread, RunHarness, Crash
<1>5. ASSUME NEW u \in Tasks, Submit(u) \/ OperatorClaim(u)
      PROVE  DoneIsPublished'
  BY <1>5, <1>2 DEF Submit, Enqueue, OperatorClaim, gitVars, TypeOK, QueueTypeOK, WorkerTypeOK, DoneIsPublished
<1>6. ASSUME NEW u \in Tasks, NEW to \in OperatorMoves, OperatorMove(u, to)
      PROVE  DoneIsPublished'
  <2>1. to \in TaskState \ {"done"}
    BY <1>6 DEF OperatorMove, TaskState
  <2>2. NoEvidence \in Evidence
    BY DEF Evidence, NoEvidence, Link
  <2>3. QED
    BY <1>6, <1>1, <2>1, <2>2 DEF OperatorMove
<1>7. CASE Sweep
  BY <1>7 DEF Sweep, ReleaseStale, gitVars, TypeOK, QueueTypeOK, WorkerTypeOK, DoneIsPublished
<1>8. CASE PassTime \/ UNCHANGED vars
  BY <1>8, <1>3 DEF PassTime, Tick, vars, queueVars, gitVars, DoneIsPublished
<1>9. QED
  BY <1>4, <1>5, <1>6, <1>7, <1>8 DEF Next

\* Unless an operator completes it by hand, a done task points at the commit
\* on its branch and at its pull request, for any number of workers whose runs
\* of the task overlap.
THEOREM DoneCorrect == "done" \notin OperatorMoves => (Spec => []DoneIsPublished)
<1> SUFFICES ASSUME "done" \notin OperatorMoves
             PROVE  Spec => []DoneIsPublished
  OBVIOUS
<1>1. Init => PublishTrace /\ DoneIsPublished
  BY DEF Init, QueueInit, PublishTrace, DoneIsPublished, Executing
<1>2. TypeInv /\ PublishTrace /\ DoneIsPublished /\ [Next]_vars
        => (PublishTrace /\ DoneIsPublished)'
  BY PublishTraceStep, DoneStep
<1>3. QED
  BY <1>1, <1>2, TypeInvCorrect, PTL DEF Spec
-----------------------------------------------------------------------------
(* Dependencies                                                            *)

Published(d) == remote[d] \in 1..MaxRuns /\ prs[d] = remote[d]

\* The dependencies of a task that a worker found ready stay published until
\* the worker claims the task, whatever becomes of their rows.
Waited ==
    \A w \in Workers : pc[w] \in {"policy", "claim"} =>
        \A d \in Deps[snap[w].task] : Published(d)

\* A push or a pull request never replaces an earlier one.
LEMMA PublishedStays ==
    ASSUME TypeInv, [Next]_vars, NEW d \in Tasks, Published(d)
    PROVE  Published(d)'
<1> USE QueueAssumption
<1>1. remote[d] # NULL /\ prs[d] # NULL
  BY DEF Published
<1>2. CASE UNCHANGED gitVars
  BY <1>2 DEF gitVars, Published
<1>3. ASSUME NEW w \in Workers, Push(w)
      PROVE  Published(d)'
  <2>1. prs' = prs /\ remote'[d] = remote[d]
    BY <1>1, <1>3, SnapTyped DEF Push, PushAccepted, TypeInv, TypeOK, WorkerTypeOK
  <2>2. QED
    BY <2>1 DEF Published
<1>4. ASSUME NEW w \in Workers, OpenDraftPr(w)
      PROVE  Published(d)'
  <2>1. remote' = remote /\ prs'[d] = prs[d]
    BY <1>1, <1>4, SnapTyped DEF OpenDraftPr, TypeInv, TypeOK, WorkerTypeOK
  <2>2. QED
    BY <2>1 DEF Published
<1>5. ASSUME NEW w \in Workers, WorkerStep(w), ~Push(w), ~OpenDraftPr(w)
      PROVE  UNCHANGED gitVars
  BY <1>5 DEF WorkerStep, StartRun, StartRunNext, Pick, GiveUp, CheckDependencies, CheckPolicy,
              FailTask, ClaimTask, ClaimLost, Reread, WorktreeFails, RunHarness, Finish, Crash
<1>6. QED
  BY <1>2, <1>3, <1>4, <1>5 DEF Next, Submit, OperatorClaim, OperatorMove, Sweep, PassTime, vars

\* The guards that run between reading the row and claiming it.
LEMMA GuardSteps ==
    ASSUME TypeInv, [Next]_vars, NEW w \in Workers, pc'[w] \in {"policy", "claim"}
    PROVE  /\ snap'[w] = snap[w]
           /\ \/ pc[w] \in {"policy", "claim"}
              \/ /\ pc[w] = "deps"
                 /\ DependencyStatus(snap[w].task) = "ready"
                 /\ mode[w] = "next" => ~TooManyAttempts(snap[w])
<1> USE DEF TypeInv, TypeOK, WorkerTypeOK
<1>1. ASSUME NEW v \in Workers, WorkerStep(v)
      PROVE  /\ snap'[w] = snap[w]
             /\ \/ pc[w] \in {"policy", "claim"}
                \/ /\ pc[w] = "deps"
                   /\ DependencyStatus(snap[w].task) = "ready"
                   /\ mode[w] = "next" => ~TooManyAttempts(snap[w])
  BY <1>1 DEF WorkerStep, StartRun, StartRunNext, Pick, GiveUp, CheckDependencies, CheckPolicy,
              FailTask, ClaimTask, ClaimLost, Reread, WorktreeFails, RunHarness, Push,
              OpenDraftPr, Finish, Crash, PublishFailed, Forget, Goto
<1>2. ASSUME ~\E v \in Workers : WorkerStep(v)
      PROVE  UNCHANGED workerVars
  BY <1>2 DEF Next, Submit, OperatorClaim, OperatorMove, Sweep, PassTime, vars
<1>3. QED
  BY <1>1, <1>2 DEF workerVars

\* Only a claim starts a run.
LEMMA RunsGrow ==
    ASSUME TypeInv, [Next]_vars, NEW t \in Tasks, runs'[t] # runs[t]
    PROVE  \E w \in Workers : ClaimTask(w) /\ snap[w].task = t /\ runs'[t] = runs[t] + 1
<1>1. PICK w \in Workers : ClaimTask(w)
  BY DEF Next, WorkerStep, StartRun, StartRunNext, Pick, GiveUp, CheckDependencies, CheckPolicy,
         FailTask, ClaimLost, Reread, WorktreeFails, RunHarness, Push, OpenDraftPr, Finish, Crash,
         Submit, OperatorClaim, OperatorMove, Sweep, PassTime, vars
<1>2. QED
  BY <1>1 DEF ClaimTask, TypeInv, TypeOK, WorkerTypeOK

LEMMA WaitedStep ==
    TypeInv /\ DoneIsPublished /\ Waited /\ [Next]_vars => Waited'
<1> SUFFICES ASSUME TypeInv, DoneIsPublished, Waited, [Next]_vars,
                    NEW w \in Workers, pc'[w] \in {"policy", "claim"},
                    NEW d \in Deps[snap'[w].task]
             PROVE  Published(d)'
  BY DEF Waited
<1>1. /\ snap'[w] = snap[w]
      /\ \/ pc[w] \in {"policy", "claim"}
         \/ pc[w] = "deps" /\ DependencyStatus(snap[w].task) = "ready"
  BY GuardSteps
<1>2. d \in Deps[snap[w].task] /\ d \in Tasks
  BY <1>1, SnapTyped, WorkerAssumption DEF TypeInv
<1>3. CASE pc[w] \in {"policy", "claim"}
  BY <1>2, <1>3, PublishedStays DEF Waited
<1>4. CASE DependencyStatus(snap[w].task) = "ready"
  <2>1. state[d] = "done"
    BY <1>2, <1>4 DEF DependencyStatus
  <2>2. Published(d)
    BY <1>2, <2>1 DEF DoneIsPublished, Published
  <2>3. QED
    BY <1>2, <2>2, PublishedStays
<1>5. QED
  BY <1>1, <1>3, <1>4

LEMMA DependencyStep ==
    TypeInv /\ Waited /\ DependencyPublishedFirst /\ [Next]_vars => DependencyPublishedFirst'
<1> SUFFICES ASSUME TypeInv, Waited, DependencyPublishedFirst, [Next]_vars,
                    NEW t \in Tasks, runs'[t] > 0, NEW d \in Deps[t]
             PROVE  Published(d)'
  BY DEF DependencyPublishedFirst, Published
<1>1. d \in Tasks
  BY WorkerAssumption
<1>2. CASE runs'[t] = runs[t]
  BY <1>1, <1>2, PublishedStays DEF DependencyPublishedFirst, Published
<1>3. CASE runs'[t] # runs[t]
  <2>1. PICK w \in Workers : ClaimTask(w) /\ snap[w].task = t
    BY <1>3, RunsGrow
  <2>2. Published(d)
    BY <2>1 DEF ClaimTask, Waited
  <2>3. QED
    BY <1>1, <2>2, PublishedStays
<1>4. QED
  BY <1>2, <1>3

\* Unless an operator completes a task by hand, no run of a task starts before
\* every task it depends on has its commit on the remote and its pull request
\* open, however long ago the worker read the dependencies' rows
\* (dependency_status) when it claims.
THEOREM DependenciesCorrect == "done" \notin OperatorMoves => (Spec => []DependencyPublishedFirst)
<1> SUFFICES ASSUME "done" \notin OperatorMoves
             PROVE  Spec => []DependencyPublishedFirst
  OBVIOUS
<1>1. Init => Waited /\ DependencyPublishedFirst
  BY DEF Init, Waited, DependencyPublishedFirst
<1>2. TypeInv /\ DoneIsPublished /\ Waited /\ DependencyPublishedFirst /\ [Next]_vars
        => (Waited /\ DependencyPublishedFirst)'
  BY WaitedStep, DependencyStep
<1>3. QED
  BY <1>1, <1>2, TypeInvCorrect, DoneCorrect, PTL DEF Spec
-----------------------------------------------------------------------------
(* The bound on runs                                                       *)

\* The workers that hold a row of the task with attempts to spare, which may
\* be staler than the table: each of them may still start one run of it.
Fresh(row, t) == row.task = t /\ row.attempts < MaxAttempts

Holds(w, t) ==
    \/ \E row \in todo[w] : Fresh(row, t)
    \/ pc[w] \in {"deps", "policy", "claim"} /\ Fresh(snap[w], t)

Spent(t) == {w \in Workers : ~Holds(w, t)}

\* What a worker carries to its claim passed _guard_attempts: before the
\* dependencies in run(), after them in run_next().
Guarded ==
    \A w \in Workers :
        \/ pc[w] \in {"policy", "claim"}
        \/ pc[w] = "deps" /\ mode[w] = "run"
        => snap[w].attempts < MaxAttempts

\* RetryBound, with the workers counted that can start no further run.
HolderBound == \A t \in Tasks : runs[t] <= MaxAttempts + Cardinality(Spent(t))

LEMMA GuardedStep ==
    TypeInv /\ Guarded /\ [Next]_vars => Guarded'
<1> SUFFICES ASSUME TypeInv, Guarded, [Next]_vars, NEW w \in Workers,
                    \/ pc'[w] \in {"policy", "claim"}
                    \/ pc'[w] = "deps" /\ mode'[w] = "run"
             PROVE  snap'[w].attempts < MaxAttempts
  BY DEF Guarded
<1> USE WorkerAssumption
<1>1. CASE pc'[w] \in {"policy", "claim"}
  <2>1. /\ snap'[w] = snap[w]
        /\ \/ pc[w] \in {"policy", "claim"}
           \/ pc[w] = "deps" /\ (mode[w] = "next" => ~TooManyAttempts(snap[w]))
    BY <1>1, GuardSteps
  <2>2. snap[w].attempts \in Nat /\ mode[w] \in {"run", "next"}
    BY <2>1, SnapTyped DEF TypeInv, TypeOK, WorkerTypeOK
  <2>3. QED
    BY <2>1, <2>2 DEF Guarded, TooManyAttempts
<1>2. CASE pc'[w] = "deps" /\ mode'[w] = "run"
  <2> USE DEF TypeInv, TypeOK, WorkerTypeOK
  <2>1. CASE pc[w] = "deps" /\ snap'[w] = snap[w] /\ mode'[w] = mode[w]
    BY <1>2, <2>1 DEF Guarded
  <2>2. CASE Pick(w)
    <3>1. PICK row \in todo[w] :
              /\ snap' = [snap EXCEPT ![w] = row]
              /\ Goto(w, IF mode[w] = "run" /\ TooManyAttempts(row) THEN "fail" ELSE "deps")
      BY <2>2 DEF Pick
    <3>2. row.attempts \in Nat
      BY DEF Snapshot
    <3>3. ~TooManyAttempts(row) /\ snap'[w] = row
      BY <1>2, <2>2, <3>1 DEF Pick, Goto
    <3>4. QED
      BY <3>2, <3>3 DEF TooManyAttempts
  <2>3. ASSUME NEW v \in Workers, WorkerStep(v), ~Pick(w)
        PROVE  pc[w] = "deps" /\ snap'[w] = snap[w] /\ mode'[w] = mode[w]
    BY <1>2, <2>3 DEF WorkerStep, StartRun, StartRunNext, Pick, GiveUp, CheckDependencies,
       CheckPolicy, FailTask, ClaimTask, ClaimLost, Reread, WorktreeFails, RunHarness, Push,
       OpenDraftPr, Finish, Crash, PublishFailed, Forget, Goto
  <2>4. ASSUME ~\E v \in Workers : WorkerStep(v)
        PROVE  pc[w] = "deps" /\ snap'[w] = snap[w] /\ mode'[w] = mode[w]
    <3>1. UNCHANGED workerVars
      BY <2>4 DEF Next, Submit, OperatorClaim, OperatorMove, Sweep, PassTime, vars
    <3>2. QED
      BY <1>2, <3>1 DEF workerVars
  <2>5. QED
    BY <2>1, <2>2, <2>3, <2>4
<1>3. QED
  BY <1>1, <1>2

\* A worker comes to hold a row only by reading it afresh.
LEMMA NewHolder ==
    ASSUME TypeInv, [Next]_vars, NEW t \in Tasks, NEW w \in Workers, Holds(w, t)', ~Holds(w, t)
    PROVE  runs' = runs /\ attempts[t] < MaxAttempts
<1> USE DEF TypeInv, TypeOK, WorkerTypeOK
<1>1. CASE UNCHANGED <<pc, todo, snap>>
  BY <1>1 DEF Holds
<1>2. ASSUME NEW v \in Workers, WorkerStep(v)
      PROVE  runs' = runs /\ attempts[t] < MaxAttempts
  <2>1. CASE v # w
    <3>1. pc'[w] = pc[w] /\ todo'[w] = todo[w] /\ snap'[w] = snap[w]
      BY <1>2, <2>1 DEF WorkerStep, StartRun, StartRunNext, Pick, GiveUp, CheckDependencies,
         CheckPolicy, FailTask, ClaimTask, ClaimLost, Reread, WorktreeFails, RunHarness, Push,
         OpenDraftPr, Finish, Crash, PublishFailed, Forget, Goto
    <3>2. QED
      BY <3>1 DEF Holds
  <2>2. ASSUME NEW u \in Tasks, StartRun(w, u)
        PROVE  runs' = runs /\ attempts[t] < MaxAttempts
    BY <2>2 DEF StartRun, Goto, Holds, Fresh, RowOf
  <2>3. CASE StartRunNext(w)
    <3>1. PICK row \in {RowOf(u) : u \in List("queued", 100)} : Fresh(row, t)
      BY <2>3 DEF StartRunNext, Goto, Holds
    <3>2. QED
      BY <2>3, <3>1 DEF StartRunNext, Fresh, RowOf
  <2>4. CASE Pick(w)
    <3>1. PICK row \in todo[w] :
              snap' = [snap EXCEPT ![w] = row] /\ todo' = [todo EXCEPT ![w] = @ \ {row}]
      BY <2>4 DEF Pick
    <3>2. QED
      BY <3>1 DEF Holds
  <2>5. CASE \/ GiveUp(w) \/ FailTask(w) \/ ClaimTask(w) \/ WorktreeFails(w)
             \/ Finish(w) \/ Crash(w)
    BY <2>5 DEF GiveUp, FailTask, ClaimTask, WorktreeFails, Finish, Crash, Forget, Goto, Holds
  <2>6. CASE \/ CheckDependencies(w) \/ CheckPolicy(w) \/ ClaimLost(w) \/ Reread(w)
             \/ RunHarness(w) \/ Push(w) \/ OpenDraftPr(w)
    BY <2>6 DEF CheckDependencies, CheckPolicy, ClaimLost, Reread, RunHarness, Push,
                OpenDraftPr, PublishFailed, Goto, Holds
  <2>7. QED
    BY <1>2, <2>1, <2>2, <2>3, <2>4, <2>5, <2>6 DEF WorkerStep
<1>3. ASSUME ~\E v \in Workers : WorkerStep(v)
      PROVE  UNCHANGED <<pc, todo, snap>>
  BY <1>3 DEF Next, Submit, OperatorClaim, OperatorMove, Sweep, PassTime, vars, workerVars
<1>4. QED
  BY <1>1, <1>2, <1>3

\* A claim spends what its worker holds.
LEMMA ClaimSpends ==
    ASSUME TypeInv, Guarded, NEW w \in Workers, ClaimTask(w), NEW t \in Tasks, snap[w].task = t
    PROVE  Holds(w, t) /\ ~Holds(w, t)'
<1>1. Holds(w, t)
  BY DEF ClaimTask, Guarded, Holds, Fresh
<1>2. pc'[w] = "reread" /\ todo'[w] = {}
  BY DEF ClaimTask, Goto, TypeInv, TypeOK, WorkerTypeOK
<1>3. QED
  BY <1>1, <1>2 DEF Holds

LEMMA SpentCounts ==
    ASSUME NEW S \in SUBSET Workers, NEW T \in SUBSET Workers, S \subseteq T
    PROVE  /\ Cardinality(S) \in Nat /\ Cardinality(T) \in Nat
           /\ Cardinality(S) <= Cardinality(T)
           /\ \A w \in T \ S : Cardinality(S) + 1 <= Cardinality(T)
<1>1. IsFiniteSet(S) /\ IsFiniteSet(T)
  BY WorkerAssumption, FS_Subset
<1>2. Cardinality(S) \in Nat /\ Cardinality(T) \in Nat
  BY <1>1, FS_CardinalityType
<1>3. Cardinality(S) <= Cardinality(T)
  BY <1>1, FS_Subset
<1>4. ASSUME NEW w \in T \ S
      PROVE  Cardinality(S) + 1 <= Cardinality(T)
  <2>1. S # T /\ S \in SUBSET T
    BY <1>4
  <2>2. Cardinality(S) # Cardinality(T)
    BY <1>1, <2>1, FS_Subset
  <2>3. QED
    BY <1>2, <1>3, <2>2
<1>5. QED
  BY <1>2, <1>3, <1>4

LEMMA HolderBoundStep ==
    TypeInv /\ Guarded /\ RunsArePaid /\ HolderBound /\ [Next]_vars => HolderBound'
<1> SUFFICES ASSUME TypeInv, Guarded, RunsArePaid, HolderBound, [Next]_vars, NEW t \in Tasks
             PROVE  runs'[t] <= MaxAttempts + Cardinality(Spent(t)')
  BY DEF HolderBound
<1> USE WorkerAssumption
<1>1. /\ runs[t] \in Nat /\ attempts[t] \in Nat
      /\ Cardinality(Spent(t)) \in Nat /\ Cardinality(Spent(t)') \in Nat
  <2>1. runs[t] \in Nat /\ attempts[t] \in Nat
    BY DEF TypeInv, TypeOK, QueueTypeOK, WorkerTypeOK
  <2>2. Spent(t) \in SUBSET Workers /\ Spent(t)' \in SUBSET Workers
    BY DEF Spent
  <2>3. QED
    BY <2>1, <2>2, SpentCounts
<1>2. runs[t] <= MaxAttempts + Cardinality(Spent(t))
  BY DEF HolderBound
<1>3. CASE \E w \in Workers : Holds(w, t)' /\ ~Holds(w, t)
  <2>1. runs'[t] = runs[t] /\ attempts[t] < MaxAttempts
    BY <1>3, NewHolder
  <2>2. runs[t] <= attempts[t] + 1
    BY <1>1 DEF RunsArePaid
  <2>3. QED
    BY <1>1, <2>1, <2>2
<1>4. CASE \A w \in Workers : Holds(w, t)' => Holds(w, t)
  <2>1. Spent(t) \subseteq Spent(t)'
    BY <1>4 DEF Spent
  <2>2. Spent(t) \in SUBSET Workers /\ Spent(t)' \in SUBSET Workers
    BY DEF Spent
  <2>3. CASE runs'[t] = runs[t]
    <3>1. Cardinality(Spent(t)) <= Cardinality(Spent(t)')
      BY <2>1, <2>2, SpentCounts
    <3>2. QED
      BY <1>1, <1>2, <2>3, <3>1
  <2>4. CASE runs'[t] # runs[t]
    <3>1. PICK w \in Workers : ClaimTask(w) /\ snap[w].task = t /\ runs'[t] = runs[t] + 1
      BY <2>4, RunsGrow
    <3>2. Holds(w, t) /\ ~Holds(w, t)'
      BY <3>1, ClaimSpends
    <3>3. w \in Spent(t)' \ Spent(t)
      BY <3>2 DEF Spent
    <3>4. Cardinality(Spent(t)) + 1 <= Cardinality(Spent(t)')
      BY <2>1, <2>2, <3>3, SpentCounts
    <3>5. QED
      BY <1>1, <1>2, <3>1, <3>4
  <2>5. QED
    BY <2>3, <2>4
<1>5. QED
  BY <1>3, <1>4

\* While no operator requeues, a task is run at most MaxAttempts times and
\* once more for every worker, although _guard_attempts looks at a snapshot
\* that may be older than the row its worker claims.
THEOREM RetryCorrect == "queued" \notin OperatorMoves => (Spec => []RetryBound)
<1> SUFFICES ASSUME "queued" \notin OperatorMoves
             PROVE  Spec => []RetryBound
  OBVIOUS
<1>1. Init => Guarded /\ HolderBound
  <2> SUFFICES ASSUME Init PROVE Guarded /\ HolderBound
    OBVIOUS
  <2>1. Guarded
    BY DEF Init, Guarded
  <2>2. ASSUME NEW t \in Tasks
        PROVE  runs[t] <= MaxAttempts + Cardinality(Spent(t))
    <3>1. Cardinality(Spent(t)) \in Nat /\ runs[t] = 0
      BY SpentCounts DEF Spent, Init
    <3>2. QED
      BY <3>1, WorkerAssumption
  <2>3. QED
    BY <2>1, <2>2 DEF HolderBound
<1>2. TypeInv /\ RunsArePaid /\ Guarded /\ HolderBound /\ [Next]_vars => (Guarded /\ HolderBound)'
  BY GuardedStep, HolderBoundStep
<1>3. TypeInv /\ HolderBound => RetryBound
  <2> SUFFICES ASSUME TypeInv, HolderBound, NEW t \in Tasks
               PROVE  runs[t] <= MaxAttempts + Cardinality(Workers)
    BY DEF RetryBound
  <2>1. Spent(t) \in SUBSET Workers /\ runs[t] \in Nat
    BY DEF Spent, TypeInv, TypeOK, WorkerTypeOK
  <2>2. /\ Cardinality(Spent(t)) \in Nat /\ Cardinality(Workers) \in Nat
        /\ Cardinality(Spent(t)) <= Cardinality(Workers)
    BY <2>1, SpentCounts
  <2>3. QED
    BY <2>1, <2>2, WorkerAssumption DEF HolderBound
<1>4. QED
  BY <1>1, <1>2, <1>3, TypeInvCorrect, PaidRuns, PTL DEF Spec

-----------------------------------------------------------------------------
(* The error budget                                                        *)

Place == Executing \union Guarding

\* Whoever is past the first guard was let through.
AdmittedWork ==
    /\ pc \in [Workers -> Place]
    /\ \A w \in Workers : pc[w] \notin {"idle", "pick"} => standing[w] = "admitted"

\* The inductive invariant: without AdmittedWork a worker could report a
\* failure without having been counted among the admitted.
BudgetInv == BudgetTypeOK /\ AdmittedWork /\ BudgetBound

LEMMA WorkingMoves ==
  ASSUME NEW w \in Workers, AdmittedWork, Working(w)
  PROVE  \/ pc' = [pc EXCEPT ![w] = "idle"]
         \/ /\ pc[w] \notin {"idle", "pick"}
            /\ \E place \in Place \ {"idle"} : pc' = [pc EXCEPT ![w] = place]
  <1> USE DEF Goto, Forget, AdmittedWork, Place, Executing, Guarding
  <1>1. CASE GiveUp(w) \/ Crash(w)
    BY <1>1 DEF GiveUp, Crash
  <1>2. CASE CheckDependencies(w)
    BY <1>2 DEF CheckDependencies
  <1>3. CASE CheckPolicy(w) \/ ClaimLost(w) \/ Reread(w)
    BY <1>3 DEF CheckPolicy, ClaimLost, Reread
  <1>4. CASE FailTask(w)
    BY <1>4 DEF FailTask
  <1>5. CASE ClaimTask(w)
    BY <1>5 DEF ClaimTask
  <1>6. CASE WorktreeFails(w) \/ RunHarness(w)
    BY <1>6 DEF WorktreeFails, RunHarness
  <1>7. CASE Push(w) \/ OpenDraftPr(w)
    BY <1>7 DEF Push, OpenDraftPr, PublishFailed
  <1> QED
    BY <1>1, <1>2, <1>3, <1>4, <1>5, <1>6, <1>7 DEF Working

LEMMA OthersLeaveWorkers ==
  ASSUME Others \/ AgeOut \/ UNCHANGED allVars
  PROVE  pc' = pc
  BY DEF Others, AgeOut, allVars, vars, workerVars, Submit, OperatorClaim, OperatorMove, Sweep, PassTime

LEMMA AdmittedWorkStep ==
  ASSUME BudgetTypeOK, AdmittedWork, [BudgetNext]_allVars
  PROVE  AdmittedWork'
  <1> USE DEF AdmittedWork, BudgetTypeOK, Place, Executing, Guarding
  <1>1. CASE Others \/ AgeOut \/ UNCHANGED allVars
    BY <1>1, OthersLeaveWorkers DEF Others, AgeOut, allVars, budgetVars
  <1>2. ASSUME NEW w \in Workers, Admit(w)
        PROVE  AdmittedWork'
    BY <1>2 DEF Admit, vars, workerVars
  <1>3. ASSUME NEW w \in Workers, Begin(w)
        PROVE  AdmittedWork'
    <2>1. pc' = [pc EXCEPT ![w] = "pick"] /\ standing' = standing
      BY <1>3 DEF Begin, StartRun, StartRunNext, Goto, budgetVars
    <2> QED
      BY <2>1
  <1>4. ASSUME NEW w \in Workers, GuardBudget(w)
        PROVE  AdmittedWork'
    <2>1. pc' = [pc EXCEPT ![w] = "fail"] \/ pc' = [pc EXCEPT ![w] = "deps"]
      BY <1>4 DEF GuardBudget, Pick, Goto
    <2>2. standing' = [standing EXCEPT ![w] = "admitted"]
      BY <1>4 DEF GuardBudget
    <2> QED
      BY <2>1, <2>2
  <1>5. ASSUME NEW w \in Workers, Refused(w)
        PROVE  AdmittedWork'
    BY <1>5 DEF Refused, Forget, budgetVars
  <1>6. ASSUME NEW w \in Workers, Working(w)
        PROVE  AdmittedWork'
    <2>1. standing' = [standing EXCEPT ![w] = IF pc'[w] = "idle" THEN "out" ELSE @]
      BY <1>6 DEF Working
    <2>2. CASE pc' = [pc EXCEPT ![w] = "idle"]
      BY <2>1, <2>2
    <2>3. CASE /\ pc[w] \notin {"idle", "pick"}
               /\ \E place \in Place \ {"idle"} : pc' = [pc EXCEPT ![w] = place]
      BY <2>1, <2>3
    <2> QED
      BY <1>6, <2>2, <2>3, WorkingMoves
  <1>7. ASSUME NEW w \in Workers, Ending(w)
        PROVE  AdmittedWork'
    <2>1. pc' = [pc EXCEPT ![w] = "idle"]
      BY <1>7 DEF Ending, Finish, Forget
    <2>2. \E s \in {"failed", "out"} : standing' = [standing EXCEPT ![w] = s]
      BY <1>7 DEF Ending
    <2> QED
      BY <2>1, <2>2
  <1>8. ASSUME NEW w \in Workers, Emit(w)
        PROVE  AdmittedWork'
    BY <1>8 DEF Emit, vars, workerVars
  <1> QED
    BY <1>1, <1>2, <1>3, <1>4, <1>5, <1>6, <1>7, <1>8 DEF BudgetNext, BudgetStep

\* The steps as the breaker sees them: one worker is or was let through, one
\* reports, or nobody comes in and nothing is counted.
LEMMA StepEffect ==
  ASSUME BudgetTypeOK, AdmittedWork, [BudgetNext]_allVars
  PROVE  \/ \E w \in Workers :
               /\ standing[w] = "out" => ~Exhausted
               /\ standing' = [standing EXCEPT ![w] = "admitted"]
               /\ failures' = failures
         \/ \E w \in Workers :
               /\ standing[w] = "failed"
               /\ standing' = [standing EXCEPT ![w] = "out"]
               /\ failures' \in {failures, failures + 1}
         \/ /\ failures' = failures \/ (failures > 0 /\ failures' = failures - 1)
            /\ \/ standing' = standing
               \/ \E w \in Workers : standing' = [standing EXCEPT ![w] = "out"]
               \/ \E w \in Workers : /\ standing[w] # "out"
                                     /\ standing' = [standing EXCEPT ![w] = "failed"]
  <1>1. CASE UNCHANGED allVars \/ AgeOut \/ Others
    BY <1>1 DEF allVars, budgetVars, AgeOut, Others
  <1>2. ASSUME NEW w \in Workers, Admit(w) \/ GuardBudget(w)
        PROVE  /\ standing[w] = "out" => ~Exhausted
               /\ standing' = [standing EXCEPT ![w] = "admitted"]
               /\ failures' = failures
    BY <1>2 DEF Admit, GuardBudget
  <1>3. ASSUME NEW w \in Workers, Begin(w) \/ Refused(w)
        PROVE  standing' = standing /\ failures' = failures
    BY <1>3 DEF Begin, Refused, budgetVars
  <1>4. ASSUME NEW w \in Workers, Working(w)
        PROVE  /\ failures' = failures
               /\ standing' = standing \/ standing' = [standing EXCEPT ![w] = "out"]
    BY <1>4 DEF Working, BudgetTypeOK
  <1>5. ASSUME NEW w \in Workers, Ending(w)
        PROVE  /\ failures' = failures
               /\ \/ standing' = [standing EXCEPT ![w] = "out"]
                  \/ standing[w] # "out" /\ standing' = [standing EXCEPT ![w] = "failed"]
    BY <1>5 DEF Ending, Finish, AdmittedWork
  <1>6. ASSUME NEW w \in Workers, Emit(w)
        PROVE  /\ standing[w] = "failed"
               /\ standing' = [standing EXCEPT ![w] = "out"]
               /\ failures' \in {failures, failures + 1}
    BY <1>6 DEF Emit
  <1>7. CASE \E w \in Workers : BudgetStep(w)
    <2>1. PICK w \in Workers : BudgetStep(w)
      BY <1>7
    <2> QED
      BY <2>1, <1>2, <1>3, <1>4, <1>5, <1>6 DEF BudgetStep
  <1> QED
    BY <1>1, <1>7 DEF BudgetNext

LEMMA BudgetTypeStep ==
  ASSUME BudgetTypeOK, AdmittedWork, [BudgetNext]_allVars
  PROVE  BudgetTypeOK'
  BY StepEffect DEF BudgetTypeOK

LEMMA AdmittedFinite ==
  ASSUME BudgetTypeOK
  PROVE  /\ IsFiniteSet(Admitted)
         /\ Cardinality(Admitted) \in Nat /\ Cardinality(Workers) \in Nat
         /\ Cardinality(Admitted) <= Cardinality(Workers)
  <1>1. Admitted \subseteq Workers
    BY DEF Admitted
  <1> QED
    BY <1>1, BudgetAssumption, WorkerAssumption, FS_Subset, FS_CardinalityType

LEMMA BoundStep ==
  ASSUME BudgetInv, [BudgetNext]_allVars
  PROVE  BudgetBound'
  <1> SUFFICES ASSUME MaxFailures > 0
               PROVE  failures' + Cardinality(Admitted') < MaxFailures + Cardinality(Workers)
    BY DEF BudgetBound
  <1> USE DEF BudgetInv, BudgetTypeOK
  <1>1. BudgetTypeOK' /\ MaxFailures \in Nat
    BY BudgetTypeStep, BudgetAssumption
  <1>2. /\ IsFiniteSet(Admitted)
        /\ Cardinality(Admitted) \in Nat /\ Cardinality(Workers) \in Nat
    BY AdmittedFinite
  <1>3. Cardinality(Admitted') \in Nat /\ Cardinality(Admitted') <= Cardinality(Workers)
    <2>1. Admitted' \subseteq Workers
      BY DEF Admitted
    <2> QED
      BY <2>1, BudgetAssumption, WorkerAssumption, FS_Subset, FS_CardinalityType
  <1>4. failures + Cardinality(Admitted) < MaxFailures + Cardinality(Workers)
    BY DEF BudgetBound
  <1>5. ASSUME NEW w \in Workers, standing[w] = "out" => ~Exhausted,
               standing' = [standing EXCEPT ![w] = "admitted"], failures' = failures
        PROVE  failures' + Cardinality(Admitted') < MaxFailures + Cardinality(Workers)
    <2>1. CASE standing[w] = "out"
      <3>1. failures < MaxFailures
        BY <1>1, <1>5, <2>1 DEF Exhausted
      <3> QED
        BY <1>1, <1>2, <1>3, <1>5, <3>1
    <2>2. CASE standing[w] # "out"
      <3>1. Admitted' = Admitted
        BY <1>5, <2>2 DEF Admitted
      <3> QED
        BY <1>4, <1>5, <3>1
    <2> QED
      BY <2>1, <2>2
  <1>6. ASSUME NEW w \in Workers, standing[w] = "failed",
               standing' = [standing EXCEPT ![w] = "out"], failures' \in {failures, failures + 1}
        PROVE  failures' + Cardinality(Admitted') < MaxFailures + Cardinality(Workers)
    <2>1. w \in Admitted /\ Admitted' = Admitted \ {w}
      BY <1>6 DEF Admitted
    <2>2. Cardinality(Admitted') = Cardinality(Admitted) - 1
      BY <1>2, <2>1, FS_RemoveElement
    <2> QED
      BY <1>1, <1>2, <1>4, <1>6, <2>2
  <1>7. ASSUME failures' = failures \/ (failures > 0 /\ failures' = failures - 1),
               \/ standing' = standing
               \/ \E w \in Workers : standing' = [standing EXCEPT ![w] = "out"]
               \/ \E w \in Workers : /\ standing[w] # "out"
                                     /\ standing' = [standing EXCEPT ![w] = "failed"]
        PROVE  failures' + Cardinality(Admitted') < MaxFailures + Cardinality(Workers)
    <2>1. Admitted' \subseteq Admitted
      BY <1>7 DEF Admitted
    <2>2. Cardinality(Admitted') <= Cardinality(Admitted)
      BY <1>2, <2>1, FS_Subset
    <2> QED
      BY <1>1, <1>2, <1>3, <1>4, <1>7, <2>2
  <1> QED
    BY StepEffect, <1>5, <1>6, <1>7

LEMMA BudgetInitInv ==
  ASSUME BudgetInit
  PROVE  BudgetInv
  <1>1. BudgetTypeOK
    BY BudgetAssumption DEF BudgetInit, BudgetTypeOK
  <1>2. AdmittedWork
    BY DEF BudgetInit, Init, AdmittedWork, Place, Executing, Guarding
  <1>3. Cardinality(Workers) \in Nat /\ Cardinality(Workers) # 0
    BY BudgetAssumption, WorkerAssumption, FS_EmptySet, FS_CardinalityType
  <1>4. Admitted = {} /\ Cardinality(Admitted) = 0
    BY FS_EmptySet DEF BudgetInit, Admitted
  <1>5. BudgetBound
    BY <1>3, <1>4, BudgetAssumption, WorkerAssumption DEF BudgetInit, BudgetBound
  <1> QED
    BY <1>1, <1>2, <1>5 DEF BudgetInv

\* However many workers run side by side, and whichever events are lost, the
\* failures in the window stay below max_failures plus the number of workers:
\* ErrorBudget.exhausted asked once per run is late by the runs in flight,
\* never by more.
THEOREM BudgetCorrect == BudgetSpec => []BudgetBound
<1>1. BudgetInit => BudgetInv
  BY BudgetInitInv
<1>2. BudgetInv /\ [BudgetNext]_allVars => BudgetInv'
  BY BudgetTypeStep, AdmittedWorkStep, BoundStep DEF BudgetInv
<1>3. BudgetInv => BudgetBound
  BY DEF BudgetInv
<1> QED
  BY <1>1, <1>2, <1>3, PTL DEF BudgetSpec

\* With the breaker, workers do nothing that they could not do without it: a
\* refused run is, for the queue, the remote and the forge, one that ended
\* before its claim.  So everything WorkerRuns_proofs proves of Spec holds
\* with any error budget.
THEOREM BudgetOnlyRefuses == Crashes => (BudgetSpec => Spec)
<1> SUFFICES ASSUME Crashes
             PROVE  BudgetSpec => Spec
  OBVIOUS
<1>1. BudgetInit => Init
  BY DEF BudgetInit
<1>2. [BudgetNext]_allVars => [Next]_vars
  <2> SUFFICES ASSUME [BudgetNext]_allVars
               PROVE  Next \/ UNCHANGED vars
    OBVIOUS
  <2>1. CASE UNCHANGED allVars \/ AgeOut
    BY <2>1 DEF allVars, AgeOut
  <2>2. CASE Others
    BY <2>2 DEF Others, Next
  <2>3. ASSUME NEW w \in Workers, BudgetStep(w)
        PROVE  WorkerStep(w) \/ UNCHANGED vars
    <3>1. CASE Admit(w) \/ Emit(w)
      BY <3>1 DEF Admit, Emit
    <3>2. CASE Begin(w)
      BY <3>2 DEF Begin, WorkerStep
    <3>3. CASE GuardBudget(w) \/ Ending(w)
      BY <3>3 DEF GuardBudget, Ending, WorkerStep
    <3>4. CASE Refused(w)
      BY <3>4 DEF Refused, Crash, WorkerStep
    <3>5. CASE Working(w)
      BY <3>5 DEF Working, WorkerStep
    <3> QED
      BY <2>3, <3>1, <3>2, <3>3, <3>4, <3>5 DEF BudgetStep
  <2> QED
    BY <2>1, <2>2, <2>3 DEF BudgetNext, Next
<1> QED
  BY <1>1, <1>2, PTL DEF BudgetSpec, Spec
\* Under any error budget the workers exclude one another, pay for their runs
\* and stop retrying: MutualExclusion, RunsArePaid and RetryBound hold of the
\* specification with the breaker.
THEOREM BudgetedWorkersCorrect ==
    Crashes /\ "queued" \notin OperatorMoves =>
        (BudgetSpec => [](MutualExclusion /\ RunsArePaid /\ RetryBound))
<1> SUFFICES ASSUME Crashes, "queued" \notin OperatorMoves
             PROVE  BudgetSpec => [](MutualExclusion /\ RunsArePaid /\ RetryBound)
  OBVIOUS
<1>1. BudgetSpec => Spec
  BY BudgetOnlyRefuses
<1>2. Spec => []MutualExclusion
  BY Exclusion
<1>3. Spec => []RunsArePaid
  BY PaidRuns
<1>4. Spec => []RetryBound
  BY RetryCorrect
<1>5. QED
  BY <1>1, <1>2, <1>3, <1>4, PTL

-----------------------------------------------------------------------------
(* The cluster: its steps, as the workers see them                         *)

ClusterInv ==
    /\ TypeInv
    /\ DispatchTypeOK
    /\ sweepPc = "fail" => doomed \in Tasks

\* The one thing the sweep does to the workers' world that they and the
\* operator do not do themselves: it fails a task whose dependency failed.
Refuse(t) ==
    /\ Transition(t, "queued", "failed", NoEvidence)
    /\ UNCHANGED <<workerVars, gitVars, runs>>

LEMMA ClusterStep ==
    ASSUME ClusterInv, [DispatchNext]_dispatchVars
    PROVE  [Next]_vars \/ \E t \in Tasks : Refuse(t)
<1>1. ASSUME NEW t \in Tasks, StartPod(t) \/ PodStep(t) \/ PodDies(t)
      PROVE  WorkerStep(t)
  BY <1>1 DEF StartPod, PodStep, PodDies, WorkerStep
<1>2. CASE SweepRelease
  <2>1. CASE ReleaseStale
    BY <1>2, <2>1 DEF SweepRelease, Sweep, Next
  <2>2. CASE UNCHANGED queueVars
    BY <1>2, <2>2 DEF SweepRelease, vars
  <2>3. QED
    BY <1>2, <2>1, <2>2 DEF SweepRelease
<1>3. CASE FailDependent
  <2>1. CASE UNCHANGED queueVars
    BY <1>3, <2>1 DEF FailDependent, vars
  <2>2. CASE Transition(doomed, "queued", "failed", NoEvidence)
    BY <1>3, <2>2 DEF FailDependent, Refuse, ClusterInv
  <2>3. QED
    BY <1>3, <2>1, <2>2 DEF FailDependent
<1>4. CASE SweepList \/ DispatchTask \/ SweepEnd \/ SweepFails \/ UNCHANGED dispatchVars
  BY <1>4 DEF SweepList, DispatchTask, SweepEnd, SweepFails, dispatchVars
<1>5. ASSUME NEW t \in Tasks, CollectJob(t)
      PROVE  UNCHANGED vars
  BY <1>5 DEF CollectJob
<1>6. CASE Beside
  BY <1>6 DEF Beside, Next
<1>7. QED
  BY <1>1, <1>2, <1>3, <1>4, <1>5, <1>6, DispatchAssumption DEF DispatchNext, SweepStep, Next

LEMMA RefuseIsQueueStep ==
    ASSUME NEW t \in Tasks, Refuse(t)
    PROVE  QueueNext
<1>1. NoEvidence \in Evidence
  BY DEF Evidence, NoEvidence, Link
<1>2. QED
  BY <1>1 DEF Refuse, QueueNext, TaskState

LEMMA RefuseTyped ==
    ASSUME TypeInv, NEW t \in Tasks, Refuse(t)
    PROVE  TypeInv'
<1>1. QueueTypeOK'
  BY RefuseIsQueueStep, QueueTypeStep DEF TypeInv, TypeOK
<1>2. WorkerTypeOK'
  BY DEF Refuse, TypeInv, TypeOK, WorkerTypeOK, workerVars, gitVars
<1>3. Stored'
  BY DEF Refuse, Transition, TypeInv, TypeOK, QueueTypeOK, Stored, workerVars
<1>4. QED
  BY <1>1, <1>2, <1>3 DEF TypeInv, TypeOK

LEMMA ClusterInvStep ==
    ClusterInv /\ [DispatchNext]_dispatchVars => ClusterInv'
<1> SUFFICES ASSUME ClusterInv, [DispatchNext]_dispatchVars
             PROVE  ClusterInv'
  OBVIOUS
<1>1. TypeInv'
  <2>1. TypeInv
    BY DEF ClusterInv
  <2>2. QED
    BY <2>1, ClusterStep, RefuseTyped, TypeInvStep
<1>2. /\ jobs' \in [Tasks -> {"none", "created", "up", "over"}]
      /\ sweepPc' \in {"idle", "list", "dispatch", "fail"}
      /\ listed' \subseteq Tasks
      /\ doomed' \in Tasks \union {NULL}
      /\ hitches' \in 0..MaxHitches
      /\ sweepPc' = "fail" => doomed' \in Tasks
  <2> USE DispatchAssumption DEF ClusterInv, DispatchTypeOK
  <2>1. CASE SweepRelease \/ SweepList \/ SweepEnd
    BY <2>1 DEF SweepRelease, SweepList, SweepEnd, List
  <2>2. CASE DispatchTask
    BY <2>2 DEF DispatchTask, CreateJob
  <2>3. CASE FailDependent
    BY <2>3 DEF FailDependent
  <2>4. CASE SweepFails
    BY <2>4 DEF SweepFails
  <2>5. ASSUME NEW t \in Tasks, StartPod(t) \/ PodStep(t) \/ CollectJob(t)
        PROVE  /\ jobs' \in [Tasks -> {"none", "created", "up", "over"}]
               /\ UNCHANGED <<sweepPc, listed, doomed, hitches>>
    BY <2>5 DEF StartPod, PodStep, CollectJob
  <2>6. ASSUME NEW t \in Tasks, PodDies(t)
        PROVE  /\ jobs' \in [Tasks -> {"none", "created", "up", "over"}]
               /\ hitches' \in 0..MaxHitches
               /\ UNCHANGED <<sweepPc, listed, doomed>>
    BY <2>6 DEF PodDies
  <2>7. CASE Beside \/ UNCHANGED dispatchVars
    BY <2>7 DEF Beside, clusterVars, dispatchVars
  <2>8. QED
    BY <2>1, <2>2, <2>3, <2>4, <2>5, <2>6, <2>7 DEF DispatchNext, SweepStep
<1>3. QED
  BY <1>1, <1>2 DEF ClusterInv, DispatchTypeOK, TypeInv

LEMMA ClusterInvCorrect == DispatchSpec => []ClusterInv
<1>1. DispatchInit => ClusterInv
  <2> SUFFICES ASSUME DispatchInit PROVE ClusterInv
    OBVIOUS
  <2>1. TypeInv
    BY TypeInvInit DEF DispatchInit
  <2>2. QED
    BY <2>1, DispatchAssumption DEF DispatchInit, ClusterInv, DispatchTypeOK, TypeInv
<1>2. QED
  BY <1>1, ClusterInvStep, PTL DEF DispatchSpec

\* The sweep, the Jobs, the pods and the table stay well-formed; in particular
\* the sweep fails only a task it listed (dispatch_once).
THEOREM DispatchTypeCorrect == DispatchSpec => []DispatchTypeOK
<1>1. ClusterInv => DispatchTypeOK
  BY DEF ClusterInv
<1>2. QED
  BY <1>1, ClusterInvCorrect, PTL

\* The sweep and the pods together do to the table what the Queue port allows
\* and nothing else.
THEOREM DispatchImplementsQueue == DispatchSpec => ImplementsQueue
<1>1. DispatchInit => QueueInit
  BY DEF DispatchInit, Init
<1>2. ClusterInv /\ [DispatchNext]_dispatchVars => [QueueNext]_queueVars
  <2> SUFFICES ASSUME ClusterInv, [DispatchNext]_dispatchVars
               PROVE  [QueueNext]_queueVars
    OBVIOUS
  <2>1. TypeOK
    BY DEF ClusterInv, TypeInv
  <2>2. QED
    BY <2>1, ClusterStep, QueueStep, RefuseIsQueueStep
<1>3. QED
  BY <1>1, <1>2, ClusterInvCorrect, PTL DEF DispatchSpec, QueueSpec, ImplementsQueue

-----------------------------------------------------------------------------
(* The cluster: dependencies                                               *)

LEMMA RefusePublishes ==
    ASSUME TypeInv, PublishTrace, DoneIsPublished, Waited, DependencyPublishedFirst,
           NEW t \in Tasks, Refuse(t)
    PROVE  (PublishTrace /\ DoneIsPublished /\ Waited /\ DependencyPublishedFirst)'
<1>1. UNCHANGED <<pc, snap, myRun, result, runs, remote, prs>>
  BY DEF Refuse, workerVars, gitVars
<1>2. PublishTrace' /\ Waited' /\ DependencyPublishedFirst'
  BY <1>1 DEF PublishTrace, Waited, Published, DependencyPublishedFirst
<1>3. DoneIsPublished'
  BY <1>1 DEF Refuse, Transition, TypeInv, TypeOK, QueueTypeOK, DoneIsPublished
<1>4. QED
  BY <1>2, <1>3

\* The cluster, too, starts no run of a task before every task it depends on
\* is published: neither the sweep's reading of the dependencies, nor a Job
\* that waited, nor the pod's reading before its claim can be that stale.
THEOREM DispatchDependenciesCorrect ==
    "done" \notin OperatorMoves => (DispatchSpec => []DependencyPublishedFirst)
<1> SUFFICES ASSUME "done" \notin OperatorMoves
             PROVE  DispatchSpec => []DependencyPublishedFirst
  OBVIOUS
<1> DEFINE Inv == PublishTrace /\ DoneIsPublished /\ Waited /\ DependencyPublishedFirst
<1>1. DispatchInit => Inv
  BY DEF DispatchInit, Init, QueueInit, PublishTrace, DoneIsPublished, Executing, Waited,
         DependencyPublishedFirst
<1>2. ClusterInv /\ Inv /\ [DispatchNext]_dispatchVars => Inv'
  <2> SUFFICES ASSUME ClusterInv, Inv, [DispatchNext]_dispatchVars
               PROVE  Inv'
    OBVIOUS
  <2>1. TypeInv
    BY DEF ClusterInv
  <2>2. CASE [Next]_vars
    BY <2>1, <2>2, PublishTraceStep, DoneStep, WaitedStep, DependencyStep
  <2>3. CASE \E t \in Tasks : Refuse(t)
    BY <2>1, <2>3, RefusePublishes
  <2>4. QED
    BY <2>2, <2>3, ClusterStep
<1>3. Inv => DependencyPublishedFirst
  OBVIOUS
<1>4. QED
  BY <1>1, <1>2, <1>3, ClusterInvCorrect, PTL DEF DispatchSpec
-----------------------------------------------------------------------------
(* The cluster: the lifecycle of a task                                    *)

Guards == {"pick", "deps", "policy", "fail", "claim"}

\* A pod is up exactly while its process lives; a Job is created only for a
\* task that no pod can have started meanwhile; and the sweep fails only a task
\* with a failed dependency.
JobInv ==
    /\ \A t \in Tasks :
        /\ jobs[t] = "up" <=> pc[t] # "idle"
        /\ t \in listed /\ jobs[t] = "none" => state[t] = "queued"
        /\ jobs[t] = "created" => state[t] \in {"queued", "failed"}
    /\ sweepPc = "fail" =>
        /\ doomed \in Tasks \ listed
        /\ \E d \in Deps[doomed] : state[d] \in {"failed", "rejected"}

\* A row that a pod read, and the table it acts on.
ReadRow(t, row) ==
    row.task = t /\ row.state \in {"queued", "failed"} /\ row.attempts = attempts[t]

\* Until its pod claims it, a task is not run and its attempts do not change
\* under the rows the pod holds.
ReadInv ==
    \A t \in Tasks :
        /\ pc[t] \notin Guards => todo[t] = {}
        /\ pc[t] \in Guards => state[t] \in {"queued", "failed"}
        /\ \A row \in todo[t] : ReadRow(t, row)
        /\ pc[t] \in Guards \ {"pick"} => ReadRow(t, snap[t])

Ready(t) == \A d \in Deps[t] : state[d] = "done"

\* Running, or given back by the sweep under its live pod.
Started(t, s) == s = "running" \/ (s = "queued" /\ attempts[t] > 0)

\* A task is run while attempts are left and its dependencies are done, and
\* until its pod settles it nobody else does.
RunInv ==
    \A t \in Tasks :
        /\ pc[t] \in {"policy", "claim"} \union Executing => Ready(t)
        /\ pc[t] \in Executing => snap[t].task = t /\ Started(t, state[t])
        /\ pc[t] \in Executing \ {"reread"} => Started(t, snap[t].state)
        /\ state[t] = "running" => attempts[t] < MaxAttempts

LifeInv == ClusterInv /\ Guarded /\ JobInv /\ ReadInv /\ RunInv

\* The safety of TaskLifecycle: its specification without the fairness.
LifecycleSafe == Lifecycle!Init /\ [][Lifecycle!Next]_(Lifecycle!vars)

LEMMA TransitionMoves ==
    ASSUME NEW t \in Tasks, NEW from, NEW to, NEW ev, Transition(t, from, to, ev)
    PROVE  Lifecycle!Move(t, from, to)
BY DEF Transition, Lifecycle!Move

LEMMA PodMoves ==
    ASSUME LifeInv, NEW t \in Tasks, PodStep(t)
    PROVE  Lifecycle!Progress(t) \/ UNCHANGED <<state, attempts>>
<1>1. CASE FailTask(t)
  <2>1. CASE UNCHANGED queueVars
    BY <2>1 DEF queueVars
  <2>2. CASE Transition(snap[t].task, snap[t].state, "failed", NoEvidence)
    <3>1. snap[t].task = t /\ snap[t].state \in {"queued", "failed"}
      BY <1>1 DEF FailTask, LifeInv, ReadInv, ReadRow, Guards
    <3>2. CASE snap[t].state = "queued"
      BY <2>2, <3>1, <3>2, TransitionMoves DEF Lifecycle!Progress, Lifecycle!Refuse
    <3>3. CASE snap[t].state = "failed"
      BY <2>2, <3>1, <3>3 DEF Transition, LifeInv, ClusterInv, TypeInv, TypeOK, QueueTypeOK
    <3>4. QED
      BY <3>1, <3>2, <3>3
  <2>3. QED
    BY <1>1, <2>1, <2>2 DEF FailTask
<1>2. CASE ClaimTask(t)
  <2>1. snap[t].task = t
    BY <1>2 DEF ClaimTask, LifeInv, ReadInv, ReadRow, Guards
  <2>2. Lifecycle!Move(t, "queued", "running")
    BY <1>2, <2>1 DEF ClaimTask, Claim, Lifecycle!Move
  <2>3. QED
    BY <2>2 DEF Lifecycle!Progress, Lifecycle!Start
<1>3. ASSUME NEW to \in {"done", "failed"}, NEW ev, pc[t] \in Executing \ {"reread"},
             TryTransition(snap[t].task, snap[t].state, to, ev)
      PROVE  Lifecycle!Progress(t) \/ UNCHANGED <<state, attempts>>
  <2>1. snap[t].task = t /\ Started(t, snap[t].state)
    BY <1>3 DEF LifeInv, RunInv, Executing
  <2>2. CASE UNCHANGED queueVars
    BY <2>2 DEF queueVars
  <2>3. CASE Transition(t, snap[t].state, to, ev)
    <3>1. Lifecycle!Move(t, snap[t].state, to)
      BY <2>3, TransitionMoves
    <3>2. QED
      BY <1>3, <2>1, <3>1 DEF Started, Lifecycle!Progress, Lifecycle!Settle,
         Lifecycle!SettleLate, Lifecycle!Refuse
  <2>4. QED
    BY <1>3, <2>1, <2>2, <2>3 DEF TryTransition
<1>4. CASE WorktreeFails(t)
  BY <1>3, <1>4 DEF WorktreeFails, Executing
<1>5. CASE Finish(t)
  BY <1>3, <1>5 DEF Finish, Executing
<1>6. CASE UNCHANGED queueVars
  BY <1>6 DEF queueVars
<1>7. QED
  BY <1>1, <1>2, <1>4, <1>5, <1>6 DEF PodStep, Pick, GiveUp, CheckDependencies, CheckPolicy,
     ClaimLost, Reread, RunHarness, Push, OpenDraftPr

LEMMA LifecycleStep ==
    ASSUME OperatorMoves \subseteq {"policy"}, LifeInv, [DispatchNext]_dispatchVars
    PROVE  [Lifecycle!Next]_(Lifecycle!vars)
<1> USE DEF Lifecycle!vars
<1>1. CASE UNCHANGED queueVars
  BY <1>1 DEF queueVars
<1>2. CASE ReleaseStale
  <2>1. Stale \in SUBSET Tasks /\ \A t \in Stale : state[t] = "running" /\ attempts[t] < MaxAttempts
    BY DEF Stale, LifeInv, RunInv
  <2>2. Lifecycle!GiveBack(Stale)
    BY <1>2, <2>1 DEF ReleaseStale, Lifecycle!GiveBack
  <2>3. QED
    BY <2>1, <2>2 DEF Lifecycle!Next
<1>3. CASE FailDependent
  <2>1. CASE Transition(doomed, "queued", "failed", NoEvidence)
    <3>1. doomed \in Tasks /\ Lifecycle!Move(doomed, "queued", "failed")
      BY <1>3, <2>1, TransitionMoves DEF FailDependent, LifeInv, ClusterInv
    <3>2. QED
      BY <3>1 DEF Lifecycle!Next, Lifecycle!Progress, Lifecycle!Refuse
  <2>2. QED
    BY <1>1, <1>3, <2>1 DEF FailDependent
<1>4. ASSUME NEW t \in Tasks, PodStep(t)
      PROVE  [Lifecycle!Next]_(Lifecycle!vars)
  BY <1>4, PodMoves DEF Lifecycle!Next
<1>5. CASE Beside
  <2>1. ASSUME NEW t \in Tasks, Submit(t)
        PROVE  Lifecycle!Next
    BY <2>1 DEF Submit, Enqueue, Lifecycle!Next, Lifecycle!Submit, Lifecycle!Move
  <2>2. CASE PassTime
    BY <2>2 DEF PassTime, Tick
  <2>3. QED
    BY <1>5, <2>1, <2>2 DEF Beside, OperatorClaim, OperatorMove
<1>6. ASSUME NEW t \in Tasks, StartPod(t) \/ PodDies(t) \/ CollectJob(t)
      PROVE  UNCHANGED queueVars
  BY <1>6 DEF StartPod, StartRun, PodDies, Crash, CollectJob, vars
<1>7. CASE SweepList \/ DispatchTask \/ SweepEnd \/ SweepFails \/ UNCHANGED dispatchVars
  BY <1>1, <1>7 DEF SweepList, DispatchTask, SweepEnd, SweepFails, dispatchVars, vars
<1>8. QED
  BY <1>1, <1>2, <1>3, <1>4, <1>5, <1>6, <1>7 DEF DispatchNext, SweepStep, SweepRelease

\* What settled stays so, and attempts are only counted up.
LEMMA SettledStays ==
    ASSUME TypeInv, TypeInv', [Lifecycle!Next]_(Lifecycle!vars), NEW t \in Tasks
    PROVE  /\ state[t] \notin {"absent", "queued", "running"} => state'[t] = state[t]
           /\ attempts'[t] >= attempts[t]
<1> USE DEF TypeInv, TypeOK, QueueTypeOK
<1>1. ASSUME NEW u \in Tasks, NEW from \in {"absent", "queued", "running"}, NEW to,
             Lifecycle!Move(u, from, to)
      PROVE  /\ state[t] \notin {"absent", "queued", "running"} => state'[t] = state[t]
             /\ attempts'[t] >= attempts[t]
  BY <1>1 DEF Lifecycle!Move
<1>2. ASSUME NEW S \in SUBSET Tasks, Lifecycle!GiveBack(S)
      PROVE  /\ state[t] \notin {"absent", "queued", "running"} => state'[t] = state[t]
             /\ attempts'[t] >= attempts[t]
  BY <1>2 DEF Lifecycle!GiveBack
<1>3. CASE UNCHANGED Lifecycle!vars
  BY <1>3 DEF Lifecycle!vars
<1>4. QED
  BY <1>1, <1>2, <1>3 DEF Lifecycle!Next, Lifecycle!Progress, Lifecycle!Submit, Lifecycle!Start,
     Lifecycle!Refuse, Lifecycle!Settle, Lifecycle!SettleLate
PodOf(t) == StartPod(t) \/ PodStep(t) \/ PodDies(t)

\* A pod works on its own task's row and in its own memory.
LEMMA PodFrame ==
    ASSUME LifeInv, NEW u \in Tasks, PodOf(u), NEW t \in Tasks, t # u
    PROVE  /\ state'[t] = state[t] /\ attempts'[t] = attempts[t]
           /\ pc'[t] = pc[t] /\ todo'[t] = todo[t] /\ snap'[t] = snap[t]
           /\ jobs'[t] = jobs[t]
<1> USE DEF LifeInv, ClusterInv, DispatchTypeOK, TypeOK, WorkerTypeOK, QueueTypeOK
<1>1. state'[t] = state[t] /\ attempts'[t] = attempts[t]
  <2>1. CASE PodStep(u)
    <3>1. CASE UNCHANGED <<state, attempts>>
      BY <3>1
    <3>2. CASE Lifecycle!Progress(u)
      BY <3>2 DEF Lifecycle!Progress, Lifecycle!Start, Lifecycle!Refuse, Lifecycle!Settle,
         Lifecycle!SettleLate, Lifecycle!GiveBack, Lifecycle!Move
    <3>3. QED
      BY <2>1, <3>1, <3>2, PodMoves
  <2>2. CASE StartPod(u) \/ PodDies(u)
    BY <2>2 DEF StartPod, StartRun, PodDies, Crash, queueVars
  <2>3. QED
    BY <2>1, <2>2 DEF PodOf
<1>2. pc'[t] = pc[t] /\ todo'[t] = todo[t] /\ snap'[t] = snap[t]
  BY DispatchAssumption DEF PodOf, StartPod, PodStep, PodDies, StartRun, Pick, GiveUp,
     CheckDependencies, CheckPolicy, FailTask, ClaimTask, ClaimLost, Reread, WorktreeFails,
     RunHarness, Push, OpenDraftPr, PublishFailed, Finish, Crash, Forget, Goto
<1>3. jobs'[t] = jobs[t]
  BY DEF PodOf, StartPod, PodStep, PodDies
<1>4. QED
  BY <1>1, <1>2, <1>3

\* What can happen to a task's row while its own pod does nothing.
RowBeside(t) ==
    \/ state'[t] = state[t] /\ attempts'[t] = attempts[t]
    \/ state[t] = "running" /\ state'[t] = "queued" /\ attempts'[t] = attempts[t] + 1
    \/ /\ state[t] = "queued" /\ state'[t] = "failed" /\ attempts'[t] = attempts[t]
       /\ sweepPc = "fail" /\ doomed = t
    \/ state[t] = "absent" /\ state'[t] = "queued" /\ attempts'[t] = attempts[t]

LEMMA BesideThePod ==
    ASSUME OperatorMoves \subseteq {"policy"}, LifeInv, [DispatchNext]_dispatchVars,
           NEW t \in Tasks, ~PodOf(t)
    PROVE  RowBeside(t) /\ pc'[t] = pc[t] /\ todo'[t] = todo[t] /\ snap'[t] = snap[t]
<1> DEFINE Goal == RowBeside(t) /\ pc'[t] = pc[t] /\ todo'[t] = todo[t] /\ snap'[t] = snap[t]
<1> SUFFICES Goal
  OBVIOUS
<1> USE DEF LifeInv, ClusterInv, DispatchTypeOK, TypeOK, QueueTypeOK
<1>1. ASSUME NEW u \in Tasks, PodOf(u)
      PROVE  Goal
  <2>1. u # t
    BY <1>1
  <2>2. QED
    BY <1>1, <2>1, PodFrame DEF RowBeside
<1>2. CASE UNCHANGED vars
  BY <1>2 DEF vars, queueVars, workerVars, RowBeside
<1>3. CASE SweepRelease
  BY <1>3 DEF SweepRelease, ReleaseStale, Stale, queueVars, workerVars, RowBeside
<1>4. CASE FailDependent
  BY <1>4 DEF FailDependent, Transition, queueVars, workerVars, RowBeside
<1>5. CASE Beside
  <2>1. ASSUME NEW u \in Tasks, Submit(u)
        PROVE  Goal
    BY <2>1 DEF Submit, Enqueue, workerVars, RowBeside
  <2>2. CASE PassTime
    BY <2>2 DEF PassTime, Tick, workerVars, RowBeside
  <2>3. QED
    BY <1>5, <2>1, <2>2 DEF Beside, OperatorClaim, OperatorMove
<1>6. CASE SweepList \/ DispatchTask \/ SweepEnd \/ SweepFails \/ UNCHANGED dispatchVars
  BY <1>2, <1>6 DEF SweepList, DispatchTask, SweepEnd, SweepFails, dispatchVars
<1>7. ASSUME NEW u \in Tasks, CollectJob(u)
      PROVE  Goal
  BY <1>2, <1>7 DEF CollectJob
<1>8. QED
  BY <1>1, <1>3, <1>4, <1>5, <1>6, <1>7 DEF DispatchNext, SweepStep, PodOf

LEMMA ReadInvStep ==
    ASSUME OperatorMoves \subseteq {"policy"}, LifeInv, [DispatchNext]_dispatchVars
    PROVE  ReadInv'
<1> SUFFICES ASSUME NEW t \in Tasks
             PROVE  /\ pc'[t] \notin Guards => todo'[t] = {}
                    /\ pc'[t] \in Guards => state'[t] \in {"queued", "failed"}
                    /\ \A row \in todo'[t] : ReadRow(t, row)'
                    /\ pc'[t] \in Guards \ {"pick"} => ReadRow(t, snap[t])'
  BY DEF ReadInv
<1> USE DEF LifeInv, ReadInv, ReadRow
<1>1. CASE ~PodOf(t)
  <2>1. RowBeside(t) /\ pc'[t] = pc[t] /\ todo'[t] = todo[t] /\ snap'[t] = snap[t]
    BY <1>1, BesideThePod
  <2>2. pc[t] \in Guards => attempts'[t] = attempts[t] /\ state'[t] \in {"queued", "failed"}
    BY <2>1 DEF RowBeside
  <2>3. QED
    BY <2>1, <2>2
<1> USE DispatchAssumption DEF ClusterInv, DispatchTypeOK, TypeOK, WorkerTypeOK, QueueTypeOK
<1>2. CASE StartPod(t)
  BY <1>2 DEF StartPod, StartRun, RowOf, Goto, Guards, JobInv, queueVars
<1>3. CASE PodDies(t)
  BY <1>3 DEF PodDies, Crash, Forget, Guards
<1>4. CASE PodStep(t)
  <2>1. CASE Forget(t)
    BY <2>1 DEF Forget, Guards
  <2>2. CASE Pick(t)
    <3>1. PICK row \in todo[t] :
              /\ snap' = [snap EXCEPT ![t] = row]
              /\ todo' = [todo EXCEPT ![t] = @ \ {row}]
              /\ Goto(t, IF mode[t] = "run" /\ TooManyAttempts(row) THEN "fail" ELSE "deps")
      BY <2>2 DEF Pick
    <3>2. ReadRow(t, row) /\ pc[t] \in Guards
      BY <2>2 DEF Pick, Guards
    <3>3. /\ snap'[t] = row /\ todo'[t] = todo[t] \ {row}
          /\ pc'[t] \in {"fail", "deps"} /\ state' = state /\ attempts' = attempts
      BY <2>2, <3>1 DEF Pick, Goto, queueVars
    <3>4. QED
      BY <3>2, <3>3 DEF Guards
  <2>3. CASE CheckDependencies(t) \/ CheckPolicy(t) \/ ClaimLost(t)
    <3>1. /\ UNCHANGED <<snap, todo, state, attempts>> /\ pc[t] \in Guards \ {"pick"}
          /\ pc'[t] \in Guards
      BY <2>3 DEF CheckDependencies, CheckPolicy, ClaimLost, Goto, Guards, queueVars
    <3>2. QED
      BY <3>1 DEF Guards
  <2>4. CASE FailTask(t)
    <3>1. CASE /\ Transition(snap[t].task, snap[t].state, "failed", NoEvidence)
               /\ Goto(t, "pick")
               /\ UNCHANGED <<mode, todo, snap, myLease, myRun, result>>
      <4>1. snap[t].task = t /\ pc[t] = "fail"
        BY <2>4 DEF FailTask, Guards
      <4>2. state'[t] = "failed" /\ attempts' = attempts /\ pc'[t] = "pick"
        BY <3>1, <4>1 DEF Transition, Goto
      <4>3. QED
        BY <3>1, <4>1, <4>2 DEF Guards
    <3>2. QED
      BY <2>1, <2>4, <3>1 DEF FailTask
  <2>5. CASE ClaimTask(t)
    BY <2>5 DEF ClaimTask, Goto, Guards
  <2>6. CASE Reread(t) \/ RunHarness(t) \/ Push(t) \/ OpenDraftPr(t)
    <3>1. todo' = todo /\ pc[t] \notin Guards /\ pc'[t] \notin Guards
      BY <2>6 DEF Reread, RunHarness, Push, OpenDraftPr, PublishFailed, Goto, Guards
    <3>2. QED
      BY <3>1
  <2>7. QED
    BY <1>4, <2>1, <2>2, <2>3, <2>4, <2>5, <2>6 DEF PodStep, GiveUp, WorktreeFails, Finish
<1>5. QED
  BY <1>1, <1>2, <1>3, <1>4 DEF PodOf
LEMMA RunInvStep ==
    ASSUME OperatorMoves \subseteq {"policy"}, LifeInv, [DispatchNext]_dispatchVars
    PROVE  RunInv'
<1> SUFFICES ASSUME NEW t \in Tasks
             PROVE  /\ pc'[t] \in {"policy", "claim"} \union Executing => Ready(t)'
                    /\ pc'[t] \in Executing => snap'[t].task = t /\ Started(t, state[t])'
                    /\ pc'[t] \in Executing \ {"reread"} => Started(t, snap[t].state)'
                    /\ state'[t] = "running" => attempts'[t] < MaxAttempts
  BY DEF RunInv
<1>1. TypeInv /\ TypeInv' /\ [Lifecycle!Next]_(Lifecycle!vars)
  BY ClusterInvStep, LifecycleStep DEF LifeInv, ClusterInv
<1>2. Deps[t] \subseteq Tasks
  BY WorkerAssumption
<1>3. Ready(t) => Ready(t)'
  BY <1>1, <1>2, SettledStays DEF Ready
<1>4. attempts[t] \in Nat /\ attempts'[t] \in Nat /\ attempts'[t] >= attempts[t]
  BY <1>1, SettledStays DEF TypeInv, TypeOK, QueueTypeOK
<1> USE DEF LifeInv, RunInv
<1>5. CASE ~PodOf(t)
  <2>1. RowBeside(t) /\ pc'[t] = pc[t] /\ todo'[t] = todo[t] /\ snap'[t] = snap[t]
    BY <1>5, BesideThePod
  <2>2. ASSUME pc[t] \in Executing
        PROVE  Started(t, state[t])'
    <3>1. Started(t, state[t]) /\ Ready(t)
      BY <2>2
    <3>2. ~(sweepPc = "fail" /\ doomed = t)
      BY <3>1 DEF JobInv, Ready
    <3>3. QED
      BY <1>4, <2>1, <3>1, <3>2 DEF RowBeside, Started
  <2>3. Started(t, snap[t].state) => Started(t, snap[t].state)'
    BY <1>4, <2>1 DEF Started
  <2>4. state'[t] = "running" => attempts'[t] < MaxAttempts
    BY <2>1 DEF RowBeside
  <2>5. QED
    BY <1>3, <2>1, <2>2, <2>3, <2>4
<1> USE DispatchAssumption
<1>6. CASE UNCHANGED <<state, attempts>>
  <2> USE DEF ClusterInv, DispatchTypeOK, TypeOK, WorkerTypeOK, QueueTypeOK
  <2>1. CASE pc'[t] = "idle"
    BY <1>6, <2>1 DEF Executing
  <2>2. CASE StartPod(t) \/ Pick(t) \/ ClaimLost(t) \/ FailTask(t)
    <3>1. pc'[t] \notin {"policy", "claim"} \union Executing
      BY <2>2 DEF StartPod, StartRun, Pick, ClaimLost, FailTask, Forget, Goto, Executing
    <3>2. QED
      BY <1>6, <3>1 DEF Executing
  <2>3. CASE CheckDependencies(t) \/ CheckPolicy(t)
    <3>1. pc'[t] \notin Executing /\ (pc'[t] \in {"policy", "claim"} => Ready(t))
      <4>1. snap[t].task = t
        BY <2>3 DEF CheckDependencies, CheckPolicy, ReadInv, ReadRow, Guards
      <4>2. QED
        BY <2>3, <4>1 DEF CheckDependencies, CheckPolicy, Goto, DependencyStatus, Ready, Executing
    <3>2. QED
      BY <1>3, <1>6, <3>1
  <2>4. CASE Reread(t)
    <3>1. /\ snap'[t] = RowOf(snap[t].task) /\ pc[t] = "reread" /\ pc'[t] = "work"
      BY <2>4 DEF Reread, Goto
    <3>2. snap'[t].task = t /\ snap'[t].state = state[t] /\ Started(t, state[t]) /\ Ready(t)
      BY <3>1 DEF RowOf, Executing
    <3>3. QED
      BY <1>3, <1>6, <3>1, <3>2 DEF Started, Executing
  <2>5. CASE RunHarness(t) \/ Push(t) \/ OpenDraftPr(t)
    <3>1. snap' = snap /\ pc[t] \in Executing \ {"reread"}
      BY <2>5 DEF RunHarness, Push, OpenDraftPr, Executing
    <3>2. QED
      BY <1>3, <1>6, <3>1 DEF Started, Executing
  <2>6. ASSUME PodDies(t) \/ GiveUp(t) \/ WorktreeFails(t) \/ Finish(t)
        PROVE  pc'[t] = "idle"
    BY <2>6 DEF PodDies, Crash, GiveUp, WorktreeFails, Finish, Forget
  <2>7. ASSUME ClaimTask(t)
        PROVE  FALSE
    BY <1>6, <2>7, SnapTyped DEF ClaimTask, Claim, TypeInv
  <2>8. QED
    BY <1>5, <2>1, <2>2, <2>3, <2>4, <2>5, <2>6, <2>7 DEF PodOf, PodStep
<1>7. CASE ClaimTask(t)
  <2> USE DEF ClusterInv, DispatchTypeOK, TypeOK, WorkerTypeOK, QueueTypeOK
  <2>1. snap[t].task = t /\ snap[t].attempts = attempts[t] /\ Ready(t)
    BY <1>7 DEF ClaimTask, ReadInv, ReadRow, Guards
  <2>2. snap[t].attempts < MaxAttempts
    BY <1>7 DEF ClaimTask, Guarded
  <2>3. /\ state'[t] = "running" /\ attempts'[t] = attempts[t] /\ pc'[t] = "reread"
        /\ snap'[t] = snap[t]
    BY <1>7, <2>1 DEF ClaimTask, Claim, Goto
  <2>4. QED
    BY <1>3, <2>1, <2>2, <2>3 DEF Started, Executing
<1>8. CASE PodStep(t) /\ pc'[t] \in {"idle", "pick"} /\ state'[t] # "running"
  BY <1>8 DEF Executing
<1>9. CASE FailTask(t) \/ WorktreeFails(t) \/ Finish(t)
  <2> USE DEF ClusterInv, DispatchTypeOK, TypeOK, WorkerTypeOK, QueueTypeOK
  <2>1. pc'[t] \in {"idle", "pick"}
    BY <1>9 DEF FailTask, WorktreeFails, Finish, Forget, Goto
  <2>2. snap[t].task = t
    BY <1>9 DEF FailTask, WorktreeFails, Finish, ReadInv, ReadRow, Guards, Executing
  <2>3. UNCHANGED <<state, attempts>> \/ state'[t] # "running"
    BY <1>9, <2>2 DEF FailTask, WorktreeFails, Finish, TryTransition, Transition, queueVars
  <2>4. QED
    BY <1>6, <1>8, <1>9, <2>1, <2>3 DEF Executing
<1>10. QED
  <2>1. ASSUME StartPod(t) \/ PodDies(t)
        PROVE  UNCHANGED <<state, attempts>>
    BY <2>1 DEF StartPod, StartRun, PodDies, Crash, queueVars
  <2>2. ASSUME PodStep(t), ~ClaimTask(t), ~FailTask(t), ~WorktreeFails(t), ~Finish(t)
        PROVE  UNCHANGED <<state, attempts>>
    BY <2>2 DEF PodStep, Pick, GiveUp, CheckDependencies, CheckPolicy, ClaimLost, Reread,
       RunHarness, Push, OpenDraftPr, queueVars
  <2>3. QED
    BY <1>5, <1>6, <1>7, <1>9, <2>1, <2>2 DEF PodOf

LEMMA JobInvStep ==
    ASSUME OperatorMoves \subseteq {"policy"}, LifeInv, [DispatchNext]_dispatchVars
    PROVE  JobInv'
<1>1. TypeInv /\ TypeInv' /\ [Lifecycle!Next]_(Lifecycle!vars)
  BY ClusterInvStep, LifecycleStep DEF LifeInv, ClusterInv
<1> USE DispatchAssumption DEF LifeInv, ClusterInv, DispatchTypeOK, TypeOK, WorkerTypeOK
<1>2. ASSUME NEW t \in Tasks
      PROVE  jobs'[t] = "up" <=> pc'[t] # "idle"
  <2>1. CASE StartPod(t) \/ PodDies(t)
    BY <2>1 DEF StartPod, StartRun, PodDies, Crash, Forget, Goto
  <2>2. CASE PodStep(t)
    <3>1. pc[t] # "idle"
      BY <2>2 DEF PodStep, Pick, GiveUp, CheckDependencies, CheckPolicy, FailTask, ClaimTask,
         ClaimLost, Reread, WorktreeFails, RunHarness, Push, OpenDraftPr, Finish
    <3>2. QED
      BY <2>2, <3>1 DEF PodStep, JobInv
  <2>3. CASE ~PodOf(t)
    <3>1. pc'[t] = pc[t]
      BY <2>3, BesideThePod
    <3>2. jobs'[t] = "up" <=> jobs[t] = "up"
      <4>1. ASSUME NEW u \in Tasks, PodOf(u)
            PROVE  jobs'[t] = jobs[t]
        BY <2>3, <4>1, PodFrame
      <4>2. CASE DispatchTask
        BY <4>2 DEF DispatchTask, CreateJob
      <4>3. ASSUME NEW u \in Tasks, CollectJob(u)
            PROVE  jobs'[t] = "up" <=> jobs[t] = "up"
        BY <4>3 DEF CollectJob
      <4>4. CASE SweepRelease \/ SweepList \/ FailDependent \/ SweepEnd \/ SweepFails \/ Beside
                 \/ UNCHANGED dispatchVars
        BY <4>4 DEF SweepRelease, SweepList, FailDependent, SweepEnd, SweepFails, Beside,
           clusterVars, dispatchVars
      <4>5. QED
        BY <4>1, <4>2, <4>3, <4>4 DEF DispatchNext, SweepStep, PodOf
    <3>3. QED
      BY <3>1, <3>2 DEF JobInv
  <2>4. QED
    BY <2>1, <2>2, <2>3 DEF PodOf
<1>3. ASSUME NEW t \in Tasks, jobs'[t] \in {"none", "created"}
      PROVE  ~PodOf(t)
  <2>1. pc'[t] = "idle"
    BY <1>2, <1>3
  <2>2. QED
    BY <1>3, <2>1 DEF PodOf, StartPod, PodStep, PodDies
<1>4. ASSUME NEW t \in Tasks, t \in listed', jobs'[t] = "none"
      PROVE  state'[t] = "queued"
  <2>1. CASE SweepList
    BY <1>4, <2>1 DEF SweepList, List, vars, queueVars
  <2>2. CASE ~SweepList
    <3>1. t \in listed /\ jobs[t] = "none"
      BY <1>4, <2>2 DEF DispatchNext, SweepStep, SweepRelease, DispatchTask, CreateJob,
         FailDependent, SweepEnd, SweepFails, StartPod, PodStep, PodDies, CollectJob, Beside,
         clusterVars, dispatchVars
    <3>2. state[t] = "queued" /\ ~(sweepPc = "fail" /\ doomed = t)
      BY <3>1 DEF JobInv
    <3>3. RowBeside(t)
      BY <1>3, <1>4, BesideThePod
    <3>4. QED
      BY <3>2, <3>3 DEF RowBeside
  <2>3. QED
    BY <2>1, <2>2
<1>5. ASSUME NEW t \in Tasks, jobs'[t] = "created"
      PROVE  state'[t] \in {"queued", "failed"}
  <2>1. \/ jobs[t] = "created"
        \/ DispatchTask /\ t \in listed /\ jobs[t] = "none"
    BY <1>5 DEF DispatchNext, SweepStep, SweepRelease, SweepList, DispatchTask, CreateJob,
       FailDependent, SweepEnd, SweepFails, StartPod, PodStep, PodDies, CollectJob, Beside,
       clusterVars, dispatchVars
  <2>2. state[t] \in {"queued", "failed"}
    BY <2>1 DEF JobInv
  <2>3. RowBeside(t)
    BY <1>3, <1>5, BesideThePod
  <2>4. QED
    BY <2>2, <2>3 DEF RowBeside
<1>6. ASSUME sweepPc' = "fail"
      PROVE  /\ doomed' \in Tasks \ listed'
             /\ \E d \in Deps[doomed'] : state'[d] \in {"failed", "rejected"}
  <2>1. CASE DispatchTask
    <3>1. PICK t \in listed :
              /\ listed' = listed \ {t}
              /\ doomed' = t
              /\ DependencyStatus(t) = "failed"
      BY <1>6, <2>1 DEF DispatchTask
    <3>2. \E d \in Deps[t] : state[d] \in {"failed", "rejected"}
      BY <3>1 DEF DependencyStatus
    <3>3. state' = state
      BY <2>1 DEF DispatchTask, vars, queueVars
    <3>4. QED
      BY <3>1, <3>2, <3>3
  <2>2. CASE ~DispatchTask
    <3>1. sweepPc = "fail" /\ doomed' = doomed /\ listed' = listed
      BY <1>6, <2>2 DEF DispatchNext, SweepStep, SweepRelease, SweepList, FailDependent,
         SweepEnd, SweepFails, StartPod, PodStep, PodDies, CollectJob, Beside, clusterVars,
         dispatchVars
    <3>2. PICK d \in Deps[doomed] : state[d] \in {"failed", "rejected"}
      BY <3>1 DEF JobInv
    <3>3. d \in Tasks
      BY <3>1, <3>2, WorkerAssumption DEF JobInv
    <3>4. state'[d] = state[d]
      BY <1>1, <3>2, <3>3, SettledStays
    <3>5. QED
      BY <3>1, <3>2, <3>4 DEF JobInv
  <2>3. QED
    BY <2>1, <2>2
<1>7. QED
  BY <1>2, <1>4, <1>5, <1>6 DEF JobInv

\* While operators do no more than edit policies, the cluster keeps the safety
\* of the lifecycle for any tasks, dependencies, limits and failures: a settled
\* task stays settled, a run is given back only while attempts are left, and a
\* late pod settles only a task that was given back under it, although the
\* sweep, the pods and the Jobs' TTL all act on what they read earlier.
THEOREM DispatchKeepsLifecycle ==
    OperatorMoves \subseteq {"policy"} => (DispatchSpec => LifecycleSafe)
<1> SUFFICES ASSUME OperatorMoves \subseteq {"policy"}
             PROVE  DispatchSpec => LifecycleSafe
  OBVIOUS
<1>1. DispatchInit => Lifecycle!Init /\ Guarded /\ JobInv /\ ReadInv /\ RunInv
  BY DispatchAssumption DEF DispatchInit, Init, QueueInit, Lifecycle!Init, Guarded, JobInv,
     ReadInv, RunInv, Guards, Executing
<1>2. LifeInv /\ [DispatchNext]_dispatchVars
        => [Lifecycle!Next]_(Lifecycle!vars) /\ (Guarded /\ JobInv /\ ReadInv /\ RunInv)'
  <2> SUFFICES ASSUME LifeInv, [DispatchNext]_dispatchVars
               PROVE  [Lifecycle!Next]_(Lifecycle!vars) /\ (Guarded /\ JobInv /\ ReadInv /\ RunInv)'
    OBVIOUS
  <2>1. Guarded'
    <3>1. TypeInv /\ Guarded /\ ClusterInv
      BY DEF LifeInv, ClusterInv
    <3>2. ASSUME NEW t \in Tasks, Refuse(t)
          PROVE  Guarded'
      BY <3>1, <3>2 DEF Refuse, workerVars, Guarded
    <3>3. QED
      BY <3>1, <3>2, ClusterStep, GuardedStep
  <2>2. QED
    BY <2>1, LifecycleStep, JobInvStep, ReadInvStep, RunInvStep
<1>3. QED
  BY <1>1, <1>2, ClusterInvCorrect, PTL DEF DispatchSpec, LifeInv, LifecycleSafe
=============================================================================
