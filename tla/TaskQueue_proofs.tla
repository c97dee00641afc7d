-------------------------- MODULE TaskQueue_proofs --------------------------
(***************************************************************************)
(* What the queue guarantees to any caller, for any set of tasks, any      *)
(* lease and any number of runs.                                           *)
(***************************************************************************)
EXTENDS TaskQueue, TLAPS

\* Every operation of the port keeps the table typed.
LEMMA QueueTypeStep ==
    QueueTypeOK /\ [QueueNext]_queueVars => QueueTypeOK'
<1> USE QueueAssumption
<1> SUFFICES ASSUME QueueTypeOK, [QueueNext]_queueVars
             PROVE  QueueTypeOK'
  OBVIOUS
<1> USE DEF QueueTypeOK
<1>1. ASSUME NEW t \in Tasks, NEW s \in {"queued", "action"}, Enqueue(t, s)
      PROVE  QueueTypeOK'
  BY <1>1 DEF Enqueue, TaskState
<1>2. ASSUME NEW t \in Tasks, NEW lease \in 0..Lease, Claim(t, lease)
      PROVE  QueueTypeOK'
  BY <1>2 DEF Claim, TaskState
<1>3. ASSUME NEW t \in Tasks, NEW from \in TaskState, NEW to \in TaskState \ {"running"},
             NEW ev \in Evidence, Transition(t, from, to, ev)
      PROVE  QueueTypeOK'
  <2>1. [commit |-> Coalesce(ev.commit, evidence[t].commit),
         pr |-> Coalesce(ev.pr, evidence[t].pr)] \in Evidence
    BY DEF Evidence, Coalesce, Link
  <2>2. QED
    BY <1>3, <2>1 DEF Transition
<1>4. ASSUME NEW lease \in 0..Lease, ClaimNext(lease)
      PROVE  QueueTypeOK'
  BY <1>4, <1>2 DEF ClaimNext, List
<1>5. ASSUME ReleaseStale
      PROVE  QueueTypeOK'
  BY <1>5 DEF ReleaseStale, TaskState
<1>6. ASSUME Tick
      PROVE  QueueTypeOK'
  BY <1>6 DEF Tick
<1>7. ASSUME UNCHANGED queueVars
      PROVE  QueueTypeOK'
  BY <1>7 DEF queueVars
<1>8. QED
  BY <1>1, <1>2, <1>3, <1>4, <1>5, <1>6, <1>7 DEF QueueNext

\* The rows of the queue are typed: every operation of the port, with
\* whatever row its caller read before, leaves a well-formed table.
THEOREM QueueTypeCorrect == QueueSpec => []QueueTypeOK
<1> USE QueueAssumption
<1>1. QueueInit => QueueTypeOK
  BY DEF QueueInit, QueueTypeOK, Evidence, NoEvidence, Link
<1>2. QueueTypeOK /\ [QueueNext]_queueVars => QueueTypeOK'
  BY QueueTypeStep
<1>3. QED
  BY <1>1, <1>2, PTL DEF QueueSpec

\* No operation of the port deletes a row.
LEMMA RowsStay ==
    ASSUME QueueTypeOK, [QueueNext]_queueVars, NEW t \in Tasks, state[t] # "absent"
    PROVE  state'[t] # "absent"
<1>1. ASSUME NEW u \in Tasks, NEW lease \in 0..Lease, Claim(u, lease)
      PROVE  state'[t] # "absent"
  BY <1>1 DEF Claim, QueueTypeOK
<1>2. QED
  BY <1>1 DEF QueueNext, ClaimNext, List, Enqueue, Transition, ReleaseStale, Tick, queueVars,
              QueueTypeOK, TaskState

\* Every operation of the port keeps leases on the running rows only.
LEMMA LeaseStep ==
    QueueTypeOK /\ LeaseIffRunning /\ [QueueNext]_queueVars => LeaseIffRunning'
<1> USE QueueAssumption
<1> SUFFICES ASSUME QueueTypeOK, LeaseIffRunning, [QueueNext]_queueVars
             PROVE  LeaseIffRunning'
  OBVIOUS
<1> USE DEF QueueTypeOK, LeaseIffRunning
<1>1. ASSUME NEW t \in Tasks, NEW s \in {"queued", "action"}, Enqueue(t, s)
      PROVE  LeaseIffRunning'
  BY <1>1 DEF Enqueue, TaskState
<1>2. ASSUME NEW t \in Tasks, NEW lease \in 0..Lease, Claim(t, lease)
      PROVE  LeaseIffRunning'
  BY <1>2 DEF Claim, TaskState
<1>3. ASSUME NEW t \in Tasks, NEW from \in TaskState, NEW to \in TaskState \ {"running"},
             NEW ev \in Evidence, Transition(t, from, to, ev)
      PROVE  LeaseIffRunning'
  BY <1>3 DEF Transition
<1>4. ASSUME NEW lease \in 0..Lease, ClaimNext(lease)
      PROVE  LeaseIffRunning'
  BY <1>4, <1>2 DEF ClaimNext, List
<1>5. ASSUME ReleaseStale
      PROVE  LeaseIffRunning'
  BY <1>5 DEF ReleaseStale, Stale
<1>6. ASSUME Tick
      PROVE  LeaseIffRunning'
  BY <1>6 DEF Tick
<1>7. ASSUME UNCHANGED queueVars
      PROVE  LeaseIffRunning'
  BY <1>7 DEF queueVars
<1>8. QED
  BY <1>1, <1>2, <1>3, <1>4, <1>5, <1>6, <1>7 DEF QueueNext

\* A row carries a lease exactly while it is running, for any callers: the
\* sweep can find every crashed run, and a lease never outlives its run.
THEOREM LeaseCorrect == QueueSpec => []LeaseIffRunning
<1> USE QueueAssumption
<1>1. QueueInit => LeaseIffRunning
  BY DEF QueueInit, LeaseIffRunning
<1>2. QueueTypeOK /\ LeaseIffRunning /\ [QueueNext]_queueVars => LeaseIffRunning'
  BY LeaseStep
<1>3. QED
  BY <1>1, <1>2, QueueTypeCorrect, PTL DEF QueueSpec

\* Every operation of the port keeps one row per task.
LEMMA RowsStep ==
    QueueTypeOK /\ OneRowPerTask /\ [QueueNext]_queueVars => OneRowPerTask'
<1> USE QueueAssumption
<1> SUFFICES ASSUME QueueTypeOK, OneRowPerTask, [QueueNext]_queueVars
             PROVE  OneRowPerTask'
  OBVIOUS
<1> USE DEF QueueTypeOK, OneRowPerTask
<1>1. ASSUME NEW t \in Tasks, NEW s \in {"queued", "action"}, Enqueue(t, s)
      PROVE  OneRowPerTask'
  <2>1. /\ Len(order') = Len(order) + 1
        /\ \A i \in 1..Len(order) : order'[i] = order[i]
        /\ order'[Len(order) + 1] = t
        /\ Len(order) \in Nat
    BY <1>1 DEF Enqueue
  <2>2. \A i \in 1..Len(order) : order[i] # t
    BY <1>1 DEF Enqueue
  <2>3. \A u \in Tasks : state'[u] = IF u = t THEN s ELSE state[u]
    BY <1>1 DEF Enqueue
  <2>4. 1..Len(order') = (1..Len(order)) \union {Len(order) + 1}
    BY <2>1
  <2>5. \A u \in Tasks :
          (\E i \in 1..Len(order') : order'[i] = u)
            <=> u = t \/ \E i \in 1..Len(order) : order[i] = u
    BY <2>1, <2>4
  <2>6. \A u \in Tasks : state'[u] # "absent" <=> \E i \in 1..Len(order') : order'[i] = u
    BY <2>3, <2>5
  <2>7. ASSUME NEW i \in 1..Len(order'), NEW j \in 1..Len(order'), order'[i] = order'[j]
        PROVE  i = j
    <3>1. CASE i \in 1..Len(order) /\ j \in 1..Len(order)
      <4>1. order[i] = order[j]
        BY <2>1, <2>7, <3>1
      <4>2. QED
        BY <4>1, <3>1
    <3>2. CASE i = Len(order) + 1 /\ j \in 1..Len(order)
      BY <2>1, <2>2, <2>7, <3>2
    <3>3. CASE i \in 1..Len(order) /\ j = Len(order) + 1
      BY <2>1, <2>2, <2>7, <3>3
    <3>4. QED
      BY <2>4, <3>1, <3>2, <3>3
  <2>8. QED
    BY <2>6, <2>7
<1>2. ASSUME NEW t \in Tasks, NEW lease \in 0..Lease, Claim(t, lease)
      PROVE  OneRowPerTask'
  BY <1>2 DEF Claim
<1>3. ASSUME NEW t \in Tasks, NEW from \in TaskState, NEW to \in TaskState \ {"running"},
             NEW ev \in Evidence, Transition(t, from, to, ev)
      PROVE  OneRowPerTask'
  BY <1>3 DEF Transition, TaskState
<1>4. ASSUME NEW lease \in 0..Lease, ClaimNext(lease)
      PROVE  OneRowPerTask'
  BY <1>4, <1>2 DEF ClaimNext, List
<1>5. ASSUME ReleaseStale
      PROVE  OneRowPerTask'
  BY <1>5 DEF ReleaseStale, Stale
<1>6. ASSUME Tick
      PROVE  OneRowPerTask'
  BY <1>6 DEF Tick
<1>7. ASSUME UNCHANGED queueVars
      PROVE  OneRowPerTask'
  BY <1>7 DEF queueVars
<1>8. QED
  BY <1>1, <1>2, <1>3, <1>4, <1>5, <1>6, <1>7 DEF QueueNext

\* The table has one row per stored task, however often its message is
\* delivered and whoever delivers it.
THEOREM RowsCorrect == QueueSpec => []OneRowPerTask
<1> USE QueueAssumption
<1>1. QueueInit => OneRowPerTask
  BY DEF QueueInit, OneRowPerTask
<1>2. QueueTypeOK /\ OneRowPerTask /\ [QueueNext]_queueVars => OneRowPerTask'
  BY RowsStep
<1>3. QED
  BY <1>1, <1>2, QueueTypeCorrect, PTL DEF QueueSpec
=============================================================================
