------------------------------ MODULE TaskQueue ------------------------------
(***************************************************************************)
(* The durable queue of src/dear_agent/queue: one row per task in          *)
(* dear_agent_task, and the operations of the Queue port on it.  Every     *)
(* operation is one SQL statement in its own transaction, so every         *)
(* operation is one action here.                                           *)
(*                                                                         *)
(* QueueSpec is the queue under the most general caller: any number of     *)
(* processes, each of which may have read any row at any time.  The        *)
(* modules that model the callers (WorkerRuns, Dispatch, Inbound) extend   *)
(* this one and are shown to implement QueueSpec.                          *)
(*                                                                         *)
(* Abstracted: a task's text (sender, subject, spec), and the branch of    *)
(* its evidence, which is a function of the task (executor._slug).  The    *)
(* ORDER BY created_at, id is the sequence "order".  id and transport_id   *)
(* are one name: the normalizer and the CLI give both the same value.      *)
(***************************************************************************)
EXTENDS Integers, Sequences, FiniteSets

CONSTANTS
    Tasks,      \* the task ids (= transport ids) that may be submitted
    NULL,       \* SQL NULL
    Lease,      \* timedelta of a claim, in ticks of the clock
    MaxTime,    \* bound on the clock
    MaxRuns     \* bound on the runs of one task, which number its commits

ASSUME QueueAssumption ==
    /\ Lease \in Nat
    /\ MaxTime \in Nat
    /\ MaxRuns \in Nat
    /\ NULL \notin Nat

VARIABLES
    state,      \* column state; "absent" when there is no row
    attempts,   \* column attempts
    leaseUntil, \* column lease_until, NULL or an instant
    evidence,   \* columns commit and pr_url, NULL or the run that made them
    order,      \* the rows in the order they were created
    clock       \* the wall clock (utcnow)

queueVars == <<state, attempts, leaseUntil, evidence, order, clock>>

TaskState == {"queued", "running", "action", "done", "failed", "rejected", "approved"}

\* Whose commit, and whose pull request, a row points at: a run's number, or
\* 0 for the commit of the base branch.
Link == (0..MaxRuns) \union {NULL}
Evidence == [commit : Link, pr : Link]
NoEvidence == [commit |-> NULL, pr |-> NULL]

QueueTypeOK ==
    /\ state \in [Tasks -> TaskState \union {"absent"}]
    /\ attempts \in [Tasks -> Nat]
    /\ leaseUntil \in [Tasks -> Nat \union {NULL}]
    /\ evidence \in [Tasks -> Evidence]
    /\ order \in Seq(Tasks)
    /\ clock \in Nat

QueueInit ==
    /\ state = [t \in Tasks |-> "absent"]
    /\ attempts = [t \in Tasks |-> 0]
    /\ leaseUntil = [t \in Tasks |-> NULL]
    /\ evidence = [t \in Tasks |-> NoEvidence]
    /\ order = <<>>
    /\ clock = 0

-----------------------------------------------------------------------------
(* Reading                                                                 *)

\* ORDER BY created_at, id
Older(u, t) == \E i, j \in 1..Len(order) : i < j /\ order[i] = u /\ order[j] = t

\* list(state, limit): the oldest rows in a state, at most limit of them.
List(s, limit) ==
    {t \in Tasks : /\ state[t] = s
                   /\ Cardinality({u \in Tasks : state[u] = s /\ Older(u, t)}) < limit}

-----------------------------------------------------------------------------
(* Writing                                                                 *)

EnqueueClobber(t, s) ==
    /\ order' = Append(order, t)
    /\ state' = [state EXCEPT ![t] = s]
    /\ UNCHANGED <<attempts, leaseUntil, evidence, clock>>

\* INSERT ... ON CONFLICT DO NOTHING: a task that is already stored, under
\* its id or its transport id, is left alone.
Enqueue(t, s) ==
    /\ state[t] = "absent"
    /\ order' = Append(order, t)
    /\ state' = [state EXCEPT ![t] = s]
    /\ UNCHANGED <<attempts, leaseUntil, evidence, clock>>

\* UPDATE ... SET state = 'running', lease_until = now + lease
\*  WHERE id = t AND state = 'queued': the winner of a race.
Claim(t, lease) ==
    /\ state[t] = "queued"
    /\ state' = [state EXCEPT ![t] = "running"]
    /\ leaseUntil' = [leaseUntil EXCEPT ![t] = clock + lease]
    /\ UNCHANGED <<attempts, evidence, order, clock>>

\* The same guarded update of the oldest queued row.  SKIP LOCKED skips only
\* rows another claim is taking, which are not queued once that one commits.
ClaimNext(lease) == \E t \in List("queued", 1) : Claim(t, lease)

\* COALESCE(new, column): a link that was recorded is not erased by a run
\* that has none to record.
Coalesce(new, old) == IF new = NULL THEN old ELSE new

\* UPDATE ... WHERE id = t AND state = from: a compare-and-swap on the state
\* the caller read.  No caller transitions to 'running', so the lease is
\* always cleared.
Transition(t, from, to, ev) ==
    /\ state[t] = from
    /\ state' = [state EXCEPT ![t] = to]
    /\ leaseUntil' = [leaseUntil EXCEPT ![t] = NULL]
    /\ evidence' = [evidence EXCEPT ![t] =
                        [commit |-> Coalesce(ev.commit, evidence[t].commit),
                         pr |-> Coalesce(ev.pr, evidence[t].pr)]]
    /\ UNCHANGED <<attempts, order, clock>>

\* transition() as its caller sees it: the swap, or StateConflictError.
TryTransition(t, from, to, ev) ==
    \/ Transition(t, from, to, ev)
    \/ state[t] # from /\ UNCHANGED queueVars

StaleAtDeadline ==
    {t \in Tasks : state[t] = "running" /\ leaseUntil[t] # NULL /\ leaseUntil[t] <= clock}

\* WHERE state = 'running' AND lease_until IS NOT NULL AND lease_until < now
Stale ==
    {t \in Tasks : state[t] = "running" /\ leaseUntil[t] # NULL /\ leaseUntil[t] < clock}

ReleaseStaleOnce ==
    /\ Stale # {}
    /\ state' = [t \in Tasks |-> IF t \in Stale THEN "queued" ELSE state[t]]
    /\ leaseUntil' = [t \in Tasks |-> IF t \in Stale THEN NULL ELSE leaseUntil[t]]
    /\ UNCHANGED <<attempts, evidence, order, clock>>

\* One UPDATE returns every stale run to the queue and counts the attempt.
ReleaseStale ==
    /\ Stale # {}
    /\ state' = [t \in Tasks |-> IF t \in Stale THEN "queued" ELSE state[t]]
    /\ attempts' = [t \in Tasks |-> IF t \in Stale THEN attempts[t] + 1 ELSE attempts[t]]
    /\ leaseUntil' = [t \in Tasks |-> IF t \in Stale THEN NULL ELSE leaseUntil[t]]
    /\ UNCHANGED <<evidence, order, clock>>

\* Time passes.  Only leases depend on it, so it stands still while no
\* unexpired lease is recorded.
Tick ==
    /\ clock < MaxTime
    /\ \E t \in Tasks : leaseUntil[t] # NULL /\ leaseUntil[t] >= clock
    /\ clock' = clock + 1
    /\ UNCHANGED <<state, attempts, leaseUntil, evidence, order>>

QueueNext ==
    \/ \E t \in Tasks :
        \/ \E s \in {"queued", "action"} : Enqueue(t, s)
        \/ \E lease \in 0..Lease : Claim(t, lease)
        \/ \E from \in TaskState, to \in TaskState \ {"running"}, ev \in Evidence :
                Transition(t, from, to, ev)
    \/ \E lease \in 0..Lease : ClaimNext(lease)
    \/ ReleaseStale
    \/ Tick

QueueSpec == QueueInit /\ [][QueueNext]_queueVars

-----------------------------------------------------------------------------
(* Properties                                                              *)

\* A row has a lease exactly while it is running, and the lease ends at most
\* Lease from now: the sweep, which only looks at running rows with a lease
\* (release_stale), can always give a crashed run back, and no row carries a
\* lease over into its next run.
LeaseIffRunning ==
    \A t \in Tasks :
        /\ state[t] = "running" <=> leaseUntil[t] # NULL
        /\ leaseUntil[t] # NULL => leaseUntil[t] <= clock + Lease

\* The rows are exactly the stored tasks, each once: a redelivered message
\* (enqueue's ON CONFLICT DO NOTHING) never makes a second row, so list and
\* claim_next never offer one task twice.
OneRowPerTask ==
    /\ \A t \in Tasks : state[t] # "absent" <=> \E i \in 1..Len(order) : order[i] = t
    /\ \A i, j \in 1..Len(order) : order[i] = order[j] => i = j

=============================================================================
