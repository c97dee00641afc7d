# A verification project for Dear Agent

Dear Agent turns mail into tasks, tasks into agent runs in isolated worktrees, and runs into
draft pull requests that a human reviews. It is a set of small processes (CronJobs, Jobs, a
webhook server, operators' shells) that share one PostgreSQL database, one mailbox and one
git remote, and nothing else: no process holds a lock another one waits for. What makes it
hard is therefore not any single function but what happens *between* statements: another
process moves the row, a lease runs out, mail is delivered again, a pod dies.

The modules here are translated from the Python source under `src/src/dear_agent`
(`PROJECT.json`, key `map`, names the lines of every definition). TLC checks them on small
instances; TLAPS proves the most important results for every value of the constants.

## The system and the modules

| Component | State it keeps | Operations | Module |
| --- | --- | --- | --- |
| Task queue (`queue/`) | one row per task: state, lease, attempts, evidence | enqueue, claim, claim_next, transition, release_stale, list | `TaskQueue`, proofs in `TaskQueue_proofs` |
| Task worker and executor (`worker.py`, `executor.py`) | snapshots of rows, worktree, remote branch, pull request | run, run_next, guards, claim, publish, record | `WorkerRuns`, proofs in `WorkerRuns_proofs` |
| Events and error budget (`events.py`, `worker.py`) | task.failed events in a window | ask before a run, record a failure, age out | `ErrorBudget` on `WorkerRuns`, proofs in `WorkerRuns_proofs` |
| Building a worker (`worker_factory.py`, `environment/`, `runners/catalog.py`) | image, session, bundle cache with its marker | detect, build, open a session, fill the cache, install | `Environment` |
| One run in detail (`executor.py`, `runners/`, `verify.py`, `review.py`, `sandbox.py`, `gitplane/`) | worktree, containers of each class, request and result files | choose, harness, verify gate, debate, commit, push, pull request, clean up; delegate and serve | `Execution` on `Environment`, proofs of both in `Execution_proofs` |
| Dispatcher and sweep (`dispatch.py`, `kube.py`) | Kubernetes Jobs | sweep pass, Job per task, pod, TTL | `Dispatch` on `WorkerRuns`, proofs in `WorkerRuns_proofs`; abstract: `TaskLifecycle` |
| Control plane, approvals, notifier (`control_plane.py`, `approvals*.py`, `notify/`) | approvals table, mailbox | ingest pass, gate, park, request, reply, redeem, ack | `Inbound` on `TaskQueue`, proofs in `Inbound_proofs` |
| HTTP server and rate limit (`http_server.py`, `inbound.py`, `auth.py`) | slots, threads, the limiter's lists | accept, read, authorize, check, ingest, stop | `Webhook`, proofs in `Sources_proofs` |
| Transports (`transports/`, `jmap/`, `imap/`) | mail and its state, flags or labels, `_pending_ids`, events | poll, fetch, ack, listen over JMAP; poll and ack over IMAP and AgentMail | `Mailbox`, proofs in `Mailbox_proofs` |
| Database connection (`db.py`, `policy.py`) | connections, transactions | execute, retry once, commit, replace_all | `Database`, proofs in `Database_proofs` |
| Decision layer (`decision/`, `security.py`) | the decision log, a mail's verdict | scan, assess, ask for a human, fall back, record, label, calibrate | `Decisions`, proofs in `Decisions_proofs` |
| Idle loop (`idle/`, `cli/commands.py`) | proposals as tasks | tick, submit, ask | `Idle`, proofs in `Sources_proofs` |

`TaskQueue` is the centre. `QueueSpec` is the queue under the *most general caller*: any
number of processes, each of which may have read any row at any time. `WorkerRuns` and
`Inbound` extend the module, call its operations, add their own state, and are shown to
implement `QueueSpec` (`WorkersImplementQueue`, `InboundImplementsQueue`), so what holds of
`QueueSpec` holds of them. `Dispatch` extends `WorkerRuns` and is shown to implement
`TaskLifecycle`, the small machine `docs/queue.md` draws, liveness included (TLC), and for any
tasks without it (TLAPS). `ErrorBudget` extends `WorkerRuns` by the
question every worker asks first, and is proved to only remove behaviours. `Execution` details the step `RunHarness` of
`WorkerRuns`; `Mailbox` the steps `Poll` and `Ack` of `Inbound`, `Webhook` what stands before
an ingest pass, `Decisions` the two questions a pass asks about a mail. These four are checked on their own: their
state is not shared with the module they detail.

Interaction is by the shared database (every statement is a step), by mail (delivered at
least once), by files between the executor and the sidecar, and by git. There are no
callbacks between processes.

### How state and actions correspond to the code

Each action is one atomic step of the code: one SQL transaction, one request to a server, one
file operation, or a stretch of Python between two of them that no other process observes. Process-local
variables (a snapshot of a row, the token of a reply, the state of a JMAP mailbox) are
functions from processes to values, with a program counter `pc` for the next step. A
snapshot is taken in one step and used in a later one, as in the code. Where the code does
several things in one statement, the action does them all.

Data is abstracted to what properties tell apart: a task is its id, a commit is the number of
the run that made it, a worktree is a counter of edits, a mail is what it may be read as, a
probability is a number of tenths, a request body is the number of reads it needs. The rate limiter's
list of moments is a set of them, each with the request it is of: its order is never used.

## Runs

Nine runs pass: their properties hold on every reachable state of their instance. Three runs
(*violation*) state a sentence of a doc or a docstring, and TLC finds a behaviour of the code
that breaks it; each is a finding in `PROJECT.json` with the sentence quoted.

| Run | Instance | Shows |
| --- | --- | --- |
| `worker_runs` | two workers under an error budget of one failure, one task, crashes, an operator who claims, cancels and disables the repository | while leases last, one worker executes; runs are paid with attempts and end with them, plus one per worker with an old snapshot; done points at what the remote holds; the failures in the window exceed the budget by at most the workers that were let through together |
| `dispatch` | two tasks, one depends on the other, in either order of submission; a page of one task; dying pods, failing API | refinement of `QueueSpec` and of `TaskLifecycle`, with liveness for every task, unless the page holds only tasks that wait for one that is not started; no dependent runs before its dependency was published |
| `retry_publish` *(violation)* | one worker that may die, nothing else fails | a run that died after its push makes all retries fail |
| `inbound` | two passes and a shell over one gated task; mail may be denied, or refused by normalizer or policy; approvals, a token that was passed on, rejections from the shell, expiry, cancellation, a fault | no gated task runs unapproved; mail is not lost, and every mail is handled in the end; one request is open at a time; every parked task has a token; a fitting reply decides the task |
| `bare_notifier` *(violation)* | one pass, no fault | the wiring of the CLI and the webhook parks a task and asks nobody |
| `execution` | every repository and setting a worker may be built from, a bundle of two files and processes that die while they copy it; then one run: harness in the process or its container, routed or not, in a sidecar, in a sidecar that serves once; two revisions; the sidecar may die | a worker that is ready has its harness inside its session; gate and harness share one session, which is set up; what is committed was verified; no answer is taken for another round's; every path removes what it made, but for what a command fails to remove; the run ends, unless a command without a deadline hangs |
| `database` | two clients race, policies are replaced, up to two lost connections | a call that says it wrote did; some policy is always in force; every call returns |
| `webhook` | one or two threads, three requests of two senders, stop and restart | nobody is limited who did not earn it; one thread keeps the rate, at both edges of the window; every connection ends; `stop()` returns |
| `mailbox` | JMAP with poll and listen, IMAP, AgentMail; three emails, two of one message; a mishap | only handled mail is filed; all mail is filed, but for what IMAP overlooks and AgentMail's page crowds out; the listener comes to rest |
| `decisions` | an ingest pass and a shell, the file or the table, two operators, every fault, processes that die | a mail is parked exactly if scanner, security question or human gate says so, and failing models and logs do not change what they say, but for two exceptions; no decision is in the log twice; labels of one writer's rows are true; a recommended threshold is earned |
| `late_model` *(violation)* | a gate whose model may be late, nothing else fails | the human gate says no where the rules would have parked the mail |
| `idle` | two overlapping ticks, two markers and a commit, gated or not, a fault | nothing gated runs unapproved; one request per proposal; every marker within the budget is proposed |

### Disagreements with the documents

Three have a run. `retry_publish`: `runners/worktree.py:55-56` promises that a retried task
"starts from a clean tree instead of failing", but its push, not forced, is refused when an
earlier run of the task pushed before it died. `bare_notifier`: `_inbound_plane` and `http.py`
build a `Notifier` without an `ApprovalService`, which raises when it is to ask. `late_model`:
`decision/openai.py:39-41` has a timeout fall back to the rules, but an answer that does not come
in time is a `TimeoutError`, which neither the adapter nor `FallbackDecider` handles; `HumanGate`
catches it and says no.

The others were met while modelling. Where the model contains the behaviour, a property is
stated with the condition that excludes it, and the comment on the property names it.

* `worker.py:94`, `:143`: `run <id>` applies its guards to a row in any state and may move a
  done task to failed; `docs/queue.md` calls both terminal.
* `dispatch.py:106`: a sweep starts up to `limit` tasks at once, where `docs/queue.md:123` says
  one; and it counts blocked tasks towards `limit`, so that a page of tasks whose dependency
  is not started hides every later one (`Starved`). `dispatch` has a page of one task, so that
  this happens, and `ImplementsLifecycle` promises such a task nothing while it lasts.
* `events.py`: the docstring of the breaker says "more than" its maximum, the code compares with
  `>=`. `BudgetBound` is stated for the code; and run side by side, n workers let through on one
  count may record n - 1 failures beyond it.
* `worker_factory.py:144-170`: with a Feature configured, the image is taken for baked whatever
  was built, but `podman build` of a Containerfile applies no Feature (`HarnessInside` excuses
  it). A repository that names an image under the default isolation, bwrap, makes
  `_maybe_inject_bundle` raise, so none of its tasks runs.
* `executor.py:141-144`: "A git/forge error must fail the task cleanly, never leave it `running`". An
  exception that is no
  `GitError` (an answer of the forge without its URL, a reset connection, no `gh`), or a `KeyError`
  of the routing runner, leaves `execute` without a transition; the lease has to run out.
* `sandbox.py`: a `podman exec` whose client is killed at its deadline leaves the harness running in
  the container, where it edits the tree until the session is closed (`StrayEdit`): after a revision
  that was given up, also the tree that is then committed.
* `sandbox.py:238`, `:259`, `runners/worktree.py:64`: a failed `podman run -d` may leave a created
  container that `close` does not know; `podman rm -f` is not checked; a worktree that cannot be
  removed raises and stays. `executor.py:77-78` says that "a failed run never leaks a container".
  `leftover` records each of the three, and `CleanedUp` says that nothing else stays.
* `gitplane/plane.py:156`, `sandbox.py:238`, `:247`, `:259`: the push and the podman commands
  around a session have no deadline, nor have the other git commands, `gh` and the database; one
  that hangs holds the worker (`Untimed` in `Ends`).
* `environment/bundle.py`: two processes fill one cache without a lock, and the cache is not keyed
  by the image it was copied from.
* `imap/client.py:50`: fetching a message marks it seen and `poll` lists only unseen mail
  (`docs/transports.md:48-53`); a pass that dies in between, or a second delivery of the same
  message, leaves mail that no later pass sees (`Overlooked` in `EveryMailFiled`).
  `transports/agentmail.py:160`: the listing is bounded before filed mail is dropped from it, so a
  full page may hold nothing new (`Crowded`).
* `approvals_service.py:81`: a task that moves on between the check and the redemption burns
  its token; `docs/queue.md:117` says it is "refused without consuming it". An expired token is
  explained and not replaced (`control_plane.py:238`, against `docs/queue.md:117-118` and
  `approvals_service.py:61-62`); `OneOpenRequest` would allow the new request they announce.
* `executor.py:287`: a revision that fails leaves its edits in the worktree, and they are
  committed (`CommitIsVerified` excludes a last run that failed). A revision that breaks the
  gate fails a task that had passed it (`executor.py:291`, against ADR 0010).
* `runners/shared.py:117`, `:130`: serve may read a request half written and end, or remove the
  next round's request unread; under `--once` nobody serves a revision. All three end in the
  executor's timeout (`Ends`).
* `db.py:87`: a connection lost within `replace_all` re-runs the failed statement without the
  DELETE before it; the sync succeeds and a removed policy stays in force.
* `auth.py:117`: threads that check one sender at once overwrite each other's entries, and each
  process, every poll for one, starts with none (`RateBound` asks for one thread and no restart).
* `cli/commands.py:306`: `listen` does not poll when it connects; mail that arrived before waits
  for other mail, unless the CronJob is deployed too (in `mailbox` it is).
* `decision/log.py:145`, `:268`: `label` on the file loses what is appended meanwhile, although
  `log.py:108` calls it append-only (`RecordedOnce` says that a rewrite doubles nothing); `label`
  on the table goes by offset, which moves when two processes insert (`LabelFits`).
* `decision/factory.py:94`: a failing insert, or one whose commit fails, is an exception nobody
  handles before `HumanGate`, which then says no, against the comment at `:85-86` (`GateAnswers`
  excuses it and the late model, and only where they raised). `decision/log.py:301` pools bands where its docstring speaks of every band.
* `control_plane.py:198-202` parks a mail whose model answer is suspicious, at a half; the comment at
  `decision/security.py:28-29` has only 0.7 and above park it, and `should_gate` has no caller.
* `idle/loop.py:74`: the budget is applied before stored proposals are dropped, so that markers
  behind the first `max_per_run` are never proposed (`WithinBudget`). `cli/commands.py:463`: a
  tick that dies between storing a proposal and asking leaves it without a token.

### Bounds, and why they are enough

Two workers, two passes, two ticks: processes share nothing but rows, so a race is between one
process and another on one row. `worker_runs` and `inbound` therefore have one task; a second
one, with a dependency, is in `dispatch`. Leases have length 0 there (they end with the next
tick of the clock), which makes every lease expire as early as it can; `MaxTime` allows each
run one such tick. `MaxRuns` is above what `RetryBound` allows, and `MaxTokens` is two for one
task, so that a second request would be seen. One reply (`MaxReplies`) races the shell, which only
rejects there (`Orders`). `MaxFailures` is 1, so that two workers
exceed it together; `retry_publish` turns the budget off. Two files are a bundle that can be half
copied; two revisions let an answer come two rounds late. Two records hold both questions of one
mail. Faults are bounded by a budget (`MaxHitches`,
`MaxBreaks`, `MaxMishaps`, `MaxFaults`), which liveness needs: a system whose every request
fails makes no progress. Real limits (rate, slots, poll size, budget per run) are one or two, so
that they are reached. Workers, planes and operators are symmetric where only safety is checked.
`CHECK_DEADLOCK FALSE` appears where bounded inputs may simply be used up.

### Fairness, and why the code justifies it

* `Dispatch`: weak fairness of the sweep's steps (a CronJob every two minutes, `Forbid`), of a pod
  once it is started, and of the clock; strong fairness of the TTL controller, which is kept from
  no finished Job by a pass that looks at it in between. Nobody has to submit anything.
* `Inbound`, `Mailbox`: weak fairness of the passes (the poll CronJob; Kubernetes restarts the
  listen Deployment) and of a command an operator has entered. Humans, operators and mail are
  never fair.
* `Webhook`: threads run, the accept loop runs, a socket that is silent times out. Clients and
  `SIGTERM` are not fair.
* `Execution`: the executor's steps whose waits have a deadline (`TimedStep`). Git, the
  podman commands that start, set up and remove a container, `gh` and the database have none and
  may hang. The sidecar
  is not fair: it may stop at any point.
* `Database`: clients go on, and the server rolls back what a lost connection left.
* `Idle`: the operator runs `idle` again and again, at times when the queue is empty (strong
  fairness of its look at the queue), and the worker empties the queue. The repository ships
  no CronJob for it: this is an assumption about its user.

## What is proved

TLAPS proves the results below for every value of the constants: any tasks, processes,
dependencies, leases, limits and numbers of faults. Every safety invariant and action property
of the passing runs is among them, and so are both refinements of the queue and the safety of the
lifecycle. TLC found no counterexample to the inductive invariants on small instances before they
were proved.

**The queue** (`TaskQueue_proofs`, of `QueueSpec`, the most general caller).

* `QueueTypeCorrect`, `LeaseCorrect`, `RowsCorrect`: types, the lease invariant and one row per
  task. Each is inductive together with the type invariant; `RowsStep` shows that the sequence
  `order` stays free of repetition when an enqueue appends a task that is not stored.

**The workers** (`WorkerRuns_proofs`, of `WorkerRuns!Spec`).

* `TypeCorrect`, `WorkersImplementQueue`: the type invariant, strengthened to `TypeInv` (a worker
  past its claim names a stored task, whose row stays), and from it that every step of a
  worker, the sweep or an operator is a queue step or leaves the queue alone. Lease and row
  results carry over.
* `Exclusion`: two workers with unexpired leases never execute one task. The inductive invariant
  adds `LeaseHeld`: while a worker's lease lasts, the row is running under exactly that lease or
  was settled, so a claim, which needs a queued row, cannot happen meanwhile.
* `PaidRuns`: runs never outnumber attempts plus one. `RunsArePaid` counts the next run of a
  queued row as already paid, which makes it inductive.
* `RetryCorrect`: at most `MaxAttempts` runs, and one more per worker. `RetryBound` is not
  inductive: `HolderBound` counts only the workers that are *spent*, that is hold no row of the
  task with attempts to spare. A claim spends its worker, since `Guarded` says that what reaches
  a claim passed `_guard_attempts`; and a worker becomes a holder again only by reading a row
  that still has attempts, at which moment `RunsArePaid` bounds the runs by `MaxAttempts`.
* `DoneCorrect`: a task that is done points at the branch and pull request the remote holds. It
  needs `PublishTrace`, which follows a run's result from its push to its record, because a run
  that lost its lease still publishes and still records.
* `DependenciesCorrect`: no run starts before its dependencies are published. The rows of the
  dependencies may change after they were read, so the invariant `Waited` speaks of the remote
  instead, where nothing is ever replaced (`PublishedStays`).

**Deployments of the workers** (`WorkerRuns_proofs`, of `ErrorBudget` and `Dispatch`).

* `BudgetCorrect`: failures in the window and workers that were let through are together fewer
  than the maximum and all workers. The invariant adds `AdmittedWork`: whoever is past the first
  guard was let through; one is let through only while the count is below the maximum, and
  turns into at most one event before it is asked again.
* `BudgetOnlyRefuses`, `BudgetedWorkersCorrect`: every behaviour of workers under the budget is
  one of `WorkerRuns`, where workers may crash, so what is proved there holds under it.
* `DispatchTypeCorrect`, `DispatchImplementsQueue`, `DispatchDependenciesCorrect`: in the cluster every step is one of `WorkerRuns`, or the sweep
  fails a queued task (`ClusterStep`), which preserves the same invariants.
* `DispatchKeepsLifecycle`: while operators do no more than edit policies, the cluster refines
  `TaskLifecycle` without its fairness (`LifecycleSafe`). The invariant `LifeInv` has three parts:
  `JobInv`, a Job is created only for a queued task without a pod, and the sweep dooms only a
  task with a failed dependency; `ReadInv`, until the pod claims it the row is not run and its
  attempts are those the pod read; `RunInv`, a task runs while its dependencies are done and
  attempts are left, and nobody settles it but its pod.

**Inbound mail and approvals** (`Inbound_proofs`).

* `InboundTypeCorrect`, `InboundImplementsQueue`: types, with what each process holds
  (`WorkTyped`) and that no reply names a token that was not issued; refinement of `QueueSpec`.
* `OneOpenRequestCorrect`: between row and token exactly one process is about to ask (`Asking`), and
  the code never asks again (`OneToken`), which is more than the property demands.
* `GateCorrect`: adds `Redeemed`, a process past the redemption has used the task's one token.
* `MailNotLostCorrect`: adds `Accounted`, what a pass took from its list is handled, but for the
  mail it works on.
* `ParkedIsAskedCorrect`: adds `Outstanding`, a task in action has its token or a process that is
  about to ask.

**One run** (`Execution_proofs`, of `Execution!Spec`, which begins with `Environment`).

* `HarnessInsideCorrect`: the marker of a cache is written last, so a marked cache is whole.
* `ExecutionTypeCorrect`, `OneSessionCorrect`, `SetupCorrect`, `CleanUpCorrect`: from `SessionInv`,
  a container is the chosen class's, stands in a worktree and is complete after the first run; at
  the end of the run neither container nor worktree is there that `leftover` does not name.
* `AnswerCorrect`: from `FilesInv`, which says what the two files may hold at each place of
  executor and sidecar. `CommitCorrect`: from `TreeInv`, between gate and commit nobody edits.

**The HTTP entry point** (`Sources_proofs`, of `Webhook!Spec`).

* `SlotsCorrect`: free slots and threads that hold one are together the size of the pool. `LoopInv`
  adds `QueuedOnce`, a connection waits in one place, so that no request gets two threads, and
  `DownIsQuiet`, a process that ended left no connection behind.
* `LimitedCorrect`: threads overwrite each other's lists, so a list is never exact. `GenuineEntries`
  says what it still is: every entry, in the list or in a thread's copy, is a request of that sender
  that was let through, at its moment. A list of `Limit` entries is then that many requests.
* `RateCorrect`: with one thread nothing is overwritten. `Remembered` says that whoever passed is
  still listed or passed a window ago, in the list and in the copy of the one thread that holds one.

**Transactions** (`Database_proofs`, of `Database!Spec`).

* `IsolationCorrect`: for every program. A statement run again on a fresh connection waits for the
  rows its own lost transaction locks, as for anyone's; `TableInv` adds that an operation before
  its first statement has written nothing (`Begun`).
* `CallsAreAtomic`: in every program, an operation of one statement is one step on the table, at the
  moment its client is told. This is what `TaskQueue` and `Inbound` rest on when they take a guarded
  UPDATE for one action. The invariant `Ready` says that the rows of an executed statement still
  have the values it found; the locks of `Isolated` keep others from committing to them. It says
  nothing of `replace_all`, whose statements a lost connection does separate.
* `ToldCorrect`: `ToldIsTrue` is not inductive: the value could be set or taken away later. `ClaimInv`
  adds what a claim has in its transaction before it commits (`Drafted`), and that nobody else is
  about to set its value and, after a hit, nobody else has written the row (`Owned`): it was
  locked until the commit, and swaps and inserts that come later no longer find what they expect.
* `PoliciesCorrect`: `Refilled` says what a transaction would leave if it committed now. One that
  deletes no policy leaves a value in every row it wrote; one that does has, by its end, inserted
  one, in this transaction and not in a lost one.

**Mail, decisions, idle loop.**

* `MailboxTypeCorrect`, `FiledCorrect` (`Mailbox_proofs`): an entry of `_pending_ids` is an email of
  its Message-ID, and what is left to acknowledge was handled (`Traced`).
* `DecisionsTypeCorrect`, `RecordedOnceCorrect`, `LabelFitsCorrect`, `GateAnswersCorrect`,
  `ThresholdEarnedCorrect` (`Decisions_proofs`): in the file, and in every copy an operator is
  about to write back, a decision keeps one position (`FileInv`); in the table ids are taken in order and rows keep theirs, and
  with one writer its row comes last (`TableInv`); a gate's place determines what it heard
  (`GateInv`); only sure answers are logged (`SureInv`).
* `IdleAskedOnceCorrect`, `IdleGateCorrect` (`Sources_proofs`): a tick that is about to ask has stored
  the proposal itself (`StoredFirst`).

### Hypotheses

Assumptions on constants are the named `ASSUME`s of the modules: numbers are naturals, sets of
processes are finite where they are counted, `NULL` is none of the values, maps have their
domains, processes of different kinds are different. What a theorem excludes beyond that stands
in its statement:

* `"queued" \notin OperatorMoves` (`Exclusion`, `PaidRuns`, `RetryCorrect`, `GateCorrect`): `task
  requeue` gives a running or a parked task back on purpose.
* `"done" \notin OperatorMoves` (`DoneCorrect`, the two on dependencies): `task complete` marks done
  what has no commit. `OperatorMoves \subseteq {"policy"}` (`DispatchKeepsLifecycle`): every other
  command moves a task by hand.
* `Crashes` (`BudgetOnlyRefuses`): a refused run looks like one that ended before its claim.
* `Wiring # "console"`, `Wiring # "bare"`: a plane without a recipient drops explanations, and a bare
  notifier cannot ask (the run `bare_notifier`).
* `EdgesReachDown` (`ThresholdEarnedCorrect`): some band begins at or below both the threshold and
  0.7, the least confidence of a rule. The code's edges begin at 0.5, its threshold.
* `OwnSwaps` (`ToldCorrect`): a claim is one statement and sets a lease that is the claimant's own.
  `Refills` (`PoliciesCorrect`): there are policies, and `replace_all` inserts after it deletes. An
  empty directory removes all policies on purpose. TLC evaluates both for the operations of the
  instance (`InstanceAssumption` of `MCDatabase`).

### Only model-checked

* Liveness and refinement under fairness (`ImplementsLifecycle` with its fairness, `MailHandled`,
  `ReplyDecides`, `Ends`, `EveryCallReturns`, `EveryRequestEnds`, `StopReturns`, `EveryMailFiled`,
  `Settles`, `NewWorkProposed`): fairness and `ENABLED` are outside the prover's reach.
* `TypeOK` of `Idle`: `Generate` selects with `SelectSeq`, and what a recursive selection yields needs
  induction over the sequence. The proofs about `Idle` do not need to know what a batch contains.

No module declares a `RECURSIVE` operator.

## Hard behaviours

`PROJECT.json`, key `hazards`, lists each at its line with the properties that watch it. In
short: snapshots used after the row moved (`worker.py`, `executor.py`, `approvals_service.py`);
two-step effects that may stop halfway (store and ask, push and record, read and rewrite);
redelivered mail and duplicated passes; leases that run out under a run that goes on; files
read half written; limits reached at their edge; events that are not replayed; exceptions that
are not the one that is caught.

## What is not modelled

* Text: normalizer, injection scanner, prompts, mail formatting, policy and descriptor parsing.
  What a text is read as is nondeterministic.
* I/O dialects: forges, kubectl, container engines, IMAP, SMTP and AgentMail requests. What they
  may do to shared state, and how they may fail, is modelled.
* The file and memory stores of approvals: `build_approval_store` takes them only with the memory
  queue, whose tasks live and die with one process.
* `ModelRouter` and JMAP's `push_create`, which have no caller; observability, which only reads; the
  provider registry, a table of names; events other than task.failed, which are only printed.
* Two processes that fill one bundle cache at once.
* The lines of the mail wiring of `Inbound` (`Notifier` with an `ApprovalService`) stand in the
  source, but only tests put the two together; the wiring the entry points build is that of
  `bare_notifier`.
* Threads of the webhook server that share one `ResilientConnection`: in `Database` each client has
  its own.
* The moments between the reads of one task's dependencies (`deps.py:40-51`) and between the last
  of them and the creation of the Job: one step here. In the instances a task has at most one
  dependency; the proofs speak of the remote, where what was read cannot be taken back.
* `git grep` or `git log` failing in an idle tick, which makes it find nothing (`idle/signals.py`).
* Clocks that differ between machines; PostgreSQL failing other than by losing a connection.

## Plan

Done in this order: queue and workers with their first proofs; dispatcher and abstract
lifecycle; inbound and approvals; one run with its sidecar; database; ingress; decisions; idle;
then the error budget, building a worker and its sessions, the other mail transports, the
security question; then the proofs of workers' bounds, inbound, execution, mailbox, decisions,
idle loop and cluster; last those of the HTTP entry point and of transactions. Then failing clean-up, commands without a
deadline, the page of the sweep, dying deciders and aborted transactions were added to the models.

Next: `RunHarness` of `WorkerRuns` as the abstract run that `Execution` implements; an abstract
mailbox under `Inbound` that `Mailbox` implements.
