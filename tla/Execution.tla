----------------------------- MODULE Execution -----------------------------
(***************************************************************************)
(* One run of TaskExecutor.execute, from its worktree to its clean-up: the *)
(* harness, the verify gate, the debate with a reviewer, the commit and    *)
(* the recorded outcome.  It details the step RunHarness of WorkerRuns.    *)
(* Environment built the process before; execute begins when it is ready.  *)
(*                                                                         *)
(* The harness runs in the executor's process (HarnessRunner, in a sandbox *)
(* session), or in the sidecar container: DelegatingRunner and serve then  *)
(* talk through two files of a shared directory, request and result.       *)
(* write_text creates a file and fills it in a second step, and either     *)
(* side may look in between.                                               *)
(*                                                                         *)
(* The worktree is a counter: every edit of a harness makes another tree,  *)
(* and 0 is the base branch.  Texts, exit codes and events are left out.   *)
(***************************************************************************)
EXTENDS Environment

CONSTANTS
    NULL,
    Rounds,       \* debate_rounds, 0 without a reviewer
    Setups,       \* where the harness may run: "local", in the executor's
                  \* process; "sidecar", under harness-serve; "once", under
                  \* harness-serve --once, as deploy/base starts it
    MaxEdits,     \* bound on the edits of the worktree
    MaxRequests   \* bound on the runs of the harness

ASSUME ExecutionAssumption ==
    /\ Rounds \in Nat /\ MaxEdits \in Nat /\ MaxRequests \in Nat
    /\ Setups \subseteq {"local", "sidecar", "once"}
    /\ NULL \notin Nat

VARIABLES
    setup,     \* where this run's harness is
    pc,        \* where the executor is
    tree,      \* what the worktree holds
    worktree,  \* whether the worktree exists
    choice,    \* the class of harness that the router chose for the task
    session,   \* ContainerSandbox._container of each class: "none", "up", or
               \* "bare", up but its setup failed
    stray,     \* whether a harness that was given up still runs in its container
    leftover,  \* what nobody will remove any more: a container that run -d
               \* "created" and could not start, one whose rm -f failed
               \* ("container"), a "worktree" that git would not remove
    asked,     \* how many harness runs it asked for
    taken,     \* the run whose result it took last
    lastOk,    \* whether the last run it asked for succeeded
    remaining, \* debate rounds that are left
    verified,  \* the tree that passed the verify gate last
    committed, \* the tree it committed
    failure,   \* FailureKind
    recorded,  \* the state it moved the task to
    request,   \* harness-request.json
    result,    \* harness-result.json
    serverPc,  \* where serve is
    serving    \* the request serve works on, or worked on last

controlVars == <<asked, taken, lastOk, remaining, verified, committed, failure, recorded>>
sessionVars == <<choice, session, stray, leftover>>
placeVars == <<tree, worktree>>
fileVars == <<request, result>>
serverVars == <<serverPc, serving>>
builtVars == <<environmentVars, setup>>
runVars == <<setup, pc, controlVars, sessionVars, placeVars, fileVars, serverVars>>
vars == <<environmentVars, runVars>>

\* The classes of HARNESS_QUESTION; without a router there is one runner.
Classes == {"local", "hosted"}

\* A file is there or not; a file that is not whole is created and empty.
File == [run : 1..MaxRequests, ok : BOOLEAN, whole : BOOLEAN]
Absent == NULL

Failures == {"missing", "harness", "timeout", "blocked", "verify", "no_changes", "publish"}

TypeOK ==
    /\ EnvironmentTypeOK
    /\ setup \in Setups
    /\ pc \in {"build", "choose", "ask", "fill", "wait", "verify", "review", "commit", "push",
               "publish", "record", "close", "over"}
    /\ tree \in 0..MaxEdits
    /\ worktree \in BOOLEAN
    /\ choice \in Classes \union {NULL}
    /\ session \in [Classes -> {"none", "up", "bare"}]
    /\ stray \in BOOLEAN
    /\ leftover \subseteq {"created", "container", "worktree"}
    /\ asked \in 0..MaxRequests
    /\ taken \in 0..MaxRequests
    /\ lastOk \in BOOLEAN
    /\ remaining \in 0..Rounds
    /\ verified \in (0..MaxEdits) \union {NULL}
    /\ committed \in (0..MaxEdits) \union {NULL}
    /\ failure \in Failures \union {NULL}
    /\ recorded \in {"done", "failed", NULL}
    /\ request \in File \union {Absent} /\ result \in File \union {Absent}
    /\ serverPc \in {"poll", "working", "answer", "fill", "clear", "gone"}
    /\ serving \in 0..MaxRequests

Delegated == setup # "local"

\* build_reviewer: none, or one that may ask for Rounds revisions.
Debates == {0, Rounds}

Init ==
    /\ EnvironmentInit
    /\ setup \in Setups
    /\ pc = "build"
    /\ tree = 0 /\ worktree = FALSE
    /\ choice = NULL /\ session = [c \in Classes |-> "none"] /\ stray = FALSE
    /\ leftover = {}
    /\ asked = 0 /\ taken = 0 /\ lastOk = FALSE
    /\ remaining \in Debates
    /\ verified = NULL /\ committed = NULL /\ failure = NULL /\ recorded = NULL
    /\ request = Absent /\ result = Absent
    /\ serverPc = (IF Delegated THEN "poll" ELSE "gone")
    /\ serving = 0

-----------------------------------------------------------------------------
(* Building the worker, claiming the task                                  *)

\* The steps of Environment.  A pod's containers are not restarted.
BuildStep ==
    /\ pc = "build"
    /\ \/ Delegated /\ (Delegate \/ Wire)
       \/ ~Delegated /\ (BuildSession \/ Wire \/ Restart)
    /\ UNCHANGED runVars

\* The task is claimed and its worktree created (WorkerRuns has both).
Begin ==
    /\ pc = "build" /\ phase = "ready"
    /\ worktree' = TRUE
    /\ pc' = "choose"
    /\ UNCHANGED <<builtVars, controlVars, sessionVars, tree, fileVars, serverVars>>

\* RoutingRunner.session_for: the decider's choice, or the default where it
\* has none, is kept for the task.  A default that no runner is registered for
\* is a KeyError, which execute does not catch.
Choose ==
    /\ pc = "choose"
    /\ \/ choice' \in (IF env.routed THEN Classes ELSE {"hosted"}) /\ pc' = "ask"
       \/ env.routed /\ pc' = "close" /\ UNCHANGED choice
    /\ UNCHANGED <<builtVars, controlVars, session, stray, leftover, placeVars, fileVars,
                   serverVars>>

ChosenAnew == IF env.routed THEN Classes ELSE {choice}

\* Whom RoutingRunner.run asks: the choice is cached, since a decider need not
\* say the same twice.
Chosen == {choice}

-----------------------------------------------------------------------------
(* Running the harness                                                     *)

Edit == tree' = tree \/ (tree < MaxEdits /\ tree' = tree + 1)

AfterRunUnverified(ok, kind) ==
    /\ lastOk' = ok
    /\ \/ ok /\ pc' = (IF asked' = 1 THEN "verify" ELSE "commit") /\ UNCHANGED failure
       \/ ~ok /\ asked' = 1 /\ pc' = "record" /\ failure' = kind
       \/ ~ok /\ asked' > 1 /\ pc' = "commit" /\ UNCHANGED failure

AfterRunIgnored(ok, kind) ==
    /\ lastOk' = ok
    /\ pc' = "verify" /\ UNCHANGED failure

\* The first run that fails fails the task; one that the reviewer asked for
\* leaves the debate with what there is.
AfterRun(ok, kind) ==
    /\ lastOk' = ok
    /\ \/ ok /\ pc' = "verify" /\ UNCHANGED failure
       \/ ~ok /\ asked' = 1 /\ pc' = "record" /\ failure' = kind
       \/ ~ok /\ asked' > 1 /\ pc' = "commit" /\ UNCHANGED failure

\* ContainerSandbox.wrap: the first one starts the container and runs its
\* setup; when the setup fails the container is up all the same.  Later ones
\* find it.  A jail without a session has nothing to start.
WrapSucceeds(c) ==
    /\ \/ env.jail # "podman" /\ UNCHANGED session
       \/ env.jail = "podman" /\ session[c] # "none" /\ UNCHANGED session
       \/ env.jail = "podman" /\ session[c] = "none" /\ session' = [session EXCEPT ![c] = "up"]
    /\ UNCHANGED leftover

\* The jail is not available; or run -d fails, which may leave a container
\* that was created and that close() knows nothing of; or the setup fails.
WrapRaises(c) ==
    \/ env.jail \in {"bwrap", "podman"} /\ UNCHANGED <<session, leftover>>
    \/ /\ env.jail = "podman" /\ session[c] = "none"
       /\ leftover' = leftover \union {"created"}
       /\ UNCHANGED session
    \/ /\ env.jail = "podman" /\ session[c] = "none" /\ env.setup
       /\ session' = [session EXCEPT ![c] = "bare"]
       /\ UNCHANGED leftover

\* HarnessRunner.run, CommandRunner.run.  A run that fails may have edited
\* files, too; one that times out is killed, but podman exec leaves what it
\* started in the container running.
RunLocal ==
    /\ pc = "ask" /\ ~Delegated
    /\ asked < MaxRequests
    /\ asked' = asked + 1
    /\ \E c \in Chosen :
        \/ /\ WrapSucceeds(c)
           /\ Edit
           /\ \/ AfterRun(TRUE, NULL) /\ UNCHANGED stray
              \/ \E kind \in {"missing", "harness"} : AfterRun(FALSE, kind) /\ UNCHANGED stray
              \/ AfterRun(FALSE, "timeout") /\ stray' = (stray \/ env.jail = "podman")
        \/ /\ WrapRaises(c)
           /\ AfterRun(FALSE, "harness")
           /\ UNCHANGED <<tree, stray>>
    /\ UNCHANGED <<builtVars, worktree, choice, taken, remaining, verified, committed,
                   recorded, fileVars, serverVars>>

\* The harness that was given up writes on while the worktree exists.
StrayEdit ==
    /\ stray /\ worktree
    /\ Edit
    /\ UNCHANGED <<builtVars, pc, controlVars, sessionVars, worktree, fileVars, serverVars>>

\* DelegatingRunner.run: the old result goes, the request is created,
Ask ==
    /\ pc = "ask" /\ Delegated
    /\ asked < MaxRequests
    /\ asked' = asked + 1
    /\ result' = Absent
    /\ request' = [run |-> asked + 1, ok |-> TRUE, whole |-> FALSE]
    /\ pc' = "fill"
    /\ UNCHANGED <<builtVars, sessionVars, taken, lastOk, remaining, verified, committed,
                   failure, recorded,
                   placeVars, serverVars>>

\* and filled, unless serve removed it: then the text goes to a file without
\* a name.
FillRequest ==
    /\ pc = "fill"
    /\ request' = IF request = Absent THEN Absent ELSE [request EXCEPT !.whole = TRUE]
    /\ pc' = "wait"
    /\ UNCHANGED <<builtVars, sessionVars, controlVars, placeVars, result, serverVars>>

\* The result is read and removed; one that is not whole does not parse, and
\* _run_harness turns the error into a failed run.
TakeResult ==
    /\ pc = "wait"
    /\ result # Absent
    /\ \/ /\ result.whole
          /\ taken' = result.run
          /\ result' = Absent
          /\ UNCHANGED asked
          /\ AfterRun(result.ok, "harness")
       \/ /\ ~result.whole
          /\ UNCHANGED <<asked, taken, result>>
          /\ AfterRun(FALSE, "harness")
    /\ UNCHANGED <<builtVars, sessionVars, remaining, verified, committed, recorded,
                   placeVars, request, serverVars>>

TimeOutNever == pc = "wait" /\ request = Absent /\ result = Absent /\ UNCHANGED vars

\* The deadline: exit code 124.  serve is not told.
TimeOut ==
    /\ pc = "wait"
    /\ UNCHANGED asked
    /\ AfterRun(FALSE, "timeout")
    /\ UNCHANGED <<builtVars, sessionVars, taken, remaining, verified, committed, recorded,
                   placeVars, fileVars, serverVars>>

-----------------------------------------------------------------------------
(* serve, in the sidecar                                                   *)

\* A request that is not whole raises outside the try: serve ends.
ServeTake ==
    /\ serverPc = "poll"
    /\ request # Absent
    /\ \/ request.whole /\ serverPc' = "working" /\ serving' = request.run
       \/ ~request.whole /\ serverPc' = "gone" /\ UNCHANGED serving
    /\ UNCHANGED <<builtVars, sessionVars, pc, controlVars, placeVars, fileVars>>

\* The harness writes into the worktree while that exists.
ServeEdit ==
    /\ serverPc = "working"
    /\ worktree
    /\ Edit
    /\ UNCHANGED <<builtVars, sessionVars, pc, controlVars, worktree, fileVars, serverVars>>

\* The run ends, well or not; result_path.write_text creates the file,
ServeAnswer ==
    /\ serverPc = "working"
    /\ \E ok \in BOOLEAN : result' = [run |-> serving, ok |-> ok, whole |-> FALSE]
    /\ serverPc' = "fill"
    /\ UNCHANGED <<builtVars, sessionVars, pc, controlVars, placeVars, request, serving>>

\* fills it, unless it was removed,
ServeFill ==
    /\ serverPc = "fill"
    /\ result' = IF result = Absent THEN Absent ELSE [result EXCEPT !.whole = TRUE]
    /\ serverPc' = "clear"
    /\ UNCHANGED <<builtVars, sessionVars, pc, controlVars, placeVars, request, serving>>

ServeClearNothing ==
    /\ serverPc = "clear"
    /\ serverPc' = IF setup = "once" THEN "gone" ELSE "poll"
    /\ UNCHANGED <<builtVars, sessionVars, pc, controlVars, placeVars, fileVars, serving>>

\* and whatever request is there is removed.
ServeClear ==
    /\ serverPc = "clear"
    /\ request' = Absent
    /\ serverPc' = IF setup = "once" THEN "gone" ELSE "poll"
    /\ UNCHANGED <<builtVars, sessionVars, pc, controlVars, placeVars, result, serving>>

\* The container runs out of memory or is killed: restartPolicy Never.
ServeDies ==
    /\ serverPc # "gone"
    /\ serverPc' = "gone"
    /\ UNCHANGED <<builtVars, sessionVars, pc, controlVars, placeVars, fileVars, serving>>

Serve == ServeTake \/ ServeEdit \/ ServeAnswer \/ ServeFill \/ ServeClear

-----------------------------------------------------------------------------
(* Verify, debate, publish                                                 *)

\* CommandVerifier.run: a command that is not exactly one of the allowed ones
\* is blocked; otherwise it runs in the session of the chosen harness and
\* passes, or it fails, is not found or is late, or wrap raises.
RunGate(outcome) ==
    \/ outcome = "blocked" /\ UNCHANGED <<session, leftover>>
    \/ outcome = "passed" /\ WrapSucceeds(choice)
    \/ outcome = "failed" /\ (WrapSucceeds(choice) \/ WrapRaises(choice))

\* _verify: a task without a verify command passes.  The gate checks, it does
\* not edit: files that a verify command writes are left out.
Verify ==
    /\ pc = "verify"
    /\ \/ /\ RunGate("passed") \/ UNCHANGED <<session, leftover>>
          /\ verified' = tree /\ pc' = "review"
          /\ UNCHANGED failure
       \/ /\ \/ RunGate("blocked") /\ failure' = "blocked"
             \/ RunGate("failed") /\ failure' = "verify"
          /\ pc' = "record"
          /\ UNCHANGED verified
    /\ UNCHANGED <<builtVars, asked, taken, lastOk, remaining, committed, recorded,
                   choice, stray, placeVars, fileVars, serverVars>>

\* What ModelReviewer.review comes to: a verdict, or a ReviewError for an
\* answer that is late, no JSON, or neither of the two.
Verdicts == {"approve", "revise", "error"}

\* _debate: no reviewer, no answer, approved, or no round left: publish.
Review ==
    /\ pc = "review"
    /\ \E verdict \in Verdicts :
        \/ verdict = "revise" /\ remaining > 0 /\ pc' = "ask" /\ remaining' = remaining - 1
        \/ (verdict = "revise" => remaining = 0) /\ pc' = "commit" /\ UNCHANGED remaining
    /\ UNCHANGED <<builtVars, asked, taken, lastOk, verified, committed, failure, recorded,
                   sessionVars, placeVars, fileVars, serverVars>>

PublishFails ==
    /\ failure' = "publish"
    /\ pc' = "record"
    /\ UNCHANGED committed

\* commit_all stages and commits the whole worktree, or a GitError.
Commit ==
    /\ pc = "commit"
    /\ \/ committed' = tree /\ pc' = "push" /\ UNCHANGED failure
       \/ PublishFails
    /\ UNCHANGED <<builtVars, asked, taken, lastOk, remaining, verified, recorded,
                   sessionVars, placeVars, fileVars, serverVars>>

\* has_changes_since compares the worktree, not the commit, with the base, and
\* takes an error of git diff for no changes; then push.
Push ==
    /\ pc = "push"
    /\ \/ failure' = "no_changes" /\ pc' = "record" /\ UNCHANGED committed
       \/ tree # 0 /\ pc' = "publish" /\ UNCHANGED <<failure, committed>>
       \/ tree # 0 /\ PublishFails
    /\ UNCHANGED <<builtVars, asked, taken, lastOk, remaining, verified, recorded,
                   sessionVars, placeVars, fileVars, serverVars>>

\* open_draft_pr: AutoForge finds no token, the forge cannot be reached or
\* refuses: GitError.  Any other error (a 201 without the URL, a connection
\* that breaks while the answer is read, no gh) leaves execute.
OpenDraftPr ==
    /\ pc = "publish"
    /\ \/ pc' = "record" /\ UNCHANGED <<failure, committed>>
       \/ PublishFails
       \/ pc' = "close" /\ UNCHANGED <<failure, committed>>
    /\ UNCHANGED <<builtVars, asked, taken, lastOk, remaining, verified, recorded,
                   sessionVars, placeVars, fileVars, serverVars>>

\* The transition and the report; an error of either runs the clean-up, too.
Record ==
    /\ pc = "record"
    /\ \/ recorded' = IF failure = NULL THEN "done" ELSE "failed"
       \/ UNCHANGED recorded
    /\ pc' = "close"
    /\ UNCHANGED <<builtVars, sessionVars, asked, taken, lastOk, remaining, verified,
                   committed, failure,
                   placeVars, fileVars, serverVars>>

CloseTreeFirst ==
    /\ pc = "close"
    /\ worktree' = FALSE
    /\ pc' = "over"
    /\ UNCHANGED <<builtVars, controlVars, sessionVars, tree, fileVars, serverVars>>

\* finally: the sessions end (podman rm -f, whose exit code nobody looks at),
\* then the worktree is removed, or git refuses and its error leaves execute.
Close ==
    /\ pc = "close"
    /\ \/ /\ \E c \in Classes : session[c] # "none"
          /\ session' = [c \in Classes |-> IF c = choice THEN "none" ELSE session[c]]
          /\ \/ stray' = FALSE /\ UNCHANGED leftover
             \/ leftover' = leftover \union {"container"} /\ UNCHANGED stray
          /\ UNCHANGED <<worktree, pc>>
       \/ /\ \A c \in Classes : session[c] = "none"
          /\ \/ worktree' = FALSE /\ UNCHANGED leftover
             \/ leftover' = leftover \union {"worktree"} /\ UNCHANGED worktree
          /\ pc' = "over"
          /\ UNCHANGED <<session, stray>>
    /\ UNCHANGED <<builtVars, controlVars, choice, tree, fileVars, serverVars>>

Execute ==
    \/ Begin \/ Choose
    \/ RunLocal \/ Ask \/ FillRequest \/ TakeResult \/ TimeOut
    \/ Verify \/ Review \/ Commit \/ Push \/ OpenDraftPr \/ Record \/ Close

Done ==
    /\ pc = "over" \/ phase = "failed"
    /\ serverPc \in {"poll", "gone"}
    /\ UNCHANGED vars

Next == BuildStep \/ Execute \/ StrayEdit \/ Serve \/ ServeDies \/ Done

Spec == Init /\ [][Next]_vars

\* Whether the next run of the harness starts the container first.
StartsSession == ~Delegated /\ env.jail = "podman" /\ session[choice] = "none"

\* Where the executor waits without a deadline: on git (worktree add, diff,
\* commit, push, worktree remove), podman (run, setup, rm), gh, the database.
Untimed ==
    \/ pc = "build" /\ phase = "ready"
    \/ pc = "ask" /\ StartsSession
    \/ pc \in {"review", "commit", "push", "publish", "record", "close"}

\* Everything else is a computation or has a timeout: the decider, the
\* harness, the wait for the sidecar, the gate.
TimedStep ==
    \/ Choose \/ (RunLocal /\ ~StartsSession)
    \/ Ask \/ FillRequest \/ TakeResult \/ TimeOut \/ Verify

\* What has a deadline goes on; a command without one may hang, and what the
\* sidecar does is its own affair.
FairSpec == Spec /\ WF_vars(TimedStep)

-----------------------------------------------------------------------------
(* Properties                                                              *)

\* Unless the debate ended with a run that failed, what is committed is
\* exactly the tree that passed the verify gate: no harness, also none that
\* was given up, writes between the gate and the commit.
CommitIsVerified == committed # NULL /\ lastOk => committed = verified

\* The result the executor takes answers the request it waits for, although
\* both sides use one file for all rounds and neither locks it.
AnswerFits == Delegated /\ pc = "verify" => taken = asked

\* No path out of execute forgets to clean up, and the order is right: while a
\* container is known its worktree is there; a harness that was given up stops
\* with its container; and what is still there in the end is what a command
\* was told to remove and did not, or a container that never started.
\* (executor.py:77 goes further: "so a failed run never leaks a container".)
CleanedUp ==
    /\ (\E c \in Classes : session[c] # "none") => worktree /\ pc # "over"
    /\ stray => (worktree /\ pc # "over") \/ "container" \in leftover
    /\ worktree /\ pc = "over" => "worktree" \in leftover

\* The harness of every round and the verify gate share one session, although
\* a router chooses among several: no task ever starts a second container.
OneSession == \A c, d \in Classes : session[c] # "none" /\ session[d] # "none" => c = d

\* No harness and no gate runs in a container whose setup failed.  The sandbox
\* does not see to it, its next wrap finds the container started; the executor
\* does, which gives up before that.
SetupComplete ==
    (\E c \in Classes : session[c] = "bare") => pc \in {"record", "close"} /\ failure = "harness"

\* A run that was begun ends, whatever the sidecar does or fails to do and
\* however often the reviewer asks for a revision, unless it hangs in one of the
\* commands that the code gives no deadline.  (Among those it only moves on, so
\* to be there for good is to be in one of them for good.)
Ends == phase = "ready" ~> [](pc = "over" \/ Untimed)
=============================================================================
