-------------------------- MODULE Execution_proofs --------------------------
(***************************************************************************)
(* What one run of the executor guarantees, and the process that is built  *)
(* for it, for any number of debate rounds, edits and bundle files.        *)
(***************************************************************************)
EXTENDS Execution, TLAPS

-----------------------------------------------------------------------------
(* The harness is in the session                                           *)

\* A marked cache is whole, and a session that mounts it waited for the mark.
CacheWhole ==
    /\ cache.ready => cache.whole = 1..BundleFiles
    /\ phase \in {"copy", "torn"} => ~cache.ready /\ 1..(next - 1) \subseteq cache.whole
    /\ phase = "torn" => next <= BundleFiles
    /\ phase \in {"wire", "ready"} /\ env.mounted => cache.ready

\* A session on the repository's image gets the harness from somewhere.
HarnessBrought ==
    /\ env.image = "declared" => ~env.baked
    /\ phase \in {"bundle", "copy", "torn", "wire", "ready"} /\ env.harness # "command"
       /\ env.image \in {"declared", "built"} =>
            env.mounted \/ env.setup \/ (env.image = "built" /\ env.baked)

EnvironmentInv == EnvironmentTypeOK /\ CacheWhole /\ HarnessBrought

EnvironmentNext == Delegate \/ BuildSession \/ Wire \/ Restart

LEMMA EnvironmentStep ==
    EnvironmentInv /\ EnvironmentNext => EnvironmentInv'
<1> SUFFICES ASSUME EnvironmentInv, EnvironmentNext
             PROVE  EnvironmentInv'
  OBVIOUS
<1> USE EnvironmentAssumption
        DEF EnvironmentInv, EnvironmentTypeOK, CacheWhole, HarnessBrought, Raise
<1>u. /\ Unknown \in Environments
      /\ Unknown.image = Nothing /\ ~Unknown.baked /\ ~Unknown.mounted
  BY DEF Unknown, Environments, Images, Jails, Harnesses
<1>1. CASE Delegate
  <2>1. env' \in Environments /\ env'.image = Nothing /\ ~env'.mounted
    BY <1>1 DEF Delegate, Unknown, Environments, Images, Jails, Harnesses
  <2>2. QED
    BY <1>1, <2>1 DEF Delegate
<1>2. CASE ResolveImage
  <2> DEFINE Good(e) == e \in Environments /\ (e.image = "declared" => ~e.baked)
  <2>1. /\ \A image \in {"declared", "operator", Nothing}, routed \in BOOLEAN :
                Good([Unknown EXCEPT !.image = image, !.routed = routed])
        /\ Good([Unknown EXCEPT !.image = "declared"])
        /\ \A image \in {"built", "featured"}, baked \in BOOLEAN :
                Good([Unknown EXCEPT !.baked = baked, !.image = image])
        /\ Good(Unknown)
    BY <1>u DEF Unknown, Environments, Images, Jails, Harnesses
  <2> HIDE DEF Good
  <2>2. \A files, feature, builds :
            feature \in BOOLEAN /\ EnvironmentImage(files, feature, builds) =>
                \/ Raise
                \/ phase' = "session" /\ Good(env') /\ UNCHANGED <<cache, next>>
    BY <2>1 DEF EnvironmentImage, BuiltImage
  <2>3. \/ Raise
        \/ phase' = "session" /\ Good(env') /\ UNCHANGED <<cache, next>>
    BY <1>2, <2>1, <2>2 DEF ResolveImage
  <2>4. QED
    BY <1>2, <2>3 DEF Good, ResolveImage
<1>3. CASE OpenSession
  <2>1. CASE Raise
    BY <1>3, <2>1 DEF OpenSession
  <2>2. CASE ~Raise
    <3>1. PICK harness \in Harnesses, podman \in BOOLEAN, requested \in BOOLEAN, bwrap \in BOOLEAN :
            LET bundle == WantsBundle(harness, requested)
            IN /\ podman => SessionImage(harness) # Nothing
               /\ bundle => podman /\ harness = "opencode"
               /\ env' = [env EXCEPT
                    !.harness = harness,
                    !.jail = IF podman THEN "podman"
                             ELSE IF harness = "opencode" /\ bwrap THEN "bwrap" ELSE "none",
                    !.image = IF podman THEN SessionImage(harness) ELSE Nothing,
                    !.mounted = bundle,
                    !.setup = podman /\ harness = "recipe" /\ LacksHarness]
               /\ phase' = IF bundle THEN "bundle" ELSE "wire"
               /\ UNCHANGED <<cache, next>>
      BY <1>3, <2>2 DEF OpenSession
    <3> DEFINE bundle == WantsBundle(harness, requested)
               lacks == LacksHarness
               image == IF podman THEN SessionImage(harness) ELSE Nothing
    <3>2. bundle \in BOOLEAN /\ lacks \in BOOLEAN /\ image \in Images
      BY DEF WantsBundle, LacksHarness, SessionImage, Environments, Images
    <3>3. image = "declared" => ~env.baked
      BY DEF SessionImage
    <3>4. image \in {"declared", "built"} /\ harness # "command" =>
            bundle \/ (podman /\ harness = "recipe" /\ lacks) \/ (image = "built" /\ env.baked)
      BY DEF SessionImage, WantsBundle, LacksHarness, Harnesses
    <3>5. /\ env' \in Environments
          /\ env'.image = image /\ env'.baked = env.baked /\ env'.harness = harness
          /\ env'.mounted = bundle /\ env'.setup = (podman /\ harness = "recipe" /\ lacks)
      <4> HIDE DEF bundle, lacks, image
      <4> QED  BY <3>1, <3>2 DEF Environments, Jails, bundle, lacks, image
    <3>6. /\ phase' = IF bundle THEN "bundle" ELSE "wire"
          /\ UNCHANGED <<cache, next>>
      BY <3>1
    <3> HIDE DEF bundle, lacks, image
    <3>7. QED
      BY <3>2, <3>3, <3>4, <3>5, <3>6
  <2>3. QED
    BY <2>1, <2>2
<1>4. CASE EnsureBundle
  BY <1>4 DEF EnsureBundle
<1>5. CASE StartCopy
  BY <1>5 DEF StartCopy
<1>6. CASE EndCopy
  BY <1>6 DEF EndCopy
<1>7. CASE MarkReady
  <2>1. cache.whole = 1..BundleFiles
    <3>1. next - 1 = BundleFiles
      BY <1>7 DEF MarkReady
    <3>2. 1..BundleFiles \subseteq cache.whole
      BY <1>7, <3>1 DEF MarkReady
    <3>3. QED
      BY <3>2
  <2>2. QED
    BY <1>7, <2>1 DEF MarkReady
<1>8. CASE Wire
  BY <1>8 DEF Wire
<1>9. CASE Restart
  BY <1>9, <1>u DEF Restart
<1>10. QED
  BY <1>1, <1>2, <1>3, <1>4, <1>5, <1>6, <1>7, <1>8, <1>9 DEF EnvironmentNext, BuildSession

\* The steps of the executor and of serve leave what was built alone.
LEMMA BuiltStays ==
    ASSUME Next, ~BuildStep
    PROVE  UNCHANGED <<environmentVars, setup>>
BY DEF Next, Execute, Begin, Choose, RunLocal, Ask, FillRequest, TakeResult, TimeOut, Verify,
       Review, Commit, Push, OpenDraftPr, Record, Close, StrayEdit, Serve, ServeTake, ServeEdit,
       ServeAnswer, ServeFill, ServeClear, ServeDies, Done, builtVars, vars, runVars

LEMMA EnvironmentKept ==
    EnvironmentInv /\ [Next]_vars => EnvironmentInv'
<1> SUFFICES ASSUME EnvironmentInv, [Next]_vars
             PROVE  EnvironmentInv'
  OBVIOUS
<1>1. CASE BuildStep
  BY <1>1, EnvironmentStep DEF BuildStep, EnvironmentNext
<1>2. CASE UNCHANGED environmentVars
  BY <1>2 DEF EnvironmentInv, EnvironmentTypeOK, CacheWhole, HarnessBrought, environmentVars
<1>3. QED
  BY <1>1, <1>2, BuiltStays DEF vars

LEMMA EnvironmentCorrect == Spec => []EnvironmentInv
<1>1. Init => EnvironmentInv
  BY EnvironmentAssumption DEF Init, EnvironmentInit, EnvironmentInv, EnvironmentTypeOK,
     CacheWhole, HarnessBrought, Unknown, Environments, Images, Jails, Harnesses
<1>2. QED
  BY <1>1, EnvironmentKept, PTL DEF Spec

\* A worker that comes to claim a task has its harness in the session, where
\* that is the repository's image: also when earlier processes died while they
\* copied the bundle, since the marker is written last and a cache without it
\* is filled anew.
THEOREM HarnessInsideCorrect == Spec => []HarnessInside
<1>1. EnvironmentInv => HarnessInside
  BY DEF EnvironmentInv, CacheWhole, HarnessBrought, HarnessInside
<1>2. QED
  BY <1>1, EnvironmentCorrect, PTL

-----------------------------------------------------------------------------
(* Types                                                                   *)

\* serve works on a request that was made.
ServingTyped == serverPc = "working" => serving # 0

LEMMA ServingStep ==
    TypeOK /\ ServingTyped /\ [Next]_vars => ServingTyped'
<1> SUFFICES ASSUME TypeOK, ServingTyped, [Next]_vars, serverPc' = "working"
             PROVE  serving' # 0
  BY DEF ServingTyped
<1>1. CASE ServeTake
  BY <1>1 DEF ServeTake, TypeOK, File, Absent
<1>2. CASE ~ServeTake
  <2>1. serverPc = "working" /\ UNCHANGED serving
    BY <1>2 DEF Next, Execute, BuildStep, Begin, Choose, RunLocal, Ask, FillRequest, TakeResult,
        TimeOut, Verify, Review, Commit, Push, OpenDraftPr, Record, Close, StrayEdit, Serve,
        ServeEdit, ServeAnswer, ServeFill, ServeClear, ServeDies, Done, serverVars, vars, runVars
  <2>2. QED
    BY <2>1 DEF ServingTyped
<1>3. QED
  BY <1>1, <1>2

LEMMA FileTyped ==
    ASSUME NEW r \in 1..MaxRequests, NEW ok \in BOOLEAN, NEW whole \in BOOLEAN
    PROVE  [run |-> r, ok |-> ok, whole |-> whole] \in File
BY DEF File

LEMMA FileFilled ==
    ASSUME NEW file \in File
    PROVE  /\ [file EXCEPT !.whole = TRUE] \in File
           /\ [file EXCEPT !.whole = TRUE].run = file.run
           /\ [file EXCEPT !.whole = TRUE].whole
           /\ file.run \in 1..MaxRequests /\ file.ok \in BOOLEAN /\ file.whole \in BOOLEAN
BY DEF File

LEMMA TypeStep ==
    EnvironmentInv /\ TypeOK /\ ServingTyped /\ [Next]_vars => TypeOK'
<1> SUFFICES ASSUME EnvironmentInv, TypeOK, ServingTyped, [Next]_vars
             PROVE  TypeOK'
  OBVIOUS
<1>e. EnvironmentTypeOK'
  BY EnvironmentKept DEF EnvironmentInv
<1> USE ExecutionAssumption, <1>e
        DEF TypeOK, builtVars, controlVars, sessionVars, placeVars, fileVars, serverVars, Failures
<1>1. CASE BuildStep \/ UNCHANGED vars
  <2>1. UNCHANGED runVars
    BY <1>1 DEF BuildStep, vars
  <2>2. QED
    BY <2>1 DEF runVars
<1>2. CASE Begin
  BY <1>2 DEF Begin
<1>c. CASE Choose
  <2>1. choice' \in Classes \union {NULL} /\ pc' \in {"ask", "close"}
    BY <1>c DEF Choose, Classes
  <2>2. UNCHANGED <<builtVars, controlVars, session, stray, leftover, placeVars, fileVars,
                    serverVars>>
    BY <1>c DEF Choose
  <2>3. QED
    BY <2>1, <2>2
<1>3. CASE RunLocal
  <2>1. session' \in [Classes -> {"none", "up", "bare"}]
    BY <1>3 DEF RunLocal, WrapSucceeds, WrapRaises
  <2>2. tree' \in 0..MaxEdits
    <3>1. Edit \/ UNCHANGED tree
      BY <1>3 DEF RunLocal
    <3>2. QED
      BY <3>1 DEF Edit
  <2>s. stray' \in BOOLEAN
    BY <1>3, Zenon DEF RunLocal
  <2>l. leftover' \subseteq {"created", "container", "worktree"}
    BY <1>3 DEF RunLocal, WrapSucceeds, WrapRaises
  <2>3. /\ pc' \in {"verify", "record", "commit"}
        /\ lastOk' \in BOOLEAN
        /\ failure' \in Failures \union {NULL}
    BY <1>3 DEF RunLocal, AfterRun
  <2>4. asked' \in 0..MaxRequests
    BY <1>3 DEF RunLocal
  <2>5. UNCHANGED <<builtVars, worktree, choice, taken, remaining, verified, committed,
                    recorded, fileVars, serverVars>>
    BY <1>3 DEF RunLocal
  <2>6. QED
    BY <2>1, <2>2, <2>s, <2>l, <2>3, <2>4, <2>5
<1>4. CASE Ask
  BY <1>4 DEF Ask, File, Absent
<1>5. CASE FillRequest
  <2>1. request' \in File \union {Absent}
    BY <1>5, FileFilled DEF FillRequest
  <2>2. QED
    BY <1>5, <2>1 DEF FillRequest
<1>6. CASE TakeResult
  <2>1. result.run \in 1..MaxRequests /\ result.ok \in BOOLEAN
    BY <1>6, FileFilled DEF TakeResult
  <2>2. /\ pc' \in {"verify", "record", "commit"}
        /\ lastOk' \in BOOLEAN
        /\ failure' \in Failures \union {NULL}
    BY <1>6, <2>1 DEF TakeResult, AfterRun
  <2>3. taken' \in 0..MaxRequests /\ asked' = asked /\ result' \in File \union {Absent}
    <3>1. /\ taken' \in {taken, result.run} /\ result' \in {Absent, result}
          /\ asked' = asked
      BY <1>6, Zenon DEF TakeResult
    <3>2. QED
      BY <2>1, <3>1
  <2>4. QED
    BY <1>6, <2>2, <2>3 DEF TakeResult
<1>7. CASE TimeOut
  <2>1. /\ pc' \in {"verify", "record", "commit"}
        /\ lastOk' \in BOOLEAN
        /\ failure' \in Failures \union {NULL}
    BY <1>7 DEF TimeOut, AfterRun
  <2>2. QED
    BY <1>7, <2>1 DEF TimeOut
<1>8. CASE Verify
  <2>1. /\ session' \in [Classes -> {"none", "up", "bare"}]
        /\ leftover' \subseteq {"created", "container", "worktree"}
    BY <1>8 DEF Verify, RunGate, WrapSucceeds, WrapRaises
  <2>2. QED
    BY <1>8, <2>1 DEF Verify
<1>9. CASE Review
  BY <1>9 DEF Review
<1>10. CASE Commit \/ Push \/ OpenDraftPr
  <2>1. /\ pc' \in {"push", "publish", "record", "close"}
        /\ failure' \in Failures \union {NULL}
        /\ committed' \in (0..MaxEdits) \union {NULL}
    BY <1>10 DEF Commit, Push, OpenDraftPr, PublishFails
  <2>2. UNCHANGED <<builtVars, asked, taken, lastOk, remaining, verified, recorded,
                    sessionVars, placeVars, fileVars, serverVars>>
    BY <1>10 DEF Commit, Push, OpenDraftPr
  <2>3. QED
    BY <2>1, <2>2
<1>11. CASE Record
  BY <1>11 DEF Record
<1>12. CASE Close
  <2>1. /\ session' \in [Classes -> {"none", "up", "bare"}]
        /\ pc' \in {"close", "over"} /\ worktree' \in BOOLEAN /\ stray' \in BOOLEAN
        /\ leftover' \subseteq {"created", "container", "worktree"}
    BY <1>12 DEF Close
  <2>2. QED
    BY <1>12, <2>1 DEF Close
<1>13. CASE StrayEdit \/ ServeEdit
  <2>1. tree' \in 0..MaxEdits
    BY <1>13 DEF StrayEdit, ServeEdit, Edit
  <2>2. UNCHANGED <<builtVars, pc, controlVars, sessionVars, worktree, fileVars, serverVars>>
    BY <1>13 DEF StrayEdit, ServeEdit
  <2>3. QED
    BY <2>1, <2>2
<1>14. CASE ServeTake
  BY <1>14 DEF ServeTake, File, Absent
<1>15. CASE ServeAnswer
  <2>1. serving \in 1..MaxRequests
    BY <1>15 DEF ServeAnswer, ServingTyped
  <2>2. result' \in File
    BY <1>15, <2>1, FileTyped DEF ServeAnswer
  <2>3. QED
    BY <1>15, <2>2 DEF ServeAnswer
<1>16. CASE ServeFill
  <2>1. result' \in File \union {Absent}
    BY <1>16, FileFilled DEF ServeFill
  <2>2. QED
    BY <1>16, <2>1 DEF ServeFill
<1>17. CASE ServeClear \/ ServeDies
  <2>1. serverPc' \in {"poll", "gone"} /\ request' \in {request, Absent}
    BY <1>17 DEF ServeClear, ServeDies
  <2>2. UNCHANGED <<builtVars, sessionVars, pc, controlVars, placeVars, result, serving>>
    BY <1>17 DEF ServeClear, ServeDies
  <2>3. QED
    BY <2>1, <2>2
<1> HIDE DEF TypeOK
<1>18. QED
  BY <1>1, <1>2, <1>c, <1>3, <1>4, <1>5, <1>6, <1>7, <1>8, <1>9, <1>10, <1>11, <1>12, <1>13,
     <1>14, <1>15, <1>16, <1>17 DEF Next, Execute, Serve, Done

-----------------------------------------------------------------------------
(* The executor's session                                                  *)

\* The places at which a task runs, from its choice of a runner on.
Running == {"ask", "fill", "wait", "verify", "review", "commit", "push", "publish", "record"}

\* A container is the chosen class's and stands in a worktree; a harness that
\* was given up runs in it, or in one that could not be removed; and once a
\* first run is over it is complete, so that no later wrap starts one.
SessionInv ==
    /\ pc = "build" => ~worktree
    /\ pc \notin {"build", "over"} => worktree
    /\ pc = "over" /\ worktree => "worktree" \in leftover
    /\ pc \in Running => choice \in Classes
    /\ \A c \in Classes : session[c] # "none" => c = choice /\ pc \in Running \union {"close"}
    /\ stray => (\E c \in Classes : session[c] # "none") \/ "container" \in leftover
    /\ Delegated => env.jail # "podman"
    /\ pc \in {"fill", "wait"} => Delegated
    /\ pc \in {"build", "choose"} => asked = 0
    /\ pc \in {"fill", "wait", "verify", "review", "commit"} => asked > 0
    /\ env.jail = "podman" /\ asked > 0 /\ pc \in {"ask", "verify", "review", "commit"} =>
            session[choice] = "up"

LEMMA SessionStep ==
    ASSUME TypeOK, SessionInv, SetupComplete, [Next]_vars
    PROVE  SessionInv' /\ SetupComplete'
<1> USE ExecutionAssumption
        DEF Running, builtVars, environmentVars, controlVars, sessionVars, placeVars, Delegated
<1>t. /\ session \in [Classes -> {"none", "up", "bare"}] /\ asked \in Nat
      /\ env \in Environments
  BY DEF TypeOK, EnvironmentTypeOK
<1>1. CASE BuildStep
  <2>1. pc = "build" /\ UNCHANGED <<worktree, pc, choice, session, stray, leftover, setup, asked, failure>>
    BY <1>1 DEF BuildStep, runVars
  <2>2. Delegated => env'.jail # "podman"
    BY <1>1, <1>t DEF BuildStep, Delegate, Unknown, Wire, Raise, SessionInv
  <2>3. QED
    BY <2>1, <2>2 DEF SessionInv, SetupComplete
<1>2. CASE Begin
  BY <1>2 DEF Begin, SessionInv, SetupComplete
<1>c. CASE Choose
  <2>1. /\ pc = "choose" /\ pc' \in {"ask", "close"}
        /\ pc' = "ask" => choice' \in Classes
        /\ UNCHANGED <<env, setup, worktree, session, stray, leftover, asked, failure>>
    BY <1>c DEF Choose, Classes
  <2>2. \A c \in Classes : session[c] = "none"
    BY <2>1 DEF SessionInv
  <2>3. asked = 0
    BY <2>1 DEF SessionInv
  <2>4. QED
    BY <2>1, <2>2, <2>3 DEF SessionInv, SetupComplete
<1>3. CASE RunLocal
  <2>1. /\ pc = "ask" /\ ~Delegated /\ choice \in Classes /\ asked' = asked + 1
        /\ UNCHANGED <<env, setup, worktree, choice>>
        /\ leftover \subseteq leftover'
    BY <1>3 DEF RunLocal, SessionInv, WrapSucceeds, WrapRaises
  <2>2. \A c \in Classes : session[c] # "bare"
    BY <2>1 DEF SetupComplete
  <2>3. CASE /\ WrapSucceeds(choice)
             /\ pc' \in {"verify", "record", "commit"}
             /\ stray' => stray \/ env.jail = "podman"
    <3>1. \A c \in Classes : session'[c] # "bare" /\ (session'[c] # "none" => c = choice)
      BY <1>t, <2>1, <2>2, <2>3 DEF WrapSucceeds, SessionInv
    <3>2. env.jail = "podman" => session'[choice] = "up"
      BY <1>t, <2>1, <2>2, <2>3 DEF WrapSucceeds
    <3>3. \A c \in Classes : session[c] # "none" => session'[c] # "none"
      BY <1>t, <2>1, <2>3 DEF WrapSucceeds
    <3>4. stray' => (\E c \in Classes : session'[c] # "none") \/ "container" \in leftover'
      BY <2>1, <2>3, <3>2, <3>3 DEF SessionInv
    <3>5. QED
      BY <1>t, <2>1, <2>3, <3>1, <3>2, <3>4 DEF SessionInv, SetupComplete
  <2>4. CASE WrapRaises(choice) /\ AfterRun(FALSE, "harness") /\ UNCHANGED stray
    <3>1. CASE asked = 0
      <4>1. pc' = "record" /\ failure' = "harness"
        BY <2>1, <2>4, <3>1 DEF AfterRun
      <4>2. /\ \A c \in Classes : session'[c] # "none" => c = choice
            /\ \A c \in Classes : session[c] # "none" => session'[c] # "none"
        BY <1>t, <2>1, <2>4 DEF WrapRaises, SessionInv
      <4>3. QED
        BY <2>1, <2>4, <4>1, <4>2 DEF SessionInv, SetupComplete
    <3>2. CASE asked > 0
      <4>1. pc' = "commit" /\ UNCHANGED failure
        BY <1>t, <2>1, <2>4, <3>2 DEF AfterRun
      <4>2. UNCHANGED session
        BY <2>1, <2>4, <3>2 DEF WrapRaises, SessionInv
      <4>3. QED
        BY <1>t, <2>1, <2>2, <2>4, <4>1, <4>2, <3>2 DEF SessionInv, SetupComplete
    <3>3. QED
      BY <1>t, <3>1, <3>2
  <2>5. CASE /\ WrapSucceeds(choice)
             /\ \/ AfterRun(TRUE, NULL) /\ UNCHANGED stray
                \/ \E kind \in {"missing", "harness"} : AfterRun(FALSE, kind) /\ UNCHANGED stray
                \/ AfterRun(FALSE, "timeout") /\ stray' = (stray \/ env.jail = "podman")
    <3>1. pc' \in {"verify", "record", "commit"}
      BY <2>5 DEF AfterRun
    <3>2. stray' => stray \/ env.jail = "podman"
      BY <2>5, Zenon
    <3>3. QED
      BY <2>3, <2>5, <3>1, <3>2
  <2>6. QED
    BY <1>3, <2>4, <2>5, Zenon DEF RunLocal, Chosen
<1>4. CASE Ask
  BY <1>4, <1>t DEF Ask, SessionInv, SetupComplete
<1>5. CASE FillRequest \/ TakeResult \/ TimeOut
  <2>1. /\ pc \in {"fill", "wait"} /\ pc' \in {"wait", "verify", "record", "commit"}
        /\ (pc' = "wait" <=> pc = "fill")
        /\ UNCHANGED <<env, setup, worktree, choice, session, stray, leftover, asked>>
    BY <1>5 DEF FillRequest, TakeResult, TimeOut, AfterRun
  <2>2. QED
    BY <2>1 DEF SessionInv, SetupComplete
<1>6. CASE Verify
  <2>1. UNCHANGED <<session, leftover>>
    BY <1>6 DEF Verify, RunGate, WrapSucceeds, WrapRaises, SessionInv
  <2>2. /\ pc = "verify" /\ pc' \in {"review", "record"}
        /\ UNCHANGED <<env, setup, worktree, choice, stray, asked>>
    BY <1>6 DEF Verify
  <2>3. QED
    BY <2>1, <2>2 DEF SessionInv, SetupComplete
<1>7. CASE Review \/ Commit \/ Push \/ OpenDraftPr
  <2>1. /\ pc \in {"review", "commit", "push", "publish"}
        /\ pc' \in {"ask", "commit", "push", "publish", "record", "close"}
        /\ pc' \in {"ask", "commit"} => pc = "review"
        /\ UNCHANGED <<env, setup, worktree, choice, session, stray, leftover, asked>>
    BY <1>7 DEF Review, Commit, Push, OpenDraftPr, PublishFails
  <2>2. QED
    BY <2>1 DEF SessionInv, SetupComplete
<1>8. CASE Record
  BY <1>8 DEF Record, SessionInv, SetupComplete
<1>9. CASE Close
  <2>1. CASE /\ session' = [c \in Classes |-> IF c = choice THEN "none" ELSE session[c]]
             /\ stray' => "container" \in leftover'
             /\ UNCHANGED <<worktree, pc>>
    <3>1. \A c \in Classes : session'[c] = "none"
      BY <2>1 DEF SessionInv
    <3>2. QED
      BY <1>9, <2>1, <3>1 DEF Close, SessionInv, SetupComplete
  <2>2. CASE /\ \A c \in Classes : session[c] = "none"
             /\ worktree' => "worktree" \in leftover'
             /\ leftover \subseteq leftover'
             /\ pc' = "over"
             /\ UNCHANGED <<session, stray>>
    BY <1>9, <2>2 DEF Close, SessionInv, SetupComplete
  <2>3. QED
    BY <1>9, <2>1, <2>2 DEF Close
<1>10. CASE StrayEdit \/ Serve \/ ServeDies \/ Done \/ UNCHANGED vars
  <2>1. UNCHANGED <<env, setup, worktree, pc, choice, session, stray, leftover, asked, failure>>
    BY <1>10 DEF StrayEdit, Serve, ServeTake, ServeEdit, ServeAnswer, ServeFill, ServeClear,
                 ServeDies, Done, vars, runVars
  <2>2. QED
    BY <2>1 DEF SessionInv, SetupComplete
<1>11. QED
  BY <1>1, <1>2, <1>c, <1>3, <1>4, <1>5, <1>6, <1>7, <1>8, <1>9, <1>10 DEF Next, Execute

-----------------------------------------------------------------------------
(* The executor and serve                                                  *)

\* After a run that failed the executor asks for no other.
GaveUp ==
    ~lastOk /\ pc \in {"commit", "push", "publish", "record", "close", "over"}

Listening == pc = "wait" \/ GaveUp

\* The two files hold the last request and its answer.  serve works, or its
\* answer lies there, only while the executor waits or has given up; an
\* answer that is whole is the end of the work; and a whole request that serve
\* may still take has no answer yet.
FilesInv ==
    /\ ~Delegated => serverPc = "gone" /\ request = Absent /\ result = Absent
    /\ serverPc \in {"working", "fill"} => serving = asked /\ Listening
    /\ request # Absent => request.run = asked /\ (~request.whole => pc = "fill")
    /\ request # Absent /\ request.whole /\ serverPc = "poll" => Listening /\ result = Absent
    /\ result # Absent => result.run = asked /\ Listening
    /\ serverPc = "working" => result = Absent
    /\ result # Absent /\ result.whole => serverPc # "fill"

LEMMA FilesStep ==
    ASSUME TypeOK, SessionInv, FilesInv, AnswerFits, [Next]_vars
    PROVE  FilesInv' /\ AnswerFits'
<1> USE ExecutionAssumption
        DEF Listening, GaveUp, Delegated, builtVars, fileVars, serverVars, controlVars
<1>t. /\ asked \in Nat
      /\ request # Absent => request \in File
      /\ result # Absent => result \in File
  BY DEF TypeOK
\* Where neither files nor serve nor the count change, it is enough that the
\* executor goes on listening, and that it is not in the middle of asking.
<1>f. ASSUME UNCHANGED <<setup, fileVars, serverVars, asked, taken>>,
             pc # "fill", Listening => Listening', pc' = "verify" => taken' = asked'
      PROVE  FilesInv' /\ AnswerFits'
  BY <1>f DEF FilesInv, AnswerFits
<1>1. CASE BuildStep \/ StrayEdit \/ ServeEdit \/ Done \/ UNCHANGED vars
  <2>1. UNCHANGED <<setup, fileVars, serverVars, asked, taken, lastOk, pc>>
    BY <1>1 DEF BuildStep, StrayEdit, ServeEdit, Done, vars, runVars
  <2>2. QED
    BY <2>1 DEF FilesInv, AnswerFits
<1>2. CASE Begin \/ Choose
  BY <1>2, <1>f DEF Begin, Choose
<1>3. CASE RunLocal
  <2>1. ~Delegated /\ UNCHANGED <<setup, fileVars, serverVars>>
    BY <1>3 DEF RunLocal
  <2>2. QED
    BY <2>1 DEF FilesInv, AnswerFits
<1>4. CASE Ask
  <2>1. /\ pc = "ask" /\ Delegated /\ UNCHANGED <<setup, serverVars>>
        /\ asked' = asked + 1 /\ result' = Absent /\ pc' = "fill"
        /\ request'.run = asked' /\ ~request'.whole
    BY <1>4, <1>t DEF Ask
  <2>2. QED
    BY <2>1 DEF FilesInv, AnswerFits
<1>5. CASE FillRequest
  <2>1. /\ pc = "fill" /\ pc' = "wait" /\ UNCHANGED <<setup, result, serverVars, asked>>
        /\ request = Absent => request' = Absent
        /\ request # Absent => request'.run = request.run /\ request'.whole
    BY <1>5, <1>t, FileFilled DEF FillRequest
  <2>2. QED
    BY <2>1 DEF FilesInv, AnswerFits, SessionInv
<1>6. CASE TakeResult
  <2>1. /\ pc = "wait" /\ result # Absent /\ Delegated
        /\ UNCHANGED <<setup, request, serverVars, asked>>
    BY <1>6 DEF TakeResult, SessionInv
  <2>2. CASE /\ result.whole /\ taken' = result.run /\ result' = Absent
             /\ AfterRun(result.ok, "harness")
    <3>1. serverPc \notin {"working", "fill"} /\ taken' = asked
      BY <2>1, <2>2 DEF FilesInv
    <3>2. request # Absent => request.run = asked /\ request.whole /\ serverPc # "poll"
      BY <2>1 DEF FilesInv
    <3>3. QED
      BY <2>1, <2>2, <3>1, <3>2 DEF FilesInv, AnswerFits
  <2>3. CASE UNCHANGED <<taken, result>> /\ AfterRun(FALSE, "harness")
    <3>1. Listening' /\ pc' # "verify"
      BY <2>3 DEF AfterRun
    <3>2. QED
      BY <1>f, <2>1, <2>3, <3>1
  <2>4. QED
    BY <1>6, <2>2, <2>3 DEF TakeResult
<1>7. CASE TimeOut
  <2>1. Listening' /\ pc' # "verify"
    BY <1>7 DEF TimeOut, AfterRun
  <2>2. QED
    BY <1>7, <1>f, <2>1 DEF TimeOut
<1>8. CASE Verify \/ Review \/ Commit \/ Push \/ OpenDraftPr \/ Record \/ Close
  <2>1. /\ pc \in {"verify", "review", "commit", "push", "publish", "record", "close"}
        /\ pc' \in {"review", "ask", "commit", "push", "publish", "record", "close", "over"}
        /\ pc \notin {"verify", "review"} => pc' \notin {"review", "ask"}
        /\ UNCHANGED <<setup, fileVars, serverVars, asked, taken, lastOk>>
    BY <1>8 DEF Verify, Review, Commit, Push, OpenDraftPr, PublishFails, Record, Close
  <2>2. QED
    BY <1>f, <2>1
<1>9. CASE ServeTake
  <2>1. /\ serverPc = "poll" /\ request # Absent
        /\ UNCHANGED <<setup, pc, fileVars, asked, taken, lastOk>>
        /\ \/ request.whole /\ serverPc' = "working" /\ serving' = request.run
           \/ ~request.whole /\ serverPc' = "gone"
    BY <1>9 DEF ServeTake
  <2>2. QED
    BY <2>1 DEF FilesInv, AnswerFits
<1>10. CASE ServeAnswer
  <2>1. /\ serverPc = "working" /\ serverPc' = "fill"
        /\ UNCHANGED <<setup, pc, request, serving, asked, taken, lastOk>>
        /\ result'.run = serving /\ ~result'.whole
    BY <1>10 DEF ServeAnswer
  <2>2. QED
    BY <2>1 DEF FilesInv, AnswerFits
<1>11. CASE ServeFill
  <2>1. /\ serverPc = "fill" /\ serverPc' = "clear"
        /\ UNCHANGED <<setup, pc, request, serving, asked, taken, lastOk>>
        /\ result = Absent => result' = Absent
        /\ result # Absent => result'.run = result.run
    BY <1>11, <1>t, FileFilled DEF ServeFill
  <2>2. QED
    BY <2>1 DEF FilesInv, AnswerFits
<1>12. CASE ServeClear
  BY <1>12 DEF ServeClear, FilesInv, AnswerFits
<1>13. CASE ServeDies
  BY <1>13 DEF ServeDies, FilesInv, AnswerFits
<1>14. QED
  BY <1>1, <1>2, <1>3, <1>4, <1>5, <1>6, <1>7, <1>8, <1>9, <1>10, <1>11, <1>12, <1>13
     DEF Next, Execute, Serve

-----------------------------------------------------------------------------
(* What is committed                                                       *)

\* From the gate to the commit nobody edits: a harness that was given up in
\* its container means that the executor gave up.
TreeInv ==
    /\ stray => GaveUp
    /\ pc \in {"review", "commit"} /\ lastOk => tree = verified
    /\ committed # NULL => pc \in {"push", "publish", "record", "close", "over"}

LEMMA TreeStep ==
    ASSUME TypeOK, SessionInv, FilesInv, TreeInv, CommitIsVerified, [Next]_vars
    PROVE  TreeInv' /\ CommitIsVerified'
<1> USE ExecutionAssumption
        DEF GaveUp, builtVars, controlVars, sessionVars, placeVars
<1>1. CASE BuildStep \/ ServeTake \/ ServeAnswer \/ ServeFill \/ ServeClear \/ ServeDies \/ Done
           \/ UNCHANGED vars
  <2>1. UNCHANGED <<pc, tree, lastOk, verified, committed, stray>>
    BY <1>1 DEF BuildStep, ServeTake, ServeAnswer, ServeFill, ServeClear, ServeDies, Done, vars,
                runVars
  <2>2. QED
    BY <2>1 DEF TreeInv, CommitIsVerified
<1>2. CASE Begin \/ Choose \/ Ask \/ FillRequest
  <2>1. /\ pc \in {"build", "choose", "ask", "fill"}
        /\ pc' \in {"choose", "ask", "fill", "wait", "close"}
        /\ UNCHANGED <<tree, lastOk, verified, committed, stray>>
    BY <1>2 DEF Begin, Choose, Ask, FillRequest
  <2>2. QED
    BY <2>1 DEF TreeInv, CommitIsVerified
<1>3. CASE RunLocal
  <2>1. pc = "ask" /\ ~stray /\ committed = NULL /\ UNCHANGED <<verified, committed>>
    BY <1>3 DEF RunLocal, TreeInv
  <2>2. ASSUME AfterRun(TRUE, NULL), UNCHANGED stray
        PROVE  TreeInv' /\ CommitIsVerified'
    BY <2>1, <2>2 DEF AfterRun, TreeInv, CommitIsVerified
  <2>3. ASSUME NEW kind, AfterRun(FALSE, kind)
        PROVE  TreeInv' /\ CommitIsVerified'
    BY <2>1, <2>3 DEF AfterRun, TreeInv, CommitIsVerified
  <2>4. QED
    BY <1>3, <2>2, <2>3 DEF RunLocal
<1>4. CASE TakeResult \/ TimeOut
  <2>1. /\ pc = "wait" /\ ~stray /\ committed = NULL
        /\ UNCHANGED <<verified, committed, stray>>
        /\ pc' \in {"verify", "record", "commit"}
        /\ pc' # "verify" => ~lastOk'
    BY <1>4 DEF TakeResult, TimeOut, AfterRun, TreeInv
  <2>2. QED
    BY <2>1 DEF TreeInv, CommitIsVerified
<1>5. CASE Verify
  BY <1>5 DEF Verify, TreeInv, CommitIsVerified
<1>6. CASE Review
  BY <1>6 DEF Review, TreeInv, CommitIsVerified
<1>7. CASE Commit
  BY <1>7 DEF Commit, PublishFails, TreeInv, CommitIsVerified
<1>8. CASE Push \/ OpenDraftPr \/ Record \/ Close
  <2>1. /\ pc \in {"push", "publish", "record", "close"}
        /\ pc' \in {"publish", "record", "close", "over"}
        /\ stray' => stray
        /\ UNCHANGED <<tree, lastOk, verified, committed>>
    BY <1>8 DEF Push, OpenDraftPr, PublishFails, Record, Close
  <2>2. QED
    BY <2>1 DEF TreeInv, CommitIsVerified
<1>9. CASE StrayEdit
  BY <1>9 DEF StrayEdit, TreeInv, CommitIsVerified
<1>10. CASE ServeEdit
  <2>1. pc \in {"review", "commit"} => ~lastOk
    BY <1>10 DEF ServeEdit, FilesInv, Listening
  <2>2. QED
    BY <1>10, <2>1 DEF ServeEdit, TreeInv, CommitIsVerified
<1>11. QED
  BY <1>1, <1>2, <1>3, <1>4, <1>5, <1>6, <1>7, <1>8, <1>9, <1>10 DEF Next, Execute, Serve

-----------------------------------------------------------------------------
(* The theorems                                                            *)

ExecutionInv ==
    /\ EnvironmentInv /\ TypeOK /\ ServingTyped
    /\ SessionInv /\ SetupComplete
    /\ FilesInv /\ AnswerFits
    /\ TreeInv /\ CommitIsVerified

LEMMA ExecutionInvCorrect == Spec => []ExecutionInv
<1>1. Init => ExecutionInv
  <2> SUFFICES ASSUME Init PROVE ExecutionInv
    OBVIOUS
  <2> USE ExecutionAssumption DEF Init
  <2>1. EnvironmentInv
    BY EnvironmentAssumption DEF EnvironmentInit, EnvironmentInv, EnvironmentTypeOK, CacheWhole,
       HarnessBrought, Unknown, Environments, Images, Jails, Harnesses
  <2>2. TypeOK /\ ServingTyped
    <3>1. serverPc \in {"poll", "gone"} /\ remaining \in 0..Rounds
      BY DEF Debates
    <3>2. worktree \in BOOLEAN /\ stray \in BOOLEAN /\ lastOk \in BOOLEAN
      OBVIOUS
    <3>3. session \in [Classes -> {"none", "up", "bare"}]
      OBVIOUS
    <3>4. /\ tree \in 0..MaxEdits /\ asked \in 0..MaxRequests /\ taken \in 0..MaxRequests
          /\ serving \in 0..MaxRequests
      OBVIOUS
    <3>5. QED
      BY <2>1, <3>1, <3>2, <3>3, <3>4 DEF EnvironmentInv, TypeOK, ServingTyped
  <2>3. SessionInv /\ SetupComplete
    BY DEF SessionInv, SetupComplete, Running, EnvironmentInit, Unknown
  <2>4. FilesInv /\ AnswerFits /\ TreeInv /\ CommitIsVerified
    BY DEF FilesInv, AnswerFits, TreeInv, CommitIsVerified, Delegated
  <2>5. QED
    BY <2>1, <2>2, <2>3, <2>4 DEF ExecutionInv
<1>2. ExecutionInv /\ [Next]_vars => ExecutionInv'
  BY EnvironmentKept, TypeStep, ServingStep, SessionStep, FilesStep, TreeStep DEF ExecutionInv
<1>3. QED
  BY <1>1, <1>2, PTL DEF Spec

\* The executor, its sidecar and the two files they share stay well-formed.
THEOREM ExecutionTypeCorrect == Spec => []TypeOK
<1>1. ExecutionInv => TypeOK
  BY DEF ExecutionInv
<1>2. QED
  BY <1>1, ExecutionInvCorrect, PTL

\* What is committed passed the verify gate, unless the debate ended with a
\* run that failed: a harness that timed out in its container or a sidecar
\* that was given up may still write, but then the executor has given up, too.
THEOREM CommitCorrect == Spec => []CommitIsVerified
<1>1. ExecutionInv => CommitIsVerified
  BY DEF ExecutionInv
<1>2. QED
  BY <1>1, ExecutionInvCorrect, PTL

\* The executor never takes an answer to an earlier request for the answer to
\* the one it waits for, however the two sides interleave over the two files,
\* and although serve removes whatever request it finds when it is done.
THEOREM AnswerCorrect == Spec => []AnswerFits
<1>1. ExecutionInv => AnswerFits
  BY DEF ExecutionInv
<1>2. QED
  BY <1>1, ExecutionInvCorrect, PTL

\* On every path, also the ones that raise, every container that was started is
\* told to go before the worktree is, and both before execute ends; a worktree
\* or a harness outlives that only if its removal failed.
THEOREM CleanUpCorrect == Spec => []CleanedUp
<1>1. ExecutionInv => CleanedUp
  BY DEF ExecutionInv, SessionInv, CleanedUp, Running
<1>2. QED
  BY <1>1, ExecutionInvCorrect, PTL

\* However many rounds there are and whatever the router would answer the
\* second time, a task has one container, the chosen class's.
THEOREM OneSessionCorrect == Spec => []OneSession
<1>1. ExecutionInv => OneSession
  BY DEF ExecutionInv, SessionInv, OneSession
<1>2. QED
  BY <1>1, ExecutionInvCorrect, PTL

\* No harness and no gate runs in a container whose setup failed: the first
\* run is the one that starts the container, and its failure ends the task.
THEOREM SetupCorrect == Spec => []SetupComplete
<1>1. ExecutionInv => SetupComplete
  BY DEF ExecutionInv
<1>2. QED
  BY <1>1, ExecutionInvCorrect, PTL
=============================================================================
