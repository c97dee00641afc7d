---------------------------- MODULE Environment ----------------------------
(***************************************************************************)
(* How a worker process comes to the session its harness runs in, before   *)
(* it claims a task: detect reads what the repository declares,            *)
(* _environment_image takes or builds an image, container_sandbox makes    *)
(* the session, HarnessBundle.ensure and the install recipe bring the      *)
(* harness into an image that lacks it; forge and reviewer are built last. *)
(* Any of it may raise: the process ends and no task was touched.          *)
(*                                                                         *)
(* Every setting of the process is read in one step, so it is chosen in      *)
(* that step; a later process may find other settings.  The bundle cache   *)
(* outlives the process and is filled by one process at a time.            *)
(***************************************************************************)
EXTENDS Naturals, Sequences

CONSTANTS
    Nothing,     \* no image
    BundleFiles  \* how many files a bundle has (OPENCODE_FILES)

ASSUME EnvironmentAssumption ==
    /\ BundleFiles \in Nat \ {0}
    /\ Nothing \notin {"own", "operator", "declared", "built", "featured"}

VARIABLES
    phase,  \* where build_worker is
    env,    \* what it found out so far
    cache,  \* the bundle cache: the files that are whole, and the .ready marker
    next    \* the file of the bundle that is copied next

environmentVars == <<phase, env, cache, next>>

\* What the image of a session is: the harness' own one, the one the operator
\* names (DEAR_AGENT_HARNESS_IMAGE), one the repository declares, or one built
\* for it, with or without the Feature that contains the harness.
Images == {"own", "operator", "declared", "built", "featured", Nothing}

\* opencode has an image and a bundle; claude and codex have an install
\* recipe; an operator's own command has neither.
Harnesses == {"opencode", "recipe", "command"}

\* NoSandbox, BubblewrapSandbox, ContainerSandbox, or a container of its own.
Jails == {"none", "bwrap", "podman", "sidecar"}

Environments ==
    [image : Images,      \* descriptor_image; later the image of the session
     baked : BOOLEAN,     \* harness_baked
     jail : Jails,
     harness : Harnesses,
     mounted : BOOLEAN,   \* whether the session mounts the bundle
     setup : BOOLEAN,     \* whether the session starts with the install recipe
     routed : BOOLEAN]    \* whether a RoutingRunner chooses among two classes

EnvironmentTypeOK ==
    /\ phase \in {"image", "session", "bundle", "copy", "torn", "wire", "ready", "failed"}
    /\ env \in Environments
    /\ cache \in [whole : SUBSET (1..BundleFiles), ready : BOOLEAN]
    /\ next \in 1..(BundleFiles + 1)

Unknown == [image |-> Nothing, baked |-> FALSE, jail |-> "none", harness |-> "opencode",
            mounted |-> FALSE, setup |-> FALSE, routed |-> FALSE]

EnvironmentInit ==
    /\ phase = "image"
    /\ env = Unknown
    /\ cache = [whole |-> {}, ready |-> FALSE]
    /\ next = 1

Raise == phase' = "failed" /\ UNCHANGED <<env, cache, next>>

-----------------------------------------------------------------------------
(* What the repository declares                                            *)

\* detect: the order of the finders is their precedence.
Finders == <<"devcontainer", "ansible-ee", "containerfile", "mise">>

\* A descriptor names an image, a build inside the repository, or nothing that
\* can be used: unreadable, incomplete, or a build path that leads outside.
Declarations ==
    [{"devcontainer", "ansible-ee", "containerfile", "mise"}
        -> {"absent", "image", "build", "nothing"}]

Repositories ==
    {files \in Declarations :
        /\ files["ansible-ee"] # "build"
        /\ files["containerfile"] \in {"absent", "build"}
        /\ files["mise"] \in {"absent", "nothing"}}

Detect(files) ==
    LET found == SelectSeq(Finders, LAMBDA kind : files[kind] # "absent")
    IN IF found = <<>> THEN [kind |-> "none", names |-> "nothing"]
                       ELSE [kind |-> found[1], names |-> files[found[1]]]

-----------------------------------------------------------------------------
(* The steps of build_worker                                               *)

\* The sidecar runs the harness in a container of its own: no session here.
Delegate ==
    /\ phase = "image"
    /\ env' = [Unknown EXCEPT !.jail = "sidecar"]
    /\ phase' = "wire"
    /\ UNCHANGED <<cache, next>>

\* EnvironmentBuilder.build: the devcontainer CLI installs the Feature, podman
\* build knows of none.
BuiltImage(descriptor, feature) ==
    IF feature /\ descriptor.kind = "devcontainer" THEN "featured" ELSE "built"

\* _environment_image.  A Feature needs a build, and the image is taken for
\* baked whatever was built.
EnvironmentImage(descriptor, feature, builds) ==
    \/ /\ descriptor.names = "image" /\ ~feature
       /\ env' = [Unknown EXCEPT !.image = "declared"]
       /\ phase' = "session"
       /\ UNCHANGED <<cache, next>>
    \/ /\ descriptor.names # "image" \/ feature
       /\ (descriptor.kind # "devcontainer" /\ descriptor.names # "build") \/ ~builds
       /\ env' = Unknown
       /\ phase' = "session"
       /\ UNCHANGED <<cache, next>>
    \/ /\ descriptor.names # "image" \/ feature
       /\ descriptor.kind = "devcontainer" \/ descriptor.names = "build"
       /\ builds
       /\ \/ Raise  \* EnvironmentBuildError
          \/ /\ env' = [Unknown EXCEPT !.baked = feature,
                                        !.image = BuiltImage(descriptor, feature)]
             /\ phase' = "session"
             /\ UNCHANGED <<cache, next>>

\* build_runner_and_session, as far as the image.  An operator's image wins,
\* and a RoutingRunner's harnesses are built without the repository.
ResolveImage ==
    /\ phase = "image"
    /\ \/ \E files \in Repositories, feature, builds \in BOOLEAN :
            EnvironmentImage(Detect(files), feature, builds)
       \/ /\ \E routed \in BOOLEAN, image \in {"operator", Nothing} :
                env' = [Unknown EXCEPT !.image = image, !.routed = routed]
          /\ phase' = "session"
          /\ UNCHANGED <<cache, next>>

\* descriptor_image, of a repository whose image lacks the harness as far as
\* the code knows
LacksHarness == env.image \in {"declared", "built"} /\ ~env.baked

\* container_sandbox: a harness with no image of its own needs another.
SessionImage(harness) ==
    IF env.image = Nothing /\ harness = "opencode" THEN "own" ELSE env.image

\* _maybe_inject_bundle
WantsBundle(harness, requested) == requested \/ (harness = "opencode" /\ LacksHarness)

\* The rest of build_runner_and_session: select_harness, container_sandbox and
\* what brings the harness in.  Only opencode is jailed by bwrap, if bwrap is
\* there; a bundle needs podman and opencode, also where the repository's image
\* asks for it; _maybe_install_harness adds the recipe.
OpenSession ==
    /\ phase = "session"
    /\ \/ Raise  \* no such harness, no image, or a bundle it cannot have
       \/ \E harness \in Harnesses, podman, requested, bwrap \in BOOLEAN :
            LET bundle == WantsBundle(harness, requested)
            IN /\ podman => SessionImage(harness) # Nothing
               /\ bundle => podman /\ harness = "opencode"
               /\ env' = [env EXCEPT
                    !.harness = harness,
                    !.jail = IF podman THEN "podman"
                             ELSE IF harness = "opencode" /\ bwrap THEN "bwrap" ELSE "none",
                    !.image = IF podman THEN SessionImage(harness) ELSE Nothing,
                    !.mounted = bundle,
                    !.setup = podman /\ harness = "recipe" /\ LacksHarness]
               /\ phase' = IF bundle THEN "bundle" ELSE "wire"
               /\ UNCHANGED <<cache, next>>

EnsureBundleMarked ==
    /\ phase = "bundle"
    /\ \/ cache.ready /\ phase' = "wire" /\ UNCHANGED <<env, cache, next>>
       \/ ~cache.ready /\ phase' = "copy" /\ next' = 1 /\ cache' = [cache EXCEPT !.ready = TRUE]
          /\ UNCHANGED env

\* HarnessBundle.ensure: a marked cache is taken as it is; otherwise every
\* file is copied, also the ones an earlier process left.
EnsureBundle ==
    /\ phase = "bundle"
    /\ \/ cache.ready /\ phase' = "wire" /\ UNCHANGED <<env, cache, next>>
       \/ ~cache.ready /\ phase' = "copy" /\ next' = 1 /\ UNCHANGED <<env, cache>>
       \/ ~cache.ready /\ Raise  \* podman create fails

\* podman cp: while it writes, the file is not whole;
StartCopy ==
    /\ phase = "copy" /\ next <= BundleFiles
    /\ cache' = [cache EXCEPT !.whole = @ \ {next}]
    /\ phase' = "torn"
    /\ UNCHANGED <<env, next>>

\* it succeeds, or it fails and ensure raises.
EndCopy ==
    /\ phase = "torn"
    /\ \/ /\ cache' = [cache EXCEPT !.whole = @ \union {next}]
          /\ next' = next + 1
          /\ phase' = "copy"
          /\ UNCHANGED env
       \/ Raise

\* The shim is written, then the marker.
MarkReady ==
    /\ phase = "copy" /\ next > BundleFiles
    /\ cache' = [cache EXCEPT !.ready = TRUE]
    /\ phase' = "wire"
    /\ UNCHANGED <<env, next>>

\* The rest of build_worker.  A forced forge without a token (GitError), a
\* reviewer without a model (ReviewError) and an unknown one raise; AutoForge
\* looks for its token only when it opens the pull request.
Wire ==
    /\ phase = "wire"
    /\ \/ phase' = "ready" /\ next' = 1 /\ UNCHANGED <<env, cache>>
       \/ Raise

\* The process ended, by an error or killed, and another one starts.
Restart ==
    /\ phase \notin {"image", "ready"}
    /\ phase' = "image"
    /\ env' = Unknown
    /\ next' = 1
    /\ UNCHANGED cache

BuildSession ==
    ResolveImage \/ OpenSession \/ EnsureBundle \/ StartCopy \/ EndCopy \/ MarkReady

-----------------------------------------------------------------------------
(* Properties                                                              *)

\* Where a repository's image is the session, the harness is in it: as a
\* bundle whose every file is whole, although processes died while they filled
\* the cache, as a Feature, or by the recipe the session starts with.  An
\* operator's own command is the operator's to provide; and a Feature is lost
\* on an image that is not a Dev Container's, which the code takes for baked.
HarnessInside ==
    phase = "ready" /\ env.image \in {"declared", "built"} /\ env.harness # "command" =>
        \/ env.mounted /\ cache.whole = 1..BundleFiles
        \/ env.setup
        \/ env.image = "built" /\ env.baked
=============================================================================
