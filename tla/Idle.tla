-------------------------------- MODULE Idle --------------------------------
(***************************************************************************)
(* The idle loop: dear-agent idle looks at the queue, reads the checkout,  *)
(* turns TODO markers and recent commits into proposals, stores the first  *)
(* MaxPerRun of them as tasks and asks a human about each.  Its ticks may  *)
(* overlap with each other and with people, mail and the worker, which are *)
(* modelled elsewhere and appear here as steps of the environment.         *)
(*                                                                         *)
(* A proposal is named by what its id is a digest of: the marker, or the   *)
(* commits it follows up on.  The text of proposals is left out.           *)
(***************************************************************************)
EXTENDS Naturals, Sequences, FiniteSets, Functions

CONSTANTS
    Markers,       \* the TODO markers, in the order git grep lists them
    Ticks,         \* processes that run dear-agent idle
    MaxPerRun,     \* --max
    MinQueueDepth, \* --min-queue-depth
    MaxProposals,  \* what the generator stops at
    MaxCommits,    \* bound on commits that are made
    MaxReal,       \* bound on queued tasks of people
    MaxFaults      \* bound on failing mails and dying ticks

FollowUp(n) == <<"commits", n>>
Proposals == {<<"todo", m>> : m \in Range(Markers)} \union {FollowUp(n) : n \in 0..MaxCommits}

ASSUME IdleAssumption ==
    /\ MaxPerRun \in Nat \ {0} /\ MinQueueDepth \in Nat \ {0} /\ MaxProposals \in Nat \ {0}
    /\ MaxCommits \in Nat /\ MaxReal \in Nat /\ MaxFaults \in Nat

VARIABLES
    noGate,   \* --no-gate
    present,  \* markers that are in the checkout
    commits,  \* how many commits were made
    real,     \* queued tasks of people
    st,       \* the state of each proposal's task
    tokens,   \* how many approval requests were issued for it
    approved, \* proposals a human released
    pc,
    batch,    \* what a tick has still to submit
    faults

repoVars == <<noGate, present, commits>>
tickVars == <<pc, batch>>
idleVars == <<repoVars, real, st, tokens, approved, tickVars, faults>>

IdleTypeOK ==
    /\ noGate \in BOOLEAN
    /\ present \subseteq Range(Markers)
    /\ commits \in 0..MaxCommits
    /\ real \in 0..MaxReal
    /\ st \in [Proposals -> {"absent", "action", "queued", "running", "done", "failed", "rejected"}]
    /\ tokens \in [Proposals -> Nat]
    /\ approved \subseteq Proposals
    /\ pc \in [Ticks -> {"off", "collect", "submit", "ask"}]
    /\ batch \in [Ticks -> Seq(Proposals)]
    /\ \A p \in Ticks : Len(batch[p]) <= MaxPerRun
    /\ faults \in 0..MaxFaults

IdleInit ==
    /\ noGate \in BOOLEAN
    /\ present = Range(Markers)
    /\ commits = 0
    /\ real = 0
    /\ st = [x \in Proposals |-> "absent"]
    /\ tokens = [x \in Proposals |-> 0]
    /\ approved = {}
    /\ pc = [p \in Ticks |-> "off"]
    /\ batch = [p \in Ticks |-> <<>>]
    /\ faults = 0

Goto(p, place) == pc' = [pc EXCEPT ![p] = place]
First(s, n) == SubSeq(s, 1, IF n < Len(s) THEN n ELSE Len(s))

-----------------------------------------------------------------------------
(* A tick                                                                  *)

QueueDepth == real + Cardinality({x \in Proposals : st[x] = "queued"})

\* IdleBudget.allows
Look(p) ==
    /\ pc[p] = "off"
    /\ QueueDepth < MinQueueDepth
    /\ Goto(p, "collect")
    /\ UNCHANGED <<repoVars, real, st, tokens, approved, batch, faults>>

GenerateOneFewer(recent) ==
    LET here(m) == m \in present
        todos == First(SelectSeq(Markers, here), MaxProposals - 1)
    IN  [i \in DOMAIN todos |-> <<"todo", todos[i]>>]
        \o (IF recent /\ Len(todos) < MaxProposals THEN <<FollowUp(commits)>> ELSE <<>>)

\* ProposalGenerator.generate: the markers, and then what follows up on the
\* commits, if there are recent ones and the markers are not enough.
Generate(recent) ==
    LET here(m) == m \in present
        todos == First(SelectSeq(Markers, here), MaxProposals)
    IN  [i \in DOMAIN todos |-> <<"todo", todos[i]>>]
        \o (IF recent /\ Len(todos) < MaxProposals THEN <<FollowUp(commits)>> ELSE <<>>)

\* collect and generate, cut to the budget of a run.  Whether a commit was made
\* in the last fourteen days depends on the date.
Collect(p) ==
    /\ pc[p] = "collect"
    /\ \E recent \in BOOLEAN :
         batch' = [batch EXCEPT ![p] = First(Generate(recent), MaxPerRun)]
    /\ Goto(p, "submit")
    /\ UNCHANGED <<repoVars, real, st, tokens, approved, faults>>

SubmitAndRelease(p) ==
    /\ pc[p] = "submit" /\ batch[p] # <<>>
    /\ LET x == Head(batch[p])
       IN  \/ /\ st[x] = "absent"
              /\ st' = [st EXCEPT ![x] = "queued"]
              /\ Goto(p, "ask")
              /\ UNCHANGED batch
           \/ /\ st[x] # "absent"
              /\ batch' = [batch EXCEPT ![p] = Tail(@)]
              /\ UNCHANGED <<st, pc>>
    /\ UNCHANGED <<repoVars, real, tokens, approved, faults>>

SubmitAsksAgain(p) ==
    /\ pc[p] = "submit" /\ batch[p] # <<>>
    /\ LET x == Head(batch[p])
       IN  st' = IF st[x] = "absent" THEN [st EXCEPT ![x] = "action"] ELSE st
    /\ Goto(p, "ask")
    /\ UNCHANGED <<repoVars, real, tokens, approved, batch, faults>>

\* submit: enqueue stores the task unless one with its id is there already.
Submit(p) ==
    /\ pc[p] = "submit" /\ batch[p] # <<>>
    /\ LET x == Head(batch[p])
       IN  \/ /\ st[x] = "absent" /\ ~noGate
              /\ st' = [st EXCEPT ![x] = "action"]
              /\ Goto(p, "ask")
              /\ UNCHANGED batch
           \/ /\ st[x] # "absent" \/ noGate
              /\ st' = IF st[x] = "absent" THEN [st EXCEPT ![x] = "queued"] ELSE st
              /\ batch' = [batch EXCEPT ![p] = Tail(@)]
              /\ UNCHANGED pc
    /\ UNCHANGED <<repoVars, real, tokens, approved, faults>>

\* The token is issued; if the mail with it cannot be sent, the tick raises.
AskApproval(p) ==
    /\ pc[p] = "ask"
    /\ tokens' = [tokens EXCEPT ![Head(batch[p])] = @ + 1]
    /\ \/ /\ batch' = [batch EXCEPT ![p] = Tail(@)]
          /\ Goto(p, "submit")
          /\ UNCHANGED faults
       \/ /\ faults < MaxFaults /\ faults' = faults + 1
          /\ batch' = [batch EXCEPT ![p] = <<>>]
          /\ Goto(p, "off")
    /\ UNCHANGED <<repoVars, real, st, approved>>

Done(p) ==
    /\ pc[p] = "submit" /\ batch[p] = <<>>
    /\ Goto(p, "off")
    /\ UNCHANGED <<repoVars, real, st, tokens, approved, batch, faults>>

\* The process dies, or the database is away.
Dies(p) ==
    /\ pc[p] # "off"
    /\ faults < MaxFaults /\ faults' = faults + 1
    /\ Goto(p, "off")
    /\ batch' = [batch EXCEPT ![p] = <<>>]
    /\ UNCHANGED <<repoVars, real, st, tokens, approved>>

-----------------------------------------------------------------------------
(* Everybody else                                                          *)

\* A human answers the request for x.
Reply(x) ==
    /\ st[x] = "action" /\ tokens[x] > 0
    /\ \/ st' = [st EXCEPT ![x] = "queued"] /\ approved' = approved \union {x}
       \/ st' = [st EXCEPT ![x] = "rejected"] /\ UNCHANGED approved
    /\ UNCHANGED <<repoVars, real, tokens, tickVars, faults>>

\* The worker claims a task, and ends it.
Work(x) ==
    /\ \/ st[x] = "queued" /\ st' = [st EXCEPT ![x] = "running"]
       \/ st[x] = "running" /\ \E s \in {"done", "failed"} : st' = [st EXCEPT ![x] = s]
    /\ UNCHANGED <<repoVars, real, tokens, approved, tickVars, faults>>

Mail ==
    /\ real < MaxReal /\ real' = real + 1
    /\ UNCHANGED <<repoVars, st, tokens, approved, tickVars, faults>>

WorkReal ==
    /\ real > 0 /\ real' = real - 1
    /\ UNCHANGED <<repoVars, st, tokens, approved, tickVars, faults>>

\* A commit, with or without the last of a marker.
Commit ==
    /\ commits < MaxCommits /\ commits' = commits + 1
    /\ \/ UNCHANGED present
       \/ \E m \in present : present' = present \ {m}
    /\ UNCHANGED <<noGate, real, st, tokens, approved, tickVars, faults>>

-----------------------------------------------------------------------------

IdleTick(p) == Look(p) \/ Collect(p) \/ Submit(p) \/ AskApproval(p) \/ Done(p)

IdleNext ==
    \/ \E p \in Ticks : IdleTick(p) \/ Dies(p)
    \/ \E x \in Proposals : Reply(x) \/ Work(x)
    \/ Mail \/ WorkReal \/ Commit

IdleSpec == IdleInit /\ [][IdleNext]_idleVars

\* idle is run again and again, and the worker empties the queue, although
\* mail keeps coming; people answer if they like.
FairIdleSpec ==
    /\ IdleSpec
    /\ \A p \in Ticks :
        /\ SF_idleVars(Look(p))
        /\ WF_idleVars(Collect(p) \/ Submit(p) \/ AskApproval(p) \/ Done(p))
    /\ \A x \in Proposals : WF_idleVars(Work(x))
    /\ WF_idleVars(WorkReal)

-----------------------------------------------------------------------------
(* Properties                                                              *)

\* docs/roadmap.md, M5.3: proposals "enter the queue approval-gated and are
\* never auto-executed", whichever ticks overlap or die.
GateHolds ==
    ~noGate => \A x \in Proposals : st[x] \in {"queued", "running", "done"} => x \in approved

\* However many ticks see one marker, one human is asked about it once.
AskedOnce == \A x \in Proposals : tokens[x] <= 1

\* docs/architecture.md: "When the queue is empty, proposes new work anchored
\* to recent repository activity".  A marker that stays is proposed, whatever
\* fails meanwhile, if it is among the first that a run may store; the budget
\* counts proposals that are stored already, so that no other ever is.
WithinBudget(m) ==
    LET here(k) == k \in present
        listed == SelectSeq(Markers, here)
    IN  \E i \in DOMAIN listed : listed[i] = m /\ i <= MaxPerRun /\ i <= MaxProposals

NewWorkProposed ==
    \A m \in Range(Markers) :
        WithinBudget(m) ~> (st[<<"todo", m>>] # "absent" \/ m \notin present)
=============================================================================
