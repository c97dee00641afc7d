---------------------------- MODULE TaskLifecycle ----------------------------
(***************************************************************************)
(* What the cluster promises about tasks that no operator touches: each is *)
(* submitted, run, given back to the queue at most Limit times, and        *)
(* settled once and for all; and once submitted it does settle, unless it  *)
(* is held up for good.  The states are those of queue/models.py;          *)
(* docs/queue.md draws this machine.                                       *)
(* A run that outlived its lease may still settle the task it lost.        *)
(***************************************************************************)
EXTENDS Naturals

CONSTANTS
    Tasks,
    Limit  \* how often a run may be given back

VARIABLES
    st,   \* the state of each task
    att,  \* how often its run was given back
    held  \* tasks nothing is promised about for now; no step depends on them

vars == <<st, att>>

Init ==
    /\ st = [t \in Tasks |-> "absent"]
    /\ att = [t \in Tasks |-> 0]

Move(t, from, to) ==
    /\ st[t] = from
    /\ st' = [st EXCEPT ![t] = to]
    /\ UNCHANGED att

Submit(t) == Move(t, "absent", "queued")
Start(t) == Move(t, "queued", "running")
Refuse(t) == Move(t, "queued", "failed")
Settle(t) == Move(t, "running", "done") \/ Move(t, "running", "failed")
SettleLate(t) == att[t] > 0 /\ Move(t, "queued", "done")

\* Runs whose time is over are given back together.
GiveBack(S) ==
    /\ \A t \in S : st[t] = "running" /\ att[t] < Limit
    /\ st' = [t \in Tasks |-> IF t \in S THEN "queued" ELSE st[t]]
    /\ att' = [t \in Tasks |-> IF t \in S THEN att[t] + 1 ELSE att[t]]

Progress(t) == Start(t) \/ Refuse(t) \/ Settle(t) \/ SettleLate(t) \/ GiveBack({t})

Next ==
    \/ \E t \in Tasks : Submit(t) \/ Progress(t)
    \/ \E S \in SUBSET Tasks : GiveBack(S)

Spec == Init /\ [][Next]_vars /\ \A t \in Tasks : WF_vars(t \notin held /\ Progress(t))
=============================================================================
