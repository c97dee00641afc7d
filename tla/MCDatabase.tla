----------------------------- MODULE MCDatabase -----------------------------
(* Instances of Database for TLC.                                          *)
EXTENDS Database, TLC

CONSTANTS task, p, q, c1, c2, cli, free, finished, stale, fresh

\* A task to claim; the policies of p and q, p's to be removed.
OldTable == task :> free @@ p :> stale @@ q :> NULL

Delete == [kind |-> "delete", keys |-> Policies]
Insert == [kind |-> "insert", key |-> q, to |-> fresh]

\* Two workers claim one task, and the winner settles it.  dear-agent policy
\* sync replaces the policies, then again from files that name q twice.
ClaimAndSettle(c) ==
    << << [kind |-> "swap", key |-> task, from |-> free, to |-> c] >>,
       << [kind |-> "swap", key |-> task, from |-> c, to |-> finished] >> >>
Calls ==
    [c \in Clients |-> IF c = cli THEN << <<Delete, Insert>>, <<Delete, Insert, Insert>> >>
                                  ELSE ClaimAndSettle(c)]

ASSUME InstanceAssumption == OwnSwaps /\ Refills
=============================================================================
