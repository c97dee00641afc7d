---------------------------- MODULE MCDecisions ----------------------------
(* Instances of Decisions for TLC.                                         *)
EXTENDS Decisions, TLC

CONSTANTS g1, s1, l1, l2

\* A gate or a shell writes to the file; both, or a shell alone, to the table.
Stores ==
    {<<"file", {g1}>>, <<"file", {s1}>>, <<"postgres", {g1, s1}>>, <<"postgres", {s1}>>}

LabelerSymmetry == Permutations(Labelers)
=============================================================================
