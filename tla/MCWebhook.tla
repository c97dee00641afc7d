----------------------------- MODULE MCWebhook -----------------------------
(* Instances of Webhook for TLC.                                           *)
EXTENDS Webhook, TLC

CONSTANTS r1, r2, r3, s1, s2

\* r3 is from somebody else and too long, r1 needs a read.
From == [r \in Requests |-> IF r = r3 THEN s2 ELSE s1]
Lengths == [r \in Requests |-> IF r = r3 THEN 2 ELSE IF r = r1 THEN 1 ELSE 0]
=============================================================================
