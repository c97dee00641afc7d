----------------------------- MODULE MCMailbox -----------------------------
(* Instances of Mailbox for TLC.                                           *)
EXTENDS Mailbox, TLC

CONSTANTS e1, e2, e3, m1, m2

\* e1 and e2 are two deliveries of one message.
Ids == [e \in Emails |-> IF e = e3 THEN m2 ELSE m1]

\* With two messages in an AgentMail inbox its list of one is crowded.
Limits == [k \in Kinds |-> IF k = "agentmail" THEN 1 ELSE 2]
=============================================================================
