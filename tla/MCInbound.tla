----------------------------- MODULE MCInbound -----------------------------
(* Instances of Inbound for TLC.                                           *)
EXTENDS Inbound, TLC

CONSTANTS t1

\* t1 is suspicious; the deciders may change their mind on a redelivery, and
\* so may the policy that allows its repository.
Texts == [t \in Tasks |-> {"rejected", "park", "run"}]

\* The approval of the right sender; and one whose token was passed on.
OneAnswer == {<<"approved", TRUE>>}
ForwardedAnswers == {<<"approved", TRUE>>, <<"approved", FALSE>>}
=============================================================================
