----------------------------- MODULE MCDispatch -----------------------------
(* Instances of Dispatch for TLC.                                          *)
EXTENDS Dispatch, TLC

CONSTANTS t1, t2

NoDeps == [t \in Tasks |-> {}]
Chain == [t \in Tasks |-> IF t = t2 THEN {t1} ELSE {}]
=============================================================================
