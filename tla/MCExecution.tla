---------------------------- MODULE MCExecution ----------------------------
(* Instances of Execution for TLC: the configurations give the constants.  *)
EXTENDS Execution, TLC
=============================================================================
