---------------------------- MODULE MCEscalation ----------------------------
(* Instances of Escalation for TLC: the constants are numbers.             *)
EXTENDS Escalation
=============================================================================
