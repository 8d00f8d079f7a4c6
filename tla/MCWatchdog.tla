----------------------------- MODULE MCWatchdog -----------------------------
(* Instances of Watchdog for TLC: the constants are numbers.               *)
EXTENDS Watchdog
=============================================================================
