------------------------------ MODULE MCStops ------------------------------
(* Instances of Stops for TLC: the constants are numbers.                  *)
EXTENDS Stops
=============================================================================
