----------------------------- MODULE MCOverlay -----------------------------
(* Instances of Overlay for TLC: two strikes, two near expiries, one far.  *)
EXTENDS Overlay
=============================================================================
