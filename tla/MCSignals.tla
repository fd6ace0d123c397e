------------------------------ MODULE MCSignals ------------------------------
(***************************************************************************)
(* Instances of Signals for TLC: windows on both sides of Enough, and      *)
(* changes at, between and beyond the thresholds.                          *)
(***************************************************************************)
EXTENDS Signals

SomeChanges == {-10, -1, 0, 1, 10}
=============================================================================
