---------------------------- MODULE MCMonitoring ----------------------------
(***************************************************************************)
(* Instances of Monitoring for TLC: three currencies with a pause after    *)
(* two, so that pauses and rounds end at different places, and one base.   *)
(***************************************************************************)
EXTENDS Monitoring
=============================================================================
