----------------------------- MODULE MCTrading -----------------------------
(***************************************************************************)
(* Instances of Trading for TLC.  At most two ids per strategy and life,   *)
(* one per plain order and one per lost answer are in use at once.  The    *)
(* run on liveness has that many, so its market never runs out.  The run   *)
(* with the restart has one less: its market makes the decisor wait when   *)
(* every order that can be open is.                                        *)
(***************************************************************************)
EXTENDS Trading, TLC

\* Ids are interchangeable, and the safety run uses it.
TxIdSymmetry == Permutations(TxIds)
=============================================================================
