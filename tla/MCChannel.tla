------------------------------ MODULE MCChannel ------------------------------
(***************************************************************************)
(* An instance of Channel for TLC.  Three threads, two items: two sleepers *)
(* and one caller of put or close is the least that tells notify_one from  *)
(* notify_all and lets one getter overtake another that was woken for its  *)
(* item.                                                                   *)
(***************************************************************************)
EXTENDS Channel
=============================================================================
