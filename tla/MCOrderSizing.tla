--------------------------- MODULE MCOrderSizing ---------------------------
(***************************************************************************)
(* Instances of OrderSizing for TLC.  The interesting prices are on both   *)
(* sides of 1, the interesting balances empty, just short and ample.       *)
(***************************************************************************)
EXTENDS OrderSizing
=============================================================================
