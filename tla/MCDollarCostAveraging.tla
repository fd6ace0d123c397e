----------------------- MODULE MCDollarCostAveraging -----------------------
(***************************************************************************)
(* Instances of DollarCostAveraging for TLC: a year of three months, the   *)
(* second of them short, and time for two years.                           *)
(***************************************************************************)
EXTENDS DollarCostAveraging

ThreeMonths == <<2, 1, 2>>
=============================================================================
