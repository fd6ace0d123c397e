------------------------------- MODULE Signals -------------------------------
(***************************************************************************)
(* What the strategies make of the stored history of one currency: the     *)
(* signals of SmallChanges (src/atd/smallchanges.cc:21-59, :146-179), the  *)
(* dip of DollarCostAveraging (dollarcostaveraging.cc:83-103) and conv,    *)
(* with which BuyLowAndHodl smooths prices (buylowandhodl.cc:50).          *)
(*                                                                         *)
(* currencyHistory returns the rows since some time, oldest first.  Of a   *)
(* row the model keeps percent_change_24h.  A row enters the window when   *)
(* the monitor stores it and leaves it when it is too old; the threads     *)
(* look at it whenever they come round.  The order to take a profit, which *)
(* looks at the price, is in module SmallChanges.                          *)
(***************************************************************************)
EXTENDS Stats

CONSTANTS
    Changes,        \* the values of percent_change_24h
    Enough,         \* chsize must be larger: 8
    Percent,        \* _dip_percentage and _margin_profit_percentage: 10
    MaxRows         \* bound of the model on the rows in the window

ASSUME SignalsAssumption ==
    /\ Changes \subseteq Int
    /\ Enough \in Nat \ {0}
    /\ Percent \in Nat \ {0}
    /\ MaxRows \in Nat

VARIABLES
    window,     \* the rows that currencyHistory returns at present
    signal,     \* the last signal a thread of SmallChanges has seen
    fresh       \* history: the rows stored since then, up to Enough

vars == <<window, signal, fresh>>

TypeOK ==
    /\ window \in Seq(Changes)
    /\ signal \in {"none", "buy", "sell"}
    /\ fresh \in 0 .. Enough

Init ==
    /\ window = <<>>
    /\ signal = "none"
    /\ fresh = 0

-----------------------------------------------------------------------------
(***************************************************************************)
(* The signals, on a history h                                             *)
(***************************************************************************)
\* chsize > 8
Measured(h) == Len(h) > Enough

\* Slip: the quarter alone.
AfterQuarter(h) == Len(h) \div 4 + 1 .. Len(h) \div 2

\* From halfPeriod + quarter to the end.
LastQuarter(h) == Len(h) \div 2 + Len(h) \div 4 + 1 .. Len(h)

Bargain(h) == \A i \in LastQuarter(h) : h[i] <= -Percent
LongBearRun(h) == \A i \in DOMAIN h : h[i] <= 0
BuySignal(h) == Measured(h) /\ (Bargain(h) \/ LongBearRun(h))

Spike(h) == \A i \in LastQuarter(h) : h[i] >= Percent
LongBullRun(h) == \A i \in DOMAIN h : h[i] > 0
SellSignal(h) == Measured(h) /\ (Spike(h) \/ LongBullRun(h))

\* Slip: one loss is a dip.
SomeLoss(h) == \E i \in DOMAIN h : h[i] < 0

Dip(h) == \A i \in DOMAIN h : h[i] < 0

\* The newest n rows: what a strategy that looks back less far is given.
Newest(h, n) == SubSeq(h, Len(h) - n + 1, Len(h))

-----------------------------------------------------------------------------
StoreRow ==
    /\ Len(window) < MaxRows
    /\ \E c \in Changes : window' = Append(window, c)
    /\ fresh' = IF fresh < Enough THEN fresh + 1 ELSE fresh
    /\ UNCHANGED signal

RowTooOld ==
    /\ window # <<>>
    /\ window' = Tail(window)
    /\ UNCHANGED <<signal, fresh>>

See(side) ==
    /\ signal' = side
    /\ fresh' = 0
    /\ UNCHANGED window

Buy == BuySignal(window) /\ See("buy")
Sell == SellSignal(window) /\ See("sell")

Next ==
    \/ StoreRow
    \/ RowTooOld
    \/ Buy
    \/ Sell

Spec == Init /\ [][Next]_vars

-----------------------------------------------------------------------------
(***************************************************************************)
(* Properties                                                              *)
(***************************************************************************)
(***************************************************************************)
(* A history is never a reason to buy and, right after, to sell, or the    *)
(* other way round: between opposite signals more than a quarter of Enough *)
(* rows are stored, three with the 8 of the code, whatever leaves the      *)
(* window meanwhile (smallchanges.cc:30, :155: without a least number of   *)
(* rows the last quarter could be empty, or a single row).                 *)
(***************************************************************************)
OppositeSignalsApart ==
    /\ signal = "buy" /\ SellSignal(window) => 4 * fresh > Enough
    /\ signal = "sell" /\ BuySignal(window) => 4 * fresh > Enough

(***************************************************************************)
(* DollarCostAveraging and SmallChanges share an account.  The first does  *)
(* not find a dip in the newest rows, however far it looks back, while the *)
(* second finds a reason to sell, as long as there is a row to look at     *)
(* (dollarcostaveraging.cc:88-93, smallchanges.cc:160-179).                *)
(***************************************************************************)
DipIsNoTimeToSell ==
    \A n \in 1 .. Len(window) : Dip(Newest(window, n)) => ~SellSignal(window)

(***************************************************************************)
(* conv is the convolution without padding that its comment promises       *)
(* (stats/namespace.hpp:79-97): each value is the sum of the products      *)
(* whose indexes have the same sum, over the places where one series lies  *)
(* within the other.                                                       *)
(***************************************************************************)
ConvIsConvolution ==
    \A g \in {<<1, 2, 4>>, <<3, 0, 1, 5, 2>>} :
        LET f == window
            m == Len(Shorter(f, g))
            Pairs(k) == {p \in (DOMAIN f) \X (DOMAIN g) : p[1] + p[2] = k}
        IN  f # <<>> =>
                Conv(f, g) =
                    [i \in 1 .. Len(Longer(f, g)) - m + 1 |->
                        MapThenSumSet(LAMBDA p : f[p[1]] * g[p[2]], Pairs(m + i))]
=============================================================================
