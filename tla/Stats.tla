-------------------------------- MODULE Stats --------------------------------
(***************************************************************************)
(* conv, of include/atd/stats/namespace.hpp.  Series are sequences of      *)
(* integers, so nothing is rounded.                                        *)
(***************************************************************************)
EXTENDS Integers, Sequences, FiniteSetsExt

Shorter(f, g) == IF Len(f) < Len(g) THEN f ELSE g
Longer(f, g) == IF Len(f) < Len(g) THEN g ELSE f

\* How many values conv returns for series of m and n values.
ConvSize(m, n) == 1 + IF m < n THEN n - m ELSE m - n

\* Slip: both series are run through forwards.
Correlate(f, g) ==
    LET s == Shorter(f, g)
        l == Longer(f, g)
    IN  [i \in 1 .. ConvSize(Len(f), Len(g)) |->
            MapThenSumSet(LAMBDA t : s[1 + t] * l[i + t], 0 .. Len(s) - 1)]

\* The shorter series, backwards, against every stretch of the longer one.
Conv(f, g) ==
    LET s == Shorter(f, g)
        l == Longer(f, g)
    IN  [i \in 1 .. ConvSize(Len(f), Len(g)) |->
            MapThenSumSet(LAMBDA t : s[Len(s) - t] * l[i + t], 0 .. Len(s) - 1)]
=============================================================================
