---------------------------- MODULE SignalProofs ----------------------------
(***************************************************************************)
(* Proofs about Signals, for all changes, thresholds and lengths of the    *)
(* window.  One row carries the argument: the newest of those that were    *)
(* there at the last signal.  It agreed with that signal, and as long as   *)
(* few rows have come after it, it is in the last quarter of any window    *)
(* that is long enough, where the opposite signal would need it to         *)
(* disagree.                                                               *)
(***************************************************************************)
EXTENDS Signals, SequenceTheorems, FiniteSetTheorems, TLAPS

\* Few rows were stored since the last signal, and older ones are left.
NewestSeen == Len(window) - fresh
StillSeen == 4 * fresh <= Enough /\ fresh < Len(window)

NewestSeenAgrees ==
    /\ signal = "buy" /\ StillSeen => window[NewestSeen] <= 0
    /\ signal = "sell" /\ StillSeen => window[NewestSeen] > 0

SignalInv == TypeOK /\ NewestSeenAgrees

-----------------------------------------------------------------------------
(***************************************************************************)
(* The last quarter                                                        *)
(***************************************************************************)
\* If k is at most a quarter of Enough, a history that is long enough has
\* more than k rows in its last quarter.
LEMMA InLastQuarter ==
  ASSUME NEW h \in Seq(Int), NEW k \in Nat, 4 * k <= Enough, Measured(h)
  PROVE  Len(h) - k \in LastQuarter(h) /\ Len(h) - k \in DOMAIN h
<1> DEFINE n == Len(h)
<1>1. n \in Nat /\ Enough \in Nat /\ n > Enough /\ DOMAIN h = 1 .. n
  BY SignalsAssumption DEF Measured, SignalsAssumption
<1> HIDE DEF n
<1>2. n \div 2 + n \div 4 + 1 <= n - k
  BY <1>1
<1>3. n \div 2 \in Nat /\ n \div 4 \in Nat
  BY <1>1
<1>4. n - k \in n \div 2 + n \div 4 + 1 .. n /\ n - k \in 1 .. n
  BY <1>1, <1>2, <1>3
<1>5. QED
  BY <1>1, <1>4 DEF LastQuarter, n

\* A row of the last quarter agrees with the signal of its history.
LEMMA BuyMeansNoGain ==
  ASSUME NEW h \in Seq(Int), BuySignal(h),
         NEW i \in LastQuarter(h), i \in DOMAIN h
  PROVE  h[i] <= 0
<1>1. h[i] \in Int /\ Percent \in Nat \ {0}
  BY SignalsAssumption DEF SignalsAssumption
<1>2. h[i] <= -Percent \/ h[i] <= 0
  BY DEF BuySignal, Bargain, LongBearRun
<1>3. QED
  BY <1>1, <1>2

LEMMA SellMeansGain ==
  ASSUME NEW h \in Seq(Int), SellSignal(h),
         NEW i \in LastQuarter(h), i \in DOMAIN h
  PROVE  h[i] > 0
<1>1. h[i] \in Int /\ Percent \in Nat \ {0}
  BY SignalsAssumption DEF SignalsAssumption
<1>2. h[i] >= Percent \/ h[i] > 0
  BY DEF SellSignal, Spike, LongBullRun
<1>3. QED
  BY <1>1, <1>2

\* The newest row agrees with the signal.
LEMMA NewestAgrees ==
  ASSUME NEW h \in Seq(Int), BuySignal(h) \/ SellSignal(h)
  PROVE  /\ Len(h) > 0
         /\ BuySignal(h) => h[Len(h)] <= 0
         /\ SellSignal(h) => h[Len(h)] > 0
<1>1. Measured(h) /\ Enough \in Nat \ {0} /\ Len(h) \in Nat
  BY SignalsAssumption DEF BuySignal, SellSignal, SignalsAssumption
<1>2. Len(h) - 0 \in LastQuarter(h) /\ Len(h) - 0 \in DOMAIN h
  BY <1>1, InLastQuarter
<1>3. Len(h) > 0 /\ Len(h) - 0 = Len(h)
  BY <1>1 DEF Measured
<1>4. QED
  BY <1>2, <1>3, BuyMeansNoGain, SellMeansGain

-----------------------------------------------------------------------------
(***************************************************************************)
(* The invariant                                                           *)
(***************************************************************************)
\* Changes are integers, so the window is a sequence of integers.
LEMMA WindowOfIntegers == ASSUME TypeOK PROVE window \in Seq(Int) /\ fresh \in Nat
<1>1. Changes \subseteq Int /\ Enough \in Nat
  BY SignalsAssumption DEF SignalsAssumption
<1>2. window \in Seq(Changes) /\ fresh \in 0 .. Enough
  BY DEF TypeOK
<1>3. window \in Seq(Int)
  BY <1>1, <1>2, SeqMonotonic, Zenon
<1>4. fresh \in Nat
  BY <1>1, <1>2
<1>5. QED
  BY <1>3, <1>4

LEMMA SignalStart == Init => SignalInv
<1> SUFFICES ASSUME Init PROVE SignalInv
  OBVIOUS
<1>1. 0 \in 0 .. Enough
  BY SignalsAssumption DEF SignalsAssumption
<1>2. TypeOK
  BY <1>1 DEF Init, TypeOK
<1>3. NewestSeenAgrees
  BY DEF Init, NewestSeenAgrees
<1>4. QED
  BY <1>2, <1>3 DEF SignalInv

\* A row that is stored moves the newest seen row away from the end by one,
\* a row that leaves does not move it; a signal starts anew at the end.
LEMMA SignalStep == SignalInv /\ [Next]_vars => SignalInv'
<1> SUFFICES ASSUME SignalInv, [Next]_vars PROVE SignalInv'
  OBVIOUS
<1>0. /\ window \in Seq(Int) /\ fresh \in 0 .. Enough /\ TypeOK
      /\ Enough \in Nat \ {0} /\ Len(window) \in Nat
  BY WindowOfIntegers, SignalsAssumption DEF SignalInv, TypeOK, SignalsAssumption
<1>1. CASE StoreRow
  <2>1. PICK c \in Changes : window' = Append(window, c)
    BY <1>1 DEF StoreRow
  <2>2. signal' = signal /\ fresh' = IF fresh < Enough THEN fresh + 1 ELSE fresh
    BY <1>1 DEF StoreRow
  <2>3. TypeOK'
    BY <1>0, <2>1, <2>2 DEF TypeOK
  <2>4. Len(window') = Len(window) + 1
    BY <1>0, <2>1 DEF TypeOK
  <2>5. ASSUME StillSeen'
        PROVE  /\ StillSeen
               /\ NewestSeen' = NewestSeen
               /\ window'[NewestSeen] = window[NewestSeen]
    <3>1. fresh' = fresh + 1
      BY <1>0, <2>2, <2>5 DEF StillSeen
    <3>2. StillSeen /\ NewestSeen' = NewestSeen
      BY <1>0, <2>4, <2>5, <3>1 DEF StillSeen, NewestSeen
    <3>3. NewestSeen \in 1 .. Len(window)
      BY <1>0, <3>2 DEF StillSeen, NewestSeen
    <3>4. QED
      BY <1>0, <2>1, <3>2, <3>3 DEF TypeOK
  <2>6. NewestSeenAgrees'
    BY <2>2, <2>5 DEF SignalInv, NewestSeenAgrees
  <2>7. QED
    BY <2>3, <2>6 DEF SignalInv
<1>2. CASE RowTooOld
  <2>1. window # <<>> /\ window' = Tail(window) /\ signal' = signal /\ fresh' = fresh
    BY <1>2 DEF RowTooOld
  <2>2. TypeOK'
    BY <1>0, <2>1 DEF TypeOK
  <2>3. Len(window') = Len(window) - 1
    BY <1>0, <2>1
  <2>4. ASSUME StillSeen'
        PROVE  StillSeen /\ window'[NewestSeen'] = window[NewestSeen]
    <3>1. StillSeen
      BY <1>0, <2>1, <2>3, <2>4 DEF StillSeen
    <3>2. NewestSeen' \in 1 .. Len(window') /\ NewestSeen = NewestSeen' + 1
      BY <1>0, <2>1, <2>3, <2>4 DEF StillSeen, NewestSeen
    <3>3. QED
      BY <1>0, <2>1, <2>3, <3>1, <3>2
  <2>5. NewestSeenAgrees'
    BY <2>1, <2>4 DEF SignalInv, NewestSeenAgrees
  <2>6. QED
    BY <2>2, <2>5 DEF SignalInv
<1>3. CASE Buy
  <2>1. BuySignal(window) /\ signal' = "buy" /\ fresh' = 0 /\ window' = window
    BY <1>3 DEF Buy, See
  <2>2. NewestSeen' = Len(window) /\ window[Len(window)] <= 0
    BY <1>0, <2>1, NewestAgrees DEF NewestSeen
  <2>3. TypeOK'
    BY <1>0, <2>1 DEF TypeOK
  <2>4. QED
    BY <2>1, <2>2, <2>3 DEF SignalInv, NewestSeenAgrees
<1>4. CASE Sell
  <2>1. SellSignal(window) /\ signal' = "sell" /\ fresh' = 0 /\ window' = window
    BY <1>4 DEF Sell, See
  <2>2. NewestSeen' = Len(window) /\ window[Len(window)] > 0
    BY <1>0, <2>1, NewestAgrees DEF NewestSeen
  <2>3. TypeOK'
    BY <1>0, <2>1 DEF TypeOK
  <2>4. QED
    BY <2>1, <2>2, <2>3 DEF SignalInv, NewestSeenAgrees
<1>5. CASE UNCHANGED vars
  BY <1>5 DEF vars, SignalInv, TypeOK, NewestSeenAgrees, StillSeen, NewestSeen
<1>6. QED
  BY <1>1, <1>2, <1>3, <1>4, <1>5 DEF Next

LEMMA SignalInvariant == Spec => []SignalInv
<1>1. QED
  BY SignalStart, SignalStep, PTL DEF Spec

-----------------------------------------------------------------------------
(***************************************************************************)
(* Sums over finite sets, whichever element comes first                    *)
(***************************************************************************)
\* A finite set of subsets of S that is not empty has a smallest one.
LEMMA SmallestSubset ==
  ASSUME NEW S, IsFiniteSet(S), NEW T \in SUBSET (SUBSET S), T # {}
  PROVE  \E s \in T : \A t \in T : t \subseteq s => t = s
<1>1. IsWellFoundedOn(StrictSubsetOrdering(S), SUBSET S)
  BY FS_StrictSubsetOrderingWellFounded, FS_FiniteSubsetsOfFinite
<1>2. PICK s \in T : \A t \in T : ~(<<t, s>> \in StrictSubsetOrdering(S))
  BY <1>1, WFMin, Zenon
<1>3. ASSUME NEW t \in T, t \subseteq s PROVE t = s
  BY <1>2, <1>3 DEF StrictSubsetOrdering
<1>4. QED
  BY <1>3

First(s) == CHOOSE x \in s : TRUE

LEMMA FirstIsThere == ASSUME NEW s, s # {} PROVE First(s) \in s
  BY DEF First

\* R sums up a over the subsets of S, in the order of the community modules.
SumsUp(R, a, S) ==
    R = [s \in SUBSET S |-> IF s = {} THEN 0 ELSE a[First(s)] + R[s \ {First(s)}]]

\* So the first element can be taken out of a sum.
TakesFirst(R, a, S) ==
    /\ R[{}] = 0
    /\ \A s \in SUBSET S :
           s # {} => /\ First(s) \in s /\ s \ {First(s)} \in SUBSET S
                     /\ R[s] = a[First(s)] + R[s \ {First(s)}]

LEMMA Summing ==
  ASSUME NEW S, NEW a, NEW R, SumsUp(R, a, S)
  PROVE  TakesFirst(R, a, S)
<1>1. R[{}] = 0
  BY DEF SumsUp
<1>2. ASSUME NEW s \in SUBSET S, s # {}
      PROVE  /\ First(s) \in s /\ s \ {First(s)} \in SUBSET S
             /\ R[s] = a[First(s)] + R[s \ {First(s)}]
  <2>1. First(s) \in s
    BY <1>2, FirstIsThere
  <2>2. R[s] = a[First(s)] + R[s \ {First(s)}]
    BY <1>2 DEF SumsUp
  <2>3. QED
    BY <2>1, <2>2
<1>3. QED
  BY <1>1, <1>2 DEF TakesFirst

\* The sums of integers are integers.
LEMMA SumsAreIntegers ==
  ASSUME NEW S, IsFiniteSet(S), NEW a \in [S -> Int], NEW R, SumsUp(R, a, S)
  PROVE  \A s \in SUBSET S : R[s] \in Int
<1> DEFINE Strange == {s \in SUBSET S : R[s] \notin Int}
<1>1. SUFFICES ASSUME Strange # {} PROVE FALSE
  OBVIOUS
<1> HIDE DEF Strange
<1>2. PICK s \in Strange : \A t \in Strange : t \subseteq s => t = s
  <2>1. Strange \in SUBSET (SUBSET S)
    BY DEF Strange
  <2>2. QED
    BY <1>1, <2>1, SmallestSubset
<1>3. s \in SUBSET S /\ R[s] \notin Int /\ s # {}
  BY Summing DEF Strange, TakesFirst
<1> DEFINE x == First(s)
           t == s \ {x}
<1>4. x \in s /\ t \in SUBSET S /\ R[s] = a[x] + R[t]
  BY <1>3, Summing DEF TakesFirst
<1> HIDE DEF x
<1>5. R[t] \in Int
  BY <1>2, <1>4 DEF Strange
<1>6. a[x] \in Int
  BY <1>3, <1>4
<1>7. QED
  BY <1>3, <1>4, <1>5, <1>6

\* There is one way only to sum up.
LEMMA SumsAgree ==
  ASSUME NEW S, IsFiniteSet(S), NEW a, NEW R, SumsUp(R, a, S),
         NEW T \in SUBSET S, NEW Q, SumsUp(Q, a, T)
  PROVE  \A s \in SUBSET T : Q[s] = R[s]
<1> DEFINE Strange == {s \in SUBSET T : Q[s] # R[s]}
<1>1. SUFFICES ASSUME Strange # {} PROVE FALSE
  OBVIOUS
<1> HIDE DEF Strange
<1>2. PICK s \in Strange : \A t \in Strange : t \subseteq s => t = s
  <2>1. Strange \in SUBSET (SUBSET S)
    BY DEF Strange
  <2>2. QED
    BY <1>1, <2>1, SmallestSubset
<1>3. s \in SUBSET T /\ s \in SUBSET S /\ Q[s] # R[s] /\ s # {}
  <2>1. s \in SUBSET T /\ s \in SUBSET S /\ Q[s] # R[s]
    BY DEF Strange
  <2>2. Q[{}] = 0 /\ R[{}] = 0
    BY Summing DEF TakesFirst
  <2>3. QED
    BY <2>1, <2>2
<1> DEFINE x == First(s)
           t == s \ {x}
<1>4. x \in s /\ t \in SUBSET T /\ Q[s] = a[x] + Q[t]
  BY <1>3, Summing DEF TakesFirst
<1>5. R[s] = a[x] + R[t]
  BY <1>3, Summing DEF TakesFirst
<1> HIDE DEF x
<1>6. Q[t] = R[t]
  BY <1>2, <1>4 DEF Strange
<1>7. QED
  BY <1>3, <1>4, <1>5, <1>6

\* There is a way to sum up.
LEMMA SumsExist ==
  ASSUME NEW S, IsFiniteSet(S), NEW a
  PROVE  \E R : SumsUp(R, a, S)
<1> DEFINE Strange == {s \in SUBSET S : ~\E R : SumsUp(R, a, s)}
<1>1. SUFFICES ASSUME Strange # {} PROVE FALSE
  BY DEF Strange
<1> HIDE DEF Strange
<1>2. PICK s \in Strange : \A t \in Strange : t \subseteq s => t = s
  <2>1. Strange \in SUBSET (SUBSET S)
    BY DEF Strange
  <2>2. QED
    BY <1>1, <2>1, SmallestSubset
<1>3. s \in SUBSET S /\ ~\E R : SumsUp(R, a, s)
  BY DEF Strange
<1> DEFINE Sums(t) == CHOOSE R : SumsUp(R, a, t)
<1>4. \A t \in SUBSET s : t # s => SumsUp(Sums(t), a, t)
  <2>1. ASSUME NEW t \in SUBSET s, t # s PROVE SumsUp(Sums(t), a, t)
    <3>1. t \in SUBSET S /\ t \notin Strange
      BY <1>2, <1>3, <2>1
    <3>2. \E R : SumsUp(R, a, t)
      BY <3>1 DEF Strange
    <3>3. QED
      BY <3>2
  <2>2. QED
    BY <2>1
<1> HIDE DEF Sums
<1> DEFINE F == [t \in SUBSET s |-> Sums(t)[t]]
           Whole == [t \in SUBSET s |->
                        IF t = {} THEN 0 ELSE a[First(t)] + F[t \ {First(t)}]]
<1>5. ASSUME NEW t \in SUBSET s, t # s PROVE F[t] = Whole[t]
  <2>1. SumsUp(Sums(t), a, t) /\ t \in SUBSET S /\ t \in SUBSET t
    BY <1>3, <1>4, <1>5
  <2>2. CASE t = {}
    BY <2>1, <2>2, Summing DEF TakesFirst
  <2>3. CASE t # {}
    <3> DEFINE u == t \ {First(t)}
    <3>1. First(t) \in t /\ Sums(t)[t] = a[First(t)] + Sums(t)[u]
      <4> DEFINE Q == Sums(t)
      <4>1. SumsUp(Q, a, t)
        BY <2>1
      <4> HIDE DEF Q
      <4>2. First(t) \in t /\ Q[t] = a[First(t)] + Q[t \ {First(t)}]
        BY <2>1, <2>3, <4>1, Summing DEF TakesFirst
      <4>3. QED
        BY <4>2 DEF Q
    <3>2. u \in SUBSET s /\ u \in SUBSET t /\ u # s
      BY <1>5, <3>1
    <3>3. SumsUp(Sums(u), a, u) /\ u \in SUBSET u
      BY <1>4, <3>2
    <3> HIDE DEF u
    <3>4. IsFiniteSet(t)
      BY <2>1, FS_Subset
    <3>5. Sums(u)[u] = Sums(t)[u]
      BY <2>1, <3>2, <3>3, <3>4, SumsAgree
    <3>6. F[u] = Sums(u)[u]
      BY <3>2
    <3>7. Whole[t] = a[First(t)] + F[u]
      BY <2>3 DEF u
    <3>8. QED
      BY <3>1, <3>5, <3>6, <3>7
  <2>4. QED
    BY <2>2, <2>3
<1>6. SumsUp(Whole, a, s)
  <2>1. ASSUME NEW t \in SUBSET s, t # {}
        PROVE  F[t \ {First(t)}] = Whole[t \ {First(t)}]
    <3>1. First(t) \in t
      BY <2>1, FirstIsThere
    <3>2. t \ {First(t)} \in SUBSET s /\ t \ {First(t)} # s
      BY <3>1
    <3> HIDE DEF F, Whole
    <3>3. QED
      BY <1>5, <3>2
  <2>2. Whole = [t \in SUBSET s |->
                    IF t = {} THEN 0 ELSE a[First(t)] + Whole[t \ {First(t)}]]
    BY <2>1
  <2> HIDE DEF Whole
  <2>3. QED
    BY <2>2 DEF SumsUp
<1>7. QED
  BY <1>3, <1>6

\* Any element of a set may be the first one of the sum.
AnyFirst(R, a, S) == \A s \in SUBSET S : \A y \in s : R[s] = a[y] + R[s \ {y}]

\* A sum does not depend on which element comes first.
LEMMA OrderDoesNotMatter ==
  ASSUME NEW S, IsFiniteSet(S), NEW a \in [S -> Int], NEW R, SumsUp(R, a, S)
  PROVE  AnyFirst(R, a, S)
<1> DEFINE Strange == {s \in SUBSET S : \E y \in s : R[s] # a[y] + R[s \ {y}]}
<1>1. SUFFICES ASSUME Strange # {} PROVE FALSE
  BY DEF AnyFirst
<1> HIDE DEF Strange
<1>2. PICK s \in Strange : \A t \in Strange : t \subseteq s => t = s
  <2>1. Strange \in SUBSET (SUBSET S)
    BY DEF Strange
  <2>2. QED
    BY <1>1, <2>1, SmallestSubset
<1>3. s \in SUBSET S /\ \E y \in s : R[s] # a[y] + R[s \ {y}]
  BY DEF Strange
<1>4. PICK y \in s : R[s] # a[y] + R[s \ {y}]
  BY <1>3
<1> DEFINE x == First(s)
           rest == (s \ {x}) \ {y}
<1>5. x \in s /\ R[s] = a[x] + R[s \ {x}]
  <2>1. \A u \in SUBSET S :
           u # {} => First(u) \in u /\ R[u] = a[First(u)] + R[u \ {First(u)}]
    BY Summing DEF TakesFirst
  <2>2. QED
    BY <1>3, <1>4, <2>1
<1>6. x # y
  BY <1>4, <1>5
<1> HIDE DEF x
<1>7. R[s \ {x}] = a[y] + R[rest]
  <2>1. s \ {x} \in SUBSET S /\ s \ {x} \notin Strange /\ y \in s \ {x}
    BY <1>2, <1>3, <1>5, <1>6
  <2>2. QED
    BY <2>1 DEF Strange
<1>8. R[s \ {y}] = a[x] + R[rest]
  <2>1. s \ {y} \in SUBSET S /\ s \ {y} \notin Strange /\ x \in s \ {y}
    BY <1>2, <1>3, <1>5, <1>6
  <2>2. R[s \ {y}] = a[x] + R[(s \ {y}) \ {x}]
    BY <2>1 DEF Strange
  <2>3. (s \ {y}) \ {x} = rest
    OBVIOUS
  <2>4. QED
    BY <2>2, <2>3
<1>9. a[x] \in Int /\ a[y] \in Int /\ R[rest] \in Int
  <2>1. rest \in SUBSET S
    BY <1>3
  <2>2. R[rest] \in Int
    BY <2>1, SumsAreIntegers
  <2>3. QED
    BY <1>3, <1>4, <1>5, <2>2
<1> HIDE DEF rest
<1>10. QED
  BY <1>4, <1>5, <1>7, <1>8, <1>9

\* m matches the elements of S and T that have the same value.
Matches(m, a, S, b, T) == m \in Bijection(S, T) /\ \A x \in S : b[m[x]] = a[x]

\* Sums of the same values over two sets are the same.
LEMMA SameValuesSameSum ==
  ASSUME NEW S, IsFiniteSet(S), NEW a \in [S -> Int], NEW Q, SumsUp(Q, a, S),
         NEW T, IsFiniteSet(T), NEW b \in [T -> Int], NEW R, SumsUp(R, b, T),
         NEW m, Matches(m, a, S, b, T)
  PROVE  Q[S] = R[T]
<1>0. /\ m \in [S -> T] /\ \A x, y \in S : m[x] = m[y] => x = y
      /\ \A z \in T : \E x \in S : m[x] = z
      /\ \A x \in S : b[m[x]] = a[x]
  BY DEF Matches, Bijection, Injection, Surjection, IsInjective
<1> DEFINE Im(s) == {m[x] : x \in s}
           Strange == {s \in SUBSET S : Q[s] # R[Im(s)]}
<1>1. SUFFICES ASSUME Strange # {} PROVE FALSE
  <2>1. Strange = {} => Q[S] = R[Im(S)]
    OBVIOUS
  <2>2. Im(S) = T
    BY <1>0
  <2>3. QED
    BY <2>1, <2>2
<1> HIDE DEF Strange
<1>2. PICK s \in Strange : \A t \in Strange : t \subseteq s => t = s
  <2>1. Strange \in SUBSET (SUBSET S)
    BY DEF Strange
  <2>2. QED
    BY <1>1, <2>1, SmallestSubset
<1>3. s \in SUBSET S /\ Q[s] # R[Im(s)]
  BY DEF Strange
<1>4. s # {}
  <2>1. Im({}) = {} /\ Q[{}] = 0 /\ R[{}] = 0
    BY Summing DEF TakesFirst
  <2>2. QED
    BY <1>3, <2>1
<1> DEFINE x == First(s)
           t == s \ {x}
<1>5. x \in s /\ Q[s] = a[x] + Q[t]
  <2>1. TakesFirst(Q, a, S)
    BY Summing
  <2>2. QED
    BY <1>3, <1>4, <2>1 DEF TakesFirst
<1> HIDE DEF x
<1>6. Q[t] = R[Im(t)]
  BY <1>2, <1>3, <1>5 DEF Strange
<1>7. Im(t) = Im(s) \ {m[x]} /\ m[x] \in Im(s) /\ Im(s) \in SUBSET T
  BY <1>0, <1>3, <1>5
<1>8. R[Im(s)] = b[m[x]] + R[Im(t)]
  <2> DEFINE whole == Im(s)
             y == m[x]
  <2>1. whole \in SUBSET T /\ y \in whole
    BY <1>7
  <2>2. Im(t) = whole \ {y}
    BY <1>7
  <2> HIDE DEF whole, y
  <2> HIDE DEF Im
  <2>3. AnyFirst(R, b, T)
    BY OrderDoesNotMatter
  <2>4. QED
    BY <2>1, <2>2, <2>3 DEF AnyFirst, whole, y
<1>9. b[m[x]] = a[x]
  BY <1>0, <1>3, <1>5
<1>10. QED
  BY <1>3, <1>5, <1>6, <1>8, <1>9

\* v is the sum of the values of a over S.
IsSum(v, a, S) ==
    /\ IsFiniteSet(S) /\ a \in [S -> Int]
    /\ \E R : SumsUp(R, a, S) /\ v = R[S]

LEMMA SameSum ==
  ASSUME NEW v, NEW a, NEW S, IsSum(v, a, S),
         NEW w, NEW b, NEW T, IsSum(w, b, T), NEW m, Matches(m, a, S, b, T)
  PROVE  v = w
<1>1. PICK Q : SumsUp(Q, a, S) /\ v = Q[S]
  BY DEF IsSum
<1>2. PICK R : SumsUp(R, b, T) /\ w = R[T]
  BY DEF IsSum
<1>3. /\ IsFiniteSet(S) /\ a \in [S -> Int]
      /\ IsFiniteSet(T) /\ b \in [T -> Int]
  BY DEF IsSum
<1>4. Q[S] = R[T]
  BY <1>1, <1>2, <1>3, SameValuesSameSum
<1>5. QED
  BY <1>1, <1>2, <1>4

-----------------------------------------------------------------------------
(***************************************************************************)
(* conv                                                                    *)
(***************************************************************************)
\* The products that Conv sums up.
Products(s, l, i) == [t \in 0 .. Len(s) - 1 |-> s[Len(s) - t] * l[i + t]]

\* The sum in Conv sums them up.
LEMMA ConvSums ==
  ASSUME NEW s \in Seq(Int), NEW l \in Seq(Int), NEW i \in Int,
         Products(s, l, i) \in [0 .. Len(s) - 1 -> Int]
  PROVE  IsSum(MapThenSumSet(LAMBDA t : s[Len(s) - t] * l[i + t], 0 .. Len(s) - 1),
               Products(s, l, i), 0 .. Len(s) - 1)
<1> DEFINE S == 0 .. Len(s) - 1
           Iter(R) == R = [u \in SUBSET S |->
                             IF u = {} THEN 0
                             ELSE s[Len(s) - First(u)] * l[i + First(u)] + R[u \ {First(u)}]]
           Sum == CHOOSE R : Iter(R)
<1>1. MapThenSumSet(LAMBDA t : s[Len(s) - t] * l[i + t], S) = Sum[S]
  BY DEF MapThenSumSet, MapThenFoldSet, First
<1>2. ASSUME NEW R PROVE Iter(R) <=> SumsUp(R, Products(s, l, i), S)
  <2>1. ASSUME NEW u \in SUBSET S, u # {}
        PROVE  Products(s, l, i)[First(u)] = s[Len(s) - First(u)] * l[i + First(u)]
    BY <2>1, FirstIsThere DEF Products
  <2>2. [u \in SUBSET S |->
            IF u = {} THEN 0
            ELSE s[Len(s) - First(u)] * l[i + First(u)] + R[u \ {First(u)}]]
      = [u \in SUBSET S |->
            IF u = {} THEN 0
            ELSE Products(s, l, i)[First(u)] + R[u \ {First(u)}]]
    BY <2>1
  <2>3. QED
    BY <2>2 DEF SumsUp
<1>3. IsFiniteSet(S)
  BY FS_Interval
<1>4. SumsUp(Sum, Products(s, l, i), S)
  <2>1. PICK Q : SumsUp(Q, Products(s, l, i), S)
    <3> HIDE DEF S
    <3>1. QED
      BY <1>3, SumsExist
  <2>2. Iter(Q)
    BY <1>2, <2>1
  <2> HIDE DEF Iter
  <2>3. Iter(Sum)
    BY <2>2
  <2>4. QED
    BY <1>2, <2>3
<1> HIDE DEF Sum, Iter
<1>5. QED
  BY <1>1, <1>3, <1>4 DEF IsSum

\* The pairs of indexes of f and g with the sum k.
PairsOf(f, g, k) == {p \in (DOMAIN f) \X (DOMAIN g) : p[1] + p[2] = k}

\* The products of a convolution.
ProductsOf(f, g, k) == [p \in PairsOf(f, g, k) |-> f[p[1]] * g[p[2]]]

\* The sum of a convolution sums them up.
LEMMA ConvolutionSums ==
  ASSUME NEW f \in Seq(Int), NEW g \in Seq(Int), NEW k \in Int,
         IsFiniteSet(PairsOf(f, g, k)),
         ProductsOf(f, g, k) \in [PairsOf(f, g, k) -> Int]
  PROVE  IsSum(MapThenSumSet(LAMBDA p : f[p[1]] * g[p[2]], PairsOf(f, g, k)),
               ProductsOf(f, g, k), PairsOf(f, g, k))
<1> DEFINE S == PairsOf(f, g, k)
           a == ProductsOf(f, g, k)
           Iter(R) == R = [u \in SUBSET S |->
                             IF u = {} THEN 0
                             ELSE f[First(u)[1]] * g[First(u)[2]] + R[u \ {First(u)}]]
           Sum == CHOOSE R : Iter(R)
<1> HIDE DEF S
<1>1. MapThenSumSet(LAMBDA p : f[p[1]] * g[p[2]], S) = Sum[S]
  BY DEF MapThenSumSet, MapThenFoldSet, First
<1>2. ASSUME NEW R PROVE Iter(R) <=> SumsUp(R, a, S)
  <2>1. ASSUME NEW u \in SUBSET S, u # {}
        PROVE  a[First(u)] = f[First(u)[1]] * g[First(u)[2]]
    BY <2>1, FirstIsThere DEF ProductsOf, S
  <2> HIDE DEF a
  <2>2. [u \in SUBSET S |->
            IF u = {} THEN 0
            ELSE f[First(u)[1]] * g[First(u)[2]] + R[u \ {First(u)}]]
      = [u \in SUBSET S |-> IF u = {} THEN 0 ELSE a[First(u)] + R[u \ {First(u)}]]
    BY <2>1
  <2>3. QED
    BY <2>2 DEF SumsUp
<1> HIDE DEF a
<1>3. IsFiniteSet(S) /\ a \in [S -> Int]
  BY DEF S, a
<1>4. SumsUp(Sum, a, S)
  <2>1. PICK Q : SumsUp(Q, a, S)
    BY <1>3, SumsExist
  <2>2. Iter(Q)
    BY <1>2, <2>1
  <2> HIDE DEF Iter
  <2>3. Iter(Sum)
    BY <2>2
  <2>4. QED
    BY <1>2, <2>3
<1> HIDE DEF Sum, Iter
<1>5. IsSum(Sum[S], a, S)
  BY <1>3, <1>4 DEF IsSum
<1>6. QED
  BY <1>1, <1>5 DEF S, a

\* The pair of indexes that the place t of the shorter series stands for.
PairAt(f, g, i, t) ==
    IF Len(f) < Len(g) THEN <<Len(f) - t, i + t>> ELSE <<i + t, Len(g) - t>>

\* The places of a series of n values against the j-th stretch of one of k.
LEMMA PlacesInBounds ==
  ASSUME NEW n \in Nat, NEW k \in Nat, NEW j \in 1 .. k - n + 1, NEW t \in 0 .. n - 1
  PROVE  n - t \in 1 .. n /\ j + t \in 1 .. k
  OBVIOUS

\* Going backwards through the shorter series and forwards through the longer
\* one meets every pair once.
LEMMA EveryPairOnce ==
  ASSUME NEW f \in Seq(Int), NEW g \in Seq(Int), f # <<>>, g # <<>>,
         NEW i \in 1 .. Len(Longer(f, g)) - Len(Shorter(f, g)) + 1
  PROVE  LET s == Shorter(f, g)
             S == 0 .. Len(s) - 1
             P == PairsOf(f, g, Len(s) + i)
             m == [t \in S |-> PairAt(f, g, i, t)]
         IN  /\ m \in Bijection(S, P)
             /\ \A t \in S : /\ ProductsOf(f, g, Len(s) + i)[m[t]]
                                  = Products(s, Longer(f, g), i)[t]
                             /\ Products(s, Longer(f, g), i)[t] \in Int
<1> DEFINE s == Shorter(f, g)
           l == Longer(f, g)
           S == 0 .. Len(s) - 1
           P == PairsOf(f, g, Len(s) + i)
           m == [t \in S |-> PairAt(f, g, i, t)]
<1>1. /\ s \in Seq(Int) /\ l \in Seq(Int) /\ Len(s) \in Nat \ {0} /\ Len(l) \in Nat
      /\ Len(s) <= Len(l) /\ DOMAIN s = 1 .. Len(s) /\ DOMAIN l = 1 .. Len(l)
      /\ IF Len(f) < Len(g) THEN s = f /\ l = g ELSE s = g /\ l = f
  BY DEF Shorter, Longer
<1>2. i \in 1 .. Len(l) - Len(s) + 1
  OBVIOUS
<1> HIDE DEF s, l
<1>3. \A t \in S : Len(s) - t \in 1 .. Len(s) /\ i + t \in 1 .. Len(l)
  <2>1. Len(s) \in Nat /\ Len(l) \in Nat
    BY <1>1
  <2>2. QED
    BY <1>2, <2>1, PlacesInBounds
<1> DEFINE FirstIsShorter == Len(f) < Len(g)
<1>4. ASSUME FirstIsShorter
      PROVE  /\ s = f /\ l = g
             /\ \A t \in S : PairAt(f, g, i, t) = <<Len(s) - t, i + t>>
  BY <1>1, <1>4 DEF PairAt
<1>5. ASSUME ~FirstIsShorter
      PROVE  /\ s = g /\ l = f
             /\ \A t \in S : PairAt(f, g, i, t) = <<i + t, Len(s) - t>>
  BY <1>1, <1>5 DEF PairAt
<1> HIDE DEF FirstIsShorter
<1>6. ASSUME NEW t \in S
      PROVE  /\ PairAt(f, g, i, t) \in P
             /\ f[PairAt(f, g, i, t)[1]] * g[PairAt(f, g, i, t)[2]]
                  = s[Len(s) - t] * l[i + t]
             /\ s[Len(s) - t] \in Int /\ l[i + t] \in Int
  <2>1. /\ s[Len(s) - t] \in Int /\ l[i + t] \in Int
        /\ (i + t) + (Len(s) - t) = Len(s) + i /\ (Len(s) - t) + (i + t) = Len(s) + i
    BY <1>1, <1>2, <1>3
  <2>2. CASE FirstIsShorter
    <3>1. <<Len(s) - t, i + t>> \in P
      BY <1>1, <1>3, <1>4, <2>1, <2>2 DEF PairsOf
    <3> DEFINE q == PairAt(f, g, i, t)
    <3>2. q = <<Len(s) - t, i + t>>
      BY <1>4, <2>2
    <3> HIDE DEF q
    <3>3. q[1] = Len(s) - t /\ q[2] = i + t
      BY <3>2
    <3>4. q \in P /\ f[q[1]] * g[q[2]] = s[Len(s) - t] * l[i + t]
      BY <1>4, <2>2, <3>1, <3>2, <3>3
    <3>5. QED
      BY <2>1, <3>4 DEF q
  <2>3. CASE ~FirstIsShorter
    <3>1. <<i + t, Len(s) - t>> \in P
      BY <1>1, <1>3, <1>5, <2>1, <2>3 DEF PairsOf
    <3> DEFINE q == PairAt(f, g, i, t)
    <3>2. q = <<i + t, Len(s) - t>>
      BY <1>5, <2>3
    <3> HIDE DEF q
    <3>3. q[1] = i + t /\ q[2] = Len(s) - t
      BY <3>2
    <3>4. \A x, y \in Int : x * y = y * x
      OBVIOUS
    <3>5. f[q[1]] * g[q[2]] = l[i + t] * s[Len(s) - t]
      BY <1>5, <2>3, <3>3
    <3>6. q \in P /\ f[q[1]] * g[q[2]] = s[Len(s) - t] * l[i + t]
      BY <2>1, <3>1, <3>2, <3>4, <3>5
    <3>7. QED
      BY <2>1, <3>6 DEF q
  <2>4. QED
    BY <2>2, <2>3
<1>7. m \in [S -> P]
  BY <1>6
<1>8. ASSUME NEW t \in S, NEW u \in S, m[t] = m[u] PROVE t = u
  <2>1. t \in Int /\ u \in Int /\ PairAt(f, g, i, t) = PairAt(f, g, i, u)
    BY <1>1, <1>8
  <2>2. i + t = i + u
    <3>1. CASE FirstIsShorter
      BY <1>4, <2>1, <3>1
    <3>2. CASE ~FirstIsShorter
      BY <1>5, <2>1, <3>2
    <3>3. QED
      BY <3>1, <3>2
  <2>3. QED
    BY <2>1, <2>2
<1>9. ASSUME NEW p \in P PROVE \E t \in S : m[t] = p
  <2>1. /\ p = <<p[1], p[2]>> /\ p[1] \in 1 .. Len(f) /\ p[2] \in 1 .. Len(g)
        /\ p[1] + p[2] = Len(s) + i
    BY DEF PairsOf
  <2>2. PICK t \in S : PairAt(f, g, i, t) = p
    <3>1. CASE FirstIsShorter
      <4>1. p[1] \in 1 .. Len(s) /\ p[2] \in Int
        BY <1>4, <2>1, <3>1
      <4> DEFINE t == Len(s) - p[1]
                 x == p[1]
                 y == p[2]
      <4>2. x \in 1 .. Len(s) /\ y \in Int /\ x + y = Len(s) + i
        BY <1>1, <1>2, <2>1, <4>1
      <4>3. t \in S /\ Len(s) - t = p[1] /\ i + t = p[2]
        <5> HIDE DEF x, y
        <5>1. Len(s) - x \in S /\ Len(s) - (Len(s) - x) = x /\ i + (Len(s) - x) = y
          BY <1>1, <1>2, <4>2
        <5>2. QED
          BY <5>1 DEF x, y
      <4> HIDE DEF t
      <4>4. PairAt(f, g, i, t) = p
        BY <1>4, <2>1, <3>1, <4>3
      <4>5. QED
        BY <4>3, <4>4
    <3>2. CASE ~FirstIsShorter
      <4>1. p[2] \in 1 .. Len(s) /\ p[1] \in Int
        BY <1>5, <2>1, <3>2
      <4> DEFINE t == Len(s) - p[2]
                 x == p[2]
                 y == p[1]
      <4>2. x \in 1 .. Len(s) /\ y \in Int /\ x + y = Len(s) + i
        BY <1>1, <1>2, <2>1, <4>1
      <4>3. t \in S /\ Len(s) - t = p[2] /\ i + t = p[1]
        <5> HIDE DEF x, y
        <5>1. Len(s) - x \in S /\ Len(s) - (Len(s) - x) = x /\ i + (Len(s) - x) = y
          BY <1>1, <1>2, <4>2
        <5>2. QED
          BY <5>1 DEF x, y
      <4> HIDE DEF t
      <4>4. PairAt(f, g, i, t) = p
        BY <1>5, <2>1, <3>2, <4>3
      <4>5. QED
        BY <4>3, <4>4
    <3>3. QED
      BY <3>1, <3>2
  <2>3. QED
    BY <2>2
<1>10. m \in Bijection(S, P)
  BY <1>7, <1>8, <1>9 DEF Bijection, Injection, Surjection, IsInjective
<1>11. ASSUME NEW t \in S
      PROVE  /\ ProductsOf(f, g, Len(s) + i)[m[t]] = Products(s, l, i)[t]
             /\ Products(s, l, i)[t] \in Int
  <2>1. m[t] = PairAt(f, g, i, t) /\ m[t] \in P
    BY <1>6
  <2>2. ProductsOf(f, g, Len(s) + i)[m[t]] = f[m[t][1]] * g[m[t][2]]
    BY <2>1 DEF ProductsOf
  <2>3. Products(s, l, i)[t] = s[Len(s) - t] * l[i + t]
    BY DEF Products
  <2>4. s[Len(s) - t] * l[i + t] \in Int
    <3>1. \A x, y \in Int : x * y \in Int
      OBVIOUS
    <3>2. QED
      BY <1>6, <3>1
  <2> HIDE DEF m
  <2>5. QED
    BY <1>6, <2>1, <2>2, <2>3, <2>4
<1>12. QED
  BY <1>10, <1>11 DEF s, l

\* So that conv is a convolution, whichever series is the shorter one.
LEMMA ConvIsAConvolution ==
  ASSUME NEW f \in Seq(Int), NEW g \in Seq(Int), f # <<>>, g # <<>>
  PROVE  Conv(f, g) =
             [i \in 1 .. Len(Longer(f, g)) - Len(Shorter(f, g)) + 1 |->
                 MapThenSumSet(LAMBDA p : f[p[1]] * g[p[2]],
                               PairsOf(f, g, Len(Shorter(f, g)) + i))]
<1> DEFINE s == Shorter(f, g)
           l == Longer(f, g)
           S == 0 .. Len(s) - 1
<1>1. s \in Seq(Int) /\ l \in Seq(Int) /\ Len(s) \in Nat /\ Len(l) \in Nat
  BY DEF Shorter, Longer
<1>2. ConvSize(Len(f), Len(g)) = Len(l) - Len(s) + 1
  BY DEF ConvSize, Shorter, Longer
<1>3. ASSUME NEW i \in 1 .. Len(l) - Len(s) + 1
      PROVE  MapThenSumSet(LAMBDA t : s[Len(s) - t] * l[i + t], 0 .. Len(s) - 1)
               = MapThenSumSet(LAMBDA p : f[p[1]] * g[p[2]], PairsOf(f, g, Len(s) + i))
  <2> DEFINE P == PairsOf(f, g, Len(s) + i)
             a == Products(s, l, i)
             b == ProductsOf(f, g, Len(s) + i)
             m == [t \in S |-> PairAt(f, g, i, t)]
  <2>1. m \in Bijection(S, P) /\ \A t \in S : b[m[t]] = a[t] /\ a[t] \in Int
    BY EveryPairOnce
  <2>2. IsFiniteSet(S) /\ i \in Int /\ Len(s) + i \in Int
    BY <1>1, FS_Interval
  <2>3. IsFiniteSet(P)
    <3> HIDE DEF S, P, m
    <3>1. ExistsBijection(S, P)
      BY <2>1 DEF ExistsBijection
    <3>2. QED
      BY <2>2, <3>1, FS_Bijection
  <2>4. a \in [S -> Int]
    BY <2>1 DEF Products
  <2>5. b \in [P -> Int]
    <3>1. ASSUME NEW p \in P PROVE f[p[1]] * g[p[2]] \in Int
      BY DEF PairsOf
    <3>2. QED
      BY <3>1 DEF ProductsOf
  <2> HIDE DEF m
  <2> DEFINE v == MapThenSumSet(LAMBDA t : s[Len(s) - t] * l[i + t], 0 .. Len(s) - 1)
             w == MapThenSumSet(LAMBDA p : f[p[1]] * g[p[2]], P)
  <2>6. IsSum(v, a, S)
    <3> HIDE DEF s, l
    <3>1. QED
      BY <1>1, <2>2, <2>4, ConvSums
  <2>7. IsSum(w, b, P)
    <3> DEFINE k == Len(s) + i
    <3>1. /\ k \in Int /\ IsFiniteSet(PairsOf(f, g, k))
          /\ ProductsOf(f, g, k) \in [PairsOf(f, g, k) -> Int]
      BY <2>2, <2>3, <2>5
    <3> HIDE DEF k
    <3>2. IsSum(MapThenSumSet(LAMBDA p : f[p[1]] * g[p[2]], PairsOf(f, g, k)),
                ProductsOf(f, g, k), PairsOf(f, g, k))
      BY <3>1, ConvolutionSums
    <3>3. QED
      BY <3>2 DEF k
  <2>8. Matches(m, a, S, b, P)
    BY <2>1 DEF Matches
  <2>9. v = w
    <3> HIDE DEF S, P, a, b, v, w
    <3>1. QED
      BY <2>6, <2>7, <2>8, SameSum
  <2>10. QED
    BY <2>9
<1>4. Conv(f, g) =
          [i \in 1 .. ConvSize(Len(f), Len(g)) |->
              MapThenSumSet(LAMBDA t : s[Len(s) - t] * l[i + t], 0 .. Len(s) - 1)]
  BY DEF Conv
<1>5. QED
  BY <1>2, <1>3, <1>4

-----------------------------------------------------------------------------
(***************************************************************************)
(* Theorems                                                                *)
(***************************************************************************)
(***************************************************************************)
(* The window is a sequence of changes, whatever comes and leaves, and the *)
(* count of the rows since the last signal stays within its bound.         *)
(***************************************************************************)
THEOREM SignalsTypeCorrect == Spec => []TypeOK
<1>1. SignalInv => TypeOK
  BY DEF SignalInv
<1>2. QED
  BY <1>1, SignalInvariant, PTL

(***************************************************************************)
(* Between opposite signals more than a quarter of Enough rows are stored  *)
(* (smallchanges.cc:30, :155).                                             *)
(***************************************************************************)
THEOREM SignalsApart == Spec => []OppositeSignalsApart
<1>1. SignalInv => OppositeSignalsApart
  <2> SUFFICES ASSUME SignalInv, 4 * fresh <= Enough,
                      \/ signal = "buy" /\ SellSignal(window)
                      \/ signal = "sell" /\ BuySignal(window)
               PROVE  FALSE
    BY WindowOfIntegers, SignalsAssumption
       DEF SignalInv, OppositeSignalsApart, SignalsAssumption
  <2>1. window \in Seq(Int) /\ fresh \in Nat /\ Measured(window)
    BY WindowOfIntegers DEF SignalInv, BuySignal, SellSignal
  <2>2. NewestSeen \in LastQuarter(window) /\ NewestSeen \in DOMAIN window
    BY <2>1, InLastQuarter DEF NewestSeen
  <2>3. window[NewestSeen] \in Int /\ Len(window) \in Nat
    BY <2>1, <2>2
  <2>4. StillSeen
    BY <2>1, <2>2 DEF NewestSeen, StillSeen
  <2>5. CASE signal = "buy" /\ SellSignal(window)
    BY <2>1, <2>2, <2>3, <2>4, <2>5, SellMeansGain DEF SignalInv, NewestSeenAgrees
  <2>6. CASE signal = "sell" /\ BuySignal(window)
    BY <2>1, <2>2, <2>3, <2>4, <2>6, BuyMeansNoGain DEF SignalInv, NewestSeenAgrees
  <2>7. QED
    BY <2>5, <2>6
<1>2. QED
  BY <1>1, SignalInvariant, PTL

(***************************************************************************)
(* No dip of DollarCostAveraging is a reason to sell for SmallChanges.     *)
(***************************************************************************)
THEOREM DipNeverSells == Spec => []DipIsNoTimeToSell
<1>1. SignalInv => DipIsNoTimeToSell
  <2> SUFFICES ASSUME SignalInv, NEW n \in 1 .. Len(window),
                      Dip(Newest(window, n)), SellSignal(window)
               PROVE  FALSE
    BY DEF DipIsNoTimeToSell
  <2>1. window \in Seq(Int) /\ Len(window) \in Nat
    BY WindowOfIntegers DEF SignalInv
  <2>2. /\ n \in DOMAIN Newest(window, n)
        /\ Newest(window, n)[n] = window[Len(window)]
    BY <2>1 DEF Newest
  <2>3. window[Len(window)] < 0
    BY <2>2 DEF Dip
  <2>4. window[Len(window)] > 0
    BY <2>1, NewestAgrees
  <2>5. window[Len(window)] \in Int
    BY <2>1
  <2>6. QED
    BY <2>3, <2>4, <2>5
<1>2. QED
  BY <1>1, SignalInvariant, PTL

(***************************************************************************)
(* conv returns the convolution without padding (stats/namespace.hpp:79):  *)
(* its index j, which runs down, and k, which runs up, meet every pair of  *)
(* indexes with the same sum once, whichever series is the longer one.     *)
(***************************************************************************)
THEOREM ConvConvolves == Spec => []ConvIsConvolution
<1>1. SignalInv => ConvIsConvolution
  <2> SUFFICES ASSUME SignalInv, window # <<>>,
                      NEW g \in {<<1, 2, 4>>, <<3, 0, 1, 5, 2>>}
               PROVE  Conv(window, g) =
                        [i \in 1 .. Len(Longer(window, g)) - Len(Shorter(window, g)) + 1 |->
                            MapThenSumSet(LAMBDA p : window[p[1]] * g[p[2]],
                                          PairsOf(window, g, Len(Shorter(window, g)) + i))]
    BY DEF ConvIsConvolution, PairsOf
  <2>1. g \in Seq(Int) /\ g # <<>>
    <3>1. /\ <<1, 2, 4>> \in Seq(Int) /\ Len(<<1, 2, 4>>) = 3
          /\ <<3, 0, 1, 5, 2>> \in Seq(Int) /\ Len(<<3, 0, 1, 5, 2>>) = 5
      OBVIOUS
    <3>2. <<1, 2, 4>> # <<>> /\ <<3, 0, 1, 5, 2>> # <<>>
      BY <3>1, EmptySeq
    <3>3. CASE g = <<1, 2, 4>>
      BY <3>1, <3>2, <3>3, Zenon
    <3>4. CASE g = <<3, 0, 1, 5, 2>>
      BY <3>1, <3>2, <3>4, Zenon
    <3>5. QED
      BY <3>3, <3>4
  <2>2. window \in Seq(Int)
    BY WindowOfIntegers DEF SignalInv
  <2>3. QED
    BY <2>1, <2>2, ConvIsAConvolution
<1>2. QED
  BY <1>1, SignalInvariant, PTL
=============================================================================
