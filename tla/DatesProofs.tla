---------------------------- MODULE DatesProofs ----------------------------
(***************************************************************************)
(* Proofs about DollarCostAveraging, for any lengths of months, days,      *)
(* hours and minutes: the calendar that timegm and gmtime agree on, and    *)
(* what the dates found by _next_date can be relied on for.                *)
(*                                                                         *)
(* DaysBefore is defined by recursion.  What it does is proved by          *)
(* induction in the form of the least counterexample.                      *)
(***************************************************************************)
EXTENDS DollarCostAveraging, WellFoundedInduction, TLAPS

-----------------------------------------------------------------------------
(***************************************************************************)
(* Natural numbers                                                         *)
(***************************************************************************)
\* Every set of natural numbers has a least member.
LEMMA LeastMember ==
  ASSUME NEW T \in SUBSET Nat, T # {}
  PROVE  \E n \in T : \A m \in T : n <= m
<1> DEFINE R == OpToRel(<, Nat)
<1>1. IsWellFoundedOn(R, Nat)
  BY NatLessThanWellFounded
<1>2. \A x, y \in Nat : x < y => <<x, y>> \in R
  BY DEF OpToRel
<1> HIDE DEF R
<1>3. PICK n \in T : \A m \in T : ~(<<m, n>> \in R)
  BY <1>1, WFMin
<1>4. ASSUME NEW m \in T PROVE n <= m
  <2>1. m \in Nat /\ n \in Nat
    OBVIOUS
  <2>2. ~(m < n)
    BY <1>2, <1>3, <2>1
  <2>3. QED
    BY <2>1, <2>2
<1>5. QED
  BY <1>4

\* Quotient and remainder.
LEMMA Division ==
  ASSUME NEW x \in Nat, NEW d \in Nat \ {0}
  PROVE  /\ x \div d \in Nat
         /\ x % d \in 0 .. d - 1
         /\ x = d * (x \div d) + (x % d)
  OBVIOUS

\* There is only one of each.
LEMMA DivisionIsUnique ==
  ASSUME NEW d \in Nat \ {0}, NEW q \in Nat, NEW r \in 0 .. d - 1
  PROVE  (d * q + r) \div d = q /\ (d * q + r) % d = r
  OBVIOUS

\* To divide twice is to divide by the product.
LEMMA DivisionTwice ==
  ASSUME NEW x \in Nat, NEW a \in Nat \ {0}, NEW b \in Nat \ {0}
  PROVE  x \div (a * b) = (x \div a) \div b
  OBVIOUS

\* A greater number has no smaller quotient.
LEMMA DivisionIsMonotone ==
  ASSUME NEW x \in Nat, NEW y \in Nat, NEW d \in Nat \ {0}, x <= y
  PROVE  x \div d <= y \div d
  OBVIOUS

\* A quotient is not greater than what is divided.
LEMMA QuotientIsSmaller ==
  ASSUME NEW x \in Nat, NEW d \in Nat \ {0}
  PROVE  x \div d <= x
  OBVIOUS

LEMMA ProductIsPositive ==
  ASSUME NEW a \in Nat \ {0}, NEW b \in Nat \ {0}
  PROVE  a * b \in Nat \ {0}
  OBVIOUS

-----------------------------------------------------------------------------
(***************************************************************************)
(* The days before a month                                                 *)
(***************************************************************************)
\* A year has months, of days, and all parts of a day are there.
LEMMA CalendarParts ==
  /\ Months \in Nat \ {0}
  /\ \A m \in 1 .. Months : MonthLengths[m] \in Nat \ {0}
  /\ Hours \in Nat \ {0} /\ Minutes \in Nat \ {0} /\ Seconds \in Nat \ {0}
  /\ HalfHour \in Nat \ {0} /\ Horizon \in Nat
  BY CalendarAssumption DEF CalendarAssumption, Months

\* f counts the days before each of the first n months.
Counts(f, n) ==
    /\ f \in [0 .. n -> Nat]
    /\ f[0] = 0
    /\ \A m \in 1 .. n : f[m] = f[m - 1] + MonthLengths[m]

\* There is a function that counts, by induction on the number of months.
LEMMA SomethingCounts == \E f : Counts(f, Months)
<1> DEFINE Missed == {n \in 0 .. Months : ~\E f : Counts(f, n)}
<1> SUFFICES ASSUME Missed # {} PROVE FALSE
  BY CalendarParts
<1>0. Missed \in SUBSET Nat
  BY CalendarParts
<1> HIDE DEF Missed
<1>1. PICK n \in Missed : \A k \in Missed : n <= k
  BY <1>0, LeastMember
<1> USE DEF Missed
<1>2. n # 0
  <2>1. Counts([m \in 0 .. 0 |-> 0], 0)
    BY DEF Counts
  <2>2. QED
    BY <2>1
<1>3. n - 1 \in 0 .. Months /\ n \in 1 .. Months /\ n \in Nat
  BY <1>2, CalendarParts
<1>4. PICK f : Counts(f, n - 1)
  BY <1>1, <1>3
<1> DEFINE g == [m \in 0 .. n |-> IF m = n THEN f[n - 1] + MonthLengths[n] ELSE f[m]]
<1>5. f[n - 1] \in Nat /\ MonthLengths[n] \in Nat
  BY <1>3, <1>4, CalendarParts DEF Counts
<1>6. Counts(g, n)
  <2>1. g \in [0 .. n -> Nat]
    BY <1>3, <1>4, <1>5 DEF Counts
  <2>2. g[0] = 0
    BY <1>2, <1>3, <1>4 DEF Counts
  <2>3. ASSUME NEW m \in 1 .. n PROVE g[m] = g[m - 1] + MonthLengths[m]
    BY <1>3, <1>4 DEF Counts
  <2>4. QED
    BY <2>1, <2>2, <2>3 DEF Counts
<1>7. QED
  BY <1>3, <1>6

\* So DaysBefore does.
LEMMA DaysBeforeCounts == Counts(DaysBefore, Months)
<1>1. PICK f : Counts(f, Months)
  BY SomethingCounts
<1>2. f = [m \in 0 .. Months |-> IF m = 0 THEN 0 ELSE f[m - 1] + MonthLengths[m]]
  BY <1>1, CalendarParts DEF Counts
<1>3. DaysBefore = [m \in 0 .. Months |->
                       IF m = 0 THEN 0 ELSE DaysBefore[m - 1] + MonthLengths[m]]
  BY <1>2 DEF DaysBefore
<1>4. /\ DaysBefore[0] = 0
      /\ \A m \in 1 .. Months : DaysBefore[m] = DaysBefore[m - 1] + MonthLengths[m]
  <2>1. 0 \in 0 .. Months
    BY CalendarParts
  <2>2. \A m \in 1 .. Months : m \in 0 .. Months /\ m # 0
    BY CalendarParts
  <2>3. QED
    BY <1>3, <2>1, <2>2
<1> DEFINE Strange == {m \in 0 .. Months : DaysBefore[m] \notin Nat}
<1>5. Strange = {}
  <2> SUFFICES ASSUME Strange # {} PROVE FALSE
    OBVIOUS
  <2>0. Strange \in SUBSET Nat
    BY CalendarParts
  <2> HIDE DEF Strange
  <2>1. PICK n \in Strange : \A k \in Strange : n <= k
    BY <2>0, LeastMember
  <2> USE DEF Strange
  <2>2. n # 0
    BY <1>4
  <2>3. n - 1 \in 0 .. Months /\ n \in 1 .. Months /\ n \in Nat /\ ~(n <= n - 1)
    BY <2>2, CalendarParts
  <2>4. DaysBefore[n - 1] \in Nat
    BY <2>1, <2>3
  <2>5. MonthLengths[n] \in Nat /\ DaysBefore[n] = DaysBefore[n - 1] + MonthLengths[n]
    BY <1>4, <2>3, CalendarParts
  <2>6. QED
    BY <2>4, <2>5
<1>6. DaysBefore \in [0 .. Months -> Nat]
  <2>1. \A m \in 0 .. Months : DaysBefore[m] \in Nat
    BY <1>5
  <2> HIDE DEF Strange
  <2>2. DaysBefore = [m \in 0 .. Months |-> DaysBefore[m]]
    BY <1>3
  <2>3. QED
    BY <2>1, <2>2
<1>7. QED
  BY <1>4, <1>6 DEF Counts

\* What the recursion says, month by month.
LEMMA DaysOfMonths ==
  /\ DaysBefore[0] = 0
  /\ \A m \in 0 .. Months : DaysBefore[m] \in Nat
  /\ \A m \in 1 .. Months : DaysBefore[m] = DaysBefore[m - 1] + MonthLengths[m]
  /\ \A m \in 0 .. Months - 1 : DaysBefore[m + 1] = DaysBefore[m] + MonthLengths[m + 1]
<1>1. /\ DaysBefore[0] = 0
      /\ \A m \in 0 .. Months : DaysBefore[m] \in Nat
      /\ \A m \in 1 .. Months : DaysBefore[m] = DaysBefore[m - 1] + MonthLengths[m]
  BY DaysBeforeCounts DEF Counts
<1>2. ASSUME NEW m \in 0 .. Months - 1
      PROVE  DaysBefore[m + 1] = DaysBefore[m] + MonthLengths[m + 1]
  <2>1. m + 1 \in 1 .. Months /\ (m + 1) - 1 = m
    BY CalendarParts
  <2>2. QED
    BY <1>1, <2>1
<1>3. QED
  BY <1>1, <1>2

\* A month that comes later begins later.
LEMMA MonthsFollow ==
  ASSUME NEW m \in 0 .. Months, NEW n \in 0 .. Months, m < n
  PROVE  DaysBefore[m] < DaysBefore[n]
<1> DEFINE Late == {k \in 0 .. Months : m < k /\ ~(DaysBefore[m] < DaysBefore[k])}
<1>1. SUFFICES ASSUME Late # {} PROVE FALSE
  OBVIOUS
<1>2. Late \in SUBSET Nat
  BY CalendarParts
<1> HIDE DEF Late
<1>3. PICK k \in Late : \A j \in Late : k <= j
  BY <1>1, <1>2, LeastMember
<1> USE DEF Late
<1>4. k \in 1 .. Months /\ k - 1 \in 0 .. Months /\ ~(k <= k - 1) /\ m < k /\ m \in Nat
  BY CalendarParts
<1>5. /\ DaysBefore[k] = DaysBefore[k - 1] + MonthLengths[k]
      /\ MonthLengths[k] \in Nat \ {0}
      /\ DaysBefore[k - 1] \in Nat /\ DaysBefore[m] \in Nat
  BY <1>4, DaysOfMonths, CalendarParts
<1>6. m = k - 1 \/ DaysBefore[m] < DaysBefore[k - 1]
  BY <1>3, <1>4
<1>7. ~(DaysBefore[m] < DaysBefore[k])
  OBVIOUS
<1> HIDE DEF Late
<1>8. QED
  BY <1>5, <1>6, <1>7

\* A day, and a year, is as long as its parts.
LEMMA LengthsOfTime ==
  /\ YearDays \in Nat \ {0} /\ YearDays = DaysBefore[Months]
  /\ Hour \in Nat \ {0} /\ Day \in Nat \ {0} /\ Year \in Nat \ {0}
  /\ Hour = Seconds * Minutes /\ Day = Hour * Hours /\ Year = Day * YearDays
<1>1. DaysBefore[0] < DaysBefore[Months]
  BY MonthsFollow, CalendarParts
<1>2. YearDays \in Nat \ {0} /\ YearDays = DaysBefore[Months]
  BY <1>1, DaysOfMonths, CalendarParts DEF YearDays
<1>3. Hour \in Nat \ {0} /\ Hour = Seconds * Minutes
  BY ProductIsPositive, CalendarParts DEF Hour
<1>4. Day \in Nat \ {0} /\ Day = Hour * Hours
  BY <1>3, ProductIsPositive, CalendarParts DEF Day
<1>5. Year \in Nat \ {0} /\ Year = Day * YearDays
  BY <1>2, <1>4, ProductIsPositive DEF Year
<1>6. QED
  BY <1>2, <1>3, <1>4, <1>5

\* Every day of the year is in one month.
LEMMA MonthOfDay ==
  ASSUME NEW day \in 0 .. YearDays - 1
  PROVE  \E m \in 0 .. Months - 1 : DaysBefore[m] <= day /\ day < DaysBefore[m + 1]
<1> DEFINE After == {m \in 0 .. Months : day < DaysBefore[m]}
<1>1. Months \in After
  BY LengthsOfTime, CalendarParts
<1>2. After \in SUBSET Nat
  BY CalendarParts
<1> HIDE DEF After
<1>3. PICK n \in After : \A m \in After : n <= m
  BY <1>1, <1>2, LeastMember
<1> USE DEF After
<1>4. n # 0
  BY DaysOfMonths, LengthsOfTime
<1>5. n - 1 \in 0 .. Months - 1 /\ n - 1 \in 0 .. Months /\ ~(n <= n - 1) /\ (n - 1) + 1 = n
  BY <1>4, CalendarParts
<1>6. ~(day < DaysBefore[n - 1]) /\ day < DaysBefore[n]
  BY <1>3, <1>5
<1>7. DaysBefore[n - 1] \in Nat /\ day \in Nat
  BY <1>5, DaysOfMonths, LengthsOfTime
<1>8. DaysBefore[n - 1] <= day
  BY <1>6, <1>7
<1>9. QED
  BY <1>5, <1>6, <1>8

-----------------------------------------------------------------------------
(***************************************************************************)
(* Moments and dates                                                       *)
(***************************************************************************)
\* The second with the given parts on a day, counted from the first of all.
Moment(days, hour, min, sec) == days * Day + hour * Hour + min * Seconds + sec

\* The minute, counted in the same way.
MinuteOf(days, hour, min) == (days * Hours + hour) * Minutes + min

\* The parts of a moment can be read back from it.
LEMMA PartsOfMoment ==
  ASSUME NEW days \in Nat, NEW hour \in 0 .. Hours - 1,
         NEW min \in 0 .. Minutes - 1, NEW sec \in 0 .. Seconds - 1
  PROVE  LET x == Moment(days, hour, min, sec)
         IN  /\ x \in Nat
             /\ x % Seconds = sec
             /\ Minute(x) = MinuteOf(days, hour, min)
             /\ (x \div Seconds) % Minutes = min
             /\ (x \div Hour) % Hours = hour
             /\ x \div Day = days
<1> DEFINE hours == days * Hours + hour
           minutes == hours * Minutes + min
           x == Moment(days, hour, min, sec)
<1>1. hours \in Nat /\ hours \div Hours = days /\ hours % Hours = hour
  <2>1. Hours * days \in Nat /\ days * Hours = Hours * days
    BY CalendarParts
  <2>2. QED
    BY <2>1, DivisionIsUnique, CalendarParts
<1> HIDE DEF hours
<1>2. minutes \in Nat /\ minutes \div Minutes = hours /\ minutes % Minutes = min
  <2>1. Minutes * hours \in Nat /\ hours * Minutes = Minutes * hours
    BY <1>1, CalendarParts
  <2>2. QED
    BY <1>1, <2>1, DivisionIsUnique, CalendarParts
<1>3. minutes = MinuteOf(days, hour, min)
  BY DEF hours, MinuteOf
<1>4. x = Seconds * minutes + sec
  <2>1. x = days * (Hours * (Minutes * Seconds)) + hour * (Minutes * Seconds)
              + min * Seconds + sec
    BY DEF Moment, Day, Hour
  <2>2. Hours \in Int /\ Minutes \in Int /\ Seconds \in Int
    BY CalendarParts
  <2>3. QED
    BY <2>1, <2>2 DEF hours
<1> HIDE DEF minutes, x
<1>5. x \in Nat /\ x \div Seconds = minutes /\ x % Seconds = sec
  <2>1. Seconds * minutes \in Nat
    BY <1>2, CalendarParts
  <2>2. QED
    BY <1>2, <1>4, <2>1, DivisionIsUnique, CalendarParts
<1>6. x \div Hour = hours
  <2>1. x \div (Seconds * Minutes) = (x \div Seconds) \div Minutes
    BY <1>5, DivisionTwice, CalendarParts
  <2>2. QED
    BY <1>2, <1>5, <2>1, LengthsOfTime
<1>7. x \div Day = days
  <2>1. Hour \in Nat \ {0} /\ Hours \in Nat \ {0} /\ Day = Hour * Hours
    BY LengthsOfTime, CalendarParts
  <2>2. x \div (Hour * Hours) = (x \div Hour) \div Hours
    BY <1>5, <2>1, DivisionTwice
  <2>3. QED
    BY <1>1, <1>6, <2>1, <2>2
<1>8. QED
  BY <1>1, <1>2, <1>3, <1>5, <1>6, <1>7 DEF Minute, x

\* Every moment has parts.
LEMMA MomentOfParts ==
  ASSUME NEW x \in Nat
  PROVE  /\ x \div Day \in Nat
         /\ (x \div Hour) % Hours \in 0 .. Hours - 1
         /\ (x \div Seconds) % Minutes \in 0 .. Minutes - 1
         /\ x % Seconds \in 0 .. Seconds - 1
         /\ x = Moment(x \div Day, (x \div Hour) % Hours,
                       (x \div Seconds) % Minutes, x % Seconds)
<1> DEFINE minutes == x \div Seconds
           hours == x \div Hour
           days == x \div Day
<1>1. minutes \in Nat /\ x % Seconds \in 0 .. Seconds - 1 /\ x = Seconds * minutes + (x % Seconds)
  BY Division, CalendarParts
<1>2. hours = minutes \div Minutes
  BY DivisionTwice, CalendarParts, LengthsOfTime
<1>3. /\ hours \in Nat /\ minutes % Minutes \in 0 .. Minutes - 1
      /\ minutes = Minutes * hours + (minutes % Minutes)
  BY <1>1, <1>2, Division, CalendarParts
<1>4. days = hours \div Hours
  BY DivisionTwice, CalendarParts, LengthsOfTime
<1>5. /\ days \in Nat /\ hours % Hours \in 0 .. Hours - 1
      /\ hours = Hours * days + (hours % Hours)
  BY <1>3, <1>4, Division, CalendarParts
<1> DEFINE h == hours % Hours
           m == minutes % Minutes
           s == x % Seconds
<1> HIDE DEF minutes, hours, days, h, m, s
<1>6. x = Moment(days, h, m, s)
  <2>1. x = Seconds * (Minutes * (Hours * days + h) + m) + s
    BY <1>1, <1>3, <1>5 DEF h, m, s
  <2>2. /\ Hours \in Int /\ Minutes \in Int /\ Seconds \in Int
        /\ days \in Int /\ h \in Int /\ m \in Int /\ s \in Int
    BY <1>1, <1>3, <1>5, CalendarParts DEF h, m, s
  <2>3. Seconds * (Minutes * (Hours * days + h) + m) + s
          = days * (Hours * (Minutes * Seconds)) + h * (Minutes * Seconds)
              + m * Seconds + s
    BY <2>2
  <2>4. QED
    BY <2>1, <2>3 DEF Moment, Day, Hour
<1>7. QED
  BY <1>1, <1>3, <1>5, <1>6 DEF minutes, hours, days, h, m, s

\* The first day of a month of a year, however many months there are in it.
MonthStart(year, mon) == (year + mon \div Months) * YearDays + DaysBefore[mon % Months]

\* The months of a year begin where they should, and so does the next year.
LEMMA MonthsOfYear ==
  ASSUME NEW year \in Nat, NEW mon \in 0 .. Months
  PROVE  MonthStart(year, mon) = year * YearDays + DaysBefore[mon]
<1>1. CASE mon = Months
  <2>1. mon \div Months = 1 /\ mon % Months = 0
    BY <1>1, CalendarParts
  <2>2. (year + 1) * YearDays = year * YearDays + YearDays
    BY LengthsOfTime
  <2>3. year * YearDays \in Nat
    BY LengthsOfTime
  <2>4. MonthStart(year, mon) = (year + 1) * YearDays + DaysBefore[0]
    BY <2>1 DEF MonthStart
  <2>5. QED
    BY <1>1, <2>2, <2>3, <2>4, DaysOfMonths, LengthsOfTime
<1>2. CASE mon \in 0 .. Months - 1
  <2>1. mon \div Months = 0 /\ mon % Months = mon
    BY <1>2, CalendarParts
  <2>2. QED
    BY <2>1 DEF MonthStart
<1>3. QED
  BY <1>1, <1>2, CalendarParts

\* Months follow each other without a gap into the years that come.
LEMMA MonthAfterMonth ==
  ASSUME NEW year \in Nat, NEW mon \in Nat
  PROVE  LET n == (mon % Months) + 1
         IN  /\ n \in 1 .. Months
             /\ MonthStart(year, mon) \in Nat
             /\ MonthStart(year, mon + 1) = MonthStart(year, mon) + MonthLengths[n]
             /\ MonthStart(year, mon) < MonthStart(year, mon + 1)
<1> DEFINE q == mon \div Months
           r == mon % Months
<1>1. q \in Nat /\ r \in 0 .. Months - 1 /\ mon = Months * q + r
  BY Division, CalendarParts
<1> HIDE DEF q, r
<1>2. MonthStart(year, mon) = (year + q) * YearDays + DaysBefore[r]
  BY DEF MonthStart, q, r
<1>3. MonthStart(year, mon + 1) = (year + q) * YearDays + DaysBefore[r + 1]
  <2>1. CASE r + 1 = Months
    <3>1. mon + 1 = Months * (q + 1) + 0
      BY <1>1, <2>1, CalendarParts
    <3>2. (mon + 1) \div Months = q + 1 /\ (mon + 1) % Months = 0
      BY <1>1, <3>1, DivisionIsUnique, CalendarParts
    <3>3. (year + (q + 1)) * YearDays = (year + q) * YearDays + YearDays
      BY <1>1, LengthsOfTime
    <3>4. (year + q) * YearDays \in Nat
      BY <1>1, LengthsOfTime
    <3>5. QED
      BY <2>1, <3>2, <3>3, <3>4, DaysOfMonths, LengthsOfTime DEF MonthStart
  <2>2. CASE r + 1 \in 0 .. Months - 1
    <3>1. mon + 1 = Months * q + (r + 1)
      BY <1>1, CalendarParts
    <3>2. (mon + 1) \div Months = q /\ (mon + 1) % Months = r + 1
      BY <1>1, <2>2, <3>1, DivisionIsUnique, CalendarParts
    <3>3. QED
      BY <3>2 DEF MonthStart
  <2>3. QED
    BY <1>1, <2>1, <2>2, CalendarParts
<1>4. /\ DaysBefore[r + 1] = DaysBefore[r] + MonthLengths[r + 1]
      /\ DaysBefore[r] \in Nat /\ MonthLengths[r + 1] \in Nat \ {0}
      /\ r + 1 \in 1 .. Months
  BY <1>1, DaysOfMonths, CalendarParts
<1>5. (year + q) * YearDays \in Nat
  BY <1>1, LengthsOfTime
<1>6. QED
  BY <1>2, <1>3, <1>4, <1>5 DEF r

\* The dates that timegm is given here: days and months may run over.
Timely(t) ==
    /\ t.year \in Nat /\ t.mon \in Nat /\ t.mday \in Nat
    /\ t.hour \in 0 .. Hours - 1 /\ t.min \in 0 .. Minutes - 1
    /\ t.sec \in 0 .. Seconds - 1

\* What timegm computes.
LEMMA WhatTimeGmIs ==
  ASSUME NEW t, Timely(t)
  PROVE  LET days == MonthStart(t.year, t.mon) + t.mday
         IN  /\ days \in Nat
             /\ TimeGm(t) = Moment(days, t.hour, t.min, t.sec)
             /\ TimeGm(t) \in Nat
             /\ Minute(TimeGm(t)) = MinuteOf(days, t.hour, t.min)
             /\ TimeGm(t) \div Day = days
<1> DEFINE days == MonthStart(t.year, t.mon) + t.mday
<1>1. days \in Nat
  <2>1. t.year \in Nat /\ t.mon \in Nat /\ t.mday \in Nat
    BY DEF Timely
  <2>2. MonthStart(t.year, t.mon) \in Nat
    BY <2>1, MonthAfterMonth
  <2>3. QED
    BY <2>1, <2>2
<1>2. TimeGm(t) = Moment(days, t.hour, t.min, t.sec)
  BY DEF TimeGm, Moment, MonthStart
<1> HIDE DEF days
<1>3. QED
  BY <1>1, <1>2, PartsOfMoment DEF Timely, days

\* What gmtime computes, and that timegm reverses it.
LEMMA WhatGmTimeIs ==
  ASSUME NEW x \in Nat
  PROVE  LET t == GmTime(x)
         IN  /\ Timely(t)
             /\ t.mon \in 0 .. Months - 1 /\ t.mday < MonthLengths[t.mon + 1]
             /\ t.year = x \div Year
             /\ MonthStart(t.year, t.mon) + t.mday = x \div Day
             /\ t.hour = (x \div Hour) % Hours /\ t.min = (x \div Seconds) % Minutes
             /\ t.sec = x % Seconds
             /\ TimeGm(t) = x
<1> DEFINE t == GmTime(x)
           day == (x \div Day) % YearDays
           mon == CHOOSE m \in 0 .. Months - 1 :
                      DaysBefore[m] <= day /\ day < DaysBefore[m + 1]
<1>1. /\ x \div Year = (x \div Day) \div YearDays
      /\ x \div Day \in Nat
  <2>1. x \div (Day * YearDays) = (x \div Day) \div YearDays
    BY DivisionTwice, LengthsOfTime
  <2>2. QED
    BY <2>1, Division, LengthsOfTime
<1>2. /\ x \div Year \in Nat
      /\ day \in 0 .. YearDays - 1
      /\ x \div Day = (x \div Year) * YearDays + day
  <2>1. x \div Day = YearDays * ((x \div Day) \div YearDays) + day
    BY <1>1, Division, LengthsOfTime
  <2>2. x \div Year \in Nat /\ day \in 0 .. YearDays - 1
    BY <1>1, Division, LengthsOfTime
  <2>3. YearDays * (x \div Year) = (x \div Year) * YearDays
    BY <2>2, LengthsOfTime
  <2>4. QED
    BY <1>1, <2>1, <2>2, <2>3
<1> HIDE DEF day
<1>3. mon \in 0 .. Months - 1 /\ DaysBefore[mon] <= day /\ day < DaysBefore[mon + 1]
  BY <1>2, MonthOfDay
<1>4. t = [year |-> x \div Year, mon |-> mon, mday |-> day - DaysBefore[mon],
           hour |-> (x \div Hour) % Hours, min |-> (x \div Seconds) % Minutes,
           sec |-> x % Seconds]
  BY DEF GmTime, day
<1> HIDE DEF mon, t
<1>5. /\ mon \in Nat /\ mon \in 0 .. Months /\ DaysBefore[mon] \in Nat
      /\ DaysBefore[mon + 1] = DaysBefore[mon] + MonthLengths[mon + 1]
      /\ MonthLengths[mon + 1] \in Nat /\ day \in Nat
  BY <1>2, <1>3, DaysOfMonths, CalendarParts, LengthsOfTime
<1>6. t.mday \in Nat /\ t.mday < MonthLengths[t.mon + 1]
  BY <1>3, <1>4, <1>5
<1>7. Timely(t)
  BY <1>2, <1>4, <1>5, <1>6, MomentOfParts DEF Timely
<1>8. MonthStart(t.year, t.mon) + t.mday = x \div Day
  <2>1. MonthStart(t.year, t.mon) = (x \div Year) * YearDays + DaysBefore[mon]
    BY <1>2, <1>4, <1>5, MonthsOfYear
  <2>2. (x \div Year) * YearDays \in Nat
    BY <1>2, LengthsOfTime
  <2>3. t.mday = day - DaysBefore[mon]
    BY <1>4
  <2>4. QED
    BY <1>2, <1>5, <2>1, <2>2, <2>3
<1>9. TimeGm(t) = x
  BY <1>4, <1>7, <1>8, WhatTimeGmIs, MomentOfParts
<1>10. QED
  BY <1>3, <1>4, <1>6, <1>7, <1>8, <1>9 DEF t

\* Dates in the form of gmtime, of any year.
AllDates ==
    {t \in [year : Nat, mon : 0 .. Months - 1, mday : 0 .. YearDays - 1,
            hour : 0 .. Hours - 1, min : 0 .. Minutes - 1, sec : 0 .. Seconds - 1] :
        t.mday < MonthLengths[t.mon + 1]}

\* gmtime returns one of them.
LEMMA GmTimeIsADate ==
  ASSUME NEW x \in Nat
  PROVE  GmTime(x) \in AllDates
<1> DEFINE t == GmTime(x)
<1>1. /\ t.year \in Nat /\ t.mon \in 0 .. Months - 1 /\ t.mday \in Nat
      /\ t.mday < MonthLengths[t.mon + 1]
      /\ t.hour \in 0 .. Hours - 1 /\ t.min \in 0 .. Minutes - 1
      /\ t.sec \in 0 .. Seconds - 1
  BY WhatGmTimeIs DEF Timely
<1>2. t = [year |-> t.year, mon |-> t.mon, mday |-> t.mday,
           hour |-> t.hour, min |-> t.min, sec |-> t.sec]
  BY DEF GmTime
<1> HIDE DEF t
<1>3. t.mday < YearDays
  <2>1. t.mon \in Nat /\ t.mon + 1 \in 0 .. Months /\ Months \in 0 .. Months
    BY <1>1, CalendarParts
  <2>2. /\ DaysBefore[t.mon + 1] = DaysBefore[t.mon] + MonthLengths[t.mon + 1]
        /\ DaysBefore[t.mon] \in Nat /\ DaysBefore[t.mon + 1] \in Nat
        /\ MonthLengths[t.mon + 1] \in Nat
    BY <1>1, <2>1, DaysOfMonths, CalendarParts
  <2>3. t.mon + 1 = Months \/ DaysBefore[t.mon + 1] < DaysBefore[Months]
    BY <2>1, MonthsFollow, CalendarParts
  <2>4. YearDays = DaysBefore[Months] /\ YearDays \in Nat
    BY LengthsOfTime
  <2>5. QED
    BY <1>1, <2>2, <2>3, <2>4
<1>4. t.mday \in 0 .. YearDays - 1
  BY <1>1, <1>3, LengthsOfTime
<1>5. t \in [year : Nat, mon : 0 .. Months - 1, mday : 0 .. YearDays - 1,
             hour : 0 .. Hours - 1, min : 0 .. Minutes - 1, sec : 0 .. Seconds - 1]
  BY <1>1, <1>2, <1>4
<1>6. QED
  BY <1>1, <1>5 DEF AllDates, t

\* The constructor makes one of them, with the hour and minute of the
\* configuration, whatever day of the month that names; its year is not
\* greater than the number of the present second.
LEMMA WhatConstructIs ==
  ASSUME NEW w \in Wishes, NEW x \in Nat
  PROVE  LET t == Construct(w, x)
         IN  /\ t \in AllDates
             /\ t.hour = w.hour /\ t.min = w.min
             /\ t.year <= x
<1> DEFINE t == GmTime(x)
           u == Wished(w, x)
           rest == DaysBefore[t.mon] + u.mday
           s == TimeGm(u)
<1>1. /\ w.monthly \in BOOLEAN /\ w.mday \in 0 .. YearDays - 1
      /\ w.hour \in 0 .. Hours - 1 /\ w.min \in 0 .. Minutes - 1
  BY DEF Wishes
<1>2. t \in AllDates /\ t.year = x \div Year /\ MonthStart(t.year, t.mon) + t.mday = x \div Day
  BY WhatGmTimeIs, GmTimeIsADate
<1> HIDE DEF t
<1>3. /\ t.year \in Nat /\ t.mon \in 0 .. Months - 1 /\ t.mday \in 0 .. YearDays - 1
      /\ t.sec \in 0 .. Seconds - 1
  BY <1>2 DEF AllDates
<1>4. /\ u.year = t.year /\ u.mon = t.mon /\ u.hour = w.hour /\ u.min = w.min
      /\ u.sec = t.sec /\ u.mday \in {w.mday, t.mday}
  BY <1>2 DEF Wished, AllDates, t
<1> HIDE DEF u
<1>5. u.mday \in 0 .. YearDays - 1 /\ YearDays \in Nat \ {0} /\ t.mon \in Nat
  BY <1>1, <1>3, <1>4, LengthsOfTime, CalendarParts
<1>6. Timely(u)
  BY <1>1, <1>3, <1>4, <1>5 DEF Timely
<1>7. /\ MonthStart(t.year, t.mon) = t.year * YearDays + DaysBefore[t.mon]
      /\ DaysBefore[t.mon] \in Nat
  <2>1. t.mon \in 0 .. Months
    BY <1>3, CalendarParts
  <2>2. QED
    BY <1>3, <2>1, MonthsOfYear, DaysOfMonths
<1>8. s \in Nat /\ s \div Day = t.year * YearDays + rest
  <2>1. /\ s \in Nat /\ s \div Day = MonthStart(t.year, t.mon) + u.mday
        /\ MonthStart(t.year, t.mon) \in Nat
    BY <1>3, <1>4, <1>5, <1>6, WhatTimeGmIs, MonthAfterMonth
  <2>2. t.year * YearDays \in Nat
    BY <1>3, <1>5
  <2>3. QED
    BY <1>5, <1>7, <2>1, <2>2
<1>9. (s \div Hour) % Hours = w.hour /\ (s \div Seconds) % Minutes = w.min
  <2> DEFINE days == MonthStart(u.year, u.mon) + u.mday
  <2>1. days \in Nat /\ s = Moment(days, u.hour, u.min, u.sec)
    BY <1>6, WhatTimeGmIs
  <2> HIDE DEF days
  <2>2. /\ u.hour \in 0 .. Hours - 1 /\ u.min \in 0 .. Minutes - 1
        /\ u.sec \in 0 .. Seconds - 1
    BY <1>6 DEF Timely
  <2>3. QED
    BY <1>4, <2>1, <2>2, PartsOfMoment
<1> HIDE DEF s
<1>10. GmTime(s).year = (s \div Day) \div YearDays
  <2>1. s \div (Day * YearDays) = (s \div Day) \div YearDays /\ Year = Day * YearDays
    BY <1>8, DivisionTwice, LengthsOfTime
  <2>2. QED
    BY <1>8, <2>1, WhatGmTimeIs
<1>11. GmTime(s).year <= x
  <2>1. t.year <= x /\ t.year * YearDays \in Nat /\ YearDays * t.year = t.year * YearDays
    <3>1. Year \in Nat \ {0}
      BY LengthsOfTime
    <3>2. t.year <= x
      BY <1>2, <3>1, QuotientIsSmaller
    <3>3. QED
      BY <1>3, <1>5, <3>2
  <2>2. rest \in Nat
    BY <1>5, <1>7
  <2> HIDE DEF rest
  <2>3. CASE rest < YearDays
    <3>1. rest \in 0 .. YearDays - 1
      BY <1>5, <2>2, <2>3
    <3>2. (YearDays * t.year + rest) \div YearDays = t.year
      BY <1>3, <1>5, <3>1, DivisionIsUnique
    <3>3. QED
      BY <1>8, <1>10, <2>1, <3>2
  <2>4. CASE rest >= YearDays
    <3>1. rest - YearDays \in 0 .. YearDays - 1 /\ DaysBefore[t.mon] >= 1
      <4>1. DaysBefore[t.mon] < YearDays
        <5>1. t.mon \in 0 .. Months /\ Months \in 0 .. Months /\ t.mon < Months
          BY <1>3, CalendarParts
        <5>2. QED
          BY <5>1, MonthsFollow, LengthsOfTime
      <4>2. rest = DaysBefore[t.mon] + u.mday
        BY DEF rest
      <4>3. QED
        BY <1>5, <1>7, <2>2, <2>4, <4>1, <4>2
    <3> DEFINE year == t.year + 1
               over == rest - YearDays
    <3>2. year \in Nat /\ over \in 0 .. YearDays - 1
      BY <1>3, <3>1
    <3>3. YearDays * year + over = t.year * YearDays + rest
      BY <1>3, <1>5, <2>2
    <3> HIDE DEF year, over
    <3>4. GmTime(s).year = year
      <4>1. s \div Day = YearDays * year + over
        BY <1>8, <3>3
      <4>2. (YearDays * year + over) \div YearDays = year
        BY <1>5, <3>2, DivisionIsUnique
      <4>3. QED
        BY <1>10, <4>1, <4>2
    <3>5. x \div Day <= x /\ x \div Day \in Nat
      BY QuotientIsSmaller, Division, LengthsOfTime
    <3>6. x \div Day >= t.year * YearDays + 1
      BY <1>2, <1>3, <1>5, <1>7, <2>1, <3>1
    <3>7. t.year * YearDays >= t.year
      BY <1>3, <1>5
    <3>8. QED
      BY <1>3, <2>1, <3>4, <3>5, <3>6, <3>7 DEF year
  <2>5. QED
    BY <1>5, <2>2, <2>3, <2>4
<1>12. Construct(w, x) = GmTime(s)
  BY DEF Construct, s, u
<1>13. QED
  BY <1>8, <1>9, <1>11, <1>12, GmTimeIsADate, WhatGmTimeIs

\* A day of a month is a day of its year.
LEMMA DayOfYear ==
  ASSUME NEW t \in AllDates
  PROVE  /\ DaysBefore[t.mon] \in Nat /\ DaysBefore[t.mon] + t.mday \in 0 .. YearDays - 1
         /\ DaysBefore[t.mon] <= DaysBefore[t.mon] + t.mday
         /\ DaysBefore[t.mon] + t.mday < DaysBefore[t.mon + 1]
         /\ MonthStart(t.year, t.mon) + t.mday
              = t.year * YearDays + (DaysBefore[t.mon] + t.mday)
<1>1. /\ t.mon \in 0 .. Months - 1 /\ t.mon \in 0 .. Months /\ t.mon + 1 \in 0 .. Months
      /\ t.mday \in Nat /\ t.mday < MonthLengths[t.mon + 1] /\ t.year \in Nat
  BY CalendarParts, LengthsOfTime DEF AllDates
<1>2. /\ DaysBefore[t.mon] \in Nat /\ DaysBefore[t.mon + 1] \in Nat
      /\ DaysBefore[t.mon + 1] = DaysBefore[t.mon] + MonthLengths[t.mon + 1]
      /\ MonthLengths[t.mon + 1] \in Nat
  BY <1>1, DaysOfMonths, CalendarParts
<1>3. DaysBefore[t.mon + 1] <= YearDays
  <2>1. t.mon + 1 = Months \/ DaysBefore[t.mon + 1] < DaysBefore[Months]
    BY <1>1, MonthsFollow, CalendarParts
  <2>2. QED
    BY <1>2, <2>1, LengthsOfTime
<1>4. MonthStart(t.year, t.mon) = t.year * YearDays + DaysBefore[t.mon]
  BY <1>1, MonthsOfYear
<1>5. t.year * YearDays \in Nat
  BY <1>1, LengthsOfTime
<1>6. QED
  BY <1>1, <1>2, <1>3, <1>4, <1>5, LengthsOfTime

\* The months of a year do not overlap.
LEMMA OneMonth ==
  ASSUME NEW m \in 0 .. Months - 1, NEW n \in 0 .. Months - 1, NEW day \in Nat,
         DaysBefore[m] <= day, day < DaysBefore[m + 1],
         DaysBefore[n] <= day, day < DaysBefore[n + 1]
  PROVE  m = n
<1>1. ASSUME NEW a \in 0 .. Months - 1, NEW b \in 0 .. Months - 1, a < b,
             DaysBefore[b] <= day, day < DaysBefore[a + 1]
      PROVE  FALSE
  <2>1. /\ a + 1 \in 0 .. Months /\ b \in 0 .. Months
        /\ a + 1 = b \/ a + 1 < b
    BY <1>1, CalendarParts
  <2>2. DaysBefore[a + 1] \in Nat /\ DaysBefore[b] \in Nat
    BY <2>1, DaysOfMonths
  <2>3. a + 1 = b \/ DaysBefore[a + 1] < DaysBefore[b]
    BY <2>1, MonthsFollow
  <2>4. QED
    BY <1>1, <2>2, <2>3
<1>2. ~(m < n) /\ ~(n < m)
  BY <1>1
<1>3. QED
  BY <1>2, CalendarParts

\* gmtime finds the date that timegm was given.
LEMMA GmTimeOfTimeGm ==
  ASSUME NEW t \in AllDates
  PROVE  GmTime(TimeGm(t)) = t
<1> DEFINE s == TimeGm(t)
           u == GmTime(s)
           day == DaysBefore[t.mon] + t.mday
           dayU == DaysBefore[u.mon] + u.mday
<1>1. /\ t.year \in Nat /\ t.mon \in Nat /\ t.mday \in Nat
      /\ t.mon \in 0 .. Months - 1 /\ t.hour \in 0 .. Hours - 1
      /\ t.min \in 0 .. Minutes - 1 /\ t.sec \in 0 .. Seconds - 1
  BY CalendarParts, LengthsOfTime DEF AllDates
<1>2. Timely(t)
  BY <1>1 DEF Timely
<1>3. /\ s \in Nat /\ s \div Day = MonthStart(t.year, t.mon) + t.mday
      /\ s = Moment(MonthStart(t.year, t.mon) + t.mday, t.hour, t.min, t.sec)
      /\ MonthStart(t.year, t.mon) + t.mday \in Nat
  BY <1>2, WhatTimeGmIs
<1>4. /\ (s \div Hour) % Hours = t.hour /\ (s \div Seconds) % Minutes = t.min
      /\ s % Seconds = t.sec
  <2> DEFINE days == MonthStart(t.year, t.mon) + t.mday
  <2>1. days \in Nat /\ s = Moment(days, t.hour, t.min, t.sec)
    BY <1>3
  <2> HIDE DEF days, s
  <2>2. QED
    BY <1>1, <2>1, PartsOfMoment
<1>5. /\ u \in AllDates /\ u.hour = t.hour /\ u.min = t.min /\ u.sec = t.sec
      /\ MonthStart(u.year, u.mon) + u.mday = s \div Day
  BY <1>3, <1>4, GmTimeIsADate, WhatGmTimeIs
<1> HIDE DEF s, u
<1>6. u.year \in Nat /\ u.mon \in 0 .. Months - 1 /\ u.mday \in Nat
  BY <1>5, LengthsOfTime DEF AllDates
<1>7. /\ day \in 0 .. YearDays - 1 /\ dayU \in 0 .. YearDays - 1
      /\ s \div Day = t.year * YearDays + day /\ s \div Day = u.year * YearDays + dayU
  BY <1>3, <1>5, DayOfYear
<1>8. u.year = t.year /\ dayU = day
  <2> HIDE DEF day, dayU
  <2>1. /\ t.year * YearDays = YearDays * t.year /\ u.year * YearDays = YearDays * u.year
        /\ YearDays \in Nat \ {0}
    BY <1>1, <1>6, LengthsOfTime
  <2>2. /\ (YearDays * t.year + day) \div YearDays = t.year
        /\ (YearDays * t.year + day) % YearDays = day
        /\ (YearDays * u.year + dayU) \div YearDays = u.year
        /\ (YearDays * u.year + dayU) % YearDays = dayU
    BY <1>1, <1>6, <1>7, <2>1, DivisionIsUnique
  <2>3. QED
    BY <1>7, <2>1, <2>2
<1>9. u.mon = t.mon
  <2>1. /\ DaysBefore[t.mon] <= day /\ day < DaysBefore[t.mon + 1]
        /\ DaysBefore[u.mon] <= day /\ day < DaysBefore[u.mon + 1]
    BY <1>5, <1>8, DayOfYear
  <2>2. day \in Nat
    BY <1>7, LengthsOfTime
  <2> HIDE DEF day
  <2>3. QED
    BY <1>1, <1>6, <2>1, <2>2, OneMonth
<1>10. u.mday = t.mday
  <2>1. DaysBefore[t.mon] \in Nat
    BY DayOfYear
  <2>2. QED
    BY <1>1, <1>6, <1>8, <1>9, <2>1
<1>11. u = t
  BY <1>5, <1>8, <1>9, <1>10 DEF AllDates
<1>12. QED
  BY <1>11 DEF s, u

(***************************************************************************)
(* timegm and gmtime, as the constructor (dollarcostaveraging.hpp:75-76)   *)
(* and _next_date use them, are inverse to each other on all seconds and   *)
(* all dates that the calendar has.                                        *)
(***************************************************************************)
THEOREM CalendarRoundTrip ==
  /\ \A x \in Nat : GmTime(x) \in AllDates /\ TimeGm(GmTime(x)) = x
  /\ \A t \in AllDates : TimeGm(t) \in Nat /\ GmTime(TimeGm(t)) = t
<1>1. ASSUME NEW t \in AllDates PROVE TimeGm(t) \in Nat
  <2>1. Timely(t)
    BY CalendarParts, LengthsOfTime DEF AllDates, Timely
  <2>2. QED
    BY <2>1, WhatTimeGmIs
<1>2. QED
  BY <1>1, GmTimeIsADate, WhatGmTimeIs, GmTimeOfTimeGm

(***************************************************************************)
(* The constructor (dollarcostaveraging.hpp:42-76) leaves the day that was *)
(* configured alone, if the month it is called in has it.                  *)
(***************************************************************************)
THEOREM ConstructKeepsTheDay ==
  ASSUME NEW w \in Wishes, NEW x \in Nat,
         w.monthly => w.mday < MonthLengths[GmTime(x).mon + 1]
  PROVE  Construct(w, x) = Wished(w, x)
<1>1. /\ w.monthly \in BOOLEAN /\ w.mday \in 0 .. YearDays - 1
      /\ w.hour \in 0 .. Hours - 1 /\ w.min \in 0 .. Minutes - 1
  BY DEF Wishes
<1>2. GmTime(x) \in AllDates
  BY GmTimeIsADate
<1>3. Wished(w, x) \in AllDates
  BY <1>1, <1>2 DEF Wished, AllDates
<1>4. QED
  BY <1>3, GmTimeOfTimeGm DEF Construct

(***************************************************************************)
(* What the constructor (dollarcostaveraging.hpp:42-76) makes of a day     *)
(* that the month it is called in does not have: the day as long after the *)
(* end of the month in the next month, which may be one of the next        *)
(* year.  _date then is a date of another day than the configured one.     *)
(***************************************************************************)
THEOREM MissingDayMovesOn ==
  ASSUME NEW w \in Wishes, NEW x \in Nat, w.monthly
  PROVE  LET t == GmTime(x)
             days == MonthLengths[t.mon + 1]
             mon == (t.mon + 1) % Months
         IN  days <= w.mday /\ w.mday - days < MonthLengths[mon + 1] =>
                 Construct(w, x) =
                     [Wished(w, x) EXCEPT !.year = @ + (t.mon + 1) \div Months,
                                          !.mon = mon, !.mday = @ - days]
<1> DEFINE t == GmTime(x)
           days == MonthLengths[t.mon + 1]
           mon == (t.mon + 1) % Months
           year == t.year + (t.mon + 1) \div Months
           u == Wished(w, x)
           v == [u EXCEPT !.year = year, !.mon = mon, !.mday = @ - days]
<1> SUFFICES ASSUME days <= w.mday, w.mday - days < MonthLengths[mon + 1]
             PROVE  Construct(w, x) = v
  BY GmTimeIsADate DEF Wished, AllDates
<1>1. /\ w.mday \in 0 .. YearDays - 1 /\ YearDays \in Nat
      /\ w.hour \in 0 .. Hours - 1 /\ w.min \in 0 .. Minutes - 1
  BY LengthsOfTime DEF Wishes
<1>2. t \in AllDates
  BY GmTimeIsADate
<1> HIDE DEF t
<1>3. /\ t.year \in Nat /\ t.mon \in 0 .. Months - 1 /\ t.mon \in Nat
      /\ t.sec \in 0 .. Seconds - 1
  BY <1>2, CalendarParts DEF AllDates
<1>4. (t.mon + 1) \div Months \in Nat /\ mon \in 0 .. Months - 1
  <2>1. t.mon + 1 \in Nat /\ Months \in Nat \ {0}
    BY <1>3, CalendarParts
  <2>2. QED
    BY <2>1, Division
<1>5. /\ u.year = t.year /\ u.mon = t.mon /\ u.mday = w.mday
      /\ u.hour = w.hour /\ u.min = w.min /\ u.sec = t.sec
      /\ u = [year |-> t.year, mon |-> t.mon, mday |-> w.mday,
              hour |-> w.hour, min |-> w.min, sec |-> t.sec]
  <2>1. u = [t EXCEPT !.hour = w.hour, !.min = w.min, !.mday = w.mday]
    BY DEF Wished, t
  <2> HIDE DEF u
  <2>2. t \in [year : Nat, mon : 0 .. Months - 1, mday : 0 .. YearDays - 1,
               hour : 0 .. Hours - 1, min : 0 .. Minutes - 1, sec : 0 .. Seconds - 1]
    BY <1>2 DEF AllDates
  <2>3. QED
    BY <2>1, <2>2
<1>6. days \in Nat \ {0}
  BY <1>3, CalendarParts
<1>7. v = [year |-> year, mon |-> mon, mday |-> w.mday - days,
           hour |-> w.hour, min |-> w.min, sec |-> t.sec]
  <2> DEFINE wished == [year |-> t.year, mon |-> t.mon, mday |-> w.mday,
                        hour |-> w.hour, min |-> w.min, sec |-> t.sec]
  <2> HIDE DEF u, year, mon, days
  <2>1. v = [wished EXCEPT !.year = year, !.mon = mon, !.mday = w.mday - days]
    BY <1>5
  <2> HIDE DEF v
  <2>2. QED
    BY <2>1
<1> HIDE DEF u, v, days
<1>8. year \in Nat /\ w.mday - days \in 0 .. YearDays - 1
  BY <1>1, <1>3, <1>4, <1>6
<1>9. MonthStart(year, mon) = MonthStart(t.year, t.mon) + days
  <2>1. MonthStart(t.year, t.mon + 1) = MonthStart(t.year, t.mon) + days
    <3> HIDE DEF mon, year
    <3>1. days = MonthLengths[(t.mon % Months) + 1]
      BY <1>3, CalendarParts DEF days
    <3>2. QED
      BY <1>3, <3>1, MonthAfterMonth
  <2>2. MonthStart(t.year, t.mon + 1) = year * YearDays + DaysBefore[mon]
    BY DEF MonthStart
  <2>3. mon \in 0 .. Months
    BY <1>4, CalendarParts
  <2>4. MonthStart(year, mon) = year * YearDays + DaysBefore[mon]
    BY <1>8, <2>3, MonthsOfYear
  <2>5. QED
    BY <2>1, <2>2, <2>4
<1> HIDE DEF mon, year
<1>10. v \in AllDates
  BY <1>1, <1>3, <1>4, <1>7, <1>8 DEF AllDates
<1>11. TimeGm(u) = TimeGm(v)
  <2>1. Timely(u)
    BY <1>1, <1>3, <1>5 DEF Timely
  <2>2. Timely(v)
    BY <1>1, <1>3, <1>4, <1>7, <1>8, CalendarParts DEF Timely
  <2>3. MonthStart(t.year, t.mon) \in Nat
    BY <1>3, MonthAfterMonth
  <2>4. MonthStart(u.year, u.mon) + u.mday = MonthStart(v.year, v.mon) + v.mday
    BY <1>1, <1>5, <1>6, <1>7, <1>9, <2>3
  <2>5. QED
    BY <1>5, <1>7, <2>1, <2>2, <2>4, WhatTimeGmIs
<1>12. QED
  BY <1>10, <1>11, GmTimeOfTimeGm DEF Construct, u

-----------------------------------------------------------------------------
(***************************************************************************)
(* _next_date                                                              *)
(***************************************************************************)
\* The date found with a daily wish: the hour and minute of d today, or on
\* the day after.
LEMMA WhatDailyDateIs ==
  ASSUME NEW d \in AllDates, NEW t \in AllDates
  PROVE  LET today == MonthStart(t.year, t.mon) + t.mday
         IN  DailyDate(d, t) = Moment(IF StillToday(t, d) THEN today ELSE today + 1,
                                      d.hour, d.min, d.sec)
<1> DEFINE mday == IF StillToday(t, d) THEN t.mday ELSE t.mday + 1
           u == [d EXCEPT !.year = t.year, !.mon = t.mon, !.mday = mday]
<1>1. /\ u.year = t.year /\ u.mon = t.mon /\ u.mday = mday
      /\ u.hour = d.hour /\ u.min = d.min /\ u.sec = d.sec
  BY DEF AllDates
<1>2. t.year \in Nat /\ t.mon \in Nat /\ t.mday \in Nat
  BY CalendarParts, LengthsOfTime DEF AllDates
<1>3. mday \in Nat
  BY <1>2
<1> HIDE DEF mday, u
<1>4. Timely(u)
  BY <1>1, <1>2, <1>3 DEF Timely, AllDates
<1>5. TimeGm(u) = Moment(MonthStart(t.year, t.mon) + mday, d.hour, d.min, d.sec)
  BY <1>1, <1>4, WhatTimeGmIs
<1>6. MonthStart(t.year, t.mon) \in Nat
  BY <1>2, MonthAfterMonth
<1>7. MonthStart(t.year, t.mon) + mday
        = IF StillToday(t, d) THEN MonthStart(t.year, t.mon) + t.mday
                              ELSE (MonthStart(t.year, t.mon) + t.mday) + 1
  BY <1>2, <1>6 DEF mday
<1>8. DailyDate(d, t) = TimeGm(u)
  BY DEF DailyDate, u, mday
<1>9. QED
  BY <1>5, <1>7, <1>8

\* The date found with a monthly wish: the day, hour and minute of d in the
\* present month, or in the month after that of d.
LEMMA WhatMonthlyDateIs ==
  ASSUME NEW d \in AllDates, NEW t \in AllDates
  PROVE  MonthlyDate(d, t) =
             Moment(MonthStart(t.year, IF Before(t, d) THEN t.mon ELSE d.mon + 1) + d.mday,
                    d.hour, d.min, d.sec)
<1> DEFINE mon == IF Before(t, d) THEN t.mon ELSE d.mon + 1
           u == [d EXCEPT !.year = t.year, !.mon = mon]
<1>1. /\ u.year = t.year /\ u.mon = mon /\ u.mday = d.mday
      /\ u.hour = d.hour /\ u.min = d.min /\ u.sec = d.sec
  BY DEF AllDates
<1>2. t.year \in Nat /\ t.mon \in Nat /\ d.mon \in Nat /\ d.mday \in Nat
  BY CalendarParts, LengthsOfTime DEF AllDates
<1>3. mon \in Nat
  BY <1>2
<1>4. MonthlyDate(d, t) = TimeGm(u)
  BY DEF MonthlyDate
<1> HIDE DEF mon, u
<1>5. Timely(u)
  BY <1>1, <1>2, <1>3 DEF Timely, AllDates
<1>6. TimeGm(u) = Moment(MonthStart(t.year, mon) + d.mday, d.hour, d.min, d.sec)
  BY <1>1, <1>5, WhatTimeGmIs
<1>7. QED
  BY <1>4, <1>6 DEF mon

\* x is at the hour and minute of the date d.
AtTimeOf(x, d) == (x \div Hour) % Hours = d.hour /\ (x \div Seconds) % Minutes = d.min

\* Whatever _next_date finds is at the hour and minute of _date.
LEMMA NextDateIsOnTime ==
  ASSUME NEW x \in Nat, date \in AllDates
  PROVE  NextDate(x) \in Nat /\ AtTimeOf(NextDate(x), date)
<1> DEFINE t == GmTime(x)
<1>1. t \in AllDates
  BY GmTimeIsADate
<1> HIDE DEF t
<1>2. /\ t.year \in Nat /\ t.mon \in Nat /\ t.mday \in Nat
      /\ date.mon \in Nat /\ date.mday \in Nat
  BY <1>1, CalendarParts, LengthsOfTime DEF AllDates
<1>3. \A n \in Nat : MonthStart(t.year, n) \in Nat
  BY <1>2, MonthAfterMonth
<1>4. PICK days \in Nat : NextDate(x) = Moment(days, date.hour, date.min, date.sec)
  <2>1. CASE wish.monthly
    <3> DEFINE mon == IF Before(t, date) THEN t.mon ELSE date.mon + 1
    <3>1. MonthStart(t.year, mon) + date.mday \in Nat
      BY <1>2, <1>3
    <3>2. NextDate(x) = Moment(MonthStart(t.year, mon) + date.mday,
                               date.hour, date.min, date.sec)
      BY <1>1, <2>1, WhatMonthlyDateIs DEF NextDate, t
    <3> HIDE DEF mon
    <3>3. QED
      BY <3>1, <3>2
  <2>2. CASE ~wish.monthly
    <3> DEFINE today == MonthStart(t.year, t.mon) + t.mday
               days == IF StillToday(t, date) THEN today ELSE today + 1
    <3>1. days \in Nat
      BY <1>2, <1>3
    <3>2. NextDate(x) = Moment(days, date.hour, date.min, date.sec)
      BY <1>1, <2>2, WhatDailyDateIs DEF NextDate, t
    <3> HIDE DEF days
    <3>3. QED
      BY <3>1, <3>2
  <2>3. QED
    BY <2>1, <2>2
<1>5. /\ date.hour \in 0 .. Hours - 1 /\ date.min \in 0 .. Minutes - 1
      /\ date.sec \in 0 .. Seconds - 1
  BY DEF AllDates
<1>6. QED
  BY <1>4, <1>5, PartsOfMoment DEF AtTimeOf

-----------------------------------------------------------------------------
(***************************************************************************)
(* Type correctness                                                        *)
(***************************************************************************)
\* A date is constructed in the years of the model.
LEMMA ConstructIsADate ==
  ASSUME NEW w \in Wishes, NEW x \in 0 .. Horizon
  PROVE  /\ Construct(w, x) \in Dates
         /\ Construct(w, x).hour = w.hour /\ Construct(w, x).min = w.min
<1> DEFINE t == Construct(w, x)
<1>1. /\ t \in AllDates /\ t.hour = w.hour /\ t.min = w.min /\ t.year <= x
      /\ x \in Nat /\ Horizon \in Nat
  BY WhatConstructIs, CalendarParts
<1> HIDE DEF t
<1>2. t.year \in 0 .. Horizon
  BY <1>1 DEF AllDates
<1>3. t \in Dates
  BY <1>1, <1>2 DEF AllDates, Dates
<1>4. QED
  BY <1>1, <1>3 DEF t

LEMMA DatesAreDates == Dates \subseteq AllDates
  BY CalendarParts DEF Dates, AllDates

\* The first moment is before the bound of the model.
LEMMA InitIsEarly == Init => now \in 0 .. Horizon
  BY LengthsOfTime, CalendarParts DEF Init

(***************************************************************************)
(* Every date that the constructor makes (dollarcostaveraging.hpp:42-77)   *)
(* and that _next_date gives to timegm is one that the calendar has: the   *)
(* day is one of its month, also when the day of the configuration is not. *)
(***************************************************************************)
THEOREM DatesTypeCorrect == Spec => []TypeOK
<1>1. Init => TypeOK
  <2> SUFFICES ASSUME Init PROVE TypeOK
    OBVIOUS
  <2>1. now \in 0 .. Horizon
    BY InitIsEarly
  <2>2. date \in Dates
    BY <2>1, ConstructIsADate DEF Init
  <2>3. QED
    BY <2>1, <2>2 DEF Init, TypeOK
<1>2. TypeOK /\ [Next]_vars => TypeOK'
  <2> SUFFICES ASSUME TypeOK, [Next]_vars PROVE TypeOK'
    OBVIOUS
  <2>0. now \in Nat /\ Horizon \in Nat /\ HalfHour \in Nat
    BY CalendarParts DEF TypeOK
  <2>1. CASE FindDate
    <3>1. NextDate(now) \in Nat
      BY <2>0, NextDateIsOnTime, DatesAreDates DEF TypeOK
    <3>2. QED
      BY <2>1, <3>1 DEF FindDate, TypeOK
  <2>2. CASE Unlock
    BY <2>2 DEF Unlock, TypeOK
  <2>3. CASE NoDip
    BY <2>0, <2>3 DEF NoDip, Sleep, TypeOK
  <2>4. CASE Put
    BY <2>0, <2>4 DEF Put, Sleep, TypeOK
  <2>5. CASE WakeUp
    BY <2>5 DEF WakeUp, TypeOK
  <2>6. CASE Tick
    BY <2>0, <2>6 DEF Tick, TypeOK
  <2>7. CASE Restart
    <3>1. Construct(wish, now) \in Dates
      BY ConstructIsADate DEF TypeOK
    <3>2. QED
      BY <2>7, <3>1 DEF Restart, Start, TypeOK
  <2>8. CASE UNCHANGED vars
    BY <2>8 DEF vars, TypeOK
  <2>9. QED
    BY <2>1, <2>2, <2>3, <2>4, <2>5, <2>6, <2>7, <2>8 DEF Next
<1>3. QED
  BY <1>1, <1>2, PTL DEF Spec

-----------------------------------------------------------------------------
(***************************************************************************)
(* The order of dates                                                      *)
(***************************************************************************)
\* All of a day is before all of a later one.
LEMMA LaterDay ==
  ASSUME NEW a \in Nat, NEW b \in Nat, a < b,
         NEW hour \in 0 .. Hours - 1, NEW min \in 0 .. Minutes - 1,
         NEW hour2 \in 0 .. Hours - 1, NEW min2 \in 0 .. Minutes - 1
  PROVE  /\ MinuteOf(a, hour, min) \in Nat /\ MinuteOf(b, hour2, min2) \in Nat
         /\ MinuteOf(a, hour, min) < MinuteOf(b, hour2, min2)
<1> DEFINE h == a * Hours + hour
           k == b * Hours + hour2
<1>1. h \in Nat /\ k \in Nat /\ h + 1 <= k
  <2>1. a * Hours \in Nat /\ b * Hours \in Nat /\ (a + 1) * Hours <= b * Hours
    BY CalendarParts
  <2>2. (a + 1) * Hours = a * Hours + Hours
    BY CalendarParts
  <2>3. QED
    BY <2>1, <2>2, CalendarParts
<1> HIDE DEF h, k
<1>2. h * Minutes \in Nat /\ k * Minutes \in Nat /\ (h + 1) * Minutes <= k * Minutes
  BY <1>1, CalendarParts
<1>3. (h + 1) * Minutes = h * Minutes + Minutes
  BY <1>1, CalendarParts
<1>4. h * Minutes + min \in Nat /\ k * Minutes + min2 \in Nat
      /\ h * Minutes + min < k * Minutes + min2
  BY <1>2, <1>3, CalendarParts
<1>5. QED
  BY <1>4 DEF MinuteOf, h, k

\* The same time of the next day is a day's minutes later.
LEMMA NextDay ==
  ASSUME NEW a \in Nat, NEW hour \in 0 .. Hours - 1, NEW min \in 0 .. Minutes - 1
  PROVE  MinuteOf(a + 1, hour, min) = MinuteOf(a, hour, min) + Minute(Day)
<1>1. Minute(Day) = Minutes * Hours
  <2>1. Day = Seconds * (Minutes * Hours) + 0
    BY CalendarParts DEF Day, Hour
  <2>2. Minutes * Hours \in Nat /\ 0 \in 0 .. Seconds - 1 /\ Seconds \in Nat \ {0}
    BY CalendarParts
  <2> DEFINE q == Minutes * Hours
  <2>3. Day = Seconds * q + 0 /\ q \in Nat
    BY <2>1, <2>2
  <2> HIDE DEF q
  <2>4. Day \div Seconds = q
    BY <2>2, <2>3, DivisionIsUnique
  <2>5. QED
    BY <2>4 DEF Minute, q
<1>2. ((a + 1) * Hours + hour) * Minutes + min
        = ((a * Hours + hour) * Minutes + min) + Minutes * Hours
  BY CalendarParts
<1>3. QED
  BY <1>1, <1>2 DEF MinuteOf

\* The day and minute of a moment, by the parts that gmtime finds.
LEMMA MinuteOfMoment ==
  ASSUME NEW x \in Nat
  PROVE  /\ x \div Day \in Nat
         /\ Minute(x) = MinuteOf(x \div Day, (x \div Hour) % Hours, (x \div Seconds) % Minutes)
         /\ (x \div Hour) % Hours \in 0 .. Hours - 1
         /\ (x \div Seconds) % Minutes \in 0 .. Minutes - 1
<1> DEFINE days == x \div Day
           hour == (x \div Hour) % Hours
           min == (x \div Seconds) % Minutes
           sec == x % Seconds
<1>1. /\ days \in Nat /\ hour \in 0 .. Hours - 1 /\ min \in 0 .. Minutes - 1
      /\ sec \in 0 .. Seconds - 1 /\ x = Moment(days, hour, min, sec)
  BY MomentOfParts
<1> HIDE DEF days, hour, min, sec
<1>2. Minute(Moment(days, hour, min, sec)) = MinuteOf(days, hour, min)
  BY <1>1, PartsOfMoment
<1>3. QED
  BY <1>1, <1>2 DEF days, hour, min

-----------------------------------------------------------------------------
(***************************************************************************)
(* Daily dates                                                             *)
(***************************************************************************)
\* A daily date after one that is not in the future.
LEMMA DailyDateIsLater ==
  ASSUME date \in AllDates, ~wish.monthly, now \in Nat, last \in Nat,
         last <= now, AtTimeOf(last, date)
  PROVE  /\ Minute(NextDate(now)) > Minute(last)
         /\ now \div Day = last \div Day =>
                Minute(NextDate(now)) = Minute(last) + Minute(Day)
<1> DEFINE t == GmTime(now)
           today == now \div Day
           lastDay == last \div Day
           day == IF StillToday(t, date) THEN today ELSE today + 1
<1>1. /\ t \in AllDates /\ MonthStart(t.year, t.mon) + t.mday = today
      /\ t.hour = (now \div Hour) % Hours /\ t.min = (now \div Seconds) % Minutes
  BY WhatGmTimeIs, GmTimeIsADate
<1>2. /\ today \in Nat /\ t.hour \in 0 .. Hours - 1 /\ t.min \in 0 .. Minutes - 1
      /\ Minute(now) = MinuteOf(today, t.hour, t.min)
  BY <1>1, MinuteOfMoment
<1>3. /\ date.hour \in 0 .. Hours - 1 /\ date.min \in 0 .. Minutes - 1
      /\ date.sec \in 0 .. Seconds - 1
  BY DEF AllDates
<1>4. lastDay \in Nat /\ Minute(last) = MinuteOf(lastDay, date.hour, date.min)
  BY MinuteOfMoment DEF AtTimeOf
<1>5. lastDay <= today /\ Minute(last) <= Minute(now)
  BY DivisionIsMonotone, LengthsOfTime, CalendarParts DEF Minute
<1>6. NextDate(now) = Moment(day, date.hour, date.min, date.sec)
  BY <1>1, WhatDailyDateIs DEF NextDate
<1> HIDE DEF t, today, lastDay
<1>7. day \in Nat
  BY <1>2
<1>8. Minute(NextDate(now)) = MinuteOf(day, date.hour, date.min)
  <2> HIDE DEF day
  <2>1. QED
    BY <1>3, <1>6, <1>7, PartsOfMoment
<1>9. ASSUME StillToday(t, date), lastDay = today PROVE FALSE
  <2>1. t.hour <= date.hour /\ t.min < date.min
    BY <1>9 DEF StillToday
  <2> DEFINE h == today * Hours + t.hour
             k == today * Hours + date.hour
  <2>2. h \in Nat /\ k \in Nat /\ h <= k
    BY <1>2, <1>3, <2>1, CalendarParts
  <2> HIDE DEF h, k
  <2>3. h * Minutes \in Nat /\ k * Minutes \in Nat /\ h * Minutes <= k * Minutes
    BY <2>2, CalendarParts
  <2>4. h * Minutes + t.min < k * Minutes + date.min
    BY <1>2, <1>3, <2>1, <2>3, CalendarParts
  <2>5. k * Minutes + date.min <= h * Minutes + t.min
    BY <1>2, <1>4, <1>5, <1>9 DEF MinuteOf, h, k
  <2>6. QED
    BY <1>2, <1>3, <2>3, <2>4, <2>5
<1>10. lastDay < day
  BY <1>2, <1>4, <1>5, <1>9
<1>11. Minute(NextDate(now)) > Minute(last)
  <2> HIDE DEF day
  <2>1. QED
    BY <1>3, <1>4, <1>7, <1>8, <1>10, LaterDay
<1>12. ASSUME today = lastDay
       PROVE  Minute(NextDate(now)) = Minute(last) + Minute(Day)
  <2>1. day = lastDay + 1
    BY <1>9, <1>12
  <2> HIDE DEF day
  <2>2. QED
    BY <1>3, <1>4, <1>8, <2>1, NextDay
<1>13. QED
  BY <1>11, <1>12 DEF today, lastDay

\* What holds of the dates: all are at the hour and minute of the
\* configuration, none that is past the wait is in the future, and a daily
\* date that is waited for is not the last one.
DatesInv ==
    /\ date.hour = wish.hour /\ date.min = wish.min
    /\ at # "next" => AtTimeOf(next, wish)
    /\ at \in {"check", "nap", "pause"} => next <= now
    /\ last # Never => last <= now /\ AtTimeOf(last, wish)
    /\ ~wish.monthly /\ last # Never /\ at \in {"sleep", "check", "nap"} =>
           Minute(next) > Minute(last)

IInv == TypeOK /\ DatesInv

\* The daily date that is found, by what holds of the dates.
LEMMA FindDateIsLater ==
  ASSUME IInv, FindDate, ~wish.monthly, last # Never
  PROVE  /\ Minute(next') > Minute(last)
         /\ now \div Day = last \div Day => Minute(next') = Minute(last) + Minute(Day)
<1>1. next' = NextDate(now)
  BY DEF FindDate
<1>2. /\ date \in AllDates /\ now \in Nat /\ last \in Nat
      /\ last <= now /\ AtTimeOf(last, date)
  BY DatesAreDates, CalendarParts DEF IInv, TypeOK, DatesInv, AtTimeOf
<1>3. QED
  BY <1>1, <1>2, DailyDateIsLater

LEMMA DatesInvariant == Spec => []IInv
<1>1. Init => DatesInv
  <2> SUFFICES ASSUME Init PROVE DatesInv
    OBVIOUS
  <2>1. date.hour = wish.hour /\ date.min = wish.min
    BY InitIsEarly, ConstructIsADate DEF Init
  <2>2. QED
    BY <2>1 DEF Init, DatesInv
<1>2. IInv /\ [Next]_vars => DatesInv'
  <2> SUFFICES ASSUME IInv, [Next]_vars PROVE DatesInv'
    OBVIOUS
  <2> USE DEF IInv
  <2>0. now \in Nat /\ next \in Nat /\ date \in AllDates
    BY DatesAreDates, CalendarParts DEF TypeOK
  <2>1. CASE FindDate
    <3>1. AtTimeOf(next', wish)
      BY <2>0, <2>1, NextDateIsOnTime DEF FindDate, DatesInv, AtTimeOf
    <3>2. ~wish.monthly /\ last # Never => Minute(next') > Minute(last)
      BY <2>1, FindDateIsLater
    <3>3. QED
      BY <2>1, <3>1, <3>2 DEF FindDate, DatesInv, AtTimeOf
  <2>2. CASE Unlock
    BY <2>0, <2>2 DEF Unlock, DatesInv, AtTimeOf
  <2>3. CASE NoDip
    BY <2>3 DEF NoDip, Sleep, DatesInv, AtTimeOf
  <2>4. CASE Put
    BY <2>4 DEF Put, Sleep, DatesInv, AtTimeOf
  <2>5. CASE WakeUp
    BY <2>5 DEF WakeUp, DatesInv, AtTimeOf
  <2>6. CASE Tick
    <3>1. now' \in Nat /\ now <= now'
      BY <2>0, <2>6 DEF Tick
    <3>2. last # Never => last \in Nat
      BY DEF TypeOK
    <3>3. QED
      BY <2>0, <2>6, <3>1, <3>2 DEF Tick, DatesInv, AtTimeOf
  <2>7. CASE Restart
    <3>1. date'.hour = wish.hour /\ date'.min = wish.min
      BY <2>7, ConstructIsADate DEF Restart, Start, TypeOK
    <3>2. QED
      BY <2>7, <3>1 DEF Restart, Start, DatesInv, AtTimeOf
  <2>8. CASE UNCHANGED vars
    BY <2>8 DEF vars, DatesInv, AtTimeOf
  <2>9. QED
    BY <2>1, <2>2, <2>3, <2>4, <2>5, <2>6, <2>7, <2>8 DEF Next
<1>3. Spec => []DatesInv
  BY <1>1, <1>2, DatesTypeCorrect, PTL DEF Spec, IInv
<1>4. QED
  BY <1>3, DatesTypeCorrect, PTL DEF IInv

(***************************************************************************)
(* With a daily date (dollarcostaveraging.cc:54-66) _next_date never finds *)
(* one that was used, however long the wait for the dip took and whenever  *)
(* the process was started again; a date used today is followed by that of *)
(* tomorrow, over the ends of the months and years of any calendar.        *)
(***************************************************************************)
THEOREM DailyDatesAreOrdered == Spec => DailyDatesAdvance
<1>1. IInv /\ [Next]_vars =>
        [FindDate /\ ~wish.monthly /\ last # Never =>
           /\ Minute(next') > Minute(last)
           /\ now \div Day = last \div Day =>
                  Minute(next') = Minute(last) + Minute(Day)]_vars
  BY FindDateIsLater
<1>2. QED
  BY <1>1, DatesInvariant, PTL DEF Spec, DailyDatesAdvance

(***************************************************************************)
(* With a daily date the comments at dollarcostaveraging.cc:49 and :113    *)
(* are right: no date gets a second message (:97-117), over any number of  *)
(* naps and restarts.  With a monthly date they are not.                   *)
(***************************************************************************)
THEOREM OneMessagePerDailyDate ==
  Spec => [][Put /\ ~wish.monthly /\ last # Never => Minute(next) > Minute(last)]_vars
<1>1. IInv /\ [Next]_vars =>
        [Put /\ ~wish.monthly /\ last # Never => Minute(next) > Minute(last)]_vars
  BY DEF IInv, DatesInv, Put
<1>2. QED
  BY <1>1, DatesInvariant, PTL DEF Spec

-----------------------------------------------------------------------------
(***************************************************************************)
(* Monthly dates                                                           *)
(***************************************************************************)
\* A later day is later by the second too.
LEMMA LaterMoment ==
  ASSUME NEW a \in Nat, NEW b \in Nat, a <= b,
         NEW hour \in Nat, NEW min \in Nat, NEW sec \in Nat
  PROVE  Moment(a, hour, min, sec) <= Moment(b, hour, min, sec)
<1>1. a * Day \in Nat /\ b * Day \in Nat /\ a * Day <= b * Day
  BY LengthsOfTime
<1>2. hour * Hour \in Nat /\ min * Seconds \in Nat
  BY LengthsOfTime, CalendarParts
<1>3. QED
  BY <1>1, <1>2 DEF Moment

\* Two dates of the same month are in the order that Before tells.
LEMMA WhatBeforeIs ==
  ASSUME NEW start \in Nat, NEW t \in AllDates, NEW d \in AllDates
  PROVE  Before(t, d) <=> MinuteOf(start + t.mday, t.hour, t.min)
                            < MinuteOf(start + d.mday, d.hour, d.min)
<1> DEFINE base == start * (Hours * Minutes)
<1>1. base \in Nat
  BY CalendarParts
<1>2. ASSUME NEW u \in AllDates
      PROVE  /\ MinuteOfMonth(u) \in Nat
             /\ MinuteOf(start + u.mday, u.hour, u.min) = base + MinuteOfMonth(u)
  <2>1. u.mday \in Nat /\ u.hour \in Nat /\ u.min \in Nat
    BY CalendarParts, LengthsOfTime DEF AllDates
  <2>2. u.mday * Hours + u.hour \in Nat
    BY <2>1, CalendarParts
  <2>3. MinuteOfMonth(u) \in Nat
    BY <2>1, <2>2, CalendarParts DEF MinuteOfMonth
  <2>4. ((start + u.mday) * Hours + u.hour) * Minutes + u.min
          = base + ((u.mday * Hours + u.hour) * Minutes + u.min)
    BY <2>1, CalendarParts
  <2>5. QED
    BY <2>3, <2>4 DEF MinuteOf, MinuteOfMonth
<1> HIDE DEF base
<1>3. /\ MinuteOfMonth(t) \in Nat /\ MinuteOfMonth(d) \in Nat
      /\ MinuteOf(start + t.mday, t.hour, t.min) = base + MinuteOfMonth(t)
      /\ MinuteOf(start + d.mday, d.hour, d.min) = base + MinuteOfMonth(d)
  BY <1>2
<1>4. QED
  BY <1>1, <1>3 DEF Before

\* The date of the month of d that is k months later.
MonthsLater(d, k) ==
    Moment(MonthStart(d.year, d.mon + k) + d.mday, d.hour, d.min, d.sec)

LEMMA WhatMonthsLaterIs ==
  ASSUME NEW d \in AllDates, NEW k \in Nat
  PROVE  /\ TimeGm([d EXCEPT !.mon = @ + k]) = MonthsLater(d, k)
         /\ MonthStart(d.year, d.mon + k) \in Nat
         /\ Minute(MonthsLater(d, k))
              = MinuteOf(MonthStart(d.year, d.mon + k) + d.mday, d.hour, d.min)
         /\ MonthsLater(d, k) <= MonthsLater(d, k + 1)
<1> DEFINE u == [d EXCEPT !.mon = @ + k]
           start == MonthStart(d.year, d.mon + k)
<1>1. /\ u.year = d.year /\ u.mon = d.mon + k /\ u.mday = d.mday
      /\ u.hour = d.hour /\ u.min = d.min /\ u.sec = d.sec
  BY DEF AllDates
<1>2. /\ d.year \in Nat /\ d.mon \in Nat /\ d.mday \in Nat
      /\ d.hour \in Nat /\ d.min \in Nat /\ d.sec \in Nat
      /\ d.hour \in 0 .. Hours - 1 /\ d.min \in 0 .. Minutes - 1 /\ d.sec \in 0 .. Seconds - 1
  BY CalendarParts, LengthsOfTime DEF AllDates
<1> HIDE DEF u
<1>3. Timely(u)
  BY <1>1, <1>2 DEF Timely
<1>4. /\ TimeGm(u) = Moment(start + d.mday, d.hour, d.min, d.sec)
      /\ Minute(TimeGm(u)) = MinuteOf(start + d.mday, d.hour, d.min)
  BY <1>1, <1>3, WhatTimeGmIs
<1>5. d.mon + k \in Nat /\ (d.mon + k) + 1 = d.mon + (k + 1)
  BY <1>2
<1>6. /\ start \in Nat /\ MonthStart(d.year, d.mon + (k + 1)) \in Nat
      /\ start < MonthStart(d.year, d.mon + (k + 1))
  <2> DEFINE mon == d.mon + k
  <2>1. mon \in Nat /\ mon + 1 \in Nat
    BY <1>5
  <2> HIDE DEF mon
  <2>2. /\ MonthStart(d.year, mon) \in Nat /\ MonthStart(d.year, mon + 1) \in Nat
        /\ MonthStart(d.year, mon) < MonthStart(d.year, mon + 1)
    BY <1>2, <2>1, MonthAfterMonth
  <2>3. mon + 1 = d.mon + (k + 1)
    BY <1>5 DEF mon
  <2>4. QED
    BY <2>2, <2>3 DEF mon
<1>7. MonthsLater(d, k) <= MonthsLater(d, k + 1)
  <2> DEFINE later == MonthStart(d.year, d.mon + (k + 1))
  <2> HIDE DEF start, later
  <2>1. start + d.mday \in Nat /\ later + d.mday \in Nat /\ start + d.mday <= later + d.mday
    BY <1>2, <1>6 DEF later
  <2>2. Moment(start + d.mday, d.hour, d.min, d.sec)
          <= Moment(later + d.mday, d.hour, d.min, d.sec)
    BY <1>2, <2>1, LaterMoment
  <2>3. QED
    BY <2>2 DEF MonthsLater, start, later
<1>8. QED
  BY <1>4, <1>6, <1>7 DEF MonthsLater, u

\* The monthly date found in the month of d.
LEMMA MonthlyDateIsFirst ==
  ASSUME NEW d \in AllDates, NEW x \in Nat,
         GmTime(x).year = d.year, GmTime(x).mon = d.mon
  PROVE  LET n == MonthlyDate(d, GmTime(x))
             slots == {TimeGm([d EXCEPT !.mon = @ + k]) : k \in 0 .. 2}
         IN  /\ n \in slots
             /\ Minute(n) > Minute(x)
             /\ \A s \in slots : Minute(s) > Minute(x) => s >= n
<1> DEFINE t == GmTime(x)
           n == MonthlyDate(d, t)
           slots == {TimeGm([d EXCEPT !.mon = @ + k]) : k \in 0 .. 2}
           start == MonthStart(d.year, d.mon)
<1>1. /\ t \in AllDates /\ t.year = d.year /\ t.mon = d.mon
      /\ start + t.mday = x \div Day
      /\ t.hour = (x \div Hour) % Hours /\ t.min = (x \div Seconds) % Minutes
  BY WhatGmTimeIs, GmTimeIsADate
<1>2. /\ Minute(x) = MinuteOf(start + t.mday, t.hour, t.min)
      /\ t.hour \in 0 .. Hours - 1 /\ t.min \in 0 .. Minutes - 1
  BY <1>1, MinuteOfMoment
<1>3. n = IF Before(t, d) THEN MonthsLater(d, 0) ELSE MonthsLater(d, 1)
  <2>1. d.mon \in Nat
    BY CalendarParts DEF AllDates
  <2>2. d.mon + 0 = d.mon
    BY <2>1
  <2>3. QED
    BY <1>1, <2>2, WhatMonthlyDateIs DEF MonthsLater
<1> HIDE DEF t, n
<1>4. /\ d.mon \in Nat /\ d.mday \in Nat /\ d.year \in Nat /\ t.mday \in Nat
      /\ d.hour \in 0 .. Hours - 1 /\ d.min \in 0 .. Minutes - 1 /\ d.sec \in 0 .. Seconds - 1
      /\ d.mon + 0 = d.mon
  BY <1>1, CalendarParts, LengthsOfTime DEF AllDates
<1>5. slots = {MonthsLater(d, 0), MonthsLater(d, 1), MonthsLater(d, 2)}
  <2>1. ASSUME NEW k \in Nat
        PROVE  TimeGm([d EXCEPT !.mon = @ + k]) = MonthsLater(d, k)
    BY WhatMonthsLaterIs
  <2>2. slots = {MonthsLater(d, k) : k \in 0 .. 2}
    BY <2>1
  <2>3. 0 .. 2 = {0, 1, 2}
    OBVIOUS
  <2> HIDE DEF slots
  <2>4. QED
    BY <2>2, <2>3
<1>6. /\ MonthsLater(d, 0) \in Int /\ MonthsLater(d, 1) \in Int /\ MonthsLater(d, 2) \in Int
      /\ MonthsLater(d, 0) <= MonthsLater(d, 1) /\ MonthsLater(d, 1) <= MonthsLater(d, 2)
  <2>1. /\ MonthsLater(d, 0) <= MonthsLater(d, 1) /\ MonthsLater(d, 1) <= MonthsLater(d, 2)
    <3>1. 0 \in Nat /\ 1 \in Nat /\ 0 + 1 = 1 /\ 1 + 1 = 2
      OBVIOUS
    <3>2. QED
      BY <3>1, WhatMonthsLaterIs
  <2>2. ASSUME NEW k \in Nat PROVE MonthsLater(d, k) \in Int
    <3> DEFINE days == MonthStart(d.year, d.mon + k) + d.mday
    <3>1. MonthStart(d.year, d.mon + k) \in Nat
      BY WhatMonthsLaterIs
    <3>2. days \in Nat
      BY <1>4, <3>1
    <3> HIDE DEF days
    <3>3. Moment(days, d.hour, d.min, d.sec) \in Nat
      BY <1>4, <3>2, PartsOfMoment
    <3>4. QED
      BY <3>3 DEF MonthsLater, days
  <2>3. QED
    BY <2>1, <2>2
<1>7. start \in Nat /\ Minute(MonthsLater(d, 0)) = MinuteOf(start + d.mday, d.hour, d.min)
  BY <1>4, WhatMonthsLaterIs
<1>8. Before(t, d) <=> Minute(x) < Minute(MonthsLater(d, 0))
  <2> HIDE DEF start
  <2>1. QED
    BY <1>1, <1>2, <1>7, WhatBeforeIs
<1>9. Minute(x) < Minute(MonthsLater(d, 1))
  <2> DEFINE following == MonthStart(d.year, d.mon + 1)
  <2>1. /\ following = start + MonthLengths[d.mon + 1] /\ following \in Nat
        /\ MonthLengths[d.mon + 1] \in Nat /\ t.mday < MonthLengths[d.mon + 1]
    <3>1. d.mon % Months = d.mon /\ d.mon + 1 \in 1 .. Months
      BY CalendarParts DEF AllDates
    <3>2. following = start + MonthLengths[d.mon + 1]
      <4>1. d.year \in Nat /\ d.mon \in Nat
        BY <1>4
      <4>2. following = start + MonthLengths[(d.mon % Months) + 1]
        BY <4>1, MonthAfterMonth
      <4>3. QED
        BY <3>1, <4>2
    <3>3. MonthLengths[d.mon + 1] \in Nat /\ t.mday < MonthLengths[d.mon + 1]
      BY <1>1, <3>1, CalendarParts DEF AllDates
    <3> HIDE DEF start, following
    <3>4. QED
      BY <1>7, <3>2, <3>3
  <2>2. Minute(MonthsLater(d, 1)) = MinuteOf(following + d.mday, d.hour, d.min)
    BY WhatMonthsLaterIs
  <2> HIDE DEF start, following
  <2>3. /\ start + t.mday \in Nat /\ following + d.mday \in Nat
        /\ start + t.mday < following + d.mday
    BY <1>4, <1>7, <2>1
  <2>4. QED
    BY <1>2, <1>4, <2>2, <2>3, LaterDay
<1> HIDE DEF start, slots
<1>10. n \in slots
  BY <1>3, <1>5
<1>11. Minute(n) > Minute(x)
  BY <1>3, <1>8, <1>9
<1>12. ASSUME NEW s \in slots, Minute(s) > Minute(x) PROVE s >= n
  <2>1. CASE Before(t, d)
    BY <1>3, <1>5, <1>6, <2>1
  <2>2. CASE ~Before(t, d)
    <3>1. s # MonthsLater(d, 0)
      BY <1>8, <1>12, <2>2
    <3>2. QED
      BY <1>3, <1>5, <1>6, <2>2, <3>1
  <2>3. QED
    BY <2>1, <2>2
<1>13. QED
  BY <1>10, <1>11, <1>12 DEF n, slots, t

(***************************************************************************)
(* With a monthly date (dollarcostaveraging.cc:26-52), in the month that   *)
(* _date is of, _next_date finds the first date that is still to come: of  *)
(* this month or of the next, which may be one of the next year, with any  *)
(* lengths of the months.                                                  *)
(***************************************************************************)
THEOREM MonthlyDatesAreNext == Spec => MonthlyDatesAdvance
<1> DEFINE slots == {TimeGm([date EXCEPT !.mon = @ + k]) : k \in 0 .. 2}
           t == GmTime(now)
           Found == FindDate /\ wish.monthly /\ t.year = date.year /\ t.mon = date.mon =>
                      /\ next' \in slots
                      /\ Minute(next') > Minute(now)
                      /\ \A s \in slots : Minute(s) > Minute(now) => s >= next'
<1>1. TypeOK /\ [Next]_vars => [Found]_vars
  <2> SUFFICES ASSUME TypeOK, FindDate, wish.monthly, t.year = date.year, t.mon = date.mon
               PROVE  /\ next' \in slots
                      /\ Minute(next') > Minute(now)
                      /\ \A s \in slots : Minute(s) > Minute(now) => s >= next'
    OBVIOUS
  <2>1. date \in AllDates /\ now \in Nat
    BY DatesAreDates, CalendarParts DEF TypeOK
  <2>2. next' = MonthlyDate(date, t)
    BY DEF FindDate, NextDate
  <2>3. QED
    BY <2>1, <2>2, MonthlyDateIsFirst
<1>2. QED
  BY <1>1, DatesTypeCorrect, PTL DEF Spec, MonthlyDatesAdvance

\* The monthly date found in a later month than that of d, once its day has
\* come there: it is not after the present minute.
LEMMA PassedDate ==
  ASSUME NEW d \in AllDates, NEW x \in Nat,
         d.mon < GmTime(x).mon, ~Before(GmTime(x), d)
  PROVE  Minute(MonthlyDate(d, GmTime(x))) <= Minute(x)
<1> DEFINE t == GmTime(x)
           start == MonthStart(t.year, t.mon)
           early == MonthStart(t.year, d.mon + 1)
<1>1. /\ t \in AllDates
      /\ start + t.mday = x \div Day
      /\ t.hour = (x \div Hour) % Hours /\ t.min = (x \div Seconds) % Minutes
  BY WhatGmTimeIs, GmTimeIsADate
<1>2. Minute(x) = MinuteOf(start + t.mday, t.hour, t.min)
  BY <1>1, MinuteOfMoment
<1>3. MonthlyDate(d, t) = Moment(early + d.mday, d.hour, d.min, d.sec)
  BY <1>1, WhatMonthlyDateIs
<1>4. d.mon < t.mon /\ ~Before(t, d)
  OBVIOUS
<1> HIDE DEF t
<1>5. /\ t.year \in Nat /\ t.mday \in Nat /\ d.mday \in Nat
      /\ d.mon \in 0 .. Months - 1 /\ t.mon \in 0 .. Months - 1
      /\ d.mon + 1 \in 0 .. Months /\ t.mon \in 0 .. Months
      /\ d.hour \in 0 .. Hours - 1 /\ d.min \in 0 .. Minutes - 1 /\ d.sec \in 0 .. Seconds - 1
      /\ t.hour \in 0 .. Hours - 1 /\ t.min \in 0 .. Minutes - 1
  BY <1>1, CalendarParts, LengthsOfTime DEF AllDates
<1>6. early \in Nat /\ start \in Nat /\ early <= start
  <2> DEFINE year == t.year * YearDays
  <2>1. year \in Nat
    BY <1>5, LengthsOfTime
  <2>2. early = year + DaysBefore[d.mon + 1] /\ start = year + DaysBefore[t.mon]
    BY <1>5, MonthsOfYear
  <2>3. DaysBefore[d.mon + 1] \in Nat /\ DaysBefore[t.mon] \in Nat
    BY <1>5, DaysOfMonths
  <2>4. d.mon + 1 = t.mon \/ d.mon + 1 < t.mon
    BY <1>4, <1>5
  <2>5. DaysBefore[d.mon + 1] <= DaysBefore[t.mon]
    <3>1. CASE d.mon + 1 = t.mon
      BY <2>3, <3>1
    <3>2. CASE d.mon + 1 < t.mon
      <4>1. DaysBefore[d.mon + 1] < DaysBefore[t.mon]
        BY <1>5, <3>2, MonthsFollow
      <4>2. QED
        BY <2>3, <4>1
    <3>3. QED
      BY <2>4, <3>1, <3>2
  <2> HIDE DEF early, start, year
  <2>6. QED
    BY <2>1, <2>2, <2>3, <2>5
<1> HIDE DEF early, start
<1>7. early + d.mday \in Nat /\ start + d.mday \in Nat /\ start + t.mday \in Nat
  BY <1>5, <1>6
<1>8. Minute(MonthlyDate(d, t)) = MinuteOf(early + d.mday, d.hour, d.min)
  BY <1>3, <1>5, <1>7, PartsOfMoment
<1>9. ASSUME NEW a \in Nat, NEW hour \in 0 .. Hours - 1, NEW min \in 0 .. Minutes - 1
      PROVE  MinuteOf(a, hour, min) \in Nat
  <2>1. a + 1 \in Nat /\ a < a + 1
    OBVIOUS
  <2>2. QED
    BY <2>1, LaterDay
<1>10. MinuteOf(early + d.mday, d.hour, d.min) <= MinuteOf(start + d.mday, d.hour, d.min)
  <2>1. /\ MinuteOf(early + d.mday, d.hour, d.min) \in Nat
        /\ MinuteOf(start + d.mday, d.hour, d.min) \in Nat
    BY <1>5, <1>7, <1>9
  <2>2. CASE early = start
    BY <2>1, <2>2
  <2>3. CASE early < start
    <3>1. early + d.mday < start + d.mday
      BY <1>5, <1>6, <2>3
    <3>2. QED
      BY <1>5, <1>7, <2>1, <3>1, LaterDay
  <2>4. QED
    BY <1>6, <2>2, <2>3
<1>11. MinuteOf(start + d.mday, d.hour, d.min) <= Minute(x)
  <2>1. ~(MinuteOf(start + t.mday, t.hour, t.min) < MinuteOf(start + d.mday, d.hour, d.min))
    BY <1>1, <1>4, <1>6, WhatBeforeIs
  <2>2. /\ MinuteOf(start + t.mday, t.hour, t.min) \in Nat
        /\ MinuteOf(start + d.mday, d.hour, d.min) \in Nat
    BY <1>5, <1>7, <1>9
  <2>3. QED
    BY <1>2, <2>1, <2>2
<1>12. /\ MinuteOf(early + d.mday, d.hour, d.min) \in Nat
       /\ MinuteOf(start + d.mday, d.hour, d.min) \in Nat /\ Minute(x) \in Nat
  BY <1>2, <1>5, <1>7, <1>9
<1>13. QED
  BY <1>8, <1>10, <1>11, <1>12 DEF t

(***************************************************************************)
(* Why a monthly date gets more than one message: in every later month     *)
(* than that of _date, once the day has come, _next_date finds a date that *)
(* is not after the present minute (dollarcostaveraging.cc:41, :45, :50:   *)
(* the month is that of _date plus 1, not the present one plus 1), on any  *)
(* calendar and however far the month has gone.  So sleep_until (:79)      *)
(* returns at once, or within the minute.                                  *)
(***************************************************************************)
THEOREM MonthlyDatesGoStale ==
  Spec => [][FindDate /\ wish.monthly /\ date.mon < GmTime(now).mon
                 /\ ~Before(GmTime(now), date) => Minute(next') <= Minute(now)]_vars
<1>1. TypeOK /\ [Next]_vars =>
        [FindDate /\ wish.monthly /\ date.mon < GmTime(now).mon
             /\ ~Before(GmTime(now), date) => Minute(next') <= Minute(now)]_vars
  <2> SUFFICES ASSUME TypeOK, FindDate, wish.monthly, date.mon < GmTime(now).mon,
                      ~Before(GmTime(now), date)
               PROVE  Minute(next') <= Minute(now)
    OBVIOUS
  <2>1. date \in AllDates /\ now \in Nat
    BY DatesAreDates, CalendarParts DEF TypeOK
  <2>2. next' = MonthlyDate(date, GmTime(now))
    BY DEF FindDate, NextDate
  <2>3. QED
    BY <2>1, <2>2, PassedDate
<1>2. QED
  BY <1>1, DatesTypeCorrect, PTL DEF Spec
=============================================================================
