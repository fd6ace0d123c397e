------------------------- MODULE DollarCostAveraging -------------------------
(***************************************************************************)
(* The strategy DollarCostAveraging (src/atd/dollarcostaveraging.cc and    *)
(* include/atd/dollarcostaveraging.hpp): at a date of every month, or of   *)
(* every day, it starts to wait for a dip and then puts one message.       *)
(*                                                                         *)
(* The calendar is the real one with smaller numbers: MonthLengths gives   *)
(* the months of a year and their days, and a day has Hours hours, of      *)
(* Minutes minutes, of Seconds seconds.  Every part of a date is counted   *)
(* from 0.  Whether the stored history shows a dip is left open: a history *)
(* with nothing in it does.  The process can be restarted at any instant,  *)
(* which constructs the object again.                                      *)
(***************************************************************************)
EXTENDS Integers, Sequences

CONSTANTS
    MonthLengths, Hours, Minutes, Seconds,
    HalfHour,       \* sleep_for(30min), in seconds
    Horizon         \* bound of the model on the clock

ASSUME CalendarAssumption ==
    /\ MonthLengths \in Seq(Nat \ {0}) /\ MonthLengths # <<>>
    /\ {Hours, Minutes, Seconds, HalfHour} \subseteq Nat \ {0}
    /\ Horizon \in Nat

VARIABLES
    now,        \* the clock, in seconds
    wish,       \* the date of the configuration
    date,       \* _date
    at,         \* where the thread is in its loop
    next,       \* the date that _next_date found
    wake,       \* when a sleep_for ends
    last        \* history: the date of the last message, or Never

vars == <<now, wish, date, at, next, wake, last>>

Never == -1

-----------------------------------------------------------------------------
(***************************************************************************)
(* The calendar                                                            *)
(***************************************************************************)
Months == Len(MonthLengths)

DaysBefore[m \in 0 .. Months] ==
    IF m = 0 THEN 0 ELSE DaysBefore[m - 1] + MonthLengths[m]

YearDays == DaysBefore[Months]
Hour == Minutes * Seconds
Day == Hours * Hour
Year == YearDays * Day

\* timegm: months past the end of the year and days past the end of the
\* month run over into the next.
TimeGm(t) ==
    LET year == t.year + t.mon \div Months
    IN  (year * YearDays + DaysBefore[t.mon % Months] + t.mday) * Day
          + t.hour * Hour + t.min * Seconds + t.sec

\* gmtime
GmTime(x) ==
    LET day == (x \div Day) % YearDays
        mon == CHOOSE m \in 0 .. Months - 1 :
                   DaysBefore[m] <= day /\ day < DaysBefore[m + 1]
    IN  [year |-> x \div Year,
         mon  |-> mon,
         mday |-> day - DaysBefore[mon],
         hour |-> (x \div Hour) % Hours,
         min  |-> (x \div Seconds) % Minutes,
         sec  |-> x % Seconds]

\* The two date formats, "%d %H:%M" and "%H:%M"; a daily date has no day.
Wishes ==
    {w \in [monthly : BOOLEAN, mday : 0 .. YearDays - 1,
            hour : 0 .. Hours - 1, min : 0 .. Minutes - 1] :
        IF w.monthly THEN \E m \in 1 .. Months : w.mday < MonthLengths[m]
                     ELSE w.mday = 0}

\* The present date with the configured parts.
Wished(w, x) ==
    [GmTime(x) EXCEPT !.hour = w.hour, !.min = w.min,
                      !.mday = IF w.monthly THEN w.mday ELSE @]

\* Slip: the date is left as it was parsed.
ConstructAsParsed(w, x) == Wished(w, x)

\* The constructor: a day that this month does not have becomes one of the
\* next month.
Construct(w, x) == GmTime(TimeGm(Wished(w, x)))

-----------------------------------------------------------------------------
(***************************************************************************)
(* _next_date                                                              *)
(***************************************************************************)
MinuteOfMonth(t) == (t.mday * Hours + t.hour) * Minutes + t.min

\* Slip: the minute of the date counts as before it.
BeforeOrAt(t, d) == MinuteOfMonth(t) <= MinuteOfMonth(d)

\* The day, hour and minute of t have not come to those of d.
Before(t, d) == MinuteOfMonth(t) < MinuteOfMonth(d)

\* The month is that of the construction plus 1, not the present one plus 1.
MonthlyDate(d, t) ==
    TimeGm([d EXCEPT !.year = t.year,
                     !.mon = IF Before(t, d) THEN t.mon ELSE @ + 1])

\* Slip: <= for the minutes too.
StillTodayInclusive(t, d) == t.hour <= d.hour /\ t.min <= d.min

StillToday(t, d) == t.hour <= d.hour /\ t.min < d.min

DailyDate(d, t) ==
    TimeGm([d EXCEPT !.year = t.year, !.mon = t.mon,
                     !.mday = IF StillToday(t, d) THEN t.mday ELSE t.mday + 1])

NextDate(x) ==
    IF wish.monthly THEN MonthlyDate(date, GmTime(x)) ELSE DailyDate(date, GmTime(x))

-----------------------------------------------------------------------------
\* The dates that gmtime returns.
Dates ==
    {t \in [year : 0 .. Horizon, mon : 0 .. Months - 1, mday : 0 .. YearDays - 1,
            hour : 0 .. Hours - 1, min : 0 .. Minutes - 1, sec : 0 .. Seconds - 1] :
        t.mday < MonthLengths[t.mon + 1]}

TypeOK ==
    /\ now \in 0 .. Horizon
    /\ wish \in Wishes
    /\ date \in Dates
    /\ at \in {"next", "sleep", "check", "nap", "pause"}
    /\ next \in Nat
    /\ wake \in Nat
    /\ last \in Nat \cup {Never}

Start(x) ==
    /\ at' = "next"
    /\ date' = Construct(wish, x)
    /\ next' = 0
    /\ wake' = 0

Init ==
    /\ now \in 0 .. (IF Year < Horizon THEN Year ELSE Horizon)
    /\ wish \in Wishes
    /\ date = Construct(wish, now)
    /\ at = "next"
    /\ next = 0
    /\ wake = 0
    /\ last = Never

FindDate ==
    /\ at = "next"
    /\ next' = NextDate(now)
    /\ at' = "sleep"
    /\ UNCHANGED <<now, wish, date, wake, last>>

\* sleep_until(date) returns, at once if the date has passed.
Unlock ==
    /\ at = "sleep"
    /\ now >= next
    /\ at' = "check"
    /\ UNCHANGED <<now, wish, date, next, wake, last>>

\* Sleep, for d seconds, before going on at the place after.
Sleep(place, d) == at' = place /\ wake' = now + d

NoDip ==
    /\ at = "check"
    /\ Sleep("nap", HalfHour)
    /\ UNCHANGED <<now, wish, date, next, last>>

\* A dip, _chan->put(message), and a second's sleep.
Put ==
    /\ at = "check"
    /\ last' = next
    /\ Sleep("pause", 1)
    /\ UNCHANGED <<now, wish, date, next>>

WakeUp ==
    /\ at \in {"nap", "pause"}
    /\ now >= wake
    /\ at' = IF at = "nap" THEN "check" ELSE "next"
    /\ wake' = 0
    /\ UNCHANGED <<now, wish, date, next, last>>

Tick ==
    /\ now < Horizon
    /\ now' = now + 1
    /\ UNCHANGED <<wish, date, at, next, wake, last>>

Restart ==
    /\ Start(now)
    /\ UNCHANGED <<now, wish, last>>

Next ==
    \/ FindDate
    \/ Unlock
    \/ NoDip
    \/ Put
    \/ WakeUp
    \/ Tick
    \/ Restart

Spec == Init /\ [][Next]_vars

-----------------------------------------------------------------------------
(***************************************************************************)
(* Properties                                                              *)
(***************************************************************************)
\* The seconds of a date are those of the construction: they do not tell
\* dates apart.
Minute(x) == x \div Seconds

(***************************************************************************)
(* With a daily date (dollarcostaveraging.cc:54-66) no date is ever used   *)
(* twice, however long the wait for the dip takes and whenever the process *)
(* is started again.  And a date of today that was used is followed by the *)
(* one of tomorrow, the last day of the month and of the year included.    *)
(***************************************************************************)
DailyDatesAdvance ==
    [][FindDate /\ ~wish.monthly /\ last # Never =>
           /\ Minute(next') > Minute(last)
           /\ now \div Day = last \div Day =>
                  Minute(next') = Minute(last) + Minute(Day)]_vars

(***************************************************************************)
(* With a monthly date (:26-52) the date found in the month of _date is    *)
(* the first that is still to come, of this month and those that follow.   *)
(***************************************************************************)
MonthlyDatesAdvance ==
    [][LET slots == {TimeGm([date EXCEPT !.mon = @ + k]) : k \in 0 .. 2}
           t == GmTime(now)
       IN  FindDate /\ wish.monthly /\ t.year = date.year /\ t.mon = date.mon =>
               /\ next' \in slots
               /\ Minute(next') > Minute(now)
               /\ \A s \in slots : Minute(s) > Minute(now) => s >= next']_vars

-----------------------------------------------------------------------------
(***************************************************************************)
(* What the comments of the code say and the code does not do              *)
(***************************************************************************)

(***************************************************************************)
(* dollarcostaveraging.cc:49: once the date has passed, "the next month is  *)
(* the actual +1"; :113-115: a second's sleep keeps _next_date from         *)
(* triggering "the same date".  So no message is put for a date that has   *)
(* been used, nor for an earlier one.                                      *)
(***************************************************************************)
OneMessagePerDate == [][Put /\ last # Never => Minute(next) > Minute(last)]_vars
=============================================================================
