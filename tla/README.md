# openatd in TLA+

openatd is a trading daemon: monitor threads store what coinmarketcap says in
SQLite, strategy threads watch that history and put messages into a channel,
and one decisor thread per market turns each message into an order, or not.
This directory holds TLA+ modules that follow its source, TLC configurations
that check them on small instances, and TLAPS proofs, for every instance, of
everything that those runs check except liveness.

Paths below are relative to the repository: `trader.cc`, `smallchanges.cc`,
`dollarcostaveraging.cc` and the like are in `src/atd/`, headers in
`include/atd/`.

## 1. The system

| Component | State | Operations | Talks to |
|---|---|---|---|
| `channel<item>` (`channel.hpp`) | `_queue`, `_closed`, `_m`, `_cv` | `put`, `get`, `close`, `is_closed` | every thread below |
| Messages (`types.hpp`) | none | values sent through channels | |
| Trader (`trader.cc`) | per message: the order, the retry flag | `intramarket`: get, size, place, retry, feedback | message channel, market, feedback channels |
| SmallChanges (`smallchanges.cc`) | `_feedback`, `_bought`, `_price` | thread `buy`, thread `sell` | history, message channel, its feedback channel, `openOrders` |
| DollarCostAveraging | `_date`, `_monthly` | `_next_date`, thread `buy` | clock, history, message channel |
| BuyLowAndHodl | none that matters | thread `buy` | history, stats, message channel |
| Hodl | none | `buy` and `sell` return at once | |
| DataMonitor (`datamonitor.cc`) | two tables of SQLite | `currencies`, `pairs` (endless), `currencyHistory`, `pairHistory` | coinmarketcap, SQLite |
| Exception handler (`main.cc`) | three `exception_ptr`, `mux`, a condition variable | `exception_handler`, the catch blocks | monitor threads, log |
| Config (`config.cc`) | the JSON document | `markets`, `exchanges`, `strategies`, `quantity_from_json` | run once by `main` |
| Stats (`stats/namespace.hpp`) | none | `mean_stdev`, `pearson`, `least_squares`, `conv`, `gaussian1d` | BuyLowAndHodl |
| ExponentialSmoothing (`stats/`) | a model of a series | train, predict | nobody |
| Process (`main.cc`, `openatd@.service`) | what survives a death: the orders in the market, SQLite | start, death, restart by systemd | |
| Market, ticker and exchange library | the open orders, the balances, the prices | `place`, `openOrders`, `balance`, `ticker`, `info` | outside the repository |

What is hard, component by component, and what makes each right:

* **channel**: a lost wakeup. `put` notifies one sleeper and a third thread may
  overtake it. Right means: behaves like an indivisible queue, and nobody
  sleeps next to an item.
* **Trader**: `server_error` can come from any call and starts the message
  again, from `place` even after the market took the order. Balances and
  tickers are read several times while the world moves. Right means: each
  message is answered exactly once, a placed order is never worked on again,
  and what is placed can be paid for.
* **SmallChanges**: two threads of an object wait on *one* feedback channel and
  share two fields without a lock. Right means: as many feedbacks on their way
  as threads that wait, no open order without somebody who looks after it, a
  position that makes sense.
* **DollarCostAveraging**: calendar arithmetic around the ends of days, months
  and years, and around the date itself. Right means: a date is used once.
* **Signals**: two threads look at one moving window of rows, each when it comes
  round. Right means: a history is not a reason to buy and, a few rows later, to
  sell, and two strategies of one account do not work against each other.
* **OrderSizing** (part of the Trader): a budget can come in any of three forms,
  and buy and sell prefer different ones. Right means: what is placed is what
  the budget asks for, and can be paid for unless the balance has fallen
  meanwhile, whatever else moves.
* **Exception handler**: a wait without a predicate and pointers that are never
  cleared. Right would mean that every exception is logged.
* **DataMonitor**: loops that an exception ends and `main` enters again. Right
  would mean: the pauses bound the requests in a row, and a currency that
  answers is collected. The first holds only as long as nothing is thrown: a
  currency early in the list that always fails ends the pauses for good. The
  second holds only of the currencies in front of the first one that fails.
* **Process**: all trading state is in memory; the orders are not.

`PROJECT.json` lists the hazards at their lines.

## 2. Modules

| Module | Models | State and actions |
|---|---|---|
| `Fifo` | what a channel promises | `queue`, `closed`, the pending call `req` of each thread, the `result` of the last call; `Put`, `Take`, `FindNothing`, `Close` are indivisible |
| `Channel` | `channel.hpp` | adds the mutex (`holder`) and where each thread is (`pc`). A call is `Call`, `Acquire`, and a section; a waiting `get` gives the mutex back and has to acquire it again (`GetSectionWaits`). Spurious wakeups are allowed |
| `ChannelProofs` | | invariant and refinement, proved |
| `Messages` | `types.hpp`, the two kinds of channel | `chan`, `feedback[s]` as FIFOs, which `Channel` justifies |
| `Exchange` | `place` and `openOrders` as used | `book`: the open orders. `life` counts restarts. Outside the repository |
| `Trader` | the decisor (`trader.cc:129-301`) | `at` is its place in the loop: `TakeMessage`, `SizeOrder`, `Place`, `PlaceLost` (accepted, answer lost), `PlaceFails`, `Reply` |
| `SmallChanges` | `smallchanges.cc` | `pc[<<s, side>>]`: `BuySignal`/`SellSignal`, `GetFeedback`, `Fulfilled`, then `SetBought`, `ReadPrice`, `SetPrice` one access at a time and in any order the compiler may choose (`std::max` reads before the write), `WakeUp` |
| `Trading` | the threads `intramarket` starts, put together | `Decisor`, `Strategy(t)`, `PlainBuy` (strategies that want no feedback), `MarketCloses`, `Die` |
| `OrderDesk` | what the strategies can rely on | requests are taken in order, each settled in one step: `Grant` or `Refuse`. `Mislay` is the order nobody is told of, `Crash` loses requests and answers but no order |
| `TradingProofs`, `PositionProofs`, `DeskProofs` | | the inductive invariants of `Trading`, and that it implements `OrderDesk`, proved |
| `OrderSizing` | `trader.cc:19-99`, the arithmetic of `:143-298`, `quantity_from_json` | one message, its budget, the account and the ticker, which may move between `ReadBalance`, `ReadTradeBalance`, `ReadPrice` and `Decide` |
| `SizingProofs` | | what may be placed, proved |
| `Stats` | `conv` of `stats/namespace.hpp` | pure, on sequences of integers |
| `Signals` | `smallchanges.cc:21-59`, `:146-179`, the dip (`dollarcostaveraging.cc:83-103`), `conv` as `buylowandhodl.cc:50` uses it | `window`, the rows `currencyHistory` returns at present; `StoreRow`, `RowTooOld`, and `Buy`, `Sell`: a thread sees its signal |
| `SignalProofs` | | which signals exclude each other, and that `conv` is a convolution, proved |
| `DollarCostAveraging` | `dollarcostaveraging.cc`/`.hpp` | clock `now`, `_date`, the loop of `buy`; the calendar is the real one with smaller numbers |
| `DatesProofs` | | the calendar, and which dates are found, proved |
| `Collector` | one endless loop of `datamonitor.cc` | `loop` (where, whose turn, the count `i`), `down`, `recent`; `Succeed`, `Resume`, `NextRound`, `Fail`, and outside: `Break`, `Repair`, `Expire` |
| `ExceptionHandler` | `main.cc:30-88`, the catch blocks of `:131-184` | `handler`, `except[m]`, and who `threw` in this life; `BeginWait`, `Catch`, `Log`, spurious wakeups |
| `Monitoring` | `main.cc:126-184`: the threads put together | `CurrencyAnswers`, `CurrencySlept`, `CurrencyFails`, `PairStep`, `PairFails`, `Handler`, `Outside`, `Die` |
| `MonitoringProofs` | | the inductive invariant of `Monitoring`, proved |
| `MC...` | | instances for TLC |

`Trading` composes `Trader` and `SmallChanges`, which share `Exchange` and
`Messages`, and implements `OrderDesk`: the message in the decisor's hands is
still a request until its order is placed or refused, and an answer from then
on, before the feedback is put (`Requests` and `Answers` in `Trading`). Steps
of the decisor that only look, or prepare a retry, are invisible at the desk;
an accepted order whose answer is lost is `Mislay`. `OrderSizing` is the detail
of `SizeOrder`, where `Trading` only has a free choice between an order that
fits and one that does not; it is a module of its own because its numbers and
the interleavings of `Trading` would only multiply.

`Monitoring` has two instances of `Collector`: the currencies with a pause after
every tenth request, the pairs with one after every base. A loop that fails goes
through the catch block of `ExceptionHandler` in the same step and is entered
again at once. The tables are shared with the trading half of the daemon, but
nothing flows back. `Signals` stands between the halves: what the monitor stores
is its `StoreRow`, what the strategies make of it are the free signals of
`SmallChanges` and `DollarCostAveraging`.

What the models leave out, and why it changes nothing they say:

* **Texts, logs, pairs, names.** No property tells them apart. The
  configuration knows one market (`config.cc:71-83`), so there is one decisor.
* **Read-only calls that fail.** A `server_error` of `balance`, `ticker`, `info`
  or `openOrders` leads back to a state that was there before: no step.
  `OrderSizing` keeps it (`Retry`), because there the second attempt reads anew.
* **Signals.** In `SmallChanges`, `Trading` and `DollarCostAveraging`, whether
  the history shows a bargain, a spike or a dip is free: more behaviours than
  the code has, so what holds of the model holds of it. `Signals` says what they
  are. A price worth taking (`Profitable`) is kept, as it reads
  `_bought`/`_price`.
* **Rows.** `Collector` keeps whether a look two hours back still finds a row,
  `Signals` keeps `percent_change_24h` of each. A row carries the time at which
  coinmarketcap updated it last, taken to be less than two hours ago.
* **Rests.** `sleep_for` ends at some time. How long it takes matters to no
  property of `Trading`; `DollarCostAveraging` has a clock.
* **double.** Prices and percentages are whole hundredths, quotients are
  compared by multiplying out; rounding is left out.
* **Filled or cancelled.** `openOrders` does not tell, and so `CloseOrder` is
  both.
* **History variables** (`overlap`, `attempts`, `moved`, `heard`, `threw`,
  `asked`, `threwSince`, `last`, `signal`, `fresh`, and the owner, life and
  `acked` of an open order) are read by the properties, and by the bounds, never
  by the code's guards.

An operator whose comment begins with "Slip:" is no part of the model. It is a
plausible mistake in the definition below it; `PROJECT.json` lists which
property finds each.

## 3. What the runs check

| Run | Configuration | Checks |
|---|---|---|
| `channel` | `MCChannel.cfg` | `TypeOK`, `NoLostWakeup`, `ImplementsFifo` (safety and liveness) |
| `trading` | `MCTrading.cfg` | `TypeOK`, `OneFeedbackPerWaiter`, `PlacedOrdersAreDone`, `NoOrphanOrder`, `ExposureBounded`, `PositionConsistent`, `OnlyLostOrdersAreRepeated`, `KeepsOrderDesk` |
| `trading_live` | `MCTradingLive.cfg` | `WaitersAreAnswered`, `ImplementsOrderDesk` (safety and liveness), `EqualOrdersNeedTwoWaiters` |
| `sizing` | `MCOrderSizing.cfg` | `TypeOK`, `PlacedIsPaidFor`, `PlacedAsBudgeted`, `SellableWhereBaseIsCheap` |
| `dollar_cost_averaging` | `MCDollarCostAveraging.cfg` | `TypeOK`, `DailyDatesAdvance`, `MonthlyDatesAdvance` |
| `monitoring` | `MCMonitoring.cfg` | `TypeOK`, `BurstNeedsAnException`, `FailureEndsThePauses`, `EarlierAreCollected`, `FailureBlindsTheRest`, `HeardIsLogged`, `HeardKeepsAwake`, `CurrenciesMaskPairs` |
| `signals` | `MCSignals.cfg` | `OppositeSignalsApart`, `DipIsNoTimeToSell`, `ConvIsConvolution` |

Each takes between a second and two minutes with two workers. The type invariant
of `Channel` includes who may hold the mutex (`LockDiscipline`), that of
`Trading` that an order which is polled has an id (`PolledHaveIds`).

Four of the properties describe a weakness that is really there, so that a
change of the code that removes it is noticed: `FailureEndsThePauses` (a
currency that always fails makes the monitor ask for ever without a sleep),
`FailureBlindsTheRest` (it takes the rows of all those behind it away),
`CurrenciesMaskPairs`, and the part of `PlacedAsBudgeted` about buying for a
percentage of base: `trader.cc:70` multiplies the whole balance by the price.
Where the price is below 1 that is an order the budget never asked for; above 1
it is more than the balance, and refused.

**Bounds.**

* `channel`: three threads, two items, `QueueBound` 2 items queued or being
  put. Two sleepers and one caller of `put` or `close` is the least that tells
  `notify_one` from `notify_all` and lets one `get` overtake another.
* `trading`: one object (two threads), prices 10 and 11 so that taking profit
  happens, one lost answer (`MaxLost`), one death (`MaxLives`). Four ids: fresh
  means written down nowhere, so a few stand for an endless supply; when all
  orders that can be open are, the decisor waits for one to close. Ids are
  interchangeable, and the run uses that symmetry. Several objects at once are
  left to the proofs, which hold for any set of strategies.
* `trading_live`: no symmetry, three ids, and one message of a strategy that
  wants no feedback in front of or behind the others (`MaxPlain`). No lost
  answers and no death: an order that was mislaid may stay open for ever and so
  use up a finite supply of ids, and a death ends every wait. The safety half of
  the desk is checked with both, in `trading`.
* `sizing`: balances 0, 2, 3 and 10, prices 0.5, 1 and 4, percentages 0.2 and 1,
  an amount of 3, limits 1 and 8, a fee of 1%: empty, just short and ample
  accounts, prices on both sides of 1, volumes beyond both limits. A budget has
  a percentage, an amount, both or neither, in base and in quote currency, as
  `quantity_from_json` lets it. `sellable` has a price of 300, where a fee in
  quote currency is more than a balance in base currency.
* `dollar_cost_averaging`: months of 2, 1 and 2 days, days of 2 hours of 2
  minutes of 2 seconds, all dates and all times of construction of the first
  year, just over two years of time (`Horizon`), restarts at any time. It has a
  month too short for some days, ends of months and of years, and hours before,
  at and after the date. `monthly_date` uses the same instance.
* `monitoring`: three currencies with a pause after every second request, so
  that a round ends between two pauses, and one base; services that break and
  recover and a process that dies, as often as they like. Only the count of
  requests since the last sleep (`asked`) stops, at one more than the limit, as
  more than that is never told apart.
  More bases behave as more currencies do; the proofs hold for any number.
  `every_exception` needs one currency only.
* `signals`: up to seven rows (`MaxRows`) where more than four are measured
  (`Enough`, 8 in the code): from too few rows to histories whose last quarter
  has two. Changes of -10, -1, 0, 1 and 10 percent lie on both sides of 0 and at
  both margins. `ConvIsConvolution` takes every history as one series, with
  kernels of three and of five values, so that either series is the shorter one.

`CHECK_DEADLOCK FALSE` stands where the model stops by design: `OrderSizing`
ends when its message is decided.

**Fairness.** `Channel`: a critical section is straight-line code, so it ends
(weak fairness); a thread that finds the mutex free again and again gets it
(strong fairness, an assumption on the scheduler). `Trading`: the decisor runs
on (weak); a market that is asked again and again accepts the order at last,
answer and all (strong fairness of `Place`, an assumption on the market: the
retry loop has no other way out); a thread whose feedback is there gets it
(weak). No signal has to come, no order has to be filled and no spurious wakeup
is relied on. `OrderDesk` promises that the first request is settled in the end
(weak), which is what those assumptions come to. `Monitoring`: the three threads
run and rows grow old (weak); no service has to fail, none has to recover, and
no spurious wakeup is relied on. `EarlierAreCollected` and
`FailureEndsThePauses` are about a process that from some time on does not die
(`Lives`), the first about a currency that, with those before it, answers in the
end, the second about one that does not.

### Where code and comments disagree

| Run | Property | What happens |
|---|---|---|
| `equal_orders` | `NoEqualOrders` | A buy and a sell asked for at once; the buy is placed, the sell refused, and the refusal reaches the buy thread. It watches again while its order is open and places an equal one. The comment: "do not place equals order in a short period of time" |
| `retried_order` | `OneOrderPerMessage` | `place` throws after the market took the order; the retry places it twice |
| `monthly_date` | `OneMessagePerDate` | From the month after the construction on, a monthly date that has passed is found again, and a message is put every second while the dip lasts. The comment: "the next month is the actual +1" |
| `sellable` | `SellableIsPlaced` | The sell guard subtracts a fee in EUR from a balance in LTC |
| `every_exception` | `EveryExceptionLogged` | A notification that comes while the handler is busy is lost. The comment: "logging every exception" |

Two more comments are contradicted by a property that passes,
`FailureEndsThePauses`: the one that explains the pause with the "cmc api
limits" (`datamonitor.cc:77`) and the one that announces to "wait for 2 seconds
and retry" after an exception (`main.cc:113`). There is no wait in the catch
blocks, and the count of requests starts afresh.

What remains true of those in the table, checked by the passing runs and proved
(section 4):

* `equal_orders` takes both threads of the object waiting at once. As long as
  they never do, there are no equal orders (`EqualOrdersNeedTwoWaiters`).
* `retried_order` takes a lost answer: the retry leaves no order behind that
  `place` told of (`OnlyLostOrdersAreRepeated`), and without a lost answer a
  message is one order at most (`RepeatNeedsALostAnswer`).
* `sellable` takes a price above one: where a unit of base costs no more than
  one of quote, the fee of the wrong currency is at most the right one
  (`SellableWhereBaseIsCheap`).
* `monthly_date` is no accident of a calendar: in every later month than that of
  `_date`, once the day has come, the date found is not after the present minute
  (`MonthlyDatesGoStale`). In the month of `_date` the code is right
  (`MonthlyDatesAdvance`).
* `every_exception` takes a notification while the handler is not waiting. One
  that it hears, it never goes to sleep on (`HeardKeepsAwake`), unless the
  exception is one of pairs and the currencies have thrown.

## 4. What is proved

`ChannelProofs`, from `IsFiniteSet(Threads)`, `NoThread \notin Threads` and
`QueueBound \in Nat \ {0}`:

* `ChannelTypeCorrect`, `ChannelLosesNoWakeup`: `Spec => []TypeOK`, `Spec =>
  []NoLostWakeup`. The first needs, besides the types, that the holder of the
  mutex is the one thread in its section, whichever of the waiting threads gets
  it back (`LockDiscipline`). `NoLostWakeup` is not inductive: the inductive
  invariant adds that, and that a thread's place fits its call. Then a `put`
  adds one item and one awake `get`, a `get` that leaves takes one of each, and
  a `get` only goes to sleep when there is nothing to take.
* `ChannelRefinesFifo`: every step of the locked code is a step of `Fifo` or a
  stutter: the safety half of what `ImplementsFifo` checks.

`TradingProofs`, `PositionProofs` and `DeskProofs`, from the assumptions of
`Messages`, `Trader` and `Trading` (finite set of strategies, the null values
outside the sets they complete, positive prices), for any strategies, ids,
prices and bounds:

* `TradingTypeCorrect`, with `PolledHaveIds`: a thread only polls an order that
  the market has given an id, because a refusal (no id) sends it back.
* `FeedbackBalances`: `OneFeedbackPerWaiter`. Every step that makes a thread
  wait puts one message; each of the decisor's steps moves the one thing from
  the queue to its hands to the feedback channel.
* `RetriesStopAtAnAnswer`: `PlacedOrdersAreDone`, with the parts `SentUnplaced`
  (what is queued has no txid yet) and `InHandSound` (what is being placed has a
  price).
* `NoOrderIsForgotten`: `NoOrphanOrder`. The ids in care move with the order
  from the decisor to the feedback to the thread that polls. It needs
  `BookFromThePast` (no open order is of a life to come), so that a restart
  leaves none in care behind.
* `ExposureIsBounded`: `ExposureBounded`, by counting: every id in care belongs
  to a different waiting or polling thread; `OrdersOnTheWay` is the part that is
  inductive.
* `OnlyLostAreRepeated`: `OnlyLostOrdersAreRepeated`, inductive with the type
  invariant: the decisor starts again only with an order that has no txid, and
  only an accepted order without an answer leaves one in the book.
  `RepeatNeedsALostAnswer` assumes of the behaviour that no step is a
  `PlaceLost` and concludes `OneOrderPerMessage`; its invariant `NothingBehind`
  says that the market has accepted nothing for the message unless its answer is
  due. The hypothesis is about the market, not about a constant, and
  `server_error`s before the order is accepted (`PlaceFails`) are as many as
  they like.
* `ApartNeverEqual`: `EqualOrdersNeedTwoWaiters`. Inductive, while the two
  threads of an object do not wait together, is `OwnOrders`: what is on its way
  to the object is of the side of a thread that waits, a thread that polls has
  an order of its own side, and the market has the orders under the side they
  were asked for. Then two open orders of a side would be in the care of one
  thread. It uses `FeedbackBalances` (at most one feedback is on its way when
  one thread waits) and the care for open orders of `NoOrderIsForgotten`.
* `PositionIsConsistent`: `PositionConsistent`. The inductive invariant
  `PositionOf` says, for the thread that is recording, which of its writes are
  done and what the two fields are in between; that a recorded price is positive
  comes from `PlacedOrdersAreDone`.
* `TradingRefinesDesk`: every step of the composed system is a step of
  `OrderDesk` or leaves the desk as it is. It needs the invariant of
  `TradingProofs` and `HandMatches`: the order the decisor works on is the one
  the message asked for, but for the price it gives a market order.

`MonitoringProofs`, from `MonitoringAssumption` (all three numbers positive):

* `MonitoringTypeCorrect`.
* `OnlyExceptionsBreakTheLimit`: `BurstNeedsAnException`. Inductive are
  `SoundLoop`, proved once for a loop with any bounds and used for both monitors
  (outside a pause the count of the loop is below its limit), and
  `SoundHistory`: as long as nothing was thrown since the last sleep, the
  requests since then *are* that count.
* `NoSleepWhileOneFails`: the safety half of `FailureEndsThePauses`. While one
  of the first `Limit` currencies fails, a monitor that asks and has not gone
  past it never sleeps again. Inductive is `Stuck`: the turn comes to that
  currency at most, and the count, which is below the turn, cannot reach the
  limit before.
* `PairsAreMasked`: `CurrenciesMaskPairs`, an action property, from
  `NothingIsCleared`: whoever has thrown in this life (`threw`) has an
  `exception_ptr` that is set (`ThrownStaysSet`), whatever was logged since. So
  the currencies stand first in every later look of the handler.
* `HeardStaysInHand`: `HeardKeepsAwake`. A handler that has been woken stays
  awake until it has looked, and what it looks at first is the currencies.
* `NothingPastAFailure`: the safety half of `FailureBlindsTheRest`, for any
  currency `c` and any set `R` of rows: from a state in which the monitor has
  not gone past `c`, and for as long as `c` is down, the rows from `c` on stay
  within `R`. Inductive is `Blinded`: the turn is at most `c`, which only a
  request of `c` that succeeds can change. That the rows leave in the end is
  liveness.

`SizingProofs`, from `OrderSizingAssumption` (balances, limits and the fee
are natural numbers; percentages, amounts and prices are not 0):

* `SizingTypeCorrect`.
* `PaidFor`: `PlacedIsPaidFor`, whatever moves but the balance downwards.
  Inductive is that a placed order passed the guard against the balance that was
  read first.
* `AsBudgeted`: `PlacedAsBudgeted`, in a market whose least volume is not 0
  (otherwise an order for nothing may be placed). Inductive is `BudgetInv`:
  until something moves, trade balance and price are what would be read again,
  and a base budget, fixed or a percentage, was valued at the price the order
  has.
* `SellableIfCheap`: `SellableWhereBaseIsCheap`. What is refused did not fit the
  limits or was not covered, and with a price of at most 100 hundredths the fee
  subtracted is at most `Fee`% of the volume, so that what has that to spare is
  covered.

`SignalProofs`, from `SignalsAssumption`:

* `SignalsTypeCorrect`.
* `SignalsApart`: `OppositeSignalsApart`. Inductive is `NewestSeenAgrees`: the
  newest row at the time of the last signal, while it is in the window, agrees
  with that signal; the opposite signal needs a whole last quarter without it.
* `DipNeverSells`: `DipIsNoTimeToSell`, over any history and however far back
  the dip is looked for.
* `ConvConvolves`: `ConvIsConvolution`. `conv` adds up products over a range of
  indexes, the definition over a set of pairs of indexes. So the proof has a
  section on sums over finite sets: a sum does not depend on the order in which
  its terms are chosen, and two sums whose terms match one to one are equal.
  The match is the pair of indexes `j` and `k` of the code, which meets every
  pair with the same sum once. The lemma `ConvIsAConvolution` says it of any two
  series of integers that are not empty.

`DatesProofs`, from `CalendarAssumption` (months, days, hours and minutes are
not empty), so for any calendar, the real one included, leap years left out:

* `CalendarRoundTrip`: `timegm` and `gmtime` are inverse to each other. The
  lemmas on division, on `DaysBefore` (it grows with the month by the length of
  the month) and on where a second lies in its year are what all the rest uses.
* `ConstructKeepsTheDay`, `MissingDayMovesOn`: the constructor does not touch a
  day that the present month has. One that the month does not have becomes a day
  of the next month, the 31st the 1st, and `_date` keeps that day as long as the
  object lives, also for the months that have a 31st. The comment at
  `dollarcostaveraging.hpp:30` (`_date` "will only contain the (day,) hour and
  minutes specified") is true of the hour and the minute only.
* `DatesTypeCorrect`: the date that the constructor makes and those that
  `_next_date` finds are dates of the calendar; the argument of `timegm` need
  not be one.
* `DailyDatesAreOrdered`: `DailyDatesAdvance`. Inductive is `DatesInv`: the hour
  and the minute are those of the configuration wherever a date is kept, no date
  that was waited for or used is in the future, and a daily date that is being
  waited for comes after the last one that was used. Without the second part a
  date found after a restart could lie before one that was used. TLC checked
  `DatesInv` on the instance of `dollar_cost_averaging` before it was proved.
* `OneMessagePerDailyDate`: no daily date gets two messages. `OneMessagePerDate`
  says the same of every date, which `monthly_date` refutes; this is the half of
  it that the code keeps.
* `MonthlyDatesAreNext`: `MonthlyDatesAdvance`. The months that follow `_date`
  begin where the month before ends, also over the end of a year.
* `MonthlyDatesGoStale`: an action property of every `FindDate` in a later
  month. The date it finds lies in the month of `_date` plus 1, so in the
  present month or an earlier one, and its day and time are those that have
  passed.

Three definitions are recursive functions or folds: `DaysBefore`, the sum in
`conv` and the sum in `ConvIsConvolution`. The induction theorems of the library
take an operator as parameter, which the provers cannot instantiate; the proofs
take a least counterexample instead, from a well-founded order on the numbers or
on the finite sets.

**Only model-checked.** Liveness (`ImplementsFifo`'s and `ImplementsOrderDesk`'s
liveness, `WaitersAreAnswered`, `EarlierAreCollected`, `FailureBlindsTheRest`,
`FailureEndsThePauses`, `HeardIsLogged`) and anything with `ENABLED` is out of
the prover's reach. Every invariant and every action property of a passing run
is proved, and so is `EqualOrdersNeedTwoWaiters`.

## 5. What is not modelled

* **Hodl, ExponentialSmoothing, build files**: no behaviour, or nobody calls it.
* **is_closed**: it only reads, and nobody calls it. Nobody calls `close` or
  `get` without waiting either; `Channel` has them because the class does.
* **The catch block of the intramarket threads** (`main.cc:196-203`):
  `intramarket` starts threads and joins them for ever, so it never throws; an
  exception inside one of those threads ends the process, which is `Die`.
* **SQLite** under several threads: decided inside the library.
* **Config**: read once, before any thread starts. What it makes of a budget is
  in `OrderSizing`; markets, exchanges, the lists of the monitors and the names,
  which are told apart by a hash, are inputs of the models.
* **A sale for a quote budget** (`trader.cc:100-118`): no strategy sends one.
* **The loop of BuyLowAndHodl that prints** and its look for a low price
  (`buylowandhodl.cc:36-61` and below): what it may read past the end (with 3 to
  35 prices, the kernel being longer than they are) depends on one length and on
  no order of steps.
* **The rest of Stats**: `pearson` and `least_squares` are not called;
  `mean_stdev` and `gaussian1d` compute with `double`, and their result is only
  printed.
* **The price a profit is taken at** (`smallchanges.cc:180-218`): a rate or, for
  want of one, the quotation with the highest volume, in `double`.
  `SmallChanges` has any price there.
* **The sleeps of BuyLowAndHodl**: it keeps no state, so in `Trading` its
  message may come at any time.
* **Filled against cancelled**: the code cannot tell, and neither can the
  models.

## 6. Plan

Done, in this order: `Fifo` and `Channel`; `Messages`, `Exchange`, `Trader`,
`SmallChanges` and `Trading`; `OrderSizing`; `DollarCostAveraging`;
`ChannelProofs`, `TradingProofs`; `Collector`, `ExceptionHandler` and
`Monitoring` with `MonitoringProofs`; `OrderDesk` with `DeskProofs`; `Stats` and
`Signals` with `SignalProofs`; budgets of every form in `OrderSizing`;
`SizingProofs`, `PositionProofs`; `DatesProofs`, and the convolution in
`SignalProofs`; what remains true of the findings, and the safety halves of
`FailureBlindsTheRest` and `FailureEndsThePauses`.

Next:

1. The start of the process: what of `main` and `Config` fails before the first
   thread, and what of it fails later.
2. The safety half of `EarlierAreCollected`: what a monitor that has come past a
   currency has stored of it, with the rows growing old in between.

Not planned: that `OrderSizing` implements the free choice of `SizeOrder`. That
choice allows an order that fits and one that does not, and so nearly anything.
