----------------------------- MODULE OrderSizing -----------------------------
(***************************************************************************)
(* How the decisor sizes one order (src/atd/trader.cc:19-99, :143-298):    *)
(* it reads the balance, reads it again with the ticker to turn the budget *)
(* of the message into a trade balance, reads the ticker once more for a   *)
(* market order, and places the order if it fits the limits of the market  *)
(* and the balance it read first.  The account and the ticker may move     *)
(* between any two reads: other orders are filled, other people trade.     *)
(*                                                                         *)
(* Numbers.  A price and a percentage are whole hundredths, a fee is a     *)
(* whole percentage, balances are whole.  The trade balance is kept in     *)
(* hundredths of its currency, and a quotient is compared by multiplying   *)
(* out, so there is no rounding; that of double is left out.               *)
(*                                                                         *)
(* SmallChanges gives base budgets to buy and to sell (config.cc:197-203), *)
(* DollarCostAveraging quote budgets to buy (:185-191).  BuyLowAndHodl     *)
(* sends a limit order with a budget it never initialises                  *)
(* (buylowandhodl.cc:117-130), which can be any.  Only what is positive is *)
(* ever told apart, so an amount that is not is 0 here.                    *)
(***************************************************************************)
EXTENDS Integers

CONSTANTS
    Balances,       \* the balances an account can have
    Percentages,    \* the positive balance_percentages, in hundredths
    Amounts,        \* the positive fixed_amounts
    Quotes,         \* the prices, in hundredths
    MinVolume, MaxVolume,   \* info.limit of the pair
    Fee             \* info.maker_fee and info.taker_fee, per cent

ASSUME OrderSizingAssumption ==
    /\ Balances \subseteq Nat
    /\ Percentages \subseteq Nat \ {0}
    /\ Amounts \subseteq Nat \ {0}
    /\ Quotes \subseteq Nat \ {0}
    /\ MinVolume \in Nat /\ MaxVolume \in Nat /\ Fee \in Nat

VARIABLES
    at,         \* the next thing the decisor does
    message,    \* the message in hand
    account,    \* what the account holds
    ticker,     \* what the market asks and bids
    balance,    \* the first balance read
    trade,      \* trade_balance
    price,      \* order.price
    moved       \* history: the account or the ticker has moved since then

vars == <<at, message, account, ticker, balance, trade, price, moved>>

\* quantity_t.  quantity_from_json asks for one of the two at least, and takes
\* both, or zeros; what is not there is 0.
Quantity == [fixed : Amounts \cup {0}, share : Percentages \cup {0}]

Given(quantity) == quantity.fixed > 0 \/ quantity.share > 0

Budget == [base : Quantity, quote : Quantity]

\* A price of 0 is one the strategy did not set.
Message == [action : {"buy", "sell"}, type : {"limit", "market"},
            price : Quotes \cup {0}, budget : Budget]

Market(action) == [action : {action}, type : {"market"}, price : {0}, budget : Budget]
Limit(action) == [action : {action}, type : {"limit"}, price : Quotes, budget : Budget]
OnBase(M) == {m \in M : m.budget.quote = [fixed |-> 0, share |-> 0]}
OnQuote(M) == {m \in M : m.budget.base = [fixed |-> 0, share |-> 0]}

\* The messages the strategies send.
Messages ==
    OnBase(Market("buy") \cup Market("sell") \cup Limit("sell"))
        \cup OnQuote(Market("buy")) \cup Limit("buy")

Account == [base : Balances, quote : Balances]
Ticker == {q \in [bid : Quotes, ask : Quotes] : q.bid <= q.ask}

TypeOK ==
    /\ at \in {"balance", "trade", "price", "decide", "placed", "refused"}
    /\ message \in Messages
    /\ account \in Account
    /\ ticker \in Ticker
    /\ balance \in Balances \cup {0}
    /\ trade \in Nat
    /\ price \in Quotes \cup {0}
    /\ moved \in BOOLEAN

Init ==
    /\ at = "balance"
    /\ message \in Messages
    /\ account \in Account
    /\ ticker \in Ticker
    /\ balance = 0 /\ trade = 0
    /\ price = message.price
    /\ moved = FALSE

-----------------------------------------------------------------------------
Buying == message.action = "buy"

\* Slip: pair.first and pair.second are mixed up.
HeldOfTheOther == IF Buying THEN account.base ELSE account.quote

\* The balance an order draws on: quote currency to buy, base to sell.
Held == IF Buying THEN account.quote ELSE account.base

MarketBuyPrice == ticker.bid

\* The price of a market order, and of a base budget without a price.
MarketSellPrice == ticker.ask

\* Slip: what is left over in place of what fits.
Leftover(amount, limit) == limit - amount

\* What fits in what is held, and nothing if it does not.
OrNothing(amount, limit) == IF amount <= limit THEN amount ELSE 0

\* Slip: valued at the bid, paid at the ask.
ValuedAtBid == IF message.price > 0 THEN message.price ELSE MarketBuyPrice

\* The unit price at which _buy_trade_balance values a base budget.
ValuedAt == IF message.price > 0 THEN message.price ELSE MarketSellPrice

\* Quote before base, and a fixed amount before a percentage; the percentage
\* of base does not enter the result (trader.cc:70).
BuyTradeBalance ==
    LET q == message.budget.quote
        b == message.budget.base
    IN  IF q.fixed > 0 THEN OrNothing(100 * q.fixed, 100 * account.quote)
        ELSE IF q.share > 0 THEN q.share * account.quote
        ELSE IF b.fixed > 0 THEN OrNothing(b.fixed * ValuedAt, 100 * account.quote)
        ELSE IF b.share > 0 THEN account.quote * ValuedAt
        ELSE 0

\* The base budget (trader.cc:87-99): a percentage before a fixed amount, which
\* must leave something.  The quote budget (:100-118) is not modelled: no
\* strategy sells for one.
SellTradeBalance ==
    LET b == message.budget.base
    IN  IF b.share > 0 THEN b.share * account.base
        ELSE IF b.fixed > 0 /\ account.base - b.fixed > 0 THEN 100 * b.fixed
        ELSE 0

TradeBalance == IF Buying THEN BuyTradeBalance ELSE SellTradeBalance

ReadBalance ==
    /\ at = "balance"
    /\ balance' = Held
    /\ moved' = FALSE
    /\ at' = "trade"
    /\ UNCHANGED <<message, account, ticker, trade, price>>

ReadTradeBalance ==
    /\ at = "trade"
    /\ trade' = TradeBalance
    /\ at' = "price"
    /\ UNCHANGED <<message, account, ticker, balance, price, moved>>

ReadPrice ==
    /\ at = "price"
    /\ price' = IF message.type = "market" THEN MarketSellPrice ELSE price
    /\ at' = "decide"
    /\ UNCHANGED <<message, account, ticker, balance, trade, moved>>

\* volume = trade / price to buy, trade to sell.
VolumeWithinLimits ==
    IF Buying
    THEN MinVolume * price <= trade /\ trade <= MaxVolume * price
    ELSE 100 * MinVolume <= trade /\ trade <= 100 * MaxVolume

\* The cost in quote currency, times 100 to buy and times 10000 to sell.
Cost == IF Buying THEN trade ELSE trade * price

\* Slip: the fee is forgotten.
BalanceCoversTrade == trade <= 100 * balance

\* balance - trade_balance - fee >= 0, with a fee that is Fee% of the cost.
\* To sell, the balance and the trade are in base currency, the fee is not.
BalanceCovers ==
    IF Buying
    THEN 100 * (100 * balance - trade) >= Fee * Cost
    ELSE 10000 * (100 * balance - trade) >= Fee * Cost

Decide ==
    /\ at = "decide"
    /\ at' = IF VolumeWithinLimits /\ BalanceCovers THEN "placed" ELSE "refused"
    /\ UNCHANGED <<message, account, ticker, balance, trade, price, moved>>

\* A server_error from any of the reads, or from place: start again.
Retry ==
    /\ at \in {"trade", "price", "decide"}
    /\ at' = "balance"
    /\ UNCHANGED <<message, account, ticker, balance, trade, price, moved>>

Busy == at \in {"trade", "price", "decide"}

AccountMoves ==
    /\ Busy
    /\ account' \in Account \ {account}
    /\ moved' = TRUE
    /\ UNCHANGED <<at, message, ticker, balance, trade, price>>

TickerMoves ==
    /\ Busy
    /\ ticker' \in Ticker \ {ticker}
    /\ moved' = TRUE
    /\ UNCHANGED <<at, message, account, balance, trade, price>>

Next ==
    \/ ReadBalance
    \/ ReadTradeBalance
    \/ ReadPrice
    \/ Decide
    \/ Retry
    \/ AccountMoves
    \/ TickerMoves

Spec == Init /\ [][Next]_vars

-----------------------------------------------------------------------------
(***************************************************************************)
(* Properties                                                              *)
(***************************************************************************)
Placed == at = "placed"

(***************************************************************************)
(* Unless the balance has fallen below what was read first, the account    *)
(* can pay for a buy order and its fee when it is placed, and holds what a *)
(* sell order sells (trader.cc:174-176 and :238-240): although the trade   *)
(* balance comes from a second reading, which may be larger than the       *)
(* first, and the price from a third, and whatever the ticker does.        *)
(***************************************************************************)
PlacedIsPaidFor ==
    Placed /\ Held >= balance =>
        IF Buying THEN 100 * trade + Fee * trade <= 10000 * account.quote
                  ELSE trade <= 100 * account.base

(***************************************************************************)
(* While nothing moves, what the decisor makes of a budget.  To buy: the   *)
(* fixed amount of quote, or else the share of the balance, or else the    *)
(* fixed amount of base at whatever it costs.  With a percentage of base   *)
(* it is what trader.cc:70 computes, though the budget says less: the whole *)
(* balance times the price, whatever the percentage.  To sell: the share   *)
(* of the balance or else the fixed amount.  And there is never an order   *)
(* for nothing (trader.cc:43-72, :87-99, with a market order's price read  *)
(* later).                                                                 *)
(***************************************************************************)
PlacedAsBudgeted ==
    LET b == message.budget.base
        q == message.budget.quote
    IN  Placed /\ ~moved =>
            /\ Given(b) \/ Given(q)
            /\ Buying /\ q.fixed > 0 => trade = 100 * q.fixed
            /\ Buying /\ q.fixed = 0 /\ q.share > 0 => trade = q.share * account.quote
            /\ Buying /\ ~Given(q) =>
                   trade = IF b.fixed > 0 THEN b.fixed * price
                                          ELSE account.quote * price
            /\ ~Buying => trade = IF b.share > 0 THEN b.share * account.base
                                                 ELSE 100 * b.fixed

-----------------------------------------------------------------------------
(***************************************************************************)
(* What the comments of the code say and the code does not do              *)
(***************************************************************************)

(***************************************************************************)
(* trader.cc:212-219: "can I sell pair.first(LTC) for pair.second(EUR)?",  *)
(* with a fee that is a percentage of the cost, and the cost is in EUR.    *)
(* So a volume that the market's limits allow, and that the account holds  *)
(* with Fee% of it to spare, is never refused.                             *)
(***************************************************************************)
SellableIsPlaced ==
    at = "refused" /\ ~moved /\ ~Buying =>
        ~(VolumeWithinLimits /\ (100 + Fee) * trade <= 10000 * account.base)

(***************************************************************************)
(* What remains true of it: where a unit of base costs no more than one of *)
(* quote, the fee that is taken from the wrong currency (trader.cc:240)    *)
(* is never more than the right one, and nothing sellable is refused.      *)
(***************************************************************************)
SellableWhereBaseIsCheap == price <= 100 => SellableIsPlaced
=============================================================================
