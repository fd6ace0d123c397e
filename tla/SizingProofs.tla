---------------------------- MODULE SizingProofs ----------------------------
(***************************************************************************)
(* Proofs about OrderSizing, for all balances, budgets, prices, limits and *)
(* fees.  What makes the properties inductive is that the balance read     *)
(* first is what is held as long as nothing has moved, and that an order   *)
(* is only placed if that balance covers it and its fee.                   *)
(***************************************************************************)
EXTENDS OrderSizing, TLAPS

\* The decisor has read the first balance.
HasBalance == at \in {"trade", "price", "decide", "placed", "refused"}

FirstReadingHolds == HasBalance /\ ~moved => balance = Held

PlacedIsCovered == Placed => BalanceCovers

SizingInv ==
    /\ TypeOK
    /\ FirstReadingHolds
    /\ PlacedIsCovered

-----------------------------------------------------------------------------
(***************************************************************************)
(* Types                                                                   *)
(***************************************************************************)
\* Products of naturals are naturals.
LEMMA ProductIsNat == ASSUME NEW m \in Nat, NEW n \in Nat PROVE m * n \in Nat
  OBVIOUS

\* Every message of a strategy is a message.
LEMMA MessagesAreMessages == Messages \subseteq Message
  BY DEF Messages, Market, Limit, OnBase, OnQuote, Message

\* What a message holds.
LEMMA MessageFields ==
  ASSUME TypeOK
  PROVE  /\ message.price \in Nat
         /\ message.budget \in Budget
         /\ message.budget.base \in Quantity
         /\ message.budget.quote \in Quantity
         /\ message.price \in Quotes \cup {0}
<1>1. message \in Message
  BY MessagesAreMessages DEF TypeOK
<1>2. message.budget \in Budget /\ message.price \in Quotes \cup {0}
  BY <1>1 DEF Message
<1>3. message.budget.base \in Quantity /\ message.budget.quote \in Quantity
  BY <1>2 DEF Budget
<1>4. Quotes \cup {0} \subseteq Nat
  BY OrderSizingAssumption DEF OrderSizingAssumption
<1>5. QED
  BY <1>2, <1>3, <1>4

\* The members of a quantity are natural numbers.
LEMMA QuantityIsNat ==
  ASSUME NEW q \in Quantity
  PROVE  q.fixed \in Nat /\ q.share \in Nat
<1>1. q.fixed \in Amounts \cup {0} /\ q.share \in Percentages \cup {0}
  BY DEF Quantity
<1>2. Amounts \cup {0} \subseteq Nat /\ Percentages \cup {0} \subseteq Nat
  BY OrderSizingAssumption DEF OrderSizingAssumption
<1>3. QED
  BY <1>1, <1>2

\* Balances and prices are natural numbers.
LEMMA MarketIsNat ==
  ASSUME TypeOK
  PROVE  /\ account.base \in Balances /\ account.quote \in Balances
         /\ account.base \in Nat /\ account.quote \in Nat
         /\ ticker.ask \in Quotes /\ ticker.ask \in Nat
         /\ balance \in Nat /\ price \in Nat
<1>1. /\ account.base \in Balances /\ account.quote \in Balances
      /\ ticker.ask \in Quotes
  BY DEF TypeOK, Account, Ticker
<1>2. balance \in Nat /\ price \in Nat
  BY OrderSizingAssumption DEF OrderSizingAssumption, TypeOK
<1>3. QED
  BY <1>1, <1>2, OrderSizingAssumption DEF OrderSizingAssumption

\* A base budget is valued at a natural number.
LEMMA ValueIsNat == ASSUME TypeOK PROVE ValuedAt \in Nat
  BY MessageFields, MarketIsNat DEF ValuedAt, MarketSellPrice

\* The trade balance is a natural number.
LEMMA TradeBalanceIsNat ==
  ASSUME TypeOK
  PROVE  TradeBalance \in Nat
<1> DEFINE b == message.budget.base
           q == message.budget.quote
<1>1. b.fixed \in Nat /\ b.share \in Nat /\ q.fixed \in Nat /\ q.share \in Nat
  BY MessageFields, QuantityIsNat
<1>2. account.base \in Nat /\ account.quote \in Nat /\ ValuedAt \in Nat
  BY MarketIsNat, ValueIsNat
<1>3. BuyTradeBalance \in Nat
  <2>1. q.share * account.quote \in Nat
    BY <1>1, <1>2, ProductIsNat
  <2>2. b.fixed * ValuedAt \in Nat /\ account.quote * ValuedAt \in Nat
    BY <1>1, <1>2, ProductIsNat
  <2> HIDE DEF b, q
  <2>3. QED
    BY <1>1, <1>2, <2>1, <2>2 DEF BuyTradeBalance, OrNothing, Given, b, q
<1>4. SellTradeBalance \in Nat
  <2>1. b.share * account.base \in Nat
    BY <1>1, <1>2, ProductIsNat
  <2>2. QED
    BY <1>1, <1>2, <2>1 DEF SellTradeBalance
<1>5. QED
  BY <1>3, <1>4 DEF TradeBalance

-----------------------------------------------------------------------------
(***************************************************************************)
(* The invariant                                                           *)
(***************************************************************************)
LEMMA SizingStart == Init => SizingInv
<1> SUFFICES ASSUME Init PROVE SizingInv
  OBVIOUS
<1>1. message.price \in Quotes \cup {0}
  BY MessagesAreMessages DEF Init, Message
<1>2. QED
  BY <1>1 DEF Init, SizingInv, TypeOK, FirstReadingHolds, HasBalance, PlacedIsCovered, Placed

\* No step changes the message; the balance and the trade balance it held
\* against each other are only read again before the next decision.
LEMMA SizingStep == SizingInv /\ [Next]_vars => SizingInv'
<1> SUFFICES ASSUME SizingInv, [Next]_vars PROVE SizingInv'
  OBVIOUS
<1> USE DEF SizingInv, FirstReadingHolds, HasBalance, PlacedIsCovered, Placed
<1>1. CASE ReadBalance
  <2>1. Held \in Balances
    BY MarketIsNat DEF Held
  <2>2. Held' = Held
    BY <1>1 DEF ReadBalance, Held, Buying
  <2>3. QED
    BY <1>1, <2>1, <2>2 DEF ReadBalance, TypeOK
<1>2. CASE ReadTradeBalance
  <2>1. Held' = Held
    BY <1>2 DEF ReadTradeBalance, Held, Buying
  <2>2. QED
    BY <1>2, <2>1, TradeBalanceIsNat DEF ReadTradeBalance, TypeOK
<1>3. CASE ReadPrice
  <2>1. Held' = Held
    BY <1>3 DEF ReadPrice, Held, Buying
  <2>2. MarketSellPrice \in Quotes
    BY MarketIsNat DEF MarketSellPrice
  <2>3. QED
    BY <1>3, <2>1, <2>2 DEF ReadPrice, TypeOK
<1>4. CASE Decide
  <2>1. Held' = Held
    BY <1>4 DEF Decide, Held, Buying
  <2>2. BalanceCovers' <=> BalanceCovers
    BY <1>4 DEF Decide, BalanceCovers, Cost, Buying
  <2>3. QED
    BY <1>4, <2>1, <2>2 DEF Decide, TypeOK
<1>5. CASE Retry
  BY <1>5 DEF Retry, TypeOK
<1>6. CASE AccountMoves
  BY <1>6 DEF AccountMoves, Busy, TypeOK
<1>7. CASE TickerMoves
  BY <1>7 DEF TickerMoves, Busy, TypeOK
<1>8. CASE UNCHANGED vars
  BY <1>8 DEF vars, TypeOK, Held, Buying, BalanceCovers, Cost
<1>9. QED
  BY <1>1, <1>2, <1>3, <1>4, <1>5, <1>6, <1>7, <1>8 DEF Next

LEMMA SizingInvariant == Spec => []SizingInv
<1>1. QED
  BY SizingStart, SizingStep, PTL DEF Spec

-----------------------------------------------------------------------------
(***************************************************************************)
(* Theorems                                                                *)
(***************************************************************************)
(***************************************************************************)
(* Whatever is read, the decisor computes with balances and prices that    *)
(* exist, and its trade balance is never negative.                         *)
(***************************************************************************)
THEOREM SizingTypeCorrect == Spec => []TypeOK
<1>1. SizingInv => TypeOK
  BY DEF SizingInv
<1>2. QED
  BY <1>1, SizingInvariant, PTL

\* The cost that the fee is taken of is a natural number, and so is the fee.
LEMMA FeeIsNat == ASSUME TypeOK PROVE Fee * Cost \in Nat
<1>1. trade \in Nat /\ price \in Nat /\ Fee \in Nat
  BY MarketIsNat, OrderSizingAssumption DEF OrderSizingAssumption, TypeOK
<1>2. trade * price \in Nat
  BY <1>1, ProductIsNat
<1>3. Cost \in Nat
  BY <1>1, <1>2 DEF Cost
<1>4. QED
  BY <1>1, <1>3, ProductIsNat

(***************************************************************************)
(* Unless the balance has fallen below what was read first, the account    *)
(* can pay for a buy order and its fee, and holds what a sell order sells, *)
(* whatever else has moved (trader.cc:174-176, :238-240).                  *)
(***************************************************************************)
THEOREM PaidFor == Spec => []PlacedIsPaidFor
<1>1. SizingInv => PlacedIsPaidFor
  <2> SUFFICES ASSUME SizingInv, Placed, Held >= balance
               PROVE  IF Buying THEN 100 * trade + Fee * trade <= 10000 * account.quote
                                ELSE trade <= 100 * account.base
    BY DEF PlacedIsPaidFor
  <2>1. /\ trade \in Nat /\ balance \in Nat
        /\ account.quote \in Nat /\ account.base \in Nat
        /\ BalanceCovers
    BY MarketIsNat DEF SizingInv, TypeOK, PlacedIsCovered
  <2>2. CASE Buying
    <3> DEFINE fee == Fee * trade
    <3>1. balance <= account.quote
      BY <2>2 DEF Held
    <3>2. 100 * (100 * balance - trade) >= fee
      BY <2>1, <2>2 DEF BalanceCovers, Cost
    <3>3. fee \in Nat
      BY <2>1, OrderSizingAssumption, ProductIsNat DEF OrderSizingAssumption
    <3> HIDE DEF fee
    <3>4. 100 * trade + fee <= 10000 * account.quote
      BY <2>1, <3>1, <3>2, <3>3
    <3>5. QED
      BY <2>2, <3>4 DEF fee
  <2>3. CASE ~Buying
    <3> DEFINE fee == Fee * Cost
    <3>1. balance <= account.base
      BY <2>3 DEF Held
    <3>2. 10000 * (100 * balance - trade) >= fee
      BY <2>1, <2>3 DEF BalanceCovers
    <3>3. fee \in Nat
      BY FeeIsNat DEF SizingInv
    <3> HIDE DEF fee
    <3>4. trade <= 100 * account.base
      BY <2>1, <3>1, <3>2, <3>3
    <3>5. QED
      BY <2>3, <3>4
  <2>4. QED
    BY <2>2, <2>3
<1>2. QED
  BY <1>1, SizingInvariant, PTL

-----------------------------------------------------------------------------
(***************************************************************************)
(* Orders and their budgets                                                *)
(***************************************************************************)
\* A limit order keeps its price, a market order comes without one.
PriceAsAsked ==
    /\ message.type = "limit" => message.price \in Quotes /\ price = message.price
    /\ message.type # "limit" => message.type = "market" /\ message.price = 0

\* The trade balance is what would be read again, as long as nothing moves.
TradeIsCurrent ==
    at \in {"price", "decide", "placed"} /\ ~moved => trade = TradeBalance

\* So is the price, and a base budget was valued at it.
PriceIsCurrent ==
    at \in {"decide", "placed"} =>
        price \in Quotes /\ (~moved => price = ValuedAt)

PlacedWithinLimits == Placed => VolumeWithinLimits

BudgetInv ==
    /\ SizingInv
    /\ PriceAsAsked
    /\ TradeIsCurrent
    /\ PriceIsCurrent
    /\ PlacedWithinLimits

LEMMA BudgetStart == Init => BudgetInv
<1> SUFFICES ASSUME Init PROVE BudgetInv
  OBVIOUS
<1>1. /\ message.type = "limit" => message.price \in Quotes
      /\ message.type # "limit" => message.type = "market" /\ message.price = 0
  BY DEF Init, Messages, Market, Limit, OnBase, OnQuote
<1>2. QED
  BY <1>1, SizingStart DEF BudgetInv, Init, PriceAsAsked, TradeIsCurrent,
     PriceIsCurrent, PlacedWithinLimits, Placed

\* Nothing is free.
LEMMA PriceIsPositive ==
  ASSUME NEW p \in Quotes
  PROVE  p \in Nat /\ p > 0
<1>1. Quotes \subseteq Nat \ {0}
  BY OrderSizingAssumption DEF OrderSizingAssumption
<1>2. QED
  BY <1>1

\* What is read twice with nothing moving in between is the same.
LEMMA SameReading ==
  ASSUME UNCHANGED <<message, account, ticker>>
  PROVE  TradeBalance' = TradeBalance /\ ValuedAt' = ValuedAt
<1>1. ValuedAt' = ValuedAt
  BY DEF ValuedAt, MarketSellPrice
<1>2. QED
  BY <1>1 DEF TradeBalance, Buying, BuyTradeBalance, SellTradeBalance, OrNothing

LEMMA BudgetStep == BudgetInv /\ [Next]_vars => BudgetInv'
<1> SUFFICES ASSUME BudgetInv, [Next]_vars PROVE BudgetInv'
  OBVIOUS
<1>0. SizingInv'
  BY SizingStep DEF BudgetInv
<1> USE DEF BudgetInv, PriceAsAsked, TradeIsCurrent, PriceIsCurrent,
            PlacedWithinLimits, Placed
<1>1. CASE ReadBalance
  BY <1>0, <1>1 DEF ReadBalance
<1>2. CASE ReadTradeBalance
  BY <1>0, <1>2, SameReading DEF ReadTradeBalance
<1>3. CASE ReadPrice
  <2>1. MarketSellPrice \in Quotes
    BY MarketIsNat DEF SizingInv, MarketSellPrice
  <2>2. price' \in Quotes /\ price' = ValuedAt
    <3>1. CASE message.type = "limit"
      <4>1. message.price > 0
        BY <3>1, PriceIsPositive
      <4>2. QED
        BY <1>3, <3>1, <4>1 DEF ReadPrice, ValuedAt
    <3>2. CASE message.type # "limit"
      BY <1>3, <2>1, <3>2 DEF ReadPrice, ValuedAt
    <3>3. QED
      BY <3>1, <3>2
  <2>3. TradeBalance' = TradeBalance /\ ValuedAt' = ValuedAt
    BY <1>3, SameReading DEF ReadPrice
  <2>4. QED
    BY <1>0, <1>3, <2>2, <2>3 DEF ReadPrice
<1>4. CASE Decide
  <2>1. TradeBalance' = TradeBalance /\ ValuedAt' = ValuedAt
    BY <1>4, SameReading DEF Decide
  <2>2. VolumeWithinLimits' <=> VolumeWithinLimits
    BY <1>4 DEF Decide, VolumeWithinLimits, Buying
  <2>3. QED
    BY <1>0, <1>4, <2>1, <2>2 DEF Decide
<1>5. CASE Retry
  BY <1>0, <1>5 DEF Retry
<1>6. CASE AccountMoves
  BY <1>0, <1>6 DEF AccountMoves, Busy
<1>7. CASE TickerMoves
  BY <1>0, <1>7 DEF TickerMoves, Busy
<1>8. CASE UNCHANGED vars
  <2>1. TradeBalance' = TradeBalance /\ ValuedAt' = ValuedAt
    BY <1>8, SameReading DEF vars
  <2>2. QED
    BY <1>0, <1>8, <2>1 DEF vars, VolumeWithinLimits, Buying
<1>9. QED
  BY <1>1, <1>2, <1>3, <1>4, <1>5, <1>6, <1>7, <1>8 DEF Next

LEMMA BudgetInvariant == Spec => []BudgetInv
<1>1. QED
  BY BudgetStart, BudgetStep, PTL DEF Spec

\* A market with a least volume takes no order for nothing.
LEMMA NothingIsNotPlaced ==
  ASSUME MinVolume > 0, BudgetInv, Placed
  PROVE  trade > 0
<1>1. trade \in Nat /\ price \in Nat /\ price > 0 /\ MinVolume \in Nat
  BY OrderSizingAssumption, PriceIsPositive
  DEF OrderSizingAssumption, BudgetInv, SizingInv, TypeOK, PriceIsCurrent, Placed
<1>2. MinVolume * price > 0
  BY <1>1
<1>3. MinVolume * price \in Nat
  BY <1>1, ProductIsNat
<1>4. VolumeWithinLimits
  BY DEF BudgetInv, PlacedWithinLimits
<1>5. MinVolume * price <= trade \/ 100 * MinVolume <= trade
  BY <1>4 DEF VolumeWithinLimits
<1> DEFINE least == MinVolume * price
<1> HIDE DEF least
<1>6. QED
  BY <1>1, <1>2, <1>3, <1>5 DEF least

(***************************************************************************)
(* In a market with a least volume, while nothing moves, the order placed  *)
(* is the one trader.cc:43-72 and :87-99 make of its budget, and none is   *)
(* for nothing.  That is what the budget asks for in all cases but one: a  *)
(* buy on a percentage of base is for the whole balance times the price    *)
(* (trader.cc:70).                                                         *)
(***************************************************************************)
THEOREM AsBudgeted ==
  ASSUME MinVolume > 0
  PROVE  Spec => []PlacedAsBudgeted
<1> DEFINE b == message.budget.base
           q == message.budget.quote
<1>1. BudgetInv => PlacedAsBudgeted
  <2> SUFFICES ASSUME BudgetInv, Placed, ~moved
               PROVE  /\ Given(b) \/ Given(q)
                      /\ Buying /\ q.fixed > 0 => trade = 100 * q.fixed
                      /\ Buying /\ q.fixed = 0 /\ q.share > 0 =>
                             trade = q.share * account.quote
                      /\ Buying /\ ~Given(q) =>
                             trade = IF b.fixed > 0 THEN b.fixed * price
                                                    ELSE account.quote * price
                      /\ ~Buying => trade = IF b.share > 0 THEN b.share * account.base
                                                           ELSE 100 * b.fixed
    BY DEF PlacedAsBudgeted
  <2>1. trade > 0 /\ trade = TradeBalance /\ price = ValuedAt
    BY NothingIsNotPlaced DEF BudgetInv, TradeIsCurrent, PriceIsCurrent, Placed
  <2>2. /\ b.fixed \in Nat /\ b.share \in Nat
        /\ q.fixed \in Nat /\ q.share \in Nat
    BY MessageFields, QuantityIsNat DEF BudgetInv, SizingInv
  <2> HIDE DEF b, q
  <2>3. CASE Buying
    <3>1. trade = IF q.fixed > 0 THEN OrNothing(100 * q.fixed, 100 * account.quote)
                  ELSE IF q.share > 0 THEN q.share * account.quote
                  ELSE IF b.fixed > 0
                       THEN OrNothing(b.fixed * price, 100 * account.quote)
                  ELSE IF b.share > 0 THEN account.quote * price
                  ELSE 0
      BY <2>1, <2>3 DEF TradeBalance, BuyTradeBalance, b, q
    <3>2. QED
      BY <2>1, <2>2, <2>3, <3>1 DEF OrNothing, Given
  <2>4. CASE ~Buying
    <3>1. trade = IF b.share > 0 THEN b.share * account.base
                  ELSE IF b.fixed > 0 /\ account.base - b.fixed > 0
                       THEN 100 * b.fixed
                  ELSE 0
      BY <2>1, <2>4 DEF TradeBalance, SellTradeBalance, b
    <3>2. QED
      BY <2>1, <2>2, <2>4, <3>1 DEF Given
  <2>5. QED
    BY <2>3, <2>4
<1>2. QED
  BY <1>1, BudgetInvariant, PTL

(***************************************************************************)
(* While nothing moves, a sell order that the market's limits allow, for a *)
(* volume held with Fee% of it to spare, is refused only where a unit of   *)
(* base costs more than one of quote (trader.cc:240): elsewhere the fee    *)
(* that is taken from the wrong currency is at most the right one.         *)
(***************************************************************************)
THEOREM SellableIfCheap == Spec => []SellableWhereBaseIsCheap
<1> DEFINE RefusedForCause == at = "refused" => ~(VolumeWithinLimits /\ BalanceCovers)
           Inv == SizingInv /\ RefusedForCause
<1>1. Init => Inv
  BY SizingStart DEF Init
<1>2. Inv /\ [Next]_vars => Inv'
  <2> SUFFICES ASSUME SizingInv, RefusedForCause, [Next]_vars, at' = "refused"
               PROVE  ~(VolumeWithinLimits /\ BalanceCovers)'
    BY SizingStep
  <2>1. UNCHANGED <<message, balance, trade, price>>
    BY DEF Next, ReadBalance, ReadTradeBalance, ReadPrice, Decide, Retry, Busy,
           AccountMoves, TickerMoves, vars
  <2>2. ~(VolumeWithinLimits /\ BalanceCovers)
    BY DEF Next, ReadBalance, ReadTradeBalance, ReadPrice, Decide, Retry, Busy,
           AccountMoves, TickerMoves, vars
  <2>3. QED
    BY <2>1, <2>2 DEF VolumeWithinLimits, BalanceCovers, Cost, Buying
<1>3. Inv => SellableWhereBaseIsCheap
  <2> SUFFICES ASSUME SizingInv, at = "refused", ~moved, ~Buying, price <= 100,
                      VolumeWithinLimits, ~BalanceCovers
               PROVE  ~((100 + Fee) * trade <= 10000 * account.base)
    BY DEF SellableWhereBaseIsCheap, SellableIsPlaced
  <2>1. /\ trade \in Nat /\ price \in Nat /\ balance \in Nat /\ Fee \in Nat
        /\ account.base \in Nat /\ balance = account.base
    BY MarketIsNat, OrderSizingAssumption
       DEF OrderSizingAssumption, SizingInv, TypeOK, FirstReadingHolds, HasBalance, Held
  <2> DEFINE fee == Fee * trade
  <2>2. fee \in Nat
    BY <2>1, ProductIsNat
  <2>3. Fee * Cost <= 100 * fee
    <3>1. \A m, p \in Nat : p <= 100 => m * p <= 100 * m
      OBVIOUS
    <3>2. Fee * (trade * price) = fee * price
      BY <2>1
    <3> HIDE DEF fee
    <3>3. fee * price <= 100 * fee
      BY <2>1, <2>2, <3>1
    <3>4. QED
      BY <3>2, <3>3 DEF Cost
  <2>4. 10000 * (100 * balance - trade) < Fee * Cost
    BY <2>1, FeeIsNat DEF BalanceCovers, SizingInv
  <2>5. (100 + Fee) * trade = 100 * trade + fee
    BY <2>1
  <2> DEFINE taken == Fee * Cost
  <2>6. taken \in Nat
    BY FeeIsNat DEF SizingInv
  <2> HIDE DEF fee, taken
  <2>7. 100 * trade + fee > 10000 * account.base
    BY <2>1, <2>2, <2>3, <2>4, <2>6 DEF taken
  <2>8. QED
    BY <2>1, <2>2, <2>5, <2>7
<1> HIDE DEF Inv
<1>4. QED
  BY <1>1, <1>2, <1>3, PTL DEF Spec
=============================================================================
