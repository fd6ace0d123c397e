----------------------------- MODULE DeskProofs -----------------------------
(***************************************************************************)
(* Trading implements OrderDesk, for any number of strategies, ids, prices *)
(* and bounds: every step of the threads is a step of the desk, as the     *)
(* refinement mapping Requests, Answers sees it, or no step at all.        *)
(***************************************************************************)
EXTENDS TradingProofs

\* What is worked on is what was asked for: nothing but a market price differs.
HandMatches ==
    at \in {"work", "place"} =>
        /\ order.action = message.order.action
        /\ order.type = message.order.type
        /\ order.txid = message.order.txid
        /\ order.type = "limit" => order.price = message.order.price
        /\ at = "place" /\ order.type = "market" => order.price \in Prices

LEMMA InitMatches == Init => HandMatches
  BY DEF Init, TraderInit, HandMatches

LEMMA NextMatches == Types /\ HandMatches /\ [Next]_vars => HandMatches'
<1> SUFFICES ASSUME Types, HandMatches, [Next]_vars
             PROVE  HandMatches'
  OBVIOUS
<1>0. order \in Order /\ message \in Message
  BY DEF Types, TraderTypeOK
<1>1. CASE TakeMessage
  BY <1>1 DEF TakeMessage, HandMatches
<1>2. CASE SizeOrder
  BY <1>0, <1>2 DEF SizeOrder, HandMatches, Order
<1>3. CASE \E x \in FreshIds : Place(x) \/ PlaceLost(x)
  BY <1>3 DEF Place, PlaceLost, NoRetry, HandMatches
<1>4. CASE PlaceFails
  BY <1>4 DEF PlaceFails, HandMatches
<1>5. CASE Reply
  BY <1>5 DEF Reply, HandMatches
<1>6. CASE UNCHANGED traderVars
  BY <1>6 DEF traderVars, HandMatches
<1>7. CASE Die
  BY <1>7 DEF Die, HandMatches
<1> QED
  BY <1>1, <1>2, <1>3, <1>4, <1>5, <1>6, <1>7
  DEF Next, Decisor, Strategy, PlainBuy, MarketCloses, vars

-----------------------------------------------------------------------------
(***************************************************************************)
(* Sequences                                                               *)
(***************************************************************************)
LEMMA InFront ==
    ASSUME NEW S, NEW m \in S, NEW c \in Seq(S)
    PROVE  /\ <<m>> \o c # <<>>
           /\ Head(<<m>> \o c) = m
           /\ Tail(<<m>> \o c) = c
           /\ \A n \in S : <<m>> \o Append(c, n) = Append(<<m>> \o c, n)
  OBVIOUS

LEMMA HeadInFront ==
    ASSUME NEW S, NEW c \in Seq(S), c # <<>>
    PROVE  <<Head(c)>> \o Tail(c) = c
  OBVIOUS

LEMMA TailOfLonger ==
    ASSUME NEW S, NEW c \in Seq(S), c # <<>>, NEW o \in S
    PROVE  /\ Append(c, o) # <<>>
           /\ Tail(Append(c, o)) = Append(Tail(c), o)
  OBVIOUS

-----------------------------------------------------------------------------
(***************************************************************************)
(* The mapping, place by place                                             *)
(***************************************************************************)
LEMMA InHandRequests ==
    ASSUME Types, at \in {"work", "place"}
    PROVE  /\ Requests # <<>>
           /\ Head(Requests) = message
           /\ Tail(Requests) = chan
           /\ Answers = feedback
<1>1. message \in Message /\ chan \in Seq(Message)
  BY DEF Types, TraderTypeOK, MailTypeOK
<1>2. Requests = <<message>> \o chan
  BY DEF Requests
<1>3. Answers = feedback
  BY DEF Answers, Types, MailTypeOK
<1> QED
  BY <1>1, <1>2, <1>3, InFront

\* What the desk tells is what the decisor holds when it goes to reply.
LEMMA SettleByReply ==
    ASSUME Types, at \in {"work", "place"}, at' = "reply",
           UNCHANGED <<chan, feedback, message>>
    PROVE  Desk!Settle(order')
<1>1. /\ message.feedback \in Strategies \cup {NoFeedback}
      /\ feedback \in [Strategies -> Seq(Order)]
  BY DEF Types, TraderTypeOK, MailTypeOK, Message
<1>2. Requests' = Tail(Requests)
  BY InHandRequests DEF Requests
<1>3. Answers' = [s \in Strategies |->
                     IF message.feedback = s THEN Append(feedback[s], order')
                                             ELSE feedback[s]]
  BY DEF Answers
<1>4. CASE message.feedback = NoFeedback
  <2>1. Answers' = Answers
    BY <1>1, <1>3, <1>4, InHandRequests, MessagesAssumption
  <2> QED
    BY <1>2, <1>4, <2>1, InHandRequests DEF Desk!Settle
<1>5. CASE message.feedback # NoFeedback
  <2>1. Answers' = [Answers EXCEPT ![message.feedback] = Append(@, order')]
    BY <1>1, <1>3, <1>5, InHandRequests
  <2> QED
    BY <1>2, <1>5, <2>1, InHandRequests DEF Desk!Settle, Desk!PutFeedback
<1> QED
  BY <1>4, <1>5

\* A message put by a strategy is a request put to the desk.
LEMMA PutIsRequest ==
    ASSUME Types, NEW owner \in Strategies \cup {NoFeedback}, NEW o \in Order,
           PutMessage(owner, o), UNCHANGED <<feedback, traderVars>>
    PROVE  Desk!PutMessage(owner, o) /\ Answers' = Answers
<1> DEFINE m == [feedback |-> owner, order |-> o]
<1>1. m \in Message /\ message \in Message /\ chan \in Seq(Message)
  BY DEF Types, TraderTypeOK, MailTypeOK, Message
<1>2. chan' = Append(chan, m) /\ at' = at /\ message' = message
        /\ order' = order /\ feedback' = feedback
  BY DEF PutMessage, traderVars
<1>3. Answers' = Answers
  BY <1>2 DEF Answers
<1> HIDE DEF m
<1>4. Requests' = Append(Requests, m)
  BY <1>1, <1>2, InFront DEF Requests
<1> QED
  BY <1>3, <1>4 DEF Desk!PutMessage, m

-----------------------------------------------------------------------------
(***************************************************************************)
(* The steps                                                               *)
(***************************************************************************)
LEMMA SizingIsDeskStep ==
    ASSUME Types, HandMatches, SizeOrder
    PROVE  Desk!Refuse \/ UNCHANGED Desk!deskVars
<1>1. order \in Order /\ message \in Message /\ message.order \in Order
  BY DEF Types, TraderTypeOK, Message
<1>2. CASE at' = "place"
  <2>1. Requests' = Requests /\ Answers' = Answers
    BY <1>2 DEF SizeOrder, mailVars, Requests, Answers
  <2> QED
    BY <2>1 DEF SizeOrder, Desk!deskVars, Desk!mailVars
<1>3. CASE at' = "reply"
  <2>1. Desk!Settle(order')
    BY <1>3, SettleByReply DEF SizeOrder, mailVars
  <2>2. Head(Requests) = message /\ Requests # <<>>
    BY InHandRequests DEF SizeOrder
  <2>3. PICK p \in Desk!PossiblePrices : order' = Desk!Priced(p)
    <3>1. CASE order.type = "market"
      <4>1. PICK p \in Prices : order' = [order EXCEPT !.price = p]
        BY <3>1 DEF SizeOrder
      <4>2. [order EXCEPT !.price = p] = [message.order EXCEPT !.price = p]
        BY <1>1 DEF HandMatches, SizeOrder, Order
      <4> QED
        BY <2>2, <3>1, <4>1, <4>2 DEF Desk!PossiblePrices, Desk!Priced, HandMatches, SizeOrder
    <3>2. CASE order.type # "market"
      <4>1. order' = order /\ order.type = "limit"
        BY <1>1, <3>2 DEF SizeOrder, Order
      <4>2. order = [message.order EXCEPT !.price = message.order.price]
        BY <1>1, <4>1 DEF HandMatches, SizeOrder, Order
      <4> QED
        BY <2>2, <4>1, <4>2 DEF Desk!PossiblePrices, Desk!Priced, HandMatches, SizeOrder
    <3> QED
      BY <3>1, <3>2
  <2> QED
    BY <2>1, <2>2, <2>3 DEF Desk!Refuse, SizeOrder
<1> QED
  BY <1>2, <1>3 DEF SizeOrder

\* An id fresh to the whole process is unused at the desk.
LEMMA FreshIsUnused ==
    ASSUME Types, at \in {"work", "place"}, NEW x \in FreshIds
    PROVE  x \in TxIds /\ Desk!Unused(x)
<1>1. x \in TxIds /\ x \notin DOMAIN book
  BY DEF FreshIds, KnownIds
<1>2. \A s \in Strategies : \A i \in DOMAIN feedback[s] : feedback[s][i].txid # x
  BY DEF FreshIds, KnownIds
<1> QED
  BY <1>1, <1>2, InHandRequests DEF Desk!Unused, Desk!IsOpen

LEMMA PlacingIsDeskStep ==
    ASSUME Types, HandMatches, NEW x \in FreshIds, Place(x)
    PROVE  Desk!Grant
<1>1. order \in Order /\ message \in Message /\ message.order \in Order
  BY DEF Types, TraderTypeOK, Message
<1>2. Head(Requests) = message /\ Requests # <<>>
  BY InHandRequests DEF Place
<1>3. Desk!Settle(order')
  BY SettleByReply DEF Place, NoRetry, mailVars
<1>4. x \in TxIds /\ Desk!Unused(x)
  BY FreshIsUnused DEF Place
<1>5. order.price \in Desk!PossiblePrices
  BY <1>1, <1>2 DEF Desk!PossiblePrices, HandMatches, Place, Order
<1>6. order' = [Desk!Priced(order.price) EXCEPT !.txid = x]
  <2>1. order = [message.order EXCEPT !.price = order.price]
    BY <1>1 DEF HandMatches, Place, Order
  <2> QED
    BY <1>2, <2>1 DEF Desk!Priced, Place
<1>7. Desk!Accept(x, Head(Requests).feedback, Head(Requests).order.action, TRUE)
  BY <1>2 DEF Desk!Accept, Accept, Place, HandMatches
<1> QED
  BY <1>2, <1>3, <1>4, <1>5, <1>6, <1>7 DEF Desk!Grant, Place

LEMMA LosingIsDeskStep ==
    ASSUME Types, HandMatches, NEW x \in FreshIds, PlaceLost(x)
    PROVE  Desk!Mislay
<1>1. Head(Requests) = message /\ Requests # <<>>
  BY InHandRequests DEF PlaceLost
<1>2. x \in TxIds /\ Desk!Unused(x)
  BY FreshIsUnused DEF PlaceLost
<1>3. Requests' = Requests /\ Answers' = Answers
  BY DEF PlaceLost, mailVars, Requests, Answers
<1>4. Desk!Accept(x, Head(Requests).feedback, Head(Requests).order.action, FALSE)
  BY <1>1 DEF Desk!Accept, Accept, PlaceLost, HandMatches
<1> QED
  BY <1>1, <1>2, <1>3, <1>4 DEF Desk!Mislay, Desk!mailVars, PlaceLost

\* Taking a message, failing to place it and replying are the desk's own affair.
LEMMA OtherDecisorIsDeskStutter ==
    ASSUME Types, TakeMessage \/ PlaceFails \/ Reply
    PROVE  UNCHANGED Desk!deskVars
<1>1. CASE TakeMessage
  <2>1. chan \in Seq(Message)
    BY DEF Types, MailTypeOK
  <2>2. Requests' = <<Head(chan)>> \o Tail(chan) /\ Requests = chan
    BY <1>1 DEF TakeMessage, Requests
  <2>3. Requests' = Requests
    BY <1>1, <2>1, <2>2, HeadInFront DEF TakeMessage
  <2>4. Answers' = Answers
    BY <1>1 DEF TakeMessage, Answers
  <2> QED
    BY <1>1, <2>3, <2>4 DEF TakeMessage, Desk!deskVars, Desk!mailVars
<1>2. CASE PlaceFails
  BY <1>2 DEF PlaceFails, mailVars, Requests, Answers, Desk!deskVars, Desk!mailVars
<1>3. CASE Reply
  <2>1. /\ feedback \in [Strategies -> Seq(Order)]
        /\ message.feedback \in Strategies \cup {NoFeedback}
    BY DEF Types, TraderTypeOK, MailTypeOK, Message
  <2>2. Requests' = Requests
    BY <1>3 DEF Reply, Requests
  <2>3. Answers = [s \in Strategies |->
                      IF message.feedback = s THEN Append(feedback[s], order)
                                              ELSE feedback[s]]
    BY <1>3 DEF Reply, Answers
  <2>4. Answers' = [s \in Strategies |-> feedback'[s]]
    BY <1>3 DEF Reply, Answers
  <2>5. \A s \in Strategies :
            feedback'[s] = IF message.feedback = s THEN Append(feedback[s], order)
                                                   ELSE feedback[s]
    BY <1>3, <2>1, MessagesAssumption DEF Reply, Answer, PutFeedback
  <2>6. Answers' = Answers
    BY <2>3, <2>4, <2>5
  <2> QED
    BY <1>3, <2>2, <2>6 DEF Reply, Desk!deskVars, Desk!mailVars
<1> QED
  BY <1>1, <1>2, <1>3

LEMMA CollectingIsDeskStep ==
    ASSUME Types, NEW t \in Threads, GetFeedback(t), UNCHANGED traderVars
    PROVE  Desk!Collect
<1> DEFINE s == t[1]
<1>1. /\ s \in Strategies /\ feedback[s] \in Seq(Order) /\ feedback[s] # <<>>
      /\ feedback \in [Strategies -> Seq(Order)]
      /\ order \in Order
  BY DEF Threads, Types, MailTypeOK, TraderTypeOK, GetFeedback, Refused
<1>2. feedback' = [feedback EXCEPT ![s] = Tail(@)]
        /\ at' = at /\ message' = message /\ order' = order /\ chan' = chan
  BY DEF GetFeedback, Refused, PopFeedback, traderVars
<1>3. Requests' = Requests
  BY <1>2 DEF Requests
<1>4. Answers[s] # <<>> /\ Answers'[s] = Tail(Answers[s])
  BY <1>1, <1>2, TailOfLonger DEF Answers
<1>5. ASSUME NEW r \in Strategies, r # s
      PROVE  Answers'[r] = Answers[r]
  BY <1>1, <1>2, <1>5 DEF Answers
<1>6. Answers' = [Answers EXCEPT ![s] = Tail(@)]
  <2>1. Answers' = [r \in Strategies |-> Answers'[r]]
          /\ Answers = [r \in Strategies |-> Answers[r]]
    BY DEF Answers
  <2> HIDE DEF s
  <2> QED
    BY <1>1, <1>4, <1>5, <2>1
<1> QED
  BY <1>1, <1>3, <1>4, <1>6 DEF Desk!Collect, Desk!PopFeedback, GetFeedback, Refused

LEMMA SignalIsDeskStep ==
    ASSUME Types, NEW s \in Strategies, BuySignal(s) \/ SellSignal(s),
           UNCHANGED traderVars
    PROVE  Desk!Request
<1>1. PICK side \in {"buy", "sell"} :
          \/ PutMessage(s, NewOrder(side, "market", 0))
          \/ \E p \in Prices : PutMessage(s, NewOrder(side, "limit", p))
  BY DEF BuySignal, SellSignal
<1>2. UNCHANGED <<feedback, book, life>>
  BY DEF BuySignal, SellSignal
<1>3. CASE PutMessage(s, NewOrder(side, "market", 0))
  <2>1. NewOrder(side, "market", 0) \in Order
    BY NewOrderType
  <2>2. Desk!PutMessage(s, NewOrder(side, "market", 0)) /\ Answers' = Answers
    BY <1>2, <1>3, <2>1, PutIsRequest
  <2> QED
    BY <1>2, <2>2 DEF Desk!Request, Desk!Owners, Desk!NewOrder, NewOrder
<1>4. ASSUME NEW p \in Prices, PutMessage(s, NewOrder(side, "limit", p))
      PROVE  Desk!Request
  <2>1. NewOrder(side, "limit", p) \in Order
    BY NewOrderType
  <2>2. Desk!PutMessage(s, NewOrder(side, "limit", p)) /\ Answers' = Answers
    BY <1>2, <1>4, <2>1, PutIsRequest
  <2> QED
    BY <1>2, <2>2 DEF Desk!Request, Desk!Owners, Desk!NewOrder, NewOrder
<1> QED
  BY <1>1, <1>3, <1>4

LEMMA PlainBuyIsDeskStep ==
    ASSUME Types, PlainBuy
    PROVE  Desk!Request
<1>1. UNCHANGED <<feedback, book, life, traderVars>>
  BY DEF PlainBuy
<1>2. CASE PutMessage(NoFeedback, NewOrder("buy", "market", 0))
  <2>1. NewOrder("buy", "market", 0) \in Order
    BY NewOrderType
  <2>2. Desk!PutMessage(NoFeedback, NewOrder("buy", "market", 0)) /\ Answers' = Answers
    BY <1>1, <1>2, <2>1, PutIsRequest
  <2> QED
    BY <1>1, <2>2 DEF Desk!Request, Desk!Owners, Desk!NewOrder, NewOrder
<1>3. ASSUME NEW p \in Prices, PutMessage(NoFeedback, NewOrder("buy", "limit", p))
      PROVE  Desk!Request
  <2>1. NewOrder("buy", "limit", p) \in Order
    BY NewOrderType
  <2>2. Desk!PutMessage(NoFeedback, NewOrder("buy", "limit", p)) /\ Answers' = Answers
    BY <1>1, <1>3, <2>1, PutIsRequest
  <2> QED
    BY <1>1, <2>2 DEF Desk!Request, Desk!Owners, Desk!NewOrder, NewOrder
<1> QED
  BY <1>2, <1>3 DEF PlainBuy

\* What the strategies do with an order, and resting, the desk does not see.
LEMMA OtherStrategyIsDeskStutter ==
    ASSUME NEW t \in Threads, UNCHANGED traderVars,
           Fulfilled(t) \/ SetBought(t) \/ ReadPrice(t) \/ SetPrice(t) \/ WakeUp(t)
    PROVE  UNCHANGED Desk!deskVars
<1>1. UNCHANGED <<mailVars, book, life, traderVars>>
  BY DEF Fulfilled, SetBought, ReadPrice, SetPrice, WakeUp, Access
<1> QED
  BY <1>1 DEF mailVars, traderVars, Requests, Answers, Desk!deskVars, Desk!mailVars

LEMMA NextIsDeskStep ==
    ASSUME Types, HandMatches, [Next]_vars
    PROVE  [Desk!Next]_(Desk!deskVars)
<1>1. CASE Decisor
  <2>1. CASE SizeOrder
    BY <2>1, SizingIsDeskStep DEF Desk!Next
  <2>2. CASE \E x \in FreshIds : Place(x) \/ PlaceLost(x)
    BY <2>2, PlacingIsDeskStep, LosingIsDeskStep DEF Desk!Next
  <2>3. CASE TakeMessage \/ PlaceFails \/ Reply
    BY <2>3, OtherDecisorIsDeskStutter
  <2> QED
    BY <1>1, <2>1, <2>2, <2>3 DEF Decisor
<1>2. ASSUME NEW t \in Threads, Strategy(t)
      PROVE  [Desk!Next]_(Desk!deskVars)
  <2>1. UNCHANGED traderVars /\ t[1] \in Strategies
    BY <1>2 DEF Strategy, Threads
  <2>2. CASE BuySignal(t[1]) \/ SellSignal(t[1])
    BY <2>1, <2>2, SignalIsDeskStep DEF Desk!Next
  <2>3. CASE GetFeedback(t)
    BY <2>1, <2>3, CollectingIsDeskStep DEF Desk!Next
  <2>4. CASE Fulfilled(t) \/ SetBought(t) \/ ReadPrice(t) \/ SetPrice(t) \/ WakeUp(t)
    BY <2>1, <2>4, OtherStrategyIsDeskStutter
  <2> QED
    BY <1>2, <2>2, <2>3, <2>4 DEF Strategy
<1>3. CASE PlainBuy
  BY <1>3, PlainBuyIsDeskStep DEF Desk!Next
<1>4. CASE MarketCloses
  <2>1. PICK x \in DOMAIN book : CloseOrder(x)
    BY <1>4 DEF MarketCloses
  <2>2. x \in TxIds
    BY DEF Types, ExchangeTypeOK
  <2>3. UNCHANGED <<mailVars, traderVars, life>>
    BY <1>4 DEF MarketCloses
  <2>4. Desk!Close
    BY <2>1, <2>2, <2>3 DEF CloseOrder, IsOpen, mailVars, traderVars, Requests, Answers,
       Desk!Close, Desk!CloseOrder, Desk!IsOpen, Desk!mailVars
  <2> QED
    BY <2>4 DEF Desk!Next
<1>5. CASE Die
  <2>1. Desk!Crash
    BY <1>5 DEF Die, Requests, Answers, Desk!Crash
  <2> QED
    BY <2>1 DEF Desk!Next
<1>6. CASE UNCHANGED vars
  BY <1>6 DEF vars, mailVars, traderVars, Requests, Answers, Desk!deskVars, Desk!mailVars
<1> QED
  BY <1>1, <1>2, <1>3, <1>4, <1>5, <1>6 DEF Next

(***************************************************************************)
(* The threads of Trading, with their retries, lost answers and deaths,    *)
(* implement the desk (trader.cc:129-298, smallchanges.cc:22-319): the     *)
(* safety half of ImplementsOrderDesk.                                     *)
(***************************************************************************)
THEOREM TradingRefinesDesk == Spec => KeepsOrderDesk
<1>1. Init => HandMatches
  BY InitMatches
<1>2. Types /\ HandMatches /\ [Next]_vars => HandMatches'
  BY NextMatches
<1>3. Init => Desk!Init
  BY DEF Init, MailInit, ExchangeInit, TraderInit, Requests, Answers,
     Desk!Init, Desk!MailInit, Desk!ExchangeInit
<1>4. Types /\ HandMatches /\ [Next]_vars => [Desk!Next]_(Desk!deskVars)
  BY NextIsDeskStep
<1> QED
  BY <1>1, <1>2, <1>3, <1>4, TypesCorrect, PTL DEF Spec, KeepsOrderDesk
=============================================================================
