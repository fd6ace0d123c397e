---------------------------- MODULE TradingProofs ----------------------------
(***************************************************************************)
(* Theorems about the trading half of openatd (module Trading), for any    *)
(* number of strategies, ids, prices, lost answers, lives of the process.  *)
(***************************************************************************)
EXTENDS Trading, FiniteSetTheorems, TLAPS

(***************************************************************************)
(* Type correctness                                                        *)
(***************************************************************************)

LEMMA NewOrderType ==
    ASSUME NEW action \in {"buy", "sell"}, NEW type \in {"limit", "market"},
           NEW p \in Prices \cup {0}
    PROVE  NewOrder(action, type, p) \in Order
BY DEF NewOrder, Order

LEMMA NoMessageType == NoOrder \in Order /\ NoMessage \in Message
BY NewOrderType DEF NoOrder, NoMessage, Message

\* What the senders put is a message, and the channel stays one of messages.
LEMMA PutMessageType ==
    ASSUME MailTypeOK, NEW owner \in Strategies \cup {NoFeedback}, NEW o \in Order,
           PutMessage(owner, o), UNCHANGED feedback
    PROVE  MailTypeOK'
<1>1. [feedback |-> owner, order |-> o] \in Message
  BY DEF Message
<1>2. chan' \in Seq(Message)
  BY <1>1 DEF PutMessage, MailTypeOK
<1> QED
  BY <1>2 DEF MailTypeOK

\* A feedback channel stays one of orders when an order is put to it.
LEMMA PutFeedbackType ==
    ASSUME MailTypeOK, NEW s \in Strategies, NEW o \in Order,
           PutFeedback(s, o), UNCHANGED chan
    PROVE  MailTypeOK'
<1>1. Append(feedback[s], o) \in Seq(Order)
  BY DEF MailTypeOK
<1> QED
  BY <1>1 DEF PutFeedback, MailTypeOK

\* The market accepts an order that the model can have, and stays well-formed.
LEMMA AcceptType ==
    ASSUME ExchangeTypeOK, NEW x \in TxIds,
           NEW owner \in Strategies \cup {NoFeedback},
           NEW action \in {"buy", "sell"}, NEW acked \in BOOLEAN,
           Accept(x, owner, action, acked), UNCHANGED life
    PROVE  ExchangeTypeOK'
<1> DEFINE new == [owner |-> owner, action |-> action, acked |-> acked, life |-> life]
<1>1. new \in OpenOrder
  BY DEF OpenOrder, ExchangeTypeOK
<1>2. DOMAIN book' = DOMAIN book \cup {x}
  BY DEF Accept
<1>3. ASSUME NEW y \in DOMAIN book'
      PROVE  book'[y] = IF y = x THEN new ELSE book[y]
  BY <1>2, <1>3 DEF Accept
<1> HIDE DEF new
<1> QED
  BY <1>1, <1>2, <1>3 DEF ExchangeTypeOK

LEMMA TakeMessageType == Types /\ TakeMessage /\ UNCHANGED smallChangesVars => Types'
<1> SUFFICES ASSUME Types, TakeMessage, UNCHANGED smallChangesVars
             PROVE  Types'
  OBVIOUS
<1> USE DEF Types
<1>1. Head(chan) \in Message /\ Tail(chan) \in Seq(Message)
  BY DEF TakeMessage, MailTypeOK
<1>2. MailTypeOK'
  BY <1>1 DEF TakeMessage, MailTypeOK
<1>3. ExchangeTypeOK'
  BY DEF TakeMessage, ExchangeTypeOK, OpenOrder
<1>4. Head(chan).order \in Order
  BY <1>1 DEF Message
<1>5. TraderTypeOK'
  BY <1>1, <1>4 DEF TakeMessage, TraderTypeOK
<1>6. SmallChangesTypeOK'
  BY DEF smallChangesVars, SmallChangesTypeOK
<1> QED
  BY <1>2, <1>3, <1>5, <1>6

LEMMA SizeOrderType == Types /\ SizeOrder /\ UNCHANGED smallChangesVars => Types'
<1> SUFFICES ASSUME Types, SizeOrder, UNCHANGED smallChangesVars
             PROVE  Types'
  OBVIOUS
<1> USE DEF Types
<1>1. MailTypeOK' /\ ExchangeTypeOK' /\ SmallChangesTypeOK'
  BY DEF SizeOrder, mailVars, MailTypeOK, ExchangeTypeOK, OpenOrder,
         smallChangesVars, SmallChangesTypeOK
<1>2. order \in Order
  BY DEF TraderTypeOK
<1>3. \A p \in Prices : [order EXCEPT !.price = p] \in Order
  BY <1>2 DEF Order
<1>4. order' \in Order
  BY <1>2, <1>3 DEF SizeOrder
<1>5. TraderTypeOK'
  BY <1>4 DEF SizeOrder, TraderTypeOK
<1> QED
  BY <1>1, <1>5

LEMMA PlaceType ==
    ASSUME Types, NEW x \in FreshIds, Place(x) \/ PlaceLost(x),
           UNCHANGED smallChangesVars
    PROVE  Types'
<1> USE DEF Types
<1>1. x \in TxIds
  BY DEF FreshIds
<1>2. /\ message.feedback \in Strategies \cup {NoFeedback}
      /\ order \in Order
      /\ order.action \in {"buy", "sell"}
  BY DEF TraderTypeOK, Message, Order
<1>3. ExchangeTypeOK'
  BY <1>1, <1>2, AcceptType DEF Place, PlaceLost
<1>4. [order EXCEPT !.txid = x] \in Order
  BY <1>1, <1>2 DEF Order
<1>5. TraderTypeOK'
  BY <1>1, <1>2, <1>4 DEF Place, PlaceLost, NoRetry, TraderTypeOK
<1>6. MailTypeOK' /\ SmallChangesTypeOK'
  BY DEF Place, PlaceLost, mailVars, MailTypeOK, smallChangesVars, SmallChangesTypeOK
<1> QED
  BY <1>3, <1>5, <1>6

LEMMA PlaceFailsType == Types /\ PlaceFails /\ UNCHANGED smallChangesVars => Types'
BY DEF Types, PlaceFails, mailVars, MailTypeOK, ExchangeTypeOK, OpenOrder,
       TraderTypeOK, smallChangesVars, SmallChangesTypeOK

LEMMA ReplyType == Types /\ Reply /\ UNCHANGED smallChangesVars => Types'
<1> SUFFICES ASSUME Types, Reply, UNCHANGED smallChangesVars
             PROVE  Types'
  OBVIOUS
<1> USE DEF Types
<1>1. /\ message.feedback \in Strategies \cup {NoFeedback}
      /\ order \in Order
  BY DEF TraderTypeOK, Message
<1>2. MailTypeOK'
  <2>1. CASE message.feedback # NoFeedback
    BY <1>1, <2>1, PutFeedbackType DEF Reply, Answer
  <2>2. CASE message.feedback = NoFeedback
    BY <2>2 DEF Reply, Answer, MailTypeOK
  <2> QED
    BY <2>1, <2>2
<1>3. TraderTypeOK'
  BY NoMessageType DEF Reply, TraderTypeOK
<1>4. ExchangeTypeOK' /\ SmallChangesTypeOK'
  BY DEF Reply, ExchangeTypeOK, OpenOrder, smallChangesVars, SmallChangesTypeOK
<1> QED
  BY <1>2, <1>3, <1>4

LEMMA SignalType ==
    ASSUME Types, NEW s \in Strategies, BuySignal(s) \/ SellSignal(s),
           UNCHANGED traderVars
    PROVE  Types'
<1> USE DEF Types
<1>1. MailTypeOK'
  <2>1. CASE BuySignal(s)
    BY <2>1, NewOrderType, PutMessageType DEF BuySignal
  <2>2. CASE SellSignal(s)
    BY <2>2, NewOrderType, PutMessageType DEF SellSignal
  <2> QED
    BY <2>1, <2>2
<1>2. ExchangeTypeOK' /\ TraderTypeOK'
  BY DEF BuySignal, SellSignal, ExchangeTypeOK, OpenOrder, traderVars, TraderTypeOK
<1>3. pc' \in [Threads -> Places]
  BY DEF BuySignal, SellSignal, Goto, SmallChangesTypeOK, Places
<1>4. takeProfit' \in [Strategies -> BOOLEAN]
  BY DEF BuySignal, SellSignal, SmallChangesTypeOK
<1>5. SmallChangesTypeOK'
  BY <1>3, <1>4 DEF BuySignal, SellSignal, SmallChangesTypeOK
<1> QED
  BY <1>1, <1>2, <1>5

LEMMA GetFeedbackType ==
    ASSUME Types, NEW t \in Threads, GetFeedback(t), UNCHANGED traderVars
    PROVE  Types'
<1> USE DEF Types
<1>1. t[1] \in Strategies
  BY DEF Threads
<1>2. /\ Head(feedback[t[1]]) \in Order
      /\ Tail(feedback[t[1]]) \in Seq(Order)
  BY <1>1 DEF GetFeedback, Refused, MailTypeOK
<1>3. MailTypeOK'
  BY <1>1, <1>2 DEF GetFeedback, Refused, PopFeedback, MailTypeOK
<1>4. pc' \in [Threads -> Places] /\ held' \in [Threads -> Order]
  BY <1>2 DEF GetFeedback, Refused, Goto, SmallChangesTypeOK, Places
<1>5. SmallChangesTypeOK'
  BY <1>4 DEF GetFeedback, Refused, SmallChangesTypeOK
<1>6. ExchangeTypeOK' /\ TraderTypeOK'
  BY DEF GetFeedback, Refused, ExchangeTypeOK, OpenOrder, traderVars, TraderTypeOK
<1> QED
  BY <1>3, <1>5, <1>6

LEMMA ToRecordType == \A t \in Threads : ToRecord(t) \in SUBSET Accesses
BY DEF ToRecord, Accesses, Threads, Sides, Side

LEMMA FulfilledType ==
    ASSUME Types, NEW t \in Threads, Fulfilled(t), UNCHANGED traderVars
    PROVE  Types'
<1> USE DEF Types
<1>1. todo' \in [Threads -> SUBSET Accesses]
  BY ToRecordType DEF Fulfilled, SmallChangesTypeOK
<1>2. pc' \in [Threads -> Places] /\ held' \in [Threads -> Order]
  BY NoMessageType DEF Fulfilled, Goto, SmallChangesTypeOK, Places
<1>3. overlap' \in [Strategies -> BOOLEAN]
  <2>1. (overlap[t[1]] \/ pc[Other(t)] = "record") \in BOOLEAN
    OBVIOUS
  <2> QED
    BY <2>1 DEF Fulfilled, SmallChangesTypeOK
<1>4. SmallChangesTypeOK'
  BY <1>1, <1>2, <1>3 DEF Fulfilled, SmallChangesTypeOK
<1>5. MailTypeOK' /\ ExchangeTypeOK' /\ TraderTypeOK'
  BY DEF Fulfilled, mailVars, MailTypeOK, ExchangeTypeOK, OpenOrder,
         traderVars, TraderTypeOK
<1> QED
  BY <1>4, <1>5

LEMMA RecordType ==
    ASSUME Types, NEW t \in Threads, SetBought(t) \/ ReadPrice(t) \/ SetPrice(t),
           UNCHANGED traderVars
    PROVE  Types'
<1> USE DEF Types
<1>1. PICK a \in Accesses : Access(t, a)
  BY DEF SetBought, ReadPrice, SetPrice, Accesses
<1>2. todo' \in [Threads -> SUBSET Accesses]
  BY <1>1 DEF Access, SmallChangesTypeOK
<1>3. pc' \in [Threads -> Places] /\ held' \in [Threads -> Order]
  BY <1>1, NoMessageType DEF Access, Goto, SmallChangesTypeOK, Places
<1>4. bought' \in [Strategies -> BOOLEAN]
  <2>1. (Side(t) = "buy") \in BOOLEAN
    OBVIOUS
  <2> QED
    BY <2>1 DEF SetBought, ReadPrice, SetPrice, SmallChangesTypeOK
<1>5. held[t].price \in Prices \cup {0} /\ t[1] \in Strategies
  BY DEF Threads, SmallChangesTypeOK, Order
<1>6. RecordedPrice(t) \in Prices \cup {0}
  <2>1. seen[t[1]] \in Prices \cup {0}
    BY <1>5 DEF SmallChangesTypeOK
  <2> QED
    BY <2>1, <1>5 DEF RecordedPrice, Larger
<1>7. /\ price' \in [Strategies -> Prices \cup {0}]
      /\ seen' \in [Strategies -> Prices \cup {0}]
  BY <1>5, <1>6 DEF SetBought, ReadPrice, SetPrice, SmallChangesTypeOK
<1>8. takeProfit' \in [Strategies -> BOOLEAN] /\ overlap' \in [Strategies -> BOOLEAN]
  BY <1>1 DEF Access, SmallChangesTypeOK
<1>9. MailTypeOK' /\ ExchangeTypeOK' /\ TraderTypeOK'
  BY <1>1 DEF Access, mailVars, MailTypeOK, ExchangeTypeOK, OpenOrder,
              traderVars, TraderTypeOK
<1> QED
  BY <1>2, <1>3, <1>4, <1>7, <1>8, <1>9 DEF SmallChangesTypeOK

LEMMA WakeUpType ==
    ASSUME Types, NEW t \in Threads, WakeUp(t), UNCHANGED traderVars
    PROVE  Types'
BY DEF Types, WakeUp, Goto, Places, mailVars, MailTypeOK, ExchangeTypeOK,
       OpenOrder, traderVars, TraderTypeOK, SmallChangesTypeOK

LEMMA PlainBuyType == Types /\ PlainBuy => Types'
<1> SUFFICES ASSUME Types, PlainBuy
             PROVE  Types'
  OBVIOUS
<1> USE DEF Types
<1>1. MailTypeOK'
  BY NewOrderType, PutMessageType DEF PlainBuy
<1>2. ExchangeTypeOK' /\ TraderTypeOK' /\ SmallChangesTypeOK'
  BY DEF PlainBuy, ExchangeTypeOK, OpenOrder, traderVars, TraderTypeOK,
         smallChangesVars, SmallChangesTypeOK
<1> QED
  BY <1>1, <1>2

LEMMA MarketClosesType == Types /\ MarketCloses => Types'
<1> SUFFICES ASSUME Types, MarketCloses
             PROVE  Types'
  OBVIOUS
<1> USE DEF Types
<1>1. PICK x \in DOMAIN book : CloseOrder(x)
  BY DEF MarketCloses
<1>2. ExchangeTypeOK'
  BY <1>1 DEF CloseOrder, MarketCloses, ExchangeTypeOK, OpenOrder
<1>3. MailTypeOK' /\ TraderTypeOK' /\ SmallChangesTypeOK'
  BY DEF MarketCloses, mailVars, MailTypeOK, traderVars, TraderTypeOK,
         smallChangesVars, SmallChangesTypeOK
<1> QED
  BY <1>2, <1>3

LEMMA DieType == Types /\ Die => Types'
<1> SUFFICES ASSUME Types, Die
             PROVE  Types'
  OBVIOUS
<1> USE DEF Types
<1>1. MailTypeOK' /\ TraderTypeOK'
  BY NoMessageType DEF Die, MailTypeOK, TraderTypeOK
<1>2. SmallChangesTypeOK'
  BY NoMessageType DEF Die, SmallChangesTypeOK, Places
<1>3. ExchangeTypeOK'
  BY DEF Die, ExchangeTypeOK, OpenOrder
<1> QED
  BY <1>1, <1>2, <1>3

LEMMA InitType == Init => Types
<1> SUFFICES ASSUME Init
             PROVE  Types
  OBVIOUS
<1>1. MailTypeOK
  BY DEF Init, MailInit, MailTypeOK
<1>2. ExchangeTypeOK
  BY DEF Init, ExchangeInit, ExchangeTypeOK
<1>3. TraderTypeOK
  BY NoMessageType DEF Init, TraderInit, TraderTypeOK
<1>4. SmallChangesTypeOK
  BY NoMessageType DEF Init, SmallChangesInit, SmallChangesTypeOK, Places
<1> QED
  BY <1>1, <1>2, <1>3, <1>4 DEF Types

LEMMA NextType == Types /\ [Next]_vars => Types'
<1> SUFFICES ASSUME Types, [Next]_vars
             PROVE  Types'
  OBVIOUS
<1>1. CASE Decisor
  BY <1>1, TakeMessageType, SizeOrderType, PlaceType, PlaceFailsType, ReplyType
     DEF Decisor
<1>2. ASSUME NEW t \in Threads, Strategy(t)
      PROVE  Types'
  <2>1. t[1] \in Strategies
    BY DEF Threads
  <2> QED
    BY <1>2, <2>1, SignalType, GetFeedbackType, FulfilledType, RecordType, WakeUpType
       DEF Strategy
<1>3. CASE UNCHANGED vars
  BY <1>3 DEF vars, Types, mailVars, MailTypeOK, ExchangeTypeOK, OpenOrder,
              traderVars, TraderTypeOK, smallChangesVars, SmallChangesTypeOK
<1> QED
  BY <1>1, <1>2, <1>3, PlainBuyType, MarketClosesType, DieType DEF Next

\* What trader.cc and smallchanges.cc keep and send is well-formed in every
\* reachable state: messages carry orders, feedbacks carry orders, and the
\* recorded price of a strategy is one that an order had.
LEMMA TypesCorrect == Spec => []Types
BY InitType, NextType, PTL DEF Spec

\* A thread that is given a refused order goes back to watching.
LEMMA PolledStep == Types /\ PolledHaveIds /\ [Next]_vars => PolledHaveIds'
<1> SUFFICES ASSUME Types, PolledHaveIds, [Next]_vars,
                    NEW u \in Threads, pc'[u] \in {"track", "record"}
             PROVE  held'[u].txid # NoTx
  BY DEF PolledHaveIds
<1>0. pc \in [Threads -> Places] /\ held \in [Threads -> Order]
  BY DEF Types, SmallChangesTypeOK
<1>1. CASE UNCHANGED <<pc, held>>
  BY <1>1 DEF PolledHaveIds
<1>2. ASSUME NEW t \in Threads, Strategy(t)
      PROVE  held'[u].txid # NoTx
  <2>1. ASSUME pc'[u] = pc[u], held'[u] = held[u]
        PROVE  held'[u].txid # NoTx
    BY <2>1 DEF PolledHaveIds
  <2>2. CASE t # u
    <3>1. t[1] \in Strategies /\ t = <<t[1], Side(t)>>
      BY DEF Threads, Side
    <3>2. pc'[u] = pc[u] /\ held'[u] = held[u]
      BY <1>0, <1>2, <2>2, <3>1
      DEF Strategy, BuySignal, SellSignal, GetFeedback, Refused, Fulfilled, SetBought,
          ReadPrice, SetPrice, Access, WakeUp, Goto
    <3>3. QED
      BY <2>1, <3>2
  <2>3. CASE GetFeedback(u)
    BY <1>0, <2>3 DEF GetFeedback, Refused, Goto
  <2>4. CASE Fulfilled(u)
    BY <1>0, <2>4 DEF Fulfilled, Goto, PolledHaveIds
  <2>5. CASE SetBought(u) \/ ReadPrice(u) \/ SetPrice(u)
    BY <1>0, <2>5 DEF SetBought, ReadPrice, SetPrice, Access, Goto, PolledHaveIds
  <2>6. CASE \/ Side(u) = "buy" /\ BuySignal(u[1])
             \/ Side(u) = "sell" /\ SellSignal(u[1])
             \/ WakeUp(u)
    <3>1. u = <<u[1], Side(u)>>
      BY DEF Threads, Side
    <3>2. QED
      BY <1>0, <2>6, <3>1 DEF BuySignal, SellSignal, WakeUp, Goto
  <2>7. CASE t = u
    <3>1. Strategy(u)
      BY <1>2, <2>7
    <3>2. QED
      BY <2>3, <2>4, <2>5, <2>6, <3>1 DEF Strategy
  <2>8. QED
    BY <2>2, <2>7
<1>3. CASE Die
  BY <1>3 DEF Die
<1>4. QED
  BY <1>1, <1>2, <1>3
  DEF Next, Decisor, PlainBuy, MarketCloses, vars, smallChangesVars

(***************************************************************************)
(* Beyond the types: an order without a txid, which the market refused or  *)
(* the decisor did not place, is never polled for or recorded, whichever   *)
(* of the two threads its feedback reaches (smallchanges.cc:92, :262).     *)
(***************************************************************************)
THEOREM TradingTypeCorrect == Spec => []TypeOK
<1>1. Init => PolledHaveIds
  BY DEF Init, SmallChangesInit, PolledHaveIds
<1>2. Types /\ PolledHaveIds => TypeOK
  BY DEF TypeOK
<1>3. QED
  BY <1>1, <1>2, PolledStep, TypesCorrect, PTL DEF Spec

-----------------------------------------------------------------------------
(***************************************************************************)
(* One feedback per waiter: counting the messages of a strategy            *)
(***************************************************************************)
Positions(c, s) == {i \in DOMAIN c : c[i].feedback = s}

LEMMA PositionsFinite ==
    ASSUME NEW c \in Seq(Message), NEW s
    PROVE  /\ IsFiniteSet(Positions(c, s))
           /\ Cardinality(Positions(c, s)) \in Nat
           /\ Positions(c, s) \subseteq 1 .. Len(c)
<1>1. Positions(c, s) \in SUBSET (1 .. Len(c))
  BY DEF Positions
<1>2. IsFiniteSet(1 .. Len(c))
  BY FS_Interval
<1>3. IsFiniteSet(Positions(c, s))
  BY <1>1, <1>2, FS_Subset
<1> QED
  BY <1>1, <1>3, FS_CardinalityType

LEMMA PositionsAppend ==
    ASSUME NEW c \in Seq(Message), NEW m \in Message, NEW s
    PROVE  Cardinality(Positions(Append(c, m), s)) =
               Cardinality(Positions(c, s)) + (IF m.feedback = s THEN 1 ELSE 0)
<1> DEFINE d == Append(c, m)
           n == Len(c) + 1
<1>1. /\ DOMAIN d = 1 .. n /\ DOMAIN c = 1 .. Len(c) /\ d[n] = m
      /\ \A i \in 1 .. Len(c) : d[i] = c[i]
  OBVIOUS
<1>2. Len(c) \in Nat /\ n \notin Positions(c, s)
  BY PositionsFinite
<1>3. CASE m.feedback = s
  <2>1. Positions(d, s) = Positions(c, s) \cup {n}
    BY <1>1, <1>2, <1>3 DEF Positions
  <2> QED
    BY <2>1, <1>2, <1>3, PositionsFinite, FS_AddElement
<1>4. CASE m.feedback # s
  <2>1. Positions(d, s) = Positions(c, s)
    BY <1>1, <1>2, <1>4 DEF Positions
  <2> QED
    BY <2>1, <1>4, PositionsFinite
<1> QED
  BY <1>3, <1>4

LEMMA PositionsTail ==
    ASSUME NEW c \in Seq(Message), c # <<>>, NEW s
    PROVE  Cardinality(Positions(Tail(c), s)) =
               Cardinality(Positions(c, s)) - (IF Head(c).feedback = s THEN 1 ELSE 0)
<1> DEFINE d == Tail(c)
           S == Positions(d, s)
           T == Positions(c, s) \ {1}
           f == [i \in S |-> i + 1]
<1>1. /\ Len(c) \in Nat /\ Len(c) > 0
      /\ DOMAIN d = 1 .. Len(c) - 1 /\ DOMAIN c = 1 .. Len(c)
      /\ \A i \in 1 .. Len(c) - 1 : d[i] = c[i + 1]
      /\ Head(c) = c[1] /\ d \in Seq(Message)
  OBVIOUS
<1>2. S \subseteq 1 .. Len(c) - 1 /\ T \subseteq 2 .. Len(c)
  BY <1>1 DEF Positions
<1>3. f \in Injection(S, T)
  <2>1. \A i \in S : i + 1 \in T
    BY <1>1, <1>2 DEF Positions
  <2>2. \A i, j \in S : i + 1 = j + 1 => i = j
    BY <1>2
  <2> QED
    BY <2>1, <2>2 DEF Injection, IsInjective
<1>4. f \in Surjection(S, T)
  <2>1. \A j \in T : j - 1 \in S /\ j = (j - 1) + 1
    BY <1>1, <1>2 DEF Positions
  <2> QED
    BY <2>1, <1>3 DEF Surjection, Injection
<1>5. Cardinality(S) = Cardinality(T)
  <2>1. IsFiniteSet(S)
    BY <1>1, PositionsFinite
  <2> QED
    BY <1>3, <1>4, <2>1, FS_Surjection
<1>6. 1 \in Positions(c, s) <=> Head(c).feedback = s
  BY <1>1 DEF Positions
<1>7. IsFiniteSet(Positions(c, s)) /\ Cardinality(Positions(c, s)) \in Nat
  BY PositionsFinite
<1>8. Cardinality(T) = IF 1 \in Positions(c, s) THEN Cardinality(Positions(c, s)) - 1
                                                 ELSE Cardinality(Positions(c, s))
  BY <1>7, FS_RemoveElement
<1> QED
  BY <1>5, <1>6, <1>7, <1>8

LEMMA AwaitingFinite ==
    ASSUME NEW s
    PROVE  /\ IsFiniteSet(Awaiting(s)) /\ Cardinality(Awaiting(s)) \in Nat
           /\ IsFiniteSet(Tracking(s)) /\ Cardinality(Tracking(s)) \in Nat
<1>1. IsFiniteSet({"buy"} \cup {"sell"})
  BY FS_Singleton, FS_AddElement
<1>2. Sides = {"buy"} \cup {"sell"}
  BY DEF Sides
<1>3. Awaiting(s) \in SUBSET Sides /\ Tracking(s) \in SUBSET Sides
  BY DEF Awaiting, Tracking
<1> QED
  BY <1>1, <1>2, <1>3, FS_Subset, FS_CardinalityType

\* A thread that goes somewhere joins or leaves the waiting ones of its object.
LEMMA GotoAwaiting ==
    ASSUME SmallChangesTypeOK, NEW t \in Threads, NEW place, Goto(t, place),
           NEW s \in Strategies
    PROVE  Awaiting(s)' = IF s # t[1] THEN Awaiting(s)
                          ELSE IF place = "await" THEN Awaiting(s) \cup {t[2]}
                          ELSE Awaiting(s) \ {t[2]}
<1>1. /\ t[1] \in Strategies /\ t[2] \in Sides /\ t = <<t[1], t[2]>>
      /\ \A side \in Sides : <<s, side>> \in Threads
  BY DEF Threads
<1>2. ASSUME NEW side \in Sides
      PROVE  pc'[<<s, side>>] = IF s = t[1] /\ side = t[2]
                                THEN place ELSE pc[<<s, side>>]
  BY <1>1, <1>2 DEF Goto, SmallChangesTypeOK
<1> QED
  BY <1>1, <1>2 DEF Awaiting

\* The balance of one strategy: threads that wait against feedbacks to come.
Balanced(s) ==
    Cardinality(Awaiting(s)) = Cardinality(Queued(s)) + InHand(s) + Len(feedback[s])

LEMMA CountsAreNumbers ==
    ASSUME Types, NEW s \in Strategies
    PROVE  /\ Cardinality(Awaiting(s)) \in Nat
           /\ Queued(s) = Positions(chan, s)
           /\ Cardinality(Queued(s)) \in Nat
           /\ InHand(s) \in {0, 1}
           /\ Len(feedback[s]) \in Nat
<1>1. Cardinality(Awaiting(s)) \in Nat
  BY AwaitingFinite
<1>2. Queued(s) = Positions(chan, s)
  BY DEF Queued, Positions
<1>3. Cardinality(Positions(chan, s)) \in Nat
  BY PositionsFinite DEF Types, MailTypeOK
<1>4. InHand(s) \in {0, 1}
  BY DEF InHand
<1>5. Len(feedback[s]) \in Nat
  BY DEF Types, MailTypeOK
<1> QED
  BY <1>1, <1>2, <1>3, <1>4, <1>5

\* A step that touches none of the four counts keeps the balance.
LEMMA BalanceFrame ==
    ASSUME NEW s, Balanced(s), UNCHANGED <<chan, feedback>>,
           InHand(s)' = InHand(s), Awaiting(s)' = Awaiting(s)
    PROVE  Balanced(s)'
BY DEF Balanced, Queued

LEMMA TakeMessageBalance ==
    ASSUME Types, TakeMessage, UNCHANGED smallChangesVars,
           NEW s \in Strategies, Balanced(s)
    PROVE  Balanced(s)'
<1>1. Types'
  BY TakeMessageType
<1>2. chan \in Seq(Message) /\ chan # <<>> /\ chan' = Tail(chan)
  BY DEF TakeMessage, Types, MailTypeOK
<1>3. Cardinality(Queued(s)') =
        Cardinality(Queued(s)) - (IF Head(chan).feedback = s THEN 1 ELSE 0)
  <2>1. Queued(s)' = Positions(Tail(chan), s) /\ Queued(s) = Positions(chan, s)
    BY <1>2 DEF Queued, Positions
  <2> QED
    BY <2>1, <1>2, PositionsTail
<1>4. InHand(s) = 0 /\ InHand(s)' = IF Head(chan).feedback = s THEN 1 ELSE 0
  BY DEF InHand, TakeMessage
<1>5. Awaiting(s)' = Awaiting(s) /\ feedback' = feedback
  BY DEF TakeMessage, Awaiting, smallChangesVars
<1> QED
  BY <1>3, <1>4, <1>5, CountsAreNumbers DEF Balanced

LEMMA ReplyBalance ==
    ASSUME Types, Reply, UNCHANGED smallChangesVars,
           NEW s \in Strategies, Balanced(s)
    PROVE  Balanced(s)'
<1>1. Awaiting(s)' = Awaiting(s) /\ Queued(s)' = Queued(s) /\ InHand(s)' = 0
  BY DEF Reply, Awaiting, Queued, InHand, smallChangesVars
<1>2. CASE message.feedback = s
  <2>1. s # NoFeedback /\ order \in Order /\ feedback[s] \in Seq(Order)
    BY MessagesAssumption DEF Types, TraderTypeOK, MailTypeOK
  <2>2. Len(Append(feedback[s], order)) = Len(feedback[s]) + 1
    BY <2>1
  <2>3. feedback'[s] = Append(feedback[s], order)
    BY <1>2, <2>1 DEF Reply, Answer, PutFeedback, Types, MailTypeOK
  <2>4. InHand(s) = 1
    BY <1>2 DEF InHand, Reply
  <2> QED
    BY <1>1, <2>2, <2>3, <2>4, CountsAreNumbers DEF Balanced
<1>3. CASE message.feedback # s
  <2>1. feedback'[s] = feedback[s]
    BY <1>3 DEF Reply, Answer, PutFeedback, Types, MailTypeOK
  <2>2. InHand(s) = 0
    BY <1>3 DEF InHand
  <2> QED
    BY <1>1, <2>1, <2>2 DEF Balanced
<1> QED
  BY <1>2, <1>3

\* A message put for an owner is one more on its way to that owner.
LEMMA PutMessageCount ==
    ASSUME Types, NEW owner \in Strategies \cup {NoFeedback}, NEW o \in Order,
           PutMessage(owner, o), NEW s
    PROVE  Cardinality(Queued(s)') =
               Cardinality(Queued(s)) + (IF owner = s THEN 1 ELSE 0)
<1> DEFINE m == [feedback |-> owner, order |-> o]
<1>1. m \in Message /\ m.feedback = owner /\ chan \in Seq(Message)
  BY DEF Message, Types, MailTypeOK
<1>2. Queued(s)' = Positions(Append(chan, m), s) /\ Queued(s) = Positions(chan, s)
  BY DEF PutMessage, Queued, Positions
<1> HIDE DEF m
<1> QED
  BY <1>1, <1>2, PositionsAppend

LEMMA SignalBalance ==
    ASSUME Types, NEW r \in Strategies, BuySignal(r) \/ SellSignal(r),
           UNCHANGED traderVars, NEW s \in Strategies, Balanced(s)
    PROVE  Balanced(s)'
<1>1. PICK side \in Sides :
          /\ pc[<<r, side>>] = "watch"
          /\ Goto(<<r, side>>, "await")
          /\ \E o \in Order : PutMessage(r, o)
          /\ UNCHANGED feedback
  <2>1. CASE BuySignal(r)
    BY <2>1, NewOrderType DEF BuySignal, Sides
  <2>2. CASE SellSignal(r)
    BY <2>2, NewOrderType DEF SellSignal, Sides
  <2> QED
    BY <2>1, <2>2
<1>2. Cardinality(Queued(s)') = Cardinality(Queued(s)) + (IF r = s THEN 1 ELSE 0)
  BY <1>1, PutMessageCount
<1>3. InHand(s)' = InHand(s)
  BY DEF traderVars, InHand
<1>4. Awaiting(s)' = IF s = r THEN Awaiting(s) \cup {side} ELSE Awaiting(s)
  <2>1. <<r, side>> \in Threads
    BY DEF Threads
  <2> QED
    BY <1>1, <2>1, GotoAwaiting DEF Types
<1>5. Cardinality(Awaiting(s)') = Cardinality(Awaiting(s)) + (IF r = s THEN 1 ELSE 0)
  <2>1. s = r => side \notin Awaiting(s)
    BY <1>1 DEF Awaiting
  <2>2. IsFiniteSet(Awaiting(s))
    BY AwaitingFinite
  <2>3. Cardinality(Awaiting(s) \cup {side}) =
            IF side \in Awaiting(s) THEN Cardinality(Awaiting(s))
                                    ELSE Cardinality(Awaiting(s)) + 1
    BY <2>2, FS_AddElement
  <2>4. Cardinality(Awaiting(s)) \in Nat
    BY AwaitingFinite
  <2> QED
    BY <1>4, <2>1, <2>3, <2>4
<1> QED
  BY <1>1, <1>2, <1>3, <1>5, CountsAreNumbers DEF Balanced

LEMMA GetFeedbackBalance ==
    ASSUME Types, NEW t \in Threads, GetFeedback(t), UNCHANGED traderVars,
           NEW s \in Strategies, Balanced(s)
    PROVE  Balanced(s)'
<1>1. /\ t[1] \in Strategies /\ t[2] \in Sides /\ t = <<t[1], t[2]>>
      /\ pc[t] = "await"
  BY DEF Threads, GetFeedback, Refused
<1>2. PICK place \in {"watch", "track"} : Goto(t, place)
  BY DEF GetFeedback, Refused
<1>3. Awaiting(s)' = IF s = t[1] THEN Awaiting(s) \ {t[2]} ELSE Awaiting(s)
  BY <1>2, GotoAwaiting DEF Types
<1>4. s = t[1] => t[2] \in Awaiting(s)
  BY <1>1 DEF Awaiting
<1>5. Cardinality(Awaiting(s)') = Cardinality(Awaiting(s)) - (IF s = t[1] THEN 1 ELSE 0)
  <2>1. IsFiniteSet(Awaiting(s)) /\ Cardinality(Awaiting(s)) \in Nat
    BY AwaitingFinite
  <2>2. Cardinality(Awaiting(s) \ {t[2]}) =
            IF t[2] \in Awaiting(s) THEN Cardinality(Awaiting(s)) - 1
                                    ELSE Cardinality(Awaiting(s))
    BY <2>1, FS_RemoveElement
  <2> QED
    BY <1>3, <1>4, <2>1, <2>2
<1>6. Len(feedback'[s]) = Len(feedback[s]) - (IF s = t[1] THEN 1 ELSE 0)
  <2>1. feedback'[s] = IF s = t[1] THEN Tail(feedback[s]) ELSE feedback[s]
    BY DEF GetFeedback, Refused, PopFeedback, Types, MailTypeOK
  <2>2. feedback[s] \in Seq(Order) /\ (s = t[1] => feedback[s] # <<>>)
    BY DEF GetFeedback, Refused, Types, MailTypeOK
  <2> QED
    BY <2>1, <2>2
<1>7. Cardinality(Queued(s)') = Cardinality(Queued(s)) /\ InHand(s)' = InHand(s)
  BY DEF GetFeedback, Refused, Queued, traderVars, InHand
<1>8. /\ Cardinality(Awaiting(s)) = Cardinality(Queued(s)) + InHand(s) + Len(feedback[s])
      /\ Cardinality(Queued(s)) \in Nat /\ InHand(s) \in Nat /\ Len(feedback[s]) \in Nat
  BY CountsAreNumbers DEF Balanced
<1>9. Cardinality(Awaiting(s)') =
          Cardinality(Queued(s)') + InHand(s)' + Len(feedback'[s])
  <2>1. CASE s = t[1]
    <3>1. Cardinality(Awaiting(s)') = Cardinality(Awaiting(s)) - 1
      BY <1>5, <2>1
    <3>2. Len(feedback'[s]) = Len(feedback[s]) - 1
      BY <1>6, <2>1
    <3> QED
      BY <3>1, <3>2, <1>7, <1>8
  <2>2. CASE s # t[1]
    <3>1. Cardinality(Awaiting(s)') = Cardinality(Awaiting(s))
      BY <1>5, <1>8, <2>2
    <3>2. Len(feedback'[s]) = Len(feedback[s])
      BY <1>6, <1>8, <2>2
    <3> QED
      BY <3>1, <3>2, <1>7, <1>8
  <2> QED
    BY <2>1, <2>2
<1> QED
  BY <1>9 DEF Balanced

\* The other steps of a strategy's thread neither begin nor end a wait.
LEMMA OtherStrategyBalance ==
    ASSUME Types, NEW t \in Threads, UNCHANGED traderVars,
           Fulfilled(t) \/ SetBought(t) \/ ReadPrice(t) \/ SetPrice(t) \/ WakeUp(t),
           NEW s \in Strategies, Balanced(s)
    PROVE  Balanced(s)'
<1>1. UNCHANGED <<chan, feedback>> /\ InHand(s)' = InHand(s)
  BY DEF Fulfilled, SetBought, ReadPrice, SetPrice, Access, WakeUp, mailVars,
         traderVars, InHand
<1>2. pc[t] # "await"
  BY DEF Fulfilled, SetBought, ReadPrice, SetPrice, Access, WakeUp
<1>3. pc' = pc \/ \E place \in {"watch", "record", "rest"} : Goto(t, place)
  BY DEF Fulfilled, SetBought, ReadPrice, SetPrice, Access, WakeUp
<1>4. Awaiting(s)' = Awaiting(s)
  <2>1. CASE pc' = pc
    BY <2>1 DEF Awaiting
  <2>2. ASSUME NEW place \in {"watch", "record", "rest"}, Goto(t, place)
        PROVE  Awaiting(s)' = Awaiting(s)
    <3>1. s = t[1] => t[2] \notin Awaiting(s)
      BY <1>2 DEF Awaiting, Threads
    <3> QED
      BY <2>2, <3>1, GotoAwaiting DEF Types
  <2> QED
    BY <1>3, <2>1, <2>2
<1> QED
  BY <1>1, <1>4, BalanceFrame

LEMMA PlainBuyBalance ==
    ASSUME Types, PlainBuy, NEW s \in Strategies, Balanced(s)
    PROVE  Balanced(s)'
<1>1. \E o \in Order : PutMessage(NoFeedback, o)
  BY NewOrderType DEF PlainBuy
<1>2. Cardinality(Queued(s)') = Cardinality(Queued(s))
  BY <1>1, PutMessageCount, CountsAreNumbers, MessagesAssumption
<1>3. feedback' = feedback /\ InHand(s)' = InHand(s) /\ Awaiting(s)' = Awaiting(s)
  BY DEF PlainBuy, traderVars, smallChangesVars, InHand, Awaiting
<1> QED
  BY <1>2, <1>3 DEF Balanced

\* The two threads of a SmallChanges object share one feedback channel
\* (smallchanges.cc:87 and :257) and cannot tell whose answer they get.  Yet
\* no thread waits for an answer that will not come, and no answer is left
\* over for a later wait, however the decisor retries and however often the
\* process dies: trader.cc:275-281 answers each message once.
THEOREM FeedbackBalances == Spec => []OneFeedbackPerWaiter
<1>1. Init => OneFeedbackPerWaiter
  <2> SUFFICES ASSUME Init, NEW s \in Strategies
               PROVE  Balanced(s)
    BY DEF OneFeedbackPerWaiter, Balanced
  <2>1. \A side \in Sides : <<s, side>> \in Threads
    BY DEF Threads
  <2>2. Awaiting(s) = {} /\ Queued(s) = {} /\ InHand(s) = 0 /\ Len(feedback[s]) = 0
    BY <2>1 DEF Init, MailInit, TraderInit, SmallChangesInit, Awaiting, Queued, InHand
  <2> QED
    BY <2>2, FS_EmptySet DEF Balanced
<1>2. Types /\ OneFeedbackPerWaiter /\ [Next]_vars => OneFeedbackPerWaiter'
  <2> SUFFICES ASSUME Types, OneFeedbackPerWaiter, [Next]_vars,
                      NEW s \in Strategies
               PROVE  Balanced(s)'
    BY DEF OneFeedbackPerWaiter, Balanced
  <2>1. Balanced(s)
    BY DEF OneFeedbackPerWaiter, Balanced
  <2>2. CASE Decisor
    <3>1. UNCHANGED smallChangesVars
      BY <2>2 DEF Decisor
    <3>2. CASE TakeMessage
      BY <2>1, <3>1, <3>2, TakeMessageBalance
    <3>3. CASE Reply
      BY <2>1, <3>1, <3>3, ReplyBalance
    <3>4. CASE SizeOrder \/ PlaceFails \/ \E x \in FreshIds : Place(x) \/ PlaceLost(x)
      <4>1. UNCHANGED <<chan, feedback>> /\ InHand(s)' = InHand(s)
        BY <3>4 DEF SizeOrder, PlaceFails, Place, PlaceLost, NoRetry, mailVars, InHand
      <4> QED
        BY <2>1, <3>1, <4>1, BalanceFrame DEF smallChangesVars, Awaiting
    <3> QED
      BY <2>2, <3>2, <3>3, <3>4 DEF Decisor
  <2>3. ASSUME NEW t \in Threads, Strategy(t)
        PROVE  Balanced(s)'
    <3>1. t[1] \in Strategies /\ UNCHANGED traderVars
      BY <2>3 DEF Threads, Strategy
    <3> QED
      BY <2>1, <2>3, <3>1, SignalBalance, GetFeedbackBalance, OtherStrategyBalance
         DEF Strategy
  <2>4. CASE PlainBuy
    BY <2>1, <2>4, PlainBuyBalance
  <2>5. CASE MarketCloses \/ UNCHANGED vars
    BY <2>1, <2>5, BalanceFrame
       DEF MarketCloses, vars, mailVars, traderVars, smallChangesVars, InHand, Awaiting
  <2>6. CASE Die
    <3>1. /\ chan' = <<>> /\ at' = "get" /\ feedback' = [r \in Strategies |-> <<>>]
          /\ pc' = [t \in Threads |-> "watch"]
      BY <2>6 DEF Die
    <3>2. \A side \in Sides : <<s, side>> \in Threads
      BY DEF Threads
    <3>3. /\ Awaiting(s)' = {} /\ Queued(s)' = {}
          /\ InHand(s)' = 0 /\ Len(feedback'[s]) = 0
      BY <3>1, <3>2 DEF Awaiting, Queued, InHand
    <3> QED
      BY <3>3, FS_EmptySet DEF Balanced
  <2> QED
    BY <2>2, <2>3, <2>4, <2>5, <2>6 DEF Next
<1> QED
  BY <1>1, <1>2, TypesCorrect, PTL DEF Spec

-----------------------------------------------------------------------------
(***************************************************************************)
(* No orphan: what makes it inductive                                      *)
(***************************************************************************)

\* An order that nobody has placed yet; a limit order already has its price.
Unplaced(o) == o.txid = NoTx /\ (o.type = "limit" => o.price > 0)

\* The strategies send orders that are still to be placed.
SentUnplaced == \A i \in DOMAIN chan : Unplaced(chan[i].order)

\* The order in the decisor's hands gets a price, then an id, then is done.
InHandSound ==
    /\ at \in {"work", "place"} => Unplaced(order)
    /\ at = "place" => order.price > 0
    /\ order.txid # NoTx => at = "reply" /\ order.price > 0

BookFromThePast == \A x \in DOMAIN book : book[x].life <= life

-----------------------------------------------------------------------------
(***************************************************************************)
(* The orders on their way: SentUnplaced, InHandSound, PlacedOrdersAreDone *)
(***************************************************************************)
LEMMA NewOrderUnplaced ==
    ASSUME NEW action, NEW type \in {"limit", "market"}, NEW p \in Prices \cup {0},
           type = "limit" => p \in Prices
    PROVE  Unplaced(NewOrder(action, type, p))
BY MessagesAssumption DEF Unplaced, NewOrder

LEMMA PutMessageUnplaced ==
    ASSUME Types, SentUnplaced, NEW owner \in Strategies \cup {NoFeedback},
           NEW o \in Order, Unplaced(o), PutMessage(owner, o)
    PROVE  SentUnplaced'
<1> DEFINE m == [feedback |-> owner, order |-> o]
<1>1. m \in Message /\ m.order = o /\ chan \in Seq(Message) /\ chan' = Append(chan, m)
  BY DEF Message, PutMessage, Types, MailTypeOK
<1> HIDE DEF m
<1>2. ASSUME NEW i \in DOMAIN chan'
      PROVE  chan'[i] = m \/ (i \in DOMAIN chan /\ chan'[i] = chan[i])
  BY <1>1, <1>2
<1>3. \A i \in DOMAIN chan' : Unplaced(chan'[i].order)
  BY <1>1, <1>2 DEF SentUnplaced
<1> QED
  BY <1>3 DEF SentUnplaced, Unplaced

OrdersOnTheWay == SentUnplaced /\ InHandSound /\ PlacedOrdersAreDone

LEMMA DecisorOrders ==
    ASSUME Types, OrdersOnTheWay, Decisor
    PROVE  OrdersOnTheWay'
<1> USE DEF OrdersOnTheWay
<1>1. order \in Order /\ message \in Message
  BY DEF Types, TraderTypeOK
<1>2. CASE TakeMessage
  <2>1. /\ chan \in Seq(Message) /\ chan # <<>> /\ chan' = Tail(chan)
        /\ order' = Head(chan).order /\ at' = "work" /\ feedback' = feedback
    BY <1>2 DEF TakeMessage, Types, MailTypeOK
  <2>2. \A i \in DOMAIN chan' : i + 1 \in DOMAIN chan /\ chan'[i] = chan[i + 1]
    BY <2>1
  <2>3. 1 \in DOMAIN chan /\ Head(chan) = chan[1]
    BY <2>1
  <2>4. SentUnplaced'
    BY <2>2 DEF SentUnplaced, Unplaced
  <2>5. Unplaced(order')
    BY <2>1, <2>3 DEF SentUnplaced
  <2>6. InHandSound' /\ PlacedOrdersAreDone'
    BY <2>1, <2>5 DEF InHandSound, PlacedOrdersAreDone, Unplaced
  <2> QED
    BY <2>4, <2>6
<1>3. CASE SizeOrder
  <2>1. /\ order'.txid = NoTx /\ order'.type = order.type /\ order'.price > 0
        /\ at' \in {"place", "reply"}
    <3>1. Unplaced(order) /\ order.type \in {"limit", "market"}
      BY <1>1, <1>3 DEF SizeOrder, InHandSound, Order
    <3>2. CASE order.type = "market"
      <4>1. PICK p \in Prices : order' = [order EXCEPT !.price = p]
        BY <1>3, <3>2 DEF SizeOrder
      <4>2. p > 0
        BY MessagesAssumption
      <4> QED
        BY <1>1, <1>3, <3>1, <4>1, <4>2 DEF SizeOrder, Unplaced, Order
    <3>3. CASE order.type = "limit"
      BY <1>3, <3>1, <3>3 DEF SizeOrder, Unplaced
    <3> QED
      BY <3>1, <3>2, <3>3
  <2> QED
    BY <1>3, <2>1 DEF SizeOrder, mailVars, SentUnplaced, InHandSound,
                      PlacedOrdersAreDone, Unplaced
<1>4. ASSUME NEW x \in FreshIds, Place(x)
      PROVE  OrdersOnTheWay'
  <2>1. order'.price = order.price /\ order.price > 0 /\ at' = "reply"
    BY <1>1, <1>4 DEF Place, NoRetry, InHandSound, Order
  <2> QED
    BY <1>4, <2>1 DEF Place, mailVars, SentUnplaced, InHandSound,
                      PlacedOrdersAreDone, Unplaced
<1>5. ASSUME PlaceFails \/ \E x \in FreshIds : PlaceLost(x)
      PROVE  OrdersOnTheWay'
  BY <1>5 DEF PlaceFails, PlaceLost, mailVars, SentUnplaced, InHandSound,
              PlacedOrdersAreDone, Unplaced
<1>6. CASE Reply
  <2>1. SentUnplaced' /\ InHandSound'
    BY <1>6 DEF Reply, SentUnplaced, InHandSound, Unplaced, NoOrder, NewOrder
  <2>2. ASSUME NEW s \in Strategies, NEW i \in DOMAIN feedback'[s],
               feedback'[s][i].txid # NoTx
        PROVE  feedback'[s][i].price > 0
    <3>1. \/ i \in DOMAIN feedback[s] /\ feedback'[s][i] = feedback[s][i]
          \/ feedback'[s][i] = order
      <4>1. feedback[s] \in Seq(Order)
        BY DEF Types, MailTypeOK
      <4>2. feedback'[s] \in {feedback[s], Append(feedback[s], order)}
        BY <1>6 DEF Reply, Answer, PutFeedback, Types, MailTypeOK
      <4> QED
        BY <1>1, <4>1, <4>2
    <3> QED
      BY <2>2, <3>1 DEF PlacedOrdersAreDone, InHandSound
  <2>3. order'.txid = NoTx
    BY <1>6 DEF Reply, NoOrder, NewOrder
  <2> QED
    BY <2>1, <2>2, <2>3 DEF PlacedOrdersAreDone
<1> QED
  BY <1>2, <1>3, <1>4, <1>5, <1>6 DEF Decisor

LEMMA StrategyOrders ==
    ASSUME Types, OrdersOnTheWay, NEW t \in Threads, Strategy(t)
    PROVE  OrdersOnTheWay'
<1> USE DEF OrdersOnTheWay
<1>1. InHandSound'
  BY DEF Strategy, traderVars, InHandSound, Unplaced
<1>2. t[1] \in Strategies
  BY DEF Threads
<1>3. SentUnplaced'
  <2>1. CASE BuySignal(t[1])
    BY <1>2, <2>1, NewOrderType, NewOrderUnplaced, PutMessageUnplaced DEF BuySignal
  <2>2. CASE SellSignal(t[1])
    BY <1>2, <2>2, NewOrderType, NewOrderUnplaced, PutMessageUnplaced DEF SellSignal
  <2>3. CASE chan' = chan
    BY <2>3 DEF SentUnplaced, Unplaced
  <2> QED
    BY <2>1, <2>2, <2>3 DEF Strategy, GetFeedback, Refused, Fulfilled, SetBought, ReadPrice,
                            SetPrice, Access, WakeUp, mailVars
<1>4. PlacedOrdersAreDone'
  <2>1. order' = order /\ at' = at
    BY DEF Strategy, traderVars
  <2>2. CASE GetFeedback(t)
    <3>1. ASSUME NEW s \in Strategies, NEW i \in DOMAIN feedback'[s]
          PROVE  \E j \in DOMAIN feedback[s] : feedback'[s][i] = feedback[s][j]
      <4>1. feedback[s] \in Seq(Order)
        BY DEF Types, MailTypeOK
      <4>2. CASE s = t[1]
        <5>1. feedback[s] # <<>> /\ feedback'[s] = Tail(feedback[s])
          BY <1>2, <2>2, <4>2 DEF GetFeedback, Refused, PopFeedback, Types, MailTypeOK
        <5>2. i + 1 \in DOMAIN feedback[s] /\ feedback'[s][i] = feedback[s][i + 1]
          BY <3>1, <4>1, <5>1
        <5> QED
          BY <5>2
      <4>3. CASE s # t[1]
        <5>1. feedback'[s] = feedback[s]
          BY <2>2, <4>3 DEF GetFeedback, Refused, PopFeedback, Types, MailTypeOK
        <5> QED
          BY <3>1, <5>1
      <4> QED
        BY <4>2, <4>3
    <3> QED
      BY <2>1, <3>1 DEF PlacedOrdersAreDone
  <2>3. CASE feedback' = feedback
    BY <2>1, <2>3 DEF PlacedOrdersAreDone
  <2> QED
    BY <2>2, <2>3 DEF Strategy, BuySignal, SellSignal, Fulfilled, SetBought,
                      ReadPrice, SetPrice, Access, WakeUp, mailVars
<1> QED
  BY <1>1, <1>3, <1>4

LEMMA NextOrders == Types /\ OrdersOnTheWay /\ [Next]_vars => OrdersOnTheWay'
<1> SUFFICES ASSUME Types, OrdersOnTheWay, [Next]_vars
             PROVE  OrdersOnTheWay'
  OBVIOUS
<1>1. CASE PlainBuy
  <2>1. SentUnplaced'
    BY <1>1, NewOrderType, NewOrderUnplaced, PutMessageUnplaced
       DEF PlainBuy, OrdersOnTheWay
  <2> QED
    BY <1>1, <2>1 DEF PlainBuy, traderVars, OrdersOnTheWay, InHandSound,
                      PlacedOrdersAreDone, Unplaced
<1>2. CASE MarketCloses \/ UNCHANGED vars
  BY <1>2 DEF MarketCloses, vars, mailVars, traderVars, OrdersOnTheWay,
              SentUnplaced, InHandSound, PlacedOrdersAreDone, Unplaced
<1>3. CASE Die
  BY <1>3 DEF Die, OrdersOnTheWay, SentUnplaced, InHandSound, PlacedOrdersAreDone,
              Unplaced, NoOrder, NewOrder
<1> QED
  BY <1>1, <1>2, <1>3, DecisorOrders, StrategyOrders DEF Next

LEMMA InitOrders == Init => OrdersOnTheWay
BY DEF Init, MailInit, TraderInit, OrdersOnTheWay, SentUnplaced, InHandSound,
       PlacedOrdersAreDone, Unplaced, NoOrder, NewOrder

\* The retry loop (trader.cc:143-298) never works again on an order that the
\* market has answered, and what the strategies get back has a price.
THEOREM RetriesStopAtAnAnswer == Spec => []PlacedOrdersAreDone
<1>1. OrdersOnTheWay => PlacedOrdersAreDone
  BY DEF OrdersOnTheWay
<1> QED
  BY <1>1, InitOrders, NextOrders, TypesCorrect, PTL DEF Spec

\* The steps of the decisor: an accepted attempt ends the work on a message.
LEMMA DecisorRepeats ==
    ASSUME Types, OnlyLostOrdersAreRepeated, Decisor
    PROVE  OnlyLostOrdersAreRepeated'
<1> USE DEF OnlyLostOrdersAreRepeated
<1>1. CASE TakeMessage \/ Reply
  <2>1. attempts' = {}
    BY <1>1 DEF TakeMessage, Reply
  <2> QED
    BY <2>1
<1>2. CASE SizeOrder \/ PlaceFails
  <2>1. at # "reply" /\ attempts' = attempts /\ book' = book
    BY <1>2 DEF SizeOrder, PlaceFails
  <2> QED
    BY <2>1
<1>3. ASSUME NEW x \in FreshIds, Place(x) \/ PlaceLost(x)
      PROVE  OnlyLostOrdersAreRepeated'
  <2>1. at = "place" /\ x \notin DOMAIN book /\ x \notin attempts
    BY <1>3 DEF Place, PlaceLost, FreshIds, KnownIds
  <2>2. attempts' = attempts \cup {x} /\ DOMAIN book' = DOMAIN book \cup {x}
    BY <1>3 DEF Place, PlaceLost, Accept
  <2>3. ASSUME NEW y \in attempts \cap DOMAIN book
        PROVE  ~book'[y].acked
    <3>1. ~book[y].acked
      BY <2>1
    <3>2. y # x /\ book'[y] = book[y]
      BY <1>3, <2>1 DEF Place, PlaceLost, Accept
    <3> QED
      BY <3>1, <3>2
  <2>4. book'[x].acked => at' = "reply" /\ order'.txid = x
    <3>1. CASE Place(x)
      BY <3>1 DEF Place, NoRetry, Types, TraderTypeOK, Order
    <3>2. CASE PlaceLost(x)
      BY <3>2 DEF PlaceLost, Accept
    <3> QED
      BY <1>3, <3>1, <3>2
  <2> QED
    BY <2>1, <2>2, <2>3, <2>4
<1> QED
  BY <1>1, <1>2, <1>3 DEF Decisor

LEMMA NextRepeats ==
    Types /\ OnlyLostOrdersAreRepeated /\ [Next]_vars => OnlyLostOrdersAreRepeated'
<1> SUFFICES ASSUME Types, OnlyLostOrdersAreRepeated, [Next]_vars
             PROVE  OnlyLostOrdersAreRepeated'
  OBVIOUS
<1> USE DEF OnlyLostOrdersAreRepeated
<1>1. CASE UNCHANGED <<book, traderVars>>
  BY <1>1 DEF traderVars
<1>2. ASSUME NEW t \in Threads, Strategy(t)
      PROVE  UNCHANGED <<book, traderVars>>
  BY <1>2 DEF Strategy, BuySignal, SellSignal, GetFeedback, Refused, Fulfilled, SetBought,
              ReadPrice, SetPrice, Access, WakeUp
<1>3. CASE MarketCloses
  BY <1>3 DEF MarketCloses, CloseOrder, traderVars
<1>4. CASE Die
  BY <1>4 DEF Die
<1> QED
  BY <1>1, <1>2, <1>3, <1>4, DecisorRepeats DEF Next, PlainBuy, vars

\* A message that is worked on again (trader.cc:294-298) leaves behind only
\* orders whose answer was lost: the retry never repeats an order that place
\* has told the decisor of.
THEOREM OnlyLostAreRepeated == Spec => []OnlyLostOrdersAreRepeated
<1>1. Init => OnlyLostOrdersAreRepeated
  BY DEF Init, TraderInit, OnlyLostOrdersAreRepeated
<1> QED
  BY <1>1, NextRepeats, TypesCorrect, PTL DEF Spec

\* As long as no answer is lost, a message is worked on again only before the
\* market has accepted anything for it.
NothingBehind == (at # "reply" => attempts = {}) /\ OneOrderPerMessage

LEMMA NextNothingBehind ==
    ASSUME Types, NothingBehind, [Next]_vars, \A x \in TxIds : ~PlaceLost(x)
    PROVE  NothingBehind'
<1> USE DEF NothingBehind, OneOrderPerMessage
<1>1. Cardinality({}) = 0 /\ \A x : Cardinality({x}) = 1
  BY FS_EmptySet, FS_Singleton
<1>2. CASE TakeMessage \/ Reply \/ Die
  <2>1. attempts' = {}
    BY <1>2 DEF TakeMessage, Reply, Die
  <2> QED
    BY <1>1, <2>1
<1>3. CASE SizeOrder \/ PlaceFails
  BY <1>3 DEF SizeOrder, PlaceFails
<1>4. ASSUME NEW x \in FreshIds, Place(x)
      PROVE  NothingBehind'
  <2>1. attempts' = {x} /\ at' = "reply"
    BY <1>4 DEF Place, NoRetry
  <2>2. Cardinality(attempts') = 1
    BY <1>1, <2>1
  <2> QED
    BY <2>1, <2>2
<1>5. CASE UNCHANGED traderVars
  BY <1>5 DEF traderVars
<1> QED
  BY <1>2, <1>3, <1>4, <1>5
     DEF Next, Decisor, Strategy, PlainBuy, MarketCloses, vars, FreshIds

(***************************************************************************)
(* What trader.cc:288-293 counts on: if place never throws although the    *)
(* market has accepted the order, a message becomes one order at most,     *)
(* however often a server_error makes the decisor start it again.          *)
(***************************************************************************)
THEOREM RepeatNeedsALostAnswer ==
    Spec /\ [][\A x \in TxIds : ~PlaceLost(x)]_vars => []OneOrderPerMessage
<1>1. Init => NothingBehind
  <2>1. Cardinality({}) = 0
    BY FS_EmptySet
  <2> QED
    BY <2>1 DEF Init, TraderInit, NothingBehind, OneOrderPerMessage
<1>2. Types /\ NothingBehind /\ [Next]_vars /\ [\A x \in TxIds : ~PlaceLost(x)]_vars
        => NothingBehind'
  <2> SUFFICES ASSUME Types, NothingBehind, [Next]_vars,
                      [\A x \in TxIds : ~PlaceLost(x)]_vars
               PROVE  NothingBehind'
    OBVIOUS
  <2>1. CASE UNCHANGED vars
    BY <2>1 DEF vars, traderVars, NothingBehind, OneOrderPerMessage
  <2> QED
    BY <2>1, NextNothingBehind
<1>3. NothingBehind => OneOrderPerMessage
  BY DEF NothingBehind
<1> QED
  BY <1>1, <1>2, <1>3, TypesCorrect, PTL DEF Spec

-----------------------------------------------------------------------------
(***************************************************************************)
(* No orphan: the open orders and those who look after them                *)
(***************************************************************************)
LEMMA LookedAfterMembers ==
    ASSUME NEW s, NEW x
    PROVE  x \in LookedAfter(s) <=>
              \/ \E side \in Tracking(s) : held[<<s, side>>].txid = x
              \/ \E i \in DOMAIN feedback[s] : feedback[s][i].txid = x
              \/ InHand(s) = 1 /\ order.txid = x
BY DEF LookedAfter, InHand

LEMMA OpenOrdersAreIds ==
    ASSUME Types, NEW s, NEW x \in OpenOrdersOf(s)
    PROVE  x \in DOMAIN book /\ x \in TxIds /\ x # NoTx
BY MessagesAssumption DEF Types, ExchangeTypeOK, OpenOrdersOf

\* What a step does not take out of care stays in care.
LEMMA OrphanFrame ==
    ASSUME NEW s, OpenOrdersOf(s) \subseteq LookedAfter(s),
           OpenOrdersOf(s)' \subseteq OpenOrdersOf(s),
           \A x \in OpenOrdersOf(s)' : x \in LookedAfter(s) => x \in LookedAfter(s)'
    PROVE  OpenOrdersOf(s)' \subseteq LookedAfter(s)'
OBVIOUS

LEMMA PlaceCare ==
    ASSUME Types, InHandSound, NEW x \in FreshIds, Place(x), UNCHANGED smallChangesVars,
           NEW s \in Strategies, OpenOrdersOf(s) \subseteq LookedAfter(s)
    PROVE  OpenOrdersOf(s)' \subseteq LookedAfter(s)'
<1>1. /\ order \in Order /\ order.txid = NoTx /\ order'.txid = x
      /\ at' = "reply" /\ message' = message
  BY DEF Place, NoRetry, InHandSound, Unplaced, Types, TraderTypeOK, Order
<1>2. ASSUME NEW y \in OpenOrdersOf(s)'
      PROVE  y \in OpenOrdersOf(s) \/ (y = x /\ message.feedback = s)
  BY <1>2 DEF Place, Accept, OpenOrdersOf
<1>3. ASSUME NEW y \in OpenOrdersOf(s)
      PROVE  y \in LookedAfter(s)'
  <2>1. y \in LookedAfter(s) /\ y # order.txid
    BY <1>1, <1>3, OpenOrdersAreIds
  <2>2. \/ \E side \in Tracking(s) : held[<<s, side>>].txid = y
        \/ \E i \in DOMAIN feedback[s] : feedback[s][i].txid = y
    BY <2>1, LookedAfterMembers
  <2> QED
    BY <2>2 DEF LookedAfter, Tracking, Place, mailVars, smallChangesVars
<1>4. message.feedback = s => x \in LookedAfter(s)'
  BY <1>1 DEF LookedAfter, InHand
<1> QED
  BY <1>2, <1>3, <1>4

LEMMA ReplyCare ==
    ASSUME Types, Reply, UNCHANGED smallChangesVars,
           NEW s \in Strategies, OpenOrdersOf(s) \subseteq LookedAfter(s)
    PROVE  OpenOrdersOf(s)' \subseteq LookedAfter(s)'
<1>1. OpenOrdersOf(s)' = OpenOrdersOf(s)
  BY DEF Reply, OpenOrdersOf
<1>2. feedback[s] \in Seq(Order) /\ order \in Order /\ s # NoFeedback
  BY MessagesAssumption DEF Types, MailTypeOK, TraderTypeOK
<1>3. feedback'[s] = IF message.feedback = s THEN Append(feedback[s], order)
                                             ELSE feedback[s]
  BY <1>2 DEF Reply, Answer, PutFeedback, Types, MailTypeOK
<1>4. ASSUME NEW x, x \in LookedAfter(s)
      PROVE  x \in LookedAfter(s)'
  <2>1. CASE \E side \in Tracking(s) : held[<<s, side>>].txid = x
    BY <2>1 DEF LookedAfter, Tracking, smallChangesVars
  <2>2. ASSUME NEW i \in DOMAIN feedback[s], feedback[s][i].txid = x
        PROVE  x \in LookedAfter(s)'
    <3>1. i \in DOMAIN feedback'[s] /\ feedback'[s][i] = feedback[s][i]
      BY <1>2, <1>3, <2>2
    <3> QED
      BY <2>2, <3>1 DEF LookedAfter
  <2>3. ASSUME InHand(s) = 1, order.txid = x
        PROVE  x \in LookedAfter(s)'
    <3>1. feedback'[s] = Append(feedback[s], order)
      BY <1>3, <2>3 DEF InHand
    <3>2. LET n == Len(feedback[s]) + 1
          IN  n \in DOMAIN feedback'[s] /\ feedback'[s][n] = order
      BY <1>2, <3>1
    <3> QED
      BY <2>3, <3>2 DEF LookedAfter
  <2> QED
    BY <1>4, <2>1, <2>2, <2>3, LookedAfterMembers
<1> QED
  BY <1>1, <1>4

LEMMA OtherDecisorCare ==
    ASSUME Types, UNCHANGED smallChangesVars,
           TakeMessage \/ SizeOrder \/ PlaceFails \/ \E x \in FreshIds : PlaceLost(x),
           NEW s \in Strategies, OpenOrdersOf(s) \subseteq LookedAfter(s)
    PROVE  OpenOrdersOf(s)' \subseteq LookedAfter(s)'
<1>1. OpenOrdersOf(s)' \subseteq OpenOrdersOf(s)
  <2>1. CASE TakeMessage \/ SizeOrder \/ PlaceFails
    BY <2>1 DEF TakeMessage, SizeOrder, PlaceFails, OpenOrdersOf
  <2>2. ASSUME NEW x \in FreshIds, PlaceLost(x)
        PROVE  OpenOrdersOf(s)' \subseteq OpenOrdersOf(s)
    BY <2>2 DEF PlaceLost, Accept, OpenOrdersOf
  <2> QED
    BY <2>1, <2>2
<1>2. LookedAfter(s) \subseteq LookedAfter(s)'
  <2>1. feedback' = feedback /\ held' = held /\ pc' = pc
    BY DEF TakeMessage, SizeOrder, PlaceFails, PlaceLost, mailVars, smallChangesVars
  <2>2. InHand(s) = 1 => InHand(s)' = 1 /\ order'.txid = order.txid
    <3>1. CASE TakeMessage
      BY <3>1 DEF TakeMessage, InHand
    <3>2. CASE SizeOrder
      <4>1. order'.txid = order.txid
        <5>1. order \in Order
          BY DEF Types, TraderTypeOK
        <5> QED
          BY <3>2, <5>1 DEF SizeOrder, Order
      <4> QED
        BY <3>2, <4>1 DEF SizeOrder, InHand
    <3>3. CASE PlaceFails \/ \E x \in FreshIds : PlaceLost(x)
      BY <3>3 DEF PlaceFails, PlaceLost, InHand
    <3> QED
      BY <3>1, <3>2, <3>3
  <2> QED
    BY <2>1, <2>2 DEF LookedAfter, Tracking
<1> QED
  BY <1>1, <1>2

LEMMA GetFeedbackCare ==
    ASSUME Types, NEW t \in Threads, GetFeedback(t), UNCHANGED traderVars,
           NEW s \in Strategies, OpenOrdersOf(s) \subseteq LookedAfter(s)
    PROVE  OpenOrdersOf(s)' \subseteq LookedAfter(s)'
<1>1. /\ t[1] \in Strategies /\ t[2] \in Sides /\ t = <<t[1], t[2]>>
      /\ \A side \in Sides : <<s, side>> \in Threads
      /\ pc[t] = "await"
  BY DEF Threads, GetFeedback, Refused
<1>2. OpenOrdersOf(s)' = OpenOrdersOf(s)
  BY DEF GetFeedback, Refused, OpenOrdersOf
<1>3. ASSUME NEW side \in Tracking(s)
      PROVE  side \in Tracking(s)' /\ held'[<<s, side>>] = held[<<s, side>>]
  <2>1. side \in Sides /\ <<s, side>> # t
    BY <1>1, <1>3 DEF Tracking
  <2>2. pc'[<<s, side>>] = pc[<<s, side>>] /\ held'[<<s, side>>] = held[<<s, side>>]
    BY <1>1, <2>1 DEF GetFeedback, Refused, Goto, Types, SmallChangesTypeOK
  <2> QED
    BY <1>3, <2>2 DEF Tracking
<1>4. ASSUME NEW x \in OpenOrdersOf(s)
      PROVE  x \in LookedAfter(s)'
  <2>1. x \in LookedAfter(s) /\ x # NoTx
    BY <1>4, OpenOrdersAreIds
  <2>2. CASE \E side \in Tracking(s) : held[<<s, side>>].txid = x
    BY <1>3, <2>2 DEF LookedAfter
  <2>3. ASSUME NEW i \in DOMAIN feedback[s], feedback[s][i].txid = x
        PROVE  x \in LookedAfter(s)'
    <3>1. feedback[s] \in Seq(Order)
      BY DEF Types, MailTypeOK
    <3>2. CASE s # t[1]
      <4>1. feedback'[s] = feedback[s]
        BY <3>2 DEF GetFeedback, Refused, PopFeedback, Types, MailTypeOK
      <4> QED
        BY <2>3, <4>1 DEF LookedAfter
    <3>3. CASE s = t[1] /\ i = 1
      <4>1. Head(feedback[s]) = feedback[s][i]
        BY <3>1, <3>3
      <4>2. held'[t] = feedback[s][i] /\ pc'[t] = "track"
        BY <1>1, <2>1, <2>3, <3>3, <4>1
           DEF GetFeedback, Refused, Goto, Types, SmallChangesTypeOK
      <4>3. t[2] \in Tracking(s)' /\ held'[<<s, t[2]>>].txid = x
        BY <1>1, <2>3, <3>3, <4>2 DEF Tracking
      <4> QED
        BY <4>3 DEF LookedAfter
    <3>4. CASE s = t[1] /\ i # 1
      <4>1. feedback'[s] = Tail(feedback[s])
        BY <1>1, <3>4 DEF GetFeedback, Refused, PopFeedback, Types, MailTypeOK
      <4>2. i - 1 \in DOMAIN feedback'[s] /\ feedback'[s][i - 1] = feedback[s][i]
        BY <2>3, <3>1, <3>4, <4>1
      <4> QED
        BY <2>3, <4>2 DEF LookedAfter
    <3> QED
      BY <3>2, <3>3, <3>4
  <2>4. CASE InHand(s) = 1 /\ order.txid = x
    BY <2>4 DEF LookedAfter, InHand, traderVars
  <2> QED
    BY <2>1, <2>2, <2>3, <2>4, LookedAfterMembers
<1> QED
  BY <1>2, <1>4

\* The other steps of a thread give up at most an order that is closed.
LEMMA OtherStrategyCare ==
    ASSUME Types, NEW t \in Threads, Strategy(t), ~GetFeedback(t),
           NEW s \in Strategies, OpenOrdersOf(s) \subseteq LookedAfter(s)
    PROVE  OpenOrdersOf(s)' \subseteq LookedAfter(s)'
<1>1. /\ t[1] \in Strategies /\ t[2] \in Sides /\ t = <<t[1], t[2]>>
      /\ <<t[1], "buy">> \in Threads /\ <<t[1], "sell">> \in Threads
      /\ \A side \in Sides : <<s, side>> \in Threads
  BY DEF Threads, Sides
<1>2. UNCHANGED <<book, life, feedback, traderVars>>
  BY DEF Strategy, BuySignal, SellSignal, Fulfilled, SetBought, ReadPrice, SetPrice,
         Access, WakeUp, mailVars
<1>3. PICK u \in Threads :
          /\ pc[u] # "track" \/ held[u].txid \notin DOMAIN book
          /\ \A v \in Threads \ {u} : pc'[v] = pc[v] /\ held'[v] = held[v]
  <2>1. CASE BuySignal(t[1])
    BY <1>1, <2>1 DEF BuySignal, Goto, Types, SmallChangesTypeOK
  <2>2. CASE SellSignal(t[1])
    BY <1>1, <2>2 DEF SellSignal, Goto, Types, SmallChangesTypeOK
  <2>3. CASE Fulfilled(t)
    BY <2>3 DEF Fulfilled, Listed, IsOpen, Goto, Types, SmallChangesTypeOK
  <2>4. CASE SetBought(t) \/ ReadPrice(t) \/ SetPrice(t)
    BY <2>4 DEF SetBought, ReadPrice, SetPrice, Access, Goto, Types, SmallChangesTypeOK
  <2>5. CASE WakeUp(t)
    BY <2>5 DEF WakeUp, Goto, Types, SmallChangesTypeOK
  <2> QED
    BY <2>1, <2>2, <2>3, <2>4, <2>5 DEF Strategy
<1>4. ASSUME NEW side \in Tracking(s), held[<<s, side>>].txid \in DOMAIN book
      PROVE  side \in Tracking(s)' /\ held'[<<s, side>>] = held[<<s, side>>]
  <2>1. side \in Sides /\ <<s, side>> \in Threads \ {u}
    BY <1>1, <1>3, <1>4 DEF Tracking
  <2> QED
    BY <1>3, <1>4, <2>1 DEF Tracking
<1>5. ASSUME NEW x \in OpenOrdersOf(s)
      PROVE  x \in LookedAfter(s)'
  <2>1. x \in LookedAfter(s) /\ x \in DOMAIN book
    BY <1>5, OpenOrdersAreIds
  <2>2. CASE \E side \in Tracking(s) : held[<<s, side>>].txid = x
    BY <1>4, <2>1, <2>2 DEF LookedAfter
  <2>3. CASE \E i \in DOMAIN feedback[s] : feedback[s][i].txid = x
    BY <1>2, <2>3 DEF LookedAfter
  <2>4. CASE InHand(s) = 1 /\ order.txid = x
    BY <1>2, <2>4 DEF LookedAfter, InHand, traderVars
  <2> QED
    BY <2>1, <2>2, <2>3, <2>4, LookedAfterMembers
<1> QED
  BY <1>2, <1>5 DEF OpenOrdersOf

LEMMA NextPast == Types /\ BookFromThePast /\ [Next]_vars => BookFromThePast'
<1> SUFFICES ASSUME Types, BookFromThePast, [Next]_vars
             PROVE  BookFromThePast'
  OBVIOUS
<1>1. life \in Nat
  BY DEF Types, ExchangeTypeOK
<1>2. ASSUME NEW x \in FreshIds, Place(x) \/ PlaceLost(x)
      PROVE  BookFromThePast'
  BY <1>1, <1>2 DEF Place, PlaceLost, Accept, BookFromThePast
<1>3. CASE MarketCloses
  BY <1>3 DEF MarketCloses, CloseOrder, BookFromThePast
<1>4. CASE Die
  <2>1. book' = book /\ life' = life + 1
    BY <1>4 DEF Die
  <2>2. \A x \in DOMAIN book : book[x].life \in Nat
    BY DEF Types, ExchangeTypeOK, OpenOrder
  <2> QED
    BY <1>1, <2>1, <2>2 DEF BookFromThePast
<1>5. CASE UNCHANGED <<book, life>>
  BY <1>5 DEF BookFromThePast
<1>6. CASE Decisor
  BY <1>2, <1>5, <1>6 DEF Decisor, TakeMessage, SizeOrder, PlaceFails, Reply
<1>7. ASSUME NEW t \in Threads, Strategy(t)
      PROVE  BookFromThePast'
  BY <1>5, <1>7 DEF Strategy, BuySignal, SellSignal, GetFeedback, Refused, Fulfilled, SetBought,
                    ReadPrice, SetPrice, Access, WakeUp
<1> QED
  BY <1>3, <1>4, <1>5, <1>6, <1>7 DEF Next, PlainBuy, vars

LEMMA NextCare ==
    Types /\ InHandSound /\ BookFromThePast /\ NoOrphanOrder /\ [Next]_vars
        => NoOrphanOrder'
<1> SUFFICES ASSUME Types, InHandSound, BookFromThePast, NoOrphanOrder, [Next]_vars,
                    NEW s \in Strategies
             PROVE  OpenOrdersOf(s)' \subseteq LookedAfter(s)'
  BY DEF NoOrphanOrder
<1>1. OpenOrdersOf(s) \subseteq LookedAfter(s)
  BY DEF NoOrphanOrder
<1>2. CASE Decisor
  BY <1>1, <1>2, PlaceCare, ReplyCare, OtherDecisorCare DEF Decisor
<1>3. ASSUME NEW t \in Threads, Strategy(t)
      PROVE  OpenOrdersOf(s)' \subseteq LookedAfter(s)'
  <2>1. UNCHANGED traderVars
    BY <1>3 DEF Strategy
  <2> QED
    BY <1>1, <1>3, <2>1, GetFeedbackCare, OtherStrategyCare
<1>4. CASE PlainBuy \/ MarketCloses \/ UNCHANGED vars
  <2>1. OpenOrdersOf(s)' \subseteq OpenOrdersOf(s)
    BY <1>4 DEF PlainBuy, MarketCloses, CloseOrder, vars, OpenOrdersOf
  <2>2. LookedAfter(s)' = LookedAfter(s)
    BY <1>4 DEF PlainBuy, MarketCloses, vars, mailVars, traderVars, smallChangesVars,
                LookedAfter, Tracking, InHand
  <2> QED
    BY <1>1, <2>1, <2>2
<1>5. CASE Die
  <2>1. life \in Nat /\ book' = book /\ life' = life + 1
    BY <1>5 DEF Die, Types, ExchangeTypeOK
  <2>2. \A x \in DOMAIN book : book[x].life \in Nat /\ book[x].life <= life
    BY DEF Types, ExchangeTypeOK, OpenOrder, BookFromThePast
  <2>3. \A x \in DOMAIN book : book[x].life # life'
    BY <2>1, <2>2
  <2>4. OpenOrdersOf(s)' = {}
    BY <2>1, <2>3 DEF OpenOrdersOf
  <2> QED
    BY <2>4
<1> QED
  BY <1>2, <1>3, <1>4, <1>5 DEF Next

\* An order whose answer arrived is never forgotten while it is open and the
\* process lives: trader.cc:276-281 hands its id on, the feedback channel keeps
\* it, and smallchanges.cc:94-124 and :264-296 poll it, whichever thread got it.
THEOREM NoOrderIsForgotten == Spec => []NoOrphanOrder
<1> DEFINE Care == OrdersOnTheWay /\ BookFromThePast /\ NoOrphanOrder
<1>1. Init => Care
  <2>1. Init => BookFromThePast /\ NoOrphanOrder
    BY DEF Init, ExchangeInit, BookFromThePast, NoOrphanOrder, OpenOrdersOf
  <2> QED
    BY <2>1, InitOrders
<1>2. Types /\ Care /\ [Next]_vars => Care'
  BY NextOrders, NextPast, NextCare DEF OrdersOnTheWay
<1>3. Care => NoOrphanOrder
  OBVIOUS
<1> HIDE DEF Care
<1> QED
  BY <1>1, <1>2, <1>3, TypesCorrect, PTL DEF Spec

-----------------------------------------------------------------------------
(***************************************************************************)
(* Exposure                                                                *)
(***************************************************************************)

\* A set listed by the elements of another is no larger.
LEMMA ImageNoLarger ==
    ASSUME NEW S, IsFiniteSet(S), NEW f, DOMAIN f = S
    PROVE  LET T == {f[i] : i \in S}
           IN  IsFiniteSet(T) /\ Cardinality(T) <= Cardinality(S)
<1> DEFINE T == {f[i] : i \in S}
           g == [i \in S |-> f[i]]
<1>1. g \in Surjection(S, T)
  BY DEF Surjection
<1> QED
  BY <1>1, FS_Surjection

LEMMA UnionNoLarger ==
    ASSUME NEW S, NEW T, IsFiniteSet(S), IsFiniteSet(T)
    PROVE  IsFiniteSet(S \cup T)
           /\ Cardinality(S \cup T) <= Cardinality(S) + Cardinality(T)
           /\ (S \cap T = {} => Cardinality(S \cup T) = Cardinality(S) + Cardinality(T))
<1>1. IsFiniteSet(S \cap T)
  BY FS_Subset
<1>2. /\ Cardinality(S) \in Nat /\ Cardinality(T) \in Nat
      /\ Cardinality(S \cap T) \in Nat
  BY <1>1, FS_CardinalityType
<1>3. S \cap T = {} => Cardinality(S \cap T) = 0
  BY FS_EmptySet
<1> QED
  BY <1>2, <1>3, FS_Union

LEMMA CareIsBounded ==
    ASSUME Types, NEW s \in Strategies
    PROVE  /\ IsFiniteSet(LookedAfter(s))
           /\ Cardinality(LookedAfter(s)) <=
                  Cardinality(Tracking(s)) + Len(feedback[s]) + InHand(s)
<1> DEFINE f == [side \in Tracking(s) |-> held[<<s, side>>].txid]
           g == [i \in DOMAIN feedback[s] |-> feedback[s][i].txid]
           T == {f[side] : side \in Tracking(s)}
           F == {g[i] : i \in DOMAIN feedback[s]}
           H == IF InHand(s) = 1 THEN {order.txid} ELSE {}
<1>1. IsFiniteSet(T) /\ Cardinality(T) <= Cardinality(Tracking(s))
  <2>1. IsFiniteSet(Tracking(s)) /\ DOMAIN f = Tracking(s)
    BY AwaitingFinite
  <2> HIDE DEF f
  <2> QED
    BY <2>1, ImageNoLarger
<1>2. IsFiniteSet(F) /\ Cardinality(F) <= Len(feedback[s])
  <2>1. DOMAIN feedback[s] = 1 .. Len(feedback[s]) /\ Len(feedback[s]) \in Nat
    BY DEF Types, MailTypeOK
  <2>2. /\ IsFiniteSet(DOMAIN feedback[s])
        /\ Cardinality(DOMAIN feedback[s]) = Len(feedback[s])
    BY <2>1, FS_Interval
  <2>3. DOMAIN g = DOMAIN feedback[s]
    OBVIOUS
  <2> HIDE DEF g
  <2> QED
    BY <2>2, <2>3, ImageNoLarger
<1>3. IsFiniteSet(H) /\ Cardinality(H) = InHand(s) /\ InHand(s) \in Nat
  BY FS_EmptySet, FS_Singleton DEF InHand
<1>4. LookedAfter(s) = (T \cup F) \cup H
  BY DEF LookedAfter
<1> HIDE DEF T, F, H
<1>5. IsFiniteSet(T \cup F) /\ Cardinality(T \cup F) <= Cardinality(T) + Cardinality(F)
  BY <1>1, <1>2, UnionNoLarger
<1>6. /\ IsFiniteSet((T \cup F) \cup H)
      /\ Cardinality((T \cup F) \cup H) <= Cardinality(T \cup F) + Cardinality(H)
  BY <1>3, <1>5, UnionNoLarger
<1>7. /\ Cardinality(T) \in Nat /\ Cardinality(F) \in Nat
      /\ Cardinality(T \cup F) \in Nat /\ Cardinality((T \cup F) \cup H) \in Nat
      /\ Cardinality(Tracking(s)) \in Nat /\ Len(feedback[s]) \in Nat
  BY <1>1, <1>2, <1>5, <1>6, FS_CardinalityType, AwaitingFinite, CountsAreNumbers
<1> QED
  BY <1>1, <1>2, <1>3, <1>4, <1>5, <1>6, <1>7

LEMMA BalanceBoundsExposure ==
    Types /\ OneFeedbackPerWaiter /\ NoOrphanOrder => ExposureBounded
<1> SUFFICES ASSUME Types, OneFeedbackPerWaiter, NoOrphanOrder, NEW s \in Strategies
             PROVE  Cardinality(OpenOrdersOf(s)) <=
                        Cardinality(Awaiting(s) \cup Tracking(s))
  BY DEF ExposureBounded
<1>1. /\ IsFiniteSet(OpenOrdersOf(s))
      /\ Cardinality(OpenOrdersOf(s)) <= Cardinality(LookedAfter(s))
  BY CareIsBounded, FS_Subset DEF NoOrphanOrder
<1>2. Cardinality(Awaiting(s) \cup Tracking(s)) =
          Cardinality(Awaiting(s)) + Cardinality(Tracking(s))
  <2>1. Awaiting(s) \cap Tracking(s) = {}
    BY DEF Awaiting, Tracking
  <2> QED
    BY <2>1, AwaitingFinite, UnionNoLarger
<1>3. Cardinality(Awaiting(s)) = Cardinality(Queued(s)) + InHand(s) + Len(feedback[s])
  BY DEF OneFeedbackPerWaiter
<1>4. Cardinality(LookedAfter(s)) <=
          Cardinality(Tracking(s)) + Len(feedback[s]) + InHand(s)
  BY CareIsBounded
<1>5. /\ Cardinality(OpenOrdersOf(s)) \in Nat /\ Cardinality(LookedAfter(s)) \in Nat
      /\ Cardinality(Tracking(s)) \in Nat /\ Cardinality(Queued(s)) \in Nat
      /\ InHand(s) \in {0, 1} /\ Len(feedback[s]) \in Nat
  BY <1>1, CareIsBounded, FS_CardinalityType, AwaitingFinite, CountsAreNumbers
<1> QED
  BY <1>1, <1>2, <1>3, <1>4, <1>5

\* A strategy (smallchanges.cc) has no more orders open, of those the process
\* was told of, than it has threads that wait for an answer or poll an order:
\* the balance of feedbacks and the care for open orders together say so.
THEOREM ExposureIsBounded == Spec => []ExposureBounded
BY BalanceBoundsExposure, TypesCorrect, FeedbackBalances, NoOrderIsForgotten, PTL
=============================================================================
