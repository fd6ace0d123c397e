--------------------------- MODULE PositionProofs ---------------------------
(***************************************************************************)
(* The position of a SmallChanges object, _bought and _price, for any      *)
(* number of strategies, prices and lives.  What the two threads write is  *)
(* half done while one of them records, so the invariant says what each    *)
(* has written so far, as long as they have never recorded at once.  The   *)
(* price that is written is positive because the feedback of a placed      *)
(* order has a price (PlacedOrdersAreDone).                                *)
(*                                                                         *)
(* And its open orders: as long as its two threads do not wait at once,    *)
(* they are one per side at most.                                          *)
(***************************************************************************)
EXTENDS TradingProofs

Buyer(s) == <<s, "buy">>
Seller(s) == <<s, "sell">>

Recording(t) == pc[t] = "record"

\* What a thread that records has written, and nothing else was since.
BuyerWrote(s) ==
    Recording(Buyer(s)) =>
        /\ "bought" \in todo[Buyer(s)] \/ bought[s] = TRUE
        /\ "price" \in todo[Buyer(s)] \/ price[s] > 0

SellerWrote(s) ==
    Recording(Seller(s)) =>
        /\ "bought" \in todo[Seller(s)] \/ bought[s] = FALSE
        /\ "price" \in todo[Seller(s)] \/ price[s] = 0

Settled(s) ==
    ~Recording(Buyer(s)) /\ ~Recording(Seller(s)) =>
        \/ bought[s] = TRUE /\ price[s] > 0
        \/ bought[s] = FALSE /\ price[s] = 0

OneRecords(s) == ~(Recording(Buyer(s)) /\ Recording(Seller(s)))

PositionOf(s) ==
    overlap[s] = FALSE =>
        OneRecords(s) /\ BuyerWrote(s) /\ SellerWrote(s) /\ Settled(s)

\* Orders that were placed, and may be recorded, have a price.
HeldPriced == \A t \in Threads : pc[t] \in {"track", "record"} => held[t].price > 0

PositionInv == HeldPriced /\ \A s \in Strategies : PositionOf(s)

-----------------------------------------------------------------------------
\* The two threads of an object, and what the types say of its fields.
LEMMA ObjectTypes ==
  ASSUME Types, NEW s \in Strategies
  PROVE  /\ Buyer(s) \in Threads /\ Seller(s) \in Threads /\ Buyer(s) # Seller(s)
         /\ price[s] \in Nat /\ seen[s] \in Nat
         /\ bought[s] \in BOOLEAN /\ overlap[s] \in BOOLEAN
<1>1. Prices \cup {0} \subseteq Nat
  BY MessagesAssumption DEF MessagesAssumption
<1>2. price[s] \in Prices \cup {0} /\ seen[s] \in Prices \cup {0}
  BY DEF Types, SmallChangesTypeOK
<1>3. bought[s] \in BOOLEAN /\ overlap[s] \in BOOLEAN
  BY DEF Types, SmallChangesTypeOK
<1>4. Buyer(s) \in Threads /\ Seller(s) \in Threads /\ Buyer(s) # Seller(s)
  BY DEF Threads, Sides, Buyer, Seller
<1>5. QED
  BY <1>1, <1>2, <1>3, <1>4

\* A thread is one of the two of its object.
LEMMA ThreadIsOneOfTwo ==
  ASSUME NEW t \in Threads
  PROVE  /\ t[1] \in Strategies
         /\ \/ t = Buyer(t[1]) /\ Side(t) = "buy" /\ Other(t) = Seller(t[1])
            \/ t = Seller(t[1]) /\ Side(t) = "sell" /\ Other(t) = Buyer(t[1])
  BY DEF Threads, Sides, Side, Other, Buyer, Seller

\* A step of t leaves the other objects alone.
LEMMA OtherObject ==
  ASSUME Types, NEW t \in Threads, NEW s \in Strategies, s # t[1], PositionOf(s),
         \A u \in Threads : u # t => pc'[u] = pc[u] /\ todo'[u] = todo[u],
         bought'[s] = bought[s], price'[s] = price[s], overlap'[s] = overlap[s]
  PROVE  PositionOf(s)'
<1>1. Buyer(s) \in Threads /\ Seller(s) \in Threads
  BY ObjectTypes
<1>2. Buyer(s) # t /\ Seller(s) # t
  BY DEF Buyer, Seller
<1>3. QED
  BY <1>1, <1>2 DEF PositionOf, OneRecords, BuyerWrote, SellerWrote, Settled, Recording

\* So does a step of t that neither begins nor ends a record, for its own.
LEMMA NotRecording ==
  ASSUME Types, NEW t \in Threads, NEW s \in Strategies, PositionOf(s),
         pc[t] # "record", pc'[t] # "record",
         \A u \in Threads : u # t => pc'[u] = pc[u] /\ todo'[u] = todo[u],
         bought'[s] = bought[s], price'[s] = price[s], overlap'[s] = overlap[s]
  PROVE  PositionOf(s)'
<1>1. Buyer(s) \in Threads /\ Seller(s) \in Threads
  BY ObjectTypes
<1>2. \A u \in {Buyer(s), Seller(s)} :
         /\ Recording(u)' <=> Recording(u)
         /\ Recording(u) => todo'[u] = todo[u]
  BY <1>1 DEF Recording
<1>3. QED
  BY <1>2 DEF PositionOf, OneRecords, BuyerWrote, SellerWrote, Settled, Recording

\* A thread that begins to record has everything to write.
LEMMA FulfilledPosition ==
  ASSUME Types, PositionInv, NEW t \in Threads, Fulfilled(t)
  PROVE  PositionInv'
<1>1. /\ pc \in [Threads -> Places] /\ held \in [Threads -> Order]
      /\ todo \in [Threads -> SUBSET Accesses] /\ overlap \in [Strategies -> BOOLEAN]
  BY DEF Types, SmallChangesTypeOK
<1>2. \A u \in Threads : u # t => pc'[u] = pc[u] /\ todo'[u] = todo[u] /\ held'[u] = held[u]
  BY <1>1 DEF Fulfilled, Goto
<1>3. pc[t] = "track" /\ bought' = bought /\ price' = price
  BY DEF Fulfilled
<1>4. t[1] \in Strategies
  BY ThreadIsOneOfTwo
<1>5. CASE ToRecord(t) = {}
  <2>1. pc'[t] = "rest" /\ overlap' = overlap
    BY <1>1, <1>5 DEF Fulfilled, Goto
  <2>2. HeldPriced'
    BY <1>2, <2>1 DEF PositionInv, HeldPriced
  <2>3. \A s \in Strategies : PositionOf(s)'
    BY <1>2, <1>3, <2>1, NotRecording DEF PositionInv
  <2>4. QED
    BY <2>2, <2>3 DEF PositionInv
<1>6. CASE ToRecord(t) # {}
  <2>1. /\ pc'[t] = "record" /\ todo'[t] = ToRecord(t) /\ held' = held
        /\ "bought" \in ToRecord(t) /\ "price" \in ToRecord(t)
    BY <1>1, <1>6 DEF Fulfilled, Goto, ToRecord, Accesses
  <2>2. HeldPriced'
    BY <1>2, <1>3, <2>1 DEF PositionInv, HeldPriced
  <2>3. ASSUME NEW s \in Strategies PROVE PositionOf(s)'
    <3>1. CASE s # t[1]
      BY <1>1, <1>2, <1>3, <1>6, <3>1, OtherObject DEF Fulfilled, PositionInv
    <3>2. CASE s = t[1]
      <4>1. overlap'[s] = (overlap[s] \/ pc[Other(t)] = "record")
        BY <1>1, <1>4, <1>6, <3>2 DEF Fulfilled
      <4>2. /\ Buyer(s) \in Threads /\ Seller(s) \in Threads /\ Buyer(s) # Seller(s)
            /\ overlap[s] \in BOOLEAN
        BY ObjectTypes
      <4>3. Other(t) \in Threads /\ Other(t) # t
        BY <3>2, <4>2, ThreadIsOneOfTwo
      <4>4. ASSUME overlap'[s] = FALSE PROVE ~Recording(Other(t))'
        BY <1>2, <4>1, <4>3, <4>4 DEF Recording
      <4>5. CASE t = Buyer(s)
        <5>1. Other(t) = Seller(s)
          BY <3>2, <4>2, <4>5, ThreadIsOneOfTwo
        <5>2. QED
          BY <2>1, <4>4, <4>5, <5>1
             DEF PositionOf, OneRecords, BuyerWrote, SellerWrote, Settled, Recording
      <4>6. CASE t = Seller(s)
        <5>1. Other(t) = Buyer(s)
          BY <3>2, <4>2, <4>6, ThreadIsOneOfTwo
        <5>2. QED
          BY <2>1, <4>4, <4>6, <5>1
             DEF PositionOf, OneRecords, BuyerWrote, SellerWrote, Settled, Recording
      <4>7. QED
        BY <3>2, <4>5, <4>6, ThreadIsOneOfTwo
    <3>3. QED
      BY <3>1, <3>2
  <2>4. QED
    BY <2>2, <2>3 DEF PositionInv
<1>7. QED
  BY <1>5, <1>6

\* The access a of t, when it is the last one and when it is not.
LEMMA AccessSteps ==
  ASSUME Types, NEW t \in Threads, NEW a \in Accesses, Access(t, a)
  PROVE  /\ pc[t] = "record" /\ a \in todo[t]
         /\ todo'[t] = todo[t] \ {a}
         /\ \/ todo'[t] = {} /\ pc'[t] = "rest"
            \/ todo'[t] # {} /\ pc'[t] = "record" /\ held' = held
         /\ \A u \in Threads : u # t =>
                pc'[u] = pc[u] /\ todo'[u] = todo[u] /\ held'[u] = held[u]
         /\ overlap' = overlap
<1>1. /\ pc \in [Threads -> Places] /\ held \in [Threads -> Order]
      /\ todo \in [Threads -> SUBSET Accesses]
  BY DEF Types, SmallChangesTypeOK
<1>2. pc[t] = "record" /\ a \in todo[t] /\ todo'[t] = todo[t] \ {a} /\ overlap' = overlap
  BY <1>1 DEF Access
<1>3. CASE todo[t] = {a}
  BY <1>1, <1>2, <1>3 DEF Access, Goto
<1>4. CASE todo[t] # {a}
  <2>1. todo'[t] # {}
    BY <1>2, <1>4
  <2>2. pc' = pc /\ held' = held
    BY <1>4 DEF Access
  <2>3. QED
    BY <1>1, <1>2, <2>1, <2>2 DEF Access
<1>5. QED
  BY <1>3, <1>4

\* What an access writes, if anything, is what the record needs.
LEMMA AccessPosition ==
  ASSUME Types, PositionInv, NEW t \in Threads, NEW a \in Accesses, Access(t, a),
         \A s \in Strategies : s # t[1] => bought'[s] = bought[s] /\ price'[s] = price[s],
         \/ /\ a = "bought" /\ price'[t[1]] = price[t[1]]
            /\ bought'[t[1]] = (Side(t) = "buy")
         \/ /\ a = "price" /\ bought'[t[1]] = bought[t[1]]
            /\ Side(t) = "buy" => price'[t[1]] > 0
            /\ Side(t) = "sell" => price'[t[1]] = 0
         \/ a = "read" /\ bought'[t[1]] = bought[t[1]] /\ price'[t[1]] = price[t[1]]
  PROVE  PositionInv'
<1> DEFINE o == t[1]
<1>1. /\ pc[t] = "record" /\ a \in todo[t] /\ todo'[t] = todo[t] \ {a}
      /\ \/ todo'[t] = {} /\ pc'[t] = "rest"
         \/ todo'[t] # {} /\ pc'[t] = "record" /\ held' = held
      /\ \A u \in Threads : u # t =>
             pc'[u] = pc[u] /\ todo'[u] = todo[u] /\ held'[u] = held[u]
      /\ overlap' = overlap
  BY AccessSteps
<1>2. o \in Strategies
  BY ThreadIsOneOfTwo
<1>3. HeldPriced'
  BY <1>1 DEF PositionInv, HeldPriced
<1>4. ASSUME NEW s \in Strategies, s # o PROVE PositionOf(s)'
  BY <1>1, <1>4, OtherObject DEF PositionInv
<1>5. PositionOf(o)'
  <2> SUFFICES ASSUME overlap[o] = FALSE
               PROVE  (OneRecords(o) /\ BuyerWrote(o) /\ SellerWrote(o) /\ Settled(o))'
    BY <1>1 DEF PositionOf
  <2>1. OneRecords(o) /\ BuyerWrote(o) /\ SellerWrote(o)
    BY <1>2 DEF PositionInv, PositionOf
  <2>2. Buyer(o) \in Threads /\ Seller(o) \in Threads /\ Buyer(o) # Seller(o)
    BY <1>2, ObjectTypes
  <2>3. CASE t = Buyer(o)
    <3>1. Side(t) = "buy"
      BY <2>3 DEF Side, Buyer
    <3>2. ~Recording(Seller(o)) /\ ~Recording(Seller(o))'
      BY <1>1, <2>1, <2>2, <2>3 DEF OneRecords, Recording
    <3>3. "bought" \in todo'[t] \/ bought'[o] = TRUE
      BY <1>1, <2>1, <2>3, <3>1 DEF BuyerWrote, Recording
    <3>4. "price" \in todo'[t] \/ price'[o] > 0
      BY <1>1, <2>1, <2>3, <3>1 DEF BuyerWrote, Recording
    <3>5. QED
      BY <1>1, <2>3, <3>2, <3>3, <3>4
         DEF OneRecords, BuyerWrote, SellerWrote, Settled, Recording
  <2>4. CASE t = Seller(o)
    <3>1. Side(t) = "sell"
      BY <2>4 DEF Side, Seller
    <3>2. ~Recording(Buyer(o)) /\ ~Recording(Buyer(o))'
      BY <1>1, <2>1, <2>2, <2>4 DEF OneRecords, Recording
    <3>3. "bought" \in todo'[t] \/ bought'[o] = FALSE
      BY <1>1, <2>1, <2>4, <3>1 DEF SellerWrote, Recording
    <3>4. "price" \in todo'[t] \/ price'[o] = 0
      BY <1>1, <2>1, <2>4, <3>1 DEF SellerWrote, Recording
    <3>5. QED
      BY <1>1, <2>4, <3>2, <3>3, <3>4
         DEF OneRecords, BuyerWrote, SellerWrote, Settled, Recording
  <2>5. QED
    BY <2>3, <2>4, ThreadIsOneOfTwo
<1>6. QED
  BY <1>3, <1>4, <1>5 DEF PositionInv

\* The three accesses: only the buy thread's price depends on what it holds.
LEMMA RecordPosition ==
  ASSUME Types, PositionInv, NEW t \in Threads, SetBought(t) \/ ReadPrice(t) \/ SetPrice(t)
  PROVE  PositionInv'
<1>1. /\ bought \in [Strategies -> BOOLEAN] /\ price \in [Strategies -> Prices \cup {0}]
      /\ t[1] \in Strategies
  BY ThreadIsOneOfTwo DEF Types, SmallChangesTypeOK
<1>2. CASE SetBought(t)
  <2>1. Access(t, "bought") /\ price' = price
    BY <1>2 DEF SetBought
  <2>2. /\ bought'[t[1]] = (Side(t) = "buy")
        /\ \A s \in Strategies : s # t[1] => bought'[s] = bought[s]
    BY <1>1, <1>2 DEF SetBought
  <2>3. QED
    BY <2>1, <2>2, AccessPosition DEF Accesses
<1>3. CASE ReadPrice(t)
  <2>1. Access(t, "read") /\ price' = price /\ bought' = bought
    BY <1>3 DEF ReadPrice
  <2>2. QED
    BY <2>1, AccessPosition DEF Accesses
<1>4. CASE SetPrice(t)
  <2>1. Access(t, "price") /\ bought' = bought
    BY <1>4 DEF SetPrice
  <2>2. /\ price'[t[1]] = RecordedPrice(t)
        /\ \A s \in Strategies : s # t[1] => price'[s] = price[s]
    BY <1>1, <1>4 DEF SetPrice
  <2>3. held[t].price > 0 /\ held[t].price \in Prices \cup {0}
    <3>1. pc[t] = "record"
      BY <2>1 DEF Access
    <3>2. held[t] \in Order
      BY DEF Types, SmallChangesTypeOK
    <3>3. QED
      BY <3>1, <3>2 DEF PositionInv, HeldPriced, Order
  <2>4. held[t].price \in Nat /\ seen[t[1]] \in Nat
    <3>1. Prices \cup {0} \subseteq Nat
      BY MessagesAssumption DEF MessagesAssumption
    <3>2. QED
      BY <1>1, <2>3, <3>1, ObjectTypes
  <2>5. Side(t) = "buy" => RecordedPrice(t) > 0
    BY <2>3, <2>4 DEF RecordedPrice, Larger
  <2>6. Side(t) = "sell" => RecordedPrice(t) = 0
    BY DEF RecordedPrice
  <2>7. QED
    BY <2>1, <2>2, <2>5, <2>6, AccessPosition DEF Accesses
<1>5. QED
  BY <1>2, <1>3, <1>4

\* The threads wake up, put their messages and get their feedback without
\* touching the position; an order they are to watch comes with its price.
LEMMA OtherStrategyPosition ==
  ASSUME Types, PositionInv, PlacedOrdersAreDone, NEW t \in Threads,
         \/ Side(t) = "buy" /\ BuySignal(t[1])
         \/ Side(t) = "sell" /\ SellSignal(t[1])
         \/ GetFeedback(t)
         \/ WakeUp(t)
  PROVE  PositionInv'
<1>1. /\ pc \in [Threads -> Places] /\ held \in [Threads -> Order]
      /\ feedback \in [Strategies -> Seq(Order)] /\ t[1] \in Strategies
  BY ThreadIsOneOfTwo DEF Types, SmallChangesTypeOK, MailTypeOK
<1>2. bought' = bought /\ price' = price /\ todo' = todo /\ overlap' = overlap
  BY DEF BuySignal, SellSignal, GetFeedback, Refused, WakeUp
<1>3. /\ pc[t] # "record" /\ pc'[t] # "record"
      /\ \A u \in Threads : u # t => pc'[u] = pc[u] /\ held'[u] = held[u]
  <2>1. CASE Side(t) = "buy" /\ BuySignal(t[1])
    BY <1>1, <2>1, ThreadIsOneOfTwo DEF BuySignal, Goto, Buyer, Seller, Side
  <2>2. CASE Side(t) = "sell" /\ SellSignal(t[1])
    BY <1>1, <2>2, ThreadIsOneOfTwo DEF SellSignal, Goto, Buyer, Seller, Side
  <2>3. CASE GetFeedback(t)
    BY <1>1, <2>3 DEF GetFeedback, Refused, Goto
  <2>4. CASE WakeUp(t)
    BY <1>1, <2>4 DEF WakeUp, Goto
  <2>5. QED
    BY <2>1, <2>2, <2>3, <2>4
<1>4. pc'[t] \in {"track", "record"} => held'[t].price > 0
  <2>1. CASE Side(t) = "buy" /\ BuySignal(t[1])
    BY <1>1, <2>1, ThreadIsOneOfTwo DEF BuySignal, Goto, Buyer, Seller, Side
  <2>2. CASE Side(t) = "sell" /\ SellSignal(t[1])
    BY <1>1, <2>2, ThreadIsOneOfTwo DEF SellSignal, Goto, Buyer, Seller, Side
  <2>3. CASE GetFeedback(t)
    <3> DEFINE o == Head(feedback[t[1]])
    <3>1. o = feedback[t[1]][1] /\ 1 \in DOMAIN feedback[t[1]]
      BY <1>1, <2>3 DEF GetFeedback, Refused
    <3>2. o.txid # NoTx => o.price > 0
      BY <1>1, <3>1 DEF PlacedOrdersAreDone
    <3>3. CASE o.txid = NoTx
      BY <1>1, <2>3, <3>3 DEF GetFeedback, Refused, Goto
    <3>4. CASE o.txid # NoTx
      BY <1>1, <2>3, <3>2, <3>4 DEF GetFeedback, Refused, Goto
    <3>5. QED
      BY <3>3, <3>4
  <2>4. CASE WakeUp(t)
    BY <1>1, <2>4 DEF WakeUp, Goto
  <2>5. QED
    BY <2>1, <2>2, <2>3, <2>4
<1>5. HeldPriced'
  BY <1>3, <1>4 DEF PositionInv, HeldPriced
<1>6. \A s \in Strategies : PositionOf(s)'
  BY <1>2, <1>3, NotRecording DEF PositionInv
<1>7. QED
  BY <1>5, <1>6 DEF PositionInv

\* The decisor, the market and the other strategies touch no position; death
\* leaves every object new.
LEMMA PositionStep ==
  Types /\ PlacedOrdersAreDone /\ PositionInv /\ [Next]_vars => PositionInv'
<1> SUFFICES ASSUME Types, PlacedOrdersAreDone, PositionInv, [Next]_vars
             PROVE  PositionInv'
  OBVIOUS
<1> USE DEF PositionInv, HeldPriced, PositionOf, OneRecords, BuyerWrote, SellerWrote,
            Settled, Recording
<1>1. CASE Decisor \/ PlainBuy \/ MarketCloses \/ UNCHANGED vars
  <2>1. UNCHANGED smallChangesVars
    BY <1>1 DEF Decisor, PlainBuy, MarketCloses, vars
  <2>2. QED
    BY <2>1 DEF smallChangesVars
<1>2. ASSUME NEW t \in Threads, Strategy(t) PROVE PositionInv'
  BY <1>2, FulfilledPosition, RecordPosition, OtherStrategyPosition DEF Strategy
<1>3. CASE Die
  <2>1. \A s \in Strategies : Buyer(s) \in Threads /\ Seller(s) \in Threads
    BY ObjectTypes
  <2>2. \A t \in Threads : pc'[t] = "watch"
    BY <1>3 DEF Die
  <2>3. \A s \in Strategies : bought'[s] = FALSE /\ price'[s] = 0
    BY <1>3 DEF Die
  <2>4. QED
    BY <2>1, <2>2, <2>3
<1>4. QED
  BY <1>1, <1>2, <1>3 DEF Next

LEMMA PositionStart == Init => PositionInv
<1> SUFFICES ASSUME Init PROVE PositionInv
  OBVIOUS
<1>1. \A s \in Strategies : Buyer(s) \in Threads /\ Seller(s) \in Threads
  BY DEF Buyer, Seller, Threads, Sides
<1>2. /\ \A t \in Threads : pc[t] = "watch"
      /\ \A s \in Strategies : bought[s] = FALSE /\ price[s] = 0
  BY DEF Init, SmallChangesInit
<1>3. QED
  BY <1>1, <1>2 DEF PositionInv, HeldPriced, PositionOf, OneRecords, BuyerWrote,
                    SellerWrote, Settled, Recording

(***************************************************************************)
(* _bought and _price tell the same story whenever no thread records, as   *)
(* long as the two threads have never been recording at the same time      *)
(* (smallchanges.cc:126-128, :299-302).                                    *)
(***************************************************************************)
THEOREM PositionIsConsistent == Spec => []PositionConsistent
<1>1. Types /\ PositionInv => PositionConsistent
  <2> SUFFICES ASSUME Types, PositionInv, NEW s \in Strategies, overlap[s] # TRUE,
                      \A side \in Sides : pc[<<s, side>>] # "record"
               PROVE  bought[s] <=> price[s] > 0
    BY DEF PositionConsistent
  <2>1. overlap[s] = FALSE
    BY ObjectTypes
  <2>2. ~Recording(Buyer(s)) /\ ~Recording(Seller(s))
    BY DEF Recording, Buyer, Seller, Sides
  <2>3. QED
    BY <2>1, <2>2 DEF PositionInv, PositionOf, Settled
<1>2. QED
  BY <1>1, PositionStart, PositionStep, TypesCorrect, RetriesStopAtAnAnswer, PTL
     DEF Spec
-----------------------------------------------------------------------------
(***************************************************************************)
(* Equal orders: what each object has asked for, as long as its threads    *)
(* do not wait at the same time.  Then a thread gets the answer to what it *)
(* asked itself, so what it polls is of its own side.                      *)
(***************************************************************************)

\* The orders that the decisor has in hand for s or has given back to it.
Answered(s) ==
    {feedback[s][i] : i \in DOMAIN feedback[s]}
      \cup {o \in {order} : InHand(s) = 1}

OnTheWay(s) == {chan[i].order : i \in Queued(s)} \cup Answered(s)

InCare(s) == {held[<<s, side>>] : side \in Tracking(s)} \cup Answered(s)

AskedByWaiters(s) == \A o \in OnTheWay(s) : pc[<<s, o.action>>] = "await"

PollsItsOwn(s) == \A side \in Tracking(s) : held[<<s, side>>].action = side

BookAgrees(s) ==
    \A o \in InCare(s) : o.txid \in DOMAIN book => book[o.txid].action = o.action

OwnOrders(s) == AskedByWaiters(s) /\ PollsItsOwn(s) /\ BookAgrees(s)

\* Who is on the way, one by one.
LEMMA AnsweredMembers ==
  ASSUME NEW s, NEW o
  PROVE  o \in Answered(s) <=> \/ \E i \in DOMAIN feedback[s] : o = feedback[s][i]
                               \/ InHand(s) = 1 /\ o = order
  BY DEF Answered

LEMMA OnTheWayAreOrders ==
  ASSUME Types, NEW s \in Strategies
  PROVE  Answered(s) \subseteq Order /\ OnTheWay(s) \subseteq Order /\ InCare(s) \subseteq Order
<1>1. /\ chan \in Seq(Message) /\ feedback[s] \in Seq(Order) /\ order \in Order
      /\ held \in [Threads -> Order]
  BY DEF Types, MailTypeOK, TraderTypeOK, SmallChangesTypeOK
<1>2. Answered(s) \subseteq Order
  BY <1>1 DEF Answered
<1>3. \A i \in DOMAIN chan : chan[i].order \in Order
  <2>1. \A i \in DOMAIN chan : chan[i] \in Message
    BY <1>1
  <2>2. QED
    BY <2>1 DEF Message
<1>4. \A side \in Tracking(s) : <<s, side>> \in Threads
  BY DEF Tracking, Threads
<1>5. QED
  BY <1>1, <1>2, <1>3, <1>4 DEF OnTheWay, InCare, Queued

\* Whoever waits alone has one answer to come, or got it.
LEMMA AloneHasOneAnswer ==
  ASSUME Types, NEW s \in Strategies, Balanced(s), Awaiting(s) # Sides
  PROVE  Cardinality(Queued(s)) + InHand(s) + Len(feedback[s]) <= 1
<1>1. Awaiting(s) = {} \/ \E side \in Sides : Awaiting(s) = {side}
  BY DEF Awaiting, Sides
<1>2. Cardinality(Awaiting(s)) <= 1
  <2>1. CASE Awaiting(s) = {}
    <3>1. Cardinality(Awaiting(s)) = 0
      BY <2>1, FS_EmptySet
    <3>2. QED
      BY <3>1
  <2>2. ASSUME NEW side \in Sides, Awaiting(s) = {side}
        PROVE  Cardinality(Awaiting(s)) <= 1
    <3>1. Cardinality(Awaiting(s)) = 1
      BY <2>2, FS_Singleton
    <3>2. QED
      BY <3>1
  <2>3. QED
    BY <1>1, <2>1, <2>2
<1>3. QED
  BY <1>2, CountsAreNumbers DEF Balanced

\* A step that asks for nothing, ends no wait and places nothing for s.
LEMMA OwnFrame ==
  ASSUME Types, NEW s \in Strategies, OwnOrders(s),
         \A o \in OnTheWay(s)' : \E p \in OnTheWay(s) : p.action = o.action,
         \A side \in Sides : pc[<<s, side>>] = "await" => pc'[<<s, side>>] = "await",
         \A side \in Tracking(s)' :
             side \in Tracking(s) /\ held'[<<s, side>>] = held[<<s, side>>],
         \A o \in Answered(s)' : o.txid \in DOMAIN book' =>
             \E p \in Answered(s) : p.txid = o.txid /\ p.action = o.action,
         \A o \in InCare(s) : o.txid \in DOMAIN book' =>
             o.txid \in DOMAIN book /\ book'[o.txid].action = book[o.txid].action
  PROVE  OwnOrders(s)'
<1>1. AskedByWaiters(s)'
  <2>1. \A o \in OnTheWay(s) : o.action \in Sides
    BY OnTheWayAreOrders DEF Order, Sides
  <2>2. QED
    BY <2>1 DEF OwnOrders, AskedByWaiters
<1>2. PollsItsOwn(s)'
  BY DEF OwnOrders, PollsItsOwn
<1>3. ASSUME NEW o \in InCare(s)', o.txid \in DOMAIN book'
      PROVE  book'[o.txid].action = o.action
  <2>1. \E p \in InCare(s) : p.txid = o.txid /\ p.action = o.action
    <3>1. CASE o \in Answered(s)'
      <4>1. PICK p \in Answered(s) : p.txid = o.txid /\ p.action = o.action
        BY <1>3, <3>1
      <4>2. p \in InCare(s)
        BY <4>1 DEF InCare
      <4>3. QED
        BY <4>1, <4>2
    <3>2. CASE \E side \in Tracking(s)' : o = held'[<<s, side>>]
      <4>1. PICK side \in Tracking(s)' : o = held'[<<s, side>>]
        BY <3>2
      <4>2. side \in Tracking(s) /\ o = held[<<s, side>>]
        BY <4>1
      <4>3. QED
        BY <4>2 DEF InCare
    <3>3. QED
      BY <1>3, <3>1, <3>2 DEF InCare
  <2>2. PICK p \in InCare(s) : p.txid = o.txid /\ p.action = o.action
    BY <2>1
  <2>3. QED
    BY <1>3, <2>2 DEF OwnOrders, BookAgrees
<1>4. QED
  BY <1>1, <1>2, <1>3 DEF OwnOrders, BookAgrees

\* Ids that are written down somewhere are not given again.
LEMMA CareIsKnown ==
  ASSUME NEW s \in Strategies, NEW o \in InCare(s)
  PROVE  o.txid \in KnownIds
<1>1. \A side \in Tracking(s) : <<s, side>> \in Threads
  BY DEF Tracking, Threads
<1>2. CASE \E side \in Tracking(s) : o = held[<<s, side>>]
  BY <1>1, <1>2 DEF KnownIds
<1>3. CASE \E i \in DOMAIN feedback[s] : o = feedback[s][i]
  BY <1>3 DEF KnownIds
<1>4. CASE o = order
  BY <1>4 DEF KnownIds
<1>5. QED
  BY <1>2, <1>3, <1>4, AnsweredMembers DEF InCare

-----------------------------------------------------------------------------
\* The decisor carries an order from the queue to its answer.
LEMMA TakeMessageOwn ==
  ASSUME Types, OrdersOnTheWay, TakeMessage, UNCHANGED smallChangesVars,
         NEW s \in Strategies, OwnOrders(s)
  PROVE  OwnOrders(s)'
<1>1. /\ chan \in Seq(Message) /\ chan # <<>> /\ chan' = Tail(chan)
      /\ message' = Head(chan) /\ order' = Head(chan).order
      /\ feedback' = feedback /\ book' = book
  BY DEF TakeMessage, Types, MailTypeOK
<1>2. pc' = pc /\ held' = held /\ Tracking(s)' = Tracking(s)
  BY DEF smallChangesVars, Tracking
<1>3. 1 \in DOMAIN chan /\ Head(chan) = chan[1]
  BY <1>1
<1>4. \A i \in DOMAIN chan' : i + 1 \in DOMAIN chan /\ chan'[i] = chan[i + 1]
  BY <1>1
<1>5. InHand(s)' = 1 => order' \in OnTheWay(s)
  BY <1>1, <1>3 DEF InHand, OnTheWay, Queued
<1>6. OnTheWay(s)' \subseteq OnTheWay(s)
  BY <1>1, <1>4, <1>5 DEF OnTheWay, Answered, Queued
<1>7. order'.txid \notin DOMAIN book
  <2>1. order'.txid = NoTx
    BY <1>1, <1>3 DEF OrdersOnTheWay, SentUnplaced, Unplaced
  <2>2. QED
    BY <2>1, MessagesAssumption DEF Types, ExchangeTypeOK
<1>8. \A o \in Answered(s)' : o = order' \/ o \in Answered(s)
  BY <1>1 DEF Answered
<1>9. QED
  BY <1>1, <1>2, <1>6, <1>7, <1>8, OwnFrame

LEMMA SizeOrderOwn ==
  ASSUME Types, SizeOrder \/ PlaceFails, UNCHANGED smallChangesVars,
         NEW s \in Strategies, OwnOrders(s)
  PROVE  OwnOrders(s)'
<1>1. /\ chan' = chan /\ feedback' = feedback /\ message' = message /\ book' = book
      /\ InHand(s)' = InHand(s)
  BY DEF SizeOrder, PlaceFails, mailVars, InHand
<1>2. pc' = pc /\ held' = held /\ Tracking(s)' = Tracking(s)
  BY DEF smallChangesVars, Tracking
<1>3. order'.txid = order.txid /\ order'.action = order.action
  BY DEF SizeOrder, PlaceFails, Types, TraderTypeOK, Order
<1>4. \A o \in Answered(s)' : \E p \in Answered(s) : p.txid = o.txid /\ p.action = o.action
  BY <1>1, <1>3 DEF Answered
<1>5. \A o \in OnTheWay(s)' : \E p \in OnTheWay(s) : p.action = o.action
  BY <1>1, <1>4 DEF OnTheWay, Queued
<1>6. QED
  BY <1>1, <1>2, <1>4, <1>5, OwnFrame

\* The market writes down the action of the order it is given.
LEMMA PlaceOwn ==
  ASSUME Types, NEW x \in FreshIds, Place(x) \/ PlaceLost(x), UNCHANGED smallChangesVars,
         NEW s \in Strategies, OwnOrders(s)
  PROVE  OwnOrders(s)'
<1>1. /\ chan' = chan /\ feedback' = feedback /\ InHand(s)' = InHand(s)
      /\ order'.action = order.action
      /\ order' = order \/ order'.txid = x
  BY DEF Place, PlaceLost, NoRetry, mailVars, InHand, Types, TraderTypeOK, Order
<1>2. pc' = pc /\ held' = held /\ Tracking(s)' = Tracking(s)
  BY DEF smallChangesVars, Tracking
<1>3. /\ DOMAIN book' = DOMAIN book \cup {x}
      /\ book'[x].action = order.action
      /\ \A y \in DOMAIN book : y # x => book'[y] = book[y]
  BY DEF Place, PlaceLost, Accept
<1>4. \A o \in InCare(s) : o.txid # x
  BY CareIsKnown DEF FreshIds
<1>5. AskedByWaiters(s)'
  <2>1. \A o \in OnTheWay(s)' : \E p \in OnTheWay(s) : p.action = o.action
    BY <1>1 DEF OnTheWay, Answered, Queued
  <2>2. QED
    BY <1>2, <2>1 DEF OwnOrders, AskedByWaiters
<1>6. PollsItsOwn(s)'
  BY <1>2 DEF OwnOrders, PollsItsOwn
<1>7. ASSUME NEW o \in InCare(s)', o.txid \in DOMAIN book'
      PROVE  book'[o.txid].action = o.action
  <2>1. o \in InCare(s) \/ (InHand(s) = 1 /\ o = order' /\ o.txid = x)
    BY <1>1, <1>2, <1>7 DEF InCare, Answered
  <2>2. CASE o \in InCare(s)
    BY <1>3, <1>4, <1>7, <2>2 DEF OwnOrders, BookAgrees
  <2>3. CASE o = order' /\ o.txid = x
    BY <1>1, <1>3, <2>3
  <2>4. QED
    BY <2>1, <2>2, <2>3
<1>8. QED
  BY <1>5, <1>6, <1>7 DEF OwnOrders, BookAgrees

LEMMA ReplyOwn ==
  ASSUME Types, Reply, UNCHANGED smallChangesVars, NEW s \in Strategies, OwnOrders(s)
  PROVE  OwnOrders(s)'
<1>1. chan' = chan /\ book' = book /\ InHand(s)' = 0 /\ at = "reply"
  BY DEF Reply, InHand
<1>2. pc' = pc /\ held' = held /\ Tracking(s)' = Tracking(s)
  BY DEF smallChangesVars, Tracking
<1>3. Answered(s)' \subseteq Answered(s)
  <2>1. feedback[s] \in Seq(Order) /\ order \in Order /\ s # NoFeedback
    BY MessagesAssumption DEF Types, MailTypeOK, TraderTypeOK
  <2>2. feedback'[s] = IF message.feedback = s THEN Append(feedback[s], order)
                                               ELSE feedback[s]
    BY <2>1 DEF Reply, Answer, PutFeedback, Types, MailTypeOK
  <2>3. message.feedback = s <=> InHand(s) = 1
    BY <1>1 DEF InHand
  <2>4. \A i \in DOMAIN feedback'[s] :
           \/ i \in DOMAIN feedback[s] /\ feedback'[s][i] = feedback[s][i]
           \/ InHand(s) = 1 /\ feedback'[s][i] = order
    BY <2>1, <2>2, <2>3
  <2>5. QED
    BY <1>1, <2>4 DEF Answered
<1>4. OnTheWay(s)' \subseteq OnTheWay(s)
  BY <1>1, <1>3 DEF OnTheWay, Queued
<1>5. QED
  BY <1>1, <1>2, <1>3, <1>4, OwnFrame

-----------------------------------------------------------------------------
\* A thread asks for an order of its own side, and waits.
LEMMA SignalOwn ==
  ASSUME Types, NEW r \in Strategies, BuySignal(r) \/ SellSignal(r),
         UNCHANGED traderVars, NEW s \in Strategies, OwnOrders(s)
  PROVE  OwnOrders(s)'
<1>1. PICK side \in Sides, o \in Order :
          /\ pc[<<r, side>>] = "watch" /\ o.action = side
          /\ Goto(<<r, side>>, "await") /\ PutMessage(r, o)
  <2>1. CASE BuySignal(r)
    <3>1. NewOrder("buy", "market", 0).action = "buy"
      BY DEF NewOrder
    <3>2. QED
      BY <2>1, <3>1, NewOrderType DEF BuySignal, Sides
  <2>2. CASE SellSignal(r)
    <3>1. \A type, p : NewOrder("sell", type, p).action = "sell"
      BY DEF NewOrder
    <3>2. QED
      BY <2>2, <3>1, NewOrderType DEF SellSignal, Sides
  <2>3. QED
    BY <2>1, <2>2
<1>2. UNCHANGED <<feedback, held, book>> /\ InHand(s)' = InHand(s) /\ order' = order
  BY DEF BuySignal, SellSignal, traderVars, InHand
<1>3. <<r, side>> \in Threads /\ pc \in [Threads -> Places]
  BY DEF Threads, Types, SmallChangesTypeOK
<1>4. /\ pc'[<<r, side>>] = "await"
      /\ \A u \in Threads : u # <<r, side>> => pc'[u] = pc[u]
  BY <1>1, <1>3 DEF Goto
<1>5. Tracking(s)' \subseteq Tracking(s)
  BY <1>1, <1>4 DEF Tracking, Threads
<1>6. Answered(s)' = Answered(s)
  BY <1>2 DEF Answered
<1>7. \A p \in OnTheWay(s)' : p \in OnTheWay(s) \/ (s = r /\ p = o)
  <2>1. chan \in Seq(Message) /\ [feedback |-> r, order |-> o] \in Message
    BY DEF Types, MailTypeOK, Message
  <2>2. \A i \in DOMAIN chan' :
           \/ i \in DOMAIN chan /\ chan'[i] = chan[i]
           \/ chan'[i].feedback = r /\ chan'[i].order = o
    BY <1>1, <2>1 DEF PutMessage
  <2>3. QED
    BY <1>6, <2>2 DEF OnTheWay, Queued
<1>8. AskedByWaiters(s)'
  <2>1. ASSUME NEW p \in OnTheWay(s) PROVE pc'[<<s, p.action>>] = "await"
    <3>1. p.action \in Sides
      BY <2>1, OnTheWayAreOrders DEF Order, Sides
    <3>2. <<s, p.action>> \in Threads /\ pc[<<s, p.action>>] = "await"
      BY <2>1, <3>1 DEF OwnOrders, AskedByWaiters, Threads
    <3>3. QED
      BY <1>1, <1>4, <3>2
  <2>2. QED
    BY <1>1, <1>4, <1>7, <2>1 DEF AskedByWaiters
<1>9. PollsItsOwn(s)'
  BY <1>2, <1>5 DEF OwnOrders, PollsItsOwn
<1>10. BookAgrees(s)'
  <2>1. InCare(s)' \subseteq InCare(s)
    BY <1>2, <1>5, <1>6 DEF InCare
  <2>2. QED
    BY <1>2, <2>1 DEF OwnOrders, BookAgrees
<1>11. QED
  BY <1>8, <1>9, <1>10 DEF OwnOrders

\* The thread that waits alone gets the answer to what it asked.
LEMMA GetFeedbackOwn ==
  ASSUME Types, NEW t \in Threads, GetFeedback(t), UNCHANGED traderVars,
         NEW s \in Strategies, OwnOrders(s), Balanced(s), Awaiting(s) # Sides
  PROVE  OwnOrders(s)'
<1>1. /\ t[1] \in Strategies /\ t[2] \in Sides /\ t = <<t[1], t[2]>> /\ pc[t] = "await"
      /\ pc \in [Threads -> Places] /\ held \in [Threads -> Order]
      /\ feedback \in [Strategies -> Seq(Order)]
      /\ \A side \in Sides : <<s, side>> \in Threads
  BY DEF Threads, GetFeedback, Refused, Types, SmallChangesTypeOK, MailTypeOK
<1>2. /\ chan' = chan /\ book' = book /\ order' = order /\ InHand(s)' = InHand(s)
  BY DEF GetFeedback, Refused, traderVars, InHand
<1>3. \A u \in Threads : u # t => pc'[u] = pc[u] /\ held'[u] = held[u]
  BY <1>1 DEF GetFeedback, Refused, Goto
<1>4. CASE s # t[1]
  <2>1. feedback'[s] = feedback[s]
    BY <1>1, <1>4 DEF GetFeedback, Refused, PopFeedback
  <2>2. Tracking(s)' = Tracking(s)
    BY <1>1, <1>3, <1>4 DEF Tracking
  <2>3. Answered(s)' = Answered(s) /\ OnTheWay(s)' = OnTheWay(s)
    BY <1>2, <2>1 DEF Answered, OnTheWay, Queued
  <2>4. \A side \in Sides : /\ pc'[<<s, side>>] = pc[<<s, side>>]
                             /\ held'[<<s, side>>] = held[<<s, side>>]
    BY <1>1, <1>3, <1>4
  <2>5. AskedByWaiters(s)'
    <3>1. \A o \in OnTheWay(s) : o.action \in Sides
      BY OnTheWayAreOrders DEF Order, Sides
    <3>2. QED
      BY <2>3, <2>4, <3>1 DEF OwnOrders, AskedByWaiters
  <2>6. PollsItsOwn(s)'
    BY <2>2, <2>4 DEF OwnOrders, PollsItsOwn, Tracking
  <2>7. InCare(s)' \subseteq InCare(s)
    BY <2>2, <2>3, <2>4 DEF InCare, Tracking
  <2>8. QED
    BY <1>2, <2>5, <2>6, <2>7 DEF OwnOrders, BookAgrees
<1>5. CASE s = t[1]
  <2> DEFINE o == Head(feedback[s])
  <2>1. /\ feedback[s] \in Seq(Order) /\ feedback[s] # <<>> /\ Len(feedback[s]) \in Nat
        /\ o = feedback[s][1] /\ 1 \in DOMAIN feedback[s]
        /\ feedback'[s] = Tail(feedback[s])
    BY <1>1, <1>5 DEF GetFeedback, Refused, PopFeedback
  <2>2. Len(feedback[s]) = 1 /\ Cardinality(Queued(s)) = 0 /\ InHand(s) = 0
    <3>1. Len(feedback[s]) # 0
      BY <2>1
    <3>2. Cardinality(Queued(s)) + InHand(s) + Len(feedback[s]) <= 1
      BY AloneHasOneAnswer
    <3>3. Cardinality(Queued(s)) \in Nat /\ InHand(s) \in Nat /\ Len(feedback[s]) \in Nat
      BY CountsAreNumbers
    <3>4. \A a, b, c \in Nat : a + b + c <= 1 /\ c # 0 => c = 1 /\ a = 0 /\ b = 0
      OBVIOUS
    <3>5. QED
      BY <3>1, <3>2, <3>3, <3>4
  <2>3. DOMAIN feedback'[s] = {} /\ Queued(s) = {}
    <3>1. IsFiniteSet(Queued(s))
      BY PositionsFinite DEF Queued, Positions, Types, MailTypeOK
    <3>2. Queued(s) = {}
      BY <2>2, <3>1, FS_EmptySet
    <3>3. DOMAIN Tail(feedback[s]) = {}
      <4>1. Len(Tail(feedback[s])) = 0 /\ Tail(feedback[s]) \in Seq(Order)
        BY <2>1, <2>2
      <4>2. DOMAIN Tail(feedback[s]) = 1 .. Len(Tail(feedback[s]))
        BY <4>1
      <4>3. 1 .. 0 = {}
        OBVIOUS
      <4>4. QED
        BY <4>1, <4>2, <4>3
    <3>4. QED
      BY <2>1, <3>2, <3>3
  <2>4. Answered(s)' = {} /\ OnTheWay(s)' = {}
    <3>1. Answered(s)' = {}
      BY <1>2, <2>2, <2>3 DEF Answered
    <3>2. Queued(s)' = {}
      BY <1>2, <2>3 DEF Queued
    <3>3. QED
      BY <3>1, <3>2 DEF OnTheWay
  <2>5. o \in Answered(s) /\ o \in OnTheWay(s) /\ o \in InCare(s) /\ o \in Order
    BY <2>1, OnTheWayAreOrders DEF Answered, OnTheWay, InCare
  <2>6. o.action = t[2]
    <3>1. o.action \in Sides /\ pc[<<s, o.action>>] = "await"
      BY <2>5 DEF OwnOrders, AskedByWaiters, Order, Sides
    <3>2. o.action \in Awaiting(s) /\ t[2] \in Awaiting(s)
      BY <1>1, <1>5, <3>1 DEF Awaiting
    <3>3. QED
      BY <3>2 DEF Awaiting, Sides
  <2> HIDE DEF o
  <2>7. ASSUME NEW side \in Tracking(s)'
        PROVE  held'[<<s, side>>] \in InCare(s) /\ held'[<<s, side>>].action = side
    <3>1. side \in Sides /\ <<s, side>> \in Threads
      BY <1>1, <2>7 DEF Tracking
    <3>2. CASE <<s, side>> = t
      <4>1. pc'[t] = "track" /\ side = t[2]
        BY <2>7, <3>2 DEF Tracking
      <4>2. held'[t] = o
        BY <1>1, <1>5, <4>1 DEF GetFeedback, Refused, Goto, o
      <4>3. QED
        BY <2>5, <2>6, <3>2, <4>1, <4>2
    <3>3. CASE <<s, side>> # t
      <4>1. side \in Tracking(s) /\ held'[<<s, side>>] = held[<<s, side>>]
        BY <1>3, <2>7, <3>1, <3>3 DEF Tracking
      <4>2. QED
        BY <4>1 DEF OwnOrders, PollsItsOwn, InCare
    <3>4. QED
      BY <3>2, <3>3
  <2>8. InCare(s)' \subseteq InCare(s)
    BY <2>4, <2>7 DEF InCare
  <2>9. QED
    BY <1>2, <2>4, <2>7, <2>8 DEF OwnOrders, AskedByWaiters, PollsItsOwn, BookAgrees
<1>6. QED
  BY <1>4, <1>5

\* The rest of a thread's loop neither asks nor gets anything.
LEMMA OtherStrategyOwn ==
  ASSUME Types, NEW t \in Threads, UNCHANGED traderVars,
         Fulfilled(t) \/ SetBought(t) \/ ReadPrice(t) \/ SetPrice(t) \/ WakeUp(t),
         NEW s \in Strategies, OwnOrders(s)
  PROVE  OwnOrders(s)'
<1>1. /\ UNCHANGED <<chan, feedback, book>> /\ order' = order /\ InHand(s)' = InHand(s)
  BY DEF Fulfilled, SetBought, ReadPrice, SetPrice, Access, WakeUp, mailVars,
         traderVars, InHand
<1>2. /\ pc[t] \notin {"await", "watch"} /\ pc \in [Threads -> Places]
      /\ held \in [Threads -> Order]
  BY DEF Fulfilled, SetBought, ReadPrice, SetPrice, Access, WakeUp, Types,
         SmallChangesTypeOK
<1>3. \A u \in Threads : u # t => pc'[u] = pc[u] /\ held'[u] = held[u]
  BY <1>2 DEF Fulfilled, SetBought, ReadPrice, SetPrice, Access, WakeUp, Goto
<1>4. pc'[t] # "track"
  <2>1. CASE Fulfilled(t)
    BY <1>2, <2>1 DEF Fulfilled, Goto
  <2>2. CASE SetBought(t) \/ ReadPrice(t) \/ SetPrice(t)
    BY <1>2, <2>2 DEF SetBought, ReadPrice, SetPrice, Access, Goto
  <2>3. CASE WakeUp(t)
    BY <1>2, <2>3 DEF WakeUp, Goto
  <2>4. QED
    BY <2>1, <2>2, <2>3
<1>5. \A side \in Tracking(s)' :
          side \in Tracking(s) /\ held'[<<s, side>>] = held[<<s, side>>]
  <2>1. \A side \in Sides : <<s, side>> \in Threads
    BY DEF Threads
  <2>2. QED
    BY <1>3, <1>4, <2>1 DEF Tracking
<1>6. Answered(s)' = Answered(s) /\ OnTheWay(s)' = OnTheWay(s)
  BY <1>1 DEF Answered, OnTheWay, Queued
<1>7. \A side \in Sides : pc[<<s, side>>] = "await" => pc'[<<s, side>>] = "await"
  BY <1>2, <1>3 DEF Threads
<1>8. QED
  BY <1>1, <1>5, <1>6, <1>7, OwnFrame

LEMMA PlainBuyOwn ==
  ASSUME Types, PlainBuy \/ MarketCloses \/ UNCHANGED vars,
         NEW s \in Strategies, OwnOrders(s)
  PROVE  OwnOrders(s)'
<1>1. /\ pc' = pc /\ held' = held /\ feedback' = feedback /\ order' = order
      /\ InHand(s)' = InHand(s)
  BY DEF PlainBuy, MarketCloses, vars, mailVars, traderVars, smallChangesVars, InHand
<1>2. Tracking(s)' = Tracking(s) /\ Answered(s)' = Answered(s)
  BY <1>1 DEF Tracking, Answered
<1>3. \A y \in DOMAIN book' : y \in DOMAIN book /\ book'[y] = book[y]
  BY DEF PlainBuy, MarketCloses, CloseOrder, vars
<1>4. OnTheWay(s)' \subseteq OnTheWay(s)
  <2>1. CASE PlainBuy
    <3>1. PICK o \in Order : PutMessage(NoFeedback, o)
      BY <2>1, NewOrderType DEF PlainBuy
    <3>2. chan \in Seq(Message) /\ [feedback |-> NoFeedback, order |-> o] \in Message
      BY DEF Types, MailTypeOK, Message
    <3>3. \A i \in DOMAIN chan' :
              \/ i \in DOMAIN chan /\ chan'[i] = chan[i]
              \/ chan'[i].feedback = NoFeedback
      BY <3>1, <3>2 DEF PutMessage
    <3>4. s # NoFeedback
      BY MessagesAssumption
    <3>5. QED
      BY <1>2, <3>3, <3>4 DEF OnTheWay, Queued
  <2>2. CASE chan' = chan
    BY <1>2, <2>2 DEF OnTheWay, Queued
  <2>3. QED
    BY <2>1, <2>2 DEF MarketCloses, vars, mailVars
<1>5. QED
  BY <1>1, <1>2, <1>3, <1>4, OwnFrame

LEMMA NewObjectOwn ==
  ASSUME NEW s \in Strategies, chan = <<>>, feedback = [r \in Strategies |-> <<>>],
         at = "get", pc = [t \in Threads |-> "watch"]
  PROVE  OwnOrders(s)
<1>1. Queued(s) = {} /\ Answered(s) = {}
  BY DEF Queued, Answered, InHand
<1>2. Tracking(s) = {}
  BY DEF Tracking, Threads
<1>3. QED
  BY <1>1, <1>2 DEF OwnOrders, AskedByWaiters, PollsItsOwn, BookAgrees, OnTheWay, InCare

\* As long as the two threads of each object do not wait at once, every step
\* leaves each of them with what it asked for itself.
LEMMA OwnOrdersStep ==
  ASSUME Types, OrdersOnTheWay, OneFeedbackPerWaiter, WaitApart, [Next]_vars,
         \A s \in Strategies : OwnOrders(s)
  PROVE  \A s \in Strategies : OwnOrders(s)'
<1> SUFFICES ASSUME NEW s \in Strategies PROVE OwnOrders(s)'
  OBVIOUS
<1>1. OwnOrders(s) /\ Balanced(s) /\ Awaiting(s) # Sides
  BY DEF OneFeedbackPerWaiter, Balanced, WaitApart
<1>2. CASE Decisor
  BY <1>1, <1>2, TakeMessageOwn, SizeOrderOwn, PlaceOwn, ReplyOwn DEF Decisor
<1>3. ASSUME NEW t \in Threads, Strategy(t) PROVE OwnOrders(s)'
  <2>1. t[1] \in Strategies
    BY ThreadIsOneOfTwo
  <2>2. QED
    BY <1>1, <1>3, <2>1, SignalOwn, GetFeedbackOwn, OtherStrategyOwn DEF Strategy
<1>4. CASE PlainBuy \/ MarketCloses \/ UNCHANGED vars
  BY <1>1, <1>4, PlainBuyOwn
<1>5. CASE Die
  <2>1. /\ chan' = <<>> /\ feedback' = [r \in Strategies |-> <<>>]
        /\ at' = "get" /\ pc' = [t \in Threads |-> "watch"]
    BY <1>5 DEF Die
  <2>2. Queued(s)' = {} /\ Answered(s)' = {}
    BY <2>1 DEF Queued, Answered, InHand
  <2>3. Tracking(s)' = {}
    BY <2>1 DEF Tracking, Threads
  <2>4. QED
    BY <2>2, <2>3 DEF OwnOrders, AskedByWaiters, PollsItsOwn, BookAgrees, OnTheWay, InCare
<1>6. QED
  BY <1>2, <1>3, <1>4, <1>5 DEF Next

\* Two orders of one side in the care of an object are the same order.
LEMMA OneOrderOfASide ==
  ASSUME Types, NEW s \in Strategies, OwnOrders(s), Balanced(s), Awaiting(s) # Sides,
         NEW p \in InCare(s), NEW q \in InCare(s), p.action = q.action
  PROVE  p = q
<1>1. ASSUME NEW side \in Tracking(s), NEW o \in Answered(s)
      PROVE  held[<<s, side>>].action # o.action
  BY <1>1 DEF OwnOrders, PollsItsOwn, AskedByWaiters, OnTheWay, Tracking
<1>2. ASSUME NEW a \in Tracking(s), NEW b \in Tracking(s),
             held[<<s, a>>].action = held[<<s, b>>].action
      PROVE  a = b
  BY <1>2 DEF OwnOrders, PollsItsOwn
<1>3. ASSUME NEW o \in Answered(s), NEW r \in Answered(s)
      PROVE  o = r
  <2>1. Len(feedback[s]) + InHand(s) <= 1
    BY AloneHasOneAnswer, CountsAreNumbers
  <2>2. DOMAIN feedback[s] = 1 .. Len(feedback[s]) /\ Len(feedback[s]) \in Nat
    BY DEF Types, MailTypeOK
  <2>3. \A i, j \in DOMAIN feedback[s] : i = j
    BY <2>1, <2>2, CountsAreNumbers
  <2>4. InHand(s) = 1 => DOMAIN feedback[s] = {}
    BY <2>1, <2>2
  <2>5. QED
    BY <2>3, <2>4, AnsweredMembers
<1>4. QED
  BY <1>1, <1>2, <1>3 DEF InCare

LEMMA OwnOrdersDiffer ==
  ASSUME Types, OneFeedbackPerWaiter, NoOrphanOrder, WaitApart,
         \A s \in Strategies : OwnOrders(s)
  PROVE  NoEqualOrders
<1> SUFFICES ASSUME NEW s \in Strategies,
                    NEW x \in OpenOrdersOf(s), NEW y \in OpenOrdersOf(s),
                    book[x].action = book[y].action
             PROVE  x = y
  BY DEF NoEqualOrders
<1>1. OwnOrders(s) /\ Balanced(s) /\ Awaiting(s) # Sides
  BY DEF OneFeedbackPerWaiter, Balanced, WaitApart
<1>2. ASSUME NEW z \in OpenOrdersOf(s)
      PROVE  \E o \in InCare(s) : o.txid = z /\ o.action = book[z].action
  <2>1. z \in LookedAfter(s) /\ z \in DOMAIN book
    BY <1>2, OpenOrdersAreIds DEF NoOrphanOrder
  <2>2. PICK o \in InCare(s) : o.txid = z
    BY <2>1 DEF LookedAfter, InCare, Answered
  <2>3. QED
    BY <1>1, <2>1, <2>2 DEF OwnOrders, BookAgrees
<1>3. PICK p \in InCare(s) : p.txid = x /\ p.action = book[x].action
  BY <1>2
<1>4. PICK q \in InCare(s) : q.txid = y /\ q.action = book[y].action
  BY <1>2
<1>5. QED
  BY <1>1, <1>3, <1>4, OneOrderOfASide

(***************************************************************************)
(* As long as the two threads of an object never wait at the same time on  *)
(* the one feedback channel (smallchanges.cc:87, :257), an object never    *)
(* has two equal orders open: what :130-134 and :304-308 promise.          *)
(***************************************************************************)
THEOREM ApartNeverEqual == Spec => EqualOrdersNeedTwoWaiters
<1> DEFINE Own == \A s \in Strategies : OwnOrders(s)
<1>1. Init => Own
  BY NewObjectOwn DEF Init, MailInit, TraderInit, SmallChangesInit
<1>2. Types /\ OrdersOnTheWay /\ OneFeedbackPerWaiter /\ WaitApart
        /\ Own /\ [Next]_vars => Own'
  <2> SUFFICES ASSUME Types, OrdersOnTheWay, OneFeedbackPerWaiter, WaitApart,
                      \A s \in Strategies : OwnOrders(s), [Next]_vars
               PROVE  \A s \in Strategies : OwnOrders(s)'
    OBVIOUS
  <2>1. QED
    BY OwnOrdersStep
<1>3. Types /\ OneFeedbackPerWaiter /\ NoOrphanOrder /\ WaitApart /\ Own => NoEqualOrders
  BY OwnOrdersDiffer
<1> HIDE DEF Own
<1>4. QED
  BY <1>1, <1>2, <1>3, InitOrders, NextOrders, TypesCorrect, FeedbackBalances,
     NoOrderIsForgotten, PTL DEF Spec, EqualOrdersNeedTwoWaiters
=============================================================================
