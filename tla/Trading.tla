------------------------------- MODULE Trading -------------------------------
(***************************************************************************)
(* The trading half of openatd at work: the decisor of the market, the two *)
(* threads of each SmallChanges object, the strategies that never ask for  *)
(* a feedback, the market, and the death and restart of the process.       *)
(* These are the threads Trader::intramarket starts (trader.cc:303-313).   *)
(*                                                                         *)
(* The configuration knows one market, kraken (config.cc:71-83), so there  *)
(* is one decisor and the market needs no name.                            *)
(***************************************************************************)
EXTENDS Trader, SmallChanges

CONSTANTS
    MaxPlain,   \* bound of the model on queued messages without feedback
    MaxLives    \* bound of the model on the restarts

ASSUME TradingAssumption == MaxPlain \in Nat /\ MaxLives \in Nat

vars == <<mailVars, book, life, traderVars, smallChangesVars>>

Types ==
    /\ MailTypeOK
    /\ ExchangeTypeOK
    /\ TraderTypeOK
    /\ SmallChangesTypeOK

\* Only for an order with a txid does a thread poll the market or touch _bought
\* and _price.
PolledHaveIds ==
    \A t \in Threads : pc[t] \in {"track", "record"} => held[t].txid # NoTx

TypeOK == Types /\ PolledHaveIds

Init ==
    /\ MailInit
    /\ ExchangeInit
    /\ TraderInit
    /\ SmallChangesInit

-----------------------------------------------------------------------------
\* Every place where an id is written down.
KnownIds ==
    DOMAIN book \cup attempts \cup {order.txid}
      \cup {held[t].txid : t \in Threads}
      \cup UNION {{feedback[s][i].txid : i \in DOMAIN feedback[s]} :
                      s \in Strategies}

FreshIds == TxIds \ KnownIds

Decisor ==
    /\ \/ TakeMessage
       \/ SizeOrder
       \/ \E x \in FreshIds : Place(x) \/ PlaceLost(x)
       \/ PlaceFails
       \/ Reply
    /\ UNCHANGED smallChangesVars

Strategy(t) ==
    /\ \/ Side(t) = "buy" /\ BuySignal(t[1])
       \/ Side(t) = "sell" /\ SellSignal(t[1])
       \/ GetFeedback(t)
       \/ Fulfilled(t)
       \/ SetBought(t)
       \/ ReadPrice(t)
       \/ SetPrice(t)
       \/ WakeUp(t)
    /\ UNCHANGED traderVars

\* Messages and open orders of strategies that ask for no feedback.
PlainPending ==
    Cardinality({i \in DOMAIN chan : chan[i].feedback = NoFeedback})
      + Cardinality({x \in DOMAIN book : book[x].owner = NoFeedback})
      + (IF at # "get" /\ message.feedback = NoFeedback THEN 1 ELSE 0)

\* DollarCostAveraging and BuyLowAndHodl put a message and forget it.
PlainBuy ==
    /\ PlainPending < MaxPlain
    /\ \/ PutMessage(NoFeedback, NewOrder("buy", "market", 0))
       \/ \E p \in Prices : PutMessage(NoFeedback, NewOrder("buy", "limit", p))
    /\ UNCHANGED <<feedback, book, life, traderVars, smallChangesVars>>

MarketCloses ==
    /\ \E x \in DOMAIN book : CloseOrder(x)
    /\ UNCHANGED <<mailVars, life, traderVars, smallChangesVars>>

(***************************************************************************)
(* The process can end at any instant: it is killed, or an exception other *)
(* than server_error, which nobody catches in the threads of the trader    *)
(* and of the strategies, leaves its thread.  systemd starts it again.     *)
(* The orders in the market are all that is left.                          *)
(***************************************************************************)
Die ==
    /\ life < MaxLives
    /\ chan' = <<>>
    /\ feedback' = [s \in Strategies |-> <<>>]
    /\ at' = "get" /\ message' = NoMessage /\ order' = NoOrder
    /\ attempts' = {}
    /\ pc' = [t \in Threads |-> "watch"]
    /\ held' = [t \in Threads |-> NoOrder]
    /\ takeProfit' = [s \in Strategies |-> FALSE]
    /\ bought' = [s \in Strategies |-> FALSE]
    /\ price' = [s \in Strategies |-> 0]
    /\ todo' = [t \in Threads |-> {}]
    /\ seen' = [s \in Strategies |-> 0]
    /\ overlap' = [s \in Strategies |-> FALSE]
    /\ life' = life + 1
    /\ UNCHANGED book

Next ==
    \/ Decisor
    \/ \E t \in Threads : Strategy(t)
    \/ PlainBuy
    \/ MarketCloses
    \/ Die

(***************************************************************************)
(* The decisor runs on, and a market that is asked again and again to take *)
(* an order accepts it, answer and all, at last: the retry loop has no     *)
(* other way out.  A thread whose feedback is there gets it.  Nothing else *)
(* is promised: no signal has to come, no order has to be filled.          *)
(***************************************************************************)
Fairness ==
    /\ WF_vars(Decisor)
    /\ SF_vars((\E x \in FreshIds : Place(x)) /\ UNCHANGED smallChangesVars)
    /\ \A s \in Strategies :
           WF_vars(\E t \in {s} \X Sides : GetFeedback(t) /\ UNCHANGED traderVars)

Spec == Init /\ [][Next]_vars /\ Fairness

-----------------------------------------------------------------------------
(***************************************************************************)
(* Properties                                                              *)
(***************************************************************************)
Awaiting(s) == {side \in Sides : pc[<<s, side>>] = "await"}
Tracking(s) == {side \in Sides : pc[<<s, side>>] = "track"}

\* The messages of s that wait in the channel, by position.
Queued(s) == {i \in DOMAIN chan : chan[i].feedback = s}

InHand(s) == IF at # "get" /\ message.feedback = s THEN 1 ELSE 0

(***************************************************************************)
(* Every thread that waits for a feedback has one coming, and every        *)
(* feedback coming has a thread that waits for it: what is queued for s,   *)
(* in the decisor's hands or already answered is as much as the threads of *)
(* s that wait (smallchanges.cc:76-87, :254-257; trader.cc:275-281).       *)
(* Neither a stale feedback nor a wait without end is possible, although   *)
(* the two threads of an object do not know whose feedback they get.       *)
(***************************************************************************)
OneFeedbackPerWaiter ==
    \A s \in Strategies :
        Cardinality(Awaiting(s)) =
            Cardinality(Queued(s)) + InHand(s) + Len(feedback[s])

(***************************************************************************)
(* However often server_error makes the decisor start a message again      *)
(* (trader.cc:143-298), an order that has been given a txid is never       *)
(* worked on and never placed again, and every order it gives back has a   *)
(* price, so the strategy's record of it means something.                  *)
(***************************************************************************)
PlacedOrdersAreDone ==
    /\ order.txid # NoTx => at = "reply"
    /\ \A s \in Strategies : \A i \in DOMAIN feedback[s] :
           feedback[s][i].txid # NoTx => feedback[s][i].price > 0

(***************************************************************************)
(* A message that is worked on again (trader.cc:294-298) leaves orders     *)
(* behind in the market only where place did not tell what came of them:   *)
(* of the orders a message was accepted as, the one that is not lost is    *)
(* the one the decisor is about to report.                                 *)
(***************************************************************************)
OnlyLostOrdersAreRepeated ==
    \A x \in attempts \cap DOMAIN book :
        book[x].acked => at = "reply" /\ order.txid = x

\* The open orders of s, of this life, whose txid the process was told.
OpenOrdersOf(s) ==
    {x \in DOMAIN book :
        book[x].owner = s /\ book[x].acked /\ book[x].life = life}

\* The ids that somebody who will look after the order has.
LookedAfter(s) ==
    {held[<<s, side>>].txid : side \in Tracking(s)}
      \cup {feedback[s][i].txid : i \in DOMAIN feedback[s]}
      \cup (IF InHand(s) = 1 THEN {order.txid} ELSE {})

(***************************************************************************)
(* An order placed for a strategy, in this life of the process and with    *)
(* its answer not lost, stays in somebody's care for as long as it is      *)
(* open: the decisor has its id, or a feedback has it, or a thread of the  *)
(* same strategy polls it.                                                 *)
(***************************************************************************)
NoOrphanOrder ==
    \A s \in Strategies : OpenOrdersOf(s) \subseteq LookedAfter(s)

(***************************************************************************)
(* A strategy never has more orders open, as far as it could know of them, *)
(* than it has threads that wait for a feedback or poll an order: it asks  *)
(* for nothing new before the last thing it asked for is settled.          *)
(***************************************************************************)
ExposureBounded ==
    \A s \in Strategies :
        Cardinality(OpenOrdersOf(s)) <= Cardinality(Awaiting(s) \cup Tracking(s))

(***************************************************************************)
(* _bought and _price tell the same story (smallchanges.cc:126-128 and     *)
(* :299-302; takeProfit reads both, :220-222) whenever no thread is in the *)
(* middle of recording, provided the two threads have never been recording *)
(* at the same time: nothing but luck keeps them apart.                    *)
(***************************************************************************)
PositionConsistent ==
    \A s \in Strategies :
        overlap[s] \/ (\E side \in Sides : pc[<<s, side>>] = "record")
            \/ (bought[s] <=> price[s] > 0)

(***************************************************************************)
(* As long as the process lives, a thread that waits makes a feedback come *)
(* for its object, and two waiting threads of an object never block each   *)
(* other for ever.  Which of them gets the first feedback is not promised. *)
(***************************************************************************)
WaitersAreAnswered ==
    \A s \in Strategies :
        /\ Awaiting(s) # {} ~> feedback[s] # <<>>
        /\ Awaiting(s) = Sides ~> Awaiting(s) # Sides

(***************************************************************************)
(* The desk that the strategies see: the message in the decisor's hands is *)
(* still a request until its order is placed or refused, and from then on  *)
(* it is an answer.                                                        *)
(***************************************************************************)
Requests == IF at \in {"work", "place"} THEN <<message>> \o chan ELSE chan

Answers ==
    [s \in Strategies |->
        IF at = "reply" /\ message.feedback = s THEN Append(feedback[s], order)
                                               ELSE feedback[s]]

Desk == INSTANCE OrderDesk WITH chan <- Requests, feedback <- Answers

(***************************************************************************)
(* Every step of the decisor, retries, lost answers and death included, is *)
(* one of the desk or none: each message is settled once, in its turn,     *)
(* with one order opened as asked or with none, and answered once to the   *)
(* one who sent it (trader.cc:129-298).                                    *)
(***************************************************************************)
KeepsOrderDesk == Desk!Init /\ [][Desk!Next]_(Desk!deskVars)

\* And every message is settled in the end.
ImplementsOrderDesk == Desk!Spec

-----------------------------------------------------------------------------
(***************************************************************************)
(* What the comments of the code say and the code does not do              *)
(***************************************************************************)

(***************************************************************************)
(* smallchanges.cc:130-134 and :304-308: an object does "not place equals  *)
(* order in a short period of time".  So it has at most one buy order and  *)
(* one sell order open.                                                    *)
(***************************************************************************)
NoEqualOrders ==
    \A s \in Strategies : \A x, y \in OpenOrdersOf(s) :
        book[x].action = book[y].action => x = y

(***************************************************************************)
(* trader.cc:288-293: server_error is "usually an overloaded server error" *)
(* and starting the message again is the remedy.  So a message becomes one *)
(* order of the market at most.                                            *)
(***************************************************************************)
OneOrderPerMessage == Cardinality(attempts) <= 1

-----------------------------------------------------------------------------
(***************************************************************************)
(* What remains true of it: the promise of smallchanges.cc:130-134 is kept *)
(* as long as the two threads of an object never wait at the same time on  *)
(* their one feedback channel (:87, :257), whatever the market and the     *)
(* decisor do.                                                             *)
(***************************************************************************)
WaitApart == \A s \in Strategies : Awaiting(s) # Sides

EqualOrdersNeedTwoWaiters == []WaitApart => []NoEqualOrders
=============================================================================
