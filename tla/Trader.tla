------------------------------- MODULE Trader -------------------------------
(***************************************************************************)
(* Trader::intramarket (src/atd/trader.cc): the decisor thread of the      *)
(* market.  It takes one message at a time from the shared channel, sizes  *)
(* the order from the balances, the ticker and the market's limits, places *)
(* it if it fits, and tells the strategy that asked, whether it placed it  *)
(* or not.  A server_error anywhere in between starts the message again.   *)
(*                                                                         *)
(* The read-only calls (balance, ticker, info) and the arithmetic are one  *)
(* step whose outcome, fits or not, is free.  A server_error they throw    *)
(* changes nothing and is no step.                                         *)
(***************************************************************************)
EXTENDS Exchange

CONSTANT MaxLost    \* bound of the model on the open orders nobody knows of

ASSUME MaxLostAssumption == MaxLost \in Nat

VARIABLES
    at,         \* where the decisor is in its loop
    message,    \* the message in hand
    order,      \* the local copy of its order
    attempts    \* history: the ids under which the market accepted it

traderVars == <<at, message, order, attempts>>

TraderTypeOK ==
    /\ at \in {"get", "work", "place", "reply"}
    /\ message \in Message
    /\ order \in Order
    /\ attempts \in SUBSET TxIds

TraderInit ==
    /\ at = "get"
    /\ message = NoMessage
    /\ order = NoOrder
    /\ attempts = {}

TakeMessage ==
    /\ at = "get"
    /\ chan # <<>>
    /\ message' = Head(chan)
    /\ order' = Head(chan).order
    /\ attempts' = {}
    /\ chan' = Tail(chan)
    /\ at' = "work"
    /\ UNCHANGED <<feedback, book, life>>

\* A market order gets the price of the ticker, a limit order keeps its own.
SizeOrder ==
    /\ at = "work"
    /\ IF order.type = "market"
       THEN \E p \in Prices : order' = [order EXCEPT !.price = p]
       ELSE order' = order
    /\ at' \in {"place", "reply"}
    /\ UNCHANGED <<message, attempts, mailVars, book, life>>

\* Slip: retry is left true after a success.
RetryAnyway == at' \in {"work", "reply"}

\* retry = false: the message is not worked on again.
NoRetry == at' = "reply"

\* market->place(order) returns; order.txid is the id of the new order.
Place(x) ==
    /\ at = "place"
    /\ Accept(x, message.feedback, order.action, TRUE)
    /\ order' = [order EXCEPT !.txid = x]
    /\ attempts' = attempts \cup {x}
    /\ NoRetry
    /\ UNCHANGED <<message, mailVars, life>>

\* place throws server_error, but the market has accepted the order.
PlaceLost(x) ==
    /\ at = "place"
    /\ Cardinality(Lost) < MaxLost
    /\ Accept(x, message.feedback, order.action, FALSE)
    /\ attempts' = attempts \cup {x}
    /\ at' = "work"
    /\ UNCHANGED <<message, order, mailVars, life>>

\* place throws server_error and the market has not accepted the order.
PlaceFails ==
    /\ at = "place"
    /\ at' = "work"
    /\ UNCHANGED <<message, order, attempts, mailVars, book, life>>

\* Slip: only good news is reported.
AnswerIfPlaced ==
    IF message.feedback # NoFeedback /\ order.txid # NoTx
    THEN PutFeedback(message.feedback, order)
    ELSE UNCHANGED feedback

\* The strategy is told of a refused order too, by an empty txid.
Answer ==
    IF message.feedback # NoFeedback
    THEN PutFeedback(message.feedback, order)
    ELSE UNCHANGED feedback

\* message.feedback->put(feedback), then message = {} and the next get.
Reply ==
    /\ at = "reply"
    /\ Answer
    /\ message' = NoMessage
    /\ order' = NoOrder
    /\ attempts' = {}
    /\ at' = "get"
    /\ UNCHANGED <<chan, book, life>>
=============================================================================
