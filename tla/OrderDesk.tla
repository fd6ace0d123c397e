----------------------------- MODULE OrderDesk -----------------------------
(***************************************************************************)
(* What the strategies can rely on, without the threads that provide it:   *)
(* a desk that takes requests in the order they were put, and settles the  *)
(* first of them in one indivisible step.  It either opens one order for   *)
(* it, as asked, and answers with its txid, or opens none and answers with *)
(* no txid.  There is one answer to each request, to the one who asked,    *)
(* and to nobody if a null feedback asked.  A limit price is not touched.  *)
(*                                                                         *)
(* Two things are not promised: before the first request is settled the    *)
(* market may open orders for it that nobody is told of, and a crash loses *)
(* requests and answers, though no order.                                  *)
(*                                                                         *)
(* Here chan holds the requests that are not settled, feedback the answers *)
(* that were not collected.  Module Trading implements it.                 *)
(***************************************************************************)
EXTENDS Exchange

deskVars == <<mailVars, book, life>>

Owners == Strategies \cup {NoFeedback}

Init == MailInit /\ ExchangeInit

\* No open order and no answer on its way has the id.
Unused(x) ==
    /\ ~IsOpen(x)
    /\ \A s \in Strategies : \A i \in DOMAIN feedback[s] : feedback[s][i].txid # x

\* A request is for a new order; without a price if it is a market order.
Request ==
    /\ \E o \in Owners, side \in {"buy", "sell"} :
           \/ PutMessage(o, NewOrder(side, "market", 0))
           \/ \E p \in Prices : PutMessage(o, NewOrder(side, "limit", p))
    /\ UNCHANGED <<feedback, book, life>>

\* The first request leaves, and result, what was done about it, is told.
Settle(result) ==
    /\ chan' = Tail(chan)
    /\ IF Head(chan).feedback = NoFeedback
       THEN UNCHANGED feedback
       ELSE PutFeedback(Head(chan).feedback, result)

\* The order asked for with the price it is worked on at.
Priced(p) == [Head(chan).order EXCEPT !.price = p]

PossiblePrices ==
    IF Head(chan).order.type = "market" THEN Prices ELSE {Head(chan).order.price}

Grant ==
    /\ chan # <<>>
    /\ \E x \in TxIds, p \in PossiblePrices :
           /\ Unused(x)
           /\ Accept(x, Head(chan).feedback, Head(chan).order.action, TRUE)
           /\ Settle([Priced(p) EXCEPT !.txid = x])
    /\ UNCHANGED life

Refuse ==
    /\ chan # <<>>
    /\ \E p \in PossiblePrices : Settle(Priced(p))
    /\ UNCHANGED <<book, life>>

\* An order is opened and nobody is told; the request stays.
Mislay ==
    /\ chan # <<>>
    /\ \E x \in TxIds :
           /\ Unused(x)
           /\ Accept(x, Head(chan).feedback, Head(chan).order.action, FALSE)
    /\ UNCHANGED <<mailVars, life>>

Collect ==
    /\ \E s \in Strategies : feedback[s] # <<>> /\ PopFeedback(s)
    /\ UNCHANGED <<chan, book, life>>

Close ==
    /\ \E x \in TxIds : CloseOrder(x)
    /\ UNCHANGED <<mailVars, life>>

Crash ==
    /\ chan' = <<>>
    /\ feedback' = [s \in Strategies |-> <<>>]
    /\ life' = life + 1
    /\ UNCHANGED book

Next ==
    \/ Request
    \/ Grant
    \/ Refuse
    \/ Mislay
    \/ Collect
    \/ Close
    \/ Crash

\* The first request is settled sooner or later.
Spec == Init /\ [][Next]_deskVars /\ WF_deskVars(Grant \/ Refuse)
=============================================================================
