---------------------------- MODULE SmallChanges ----------------------------
(***************************************************************************)
(* The strategy SmallChanges (src/atd/smallchanges.cc).  One object has    *)
(* two threads, buy and sell, that share its feedback channel and its two  *)
(* fields _bought and _price without a lock.  Each thread watches the      *)
(* stored history for its signal, puts a message, waits for a feedback,    *)
(* polls the open orders until the order is not among them, records the    *)
(* outcome and rests.                                                      *)
(*                                                                         *)
(* Whether the history shows a signal is left open here.  A server_error   *)
(* of openOrders, and a poll that still finds the order, change nothing    *)
(* and are no step.                                                        *)
(***************************************************************************)
EXTENDS Exchange

VARIABLES
    pc,         \* where each thread is in its loop
    held,       \* the order each thread got with its last feedback
    takeProfit, \* the local takeProfit of each sell thread
    bought,     \* _bought
    price,      \* _price
    todo,       \* the accesses to _bought and _price each thread has left
    seen,       \* the _price that the buy thread read inside std::max
    overlap     \* history: both threads of the object were recording at once

smallChangesVars ==
    <<pc, held, takeProfit, bought, price, todo, seen, overlap>>

Sides == {"buy", "sell"}
Threads == Strategies \X Sides
Side(t) == t[2]

Places == {"watch", "await", "track", "record", "rest"}
Accesses == {"bought", "read", "price"}

SmallChangesTypeOK ==
    /\ pc \in [Threads -> Places]
    /\ held \in [Threads -> Order]
    /\ takeProfit \in [Strategies -> BOOLEAN]
    /\ bought \in [Strategies -> BOOLEAN]
    /\ price \in [Strategies -> Prices \cup {0}]
    /\ todo \in [Threads -> SUBSET Accesses]
    /\ seen \in [Strategies -> Prices \cup {0}]
    /\ overlap \in [Strategies -> BOOLEAN]

SmallChangesInit ==
    /\ pc = [t \in Threads |-> "watch"]
    /\ held = [t \in Threads |-> NoOrder]
    /\ takeProfit = [s \in Strategies |-> FALSE]
    /\ bought = [s \in Strategies |-> FALSE]
    /\ price = [s \in Strategies |-> 0]
    /\ todo = [t \in Threads |-> {}]
    /\ seen = [s \in Strategies |-> 0]
    /\ overlap = [s \in Strategies |-> FALSE]

Goto(t, place) == pc' = [pc EXCEPT ![t] = place]

-----------------------------------------------------------------------------
\* A bargain or a long bear run: buy at the market.
BuySignal(s) ==
    /\ pc[<<s, "buy">>] = "watch"
    /\ PutMessage(s, NewOrder("buy", "market", 0))
    /\ Goto(<<s, "buy">>, "await")
    /\ UNCHANGED <<feedback, book, life, held, takeProfit, bought, price,
                   todo, seen, overlap>>

\* price_quote >= _price * (1 + 0.1)
Profitable(p, cost) == 10 * p >= 11 * cost

(***************************************************************************)
(* A spike or a long bull run sells at the market, a price that is worth   *)
(* taking sells at that price.  The sell thread reads _bought and then     *)
(* _price; between the two only the buy thread runs, which only raises     *)
(* them, so reading both at the second instant gives the same outcomes.    *)
(***************************************************************************)
SellSignal(s) ==
    /\ pc[<<s, "sell">>] = "watch"
    /\ \/ /\ PutMessage(s, NewOrder("sell", "market", 0))
          /\ takeProfit' = [takeProfit EXCEPT ![s] = FALSE]
       \/ /\ bought[s] /\ price[s] > 0
          /\ \E p \in Prices : /\ Profitable(p, price[s])
                               /\ PutMessage(s, NewOrder("sell", "limit", p))
          /\ takeProfit' = [takeProfit EXCEPT ![s] = TRUE]
    /\ Goto(<<s, "sell">>, "await")
    /\ UNCHANGED <<feedback, book, life, held, bought, price, todo, seen,
                   overlap>>

\* Slip: the feedback of an order that was not placed is not told apart.
RefusedNever(o) == FALSE

\* order.txid.length() > 0 fails.
Refused(o) == o.txid = NoTx

\* The thread that gets the feedback need not be the one that asked for it.
GetFeedback(t) ==
    /\ pc[t] = "await"
    /\ feedback[t[1]] # <<>>
    /\ LET o == Head(feedback[t[1]])
       IN IF Refused(o)
          THEN Goto(t, "watch") /\ UNCHANGED held
          ELSE Goto(t, "track") /\ held' = [held EXCEPT ![t] = o]
    /\ PopFeedback(t[1])
    /\ UNCHANGED <<chan, book, life, takeProfit, bought, price, todo, seen,
                   overlap>>

-----------------------------------------------------------------------------
\* What a thread has to do to the shared fields once its order is closed.
ToRecord(t) ==
    IF Side(t) = "buy"         THEN Accesses
    ELSE IF takeProfit[t[1]] THEN {"bought", "price"}
    ELSE {}

Other(t) == <<t[1], IF Side(t) = "buy" THEN "sell" ELSE "buy">>

\* Slip: a server_error leaves openOrders empty, and that is believed.
ListedAfterError(x) == FALSE

\* openOrders lists the order x.
Listed(x) == IsOpen(x)

\* openOrders does not list the order any more: "order fulfilled!".
Fulfilled(t) ==
    /\ pc[t] = "track"
    /\ ~Listed(held[t].txid)
    /\ todo' = [todo EXCEPT ![t] = ToRecord(t)]
    /\ IF ToRecord(t) = {}
       THEN Goto(t, "rest") /\ UNCHANGED overlap
       ELSE /\ Goto(t, "record")
            /\ overlap' = [overlap EXCEPT ![t[1]] =
                               @ \/ pc[Other(t)] = "record"]
    /\ held' = [held EXCEPT ![t] = IF ToRecord(t) = {} THEN NoOrder ELSE @]
    /\ UNCHANGED <<mailVars, book, life, takeProfit, bought, price, seen>>

\* t makes the access a; with the last one it is done and rests.
Access(t, a) ==
    /\ pc[t] = "record"
    /\ a \in todo[t]
    /\ todo' = [todo EXCEPT ![t] = @ \ {a}]
    /\ IF todo[t] = {a}
       THEN Goto(t, "rest") /\ held' = [held EXCEPT ![t] = NoOrder]
       ELSE UNCHANGED <<pc, held>>
    /\ UNCHANGED <<mailVars, book, life, takeProfit, overlap>>

SetBought(t) ==
    /\ Access(t, "bought")
    /\ bought' = [bought EXCEPT ![t[1]] = (Side(t) = "buy")]
    /\ UNCHANGED <<price, seen>>

\* std::max(order.price, _price) reads the field ...
ReadPrice(t) ==
    /\ Access(t, "read")
    /\ seen' = [seen EXCEPT ![t[1]] = price[t[1]]]
    /\ UNCHANGED <<bought, price>>

Larger(a, b) == IF a > b THEN a ELSE b

\* Slip: the sell thread forgets _price = 0.
RecordedPriceWithoutReset(t) == Larger(held[t].price, seen[t[1]])

RecordedPrice(t) ==
    IF Side(t) = "sell" THEN 0 ELSE Larger(held[t].price, seen[t[1]])

\* ... and _price = ... writes it, as _price = 0 does in the sell thread.
SetPrice(t) ==
    /\ Access(t, "price")
    /\ "read" \notin todo[t]
    /\ price' = [price EXCEPT ![t[1]] = RecordedPrice(t)]
    /\ seen' = [seen EXCEPT ![t[1]] = 0]
    /\ UNCHANGED bought

\* The end of sleep_for(12h) or sleep_for(2h).
WakeUp(t) ==
    /\ pc[t] = "rest"
    /\ Goto(t, "watch")
    /\ UNCHANGED <<mailVars, book, life, held, takeProfit, bought, price,
                   todo, seen, overlap>>
=============================================================================
