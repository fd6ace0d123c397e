------------------------------ MODULE Messages ------------------------------
(***************************************************************************)
(* What the threads of openatd send each other (include/atd/types.hpp) and *)
(* the two kinds of channel they use: the one channel of messages that     *)
(* main creates and hands to every strategy and to the trader, and the     *)
(* private feedback channel of each SmallChanges object.  A channel is     *)
(* the indivisible FIFO of module Fifo, which module Channel shows it to   *)
(* be; nobody closes one.                                                  *)
(***************************************************************************)
EXTENDS Naturals, Sequences, FiniteSets

CONSTANTS
    Strategies, \* the SmallChanges objects
    NoFeedback, \* the null feedback pointer of a message
    TxIds,      \* the transaction ids the market hands out
    NoTx,       \* the empty txid of an order that was not placed
    Prices      \* the prices an order can have

ASSUME MessagesAssumption ==
    /\ IsFiniteSet(Strategies)
    /\ NoFeedback \notin Strategies
    /\ NoTx \notin TxIds
    /\ Prices \subseteq Nat \ {0}

VARIABLES
    chan,       \* the shared channel of messages
    feedback    \* the feedback channel of each strategy

mailVars == <<chan, feedback>>

\* at::order_t: price 0 is an order whose price has not been set.
Order == [action : {"buy", "sell"},
          type   : {"limit", "market"},
          price  : Prices \cup {0},
          txid   : TxIds \cup {NoTx}]

\* message_t; what its budget does to the order is in module Trader.
Message == [feedback : Strategies \cup {NoFeedback}, order : Order]

NewOrder(action, type, price) ==
    [action |-> action, type |-> type, price |-> price, txid |-> NoTx]

NoOrder == NewOrder("buy", "limit", 0)
NoMessage == [feedback |-> NoFeedback, order |-> NoOrder]

MailTypeOK ==
    /\ chan \in Seq(Message)
    /\ feedback \in [Strategies -> Seq(Order)]

MailInit ==
    /\ chan = <<>>
    /\ feedback = [s \in Strategies |-> <<>>]

PutMessage(owner, order) ==
    chan' = Append(chan, [feedback |-> owner, order |-> order])

PutFeedback(s, order) ==
    feedback' = [feedback EXCEPT ![s] = Append(@, order)]

PopFeedback(s) ==
    feedback' = [feedback EXCEPT ![s] = Tail(@)]
=============================================================================
