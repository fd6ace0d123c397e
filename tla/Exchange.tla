------------------------------ MODULE Exchange ------------------------------
(***************************************************************************)
(* The market at the other end of the network (at::Market of the OpenAT    *)
(* library), as the code in src/ uses it: place gives an order a txid and  *)
(* openOrders lists the orders that are still open.  The market outlives   *)
(* the process.  Its answers can be lost: place may throw server_error     *)
(* although the order was accepted.                                        *)
(*                                                                         *)
(* book holds the open orders.  What a record says of its origin (owner,   *)
(* acked, life) the market does not know: it is there for the properties.  *)
(* Ids are fresh with respect to every id that is still written down       *)
(* anywhere, so a finite pool of them models an inexhaustible one.         *)
(***************************************************************************)
EXTENDS Messages

VARIABLES
    book,       \* the open orders, by txid
    life        \* how many times the process has been restarted

OpenOrder == [owner  : Strategies \cup {NoFeedback},
              action : {"buy", "sell"},
              acked  : BOOLEAN,     \* the answer to place arrived
              life   : Nat]         \* the life in which it was placed

ExchangeTypeOK ==
    /\ DOMAIN book \subseteq TxIds
    /\ \A x \in DOMAIN book : book[x] \in OpenOrder
    /\ life \in Nat

ExchangeInit ==
    /\ book = [x \in {} |-> NoTx]
    /\ life = 0

IsOpen(x) == x \in DOMAIN book

Lost == {x \in DOMAIN book : ~book[x].acked}

\* The market accepts an order under the id x.
Accept(x, owner, action, acked) ==
    book' = [y \in DOMAIN book \cup {x} |->
                IF y = x THEN [owner |-> owner, action |-> action,
                               acked |-> acked, life |-> life]
                         ELSE book[y]]

\* An order leaves the book: it is filled, or it is cancelled, which the
\* program cannot tell apart.
CloseOrder(x) ==
    /\ IsOpen(x)
    /\ book' = [y \in DOMAIN book \ {x} |-> book[y]]
=============================================================================
