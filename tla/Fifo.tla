-------------------------------- MODULE Fifo --------------------------------
(***************************************************************************)
(* What a channel<item> (include/atd/channel.hpp) promises to the threads  *)
(* that share it, with no mutex and no condition variable in sight: every  *)
(* call of put, get and close takes effect in one indivisible step, items  *)
(* leave in the order they entered, and an item never lies in the queue    *)
(* for ever while some thread sits in get.  Module Channel shows that the  *)
(* mutex-and-condition-variable code implements this.                      *)
(***************************************************************************)
EXTENDS Naturals, Sequences, FiniteSets

CONSTANTS
    Threads,    \* the threads that call the channel
    Items,      \* the values that travel through it
    QueueBound  \* bound of the model on the items queued and being put

ASSUME QueueBoundAssumption == QueueBound \in Nat \ {0}

VARIABLES
    queue,      \* _queue
    closed,     \* _closed
    req,        \* the call each thread is in, or Idle
    result      \* the last call that returned: whose, and its outcome

fifoVars == <<queue, closed, req, result>>

Idle == [op |-> "none"]
Puts == [op : {"put"}, item : Items]
\* get(out), get(out, false) and close()
Requests == Puts \cup {[op |-> "get"], [op |-> "poll"], [op |-> "close"]}

\* put threw, close or put returned, get returned false
Outcomes == {"thrown", "done", "empty"}

FifoTypeOK ==
    /\ queue \in Seq(Items)
    /\ closed \in BOOLEAN
    /\ req \in [Threads -> Requests \cup {Idle}]
    /\ result \in [thread : Threads, outcome : Items \cup Outcomes]

FifoInit ==
    /\ queue = <<>>
    /\ closed = FALSE
    /\ req = [t \in Threads |-> Idle]
    /\ result \in [thread : Threads, outcome : {"done"}]

\* The call of t ends with outcome r.
Return(t, r) ==
    /\ req' = [req EXCEPT ![t] = Idle]
    /\ result' = [thread |-> t, outcome |-> r]

-----------------------------------------------------------------------------
PendingPuts == {t \in Threads : req[t].op = "put"}

Invoke(t, r) ==
    /\ req[t] = Idle
    /\ r.op = "put" => Len(queue) + Cardinality(PendingPuts) < QueueBound
    /\ req' = [req EXCEPT ![t] = r]
    /\ UNCHANGED <<queue, closed, result>>

Put(t) ==
    /\ req[t].op = "put"
    /\ IF closed
       THEN /\ Return(t, "thrown")
            /\ UNCHANGED queue
       ELSE /\ queue' = Append(queue, req[t].item)
            /\ Return(t, "done")
    /\ UNCHANGED closed

Take(t) ==
    /\ req[t].op \in {"get", "poll"}
    /\ queue # <<>>
    /\ queue' = Tail(queue)
    /\ Return(t, Head(queue))
    /\ UNCHANGED closed

\* Only a get that does not wait, or one on a closed channel, finds nothing.
FindNothing(t) ==
    /\ \/ req[t].op = "poll"
       \/ req[t].op = "get" /\ closed
    /\ queue = <<>>
    /\ Return(t, "empty")
    /\ UNCHANGED <<queue, closed>>

Close(t) ==
    /\ req[t].op = "close"
    /\ closed' = TRUE
    /\ Return(t, "done")
    /\ UNCHANGED queue

FifoNext ==
    \E t \in Threads :
        \/ \E r \in Requests : Invoke(t, r)
        \/ Put(t)
        \/ Take(t)
        \/ FindNothing(t)
        \/ Close(t)

(***************************************************************************)
(* put and close never block; a non-empty queue is taken from as long as   *)
(* some thread wants an item (which thread is not promised); on a closed   *)
(* and empty channel every get returns.                                    *)
(***************************************************************************)
FifoFairness ==
    /\ \A t \in Threads : WF_fifoVars(Put(t) \/ Close(t))
    /\ \A t \in Threads : WF_fifoVars(FindNothing(t))
    /\ WF_fifoVars(\E t \in Threads : Take(t))

FifoSpec == FifoInit /\ [][FifoNext]_fifoVars /\ FifoFairness
=============================================================================
