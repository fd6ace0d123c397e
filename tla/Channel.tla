------------------------------- MODULE Channel -------------------------------
(***************************************************************************)
(* channel<item> of include/atd/channel.hpp: an unbounded queue guarded by *)
(* a mutex _m, with a condition variable _cv on which get waits for an     *)
(* item.  Threads call put, get with and without waiting, and close, in    *)
(* any order.  A call is three steps or more: it is invoked, it acquires   *)
(* _m, and it runs its critical section, at whose end the unique_lock      *)
(* gives _m back; a get that waits gives _m back in the middle and has to  *)
(* acquire it again.                                                       *)
(***************************************************************************)
EXTENDS Fifo

CONSTANT NoThread

ASSUME ThreadsAssumption == IsFiniteSet(Threads) /\ NoThread \notin Threads

VARIABLES
    holder,     \* the thread that holds _m, or NoThread
    pc          \* where each thread is in its call

vars == <<queue, closed, req, result, holder, pc>>

Places == {"idle",      \* in no call
           "entry",     \* called, has yet to acquire _m
           "held",      \* in the critical section
           "blocked",   \* in _cv.wait, sleeping
           "woken"}     \* in _cv.wait, woken, has yet to reacquire _m

ChannelTypes ==
    /\ FifoTypeOK
    /\ holder \in Threads \cup {NoThread}
    /\ pc \in [Threads -> Places]

(***************************************************************************)
(* The mutex is held by exactly the thread in a critical section, a thread *)
(* outside every call has no request, and only a get that was asked to     *)
(* wait is ever put to sleep (channel.hpp:55-60).                          *)
(***************************************************************************)
LockDiscipline ==
    /\ \A t \in Threads : pc[t] = "held" <=> holder = t
    /\ \A t \in Threads : pc[t] = "idle" <=> req[t] = Idle
    /\ \A t \in Threads : pc[t] \in {"blocked", "woken"} => req[t].op = "get"

TypeOK == ChannelTypes /\ LockDiscipline

Init ==
    /\ FifoInit
    /\ holder = NoThread
    /\ pc = [t \in Threads |-> "idle"]

Blocked == {t \in Threads : pc[t] = "blocked"}

\* The gets that are going to look at the queue without being woken by anybody.
AwakeGetters ==
    {t \in Threads : req[t].op = "get" /\ pc[t] \in {"entry", "held", "woken"}}

-----------------------------------------------------------------------------
Call(t, r) ==
    /\ Invoke(t, r)
    /\ pc' = [pc EXCEPT ![t] = "entry"]
    /\ UNCHANGED holder

Acquire(t) ==
    /\ pc[t] \in {"entry", "woken"}
    /\ holder = NoThread
    /\ holder' = t
    /\ pc' = [pc EXCEPT ![t] = "held"]
    /\ UNCHANGED fifoVars

\* t leaves the critical section and the threads of W leave their sleep.
ReleaseAndWake(t, W) ==
    /\ holder' = NoThread
    /\ pc' = [u \in Threads |-> IF u = t THEN "idle"
                                ELSE IF u \in W THEN "woken" ELSE pc[u]]

\* Slip: put does not notify.
NotifyOneSwallowed(t) == ReleaseAndWake(t, {})

\* _cv.notify_one(): some sleeper if there is one.
NotifyOne(t) ==
    IF Blocked = {} THEN ReleaseAndWake(t, {})
                    ELSE \E u \in Blocked : ReleaseAndWake(t, {u})

PutSection(t) ==
    /\ pc[t] = "held"
    /\ Put(t)
    /\ IF closed THEN ReleaseAndWake(t, {}) ELSE NotifyOne(t)

\* The predicate of _cv.wait.
Ready == closed \/ queue # <<>>

\* Slip: get waits whether it was asked to or not.
GetSectionAlwaysWaits(t) ==
    /\ pc[t] = "held"
    /\ req[t].op \in {"get", "poll"}
    /\ ~Ready
    /\ holder' = NoThread
    /\ pc' = [pc EXCEPT ![t] = "blocked"]
    /\ UNCHANGED fifoVars

GetSectionWaits(t) ==
    /\ pc[t] = "held"
    /\ req[t].op = "get"
    /\ ~Ready
    /\ holder' = NoThread
    /\ pc' = [pc EXCEPT ![t] = "blocked"]
    /\ UNCHANGED fifoVars

GetSectionReturns(t) ==
    /\ pc[t] = "held"
    /\ req[t].op = "get" => Ready
    /\ Take(t) \/ FindNothing(t)
    /\ ReleaseAndWake(t, {})

\* Slip: notify_one in place of notify_all.
CloseSectionWakesOne(t) ==
    /\ pc[t] = "held"
    /\ Close(t)
    /\ NotifyOne(t)

CloseSection(t) ==
    /\ pc[t] = "held"
    /\ Close(t)
    /\ ReleaseAndWake(t, Blocked)

\* The standard lets a wait end with nobody having notified.
SpuriousWakeup(t) ==
    /\ pc[t] = "blocked"
    /\ pc' = [pc EXCEPT ![t] = "woken"]
    /\ UNCHANGED <<queue, closed, req, result, holder>>

Section(t) ==
    \/ PutSection(t)
    \/ GetSectionWaits(t)
    \/ GetSectionReturns(t)
    \/ CloseSection(t)

Next ==
    \E t \in Threads :
        \/ \E r \in Requests : Call(t, r)
        \/ Acquire(t)
        \/ Section(t)
        \/ SpuriousWakeup(t)

(***************************************************************************)
(* A critical section is straight-line code, so it ends.  The mutex is not *)
(* a fair one by contract; the assumption is only that a thread that finds *)
(* it free again and again gets it at last.  Nobody has to call anything,  *)
(* and no spurious wakeup is ever relied on.                               *)
(***************************************************************************)
Fairness ==
    \A t \in Threads : WF_vars(Section(t)) /\ SF_vars(Acquire(t))

Spec == Init /\ [][Next]_vars /\ Fairness

-----------------------------------------------------------------------------
(***************************************************************************)
(* Properties                                                              *)
(***************************************************************************)

(***************************************************************************)
(* No lost wakeup (channel.hpp:46-61): put notifies one sleeper and get    *)
(* re-tests its predicate under the lock, so whenever somebody sleeps, the *)
(* items in the queue are outnumbered or matched by the gets that are on   *)
(* their way to them, and nobody sleeps on a closed channel.               *)
(***************************************************************************)
NoLostWakeup ==
    Blocked # {} => ~closed /\ Len(queue) <= Cardinality(AwakeGetters)

(***************************************************************************)
(* The code implements the indivisible FIFO of module Fifo, its liveness   *)
(* included: puts end, items are taken, and close frees every get.         *)
(***************************************************************************)
ImplementsFifo == FifoSpec
=============================================================================
