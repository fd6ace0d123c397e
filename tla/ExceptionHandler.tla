-------------------------- MODULE ExceptionHandler --------------------------
(***************************************************************************)
(* How main logs what its monitor threads throw (src/main.cc:30-88 and     *)
(* :131-184).  A monitor that ends with an exception stores it in its own  *)
(* exception_ptr under the mutex mux and notifies.  The handler waits on   *)
(* the condition variable without a predicate, logs the first              *)
(* exception_ptr that is set, and clears none of them.                     *)
(*                                                                         *)
(* Every section under mux is one step.  The third exception_ptr, that of  *)
(* the trader, is never set: intramarket joins its threads for ever and an *)
(* exception in one of them ends the process.                              *)
(***************************************************************************)
VARIABLES
    handler,    \* where the handler thread is
    except,     \* the exception_ptr of each monitor: unset, or set to one
                \* that has not, or has, been logged
    heard,      \* history: an exception of the monitor was thrown while the
                \* handler waited, and none of it was logged since
    threw       \* history: the monitors that have thrown in this life

handlerVars == <<handler, except, heard, threw>>

Monitors == {"currencies", "pairs"}

HandlerTypeOK ==
    /\ handler \in {"outside", "waiting", "woken"}
    /\ except \in [Monitors -> {"unset", "new", "logged"}]
    /\ heard \in [Monitors -> BOOLEAN]
    /\ threw \subseteq Monitors

HandlerInit ==
    /\ handler = "outside"
    /\ except = [m \in Monitors |-> "unset"]
    /\ heard = [m \in Monitors |-> FALSE]
    /\ threw = {}

-----------------------------------------------------------------------------
\* lock(mux) and wait: from here on a notification is not lost.
BeginWait ==
    /\ handler = "outside"
    /\ handler' = "waiting"
    /\ UNCHANGED <<except, heard, threw>>

\* Slip: the notification is forgotten.
NotifyNobody == UNCHANGED handler

\* thread_exception_condtion.notify_one(): it counts only during a wait.
Notify == handler' = IF handler = "waiting" THEN "woken" ELSE handler

\* The catch block of a monitor: a second exception overwrites the first.
Catch(m) ==
    /\ except' = [except EXCEPT ![m] = "new"]
    /\ Notify
    /\ heard' = [heard EXCEPT ![m] = @ \/ handler = "waiting"]
    /\ threw' = threw \cup {m}

SpuriousWakeup ==
    /\ handler = "waiting"
    /\ handler' = "woken"
    /\ UNCHANGED <<except, heard, threw>>

Held == {m \in Monitors : except[m] # "unset"}

\* The order of the ifs in the handler.
First == IF "currencies" \in Held THEN "currencies" ELSE "pairs"

\* Slip: what has been logged is forgotten.
ForgetLogged(m) == except' = [except EXCEPT ![m] = "unset"]

\* rethrow_exception leaves the exception_ptr as it is.
KeepLogged(m) == except' = [except EXCEPT ![m] = "logged"]

\* The rest of the handler's loop: rethrow, log, unlock.
Log ==
    /\ handler = "woken"
    /\ handler' = "outside"
    /\ IF Held = {}
       THEN UNCHANGED <<except, heard>>
       ELSE /\ KeepLogged(First)
            /\ heard' = [heard EXCEPT ![First] = FALSE]
    /\ UNCHANGED threw

HandlerStep == BeginWait \/ SpuriousWakeup \/ Log
=============================================================================
