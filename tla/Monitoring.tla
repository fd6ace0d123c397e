------------------------------ MODULE Monitoring ------------------------------
(***************************************************************************)
(* The monitoring half of openatd at work (src/main.cc:126-184): the       *)
(* thread that collects currencies, the thread that collects pairs, and    *)
(* the handler that logs what they throw.  A monitor that throws goes      *)
(* through its catch block and is called again; the process can die and be *)
(* started again, with its tables as they were.                            *)
(***************************************************************************)
EXTENDS ExceptionHandler, Naturals

CONSTANTS
    Currencies, \* how many currencies are configured
    Bases,      \* how many different bases the configured pairs have
    Limit       \* the requests between two pauses of the currencies monitor

ASSUME MonitoringAssumption ==
    /\ Currencies \in Nat \ {0}
    /\ Bases \in Nat \ {0}
    /\ Limit \in Nat \ {0}

VARIABLES
    currencyLoop, currencyDown, currencyRecent,
    pairLoop, pairDown, pairRecent,
    asked,      \* history: the requests the currencies monitor has made since
                \* it last slept, counted up to one more than Limit
    threwSince  \* history: one of them has thrown

historyVars == <<asked, threwSince>>
currencyVars == <<currencyLoop, currencyDown, currencyRecent>>
pairVars == <<pairLoop, pairDown, pairRecent>>
vars == <<handlerVars, currencyVars, pairVars, historyVars>>

Currency == INSTANCE Collector WITH
    Subjects <- Currencies, Burst <- Limit,
    loop <- currencyLoop, down <- currencyDown, recent <- currencyRecent

\* A pause after every base: datamonitor.cc:116-117.
Pair == INSTANCE Collector WITH
    Subjects <- Bases, Burst <- 1,
    loop <- pairLoop, down <- pairDown, recent <- pairRecent

TypeOK ==
    /\ HandlerTypeOK
    /\ Currency!TypeOK
    /\ Pair!TypeOK
    /\ asked \in 0 .. Limit + 1
    /\ threwSince \in BOOLEAN

Init ==
    /\ HandlerInit
    /\ Currency!Init
    /\ Pair!Init
    /\ asked = 0
    /\ threwSince = FALSE

-----------------------------------------------------------------------------
AskedOneMore == asked' = IF asked > Limit THEN asked ELSE asked + 1

CurrencyAnswers ==
    /\ Currency!Succeed
    /\ AskedOneMore
    /\ UNCHANGED <<handlerVars, pairVars, threwSince>>

\* The end of a sleep of the currencies monitor.
CurrencySlept ==
    /\ Currency!Resume \/ Currency!NextRound
    /\ asked' = 0
    /\ threwSince' = FALSE
    /\ UNCHANGED <<handlerVars, pairVars>>

CurrencyFails ==
    /\ Currency!Fail
    /\ Catch("currencies")
    /\ AskedOneMore
    /\ threwSince' = TRUE
    /\ UNCHANGED pairVars

PairStep ==
    /\ Pair!Succeed \/ Pair!Resume \/ Pair!NextRound
    /\ UNCHANGED <<handlerVars, currencyVars, historyVars>>

PairFails ==
    /\ Pair!Fail
    /\ Catch("pairs")
    /\ UNCHANGED <<currencyVars, historyVars>>

Handler ==
    /\ HandlerStep
    /\ UNCHANGED <<currencyVars, pairVars, historyVars>>

Outside ==
    \/ Currency!Outside /\ UNCHANGED <<handlerVars, pairVars, historyVars>>
    \/ Pair!Outside /\ UNCHANGED <<handlerVars, currencyVars, historyVars>>

\* What was thrown and not logged is lost.  The new process begins two minutes
\* later (RestartSec of openatd@.service), which is a sleep.
Die ==
    /\ handler' = "outside"
    /\ except' = [m \in Monitors |-> "unset"]
    /\ heard' = [m \in Monitors |-> FALSE]
    /\ threw' = {}
    /\ Currency!Reenter
    /\ Pair!Reenter
    /\ asked' = 0
    /\ threwSince' = FALSE

Next ==
    \/ CurrencyAnswers
    \/ CurrencySlept
    \/ CurrencyFails
    \/ PairStep
    \/ PairFails
    \/ Handler
    \/ Outside
    \/ Die

(***************************************************************************)
(* The three threads run, and time passes.  No spurious wakeup is relied   *)
(* on, nothing has to fail, and nothing that fails has to recover.         *)
(***************************************************************************)
Fairness ==
    /\ WF_vars(CurrencyAnswers \/ CurrencySlept \/ CurrencyFails)
    /\ WF_vars(PairStep \/ PairFails)
    /\ WF_vars((BeginWait \/ Log) /\ UNCHANGED <<currencyVars, pairVars, historyVars>>)
    /\ \A c \in 1 .. Currencies :
           WF_vars(/\ Currency!Expire(c)
                   /\ UNCHANGED <<handlerVars, pairVars, historyVars>>)

Spec == Init /\ [][Next]_vars /\ Fairness

-----------------------------------------------------------------------------
(***************************************************************************)
(* Properties                                                              *)
(***************************************************************************)
(***************************************************************************)
(* What the pause for the request limit is good for (datamonitor.cc:77-    *)
(* 81): only after an exception does the currencies monitor make more than *)
(* Limit requests without a sleep, wherever the rounds begin and end.      *)
(***************************************************************************)
BurstNeedsAnException == asked > Limit => threwSince

\* From some time on the process does not die.
Lives == ~[]<><<Die>>_vars

(***************************************************************************)
(* And what it is not good for.  When one of the first Limit currencies    *)
(* fails for good, the monitor never sleeps again: the count starts afresh *)
(* with every exception (datamonitor.cc:59), and main.cc:169-183 calls the *)
(* function again at once.  The comments speak of "cmc api limits"         *)
(* (datamonitor.cc:77) and of "wait for 2 seconds and retry" (main.cc:113).*)
(***************************************************************************)
FailureEndsThePauses ==
    Lives => \A c \in 1 .. Currencies :
        c <= Limit /\ <>[](c \in currencyDown) => <>[](asked > Limit)

(***************************************************************************)
(* A strategy that looks two hours back finds rows of its currency again   *)
(* and again, if that currency and those configured before it answer in    *)
(* the end, whatever those behind it do (datamonitor.cc:60-76; main.cc:    *)
(* 167-183 calls the function again after each exception).                 *)
(***************************************************************************)
EarlierAreCollected ==
    Lives => \A c \in 1 .. Currencies :
        <>[](currencyDown \cap 1 .. c = {}) => []<>(c \in currencyRecent)

(***************************************************************************)
(* One currency that fails for good takes the history of all those behind  *)
(* it away (datamonitor.cc:61, where the exception ends the round), though *)
(* they would answer.  For DollarCostAveraging that is a dip that never    *)
(* ends: an empty history is one (dollarcostaveraging.cc:88-93).           *)
(***************************************************************************)
FailureBlindsTheRest ==
    \A c \in 1 .. Currencies :
        <>[](c \in currencyDown) => <>[](currencyRecent \cap c .. Currencies = {})

(***************************************************************************)
(* What the handler does promise.  A currencies exception thrown while the *)
(* handler waits is logged, or a later one in its place (main.cc:48-51);   *)
(* one of the pairs monitor (:52-55) is too, unless the currencies monitor *)
(* has thrown anything since the process started.                          *)
(***************************************************************************)
HeardIsLogged ==
    /\ heard["currencies"] ~> ~heard["currencies"]
    /\ heard["pairs"] ~> ~heard["pairs"] \/ except["currencies"] # "unset"

(***************************************************************************)
(* An exception that was thrown while the handler waited keeps it awake    *)
(* until one of that monitor is logged: the handler never waits again with *)
(* it in hand (main.cc:42-57, :144-148, :171-175).  That of the pairs      *)
(* monitor may be passed over for one of the currencies monitor.           *)
(***************************************************************************)
HeardKeepsAwake ==
    \A m \in Monitors :
        heard[m] => \/ handler = "woken" /\ except[m] = "new"
                    \/ m = "pairs" /\ except["currencies"] # "unset"

(***************************************************************************)
(* Once the currencies monitor has thrown, however long ago and whatever   *)
(* was logged since, no exception of the pairs monitor is logged in the    *)
(* rest of this life, but each stays as new as it is: the exception_ptr of *)
(* the currencies is never cleared (main.cc:48-57).                        *)
(***************************************************************************)
CurrenciesMaskPairs ==
    [][LET settled == except["pairs"] = "new" /\ except'["pairs"] # "new"
       IN  "currencies" \in threw' => ~settled]_vars

-----------------------------------------------------------------------------
(***************************************************************************)
(* What the comments of the code say and the code does not do              *)
(***************************************************************************)

(***************************************************************************)
(* main.cc:111-113: main goes about "logging every exception to the        *)
(* error_logger".  At least an exception that nothing overwrites, in a     *)
(* process that does not die, should be.                                   *)
(***************************************************************************)
EveryExceptionLogged == \A m \in Monitors : except[m] = "new" ~> except[m] # "new"
=============================================================================
