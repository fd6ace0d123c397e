--------------------------- MODULE MonitoringProofs ---------------------------
(***************************************************************************)
(* Proofs about Monitoring, for any number of currencies and bases and any *)
(* limit.  Liveness stays with TLC.                                        *)
(***************************************************************************)
EXTENDS Monitoring, TLAPS

(***************************************************************************)
(* What the invariants rest on.  Outside a pause, fewer requests have been *)
(* counted than make one due, and fewer than the list has been gone        *)
(* through; and a thread that is about to ask has somebody to ask for.     *)
(***************************************************************************)
SoundLoop(l, subjects, burst) ==
    /\ l \in [at : {"ask", "pause", "period"}, next : 1 .. subjects + 1, count : Nat]
    /\ l.count < burst
    /\ l.count < l.next
    /\ l.at = "pause" => l.count = 0
    /\ l.at = "ask" => l.next <= subjects

(***************************************************************************)
(* As long as nothing has been thrown since the last sleep, the requests   *)
(* made since are those the loop has counted, and when a pause begins they *)
(* are the limit.                                                          *)
(***************************************************************************)
SoundHistory ==
    /\ asked \in 0 .. Limit + 1
    /\ threwSince \in BOOLEAN
    /\ ~threwSince => /\ asked <= Limit
                      /\ currencyLoop.at # "pause" => asked = currencyLoop.count

IInv ==
    /\ TypeOK
    /\ SoundLoop(currencyLoop, Currencies, Limit)
    /\ SoundLoop(pairLoop, Bases, 1)
    /\ SoundHistory

-----------------------------------------------------------------------------
(***************************************************************************)
(* What the steps of a monitor do to its loop, whichever monitor it is.    *)
(***************************************************************************)
Beginning == [at |-> "ask", next |-> 1, count |-> 0]

\* A monitor begins, and begins again, within its bounds.
LEMMA BeginningIsSound ==
    ASSUME NEW subjects \in Nat \ {0}, NEW burst \in Nat \ {0}
    PROVE  SoundLoop(Beginning, subjects, burst)
  BY DEF Beginning, SoundLoop

AfterSuccess(l, subjects, burst) ==
    [at    |-> IF l.count + 1 = burst THEN "pause"
               ELSE IF l.next + 1 > subjects THEN "period" ELSE "ask",
     next  |-> l.next + 1,
     count |-> IF l.count + 1 = burst THEN 0 ELSE l.count + 1]

\* One request more fits, for a pause was due no later than this.
LEMMA SuccessIsSound ==
    ASSUME NEW subjects \in Nat \ {0}, NEW burst \in Nat \ {0}, NEW l,
           SoundLoop(l, subjects, burst), l.at = "ask"
    PROVE  /\ SoundLoop(AfterSuccess(l, subjects, burst), subjects, burst)
           /\ l.next \in 1 .. subjects
<1>1. /\ l.next \in 1 .. subjects
      /\ l.count \in Nat /\ l.count < burst /\ l.count < l.next
  BY DEF SoundLoop
<1> DEFINE m == AfterSuccess(l, subjects, burst)
<1>2. m \in [at : {"ask", "pause", "period"}, next : 1 .. subjects + 1, count : Nat]
  BY <1>1 DEF AfterSuccess
<1>3. m.count < burst /\ m.count < m.next
  BY <1>1 DEF AfterSuccess
<1>4. /\ m.at = "pause" => m.count = 0
      /\ m.at = "ask" => m.next <= subjects
  BY <1>1 DEF AfterSuccess
<1>5. QED
  BY <1>1, <1>2, <1>3, <1>4 DEF SoundLoop

AfterPause(l, subjects) ==
    [l EXCEPT !.at = IF l.next > subjects THEN "period" ELSE "ask"]

\* After a pause the round goes on, or ends.
LEMMA PauseIsSound ==
    ASSUME NEW subjects \in Nat \ {0}, NEW burst \in Nat \ {0}, NEW l,
           SoundLoop(l, subjects, burst), l.at = "pause"
    PROVE  SoundLoop(AfterPause(l, subjects), subjects, burst)
<1>1. /\ l \in [at : {"ask", "pause", "period"}, next : 1 .. subjects + 1, count : Nat]
      /\ l.count < burst /\ l.count < l.next
  BY DEF SoundLoop
<1> DEFINE m == AfterPause(l, subjects)
<1>2. m \in [at : {"ask", "pause", "period"}, next : 1 .. subjects + 1, count : Nat]
  BY <1>1 DEF AfterPause
<1>3. /\ m.at = (IF l.next > subjects THEN "period" ELSE "ask")
      /\ m.count = l.count /\ m.next = l.next
  BY <1>1 DEF AfterPause
<1>4. QED
  BY <1>1, <1>2, <1>3 DEF SoundLoop

-----------------------------------------------------------------------------
(***************************************************************************)
(* The steps of Monitoring                                                 *)
(***************************************************************************)
LEMMA InitEstablishes ==
    ASSUME MonitoringAssumption, Init
    PROVE  IInv
<1>1. HandlerTypeOK
  BY DEF Init, HandlerInit, HandlerTypeOK
<1>2. currencyLoop = Beginning /\ pairLoop = Beginning
  BY DEF Init, Currency!Init, Pair!Init, Currency!Entered, Pair!Entered, Beginning
<1>3. SoundLoop(currencyLoop, Currencies, Limit) /\ SoundLoop(pairLoop, Bases, 1)
  BY <1>2, BeginningIsSound DEF MonitoringAssumption
<1>4. Currency!TypeOK /\ Pair!TypeOK
  BY <1>3 DEF Init, Currency!Init, Pair!Init, Currency!TypeOK, Pair!TypeOK,
     SoundLoop, Currency!Loop, Pair!Loop, Currency!Places, Pair!Places
<1>5. SoundHistory
  <2>1. asked = 0 /\ currencyLoop.count = 0 /\ threwSince \in BOOLEAN
    BY <1>2 DEF Init, Beginning
  <2>2. QED
    BY <2>1 DEF SoundHistory, MonitoringAssumption
<1>6. QED
  BY <1>1, <1>3, <1>4, <1>5 DEF IInv, TypeOK, SoundHistory

\* The handler's type is kept by each of its own steps and by the catch blocks.
LEMMA HandlerKeeps ==
    ASSUME HandlerTypeOK,
           \/ HandlerStep
           \/ \E m \in Monitors : Catch(m)
           \/ UNCHANGED handlerVars
    PROVE  HandlerTypeOK'
<1>1. CASE HandlerStep
  <2>1. First \in Monitors
    BY DEF First, Monitors
  <2>2. QED
    BY <1>1, <2>1 DEF HandlerStep, BeginWait, SpuriousWakeup, Log, KeepLogged,
       HandlerTypeOK
<1>2. CASE \E m \in Monitors : Catch(m)
  BY <1>2, ZenonT(30) DEF Catch, Notify, HandlerTypeOK
<1>3. CASE UNCHANGED handlerVars
  BY <1>3 DEF handlerVars, HandlerTypeOK
<1>4. QED
  BY <1>1, <1>2, <1>3

\* Whatever the currencies monitor, or the world around it, does.
LEMMA CurrencyKeeps ==
    ASSUME MonitoringAssumption, Currency!TypeOK,
           SoundLoop(currencyLoop, Currencies, Limit),
           \/ Currency!Succeed \/ Currency!Resume \/ Currency!NextRound
           \/ Currency!Fail \/ Currency!Reenter \/ Currency!Outside
           \/ UNCHANGED currencyVars
    PROVE  Currency!TypeOK' /\ SoundLoop(currencyLoop', Currencies, Limit)
<1> USE DEF MonitoringAssumption
<1>1. CASE Currency!Succeed
  <2>1. currencyLoop' = AfterSuccess(currencyLoop, Currencies, Limit)
    BY <1>1 DEF Currency!Succeed, Currency!PauseDue, Currency!Turn, AfterSuccess
  <2>2. SoundLoop(currencyLoop', Currencies, Limit)
          /\ currencyLoop.next \in 1 .. Currencies
    BY <1>1, <2>1, SuccessIsSound DEF Currency!Succeed
  <2>3. QED
    BY <1>1, <2>2 DEF Currency!Succeed, Currency!TypeOK, SoundLoop,
       Currency!Loop, Currency!Places
<1>2. CASE Currency!Resume
  <2>1. currencyLoop' = AfterPause(currencyLoop, Currencies)
    BY <1>2 DEF Currency!Resume, Currency!Turn, AfterPause
  <2>2. SoundLoop(currencyLoop', Currencies, Limit)
    BY <1>2, <2>1, PauseIsSound DEF Currency!Resume
  <2>3. QED
    BY <1>2, <2>2 DEF Currency!Resume, Currency!TypeOK, SoundLoop,
       Currency!Loop, Currency!Places
<1>3. CASE Currency!NextRound \/ Currency!Fail \/ Currency!Reenter
  <2>1. currencyLoop' = Beginning
    BY <1>3 DEF Currency!NextRound, Currency!Fail, Currency!Left,
       Currency!Reenter, Currency!Entered, Beginning
  <2>2. SoundLoop(currencyLoop', Currencies, Limit)
    BY <2>1, BeginningIsSound
  <2>3. QED
    BY <1>3, <2>2 DEF Currency!NextRound, Currency!Fail, Currency!Reenter,
       Currency!TypeOK, SoundLoop, Currency!Loop, Currency!Places
<1>4. CASE Currency!Outside
  BY <1>4 DEF Currency!Outside, Currency!Break, Currency!Repair,
     Currency!Expire, Currency!TypeOK
<1>5. CASE UNCHANGED currencyVars
  BY <1>5 DEF currencyVars, Currency!TypeOK
<1>6. QED
  BY <1>1, <1>2, <1>3, <1>4, <1>5

\* The same of the pairs monitor.
LEMMA PairKeeps ==
    ASSUME MonitoringAssumption, Pair!TypeOK, SoundLoop(pairLoop, Bases, 1),
           \/ Pair!Succeed \/ Pair!Resume \/ Pair!NextRound
           \/ Pair!Fail \/ Pair!Reenter \/ Pair!Outside
           \/ UNCHANGED pairVars
    PROVE  Pair!TypeOK' /\ SoundLoop(pairLoop', Bases, 1)
<1> USE DEF MonitoringAssumption
<1>1. CASE Pair!Succeed
  <2>1. pairLoop' = AfterSuccess(pairLoop, Bases, 1)
    BY <1>1 DEF Pair!Succeed, Pair!PauseDue, Pair!Turn, AfterSuccess
  <2>2. SoundLoop(pairLoop', Bases, 1) /\ pairLoop.next \in 1 .. Bases
    BY <1>1, <2>1, SuccessIsSound DEF Pair!Succeed
  <2>3. QED
    BY <1>1, <2>2 DEF Pair!Succeed, Pair!TypeOK, SoundLoop, Pair!Loop, Pair!Places
<1>2. CASE Pair!Resume
  <2>1. pairLoop' = AfterPause(pairLoop, Bases)
    BY <1>2 DEF Pair!Resume, Pair!Turn, AfterPause
  <2>2. SoundLoop(pairLoop', Bases, 1)
    BY <1>2, <2>1, PauseIsSound DEF Pair!Resume
  <2>3. QED
    BY <1>2, <2>2 DEF Pair!Resume, Pair!TypeOK, SoundLoop, Pair!Loop, Pair!Places
<1>3. CASE Pair!NextRound \/ Pair!Fail \/ Pair!Reenter
  <2>1. pairLoop' = Beginning
    BY <1>3 DEF Pair!NextRound, Pair!Fail, Pair!Left, Pair!Reenter,
       Pair!Entered, Beginning
  <2>2. SoundLoop(pairLoop', Bases, 1)
    BY <2>1, BeginningIsSound
  <2>3. QED
    BY <1>3, <2>2 DEF Pair!NextRound, Pair!Fail, Pair!Reenter, Pair!TypeOK,
       SoundLoop, Pair!Loop, Pair!Places
<1>4. CASE Pair!Outside
  BY <1>4 DEF Pair!Outside, Pair!Break, Pair!Repair, Pair!Expire, Pair!TypeOK
<1>5. CASE UNCHANGED pairVars
  BY <1>5 DEF pairVars, Pair!TypeOK
<1>6. QED
  BY <1>1, <1>2, <1>3, <1>4, <1>5

\* Death forgets what was thrown.
LEMMA DeathKeepsHandler ==
    ASSUME Die
    PROVE  HandlerTypeOK'
  BY DEF Die, HandlerTypeOK

\* Every request is counted, and without an exception the loop counts it too.
LEMMA HistoryKeeps ==
    ASSUME MonitoringAssumption, IInv, [Next]_vars
    PROVE  SoundHistory'
<1> USE DEF MonitoringAssumption
<1>1. /\ SoundHistory
      /\ SoundLoop(currencyLoop, Currencies, Limit)
  BY DEF IInv
<1>2. /\ currencyLoop \in [at : {"ask", "pause", "period"},
                          next : 1 .. Currencies + 1, count : Nat]
      /\ currencyLoop.count < Limit
  BY <1>1 DEF SoundLoop
<1>3. CASE CurrencyAnswers
  <2>1. currencyLoop' = AfterSuccess(currencyLoop, Currencies, Limit)
          /\ currencyLoop.at = "ask"
    BY <1>3 DEF CurrencyAnswers, Currency!Succeed, Currency!PauseDue, Currency!Turn,
       AfterSuccess
  <2>2. currencyLoop'.at # "pause" => currencyLoop'.count = currencyLoop.count + 1
    BY <1>2, <2>1 DEF AfterSuccess
  <2>3. threwSince' = threwSince /\ asked' = IF asked > Limit THEN asked ELSE asked + 1
    BY <1>3 DEF CurrencyAnswers, AskedOneMore
  <2>4. QED
    BY <1>1, <1>2, <2>1, <2>2, <2>3 DEF SoundHistory
<1>4. CASE CurrencyFails
  BY <1>1, <1>4 DEF CurrencyFails, AskedOneMore, SoundHistory
<1>5. CASE CurrencySlept
  <2>0. asked' = 0 /\ threwSince' \in BOOLEAN
    BY <1>5 DEF CurrencySlept
  <2>1. CASE Currency!Resume
    <3>1. currencyLoop'.count = currencyLoop.count
      BY <1>2, <2>1 DEF Currency!Resume
    <3>2. currencyLoop.count = 0
      BY <1>1, <2>1 DEF Currency!Resume, SoundLoop
    <3>3. QED
      BY <1>5, <2>0, <3>1, <3>2 DEF SoundHistory
  <2>2. CASE Currency!NextRound
    <3>1. currencyLoop'.count = 0
      BY <2>2 DEF Currency!NextRound, Currency!Entered
    <3>2. QED
      BY <2>0, <3>1 DEF SoundHistory
  <2>3. QED
    BY <1>5, <2>1, <2>2 DEF CurrencySlept
<1>6. CASE Die
  <2>1. asked' = 0 /\ threwSince' \in BOOLEAN /\ currencyLoop'.count = 0
    BY <1>6 DEF Die, Currency!Reenter, Currency!Entered
  <2>2. QED
    BY <2>1 DEF SoundHistory
<1>7. CASE UNCHANGED <<currencyLoop, historyVars>>
  BY <1>1, <1>7 DEF SoundHistory, historyVars
<1>8. QED
  BY <1>3, <1>4, <1>5, <1>6, <1>7
  DEF Next, PairStep, PairFails, Handler, Outside, vars, currencyVars,
      Currency!Outside, Currency!Break, Currency!Repair, Currency!Expire

LEMMA NextKeeps ==
    ASSUME MonitoringAssumption, IInv, [Next]_vars
    PROVE  IInv'
<1>1. HandlerTypeOK /\ Currency!TypeOK /\ Pair!TypeOK
  BY DEF IInv, TypeOK
<1>2. /\ SoundLoop(currencyLoop, Currencies, Limit)
      /\ SoundLoop(pairLoop, Bases, 1)
  BY DEF IInv
<1>3. Currency!TypeOK' /\ SoundLoop(currencyLoop', Currencies, Limit)
  <2>1. \/ Currency!Succeed \/ Currency!Resume \/ Currency!NextRound
        \/ Currency!Fail \/ Currency!Reenter \/ Currency!Outside
        \/ UNCHANGED currencyVars
    BY DEF Next, CurrencyAnswers, CurrencySlept, CurrencyFails, PairStep,
           PairFails, Handler, Outside, Die, vars
  <2>2. QED
    BY <1>1, <1>2, <2>1, CurrencyKeeps
<1>4. Pair!TypeOK' /\ SoundLoop(pairLoop', Bases, 1)
  <2>1. \/ Pair!Succeed \/ Pair!Resume \/ Pair!NextRound
        \/ Pair!Fail \/ Pair!Reenter \/ Pair!Outside
        \/ UNCHANGED pairVars
    BY DEF Next, CurrencyAnswers, CurrencySlept, CurrencyFails, PairStep,
           PairFails, Handler, Outside, Die, vars
  <2>2. QED
    BY <1>1, <1>2, <2>1, PairKeeps
<1>5. HandlerTypeOK'
  <2>1. \/ HandlerStep \/ \E m \in Monitors : Catch(m)
        \/ UNCHANGED handlerVars \/ Die
    BY DEF Next, CurrencyAnswers, CurrencySlept, CurrencyFails, PairStep,
           PairFails, Handler, Outside, Monitors, vars
  <2>2. QED
    BY <1>1, <2>1, HandlerKeeps, DeathKeepsHandler
<1>6. SoundHistory'
  BY HistoryKeeps
<1>7. QED
  BY <1>3, <1>4, <1>5, <1>6 DEF IInv, TypeOK, SoundHistory

-----------------------------------------------------------------------------
LEMMA Invariance == Spec => []IInv
<1>1. Init => IInv
  BY MonitoringAssumption, InitEstablishes
<1>2. IInv /\ [Next]_vars => IInv'
  BY MonitoringAssumption, NextKeeps
<1>3. QED
  BY <1>1, <1>2, PTL DEF Spec

(***************************************************************************)
(* Type correctness, for any numbers of currencies and bases.              *)
(***************************************************************************)
THEOREM MonitoringTypeCorrect == Spec => []TypeOK
<1>1. IInv => TypeOK
  BY DEF IInv
<1>2. QED
  BY <1>1, Invariance, PTL

(***************************************************************************)
(* The pauses are enough for the limit, for any number of currencies, as   *)
(* long as nothing is thrown (datamonitor.cc:77-81): more than Limit       *)
(* requests without a sleep take an exception among them.                  *)
(***************************************************************************)
THEOREM OnlyExceptionsBreakTheLimit == Spec => []BurstNeedsAnException
<1>1. IInv => BurstNeedsAnException
  BY MonitoringAssumption
     DEF IInv, SoundHistory, BurstNeedsAnException, MonitoringAssumption
<1>2. QED
  BY <1>1, Invariance, PTL

(***************************************************************************)
(* The exception_ptr of a monitor that has thrown is set until the process *)
(* dies: no path of the handler clears it (main.cc:48-57).                 *)
(***************************************************************************)
ThrownStaysSet == \A m \in threw : except[m] # "unset"

LEMMA NothingIsCleared == Spec => []ThrownStaysSet
<1>1. Init => ThrownStaysSet
  BY DEF Init, HandlerInit, ThrownStaysSet
<1>2. TypeOK /\ ThrownStaysSet /\ [Next]_vars => ThrownStaysSet'
  <2>1. SUFFICES ASSUME TypeOK, ThrownStaysSet, [Next]_vars
                 PROVE  ThrownStaysSet'
    OBVIOUS
  <2>2. /\ except \in [Monitors -> {"unset", "new", "logged"}]
        /\ threw \subseteq Monitors
    BY <2>1 DEF TypeOK, HandlerTypeOK
  <2>3. CASE HandlerStep
    BY <2>1, <2>2, <2>3 DEF HandlerStep, BeginWait, SpuriousWakeup, Log, KeepLogged,
       ThrownStaysSet
  <2>4. CASE \E m \in Monitors : Catch(m)
    BY <2>1, <2>2, <2>4 DEF Catch, ThrownStaysSet
  <2>5. CASE Die
    BY <2>5 DEF Die, ThrownStaysSet
  <2>6. CASE UNCHANGED handlerVars
    BY <2>1, <2>6 DEF handlerVars, ThrownStaysSet
  <2>7. QED
    BY <2>1, <2>3, <2>4, <2>5, <2>6
    DEF Next, CurrencyAnswers, CurrencySlept, CurrencyFails, PairStep, PairFails,
        Handler, Outside, Monitors, vars
<1>3. QED
  BY <1>1, <1>2, MonitoringTypeCorrect, PTL DEF Spec

(***************************************************************************)
(* From the first exception of the currencies monitor to the death of the  *)
(* process, whatever is logged in between, no exception of the pairs       *)
(* monitor is (main.cc:48-57).                                             *)
(***************************************************************************)
THEOREM PairsAreMasked == Spec => CurrenciesMaskPairs
<1> DEFINE Masked == "currencies" \in threw' =>
                         ~(except["pairs"] = "new" /\ except'["pairs"] # "new")
<1>1. TypeOK /\ ThrownStaysSet /\ [Next]_vars => [Masked]_vars
  <2>1. SUFFICES ASSUME TypeOK, ThrownStaysSet, Next, "currencies" \in threw',
                        except["pairs"] = "new"
                 PROVE  except'["pairs"] = "new"
    OBVIOUS
  <2>2. except \in [Monitors -> {"unset", "new", "logged"}]
    BY <2>1 DEF TypeOK, HandlerTypeOK
  <2>3. "currencies" \in threw => First = "currencies"
    BY <2>1 DEF First, Held, Monitors, ThrownStaysSet
  <2>4. CASE HandlerStep
    BY <2>1, <2>2, <2>3, <2>4 DEF HandlerStep, BeginWait, SpuriousWakeup, Log,
       KeepLogged, Monitors
  <2>5. CASE Die
    BY <2>1, <2>5 DEF Die
  <2>6. CASE \E m \in Monitors : Catch(m)
    BY <2>1, <2>2, <2>6 DEF Catch, Monitors
  <2>7. CASE UNCHANGED handlerVars
    BY <2>1, <2>7 DEF handlerVars
  <2>8. QED
    BY <2>1, <2>4, <2>5, <2>6, <2>7
    DEF Next, CurrencyAnswers, CurrencySlept, CurrencyFails, PairStep, PairFails,
        Handler, Outside, Monitors
<1>2. QED
  BY <1>1, NothingIsCleared, MonitoringTypeCorrect, PTL DEF Spec, CurrenciesMaskPairs

\* A catch block that finds the handler waiting wakes it up.
LEMMA CatchKeepsAwake ==
    ASSUME TypeOK, HeardKeepsAwake, NEW m \in Monitors, Catch(m)
    PROVE  HeardKeepsAwake'
<1>1. /\ except \in [Monitors -> {"unset", "new", "logged"}]
      /\ heard \in [Monitors -> BOOLEAN]
  BY DEF TypeOK, HandlerTypeOK
<1>2. except'[m] = "new" /\ \A n \in Monitors : n # m => except'[n] = except[n]
  BY <1>1 DEF Catch
<1>3. SUFFICES ASSUME NEW n \in Monitors, heard'[n]
               PROVE  \/ handler' = "woken" /\ except'[n] = "new"
                      \/ n = "pairs" /\ except'["currencies"] # "unset"
  BY DEF HeardKeepsAwake
<1>4. CASE handler = "waiting"
  <2>1. handler' = "woken" /\ \A k \in Monitors : ~heard[k] \/ except["currencies"] # "unset"
    BY <1>4 DEF Catch, Notify, HeardKeepsAwake
  <2>2. CASE n = m
    BY <1>2, <2>1, <2>2
  <2>3. CASE n # m
    BY <1>1, <1>2, <1>3, <1>4, <2>1, <2>3 DEF Catch, HeardKeepsAwake, Monitors
  <2>4. QED
    BY <2>2, <2>3
<1>5. CASE handler # "waiting"
  <2>1. handler' = handler /\ heard'[n] = heard[n]
    BY <1>1, <1>5 DEF Catch, Notify
  <2>2. \/ handler = "woken" /\ except[n] = "new"
        \/ n = "pairs" /\ except["currencies"] # "unset"
    BY <1>3, <2>1 DEF HeardKeepsAwake
  <2>3. QED
    BY <1>2, <2>1, <2>2 DEF Monitors
<1>6. QED
  BY <1>4, <1>5

\* The handler leaves what it has to log only for what the currencies monitor
\* has thrown.
LEMMA HandlerStaysAwake ==
    ASSUME TypeOK, HeardKeepsAwake, HandlerStep
    PROVE  HeardKeepsAwake'
<1>1. /\ except \in [Monitors -> {"unset", "new", "logged"}]
      /\ heard \in [Monitors -> BOOLEAN]
  BY DEF TypeOK, HandlerTypeOK
<1>2. CASE BeginWait \/ SpuriousWakeup
  BY <1>2 DEF BeginWait, SpuriousWakeup, HeardKeepsAwake
<1>3. CASE Log
  <2>1. CASE Held = {}
    BY <1>3, <2>1 DEF Log, Held, HeardKeepsAwake
  <2>2. CASE Held # {}
    <3>1. First \in Monitors
      BY DEF First, Monitors
    <3>2. /\ except'[First] = "logged" /\ ~heard'[First]
          /\ \A n \in Monitors : n # First => except'[n] = except[n] /\ heard'[n] = heard[n]
      BY <1>1, <1>3, <2>2, <3>1 DEF Log, KeepLogged
    <3>3. ASSUME NEW n \in Monitors, heard'[n]
          PROVE  n = "pairs" /\ except'["currencies"] # "unset"
      <4>1. n # First /\ heard[n]
        BY <3>2, <3>3
      <4>2. First = "currencies"
        BY <3>2, <3>3, <4>1 DEF First, Held, Monitors, HeardKeepsAwake
      <4>3. QED
        BY <3>2, <3>3, <4>2 DEF Monitors
    <3>4. QED
      BY <3>3 DEF HeardKeepsAwake
  <2>3. QED
    BY <2>1, <2>2
<1>4. QED
  BY <1>2, <1>3 DEF HandlerStep

(***************************************************************************)
(* The handler never waits again with an exception in hand that it was     *)
(* woken for (main.cc:42-57, :144-148, :171-175), except one of the pairs  *)
(* monitor, after the currencies monitor has thrown.                       *)
(***************************************************************************)
THEOREM HeardStaysInHand == Spec => []HeardKeepsAwake
<1>1. Init => HeardKeepsAwake
  BY DEF Init, HandlerInit, HeardKeepsAwake
<1>2. TypeOK /\ HeardKeepsAwake /\ [Next]_vars => HeardKeepsAwake'
  <2>1. SUFFICES ASSUME TypeOK, HeardKeepsAwake, [Next]_vars
                 PROVE  HeardKeepsAwake'
    OBVIOUS
  <2>2. CASE UNCHANGED handlerVars
    BY <2>1, <2>2 DEF handlerVars, HeardKeepsAwake
  <2>3. CASE Die
    BY <2>3 DEF Die, HeardKeepsAwake
  <2>4. QED
    BY <2>1, <2>2, <2>3, CatchKeepsAwake, HandlerStaysAwake
    DEF Next, CurrencyAnswers, CurrencySlept, CurrencyFails, PairStep, PairFails,
        Handler, Outside, Monitors, vars
<1>3. QED
  BY <1>1, <1>2, MonitoringTypeCorrect, PTL DEF Spec

-----------------------------------------------------------------------------
\* Of the currencies from c on, at most those in R have a row of the last two
\* hours, and the monitor has not gone past c in this round.
Blinded(c, R) ==
    currencyLoop.next <= c /\ currencyRecent \cap c .. Currencies \subseteq R

\* The currencies monitor cannot get past one that fails.
LEMMA BlindedStep ==
    ASSUME TypeOK, NEW c \in 1 .. Currencies, NEW R, c \in currencyDown,
           Blinded(c, R), [Next]_vars
    PROVE  Blinded(c, R)'
<1>1. /\ currencyLoop.next \in Nat /\ currencyLoop.next <= c
      /\ currencyRecent \cap c .. Currencies \subseteq R
      /\ Currencies \in Nat
  BY MonitoringAssumption
     DEF MonitoringAssumption, TypeOK, Currency!TypeOK, Currency!Loop, Blinded
<1>2. CASE Currency!Succeed
  <2>1. currencyLoop.next # c
    BY <1>2 DEF Currency!Succeed
  <2>2. currencyLoop.next < c
    BY <1>1, <2>1
  <2>3. currencyLoop'.next = currencyLoop.next + 1
    BY <1>2 DEF Currency!Succeed
  <2>4. currencyRecent' = currencyRecent \cup {currencyLoop.next}
    BY <1>2 DEF Currency!Succeed
  <2>5. currencyLoop.next \notin c .. Currencies
    BY <1>1, <2>2
  <2>6. QED
    BY <1>1, <2>2, <2>3, <2>4, <2>5 DEF Blinded
<1>3. CASE Currency!Resume
  <2>1. currencyLoop'.next = currencyLoop.next /\ currencyRecent' = currencyRecent
    BY <1>3 DEF Currency!Resume, TypeOK, Currency!TypeOK, Currency!Loop
  <2>2. QED
    BY <1>1, <2>1 DEF Blinded
<1>4. CASE Currency!NextRound \/ Currency!Fail \/ Currency!Reenter
  <2>1. currencyLoop'.next = 1 /\ currencyRecent' = currencyRecent
    BY <1>4 DEF Currency!NextRound, Currency!Fail, Currency!Left,
       Currency!Reenter, Currency!Entered
  <2>2. QED
    BY <1>1, <2>1 DEF Blinded
<1>5. CASE Currency!Outside
  <2>1. currencyLoop' = currencyLoop /\ currencyRecent' \subseteq currencyRecent
    BY <1>5 DEF Currency!Outside, Currency!Break, Currency!Repair, Currency!Expire
  <2>2. QED
    BY <1>1, <2>1 DEF Blinded
<1>6. CASE UNCHANGED currencyVars
  BY <1>1, <1>6 DEF currencyVars, Blinded
<1>7. QED
  BY <1>2, <1>3, <1>4, <1>5, <1>6
  DEF Next, CurrencyAnswers, CurrencySlept, CurrencyFails, PairStep, PairFails,
      Handler, Outside, Die, vars

(***************************************************************************)
(* What of FailureBlindsTheRest is safety.  From any state in which the    *)
(* monitor has not gone past currency c in its round, and for as long as c *)
(* fails from then on, no currency from c on gets a row it does not have   *)
(* (datamonitor.cc:60-76, where the exception ends the round): however     *)
(* often main.cc:167-183 calls the function again, and whatever dies.      *)
(***************************************************************************)
THEOREM NothingPastAFailure ==
    ASSUME NEW c \in 1 .. Currencies, NEW R
    PROVE  Spec => [](Blinded(c, R) /\ [](c \in currencyDown)
                          => [](currencyRecent \cap c .. Currencies \subseteq R))
<1>1. TypeOK /\ c \in currencyDown /\ Blinded(c, R) /\ [Next]_vars => Blinded(c, R)'
  BY BlindedStep
<1>2. Blinded(c, R) => currencyRecent \cap c .. Currencies \subseteq R
  BY DEF Blinded
<1>3. QED
  BY <1>1, <1>2, MonitoringTypeCorrect, PTL DEF Spec

-----------------------------------------------------------------------------
\* The monitor is asking, and has not gone past c in this round.
Stuck(c) == currencyLoop.at = "ask" /\ currencyLoop.next <= c

\* It can neither come to a pause nor to the end of its round.
LEMMA StuckStep ==
    ASSUME IInv, NEW c \in 1 .. Currencies, c <= Limit, c \in currencyDown,
           Stuck(c), [Next]_vars
    PROVE  Stuck(c)'
<1> USE DEF MonitoringAssumption
<1>1. /\ currencyLoop.next \in Nat /\ currencyLoop.count \in Nat
      /\ currencyLoop.at = "ask" /\ currencyLoop.next <= c
      /\ currencyLoop.count < currencyLoop.next
      /\ Currencies \in Nat /\ Limit \in Nat
  BY MonitoringAssumption DEF IInv, SoundLoop, Stuck
<1>2. CASE Currency!Succeed
  <2>1. currencyLoop.next # c
    BY <1>2 DEF Currency!Succeed
  <2>2. currencyLoop' = AfterSuccess(currencyLoop, Currencies, Limit)
    BY <1>2 DEF Currency!Succeed, Currency!PauseDue, Currency!Turn, AfterSuccess
  <2>3. currencyLoop.count + 1 < Limit /\ currencyLoop.next + 1 <= c
    BY <1>1, <2>1
  <2>4. QED
    BY <1>1, <2>2, <2>3 DEF AfterSuccess, Stuck
<1>3. CASE Currency!Resume \/ Currency!NextRound
  BY <1>1, <1>3 DEF Currency!Resume, Currency!NextRound
<1>4. CASE Currency!Fail \/ Currency!Reenter
  BY <1>4 DEF Currency!Fail, Currency!Left, Currency!Reenter, Currency!Entered, Stuck
<1>5. CASE UNCHANGED currencyLoop
  BY <1>5 DEF Stuck
<1>6. QED
  BY <1>2, <1>3, <1>4, <1>5
  DEF Next, CurrencyAnswers, CurrencySlept, CurrencyFails, PairStep, PairFails,
      Handler, Outside, Die, vars, currencyVars, Currency!Outside, Currency!Break,
      Currency!Repair, Currency!Expire

(***************************************************************************)
(* What of FailureEndsThePauses is safety, for any number of currencies    *)
(* and any limit.  From any state in which the monitor asks and has not    *)
(* gone past currency c, one of the first Limit, and for as long as c      *)
(* fails from then on, it never sleeps again (datamonitor.cc:58-84;        *)
(* main.cc:169-183), whatever dies and whatever else fails.                *)
(***************************************************************************)
THEOREM NoSleepWhileOneFails ==
    ASSUME NEW c \in 1 .. Currencies, c <= Limit
    PROVE  Spec => [](Stuck(c) /\ [](c \in currencyDown)
                          => [](currencyLoop.at = "ask"))
<1>1. IInv /\ c \in currencyDown /\ Stuck(c) /\ [Next]_vars => Stuck(c)'
  BY StuckStep
<1>2. Stuck(c) => currencyLoop.at = "ask"
  BY DEF Stuck
<1>3. QED
  BY <1>1, <1>2, Invariance, PTL DEF Spec
=============================================================================
