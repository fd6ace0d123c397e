------------------------------ MODULE Collector ------------------------------
(***************************************************************************)
(* One monitor of DataMonitor (src/atd/datamonitor.cc): DataMonitor::      *)
(* currencies asks coinmarketcap for the ticker of one currency after the  *)
(* other, DataMonitor::pairs for the markets of one base after the other,  *)
(* and each stores the answer in its table.  The two differ in how many    *)
(* requests there are between two pauses: Burst is 10 for currencies and 1 *)
(* for pairs.  Both go round for ever; only an exception leaves the loop,  *)
(* and main then calls the function again, at once.                        *)
(*                                                                         *)
(* The subjects are numbered as the loop goes through them.  Of the rows,  *)
(* the model keeps whether those who look two hours back still find one:   *)
(* rows are never deleted, they only become old.  A row has the time at    *)
(* which coinmarketcap updated it last, taken to be less than that ago.    *)
(***************************************************************************)
EXTENDS Naturals

CONSTANTS
    Subjects,   \* how many currencies, or bases, there are to ask for
    Burst       \* how many requests there are between two pauses

VARIABLES
    loop,       \* where the thread is: the record below
    down,       \* the subjects whose request, or INSERT, throws at present
    recent      \* the subjects with a row of the last two hours

collectorVars == <<loop, down, recent>>

Places == {"ask", "pause", "period"}

\* next is the subject whose turn it is, count is i.
Loop == [at : Places, next : 1 .. Subjects + 1, count : Nat]

TypeOK ==
    /\ loop \in Loop
    /\ down \subseteq 1 .. Subjects
    /\ recent \subseteq 1 .. Subjects

\* The function is called, or begins a round.
Entered == [at |-> "ask", next |-> 1, count |-> 0]

Init ==
    /\ loop = Entered
    /\ down = {}
    /\ recent \in SUBSET (1 .. Subjects)

-----------------------------------------------------------------------------
\* Slip: the end of the list is not noticed.
TurnForEver(n) == "ask"

\* After the subjects before n: the next one, or the end of the round.
Turn(n) == IF n > Subjects THEN "period" ELSE "ask"

\* Slip: the pause is due when i has passed the limit.
PauseLate(i) == i > Burst

\* (i % 10) == 0
PauseDue(i) == i = Burst

\* The answer is stored, and the count says whether a pause is due.
Succeed ==
    /\ loop.at = "ask"
    /\ loop.next \notin down
    /\ recent' = recent \cup {loop.next}
    /\ LET i == loop.count + 1
           n == loop.next + 1
       IN  loop' = [at    |-> IF PauseDue(i) THEN "pause" ELSE Turn(n),
                    next  |-> n,
                    count |-> IF PauseDue(i) THEN 0 ELSE i]
    /\ UNCHANGED down

\* The sleep of a minute, or of ten seconds, ends.
Resume ==
    /\ loop.at = "pause"
    /\ loop' = [loop EXCEPT !.at = Turn(loop.next)]
    /\ UNCHANGED <<down, recent>>

\* The sleep of _period ends, and i is a new variable.
NextRound ==
    /\ loop.at = "period"
    /\ loop' = Entered
    /\ UNCHANGED <<down, recent>>

\* Slip: the subject that failed is left out and the round goes on.
Skipped == [loop EXCEPT !.at = Turn(loop.next + 1), !.next = @ + 1]

\* Slip: the function goes on with the subject that failed.
Retried == [loop EXCEPT !.count = 0]

\* What an exception leaves of the loop: main calls the function again, with
\* no sleep in between.
Left == Entered

\* The request or the INSERT throws.
Fail ==
    /\ loop.at = "ask"
    /\ loop.next \in down
    /\ loop' = Left
    /\ UNCHANGED <<down, recent>>

\* The process dies and is started again: the rows are on the disk.
Reenter ==
    /\ loop' = Entered
    /\ UNCHANGED <<down, recent>>

\* Outside: coinmarketcap, or the database, fails for s, or recovers.
Break(s) == s \notin down /\ down' = down \cup {s} /\ UNCHANGED <<loop, recent>>
Repair(s) == s \in down /\ down' = down \ {s} /\ UNCHANGED <<loop, recent>>

\* Time passes: the last row of s is older than two hours.
Expire(s) ==
    /\ s \in recent
    /\ recent' = recent \ {s}
    /\ UNCHANGED <<loop, down>>

Outside == \E s \in 1 .. Subjects : Break(s) \/ Repair(s) \/ Expire(s)
=============================================================================
