---------------------------- MODULE ChannelProofs ----------------------------
(***************************************************************************)
(* Type correctness of module Channel and the absence of lost wakeups, for *)
(* every finite set of threads, every set of items and every bound.        *)
(***************************************************************************)
EXTENDS Channel, FiniteSetTheorems, TLAPS

\* LockDiscipline is what NoLostWakeup needs to be inductive.
IInv == ChannelTypes /\ LockDiscipline /\ NoLostWakeup

USE QueueBoundAssumption, ThreadsAssumption

-----------------------------------------------------------------------------
\* The queue stays a sequence of items whatever is put into it or taken.
LEMMA QueueSteps ==
    ASSUME NEW q \in Seq(Items)
    PROVE  /\ Len(q) \in Nat
           /\ \A i \in Items : /\ Append(q, i) \in Seq(Items)
                               /\ Len(Append(q, i)) = Len(q) + 1
           /\ q # <<>> => /\ Head(q) \in Items
                          /\ Tail(q) \in Seq(Items)
                          /\ Len(Tail(q)) = Len(q) - 1
                          /\ Len(q) > 0
           /\ q = <<>> => Len(q) = 0
OBVIOUS

\* The variables keep their types: channel.hpp's put, get and close never
\* leave the queue, the mutex or a thread's place in its call ill-formed.
LEMMA TypesCorrect == Spec => []ChannelTypes
<1>1. Init => ChannelTypes
  <2> SUFFICES ASSUME Init PROVE ChannelTypes
    OBVIOUS
  <2>1. queue \in Seq(Items)
    BY DEF Init, FifoInit
  <2>5. closed \in BOOLEAN
    BY DEF Init, FifoInit
  <2>2. req \in [Threads -> Requests \cup {Idle}]
    BY DEF Init, FifoInit
  <2>3. result \in [thread : Threads, outcome : Items \cup Outcomes]
    BY DEF Init, FifoInit, Outcomes
  <2>4. holder \in Threads \cup {NoThread} /\ pc \in [Threads -> Places]
    BY DEF Init, Places
  <2> QED BY <2>1, <2>2, <2>3, <2>4, <2>5 DEF ChannelTypes, FifoTypeOK
<1>2. ChannelTypes /\ [Next]_vars => ChannelTypes'
  <2> SUFFICES ASSUME ChannelTypes, [Next]_vars
               PROVE  ChannelTypes'
    OBVIOUS
  <2> USE DEF ChannelTypes, FifoTypeOK
  <2>1. ASSUME NEW t \in Threads, NEW r \in Requests, Call(t, r)
        PROVE  ChannelTypes'
    BY <2>1 DEF Call, Invoke, Places
  <2>2. ASSUME NEW t \in Threads, Acquire(t)
        PROVE  ChannelTypes'
    BY <2>2 DEF Acquire, fifoVars, Places
  <2>3. ASSUME NEW t \in Threads, PutSection(t)
        PROVE  ChannelTypes'
    <3>1. holder' \in Threads \cup {NoThread} /\ pc' \in [Threads -> Places]
      BY <2>3 DEF PutSection, NotifyOne, ReleaseAndWake, Places
    <3>2. req[t].op = "put" => req[t].item \in Items
      BY DEF Requests, Puts, Idle
    <3>3. queue' \in Seq(Items)
      <4>1. /\ req[t].op = "put" /\ queue' \in {queue, Append(queue, req[t].item)}
            /\ queue \in Seq(Items)
        BY <2>3 DEF PutSection, Put
      <4>2. Append(queue, req[t].item) \in Seq(Items)
        BY <3>2, <4>1, QueueSteps
      <4>3. QED
        BY <4>1, <4>2
    <3>4. closed' \in BOOLEAN
      BY <2>3 DEF PutSection, Put
    <3>5. /\ req' \in [Threads -> Requests \cup {Idle}]
          /\ result' \in [thread : Threads, outcome : Items \cup Outcomes]
      BY <2>3 DEF PutSection, Put, Return, Outcomes
    <3> QED BY <3>1, <3>3, <3>4, <3>5
  <2>4. ASSUME NEW t \in Threads, GetSectionWaits(t)
        PROVE  ChannelTypes'
    BY <2>4 DEF GetSectionWaits, fifoVars, Places
  <2>5. ASSUME NEW t \in Threads, GetSectionReturns(t)
        PROVE  ChannelTypes'
    <3>1. holder' \in Threads \cup {NoThread} /\ pc' \in [Threads -> Places]
      BY <2>5 DEF GetSectionReturns, ReleaseAndWake, Places
    <3>2. queue' \in Seq(Items)
      BY <2>5, QueueSteps DEF GetSectionReturns, Take, FindNothing
    <3>3. closed' \in BOOLEAN
      BY <2>5 DEF GetSectionReturns, Take, FindNothing
    <3>4. /\ req' \in [Threads -> Requests \cup {Idle}]
          /\ result' \in [thread : Threads, outcome : Items \cup Outcomes]
      BY <2>5, QueueSteps
         DEF GetSectionReturns, Take, FindNothing, Return, Outcomes
    <3> QED BY <3>1, <3>2, <3>3, <3>4
  <2>6. ASSUME NEW t \in Threads, CloseSection(t)
        PROVE  ChannelTypes'
    <3>1. holder' \in Threads \cup {NoThread} /\ pc' \in [Threads -> Places]
      BY <2>6 DEF CloseSection, ReleaseAndWake, Places
    <3>2. FifoTypeOK'
      BY <2>6 DEF CloseSection, Close, Return, Outcomes, Idle
    <3> QED BY <3>1, <3>2
  <2>7. ASSUME NEW t \in Threads, SpuriousWakeup(t)
        PROVE  ChannelTypes'
    BY <2>7 DEF SpuriousWakeup, Places
  <2>8. CASE UNCHANGED vars
    BY <2>8 DEF vars
  <2> QED
    BY <2>1, <2>2, <2>3, <2>4, <2>5, <2>6, <2>7, <2>8 DEF Next, Section
<1> QED BY <1>1, <1>2, PTL DEF Spec

-----------------------------------------------------------------------------
LEMMA LockDisciplineInit == Init => LockDiscipline
BY DEF Init, FifoInit, LockDiscipline, Idle

\* Every step keeps the mutex, the places and the requests in agreement.
LEMMA LockDisciplineStep ==
    ChannelTypes /\ LockDiscipline /\ [Next]_vars => LockDiscipline'
<1> SUFFICES ASSUME ChannelTypes, LockDiscipline, [Next]_vars
             PROVE  LockDiscipline'
  OBVIOUS
<1> USE DEF ChannelTypes, FifoTypeOK, LockDiscipline
<1>1. ASSUME NEW t \in Threads, NEW r \in Requests, Call(t, r)
      PROVE  LockDiscipline'
  BY <1>1 DEF Call, Invoke, Places, Requests, Puts, Idle
<1>2. ASSUME NEW t \in Threads, Acquire(t)
      PROVE  LockDiscipline'
  BY <1>2 DEF Acquire, fifoVars, Places, Idle
<1>3. ASSUME NEW t \in Threads, PutSection(t)
      PROVE  LockDiscipline'
  BY <1>3 DEF PutSection, Put, Return, NotifyOne, ReleaseAndWake, Blocked,
              Places, Idle
<1>4. ASSUME NEW t \in Threads, GetSectionWaits(t)
      PROVE  LockDiscipline'
  BY <1>4 DEF GetSectionWaits, fifoVars, Places, Idle
<1>5. ASSUME NEW t \in Threads, GetSectionReturns(t)
      PROVE  LockDiscipline'
  BY <1>5 DEF GetSectionReturns, Take, FindNothing, Return, ReleaseAndWake,
              Places, Idle
<1>6. ASSUME NEW t \in Threads, CloseSection(t)
      PROVE  LockDiscipline'
  BY <1>6 DEF CloseSection, Close, Return, ReleaseAndWake, Blocked, Places,
              Idle
<1>7. ASSUME NEW t \in Threads, SpuriousWakeup(t)
      PROVE  LockDiscipline'
  BY <1>7 DEF SpuriousWakeup, Places
<1>8. CASE UNCHANGED vars
  BY <1>8 DEF vars
<1> QED
  BY <1>1, <1>2, <1>3, <1>4, <1>5, <1>6, <1>7, <1>8 DEF Next, Section

-----------------------------------------------------------------------------
LEMMA AwakeGettersFinite ==
    /\ IsFiniteSet(AwakeGetters) /\ Cardinality(AwakeGetters) \in Nat
    /\ IsFiniteSet(AwakeGetters') /\ Cardinality(AwakeGetters') \in Nat
<1>1. AwakeGetters \in SUBSET Threads /\ AwakeGetters' \in SUBSET Threads
  BY DEF AwakeGetters
<1> QED BY <1>1, FS_Subset, FS_CardinalityType

LEMMA NoLostWakeupInit == Init => NoLostWakeup
BY DEF Init, NoLostWakeup, Blocked

(***************************************************************************)
(* Every step keeps enough gets awake for the items in the queue: a put    *)
(* adds an item and a get that is awake, a get that takes an item takes    *)
(* itself away with it, and a get falls asleep on an empty queue only.     *)
(***************************************************************************)
LEMMA NoLostWakeupStep == IInv /\ [Next]_vars => NoLostWakeup'
<1> SUFFICES ASSUME IInv, [Next]_vars, Blocked' # {}
             PROVE  ~closed' /\ Len(queue') <= Cardinality(AwakeGetters')
  BY DEF NoLostWakeup
<1> DEFINE Goal == ~closed' /\ Len(queue') <= Cardinality(AwakeGetters')
<1>q. queue \in Seq(Items) /\ Len(queue) \in Nat
  BY DEF IInv, ChannelTypes, FifoTypeOK
<1>p. pc \in [Threads -> Places] /\ req \in [Threads -> Requests \cup {Idle}]
  BY DEF IInv, ChannelTypes, FifoTypeOK
<1>i. Blocked # {} => ~closed /\ Len(queue) <= Cardinality(AwakeGetters)
  BY DEF IInv, NoLostWakeup
<1>d. LockDiscipline
  BY DEF IInv
\* What is left to show when the awake gets and the queue only change so far.
<1>s. ASSUME Blocked # {}, closed' = closed, AwakeGetters \subseteq AwakeGetters',
             Len(queue') <= Len(queue), Len(queue') \in Nat
      PROVE  Goal
  <2>1. Cardinality(AwakeGetters) <= Cardinality(AwakeGetters')
    BY <1>s, AwakeGettersFinite, FS_Subset
  <2> QED BY <2>1, <1>i, <1>q, <1>s, AwakeGettersFinite
<1>1. ASSUME NEW t \in Threads, NEW r \in Requests, Call(t, r)
      PROVE  Goal
  <2>1. pc[t] = "idle"
    BY <1>1, <1>d DEF Call, Invoke, LockDiscipline
  <2>2. Blocked' = Blocked
    BY <1>1, <1>p, <2>1 DEF Call, Blocked
  <2>3. AwakeGetters \subseteq AwakeGetters'
    BY <1>1, <1>p, <2>1 DEF Call, Invoke, AwakeGetters
  <2>4. closed' = closed /\ queue' = queue
    BY <1>1 DEF Call, Invoke
  <2> QED BY <2>2, <2>3, <2>4, <1>s, <1>q
<1>2. ASSUME NEW t \in Threads, Acquire(t)
      PROVE  Goal
  <2>1. Blocked' = Blocked
    BY <1>2, <1>p DEF Acquire, Blocked
  <2>2. AwakeGetters \subseteq AwakeGetters'
    BY <1>2, <1>p DEF Acquire, AwakeGetters, fifoVars
  <2>3. closed' = closed /\ queue' = queue
    BY <1>2 DEF Acquire, fifoVars
  <2> QED BY <2>1, <2>2, <2>3, <1>s, <1>q
<1>3. ASSUME NEW t \in Threads, PutSection(t)
      PROVE  Goal
  <2>1. pc[t] = "held" /\ req[t].op = "put"
    BY <1>3 DEF PutSection, Put
  <2>2. CASE closed
    <3>1. Blocked' = Blocked
      BY <1>3, <1>p, <2>1, <2>2 DEF PutSection, ReleaseAndWake, Blocked
    <3> QED BY <3>1, <2>2, <1>i
  <2>3. CASE ~closed /\ Blocked = {}
    BY <1>3, <1>p, <2>1, <2>3
       DEF PutSection, NotifyOne, ReleaseAndWake, Blocked
  <2>4. CASE ~closed /\ Blocked # {}
    <3>1. PICK u \in Blocked : ReleaseAndWake(t, {u})
      BY <1>3, <2>4 DEF PutSection, NotifyOne
    <3>2. u \in Threads /\ pc[u] = "blocked" /\ req[u].op = "get" /\ u # t
      BY <1>d, <2>1 DEF Blocked, LockDiscipline
    <3>3. closed' = closed /\ queue' = Append(queue, req[t].item)
      BY <1>3, <2>4 DEF PutSection, Put
    <3>4. Len(queue') = Len(queue) + 1
      BY <3>3, <1>q
    <3>5. req' = [req EXCEPT ![t] = Idle]
      BY <1>3 DEF PutSection, Put, Return
    <3>6. pc' = [v \in Threads |-> IF v = t THEN "idle"
                                   ELSE IF v \in {u} THEN "woken" ELSE pc[v]]
      BY <3>1 DEF ReleaseAndWake
    <3>7. AwakeGetters' = AwakeGetters \cup {u} /\ u \notin AwakeGetters
      BY <3>2, <3>5, <3>6, <2>1, <1>p DEF AwakeGetters
    <3>8. Cardinality(AwakeGetters') = Cardinality(AwakeGetters) + 1
      BY <3>7, AwakeGettersFinite, FS_AddElement
    <3> QED BY <3>3, <3>4, <3>8, <2>4, <1>i, <1>q, AwakeGettersFinite
  <2> QED BY <2>2, <2>3, <2>4
<1>4. ASSUME NEW t \in Threads, GetSectionWaits(t)
      PROVE  Goal
  <2>1. ~closed' /\ queue' = <<>>
    BY <1>4 DEF GetSectionWaits, Ready, fifoVars
  <2> QED BY <2>1, AwakeGettersFinite
<1>5. ASSUME NEW t \in Threads, GetSectionReturns(t)
      PROVE  Goal
  <2>1. pc[t] = "held" /\ (req[t].op = "get" => Ready)
    BY <1>5 DEF GetSectionReturns
  <2>2. pc' = [v \in Threads |-> IF v = t THEN "idle" ELSE pc[v]]
    BY <1>5 DEF GetSectionReturns, ReleaseAndWake
  <2>3. req' = [req EXCEPT ![t] = Idle] /\ closed' = closed
    BY <1>5 DEF GetSectionReturns, Take, FindNothing, Return
  <2>4. Blocked' = Blocked
    BY <2>1, <2>2, <1>p DEF Blocked
  <2>5. ~closed
    BY <2>4, <1>i
  <2>6. CASE req[t].op = "get"
    <3>1. queue # <<>> /\ queue' = Tail(queue)
      BY <1>5, <2>1, <2>5, <2>6
         DEF GetSectionReturns, Ready, Take, FindNothing
    <3>2. Len(queue') = Len(queue) - 1
      BY <3>1, <1>q
    <3>3. AwakeGetters' = AwakeGetters \ {t} /\ t \in AwakeGetters
      BY <2>1, <2>2, <2>3, <2>6, <1>p DEF AwakeGetters
    <3>4. Cardinality(AwakeGetters') = Cardinality(AwakeGetters) - 1
      BY <3>3, AwakeGettersFinite, FS_RemoveElement
    <3> QED BY <3>2, <3>4, <2>3, <2>4, <2>5, <1>i, <1>q, AwakeGettersFinite
  <2>7. CASE req[t].op # "get"
    <3>1. AwakeGetters \subseteq AwakeGetters'
      BY <2>2, <2>3, <2>7, <1>p DEF AwakeGetters
    <3>2. Len(queue') <= Len(queue) /\ Len(queue') \in Nat
      BY <1>5, <1>q, QueueSteps DEF GetSectionReturns, Take, FindNothing
    <3> QED BY <3>1, <3>2, <2>3, <2>4, <1>s
  <2> QED BY <2>6, <2>7
<1>6. ASSUME NEW t \in Threads, CloseSection(t)
      PROVE  Goal
  <2>1. Blocked' = {}
    BY <1>6, <1>p DEF CloseSection, ReleaseAndWake, Blocked
  <2> QED BY <2>1
<1>7. ASSUME NEW t \in Threads, SpuriousWakeup(t)
      PROVE  Goal
  <2>1. Blocked # {} /\ closed' = closed /\ queue' = queue
    BY <1>7 DEF SpuriousWakeup, Blocked
  <2>2. AwakeGetters \subseteq AwakeGetters'
    BY <1>7, <1>p DEF SpuriousWakeup, AwakeGetters
  <2> QED BY <2>1, <2>2, <1>s, <1>q
<1>8. CASE UNCHANGED vars
  <2>1. Blocked' = Blocked /\ AwakeGetters' = AwakeGetters
    BY <1>8 DEF vars, Blocked, AwakeGetters
  <2>2. closed' = closed /\ queue' = queue
    BY <1>8 DEF vars
  <2> QED BY <2>1, <2>2, <1>s, <1>q
<1> QED
  BY <1>1, <1>2, <1>3, <1>4, <1>5, <1>6, <1>7, <1>8 DEF Next, Section

\* The types are kept and the mutex is held and given back as the critical
\* sections of channel.hpp require: nobody sleeps but a get asked to wait.
THEOREM ChannelTypeCorrect == Spec => []TypeOK
<1>1. Init => LockDiscipline
  BY LockDisciplineInit
<1>2. ChannelTypes /\ LockDiscipline /\ [Next]_vars => LockDiscipline'
  BY LockDisciplineStep
<1>3. ChannelTypes /\ LockDiscipline => TypeOK
  BY DEF TypeOK
<1> QED BY <1>1, <1>2, <1>3, TypesCorrect, PTL DEF Spec

\* channel.hpp:46-61 never loses a wakeup: while a get sleeps the channel is
\* open, and each queued item has a get that is awake and coming for it.
THEOREM ChannelLosesNoWakeup == Spec => []NoLostWakeup
<1>1. Init => LockDiscipline /\ NoLostWakeup
  BY LockDisciplineInit, NoLostWakeupInit
<1>2. ChannelTypes /\ LockDiscipline /\ NoLostWakeup /\ [Next]_vars
      => LockDiscipline' /\ NoLostWakeup'
  BY LockDisciplineStep, NoLostWakeupStep DEF IInv
<1> QED BY <1>1, <1>2, TypesCorrect, PTL DEF Spec

-----------------------------------------------------------------------------
\* Every step of the mutex-and-condition-variable code is a step of the
\* indivisible FIFO or leaves it alone: put, get and close (channel.hpp:35-67)
\* take effect at one instant, in their critical sections.
THEOREM ChannelRefinesFifo == Spec => FifoInit /\ [][FifoNext]_fifoVars
<1>1. Init => FifoInit
  BY DEF Init
<1>2. [Next]_vars => [FifoNext]_fifoVars
  <2> SUFFICES ASSUME [Next]_vars
               PROVE  [FifoNext]_fifoVars
    OBVIOUS
  <2>1. ASSUME NEW t \in Threads, NEW r \in Requests, Call(t, r)
        PROVE  FifoNext
    BY <2>1 DEF Call, FifoNext
  <2>2. ASSUME NEW t \in Threads, Section(t)
        PROVE  [FifoNext]_fifoVars
    BY <2>2 DEF Section, PutSection, GetSectionWaits, GetSectionReturns, CloseSection,
                FifoNext
  <2>3. ASSUME NEW t \in Threads, Acquire(t) \/ SpuriousWakeup(t)
        PROVE  UNCHANGED fifoVars
    BY <2>3 DEF Acquire, SpuriousWakeup, fifoVars
  <2>4. CASE UNCHANGED vars
    BY <2>4 DEF vars, fifoVars
  <2> QED
    BY <2>1, <2>2, <2>3, <2>4 DEF Next
<1> QED
  BY <1>1, <1>2, PTL DEF Spec
=============================================================================
