-------------------------- MODULE MCThreads_proofs --------------------------
(***************************************************************************)
(* The thread programs side by side, for every number of threads, items    *)
(* and iterations.  What holds of a program alone is carried over from the *)
(* module about it: a step of MCThreads is a step of that program or leaves *)
(* its variables alone.  The barrier with semaphores is treated here.      *)
(***************************************************************************)
EXTENDS MCThreads, FiniteSetTheorems, TLAPS

DP == INSTANCE DiningPhilosophers_proofs WITH pc <- diners
QP == INSTANCE ProducerConsumer_proofs WITH
        i <- turn, spurious <- queue_spurious, pc <- sides
CP == INSTANCE BarrierCv_proofs WITH
        MaxSpurious <- CvSpurious, counter <- cv_counter, i <- cv_i,
        spurious <- cv_spurious, pc <- cv_pc

\* The assumptions of the three modules, as they see them.
LEMMA Assumed ==
  /\ DP!IsFiniteSet(Thread) /\ QP!IsFiniteSet(Thread) /\ CP!IsFiniteSet(Thread)
  /\ NUM_PHILOSOPHERS \in Nat \ {0, 1} /\ MAX_NUM_MEALS \in Nat
  /\ QUEUE_SIZE \in Nat \ {0} /\ NUM_ITEMS \in Nat
  /\ Thread # {} /\ num_iterations \in Nat
  /\ Nobody \notin Thread /\ MaxSpurious \in Nat /\ CvSpurious \in Nat
  BY DiningAssumption, QueueAssumption, BarrierAssumption, LibraryAssumption,
     RunAssumption
  DEF DP!IsFiniteSet, QP!IsFiniteSet, CP!IsFiniteSet, IsFiniteSet

LEMMA ThreadsCounted ==
  /\ CP!num_threads = Cardinality(Thread)
  /\ Cv!num_threads = Cardinality(Thread)
  /\ Sem!num_threads = Cardinality(Thread)
  BY DEF CP!num_threads, CP!Cardinality, CP!IsFiniteSet,
         Cv!num_threads, Cv!Cardinality, Cv!IsFiniteSet,
         Sem!num_threads, Sem!Cardinality, Sem!IsFiniteSet, Cardinality, IsFiniteSet

---------------------------------------------------------------------------
(* The dining philosophers *)

LEMMA DiningSpec == Spec => DP!Spec
  <1>1. Init => DP!Init
    BY DEF Init, Dining!Init, DP!Init, Dining!Philosopher, DP!Philosopher,
       Dining!Free, DP!Free
  <1>2. Dining!Next => DP!Next
    BY DEF Dining!Next, DP!Next, Dining!philosopher, DP!philosopher,
       Dining!Lock, DP!Lock, Dining!While, DP!While, Dining!LockLeft, DP!LockLeft,
       Dining!TestLeft, DP!TestLeft, Dining!TakeLeft, DP!TakeLeft,
       Dining!LockRight, DP!LockRight, Dining!TestRight, DP!TestRight,
       Dining!TakeRight, DP!TakeRight, Dining!Eat, DP!Eat, Dining!Count, DP!Count,
       Dining!RelockLeft, DP!RelockLeft, Dining!RelockRight, DP!RelockRight,
       Dining!Release, DP!Release, Dining!LockBack, DP!LockBack,
       Dining!GiveBack, DP!GiveBack, Dining!Joined, DP!Joined,
       Dining!AllDone, DP!AllDone, Dining!vars, DP!vars, Dining!Goto, DP!Goto,
       Dining!Keep, DP!Keep, Dining!Right, DP!Right, Dining!Free, DP!Free,
       Dining!Philosopher, DP!Philosopher,
       Dining!pthread_mutex_lock, DP!pthread_mutex_lock,
       Dining!pthread_mutex_unlock, DP!pthread_mutex_unlock
  <1>3. [Next]_vars => [DP!Next]_(DP!vars)
    BY <1>2 DEF Next, Runs, vars, dining, DP!vars
  <1> QED BY <1>1, <1>3, PTL DEF Spec, DP!Spec

\* Two neighbours never use the chopstick between them at the same time.
THEOREM Exclusion == Spec => []ChopstickExclusion
  <1>1. DP!ChopstickExclusion <=> ChopstickExclusion
    BY DEF ChopstickExclusion, Dining!ChopstickExclusion, DP!ChopstickExclusion,
       Dining!HasLeft, DP!HasLeft, Dining!HasRight, DP!HasRight,
       Dining!Right, DP!Right, Dining!Philosopher, DP!Philosopher
  <1>2. DP!Spec => []DP!ChopstickExclusion
    BY DP!Exclusion, Assumed
  <1> QED BY <1>1, <1>2, DiningSpec, PTL

\* The meals eaten exceed the limit by fewer than there are philosophers.
THEOREM Meals == Spec => []MealsBounded
  <1>1. DP!MealsBounded <=> MealsBounded
    BY DEF MealsBounded, Dining!MealsBounded, DP!MealsBounded
  <1>2. DP!Spec => []DP!MealsBounded
    BY DP!Meals, Assumed
  <1> QED BY <1>1, <1>2, DiningSpec, PTL

\* In the end the meals add up and everything is back on the table.
THEOREM Statistics == Spec => []StatisticsAddUp
  <1>1. DP!FoldFunction(+, 0, num_meals_consumed) = Dining!FoldFunction(+, 0, num_meals_consumed)
    BY DEF DP!FoldFunction, DP!FoldFunctionOnSet, DP!MapThenFoldSet,
       Dining!FoldFunction, Dining!FoldFunctionOnSet, Dining!MapThenFoldSet
  <1>2. DP!AllDone <=> Dining!AllDone
    BY DEF DP!AllDone, Dining!AllDone, DP!Philosopher, Dining!Philosopher
  <1>3. DP!StatisticsAddUp <=> StatisticsAddUp
    BY <1>1, <1>2 DEF StatisticsAddUp, Dining!StatisticsAddUp, DP!StatisticsAddUp,
       DP!Philosopher, Dining!Philosopher, DP!Free, Dining!Free
  <1>4. DP!Spec => []DP!StatisticsAddUp
    BY DP!Statistics, Assumed
  <1> QED BY <1>3, <1>4, DiningSpec, PTL

LEMMA DiningTypes == Spec => []Dining!TypeOK
  <1>1. DP!TypeOK <=> Dining!TypeOK
    BY DEF Dining!TypeOK, DP!TypeOK, Dining!Philosopher, DP!Philosopher,
       Dining!Free, DP!Free, Dining!Labels, DP!Labels
  <1>2. DP!Spec => []DP!TypeOK
    BY DP!TypeCorrect, Assumed
  <1> QED BY <1>1, <1>2, DiningSpec, PTL

---------------------------------------------------------------------------
(* The producer and the consumer *)

LEMMA QueueSpec == Spec => QP!Spec
  <1>1. Init => QP!Init
    BY DEF Init, Queue!Init, QP!Init, Queue!create_queue, QP!create_queue,
       Queue!Side, QP!Side
  <1>2. Queue!Next => QP!Next
    BY DEF Queue!Next, QP!Next, Queue!producer, QP!producer, Queue!consumer, QP!consumer,
       Queue!Lock, QP!Lock, Queue!CondWait, QP!CondWait, Queue!Produce, QP!Produce,
       Queue!Consume, QP!Consume, Queue!Signal, QP!Signal, Queue!Relock, QP!Relock,
       Queue!SpuriousWakeup, QP!SpuriousWakeup, Queue!Joined, QP!Joined,
       Queue!AllDone, QP!AllDone, Queue!vars, QP!vars, Queue!queue, QP!queue,
       Queue!Goto, QP!Goto, Queue!Other, QP!Other, Queue!After, QP!After,
       Queue!add_to_queue, QP!add_to_queue,
       Queue!remove_from_queue, QP!remove_from_queue, Queue!Side, QP!Side
  <1>3. [Next]_vars => [QP!Next]_(QP!vars)
    BY <1>2 DEF Next, Runs, vars, queue, QP!vars, QP!queue
  <1> QED BY <1>1, <1>3, PTL DEF Spec, QP!Spec

\* The circular buffer and its two flags are a bounded queue.
THEOREM QueueRefinement == Spec => ImplementsFifo
  <1>1. QP!Fifo!Init <=> Queue!Fifo!Init
    BY DEF QP!Fifo!Init, Queue!Fifo!Init, QP!Inside, Queue!Inside, QP!Count, Queue!Count,
       QP!Sent, Queue!Sent
  <1>2. [QP!Fifo!Next]_(QP!Fifo!vars) => [Queue!Fifo!Next]_(Queue!Fifo!vars)
    BY DEF QP!Fifo!Next, Queue!Fifo!Next, QP!Fifo!vars, Queue!Fifo!vars,
       QP!Fifo!Put, Queue!Fifo!Put, QP!Fifo!Get, Queue!Fifo!Get,
       QP!Inside, Queue!Inside, QP!Count, Queue!Count, QP!Sent, Queue!Sent
  <1>3. QP!Spec => QP!ImplementsFifo
    BY QP!Refinement, Assumed
  <1> QED
    BY <1>1, <1>2, <1>3, QueueSpec, PTL
    DEF ImplementsFifo, Queue!ImplementsFifo, QP!ImplementsFifo, QP!Fifo!Spec, Queue!Fifo!Spec

LEMMA QueueTypes == Spec => []Queue!TypeOK
  <1>1. QP!TypeOK <=> Queue!TypeOK
    BY DEF Queue!TypeOK, QP!TypeOK, Queue!Side, QP!Side, Queue!Item, QP!Item
  <1>2. QP!Spec => []QP!TypeOK
    BY QP!TypeCorrect, Assumed
  <1> QED BY <1>1, <1>2, QueueSpec, PTL

---------------------------------------------------------------------------
(* The barrier with a condition variable *)

LEMMA CvSpec == Spec => CP!Spec
  <1>1. Init => CP!Init
    BY DEF Init, Cv!Init, CP!Init
  <1>2. Cv!Next => CP!Next
    BY ThreadsCounted
    DEF Cv!Next, CP!Next, Cv!my_thread, CP!my_thread, Cv!Call, CP!Call,
        Cv!Enter, CP!Enter, Cv!LastArrival, CP!LastArrival,
        Cv!EarlyArrival, CP!EarlyArrival, Cv!Relock, CP!Relock, Cv!Leave, CP!Leave,
        Cv!SpuriousWakeup, CP!SpuriousWakeup, Cv!Joined, CP!Joined,
        Cv!AllDone, CP!AllDone, Cv!OutOfStep, CP!OutOfStep, Cv!vars, CP!vars,
        Cv!Goto, CP!Goto
  <1>3. [Next]_vars => [CP!Next]_(CP!vars)
    BY <1>2 DEF Next, Runs, vars, cv, CP!vars
  <1> QED BY <1>1, <1>3, PTL DEF Spec, CP!Spec

\* Until the first spurious wakeup no thread leaves the barrier before all
\* have entered it.
THEOREM CvRefinement == Spec => CvUntilSpurious
  <1>1. CP!Abstract!Init <=> Cv!Abstract!Init
    BY DEF CP!Abstract!Init, Cv!Abstract!Init, CP!CallsMade, Cv!CallsMade
  <1>2. [cv_spurious' = 0 => [CP!Abstract!Next]_(CP!Abstract!vars)]_(CP!vars)
          => [cv_spurious' = 0 => [Cv!Abstract!Next]_(Cv!Abstract!vars)]_(Cv!vars)
    BY DEF CP!Abstract!Next, Cv!Abstract!Next, CP!Abstract!vars, Cv!Abstract!vars,
       CP!Abstract!Call, Cv!Abstract!Call, CP!Abstract!Return, Cv!Abstract!Return,
       CP!CallsMade, Cv!CallsMade, CP!vars, Cv!vars
  <1>3. CP!Spec => CP!BarrierUntilSpurious
    BY CP!Refinement, Assumed
  <1> QED
    BY <1>1, <1>2, <1>3, CvSpec, PTL
    DEF CvUntilSpurious, Cv!BarrierUntilSpurious, CP!BarrierUntilSpurious

\* Until then no thread has returned from more calls of barrier_sync than any
\* other has made.
THEOREM CvInStep == Spec => [](cv_spurious = 0 => Cv!Abstract!InStep)
  <1>1. CP!Abstract!InStep <=> Cv!Abstract!InStep
    BY DEF CP!Abstract!InStep, Cv!Abstract!InStep, CP!CallsMade, Cv!CallsMade
  <1>2. CP!Spec => [](cv_spurious = 0 => CP!Abstract!InStep)
    BY CP!ThreadsInStep, Assumed
  <1> QED BY <1>1, <1>2, CvSpec, PTL

LEMMA CvTypes == Spec => []Cv!TypeOK
  <1>1. CP!TypeOK <=> Cv!TypeOK
    BY ThreadsCounted DEF Cv!TypeOK, CP!TypeOK
  <1>2. CP!Spec => []CP!TypeOK
    BY CP!TypeCorrect, Assumed
  <1> QED BY <1>1, <1>2, CvSpec, PTL

---------------------------------------------------------------------------
(* The barrier with semaphores *)

\* counter_sem is a mutex: 0 while somebody counts, who is alone in that.
SemCounts ==
  /\ \A t \in Thread : sem_pc[t] = "count" => counter_sem = 0
  /\ \A t, u \in Thread : sem_pc[t] = "count" /\ sem_pc[u] = "count" => t = u

\* A thread that has called barrier_sync is still in its iteration.
SemInIteration == \A t \in Thread : sem_pc[t] # "work" => sem_i[t] < SemIterations

SemInv == Sem!TypeOK /\ SemCounts /\ SemInIteration

SemWaiting == {t \in Thread : sem_pc[t] = "wait"}

\* Before the last thread has come: those who wait are counted and not let go.
Gathering ==
  /\ \A t \in Thread : sem_i[t] = 0 /\ sem_pc[t] # "post"
  /\ barrier_sem = 0 /\ sem_counter = Cardinality(SemWaiting)

\* Since the last thread has come: everybody is in the barrier or through it.
Gathered ==
  \A t \in Thread : sem_pc[t] \in {"post", "wait"} \/ (sem_pc[t] = "work" /\ sem_i[t] = 1)

FirstBarrier == Gathering \/ Gathered

LEMMA ThreadsFinite ==
  /\ IsFiniteSet(Thread) /\ Cardinality(Thread) \in Nat \ {0}
  BY BarrierAssumption, FS_CardinalityType, FS_EmptySet

LEMMA SemInitInv == Init => SemInv /\ FirstBarrier
  <1> SUFFICES ASSUME Sem!Init PROVE SemInv /\ FirstBarrier
    BY DEF Init
  <1> USE RunAssumption DEF Sem!Init
  <1>1. SemInv
    BY ThreadsFinite, ThreadsCounted DEF SemInv, Sem!TypeOK, SemCounts, SemInIteration
  <1>2. SemWaiting = {}
    BY DEF SemWaiting
  <1>3. Gathering
    BY <1>2, FS_EmptySet DEF Gathering
  <1> QED BY <1>1, <1>3 DEF FirstBarrier

LEMMA SemInvStep == SemInv /\ [Sem!Next]_sem => SemInv'
  <1> SUFFICES ASSUME SemInv, [Sem!Next]_sem PROVE SemInv'
    OBVIOUS
  <1> USE RunAssumption, ThreadsFinite, ThreadsCounted
      DEF SemInv, Sem!TypeOK, SemCounts, SemInIteration, Sem!Goto
  <1>1. CASE UNCHANGED sem
    BY <1>1 DEF sem
  <1>2. ASSUME NEW t \in Thread, Sem!Call(t) PROVE SemInv'
    BY <1>2 DEF Sem!Call
  <1>3. ASSUME NEW t \in Thread, Sem!Enter(t) PROVE SemInv'
    BY <1>3 DEF Sem!Enter
  <1>4. ASSUME NEW t \in Thread, Sem!Count(t) PROVE SemInv'
    BY <1>4 DEF Sem!Count
  <1>5. ASSUME NEW t \in Thread, Sem!Post(t) PROVE SemInv'
    BY <1>5 DEF Sem!Post
  <1>6. ASSUME NEW t \in Thread, Sem!Wait(t) PROVE SemInv'
    BY <1>6 DEF Sem!Wait
  <1>7. CASE Sem!Joined
    BY <1>7 DEF Sem!Joined, Sem!vars
  <1> QED BY <1>1, <1>2, <1>3, <1>4, <1>5, <1>6, <1>7 DEF Sem!Next, Sem!my_thread

\* In the first iteration the counter goes up to all threads before any is
\* let go; afterwards nobody has a call left to make.
LEMMA FirstBarrierStep ==
  SemIterations <= 1 =>
    (SemInv /\ FirstBarrier /\ [Sem!Next]_sem => FirstBarrier')
  <1> SUFFICES ASSUME SemIterations <= 1, SemInv, FirstBarrier, [Sem!Next]_sem
               PROVE  FirstBarrier'
    OBVIOUS
  <1> USE RunAssumption DEF SemInv, Sem!TypeOK, SemInIteration, Sem!Goto
  <1>1. CASE UNCHANGED sem
    BY <1>1 DEF sem, FirstBarrier, Gathering, Gathered, SemWaiting
  <1>2. ASSUME NEW t \in Thread, Sem!Call(t) \/ Sem!Enter(t) PROVE FirstBarrier'
    <2> USE <1>2 DEF Sem!Call, Sem!Enter
    <2>1. Gathering
      BY DEF FirstBarrier, Gathered
    <2>2. SemWaiting' = SemWaiting
      BY DEF SemWaiting
    <2> QED BY <2>1, <2>2 DEF FirstBarrier, Gathering
  <1>3. ASSUME NEW t \in Thread, Sem!Count(t) PROVE FirstBarrier'
    <2>1. Gathering /\ sem_pc[t] = "count"
      BY <1>3 DEF FirstBarrier, Gathered, Sem!Count
    <2>2. SemWaiting \subseteq Thread \ {t}
      BY <2>1 DEF SemWaiting
    <2>3. /\ IsFiniteSet(Thread \ {t}) /\ Cardinality(Thread \ {t}) = Cardinality(Thread) - 1
          /\ IsFiniteSet(SemWaiting) /\ Cardinality(SemWaiting) \in Nat
      BY <2>2, ThreadsFinite, FS_RemoveElement, FS_Subset, FS_CardinalityType
    <2>4. CASE sem_counter = Cardinality(Thread) - 1
      <3>1. SemWaiting = Thread \ {t}
        BY <2>1, <2>2, <2>3, <2>4, FS_Subset DEF Gathering
      <3>2. \A u \in Thread \ {t} : sem_pc[u] = "wait"
        BY <3>1 DEF SemWaiting
      <3>3. sem_pc' = [sem_pc EXCEPT ![t] = "post"]
        BY <1>3, <2>4, ThreadsCounted DEF Sem!Count
      <3> QED BY <3>2, <3>3 DEF FirstBarrier, Gathered
    <2>5. CASE sem_counter # Cardinality(Thread) - 1
      <3>1. /\ sem_pc' = [sem_pc EXCEPT ![t] = "wait"]
            /\ sem_counter' = sem_counter + 1
            /\ UNCHANGED <<barrier_sem, sem_i>>
        BY <1>3, <2>5, ThreadsCounted DEF Sem!Count
      <3>2. SemWaiting' = SemWaiting \union {t} /\ t \notin SemWaiting
        BY <2>2, <3>1 DEF SemWaiting
      <3>3. Cardinality(SemWaiting') = Cardinality(SemWaiting) + 1
        BY <2>3, <3>2, FS_AddElement
      <3> QED BY <2>1, <3>1, <3>3 DEF FirstBarrier, Gathering
    <2> QED BY <2>4, <2>5
  <1>4. ASSUME NEW t \in Thread, Sem!Post(t) \/ Sem!Wait(t) PROVE FirstBarrier'
    <2>1. Gathered
      BY <1>4 DEF FirstBarrier, Gathering, Sem!Post, Sem!Wait
    <2>2. sem_i[t] = 0
      BY <1>4 DEF Sem!Post, Sem!Wait
    <2> QED BY <1>4, <2>1, <2>2 DEF FirstBarrier, Gathered, Sem!Post, Sem!Wait
  <1>5. CASE Sem!Joined
    BY <1>5 DEF Sem!Joined, Sem!vars, FirstBarrier, Gathering, Gathered, SemWaiting
  <1> QED BY <1>1, <1>2, <1>3, <1>4, <1>5 DEF Sem!Next, Sem!my_thread

LEMMA SemAlone == [Next]_vars => [Sem!Next]_sem
  BY DEF Next, Runs, vars

LEMMA SemInvariance == Spec => []SemInv
  BY SemInitInv, SemInvStep, SemAlone, PTL DEF Spec

\* A step of the threads is a step of the barrier.
LEMMA SemAbstractStep ==
  SemIterations <= 1 =>
    (SemInv /\ FirstBarrier /\ [Sem!Next]_sem => [Sem!Abstract!Next]_(Sem!Abstract!vars))
  <1> SUFFICES ASSUME SemIterations <= 1, SemInv, FirstBarrier, [Sem!Next]_sem
               PROVE  [Sem!Abstract!Next]_(Sem!Abstract!vars)
    OBVIOUS
  <1> USE RunAssumption DEF SemInv, Sem!TypeOK, SemInIteration, Sem!Abstract!vars, Sem!CallsMade, Sem!Goto
  <1>1. CASE UNCHANGED sem
    BY <1>1 DEF sem
  <1>2. ASSUME NEW t \in Thread, Sem!Call(t) PROVE Sem!Abstract!Call(t)
    BY <1>2 DEF Sem!Call, Sem!Abstract!Call
  <1>3. ASSUME NEW t \in Thread, Sem!Enter(t) \/ Sem!Count(t)
        PROVE  UNCHANGED Sem!Abstract!vars
    BY <1>3 DEF Sem!Enter, Sem!Count
  <1>4. ASSUME NEW t \in Thread, Sem!Post(t) \/ Sem!Wait(t), sem_i' # sem_i
        PROVE  Sem!Abstract!Return(t)
    <2>1. /\ sem_pc[t] # "work" /\ sem_pc' = [sem_pc EXCEPT ![t] = "work"]
          /\ sem_i' = [sem_i EXCEPT ![t] = @ + 1] /\ sem_i[t] = 0
      BY <1>4 DEF Sem!Post, Sem!Wait
    <2>2. Gathered
      BY <1>4 DEF FirstBarrier, Gathering, Sem!Post, Sem!Wait
    <2>3. \A u \in Thread : Sem!CallsMade[u] >= Sem!CallsMade[t]
      BY <2>1, <2>2 DEF Gathered
    <2>4. sem_i[t] < Sem!CallsMade[t] /\ UNCHANGED Sem!CallsMade
      BY <2>1
    <2> QED BY <2>1, <2>3, <2>4 DEF Sem!Abstract!Return
  <1>5. ASSUME NEW t \in Thread, Sem!Post(t) \/ Sem!Wait(t), sem_i' = sem_i
        PROVE  UNCHANGED Sem!Abstract!vars
    BY <1>5 DEF Sem!Post, Sem!Wait
  <1>6. CASE Sem!Joined
    BY <1>6 DEF Sem!Joined, Sem!vars
  <1> QED
    BY <1>1, <1>2, <1>3, <1>4, <1>5, <1>6 DEF Sem!Next, Sem!my_thread, Sem!Abstract!Next

\* For one iteration the barrier with semaphores is a barrier.  (For two it is
\* not: a post meant for a slow thread lets a fast one through the next time.)
THEOREM SemRefinement ==
  ASSUME SemIterations <= 1
  PROVE  Spec => SemIsBarrier
  <1>1. Init => Sem!Abstract!Init
    BY DEF Init, Sem!Init, Sem!Abstract!Init, Sem!CallsMade
  <1>2. SemInv /\ FirstBarrier /\ [Next]_vars => FirstBarrier'
    BY FirstBarrierStep, SemAlone
  <1>3. Spec => []FirstBarrier
    BY <1>2, SemInitInv, SemInvariance, PTL DEF Spec
  <1>4. SemInv /\ FirstBarrier /\ [Next]_vars => [Sem!Abstract!Next]_(Sem!Abstract!vars)
    BY SemAbstractStep, SemAlone
  <1> QED
    BY <1>1, <1>3, <1>4, SemInvariance, PTL
    DEF Spec, SemIsBarrier, Sem!ImplementsBarrier, Sem!Abstract!Spec

\* In that iteration no thread has returned before all others have called.
THEOREM SemInStep ==
  ASSUME SemIterations <= 1
  PROVE  Spec => []Sem!Abstract!InStep
  <1>1. SemInv /\ FirstBarrier => Sem!Abstract!InStep
    <2> SUFFICES ASSUME SemInv, FirstBarrier, NEW t \in Thread, NEW u \in Thread
                 PROVE  sem_i[t] <= Sem!CallsMade[u]
      BY DEF Sem!Abstract!InStep
    <2>0. /\ sem_i[t] \in 0 .. 1 /\ sem_i[u] \in 0 .. 1
      BY RunAssumption DEF SemInv, Sem!TypeOK
    <2>1. CASE Gathering
      BY <2>0, <2>1 DEF Gathering, Sem!CallsMade
    <2>2. CASE Gathered
      BY <2>0, <2>2 DEF Gathered, Sem!CallsMade
    <2> QED BY <2>1, <2>2 DEF FirstBarrier
  <1>2. SemInv /\ FirstBarrier /\ [Next]_vars => FirstBarrier'
    BY FirstBarrierStep, SemAlone
  <1> QED BY <1>1, <1>2, SemInitInv, SemInvariance, PTL DEF Spec

\* Who waits is counted before the last thread has come, and has a post on its
\* way afterwards: in the semaphore, or in the turns the last thread has left.
Poster == {t \in Thread : sem_pc[t] = "post"}
PostsOnTheirWay ==
  /\ \A t \in Poster : /\ Poster = {t}
                       /\ barrier_sem + (Cardinality(Thread) - 1 - posts[t])
                            = Cardinality(SemWaiting)
  /\ Poster = {} => barrier_sem = Cardinality(SemWaiting)
CounterFreed == counter_sem = 1 \/ \E t \in Thread : sem_pc[t] = "count"

SemRest == CounterFreed /\ (Gathering \/ (Gathered /\ PostsOnTheirWay))

LEMMA WaitingCounted ==
  /\ IsFiniteSet(SemWaiting) /\ Cardinality(SemWaiting) \in Nat
  /\ \A t \in SemWaiting :
       Cardinality(SemWaiting \ {t}) = Cardinality(SemWaiting) - 1
  /\ Cardinality(SemWaiting) = 0 => SemWaiting = {}
  <1>1. IsFiniteSet(SemWaiting)
    BY ThreadsFinite, FS_Subset DEF SemWaiting
  <1> QED BY <1>1, FS_CardinalityType, FS_RemoveElement, FS_EmptySet

LEMMA CounterFreedStep == SemInv /\ CounterFreed /\ [Sem!Next]_sem => CounterFreed'
  <1> SUFFICES ASSUME SemInv, CounterFreed, [Sem!Next]_sem PROVE CounterFreed'
    OBVIOUS
  <1> USE DEF SemInv, Sem!TypeOK, SemCounts, CounterFreed, Sem!Goto
  <1>1. CASE UNCHANGED sem
    BY <1>1 DEF sem
  <1>2. ASSUME NEW t \in Thread, Sem!Call(t) \/ Sem!Post(t) \/ Sem!Wait(t)
        PROVE  CounterFreed'
    BY <1>2 DEF Sem!Call, Sem!Post, Sem!Wait
  <1>3. ASSUME NEW t \in Thread, Sem!Enter(t) PROVE CounterFreed'
    <2>1. sem_pc'[t] = "count"
      BY <1>3 DEF Sem!Enter
    <2> QED BY <2>1
  <1>4. ASSUME NEW t \in Thread, Sem!Count(t) PROVE CounterFreed'
    <2>1. counter_sem = 0 /\ counter_sem' = counter_sem + 1
      BY <1>4 DEF Sem!Count
    <2> QED BY <2>1
  <1>5. CASE Sem!Joined
    BY <1>5 DEF Sem!Joined, Sem!vars
  <1> QED BY <1>1, <1>2, <1>3, <1>4, <1>5 DEF Sem!Next, Sem!my_thread

LEMMA SemRestStep ==
  SemIterations <= 1 => (SemInv /\ SemRest /\ [Sem!Next]_sem => SemRest')
  <1> SUFFICES ASSUME SemIterations <= 1, SemInv, SemRest, [Sem!Next]_sem
               PROVE  (Gathering \/ (Gathered /\ PostsOnTheirWay))'
    BY CounterFreedStep DEF SemRest
  <1>0. FirstBarrier /\ FirstBarrier'
    BY FirstBarrierStep DEF SemRest, FirstBarrier
  <1>g. SUFFICES ASSUME Gathered', ~Gathering' PROVE PostsOnTheirWay'
    BY <1>0 DEF FirstBarrier
  <1> USE RunAssumption, ThreadsFinite DEF SemInv, Sem!TypeOK, SemInIteration, Sem!Goto
  <1>1. CASE UNCHANGED sem
    <2>1. (Gathering \/ (Gathered /\ PostsOnTheirWay))'
      BY <1>1 DEF sem, SemRest, Gathering, Gathered, PostsOnTheirWay, Poster, SemWaiting
    <2> QED BY <1>g, <2>1
  <1>2. ASSUME NEW t \in Thread, Sem!Call(t) \/ Sem!Enter(t) PROVE PostsOnTheirWay'
    <2>1. sem_pc'[t] \in {"enter", "count"}
      BY <1>2 DEF Sem!Call, Sem!Enter
    <2> QED BY <1>g, <2>1 DEF Gathered
  <1>3. ASSUME NEW t \in Thread, Sem!Count(t) PROVE PostsOnTheirWay'
    <2>1. Gathering /\ sem_pc[t] = "count"
      BY <1>3 DEF SemRest, Gathered, Sem!Count
    <2>2. SemWaiting \subseteq Thread \ {t}
      BY <2>1 DEF SemWaiting
    <2>3. /\ IsFiniteSet(Thread \ {t}) /\ Cardinality(Thread \ {t}) = Cardinality(Thread) - 1
          /\ IsFiniteSet(SemWaiting) /\ Cardinality(SemWaiting) \in Nat
      BY <2>2, FS_RemoveElement, FS_Subset, FS_CardinalityType
    <2>4. CASE sem_counter = Cardinality(Thread) - 1
      <3>1. SemWaiting = Thread \ {t}
        BY <2>1, <2>2, <2>3, <2>4, FS_Subset DEF Gathering
      <3>2. /\ sem_pc' = [sem_pc EXCEPT ![t] = "post"] /\ barrier_sem' = 0
            /\ posts' = [posts EXCEPT ![t] = 0]
        BY <1>3, <2>1, <2>4, ThreadsCounted DEF Sem!Count, Gathering
      <3>3. SemWaiting' = SemWaiting /\ Poster' = {t}
        BY <3>1, <3>2 DEF SemWaiting, Poster
      <3>4. posts'[t] = 0
        BY <3>2
      <3> QED BY <2>3, <3>1, <3>2, <3>3, <3>4 DEF PostsOnTheirWay
    <2>5. CASE sem_counter # Cardinality(Thread) - 1
      <3>1. FirstBarrier' /\ sem_pc' = [sem_pc EXCEPT ![t] = "wait"]
            /\ sem_counter' = sem_counter + 1 /\ UNCHANGED <<barrier_sem, sem_i>>
        BY <1>0, <1>3, <2>5, ThreadsCounted DEF Sem!Count
      <3>2. SemWaiting' = SemWaiting \union {t} /\ t \notin SemWaiting
        BY <2>2, <3>1 DEF SemWaiting
      <3>3. Cardinality(SemWaiting') = Cardinality(SemWaiting) + 1
        BY <2>3, <3>2, FS_AddElement
      <3>4. Gathering'
        BY <2>1, <3>1, <3>3 DEF Gathering
      <3> QED BY <1>g, <3>4
    <2> QED BY <2>4, <2>5
  <1>4. ASSUME NEW t \in Thread, Sem!Post(t) PROVE PostsOnTheirWay'
    <2>0. sem_pc[t] = "post" /\ sem_pc' = [sem_pc EXCEPT ![t] = sem_pc'[t]]
          /\ sem_pc'[t] \in {"post", "work"}
      BY <1>4 DEF Sem!Post
    <2>1. /\ Poster = {t}
          /\ barrier_sem + (Cardinality(Thread) - 1 - posts[t]) = Cardinality(SemWaiting)
      <3>1. PostsOnTheirWay /\ t \in Poster
        BY <2>0 DEF SemRest, Gathering, Poster
      <3> QED BY <3>1 DEF PostsOnTheirWay
    <2>2. SemWaiting' = SemWaiting
      BY <2>0 DEF SemWaiting
    <2>3. CASE posts[t] < Cardinality(Thread) - 1
      <3>1. /\ barrier_sem' = barrier_sem + 1 /\ posts'[t] = posts[t] + 1
            /\ sem_pc' = sem_pc
        BY <1>4, <2>3, ThreadsCounted DEF Sem!Post
      <3>2. Poster' = {t}
        BY <2>1, <3>1 DEF Poster
      <3> QED BY <2>1, <2>2, <3>1, <3>2 DEF PostsOnTheirWay
    <2>4. CASE posts[t] = Cardinality(Thread) - 1
      <3>1. UNCHANGED barrier_sem /\ sem_pc' = [sem_pc EXCEPT ![t] = "work"]
        BY <1>4, <2>4, ThreadsCounted DEF Sem!Post
      <3>2. Poster' = {}
        BY <2>1, <3>1 DEF Poster
      <3> QED BY <2>1, <2>2, <2>4, <3>1, <3>2 DEF PostsOnTheirWay
    <2> QED BY <1>4, <2>3, <2>4, ThreadsCounted DEF Sem!Post
  <1>5. ASSUME NEW t \in Thread, Sem!Wait(t) PROVE PostsOnTheirWay'
    <2>1. /\ sem_pc[t] = "wait" /\ sem_pc' = [sem_pc EXCEPT ![t] = "work"]
          /\ barrier_sem > 0 /\ barrier_sem' = barrier_sem - 1 /\ UNCHANGED posts
      BY <1>5 DEF Sem!Wait
    <2>2. PostsOnTheirWay
      BY <2>1 DEF SemRest, Gathering
    <2>3. /\ SemWaiting' = SemWaiting \ {t} /\ t \in SemWaiting /\ Poster' = Poster
      BY <2>1 DEF SemWaiting, Poster
    <2>4. Cardinality(SemWaiting') = Cardinality(SemWaiting) - 1
      BY <2>3, WaitingCounted
    <2>5. ASSUME NEW u \in Poster
          PROVE  /\ Poster' = {u}
                 /\ barrier_sem' + (Cardinality(Thread) - 1 - posts'[u])
                       = Cardinality(SemWaiting')
      <3>1. u \in Thread
        BY DEF Poster
      <3> QED BY <2>1, <2>2, <2>3, <2>4, <3>1, WaitingCounted DEF PostsOnTheirWay
    <2>6. Poster' = {} => barrier_sem' = Cardinality(SemWaiting')
      BY <2>1, <2>2, <2>3, <2>4, WaitingCounted DEF PostsOnTheirWay
    <2> QED BY <2>3, <2>5, <2>6 DEF PostsOnTheirWay
  <1>6. CASE Sem!Joined
    BY <1>1, <1>6 DEF Sem!Joined, Sem!vars, sem
  <1> QED BY <1>1, <1>2, <1>3, <1>4, <1>5, <1>6 DEF Sem!Next, Sem!my_thread

\* What a thread needs to go on.
SemGoesOn(t) ==
  \/ sem_pc[t] = "work" /\ sem_i[t] < SemIterations
  \/ sem_pc[t] = "enter" /\ counter_sem > 0
  \/ sem_pc[t] \in {"count", "post"}
  \/ sem_pc[t] = "wait" /\ barrier_sem > 0

\* For one iteration nobody is left in the barrier: until all threads are done
\* one of them has a step.  (For two it can be that a thread waits for ever for
\* the post that a fast one has taken.)
THEOREM SemNeverStuck ==
  ASSUME SemIterations <= 1
  PROVE  Spec => [](Sem!AllDone \/ \E t \in Thread : SemGoesOn(t))
  <1>1. Init => SemRest
    <2> SUFFICES ASSUME Init PROVE SemRest
      OBVIOUS
    <2>1. /\ counter_sem = 1 /\ \A t \in Thread : sem_i[t] = 0 /\ sem_pc[t] = "work"
      BY DEF Init, Sem!Init
    <2>2. ~Gathered
      BY <2>1, BarrierAssumption DEF Gathered
    <2> QED BY <2>1, <2>2, SemInitInv DEF SemRest, CounterFreed, FirstBarrier
  <1>2. SemInv /\ SemRest /\ [Next]_vars => SemRest'
    BY SemRestStep, SemAlone
  <1>3. SemInv /\ SemRest => Sem!AllDone \/ \E t \in Thread : SemGoesOn(t)
    <2> SUFFICES ASSUME SemInv, SemRest, NEW t \in Thread,
                        ~(sem_pc[t] = "work" /\ sem_i[t] = SemIterations),
                        \A u \in Thread : ~SemGoesOn(u)
                 PROVE  FALSE
      BY DEF Sem!AllDone
    <2> USE RunAssumption DEF SemInv, Sem!TypeOK, SemInIteration
    <2>1. \A u \in Thread : \/ sem_pc[u] = "work" /\ sem_i[u] = SemIterations
                            \/ sem_pc[u] = "wait"
      BY DEF SemRest, CounterFreed, SemGoesOn
    <2>2. sem_pc[t] = "wait" /\ barrier_sem = 0
      BY <2>1 DEF SemGoesOn
    <2>3. CASE Gathering
      <3>1. \A u \in Thread : sem_pc[u] = "wait"
        BY <2>1, <2>2, <2>3 DEF Gathering
      <3>2. SemWaiting = Thread
        BY <3>1 DEF SemWaiting
      <3> QED BY <2>3, <3>2, ThreadsFinite, ThreadsCounted DEF Gathering
    <2>4. CASE Gathered /\ PostsOnTheirWay
      <3>1. Poster = {}
        BY <2>1 DEF Poster
      <3>2. SemWaiting = {}
        BY <2>2, <2>4, <3>1, WaitingCounted DEF PostsOnTheirWay
      <3> QED BY <2>2, <3>2 DEF SemWaiting
    <2> QED BY <2>3, <2>4 DEF SemRest
  <1> QED BY <1>1, <1>2, <1>3, SemInvariance, PTL DEF Spec

---------------------------------------------------------------------------
\* The variables of all four programs keep their types.
THEOREM TypesKept == Spec => []ThreadTypes
  <1>1. Dining!TypeOK /\ Queue!TypeOK /\ SemInv /\ Cv!TypeOK => ThreadTypes
    BY DEF ThreadTypes, SemInv
  <1> QED BY <1>1, DiningTypes, QueueTypes, SemInvariance, CvTypes, PTL
=============================================================================
