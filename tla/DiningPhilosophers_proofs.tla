---------------------- MODULE DiningPhilosophers_proofs ----------------------
(***************************************************************************)
(* However many philosophers sit at the table: two neighbours never use    *)
(* the chopstick between them at the same time, and no more meals are      *)
(* eaten than the limit and one more for all but one of them; and in the   *)
(* end the chopsticks are back and the meals of each add up.               *)
(***************************************************************************)
EXTENDS DiningPhilosophers, SumTheorems, FiniteSetTheorems, TLAPS

\* A chopstick somebody has is marked as in use.
MarkedInUse ==
  \A p \in Philosopher : /\ HasLeft(p)  => chopstick[p] = 0
                         /\ HasRight(p) => chopstick[Right(p)] = 0

\* What the test saw still holds when the chopstick is taken.
TestStillHolds ==
  \A p \in Philosopher : /\ pc[p] = "take_left"  => chopstick[p] = 1
                         /\ pc[p] = "take_right" => chopstick[Right(p)] = 1

\* Who is between a lock and an unlock holds the mutex.
LocksHeld ==
  \A p \in Philosopher :
    /\ pc[p] \in {"test_left", "take_left", "relock_right", "release", "give_back"}
         => chopstick_lock[p] = p
    /\ pc[p] \in {"test_right", "take_right", "release"}
         => chopstick_lock[Right(p)] = p

TableInv == MarkedInUse /\ TestStillHolds /\ LocksHeld /\ ChopstickExclusion

IInv == TypeOK /\ TableInv

---------------------------------------------------------------------------
LEMMA RightType ==
  /\ \A p \in Philosopher : Right(p) \in Philosopher /\ Right(p) # p
  /\ \A p, q \in Philosopher : Right(p) = Right(q) => p = q
  /\ Free \notin Philosopher
  BY DiningAssumption DEF Right, Philosopher, Free

LEMMA InitIInv == Init => IInv
  <1> SUFFICES ASSUME Init PROVE IInv
    OBVIOUS
  <1>1. TypeOK
    BY DEF Init, TypeOK, Labels
  <1>2. TableInv
    BY DEF Init, TableInv, MarkedInUse, TestStillHolds, LocksHeld,
       ChopstickExclusion, HasLeft, HasRight
  <1> QED BY <1>1, <1>2 DEF IInv

LEMMA Step == IInv /\ [Next]_vars => IInv'
  <1> SUFFICES ASSUME IInv, [Next]_vars PROVE IInv'
    OBVIOUS
  <1> USE DEF IInv, TypeOK, Labels, TableInv, MarkedInUse, TestStillHolds, LocksHeld,
          ChopstickExclusion, HasLeft, HasRight
  <1>1. CASE UNCHANGED vars
    BY <1>1 DEF vars
  <1>2. ASSUME NEW p \in Philosopher, While(p) PROVE IInv'
    BY <1>2, RightType DEF While, Goto, Keep
  <1>3. ASSUME NEW p \in Philosopher, LockLeft(p) PROVE IInv'
    BY <1>3, RightType DEF LockLeft, Goto, Keep, pthread_mutex_lock
  <1>4. ASSUME NEW p \in Philosopher, TestLeft(p) PROVE IInv'
    BY <1>4, RightType DEF TestLeft, Goto, Keep, pthread_mutex_unlock
  <1>5. ASSUME NEW p \in Philosopher, TakeLeft(p) PROVE IInv'
    BY <1>5, RightType DEF TakeLeft, Goto, Keep, pthread_mutex_unlock
  <1>6. ASSUME NEW p \in Philosopher, LockRight(p) PROVE IInv'
    BY <1>6, RightType DEF LockRight, Goto, Keep, pthread_mutex_lock
  <1>7. ASSUME NEW p \in Philosopher, TestRight(p) PROVE IInv'
    BY <1>7, RightType DEF TestRight, Goto, Keep, pthread_mutex_unlock
  <1>8. ASSUME NEW p \in Philosopher, TakeRight(p) PROVE IInv'
    BY <1>8, RightType DEF TakeRight, Goto, Keep, pthread_mutex_unlock
  <1>9. ASSUME NEW p \in Philosopher, Eat(p) PROVE IInv'
    BY <1>9, RightType DEF Eat, Goto
  <1>10. ASSUME NEW p \in Philosopher, Count(p) PROVE IInv'
    BY <1>10, RightType DEF Count, Goto
  <1>11. ASSUME NEW p \in Philosopher, RelockLeft(p) PROVE IInv'
    BY <1>11, RightType DEF RelockLeft, Goto, Keep, pthread_mutex_lock
  <1>12. ASSUME NEW p \in Philosopher, RelockRight(p) PROVE IInv'
    BY <1>12, RightType DEF RelockRight, Goto, Keep, pthread_mutex_lock
  <1>13. ASSUME NEW p \in Philosopher, Release(p) PROVE IInv'
    BY <1>13, RightType DEF Release, Goto, Keep
  <1>14. ASSUME NEW p \in Philosopher, LockBack(p) PROVE IInv'
    BY <1>14, RightType DEF LockBack, Goto, Keep, pthread_mutex_lock
  <1>15. ASSUME NEW p \in Philosopher, GiveBack(p) PROVE IInv'
    BY <1>15, RightType DEF GiveBack, Goto, Keep, pthread_mutex_unlock
  <1>16. CASE Joined
    BY <1>16 DEF Joined, vars
  <1> QED
    BY <1>1, <1>2, <1>3, <1>4, <1>5, <1>6, <1>7, <1>8, <1>9, <1>10, <1>11, <1>12,
       <1>13, <1>14, <1>15, <1>16 DEF Next, philosopher, Lock

LEMMA Invariance == Spec => []IInv
  BY InitIInv, Step, PTL DEF Spec

---------------------------------------------------------------------------
\* Who has seen that there are meals left and has not counted its own.
Committed ==
  {p \in Philosopher :
     pc[p] \in {"lock_left", "test_left", "take_left", "lock_right", "test_right",
               "take_right", "lock_back", "give_back", "eat", "count"}}

\* Who is committed will eat one meal or none.
MealsInv == curr_num_meals + Cardinality(Committed) <= MAX_NUM_MEALS + NUM_PHILOSOPHERS - 1

LEMMA SomePhilosophers ==
  ASSUME NEW S \in SUBSET Philosopher
  PROVE  IsFiniteSet(S) /\ Cardinality(S) \in 0 .. NUM_PHILOSOPHERS
  <1>1. IsFiniteSet(Philosopher) /\ Cardinality(Philosopher) = NUM_PHILOSOPHERS
    BY DiningAssumption, FS_Interval DEF Philosopher
  <1> QED
    BY <1>1, FS_Subset, FS_CardinalityType, DiningAssumption

LEMMA CommittedFew ==
  /\ IsFiniteSet(Committed) /\ Cardinality(Committed) \in 0 .. NUM_PHILOSOPHERS
  /\ IsFiniteSet(Committed') /\ Cardinality(Committed') \in 0 .. NUM_PHILOSOPHERS
  BY SomePhilosophers DEF Committed

LEMMA InitMeals == Init => MealsInv
  <1> SUFFICES ASSUME Init PROVE MealsInv
    OBVIOUS
  <1>1. Committed = {}
    BY DEF Committed, Init
  <1> QED BY <1>1, FS_EmptySet, DiningAssumption DEF Init, MealsInv

\* The test of the loop lets a philosopher in below the limit only; its meal
\* then counts once.
LEMMA MealsStep == TypeOK /\ MealsInv /\ [Next]_vars => MealsInv'
  <1> SUFFICES ASSUME TypeOK, MealsInv, [Next]_vars PROVE MealsInv'
    OBVIOUS
  <1> USE DiningAssumption DEF MealsInv, TypeOK
  <1>1. CASE UNCHANGED vars
    BY <1>1 DEF vars, Committed
  <1>2. ASSUME NEW p \in Philosopher, While(p) PROVE MealsInv'
    <2>1. CASE curr_num_meals < MAX_NUM_MEALS
      BY <1>2, <2>1, CommittedFew DEF While, Keep
    <2>2. CASE ~(curr_num_meals < MAX_NUM_MEALS)
      <3>1. Committed' = Committed
        BY <1>2, <2>2 DEF While, Goto, Committed
      <3> QED BY <1>2, <3>1 DEF While, Keep
    <2> QED BY <2>1, <2>2
  <1>3. ASSUME NEW p \in Philosopher, Count(p) PROVE MealsInv'
    <2>1. Committed' = Committed \ {p} /\ p \in Committed
      BY <1>3 DEF Count, Goto, Committed
    <2>2. Cardinality(Committed') = Cardinality(Committed) - 1
      BY <2>1, CommittedFew, FS_RemoveElement
    <2> QED BY <1>3, <2>2, CommittedFew DEF Count
  <1>4. ASSUME NEW p \in Philosopher,
               Lock(p) \/ TestLeft(p) \/ TakeLeft(p) \/ TestRight(p) \/ TakeRight(p)
                 \/ Eat(p) \/ Release(p) \/ GiveBack(p)
        PROVE  MealsInv'
    <2>1. UNCHANGED curr_num_meals
      BY <1>4 DEF Lock, LockLeft, LockRight, RelockLeft, RelockRight, LockBack, TestLeft,
         TakeLeft, TestRight, TakeRight, Eat, Release, GiveBack, Keep
    <2>2. Committed' \subseteq Committed
      BY <1>4 DEF Lock, LockLeft, LockRight, RelockLeft, RelockRight, LockBack, TestLeft,
         TakeLeft, TestRight, TakeRight, Eat, Release, GiveBack, Goto, Committed
    <2>3. Cardinality(Committed') <= Cardinality(Committed)
      BY <2>2, CommittedFew, FS_Subset
    <2> QED BY <2>1, <2>3, CommittedFew
  <1>5. CASE Joined
    BY <1>5 DEF Joined, vars, Committed
  <1> QED
    BY <1>1, <1>2, <1>3, <1>4, <1>5 DEF Next, philosopher

---------------------------------------------------------------------------
\* A chopstick marked as in use is with somebody,
WithSomebody ==
  \A c \in Philosopher :
    chopstick[c] = 0 => HasLeft(c) \/ \E q \in Philosopher : c = Right(q) /\ HasRight(q)

\* a mutex that is held is held by somebody between a lock and an unlock,
HeldBySomebody ==
  \A c \in Philosopher :
    chopstick_lock[c] # Free =>
      \E q \in Philosopher :
        /\ chopstick_lock[c] = q
        /\ \/ c = q /\ pc[q] \in {"test_left", "take_left", "relock_right", "release",
                                 "give_back"}
           \/ c = Right(q) /\ pc[q] \in {"test_right", "take_right", "release"}

\* who is done has seen the limit reached,
LimitReached == \A p \in Philosopher : pc[p] = "done" => curr_num_meals >= MAX_NUM_MEALS

\* and each meal is counted, or eaten by somebody about to count it.
Uncounted == {p \in Philosopher : pc[p] = "count"}
Tally ==
  SumOf(num_meals_consumed) = curr_num_meals + Cardinality(Uncounted)

StatisticsInv == WithSomebody /\ HeldBySomebody /\ LimitReached /\ Tally

LEMMA PhilosophersFinite == IsFiniteSet(Philosopher)
  BY DiningAssumption, FS_Interval DEF Philosopher

LEMMA InitStatistics == Init => StatisticsInv
  <1> SUFFICES ASSUME Init PROVE StatisticsInv
    OBVIOUS
  <1>1. Tally
    <2>1. Uncounted = {}
      BY DEF Uncounted, Init
    <2>2. SumOf(num_meals_consumed) = 0
      BY PhilosophersFinite, SumOfNothing DEF Init
    <2> QED BY <2>1, <2>2, FS_EmptySet DEF Init, Tally
  <1>2. WithSomebody /\ HeldBySomebody /\ LimitReached
    BY DEF Init, WithSomebody, HeldBySomebody, LimitReached
  <1> QED BY <1>1, <1>2 DEF StatisticsInv

LEMMA TallyStep == TypeOK /\ Tally /\ [Next]_vars => Tally'
  <1> SUFFICES ASSUME TypeOK, Tally, [Next]_vars PROVE Tally'
    OBVIOUS
  <1>0. /\ IsFiniteSet(Uncounted) /\ Cardinality(Uncounted) \in Nat
        /\ Uncounted \subseteq Philosopher /\ curr_num_meals \in Nat
        /\ num_meals_consumed \in [Philosopher -> Nat]
        /\ pc \in [Philosopher -> Labels]
    BY SomePhilosophers, DiningAssumption DEF Uncounted, TypeOK
  <1>1. ASSUME UNCHANGED <<num_meals_consumed, curr_num_meals>>, Uncounted' = Uncounted
        PROVE  Tally'
    BY <1>1 DEF Tally
  <1>2. ASSUME NEW p \in Philosopher, Eat(p) PROVE Tally'
    <2>1. p \notin Uncounted /\ Uncounted' = Uncounted \cup {p}
      BY <1>0, <1>2 DEF Eat, Goto, Uncounted
    <2>2. Cardinality(Uncounted') = Cardinality(Uncounted) + 1
      BY <1>0, <2>1, FS_AddElement
    <2>3. /\ SumOf(num_meals_consumed) \in Int
          /\ SumOf([num_meals_consumed EXCEPT ![p] = @ + 1])
               = SumOf(num_meals_consumed) + 1
      BY <1>0, PhilosophersFinite, SumOfOneMore
    <2>4. /\ num_meals_consumed' = [num_meals_consumed EXCEPT ![p] = @ + 1]
          /\ curr_num_meals' = curr_num_meals
      BY <1>2 DEF Eat
    <2> QED BY <1>0, <2>2, <2>3, <2>4 DEF Tally
  <1>3. ASSUME NEW p \in Philosopher, Count(p) PROVE Tally'
    <2>1. p \in Uncounted /\ Uncounted' = Uncounted \ {p}
      BY <1>0, <1>3 DEF Count, Goto, Uncounted
    <2>2. Cardinality(Uncounted') = Cardinality(Uncounted) - 1
      BY <1>0, <2>1, FS_RemoveElement
    <2> QED BY <1>0, <1>3, <2>2 DEF Count, Tally
  <1>4. ASSUME NEW p \in Philosopher,
               Lock(p) \/ While(p) \/ TestLeft(p) \/ TakeLeft(p) \/ TestRight(p)
                 \/ TakeRight(p) \/ Release(p) \/ GiveBack(p)
        PROVE  Tally'
    <2>1. Uncounted' = Uncounted
      BY <1>0, <1>4 DEF Lock, LockLeft, LockRight, RelockLeft, RelockRight, LockBack, While,
         TestLeft, TakeLeft, TestRight, TakeRight, Release, GiveBack, Goto, Uncounted
    <2>2. UNCHANGED <<num_meals_consumed, curr_num_meals>>
      BY <1>4 DEF Lock, LockLeft, LockRight, RelockLeft, RelockRight, LockBack, While,
         TestLeft, TakeLeft, TestRight, TakeRight, Release, GiveBack, Keep
    <2> QED BY <1>1, <2>1, <2>2
  <1>5. CASE UNCHANGED vars \/ Joined
    BY <1>1, <1>5 DEF Joined, vars, Uncounted
  <1> QED
    BY <1>2, <1>3, <1>4, <1>5 DEF Next, philosopher

LEMMA ChopsticksStep ==
  TypeOK /\ WithSomebody /\ HeldBySomebody /\ LimitReached /\ [Next]_vars
    => WithSomebody' /\ HeldBySomebody' /\ LimitReached'
  <1> SUFFICES ASSUME TypeOK, WithSomebody, HeldBySomebody, LimitReached, [Next]_vars
               PROVE  WithSomebody' /\ HeldBySomebody' /\ LimitReached'
    OBVIOUS
  <1> USE DiningAssumption DEF TypeOK, Labels
  <1> DEFINE Kept == WithSomebody' /\ HeldBySomebody' /\ LimitReached'
  <1>1. CASE UNCHANGED vars \/ Joined
    BY <1>1 DEF Joined, vars, WithSomebody, HeldBySomebody, LimitReached, HasLeft, HasRight
  <1>2. ASSUME NEW p \in Philosopher, philosopher(p) PROVE LimitReached'
    BY <1>2 DEF philosopher, Lock, LockLeft, LockRight, RelockLeft, RelockRight, LockBack,
       While, TestLeft, TakeLeft, TestRight, TakeRight, Eat, Count, Release, GiveBack, Goto,
       Keep, LimitReached
  <1>3. ASSUME NEW p \in Philosopher, While(p) PROVE WithSomebody'
    BY <1>3, RightType DEF While, Goto, Keep, WithSomebody,
       HasLeft, HasRight
  <1>4. ASSUME NEW p \in Philosopher, LockLeft(p) PROVE WithSomebody'
    BY <1>4, RightType DEF LockLeft, Goto, Keep, pthread_mutex_lock, WithSomebody,
       HasLeft, HasRight
  <1>5. ASSUME NEW p \in Philosopher, TestLeft(p) PROVE WithSomebody'
    BY <1>5, RightType DEF TestLeft, Goto, Keep, pthread_mutex_unlock, WithSomebody,
       HasLeft, HasRight
  <1>6. ASSUME NEW p \in Philosopher, TakeLeft(p) PROVE WithSomebody'
    BY <1>6, RightType DEF TakeLeft, Goto, Keep, pthread_mutex_unlock, WithSomebody,
       HasLeft, HasRight
  <1>7. ASSUME NEW p \in Philosopher, LockRight(p) PROVE WithSomebody'
    BY <1>7, RightType DEF LockRight, Goto, Keep, pthread_mutex_lock, WithSomebody,
       HasLeft, HasRight
  <1>8. ASSUME NEW p \in Philosopher, TestRight(p) PROVE WithSomebody'
    BY <1>8, RightType DEF TestRight, Goto, Keep, pthread_mutex_unlock, WithSomebody,
       HasLeft, HasRight
  <1>9. ASSUME NEW p \in Philosopher, TakeRight(p) PROVE WithSomebody'
    BY <1>9, RightType DEF TakeRight, Goto, Keep, pthread_mutex_unlock, WithSomebody,
       HasLeft, HasRight
  <1>10. ASSUME NEW p \in Philosopher, Eat(p) PROVE WithSomebody'
    BY <1>10, RightType DEF Eat, Goto, Keep, WithSomebody,
       HasLeft, HasRight
  <1>11. ASSUME NEW p \in Philosopher, Count(p) PROVE WithSomebody'
    BY <1>11, RightType DEF Count, Goto, Keep, WithSomebody,
       HasLeft, HasRight
  <1>12. ASSUME NEW p \in Philosopher, RelockLeft(p) PROVE WithSomebody'
    BY <1>12, RightType DEF RelockLeft, Goto, Keep, pthread_mutex_lock, WithSomebody,
       HasLeft, HasRight
  <1>13. ASSUME NEW p \in Philosopher, RelockRight(p) PROVE WithSomebody'
    BY <1>13, RightType DEF RelockRight, Goto, Keep, pthread_mutex_lock, WithSomebody,
       HasLeft, HasRight
  <1>14. ASSUME NEW p \in Philosopher, Release(p) PROVE WithSomebody'
    BY <1>14, RightType DEF Release, Goto, Keep, WithSomebody,
       HasLeft, HasRight
  <1>15. ASSUME NEW p \in Philosopher, LockBack(p) PROVE WithSomebody'
    BY <1>15, RightType DEF LockBack, Goto, Keep, pthread_mutex_lock, WithSomebody,
       HasLeft, HasRight
  <1>16. ASSUME NEW p \in Philosopher, GiveBack(p) PROVE WithSomebody'
    BY <1>16, RightType DEF GiveBack, Goto, Keep, pthread_mutex_unlock, WithSomebody,
       HasLeft, HasRight
  <1>17. ASSUME NEW p \in Philosopher, While(p) PROVE HeldBySomebody'
    BY <1>17, RightType DEF While, Goto, Keep, HeldBySomebody
  <1>18. ASSUME NEW p \in Philosopher, LockLeft(p) PROVE HeldBySomebody'
    BY <1>18, RightType DEF LockLeft, Goto, Keep, pthread_mutex_lock, HeldBySomebody
  <1>19. ASSUME NEW p \in Philosopher, TestLeft(p) PROVE HeldBySomebody'
    BY <1>19, RightType DEF TestLeft, Goto, Keep, pthread_mutex_unlock, HeldBySomebody
  <1>20. ASSUME NEW p \in Philosopher, TakeLeft(p) PROVE HeldBySomebody'
    BY <1>20, RightType DEF TakeLeft, Goto, Keep, pthread_mutex_unlock, HeldBySomebody
  <1>21. ASSUME NEW p \in Philosopher, LockRight(p) PROVE HeldBySomebody'
    BY <1>21, RightType DEF LockRight, Goto, Keep, pthread_mutex_lock, HeldBySomebody
  <1>22. ASSUME NEW p \in Philosopher, TestRight(p) PROVE HeldBySomebody'
    BY <1>22, RightType DEF TestRight, Goto, Keep, pthread_mutex_unlock, HeldBySomebody
  <1>23. ASSUME NEW p \in Philosopher, TakeRight(p) PROVE HeldBySomebody'
    BY <1>23, RightType DEF TakeRight, Goto, Keep, pthread_mutex_unlock, HeldBySomebody
  <1>24. ASSUME NEW p \in Philosopher, Eat(p) PROVE HeldBySomebody'
    BY <1>24, RightType DEF Eat, Goto, Keep, HeldBySomebody
  <1>25. ASSUME NEW p \in Philosopher, Count(p) PROVE HeldBySomebody'
    BY <1>25, RightType DEF Count, Goto, Keep, HeldBySomebody
  <1>26. ASSUME NEW p \in Philosopher, RelockLeft(p) PROVE HeldBySomebody'
    BY <1>26, RightType DEF RelockLeft, Goto, Keep, pthread_mutex_lock, HeldBySomebody
  <1>27. ASSUME NEW p \in Philosopher, RelockRight(p) PROVE HeldBySomebody'
    BY <1>27, RightType DEF RelockRight, Goto, Keep, pthread_mutex_lock, HeldBySomebody
  <1>28. ASSUME NEW p \in Philosopher, Release(p) PROVE HeldBySomebody'
    BY <1>28, RightType DEF Release, Goto, Keep, HeldBySomebody
  <1>29. ASSUME NEW p \in Philosopher, LockBack(p) PROVE HeldBySomebody'
    BY <1>29, RightType DEF LockBack, Goto, Keep, pthread_mutex_lock, HeldBySomebody
  <1>30. ASSUME NEW p \in Philosopher, GiveBack(p) PROVE HeldBySomebody'
    BY <1>30, RightType DEF GiveBack, Goto, Keep, pthread_mutex_unlock, HeldBySomebody
  <1> QED
    BY <1>1, <1>2, <1>3, <1>4, <1>5, <1>6, <1>7, <1>8, <1>9, <1>10, <1>11, <1>12, <1>13, <1>14, <1>15, <1>16, <1>17, <1>18, <1>19, <1>20, <1>21, <1>22, <1>23, <1>24, <1>25, <1>26, <1>27, <1>28, <1>29, <1>30
    DEF Next, philosopher, Lock

---------------------------------------------------------------------------
\* The chopsticks, their mutexes, the meal counters and the positions of the
\* philosophers keep their types, whatever the size of the table.
THEOREM TypeCorrect == Spec => []TypeOK
  <1>1. IInv => TypeOK
    BY DEF IInv
  <1> QED BY <1>1, Invariance, PTL

\* Two neighbours never use the chopstick between them at the same time.
THEOREM Exclusion == Spec => []ChopstickExclusion
  <1>1. IInv => ChopstickExclusion
    BY DEF IInv, TableInv
  <1> QED BY <1>1, Invariance, PTL

\* The meals counted exceed the limit by fewer than there are philosophers,
\* although the loop reads their number without its lock.
THEOREM Meals == Spec => []MealsBounded
  <1>1. TypeOK /\ MealsInv => MealsBounded
    BY CommittedFew, DiningAssumption DEF TypeOK, MealsInv, MealsBounded
  <1> QED BY <1>1, InitMeals, MealsStep, TypeCorrect, PTL DEF Spec

\* When everybody is done the limit is reached, the meals of the philosophers
\* add up to the meals counted, and chopsticks and mutexes are back.
THEOREM Statistics == Spec => []StatisticsAddUp
  <1>1. TypeOK /\ StatisticsInv => StatisticsAddUp
    <2> SUFFICES ASSUME TypeOK, StatisticsInv, AllDone PROVE StatisticsAddUp
      BY DEF StatisticsAddUp
    <2>1. 0 \in Philosopher
      BY DiningAssumption DEF Philosopher
    <2>2. Uncounted = {}
      BY DEF AllDone, Uncounted
    <2>3. curr_num_meals \in Nat
      BY DEF TypeOK
    <2>4. SumOf(num_meals_consumed) = curr_num_meals
      BY <2>2, <2>3, FS_EmptySet DEF StatisticsInv, Tally
    <2>5. \A p \in Philosopher : chopstick[p] = 1 /\ chopstick_lock[p] = Free
      BY DEF AllDone, TypeOK, StatisticsInv, WithSomebody, HeldBySomebody, HasLeft, HasRight
    <2>6. curr_num_meals >= MAX_NUM_MEALS
      BY <2>1 DEF AllDone, StatisticsInv, LimitReached
    <2> QED BY <2>4, <2>5, <2>6 DEF StatisticsAddUp, SumOf
  <1>2. TypeOK /\ StatisticsInv /\ [Next]_vars => StatisticsInv'
    BY TallyStep, ChopsticksStep DEF StatisticsInv
  <1> QED BY <1>1, <1>2, InitStatistics, TypeCorrect, PTL DEF Spec

---------------------------------------------------------------------------
\* The mutex p is at a pthread_mutex_lock of, or Free when it is at none.
Wanted(p) ==
  IF pc[p] \in {"lock_left", "relock_left", "lock_back"} THEN p
  ELSE IF pc[p] \in {"lock_right", "relock_right"} THEN Right(p) ELSE Free

\* p has a step of its own: it is not done and blocked on no mutex.
CanStep(p) == pc[p] # "done" /\ (Wanted(p) # Free => chopstick_lock[Wanted(p)] = Free)

\* The mutex somebody is blocked on is held by the one whose left chopstick it
\* protects, who is blocked in turn only on its way to release both; and two
\* neighbours cannot both be there.
LEMMA StuckStep ==
  IInv /\ HeldBySomebody => AllDone \/ \E p \in Philosopher : CanStep(p)
  <1> SUFFICES ASSUME IInv, HeldBySomebody, \A p \in Philosopher : ~CanStep(p)
               PROVE  AllDone
    OBVIOUS
  <1>t. TypeOK /\ ChopstickExclusion
    BY DEF IInv, TableInv
  <1>1. ASSUME NEW c \in Philosopher, chopstick_lock[c] # Free
        PROVE  pc[c] = "relock_right"
    <2>1. PICK q \in Philosopher :
            \/ c = q /\ pc[q] \in {"test_left", "take_left", "relock_right", "release",
                                    "give_back"}
            \/ c = Right(q) /\ pc[q] \in {"test_right", "take_right", "release"}
      BY <1>1, <1>t DEF HeldBySomebody, TypeOK
    <2>2. pc[q] \in {"lock_left", "relock_left", "lock_back", "lock_right",
                     "relock_right", "done"}
      BY DEF CanStep, Wanted
    <2> QED BY <2>1, <2>2
  <1>2. ASSUME NEW p \in Philosopher, pc[p] # "done" PROVE FALSE
    <2>1. PICK c \in Philosopher : chopstick_lock[c] # Free
      BY <1>2, RightType DEF CanStep, Wanted
    <2>2. pc[c] = "relock_right" /\ Right(c) \in Philosopher
      BY <1>1, <2>1, RightType
    <2>3. chopstick_lock[Right(c)] # Free
      BY <2>2, RightType DEF CanStep, Wanted
    <2>4. pc[Right(c)] = "relock_right"
      BY <1>1, <2>2, <2>3
    <2> QED BY <1>t, <2>2, <2>4 DEF ChopstickExclusion, HasLeft, HasRight
  <1> QED BY <1>2 DEF AllDone

\* No deadlock around the mutexes, however many philosophers: until everybody
\* is done somebody has a step, although the release takes two mutexes at once
\* and everybody takes them in the same direction round the table.
THEOREM NeverStuck == Spec => [](AllDone \/ \E p \in Philosopher : CanStep(p))
  <1>1. TypeOK /\ StatisticsInv /\ [Next]_vars => StatisticsInv'
    BY TallyStep, ChopsticksStep DEF StatisticsInv
  <1>2. IInv /\ StatisticsInv => AllDone \/ \E p \in Philosopher : CanStep(p)
    BY StuckStep DEF StatisticsInv
  <1> QED BY <1>1, <1>2, InitStatistics, TypeCorrect, Invariance, PTL DEF Spec
=============================================================================
