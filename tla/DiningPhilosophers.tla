------------------------- MODULE DiningPhilosophers -------------------------
(***************************************************************************)
(* dining_philosophers.c: philosophers that share chopsticks with their    *)
(* neighbours.  A chopstick is a flag protected by a mutex of its own; a   *)
(* philosopher that finds its right one taken gives its left one up, waits *)
(* and tries again.  The release takes both mutexes at once.               *)
(***************************************************************************)
EXTENDS ThreadParameters, Functions

Philosopher == 0 .. NUM_PHILOSOPHERS - 1

\* (curr + 1) % NUM_PHILOSOPHERS
Right(p) == IF p = NUM_PHILOSOPHERS - 1 THEN 0 ELSE p + 1

VARIABLES
  chopstick,           \* 1 when free, 0 when in use
  chopstick_lock,      \* who holds the mutex of each chopstick
  num_meals_consumed,  \* meals of each philosopher
  curr_num_meals,      \* meals of all, read without its lock by the loop
  pc

vars == <<chopstick, chopstick_lock, num_meals_consumed, curr_num_meals, pc>>

Free == NUM_PHILOSOPHERS   \* no philosopher's number

Labels == {"while", "lock_left", "test_left", "take_left", "lock_right", "test_right",
           "take_right", "eat", "count", "relock_left", "relock_right", "release",
           "lock_back", "give_back", "done"}

TypeOK ==
  /\ chopstick \in [Philosopher -> {0, 1}]
  /\ chopstick_lock \in [Philosopher -> Philosopher \union {Free}]
  /\ num_meals_consumed \in [Philosopher -> Nat]
  /\ curr_num_meals \in Nat
  /\ pc \in [Philosopher -> Labels]

---------------------------------------------------------------------------
Goto(p, from, to) == pc[p] = from /\ pc' = [pc EXCEPT ![p] = to]

pthread_mutex_lock(p, c) ==
  /\ chopstick_lock[c] = Free
  /\ chopstick_lock' = [chopstick_lock EXCEPT ![c] = p]

pthread_mutex_unlock(c) == chopstick_lock' = [chopstick_lock EXCEPT ![c] = Free]

Keep == UNCHANGED <<num_meals_consumed, curr_num_meals>>

While(p) ==
  /\ Goto(p, "while", IF curr_num_meals < MAX_NUM_MEALS THEN "lock_left" ELSE "done")
  /\ UNCHANGED <<chopstick, chopstick_lock>> /\ Keep

LockLeft(p) ==
  /\ Goto(p, "lock_left", "test_left")
  /\ pthread_mutex_lock(p, p)
  /\ UNCHANGED chopstick /\ Keep

TestLeft_keepsLock(p) ==      \* mutant: no unlock when it is taken
  /\ \/ /\ chopstick[p] = 1
        /\ Goto(p, "test_left", "take_left")
     \/ /\ chopstick[p] = 0
        /\ Goto(p, "test_left", "while")
  /\ UNCHANGED <<chopstick, chopstick_lock>> /\ Keep

TestLeft(p) ==
  /\ \/ /\ chopstick[p] = 1
        /\ Goto(p, "test_left", "take_left")
        /\ UNCHANGED chopstick_lock
     \/ /\ chopstick[p] = 0
        /\ Goto(p, "test_left", "while")
        /\ pthread_mutex_unlock(p)
  /\ UNCHANGED chopstick /\ Keep

TakeLeft(p) ==
  /\ Goto(p, "take_left", "lock_right")
  /\ chopstick' = [chopstick EXCEPT ![p] = 0]
  /\ pthread_mutex_unlock(p)
  /\ Keep

LockRight(p) ==
  /\ Goto(p, "lock_right", "test_right")
  /\ pthread_mutex_lock(p, Right(p))
  /\ UNCHANGED chopstick /\ Keep

TestRight_wrongFlag(p) ==     \* mutant: tests chopstick[curr] == 0
  /\ \/ /\ chopstick[p] = 0
        /\ Goto(p, "test_right", "take_right")
        /\ UNCHANGED chopstick_lock
     \/ /\ chopstick[p] = 1
        /\ Goto(p, "test_right", "lock_back")
        /\ pthread_mutex_unlock(Right(p))
  /\ UNCHANGED chopstick /\ Keep

TestRight(p) ==
  /\ \/ /\ chopstick[Right(p)] = 1
        /\ Goto(p, "test_right", "take_right")
        /\ UNCHANGED chopstick_lock
     \/ /\ chopstick[Right(p)] = 0
        /\ Goto(p, "test_right", "lock_back")
        /\ pthread_mutex_unlock(Right(p))
  /\ UNCHANGED chopstick /\ Keep

TakeRight(p) ==
  /\ Goto(p, "take_right", "eat")
  /\ chopstick' = [chopstick EXCEPT ![Right(p)] = 0]
  /\ pthread_mutex_unlock(Right(p))
  /\ Keep

Eat(p) ==
  /\ Goto(p, "eat", "count")
  /\ num_meals_consumed' = [num_meals_consumed EXCEPT ![p] = @ + 1]
  /\ UNCHANGED <<chopstick, chopstick_lock, curr_num_meals>>

\* Under curr_num_meals_lock, which is held for nothing else.
Count(p) ==
  /\ Goto(p, "count", "relock_left")
  /\ curr_num_meals' = curr_num_meals + 1
  /\ UNCHANGED <<chopstick, chopstick_lock, num_meals_consumed>>

RelockLeft(p) ==
  /\ Goto(p, "relock_left", "relock_right")
  /\ pthread_mutex_lock(p, p)
  /\ UNCHANGED chopstick /\ Keep

RelockRight(p) ==
  /\ Goto(p, "relock_right", "release")
  /\ pthread_mutex_lock(p, Right(p))
  /\ UNCHANGED chopstick /\ Keep

Release_loop(p) ==            \* mutant: back to a second helping, without the test
  /\ Goto(p, "release", "lock_left")
  /\ chopstick'      = [chopstick EXCEPT ![p] = 1, ![Right(p)] = 1]
  /\ chopstick_lock' = [chopstick_lock EXCEPT ![p] = Free, ![Right(p)] = Free]
  /\ Keep

Release(p) ==
  /\ Goto(p, "release", "while")
  /\ chopstick'      = [chopstick EXCEPT ![p] = 1, ![Right(p)] = 1]
  /\ chopstick_lock' = [chopstick_lock EXCEPT ![p] = Free, ![Right(p)] = Free]
  /\ Keep

LockBack(p) ==
  /\ Goto(p, "lock_back", "give_back")
  /\ pthread_mutex_lock(p, p)
  /\ UNCHANGED chopstick /\ Keep

GiveBack_forgets(p) ==        \* mutant: the flag is not set back to 1
  /\ Goto(p, "give_back", "while")
  /\ pthread_mutex_unlock(p)
  /\ UNCHANGED chopstick /\ Keep

GiveBack(p) ==
  /\ Goto(p, "give_back", "while")
  /\ chopstick' = [chopstick EXCEPT ![p] = 1]
  /\ pthread_mutex_unlock(p)
  /\ Keep

---------------------------------------------------------------------------
Init ==
  /\ chopstick = [p \in Philosopher |-> 1]
  /\ chopstick_lock = [p \in Philosopher |-> Free]
  /\ num_meals_consumed = [p \in Philosopher |-> 0]
  /\ curr_num_meals = 0
  /\ pc = [p \in Philosopher |-> "while"]

Lock(p) == LockLeft(p) \/ LockRight(p) \/ RelockLeft(p) \/ RelockRight(p) \/ LockBack(p)

philosopher(p) ==
  \/ Lock(p)
  \/ While(p) \/ TestLeft(p) \/ TakeLeft(p) \/ TestRight(p) \/ TakeRight(p)
  \/ Eat(p) \/ Count(p) \/ Release(p) \/ GiveBack(p)

AllDone == \A p \in Philosopher : pc[p] = "done"

\* main returns from its last pthread_join.
Joined == AllDone /\ UNCHANGED vars

Next == (\E p \in Philosopher : philosopher(p)) \/ Joined

Spec == Init /\ [][Next]_vars

---------------------------------------------------------------------------
HasLeft(p)  == pc[p] \in {"lock_right", "test_right", "take_right", "eat", "count",
                          "relock_left", "relock_right", "release", "lock_back",
                          "give_back"}
HasRight(p) == pc[p] \in {"eat", "count", "relock_left", "relock_right", "release"}

\* Two neighbours never use the chopstick between them at the same time.
ChopstickExclusion ==
  \A p \in Philosopher : ~(HasRight(p) /\ HasLeft(Right(p)))

\* The loop reads curr_num_meals without its lock and eats later: everybody
\* who read the last value below the limit eats once more, and no more.
MealsBounded ==
  curr_num_meals <= MAX_NUM_MEALS + NUM_PHILOSOPHERS - 1

\* When main prints the statistics, the chopsticks are back on the table and
\* the meals of each add up to at least the number that was to be eaten.
StatisticsAddUp ==
  AllDone =>
    /\ curr_num_meals >= MAX_NUM_MEALS
    /\ FoldFunction(+, 0, num_meals_consumed) = curr_num_meals
    /\ \A p \in Philosopher : chopstick[p] = 1 /\ chopstick_lock[p] = Free

\* A philosopher that has eaten puts both chopsticks back: the two mutexes it
\* takes together for that are never withheld in a circle.
ChopsticksReturned ==
  \A p \in Philosopher : (pc[p] = "relock_left") ~> (pc[p] = "while")
=============================================================================
