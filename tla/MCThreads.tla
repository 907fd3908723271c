------------------------------ MODULE MCThreads ------------------------------
(***************************************************************************)
(* The thread programs, checked side by side: a behaviour runs one of the  *)
(* programs named in Programs, the variables of the others stay as Init    *)
(* leaves them.                                                            *)
(***************************************************************************)
EXTENDS ThreadParameters

CONSTANTS
  Programs,       \* which programs this run checks
  SemIterations,  \* num_iterations of the barrier with semaphores
  CvSpurious      \* spurious wakeups of the barrier with a condition variable

ASSUME RunAssumption == SemIterations \in Nat /\ CvSpurious \in Nat

VARIABLES
  program,
  chopstick, chopstick_lock, num_meals_consumed, curr_num_meals, diners,
  buffer, head, tail, full, empty, lock, turn, item, queue_spurious, sides,
  counter_sem, barrier_sem, sem_counter, sem_i, posts, sem_pc,
  mutex, cv_counter, cv_i, cv_spurious, cv_pc

Dining == INSTANCE DiningPhilosophers WITH pc <- diners
Queue  == INSTANCE ProducerConsumer WITH
            i <- turn, spurious <- queue_spurious, pc <- sides
Sem    == INSTANCE BarrierSem WITH
            num_iterations <- SemIterations,
            counter <- sem_counter, i <- sem_i, pc <- sem_pc
Cv     == INSTANCE BarrierCv WITH
            MaxSpurious <- CvSpurious, counter <- cv_counter, i <- cv_i,
            spurious <- cv_spurious, pc <- cv_pc

dining == <<chopstick, chopstick_lock, num_meals_consumed, curr_num_meals, diners>>
queue  == <<buffer, head, tail, full, empty, lock, turn, item, queue_spurious, sides>>
sem    == <<counter_sem, barrier_sem, sem_counter, sem_i, posts, sem_pc>>
cv     == <<mutex, cv_counter, cv_i, cv_spurious, cv_pc>>
vars   == <<program, dining, queue, sem, cv>>

Init ==
  /\ program \in Programs
  /\ Dining!Init /\ Queue!Init /\ Sem!Init /\ Cv!Init

Runs(p) ==
  /\ program = p /\ UNCHANGED program
  /\ p # "dining" => UNCHANGED dining
  /\ p # "queue"  => UNCHANGED queue
  /\ p # "sem"    => UNCHANGED sem
  /\ p # "cv"     => UNCHANGED cv

Next ==
  \/ Dining!Next /\ Runs("dining")
  \/ Queue!Next /\ Runs("queue")
  \/ Sem!Next /\ Runs("sem")
  \/ Cv!Next /\ Runs("cv")

\* The scheduler runs every thread.  A philosopher that keeps asking for a
\* mutex its neighbours keep releasing gets it in the end: they sleep for two
\* seconds or more between two attempts.
Fairness ==
  /\ \A p \in Dining!Philosopher :
       /\ WF_vars(Dining!philosopher(p) /\ Runs("dining"))
       /\ SF_vars(Dining!Lock(p) /\ Runs("dining"))
  /\ WF_vars(Queue!producer /\ Runs("queue"))
  /\ WF_vars(Queue!consumer /\ Runs("queue"))
  /\ \A t \in Thread : WF_vars(Sem!my_thread(t) /\ Runs("sem"))
  /\ \A t \in Thread : WF_vars(Cv!my_thread(t) /\ Runs("cv"))

Spec     == Init /\ [][Next]_vars
FairSpec == Spec /\ Fairness

---------------------------------------------------------------------------
\* The variables of every program keep their types.
ThreadTypes == Dining!TypeOK /\ Queue!TypeOK /\ Sem!TypeOK /\ Cv!TypeOK

\* The properties of the modules, under the names a configuration can use.
ChopstickExclusion == Dining!ChopstickExclusion
MealsBounded       == Dining!MealsBounded
StatisticsAddUp    == Dining!StatisticsAddUp
ChopsticksReturned == Dining!ChopsticksReturned
ImplementsFifo     == Queue!ImplementsFifo
AllDelivered       == (program = "queue") => Queue!AllDelivered
SemIsBarrier       == Sem!ImplementsBarrier
SemAllReturn       == (program = "sem") => Sem!AllReturn
CvIsBarrier        == Cv!ImplementsBarrier
CvUntilSpurious    == Cv!BarrierUntilSpurious
CvAllReturn        == (program = "cv") => Cv!AllReturn
=============================================================================
