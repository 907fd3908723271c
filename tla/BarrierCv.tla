------------------------------ MODULE BarrierCv ------------------------------
(***************************************************************************)
(* barrier_synchronization_with_condition_variables.c: a counter under a   *)
(* mutex; the last thread to arrive broadcasts a condition.  The loop      *)
(* around pthread_cond_wait tests its return value, which is 0 for every   *)
(* wakeup, so it ends with the first one, a spurious one included.  (So    *)
(* does the wait of 02-barrier_cv.c, which is in no loop.)                 *)
(***************************************************************************)
EXTENDS ThreadParameters

num_threads == Cardinality(Thread)

VARIABLES
  mutex,     \* who holds it, or Nobody
  counter,
  i,         \* my_thread: iterations finished
  spurious,  \* spurious wakeups so far
  pc

vars == <<mutex, counter, i, spurious, pc>>

TypeOK ==
  /\ mutex \in Thread \union {Nobody}
  /\ counter \in 0 .. num_threads - 1
  /\ i \in [Thread -> 0 .. num_iterations]
  /\ spurious \in 0 .. MaxSpurious
  /\ pc \in [Thread -> {"work", "enter", "count", "wait", "woken", "leave"}]

Init ==
  /\ mutex = Nobody
  /\ counter = 0
  /\ i = [t \in Thread |-> 0]
  /\ spurious = 0
  /\ pc = [t \in Thread |-> "work"]

---------------------------------------------------------------------------
Goto(t, from, to) == pc[t] = from /\ pc' = [pc EXCEPT ![t] = to]

\* The end of the work of an iteration.
Call(t) ==
  /\ i[t] < num_iterations
  /\ Goto(t, "work", "enter")
  /\ UNCHANGED <<mutex, counter, i, spurious>>

Enter(t) ==
  /\ mutex = Nobody /\ mutex' = t
  /\ Goto(t, "enter", "count")
  /\ UNCHANGED <<counter, i, spurious>>

LastArrival_early(t) ==       \* mutant: counter >= num_threads - 1
  /\ pc[t] = "count" /\ counter + 1 >= num_threads - 1
  /\ counter' = 0
  /\ pc' = [u \in Thread |-> IF u = t THEN "leave"
                             ELSE IF pc[u] = "wait" THEN "woken" ELSE pc[u]]
  /\ UNCHANGED <<mutex, i, spurious>>

LastArrival_signal(t) ==      \* mutant: pthread_cond_signal for the broadcast
  /\ pc[t] = "count" /\ counter + 1 = num_threads
  /\ counter' = 0
  /\ \/ /\ \A u \in Thread : pc[u] # "wait"
        /\ pc' = [pc EXCEPT ![t] = "leave"]
     \/ \E u \in Thread : /\ pc[u] = "wait"
                          /\ pc' = [pc EXCEPT ![t] = "leave", ![u] = "woken"]
  /\ UNCHANGED <<mutex, i, spurious>>

\* counter++ reaches num_threads: reset it and wake everybody who waits.
LastArrival(t) ==
  /\ pc[t] = "count" /\ counter + 1 = num_threads
  /\ counter' = 0
  /\ pc' = [u \in Thread |-> IF u = t THEN "leave"
                             ELSE IF pc[u] = "wait" THEN "woken" ELSE pc[u]]
  /\ UNCHANGED <<mutex, i, spurious>>

\* counter++ does not: pthread_cond_wait releases the mutex and blocks.
EarlyArrival(t) ==
  /\ counter + 1 # num_threads
  /\ Goto(t, "count", "wait")
  /\ counter' = counter + 1
  /\ mutex'   = Nobody
  /\ UNCHANGED <<i, spurious>>

SpuriousWakeup(t) ==
  /\ spurious < MaxSpurious
  /\ Goto(t, "wait", "woken")
  /\ spurious' = spurious + 1
  /\ UNCHANGED <<mutex, counter, i>>

\* pthread_cond_wait locks the mutex again and returns 0.
Relock(t) ==
  /\ mutex = Nobody /\ mutex' = t
  /\ Goto(t, "woken", "leave")
  /\ UNCHANGED <<counter, i, spurious>>

Leave(t) ==
  /\ Goto(t, "leave", "work")
  /\ mutex' = Nobody
  /\ i' = [i EXCEPT ![t] = @ + 1]
  /\ UNCHANGED <<counter, spurious>>

AllDone == \A t \in Thread : pc[t] = "work" /\ i[t] = num_iterations

\* After spurious wakeups the arrivals need not add up to the last barrier:
\* those who wait there wait for ever.
OutOfStep ==
  /\ spurious > 0
  /\ \A t \in Thread : pc[t] = "wait" \/ (pc[t] = "work" /\ i[t] = num_iterations)

\* main returns from its last pthread_join, or does not.
Joined == (AllDone \/ OutOfStep) /\ UNCHANGED vars

my_thread(t) ==
  Call(t) \/ Enter(t) \/ LastArrival(t) \/ EarlyArrival(t) \/ Relock(t) \/ Leave(t)

Next == (\E t \in Thread : my_thread(t) \/ SpuriousWakeup(t)) \/ Joined

Spec == Init /\ [][Next]_vars

---------------------------------------------------------------------------
\* A thread is in barrier_sync unless it works.
CallsMade == [t \in Thread |-> IF pc[t] = "work" THEN i[t] ELSE i[t] + 1]

Abstract == INSTANCE Barrier WITH
              Iterations <- num_iterations, called <- CallsMade, returned <- i

\* "Wait here for all threads to catch up before starting the next iteration."
ImplementsBarrier == Abstract!Spec

\* The same as long as every wakeup comes from the broadcast: until the first
\* spurious one, each step of the threads is a step of the barrier.
BarrierUntilSpurious ==
  /\ Abstract!Init
  /\ [][spurious' = 0 => [Abstract!Next]_(Abstract!vars)]_vars

\* Every thread gets through all its barriers and main can join it, unless a
\* spurious wakeup has put the threads out of step: then one may wait for an
\* arrival that never comes.
AllReturn == <>(AllDone \/ spurious > 0)
=============================================================================
