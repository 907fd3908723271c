----------------------------- MODULE BarrierSem -----------------------------
(***************************************************************************)
(* barrier_synchronization_with_semaphores.c: a counter protected by one   *)
(* semaphore; the last thread to arrive posts a second one once for every  *)
(* thread that waits.                                                      *)
(***************************************************************************)
EXTENDS ThreadParameters

num_threads == Cardinality(Thread)

VARIABLES
  counter_sem, barrier_sem, counter,
  i,      \* my_thread: iterations finished
  posts,  \* barrier_sync: how often the last thread has posted barrier_sem
  pc

vars == <<counter_sem, barrier_sem, counter, i, posts, pc>>

TypeOK ==
  /\ counter_sem \in {0, 1}
  /\ barrier_sem \in Nat
  /\ counter \in 0 .. num_threads - 1
  /\ i \in [Thread -> 0 .. num_iterations]
  /\ posts \in [Thread -> 0 .. num_threads - 1]
  /\ pc \in [Thread -> {"work", "enter", "count", "post", "wait"}]

Init ==
  /\ counter_sem = 1
  /\ barrier_sem = 0
  /\ counter = 0
  /\ i = [t \in Thread |-> 0]
  /\ posts = [t \in Thread |-> 0]
  /\ pc = [t \in Thread |-> "work"]

---------------------------------------------------------------------------
Goto(t, from, to) == pc[t] = from /\ pc' = [pc EXCEPT ![t] = to]

\* The end of the work of an iteration.
Call(t) ==
  /\ i[t] < num_iterations
  /\ Goto(t, "work", "enter")
  /\ UNCHANGED <<counter_sem, barrier_sem, counter, i, posts>>

Enter(t) ==
  /\ counter_sem > 0
  /\ Goto(t, "enter", "count")
  /\ counter_sem' = counter_sem - 1
  /\ UNCHANGED <<barrier_sem, counter, i, posts>>

Count_early(t) ==             \* mutant: counter == num_threads - 2
  /\ \/ counter = num_threads - 2 /\ counter' = 0 /\ Goto(t, "count", "post")
     \/ /\ counter # num_threads - 2
        /\ counter' = counter + 1
        /\ Goto(t, "count", "wait")
  /\ counter_sem' = counter_sem + 1
  /\ posts' = [posts EXCEPT ![t] = 0]
  /\ UNCHANGED <<barrier_sem, i>>

\* The test and update of the counter, up to the sem_post that ends them.
Count(t) ==
  /\ \/ counter = num_threads - 1 /\ counter' = 0 /\ Goto(t, "count", "post")
     \/ /\ counter # num_threads - 1
        /\ counter' = counter + 1
        /\ Goto(t, "count", "wait")
  /\ counter_sem' = counter_sem + 1
  /\ posts' = [posts EXCEPT ![t] = 0]
  /\ UNCHANGED <<barrier_sem, i>>

Post_oneShort(t) ==           \* mutant: i < num_threads - 2
  /\ \/ /\ posts[t] + 1 < num_threads - 1
        /\ Goto(t, "post", "post")
        /\ barrier_sem' = barrier_sem + 1
        /\ posts' = [posts EXCEPT ![t] = @ + 1]
        /\ UNCHANGED i
     \/ /\ posts[t] + 1 >= num_threads - 1
        /\ Goto(t, "post", "work")
        /\ i' = [i EXCEPT ![t] = @ + 1]
        /\ UNCHANGED <<barrier_sem, posts>>
  /\ UNCHANGED <<counter_sem, counter>>

\* A turn of the loop that wakes the others, or its end and the return.
Post(t) ==
  /\ \/ /\ posts[t] < num_threads - 1
        /\ Goto(t, "post", "post")
        /\ barrier_sem' = barrier_sem + 1
        /\ posts' = [posts EXCEPT ![t] = @ + 1]
        /\ UNCHANGED i
     \/ /\ posts[t] = num_threads - 1
        /\ Goto(t, "post", "work")
        /\ i' = [i EXCEPT ![t] = @ + 1]
        /\ UNCHANGED <<barrier_sem, posts>>
  /\ UNCHANGED <<counter_sem, counter>>

Wait(t) ==
  /\ barrier_sem > 0
  /\ Goto(t, "wait", "work")
  /\ barrier_sem' = barrier_sem - 1
  /\ i' = [i EXCEPT ![t] = @ + 1]
  /\ UNCHANGED <<counter_sem, counter, posts>>

AllDone == \A t \in Thread : pc[t] = "work" /\ i[t] = num_iterations

\* main returns from its last pthread_join.
Joined == AllDone /\ UNCHANGED vars

my_thread(t) == Call(t) \/ Enter(t) \/ Count(t) \/ Post(t) \/ Wait(t)

Next == (\E t \in Thread : my_thread(t)) \/ Joined

Spec == Init /\ [][Next]_vars

---------------------------------------------------------------------------
\* A thread is in barrier_sync unless it works.
CallsMade == [t \in Thread |-> IF pc[t] = "work" THEN i[t] ELSE i[t] + 1]

Abstract == INSTANCE Barrier WITH
              Iterations <- num_iterations, called <- CallsMade, returned <- i

\* "Wait here for all threads to catch up before starting the next iteration."
ImplementsBarrier == Abstract!Spec

\* Every thread gets through all its barriers and main can join it.
AllReturn == <>AllDone
=============================================================================
