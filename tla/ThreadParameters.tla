-------------------------- MODULE ThreadParameters --------------------------
(***************************************************************************)
(* The sizes the thread programs are compiled with or given on the command *)
(* line, and what the threads library may do beyond what it is asked.      *)
(***************************************************************************)
EXTENDS Naturals, FiniteSets

CONSTANTS
  NUM_PHILOSOPHERS, MAX_NUM_MEALS,   \* dining_philosophers.c
  QUEUE_SIZE, NUM_ITEMS,             \* producer_consumer.c
  Thread, num_iterations,            \* the barriers: num_threads threads
  Nobody,                            \* the holder of a free mutex
  MaxSpurious                        \* how many waits end without a wakeup

ASSUME DiningAssumption ==
  /\ NUM_PHILOSOPHERS \in Nat \ {0, 1}
  /\ MAX_NUM_MEALS \in Nat

ASSUME QueueAssumption ==
  /\ QUEUE_SIZE \in Nat \ {0}
  /\ NUM_ITEMS \in Nat

ASSUME BarrierAssumption ==
  /\ IsFiniteSet(Thread) /\ Thread # {}
  /\ num_iterations \in Nat

ASSUME LibraryAssumption ==
  /\ Nobody \notin Thread
  /\ MaxSpurious \in Nat
=============================================================================
