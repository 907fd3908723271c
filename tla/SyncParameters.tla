--------------------------- MODULE SyncParameters ---------------------------
(***************************************************************************)
(* The sizes of the synchronization programs, and what the threads library *)
(* may do beyond what it is asked.                                         *)
(***************************************************************************)
EXTENDS Integers, FiniteSets

CONSTANTS
  NUM_THREADS, NUM_ITEMS,      \* work_queue.c
  Customer, num_chairs,        \* sleeping_barber.c, 02-sleeping_barber.c
  NUM_PRODUCERS, PIPE_BUF,     \* 04-pc_bad.c, 05-pc_cv.c: units a pipe holds
  Waiting_thread,              \* signalling_using_*.c, 03-simple_cv.c
  Worker_thread, max_elements, \* vector_dot_product_v*.c and the counters
  vector_a, vector_b,          \* the elements, as integers
  num_threads,                 \* the creation and cancellation programs
  MaxSpurious                  \* how many waits end without a wakeup

ASSUME CrewAssumption == NUM_THREADS \in Nat \ {0} /\ NUM_ITEMS \in Nat \ {0}

ASSUME ShopAssumption ==
  IsFiniteSet(Customer) /\ Customer # {} /\ num_chairs \in Nat \ {0}

ASSUME PipeAssumption == NUM_PRODUCERS \in Nat \ {0} /\ PIPE_BUF \in Nat \ {0}

ASSUME SignalAssumption == IsFiniteSet(Waiting_thread) /\ Waiting_thread # {}

ASSUME VectorAssumption ==
  /\ Worker_thread \in Nat \ {0} /\ max_elements \in Nat
  /\ vector_a \in [0 .. max_elements - 1 -> Int]
  /\ vector_b \in [0 .. max_elements - 1 -> Int]

ASSUME TeamAssumption == num_threads \in Nat \ {0, 1, 2}

ASSUME SpuriousAssumption == MaxSpurious \in Nat
=============================================================================
