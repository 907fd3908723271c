----------------------------- MODULE DotProduct -----------------------------
(***************************************************************************)
(* Threads that add something up together.  "v1" and "v2" are the vector   *)
(* dot products: each thread takes a chunk and stores its partial sum in   *)
(* an array (v1) or adds it to a shared sum under a mutex (v2).  "mutex"   *)
(* and "nomutex" are the counter programs, in which one thread counts down *)
(* while main counts up.                                                   *)
(***************************************************************************)
EXTENDS SyncParameters, Functions

VARIABLES
  version, num_elements,
  sum,                \* the shared sum, or the shared counter
  partial_sum,        \* v1: the array; v2: each thread's own
  mutex_for_sum,      \* the threads that hold it
  register,           \* what a thread read of sum and has not stored yet
  i, pc, main_pc, result

vars == <<version, num_elements, sum, partial_sum, mutex_for_sum, register, i, pc,
          main_pc, result>>

Tid == 0 .. Worker_thread - 1

\* The products of the elements of the two vectors, and the sum of some of them.
Product == [k \in 0 .. max_elements - 1 |-> vector_a[k] * vector_b[k]]
SumOver(S) == SumFunctionOnSet(Product, S)

\* The counters have two threads.
Version == {"v1", "v2"} \cup (IF Worker_thread = 1 THEN {} ELSE {"mutex", "nomutex"})

Counting == version \in {"mutex", "nomutex"}

TypeOK ==
  /\ version \in Version /\ num_elements \in 0 .. max_elements
  /\ sum \in Int /\ result \in Int
  /\ partial_sum \in [Tid -> Int] /\ register \in [Tid -> Int]
  /\ mutex_for_sum \subseteq Tid
  /\ i \in [Tid -> Nat]
  /\ pc \in [Tid -> {"compute", "lock", "read", "write", "unlock", "end"}]
  /\ main_pc \in {"join", "end"}

compute_gold == SumOver(0 .. num_elements - 1)

\* floor((float) num_elements / (float) num_threads), which is the quotient of
\* integers as long as float holds every size (below 2^24), and the elements a
\* thread sums: the last one takes the rest.
chunk_size == num_elements \div Worker_thread
offset(t)  == t * chunk_size

range_short(t) ==        \* mutant: the last thread takes no more than a chunk
  offset(t) .. offset(t) + chunk_size - 1

range(t) ==
  IF t < Worker_thread - 1 THEN offset(t) .. offset(t) + chunk_size - 1
                           ELSE offset(t) .. num_elements - 1

Init ==
  /\ version \in Version
  /\ num_elements \in 0 .. max_elements
  /\ sum = 0 /\ result = 0 /\ mutex_for_sum = {}
  /\ partial_sum = [t \in Tid |-> 0]
  /\ register = [t \in Tid |-> 0]
  /\ i = [t \in Tid |-> 0]
  /\ pc = [t \in Tid |-> IF version \in {"v1", "v2"} THEN "compute" ELSE "lock"]
  /\ main_pc = "join"
---------------------------------------------------------------------------
Goto(t, from, to) == pc[t] = from /\ pc' = [pc EXCEPT ![t] = to]
main_state == <<version, num_elements, main_pc, result>>

Compute_v1(t) ==
  /\ version = "v1" /\ Goto(t, "compute", "end")
  /\ partial_sum' = [partial_sum EXCEPT ![t] = SumOver(range(t))]
  /\ UNCHANGED <<sum, mutex_for_sum, register, i, main_state>>

Compute_v2(t) ==
  /\ version = "v2" /\ Goto(t, "compute", "lock")
  /\ partial_sum' = [partial_sum EXCEPT ![t] = SumOver(range(t))]
  /\ UNCHANGED <<sum, mutex_for_sum, register, i, main_state>>

Lock(t) ==
  /\ Goto(t, "lock", "read")
  /\ version # "nomutex" => mutex_for_sum = {}
  /\ mutex_for_sum' = IF version = "nomutex" THEN {} ELSE {t}
  /\ UNCHANGED <<sum, partial_sum, register, i, main_state>>

Read(t) ==
  /\ Goto(t, "read", "write")
  /\ register' = [register EXCEPT ![t] = sum]
  /\ UNCHANGED <<sum, partial_sum, mutex_for_sum, i, main_state>>

\* sum += partial_sum; val++ of main (thread 0) and val-- of the other thread.
Step(t) == CASE ~Counting -> partial_sum[t]
             [] Counting /\ t = 0 -> 1
             [] OTHER -> -1

Write(t) ==
  /\ Goto(t, "write", "unlock")
  /\ sum' = register[t] + Step(t)
  /\ UNCHANGED <<partial_sum, mutex_for_sum, register, i, main_state>>

\* The counters go round OPS times, the dot product adds once.
Unlock(t) ==
  /\ Goto(t, "unlock", IF Counting /\ i[t] + 1 < num_elements THEN "lock" ELSE "end")
  /\ i' = [i EXCEPT ![t] = @ + 1]
  /\ mutex_for_sum' = {}
  /\ UNCHANGED <<sum, partial_sum, register, main_state>>

dot_product_v1(t) == Compute_v1(t)
dot_product(t)    == Compute_v2(t) \/ Lock(t) \/ Read(t) \/ Write(t) \/ Unlock(t)
thread_nomutex(t) == t \in {0, 1} /\ (Lock(t) \/ Read(t) \/ Write(t) \/ Unlock(t))
thread_mutex(t)   == t \in {0, 1} /\ (Lock(t) \/ Read(t) \/ Write(t) \/ Unlock(t))

thread(t) ==
  CASE version = "v1"      -> dot_product_v1(t)
    [] version = "v2"      -> dot_product(t)
    [] version = "mutex"   -> thread_mutex(t)
    [] version = "nomutex" -> thread_nomutex(t)

Ended == \A t \in Tid : pc[t] = "end" \/ (Counting /\ t \notin {0, 1})

\* v1 adds the array up after the joins, v2 returns the shared sum.
Join ==
  /\ main_pc = "join" /\ Ended /\ main_pc' = "end"
  /\ result' = IF version = "v1" THEN SumFunction(partial_sum) ELSE sum
  /\ UNCHANGED <<version, num_elements, sum, partial_sum, mutex_for_sum, register, i, pc>>

Next ==
  \/ \E t \in Tid : thread(t)
  \/ Join
  \/ main_pc = "end" /\ UNCHANGED vars

Spec == Init /\ [][Next]_vars
---------------------------------------------------------------------------
\* Whatever the number of elements (none, fewer than threads, no multiple of
\* it), the parallel sum is the sequential one; the counters come back to where
\* they started if a mutex protects them.
SumIsReference ==
  main_pc = "end" =>
    /\ ~Counting => result = compute_gold
    /\ version = "mutex" => result = 0
=============================================================================
