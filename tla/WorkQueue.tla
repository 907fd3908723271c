------------------------------ MODULE WorkQueue ------------------------------
(***************************************************************************)
(* work_queue.c: a contractor puts work items on a queue for a crew of     *)
(* workers, waits until the queue is empty and cancels the workers one by  *)
(* one.  The workers switch cancellation off while they process an item.   *)
(***************************************************************************)
EXTENDS SyncParameters, Sequences

Worker == 0 .. NUM_THREADS - 1
Item   == 1 .. NUM_ITEMS
NULL   == 0

VARIABLES
  queue,            \* the linked list; num_items is its length
  work_available, work_queue_lock,
  held,             \* this_item of each worker
  cancel,           \* workers pthread_cancel was called for
  processed,        \* how often each item was processed (a history variable)
  i,                \* the contractor's loop counter
  contractor, pc

vars == <<queue, work_available, work_queue_lock, held, cancel, processed, i,
          contractor, pc>>

TypeOK ==
  /\ queue \in Seq(Item)
  /\ work_available \in Nat /\ work_queue_lock \in {0, 1}
  /\ held \in [Worker -> Item \cup {NULL}]
  /\ cancel \subseteq Worker
  /\ processed \in [Item -> Nat]
  /\ i \in 0 .. NUM_ITEMS + NUM_THREADS
  /\ contractor \in {"create", "add", "signal", "poll", "look", "cancel", "join",
                     "end", "crash"}
  /\ pc \in [Worker -> {"idle", "lock", "remove", "taken", "busy", "test", "ended"}]

\* The state in which the contractor has created the workers.
Init ==
  /\ queue = <<>> /\ work_available = 0 /\ work_queue_lock = 1
  /\ held = [w \in Worker |-> NULL]
  /\ cancel = {}
  /\ processed = [n \in Item |-> 0]
  /\ i = 0
  /\ contractor = "create"
  /\ pc = [w \in Worker |-> "idle"]

---------------------------------------------------------------------------
\* sem_wait and sem_post of work_queue_lock.
P_lock == work_queue_lock > 0 /\ work_queue_lock' = work_queue_lock - 1
V_lock == work_queue_lock' = work_queue_lock + 1

remove_item_tail(q) ==           \* mutant: takes the item but leaves it queued
  [item |-> IF q = <<>> THEN NULL ELSE Head(q), rest |-> q]

remove_item(q) ==
  IF q = <<>> THEN [item |-> NULL, rest |-> q]
              ELSE [item |-> Head(q), rest |-> Tail(q)]

add_item(q, n) == Append(q, n)

Goto(w, from, to) == pc[w] = from /\ pc' = [pc EXCEPT ![w] = to]

WaitWork(w) ==
  /\ Goto(w, "idle", "lock")
  /\ work_available > 0 /\ work_available' = work_available - 1
  /\ UNCHANGED <<queue, work_queue_lock, held, cancel, processed, i, contractor>>

LockQueue(w) ==
  /\ Goto(w, "lock", "remove")
  /\ P_lock
  /\ UNCHANGED <<queue, work_available, held, cancel, processed, i, contractor>>

Remove(w) ==
  /\ Goto(w, "remove", "taken")
  /\ held' = [held EXCEPT ![w] = remove_item(queue).item]
  /\ queue' = remove_item(queue).rest
  /\ V_lock
  /\ UNCHANGED <<work_available, cancel, processed, i, contractor>>

\* pthread_setcancelstate(PTHREAD_CANCEL_DISABLE) and the start of the work;
\* an item that is NULL ends the program here.
Disable(w) ==
  /\ Goto(w, "taken", "busy")
  /\ contractor' = IF held[w] = NULL THEN "crash" ELSE contractor
  /\ UNCHANGED <<queue, work_available, work_queue_lock, held, cancel, processed, i>>

Process(w) ==
  /\ Goto(w, "busy", "test")
  /\ processed' = [processed EXCEPT ![held[w]] = @ + 1]
  /\ held' = [held EXCEPT ![w] = NULL]
  /\ UNCHANGED <<queue, work_available, work_queue_lock, cancel, i, contractor>>

pthread_testcancel(w) ==
  /\ Goto(w, "test", IF w \in cancel THEN "ended" ELSE "idle")
  /\ UNCHANGED <<queue, work_available, work_queue_lock, held, cancel, processed,
                 i, contractor>>

\* printf and sem_wait before the work; sleep is one too, with cancellation off.
CancellationPoint == {"idle", "lock"}

Cancelled(w) ==
  /\ w \in cancel /\ pc[w] \in CancellationPoint
  /\ pc' = [pc EXCEPT ![w] = "ended"]
  /\ UNCHANGED <<queue, work_available, work_queue_lock, held, cancel, processed,
                 i, contractor>>

worker(w) ==
  WaitWork(w) \/ LockQueue(w) \/ Remove(w) \/ Disable(w) \/ Process(w)
  \/ pthread_testcancel(w) \/ Cancelled(w)
---------------------------------------------------------------------------
Become(from, to) == contractor = from /\ contractor' = to

LockToAdd ==
  /\ Become("create", "add")
  /\ P_lock
  /\ UNCHANGED <<queue, work_available, held, cancel, processed, i, pc>>

Add ==
  /\ Become("add", "signal")
  /\ queue' = add_item(queue, i + 1)
  /\ V_lock
  /\ UNCHANGED <<work_available, held, cancel, processed, i, pc>>

Signal ==
  /\ Become("signal", IF i + 1 = NUM_ITEMS THEN "poll" ELSE "create")
  /\ work_available' = work_available + 1
  /\ i' = i + 1
  /\ UNCHANGED <<queue, work_queue_lock, held, cancel, processed, pc>>

LockToLook ==
  /\ Become("poll", "look")
  /\ P_lock
  /\ UNCHANGED <<queue, work_available, held, cancel, processed, i, pc>>

\* The loop is left with the lock held.
Look ==
  /\ \/ queue # <<>> /\ Become("look", "poll") /\ V_lock
     \/ queue = <<>> /\ Become("look", "cancel") /\ UNCHANGED work_queue_lock
  /\ UNCHANGED <<queue, work_available, held, cancel, processed, i, pc>>

Joining == i - NUM_ITEMS         \* the second loop counts workers

pthread_cancel_none ==           \* mutant: the worker is not asked to stop
  Become("cancel", "join")
  /\ UNCHANGED <<queue, work_available, work_queue_lock, held, cancel, processed, i, pc>>

pthread_cancel ==
  /\ Become("cancel", "join")
  /\ cancel' = cancel \cup {Joining}
  /\ UNCHANGED <<queue, work_available, work_queue_lock, held, processed, i, pc>>

\* pthread_join stores through `result`, which was never given a value: the
\* store is lost, or it ends the program.
pthread_join ==
  /\ contractor = "join" /\ pc[Joining] = "ended"
  /\ \/ Become("join", IF Joining = NUM_THREADS - 1 THEN "end" ELSE "cancel")
     \/ Become("join", "crash")
  /\ i' = i + 1
  /\ UNCHANGED <<queue, work_available, work_queue_lock, held, cancel, processed, pc>>

contractor_thread ==
  LockToAdd \/ Add \/ Signal \/ LockToLook \/ Look \/ pthread_cancel \/ pthread_join

\* main joins the contractor; a crash ends everything.
Over == contractor \in {"end", "crash"}

Next ==
  \/ contractor # "crash" /\ (contractor_thread \/ \E w \in Worker : worker(w))
  \/ Over /\ UNCHANGED vars

Spec == Init /\ [][Next]_vars
---------------------------------------------------------------------------
\* An item that was put on the queue is in one place: on the queue, with one
\* worker, or processed, once; a worker never takes NULL off the queue; and when
\* the crew has gone home all the work is done.
Places(n) ==
  Cardinality({k \in DOMAIN queue : queue[k] = n})
    + Cardinality({w \in Worker : held[w] = n}) + processed[n]

NoWorkLost ==
  /\ \A n \in Item :
       Places(n) = IF n <= i \/ (n = i + 1 /\ contractor = "signal") THEN 1 ELSE 0
  /\ \A w \in Worker : pc[w] \in {"taken", "busy"} => held[w] # NULL
  /\ contractor = "end" => \A n \in Item : processed[n] = 1

\* The contractor gets all its workers to stop, although it holds the lock.
CrewGoesHome == <>Over
=============================================================================
