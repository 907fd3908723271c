----------------------------- MODULE Signalling -----------------------------
(***************************************************************************)
(* Five programs in which one thread changes a value and tells the others. *)
(* "v1" and "v2" (signalling_using_condition_variables) test the value     *)
(* once, "cv" (03-simple_cv.c) in a loop, each waiter waking the next;     *)
(* "sem" (signalling_using_semaphores.c) tests it once and waits for a     *)
(* semaphore, "loop" (01-signaling_semaphore.c) does so in a loop.         *)
(***************************************************************************)
EXTENDS SyncParameters

CONSTANT Versions    \* which of the five are run

VARIABLES
  version,
  value, mutex,
  blocked,           \* threads in pthread_cond_wait that nobody woke up
  semaphore,
  wakeups,           \* spurious wakeups so far
  woken,             \* the threads they woke
  pc, signaller

vars == <<version, value, mutex, blocked, semaphore, wakeups, woken, pc, signaller>>

\* In three of the programs main is the one thread that waits.
Main   == CHOOSE w \in Waiting_thread : TRUE
Waiter == IF version \in {"v2", "cv"} THEN Waiting_thread ELSE {Main}
Free   == {}

TypeOK ==
  /\ version \in Versions /\ value \in {0, 1} /\ semaphore \in {0, 1}
  /\ mutex \subseteq Waiting_thread /\ Cardinality(mutex) <= 1
  /\ blocked \subseteq Waiting_thread /\ woken \subseteq Waiting_thread
  /\ wakeups \in 0 .. MaxSpurious
  /\ pc \in [Waiting_thread -> {"lock", "test", "blocked", "sem_wait", "relock",
                                "report", "end"}]
  /\ signaller \in {"sleep", "post", "end"}

\* The signalling thread has been created, and the waiting ones.
Init ==
  /\ version \in Versions
  /\ value = 0 /\ mutex = Free /\ blocked = {} /\ semaphore = 0
  /\ wakeups = 0 /\ woken = {}
  /\ pc = [w \in Waiting_thread |-> IF w \in Waiter THEN "lock" ELSE "end"]
  /\ signaller = "sleep"
---------------------------------------------------------------------------
Goto(w, from, to) == pc[w] = from /\ pc' = [pc EXCEPT ![w] = to]
pthread_mutex_lock(w) == mutex = Free /\ mutex' = {w}
pthread_mutex_unlock  == mutex' = Free
rest == <<version, value, wakeups, woken, signaller>>

Lock(w) ==
  /\ Goto(w, "lock", "test")
  /\ pthread_mutex_lock(w)
  /\ UNCHANGED <<blocked, semaphore, rest>>

Test_cond(w) ==
  /\ version \in {"v1", "v2", "cv"}
  /\ \/ /\ value = 0 /\ Goto(w, "test", "blocked")
        /\ blocked' = blocked \cup {w} /\ pthread_mutex_unlock
     \/ value # 0 /\ Goto(w, "test", "report") /\ UNCHANGED <<blocked, mutex>>
  /\ UNCHANGED <<semaphore, rest>>

Test_sem(w) ==
  /\ version = "sem"
  /\ \/ value = 0 /\ Goto(w, "test", "sem_wait") /\ pthread_mutex_unlock
     \/ value # 0 /\ Goto(w, "test", "relock") /\ UNCHANGED mutex
  /\ UNCHANGED <<blocked, semaphore, rest>>

Test_loop(w) ==
  /\ version = "loop"
  /\ \/ value = 0 /\ Goto(w, "test", "sem_wait") /\ pthread_mutex_unlock
     \/ value # 0 /\ Goto(w, "test", "report") /\ UNCHANGED mutex
  /\ UNCHANGED <<blocked, semaphore, rest>>

SemWait(w) ==
  /\ Goto(w, "sem_wait", IF version = "sem" THEN "relock" ELSE "lock")
  /\ semaphore > 0 /\ semaphore' = semaphore - 1
  /\ UNCHANGED <<mutex, blocked, rest>>

\* The second lock of "sem"; a main that did not have to wait still holds the
\* first, and waits here for itself.
LockAgain(w) ==
  /\ Goto(w, "relock", "report")
  /\ pthread_mutex_lock(w)
  /\ UNCHANGED <<blocked, semaphore, rest>>

\* pthread_cond_wait returns with the mutex; only "cv" tests again.
CondWaitReturns(w) ==
  /\ w \notin blocked
  /\ Goto(w, "blocked", IF version = "cv" THEN "test" ELSE "report")
  /\ pthread_mutex_lock(w)
  /\ UNCHANGED <<blocked, semaphore, rest>>

Report_silent(w) ==         \* mutant: the next thread is not woken
  /\ Goto(w, "report", "end") /\ pthread_mutex_unlock
  /\ UNCHANGED <<blocked, semaphore, rest>>

\* In "cv" each thread wakes one more before it unlocks.
Report(w) ==
  /\ Goto(w, "report", "end")
  /\ pthread_mutex_unlock
  /\ IF version = "cv" /\ blocked # {}
       THEN \E v \in blocked : blocked' = blocked \ {v}
       ELSE UNCHANGED blocked
  /\ UNCHANGED <<semaphore, rest>>

waiting_thread(w) == Lock(w) \/ Test_cond(w) \/ CondWaitReturns(w) \/ Report(w)
main_sem  == Lock(Main) \/ Test_sem(Main) \/ SemWait(Main) \/ LockAgain(Main)
             \/ Report(Main)
main_loop == Lock(Main) \/ Test_loop(Main) \/ SemWait(Main) \/ Report(Main)

waiter(w) ==
  CASE version = "sem"  -> w = Main /\ main_sem
    [] version = "loop" -> w = Main /\ main_loop
    [] OTHER            -> waiting_thread(w)

SpuriousWakeup(w) ==
  /\ w \in blocked /\ wakeups < MaxSpurious
  /\ blocked' = blocked \ {w} /\ wakeups' = wakeups + 1 /\ woken' = woken \cup {w}
  /\ UNCHANGED <<version, value, mutex, semaphore, pc, signaller>>
---------------------------------------------------------------------------
\* lock, change, tell and unlock: nothing another thread does comes in between.
SetAndSignal ==
  /\ signaller = "sleep" /\ signaller' = "end" /\ mutex = Free
  /\ value' = 1
  /\ IF blocked = {} THEN UNCHANGED blocked
                     ELSE \E w \in blocked : blocked' = blocked \ {w}
  /\ UNCHANGED <<version, mutex, semaphore, wakeups, woken, pc>>

SetAndBroadcast ==
  /\ signaller = "sleep" /\ signaller' = "end" /\ mutex = Free
  /\ value' = 1
  /\ blocked' = {}
  /\ UNCHANGED <<version, mutex, semaphore, wakeups, woken, pc>>

SetThenPost ==
  /\ signaller = "sleep" /\ signaller' = "post" /\ mutex = Free
  /\ value' = 1
  /\ UNCHANGED <<version, mutex, blocked, semaphore, wakeups, woken, pc>>

SemPost ==
  /\ signaller = "post" /\ signaller' = "end"
  /\ semaphore' = semaphore + 1
  /\ UNCHANGED <<version, value, mutex, blocked, wakeups, woken, pc>>

my_thread        == SetAndSignal      \* v1, and signal_thread of 03-simple_cv.c
signalling_thread == SetAndBroadcast  \* v2
sem_thread       == SetThenPost \/ SemPost

signal_thread ==
  CASE version \in {"v1", "cv"} -> my_thread
    [] version = "v2"           -> signalling_thread
    [] OTHER                    -> sem_thread
---------------------------------------------------------------------------
Joined == signaller = "end" /\ \A w \in Waiter : pc[w] = "end"

\* main waits for the mutex it holds.
SelfLocked == signaller = "end" /\ pc[Main] = "relock" /\ mutex = {Main}

Next ==
  \/ signal_thread
  \/ \E w \in Waiter : waiter(w) \/ SpuriousWakeup(w)
  \/ (Joined \/ SelfLocked) /\ UNCHANGED vars

Spec == Init /\ [][Next]_vars
---------------------------------------------------------------------------
\* No thread passes its wait before the value has changed, unless a spurious
\* wakeup let it through a test that is not repeated.
NoFalseStart ==
  \A w \in Waiter :
    pc[w] = "report" => value = 1 \/ (w \in woken /\ version \in {"v1", "v2"})

\* The change reaches every waiting thread, whether it waits already or has not
\* tested the value yet, except a main that holds the mutex it asks for; and
\* nothing else lets a thread through.
SignalsArrive == []NoFalseStart /\ <>(Joined \/ SelfLocked)

\* "Test the predicate [...] and wait for a condition to become true if
\* neccessary": if it is true already, main goes on.
MainGoesOn == <>Joined
=============================================================================
