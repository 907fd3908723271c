---------------------------- MODULE Cancellation ----------------------------
(***************************************************************************)
(* The programs in which main cancels a thread.  What a thread does is a   *)
(* script of the calls that matter: the cancellation points, the changes   *)
(* of its cancelability, the cleanup handlers it pushes and pops and what  *)
(* it must not leave behind.  A request acts at a cancellation point, or   *)
(* anywhere while the type is asynchronous, never while it is disabled.    *)
(***************************************************************************)
EXTENDS SyncParameters, SequencesExt

Team  == 1 .. num_threads
First == 1                      \* the one thread, or the contractor
Crew  == Team \ {First}         \* the contractor's sub-contractors

VARIABLES
  version,
  at,            \* the next call of each thread; 0 before it is created
  status,        \* "none", "running", "unwinding", "cancelled", "returned"
  enabled, asynchronous, requested,     \* sets of threads
  handlers,      \* each thread's cleanup handlers, last one first
  memory,        \* what 5-cancel_cleanup.c has allocated
  counter, mutex,                       \* of cleanup_v1.c
  main_at, main_pc

vars == <<version, at, status, enabled, asynchronous, requested, handlers, memory,
          counter, mutex, main_at, main_pc>>

---------------------------------------------------------------------------
\* What each thread calls.  "back" is the end of an endless loop: the thread
\* goes on where the loop starts.
deferred == <<"printf", "disable", "printf", "sleep", "printf", "enable", "sleep",
              "printf">>
async    == <<"printf", "disable", "printf", "async", "printf", "enable", "spin">>

cleanup_early ==      \* mutant: enables cancellation before the last handler
  <<"printf", "disable", "matrix", "push_a", "enable", "rows", "printf", "push_b",
    "testcancel", "back">>

cleanup ==
  <<"printf", "disable", "matrix", "push_a", "rows", "push_b", "printf", "enable",
    "testcancel", "back">>

deferred_v1 == <<"testcancel", "back">>
deferred_v2 ==        \* iterations 0, 1000, 1500 and 2000 of 3000
  <<"disable", "sleep", "enable", "testcancel",
    "disable", "sleep", "enable",
    "testcancel",
    "disable", "sleep", "enable", "back">>
async_matrix == <<"printf", "async", "compute", "deferred", "copy", "back">>
cleanup_v1   == <<"push_v1", "lock", "cond_wait", "pop">>
contractor   == [k \in 1 .. 2 * Cardinality(Crew) |->
                   IF k % 2 = 1 THEN "printf" ELSE "create"]
                \o <<"push_v2">> \o [k \in 1 .. Cardinality(Crew) |-> "join"] \o <<"pop">>
sub_contractor == <<"testcancel", "back">>

Version == {"deferred", "async", "cleanup", "deferred_v1", "deferred_v2",
            "async_matrix", "cleanup_v1", "cleanup_v2"}

Script(t) ==
  CASE version = "deferred"     -> deferred
    [] version = "async"        -> async
    [] version = "cleanup"      -> cleanup
    [] version = "deferred_v1"  -> deferred_v1
    [] version = "deferred_v2"  -> deferred_v2
    [] version = "async_matrix" -> async_matrix
    [] version = "cleanup_v1"   -> cleanup_v1
    [] OTHER -> IF t = First THEN contractor ELSE sub_contractor

\* Where the endless loop of a script starts.
LoopStart == IF version = "cleanup" THEN 9 ELSE 1

\* The threads main creates.
Created == IF version = "cleanup_v1" THEN Team ELSE {First}

TypeOK ==
  /\ version \in Version
  /\ at \in [Team -> 1 .. 3 * num_threads + 12]
  /\ status \in [Team -> {"none", "running", "unwinding", "cancelled", "returned"}]
  /\ enabled \subseteq Team /\ asynchronous \subseteq Team /\ requested \subseteq Team
  /\ handlers \in [Team -> Seq({"push_a", "push_b", "push_v1", "push_v2"})]
  /\ memory \subseteq {"matrix", "rows"}
  /\ counter \in 0 .. num_threads /\ mutex \subseteq Team
  /\ main_at \in Team \cup {num_threads + 1} /\ main_pc \in {"cancel", "join", "end"}

Init ==
  /\ version \in Version
  /\ at = [t \in Team |-> 1]
  /\ status = [t \in Team |-> IF t \in Created THEN "running" ELSE "none"]
  /\ enabled = Team /\ asynchronous = {} /\ requested = {}
  /\ handlers = [t \in Team |-> <<>>]
  /\ memory = {} /\ counter = 0 /\ mutex = {}
  /\ main_at = First /\ main_pc = "cancel"
---------------------------------------------------------------------------
Op(t)   == Script(t)[at[t]]
Done(t) == at[t] > Len(Script(t))
Must    == {"sleep", "testcancel", "cond_wait", "join"}  \* cancellation points
May     == {"printf"}                                    \* possible ones
Pending(t) == t \in requested /\ t \in enabled

\* A thread that is asked to stop does not pass a cancellation point.
Passes(t, op) ==
  /\ status[t] = "running" /\ ~Done(t) /\ Op(t) = op
  /\ ~(op \in Must /\ Pending(t))
  /\ at' = [at EXCEPT ![t] = @ + 1]

main_state == <<version, main_at, main_pc>>
cancelability == <<enabled, asynchronous, requested>>
cleanable == <<memory, counter, mutex>>

\* Calls that change nothing here.
Plain(t) ==
  /\ \E op \in {"printf", "sleep", "testcancel", "compute", "copy"} : Passes(t, op)
  /\ UNCHANGED <<status, handlers, cancelability, cleanable, main_state>>

pthread_setcancelstate(t) ==
  /\ \/ Passes(t, "disable") /\ enabled' = enabled \ {t}
     \/ Passes(t, "enable") /\ enabled' = enabled \cup {t}
  /\ UNCHANGED <<status, asynchronous, requested, handlers, cleanable, main_state>>

pthread_setcanceltype(t) ==
  /\ \/ Passes(t, "async") /\ asynchronous' = asynchronous \cup {t}
     \/ Passes(t, "deferred") /\ asynchronous' = asynchronous \ {t}
  /\ UNCHANGED <<status, enabled, requested, handlers, cleanable, main_state>>

malloc(t) ==
  /\ \E what \in {"matrix", "rows"} : Passes(t, what) /\ memory' = memory \cup {what}
  /\ UNCHANGED <<status, handlers, cancelability, counter, mutex, main_state>>

pthread_cleanup_push(t) ==
  /\ \E h \in {"push_a", "push_b", "push_v1", "push_v2"} :
       Passes(t, h) /\ handlers' = [handlers EXCEPT ![t] = <<h>> \o @]
  /\ UNCHANGED <<status, cancelability, cleanable, main_state>>

\* pthread_cleanup_pop(0) drops the contractor's handler; pthread_cleanup_pop(1)
\* of cleanup_v1.c would run it as well, but no thread leaves the loop before it.
pthread_cleanup_pop(t) ==
  /\ Passes(t, "pop") /\ handlers' = [handlers EXCEPT ![t] = Tail(@)]
  /\ IF version = "cleanup_v1" THEN counter' = counter - 1 /\ mutex' = {}
                               ELSE UNCHANGED <<counter, mutex>>
  /\ UNCHANGED <<status, cancelability, memory, main_state>>

\* The loop back, and the loop that does nothing else.
Loop(t) ==
  /\ status[t] = "running" /\ ~Done(t) /\ Op(t) \in {"back", "spin"}
  /\ at' = [at EXCEPT ![t] = IF Op(t) = "back" THEN LoopStart ELSE @]
  /\ UNCHANGED <<status, handlers, cancelability, cleanable, main_state>>

\* pthread_mutex_lock, which is no cancellation point, and control.counter++.
LockAndCount(t) ==
  /\ mutex = {} /\ Passes(t, "lock")
  /\ mutex' = {t} /\ counter' = counter + 1
  /\ UNCHANGED <<status, handlers, cancelability, memory, main_state>>

\* pthread_cond_wait lets go of the mutex and blocks: nobody ever signals.
CondWait(t) ==
  /\ t \in mutex /\ status[t] = "running" /\ ~Done(t) /\ Op(t) = "cond_wait" /\ ~Pending(t)
  /\ mutex' = {}
  /\ UNCHANGED <<at, status, handlers, cancelability, memory, counter, main_state>>

CreateSub(t) ==
  /\ Passes(t, "create")
  /\ status' = [status EXCEPT ![at[t] \div 2 + 1] = "running"]
  /\ UNCHANGED <<handlers, cancelability, cleanable, main_state>>

JoinSub(t) ==
  /\ status[t] = "running" /\ ~Done(t) /\ Op(t) = "join"
  /\ status[at[t] - 2 * Cardinality(Crew)] \in {"cancelled", "returned"}
  /\ Passes(t, "join")
  /\ UNCHANGED <<status, handlers, cancelability, cleanable, main_state>>

Return(t) ==
  /\ status[t] = "running" /\ Done(t)
  /\ status' = [status EXCEPT ![t] = "returned"]
  /\ UNCHANGED <<at, handlers, cancelability, cleanable, main_state>>
---------------------------------------------------------------------------
\* A cancelled pthread_cond_wait takes the mutex again before the handlers run.
Cancelled(t) ==
  /\ status[t] = "running" /\ Pending(t)
  /\ \/ t \in asynchronous
     \/ ~Done(t) /\ Op(t) \in Must \cup May
  /\ status' = [status EXCEPT ![t] = "unwinding"]
  /\ IF ~Done(t) /\ Op(t) = "cond_wait"
       THEN mutex \subseteq {t} /\ mutex' = {t}
       ELSE UNCHANGED mutex
  /\ UNCHANGED <<at, handlers, cancelability, memory, counter, main_state>>

Unwinds(t, h) ==
  /\ status[t] = "unwinding" /\ handlers[t] # <<>> /\ Head(handlers[t]) = h
  /\ handlers' = [handlers EXCEPT ![t] = Tail(@)]
  /\ UNCHANGED <<at, status, enabled, asynchronous, main_state>>

cleanup_a(t) ==
  Unwinds(t, "push_a") /\ memory' = memory \ {"matrix"}
  /\ UNCHANGED <<requested, counter, mutex>>
cleanup_b(t) ==
  Unwinds(t, "push_b") /\ memory' = memory \ {"rows"}
  /\ UNCHANGED <<requested, counter, mutex>>

cleanup_handler_v1(t) ==
  Unwinds(t, "push_v1") /\ counter' = counter - 1 /\ mutex' = {}
  /\ UNCHANGED <<requested, memory>>

cleanup_handler_v2_none(t) ==     \* mutant: the sub-contractors run on
  Unwinds(t, "push_v2") /\ UNCHANGED <<requested, cleanable>>

\* cancels and detaches the sub-contractors.
cleanup_handler_v2(t) ==
  Unwinds(t, "push_v2") /\ requested' = requested \cup Crew /\ UNCHANGED cleanable

cleanup_handler(t) ==
  cleanup_a(t) \/ cleanup_b(t) \/ cleanup_handler_v1(t) \/ cleanup_handler_v2(t)

Unwound(t) ==
  /\ status[t] = "unwinding" /\ handlers[t] = <<>>
  /\ status' = [status EXCEPT ![t] = "cancelled"]
  /\ UNCHANGED <<at, handlers, cancelability, cleanable, main_state>>

my_thread(t) ==
  \/ Plain(t) \/ pthread_setcancelstate(t) \/ pthread_setcanceltype(t)
  \/ malloc(t) \/ pthread_cleanup_push(t) \/ pthread_cleanup_pop(t) \/ Loop(t)
  \/ LockAndCount(t) \/ CondWait(t) \/ CreateSub(t) \/ JoinSub(t) \/ Return(t)
  \/ Cancelled(t) \/ cleanup_handler(t) \/ Unwound(t)
---------------------------------------------------------------------------
pthread_cancel ==
  /\ main_pc = "cancel" /\ main_pc' = "join"
  /\ requested' = requested \cup {main_at}
  /\ UNCHANGED <<version, at, status, enabled, asynchronous, handlers, cleanable, main_at>>

pthread_join ==
  /\ main_pc = "join" /\ status[main_at] \in {"cancelled", "returned"}
  /\ main_pc' = IF main_at + 1 \in Created THEN "cancel" ELSE "end"
  /\ main_at' = main_at + 1
  /\ UNCHANGED <<version, at, status, cancelability, handlers, cleanable>>

main == pthread_cancel \/ pthread_join

Ended(t) == status[t] \in {"none", "cancelled", "returned"}

\* main and its threads are done; a sub-contractor that was created before the
\* handler was pushed, and never cancelled, runs on.
Next ==
  \/ main
  \/ \E t \in Team : my_thread(t)
  \/ main_pc = "end" /\ UNCHANGED vars

Spec == Init /\ [][Next]_vars
---------------------------------------------------------------------------
\* Wherever the request arrives, the handlers undo what was done: a cancelled
\* thread leaves no memory behind, the rows are freed while the matrix that
\* points to them is still there, the mutex is free when no thread is in
\* between, and the counter counts the threads that wait.
Waits(t) == at[t] >= 3 /\ version = "cleanup_v1" /\ handlers[t] # <<>>

CancelledClean ==
  /\ Ended(First) => memory = {}
  /\ \A t \in Team : status[t] = "unwinding" /\ handlers[t] # <<>> =>
       /\ Head(handlers[t]) = "push_b" => memory = {"matrix", "rows"}
       /\ Head(handlers[t]) = "push_a" => memory = {"matrix"}
       /\ Head(handlers[t]) = "push_v1" => mutex = {t}
  /\ \A t \in mutex : ~Ended(t)
  /\ counter = Cardinality({t \in Team : Waits(t)})

\* Every thread that was asked to stop stops, and main joins all it created;
\* a contractor that had pushed its handler takes its sub-contractors along.
CancelledEnd ==
  /\ <>(main_pc = "end")
  /\ [](Len(handlers[First]) > 0 /\ ~Done(First) /\ Op(First) = "join" => <>(\A t \in Team : Ended(t)))
=============================================================================
