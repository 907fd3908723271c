----------------------------- MODULE ThreadLives -----------------------------
(***************************************************************************)
(* Programs that create threads, hand them arguments and join or detach    *)
(* them.  Each thread runs a script of the calls that matter: to create,   *)
(* join and detach a thread, to allocate, use and free an argument, to add *)
(* to a shared variable, to work.                                          *)
(***************************************************************************)
EXTENDS SyncParameters, SequencesExt

main_thread == 0
Threads == 0 .. num_threads

VARIABLES
  version,
  at,            \* the next call of each thread
  status,        \* "none", "running", "ended" (not joined yet), "gone"
  detached,
  args,          \* the threads whose argument is allocated
  wild,          \* threads that used an argument that was not
  val,           \* a of simple_thread.c, val of custom_thread.c
  reported       \* what print_attachment says of each thread

vars == <<version, at, status, detached, args, wild, val, reported>>

Do(what, who) == [op |-> what, of |-> who]
Each(n, op(_)) == [k \in 1 .. n |-> op(k)]

\* simple_thread.c: main joins thread 1, which joins thread 2.
func_a == <<Do("create", 2), Do("add", 5), Do("join", 2)>>
func_b == <<Do("work", 2)>>
simple_main == <<Do("create", 1), Do("join", 1), Do("print", 0)>>

\* multiple_threads.c: an argument for each thread, which the thread frees.
my_func(t) == <<Do("use", t), Do("work", t), Do("free", t)>>
create_all == FlattenSeq(Each(num_threads, LAMBDA k : <<Do("alloc", k), Do("create", k)>>))
multiple_main_early ==  \* mutant: main frees the arguments instead of joining
  create_all \o Each(num_threads, LAMBDA k : Do("free", k))
multiple_main == create_all \o Each(num_threads, LAMBDA k : Do("join", k))

\* 1-simple.c and custom_thread.c: the argument, the stack, is main's.
foo == <<Do("use", 1)>>
foo_main == <<Do("alloc", 1), Do("create", 1), Do("join", 1), Do("free", 1)>>
threadfunc == <<Do("use", 1), Do("add", 1)>>
clone_main == <<Do("alloc", 1), Do("create", 1), Do("join", 1), Do("free", 1),
                Do("print", 0)>>

\* 2-detach.c: 1 is joinable, 2 is detached by main and 3 from the start.
thread == <<Do("work", 1)>>
detach_main ==
  <<Do("create", 1), Do("report", 1), Do("create", 2), Do("detach", 2),
    Do("report", 2), Do("create_detached", 3), Do("report", 3)>>

\* alarm_thread.c: the end of the input ends the program and the alarms.  Each
\* line makes an alarm, and a thread if it can be parsed; an empty one is skipped.
alarm_thread(t) == <<Do("detach", t), Do("work", t), Do("use", t), Do("free", t)>>
alarm_main == create_all

Version == {"simple", "multiple", "foo", "clone", "detach", "alarm"}

Script(t) ==
  CASE version = "simple"   -> (IF t = 0 THEN simple_main ELSE IF t = 1 THEN func_a ELSE func_b)
    [] version = "multiple" -> (IF t = 0 THEN multiple_main ELSE my_func(t))
    [] version = "foo"      -> (IF t = 0 THEN foo_main ELSE foo)
    [] version = "clone"    -> (IF t = 0 THEN clone_main ELSE threadfunc)
    [] version = "detach"   -> (IF t = 0 THEN detach_main ELSE thread)
    [] OTHER                -> (IF t = 0 THEN alarm_main ELSE alarm_thread(t))

TypeOK ==
  /\ version \in Version
  /\ at \in [Threads -> 1 .. 3 * num_threads + 8]
  /\ status \in [Threads -> {"none", "running", "ended", "gone"}]
  /\ detached \subseteq Threads /\ args \subseteq Threads /\ wild \subseteq Threads
  /\ val \in Nat
  /\ reported \in [Threads -> {"", "JOINABLE", "DETACHED", "error"}]

Init ==
  /\ version \in Version
  /\ at = [t \in Threads |-> 1]
  /\ status = [t \in Threads |-> IF t = main_thread THEN "running" ELSE "none"]
  /\ detached = {} /\ args = {} /\ wild = {} /\ val = 10
  /\ reported = [t \in Threads |-> ""]
---------------------------------------------------------------------------
Running(t) == status[t] = "running" /\ status[main_thread] = "running"
Next_op(t) == Script(t)[at[t]]
Done(t)    == at[t] > Len(Script(t))

Step(t, op) ==
  /\ Running(t) /\ ~Done(t) /\ Next_op(t).op = op
  /\ at' = [at EXCEPT ![t] = @ + 1]
  /\ UNCHANGED version
Of(t) == Next_op(t).of

pthread_create(t) ==
  /\ \E op \in {"create", "create_detached"} :
       /\ Step(t, op)
       /\ detached' = IF op = "create" THEN detached ELSE detached \cup {Of(t)}
  /\ status' = [status EXCEPT ![Of(t)] = "running"]
  /\ UNCHANGED <<args, wild, val, reported>>

\* A line that alarm_thread.c cannot parse: its alarm is freed, the loop goes on.
BadInput(t) ==
  /\ version = "alarm" /\ Step(t, "create")
  /\ args' = args \ {Of(t)}
  /\ UNCHANGED <<status, detached, wild, val, reported>>

pthread_join(t) ==
  /\ Step(t, "join") /\ status[Of(t)] = "ended"
  /\ status' = [status EXCEPT ![Of(t)] = "gone"]
  /\ UNCHANGED <<detached, args, wild, val, reported>>

pthread_detach(t) ==
  /\ Step(t, "detach")
  /\ detached' = detached \cup {Of(t)}
  /\ status' = [status EXCEPT ![Of(t)] = IF @ = "ended" THEN "gone" ELSE @]
  /\ UNCHANGED <<args, wild, val, reported>>

\* pthread_join refuses a detached thread that runs (EINVAL); one that has ended
\* already is unknown to it (ESRCH).
print_attachment(t) ==
  /\ Step(t, "report")
  /\ IF Of(t) \in detached
       THEN /\ reported' = [reported EXCEPT ![Of(t)] =
                              IF status[Of(t)] = "running" THEN "DETACHED" ELSE "error"]
            /\ UNCHANGED status
       ELSE /\ status[Of(t)] = "ended"
            /\ status' = [status EXCEPT ![Of(t)] = "gone"]
            /\ reported' = [reported EXCEPT ![Of(t)] = "JOINABLE"]
  /\ UNCHANGED <<detached, args, wild, val>>

Alloc(t) ==
  /\ Step(t, "alloc") /\ args' = args \cup {Of(t)}
  /\ UNCHANGED <<status, detached, wild, val, reported>>

Use(t) ==
  /\ Step(t, "use") /\ wild' = IF Of(t) \in args THEN wild ELSE wild \cup {t}
  /\ UNCHANGED <<status, detached, args, val, reported>>

Free(t) ==
  /\ Step(t, "free")
  /\ args' = args \ {Of(t)} /\ wild' = IF Of(t) \in args THEN wild ELSE wild \cup {t}
  /\ UNCHANGED <<status, detached, val, reported>>

Add(t) ==
  /\ Step(t, "add") /\ val' = val + Of(t)
  /\ UNCHANGED <<status, detached, args, wild, reported>>

Work(t) ==
  /\ Step(t, "work") \/ Step(t, "print")
  /\ UNCHANGED <<status, detached, args, wild, val, reported>>

Exit(t) ==
  /\ Running(t) /\ Done(t)
  /\ status' = [status EXCEPT ![t] = IF t \in detached THEN "gone" ELSE "ended"]
  /\ UNCHANGED <<version, at, detached, args, wild, val, reported>>

run(t) ==
  pthread_create(t) \/ pthread_join(t) \/ pthread_detach(t) \/ print_attachment(t)
  \/ BadInput(t) \/ Alloc(t) \/ Use(t) \/ Free(t) \/ Add(t) \/ Work(t) \/ Exit(t)

\* When main returns the process ends, with the threads that still run.
Next ==
  \/ \E t \in Threads : run(t)
  \/ status[main_thread] = "ended" /\ UNCHANGED vars

Spec == Init /\ [][Next]_vars
---------------------------------------------------------------------------
\* No thread touches an argument before it is allocated or after it is freed;
\* what main prints has all that its threads added; and when main has ended,
\* but for the alarms, no argument is left, no thread that could be joined was
\* not, and 2-detach.c has found out which thread was which.
JoinsInOrder ==
  /\ wild = {}
  /\ ~Done(main_thread) /\ Next_op(main_thread).op = "print" =>
       val = IF version = "simple" THEN 15 ELSE 11
  /\ status[main_thread] = "ended" /\ version # "alarm" =>
       /\ args = {}
       /\ \A t \in Threads \ {main_thread} :
            t \notin detached => status[t] \in {"none", "gone"}
  /\ \A t \in Threads : reported[t] # "" => (reported[t] = "JOINABLE") = (t \notin detached)

\* main never waits for a thread that does not end.
MainReturns == <>(status[main_thread] = "ended")
=============================================================================
