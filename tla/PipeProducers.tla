---------------------------- MODULE PipeProducers ----------------------------
(***************************************************************************)
(* Producers hand one unit of work each to main over a non-blocking pipe,  *)
(* and count units and active producers under a mutex.  In "bad"           *)
(* (04-pc_bad.c) main polls; in "cv" (05-pc_cv.c) it waits for a signal.   *)
(***************************************************************************)
EXTENDS SyncParameters, Sequences
LOCAL INSTANCE Functions

Producer == 0 .. NUM_PRODUCERS - 1

VARIABLES
  version,          \* "bad" or "cv"
  room,             \* units the pipe has room for
  avail, producers, work_pipe,
  main_locked,      \* main holds mtx; a producer's critical section is one step
  waiting,          \* main is blocked in pthread_cond_wait
  wakeups,          \* spurious wakeups so far
  sum, finished, main_pc,
  pc,
  dropped           \* units no room was found for (a history variable)

vars == <<version, room, avail, producers, work_pipe, main_locked, waiting, wakeups,
          sum, finished, main_pc, pc, dropped>>

TypeOK ==
  /\ version \in {"bad", "cv"} /\ room \in {PIPE_BUF, NUM_PRODUCERS}
  /\ avail \in 0 .. NUM_PRODUCERS /\ producers \in 0 .. NUM_PRODUCERS
  /\ work_pipe \in Seq(Producer) /\ Len(work_pipe) <= room
  /\ main_locked \in BOOLEAN /\ waiting \in BOOLEAN /\ finished \in BOOLEAN
  /\ wakeups \in 0 .. MaxSpurious
  /\ sum \in Nat
  /\ main_pc \in {"while", "check", "wait", "read", "unlock", "exit"}
  /\ pc \in [Producer -> {"write", "signal", "ended"}]
  /\ dropped \subseteq Producer

\* A pipe holds 16384 units, more than the 10000 there are; a smaller one fills up.
Init ==
  /\ version \in {"bad", "cv"} /\ room \in {PIPE_BUF, NUM_PRODUCERS}
  /\ avail = 0 /\ producers = NUM_PRODUCERS /\ work_pipe = <<>>
  /\ main_locked = FALSE /\ waiting = FALSE /\ wakeups = 0
  /\ sum = 0 /\ finished = FALSE /\ main_pc = "while"
  /\ pc = [p \in Producer |-> "write"]
  /\ dropped = {}
---------------------------------------------------------------------------
main_state == <<main_locked, sum, finished, main_pc, wakeups>>

Write_partly(p) ==        \* mutant: counts the unit also when there was no room
  /\ pc[p] = "write" /\ ~main_locked
  /\ pc' = [pc EXCEPT ![p] = "signal"]
  /\ avail' = avail + 1 /\ producers' = producers - 1
  /\ work_pipe' = IF Len(work_pipe) < room THEN Append(work_pipe, p) ELSE work_pipe
  /\ UNCHANGED <<version, room, main_state, waiting, dropped>>

Write(p) ==
  /\ pc[p] = "write" /\ ~main_locked
  /\ pc' = [pc EXCEPT ![p] = IF version = "cv" THEN "signal" ELSE "ended"]
  /\ \/ /\ Len(work_pipe) < room
        /\ work_pipe' = Append(work_pipe, p)
        /\ avail' = avail + 1 /\ producers' = producers - 1
        /\ UNCHANGED dropped
     \/ /\ Len(work_pipe) = room    \* "try again later": while (0) does not
        /\ dropped' = dropped \cup {p}
        /\ UNCHANGED <<work_pipe, avail, producers>>
  /\ UNCHANGED <<version, room, main_state, waiting>>

Signal_nobody(p) ==       \* mutant: the signal is forgotten
  /\ pc[p] = "signal" /\ pc' = [pc EXCEPT ![p] = "ended"]
  /\ UNCHANGED <<version, room, main_state, avail, producers, work_pipe, dropped, waiting>>

Signal(p) ==
  /\ pc[p] = "signal"
  /\ waiting' = FALSE
  /\ pc' = [pc EXCEPT ![p] = "ended"]
  /\ UNCHANGED <<version, room, main_state, avail, producers, work_pipe, dropped>>

producer(p) == Write(p) \/ Signal(p)
---------------------------------------------------------------------------
Main(from, to) ==
  /\ main_pc = from /\ main_pc' = to
  /\ UNCHANGED <<version, room, producers, pc, dropped>>

LockMain ==
  /\ ~finished /\ ~main_locked /\ main_locked' = TRUE
  /\ Main("while", IF version = "cv" THEN "check" ELSE "read")
  /\ UNCHANGED <<avail, work_pipe, waiting, wakeups, sum, finished>>

\* while (!sdata.avail) pthread_cond_wait(...) releases the lock and blocks.
CondWait ==
  /\ \/ avail = 0 /\ Main("check", "wait") /\ main_locked' = FALSE /\ waiting' = TRUE
     \/ avail > 0 /\ Main("check", "read") /\ UNCHANGED <<main_locked, waiting>>
  /\ UNCHANGED <<avail, work_pipe, wakeups, sum, finished>>

Relock ==
  /\ ~waiting /\ ~main_locked /\ main_locked' = TRUE
  /\ Main("wait", "check")
  /\ UNCHANGED <<avail, work_pipe, waiting, wakeups, sum, finished>>

SpuriousWakeup ==
  /\ waiting /\ wakeups < MaxSpurious
  /\ waiting' = FALSE /\ wakeups' = wakeups + 1
  /\ UNCHANGED <<version, room, avail, producers, work_pipe, main_locked, sum, finished,
                 main_pc, pc, dropped>>

\* read() of the non-blocking pipe.  An empty one would be taken for a full one,
\* because ret is unsigned and -1 is not: whatever is in work_unit is added.
Read ==
  /\ avail > 0 /\ Main("read", "read")
  /\ \/ /\ work_pipe # <<>>
        /\ sum' = sum + Head(work_pipe)
        /\ work_pipe' = Tail(work_pipe) /\ avail' = avail - 1
     \/ /\ work_pipe = <<>> /\ \E work_unit \in Producer : sum' = sum + work_unit
        /\ avail' = avail - 1 /\ UNCHANGED work_pipe
  /\ finished' = (finished \/ producers = 0)
  /\ UNCHANGED <<main_locked, waiting, wakeups>>

UnlockMain ==
  /\ avail = 0 /\ Main("read", IF finished THEN "exit" ELSE "while")
  /\ main_locked' = FALSE
  /\ UNCHANGED <<avail, work_pipe, waiting, wakeups, sum, finished>>

main == LockMain \/ CondWait \/ Relock \/ Read \/ UnlockMain

\* main has ended, or a producer that found the pipe full took its unit along
\* and main waits for it.
Over ==
  \/ main_pc = "exit"
  \/ dropped # {} /\ waiting /\ \A p \in Producer : pc[p] = "ended"

Next ==
  \/ main_pc # "exit" /\ (main \/ SpuriousWakeup \/ \E p \in Producer : producer(p))
  \/ Over /\ UNCHANGED vars

Spec == Init /\ [][Next]_vars
---------------------------------------------------------------------------
expected == (NUM_PRODUCERS * (NUM_PRODUCERS - 1)) \div 2

\* avail is the number of units in the pipe whenever nobody is about to change
\* it, main never reads from an empty pipe, and when it leaves its loop it has
\* added up every producer's unit.
SumComplete ==
  /\ avail = Len(work_pipe)
  /\ producers = NUM_PRODUCERS - Cardinality({p \in Producer :
                                    pc[p] # "write" /\ p \notin dropped})
  /\ main_pc = "exit" => sum = expected /\ dropped = {}

\* Every unit that found room is processed, and when the pipe has room for all
\* of them the consumer terminates, although the signal is sent outside the
\* critical section and the units of several producers may be waiting behind one
\* signal.  The comments of 05-pc_cv.c promise both without the condition (lines
\* 50-52 and 112-113); with a smaller pipe they do not hold: a unit that meets a
\* full pipe is not tried "again later" (line 87), it is dropped, and the consumer
\* waits for its producer for ever (SumComplete: main only ends if none was).
processed == FoldFunctionOnSet(+, 0, [p \in Producer |-> p], Producer \ dropped)

ConsumerFinishes ==
  /\ room >= NUM_PRODUCERS => <>(main_pc = "exit")
  /\ <>[](work_pipe = <<>> /\ sum = processed)
=============================================================================
