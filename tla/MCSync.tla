------------------------------- MODULE MCSync -------------------------------
(***************************************************************************)
(* The synchronization, cancellation and thread creation programs, checked *)
(* side by side: a behaviour runs one of the programs named in Programs,   *)
(* the variables of the others stay as they are.                           *)
(***************************************************************************)
EXTENDS SyncParameters

CONSTANTS Programs, Versions

VARIABLES
  program,
  queue, work_available, work_queue_lock, held, cancel, processed, turn,
  contractor, crew,
  shop, waiting_room, barber_seat, done_with_customer, barber_bed,
  done_with_all_customers, cuts, barber_pc, shop_main, customers,
  pipe_version, room, avail, producers, work_pipe, main_locked, waiting,
  pipe_wakeups, pipe_sum, finished, pipe_main, producing, dropped,
  signal_version, value, signal_mutex, blocked, semaphore, wakeups, woken,
  waiters, signaller,
  dot_version, num_elements, sum, partial_sum, mutex_for_sum, register, count,
  adding, dot_main, result,
  cancel_version, cancel_at, cancel_status, enabled, asynchronous, requested,
  handlers, memory, counter, cancel_mutex, main_at, cancel_main,
  life_version, life_at, life_status, detached, args, wild, val, reported

crew_vars == <<queue, work_available, work_queue_lock, held, cancel, processed,
               turn, contractor, crew>>
shop_vars == <<shop, waiting_room, barber_seat, done_with_customer, barber_bed,
               done_with_all_customers, cuts, barber_pc, shop_main, customers>>
pipe_vars == <<pipe_version, room, avail, producers, work_pipe, main_locked, waiting,
               pipe_wakeups, pipe_sum, finished, pipe_main, producing, dropped>>
signal_vars == <<signal_version, value, signal_mutex, blocked, semaphore, wakeups,
                 woken, waiters, signaller>>
dot_vars == <<dot_version, num_elements, sum, partial_sum, mutex_for_sum, register,
              count, adding, dot_main, result>>
cancel_vars == <<cancel_version, cancel_at, cancel_status, enabled, asynchronous,
                 requested, handlers, memory, counter, cancel_mutex, main_at,
                 cancel_main>>
life_vars == <<life_version, life_at, life_status, detached, args, wild, val, reported>>
vars == <<program, crew_vars, shop_vars, pipe_vars, signal_vars, dot_vars,
          cancel_vars, life_vars>>

Crew   == INSTANCE WorkQueue WITH i <- turn, pc <- crew
Shop   == INSTANCE SleepingBarber WITH main_pc <- shop_main, pc <- customers
Pipe   == INSTANCE PipeProducers WITH
            version <- pipe_version, wakeups <- pipe_wakeups, sum <- pipe_sum,
            main_pc <- pipe_main, pc <- producing
Signal == INSTANCE Signalling WITH
            version <- signal_version, mutex <- signal_mutex, pc <- waiters
Dot    == INSTANCE DotProduct WITH
            version <- dot_version, i <- count, pc <- adding, main_pc <- dot_main
Cancel == INSTANCE Cancellation WITH
            version <- cancel_version, at <- cancel_at, status <- cancel_status,
            mutex <- cancel_mutex, main_pc <- cancel_main
Life   == INSTANCE ThreadLives WITH
            version <- life_version, at <- life_at, status <- life_status

\* A program that does not run keeps one of its initial states.
Init ==
  /\ program \in Programs
  /\ Crew!Init /\ Shop!Init /\ Pipe!Init /\ Signal!Init /\ Dot!Init /\ Cancel!Init
  /\ Life!Init
  /\ program # "shop" => shop = "thr"
  /\ program # "pipe" => pipe_version = "cv" /\ room = NUM_PRODUCERS
  /\ program # "signal" => signal_version = CHOOSE v \in Versions : TRUE
  /\ program # "dot" => dot_version = "v1" /\ num_elements = 0
  /\ program # "cancel" => cancel_version = "async"
  /\ program # "life" => life_version = "simple"

Runs(p) ==
  /\ program = p /\ UNCHANGED program
  /\ p # "crew"   => UNCHANGED crew_vars
  /\ p # "shop"   => UNCHANGED shop_vars
  /\ p # "pipe"   => UNCHANGED pipe_vars
  /\ p # "signal" => UNCHANGED signal_vars
  /\ p # "dot"    => UNCHANGED dot_vars
  /\ p # "cancel" => UNCHANGED cancel_vars
  /\ p # "life"   => UNCHANGED life_vars

Next ==
  \/ Crew!Next /\ Runs("crew")
  \/ Shop!Next /\ Runs("shop")
  \/ Pipe!Next /\ Runs("pipe")
  \/ Signal!Next /\ Runs("signal")
  \/ Dot!Next /\ Runs("dot")
  \/ Cancel!Next /\ Runs("cancel")
  \/ Life!Next /\ Runs("life")

\* The scheduler runs every thread that can run.  A producer that sleeps for a
\* lock main keeps taking and giving back gets it in the end, and so does a
\* contractor; a request that may act again and again does.
Fairness ==
  /\ SF_vars(Crew!contractor_thread /\ Runs("crew"))
  /\ \A w \in Crew!Worker : SF_vars(Crew!worker(w) /\ Runs("crew"))
  /\ WF_vars(Shop!main /\ Runs("shop"))
  /\ WF_vars(Shop!barber /\ Runs("shop")) /\ WF_vars(Shop!thread_barber /\ Runs("shop"))
  /\ \A c \in Customer : WF_vars(Shop!thread_customer(c) /\ Runs("shop"))
  /\ WF_vars(Pipe!main /\ Runs("pipe"))
  /\ \A p \in Pipe!Producer : SF_vars(Pipe!producer(p) /\ Runs("pipe"))
  /\ WF_vars(Signal!signal_thread /\ Runs("signal"))
  /\ \A w \in Waiting_thread : WF_vars(Signal!waiter(w) /\ Runs("signal"))
  /\ WF_vars(Cancel!main /\ Runs("cancel"))
  /\ \A t \in Cancel!Team :
       /\ WF_vars(Cancel!my_thread(t) /\ Runs("cancel"))
       /\ SF_vars(Cancel!Cancelled(t) /\ Runs("cancel"))
  /\ \A t \in Life!Threads : WF_vars(Life!run(t) /\ Runs("life"))

Spec     == Init /\ [][Next]_vars
FairSpec == Spec /\ Fairness

\* The elements of the vectors in the runs: products of different elements have
\* different sums.
PowersOfTwo == [k \in 0 .. max_elements - 1 |-> 2 ^ k]

---------------------------------------------------------------------------
\* The variables of every program keep their types.
SyncTypes ==
  /\ Crew!TypeOK /\ Shop!TypeOK /\ Pipe!TypeOK /\ Signal!TypeOK /\ Dot!TypeOK
  /\ Cancel!TypeOK /\ Life!TypeOK

\* The properties of the modules, under the names a configuration can use.
NoWorkLost       == Crew!NoWorkLost
CrewGoesHome     == (program = "crew") => Crew!CrewGoesHome
HaircutsGiven    == Shop!HaircutsGiven
ShopCloses       == (program = "shop") => Shop!ShopCloses
SumComplete      == Pipe!SumComplete
ConsumerFinishes == (program = "pipe") => Pipe!ConsumerFinishes
SignalsArrive    == (program = "signal") => Signal!SignalsArrive
MainGoesOn       == (program = "signal") => Signal!MainGoesOn
SumIsReference   == Dot!SumIsReference
CancelledClean   == Cancel!CancelledClean
ThreadsEnd       == /\ (program = "cancel") => Cancel!CancelledEnd
                    /\ (program = "life") => Life!MainReturns
JoinsInOrder     == Life!JoinsInOrder
=============================================================================
