--------------------------- MODULE SleepingBarber ---------------------------
(***************************************************************************)
(* Two sleeping barbers.  "thr" is sleeping_barber.c: main sets a flag when *)
(* all customers are home and wakes the barber, who tests it before and     *)
(* after it sleeps.  "sem" is 02-sleeping_barber.c, whose barber tests the  *)
(* flag before it sleeps only, and whose main does not wait for it.         *)
(***************************************************************************)
EXTENDS SyncParameters

VARIABLES
  shop,               \* which of the two programs runs
  waiting_room, barber_seat, done_with_customer, barber_bed,
  done_with_all_customers,
  cuts,               \* haircuts given (a history variable)
  barber_pc, main_pc, pc

sems == <<waiting_room, barber_seat, done_with_customer, barber_bed>>
vars == <<shop, sems, done_with_all_customers, cuts, barber_pc, main_pc, pc>>

TypeOK ==
  /\ shop \in {"thr", "sem"}
  /\ waiting_room \in 0 .. num_chairs /\ barber_seat \in {0, 1}
  /\ done_with_customer \in Nat /\ barber_bed \in Nat
  /\ done_with_all_customers \in BOOLEAN
  /\ cuts \in Nat
  /\ barber_pc \in {"while", "sleep", "test", "cut", "home"}
  /\ main_pc \in {"join", "wake", "destroy", "wait", "exit"}
  /\ pc \in [Customer -> {"door", "room", "sit", "wake", "cutting", "getup", "home"}]

barbershop_create == waiting_room = num_chairs /\ barber_seat = 1
                     /\ done_with_customer = 0 /\ barber_bed = 0
customers_create == pc = [c \in Customer |-> "door"]

Init ==
  /\ shop \in {"thr", "sem"}
  /\ barbershop_create /\ customers_create
  /\ done_with_all_customers = FALSE
  /\ cuts = 0 /\ barber_pc = "while" /\ main_pc = "join"

---------------------------------------------------------------------------
Goto(c, from, to) == pc[c] = from /\ pc' = [pc EXCEPT ![c] = to]
others == <<shop, done_with_all_customers, cuts, barber_pc, main_pc>>

EnterRoom(c) ==
  /\ Goto(c, "door", "room")
  /\ waiting_room > 0 /\ waiting_room' = waiting_room - 1
  /\ UNCHANGED <<barber_seat, done_with_customer, barber_bed, others>>

Sit(c) ==
  /\ Goto(c, "room", "sit")
  /\ barber_seat > 0 /\ barber_seat' = barber_seat - 1
  /\ UNCHANGED <<waiting_room, done_with_customer, barber_bed, others>>

LeaveRoom(c) ==
  /\ Goto(c, "sit", "wake")
  /\ waiting_room' = waiting_room + 1
  /\ UNCHANGED <<barber_seat, done_with_customer, barber_bed, others>>

WakeBarber(c) ==
  /\ Goto(c, "wake", "cutting")
  /\ barber_bed' = barber_bed + 1
  /\ UNCHANGED <<waiting_room, barber_seat, done_with_customer, others>>

HairCut(c) ==
  /\ Goto(c, "cutting", "getup")
  /\ done_with_customer > 0 /\ done_with_customer' = done_with_customer - 1
  /\ UNCHANGED <<waiting_room, barber_seat, barber_bed, others>>

GetUp_room(c) ==             \* mutant: the wrong semaphore is posted
  /\ Goto(c, "getup", "home")
  /\ waiting_room' = waiting_room + 1
  /\ UNCHANGED <<barber_seat, done_with_customer, barber_bed, others>>

GetUp(c) ==
  /\ Goto(c, "getup", "home")
  /\ barber_seat' = barber_seat + 1
  /\ UNCHANGED <<waiting_room, done_with_customer, barber_bed, others>>

thread_customer(c) ==
  EnterRoom(c) \/ Sit(c) \/ LeaveRoom(c) \/ WakeBarber(c) \/ HairCut(c) \/ GetUp(c)
---------------------------------------------------------------------------
Barber(from, to) ==
  barber_pc = from /\ barber_pc' = to /\ UNCHANGED <<shop, done_with_all_customers, main_pc, pc>>

While ==
  /\ Barber("while", IF done_with_all_customers THEN "home" ELSE "sleep")
  /\ UNCHANGED <<sems, cuts>>

\* A semaphore that main has destroyed lets the barber through, or does not.
Sleep ==
  /\ Barber("sleep", IF shop = "thr" THEN "test" ELSE "cut")
  /\ \/ barber_bed > 0 /\ barber_bed' = barber_bed - 1
     \/ shop = "sem" /\ main_pc \in {"wait", "exit"} /\ UNCHANGED barber_bed
  /\ UNCHANGED <<waiting_room, barber_seat, done_with_customer, cuts>>

TestAgain_never ==                  \* mutant: the second test is missing
  Barber("test", "cut") /\ UNCHANGED <<sems, cuts>>

TestAgain ==
  /\ Barber("test", IF done_with_all_customers THEN "while" ELSE "cut")
  /\ UNCHANGED <<sems, cuts>>

CutHair ==
  /\ Barber("cut", "while")
  /\ cuts' = cuts + 1
  /\ done_with_customer' = done_with_customer + 1
  /\ UNCHANGED <<waiting_room, barber_seat, barber_bed>>

barber        == shop = "thr" /\ (While \/ Sleep \/ TestAgain \/ CutHair)
thread_barber == shop = "sem" /\ (While \/ Sleep \/ CutHair)
---------------------------------------------------------------------------
Main(from, to) == main_pc = from /\ main_pc' = to /\ UNCHANGED <<shop, cuts, barber_pc, pc>>

customers_destroy ==
  /\ \A c \in Customer : pc[c] = "home"
  /\ Main("join", IF shop = "thr" THEN "wake" ELSE "destroy")
  /\ done_with_all_customers' = TRUE
  /\ UNCHANGED sems

WakeToGo_forgotten ==               \* mutant: the barber is not woken up
  Main("wake", "wait") /\ UNCHANGED <<done_with_all_customers, sems>>

WakeToGo ==
  /\ Main("wake", "wait")
  /\ barber_bed' = barber_bed + 1
  /\ UNCHANGED <<done_with_all_customers, waiting_room, barber_seat, done_with_customer>>

barbershop_destroy ==
  Main("destroy", "wait") /\ UNCHANGED <<done_with_all_customers, sems>>

\* main joins the barber ("thr"), or just returns ("sem").
Return ==
  /\ shop = "thr" => barber_pc = "home"
  /\ Main("wait", "exit")
  /\ UNCHANGED <<done_with_all_customers, sems>>

main == customers_destroy \/ WakeToGo \/ barbershop_destroy \/ Return

Next ==
  \/ main_pc # "exit" /\ (main \/ barber \/ thread_barber
                          \/ \E c \in Customer : thread_customer(c))
  \/ main_pc = "exit" /\ UNCHANGED vars

Spec == Init /\ [][Next]_vars
---------------------------------------------------------------------------
\* The barber cuts hair only while exactly one customer sits and waits for it,
\* nobody gets up before a haircut was given for it, and all have had theirs
\* when main goes on (until main has destroyed the semaphores under the barber).
Waiting == {c \in Customer : pc[c] = "cutting"}
Cut     == {c \in Customer : pc[c] \in {"getup", "home"}}

HaircutsGiven ==
  main_pc \in {"join", "wake", "destroy"} \/ shop = "thr" =>
    /\ barber_pc = "cut" => Cardinality(Waiting) = 1
    /\ cuts = Cardinality(Cut) + done_with_customer
    /\ main_pc # "join" => cuts = Cardinality(Customer)

\* The shop closes: all customers get home, the barber of "thr" too, and main
\* gets to its end.
ShopCloses == <>(main_pc = "exit")
=============================================================================
