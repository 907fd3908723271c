------------------------------- MODULE Reaper -------------------------------
(***************************************************************************)
(* signals/5-sigchld.c: a parent forks children and counts; its SIGCHLD    *)
(* handler waits for all that have ended.  SIGCHLD does not queue, and is  *)
(* blocked while its handler runs.                                         *)
(***************************************************************************)
EXTENDS IpcParameters

VARIABLES
  forked,    \* children forked so far
  running, zombies, reaped,
  sigchld,   \* is SIGCHLD pending?
  handler,   \* does the handler run?
  counted    \* numbers main has printed, a second each

vars == <<forked, running, zombies, reaped, sigchld, handler, counted>>

Child == 1 .. num_children
Count == 2           \* 13 numbers, 0 to 12, in the program

TypeOK ==
  /\ forked \in 0 .. num_children /\ counted \in 0 .. Count
  /\ running \subseteq Child /\ zombies \subseteq Child /\ reaped \subseteq Child
  /\ sigchld \in BOOLEAN /\ handler \in BOOLEAN

Init ==
  /\ forked = 0 /\ counted = 0
  /\ running = {} /\ zombies = {} /\ reaped = {}
  /\ sigchld = FALSE /\ handler = FALSE
---------------------------------------------------------------------------
Fork ==
  /\ ~handler /\ forked < num_children
  /\ forked' = forked + 1 /\ running' = running \cup {forked + 1}
  /\ UNCHANGED <<zombies, reaped, sigchld, handler, counted>>

\* sleep(1) ends early when the handler ran.
CountUp ==
  /\ ~handler /\ forked = num_children /\ counted < Count
  /\ counted' = counted + 1
  /\ UNCHANGED <<forked, running, zombies, reaped, sigchld, handler>>

Exit(c) ==
  /\ c \in running
  /\ running' = running \ {c} /\ zombies' = zombies \cup {c} /\ sigchld' = TRUE
  /\ UNCHANGED <<forked, reaped, handler, counted>>

EnterHandler ==
  /\ sigchld /\ ~handler /\ counted < Count
  /\ sigchld' = FALSE /\ handler' = TRUE
  /\ UNCHANGED <<forked, running, zombies, reaped, counted>>

WaitPid ==
  /\ handler
  /\ \E c \in zombies : zombies' = zombies \ {c} /\ reaped' = reaped \cup {c}
  /\ UNCHANGED <<forked, running, sigchld, handler, counted>>

LeaveHandler_once ==         \* mutant: an if where the loop is
  /\ handler /\ handler' = FALSE
  /\ UNCHANGED <<forked, running, zombies, reaped, sigchld, counted>>

LeaveHandler ==
  /\ handler /\ zombies = {} /\ handler' = FALSE
  /\ UNCHANGED <<forked, running, zombies, reaped, sigchld, counted>>

parent == Fork \/ CountUp \/ EnterHandler \/ WaitPid \/ LeaveHandler

Ended == counted = Count /\ running = {} /\ ~handler

Next == parent \/ (\E c \in Child : Exit(c)) \/ (Ended /\ UNCHANGED vars)

Spec == Init /\ [][Next]_vars
---------------------------------------------------------------------------
\* While the parent runs, a child that has ended is waited for: there is a
\* signal pending, or a handler that still looks, wherever there is a zombie.
NoZombie == zombies # {} => sigchld \/ handler
=============================================================================
