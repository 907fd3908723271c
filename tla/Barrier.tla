------------------------------- MODULE Barrier -------------------------------
(***************************************************************************)
(* What a reusable barrier promises the threads that call barrier_sync     *)
(* once in every iteration: nobody returns from its k-th call before       *)
(* everybody has made its k-th call.                                       *)
(***************************************************************************)
EXTENDS Naturals

CONSTANTS Thread, Iterations

VARIABLES
  called,    \* how many times each thread has called barrier_sync
  returned   \* how many of those calls have returned

vars == <<called, returned>>

Init ==
  /\ called   = [t \in Thread |-> 0]
  /\ returned = [t \in Thread |-> 0]

Call(t) ==
  /\ called[t] = returned[t] /\ called[t] < Iterations
  /\ called' = [called EXCEPT ![t] = @ + 1]
  /\ UNCHANGED returned

Return(t) ==
  /\ returned[t] < called[t]
  /\ \A u \in Thread : called[u] >= called[t]
  /\ returned' = [returned EXCEPT ![t] = @ + 1]
  /\ UNCHANGED called

Next == \E t \in Thread : Call(t) \/ Return(t)

Spec == Init /\ [][Next]_vars

TypeOK ==
  /\ called \in [Thread -> 0 .. Iterations]
  /\ returned \in [Thread -> 0 .. Iterations]

\* Threads are never more than one barrier apart.
InStep == \A t, u \in Thread : returned[t] <= called[u]
=============================================================================
