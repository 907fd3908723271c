-------------------------- MODULE BarrierCv_proofs --------------------------
(***************************************************************************)
(* However many threads and iterations: until the first spurious wakeup,   *)
(* barrier_sync with a condition variable is a barrier.                    *)
(***************************************************************************)
EXTENDS BarrierCv, FiniteSetTheorems, TLAPS

Waiting == {t \in Thread : pc[t] = "wait"}

\* The mutex is held by who counts or leaves, and by no other.
MutexHeld == \A t \in Thread : mutex = t <=> pc[t] \in {"count", "leave"}

\* A thread that has called barrier_sync is still in its iteration.
InIteration == \A t \in Thread : pc[t] # "work" => i[t] < num_iterations

\* The iteration a thread works in or waits to begin: one further once the
\* barrier has let it go.
Round(t) == i[t] + (IF pc[t] \in {"woken", "leave"} THEN 1 ELSE 0)

\* Until a wakeup comes from nowhere, the counter counts those who wait, and
\* nobody is a barrier ahead.
CountedInStep ==
  spurious = 0 => /\ counter = Cardinality(Waiting)
                  /\ \A t, u \in Thread : Round(t) = Round(u)

BarrierInv == MutexHeld /\ InIteration /\ CountedInStep

IInv == TypeOK /\ BarrierInv

---------------------------------------------------------------------------
LEMMA WaitingFinite ==
  /\ num_threads \in Nat \ {0}
  /\ IsFiniteSet(Waiting) /\ Cardinality(Waiting) \in Nat
  BY BarrierAssumption, FS_CardinalityType, FS_EmptySet, FS_Subset DEF num_threads, Waiting

\* Who finds one less than num_threads waiting is the only one that does not.
LEMMA AllOthersWait ==
  ASSUME NEW t \in Thread, pc[t] # "wait", Cardinality(Waiting) + 1 = num_threads
  PROVE  \A u \in Thread \ {t} : pc[u] = "wait"
  <1>1. Waiting \subseteq Thread \ {t} /\ IsFiniteSet(Thread \ {t})
    BY BarrierAssumption, FS_RemoveElement DEF Waiting
  <1>2. Cardinality(Thread \ {t}) = num_threads - 1
    BY BarrierAssumption, FS_RemoveElement DEF num_threads
  <1>3. Waiting = Thread \ {t}
    BY <1>1, <1>2, WaitingFinite, FS_Subset
  <1> QED BY <1>3 DEF Waiting

LEMMA InitIInv == Init => IInv
  <1> SUFFICES ASSUME Init PROVE IInv
    OBVIOUS
  <1> USE DEF Init
  <1>1. TypeOK
    BY BarrierAssumption, LibraryAssumption, WaitingFinite DEF TypeOK
  <1>2. MutexHeld /\ InIteration
    BY LibraryAssumption DEF MutexHeld, InIteration
  <1>3. Waiting = {}
    BY DEF Waiting
  <1>4. CountedInStep
    BY <1>3, FS_EmptySet DEF CountedInStep, Round
  <1> QED BY <1>1, <1>2, <1>4 DEF IInv, BarrierInv

\* A step that neither begins nor ends a wait, nor changes the counter.
LEMMA SameWaiting ==
  ASSUME \A t \in Thread : pc'[t] = "wait" <=> pc[t] = "wait"
  PROVE  Waiting' = Waiting
  BY DEF Waiting

LEMMA Step == IInv /\ [Next]_vars => IInv'
  <1> SUFFICES ASSUME IInv, [Next]_vars PROVE IInv'
    OBVIOUS
  <1> USE BarrierAssumption, LibraryAssumption DEF IInv, TypeOK, BarrierInv
  <1>1. CASE UNCHANGED vars
    BY <1>1 DEF vars, MutexHeld, InIteration, CountedInStep, Round, Waiting
  <1>2. ASSUME NEW t \in Thread, Call(t) PROVE IInv'
    <2> USE <1>2 DEF Call, Goto
    <2>1. TypeOK' /\ MutexHeld' /\ InIteration'
      BY DEF MutexHeld, InIteration
    <2>2. Waiting' = Waiting
      BY SameWaiting
    <2>3. CountedInStep'
      BY <2>2 DEF CountedInStep, Round
    <2> QED BY <2>1, <2>3
  <1>3. ASSUME NEW t \in Thread, Enter(t) PROVE IInv'
    <2> USE <1>3 DEF Enter, Goto
    <2>1. TypeOK' /\ MutexHeld' /\ InIteration'
      BY DEF MutexHeld, InIteration
    <2>2. Waiting' = Waiting
      BY SameWaiting
    <2>3. CountedInStep'
      BY <2>2 DEF CountedInStep, Round
    <2> QED BY <2>1, <2>3
  <1>4. ASSUME NEW t \in Thread, LastArrival(t) PROVE IInv'
    <2> USE <1>4 DEF LastArrival
    <2>1. TypeOK' /\ MutexHeld' /\ InIteration'
      BY WaitingFinite DEF MutexHeld, InIteration
    <2>2. Waiting' = {}
      BY DEF Waiting
    <2>3. CountedInStep'
      <3> SUFFICES ASSUME spurious = 0 PROVE CountedInStep'
        BY DEF CountedInStep
      <3>1. \A u \in Thread \ {t} : pc[u] = "wait"
        BY AllOthersWait DEF CountedInStep
      <3>2. \A u \in Thread : Round(u)' = Round(u) + 1
        BY <3>1 DEF Round
      <3> QED BY <2>2, <3>2, FS_EmptySet DEF CountedInStep
    <2> QED BY <2>1, <2>3
  <1>5. ASSUME NEW t \in Thread, EarlyArrival(t) PROVE IInv'
    <2> USE <1>5 DEF EarlyArrival, Goto
    <2>1. TypeOK' /\ MutexHeld' /\ InIteration'
      BY WaitingFinite DEF MutexHeld, InIteration
    <2>2. Waiting' = Waiting \union {t} /\ t \notin Waiting
      BY DEF Waiting
    <2>3. Cardinality(Waiting') = Cardinality(Waiting) + 1
      BY <2>2, WaitingFinite, FS_AddElement
    <2>4. CountedInStep'
      BY <2>3 DEF CountedInStep, Round
    <2> QED BY <2>1, <2>4
  <1>6. ASSUME NEW t \in Thread, SpuriousWakeup(t) PROVE IInv'
    BY <1>6 DEF SpuriousWakeup, Goto, MutexHeld, InIteration, CountedInStep
  <1>7. ASSUME NEW t \in Thread, Relock(t) PROVE IInv'
    <2> USE <1>7 DEF Relock, Goto
    <2>1. TypeOK' /\ MutexHeld' /\ InIteration'
      BY DEF MutexHeld, InIteration
    <2>2. Waiting' = Waiting
      BY SameWaiting
    <2>3. CountedInStep'
      BY <2>2 DEF CountedInStep, Round
    <2> QED BY <2>1, <2>3
  <1>8. ASSUME NEW t \in Thread, Leave(t) PROVE IInv'
    <2> USE <1>8 DEF Leave, Goto
    <2>1. TypeOK' /\ MutexHeld' /\ InIteration'
      BY DEF MutexHeld, InIteration
    <2>2. Waiting' = Waiting
      BY SameWaiting
    <2>3. CountedInStep'
      BY <2>2 DEF CountedInStep, Round
    <2> QED BY <2>1, <2>3
  <1>9. CASE Joined
    BY <1>9 DEF Joined, vars, MutexHeld, InIteration, CountedInStep, Round, Waiting
  <1> QED
    BY <1>1, <1>2, <1>3, <1>4, <1>5, <1>6, <1>7, <1>8, <1>9 DEF Next, my_thread

LEMMA Invariance == Spec => []IInv
  BY InitIInv, Step, PTL DEF Spec

---------------------------------------------------------------------------
LEMMA AbstractInit == Init => Abstract!Init
  BY DEF Init, Abstract!Init, CallsMade

\* Until the first spurious wakeup every step is a step of the barrier.
LEMMA AbstractStep ==
  IInv /\ [Next]_vars => (spurious' = 0 => [Abstract!Next]_(Abstract!vars))
  <1> SUFFICES ASSUME IInv, [Next]_vars, spurious' = 0
               PROVE  [Abstract!Next]_(Abstract!vars)
    OBVIOUS
  <1> USE DEF IInv, TypeOK, BarrierInv, Abstract!vars, CallsMade
  <1>1. CASE UNCHANGED vars
    BY <1>1 DEF vars
  <1>2. ASSUME NEW t \in Thread, Call(t) PROVE Abstract!Call(t)
    BY <1>2 DEF Call, Goto, Abstract!Call
  <1>3. ASSUME NEW t \in Thread, Leave(t) PROVE Abstract!Return(t)
    <2> USE <1>3 DEF Leave, Goto
    <2>1. \A u \in Thread : CallsMade[u] >= CallsMade[t]
      BY DEF CountedInStep, Round
    <2>2. i[t] < CallsMade[t] /\ UNCHANGED CallsMade
      OBVIOUS
    <2> QED BY <2>1, <2>2 DEF Abstract!Return
  <1>4. ASSUME NEW t \in Thread,
               Enter(t) \/ LastArrival(t) \/ EarlyArrival(t) \/ Relock(t)
        PROVE  UNCHANGED Abstract!vars
    BY <1>4 DEF Enter, LastArrival, EarlyArrival, Relock, Goto
  <1>5. ASSUME NEW t \in Thread, SpuriousWakeup(t) PROVE FALSE
    BY <1>5 DEF SpuriousWakeup
  <1> QED
    BY <1>1, <1>2, <1>3, <1>4, <1>5 DEF Next, my_thread, Joined, Abstract!Next

---------------------------------------------------------------------------
\* The mutex, the counter and the positions of the threads keep their types,
\* however many threads there are.
THEOREM TypeCorrect == Spec => []TypeOK
  <1>1. IInv => TypeOK
    BY DEF IInv
  <1> QED BY <1>1, Invariance, PTL

\* As long as pthread_cond_wait returns for the broadcast only, no thread
\* leaves the barrier before all have entered it.
THEOREM Refinement == Spec => BarrierUntilSpurious
  BY AbstractInit, AbstractStep, Invariance, PTL DEF Spec, BarrierUntilSpurious

\* Until then no thread has returned from more calls of barrier_sync than any
\* other has made.
THEOREM ThreadsInStep == Spec => [](spurious = 0 => Abstract!InStep)
  <1>1. IInv => (spurious = 0 => Abstract!InStep)
    <2> SUFFICES ASSUME IInv, spurious = 0, NEW t \in Thread, NEW u \in Thread
                 PROVE  i[t] <= CallsMade[u]
      BY DEF Abstract!InStep
    <2>1. Round(t) = Round(u)
      BY DEF IInv, BarrierInv, CountedInStep
    <2> QED BY <2>1 DEF IInv, TypeOK, Round, CallsMade
  <1> QED BY <1>1, Invariance, PTL

---------------------------------------------------------------------------
\* t has a step of its own: it waits neither for the mutex nor for the broadcast.
CanStep(t) ==
  \/ pc[t] = "work" /\ i[t] < num_iterations
  \/ pc[t] \in {"enter", "woken"} /\ mutex = Nobody
  \/ pc[t] \in {"count", "leave"}

\* Those who wait have an iteration to finish, so everybody has; and they are
\* counted, so they are not all.
LEMMA StuckStep == IInv /\ spurious = 0 => AllDone \/ \E t \in Thread : CanStep(t)
  <1> SUFFICES ASSUME IInv, spurious = 0, \A t \in Thread : ~CanStep(t) PROVE AllDone
    OBVIOUS
  <1>t. TypeOK /\ MutexHeld /\ InIteration /\ CountedInStep
    BY DEF IInv, BarrierInv
  <1>1. mutex = Nobody
    <2>1. \A t \in Thread : mutex # t
      BY <1>t DEF CanStep, MutexHeld
    <2> QED BY <1>t, <2>1 DEF TypeOK
  <1>2. \A t \in Thread : pc[t] = "wait" \/ (pc[t] = "work" /\ ~(i[t] < num_iterations))
    BY <1>t, <1>1 DEF CanStep, TypeOK
  <1>3. \A t \in Thread : i[t] \in 0 .. num_iterations
    BY <1>t DEF TypeOK
  <1>4. ASSUME NEW t \in Thread, pc[t] = "wait" PROVE FALSE
    <2>1. \A u \in Thread : Round(u) = Round(t)
      BY <1>t DEF CountedInStep
    <2>2. Round(t) = i[t] /\ i[t] < num_iterations
      BY <1>3, <1>4, <1>t, BarrierAssumption DEF Round, InIteration
    <2>3. ASSUME NEW u \in Thread PROVE pc[u] = "wait"
      <3>1. CASE pc[u] = "work"
        <4>1. Round(u) = i[u]
          BY <1>3, <3>1, BarrierAssumption DEF Round
        <4> QED BY <1>2, <2>1, <2>2, <3>1, <4>1
      <3> QED BY <1>2, <3>1
    <2>4. Waiting = Thread
      BY <2>3 DEF Waiting
    <2>5. counter = num_threads
      BY <1>t, <2>4 DEF CountedInStep, num_threads
    <2>6. counter \in 0 .. num_threads - 1 /\ num_threads \in Nat
      BY <1>t, WaitingFinite DEF TypeOK
    <2> QED BY <2>5, <2>6
  <1>5. \A t \in Thread : pc[t] = "work" /\ i[t] = num_iterations
    BY <1>2, <1>3, <1>4, BarrierAssumption
  <1> QED BY <1>5 DEF AllDone

\* No deadlock and no lost wakeup before the first spurious one, however many
\* threads and iterations: until all of them have finished, one has a step.
THEOREM NeverStuck ==
  Spec => [](spurious = 0 => AllDone \/ \E t \in Thread : CanStep(t))
  BY StuckStep, Invariance, PTL
=============================================================================
