---------------------------- MODULE MCSync_proofs ----------------------------
(***************************************************************************)
(* The work queue, the barber shops, the cancellation programs, the        *)
(* producers over a pipe, the dot products, the programs that create       *)
(* threads and those that signal, for every number of threads, items,      *)
(* customers, chairs and elements.                                         *)
(***************************************************************************)
EXTENDS MCSync, SumTheorems, SequenceTheorems, FiniteSetTheorems, TLAPS

---------------------------------------------------------------------------
(* The work queue *)

CrewTypes ==
  /\ queue \in Seq(Crew!Item) /\ work_available \in Nat
  /\ held \in [Crew!Worker -> Crew!Item \cup {Crew!NULL}]
  /\ processed \in [Crew!Item -> {0, 1}]
  /\ turn \in 0 .. NUM_ITEMS + NUM_THREADS
  /\ contractor \in {"create", "add", "signal", "poll", "look", "cancel", "join", "end",
                     "crash"}
  /\ crew \in [Crew!Worker -> {"idle", "lock", "remove", "taken", "busy", "test", "ended"}]

\* The items that were put on the queue.
Added == IF contractor = "signal" THEN turn + 1 ELSE turn
Queued(n) == \E k \in DOMAIN queue : queue[k] = n
Held(n)   == \E w \in Crew!Worker : held[w] = n

\* The items wait in the order they were added, each is with one worker at most,
\* and is processed once it has left both.
OnePlace ==
  /\ \A j, k \in DOMAIN queue : j < k => queue[j] < queue[k]
  /\ \A v, w \in Crew!Worker : held[v] = held[w] /\ held[v] # Crew!NULL => v = w
  /\ \A n \in Crew!Item :
       /\ Queued(n) => ~Held(n)
       /\ processed[n] = 1 <=> n <= Added /\ ~Queued(n) /\ ~Held(n)
       /\ n > Added => ~Queued(n) /\ ~Held(n)

\* A worker that has waited for work has an item it may take.
Coming == {w \in Crew!Worker : crew[w] \in {"lock", "remove"}}
WorkThere ==
  work_available + Cardinality(Coming) + (IF contractor = "signal" THEN 1 ELSE 0)
    <= Len(queue)

HoldsItem == \A w \in Crew!Worker : (held[w] # Crew!NULL) <=> (crew[w] \in {"taken", "busy"})

\* The contractor cancels when nothing is queued, and joins the workers in turn.
Joined == turn - NUM_ITEMS
GoingHome ==
  /\ contractor \in {"create", "add", "signal"} => turn < NUM_ITEMS
  /\ contractor \in {"poll", "look"} => turn = NUM_ITEMS
  /\ contractor \in {"cancel", "join"} => turn >= NUM_ITEMS /\ turn < NUM_ITEMS + NUM_THREADS
  /\ contractor = "end" => turn = NUM_ITEMS + NUM_THREADS
  /\ contractor \in {"cancel", "join", "end"} =>
       queue = <<>> /\ \A w \in Crew!Worker : w < Joined => crew[w] = "ended"
  /\ contractor = "crash" => turn >= NUM_ITEMS

CrewInv == CrewTypes /\ OnePlace /\ WorkThere /\ HoldsItem /\ GoingHome

LEMMA CrewFinite == IsFiniteSet(Crew!Worker) /\ \A S \in SUBSET Crew!Worker : IsFiniteSet(S)
  <1>1. 0 \in Int /\ NUM_THREADS - 1 \in Int
    BY CrewAssumption
  <1>2. IsFiniteSet(0 .. NUM_THREADS - 1)
    BY <1>1, FS_Interval
  <1> QED
    BY <1>2, FS_Subset DEF Crew!Worker

LEMMA CrewInit == Init => CrewInv
  <1> SUFFICES ASSUME Init PROVE CrewInv
    OBVIOUS
  <1> USE CrewAssumption DEF Init, Crew!Init, Crew!NULL, Crew!Item, Crew!Worker
  <1>1. Coming = {}
    BY DEF Coming
  <1> QED
    BY <1>1, FS_EmptySet
    DEF CrewInv, CrewTypes, OnePlace, WorkThere, HoldsItem, GoingHome, Added, Queued, Held

\* What changes the set of workers that are about to take an item.
LEMMA ComingChanges ==
  ASSUME CrewTypes, NEW w \in Crew!Worker, crew' = [crew EXCEPT ![w] = crew'[w]]
  PROVE  /\ Cardinality(Coming) \in Nat /\ Cardinality(Coming') \in Nat
         /\ Cardinality(Coming') =
              CASE w \in Coming /\ w \notin Coming' -> Cardinality(Coming) - 1
                [] w \notin Coming /\ w \in Coming' -> Cardinality(Coming) + 1
                [] OTHER -> Cardinality(Coming)
  <1>1. IsFiniteSet(Coming) /\ Cardinality(Coming) \in Nat
    BY CrewFinite, FS_CardinalityType DEF Coming
  <1>2. Coming' = IF w \in Coming' THEN Coming \cup {w} ELSE Coming \ {w}
    BY DEF Coming, CrewTypes
  <1>4. /\ Cardinality(Coming \cup {w}) =
             IF w \in Coming THEN Cardinality(Coming) ELSE Cardinality(Coming) + 1
        /\ Cardinality(Coming \ {w}) =
             IF w \in Coming THEN Cardinality(Coming) - 1 ELSE Cardinality(Coming)
        /\ Cardinality(Coming \ {w}) \in Nat
    BY <1>1, FS_AddElement, FS_RemoveElement, FS_CardinalityType
  <1>5. CASE w \in Coming'
    <2>1. Coming' = Coming \cup {w}
      BY <1>2, <1>5
    <2> QED
      BY <1>1, <1>4, <1>5, <2>1
  <1>6. CASE w \notin Coming'
    BY <1>1, <1>2, <1>4, <1>6
  <1> QED
    BY <1>5, <1>6

LEMMA ComingSame ==
  ASSUME CrewTypes, crew' = crew
  PROVE  Coming' = Coming /\ Cardinality(Coming) \in Nat
  BY CrewFinite, FS_CardinalityType DEF Coming

\* The semaphore and the cancellation are not needed where nothing moves.
LEMMA NothingMoves ==
  ASSUME OnePlace, UNCHANGED <<queue, held, processed>>, Added' = Added
  PROVE  OnePlace'
  BY DEF OnePlace, Queued, Held

LEMMA CrewWorkerStep ==
  ASSUME CrewInv, contractor # "crash", NEW w \in Crew!Worker, Crew!worker(w)
  PROVE  CrewInv'
  <1> USE DEF CrewInv, Crew!Goto
  <1>1. CASE Crew!WaitWork(w)
    <2>1. /\ crew[w] = "idle" /\ crew' = [crew EXCEPT ![w] = "lock"]
          /\ work_available > 0 /\ work_available' = work_available - 1
          /\ UNCHANGED <<queue, held, processed, turn, contractor>>
      BY <1>1 DEF Crew!WaitWork
    <2>2. OnePlace'
      BY <2>1, NothingMoves DEF Added
    <2>3. CrewTypes'
      BY <2>1 DEF CrewTypes
    <2>4. Len(queue) \in Nat /\ work_available \in Nat
      BY DEF CrewTypes
    <2>5. WorkThere'
      <3>1. Cardinality(Coming) \in Nat /\ Cardinality(Coming') = Cardinality(Coming) + 1
        <4>1. crew' = [crew EXCEPT ![w] = crew'[w]] /\ crew'[w] = "lock"
          BY <2>1 DEF CrewTypes
        <4> QED
          BY <2>1, <4>1, ComingChanges DEF Coming
      <3> QED
        BY <2>1, <2>4, <3>1 DEF WorkThere
    <2>6. HoldsItem' /\ GoingHome'
      BY <2>1 DEF HoldsItem, GoingHome, Joined, CrewTypes
    <2> QED
      BY <2>2, <2>3, <2>5, <2>6
  <1>2. CASE Crew!LockQueue(w)
    <2>1. /\ crew[w] = "lock" /\ crew' = [crew EXCEPT ![w] = "remove"]
          /\ UNCHANGED <<queue, work_available, held, processed, turn, contractor>>
      BY <1>2 DEF Crew!LockQueue
    <2>2. OnePlace'
      BY <2>1, NothingMoves DEF Added
    <2>3. CrewTypes'
      BY <2>1 DEF CrewTypes
    <2>4. WorkThere'
      <3>1. Cardinality(Coming) \in Nat /\ Cardinality(Coming') = Cardinality(Coming)
        <4>1. crew' = [crew EXCEPT ![w] = crew'[w]] /\ crew'[w] = "remove"
          BY <2>1 DEF CrewTypes
        <4> QED
          BY <2>1, <4>1, ComingChanges DEF Coming
      <3> QED
        BY <2>1, <3>1 DEF WorkThere
    <2>5. HoldsItem' /\ GoingHome'
      BY <2>1 DEF HoldsItem, GoingHome, Joined, CrewTypes
    <2> QED
      BY <2>2, <2>3, <2>4, <2>5
  <1>3. CASE Crew!Remove(w)
    <2>1. /\ crew[w] = "remove" /\ crew' = [crew EXCEPT ![w] = "taken"]
          /\ held' = [held EXCEPT ![w] = Crew!remove_item(queue).item]
          /\ queue' = Crew!remove_item(queue).rest
          /\ UNCHANGED <<work_available, processed, turn, contractor>>
      BY <1>3 DEF Crew!Remove
    <2>2. /\ Cardinality(Coming') \in Nat /\ Cardinality(Coming) \in Nat
          /\ Cardinality(Coming') = Cardinality(Coming) - 1
      <3>1. crew' = [crew EXCEPT ![w] = crew'[w]] /\ crew'[w] = "taken"
        BY <2>1 DEF CrewTypes
      <3> QED
        BY <2>1, <3>1, ComingChanges DEF Coming
    <2>3. Len(queue) \in Nat /\ work_available \in Nat /\ queue \in Seq(Crew!Item)
      BY DEF CrewTypes
    <2>4. queue # <<>>
      BY <2>2, <2>3 DEF WorkThere
    <2>5. /\ held' = [held EXCEPT ![w] = queue[1]] /\ queue' = Tail(queue)
          /\ queue[1] \in Crew!Item /\ queue' \in Seq(Crew!Item)
          /\ Len(queue') = Len(queue) - 1
          /\ \A k \in 1 .. Len(queue') : queue'[k] = queue[k + 1]
          /\ 1 \in DOMAIN queue /\ DOMAIN queue = 1 .. Len(queue)
          /\ DOMAIN queue' = 1 .. Len(queue) - 1
      BY <2>1, <2>3, <2>4 DEF Crew!remove_item
    <2>6. CrewTypes'
      BY <2>1, <2>5 DEF CrewTypes
    <2>7. held[w] = Crew!NULL
      BY <2>1 DEF HoldsItem
    <2>8. OnePlace'
      <3> PICK item \in Crew!Item : item = queue[1]
        BY <2>5
      <3>1. ASSUME NEW j \in DOMAIN queue', NEW k \in DOMAIN queue', j < k
            PROVE  queue'[j] < queue'[k]
        BY <2>3, <2>5, <3>1 DEF OnePlace
      <3>2. Held(item)' /\ \A n \in Crew!Item : n # item => (Held(n)' <=> Held(n))
        BY <2>5, <2>7 DEF Held, CrewTypes, Crew!Item, Crew!NULL
      <3>3. Queued(item) /\ ~Queued(item)'
        BY <2>3, <2>5 DEF Queued, OnePlace, Crew!Item
      <3>4. \A n \in Crew!Item : n # item => (Queued(n)' <=> Queued(n))
        <4> SUFFICES ASSUME NEW n \in Crew!Item, n # item PROVE Queued(n)' <=> Queued(n)
          OBVIOUS
        <4>1. ASSUME NEW k \in DOMAIN queue', queue'[k] = n PROVE Queued(n)
          BY <2>3, <2>5, <4>1 DEF Queued
        <4>2. ASSUME NEW k \in DOMAIN queue, queue[k] = n PROVE Queued(n)'
          <5>1. k - 1 \in DOMAIN queue' /\ queue'[k - 1] = n
            BY <2>3, <2>5, <4>2
          <5> QED
            BY <5>1 DEF Queued
        <4> QED
          BY <4>1, <4>2 DEF Queued
      <3>5. ~Held(item) /\ Added' = Added
        BY <2>1, <2>5, <3>3 DEF OnePlace, Added
      <3>6. \A u, v \in Crew!Worker : held'[u] = held'[v] /\ held'[u] # Crew!NULL => u = v
        BY <2>5, <3>5 DEF OnePlace, Held, CrewTypes
      <3>7. ASSUME NEW n \in Crew!Item
            PROVE  /\ Queued(n)' => ~Held(n)'
                   /\ processed'[n] = 1 <=> n <= Added' /\ ~Queued(n)' /\ ~Held(n)'
                   /\ n > Added' => ~Queued(n)' /\ ~Held(n)'
        <4>1. CASE n = item
          BY <2>1, <3>2, <3>3, <3>5, <4>1 DEF OnePlace
        <4>2. CASE n # item
          BY <2>1, <3>2, <3>4, <3>5, <4>2 DEF OnePlace
        <4> QED
          BY <4>1, <4>2
      <3> QED
        BY <3>1, <3>6, <3>7 DEF OnePlace
    <2>9. WorkThere'
      BY <2>1, <2>2, <2>3, <2>5 DEF WorkThere
    <2>10. HoldsItem'
      BY <2>1, <2>5 DEF HoldsItem, CrewTypes, Crew!Item, Crew!NULL
    <2>11. GoingHome'
      BY <2>1, <2>4 DEF GoingHome
    <2> QED
      BY <2>6, <2>8, <2>9, <2>10, <2>11
  <1>4. CASE Crew!Disable(w)
    <2>1. /\ crew[w] = "taken" /\ crew' = [crew EXCEPT ![w] = "busy"]
          /\ UNCHANGED <<queue, work_available, held, processed, turn, contractor>>
      BY <1>4 DEF Crew!Disable, HoldsItem
    <2>2. OnePlace'
      BY <2>1, NothingMoves DEF Added
    <2>3. CrewTypes'
      BY <2>1 DEF CrewTypes
    <2>4. WorkThere'
      <3>1. Cardinality(Coming) \in Nat /\ Cardinality(Coming') = Cardinality(Coming)
        <4>1. crew' = [crew EXCEPT ![w] = crew'[w]] /\ crew'[w] = "busy"
          BY <2>1 DEF CrewTypes
        <4> QED
          BY <2>1, <4>1, ComingChanges DEF Coming
      <3> QED
        BY <2>1, <3>1 DEF WorkThere
    <2>5. HoldsItem' /\ GoingHome'
      BY <2>1 DEF HoldsItem, GoingHome, Joined, CrewTypes
    <2> QED
      BY <2>2, <2>3, <2>4, <2>5
  <1>5. CASE Crew!Process(w)
    <2>1. /\ crew[w] = "busy" /\ crew' = [crew EXCEPT ![w] = "test"]
          /\ processed' = [processed EXCEPT ![held[w]] = @ + 1]
          /\ held' = [held EXCEPT ![w] = Crew!NULL]
          /\ UNCHANGED <<queue, work_available, turn, contractor>>
      BY <1>5 DEF Crew!Process
    <2>2. held[w] \in Crew!Item /\ held[w] # Crew!NULL
      BY <2>1 DEF HoldsItem, CrewTypes
    <2>3. Held(held[w]) /\ processed[held[w]] = 0
      BY <2>2 DEF Held, OnePlace, CrewTypes
    <2>4. processed' = [processed EXCEPT ![held[w]] = 1]
      BY <2>1, <2>3
    <2>5. CrewTypes'
      BY <2>1, <2>2, <2>4 DEF CrewTypes
    <2>6. OnePlace'
      <3> PICK item \in Crew!Item : item = held[w]
        BY <2>2
      <3>1. \A n \in Crew!Item : (Queued(n)' <=> Queued(n)) /\ Added' = Added
        BY <2>1 DEF Queued, Added
      <3>2. ~Held(item)' /\ \A n \in Crew!Item : n # item => (Held(n)' <=> Held(n))
        BY <2>1, <2>2 DEF Held, OnePlace, CrewTypes, Crew!NULL, Crew!Item
      <3>3. \A u, v \in Crew!Worker : held'[u] = held'[v] /\ held'[u] # Crew!NULL => u = v
        BY <2>1 DEF OnePlace, CrewTypes
      <3>4. \A j, k \in DOMAIN queue' : j < k => queue'[j] < queue'[k]
        BY <2>1 DEF OnePlace
      <3>5. item <= Added
        BY <2>2, <2>3 DEF OnePlace, Added, CrewTypes, Crew!Item
      <3>6. ASSUME NEW n \in Crew!Item
            PROVE  /\ Queued(n)' => ~Held(n)'
                   /\ processed'[n] = 1 <=> n <= Added' /\ ~Queued(n)' /\ ~Held(n)'
                   /\ n > Added' => ~Queued(n)' /\ ~Held(n)'
        <4>1. CASE n = item
          <5>1. processed'[n] = 1 /\ ~Queued(n) /\ n <= Added
            BY <2>2, <2>3, <2>4, <3>5, <4>1 DEF OnePlace, CrewTypes
          <5> QED
            BY <3>1, <3>2, <4>1, <5>1
        <4>2. CASE n # item
          <5>1. processed'[n] = processed[n]
            BY <2>4, <4>2 DEF CrewTypes
          <5> QED
            BY <3>1, <3>2, <4>2, <5>1 DEF OnePlace
        <4> QED
          BY <4>1, <4>2
      <3> QED
        BY <3>3, <3>4, <3>6 DEF OnePlace
    <2>7. WorkThere'
      <3>1. Cardinality(Coming) \in Nat /\ Cardinality(Coming') = Cardinality(Coming)
        <4>1. crew' = [crew EXCEPT ![w] = crew'[w]] /\ crew'[w] = "test"
          BY <2>1 DEF CrewTypes
        <4> QED
          BY <2>1, <4>1, ComingChanges DEF Coming
      <3> QED
        BY <2>1, <3>1 DEF WorkThere
    <2>8. HoldsItem' /\ GoingHome'
      BY <2>1 DEF HoldsItem, GoingHome, Joined, CrewTypes
    <2> QED
      BY <2>5, <2>6, <2>7, <2>8
  <1>6. CASE Crew!pthread_testcancel(w) \/ Crew!Cancelled(w)
    <2>1. /\ \/ crew[w] = "test" /\ crew' = [crew EXCEPT ![w] = "ended"]
             \/ crew[w] = "test" /\ crew' = [crew EXCEPT ![w] = "idle"]
             \/ crew[w] \in {"idle", "lock"} /\ crew' = [crew EXCEPT ![w] = "ended"]
          /\ UNCHANGED <<queue, work_available, held, processed, turn, contractor>>
      BY <1>6 DEF Crew!pthread_testcancel, Crew!Cancelled, Crew!CancellationPoint
    <2>2. OnePlace'
      BY <2>1, NothingMoves DEF Added
    <2>3. CrewTypes'
      BY <2>1 DEF CrewTypes
    <2>4. Len(queue) \in Nat /\ work_available \in Nat
      BY DEF CrewTypes
    <2>5. Cardinality(Coming') \in Nat /\ Cardinality(Coming) \in Nat
          /\ Cardinality(Coming') <= Cardinality(Coming)
      <3>1. crew' = [crew EXCEPT ![w] = crew'[w]] /\ crew'[w] \notin {"lock", "remove"}
        BY <2>1 DEF CrewTypes
      <3> QED
        BY <3>1, ComingChanges DEF Coming
    <2>6. WorkThere'
      BY <2>1, <2>4, <2>5 DEF WorkThere
    <2>7. HoldsItem' /\ GoingHome'
      BY <2>1 DEF HoldsItem, GoingHome, Joined, CrewTypes
    <2> QED
      BY <2>2, <2>3, <2>6, <2>7
  <1> QED
    BY <1>1, <1>2, <1>3, <1>4, <1>5, <1>6 DEF Crew!worker
LEMMA CrewContractorStep == CrewInv /\ Crew!contractor_thread => CrewInv'
  <1> SUFFICES ASSUME CrewInv, Crew!contractor_thread PROVE CrewInv'
    OBVIOUS
  <1> USE CrewAssumption DEF CrewInv, Crew!Become
  <1>1. CASE \/ Crew!LockToAdd \/ Crew!LockToLook \/ Crew!Look
             \/ Crew!pthread_cancel
    <2>1. /\ UNCHANGED <<queue, work_available, held, processed, turn, crew>>
          /\ \/ contractor = "create" /\ contractor' = "add"
             \/ contractor = "poll" /\ contractor' = "look"
             \/ contractor = "look" /\ contractor' = "poll"
             \/ contractor = "look" /\ contractor' = "cancel" /\ queue = <<>>
             \/ contractor = "cancel" /\ contractor' = "join"
      BY <1>1 DEF Crew!LockToAdd, Crew!LockToLook, Crew!Look, Crew!pthread_cancel
    <2>2. OnePlace'
      BY <2>1, NothingMoves DEF Added
    <2>3. CrewTypes' /\ HoldsItem'
      BY <2>1 DEF CrewTypes, HoldsItem
    <2>4. WorkThere'
      BY <2>1, ComingSame DEF WorkThere
    <2>5. GoingHome'
      BY <2>1 DEF GoingHome, Joined, CrewTypes, Crew!Worker
    <2> QED
      BY <2>2, <2>3, <2>4, <2>5
  <1>2. CASE Crew!Add
    <2>1. /\ contractor = "add" /\ contractor' = "signal"
          /\ queue' = Append(queue, turn + 1)
          /\ UNCHANGED <<work_available, held, processed, turn, crew>>
      BY <1>2 DEF Crew!Add, Crew!add_item
    <2>2. turn + 1 \in Crew!Item /\ queue \in Seq(Crew!Item) /\ turn \in Nat
      BY <2>1 DEF GoingHome, CrewTypes, Crew!Item
    <2> PICK item \in Crew!Item : item = turn + 1
      BY <2>2
    <2>3. /\ queue' \in Seq(Crew!Item) /\ Len(queue') = Len(queue) + 1
          /\ Len(queue) \in Nat /\ DOMAIN queue = 1 .. Len(queue)
          /\ DOMAIN queue' = 1 .. Len(queue) + 1 /\ queue'[Len(queue) + 1] = item
          /\ \A k \in 1 .. Len(queue) : queue'[k] = queue[k] /\ queue[k] \in Crew!Item
      BY <2>1, <2>2
    <2>4. CrewTypes' /\ HoldsItem'
      BY <2>1, <2>3 DEF CrewTypes, HoldsItem
    <2>5. /\ ~Queued(item) /\ ~Held(item) /\ processed[item] # 1
          /\ \A n \in Crew!Item : Queued(n) => n < item
      BY <2>1, <2>2 DEF OnePlace, Added, Crew!Item
    <2>6. Queued(item)' /\ \A n \in Crew!Item : n # item => (Queued(n)' <=> Queued(n))
      BY <2>2, <2>3 DEF Queued
    <2>7. \A n \in Crew!Item : Held(n)' <=> Held(n)
      BY <2>1 DEF Held
    <2>8. \A j, k \in DOMAIN queue' : j < k => queue'[j] < queue'[k]
      <3> SUFFICES ASSUME NEW j \in DOMAIN queue', NEW k \in DOMAIN queue', j < k
                   PROVE  queue'[j] < queue'[k]
        OBVIOUS
      <3>1. CASE k = Len(queue) + 1
        <4>1. j \in DOMAIN queue /\ Queued(queue[j])
          BY <2>3, <3>1 DEF Queued
        <4> QED
          BY <2>3, <2>5, <3>1, <4>1
      <3>2. CASE k # Len(queue) + 1
        BY <2>3, <3>2 DEF OnePlace
      <3> QED
        BY <3>1, <3>2
    <2>9. Added = turn /\ Added' = turn + 1
      BY <2>1 DEF Added
    <2>10. ASSUME NEW n \in Crew!Item
           PROVE  /\ Queued(n)' => ~Held(n)'
                  /\ processed'[n] = 1 <=> n <= Added' /\ ~Queued(n)' /\ ~Held(n)'
                  /\ n > Added' => ~Queued(n)' /\ ~Held(n)'
      <3>1. CASE n = item
        BY <2>1, <2>2, <2>5, <2>6, <2>7, <2>9, <3>1
      <3>2. CASE n # item
        <4>1. n <= turn <=> n <= turn + 1
          BY <2>2, <3>2 DEF Crew!Item
        <4>2. n > turn <=> n > turn + 1
          BY <2>2, <3>2 DEF Crew!Item
        <4> QED
          BY <2>1, <2>6, <2>7, <2>9, <3>2, <4>1, <4>2 DEF OnePlace
      <3> QED
        BY <3>1, <3>2
    <2>11. OnePlace'
      BY <2>1, <2>8, <2>10 DEF OnePlace
    <2>12. WorkThere'
      <3>1. work_available \in Nat /\ Cardinality(Coming) \in Nat /\ Coming' = Coming
        BY <2>1, ComingSame DEF CrewTypes
      <3> QED
        BY <2>1, <2>3, <3>1 DEF WorkThere
    <2>13. GoingHome'
      BY <2>1 DEF GoingHome
    <2> QED
      BY <2>4, <2>11, <2>12, <2>13
  <1>3. CASE Crew!Signal
    <2>1. /\ contractor = "signal"
          /\ contractor' = IF turn + 1 = NUM_ITEMS THEN "poll" ELSE "create"
          /\ work_available' = work_available + 1 /\ turn' = turn + 1
          /\ UNCHANGED <<queue, held, processed, crew>>
      BY <1>3 DEF Crew!Signal
    <2>2. turn < NUM_ITEMS /\ turn \in Nat
      BY <2>1 DEF GoingHome, CrewTypes
    <2>3. CrewTypes' /\ HoldsItem' /\ GoingHome'
      BY <2>1, <2>2 DEF CrewTypes, HoldsItem, GoingHome
    <2>4. OnePlace'
      BY <2>1, NothingMoves DEF Added
    <2>5. WorkThere'
      <3>1. /\ work_available \in Nat /\ Cardinality(Coming) \in Nat /\ Coming' = Coming
            /\ Len(queue) \in Nat
        BY <2>1, ComingSame DEF CrewTypes
      <3> QED
        BY <2>1, <3>1 DEF WorkThere
    <2> QED
      BY <2>3, <2>4, <2>5
  <1>4. CASE Crew!pthread_join
    <2>1. /\ contractor = "join" /\ crew[Joined] = "ended" /\ turn' = turn + 1
          /\ \/ contractor' = IF Joined = NUM_THREADS - 1 THEN "end" ELSE "cancel"
             \/ contractor' = "crash"
          /\ UNCHANGED <<queue, work_available, held, processed, crew>>
      BY <1>4 DEF Crew!pthread_join, Crew!Joining, Joined
    <2>2. turn >= NUM_ITEMS /\ turn < NUM_ITEMS + NUM_THREADS /\ turn \in Nat
      BY <2>1 DEF GoingHome, CrewTypes
    <2>3. CrewTypes' /\ HoldsItem'
      BY <2>1, <2>2 DEF CrewTypes, HoldsItem
    <2>4. GoingHome'
      <3>1. \A w \in Crew!Worker : w < Joined + 1 => crew[w] = "ended"
        BY <2>1, <2>2 DEF GoingHome, Joined, Crew!Worker
      <3>2. Joined' = Joined + 1
        BY <2>1, <2>2 DEF Joined
      <3> QED
        BY <2>1, <2>2, <3>1, <3>2 DEF GoingHome, Joined
    <2>5. OnePlace'
      <3>1. \A n \in Crew!Item : n <= turn /\ n <= turn + 1 /\ ~(n > turn) /\ ~(n > turn + 1)
        BY <2>2 DEF Crew!Item
      <3>2. Added = turn /\ Added' = turn + 1
        BY <2>1 DEF Added
      <3> QED
        BY <2>1, <3>1, <3>2 DEF OnePlace, Queued, Held
    <2>6. WorkThere'
      BY <2>1, ComingSame DEF WorkThere
    <2> QED
      BY <2>3, <2>4, <2>5, <2>6
  <1> QED
    BY <1>1, <1>2, <1>3, <1>4 DEF Crew!contractor_thread

LEMMA CrewStep == CrewInv /\ [Crew!Next]_crew_vars => CrewInv'
  <1> SUFFICES ASSUME CrewInv, [Crew!Next]_crew_vars PROVE CrewInv'
    OBVIOUS
  <1>1. CASE UNCHANGED crew_vars \/ UNCHANGED Crew!vars
    <2>1. UNCHANGED <<queue, work_available, held, processed, turn, contractor, crew>>
      BY <1>1 DEF crew_vars, Crew!vars
    <2>2. OnePlace' /\ WorkThere'
      BY <2>1, NothingMoves, ComingSame DEF Added, CrewInv, WorkThere
    <2> QED
      BY <2>1, <2>2 DEF CrewInv, CrewTypes, HoldsItem, GoingHome, Joined
  <1> QED
    BY <1>1, CrewWorkerStep, CrewContractorStep DEF Crew!Next

LEMMA CrewPlaces ==
  ASSUME CrewInv, NEW n \in Crew!Item
  PROVE  Crew!Places(n) = IF n <= Added THEN 1 ELSE 0
  <1> DEFINE Q == {k \in DOMAIN queue : queue[k] = n}
             H == {w \in Crew!Worker : held[w] = n}
  <1> USE DEF CrewInv
  <1>1. Cardinality(Q) = IF Queued(n) THEN 1 ELSE 0
    <2>1. CASE Queued(n)
      <3>1. PICK k \in DOMAIN queue : queue[k] = n
        BY <2>1 DEF Queued
      <3>2. ASSUME NEW j \in DOMAIN queue, queue[j] = n PROVE j = k
        BY <3>1, <3>2 DEF OnePlace, CrewTypes, Crew!Item
      <3>3. Q = {k}
        BY <3>1, <3>2
      <3> QED
        BY <2>1, <3>3, FS_Singleton
    <2>2. CASE ~Queued(n)
      <3>1. Q = {}
        BY <2>2 DEF Queued
      <3> QED
        BY <2>2, <3>1, FS_EmptySet
    <2> QED
      BY <2>1, <2>2
  <1>2. Cardinality(H) = IF Held(n) THEN 1 ELSE 0
    <2>1. CASE Held(n)
      <3>1. PICK w \in Crew!Worker : held[w] = n
        BY <2>1 DEF Held
      <3>2. n # Crew!NULL
        BY DEF Crew!Item, Crew!NULL
      <3>3. H = {w}
        BY <3>1, <3>2 DEF OnePlace
      <3> QED
        BY <2>1, <3>3, FS_Singleton
    <2>2. CASE ~Held(n)
      <3>1. H = {}
        BY <2>2 DEF Held
      <3> QED
        BY <2>2, <3>1, FS_EmptySet
    <2> QED
      BY <2>1, <2>2
  <1>3. Crew!Places(n) = Cardinality(Q) + Cardinality(H) + processed[n]
    BY DEF Crew!Places, Crew!Cardinality, Crew!IsFiniteSet, Cardinality, IsFiniteSet
  <1>4. processed[n] \in {0, 1} /\ Added \in Nat /\ n \in Nat
    BY DEF CrewTypes, Added, Crew!Item
  <1>5. CASE n <= Added
    BY <1>1, <1>2, <1>3, <1>4, <1>5 DEF OnePlace
  <1>6. CASE n > Added
    BY <1>1, <1>2, <1>3, <1>4, <1>6 DEF OnePlace
  <1> QED
    BY <1>4, <1>5, <1>6

\* Every item that was put on the queue is in one place, and is processed once,
\* whenever the workers are cancelled; and none of them takes NULL off it.
THEOREM WorkKept == Spec => []NoWorkLost
  <1>1. [Next]_vars => [Crew!Next]_crew_vars
    BY DEF Next, Runs, vars
  <1>2. CrewInv => NoWorkLost
    <2> SUFFICES ASSUME CrewInv PROVE Crew!NoWorkLost
      BY DEF NoWorkLost
    <2>1. ASSUME NEW n \in Crew!Item
          PROVE  Crew!Places(n) =
                   IF n <= turn \/ (n = turn + 1 /\ contractor = "signal") THEN 1 ELSE 0
      <3>1. n <= Added <=> n <= turn \/ (n = turn + 1 /\ contractor = "signal")
        BY DEF Added, CrewInv, CrewTypes, Crew!Item
      <3> QED
        BY <3>1, CrewPlaces
    <2>2. ASSUME contractor = "end", NEW n \in Crew!Item PROVE processed[n] = 1
      <3>1. queue = <<>> /\ turn = NUM_ITEMS + NUM_THREADS
            /\ \A w \in Crew!Worker : crew[w] = "ended"
        BY <2>2, CrewAssumption DEF CrewInv, GoingHome, Joined, Crew!Worker
      <3>2. ~Queued(n) /\ ~Held(n)
        BY <3>1 DEF Queued, Held, CrewInv, HoldsItem, Crew!Item, Crew!NULL
      <3>3. n <= Added
        BY <2>2, <3>1, CrewAssumption DEF Added, Crew!Item
      <3> QED
        BY <3>2, <3>3 DEF CrewInv, OnePlace
    <2> QED
      BY <2>1, <2>2 DEF Crew!NoWorkLost, CrewInv, HoldsItem
  <1> QED
    BY <1>1, <1>2, CrewInit, CrewStep, PTL DEF Spec

---------------------------------------------------------------------------
(* The sleeping barbers *)

ShopTypes ==
  /\ shop \in {"thr", "sem"} /\ barber_seat \in {0, 1}
  /\ done_with_customer \in Nat /\ barber_bed \in Nat /\ cuts \in Nat
  /\ shop_main \in IF shop = "thr" THEN {"join", "wake", "wait", "exit"}
                   ELSE {"join", "destroy", "wait", "exit"}
  /\ barber_pc \in {"while", "sleep", "test", "cut", "home"}
  /\ customers \in [Customer -> {"door", "room", "sit", "wake", "cutting", "getup", "home"}]

\* The barber seat has room for one.
Seated(c) == customers[c] \in {"sit", "wake", "cutting", "getup"}
OneSeated ==
  /\ \A c, d \in Customer : Seated(c) /\ Seated(d) => c = d
  /\ barber_seat = 1 <=> \A c \in Customer : ~Seated(c)

\* Until the semaphores of "sem" are destroyed:
Open == shop = "thr" \/ shop_main \in {"join", "destroy"}

\* the customer in the seat and the barber pass one token between them, on
\* one of two semaphores or in the barber's hands,
InHand == IF barber_pc \in {"test", "cut"} THEN 1 ELSE 0
OneToken ==
  Open /\ shop_main = "join" =>
    /\ (\E c \in Customer : customers[c] = "cutting") =>
         barber_bed + InHand + done_with_customer = 1
    /\ (\A c \in Customer : customers[c] # "cutting") =>
         barber_bed + InHand + done_with_customer = 0

\* and when main has seen all of them go home the barber cuts no hair.
AllHome ==
  /\ done_with_all_customers = (shop_main # "join")
  /\ shop_main # "join" => \A c \in Customer : customers[c] = "home"
  /\ Open /\ shop_main # "join" => barber_pc # "cut" /\ done_with_customer = 0
  /\ shop_main = "destroy" => barber_bed = 0

CutCounted == Open => cuts = Cardinality(Shop!Cut) + done_with_customer

ShopInv == ShopTypes /\ OneSeated /\ OneToken /\ AllHome /\ CutCounted

LEMMA ShopInit == Init => ShopInv
  <1> SUFFICES ASSUME Init PROVE ShopInv
    OBVIOUS
  <1> USE DEF Init, Shop!Init, Shop!barbershop_create, Shop!customers_create
  <1>1. Shop!Cut = {}
    BY DEF Shop!Cut
  <1>2. Cardinality(Shop!Cut) = 0
    BY <1>1, FS_EmptySet
  <1>3. ShopTypes /\ OneSeated /\ CutCounted
    BY <1>2 DEF ShopTypes, OneSeated, CutCounted, Seated
  <1>4. OneToken
    BY DEF OneToken, InHand
  <1>5. AllHome
    BY DEF AllHome
  <1> QED
    BY <1>3, <1>4, <1>5 DEF ShopInv

LEMMA ShopCustomerStep ==
  ASSUME ShopInv, NEW c \in Customer, Shop!thread_customer(c)
  PROVE  ShopInv'
  <1> USE DEF ShopInv, Shop!Goto, Shop!others
  <1>1. UNCHANGED <<shop, done_with_all_customers, cuts, barber_pc, shop_main>>
    BY DEF Shop!thread_customer, Shop!EnterRoom, Shop!Sit, Shop!LeaveRoom, Shop!WakeBarber,
           Shop!HairCut, Shop!GetUp
  <1>2. shop_main = "join"
    BY DEF AllHome, Shop!thread_customer, Shop!EnterRoom, Shop!Sit, Shop!LeaveRoom,
           Shop!WakeBarber, Shop!HairCut, Shop!GetUp
  <1>3. AllHome'
    BY <1>1, <1>2 DEF AllHome
  <1>4. CASE Shop!EnterRoom(c) \/ Shop!Sit(c) \/ Shop!LeaveRoom(c) \/ Shop!WakeBarber(c) \/ Shop!GetUp(c)
    <2>1. ShopTypes' /\ OneSeated'
      BY <1>1, <1>4 DEF ShopTypes, OneSeated, Seated, Shop!EnterRoom, Shop!Sit, Shop!LeaveRoom,
                        Shop!WakeBarber, Shop!GetUp
    <2>2. OneToken'
      BY <1>1, <1>2, <1>4 DEF ShopTypes, OneToken, OneSeated, Seated, Open, InHand, Shop!EnterRoom,
            Shop!Sit, Shop!LeaveRoom, Shop!WakeBarber, Shop!GetUp
    <2>3. Shop!Cut' = Shop!Cut /\ done_with_customer' = done_with_customer
      BY <1>4 DEF ShopTypes, Shop!Cut, Shop!EnterRoom, Shop!Sit, Shop!LeaveRoom,
                  Shop!WakeBarber, Shop!GetUp
    <2>4. CutCounted'
      BY <1>1, <2>3 DEF CutCounted, Open
    <2> QED
      BY <1>3, <2>1, <2>2, <2>4
  <1>5. CASE Shop!HairCut(c)
    <2>1. ShopTypes' /\ OneSeated'
      BY <1>1, <1>5 DEF ShopTypes, OneSeated, Seated, Shop!HairCut
    <2>2. OneToken'
      BY <1>1, <1>2, <1>5 DEF ShopTypes, OneToken, OneSeated, Seated, Open, InHand, Shop!HairCut
    <2>3. Shop!Cut' = Shop!Cut \cup {c} /\ c \notin Shop!Cut
      BY <1>5 DEF ShopTypes, Shop!Cut, Shop!HairCut
    <2>4. IsFiniteSet(Shop!Cut)
      BY ShopAssumption, FS_Subset DEF Shop!Cut
    <2>5. Cardinality(Shop!Cut') = Cardinality(Shop!Cut) + 1 /\ Cardinality(Shop!Cut) \in Nat
      BY <2>3, <2>4, FS_AddElement, FS_CardinalityType
    <2>6. CutCounted'
      BY <1>1, <1>5, <2>5 DEF CutCounted, Open, ShopTypes, Shop!HairCut
    <2> QED
      BY <1>3, <2>1, <2>2, <2>6
  <1> QED
    BY <1>4, <1>5 DEF Shop!thread_customer

LEMMA ShopBarberStep == ShopInv /\ (Shop!barber \/ Shop!thread_barber) => ShopInv'
  <1> SUFFICES ASSUME ShopInv, Shop!barber \/ Shop!thread_barber PROVE ShopInv'
    OBVIOUS
  <1> USE DEF ShopInv, Shop!Barber
  <1>1. UNCHANGED <<shop, done_with_all_customers, shop_main, customers, barber_seat>>
    BY DEF Shop!barber, Shop!thread_barber, Shop!While, Shop!Sleep, Shop!TestAgain,
           Shop!CutHair, Shop!sems
  <1>2. OneSeated' /\ Shop!Cut' = Shop!Cut /\ Open' = Open
    BY <1>1 DEF OneSeated, Seated, Shop!Cut, Open
  <1>3. Cardinality(Shop!Cut) \in Nat
    BY ShopAssumption, FS_Subset, FS_CardinalityType DEF Shop!Cut
  <1>4. done_with_all_customers <=> shop_main # "join"
    BY DEF AllHome
  <1>5. CASE Shop!While \/ Shop!TestAgain
    <2>1. /\ barber_pc \in {"while", "test"} /\ barber_pc' \in {"home", "sleep", "while", "cut"}
          /\ shop_main = "join" => InHand' = InHand
          /\ shop_main # "join" => barber_pc' # "cut"
          /\ UNCHANGED <<done_with_customer, barber_bed, cuts>>
      BY <1>4, <1>5 DEF Shop!While, Shop!TestAgain, Shop!sems, InHand
    <2> QED
      BY <1>1, <1>2, <2>1 DEF ShopTypes, OneToken, AllHome, CutCounted
  <1>6. CASE Shop!Sleep
    <2>1. /\ barber_pc = "sleep" /\ barber_pc' = IF shop = "thr" THEN "test" ELSE "cut"
          /\ Open => barber_bed > 0 /\ barber_bed' = barber_bed - 1
          /\ barber_bed' \in Nat
          /\ UNCHANGED <<done_with_customer, cuts>>
      BY <1>6 DEF Shop!Sleep, Open, ShopTypes
    <2>2. InHand = 0 /\ InHand' = 1
      BY <2>1 DEF InHand
    <2>3. ShopTypes' /\ CutCounted'
      BY <1>1, <1>2, <2>1 DEF ShopTypes, CutCounted
    <2>4. OneToken'
      BY <1>1, <1>2, <2>1, <2>2 DEF ShopTypes, OneToken
    <2>5. AllHome'
      BY <1>1, <1>2, <2>1 DEF ShopTypes, AllHome, Open
    <2> QED
      BY <1>2, <2>3, <2>4, <2>5
  <1>7. CASE Shop!CutHair
    <2>1. /\ barber_pc = "cut" /\ barber_pc' = "while" /\ cuts' = cuts + 1
          /\ done_with_customer' = done_with_customer + 1 /\ UNCHANGED barber_bed
      BY <1>7 DEF Shop!CutHair
    <2>2. InHand = 1 /\ InHand' = 0
      BY <2>1 DEF InHand
    <2> QED
      BY <1>1, <1>2, <1>3, <2>1, <2>2 DEF ShopTypes, OneToken, AllHome, CutCounted, Open
  <1> QED
    BY <1>5, <1>6, <1>7 DEF Shop!barber, Shop!thread_barber

LEMMA ShopMainStep == ShopInv /\ Shop!main => ShopInv'
  <1> SUFFICES ASSUME ShopInv, Shop!main PROVE ShopInv'
    OBVIOUS
  <1> USE DEF ShopInv, Shop!Main, Shop!sems
  <1>1. /\ UNCHANGED <<shop, cuts, barber_pc, customers, barber_seat, done_with_customer>>
        /\ OneSeated' /\ Shop!Cut' = Shop!Cut
    BY DEF Shop!main, Shop!customers_destroy, Shop!WakeToGo, Shop!barbershop_destroy,
           Shop!Return, OneSeated, Seated, Shop!Cut
  <1>2. CASE Shop!customers_destroy
    <2>1. /\ \A c \in Customer : customers[c] = "home"
          /\ shop_main = "join" /\ shop_main' = IF shop = "thr" THEN "wake" ELSE "destroy"
          /\ done_with_all_customers' = TRUE /\ barber_bed' = barber_bed
      BY <1>2 DEF Shop!customers_destroy
    <2>2. barber_bed + InHand + done_with_customer = 0
      BY <2>1 DEF OneToken, Open
    <2>3. barber_bed = 0 /\ done_with_customer = 0 /\ barber_pc # "cut"
      BY <2>2 DEF ShopTypes, InHand
    <2> QED
      BY <1>1, <2>1, <2>3 DEF ShopTypes, OneToken, AllHome, CutCounted, Open
  <1>3. CASE Shop!WakeToGo \/ Shop!barbershop_destroy \/ Shop!Return
    <2>1. /\ done_with_all_customers' = done_with_all_customers
          /\ shop_main # "join" /\ shop_main' \in {"wait", "exit"} /\ barber_bed' \in Nat
          /\ Open' => Open
      BY <1>1, <1>3 DEF Shop!WakeToGo, Shop!barbershop_destroy, Shop!Return, ShopTypes, Open
    <2> QED
      BY <1>1, <2>1 DEF ShopTypes, OneToken, AllHome, CutCounted
  <1> QED
    BY <1>2, <1>3 DEF Shop!main

LEMMA ShopStep == ShopInv /\ [Shop!Next]_shop_vars => ShopInv'
  <1> SUFFICES ASSUME ShopInv, [Shop!Next]_shop_vars PROVE ShopInv'
    OBVIOUS
  <1>1. CASE UNCHANGED shop_vars \/ UNCHANGED Shop!vars
    <2>1. Shop!Cut' = Shop!Cut
      BY <1>1 DEF shop_vars, Shop!vars, Shop!Cut
    <2> QED
      BY <1>1, <2>1 DEF shop_vars, Shop!vars, Shop!sems, ShopInv, ShopTypes, OneSeated, Seated,
                  OneToken, InHand, AllHome, CutCounted, Open
  <1> QED
    BY <1>1, ShopCustomerStep, ShopBarberStep, ShopMainStep DEF Shop!Next

\* The barber cuts hair for the one customer who waits for it, and has cut
\* everybody's when main goes on.
THEOREM HaircutsCounted == Spec => []HaircutsGiven
  <1>1. [Next]_vars => [Shop!Next]_shop_vars
    BY DEF Next, Runs, vars
  <1>2. ShopInv => HaircutsGiven
    <2> SUFFICES ASSUME ShopInv, Open PROVE Shop!HaircutsGiven
      BY DEF HaircutsGiven, Shop!HaircutsGiven, ShopInv, ShopTypes, Open
    <2> USE DEF ShopInv
    <2>1. Shop!Cardinality(Shop!Cut) = Cardinality(Shop!Cut)
          /\ Shop!Cardinality(Shop!Waiting) = Cardinality(Shop!Waiting)
          /\ Shop!Cardinality(Customer) = Cardinality(Customer)
      BY DEF Shop!Cardinality, Shop!IsFiniteSet, Cardinality, IsFiniteSet
    <2>2. ASSUME barber_pc = "cut" PROVE Cardinality(Shop!Waiting) = 1
      <3>1. shop_main = "join"
        BY <2>2 DEF AllHome
      <3>2. PICK c \in Customer : customers[c] = "cutting"
        BY <2>2, <3>1 DEF OneToken, InHand, ShopTypes
      <3>3. Shop!Waiting = {c}
        BY <3>2 DEF Shop!Waiting, OneSeated, Seated
      <3> QED
        BY <3>3, FS_Singleton
    <2>3. ASSUME shop_main # "join" PROVE cuts = Cardinality(Customer)
      <3>1. Shop!Cut = Customer
        BY <2>3 DEF AllHome, Shop!Cut
      <3>2. Cardinality(Customer) \in Nat
        BY ShopAssumption, FS_CardinalityType
      <3> QED
        BY <2>3, <3>1, <3>2 DEF AllHome, CutCounted
    <2> QED
      BY <2>1, <2>2, <2>3 DEF Shop!HaircutsGiven, CutCounted
  <1> QED
    BY <1>1, <1>2, ShopInit, ShopStep, PTL DEF Spec

---------------------------------------------------------------------------
(* Cancellation *)

CancelTypes ==
  /\ cancel_version \in Cancel!Version
  /\ cancel_at \in [Cancel!Team -> Nat \ {0}]
  /\ cancel_status \in [Cancel!Team -> {"none", "running", "unwinding", "cancelled", "returned"}]
  /\ handlers \in [Cancel!Team -> Seq({"push_a", "push_b", "push_v1", "push_v2"})]
  /\ cancel_mutex \subseteq Cancel!Team

\* The programs whose cleanup handlers undo something.
Cleaning == {"cleanup", "cleanup_v1"}

\* Where the contractor of cleanup_v2.c pushes and pops its handler.
Subs   == Cardinality(Cancel!Crew)
PushAt == 2 * Subs + 1
PopAt  == 3 * Subs + 2

\* The other programs leave nothing to clean up, and their only handler is the
\* contractor's, on the stack until it is popped.
NothingToClean ==
  cancel_version \notin Cleaning =>
    /\ memory = {} /\ cancel_mutex = {} /\ counter = 0
    /\ \A t \in Cancel!Team : handlers[t] \in Seq({"push_v2"})
    /\ cancel_version = "cleanup_v2" /\ cancel_status[1] = "running"
         /\ cancel_at[1] > PushAt /\ cancel_at[1] <= PopAt => handlers[1] # <<>>

\* 5-cancel_cleanup.c: what is allocated and what is pushed go together, and no
\* request acts from the first malloc to the last push.
MemoryPushed ==
  cancel_version = "cleanup" =>
    LET k == cancel_at[1] IN
    /\ cancel_mutex = {} /\ counter = 0 /\ asynchronous = {}
    /\ \A t \in Cancel!Team \ {1} : cancel_status[t] = "none" /\ handlers[t] = <<>>
    /\ cancel_status[1] = "running" =>
         /\ k \in 1 .. 10
         /\ k \in 3 .. 8 => 1 \notin enabled
         /\ memory = IF k <= 3 THEN {} ELSE IF k <= 5 THEN {"matrix"} ELSE {"matrix", "rows"}
         /\ handlers[1] = IF k <= 4 THEN <<>> ELSE IF k <= 6 THEN <<"push_a">>
                          ELSE <<"push_b", "push_a">>
    /\ cancel_status[1] # "running" =>
         \/ memory = {} /\ handlers[1] = <<>>
         \/ /\ cancel_status[1] = "unwinding"
            /\ \/ memory = {"matrix"} /\ handlers[1] = <<"push_a">>
               \/ memory = {"matrix", "rows"} /\ handlers[1] = <<"push_b", "push_a">>

\* cleanup_v1.c: the counter counts the threads that have locked the mutex and
\* not run their handler; the mutex is held by one of them at most.
Waiters == {t \in Cancel!Team : cancel_at[t] >= 3 /\ handlers[t] # <<>>}

WaitersCounted ==
  cancel_version = "cleanup_v1" =>
    /\ memory = {} /\ asynchronous = {}
    /\ counter = Cardinality(Waiters)
    /\ \A t, u \in cancel_mutex : t = u
    /\ \A t \in Cancel!Team :
         /\ cancel_status[t] = "running" =>
              /\ cancel_at[t] \in 1 .. 3
              /\ handlers[t] = IF cancel_at[t] = 1 THEN <<>> ELSE <<"push_v1">>
         /\ cancel_status[t] = "unwinding" =>
              /\ cancel_at[t] = 3
              /\ handlers[t] = <<>> \/ (handlers[t] = <<"push_v1">> /\ t \in cancel_mutex)
         /\ cancel_status[t] \notin {"running", "unwinding"} => handlers[t] = <<>>
         /\ t \in cancel_mutex => cancel_at[t] = 3 /\ handlers[t] # <<>>

CancelInv == CancelTypes /\ NothingToClean /\ MemoryPushed /\ WaitersCounted

---------------------------------------------------------------------------
LEMMA TeamFinite ==
  /\ 1 \in Cancel!Team /\ \A S \in SUBSET Cancel!Team : IsFiniteSet(S) /\ Cardinality(S) \in Nat
  /\ Subs \in Nat
  <1>1. 1 \in Int /\ num_threads \in Int
    BY TeamAssumption
  <1>2. IsFiniteSet(1 .. num_threads)
    BY <1>1, FS_Interval
  <1>3. \A S \in SUBSET Cancel!Team : IsFiniteSet(S) /\ Cardinality(S) \in Nat
    BY <1>2, FS_Subset, FS_CardinalityType DEF Cancel!Team
  <1>4. 1 \in Cancel!Team
    BY TeamAssumption DEF Cancel!Team
  <1>5. Cancel!Crew \in SUBSET Cancel!Team
    BY DEF Cancel!Crew
  <1> QED BY <1>3, <1>4, <1>5 DEF Subs

\* The calls of the programs that clean nothing up.
PlainOps == {"printf", "sleep", "testcancel", "compute", "copy", "disable", "enable",
             "async", "deferred", "back", "spin"}

LEMMA PlainScripts ==
  ASSUME cancel_version \in Cancel!Version \ {"cleanup", "cleanup_v1", "cleanup_v2"},
         NEW t, NEW k \in Nat \ {0}, ~(k > Len(Cancel!Script(t)))
  PROVE  Cancel!Script(t)[k] \in PlainOps
  <1> USE DEF PlainOps
  <1>1. CASE cancel_version = "deferred"
    BY <1>1 DEF Cancel!Script, Cancel!deferred
  <1>2. CASE cancel_version = "async"
    BY <1>2 DEF Cancel!Script, Cancel!async
  <1>3. CASE cancel_version = "deferred_v1"
    BY <1>3 DEF Cancel!Script, Cancel!deferred_v1
  <1>4. CASE cancel_version = "deferred_v2"
    BY <1>4 DEF Cancel!Script, Cancel!deferred_v2
  <1>5. CASE cancel_version = "async_matrix"
    BY <1>5 DEF Cancel!Script, Cancel!async_matrix
  <1> QED BY <1>1, <1>2, <1>3, <1>4, <1>5 DEF Cancel!Version

LEMMA ContractorScripts ==
  ASSUME cancel_version = "cleanup_v2", NEW t,
         NEW k \in Nat \ {0}, ~(k > Len(Cancel!Script(t)))
  PROVE  /\ t # 1 => Cancel!Script(t)[k] \in PlainOps
         /\ t = 1 => /\ k <= PopAt
                     /\ k < PushAt => Cancel!Script(t)[k] \in {"printf", "create"}
                     /\ k = PushAt => Cancel!Script(t)[k] = "push_v2"
                     /\ k > PushAt /\ k < PopAt => Cancel!Script(t)[k] = "join"
                     /\ k = PopAt => Cancel!Script(t)[k] = "pop"
  <1>1. CASE t # 1
    <2>1. Cancel!Script(t) = <<"testcancel", "back">>
      BY <1>1 DEF Cancel!Script, Cancel!First, Cancel!sub_contractor
    <2> QED BY <1>1, <2>1 DEF PlainOps
  <1>2. CASE t = 1
    <2> DEFINE n == Subs
               Ops == {"printf", "create", "push_v2", "join", "pop"}
               s1 == [j \in 1 .. 2 * n |-> IF j % 2 = 1 THEN "printf" ELSE "create"]
               s2 == [j \in 1 .. n |-> "join"]
    <2>1. n \in Nat
      BY TeamFinite
    <2>2. Cancel!Script(t) = s1 \o <<"push_v2">> \o s2 \o <<"pop">>
      BY <1>2 DEF Cancel!Script, Cancel!First, Cancel!contractor, Subs, Cancel!Cardinality,
         Cardinality, Cancel!IsFiniteSet, IsFiniteSet
    <2> HIDE DEF n
    <2>3. /\ s1 \in Seq(Ops) /\ Len(s1) = 2 * n
          /\ \A j \in 1 .. 2 * n : s1[j] \in {"printf", "create"}
      <3>1. 2 * n \in Nat
        BY <2>1
      <3>2. s1 \in [1 .. 2 * n -> Ops]
        OBVIOUS
      <3>3. s1 \in Seq(Ops) /\ Len(s1) = 2 * n
        BY <3>1, <3>2, SeqDef, LenProperties, ElementOfSeq
      <3>4. \A j \in 1 .. 2 * n : s1[j] \in {"printf", "create"}
        OBVIOUS
      <3> QED BY <3>3, <3>4
    <2>4. /\ s2 \in Seq(Ops) /\ Len(s2) = n
          /\ \A j \in 1 .. n : s2[j] = "join"
      <3>1. s2 \in [1 .. n -> Ops]
        OBVIOUS
      <3>2. s2 \in Seq(Ops) /\ Len(s2) = n
        BY <2>1, <3>1, SeqDef, LenProperties, ElementOfSeq
      <3> QED BY <3>2
    <2>e. \A e \in Ops : <<e>> \in Seq(Ops) /\ Len(<<e>>) = 1 /\ <<e>>[1] = e
      OBVIOUS
    <2>o. "push_v2" \in Ops /\ "pop" \in Ops
      OBVIOUS
    <2> HIDE DEF s1, s2, Ops
    <2> DEFINE a == s1 \o <<"push_v2">>
               b == a \o s2
    <2>5. /\ a \in Seq(Ops) /\ Len(a) = 2 * n + 1
          /\ \A j \in 1 .. 2 * n : a[j] = s1[j]
          /\ a[2 * n + 1] = "push_v2"
      BY <2>1, <2>3, <2>e, <2>o, ConcatProperties
    <2> HIDE DEF a
    <2>6. /\ b \in Seq(Ops) /\ Len(b) = 3 * n + 1
          /\ \A j \in 1 .. 2 * n + 1 : b[j] = a[j]
          /\ \A j \in 2 * n + 2 .. 3 * n + 1 : b[j] = s2[j - (2 * n + 1)]
      <3>1. b \in Seq(Ops) /\ Len(b) = Len(a) + Len(s2)
        BY <2>4, <2>5, ConcatProperties
      <3>2. \A j \in 1 .. Len(a) + Len(s2) :
              b[j] = IF j <= Len(a) THEN a[j] ELSE s2[j - Len(a)]
        BY <2>4, <2>5, ConcatProperties
      <3> HIDE DEF b
      <3> QED BY <2>1, <2>4, <2>5, <3>1, <3>2
    <2> HIDE DEF b
    <2>7. /\ Len(Cancel!Script(t)) = 3 * n + 2
          /\ \A j \in 1 .. 2 * n : Cancel!Script(t)[j] = s1[j]
          /\ Cancel!Script(t)[2 * n + 1] = "push_v2"
          /\ \A j \in 2 * n + 2 .. 3 * n + 1 : Cancel!Script(t)[j] = s2[j - (2 * n + 1)]
          /\ Cancel!Script(t)[3 * n + 2] = "pop"
      <3>1. Cancel!Script(t) = b \o <<"pop">>
        BY <2>2 DEF a, b
      <3>2. Len(Cancel!Script(t)) = 3 * n + 2
        BY <3>1, <2>1, <2>6, <2>e, <2>o, ConcatProperties
      <3>3. \A j \in 1 .. 3 * n + 1 : Cancel!Script(t)[j] = b[j]
        BY <3>1, <2>1, <2>6, <2>e, <2>o, ConcatProperties
      <3>4. Cancel!Script(t)[3 * n + 2] = "pop"
        BY <3>1, <2>1, <2>6, <2>e, <2>o, ConcatProperties
      <3> QED BY <2>1, <2>5, <2>6, <3>2, <3>3, <3>4
    <2> QED BY <1>2, <2>1, <2>3, <2>4, <2>7 DEF PushAt, PopAt, n
  <1> QED BY <1>1, <1>2

---------------------------------------------------------------------------
LEMMA CancelInit == Init => CancelInv
  <1> SUFFICES ASSUME Init PROVE CancelInv
    OBVIOUS
  <1> USE DEF Init, Cancel!Init
  <1>1. \A S : <<>> \in Seq(S)
    OBVIOUS
  <1>2. CancelTypes
    BY <1>1 DEF CancelTypes
  <1>3. NothingToClean
    BY <1>1, TeamFinite DEF NothingToClean, PushAt
  <1>4. MemoryPushed
    BY TeamFinite DEF MemoryPushed, Cancel!Created, Cancel!First
  <1>5. WaitersCounted
    <2>1. Waiters = {}
      BY DEF Waiters
    <2> QED BY <2>1, FS_EmptySet DEF WaitersCounted, Cancel!Created
  <1> QED BY <1>2, <1>3, <1>4, <1>5 DEF CancelInv

\* The calls of 5-cancel_cleanup.c and cleanup_v1.c.
LEMMA CleaningScripts ==
  ASSUME NEW t, NEW k \in Nat \ {0}, ~(k > Len(Cancel!Script(t)))
  PROVE  /\ cancel_version = "cleanup" =>
              /\ k \in 1 .. 10
              /\ k \in {1, 7} <=> Cancel!Script(t)[k] = "printf"
              /\ k = 2 <=> Cancel!Script(t)[k] = "disable"
              /\ k = 3 <=> Cancel!Script(t)[k] = "matrix"
              /\ k = 4 <=> Cancel!Script(t)[k] = "push_a"
              /\ k = 5 <=> Cancel!Script(t)[k] = "rows"
              /\ k = 6 <=> Cancel!Script(t)[k] = "push_b"
              /\ k = 8 <=> Cancel!Script(t)[k] = "enable"
              /\ k = 9 <=> Cancel!Script(t)[k] = "testcancel"
              /\ k = 10 <=> Cancel!Script(t)[k] = "back"
         /\ cancel_version = "cleanup_v1" =>
              /\ k \in 1 .. 4
              /\ k = 1 <=> Cancel!Script(t)[k] = "push_v1"
              /\ k = 2 <=> Cancel!Script(t)[k] = "lock"
              /\ k = 3 <=> Cancel!Script(t)[k] = "cond_wait"
              /\ k = 4 <=> Cancel!Script(t)[k] = "pop"
  <1>1. CASE cancel_version = "cleanup"
    <2>1. Cancel!Script(t) =
            <<"printf", "disable", "matrix", "push_a", "rows", "push_b", "printf", "enable",
              "testcancel", "back">>
      BY <1>1 DEF Cancel!Script, Cancel!cleanup
    <2>2. k \in 1 .. 10
      BY <2>1
    <2> QED BY <1>1, <2>1, <2>2
  <1>2. CASE cancel_version = "cleanup_v1"
    <2>1. Cancel!Script(t) = <<"push_v1", "lock", "cond_wait", "pop">>
      BY <1>2 DEF Cancel!Script, Cancel!cleanup_v1
    <2>2. k \in 1 .. 4
      BY <2>1
    <2> QED BY <1>2, <2>1, <2>2
  <1> QED BY <1>1, <1>2

\* A thread that pops a handler has one.
LEMMA PopsHandler ==
  ASSUME CancelInv, NEW t \in Cancel!Team, Cancel!Passes(t, "pop")
  PROVE  handlers[t] # <<>>
  <1>1. /\ cancel_at[t] \in Nat \ {0} /\ cancel_status[t] = "running"
        /\ Cancel!Script(t)[cancel_at[t]] = "pop"
        /\ ~(cancel_at[t] > Len(Cancel!Script(t)))
        /\ cancel_version \in Cancel!Version
    BY DEF CancelInv, CancelTypes, Cancel!Passes, Cancel!Done, Cancel!Op
  <1>2. CASE cancel_version \in Cleaning
    <2>1. cancel_version = "cleanup_v1" /\ cancel_at[t] = 4
      BY <1>1, <1>2, CleaningScripts DEF Cleaning
    <2> QED BY <1>1, <2>1 DEF CancelInv, WaitersCounted
  <1>3. CASE cancel_version = "cleanup_v2"
    <2>1. t = 1 /\ cancel_at[t] = PopAt
      BY <1>1, <1>3, ContractorScripts, TeamFinite DEF PlainOps, PushAt, PopAt
    <2> QED BY <1>1, <1>3, <2>1, TeamFinite
            DEF CancelInv, NothingToClean, Cleaning, PushAt, PopAt
  <1>4. CASE cancel_version \notin Cleaning \cup {"cleanup_v2"}
    BY <1>1, <1>4, PlainScripts DEF Cleaning, PlainOps
  <1> QED BY <1>2, <1>3, <1>4

\* What a step of a thread does, as far as the invariant tells the calls apart.
LEMMA CancelTypesStep == CancelInv /\ [Cancel!Next]_cancel_vars => CancelTypes'
  <1> SUFFICES ASSUME CancelInv, [Cancel!Next]_cancel_vars PROVE CancelTypes'
    OBVIOUS
  <1>0. CancelTypes
    BY DEF CancelInv
  <1> USE <1>0 DEF CancelTypes, Cancel!main_state, Cancel!cancelability, Cancel!cleanable
  <1>1. CASE UNCHANGED cancel_vars
    BY <1>1 DEF cancel_vars
  <1>2. CASE UNCHANGED Cancel!vars
    BY <1>2 DEF Cancel!vars
  <1>3. CASE Cancel!main
    BY <1>3 DEF Cancel!main, Cancel!pthread_cancel, Cancel!pthread_join
  <1>4. ASSUME NEW t \in Cancel!Team, Cancel!my_thread(t) PROVE CancelTypes'
    <2> USE DEF Cancel!Passes
    <2>f. ASSUME UNCHANGED <<cancel_version, cancel_status, handlers, cancel_mutex>>,
                 cancel_at' = [cancel_at EXCEPT ![t] = @ + 1]
          PROVE  CancelTypes'
      BY <2>f
    <2>1. CASE Cancel!Plain(t)
      BY <2>1, <2>f, Zenon DEF Cancel!Plain
    <2>2. CASE Cancel!pthread_setcancelstate(t)
      BY <2>2, <2>f, Zenon DEF Cancel!pthread_setcancelstate
    <2>3. CASE Cancel!pthread_setcanceltype(t)
      BY <2>3, <2>f, Zenon DEF Cancel!pthread_setcanceltype
    <2>4. CASE Cancel!malloc(t)
      BY <2>4, <2>f, Zenon DEF Cancel!malloc
    <2>5. CASE Cancel!pthread_cleanup_push(t)
      <3> DEFINE H == {"push_a", "push_b", "push_v1", "push_v2"}
      <3>1. PICK h \in H : Cancel!Passes(t, h) /\ handlers' = [handlers EXCEPT ![t] = <<h>> \o @]
        BY <2>5 DEF Cancel!pthread_cleanup_push
      <3>2. <<h>> \o handlers[t] \in Seq(H)
        OBVIOUS
      <3> QED BY <2>5, <3>1, <3>2 DEF Cancel!pthread_cleanup_push
    <2>6. CASE Cancel!pthread_cleanup_pop(t)
      <3>1. handlers[t] # <<>>
        BY <2>6, PopsHandler DEF Cancel!pthread_cleanup_pop
      <3>2. Tail(handlers[t]) \in Seq({"push_a", "push_b", "push_v1", "push_v2"})
        BY <3>1
      <3> QED BY <2>6, <3>2 DEF Cancel!pthread_cleanup_pop
    <2>7. CASE Cancel!Loop(t)
      BY <2>7 DEF Cancel!Loop, Cancel!LoopStart
    <2>8. CASE Cancel!LockAndCount(t)
      BY <2>8 DEF Cancel!LockAndCount
    <2>9. CASE Cancel!CondWait(t)
      BY <2>9 DEF Cancel!CondWait
    <2>10. CASE Cancel!CreateSub(t)
      <3>1. PICK k : k = cancel_at[t] \div 2 + 1
        OBVIOUS
      <3>2. cancel_status' = [cancel_status EXCEPT ![k] = "running"]
        BY <2>10, <3>1 DEF Cancel!CreateSub
      <3>3. cancel_status' \in [Cancel!Team ->
                                {"none", "running", "unwinding", "cancelled", "returned"}]
        BY <3>2
      <3> QED BY <2>10, <3>3 DEF Cancel!CreateSub
    <2>11. CASE Cancel!JoinSub(t)
      BY <2>11 DEF Cancel!JoinSub
    <2>12. CASE Cancel!Return(t)
      BY <2>12 DEF Cancel!Return
    <2>13. CASE Cancel!Cancelled(t)
      BY <2>13 DEF Cancel!Cancelled
    <2>14. CASE Cancel!cleanup_handler(t)
      <3> USE <2>14 DEF Cancel!cleanup_handler, Cancel!cleanup_a, Cancel!cleanup_b,
              Cancel!cleanup_handler_v1, Cancel!cleanup_handler_v2, Cancel!Unwinds
      <3>1. /\ handlers[t] # <<>> /\ handlers' = [handlers EXCEPT ![t] = Tail(@)]
            /\ UNCHANGED <<cancel_version, cancel_at, cancel_status>>
            /\ cancel_mutex' \in {cancel_mutex, {}}
        OBVIOUS
      <3>2. Tail(handlers[t]) \in Seq({"push_a", "push_b", "push_v1", "push_v2"})
        BY <3>1
      <3> QED BY <3>1, <3>2
    <2>15. CASE Cancel!Unwound(t)
      BY <2>15 DEF Cancel!Unwound
    <2> QED BY <1>4, <2>1, <2>2, <2>3, <2>4, <2>5, <2>6, <2>7, <2>8, <2>9, <2>10, <2>11,
            <2>12, <2>13, <2>14, <2>15 DEF Cancel!my_thread
  <1> QED BY <1>1, <1>2, <1>3, <1>4 DEF Cancel!Next

\* Where a thread is when it makes a call, and that it may.
LEMMA PassesOp ==
  ASSUME CancelInv, NEW t \in Cancel!Team, NEW op, Cancel!Passes(t, op)
  PROVE  /\ cancel_status[t] = "running"
         /\ Cancel!Script(t)[cancel_at[t]] = op
         /\ cancel_at[t] \in Nat \ {0} /\ ~(cancel_at[t] > Len(Cancel!Script(t)))
         /\ cancel_at' = [cancel_at EXCEPT ![t] = @ + 1]
  BY DEF CancelInv, CancelTypes, Cancel!Passes, Cancel!Done, Cancel!Op

\* The calls of the programs with nothing to clean up, and the contractor's.
LEMMA CleanCalls ==
  ASSUME CancelTypes, cancel_version \notin Cleaning, NEW t \in Cancel!Team, ~Cancel!Done(t)
  PROVE  /\ t # 1 \/ cancel_version # "cleanup_v2" => Cancel!Op(t) \in PlainOps
         /\ t = 1 /\ cancel_version = "cleanup_v2" =>
              /\ cancel_at[1] <= PopAt
              /\ cancel_at[1] # PushAt /\ cancel_at[1] # PopAt =>
                   Cancel!Op(t) \in {"printf", "create", "join"}
              /\ cancel_at[1] = PushAt => Cancel!Op(t) = "push_v2"
              /\ cancel_at[1] = PopAt => Cancel!Op(t) = "pop"
  <1>1. /\ cancel_at[t] \in Nat \ {0} /\ ~(cancel_at[t] > Len(Cancel!Script(t)))
        /\ Cancel!Op(t) = Cancel!Script(t)[cancel_at[t]]
        /\ cancel_version \in Cancel!Version
    BY DEF CancelTypes, Cancel!Done, Cancel!Op
  <1>2. PushAt \in Nat /\ PopAt \in Nat
    BY TeamFinite DEF PushAt, PopAt
  <1>3. CASE cancel_version = "cleanup_v2"
    BY <1>1, <1>2, <1>3, ContractorScripts
  <1>4. CASE cancel_version # "cleanup_v2"
    <2>1. cancel_version \in Cancel!Version \ {"cleanup", "cleanup_v1", "cleanup_v2"}
      BY <1>1, <1>4 DEF Cleaning
    <2>2. Cancel!Op(t) \in PlainOps
      BY <1>1, <2>1, PlainScripts
    <2> QED BY <1>4, <2>2
  <1> QED BY <1>3, <1>4

\* A behaviour runs one of the programs.
LEMMA VersionKept ==
  ASSUME [Cancel!Next]_cancel_vars
  PROVE  cancel_version' = cancel_version
  BY DEF cancel_vars, Cancel!Next, Cancel!vars, Cancel!main, Cancel!pthread_cancel,
     Cancel!pthread_join, Cancel!my_thread, Cancel!Plain, Cancel!pthread_setcancelstate,
     Cancel!pthread_setcanceltype, Cancel!malloc, Cancel!pthread_cleanup_push,
     Cancel!pthread_cleanup_pop, Cancel!Loop, Cancel!LockAndCount, Cancel!CondWait,
     Cancel!CreateSub, Cancel!JoinSub, Cancel!Return, Cancel!Cancelled,
     Cancel!cleanup_handler, Cancel!cleanup_a, Cancel!cleanup_b,
     Cancel!cleanup_handler_v1, Cancel!cleanup_handler_v2, Cancel!Unwinds, Cancel!Unwound,
     Cancel!main_state

\* How many calls the two programs make.
LEMMA CleaningLengths ==
  ASSUME NEW t
  PROVE  /\ cancel_version = "cleanup" => Len(Cancel!Script(t)) = 10
         /\ cancel_version = "cleanup_v1" => Len(Cancel!Script(t)) = 4
  <1>1. CASE cancel_version = "cleanup"
    BY <1>1 DEF Cancel!Script, Cancel!cleanup
  <1>2. CASE cancel_version = "cleanup_v1"
    BY <1>2 DEF Cancel!Script, Cancel!cleanup_v1
  <1> QED BY <1>1, <1>2

LEMMA NothingToCleanStep ==
  CancelInv /\ CancelTypes' /\ [Cancel!Next]_cancel_vars => NothingToClean'
  <1> SUFFICES ASSUME CancelInv, CancelTypes', [Cancel!Next]_cancel_vars,
                      cancel_version' \notin Cleaning
               PROVE  NothingToClean'
    BY DEF NothingToClean
  <1> USE DEF Cancel!main_state, Cancel!cancelability, Cancel!cleanable
  <1>v. cancel_version' = cancel_version
    BY VersionKept
  <1>0. /\ CancelTypes /\ cancel_version \notin Cleaning
        /\ memory = {} /\ cancel_mutex = {} /\ counter = 0
        /\ \A t \in Cancel!Team : handlers[t] \in Seq({"push_v2"})
    BY <1>v DEF CancelInv, NothingToClean
  <1>s. /\ 1 \in Cancel!Team /\ PushAt \in Nat /\ PopAt \in Nat /\ PushAt < PopAt
    BY TeamFinite DEF PushAt, PopAt
  <1>a. cancel_version = "cleanup_v2" /\ cancel_status[1] = "running"
          /\ cancel_at[1] > PushAt /\ cancel_at[1] <= PopAt => handlers[1] # <<>>
    BY <1>0 DEF CancelInv, NothingToClean
  \* The calls the scripts of these programs hold.
  <1>1. ASSUME NEW t \in Cancel!Team, NEW op, Cancel!Passes(t, op)
        PROVE  /\ op \in PlainOps \cup {"create", "join", "push_v2", "pop"}
               /\ t = 1 /\ cancel_version = "cleanup_v2" =>
                    /\ cancel_at[1] # PushAt => op # "push_v2"
                    /\ cancel_at[1] = PushAt => op = "push_v2"
                    /\ cancel_at[1] # PopAt => op # "pop"
                    /\ cancel_at[1] = PopAt => op = "pop"
                    /\ cancel_at[1] <= PopAt
               /\ t # 1 \/ cancel_version # "cleanup_v2" => op \in PlainOps
    <2>1. ~Cancel!Done(t) /\ Cancel!Op(t) = op
      BY <1>1 DEF Cancel!Passes
    <2> QED BY <1>0, <1>s, <2>1, CleanCalls DEF PlainOps
  <1> DEFINE Clean == memory' = {} /\ cancel_mutex' = {} /\ counter' = 0
  <1>2. ASSUME UNCHANGED handlers, Clean,
               \/ UNCHANGED <<cancel_at, cancel_status>>
               \/ cancel_status'[1] # "running"
               \/ /\ cancel_status'[1] = "running" => cancel_status[1] = "running"
                  /\ \/ cancel_at'[1] = cancel_at[1]
                     \/ cancel_version # "cleanup_v2"
                     \/ /\ cancel_at'[1] = cancel_at[1] + 1
                        /\ cancel_at[1] # PushAt
        PROVE  NothingToClean'
    BY <1>0, <1>s, <1>a, <1>v, <1>2 DEF NothingToClean, CancelTypes
  <1>3. ASSUME NEW t \in Cancel!Team, NEW op, op # "push_v2", Cancel!Passes(t, op)
        PROVE  \/ cancel_at'[1] = cancel_at[1]
               \/ cancel_version # "cleanup_v2"
               \/ cancel_at'[1] = cancel_at[1] + 1 /\ cancel_at[1] # PushAt
    BY <1>0, <1>1, <1>3, <1>s, PassesOp DEF CancelTypes
  <1>4. CASE UNCHANGED cancel_vars \/ UNCHANGED Cancel!vars
    BY <1>0, <1>2, <1>4 DEF cancel_vars, Cancel!vars
  <1>5. CASE Cancel!main
    BY <1>0, <1>2, <1>5 DEF Cancel!main, Cancel!pthread_cancel, Cancel!pthread_join
  <1>6. ASSUME NEW t \in Cancel!Team, Cancel!my_thread(t) PROVE NothingToClean'
    <2>1. CASE Cancel!Plain(t)
      <3>1. PICK op \in {"printf", "sleep", "testcancel", "compute", "copy"} : Cancel!Passes(t, op)
        BY <2>1 DEF Cancel!Plain
      <3> QED BY <1>0, <1>2, <1>3, <2>1, <3>1 DEF Cancel!Plain
    <2>2. CASE Cancel!pthread_setcancelstate(t)
      BY <1>0, <1>2, <1>3, <2>2 DEF Cancel!pthread_setcancelstate
    <2>3. CASE Cancel!pthread_setcanceltype(t)
      BY <1>0, <1>2, <1>3, <2>3 DEF Cancel!pthread_setcanceltype
    <2>4. CASE Cancel!malloc(t)
      BY <1>1, <2>4 DEF Cancel!malloc, PlainOps
    <2>5. CASE Cancel!pthread_cleanup_push(t)
      <3>1. /\ Cancel!Passes(t, "push_v2") /\ t = 1 /\ cancel_version = "cleanup_v2"
            /\ handlers' = [handlers EXCEPT ![t] = <<"push_v2">> \o @]
        BY <1>1, <2>5 DEF Cancel!pthread_cleanup_push, PlainOps
      <3>2. <<"push_v2">> \o handlers[t] \in Seq({"push_v2"}) /\ <<"push_v2">> \o handlers[t] # <<>>
        BY <1>0
      <3>3. Clean
        BY <1>0, <2>5 DEF Cancel!pthread_cleanup_push
      <3> QED BY <1>0, <3>1, <3>2, <3>3 DEF NothingToClean, CancelTypes
    <2>6. CASE Cancel!pthread_cleanup_pop(t)
      <3>1. /\ Cancel!Passes(t, "pop") /\ t = 1 /\ cancel_version = "cleanup_v2"
            /\ cancel_at[1] = PopAt /\ cancel_at'[1] = PopAt + 1
            /\ handlers' = [handlers EXCEPT ![t] = Tail(@)] /\ handlers[t] # <<>>
        <4>1. Cancel!Passes(t, "pop")
          BY <2>6 DEF Cancel!pthread_cleanup_pop
        <4>2. t = 1 /\ cancel_version = "cleanup_v2" /\ cancel_at[1] = PopAt
          BY <1>1, <4>1 DEF PlainOps
        <4> QED BY <1>0, <4>1, <4>2, <2>6, PassesOp, PopsHandler
                DEF Cancel!pthread_cleanup_pop, CancelTypes
      <3>2. Tail(handlers[t]) \in Seq({"push_v2"})
        BY <1>0, <3>1
      <3>3. Clean
        BY <1>0, <2>6, <3>1 DEF Cancel!pthread_cleanup_pop
      <3> QED BY <1>0, <1>s, <3>1, <3>2, <3>3 DEF NothingToClean, CancelTypes
    <2>7. CASE Cancel!Loop(t)
      <3>1. cancel_version = "cleanup_v2" => t # 1
        BY <1>0, <2>7, CleanCalls DEF Cancel!Loop
      <3> QED BY <1>0, <1>2, <2>7, <3>1 DEF Cancel!Loop, CancelTypes
    <2>8. CASE Cancel!LockAndCount(t)
      BY <1>1, <2>8 DEF Cancel!LockAndCount, PlainOps
    <2>9. CASE Cancel!CondWait(t)
      BY <1>0, <2>9 DEF Cancel!CondWait
    <2>10. CASE Cancel!CreateSub(t)
      <3>1. t = 1
        BY <1>1, <2>10 DEF Cancel!CreateSub, PlainOps
      <3> QED BY <1>0, <1>2, <1>3, <2>10, <3>1, PassesOp DEF Cancel!CreateSub
    <2>11. CASE Cancel!JoinSub(t)
      BY <1>0, <1>2, <1>3, <2>11 DEF Cancel!JoinSub
    <2>12. CASE Cancel!Return(t)
      BY <1>0, <1>2, <2>12 DEF Cancel!Return, CancelTypes
    <2>13. CASE Cancel!Cancelled(t)
      <3>1. ~Cancel!Done(t) => Cancel!Op(t) # "cond_wait"
        BY <1>0, CleanCalls DEF PlainOps
      <3> QED BY <1>0, <1>2, <2>13, <3>1 DEF Cancel!Cancelled, CancelTypes
    <2>14. CASE Cancel!cleanup_handler(t)
      <3>1. handlers[t] # <<>> /\ Head(handlers[t]) = "push_v2" /\ Tail(handlers[t]) \in Seq({"push_v2"})
        BY <1>0, <2>14 DEF Cancel!cleanup_handler, Cancel!cleanup_a, Cancel!cleanup_b,
           Cancel!cleanup_handler_v1, Cancel!cleanup_handler_v2, Cancel!Unwinds
      <3>2. Cancel!cleanup_handler_v2(t)
        BY <3>1, <2>14 DEF Cancel!cleanup_handler, Cancel!cleanup_a, Cancel!cleanup_b,
           Cancel!cleanup_handler_v1, Cancel!Unwinds
      <3> QED BY <1>0, <1>a, <1>s, <3>1, <3>2
              DEF Cancel!cleanup_handler_v2, Cancel!Unwinds, NothingToClean, CancelTypes
    <2>15. CASE Cancel!Unwound(t)
      BY <1>0, <1>2, <2>15 DEF Cancel!Unwound, CancelTypes
    <2> QED BY <1>6, <2>1, <2>2, <2>3, <2>4, <2>5, <2>6, <2>7, <2>8, <2>9, <2>10, <2>11,
            <2>12, <2>13, <2>14, <2>15 DEF Cancel!my_thread
  <1> QED BY <1>4, <1>5, <1>6 DEF Cancel!Next

\* The two stacks that 5-cancel_cleanup.c builds.
LEMMA PushedStacks ==
  /\ <<"push_a">> \o <<>> = <<"push_a">>
  /\ <<"push_b">> \o <<"push_a">> = <<"push_b", "push_a">>
  /\ <<"push_a">> # <<>> /\ <<"push_b", "push_a">> # <<>>
  <1>1. <<"push_a">> \o <<>> = <<"push_a">>
    BY ConcatEmptySeq
  <1>2. <<"push_b">> \o <<"push_a">> = <<"push_b", "push_a">>
    <2> DEFINE Names == {"push_a", "push_b"}
               s == <<"push_b">> \o <<"push_a">>
    <2>1. <<"push_b">> \in Seq(Names) /\ <<"push_a">> \in Seq(Names)
      OBVIOUS
    <2>2. s \in Seq(Names) /\ Len(s) = 2
      BY <2>1, ConcatProperties
    <2>3. s[1] = "push_b" /\ s[2] = "push_a"
      BY <2>1, ConcatProperties
    <2> HIDE DEF s
    <2>4. s = <<"push_b", "push_a">>
      BY <2>2, <2>3
    <2> QED BY <2>4 DEF s
  <1>3. <<"push_a">> # <<>> /\ <<"push_b", "push_a">> # <<>>
    OBVIOUS
  <1> QED BY <1>1, <1>2, <1>3

LEMMA MemoryPushedStep ==
  CancelInv /\ CancelTypes' /\ [Cancel!Next]_cancel_vars => MemoryPushed'
  <1> SUFFICES ASSUME CancelInv, CancelTypes', [Cancel!Next]_cancel_vars,
                      cancel_version' = "cleanup"
               PROVE  MemoryPushed'
    BY DEF MemoryPushed
  <1> USE DEF Cancel!main_state, Cancel!cancelability, Cancel!cleanable
  <1> DEFINE k == cancel_at[1]
  <1>0. /\ cancel_version = "cleanup" /\ cancel_version' = cancel_version
        /\ CancelTypes /\ MemoryPushed /\ 1 \in Cancel!Team
    BY VersionKept, TeamFinite DEF CancelInv
  <1>m. /\ cancel_mutex = {} /\ counter = 0 /\ asynchronous = {}
        /\ \A t \in Cancel!Team \ {1} : cancel_status[t] = "none" /\ handlers[t] = <<>>
        /\ cancel_status[1] = "running" =>
             /\ k \in 1 .. 10
             /\ k \in 3 .. 8 => 1 \notin enabled
             /\ memory = IF k <= 3 THEN {} ELSE IF k <= 5 THEN {"matrix"} ELSE {"matrix", "rows"}
             /\ handlers[1] = IF k <= 4 THEN <<>> ELSE IF k <= 6 THEN <<"push_a">>
                              ELSE <<"push_b", "push_a">>
        /\ cancel_status[1] # "running" =>
             \/ memory = {} /\ handlers[1] = <<>>
             \/ /\ cancel_status[1] = "unwinding"
                /\ \/ memory = {"matrix"} /\ handlers[1] = <<"push_a">>
                   \/ memory = {"matrix", "rows"} /\ handlers[1] = <<"push_b", "push_a">>
    BY <1>0 DEF MemoryPushed
  \* Where the one thread is when it makes a call.
  <1>1. ASSUME NEW t \in Cancel!Team, NEW op, Cancel!Passes(t, op)
        PROVE  /\ t = 1 /\ cancel_status[1] = "running" /\ k \in 1 .. 10
               /\ cancel_at' = [cancel_at EXCEPT ![1] = k + 1] /\ cancel_at'[1] = k + 1
               /\ k \in {1, 7} <=> op = "printf"
               /\ k = 2 <=> op = "disable"
               /\ k = 3 <=> op = "matrix"
               /\ k = 4 <=> op = "push_a"
               /\ k = 5 <=> op = "rows"
               /\ k = 6 <=> op = "push_b"
               /\ k = 8 <=> op = "enable"
               /\ k = 9 <=> op = "testcancel"
               /\ k = 10 <=> op = "back"
    <2>1. t = 1
      BY <1>m, <1>1 DEF Cancel!Passes
    <2> QED BY <1>0, <1>1, <2>1, PassesOp, CleaningScripts DEF CancelTypes
  <1>2. CASE UNCHANGED cancel_vars \/ UNCHANGED Cancel!vars
    BY <1>0, <1>m, <1>2 DEF cancel_vars, Cancel!vars, MemoryPushed
  <1>3. CASE Cancel!main
    BY <1>0, <1>m, <1>3 DEF Cancel!main, Cancel!pthread_cancel, Cancel!pthread_join, MemoryPushed
  <1>4. ASSUME NEW t \in Cancel!Team, Cancel!my_thread(t) PROVE MemoryPushed'
    <2>1. CASE Cancel!Plain(t)
      <3>1. PICK op \in {"printf", "sleep", "testcancel", "compute", "copy"} : Cancel!Passes(t, op)
        BY <2>1 DEF Cancel!Plain
      <3>2. k \in {1, 7, 9}
        BY <1>1, <3>1
      <3> QED BY <1>0, <1>m, <1>1, <2>1, <3>1, <3>2 DEF Cancel!Plain, MemoryPushed
    <2>2. CASE Cancel!pthread_setcancelstate(t)
      BY <1>0, <1>m, <1>1, <2>2 DEF Cancel!pthread_setcancelstate, MemoryPushed
    <2>3. CASE Cancel!pthread_setcanceltype(t)
      <3>1. PICK op \in {"async", "deferred"} : Cancel!Passes(t, op)
        BY <2>3 DEF Cancel!pthread_setcanceltype
      <3> QED BY <1>1, <3>1
    <2>4. CASE Cancel!malloc(t)
      <3>1. PICK what \in {"matrix", "rows"} :
              Cancel!Passes(t, what) /\ memory' = memory \cup {what}
        BY <2>4 DEF Cancel!malloc
      <3> QED BY <1>0, <1>m, <1>1, <2>4, <3>1 DEF Cancel!malloc, MemoryPushed
    <2>5. CASE Cancel!pthread_cleanup_push(t)
      <3>1. PICK h \in {"push_a", "push_b", "push_v1", "push_v2"} :
              Cancel!Passes(t, h) /\ handlers' = [handlers EXCEPT ![t] = <<h>> \o @]
        BY <2>5 DEF Cancel!pthread_cleanup_push
      <3>2. \/ k = 4 /\ h = "push_a"
            \/ k = 6 /\ h = "push_b"
        BY <1>1, <3>1
      <3>3. handlers'[1] = <<h>> \o handlers[1]
        BY <1>0, <1>1, <3>1 DEF CancelTypes
      <3>4. \A u \in Cancel!Team \ {1} : handlers'[u] = handlers[u]
        BY <1>0, <1>1, <3>1 DEF CancelTypes
      <3>5. \/ k = 4 /\ handlers'[1] = <<"push_a">>
            \/ k = 6 /\ handlers'[1] = <<"push_b", "push_a">>
        <4>1. k = 4 => handlers[1] = <<>>
          BY <1>m, <1>1, <3>1
        <4>2. k = 6 => handlers[1] = <<"push_a">>
          BY <1>m, <1>1, <3>1
        <4> QED BY <3>2, <3>3, <4>1, <4>2, PushedStacks
      <3>6. /\ UNCHANGED <<cancel_status, enabled, asynchronous, requested, memory, counter,
                           cancel_mutex>>
            /\ cancel_at'[1] = k + 1 /\ cancel_status[1] = "running"
        BY <1>1, <2>5, <3>1 DEF Cancel!pthread_cleanup_push
      <3>7. CASE k = 4 /\ handlers'[1] = <<"push_a">>
        BY <1>0, <1>m, <3>4, <3>6, <3>7 DEF MemoryPushed
      <3>8. CASE k = 6 /\ handlers'[1] = <<"push_b", "push_a">>
        BY <1>0, <1>m, <3>4, <3>6, <3>8 DEF MemoryPushed
      <3> QED BY <3>5, <3>7, <3>8
    <2>6. CASE Cancel!pthread_cleanup_pop(t)
      BY <1>1, <2>6 DEF Cancel!pthread_cleanup_pop
    <2>7. CASE Cancel!Loop(t)
      <3>1. t = 1 /\ cancel_status[1] = "running" /\ k \in Nat \ {0}
            /\ ~(k > Len(Cancel!Script(1))) /\ Cancel!Script(1)[k] \in {"back", "spin"}
        BY <1>0, <1>m, <2>7 DEF Cancel!Loop, Cancel!Done, Cancel!Op, CancelTypes
      <3>2. k = 10 /\ Cancel!Script(1)[k] = "back"
        BY <1>0, <3>1, CleaningScripts
      <3>3. cancel_at'[1] = 9
        BY <1>0, <2>7, <3>1, <3>2 DEF Cancel!Loop, Cancel!Op, Cancel!LoopStart, CancelTypes
      <3> QED BY <1>0, <1>m, <2>7, <3>1, <3>2, <3>3 DEF Cancel!Loop, MemoryPushed
    <2>8. CASE Cancel!LockAndCount(t)
      BY <1>1, <2>8 DEF Cancel!LockAndCount
    <2>9. CASE Cancel!CondWait(t)
      BY <1>m, <2>9 DEF Cancel!CondWait
    <2>10. CASE Cancel!CreateSub(t)
      BY <1>1, <2>10 DEF Cancel!CreateSub
    <2>11. CASE Cancel!JoinSub(t)
      BY <1>1, <2>11 DEF Cancel!JoinSub
    <2>12. CASE Cancel!Return(t)
      <3>1. t = 1
        BY <1>m, <2>12 DEF Cancel!Return
      <3>2. k \in 1 .. 10 /\ k > Len(Cancel!Script(1))
        BY <1>m, <2>12, <3>1 DEF Cancel!Return, Cancel!Done
      <3>3. Len(Cancel!Script(1)) = 10
        BY <1>0, CleaningLengths
      <3>4. k > 10
        BY <3>2, <3>3
      <3>5. k \in 1 .. 10
        BY <3>2
      <3> QED BY <3>4, <3>5
    <2>13. CASE Cancel!Cancelled(t)
      <3>1. t = 1 /\ cancel_status[1] = "running" /\ 1 \in enabled /\ ~Cancel!Done(1)
            /\ Cancel!Op(1) \in Cancel!Must \cup Cancel!May
        BY <1>m, <2>13 DEF Cancel!Cancelled, Cancel!Pending
      <3>2. k \in {1, 9} /\ Cancel!Op(1) # "cond_wait"
        BY <1>0, <1>m, <3>1, CleaningScripts
           DEF Cancel!Done, Cancel!Op, Cancel!Must, Cancel!May, CancelTypes
      <3> QED BY <1>0, <1>m, <2>13, <3>1, <3>2 DEF Cancel!Cancelled, MemoryPushed, CancelTypes
    <2>14. CASE Cancel!cleanup_handler(t)
      <3>1. PICK h : Cancel!Unwinds(t, h)
        BY <2>14 DEF Cancel!cleanup_handler, Cancel!cleanup_a, Cancel!cleanup_b,
           Cancel!cleanup_handler_v1, Cancel!cleanup_handler_v2
      <3>2. t = 1 /\ cancel_status[1] = "unwinding" /\ handlers[1] # <<>>
        BY <1>m, <3>1 DEF Cancel!Unwinds
      <3>3. /\ handlers'[1] = Tail(handlers[1])
            /\ \A u \in Cancel!Team \ {1} : handlers'[u] = handlers[u]
            /\ UNCHANGED <<cancel_at, cancel_status, enabled, asynchronous>>
        BY <1>0, <3>1, <3>2 DEF Cancel!Unwinds, CancelTypes
      <3>4. CASE memory = {"matrix"} /\ handlers[1] = <<"push_a">>
        <4>1. Head(handlers[1]) = "push_a" /\ Tail(handlers[1]) = <<>>
          BY <3>4
        <4>2. Cancel!cleanup_a(t)
          BY <2>14, <3>2, <4>1 DEF Cancel!cleanup_handler, Cancel!cleanup_b,
             Cancel!cleanup_handler_v1, Cancel!cleanup_handler_v2, Cancel!Unwinds
        <4> QED BY <1>0, <1>m, <3>2, <3>3, <3>4, <4>1, <4>2 DEF Cancel!cleanup_a, MemoryPushed
      <3>5. CASE memory = {"matrix", "rows"} /\ handlers[1] = <<"push_b", "push_a">>
        <4>1. Head(handlers[1]) = "push_b" /\ Tail(handlers[1]) = <<"push_a">>
          BY <3>5
        <4>2. Cancel!cleanup_b(t)
          BY <2>14, <3>2, <4>1 DEF Cancel!cleanup_handler, Cancel!cleanup_a,
             Cancel!cleanup_handler_v1, Cancel!cleanup_handler_v2, Cancel!Unwinds
        <4> QED BY <1>0, <1>m, <3>2, <3>3, <3>5, <4>1, <4>2 DEF Cancel!cleanup_b, MemoryPushed
      <3> QED BY <1>m, <3>2, <3>4, <3>5
    <2>15. CASE Cancel!Unwound(t)
      <3>1. t = 1 /\ cancel_status'[1] = "cancelled" /\ handlers[1] = <<>> /\ memory = {}
        BY <1>0, <1>m, <2>15, PushedStacks DEF Cancel!Unwound, CancelTypes
      <3> QED BY <1>0, <1>m, <2>15, <3>1 DEF Cancel!Unwound, MemoryPushed, CancelTypes
    <2> QED BY <1>4, <2>1, <2>2, <2>3, <2>4, <2>5, <2>6, <2>7, <2>8, <2>9, <2>10, <2>11,
            <2>12, <2>13, <2>14, <2>15 DEF Cancel!my_thread
  <1> QED BY <1>2, <1>3, <1>4 DEF Cancel!Next

LEMMA WaitersCountedStep ==
  CancelInv /\ CancelTypes' /\ [Cancel!Next]_cancel_vars => WaitersCounted'
  <1> SUFFICES ASSUME CancelInv, CancelTypes', [Cancel!Next]_cancel_vars,
                      cancel_version' = "cleanup_v1"
               PROVE  WaitersCounted'
    BY DEF WaitersCounted
  <1> USE DEF Cancel!main_state, Cancel!cancelability, Cancel!cleanable
  <1>0. /\ cancel_version = "cleanup_v1" /\ cancel_version' = cancel_version
        /\ CancelTypes /\ WaitersCounted
    BY VersionKept DEF CancelInv
  <1>w. /\ memory = {} /\ asynchronous = {}
        /\ counter = Cardinality(Waiters)
        /\ \A t, u \in cancel_mutex : t = u
        /\ \A t \in Cancel!Team :
             /\ cancel_status[t] = "running" =>
                  /\ cancel_at[t] \in 1 .. 3
                  /\ handlers[t] = IF cancel_at[t] = 1 THEN <<>> ELSE <<"push_v1">>
             /\ cancel_status[t] = "unwinding" =>
                  /\ cancel_at[t] = 3
                  /\ handlers[t] = <<>> \/ (handlers[t] = <<"push_v1">> /\ t \in cancel_mutex)
             /\ cancel_status[t] \notin {"running", "unwinding"} => handlers[t] = <<>>
             /\ t \in cancel_mutex => cancel_at[t] = 3 /\ handlers[t] # <<>>
    BY <1>0 DEF WaitersCounted
  <1>e. /\ <<"push_v1">> # <<>> /\ <<"push_v1">> \o <<>> = <<"push_v1">>
        /\ Head(<<"push_v1">>) = "push_v1" /\ Tail(<<"push_v1">>) = <<>>
    BY ConcatEmptySeq
  <1>f. IsFiniteSet(Waiters) /\ Cardinality(Waiters) \in Nat
    BY TeamFinite DEF Waiters
  \* Where a thread is when it makes a call.
  <1>1. ASSUME NEW t \in Cancel!Team, NEW op, Cancel!Passes(t, op)
        PROVE  /\ cancel_status[t] = "running"
               /\ cancel_at' = [cancel_at EXCEPT ![t] = @ + 1]
               /\ cancel_at'[t] = cancel_at[t] + 1
               /\ \A u \in Cancel!Team \ {t} : cancel_at'[u] = cancel_at[u]
               /\ \/ cancel_at[t] = 1 /\ op = "push_v1"
                  \/ cancel_at[t] = 2 /\ op = "lock"
                  \/ cancel_at[t] = 3 /\ op = "cond_wait"
    <2>1. /\ cancel_status[t] = "running" /\ cancel_at[t] \in Nat \ {0}
          /\ ~(cancel_at[t] > Len(Cancel!Script(t)))
          /\ Cancel!Script(t)[cancel_at[t]] = op
          /\ cancel_at' = [cancel_at EXCEPT ![t] = @ + 1]
      BY <1>1, PassesOp
    <2>2. cancel_at[t] \in 1 .. 3
      BY <1>w, <2>1
    <2>3. \/ cancel_at[t] = 1 /\ op = "push_v1"
          \/ cancel_at[t] = 2 /\ op = "lock"
          \/ cancel_at[t] = 3 /\ op = "cond_wait"
      BY <1>0, <2>1, <2>2, CleaningScripts
    <2> QED BY <1>0, <2>1, <2>3 DEF CancelTypes
  <1>2. ASSUME UNCHANGED <<cancel_at, cancel_status, handlers, asynchronous, memory, counter,
                           cancel_mutex>>
        PROVE  WaitersCounted'
    BY <1>0, <1>w, <1>2 DEF WaitersCounted, Waiters
  <1>3. CASE UNCHANGED cancel_vars \/ UNCHANGED Cancel!vars
    BY <1>2, <1>3 DEF cancel_vars, Cancel!vars
  <1>4. CASE Cancel!main
    BY <1>2, <1>4 DEF Cancel!main, Cancel!pthread_cancel, Cancel!pthread_join
  <1>5. ASSUME NEW t \in Cancel!Team, Cancel!my_thread(t) PROVE WaitersCounted'
    <2>1. CASE Cancel!Plain(t)
      <3>1. PICK op \in {"printf", "sleep", "testcancel", "compute", "copy"} : Cancel!Passes(t, op)
        BY <2>1 DEF Cancel!Plain
      <3> QED BY <1>1, <3>1
    <2>2. CASE Cancel!pthread_setcancelstate(t)
      <3>1. PICK op \in {"disable", "enable"} : Cancel!Passes(t, op)
        BY <2>2 DEF Cancel!pthread_setcancelstate
      <3> QED BY <1>1, <3>1
    <2>3. CASE Cancel!pthread_setcanceltype(t)
      <3>1. PICK op \in {"async", "deferred"} : Cancel!Passes(t, op)
        BY <2>3 DEF Cancel!pthread_setcanceltype
      <3> QED BY <1>1, <3>1
    <2>4. CASE Cancel!malloc(t)
      <3>1. PICK op \in {"matrix", "rows"} : Cancel!Passes(t, op)
        BY <2>4 DEF Cancel!malloc
      <3> QED BY <1>1, <3>1
    <2>5. CASE Cancel!pthread_cleanup_push(t)
      <3>1. PICK h \in {"push_a", "push_b", "push_v1", "push_v2"} :
              Cancel!Passes(t, h) /\ handlers' = [handlers EXCEPT ![t] = <<h>> \o @]
        BY <2>5 DEF Cancel!pthread_cleanup_push
      <3>2. /\ h = "push_v1" /\ cancel_at[t] = 1 /\ cancel_at'[t] = 2
            /\ cancel_status[t] = "running"
            /\ \A u \in Cancel!Team \ {t} : cancel_at'[u] = cancel_at[u]
        BY <1>1, <3>1
      <3>3. handlers[t] = <<>> /\ t \notin cancel_mutex
        BY <1>w, <3>2
      <3>4. /\ handlers'[t] = <<"push_v1">>
            /\ \A u \in Cancel!Team \ {t} : handlers'[u] = handlers[u]
        BY <1>0, <1>e, <3>1, <3>2, <3>3 DEF CancelTypes
      <3>5. Waiters' = Waiters
        BY <3>2, <3>4 DEF Waiters
      <3>6. UNCHANGED <<cancel_status, asynchronous, memory, counter, cancel_mutex>>
        BY <2>5 DEF Cancel!pthread_cleanup_push
      <3> QED BY <1>0, <1>w, <3>2, <3>3, <3>4, <3>5, <3>6 DEF WaitersCounted
    <2>6. CASE Cancel!pthread_cleanup_pop(t)
      BY <1>1, <2>6 DEF Cancel!pthread_cleanup_pop
    <2>7. CASE Cancel!Loop(t)
      <3>1. /\ cancel_status[t] = "running" /\ cancel_at[t] \in Nat \ {0}
            /\ ~(cancel_at[t] > Len(Cancel!Script(t)))
            /\ Cancel!Script(t)[cancel_at[t]] \in {"back", "spin"}
        BY <1>0, <2>7 DEF Cancel!Loop, Cancel!Done, Cancel!Op, CancelTypes
      <3> QED BY <1>0, <1>w, <3>1, CleaningScripts
    <2>8. CASE Cancel!LockAndCount(t)
      <3>1. /\ cancel_at[t] = 2 /\ cancel_at'[t] = 3 /\ cancel_status[t] = "running"
            /\ \A u \in Cancel!Team \ {t} : cancel_at'[u] = cancel_at[u]
        BY <1>1, <2>8 DEF Cancel!LockAndCount
      <3>2. /\ cancel_mutex = {} /\ cancel_mutex' = {t} /\ counter' = counter + 1
            /\ UNCHANGED <<cancel_status, handlers, asynchronous, memory>>
        BY <2>8 DEF Cancel!LockAndCount
      <3>3. handlers[t] = <<"push_v1">>
        BY <1>w, <3>1
      <3>4. Waiters' = Waiters \cup {t} /\ t \notin Waiters
        <4>1. t \notin Waiters
          BY <3>1 DEF Waiters
        <4>2. handlers' = handlers /\ handlers[t] # <<>>
          BY <1>e, <3>2, <3>3
        <4>3. \A u \in Cancel!Team : u \in Waiters' <=> u = t \/ u \in Waiters
          <5>1. t \in Waiters'
            BY <3>1, <4>2 DEF Waiters
          <5>2. \A u \in Cancel!Team \ {t} : u \in Waiters' <=> u \in Waiters
            BY <3>1, <4>2 DEF Waiters
          <5> QED BY <5>1, <5>2
        <4>4. Waiters \subseteq Cancel!Team /\ Waiters' \subseteq Cancel!Team
          BY DEF Waiters
        <4> QED BY <4>1, <4>3, <4>4
      <3>5. counter' = Cardinality(Waiters')
        BY <1>f, <1>w, <3>2, <3>4, FS_AddElement
      <3> QED BY <1>0, <1>e, <1>w, <3>1, <3>2, <3>3, <3>5 DEF WaitersCounted
    <2>9. CASE Cancel!CondWait(t)
      <3>1. /\ cancel_mutex' = {} /\ cancel_status[t] = "running"
            /\ UNCHANGED <<cancel_at, cancel_status, handlers, asynchronous, memory, counter>>
        BY <2>9 DEF Cancel!CondWait
      <3>2. Waiters' = Waiters
        BY <3>1 DEF Waiters
      <3>3. \A u \in Cancel!Team : cancel_status[u] = "unwinding" => u = t \/ u \notin cancel_mutex
        BY <1>w, <2>9 DEF Cancel!CondWait
      <3>4. t \in cancel_mutex
        BY <2>9 DEF Cancel!CondWait
      <3> QED BY <1>0, <1>w, <3>1, <3>2, <3>3, <3>4 DEF WaitersCounted
    <2>10. CASE Cancel!CreateSub(t)
      BY <1>1, <2>10 DEF Cancel!CreateSub
    <2>11. CASE Cancel!JoinSub(t)
      BY <1>1, <2>11 DEF Cancel!JoinSub
    <2>12. CASE Cancel!Return(t)
      <3>1. cancel_at[t] \in 1 .. 3 /\ cancel_at[t] > Len(Cancel!Script(t))
        BY <1>w, <2>12 DEF Cancel!Return, Cancel!Done
      <3>2. Len(Cancel!Script(t)) = 4
        BY <1>0, CleaningLengths
      <3>3. cancel_at[t] > 4
        BY <3>1, <3>2
      <3>4. cancel_at[t] \in 1 .. 3
        BY <3>1
      <3> QED BY <3>3, <3>4
    <2>13. CASE Cancel!Cancelled(t)
      <3>1. /\ cancel_status[t] = "running" /\ ~Cancel!Done(t)
            /\ Cancel!Op(t) \in Cancel!Must \cup Cancel!May
        BY <1>w, <2>13 DEF Cancel!Cancelled
      <3>2. cancel_at[t] = 3 /\ Cancel!Op(t) = "cond_wait" /\ handlers[t] = <<"push_v1">>
        BY <1>0, <1>w, <3>1, CleaningScripts
           DEF Cancel!Done, Cancel!Op, Cancel!Must, Cancel!May, CancelTypes
      <3>3. cancel_mutex \subseteq {t} /\ cancel_mutex' = {t}
        BY <2>13, <3>1, <3>2 DEF Cancel!Cancelled
      <3>4. /\ cancel_status'[t] = "unwinding"
            /\ \A u \in Cancel!Team \ {t} : cancel_status'[u] = cancel_status[u]
            /\ UNCHANGED <<cancel_at, handlers, asynchronous, memory, counter>>
        BY <1>0, <2>13 DEF Cancel!Cancelled, CancelTypes
      <3>5. Waiters' = Waiters
        BY <3>4 DEF Waiters
      <3> QED BY <1>0, <1>e, <1>w, <3>2, <3>3, <3>4, <3>5 DEF WaitersCounted
    <2>14. CASE Cancel!cleanup_handler(t)
      <3>1. cancel_status[t] = "unwinding" /\ handlers[t] # <<>>
        BY <2>14 DEF Cancel!cleanup_handler, Cancel!cleanup_a, Cancel!cleanup_b,
           Cancel!cleanup_handler_v1, Cancel!cleanup_handler_v2, Cancel!Unwinds
      <3>2. handlers[t] = <<"push_v1">> /\ t \in cancel_mutex /\ cancel_at[t] = 3
        BY <1>w, <3>1
      <3>3. Cancel!cleanup_handler_v1(t)
        BY <1>e, <2>14, <3>2 DEF Cancel!cleanup_handler, Cancel!cleanup_a, Cancel!cleanup_b,
           Cancel!cleanup_handler_v2, Cancel!Unwinds
      <3>4. /\ handlers'[t] = <<>> /\ counter' = counter - 1 /\ cancel_mutex' = {}
            /\ \A u \in Cancel!Team \ {t} : handlers'[u] = handlers[u]
            /\ UNCHANGED <<cancel_at, cancel_status, asynchronous, memory>>
        BY <1>0, <1>e, <3>2, <3>3 DEF Cancel!cleanup_handler_v1, Cancel!Unwinds, CancelTypes
      <3>5. Waiters' = Waiters \ {t} /\ t \in Waiters
        BY <3>1, <3>2, <3>4 DEF Waiters
      <3>6. counter' = Cardinality(Waiters')
        BY <1>f, <1>w, <3>4, <3>5, FS_RemoveElement
      <3>7. \A u \in Cancel!Team \ {t} : u \notin cancel_mutex
        BY <1>w, <3>2
      <3> QED BY <1>0, <1>w, <3>1, <3>2, <3>4, <3>6, <3>7 DEF WaitersCounted
    <2>15. CASE Cancel!Unwound(t)
      <3>1. /\ handlers[t] = <<>> /\ cancel_status'[t] = "cancelled"
            /\ \A u \in Cancel!Team \ {t} : cancel_status'[u] = cancel_status[u]
            /\ UNCHANGED <<cancel_at, handlers, asynchronous, memory, counter, cancel_mutex>>
        BY <1>0, <2>15 DEF Cancel!Unwound, CancelTypes
      <3>2. Waiters' = Waiters
        BY <3>1 DEF Waiters
      <3> QED BY <1>0, <1>w, <3>1, <3>2 DEF WaitersCounted
    <2> QED BY <1>5, <2>1, <2>2, <2>3, <2>4, <2>5, <2>6, <2>7, <2>8, <2>9, <2>10, <2>11,
            <2>12, <2>13, <2>14, <2>15 DEF Cancel!my_thread
  <1> QED BY <1>3, <1>4, <1>5 DEF Cancel!Next

---------------------------------------------------------------------------
\* What the handlers find and leave follows from the invariant, program by program.
LEMMA CancelInvImplies == CancelInv => CancelledClean
  <1> SUFFICES ASSUME CancelInv PROVE CancelledClean
    OBVIOUS
  <1>0. CancelTypes /\ NothingToClean /\ MemoryPushed /\ WaitersCounted
    BY DEF CancelInv
  <1> DEFINE Waiting == {t \in Cancel!Team : Cancel!Waits(t)}
  <1>c. Cancel!Cardinality(Waiting) = Cardinality(Waiting)
    BY DEF Cancel!Cardinality, Cardinality, Cancel!IsFiniteSet, IsFiniteSet
  <1>e. Cardinality({}) = 0
    BY FS_EmptySet
  <1>t. 1 \in Cancel!Team
    BY TeamFinite
  <1>1. CASE cancel_version \notin Cleaning
    <2>1. Waiting = {}
      BY <1>1 DEF Cancel!Waits, Cleaning
    <2>2. \A t \in Cancel!Team : handlers[t] # <<>> => Head(handlers[t]) = "push_v2"
      BY <1>0, <1>1 DEF NothingToClean
    <2> QED BY <1>0, <1>1, <1>c, <1>e, <2>1, <2>2 DEF NothingToClean, CancelledClean,
            Cancel!CancelledClean
  <1>2. CASE cancel_version = "cleanup"
    <2>1. Waiting = {}
      BY <1>2 DEF Cancel!Waits
    <2>2. Head(<<"push_a">>) = "push_a" /\ Head(<<"push_b", "push_a">>) = "push_b"
      OBVIOUS
    <2>3. Cancel!Ended(Cancel!First) => memory = {}
      BY <1>0, <1>2 DEF MemoryPushed, Cancel!Ended, Cancel!First
    <2>4. \A t \in Cancel!Team : cancel_status[t] = "unwinding" /\ handlers[t] # <<>> =>
            \/ memory = {"matrix"} /\ handlers[t] = <<"push_a">>
            \/ memory = {"matrix", "rows"} /\ handlers[t] = <<"push_b", "push_a">>
      BY <1>0, <1>2, <1>t DEF MemoryPushed
    <2>5. cancel_mutex = {} /\ counter = 0
      BY <1>0, <1>2 DEF MemoryPushed
    <2> QED BY <1>c, <1>e, <2>1, <2>2, <2>3, <2>4, <2>5 DEF CancelledClean,
            Cancel!CancelledClean
  <1>3. CASE cancel_version = "cleanup_v1"
    <2>1. Waiting = Waiters
      BY <1>3 DEF Cancel!Waits, Waiters
    <2>2. Head(<<"push_v1">>) = "push_v1"
      OBVIOUS
    <2>3. memory = {} /\ counter = Cardinality(Waiters)
      BY <1>0, <1>3 DEF WaitersCounted
    <2>4. \A t \in Cancel!Team : cancel_status[t] = "unwinding" /\ handlers[t] # <<>> =>
            Head(handlers[t]) = "push_v1" /\ cancel_mutex = {t}
      BY <1>0, <1>3, <2>2 DEF WaitersCounted
    <2>5. \A t \in cancel_mutex : t \in Cancel!Team /\ ~Cancel!Ended(t)
      BY <1>0, <1>3 DEF WaitersCounted, CancelTypes, Cancel!Ended
    <2> QED BY <1>c, <2>1, <2>3, <2>4, <2>5 DEF CancelledClean, Cancel!CancelledClean
  <1> QED BY <1>1, <1>2, <1>3 DEF Cleaning

\* Wherever a request arrives, in the eight cancellation programs and with any
\* number of threads, the handlers undo what was done: no memory is left, the
\* rows go before the matrix, the mutex is held by the thread whose handler
\* unlocks it, and the counter counts the threads that wait.
THEOREM CleanedUp == Spec => []CancelledClean
  <1>1. Init => CancelInv
    BY CancelInit
  <1>2. CancelInv /\ [Cancel!Next]_cancel_vars => CancelInv'
    BY CancelTypesStep, NothingToCleanStep, MemoryPushedStep, WaitersCountedStep DEF CancelInv
  <1>3. [Next]_vars => [Cancel!Next]_cancel_vars
    BY DEF Next, Runs, vars
  <1> QED BY <1>1, <1>2, <1>3, CancelInvImplies, PTL DEF Spec

---------------------------------------------------------------------------
(* The producers and the pipe *)

PipeTypes ==
  /\ pipe_version \in {"bad", "cv"}
  /\ work_pipe \in Seq(Pipe!Producer)
  /\ pipe_sum \in Nat /\ finished \in BOOLEAN
  /\ producing \in [Pipe!Producer -> {"write", "signal", "ended"}]
  /\ dropped \subseteq Pipe!Producer
  /\ \A p \in dropped : producing[p] # "write"

\* Whose unit went into the pipe, and whose has come out again.
Written == {p \in Pipe!Producer : producing[p] # "write" /\ p \notin dropped}
Read    == {p \in Written : \A k \in DOMAIN work_pipe : work_pipe[k] # p}

\* A unit is in the pipe once.
UnitsApart ==
  /\ \A k \in DOMAIN work_pipe : work_pipe[k] \in Written
  /\ \A j, k \in DOMAIN work_pipe : work_pipe[j] = work_pipe[k] => j = k

\* s is the sum of the units of the producers in S: f has the partial sums.
AddsUp(S, s) ==
  \E f \in [0 .. NUM_PRODUCERS -> Nat] :
    /\ f[0] = 0 /\ f[NUM_PRODUCERS] = s
    /\ \A p \in Pipe!Producer : f[p + 1] = f[p] + IF p \in S THEN p ELSE 0

CountsRight ==
  /\ avail = Len(work_pipe)
  /\ producers = NUM_PRODUCERS - Cardinality(Written)
  /\ finished => producers = 0
  /\ pipe_main = "exit" => finished /\ avail = 0

PipeInv == PipeTypes /\ UnitsApart /\ CountsRight /\ AddsUp(Read, pipe_sum)

LEMMA ProducersFinite ==
  /\ \A S \in SUBSET Pipe!Producer : IsFiniteSet(S) /\ Cardinality(S) \in Nat
  /\ \A S \in SUBSET Pipe!Producer : Cardinality(S) = NUM_PRODUCERS => S = Pipe!Producer
  <1>1. NUM_PRODUCERS \in Nat \ {0}
    BY PipeAssumption
  <1>2. IsFiniteSet(Pipe!Producer) /\ Cardinality(Pipe!Producer) = NUM_PRODUCERS
    BY <1>1, FS_Interval DEF Pipe!Producer
  <1> QED BY <1>2, FS_Subset, FS_CardinalityType

\* The empty sum, and a unit more.
LEMMA NothingAdded == AddsUp({}, 0)
  <1> DEFINE f == [k \in 0 .. NUM_PRODUCERS |-> 0]
  <1>1. NUM_PRODUCERS \in Nat
    BY PipeAssumption
  <1>2. f \in [0 .. NUM_PRODUCERS -> Nat] /\ f[0] = 0 /\ f[NUM_PRODUCERS] = 0
    BY <1>1
  <1>3. \A p \in Pipe!Producer : f[p + 1] = f[p] + 0
    BY <1>1 DEF Pipe!Producer
  <1> QED BY <1>2, <1>3 DEF AddsUp

LEMMA OneAdded ==
  ASSUME NEW S, NEW s \in Nat, AddsUp(S, s), NEW q \in Pipe!Producer, q \notin S
  PROVE  AddsUp(S \cup {q}, s + q)
  <1>1. NUM_PRODUCERS \in Nat /\ q \in 0 .. NUM_PRODUCERS - 1
    BY PipeAssumption DEF Pipe!Producer
  <1>2. PICK f \in [0 .. NUM_PRODUCERS -> Nat] :
          /\ f[0] = 0 /\ f[NUM_PRODUCERS] = s
          /\ \A p \in Pipe!Producer : f[p + 1] = f[p] + IF p \in S THEN p ELSE 0
    BY DEF AddsUp
  <1> DEFINE g == [k \in 0 .. NUM_PRODUCERS |-> f[k] + IF k > q THEN q ELSE 0]
  <1>3. g \in [0 .. NUM_PRODUCERS -> Nat]
    BY <1>1
  <1>4. g[0] = 0 /\ g[NUM_PRODUCERS] = s + q
    BY <1>1, <1>2
  <1>5. ASSUME NEW p \in Pipe!Producer
        PROVE  g[p + 1] = g[p] + IF p \in S \cup {q} THEN p ELSE 0
    <2>1. p \in 0 .. NUM_PRODUCERS /\ p + 1 \in 0 .. NUM_PRODUCERS
      BY <1>1 DEF Pipe!Producer
    <2>2. f[p] \in Nat /\ f[p + 1] \in Nat /\ f[p + 1] = f[p] + IF p \in S THEN p ELSE 0
      BY <1>2, <2>1
    <2>3. /\ g[p + 1] = f[p + 1] + IF p + 1 > q THEN q ELSE 0
          /\ g[p] = f[p] + IF p > q THEN q ELSE 0
      BY <2>1
    <2> HIDE DEF g
    <2>4. CASE p = q
      BY <1>1, <2>1, <2>2, <2>3, <2>4
    <2>5. CASE p # q
      BY <1>1, <2>1, <2>2, <2>3, <2>5
    <2> QED BY <2>4, <2>5
  <1> HIDE DEF g
  <1> QED BY <1>3, <1>4, <1>5 DEF AddsUp

\* All the units together.
LEMMA AllAdded ==
  ASSUME NEW s, AddsUp(Pipe!Producer, s)
  PROVE  s = Pipe!expected
  <1>1. NUM_PRODUCERS \in Nat
    BY PipeAssumption
  <1>2. PICK f \in [0 .. NUM_PRODUCERS -> Nat] :
          /\ f[0] = 0 /\ f[NUM_PRODUCERS] = s
          /\ \A p \in Pipe!Producer : f[p + 1] = f[p] + p
    BY DEF AddsUp
  <1> DEFINE T == {k \in Nat : k <= NUM_PRODUCERS => 2 * f[k] = k * (k - 1)}
  <1>3. 0 \in T
    BY <1>2
  <1>4. ASSUME NEW n \in Nat, n \in T PROVE n + 1 \in T
    <2>1. SUFFICES ASSUME n + 1 <= NUM_PRODUCERS PROVE 2 * f[n + 1] = (n + 1) * ((n + 1) - 1)
      BY <1>1
    <2>2. n \in Pipe!Producer /\ n <= NUM_PRODUCERS
      BY <1>1, <2>1 DEF Pipe!Producer
    <2>3. 2 * f[n] = n * (n - 1) /\ f[n + 1] = f[n] + n /\ f[n] \in Nat
      BY <1>1, <1>2, <1>4, <2>2
    <2>4. (n + 1) * ((n + 1) - 1) = n * (n - 1) + 2 * n
      OBVIOUS
    <2> QED BY <2>3, <2>4
  <1>5. NUM_PRODUCERS \in T
    <2> HIDE DEF T
    <2> QED BY <1>1, <1>3, <1>4, Counting
  <1>6. 2 * s = NUM_PRODUCERS * (NUM_PRODUCERS - 1) /\ s \in Nat
    BY <1>1, <1>2, <1>5
  <1> DEFINE x == NUM_PRODUCERS * (NUM_PRODUCERS - 1)
  <1>7. Pipe!expected = x \div 2
    BY DEF Pipe!expected
  <1>8. x = 2 * s /\ s \in Nat
    BY <1>6
  <1> HIDE DEF x
  <1> QED BY <1>7, <1>8

LEMMA PipeInit == Init => PipeInv
  <1> SUFFICES ASSUME Init PROVE PipeInv
    OBVIOUS
  <1>1. /\ pipe_version \in {"bad", "cv"} /\ avail = 0 /\ producers = NUM_PRODUCERS
        /\ work_pipe = <<>> /\ pipe_sum = 0 /\ finished = FALSE /\ pipe_main = "while"
        /\ producing = [p \in Pipe!Producer |-> "write"] /\ dropped = {}
    BY DEF Init, Pipe!Init
  <1>2. Written = {} /\ Read = {}
    BY <1>1 DEF Written, Read
  <1>3. PipeTypes
    <2>1. work_pipe \in Seq(Pipe!Producer)
      BY <1>1, EmptySeq
    <2>2. producing \in [Pipe!Producer -> {"write", "signal", "ended"}]
      BY <1>1
    <2> QED BY <1>1, <2>1, <2>2 DEF PipeTypes
  <1>4. UnitsApart
    BY <1>1 DEF UnitsApart
  <1>5. CountsRight
    BY <1>1, <1>2, FS_EmptySet, PipeAssumption DEF CountsRight
  <1>6. AddsUp(Read, pipe_sum)
    BY <1>1, <1>2, NothingAdded
  <1> QED BY <1>3, <1>4, <1>5, <1>6 DEF PipeInv

\* A unit that goes into the pipe is counted and not read yet.
LEMMA UnitWritten ==
  ASSUME PipeInv, NEW p \in Pipe!Producer, Pipe!Write(p)
  PROVE  PipeInv'
  <1>0. PipeTypes /\ UnitsApart /\ CountsRight /\ AddsUp(Read, pipe_sum)
    BY DEF PipeInv
  <1>1. /\ producing[p] = "write" /\ p \notin dropped /\ p \notin Written
        /\ producing' \in [Pipe!Producer -> {"write", "signal", "ended"}]
        /\ producing'[p] # "write"
        /\ \A q \in Pipe!Producer \ {p} : producing'[q] = producing[q]
        /\ pipe_version' = pipe_version
        /\ pipe_sum' = pipe_sum /\ finished' = finished /\ pipe_main' = pipe_main
    BY <1>0 DEF PipeTypes, Pipe!Write, Pipe!main_state, Written
  <1>f. ~finished
    <2>1. Written \in SUBSET Pipe!Producer
      BY DEF Written
    <2>2. Cardinality(Written) # NUM_PRODUCERS
      BY <1>1, <2>1, ProducersFinite
    <2> QED BY <1>0, <2>1, <2>2, ProducersFinite, PipeAssumption DEF CountsRight
  <1>2. CASE /\ Len(work_pipe) < room /\ work_pipe' = Append(work_pipe, p)
             /\ avail' = avail + 1 /\ producers' = producers - 1 /\ UNCHANGED dropped
    <2>1. Written' = Written \cup {p}
      BY <1>1, <1>2 DEF Written
    <2>2. /\ work_pipe' \in Seq(Pipe!Producer) /\ Len(work_pipe') = Len(work_pipe) + 1
          /\ \A k \in DOMAIN work_pipe : k \in DOMAIN work_pipe' /\ work_pipe'[k] = work_pipe[k]
          /\ DOMAIN work_pipe' = DOMAIN work_pipe \cup {Len(work_pipe) + 1}
          /\ work_pipe'[Len(work_pipe) + 1] = p
      BY <1>0, <1>2, AppendProperties DEF PipeTypes
    <2>3. PipeTypes'
      BY <1>0, <1>1, <1>2, <2>2 DEF PipeTypes
    <2>4. UnitsApart'
      <3>1. \A k \in DOMAIN work_pipe : work_pipe[k] # p
        BY <1>0, <1>1 DEF UnitsApart
      <3> QED BY <1>0, <2>1, <2>2, <3>1 DEF UnitsApart
    <2>5. CountsRight'
      <3>1. Written \in SUBSET Pipe!Producer
        BY DEF Written
      <3>2. Cardinality(Written') = Cardinality(Written) + 1
        BY <1>1, <2>1, <3>1, ProducersFinite, FS_AddElement
      <3> QED BY <1>0, <1>1, <1>2, <1>f, <2>2, <3>1, <3>2, ProducersFinite, PipeAssumption
              DEF CountsRight
    <2>6. Read' = Read
      <3>1. ASSUME NEW q \in Read' PROVE q \in Read
        <4>1. q # p /\ q \in Written
          BY <2>1, <2>2, <3>1 DEF Read
        <4> QED BY <2>2, <3>1, <4>1 DEF Read
      <3>2. ASSUME NEW q \in Read PROVE q \in Read'
        BY <1>1, <2>1, <2>2 DEF Read
      <3> QED BY <3>1, <3>2
    <2> QED BY <1>0, <1>1, <2>3, <2>4, <2>5, <2>6 DEF PipeInv
  <1>3. CASE /\ dropped' = dropped \cup {p}
             /\ UNCHANGED <<work_pipe, avail, producers>>
    <2>1. Written' = Written
      BY <1>1, <1>3 DEF Written
    <2>2. Read' = Read
      BY <1>3, <2>1 DEF Read
    <2>3. PipeTypes'
      BY <1>0, <1>1, <1>3 DEF PipeTypes
    <2> QED BY <1>0, <1>1, <1>3, <2>1, <2>2, <2>3 DEF PipeInv, UnitsApart, CountsRight
  <1> QED BY <1>2, <1>3 DEF Pipe!Write

\* A unit that main reads is added.
LEMMA UnitRead ==
  ASSUME PipeInv, Pipe!Read
  PROVE  PipeInv'
  <1>0. PipeTypes /\ UnitsApart /\ CountsRight /\ AddsUp(Read, pipe_sum)
    BY DEF PipeInv
  <1>1. /\ pipe_main' = "read" /\ producing' = producing /\ dropped' = dropped
        /\ producers' = producers /\ pipe_version' = pipe_version
        /\ finished' = (finished \/ producers = 0)
        /\ avail > 0
    BY DEF Pipe!Read, Pipe!Main
  <1>2. Written' = Written
    BY <1>1 DEF Written
  <1>3. work_pipe # <<>>
    BY <1>0, <1>1, EmptySeq DEF CountsRight
  <1>4. /\ pipe_sum' = pipe_sum + Head(work_pipe) /\ work_pipe' = Tail(work_pipe)
        /\ avail' = avail - 1
    BY <1>3 DEF Pipe!Read
  <1> DEFINE h == Head(work_pipe)
  <1>5. /\ h \in Pipe!Producer /\ h = work_pipe[1] /\ 1 \in DOMAIN work_pipe
        /\ work_pipe' \in Seq(Pipe!Producer) /\ Len(work_pipe') = Len(work_pipe) - 1
        /\ \A k \in DOMAIN work_pipe' : k + 1 \in DOMAIN work_pipe
                                        /\ work_pipe'[k] = work_pipe[k + 1]
        /\ \A k \in DOMAIN work_pipe \ {1} : k - 1 \in DOMAIN work_pipe'
                                        /\ work_pipe'[k - 1] = work_pipe[k]
        /\ DOMAIN work_pipe \subseteq Int
    BY <1>0, <1>3, <1>4, HeadTailProperties, LenProperties DEF PipeTypes
  <1>t. pipe_sum \in Nat /\ h \in Nat /\ Len(work_pipe) \in Nat
    BY <1>0, <1>5, LenProperties DEF PipeTypes, Pipe!Producer
  <1>6. PipeTypes'
    BY <1>0, <1>1, <1>4, <1>5, <1>t DEF PipeTypes
  <1>7. UnitsApart'
    <2>1. \A k \in DOMAIN work_pipe' : k \in Int
      BY <1>5, <1>6, LenProperties DEF PipeTypes
    <2>2. \A k \in DOMAIN work_pipe' : work_pipe'[k] \in Written'
      BY <1>0, <1>2, <1>5 DEF UnitsApart
    <2>3. ASSUME NEW j \in DOMAIN work_pipe', NEW k \in DOMAIN work_pipe',
                 work_pipe'[j] = work_pipe'[k]
          PROVE  j = k
      <3>1. j + 1 = k + 1
        BY <1>0, <1>5, <2>3 DEF UnitsApart
      <3> QED BY <2>1, <3>1
    <2> QED BY <2>2, <2>3 DEF UnitsApart
  <1>8. CountsRight'
    BY <1>0, <1>1, <1>2, <1>4, <1>5, <1>t DEF CountsRight
  <1>9. h \notin Read /\ Read' = Read \cup {h}
    <2>1. h \in Written /\ \A k \in DOMAIN work_pipe : work_pipe[k] = h => k = 1
      BY <1>0, <1>5 DEF UnitsApart
    <2>2. h \notin Read
      BY <1>5 DEF Read
    <2>3. ASSUME NEW q \in Read' PROVE q \in Read \cup {h}
      <3>1. SUFFICES ASSUME q # h PROVE \A k \in DOMAIN work_pipe : work_pipe[k] # q
        BY <1>2, <2>3 DEF Read
      <3> QED BY <1>5, <2>3, <3>1 DEF Read
    <2>4. ASSUME NEW q \in Read \cup {h} PROVE q \in Read'
      <3>1. CASE q \in Read
        BY <1>2, <1>5, <3>1 DEF Read
      <3>2. CASE q = h
        <4>1. \A k \in DOMAIN work_pipe' : k \in Int /\ k + 1 # 1
          BY <1>6, LenProperties DEF PipeTypes
        <4>2. \A k \in DOMAIN work_pipe' : work_pipe'[k] # h
          BY <1>5, <2>1, <4>1
        <4> QED BY <1>2, <2>1, <3>2, <4>2 DEF Read
      <3> QED BY <2>4, <3>1, <3>2
    <2> QED BY <2>2, <2>3, <2>4
  <1>10. AddsUp(Read', pipe_sum')
    <2> HIDE DEF h
    <2> QED BY <1>0, <1>4, <1>5, <1>9, <1>t, OneAdded DEF h
  <1>11. AddsUp(Read, pipe_sum)'
    BY <1>10 DEF AddsUp
  <1> QED BY <1>6, <1>7, <1>8, <1>11 DEF PipeInv

LEMMA PipeStep == PipeInv /\ [Pipe!Next]_pipe_vars => PipeInv'
  <1> SUFFICES ASSUME PipeInv, [Pipe!Next]_pipe_vars PROVE PipeInv'
    OBVIOUS
  <1>0. PipeTypes /\ UnitsApart /\ CountsRight /\ AddsUp(Read, pipe_sum)
    BY DEF PipeInv
  \* What tells nothing of the units, and leaves main before its end.
  <1> DEFINE Aside == /\ UNCHANGED <<pipe_version, work_pipe, avail, producers, pipe_sum,
                                      finished, dropped>>
  <1>1. ASSUME Aside, producing' = producing,
               pipe_main' = "exit" => pipe_main = "exit" \/ (finished /\ avail = 0)
        PROVE  PipeInv'
    <2>1. Written' = Written /\ Read' = Read
      BY <1>1 DEF Written, Read
    <2> QED BY <1>0, <1>1, <2>1 DEF PipeInv, PipeTypes, UnitsApart, CountsRight, AddsUp
  <1>2. ASSUME NEW p \in Pipe!Producer, Pipe!Signal(p) PROVE PipeInv'
    <2>1. /\ producing[p] = "signal" /\ producing' = [producing EXCEPT ![p] = "ended"]
          /\ Aside /\ pipe_main' = pipe_main
      BY <1>2 DEF Pipe!Signal, Pipe!main_state
    <2>2. PipeTypes' /\ Written' = Written
      BY <1>0, <2>1 DEF PipeTypes, Written
    <2>3. Read' = Read
      BY <2>1, <2>2 DEF Read
    <2> QED BY <1>0, <2>1, <2>2, <2>3 DEF PipeInv, UnitsApart, CountsRight, AddsUp
  <1>3. CASE Pipe!main
    <2>1. CASE Pipe!Read
      BY <2>1, UnitRead
    <2>2. CASE ~Pipe!Read
      BY <1>1, <1>3, <2>2 DEF Pipe!main, Pipe!LockMain, Pipe!CondWait, Pipe!Relock,
         Pipe!UnlockMain, Pipe!Main
    <2> QED BY <2>1, <2>2
  <1>4. CASE Pipe!SpuriousWakeup
    BY <1>1, <1>4 DEF Pipe!SpuriousWakeup
  <1>5. ASSUME NEW p \in Pipe!Producer, Pipe!producer(p) PROVE PipeInv'
    BY <1>2, <1>5, UnitWritten DEF Pipe!producer
  <1>6. CASE UNCHANGED pipe_vars
    BY <1>1, <1>6 DEF pipe_vars
  <1>7. CASE Pipe!Over /\ UNCHANGED Pipe!vars
    BY <1>1, <1>7 DEF Pipe!vars
  <1> QED BY <1>3, <1>4, <1>5, <1>6, <1>7 DEF Pipe!Next

LEMMA PipeInvImplies == PipeInv => SumComplete
  <1> SUFFICES ASSUME PipeInv PROVE SumComplete
    OBVIOUS
  <1>0. PipeTypes /\ UnitsApart /\ CountsRight /\ AddsUp(Read, pipe_sum)
    BY DEF PipeInv
  <1>1. Pipe!Cardinality(Written) = Cardinality(Written)
    BY DEF Pipe!Cardinality, Cardinality, Pipe!IsFiniteSet, IsFiniteSet
  <1>2. ASSUME pipe_main = "exit" PROVE pipe_sum = Pipe!expected /\ dropped = {}
    <2>1. Written \in SUBSET Pipe!Producer
      BY DEF Written
    <2>2. Cardinality(Written) = NUM_PRODUCERS
      BY <1>0, <1>2, <2>1, ProducersFinite, PipeAssumption DEF CountsRight
    <2>3. Written = Pipe!Producer
      BY <2>1, <2>2, ProducersFinite
    <2>4. work_pipe = <<>>
      BY <1>0, <1>2, EmptySeq DEF CountsRight, PipeTypes
    <2>5. Read = Pipe!Producer
      BY <2>3, <2>4 DEF Read
    <2>6. dropped = {}
      BY <1>0, <2>3 DEF Written, PipeTypes
    <2> QED BY <1>0, <2>5, <2>6, AllAdded
  <1> QED BY <1>0, <1>1, <1>2 DEF SumComplete, Pipe!SumComplete, CountsRight, Written

\* Whatever the number of producers and the room in the pipe: avail and producers
\* count what they should, and main ends with the sum of all units, none of which
\* was dropped, spurious wakeups included.
THEOREM UnitsSummed == Spec => []SumComplete
  <1>1. [Next]_vars => [Pipe!Next]_pipe_vars
    BY DEF Next, Runs, vars
  <1> QED BY <1>1, PipeInit, PipeStep, PipeInvImplies, PTL DEF Spec

---------------------------------------------------------------------------
(* Threads that add something up together *)

Locked == dot_version \in {"v2", "mutex"}
Part(t) == Sum(Dot!Product, Dot!range(t))

DotTypes ==
  /\ dot_version \in Dot!Version /\ num_elements \in 0 .. max_elements
  /\ sum \in Int /\ result \in Int
  /\ partial_sum \in [Dot!Tid -> Int] /\ register \in [Dot!Tid -> Int]
  /\ mutex_for_sum \subseteq Dot!Tid
  /\ count \in [Dot!Tid -> Nat]
  /\ adding \in [Dot!Tid -> {"compute", "lock", "read", "write", "unlock", "end"}]
  /\ dot_main \in {"join", "end"}

\* A thread of a dot product that has computed has its part.
PartsRight ==
  ~Dot!Counting =>
    \A t \in Dot!Tid : /\ adding[t] # "compute" => partial_sum[t] = Part(t)
                       /\ dot_version = "v1" => adding[t] \in {"compute", "end"}

\* With a mutex, what a thread has read is still the sum when it adds to it,
SumHeld ==
  Locked =>
    /\ \A t \in Dot!Tid : /\ adding[t] \in {"read", "write", "unlock"} => t \in mutex_for_sum
                          /\ adding[t] = "write" => register[t] = sum
    /\ \A t, u \in mutex_for_sum : t = u

\* which is the sum of the parts that were added,
PartsAdded ==
  dot_version = "v2" =>
    sum = Sum(partial_sum, {t \in Dot!Tid : adding[t] \in {"unlock", "end"}})

\* or how often main has counted up less how often the other thread has counted
\* down, for as many rounds each.
Rounds == IF num_elements = 0 THEN 1 ELSE num_elements
Steps(t) == count[t] + IF adding[t] = "unlock" THEN 1 ELSE 0
StepsTaken ==
  dot_version = "mutex" =>
    /\ sum = Steps(0) - Steps(1)
    /\ \A t \in {0, 1} : IF adding[t] = "end" THEN count[t] = Rounds
                         ELSE adding[t] # "compute" /\ count[t] < Rounds

ResultRight ==
  dot_main = "end" =>
    /\ Dot!Ended
    /\ result = IF dot_version = "v1" THEN Sum(partial_sum, Dot!Tid) ELSE sum

DotInv == DotTypes /\ PartsRight /\ SumHeld /\ PartsAdded /\ StepsTaken /\ ResultRight

LEMMA SumOverIs == \A S : Dot!SumOver(S) = Sum(Dot!Product, S)
  BY DEF Dot!SumOver, Dot!SumFunctionOnSet, Dot!FoldFunctionOnSet, Dot!MapThenFoldSet,
     Sum, FoldFunctionOnSet, MapThenFoldSet

LEMMA SumFunctionIs == ASSUME NEW num PROVE Dot!SumFunction(num) = Sum(num, DOMAIN num)
  BY DEF Dot!SumFunction, Dot!SumFunctionOnSet, Dot!FoldFunctionOnSet, Dot!MapThenFoldSet,
     Sum, FoldFunctionOnSet, MapThenFoldSet

LEMMA TidFinite ==
  /\ \A S \in SUBSET Dot!Tid : IsFiniteSet(S)
  /\ Worker_thread \in Nat \ {0} /\ max_elements \in Nat
  /\ Worker_thread # 1 => 0 \in Dot!Tid /\ 1 \in Dot!Tid
  /\ \A a, b \in Int : IsFiniteSet(a .. b)
  /\ \A k \in 0 .. max_elements - 1 : Dot!Product[k] \in Int
  <1>1. Worker_thread \in Nat \ {0} /\ max_elements \in Nat
    BY VectorAssumption
  <1>2. \A a, b \in Int : IsFiniteSet(a .. b)
    BY FS_Interval
  <1>3. \A S \in SUBSET Dot!Tid : IsFiniteSet(S)
    <2>1. IsFiniteSet(Dot!Tid)
      BY <1>1, <1>2 DEF Dot!Tid
    <2> QED BY <2>1, FS_Subset
  <1>4. ASSUME NEW k \in 0 .. max_elements - 1 PROVE Dot!Product[k] \in Int
    BY VectorAssumption DEF Dot!Product
  <1> QED BY <1>1, <1>2, <1>3, <1>4 DEF Dot!Tid

\* The chunks of the threads are all elements, each once, whatever is left over.
LEMMA ChunksFit ==
  ASSUME num_elements \in 0 .. max_elements
  PROVE  /\ Dot!chunk_size \in Nat
         /\ \A k \in 0 .. Worker_thread : k * Dot!chunk_size \in 0 .. num_elements
  <1> DEFINE c == Dot!chunk_size
  <1>1. num_elements \in Nat /\ Worker_thread \in Nat \ {0}
    BY TidFinite
  <1>2. c \in Nat /\ Worker_thread * c <= num_elements
    BY <1>1 DEF Dot!chunk_size
  <1> HIDE DEF c
  <1>3. ASSUME NEW k \in 0 .. Worker_thread PROVE k * c \in 0 .. num_elements
    <2>1. k * c \in Nat /\ Worker_thread * c = k * c + (Worker_thread - k) * c
          /\ (Worker_thread - k) * c \in Nat
      BY <1>1, <1>2
    <2> QED BY <1>1, <1>2, <2>1
  <1> QED BY <1>2, <1>3 DEF c

LEMMA RangeInside ==
  ASSUME num_elements \in 0 .. max_elements, NEW t \in Dot!Tid
  PROVE  /\ Dot!range(t) \subseteq 0 .. max_elements - 1 /\ IsFiniteSet(Dot!range(t))
         /\ Part(t) \in Int
  <1> DEFINE c == Dot!chunk_size
  <1>1. /\ t \in Nat /\ t <= Worker_thread - 1 /\ Worker_thread \in Nat
        /\ num_elements \in Nat /\ num_elements <= max_elements /\ max_elements \in Nat
    BY TidFinite DEF Dot!Tid
  <1>2. c \in Nat /\ t * c \in 0 .. num_elements /\ (t + 1) * c \in 0 .. num_elements
    BY <1>1, ChunksFit
  <1>3. Dot!range(t) = IF t < Worker_thread - 1 THEN t * c .. t * c + c - 1
                                                ELSE t * c .. num_elements - 1
    BY DEF Dot!range, Dot!offset
  <1>4. (t + 1) * c = t * c + c
    BY <1>1, <1>2
  <1> HIDE DEF c
  <1> DEFINE a == t * c
  <1>5. a \in Int /\ 0 <= a /\ a + c <= num_elements
    BY <1>2, <1>4
  <1>6. /\ \A x \in Dot!range(t) : x \in 0 .. max_elements - 1
        /\ IsFiniteSet(Dot!range(t))
    <2> HIDE DEF a
    <2>1. Dot!range(t) = IF t < Worker_thread - 1 THEN a .. a + c - 1 ELSE a .. num_elements - 1
      BY <1>3 DEF a
    <2> QED BY <1>1, <1>2, <1>5, <2>1, TidFinite
  <1>7. Part(t) \in Int
    BY <1>6, TidFinite, SumTakes DEF Part
  <1> QED BY <1>6, <1>7

LEMMA Chunks ==
  ASSUME num_elements \in 0 .. max_elements, NEW parts, \A t \in Dot!Tid : parts[t] = Part(t)
  PROVE  Sum(parts, Dot!Tid) = Dot!compute_gold
  <1> DEFINE W == Worker_thread
             c == Dot!chunk_size
             P == Dot!Product
             T == {k \in Nat : k <= W - 1 => Sum(parts, 0 .. k - 1) = Sum(P, 0 .. k * c - 1)}
  <1>0. /\ W \in Nat \ {0} /\ max_elements \in Nat /\ num_elements \in Nat
        /\ num_elements <= max_elements
    BY TidFinite
  <1>1. c \in Nat /\ \A k \in 0 .. W : k * c \in 0 .. num_elements
    BY ChunksFit
  <1>2. \A k \in 0 .. W - 1 : /\ k \in Dot!Tid /\ parts[k] = Sum(P, Dot!range(k))
                              /\ parts[k] \in Int
    BY RangeInside DEF Part, Dot!Tid
  <1>3. \A k \in 0 .. num_elements - 1 : P[k] \in Int
    BY <1>0, TidFinite
  <1>r. \A k \in 0 .. W - 1 : Dot!range(k) = IF k < W - 1 THEN k * c .. k * c + c - 1
                                             ELSE k * c .. num_elements - 1
    BY DEF Dot!range, Dot!offset
  <1> HIDE DEF W, c, P
  \* One thread's part on top of those before it.
  <1>4. ASSUME NEW k \in 0 .. W - 1 PROVE Sum(parts, 0 .. k) = parts[k] + Sum(parts, 0 .. k - 1)
    <2>1. IsFiniteSet(0 .. k) /\ k \in 0 .. k /\ (0 .. k) \ {k} = 0 .. k - 1
      BY <1>0, TidFinite
    <2>2. \A x \in 0 .. k : parts[x] \in Int
      BY <1>0, <1>2
    <2> QED BY <2>1, <2>2, SumTakes
  \* The elements from a to b on top of those below a.
  <1>5. ASSUME NEW a \in 0 .. num_elements, NEW b \in a .. num_elements
        PROVE  Sum(P, 0 .. b - 1) = Sum(P, 0 .. a - 1) + Sum(P, a .. b - 1)
    <2>1. /\ (0 .. a - 1) \cup (a .. b - 1) = 0 .. b - 1
          /\ (0 .. a - 1) \cap (a .. b - 1) = {}
      BY <1>0
    <2>2. IsFiniteSet(0 .. a - 1) /\ IsFiniteSet(a .. b - 1)
      BY <1>0, TidFinite
    <2>3. \A x \in (0 .. a - 1) \cup (a .. b - 1) : P[x] \in Int
      BY <1>0, <1>3
    <2>4. Sum(P, (0 .. a - 1) \cup (a .. b - 1)) = Sum(P, 0 .. a - 1) + Sum(P, a .. b - 1)
      BY <2>1, <2>2, <2>3, SumParts
    <2> QED BY <2>1, <2>4
  <1>i. \A a \in 0 .. num_elements : Sum(P, 0 .. a - 1) \in Int
    <2> SUFFICES ASSUME NEW a \in 0 .. num_elements PROVE Sum(P, 0 .. a - 1) \in Int
      OBVIOUS
    <2>1. IsFiniteSet(0 .. a - 1) /\ \A x \in 0 .. a - 1 : P[x] \in Int
      BY <1>0, <1>3, TidFinite
    <2> QED BY <2>1, SumTakes
  <1>6. 0 \in T
    <2>1. 0 .. 0 - 1 = {} /\ 0 .. 0 * c - 1 = {}
      BY <1>1
    <2> QED BY <2>1, SumNone
  <1>7. ASSUME NEW k \in Nat, k \in T PROVE k + 1 \in T
    <2>1. SUFFICES ASSUME k + 1 <= W - 1
                   PROVE  Sum(parts, 0 .. (k + 1) - 1) = Sum(P, 0 .. (k + 1) * c - 1)
      OBVIOUS
    <2>2. k \in 0 .. W /\ k + 1 \in 0 .. W /\ k \in 0 .. W - 1 /\ k < W - 1 /\ k <= W - 1
      BY <1>0, <2>1
    <2>3. Sum(parts, 0 .. k - 1) = Sum(P, 0 .. k * c - 1)
      BY <1>7, <2>2
    <2>4. Sum(parts, 0 .. k) = parts[k] + Sum(parts, 0 .. k - 1)
      BY <1>4, <2>2
    <2>5. parts[k] = Sum(P, k * c .. (k * c + c) - 1)
      <3>1. k * c + c - 1 = (k * c + c) - 1
        BY <1>1, <2>2
      <3>2. Dot!range(k) = k * c .. (k * c + c) - 1
        BY <1>r, <2>2, <3>1
      <3> QED BY <1>2, <2>2, <3>2
    <2>6. (k + 1) * c = k * c + c /\ k * c \in 0 .. num_elements /\ (k + 1) * c \in 0 .. num_elements
      BY <1>1, <2>2
    <2>7. Sum(P, 0 .. (k * c + c) - 1)
            = Sum(P, 0 .. k * c - 1) + Sum(P, k * c .. (k * c + c) - 1)
      <3> DEFINE a == k * c
                 b == k * c + c
      <3>1. a \in 0 .. num_elements /\ b \in a .. num_elements
        BY <1>1, <2>6
      <3> HIDE DEF a, b
      <3>2. Sum(P, 0 .. b - 1) = Sum(P, 0 .. a - 1) + Sum(P, a .. b - 1)
        BY <1>5, <3>1
      <3> QED BY <3>2 DEF a, b
    <2>8. (k + 1) - 1 = k
      BY <2>2
    <2>9. Sum(P, 0 .. k * c - 1) \in Int /\ parts[k] \in Int
      BY <1>i, <1>2, <2>2, <2>6
    <2>10. Sum(parts, 0 .. k) = Sum(P, 0 .. (k * c + c) - 1)
      BY <2>3, <2>4, <2>5, <2>7, <2>9
    <2>11. Sum(parts, 0 .. k) = Sum(P, 0 .. (k + 1) * c - 1)
      BY <2>6, <2>10
    <2> QED BY <2>8, <2>11
  <1>8. W - 1 \in T
    <2>1. Nat \subseteq T
      <3> HIDE DEF T
      <3> QED BY <1>6, <1>7, Counting
    <2> QED BY <1>0, <2>1
  \* The last thread takes the rest.
  <1> DEFINE k == W - 1
             a == k * c
  <1>9. /\ k \in 0 .. W - 1 /\ k \in 0 .. W /\ ~(k < W - 1) /\ a \in 0 .. num_elements
        /\ num_elements \in a .. num_elements
    BY <1>0, <1>1
  <1>10. Sum(parts, 0 .. k - 1) = Sum(P, 0 .. a - 1)
    BY <1>8, <1>9
  <1>11. parts[k] = Sum(P, a .. num_elements - 1) /\ parts[k] \in Int
    BY <1>2, <1>9, <1>r
  <1>12. Dot!Tid = 0 .. k
    BY DEF Dot!Tid, W
  <1> HIDE DEF k, a
  <1>13. Sum(parts, 0 .. k) = Sum(P, 0 .. num_elements - 1)
    <2>1. Sum(P, 0 .. num_elements - 1) = Sum(P, 0 .. a - 1) + Sum(P, a .. num_elements - 1)
      BY <1>5, <1>9
    <2>2. Sum(P, 0 .. a - 1) \in Int
      BY <1>i, <1>9
    <2>3. Sum(parts, 0 .. k) = parts[k] + Sum(parts, 0 .. k - 1)
      BY <1>4, <1>9
    <2> QED BY <1>10, <1>11, <2>1, <2>2, <2>3
  <1> QED BY <1>12, <1>13, SumOverIs DEF Dot!compute_gold, P

LEMMA DotInit == ASSUME Dot!Init PROVE DotInv
  <1> USE DEF Dot!Init
  <1>1. DotTypes
    BY DEF DotTypes, Dot!Version
  <1>2. PartsRight
    BY DEF PartsRight, Dot!Counting, Dot!Version
  <1>3. SumHeld
    BY DEF SumHeld
  <1>4. PartsAdded
    <2> SUFFICES ASSUME dot_version = "v2" PROVE PartsAdded
      BY DEF PartsAdded
    <2>1. {t \in Dot!Tid : adding[t] \in {"unlock", "end"}} = {}
      OBVIOUS
    <2> QED BY <2>1, SumNone DEF PartsAdded
  <1>5. StepsTaken
    <2> SUFFICES ASSUME dot_version = "mutex" PROVE StepsTaken
      BY DEF StepsTaken
    <2>1. 0 \in Dot!Tid /\ 1 \in Dot!Tid
      BY TidFinite DEF Dot!Version
    <2> QED BY <2>1, TidFinite DEF StepsTaken, Steps, Rounds
  <1>6. ResultRight
    BY DEF ResultRight
  <1> QED BY <1>1, <1>2, <1>3, <1>4, <1>5, <1>6 DEF DotInv

\* What the four steps of an addition leave alone.
LEMMA AdditionKeeps ==
  ASSUME DotInv, NEW t \in Dot!Tid, dot_main = "join", dot_version # "v1",
         Dot!Counting => t \in {0, 1},
         Dot!Lock(t) \/ Dot!Read(t) \/ Dot!Write(t) \/ Dot!Unlock(t)
  PROVE  /\ partial_sum' = partial_sum /\ UNCHANGED <<dot_version, num_elements, dot_main, result>>
         /\ adding[t] # "compute" /\ adding'[t] # "compute"
         /\ adding' \in [Dot!Tid -> {"compute", "lock", "read", "write", "unlock", "end"}]
         /\ \A u \in Dot!Tid \ {t} : adding'[u] = adding[u]
         /\ PartsRight' /\ ResultRight'
  <1> USE DEF Dot!Goto, Dot!main_state
  <1>1. /\ partial_sum' = partial_sum /\ UNCHANGED <<dot_version, num_elements, dot_main, result>>
        /\ adding[t] # "compute" /\ adding'[t] # "compute"
        /\ adding' \in [Dot!Tid -> {"compute", "lock", "read", "write", "unlock", "end"}]
        /\ \A u \in Dot!Tid \ {t} : adding'[u] = adding[u]
    BY DEF DotInv, DotTypes, Dot!Lock, Dot!Read, Dot!Write, Dot!Unlock
  <1>2. \A u : Part(u)' = Part(u)
    BY <1>1 DEF Part, Dot!range, Dot!offset, Dot!chunk_size
  <1>3. PartsRight'
    BY <1>1, <1>2 DEF DotInv, PartsRight, Dot!Counting
  <1>4. ResultRight'
    BY <1>1 DEF ResultRight
  <1> QED BY <1>1, <1>3, <1>4

LEMMA AdditionKeepsDotInv ==
  ASSUME DotInv, NEW t \in Dot!Tid, dot_main = "join", dot_version # "v1",
         Dot!Counting => t \in {0, 1},
         Dot!Lock(t) \/ Dot!Read(t) \/ Dot!Write(t) \/ Dot!Unlock(t)
  PROVE  DotInv'
  <1> USE DEF Dot!Goto, Dot!main_state
  <1> DEFINE Gone == {u \in Dot!Tid : adding[u] \in {"unlock", "end"}}
  <1>1. /\ DotTypes /\ PartsRight /\ SumHeld /\ PartsAdded /\ StepsTaken
        /\ partial_sum' = partial_sum /\ UNCHANGED <<dot_version, num_elements, dot_main, result>>
        /\ adding[t] # "compute" /\ adding'[t] # "compute"
        /\ adding' \in [Dot!Tid -> {"compute", "lock", "read", "write", "unlock", "end"}]
        /\ \A u \in Dot!Tid \ {t} : adding'[u] = adding[u]
        /\ PartsRight' /\ ResultRight'
    BY AdditionKeeps DEF DotInv
  <1>2. Locked' = Locked
    BY <1>1 DEF Locked
  <1>3. /\ IsFiniteSet(Gone) /\ IsFiniteSet(Gone') /\ IsFiniteSet(Gone \ {t})
        /\ Gone \subseteq Dot!Tid /\ Gone' \subseteq Dot!Tid
        /\ \A u \in Dot!Tid : partial_sum[u] \in Int
    <2>1. Gone \subseteq Dot!Tid /\ Gone' \subseteq Dot!Tid /\ Gone \ {t} \subseteq Dot!Tid
      OBVIOUS
    <2> QED BY <1>1, <2>1, TidFinite DEF DotTypes
  <1>4. /\ DotTypes' = (sum' \in Int /\ register' \in [Dot!Tid -> Int]
                       /\ mutex_for_sum' \subseteq Dot!Tid /\ count' \in [Dot!Tid -> Nat])
    BY <1>1 DEF DotTypes
  <1>5. dot_version \in {"v2", "mutex", "nomutex"}
    BY <1>1 DEF DotTypes, Dot!Version
  <1>6. /\ PartsAdded' = (dot_version = "v2" => sum' = Sum(partial_sum, Gone'))
        /\ Gone' = Gone => Sum(partial_sum, Gone') = Sum(partial_sum, Gone)
        /\ PartsAdded = (dot_version = "v2" => sum = Sum(partial_sum, Gone))
    BY <1>1 DEF PartsAdded
  <1>7. dot_version = "mutex" => t \in {0, 1} /\ 0 \in Dot!Tid /\ 1 \in Dot!Tid
    BY <1>1, TidFinite DEF Dot!Counting, DotTypes, Dot!Version
  <1>8. CASE Dot!Lock(t)
    <2> USE <1>8 DEF Dot!Lock
    <2>1. DotTypes'
      BY <1>1, <1>4 DEF DotTypes
    <2>2. SumHeld'
      BY <1>1, <1>2 DEF SumHeld, Locked
    <2>3. PartsAdded'
      <3>1. Gone' = Gone /\ sum' = sum
        BY <1>1
      <3> HIDE DEF Gone
      <3> QED BY <1>1, <1>6, <3>1
    <2>4. StepsTaken'
      BY <1>1, <1>7 DEF StepsTaken, Steps, Rounds, DotTypes
    <2> QED BY <1>1, <2>1, <2>2, <2>3, <2>4 DEF DotInv
  <1>9. CASE Dot!Read(t)
    <2> USE <1>9 DEF Dot!Read
    <2>1. DotTypes'
      BY <1>1, <1>4 DEF DotTypes
    <2>2. SumHeld'
      BY <1>1, <1>2 DEF SumHeld, Locked, DotTypes
    <2>3. PartsAdded'
      <3>1. Gone' = Gone /\ sum' = sum
        BY <1>1
      <3> HIDE DEF Gone
      <3> QED BY <1>1, <1>6, <3>1
    <2>4. StepsTaken'
      BY <1>1, <1>7 DEF StepsTaken, Steps, Rounds, DotTypes
    <2> QED BY <1>1, <2>1, <2>2, <2>3, <2>4 DEF DotInv
  <1>10. CASE Dot!Write(t)
    <2> USE <1>10 DEF Dot!Write
    <2>0. /\ Locked => register[t] = sum
          /\ sum' = register[t] + Dot!Step(t) /\ Dot!Step(t) \in Int /\ register[t] \in Int
      BY <1>1, <1>3 DEF SumHeld, Dot!Step, DotTypes
    <2>1. DotTypes'
      BY <1>1, <1>4, <2>0 DEF DotTypes
    <2>2. SumHeld'
      BY <1>1, <1>2 DEF SumHeld, DotTypes
    <2>3. PartsAdded'
      <3>1. Gone' = Gone \cup {t} /\ t \notin Gone
        BY <1>1
      <3>2. Gone' \ {t} = Gone /\ t \in Gone'
        BY <3>1
      <3> HIDE DEF Gone
      <3>3. Sum(partial_sum, Gone') = partial_sum[t] + Sum(partial_sum, Gone)
        BY <1>3, <3>2, SumTakes
      <3>4. dot_version = "v2" => sum' = sum + partial_sum[t]
        BY <2>0 DEF Locked, Dot!Step, Dot!Counting
      <3>5. sum \in Int /\ partial_sum[t] \in Int
        BY <1>1, <1>3 DEF DotTypes
      <3>6. dot_version = "v2" => sum = Sum(partial_sum, Gone)
        BY <1>1, <1>6
      <3>7. dot_version = "v2" => sum' = Sum(partial_sum, Gone')
        BY <3>3, <3>4, <3>5, <3>6
      <3> QED BY <1>6, <3>7
    <2>4. StepsTaken'
      <3> SUFFICES ASSUME dot_version = "mutex" PROVE StepsTaken'
        BY <1>1 DEF StepsTaken
      <3>1. sum' = sum + (IF t = 0 THEN 1 ELSE -1)
        BY <2>0 DEF Locked, Dot!Step, Dot!Counting
      <3>2. Steps(t)' = Steps(t) + 1 /\ \A u \in {0, 1} \ {t} : Steps(u)' = Steps(u)
        BY <1>1, <1>7 DEF Steps, DotTypes
      <3>3. Steps(0) \in Int /\ Steps(1) \in Int /\ sum \in Int
        BY <1>1, <1>7 DEF Steps, DotTypes
      <3>4. sum' = Steps(0)' - Steps(1)'
        BY <1>1, <1>7, <3>1, <3>2, <3>3 DEF StepsTaken
      <3>5. \A u \in {0, 1} : IF adding'[u] = "end" THEN count'[u] = Rounds'
                              ELSE adding'[u] # "compute" /\ count'[u] < Rounds'
        BY <1>1, <1>7 DEF StepsTaken, Rounds, DotTypes
      <3> QED BY <3>4, <3>5 DEF StepsTaken
    <2> QED BY <1>1, <2>1, <2>2, <2>3, <2>4 DEF DotInv
  <1>11. CASE Dot!Unlock(t)
    <2> USE <1>11 DEF Dot!Unlock
    <2>1. DotTypes'
      BY <1>1, <1>4 DEF DotTypes
    <2>2. SumHeld'
      BY <1>1, <1>2 DEF SumHeld, DotTypes, Locked
    <2>3. PartsAdded'
      <3> SUFFICES ASSUME dot_version = "v2" PROVE PartsAdded'
        BY <1>6
      <3>1. Gone' = Gone /\ sum' = sum
        BY <1>1 DEF Dot!Counting, DotTypes
      <3> HIDE DEF Gone
      <3> QED BY <1>1, <1>6, <3>1
    <2>4. StepsTaken'
      <3> SUFFICES ASSUME dot_version = "mutex" PROVE StepsTaken'
        BY <1>1 DEF StepsTaken
      <3>0. /\ num_elements \in Nat /\ count \in [Dot!Tid -> Nat] /\ adding[t] = "unlock"
            /\ adding'[t] = IF count[t] + 1 < num_elements THEN "lock" ELSE "end"
            /\ count' = [count EXCEPT ![t] = @ + 1] /\ sum' = sum /\ Rounds' = Rounds
            /\ Rounds = IF num_elements = 0 THEN 1 ELSE num_elements
        BY <1>1, TidFinite DEF DotTypes, Dot!Counting, Rounds
      <3>1. Steps(0)' = Steps(0) /\ Steps(1)' = Steps(1)
        BY <1>1, <1>7, <3>0 DEF Steps
      <3>2. sum' = Steps(0)' - Steps(1)'
        BY <1>1, <3>0, <3>1 DEF StepsTaken
      <3>3. \A u \in {0, 1} : IF adding'[u] = "end" THEN count'[u] = Rounds'
                              ELSE adding'[u] # "compute" /\ count'[u] < Rounds'
        BY <1>1, <1>7, <3>0 DEF StepsTaken
      <3> QED BY <3>2, <3>3 DEF StepsTaken
    <2> QED BY <1>1, <2>1, <2>2, <2>3, <2>4 DEF DotInv
  <1> QED BY <1>8, <1>9, <1>10, <1>11

LEMMA ComputeKeepsDotInv ==
  ASSUME DotInv, NEW t \in Dot!Tid, dot_main = "join", Dot!Compute_v1(t) \/ Dot!Compute_v2(t)
  PROVE  DotInv'
  <1> DEFINE Gone == {u \in Dot!Tid : adding[u] \in {"unlock", "end"}}
  <1>1. /\ dot_version \in {"v1", "v2"} /\ adding[t] = "compute"
        /\ adding' = [adding EXCEPT ![t] = IF dot_version = "v1" THEN "end" ELSE "lock"]
        /\ partial_sum' = [partial_sum EXCEPT ![t] = Part(t)]
        /\ UNCHANGED <<sum, mutex_for_sum, register, count, dot_version, num_elements, dot_main,
                       result>>
    BY SumOverIs DEF Dot!Compute_v1, Dot!Compute_v2, Dot!Goto, Dot!main_state, Part
  <1>2. DotTypes /\ PartsRight /\ SumHeld /\ PartsAdded
    BY DEF DotInv
  <1>3. Part(t) \in Int /\ \A u : Part(u)' = Part(u)
    <2>1. Part(t) \in Int
      BY <1>2, RangeInside DEF DotTypes
    <2> QED BY <1>1, <2>1 DEF Part, Dot!range, Dot!offset, Dot!chunk_size
  <1>4. DotTypes'
    BY <1>1, <1>2, <1>3 DEF DotTypes
  <1>5. PartsRight'
    BY <1>1, <1>2, <1>3 DEF DotTypes, PartsRight, Dot!Counting
  <1>6. SumHeld'
    BY <1>1, <1>2 DEF SumHeld, Locked, DotTypes
  <1>7. PartsAdded'
    <2> SUFFICES ASSUME dot_version = "v2" PROVE PartsAdded'
      BY <1>1 DEF PartsAdded
    <2>1. Gone' = Gone /\ t \notin Gone /\ Gone \subseteq Dot!Tid
      BY <1>1, <1>2 DEF DotTypes
    <2>2. IsFiniteSet(Gone)
      BY <2>1, TidFinite
    <2>3. \A u \in Gone : partial_sum[u] \in Int /\ partial_sum'[u] = partial_sum[u]
      BY <1>1, <1>2, <2>1 DEF DotTypes
    <2>4. Sum(partial_sum', Gone) = Sum(partial_sum, Gone)
      <3> HIDE DEF Gone
      <3> QED BY <2>2, <2>3, SumSame
    <2>5. sum' = Sum(partial_sum', Gone')
      BY <1>1, <1>2, <2>1, <2>4 DEF PartsAdded
    <2> QED BY <2>5 DEF PartsAdded
  <1>8. StepsTaken' /\ ResultRight'
    BY <1>1 DEF StepsTaken, ResultRight
  <1> QED BY <1>4, <1>5, <1>6, <1>7, <1>8 DEF DotInv

LEMMA DotStep == ASSUME DotInv, [Dot!Next]_dot_vars PROVE DotInv'
  <1>1. ASSUME NEW t \in Dot!Tid, Dot!thread(t) PROVE DotInv'
    <2>1. /\ \/ Dot!Compute_v1(t) \/ Dot!Compute_v2(t)
             \/ /\ dot_version # "v1"
                /\ Dot!Lock(t) \/ Dot!Read(t) \/ Dot!Write(t) \/ Dot!Unlock(t)
          /\ Dot!Counting => t \in {0, 1}
          /\ adding[t] # "end"
      BY <1>1 DEF Dot!thread, Dot!dot_product_v1, Dot!dot_product, Dot!thread_mutex,
         Dot!thread_nomutex, Dot!Counting, Dot!Compute_v1, Dot!Compute_v2, Dot!Lock,
         Dot!Read, Dot!Write, Dot!Unlock, Dot!Goto, DotInv, DotTypes, Dot!Version
    <2>2. dot_main = "join"
      BY <2>1 DEF DotInv, DotTypes, ResultRight, Dot!Ended
    <2>3. CASE Dot!Compute_v1(t) \/ Dot!Compute_v2(t)
      BY <2>2, <2>3, ComputeKeepsDotInv
    <2>4. CASE /\ dot_version # "v1"
               /\ Dot!Lock(t) \/ Dot!Read(t) \/ Dot!Write(t) \/ Dot!Unlock(t)
      BY <2>1, <2>2, <2>4, AdditionKeepsDotInv
    <2> QED BY <2>1, <2>3, <2>4
  <1>2. CASE Dot!Join
    <2> USE <1>2 DEF Dot!Join
    <2>1. /\ DotTypes /\ PartsRight /\ SumHeld /\ PartsAdded /\ StepsTaken
          /\ UNCHANGED <<dot_version, num_elements, sum, partial_sum, mutex_for_sum, register,
                         count, adding>>
      BY DEF DotInv
    <2>2. /\ result' = IF dot_version = "v1" THEN Sum(partial_sum, Dot!Tid) ELSE sum
          /\ result' \in Int
      <3>1. Dot!SumFunction(partial_sum) = Sum(partial_sum, Dot!Tid)
        BY <2>1, SumFunctionIs DEF DotTypes
      <3>2. IsFiniteSet(Dot!Tid) /\ \A t \in Dot!Tid : partial_sum[t] \in Int
        BY <2>1, TidFinite DEF DotTypes
      <3>3. Sum(partial_sum, Dot!Tid) \in Int
        BY <3>2, SumTakes
      <3> QED BY <2>1, <3>1, <3>3 DEF DotTypes
    <2>3. DotTypes'
      BY <2>1, <2>2 DEF DotTypes
    <2>4. PartsRight' /\ SumHeld' /\ PartsAdded' /\ StepsTaken'
      BY <2>1 DEF PartsRight, Part, Dot!Counting, Dot!range, Dot!offset, Dot!chunk_size, SumHeld,
         Locked, PartsAdded, StepsTaken, Steps, Rounds
    <2>5. ResultRight'
      BY <2>1, <2>2 DEF ResultRight, Dot!Ended, Dot!Counting
    <2> QED BY <2>3, <2>4, <2>5 DEF DotInv
  <1>3. CASE UNCHANGED dot_vars
    BY <1>3 DEF dot_vars, DotInv, DotTypes, PartsRight, Part, Dot!Counting, Dot!range, Dot!offset,
       Dot!chunk_size, SumHeld, Locked, PartsAdded, StepsTaken, Steps, Rounds, ResultRight,
       Dot!Ended
  <1> QED BY <1>1, <1>2, <1>3 DEF Dot!Next, Dot!vars, dot_vars

\* Main has its result when all have ended, and then it is right.
LEMMA DotInvImplies == ASSUME DotInv PROVE SumIsReference
  <1> SUFFICES ASSUME dot_main = "end"
               PROVE  /\ ~Dot!Counting => result = Dot!compute_gold
                      /\ dot_version = "mutex" => result = 0
    BY DEF SumIsReference, Dot!SumIsReference
  <1>1. /\ DotTypes /\ PartsRight /\ PartsAdded /\ StepsTaken /\ Dot!Ended
        /\ result = IF dot_version = "v1" THEN Sum(partial_sum, Dot!Tid) ELSE sum
    BY DEF DotInv, ResultRight
  <1>2. ASSUME ~Dot!Counting PROVE result = Dot!compute_gold
    <2>1. \A t \in Dot!Tid : adding[t] = "end" /\ partial_sum[t] = Part(t)
      BY <1>1, <1>2 DEF PartsRight, Dot!Ended
    <2>2. Sum(partial_sum, Dot!Tid) = Dot!compute_gold
      BY <1>1, <2>1, Chunks DEF DotTypes
    <2>3. {t \in Dot!Tid : adding[t] \in {"unlock", "end"}} = Dot!Tid
      BY <2>1
    <2>4. dot_version = "v2" => sum = Sum(partial_sum, Dot!Tid)
      BY <1>1, <2>3 DEF PartsAdded
    <2> QED BY <1>1, <1>2, <2>2, <2>4 DEF DotTypes, Dot!Version, Dot!Counting
  <1>3. ASSUME dot_version = "mutex" PROVE result = 0
    <2>1. 0 \in Dot!Tid /\ 1 \in Dot!Tid
      BY <1>1, <1>3, TidFinite DEF DotTypes, Dot!Version
    <2>2. adding[0] = "end" /\ adding[1] = "end"
      BY <1>1, <1>3, <2>1 DEF Dot!Ended
    <2>3. Steps(0) = Rounds /\ Steps(1) = Rounds /\ Rounds \in Nat
      BY <1>1, <1>3, <2>1, <2>2, TidFinite DEF StepsTaken, Steps, Rounds, DotTypes
    <2> QED BY <1>1, <1>3, <2>3 DEF StepsTaken
  <1> QED BY <1>2, <1>3

(***************************************************************************)
(* Whatever the vectors, their length and the number of threads, main      *)
(* returns the sequential dot product, and the counter under the mutex is  *)
(* back at zero.                                                           *)
(***************************************************************************)
THEOREM SumsAgree == Spec => []SumIsReference
  <1>1. Init => DotInv
    BY DotInit DEF Init
  <1>2. DotInv /\ [Next]_vars => DotInv'
    <2> SUFFICES ASSUME DotInv, [Next]_vars PROVE DotInv'
      OBVIOUS
    <2>1. [Dot!Next]_dot_vars
      BY DEF Next, Runs, vars
    <2> QED BY <2>1, DotStep
  <1>3. DotInv => SumIsReference
    BY DotInvImplies
  <1> QED BY <1>1, <1>2, <1>3, PTL DEF Spec

---------------------------------------------------------------------------
(* Threads that are created, joined and detached *)

\* The script of a main that creates all threads: allocate, create, in turn.
Pieces == [k \in 1 .. num_threads |-> <<Life!Do("alloc", k), Life!Do("create", k)>>]
Flat(i) == [k \in 1 .. 2 * i |->
     IF k % 2 = 1 THEN Life!Do("alloc", (k + 1) \div 2) ELSE Life!Do("create", k \div 2)]
Flattens(f) ==
  f = [i \in 1 .. num_threads |-> IF i = 1 THEN Pieces[i] ELSE f[i - 1] \o Pieces[i]]

\* FlattenSeq takes a solution of its equations;
LEMMA FlattenIs == Life!create_all = (CHOOSE f : Flattens(f))[num_threads]
  <1>1. num_threads \in Nat /\ num_threads # 0
    BY TeamAssumption
  <1>2. /\ Len(Pieces) = num_threads
        /\ Pieces \in Seq({<<Life!Do("alloc", k), Life!Do("create", k)>> : k \in 1 .. num_threads})
    BY <1>1 DEF Pieces
  <1>3. Life!create_all = Life!FlattenSeq(Pieces)
    BY DEF Life!create_all, Life!Each, Pieces
  <1> QED BY <1>1, <1>2, <1>3 DEF Life!FlattenSeq, Flattens

\* Flat is one.
LEMMA FlatFirst == Pieces[1] = Flat(1)
  <1> DEFINE a == Life!Do("alloc", 1)
             c == Life!Do("create", 1)
  <1>1. Pieces[1] = <<a, c>>
    BY TeamAssumption DEF Pieces
  <1>2. Flat(1) = [k \in 1 .. 2 |-> IF k = 1 THEN a ELSE c]
    <2>1. 1 .. 2 * 1 = 1 .. 2
      OBVIOUS
    <2>2. \A k \in 1 .. 2 :
            (IF k % 2 = 1 THEN Life!Do("alloc", (k + 1) \div 2) ELSE Life!Do("create", k \div 2))
              = IF k = 1 THEN a ELSE c
      <3>1. 1 % 2 = 1 /\ (1 + 1) \div 2 = 1 /\ 2 % 2 = 0 /\ 2 \div 2 = 1
        OBVIOUS
      <3>2. \A k \in 1 .. 2 : k = 1 \/ k = 2
        OBVIOUS
      <3> QED BY <3>1, <3>2
    <2> QED BY <2>1, <2>2 DEF Flat
  <1> HIDE DEF a, c
  <1>3. <<a, c>> = [k \in 1 .. 2 |-> IF k = 1 THEN a ELSE c]
    OBVIOUS
  <1> QED BY <1>1, <1>2, <1>3

LEMMA FlatNext ==
  ASSUME NEW i \in Nat, i + 1 \in 2 .. num_threads
  PROVE  Flat(i) \o Pieces[i + 1] = Flat(i + 1)
  <1> DEFINE a == Life!Do("alloc", i + 1)
             c == Life!Do("create", i + 1)
             S == [op : {"alloc", "create"}, of : Nat]
             e(k) == IF k % 2 = 1 THEN Life!Do("alloc", (k + 1) \div 2)
                                  ELSE Life!Do("create", k \div 2)
  <1>1. Pieces[i + 1] = <<a, c>> /\ a \in S /\ c \in S
    BY TeamAssumption DEF Pieces, Life!Do
  <1>2. \A k \in Nat : e(k) \in S
    <2>1. \A k \in Nat : (k + 1) \div 2 \in Nat /\ k \div 2 \in Nat
      OBVIOUS
    <2> QED BY <2>1 DEF Life!Do
  <1>3. e(2 * i + 1) = a /\ e(2 * i + 2) = c
    <2>1. /\ (2 * i + 1) % 2 = 1 /\ (2 * i + 1 + 1) \div 2 = i + 1
          /\ (2 * i + 2) % 2 = 0 /\ (2 * i + 2) \div 2 = i + 1
      OBVIOUS
    <2> QED BY <2>1
  <1>4. \A j \in Nat : Flat(j) = [k \in 1 .. 2 * j |-> e(k)]
    BY DEF Flat
  <1> HIDE DEF a, c, S, e
  <1>5. /\ Flat(i) \in Seq(S) /\ Len(Flat(i)) = 2 * i
        /\ \A k \in 1 .. 2 * i : Flat(i)[k] = e(k)
    <2>1. 2 * i \in Nat /\ \A k \in 1 .. 2 * i : k \in Nat
      OBVIOUS
    <2>2. Flat(i) = [k \in 1 .. 2 * i |-> e(k)]
      BY <1>4
    <2>3. Flat(i) \in [1 .. 2 * i -> S]
      BY <1>2, <2>1, <2>2
    <2>4. Flat(i) \in Seq(S) /\ Len(Flat(i)) = 2 * i
      BY <2>1, <2>3
    <2> QED BY <2>2, <2>4
  <1>6. /\ Flat(i + 1) \in Seq(S) /\ Len(Flat(i + 1)) = 2 * i + 2
        /\ \A k \in 1 .. 2 * i + 2 : Flat(i + 1)[k] = e(k)
    <2>1. /\ i + 1 \in Nat /\ 2 * (i + 1) = 2 * i + 2 /\ 2 * i + 2 \in Nat
          /\ \A k \in 1 .. 2 * i + 2 : k \in Nat
      OBVIOUS
    <2>2. Flat(i + 1) = [k \in 1 .. 2 * i + 2 |-> e(k)]
      BY <1>4, <2>1
    <2>3. Flat(i + 1) \in [1 .. 2 * i + 2 -> S]
      BY <1>2, <2>1, <2>2
    <2>4. Flat(i + 1) \in Seq(S) /\ Len(Flat(i + 1)) = 2 * i + 2
      BY <2>1, <2>3
    <2> QED BY <2>2, <2>4
  <1> DEFINE p == <<a, c>>
  <1>7. p \in Seq(S) /\ Len(p) = 2 /\ p[1] = a /\ p[2] = c
    BY <1>1
  <1> HIDE DEF p
  <1> DEFINE s == Flat(i) \o p
  <1>8. /\ s \in Seq(S) /\ Len(s) = 2 * i + 2
        /\ \A k \in 1 .. 2 * i + 2 : s[k] = IF k <= 2 * i THEN Flat(i)[k] ELSE p[k - 2 * i]
    <2>1. 2 * i + 2 = Len(Flat(i)) + Len(p)
      BY <1>5, <1>7
    <2>2. /\ s \in Seq(S) /\ Len(s) = Len(Flat(i)) + Len(p)
          /\ \A k \in 1 .. Len(Flat(i)) + Len(p) :
               s[k] = IF k <= Len(Flat(i)) THEN Flat(i)[k] ELSE p[k - Len(Flat(i))]
      BY <1>5, <1>7, ConcatProperties
    <2> QED BY <1>5, <2>1, <2>2
  <1>9. \A k \in 1 .. 2 * i + 2 : s[k] = e(k)
    <2> TAKE k \in 1 .. 2 * i + 2
    <2>0. k <= 2 * i \/ k = 2 * i + 1 \/ k = 2 * i + 2
      OBVIOUS
    <2>1. CASE k <= 2 * i
      BY <1>5, <1>8, <2>1
    <2>2. CASE k = 2 * i + 1
      BY <1>3, <1>7, <1>8, <2>2
    <2>3. CASE k = 2 * i + 2
      BY <1>3, <1>7, <1>8, <2>3
    <2> QED BY <2>0, <2>1, <2>2, <2>3
  <1> HIDE DEF s
  <1>10. s = Flat(i + 1)
    BY <1>6, <1>8, <1>9, SeqEqual
  <1> QED BY <1>1, <1>10 DEF s, p

\* The equations of FlattenSeq have one solution.
LEMMA CreateAllIs == Life!create_all = Flat(num_threads)
  <1> DEFINE g == [i \in 1 .. num_threads |-> Flat(i)]
             f == CHOOSE h : Flattens(h)
  <1>1. num_threads \in Nat /\ num_threads # 0
    BY TeamAssumption
  <1>2. Flattens(g)
    <2>1. ASSUME NEW i \in 1 .. num_threads
          PROVE  g[i] = IF i = 1 THEN Pieces[i] ELSE g[i - 1] \o Pieces[i]
      <3>1. CASE i = 1
        BY <3>1, FlatFirst
      <3>2. CASE i # 1
        <4>1. i - 1 \in Nat /\ (i - 1) + 1 = i /\ i - 1 \in 1 .. num_threads
              /\ (i - 1) + 1 \in 2 .. num_threads
          BY <1>1, <3>2
        <4>2. Flat(i - 1) \o Pieces[(i - 1) + 1] = Flat((i - 1) + 1)
          BY <4>1, FlatNext
        <4> QED BY <3>2, <4>1, <4>2
      <3> QED BY <3>1, <3>2
    <2> HIDE DEF g
    <2>2. g = [i \in 1 .. num_threads |-> g[i]]
      BY DEF g
    <2> QED BY <2>1, <2>2 DEF Flattens
  <1> HIDE DEF g
  <1>3. Flattens(f)
    BY <1>2
  <1> HIDE DEF f
  <1> DEFINE T == {n \in Nat : n + 1 \in 1 .. num_threads => f[n + 1] = Flat(n + 1)}
  <1>4. 0 \in T
    BY <1>1, <1>3, FlatFirst DEF Flattens
  <1>5. ASSUME NEW n \in Nat, n \in T PROVE n + 1 \in T
    <2>1. SUFFICES ASSUME (n + 1) + 1 \in 1 .. num_threads
                   PROVE  f[(n + 1) + 1] = Flat((n + 1) + 1)
      OBVIOUS
    <2> DEFINE i == n + 1
    <2>2. i \in Nat /\ i \in 1 .. num_threads /\ i + 1 \in 2 .. num_threads
          /\ i + 1 \in 1 .. num_threads /\ i + 1 # 1 /\ (i + 1) - 1 = i
      BY <1>1, <2>1
    <2>3. f[i] = Flat(i)
      BY <1>5, <2>2
    <2> HIDE DEF i
    <2>4. f[i + 1] = f[i] \o Pieces[i + 1]
      BY <1>3, <2>2 DEF Flattens
    <2>5. f[i + 1] = Flat(i + 1)
      BY <2>2, <2>3, <2>4, FlatNext
    <2> QED BY <2>5 DEF i
  <1> HIDE DEF T
  <1>6. Nat \subseteq T
    BY <1>4, <1>5, Counting
  <1>7. num_threads - 1 \in T /\ num_threads - 1 \in Nat /\ (num_threads - 1) + 1 = num_threads
    BY <1>1, <1>6
  <1>8. f[num_threads] = Flat(num_threads)
    BY <1>1, <1>7 DEF T
  <1> QED BY <1>8, FlattenIs DEF f

\* What reported says of a thread that was not asked about.
Quiet == ""
LEMMA QuietIs == Quiet \notin {"JOINABLE", "DETACHED", "error"}
  BY Zenon DEF Quiet

\* The parts every program has.
LifeTypes ==
  /\ life_version \in Life!Version
  /\ life_at \in [Life!Threads -> Nat] /\ \A t \in Life!Threads : life_at[t] > 0
  /\ life_status \in [Life!Threads -> {"none", "running", "ended", "gone"}]
  /\ reported \in [Life!Threads -> {Quiet, "JOINABLE", "DETACHED", "error"}]

\* No argument is misused, and main is not joined.
Harmless == wild = {} /\ life_status[0] \in {"running", "ended"}

\* No thread is detached and none is asked about.
Attached == Harmless /\ detached = {} /\ \A t \in Life!Threads : reported[t] = Quiet

\* Thread t has been created when its creator is past position born, and has
\* been joined when its creator is past position joined; it ends after len calls.
Lives(t, by, born, joined, len) ==
  /\ life_status[t] = "none" <=> life_at[by] <= born
  /\ life_status[t] = "gone" <=> life_at[by] > joined
  /\ life_status[t] = "none" => life_at[t] = 1
  /\ life_status[t] \in {"ended", "gone"} => life_at[t] = len + 1

\* simple_thread.c: val has the 5 of thread 1 once it is past its addition.
SimpleKept ==
  /\ Attached /\ args = {}
  /\ life_at[0] \in 1 .. 4 /\ life_at[1] \in 1 .. 4
  /\ val = IF life_at[1] > 2 THEN 15 ELSE 10
  /\ Lives(1, 0, 1, 2, 3)
  /\ life_status[2] = "none" <=> life_at[1] <= 1
  /\ life_status[2] = "gone" <=> life_at[1] > 3
  /\ life_status[0] = "ended" => life_at[0] = 4
  /\ \A t \in Life!Threads : t > 2 => life_status[t] = "none"

\* 1-simple.c and custom_thread.c: the argument lives from the first call of
\* main to the fourth.
FooKept ==
  /\ Attached /\ args = IF life_at[0] \in 2 .. 4 THEN {1} ELSE {}
  /\ life_at[0] \in 1 .. 5 /\ life_at[1] \in 1 .. 2
  /\ Lives(1, 0, 2, 3, 1)
  /\ life_status[0] = "ended" => life_at[0] = 5
  /\ \A t \in Life!Threads : t > 1 => life_status[t] = "none"

CloneKept ==
  /\ Attached /\ args = IF life_at[0] \in 2 .. 4 THEN {1} ELSE {}
  /\ life_at[0] \in 1 .. 6 /\ life_at[1] \in 1 .. 3
  /\ val = IF life_at[1] > 2 THEN 11 ELSE 10
  /\ Lives(1, 0, 2, 3, 2)
  /\ life_status[0] = "ended" => life_at[0] = 6
  /\ \A t \in Life!Threads : t > 1 => life_status[t] = "none"

\* 2-detach.c: what is detached and what is known follow main.
Known ==
  /\ reported[1] = IF life_at[0] > 2 THEN "JOINABLE" ELSE Quiet
  /\ reported[2] # Quiet <=> life_at[0] > 5
  /\ reported[3] # Quiet <=> life_at[0] > 7
  /\ reported[2] # "JOINABLE" /\ reported[3] # "JOINABLE"
Others == \A t \in Life!Threads : t = 0 \/ t > 3 => reported[t] = Quiet
Separate ==
  /\ detached \subseteq {2, 3}
  /\ 2 \in detached <=> life_at[0] > 4
  /\ 3 \in detached <=> life_at[0] > 6
Listed ==
  /\ args = {} /\ life_at[0] \in 1 .. 8
  /\ life_status[1] = "none" <=> life_at[0] <= 1
  /\ life_status[1] = "gone" <=> life_at[0] > 2
  /\ life_status[0] = "ended" => life_at[0] = 8
  /\ \A t \in Life!Threads : t > 3 => life_status[t] = "none"
DetachKept == Harmless /\ Known /\ Others /\ Separate /\ Listed

\* multiple_threads.c: an argument lives from its allocation to the last call of
\* its thread.
MultipleOf(t) ==
  /\ life_at[t] \in 1 .. 4
  /\ Lives(t, 0, 2 * t, 2 * num_threads + t, 3)
  /\ t \in args <=> life_at[0] > 2 * t - 1 /\ life_at[t] < 4
MultipleKept ==
  /\ Attached /\ args \subseteq 1 .. num_threads
  /\ life_at[0] \in 1 .. 3 * num_threads + 1
  /\ life_status[0] = "ended" => life_at[0] = 3 * num_threads + 1
  /\ \A t \in 1 .. num_threads : MultipleOf(t)

\* alarm_thread.c: and the same when the thread detaches itself, unless its line
\* cannot be parsed.
AlarmOf(t) ==
  /\ life_at[t] \in 1 .. 5
  /\ life_at[0] <= 2 * t => life_status[t] = "none"
  /\ life_status[t] = "none" => life_at[t] = 1
  /\ t \in args <=> /\ life_at[0] > 2 * t - 1 /\ life_at[t] < 5
                    /\ life_at[0] = 2 * t \/ life_status[t] # "none"
AlarmKept ==
  /\ Harmless /\ 0 \notin detached /\ \A t \in Life!Threads : reported[t] = Quiet
  /\ \A t \in 1 .. num_threads : AlarmOf(t)

LifeInv ==
  /\ LifeTypes
  /\ life_version = "simple" => SimpleKept
  /\ life_version = "foo" => FooKept
  /\ life_version = "clone" => CloneKept
  /\ life_version = "detach" => DetachKept
  /\ life_version = "multiple" => MultipleKept
  /\ life_version = "alarm" => AlarmKept

\* What thread t calls at position k of its script: op on who.
SimpleCall(t, k, op, who) ==
  \/ t = 0 /\ k = 1 /\ op = "create" /\ who = 1
  \/ t = 0 /\ k = 2 /\ op = "join" /\ who = 1
  \/ t = 0 /\ k = 3 /\ op = "print"
  \/ t = 1 /\ k = 1 /\ op = "create" /\ who = 2
  \/ t = 1 /\ k = 2 /\ op = "add" /\ who = 5
  \/ t = 1 /\ k = 3 /\ op = "join" /\ who = 2
  \/ t > 1 /\ k = 1 /\ op = "work"
FooCall(t, k, op, who) ==
  /\ who = 1
  /\ \/ t = 0 /\ k = 1 /\ op = "alloc"
     \/ t = 0 /\ k = 2 /\ op = "create"
     \/ t = 0 /\ k = 3 /\ op = "join"
     \/ t = 0 /\ k = 4 /\ op = "free"
     \/ t > 0 /\ k = 1 /\ op = "use"
CloneCall(t, k, op, who) ==
  \/ FooCall(t, k, op, who)
  \/ t = 0 /\ k = 5 /\ op = "print"
  \/ t > 0 /\ k = 2 /\ op = "add" /\ who = 1
DetachCall(t, k, op, who) ==
  \/ t = 0 /\ k = 1 /\ op = "create" /\ who = 1
  \/ t = 0 /\ k = 2 /\ op = "report" /\ who = 1
  \/ t = 0 /\ k = 3 /\ op = "create" /\ who = 2
  \/ t = 0 /\ k = 4 /\ op = "detach" /\ who = 2
  \/ t = 0 /\ k = 5 /\ op = "report" /\ who = 2
  \/ t = 0 /\ k = 6 /\ op = "create_detached" /\ who = 3
  \/ t = 0 /\ k = 7 /\ op = "report" /\ who = 3
  \/ t > 0 /\ k = 1 /\ op = "work"
CreateCall(k, op, who) ==
  /\ who \in 1 .. num_threads
  /\ \/ k = 2 * who - 1 /\ op = "alloc"
     \/ k = 2 * who /\ op = "create"
MultipleCall(t, k, op, who) ==
  \/ t = 0 /\ CreateCall(k, op, who)
  \/ t = 0 /\ who \in 1 .. num_threads /\ k = 2 * num_threads + who /\ op = "join"
  \/ t > 0 /\ who = t /\ k = 1 /\ op = "use"
  \/ t > 0 /\ who = t /\ k = 2 /\ op = "work"
  \/ t > 0 /\ who = t /\ k = 3 /\ op = "free"
AlarmCall(t, k, op, who) ==
  \/ t = 0 /\ CreateCall(k, op, who)
  \/ t > 0 /\ who = t /\ k = 1 /\ op = "detach"
  \/ t > 0 /\ who = t /\ k = 2 /\ op = "work"
  \/ t > 0 /\ who = t /\ k = 3 /\ op = "use"
  \/ t > 0 /\ who = t /\ k = 4 /\ op = "free"

\* The threads and their numbers.
LEMMA LifeThreads ==
  /\ num_threads \in Nat /\ num_threads > 2 /\ Life!Threads = 0 .. num_threads
  /\ {0, 1, 2, 3} \subseteq Life!Threads /\ 1 .. num_threads \subseteq Life!Threads
  /\ \A t \in Life!Threads : t = 0 \/ t \in 1 .. num_threads
  BY TeamAssumption DEF Life!Threads

\* The calls of a main that creates all threads.
LEMMA CreateCalls ==
  /\ Len(Life!create_all) = 2 * num_threads
  /\ Life!create_all \in Seq([op : {"alloc", "create", "join"}, of : Nat])
  /\ \A k \in 1 .. 2 * num_threads :
       CreateCall(k, Life!create_all[k].op, Life!create_all[k].of)
  <1> DEFINE S == [op : {"alloc", "create", "join"}, of : Nat]
             n == 2 * num_threads
             e(k) == IF k % 2 = 1 THEN Life!Do("alloc", (k + 1) \div 2)
                                  ELSE Life!Do("create", k \div 2)
  <1>1. n \in Nat /\ Life!create_all = [k \in 1 .. n |-> e(k)]
    BY CreateAllIs, LifeThreads DEF Flat
  <1>2. ASSUME NEW k \in 1 .. n
        PROVE  e(k) \in S /\ CreateCall(k, e(k).op, e(k).of)
    <2>1. k \in Nat /\ num_threads \in Nat
      BY LifeThreads
    <2>2. CASE k % 2 = 1
      <3> DEFINE j == (k + 1) \div 2
      <3>1. j \in 1 .. num_threads /\ k = 2 * j - 1
        BY <2>1, <2>2
      <3>2. e(k) = [op |-> "alloc", of |-> j]
        BY <2>2 DEF Life!Do
      <3>3. j \in Nat
        BY <3>1, LifeThreads
      <3> HIDE DEF j, e
      <3>4. CreateCall(k, "alloc", j)
        BY <3>1 DEF CreateCall
      <3>5. e(k) \in S /\ e(k).op = "alloc" /\ e(k).of = j
        BY <3>2, <3>3
      <3> QED BY <3>4, <3>5
    <2>3. CASE k % 2 # 1
      <3> DEFINE j == k \div 2
      <3>1. j \in 1 .. num_threads /\ k = 2 * j
        BY <2>1, <2>3
      <3>2. e(k) = [op |-> "create", of |-> j]
        BY <2>3 DEF Life!Do
      <3>3. j \in Nat
        BY <3>1, LifeThreads
      <3> HIDE DEF j, e
      <3>4. CreateCall(k, "create", j)
        BY <3>1 DEF CreateCall
      <3>5. e(k) \in S /\ e(k).op = "create" /\ e(k).of = j
        BY <3>2, <3>3
      <3> QED BY <3>4, <3>5
    <2> QED BY <2>2, <2>3
  <1> HIDE DEF n, e
  <1>3. Life!create_all \in [1 .. n -> S]
    BY <1>1, <1>2
  <1>4. Life!create_all \in Seq(S) /\ Len(Life!create_all) = n
    BY <1>1, <1>3
  <1> QED BY <1>1, <1>2, <1>4 DEF n

\* The calls of each script.
LEMMA SimpleCalls ==
  ASSUME life_version = "simple", NEW t \in Life!Threads, NEW k \in Nat \ {0}
  PROVE  IF k > Len(Life!Script(t))
           THEN k > (IF t < 2 THEN 3 ELSE 1)
           ELSE SimpleCall(t, k, Life!Script(t)[k].op, Life!Script(t)[k].of)
  <1>1. CASE t = 0
    <2>1. Life!Script(t) = <<Life!Do("create", 1), Life!Do("join", 1), Life!Do("print", 0)>>
      BY <1>1 DEF Life!Script, Life!simple_main
    <2>2. /\ Len(Life!Script(t)) = 3
          /\ Life!Script(t)[1].op = "create" /\ Life!Script(t)[1].of = 1
          /\ Life!Script(t)[2].op = "join" /\ Life!Script(t)[2].of = 1
          /\ Life!Script(t)[3].op = "print" /\ Life!Script(t)[3].of = 0
      BY <2>1 DEF Life!Do
    <2>3. k = 1 \/ k = 2 \/ k = 3 \/ k > 3
      OBVIOUS
    <2>4. CASE k > 3
      BY <1>1, <2>2, <2>4
    <2>5. CASE k = 1
      BY <1>1, <2>2, <2>5 DEF SimpleCall
    <2>6. CASE k = 2
      BY <1>1, <2>2, <2>6 DEF SimpleCall
    <2>7. CASE k = 3
      BY <1>1, <2>2, <2>7 DEF SimpleCall
    <2> QED BY <2>3, <2>4, <2>5, <2>6, <2>7
  <1>2. CASE t = 1
    <2>1. Life!Script(t) = <<Life!Do("create", 2), Life!Do("add", 5), Life!Do("join", 2)>>
      BY <1>2 DEF Life!Script, Life!func_a
    <2>2. /\ Len(Life!Script(t)) = 3
          /\ Life!Script(t)[1].op = "create" /\ Life!Script(t)[1].of = 2
          /\ Life!Script(t)[2].op = "add" /\ Life!Script(t)[2].of = 5
          /\ Life!Script(t)[3].op = "join" /\ Life!Script(t)[3].of = 2
      BY <2>1 DEF Life!Do
    <2>3. k = 1 \/ k = 2 \/ k = 3 \/ k > 3
      OBVIOUS
    <2>4. CASE k > 3
      BY <1>2, <2>2, <2>4
    <2>5. CASE k = 1
      BY <1>2, <2>2, <2>5 DEF SimpleCall
    <2>6. CASE k = 2
      BY <1>2, <2>2, <2>6 DEF SimpleCall
    <2>7. CASE k = 3
      BY <1>2, <2>2, <2>7 DEF SimpleCall
    <2> QED BY <2>3, <2>4, <2>5, <2>6, <2>7
  <1>3. CASE t > 1
    <2>1. Life!Script(t) = <<Life!Do("work", 2)>>
      BY <1>3 DEF Life!Script, Life!func_b
    <2>2. /\ Len(Life!Script(t)) = 1
          /\ Life!Script(t)[1].op = "work" /\ Life!Script(t)[1].of = 2
      BY <2>1 DEF Life!Do
    <2>3. k = 1 \/ k > 1
      OBVIOUS
    <2> QED BY <1>3, <2>2, <2>3, LifeThreads DEF SimpleCall
  <1> QED BY <1>1, <1>2, <1>3, LifeThreads

LEMMA FooCalls ==
  ASSUME life_version = "foo", NEW t \in Life!Threads, NEW k \in Nat \ {0}
  PROVE  IF k > Len(Life!Script(t))
           THEN k > (IF t = 0 THEN 4 ELSE 1)
           ELSE FooCall(t, k, Life!Script(t)[k].op, Life!Script(t)[k].of)
  <1>1. CASE t = 0
    <2>1. Life!Script(t) = <<Life!Do("alloc", 1), Life!Do("create", 1), Life!Do("join", 1),
                             Life!Do("free", 1)>>
      BY <1>1 DEF Life!Script, Life!foo_main
    <2>2. /\ Len(Life!Script(t)) = 4
          /\ Life!Script(t)[1].op = "alloc" /\ Life!Script(t)[1].of = 1
          /\ Life!Script(t)[2].op = "create" /\ Life!Script(t)[2].of = 1
          /\ Life!Script(t)[3].op = "join" /\ Life!Script(t)[3].of = 1
          /\ Life!Script(t)[4].op = "free" /\ Life!Script(t)[4].of = 1
      BY <2>1 DEF Life!Do
    <2>3. k = 1 \/ k = 2 \/ k = 3 \/ k = 4 \/ k > 4
      OBVIOUS
    <2> QED BY <1>1, <2>2, <2>3 DEF FooCall
  <1>2. CASE t > 0
    <2>1. Life!Script(t) = <<Life!Do("use", 1)>>
      BY <1>2 DEF Life!Script, Life!foo
    <2>2. /\ Len(Life!Script(t)) = 1
          /\ Life!Script(t)[1].op = "use" /\ Life!Script(t)[1].of = 1
      BY <2>1 DEF Life!Do
    <2>3. k = 1 \/ k > 1
      OBVIOUS
    <2> QED BY <1>2, <2>2, <2>3 DEF FooCall
  <1> QED BY <1>1, <1>2, LifeThreads

LEMMA CloneCalls ==
  ASSUME life_version = "clone", NEW t \in Life!Threads, NEW k \in Nat \ {0}
  PROVE  IF k > Len(Life!Script(t))
           THEN k > (IF t = 0 THEN 5 ELSE 2)
           ELSE CloneCall(t, k, Life!Script(t)[k].op, Life!Script(t)[k].of)
  <1>1. CASE t = 0
    <2>1. Life!Script(t) = <<Life!Do("alloc", 1), Life!Do("create", 1), Life!Do("join", 1),
                             Life!Do("free", 1), Life!Do("print", 0)>>
      BY <1>1 DEF Life!Script, Life!clone_main
    <2>2. /\ Len(Life!Script(t)) = 5
          /\ Life!Script(t)[1].op = "alloc" /\ Life!Script(t)[1].of = 1
          /\ Life!Script(t)[2].op = "create" /\ Life!Script(t)[2].of = 1
          /\ Life!Script(t)[3].op = "join" /\ Life!Script(t)[3].of = 1
          /\ Life!Script(t)[4].op = "free" /\ Life!Script(t)[4].of = 1
          /\ Life!Script(t)[5].op = "print" /\ Life!Script(t)[5].of = 0
      BY <2>1 DEF Life!Do
    <2>3. k = 1 \/ k = 2 \/ k = 3 \/ k = 4 \/ k = 5 \/ k > 5
      OBVIOUS
    <2> QED BY <1>1, <2>2, <2>3 DEF CloneCall, FooCall
  <1>2. CASE t > 0
    <2>1. Life!Script(t) = <<Life!Do("use", 1), Life!Do("add", 1)>>
      BY <1>2 DEF Life!Script, Life!threadfunc
    <2>2. /\ Len(Life!Script(t)) = 2
          /\ Life!Script(t)[1].op = "use" /\ Life!Script(t)[1].of = 1
          /\ Life!Script(t)[2].op = "add" /\ Life!Script(t)[2].of = 1
      BY <2>1 DEF Life!Do
    <2>3. k = 1 \/ k = 2 \/ k > 2
      OBVIOUS
    <2> QED BY <1>2, <2>2, <2>3 DEF CloneCall, FooCall
  <1> QED BY <1>1, <1>2, LifeThreads

LEMMA DetachCalls ==
  ASSUME life_version = "detach", NEW t \in Life!Threads, NEW k \in Nat \ {0}
  PROVE  IF k > Len(Life!Script(t))
           THEN k > (IF t = 0 THEN 7 ELSE 1)
           ELSE DetachCall(t, k, Life!Script(t)[k].op, Life!Script(t)[k].of)
  <1>1. CASE t = 0
    <2>1. Life!Script(t) =
            <<Life!Do("create", 1), Life!Do("report", 1), Life!Do("create", 2),
              Life!Do("detach", 2), Life!Do("report", 2), Life!Do("create_detached", 3),
              Life!Do("report", 3)>>
      BY <1>1 DEF Life!Script, Life!detach_main
    <2>2. /\ Len(Life!Script(t)) = 7
          /\ Life!Script(t)[1].op = "create" /\ Life!Script(t)[1].of = 1
          /\ Life!Script(t)[2].op = "report" /\ Life!Script(t)[2].of = 1
          /\ Life!Script(t)[3].op = "create" /\ Life!Script(t)[3].of = 2
          /\ Life!Script(t)[4].op = "detach" /\ Life!Script(t)[4].of = 2
          /\ Life!Script(t)[5].op = "report" /\ Life!Script(t)[5].of = 2
          /\ Life!Script(t)[6].op = "create_detached" /\ Life!Script(t)[6].of = 3
          /\ Life!Script(t)[7].op = "report" /\ Life!Script(t)[7].of = 3
      BY <2>1 DEF Life!Do
    <2>3. CASE k > 7
      BY <1>1, <2>2, <2>3
    <2>4. CASE k \in {1, 2, 3}
      BY <1>1, <2>2, <2>4 DEF DetachCall
    <2>5. CASE k \in {4, 5}
      BY <1>1, <2>2, <2>5 DEF DetachCall
    <2>6. CASE k \in {6, 7}
      BY <1>1, <2>2, <2>6 DEF DetachCall
    <2>7. k > 7 \/ k \in {1, 2, 3} \/ k \in {4, 5} \/ k \in {6, 7}
      OBVIOUS
    <2> QED BY <2>3, <2>4, <2>5, <2>6, <2>7
  <1>2. CASE t > 0
    <2>1. Life!Script(t) = <<Life!Do("work", 1)>>
      BY <1>2 DEF Life!Script, Life!thread
    <2>2. /\ Len(Life!Script(t)) = 1
          /\ Life!Script(t)[1].op = "work" /\ Life!Script(t)[1].of = 1
      BY <2>1 DEF Life!Do
    <2>3. k = 1 \/ k > 1
      OBVIOUS
    <2> QED BY <1>2, <2>2, <2>3 DEF DetachCall
  <1> QED BY <1>1, <1>2, LifeThreads

LEMMA MultipleCalls ==
  ASSUME life_version = "multiple", NEW t \in Life!Threads, NEW k \in Nat \ {0}
  PROVE  IF k > Len(Life!Script(t))
           THEN k > (IF t = 0 THEN 3 * num_threads ELSE 3)
           ELSE MultipleCall(t, k, Life!Script(t)[k].op, Life!Script(t)[k].of)
  <1>1. CASE t = 0
    <2> DEFINE S == [op : {"alloc", "create", "join"}, of : Nat]
               c == Life!create_all
               d == [j \in 1 .. num_threads |-> Life!Do("join", j)]
    <2>1. Life!Script(t) = c \o d
      BY <1>1 DEF Life!Script, Life!multiple_main, Life!Each
    <2>2. c \in Seq(S) /\ Len(c) = 2 * num_threads
      BY CreateCalls
    <2>3. /\ d \in Seq(S) /\ Len(d) = num_threads
          /\ \A j \in 1 .. num_threads : d[j].op = "join" /\ d[j].of = j
      BY LifeThreads DEF Life!Do
    <2>4. \A i \in 1 .. 2 * num_threads : CreateCall(i, c[i].op, c[i].of)
      BY CreateCalls
    <2> HIDE DEF c, d, S
    <2>5. /\ Len(c \o d) = Len(c) + Len(d)
          /\ \A i \in 1 .. Len(c) + Len(d) :
               (c \o d)[i] = IF i <= Len(c) THEN c[i] ELSE d[i - Len(c)]
      BY <2>2, <2>3, ConcatProperties
    <2>6. Len(c) + Len(d) = 3 * num_threads
      BY <2>2, <2>3, LifeThreads
    <2>7. CASE k > 3 * num_threads
      BY <1>1, <2>1, <2>5, <2>6, <2>7
    <2>8. CASE k <= 2 * num_threads
      <3>1. k \in 1 .. 2 * num_threads /\ k \in 1 .. 3 * num_threads /\ ~(k > 3 * num_threads)
        BY <2>8, LifeThreads
      <3>2. Life!Script(t)[k] = c[k]
        BY <2>1, <2>2, <2>5, <2>6, <2>8, <3>1
      <3> QED BY <1>1, <2>1, <2>4, <2>5, <2>6, <3>1, <3>2 DEF MultipleCall
    <2>9. CASE k > 2 * num_threads /\ k <= 3 * num_threads
      <3>1. /\ k \in 1 .. 3 * num_threads /\ ~(k <= 2 * num_threads)
            /\ k - 2 * num_threads \in 1 .. num_threads
            /\ k = 2 * num_threads + (k - 2 * num_threads)
        BY <2>9, LifeThreads
      <3>2. Life!Script(t)[k] = d[k - 2 * num_threads]
        BY <2>1, <2>2, <2>5, <2>6, <3>1
      <3>3. /\ Life!Script(t)[k].op = "join"
            /\ Life!Script(t)[k].of = k - 2 * num_threads
        BY <2>3, <3>1, <3>2
      <3>4. MultipleCall(t, k, Life!Script(t)[k].op, Life!Script(t)[k].of)
        BY <1>1, <3>1, <3>3 DEF MultipleCall
      <3>5. ~(k > Len(Life!Script(t)))
        BY <2>1, <2>5, <2>6, <3>1
      <3> QED BY <3>4, <3>5
    <2> QED BY <2>7, <2>8, <2>9, LifeThreads
  <1>2. CASE t > 0
    <2>1. Life!Script(t) = <<Life!Do("use", t), Life!Do("work", t), Life!Do("free", t)>>
      BY <1>2 DEF Life!Script, Life!my_func
    <2>2. /\ Len(Life!Script(t)) = 3
          /\ Life!Script(t)[1].op = "use" /\ Life!Script(t)[1].of = t
          /\ Life!Script(t)[2].op = "work" /\ Life!Script(t)[2].of = t
          /\ Life!Script(t)[3].op = "free" /\ Life!Script(t)[3].of = t
      BY <2>1 DEF Life!Do
    <2>3. k = 1 \/ k = 2 \/ k = 3 \/ k > 3
      OBVIOUS
    <2> QED BY <1>2, <2>2, <2>3 DEF MultipleCall
  <1> QED BY <1>1, <1>2, LifeThreads

LEMMA AlarmCalls ==
  ASSUME life_version = "alarm", NEW t \in Life!Threads, NEW k \in Nat \ {0}
  PROVE  IF k > Len(Life!Script(t))
           THEN k > (IF t = 0 THEN 2 * num_threads ELSE 4)
           ELSE AlarmCall(t, k, Life!Script(t)[k].op, Life!Script(t)[k].of)
  <1>1. CASE t = 0
    <2>1. Life!Script(t) = Life!create_all
      BY <1>1 DEF Life!Script, Life!alarm_main
    <2>2. ~(k > 2 * num_threads) => k \in 1 .. 2 * num_threads
      BY LifeThreads
    <2> QED BY <1>1, <2>1, <2>2, CreateCalls DEF AlarmCall
  <1>2. CASE t > 0
    <2>1. Life!Script(t) = <<Life!Do("detach", t), Life!Do("work", t), Life!Do("use", t),
                             Life!Do("free", t)>>
      BY <1>2 DEF Life!Script, Life!alarm_thread
    <2>2. /\ Len(Life!Script(t)) = 4
          /\ Life!Script(t)[1].op = "detach" /\ Life!Script(t)[1].of = t
          /\ Life!Script(t)[2].op = "work" /\ Life!Script(t)[2].of = t
          /\ Life!Script(t)[3].op = "use" /\ Life!Script(t)[3].of = t
          /\ Life!Script(t)[4].op = "free" /\ Life!Script(t)[4].of = t
      BY <2>1 DEF Life!Do
    <2>3. k = 1 \/ k = 2 \/ k = 3 \/ k = 4 \/ k > 4
      OBVIOUS
    <2> QED BY <1>2, <2>2, <2>3 DEF AlarmCall
  <1> QED BY <1>1, <1>2, LifeThreads

\* A step keeps the types and the version.
LEMMA LifeTypesStep ==
  ASSUME LifeTypes, NEW t \in Life!Threads, Life!run(t)
  PROVE  LifeTypes' /\ UNCHANGED life_version
  <1>0. life_at[t] \in Nat
    BY DEF LifeTypes
  <1>1. life_at[t] + 1 \in Nat /\ life_at[t] + 1 > 0
    BY <1>0
  <1>2. CASE Life!pthread_create(t)
    BY <1>1, <1>2 DEF LifeTypes, Life!pthread_create, Life!Step
  <1>3. CASE Life!pthread_join(t)
    BY <1>1, <1>3 DEF LifeTypes, Life!pthread_join, Life!Step
  <1>4. CASE Life!pthread_detach(t)
    BY <1>1, <1>4 DEF LifeTypes, Life!pthread_detach, Life!Step
  <1>5. CASE Life!print_attachment(t)
    BY <1>1, <1>5 DEF LifeTypes, Life!print_attachment, Life!Step
  <1>6. CASE Life!BadInput(t) \/ Life!Alloc(t) \/ Life!Use(t) \/ Life!Free(t) \/ Life!Add(t)
             \/ Life!Work(t)
    BY <1>1, <1>6
       DEF LifeTypes, Life!BadInput, Life!Alloc, Life!Use, Life!Free, Life!Add, Life!Work, Life!Step
  <1>7. CASE Life!Exit(t)
    BY <1>7 DEF LifeTypes, Life!Exit
  <1> QED BY <1>2, <1>3, <1>4, <1>5, <1>6, <1>7 DEF Life!run

\* What a call does, thread by thread.
Becomes(who, new) ==
  \A u \in Life!Threads : life_status'[u] = IF u = who THEN new ELSE life_status[u]
Effect(op, who) ==
  \/ /\ op = "create" /\ Becomes(who, "running")
     /\ UNCHANGED <<detached, args, wild, val, reported>>
  \/ /\ op = "create" /\ life_version = "alarm" /\ args' = args \ {who}
     /\ UNCHANGED <<life_status, detached, wild, val, reported>>
  \/ /\ op = "create_detached" /\ Becomes(who, "running") /\ detached' = detached \cup {who}
     /\ UNCHANGED <<args, wild, val, reported>>
  \/ /\ op = "join" /\ life_status[who] = "ended" /\ Becomes(who, "gone")
     /\ UNCHANGED <<detached, args, wild, val, reported>>
  \/ /\ op = "detach" /\ detached' = detached \cup {who}
     /\ Becomes(who, IF life_status[who] = "ended" THEN "gone" ELSE life_status[who])
     /\ UNCHANGED <<args, wild, val, reported>>
  \/ /\ op = "report" /\ who \in detached
     /\ \E w \in {"DETACHED", "error"} :
          \A u \in Life!Threads : reported'[u] = IF u = who THEN w ELSE reported[u]
     /\ UNCHANGED <<life_status, detached, args, wild, val>>
  \/ /\ op = "report" /\ who \notin detached
     /\ life_status[who] = "ended" /\ Becomes(who, "gone")
     /\ \A u \in Life!Threads : reported'[u] = IF u = who THEN "JOINABLE" ELSE reported[u]
     /\ UNCHANGED <<detached, args, wild, val>>
  \/ /\ op = "alloc" /\ args' = args \cup {who}
     /\ UNCHANGED <<life_status, detached, wild, val, reported>>
  \/ /\ op = "use" /\ (who \in args => UNCHANGED wild)
     /\ UNCHANGED <<life_status, detached, args, val, reported>>
  \/ /\ op = "free" /\ args' = args \ {who} /\ (who \in args => UNCHANGED wild)
     /\ UNCHANGED <<life_status, detached, val, reported>>
  \/ /\ op = "add" /\ val' = val + who
     /\ UNCHANGED <<life_status, detached, args, wild, reported>>
  \/ /\ op \in {"work", "print"}
     /\ UNCHANGED <<life_status, detached, args, wild, val, reported>>

\* A thread makes its next call or, at its end, exits.
LEMMA RunIs ==
  ASSUME LifeTypes, NEW t \in Life!Threads, Life!run(t)
  PROVE  /\ life_at[t] \in Nat /\ life_at[t] > 0
         /\ life_status[t] = "running" /\ life_status[0] = "running"
         /\ \/ /\ ~(life_at[t] > Len(Life!Script(t)))
               /\ \A u \in Life!Threads :
                    life_at'[u] = IF u = t THEN life_at[t] + 1 ELSE life_at[u]
               /\ Effect(Life!Script(t)[life_at[t]].op, Life!Script(t)[life_at[t]].of)
            \/ /\ life_at[t] > Len(Life!Script(t))
               /\ Becomes(t, IF t \in detached THEN "gone" ELSE "ended")
               /\ UNCHANGED <<life_at, detached, args, wild, val, reported>>
  <1> DEFINE op  == Life!Script(t)[life_at[t]].op
             who == Life!Script(t)[life_at[t]].of
  <1>0. life_at[t] \in Nat /\ life_at[t] > 0
    BY DEF LifeTypes
  <1>1. life_status[t] = "running" /\ life_status[0] = "running"
    BY DEF Life!run, Life!pthread_create, Life!pthread_join, Life!pthread_detach,
           Life!print_attachment, Life!BadInput, Life!Alloc, Life!Use, Life!Free, Life!Add,
           Life!Work, Life!Exit, Life!Step, Life!Running, Life!main_thread
  <1>2. \A new, v :
          life_status' = [life_status EXCEPT ![v] = new] => Becomes(v, new)
    BY DEF LifeTypes, Becomes
  <1>3. \A new, v : reported' = [reported EXCEPT ![v] = new] =>
          \A w \in Life!Threads : reported'[w] = IF w = v THEN new ELSE reported[w]
    BY DEF LifeTypes
  <1>4. CASE Life!Exit(t)
    BY <1>0, <1>1, <1>2, <1>4 DEF Life!Exit, Life!Done
  <1>5. CASE ~Life!Exit(t)
    <2>1. \A what : Life!Step(t, what) =>
            /\ ~(life_at[t] > Len(Life!Script(t))) /\ op = what
            /\ \A u \in Life!Threads :
                 life_at'[u] = IF u = t THEN life_at[t] + 1 ELSE life_at[u]
      BY DEF Life!Step, Life!Done, Life!Next_op, LifeTypes
    <2>2. Life!Of(t) = who
      BY DEF Life!Of, Life!Next_op
    <2> HIDE DEF op, who
    <2>3. \E what : Life!Step(t, what)
      BY <1>5 DEF Life!run, Life!pthread_create, Life!pthread_join, Life!pthread_detach,
             Life!print_attachment, Life!BadInput, Life!Alloc, Life!Use, Life!Free, Life!Add,
             Life!Work
    <2>4. ASSUME Life!pthread_create(t)
         PROVE  Effect(op, who)
      BY <1>2, <2>1, <2>2, <2>4 DEF Effect, Life!pthread_create
    <2>5. ASSUME Life!pthread_join(t)
         PROVE  Effect(op, who)
      BY <1>2, <2>1, <2>2, <2>5 DEF Effect, Life!pthread_join
    <2>6. ASSUME Life!pthread_detach(t)
         PROVE  Effect(op, who)
      <3>1. Becomes(who, IF life_status[who] = "ended" THEN "gone" ELSE life_status[who])
        BY <2>2, <2>6 DEF LifeTypes, Becomes, Life!pthread_detach
      <3> QED BY <2>1, <2>2, <2>6, <3>1 DEF Effect, Life!pthread_detach
    <2>7. ASSUME Life!print_attachment(t)
         PROVE  Effect(op, who)
      <3>1. op = "report"
        BY <2>1, <2>7 DEF Life!print_attachment
      <3>2. CASE who \in detached
        BY <1>3, <2>2, <2>7, <3>1, <3>2 DEF Effect, Life!print_attachment
      <3>3. CASE who \notin detached
        BY <1>2, <1>3, <2>2, <2>7, <3>1, <3>3 DEF Effect, Life!print_attachment
      <3> QED BY <3>2, <3>3
    <2>8. ASSUME Life!BadInput(t) \/ Life!Alloc(t) \/ Life!Use(t) \/ Life!Free(t) \/ Life!Add(t)
                \/ Life!Work(t)
         PROVE  Effect(op, who)
      BY <2>1, <2>2, <2>8
         DEF Effect, Life!BadInput, Life!Alloc, Life!Use, Life!Free, Life!Add, Life!Work
    <2>9. Effect(op, who)
      BY <1>5, <2>4, <2>5, <2>6, <2>7, <2>8 DEF Life!run
    <2> QED BY <1>0, <1>1, <2>1, <2>3, <2>9 DEF op, who
  <1> QED BY <1>4, <1>5

\* simple_thread.c, call by call.
LEMMA SimpleStep ==
  ASSUME LifeTypes, life_version = "simple", SimpleKept,
         NEW t \in Life!Threads, Life!run(t)
  PROVE  SimpleKept'
  <1> DEFINE k   == life_at[t]
             op  == Life!Script(t)[k].op
             who == Life!Script(t)[k].of
             exits == k > Len(Life!Script(t))
  <1>0. \/ /\ ~exits /\ SimpleCall(t, k, op, who) /\ Effect(op, who)
           /\ \A u \in Life!Threads : life_at'[u] = IF u = t THEN k + 1 ELSE life_at[u]
        \/ /\ exits /\ k > (IF t < 2 THEN 3 ELSE 1)
           /\ Becomes(t, IF t \in detached THEN "gone" ELSE "ended")
           /\ UNCHANGED <<life_at, detached, args, wild, val, reported>>
    BY RunIs, SimpleCalls
  <1>1. /\ k \in Nat /\ k > 0 /\ k = life_at[t]
        /\ life_status[t] = "running" /\ life_status[0] = "running"
    BY RunIs
  <1> HIDE DEF op, who, k, exits
  <1>2. {0, 1, 2, 3} \subseteq Life!Threads /\ t \in Nat
    BY LifeThreads
  <1>3. CASE ~exits /\ t = 0 /\ k = 1 /\ op = "create" /\ who = 1
    <2>1. /\ life_at'[0] = 2 /\ life_at'[1] = life_at[1] /\ life_at[0] = 1
          /\ life_status'[0] = life_status[0] /\ life_status'[1] = "running"
          /\ life_status'[2] = life_status[2]
          /\ \A u \in Life!Threads : u > 2 => life_status'[u] = life_status[u]
          /\ UNCHANGED <<detached, args, wild, val, reported>>
      BY <1>0, <1>1, <1>3, LifeThreads DEF Effect, Becomes
    <2>2. Attached'
      BY <1>1, <2>1 DEF SimpleKept, Attached, Harmless
    <2> QED BY <1>1, <1>3, <2>1, <2>2 DEF SimpleKept, Lives
  <1>4. CASE ~exits /\ t = 0 /\ k = 2 /\ op = "join" /\ who = 1
    <2>1. /\ life_at'[0] = 3 /\ life_at'[1] = life_at[1] /\ life_at[0] = 2
          /\ life_status'[0] = life_status[0] /\ life_status'[1] = "gone"
          /\ life_status'[2] = life_status[2]
          /\ \A u \in Life!Threads : u > 2 => life_status'[u] = life_status[u]
          /\ life_status[1] = "ended"
          /\ UNCHANGED <<detached, args, wild, val, reported>>
      BY <1>0, <1>1, <1>4, LifeThreads DEF Effect, Becomes
    <2>2. Attached'
      BY <1>1, <2>1 DEF SimpleKept, Attached, Harmless
    <2> QED BY <1>1, <1>4, <2>1, <2>2 DEF SimpleKept, Lives
  <1>5. CASE ~exits /\ t = 0 /\ k = 3 /\ op = "print"
    <2>1. /\ life_at'[0] = 4 /\ life_at'[1] = life_at[1] /\ life_at[0] = 3
          /\ UNCHANGED <<life_status, detached, args, wild, val, reported>>
      BY <1>0, <1>1, <1>5, LifeThreads DEF Effect, Becomes
    <2>2. Attached'
      BY <1>1, <2>1 DEF SimpleKept, Attached, Harmless
    <2> QED BY <1>1, <1>5, <2>1, <2>2 DEF SimpleKept, Lives
  <1>6. CASE ~exits /\ t = 1 /\ k = 1 /\ op = "create" /\ who = 2
    <2>1. /\ life_at'[0] = life_at[0] /\ life_at'[1] = 2 /\ life_at[1] = 1
          /\ life_status'[0] = life_status[0] /\ life_status'[1] = life_status[1]
          /\ life_status'[2] = "running"
          /\ \A u \in Life!Threads : u > 2 => life_status'[u] = life_status[u]
          /\ UNCHANGED <<detached, args, wild, val, reported>>
      BY <1>0, <1>1, <1>6, LifeThreads DEF Effect, Becomes
    <2>2. Attached'
      BY <1>1, <2>1 DEF SimpleKept, Attached, Harmless
    <2> QED BY <1>1, <1>6, <2>1, <2>2 DEF SimpleKept, Lives
  <1>7. CASE ~exits /\ t = 1 /\ k = 2 /\ op = "add" /\ who = 5
    <2>1. /\ life_at'[0] = life_at[0] /\ life_at'[1] = 3 /\ life_at[1] = 2
          /\ val' = val + 5
          /\ UNCHANGED <<life_status, detached, args, wild, reported>>
      BY <1>0, <1>1, <1>7, LifeThreads DEF Effect, Becomes
    <2>2. Attached'
      BY <1>1, <2>1 DEF SimpleKept, Attached, Harmless
    <2> QED BY <1>1, <1>7, <2>1, <2>2 DEF SimpleKept, Lives
  <1>8. CASE ~exits /\ t = 1 /\ k = 3 /\ op = "join" /\ who = 2
    <2>1. /\ life_at'[0] = life_at[0] /\ life_at'[1] = 4 /\ life_at[1] = 3
          /\ life_status'[0] = life_status[0] /\ life_status'[1] = life_status[1]
          /\ life_status'[2] = "gone"
          /\ \A u \in Life!Threads : u > 2 => life_status'[u] = life_status[u]
          /\ life_status[2] = "ended"
          /\ UNCHANGED <<detached, args, wild, val, reported>>
      BY <1>0, <1>1, <1>8, LifeThreads DEF Effect, Becomes
    <2>2. Attached'
      BY <1>1, <2>1 DEF SimpleKept, Attached, Harmless
    <2> QED BY <1>1, <1>8, <2>1, <2>2 DEF SimpleKept, Lives
  <1>9. CASE ~exits /\ t > 1 /\ k = 1 /\ op = "work"
    <2>1. /\ life_at'[0] = life_at[0] /\ life_at'[1] = life_at[1]
          /\ UNCHANGED <<life_status, detached, args, wild, val, reported>>
      BY <1>0, <1>1, <1>9, LifeThreads DEF Effect, Becomes
    <2>2. Attached'
      BY <1>1, <2>1 DEF SimpleKept, Attached, Harmless
    <2> QED BY <1>1, <1>9, <2>1, <2>2 DEF SimpleKept, Lives
  <1>10. CASE exits
    <2>1. UNCHANGED <<life_at, detached, args, wild, val, reported>> /\ k > (IF t < 2 THEN 3 ELSE 1)
      BY <1>0, <1>10
    <2>2. detached = {}
      BY DEF SimpleKept, Attached
    <2>3. Becomes(t, IF t \in detached THEN "gone" ELSE "ended")
      BY <1>0, <1>10
    <2>4. CASE t = 0
      <3>1. /\ life_status'[0] = "ended" /\ life_status'[1] = life_status[1]
            /\ life_status'[2] = life_status[2] /\ life_at[0] > 3
            /\ life_status[0] = "running"
            /\ \A u \in Life!Threads : u > 2 => life_status'[u] = life_status[u]
        BY <1>1, <1>2, <2>1, <2>2, <2>3, <2>4 DEF Becomes
      <3>2. Attached'
        BY <1>1, <2>1, <3>1 DEF SimpleKept, Attached, Harmless
      <3> QED BY <1>1, <2>1, <3>1, <3>2 DEF SimpleKept, Lives
    <2>5. CASE t = 1
      <3>1. /\ life_status'[0] = life_status[0] /\ life_status'[1] = "ended"
            /\ life_status'[2] = life_status[2] /\ life_at[1] > 3
            /\ life_status[1] = "running"
            /\ \A u \in Life!Threads : u > 2 => life_status'[u] = life_status[u]
        BY <1>1, <1>2, <2>1, <2>2, <2>3, <2>5 DEF Becomes
      <3>2. Attached'
        BY <1>1, <2>1, <3>1 DEF SimpleKept, Attached, Harmless
      <3> QED BY <1>1, <2>1, <3>1, <3>2 DEF SimpleKept, Lives
    <2>6. CASE t > 1
      <3>1. /\ life_status'[0] = life_status[0] /\ life_status'[1] = life_status[1]
            /\ \/ life_status'[2] = life_status[2]
               \/ life_status[2] = "running" /\ life_status'[2] = "ended"
            /\ \A u \in Life!Threads : u > 2 /\ life_status[u] = "none" =>
                 life_status'[u] = "none"
        BY <1>1, <1>2, <2>1, <2>2, <2>3, <2>6 DEF Becomes
      <3>2. Attached'
        BY <1>1, <2>1, <3>1 DEF SimpleKept, Attached, Harmless
      <3> QED BY <1>1, <2>1, <3>1, <3>2 DEF SimpleKept, Lives
    <2> QED BY <1>2, <2>4, <2>5, <2>6
  <1> QED BY <1>0, <1>3, <1>4, <1>5, <1>6, <1>7, <1>8, <1>9, <1>10 DEF SimpleCall

\* 1-simple.c: thread 1 uses its argument while main waits for it.
LEMMA FooStep ==
  ASSUME LifeTypes, life_version = "foo", FooKept,
         NEW t \in Life!Threads, Life!run(t)
  PROVE  FooKept'
  <1> DEFINE k   == life_at[t]
             op  == Life!Script(t)[k].op
             who == Life!Script(t)[k].of
             exits == k > Len(Life!Script(t))
  <1>0. \/ /\ ~exits /\ FooCall(t, k, op, who) /\ Effect(op, who)
           /\ \A u \in Life!Threads : life_at'[u] = IF u = t THEN k + 1 ELSE life_at[u]
        \/ /\ exits /\ k > (IF t = 0 THEN 4 ELSE 1)
           /\ Becomes(t, IF t \in detached THEN "gone" ELSE "ended")
           /\ UNCHANGED <<life_at, detached, args, wild, val, reported>>
    BY RunIs, FooCalls
  <1>1. /\ k \in Nat /\ k > 0 /\ k = life_at[t]
        /\ life_status[t] = "running" /\ life_status[0] = "running"
    BY RunIs
  <1> HIDE DEF op, who, k, exits
  <1>2. {0, 1, 2, 3} \subseteq Life!Threads /\ t \in Nat
    BY LifeThreads
  <1>3. CASE ~exits /\ t = 0 /\ k = 1 /\ op = "alloc" /\ who = 1
    <2>1. /\ life_at'[0] = 2 /\ life_at'[1] = life_at[1] /\ life_at[0] = 1
          /\ args' = args \cup {1}
          /\ UNCHANGED <<life_status, detached, wild, val, reported>>
      BY <1>0, <1>1, <1>3, LifeThreads DEF Effect, Becomes
    <2>2. Attached'
      BY <1>1, <2>1 DEF FooKept, Attached, Harmless
    <2> QED BY <1>1, <1>3, <2>1, <2>2 DEF FooKept, Lives
  <1>4. CASE ~exits /\ t = 0 /\ k = 2 /\ op = "create" /\ who = 1
    <2>1. /\ life_at'[0] = 3 /\ life_at'[1] = life_at[1] /\ life_at[0] = 2
          /\ life_status'[0] = life_status[0] /\ life_status'[1] = "running"
          /\ \A u \in Life!Threads : u > 1 => life_status'[u] = life_status[u]
          /\ UNCHANGED <<detached, args, wild, val, reported>>
      BY <1>0, <1>1, <1>4, LifeThreads DEF Effect, Becomes
    <2>2. Attached'
      BY <1>1, <2>1 DEF FooKept, Attached, Harmless
    <2> QED BY <1>1, <1>4, <2>1, <2>2 DEF FooKept, Lives
  <1>5. CASE ~exits /\ t = 0 /\ k = 3 /\ op = "join" /\ who = 1
    <2>1. /\ life_at'[0] = 4 /\ life_at'[1] = life_at[1] /\ life_at[0] = 3
          /\ life_status'[0] = life_status[0] /\ life_status'[1] = "gone"
          /\ \A u \in Life!Threads : u > 1 => life_status'[u] = life_status[u]
          /\ life_status[1] = "ended"
          /\ UNCHANGED <<detached, args, wild, val, reported>>
      BY <1>0, <1>1, <1>5, LifeThreads DEF Effect, Becomes
    <2>2. Attached'
      BY <1>1, <2>1 DEF FooKept, Attached, Harmless
    <2> QED BY <1>1, <1>5, <2>1, <2>2 DEF FooKept, Lives
  <1>6. CASE ~exits /\ t = 0 /\ k = 4 /\ op = "free" /\ who = 1
    <2>1. 1 \in args
      BY <1>1, <1>6 DEF FooKept
    <2>2. /\ life_at'[0] = 5 /\ life_at'[1] = life_at[1] /\ life_at[0] = 4
          /\ args' = args \ {1} /\ UNCHANGED wild
          /\ UNCHANGED <<life_status, detached, val, reported>>
      BY <1>0, <1>1, <1>6, <2>1, LifeThreads DEF Effect, Becomes
    <2>3. Attached'
      BY <1>1, <2>2 DEF FooKept, Attached, Harmless
    <2> QED BY <1>1, <1>6, <2>1, <2>2, <2>3 DEF FooKept, Lives
  <1>7. CASE ~exits /\ t > 0 /\ k = 1 /\ op = "use" /\ who = 1
    <2>1. ~exits /\ t = 1 /\ k = 1 /\ op = "use" /\ who = 1 /\ 1 \in args
      BY <1>1, <1>2, <1>7, LifeThreads DEF FooKept, Lives
    <2>2. /\ life_at'[0] = life_at[0] /\ life_at'[1] = 2 /\ life_at[1] = 1
          /\ UNCHANGED wild
          /\ UNCHANGED <<life_status, detached, args, val, reported>>
      BY <1>0, <1>1, <2>1, LifeThreads DEF Effect, Becomes
    <2>3. Attached'
      BY <1>1, <2>2 DEF FooKept, Attached, Harmless
    <2> QED BY <1>1, <2>1, <2>2, <2>3 DEF FooKept, Lives
  <1>8. CASE exits
    <2>1. UNCHANGED <<life_at, detached, args, wild, val, reported>> /\ k > (IF t = 0 THEN 4 ELSE 1)
      BY <1>0, <1>8
    <2>2. detached = {}
      BY DEF FooKept, Attached
    <2>3. Becomes(t, IF t \in detached THEN "gone" ELSE "ended")
      BY <1>0, <1>8
    <2>4. CASE t = 0
      <3>1. /\ life_status'[0] = "ended" /\ life_status'[1] = life_status[1]
            /\ life_at[0] > 4 /\ life_status[0] = "running"
            /\ \A u \in Life!Threads : u > 1 => life_status'[u] = life_status[u]
        BY <1>1, <1>2, <2>1, <2>2, <2>3, <2>4 DEF Becomes
      <3>2. Attached'
        BY <1>1, <2>1, <3>1 DEF FooKept, Attached, Harmless
      <3> QED BY <1>1, <2>1, <3>1, <3>2 DEF FooKept, Lives
    <2>5. CASE t = 1
      <3>1. /\ life_status'[0] = life_status[0] /\ life_status'[1] = "ended"
            /\ life_at[1] > 1 /\ life_status[1] = "running"
            /\ \A u \in Life!Threads : u > 1 => life_status'[u] = life_status[u]
        BY <1>1, <1>2, <2>1, <2>2, <2>3, <2>5 DEF Becomes
      <3>2. Attached'
        BY <1>1, <2>1, <3>1 DEF FooKept, Attached, Harmless
      <3> QED BY <1>1, <2>1, <3>1, <3>2 DEF FooKept, Lives
    <2>6. t < 2
      BY <1>1, <1>2 DEF FooKept
    <2> QED BY <1>2, <2>4, <2>5, <2>6
  <1> QED BY <1>0, <1>3, <1>4, <1>5, <1>6, <1>7, <1>8 DEF FooCall

\* custom_thread.c: and adds to val before main reads it.
LEMMA CloneStep ==
  ASSUME LifeTypes, life_version = "clone", CloneKept,
         NEW t \in Life!Threads, Life!run(t)
  PROVE  CloneKept'
  <1> DEFINE k   == life_at[t]
             op  == Life!Script(t)[k].op
             who == Life!Script(t)[k].of
             exits == k > Len(Life!Script(t))
  <1>0. \/ /\ ~exits /\ CloneCall(t, k, op, who) /\ Effect(op, who)
           /\ \A u \in Life!Threads : life_at'[u] = IF u = t THEN k + 1 ELSE life_at[u]
        \/ /\ exits /\ k > (IF t = 0 THEN 5 ELSE 2)
           /\ Becomes(t, IF t \in detached THEN "gone" ELSE "ended")
           /\ UNCHANGED <<life_at, detached, args, wild, val, reported>>
    BY RunIs, CloneCalls
  <1>1. /\ k \in Nat /\ k > 0 /\ k = life_at[t]
        /\ life_status[t] = "running" /\ life_status[0] = "running"
    BY RunIs
  <1> HIDE DEF op, who, k, exits
  <1>2. {0, 1, 2, 3} \subseteq Life!Threads /\ t \in Nat
    BY LifeThreads
  <1>3. CASE ~exits /\ t = 0 /\ k = 1 /\ op = "alloc" /\ who = 1
    <2>1. /\ life_at'[0] = 2 /\ life_at'[1] = life_at[1] /\ life_at[0] = 1
          /\ args' = args \cup {1}
          /\ UNCHANGED <<life_status, detached, wild, val, reported>>
      BY <1>0, <1>1, <1>3, LifeThreads DEF Effect, Becomes
    <2>2. Attached'
      BY <1>1, <2>1 DEF CloneKept, Attached, Harmless
    <2> QED BY <1>1, <1>3, <2>1, <2>2 DEF CloneKept, Lives
  <1>4. CASE ~exits /\ t = 0 /\ k = 2 /\ op = "create" /\ who = 1
    <2>1. /\ life_at'[0] = 3 /\ life_at'[1] = life_at[1] /\ life_at[0] = 2
          /\ life_status'[0] = life_status[0] /\ life_status'[1] = "running"
          /\ \A u \in Life!Threads : u > 1 => life_status'[u] = life_status[u]
          /\ UNCHANGED <<detached, args, wild, val, reported>>
      BY <1>0, <1>1, <1>4, LifeThreads DEF Effect, Becomes
    <2>2. Attached'
      BY <1>1, <2>1 DEF CloneKept, Attached, Harmless
    <2> QED BY <1>1, <1>4, <2>1, <2>2 DEF CloneKept, Lives
  <1>5. CASE ~exits /\ t = 0 /\ k = 3 /\ op = "join" /\ who = 1
    <2>1. /\ life_at'[0] = 4 /\ life_at'[1] = life_at[1] /\ life_at[0] = 3
          /\ life_status'[0] = life_status[0] /\ life_status'[1] = "gone"
          /\ \A u \in Life!Threads : u > 1 => life_status'[u] = life_status[u]
          /\ life_status[1] = "ended"
          /\ UNCHANGED <<detached, args, wild, val, reported>>
      BY <1>0, <1>1, <1>5, LifeThreads DEF Effect, Becomes
    <2>2. Attached'
      BY <1>1, <2>1 DEF CloneKept, Attached, Harmless
    <2> QED BY <1>1, <1>5, <2>1, <2>2 DEF CloneKept, Lives
  <1>6. CASE ~exits /\ t = 0 /\ k = 4 /\ op = "free" /\ who = 1
    <2>1. 1 \in args
      BY <1>1, <1>6 DEF CloneKept
    <2>2. /\ life_at'[0] = 5 /\ life_at'[1] = life_at[1] /\ life_at[0] = 4
          /\ args' = args \ {1} /\ UNCHANGED wild
          /\ UNCHANGED <<life_status, detached, val, reported>>
      BY <1>0, <1>1, <1>6, <2>1, LifeThreads DEF Effect, Becomes
    <2>3. Attached'
      BY <1>1, <2>2 DEF CloneKept, Attached, Harmless
    <2> QED BY <1>1, <1>6, <2>1, <2>2, <2>3 DEF CloneKept, Lives
  <1>7. CASE ~exits /\ t = 0 /\ k = 5 /\ op = "print"
    <2>1. /\ life_at'[0] = 6 /\ life_at'[1] = life_at[1] /\ life_at[0] = 5
          /\ UNCHANGED <<life_status, detached, args, wild, val, reported>>
      BY <1>0, <1>1, <1>7, LifeThreads DEF Effect, Becomes
    <2>2. Attached'
      BY <1>1, <2>1 DEF CloneKept, Attached, Harmless
    <2> QED BY <1>1, <1>7, <2>1, <2>2 DEF CloneKept, Lives
  <1>8. CASE ~exits /\ t > 0 /\ k = 1 /\ op = "use" /\ who = 1
    <2>1. ~exits /\ t = 1 /\ k = 1 /\ op = "use" /\ who = 1 /\ 1 \in args
      BY <1>1, <1>2, <1>8, LifeThreads DEF CloneKept, Lives
    <2>2. /\ life_at'[0] = life_at[0] /\ life_at'[1] = 2 /\ life_at[1] = 1
          /\ UNCHANGED wild
          /\ UNCHANGED <<life_status, detached, args, val, reported>>
      BY <1>0, <1>1, <2>1, LifeThreads DEF Effect, Becomes
    <2>3. Attached'
      BY <1>1, <2>2 DEF CloneKept, Attached, Harmless
    <2> QED BY <1>1, <2>1, <2>2, <2>3 DEF CloneKept, Lives
  <1>9. CASE ~exits /\ t > 0 /\ k = 2 /\ op = "add" /\ who = 1
    <2>1. ~exits /\ t = 1 /\ k = 2 /\ op = "add" /\ who = 1
      BY <1>1, <1>2, <1>9, LifeThreads DEF CloneKept
    <2>2. /\ life_at'[0] = life_at[0] /\ life_at'[1] = 3 /\ life_at[1] = 2
          /\ val' = val + 1
          /\ UNCHANGED <<life_status, detached, args, wild, reported>>
      BY <1>0, <1>1, <2>1, LifeThreads DEF Effect, Becomes
    <2>3. Attached'
      BY <1>1, <2>2 DEF CloneKept, Attached, Harmless
    <2> QED BY <1>1, <2>1, <2>2, <2>3 DEF CloneKept, Lives
  <1>10. CASE exits
    <2>1. UNCHANGED <<life_at, detached, args, wild, val, reported>> /\ k > (IF t = 0 THEN 5 ELSE 2)
      BY <1>0, <1>10
    <2>2. detached = {}
      BY DEF CloneKept, Attached
    <2>3. Becomes(t, IF t \in detached THEN "gone" ELSE "ended")
      BY <1>0, <1>10
    <2>4. CASE t = 0
      <3>1. /\ life_status'[0] = "ended" /\ life_status'[1] = life_status[1]
            /\ life_at[0] > 5 /\ life_status[0] = "running"
            /\ \A u \in Life!Threads : u > 1 => life_status'[u] = life_status[u]
        BY <1>1, <1>2, <2>1, <2>2, <2>3, <2>4 DEF Becomes
      <3>2. Attached'
        BY <1>1, <2>1, <3>1 DEF CloneKept, Attached, Harmless
      <3> QED BY <1>1, <2>1, <3>1, <3>2 DEF CloneKept, Lives
    <2>5. CASE t = 1
      <3>1. /\ life_status'[0] = life_status[0] /\ life_status'[1] = "ended"
            /\ life_at[1] > 2 /\ life_status[1] = "running"
            /\ \A u \in Life!Threads : u > 1 => life_status'[u] = life_status[u]
        BY <1>1, <1>2, <2>1, <2>2, <2>3, <2>5 DEF Becomes
      <3>2. Attached'
        BY <1>1, <2>1, <3>1 DEF CloneKept, Attached, Harmless
      <3> QED BY <1>1, <2>1, <3>1, <3>2 DEF CloneKept, Lives
    <2>6. t < 2
      BY <1>1, <1>2 DEF CloneKept
    <2> QED BY <1>2, <2>4, <2>5, <2>6
  <1> QED BY <1>0, <1>3, <1>4, <1>5, <1>6, <1>7, <1>8, <1>9, <1>10 DEF CloneCall, FooCall

\* 2-detach.c, call by call.
LEMMA DetachStep ==
  ASSUME LifeTypes, life_version = "detach", DetachKept,
         NEW t \in Life!Threads, Life!run(t)
  PROVE  DetachKept'
  <1> DEFINE k   == life_at[t]
             op  == Life!Script(t)[k].op
             who == Life!Script(t)[k].of
             exits == k > Len(Life!Script(t))
  <1>0. \/ /\ ~exits /\ DetachCall(t, k, op, who) /\ Effect(op, who)
           /\ \A u \in Life!Threads : life_at'[u] = IF u = t THEN k + 1 ELSE life_at[u]
        \/ /\ exits /\ k > (IF t = 0 THEN 7 ELSE 1)
           /\ Becomes(t, IF t \in detached THEN "gone" ELSE "ended")
           /\ UNCHANGED <<life_at, detached, args, wild, val, reported>>
    BY RunIs, DetachCalls
  <1>1. /\ k \in Nat /\ k > 0 /\ k = life_at[t]
        /\ life_status[t] = "running" /\ life_status[0] = "running"
    BY RunIs
  <1> HIDE DEF op, who, k, exits
  <1>2. {0, 1, 2, 3} \subseteq Life!Threads /\ t \in Nat
    BY LifeThreads
  <1>3. CASE ~exits /\ t = 0 /\ k = 1 /\ op = "create" /\ who = 1
    <2>1. /\ life_at'[0] = 2 /\ life_at[0] = 1
          /\ life_status'[0] = life_status[0] /\ life_status'[1] = "running"
          /\ \A u \in Life!Threads : u > 3 => life_status'[u] = life_status[u]
          /\ UNCHANGED <<detached, args, wild, val, reported>>
      BY <1>0, <1>1, <1>3, LifeThreads DEF Effect, Becomes
    <2>2. Harmless'
      BY <1>1, <2>1 DEF DetachKept, Harmless
    <2>3. Known'
      BY QuietIs, <1>1, <1>3, <2>1 DEF DetachKept, Known
    <2>4. Others'
      BY <1>1, <1>3, <2>1 DEF DetachKept, Others
    <2>5. Separate'
      BY <1>1, <1>3, <2>1 DEF DetachKept, Separate
    <2>6. Listed'
      BY <1>1, <1>3, <2>1 DEF DetachKept, Listed
    <2> QED BY <2>2, <2>3, <2>4, <2>5, <2>6 DEF DetachKept
  <1>4. CASE ~exits /\ t = 0 /\ k = 2 /\ op = "report" /\ who = 1
    <2>1. who \notin detached
      BY <1>1, <1>4 DEF DetachKept, Separate
    <2>2. /\ life_at'[0] = 3 /\ life_at[0] = 2
          /\ life_status'[0] = life_status[0] /\ life_status'[1] = "gone"
          /\ \A u \in Life!Threads : u > 3 => life_status'[u] = life_status[u]
          /\ life_status[1] = "ended"
          /\ reported'[1] = "JOINABLE" /\ reported'[2] = reported[2] /\ reported'[3] = reported[3]
          /\ \A u \in Life!Threads : u = 0 \/ u > 3 => reported'[u] = reported[u]
          /\ UNCHANGED <<detached, args, wild, val>>
      BY <1>0, <1>1, <1>4, <2>1, LifeThreads DEF Effect, Becomes
    <2>3. Harmless'
      BY <1>1, <2>2 DEF DetachKept, Harmless
    <2>4. Known'
      BY QuietIs, <1>1, <1>4, <2>1, <2>2 DEF DetachKept, Known
    <2>5. Others'
      BY <1>1, <1>4, <2>1, <2>2 DEF DetachKept, Others
    <2>6. Separate'
      BY <1>1, <1>4, <2>1, <2>2 DEF DetachKept, Separate
    <2>7. Listed'
      BY <1>1, <1>4, <2>1, <2>2 DEF DetachKept, Listed
    <2> QED BY <2>3, <2>4, <2>5, <2>6, <2>7 DEF DetachKept
  <1>5. CASE ~exits /\ t = 0 /\ k = 3 /\ op = "create" /\ who = 2
    <2>1. /\ life_at'[0] = 4 /\ life_at[0] = 3
          /\ life_status'[0] = life_status[0] /\ life_status'[1] = life_status[1]
          /\ \A u \in Life!Threads : u > 3 => life_status'[u] = life_status[u]
          /\ UNCHANGED <<detached, args, wild, val, reported>>
      BY <1>0, <1>1, <1>5, LifeThreads DEF Effect, Becomes
    <2>2. Harmless'
      BY <1>1, <2>1 DEF DetachKept, Harmless
    <2>3. Known'
      BY QuietIs, <1>1, <1>5, <2>1 DEF DetachKept, Known
    <2>4. Others'
      BY <1>1, <1>5, <2>1 DEF DetachKept, Others
    <2>5. Separate'
      BY <1>1, <1>5, <2>1 DEF DetachKept, Separate
    <2>6. Listed'
      BY <1>1, <1>5, <2>1 DEF DetachKept, Listed
    <2> QED BY <2>2, <2>3, <2>4, <2>5, <2>6 DEF DetachKept
  <1>6. CASE ~exits /\ t = 0 /\ k = 4 /\ op = "detach" /\ who = 2
    <2>1. /\ life_at'[0] = 5 /\ life_at[0] = 4
          /\ life_status'[0] = life_status[0] /\ life_status'[1] = life_status[1]
          /\ \A u \in Life!Threads : u > 3 => life_status'[u] = life_status[u]
          /\ detached' = detached \cup {2}
          /\ UNCHANGED <<args, wild, val, reported>>
      BY <1>0, <1>1, <1>6, LifeThreads DEF Effect, Becomes
    <2>2. Harmless'
      BY <1>1, <2>1 DEF DetachKept, Harmless
    <2>3. Known'
      BY QuietIs, <1>1, <1>6, <2>1 DEF DetachKept, Known
    <2>4. Others'
      BY <1>1, <1>6, <2>1 DEF DetachKept, Others
    <2>5. Separate'
      BY <1>1, <1>6, <2>1 DEF DetachKept, Separate
    <2>6. Listed'
      BY <1>1, <1>6, <2>1 DEF DetachKept, Listed
    <2> QED BY <2>2, <2>3, <2>4, <2>5, <2>6 DEF DetachKept
  <1>7. CASE ~exits /\ t = 0 /\ k = 5 /\ op = "report" /\ who = 2
    <2>1. who \in detached
      BY <1>1, <1>7 DEF DetachKept, Separate
    <2>2. /\ life_at'[0] = 6 /\ life_at[0] = 5
          /\ life_status'[0] = life_status[0] /\ life_status'[1] = life_status[1]
          /\ \A u \in Life!Threads : u > 3 => life_status'[u] = life_status[u]
          /\ reported'[1] = reported[1] /\ reported'[2] \in {"DETACHED", "error"} /\ reported'[3] = reported[3]
          /\ \A u \in Life!Threads : u = 0 \/ u > 3 => reported'[u] = reported[u]
          /\ UNCHANGED <<detached, args, wild, val>>
      BY <1>0, <1>1, <1>7, <2>1, LifeThreads DEF Effect, Becomes
    <2>3. Harmless'
      BY <1>1, <2>2 DEF DetachKept, Harmless
    <2>4. Known'
      BY QuietIs, <1>1, <1>7, <2>1, <2>2 DEF DetachKept, Known
    <2>5. Others'
      BY <1>1, <1>7, <2>1, <2>2 DEF DetachKept, Others
    <2>6. Separate'
      BY <1>1, <1>7, <2>1, <2>2 DEF DetachKept, Separate
    <2>7. Listed'
      BY <1>1, <1>7, <2>1, <2>2 DEF DetachKept, Listed
    <2> QED BY <2>3, <2>4, <2>5, <2>6, <2>7 DEF DetachKept
  <1>8. CASE ~exits /\ t = 0 /\ k = 6 /\ op = "create_detached" /\ who = 3
    <2>1. /\ life_at'[0] = 7 /\ life_at[0] = 6
          /\ life_status'[0] = life_status[0] /\ life_status'[1] = life_status[1]
          /\ \A u \in Life!Threads : u > 3 => life_status'[u] = life_status[u]
          /\ detached' = detached \cup {3}
          /\ UNCHANGED <<args, wild, val, reported>>
      BY <1>0, <1>1, <1>8, LifeThreads DEF Effect, Becomes
    <2>2. Harmless'
      BY <1>1, <2>1 DEF DetachKept, Harmless
    <2>3. Known'
      BY QuietIs, <1>1, <1>8, <2>1 DEF DetachKept, Known
    <2>4. Others'
      BY <1>1, <1>8, <2>1 DEF DetachKept, Others
    <2>5. Separate'
      BY <1>1, <1>8, <2>1 DEF DetachKept, Separate
    <2>6. Listed'
      BY <1>1, <1>8, <2>1 DEF DetachKept, Listed
    <2> QED BY <2>2, <2>3, <2>4, <2>5, <2>6 DEF DetachKept
  <1>9. CASE ~exits /\ t = 0 /\ k = 7 /\ op = "report" /\ who = 3
    <2>1. who \in detached
      BY <1>1, <1>9 DEF DetachKept, Separate
    <2>2. /\ life_at'[0] = 8 /\ life_at[0] = 7
          /\ life_status'[0] = life_status[0] /\ life_status'[1] = life_status[1]
          /\ \A u \in Life!Threads : u > 3 => life_status'[u] = life_status[u]
          /\ reported'[1] = reported[1] /\ reported'[2] = reported[2] /\ reported'[3] \in {"DETACHED", "error"}
          /\ \A u \in Life!Threads : u = 0 \/ u > 3 => reported'[u] = reported[u]
          /\ UNCHANGED <<detached, args, wild, val>>
      BY <1>0, <1>1, <1>9, <2>1, LifeThreads DEF Effect, Becomes
    <2>3. Harmless'
      BY <1>1, <2>2 DEF DetachKept, Harmless
    <2>4. Known'
      BY QuietIs, <1>1, <1>9, <2>1, <2>2 DEF DetachKept, Known
    <2>5. Others'
      BY <1>1, <1>9, <2>1, <2>2 DEF DetachKept, Others
    <2>6. Separate'
      BY <1>1, <1>9, <2>1, <2>2 DEF DetachKept, Separate
    <2>7. Listed'
      BY <1>1, <1>9, <2>1, <2>2 DEF DetachKept, Listed
    <2> QED BY <2>3, <2>4, <2>5, <2>6, <2>7 DEF DetachKept
  <1>10. CASE ~exits /\ t > 0 /\ k = 1 /\ op = "work"
    <2>1. /\ life_at'[0] = life_at[0]
          /\ UNCHANGED <<life_status, detached, args, wild, val, reported>>
      BY <1>0, <1>1, <1>10, LifeThreads DEF Effect, Becomes
    <2>2. Harmless'
      BY <1>1, <2>1 DEF DetachKept, Harmless
    <2>3. Known'
      BY QuietIs, <1>1, <1>10, <2>1 DEF DetachKept, Known
    <2>4. Others'
      BY <1>1, <1>10, <2>1 DEF DetachKept, Others
    <2>5. Separate'
      BY <1>1, <1>10, <2>1 DEF DetachKept, Separate
    <2>6. Listed'
      BY <1>1, <1>10, <2>1 DEF DetachKept, Listed
    <2> QED BY <2>2, <2>3, <2>4, <2>5, <2>6 DEF DetachKept
  <1>11. CASE exits
    <2>1. UNCHANGED <<life_at, detached, args, wild, val, reported>> /\ k > (IF t = 0 THEN 7 ELSE 1)
      BY <1>0, <1>11
    <2>2. 0 \notin detached /\ 1 \notin detached
      BY DEF DetachKept, Separate
    <2>3. Becomes(t, IF t \in detached THEN "gone" ELSE "ended")
      BY <1>0, <1>11
    <2>4. CASE t = 0
      <3>1. /\ life_status'[0] = "ended" /\ life_status'[1] = life_status[1]
            /\ life_at[0] > 7 /\ life_status[0] = "running"
            /\ \A u \in Life!Threads : u > 3 => life_status'[u] = life_status[u]
        BY <1>1, <1>2, <2>1, <2>2, <2>3, <2>4 DEF Becomes
      <3>2. Harmless'
        BY <1>1, <2>1, <3>1 DEF DetachKept, Harmless
      <3>3. Known'
        BY <1>1, <2>1, <3>1 DEF DetachKept, Known
      <3>4. Others'
        BY <1>1, <2>1, <3>1 DEF DetachKept, Others
      <3>5. Separate'
        BY <1>1, <2>1, <3>1 DEF DetachKept, Separate
      <3>6. Listed'
        BY <1>1, <2>1, <3>1 DEF DetachKept, Listed
      <3> QED BY <3>2, <3>3, <3>4, <3>5, <3>6 DEF DetachKept
    <2>5. CASE t = 1
      <3>1. /\ life_status'[0] = life_status[0] /\ life_status'[1] = "ended"
            /\ life_at[1] > 1 /\ life_status[1] = "running"
            /\ \A u \in Life!Threads : u > 3 => life_status'[u] = life_status[u]
        BY <1>1, <1>2, <2>1, <2>2, <2>3, <2>5 DEF Becomes
      <3>2. Harmless'
        BY <1>1, <2>1, <3>1 DEF DetachKept, Harmless
      <3>3. Known'
        BY <1>1, <2>1, <3>1 DEF DetachKept, Known
      <3>4. Others'
        BY <1>1, <2>1, <3>1 DEF DetachKept, Others
      <3>5. Separate'
        BY <1>1, <2>1, <3>1 DEF DetachKept, Separate
      <3>6. Listed'
        BY <1>1, <2>1, <3>1 DEF DetachKept, Listed
      <3> QED BY <3>2, <3>3, <3>4, <3>5, <3>6 DEF DetachKept
    <2>6. CASE t > 1
      <3>1. /\ life_status'[0] = life_status[0] /\ life_status'[1] = life_status[1]
            /\ \A u \in Life!Threads : u > 3 /\ life_status[u] = "none" =>
                 life_status'[u] = "none"
        BY <1>1, <1>2, <2>1, <2>2, <2>3, <2>6 DEF Becomes
      <3>2. Harmless'
        BY <1>1, <2>1, <3>1 DEF DetachKept, Harmless
      <3>3. Known'
        BY <1>1, <2>1, <3>1 DEF DetachKept, Known
      <3>4. Others'
        BY <1>1, <2>1, <3>1 DEF DetachKept, Others
      <3>5. Separate'
        BY <1>1, <2>1, <3>1 DEF DetachKept, Separate
      <3>6. Listed'
        BY <1>1, <2>1, <3>1 DEF DetachKept, Listed
      <3> QED BY <3>2, <3>3, <3>4, <3>5, <3>6 DEF DetachKept
    <2> QED BY <1>2, <2>4, <2>5, <2>6
  <1> QED BY <1>0, <1>3, <1>4, <1>5, <1>6, <1>7, <1>8, <1>9, <1>10, <1>11 DEF DetachCall

\* multiple_threads.c: main's three kinds of call, then a thread's.
LEMMA MultipleStep ==
  ASSUME LifeTypes, life_version = "multiple", MultipleKept,
         NEW t \in Life!Threads, Life!run(t)
  PROVE  MultipleKept'
  <1> DEFINE k   == life_at[t]
             op  == Life!Script(t)[k].op
             who == Life!Script(t)[k].of
             exits == k > Len(Life!Script(t))
             moves == \A u \in Life!Threads : life_at'[u] = IF u = t THEN k + 1 ELSE life_at[u]
  <1>0. \/ /\ ~exits /\ MultipleCall(t, k, op, who) /\ Effect(op, who) /\ moves
        \/ /\ exits /\ k > (IF t = 0 THEN 3 * num_threads ELSE 3)
           /\ Becomes(t, IF t \in detached THEN "gone" ELSE "ended")
           /\ UNCHANGED <<life_at, detached, args, wild, val, reported>>
    BY RunIs, MultipleCalls
  <1>1. /\ k \in Nat /\ k > 0 /\ k = life_at[t]
        /\ life_status[t] = "running" /\ life_status[0] = "running"
    BY RunIs
  <1> HIDE DEF op, who, k, exits, moves
  <1>2. /\ num_threads \in Nat /\ num_threads > 2 /\ 0 \in Life!Threads
        /\ \A u \in 1 .. num_threads : u \in Life!Threads /\ u \in Nat /\ u > 0
        /\ t = 0 \/ t \in 1 .. num_threads
    BY LifeThreads
  <1>3. /\ Attached /\ args \subseteq 1 .. num_threads
        /\ life_at[0] \in 1 .. 3 * num_threads + 1
        /\ \A u \in 1 .. num_threads : MultipleOf(u)
    BY DEF MultipleKept
  <1> DEFINE Main(j) == t = 0 /\ who = j /\ j \in 1 .. num_threads /\ ~exits
             Thread == t \in 1 .. num_threads /\ who = t /\ ~exits
             Rest == /\ Attached' /\ args' \subseteq 1 .. num_threads
                     /\ life_at'[0] \in 1 .. 3 * num_threads + 1
                     /\ life_status'[0] = "ended" => life_at'[0] = 3 * num_threads + 1
  <1>4. ASSUME NEW j, Main(j), k = 2 * j - 1, op = "alloc"
        PROVE  MultipleKept'
    <2>1. /\ UNCHANGED <<life_status, detached, wild, val, reported>> /\ args' = args \cup {j}
          /\ moves
      BY <1>0, <1>4 DEF Effect
    <2>2. /\ life_at[0] = 2 * j - 1 /\ life_at'[0] = 2 * j
          /\ \A u \in 1 .. num_threads : life_at'[u] = life_at[u]
      BY <1>1, <1>2, <1>4, <2>1 DEF moves
    <2>3. Rest
      BY <1>1, <1>2, <1>3, <1>4, <2>1, <2>2 DEF Attached, Harmless
    <2>4. ASSUME NEW u \in 1 .. num_threads PROVE MultipleOf(u)'
      BY <1>2, <1>3, <1>4, <2>1, <2>2 DEF MultipleOf, Lives
    <2> QED BY <2>3, <2>4 DEF MultipleKept
  <1>5. ASSUME NEW j, Main(j), k = 2 * j, op = "create"
        PROVE  MultipleKept'
    <2>1. Becomes(j, "running") /\ moves /\ UNCHANGED <<detached, args, wild, val, reported>>
      BY <1>0, <1>5 DEF Effect
    <2>2. /\ life_at[0] = 2 * j /\ life_at'[0] = 2 * j + 1
          /\ life_status'[0] = life_status[0]
          /\ \A u \in 1 .. num_threads :
               /\ life_at'[u] = life_at[u]
               /\ life_status'[u] = IF u = j THEN "running" ELSE life_status[u]
      BY <1>1, <1>2, <1>5, <2>1 DEF moves, Becomes
    <2>3. Rest
      BY <1>1, <1>2, <1>3, <1>5, <2>1, <2>2 DEF Attached, Harmless
    <2>4. ASSUME NEW u \in 1 .. num_threads PROVE MultipleOf(u)'
      BY <1>2, <1>3, <1>5, <2>1, <2>2 DEF MultipleOf, Lives
    <2> QED BY <2>3, <2>4 DEF MultipleKept
  <1>6. ASSUME NEW j, Main(j), k = 2 * num_threads + j, op = "join"
        PROVE  MultipleKept'
    <2>1. /\ Becomes(j, "gone") /\ moves /\ life_status[j] = "ended"
          /\ UNCHANGED <<detached, args, wild, val, reported>>
      BY <1>0, <1>6 DEF Effect
    <2>2. /\ life_at[0] = 2 * num_threads + j /\ life_at'[0] = 2 * num_threads + j + 1
          /\ life_status'[0] = life_status[0]
          /\ \A u \in 1 .. num_threads :
               /\ life_at'[u] = life_at[u]
               /\ life_status'[u] = IF u = j THEN "gone" ELSE life_status[u]
      BY <1>1, <1>2, <1>6, <2>1 DEF moves, Becomes
    <2>3. Rest
      BY <1>1, <1>2, <1>3, <1>6, <2>1, <2>2 DEF Attached, Harmless
    <2>4. ASSUME NEW u \in 1 .. num_threads PROVE MultipleOf(u)'
      BY <1>2, <1>3, <1>6, <2>1, <2>2 DEF MultipleOf, Lives
    <2> QED BY <2>3, <2>4 DEF MultipleKept
  <1>7. CASE /\ Thread /\ k \in 1 .. 3
             /\ op = (IF k = 1 THEN "use" ELSE IF k = 2 THEN "work" ELSE "free")
    <2>1. life_at[0] > 2 * t - 1 /\ t \in args
      BY <1>1, <1>2, <1>3, <1>7 DEF MultipleOf, Lives
    <2>2. /\ args' = IF k = 3 THEN args \ {t} ELSE args
          /\ UNCHANGED <<life_status, detached, wild, val, reported>> /\ moves
      BY <1>0, <1>7, <2>1 DEF Effect
    <2>3. /\ life_at'[0] = life_at[0]
          /\ \A u \in 1 .. num_threads : life_at'[u] = IF u = t THEN k + 1 ELSE life_at[u]
      BY <1>2, <1>7, <2>2 DEF moves
    <2>4. Rest
      BY <1>1, <1>3, <2>2, <2>3 DEF Attached, Harmless
    <2>5. ASSUME NEW u \in 1 .. num_threads PROVE MultipleOf(u)'
      <3>1. CASE u = t
        BY <1>1, <1>2, <1>3, <1>7, <2>1, <2>2, <2>3, <3>1 DEF MultipleOf, Lives
      <3>2. CASE u # t
        BY <1>3, <2>2, <2>3, <3>2 DEF MultipleOf, Lives
      <3> QED BY <3>1, <3>2
    <2> QED BY <2>4, <2>5 DEF MultipleKept
  <1>8. CASE exits
    <2>1. /\ k > (IF t = 0 THEN 3 * num_threads ELSE 3)
          /\ Becomes(t, "ended") /\ UNCHANGED <<life_at, detached, args, wild, val, reported>>
      BY <1>0, <1>3, <1>8 DEF Attached
    <2>2. \A u \in Life!Threads : life_status'[u] = IF u = t THEN "ended" ELSE life_status[u]
      BY <2>1 DEF Becomes
    <2>3. Rest
      BY <1>1, <1>2, <1>3, <2>1, <2>2 DEF Attached, Harmless
    <2>4. ASSUME NEW u \in 1 .. num_threads PROVE MultipleOf(u)'
      BY <1>1, <1>2, <1>3, <2>1, <2>2 DEF MultipleOf, Lives
    <2> QED BY <2>3, <2>4 DEF MultipleKept
  <1>9. CASE ~exits
    <2>1. MultipleCall(t, k, op, who)
      BY <1>0, <1>9
    <2>2. CASE t = 0
      BY <1>4, <1>5, <1>6, <1>9, <2>1, <2>2 DEF MultipleCall, CreateCall
    <2>3. CASE t \in 1 .. num_threads
      BY <1>2, <1>7, <1>9, <2>1, <2>3 DEF MultipleCall
    <2> QED BY <1>2, <2>2, <2>3
  <1> QED BY <1>8, <1>9

\* alarm_thread.c: main's two kinds of call, then an alarm's.
LEMMA AlarmStep ==
  ASSUME LifeTypes, life_version = "alarm", AlarmKept,
         NEW t \in Life!Threads, Life!run(t)
  PROVE  AlarmKept'
  <1> DEFINE k   == life_at[t]
             op  == Life!Script(t)[k].op
             who == Life!Script(t)[k].of
             exits == k > Len(Life!Script(t))
             moves == \A u \in Life!Threads : life_at'[u] = IF u = t THEN k + 1 ELSE life_at[u]
  <1>0. \/ /\ ~exits /\ AlarmCall(t, k, op, who) /\ Effect(op, who) /\ moves
        \/ /\ exits /\ Becomes(t, IF t \in detached THEN "gone" ELSE "ended")
           /\ UNCHANGED <<life_at, detached, args, wild, val, reported>>
    BY RunIs, AlarmCalls
  <1>1. /\ k \in Nat /\ k > 0 /\ k = life_at[t]
        /\ life_status[t] = "running" /\ life_status[0] = "running"
    BY RunIs
  <1>a. exits => (t = 0 \/ k > 4)
    BY <1>1, AlarmCalls
  <1> HIDE DEF op, who, k, exits, moves
  <1>2. /\ num_threads \in Nat /\ num_threads > 2 /\ 0 \in Life!Threads
        /\ \A u \in 1 .. num_threads : u \in Life!Threads /\ u \in Nat /\ u > 0
        /\ t = 0 \/ t \in 1 .. num_threads
    BY LifeThreads
  <1>3. /\ Harmless /\ 0 \notin detached /\ \A u \in Life!Threads : reported[u] = Quiet
        /\ \A u \in 1 .. num_threads : AlarmOf(u)
    BY DEF AlarmKept
  <1> DEFINE Main(j) == t = 0 /\ who = j /\ j \in 1 .. num_threads /\ ~exits
             Thread == t \in 1 .. num_threads /\ who = t /\ ~exits
             Rest == /\ Harmless' /\ 0 \notin detached'
                     /\ \A u \in Life!Threads : reported'[u] = Quiet
  <1>4. ASSUME NEW j, Main(j), k = 2 * j - 1, op = "alloc"
        PROVE  AlarmKept'
    <2>1. /\ UNCHANGED <<life_status, detached, wild, val, reported>> /\ args' = args \cup {j}
          /\ moves
      BY <1>0, <1>4 DEF Effect
    <2>2. /\ life_at[0] = 2 * j - 1 /\ life_at'[0] = 2 * j
          /\ \A u \in 1 .. num_threads : life_at'[u] = life_at[u]
      BY <1>1, <1>2, <1>4, <2>1 DEF moves
    <2>3. Rest
      BY <1>3, <2>1 DEF Harmless
    <2>4. ASSUME NEW u \in 1 .. num_threads PROVE AlarmOf(u)'
      BY <1>2, <1>3, <1>4, <2>1, <2>2 DEF AlarmOf
    <2> QED BY <2>3, <2>4 DEF AlarmKept
  <1>5. ASSUME NEW j, Main(j), k = 2 * j, op = "create"
        PROVE  AlarmKept'
    <2>1. /\ moves /\ UNCHANGED <<detached, wild, val, reported>>
          /\ \/ Becomes(j, "running") /\ args' = args
             \/ UNCHANGED life_status /\ args' = args \ {j}
      BY <1>0, <1>5 DEF Effect
    <2>2. /\ life_at[0] = 2 * j /\ life_at'[0] = 2 * j + 1
          /\ life_status'[0] = life_status[0]
          /\ \A u \in 1 .. num_threads :
               /\ life_at'[u] = life_at[u]
               /\ u # j => life_status'[u] = life_status[u] /\ (u \in args' <=> u \in args)
      BY <1>1, <1>2, <1>5, <2>1 DEF moves, Becomes
    <2>3. /\ life_status[j] = "none" /\ j \in args /\ life_at[j] = 1
          /\ \/ life_status'[j] = "running" /\ j \in args'
             \/ life_status'[j] = "none" /\ j \notin args'
      BY <1>2, <1>3, <1>5, <2>1, <2>2 DEF AlarmOf, Becomes
    <2>4. Rest
      BY <1>3, <2>1, <2>2 DEF Harmless
    <2>5. ASSUME NEW u \in 1 .. num_threads PROVE AlarmOf(u)'
      <3>1. CASE u = j
        BY <1>2, <1>3, <1>5, <2>2, <2>3, <3>1 DEF AlarmOf
      <3>2. CASE u # j
        BY <1>2, <1>3, <1>5, <2>2, <3>2 DEF AlarmOf
      <3> QED BY <3>1, <3>2
    <2> QED BY <2>4, <2>5 DEF AlarmKept
  <1>6. CASE /\ Thread /\ k \in 1 .. 4
             /\ op = (IF k = 1 THEN "detach" ELSE IF k = 2 THEN "work"
                      ELSE IF k = 3 THEN "use" ELSE "free")
    <2>0. life_at[0] \in Nat
      BY <1>2 DEF LifeTypes
    <2>1. life_at[0] > 2 * t - 1 /\ t \in args
      BY <1>1, <1>2, <1>3, <1>6, <2>0 DEF AlarmOf
    <2>2. /\ args' = (IF k = 4 THEN args \ {t} ELSE args) /\ UNCHANGED <<wild, reported>> /\ moves
          /\ 0 \notin detached'
          /\ \A u \in Life!Threads : life_status'[u] = life_status[u]
      <3>1. CASE k = 1
        BY <1>0, <1>1, <1>2, <1>3, <1>6, <3>1 DEF Effect, Becomes
      <3>2. CASE k = 2 \/ k = 3 \/ k = 4
        BY <1>0, <1>3, <1>6, <2>1, <3>2 DEF Effect
      <3> QED BY <1>6, <3>1, <3>2
    <2>3. /\ life_at'[0] = life_at[0] /\ life_status'[0] = life_status[0]
          /\ \A u \in 1 .. num_threads :
               /\ life_at'[u] = IF u = t THEN k + 1 ELSE life_at[u]
               /\ life_status'[u] = life_status[u]
      BY <1>2, <1>6, <2>2 DEF moves
    <2>4. Rest
      BY <1>3, <2>2, <2>3 DEF Harmless
    <2>5. ASSUME NEW u \in 1 .. num_threads PROVE AlarmOf(u)'
      <3>1. CASE u = t
        BY <1>1, <1>2, <1>3, <1>6, <2>1, <2>2, <2>3, <3>1 DEF AlarmOf
      <3>2. CASE u # t
        BY <1>3, <2>2, <2>3, <3>2 DEF AlarmOf
      <3> QED BY <3>1, <3>2
    <2> QED BY <2>4, <2>5 DEF AlarmKept
  <1>7. CASE exits
    <2>1. UNCHANGED <<life_at, detached, args, wild, val, reported>>
      BY <1>0, <1>7
    <2>2. \A u \in Life!Threads :
            IF u = t THEN life_status'[u] \in {"gone", "ended"}
                     ELSE life_status'[u] = life_status[u]
      BY <1>0, <1>7 DEF Becomes
    <2>3. Harmless'
      BY <1>0, <1>2, <1>3, <1>7, <2>1, <2>2 DEF Harmless, Becomes
    <2>4. Rest
      BY <1>3, <2>1, <2>3
    <2>5. ASSUME NEW u \in 1 .. num_threads PROVE AlarmOf(u)'
      BY <1>1, <1>2, <1>3, <1>7, <1>a, <2>1, <2>2 DEF AlarmOf
    <2> QED BY <2>4, <2>5 DEF AlarmKept
  <1>8. CASE ~exits
    <2>1. AlarmCall(t, k, op, who)
      BY <1>0, <1>8
    <2>2. CASE t = 0
      BY <1>4, <1>5, <1>8, <2>1, <2>2 DEF AlarmCall, CreateCall
    <2>3. CASE t \in 1 .. num_threads
      BY <1>2, <1>6, <1>8, <2>1, <2>3 DEF AlarmCall
    <2> QED BY <1>2, <2>2, <2>3
  <1> QED BY <1>7, <1>8

LEMMA LifeInit == Life!Init => LifeInv
  <1> SUFFICES ASSUME Life!Init PROVE LifeInv
    OBVIOUS
  <1>1. /\ life_version \in Life!Version /\ detached = {} /\ args = {} /\ wild = {}
        /\ val = 10
        /\ \A t \in Life!Threads : /\ life_at[t] = 1 /\ reported[t] = Quiet
                                   /\ life_status[t] = IF t = 0 THEN "running" ELSE "none"
        /\ life_at = [t \in Life!Threads |-> 1]
        /\ life_status = [t \in Life!Threads |-> IF t = 0 THEN "running" ELSE "none"]
        /\ reported = [t \in Life!Threads |-> Quiet]
    BY DEF Life!Init, Life!main_thread, Quiet
  <1>2. /\ {0, 1, 2, 3} \subseteq Life!Threads /\ num_threads \in Nat
        /\ \A t \in 1 .. num_threads : t \in Life!Threads /\ t \in Nat /\ t > 0
    BY LifeThreads
  <1>3. LifeTypes
    BY <1>1 DEF LifeTypes
  <1>4. Harmless /\ Attached
    BY <1>1, <1>2 DEF Harmless, Attached
  <1>5. SimpleKept
    BY <1>1, <1>2, <1>4 DEF SimpleKept, Lives
  <1>6. FooKept
    BY <1>1, <1>2, <1>4 DEF FooKept, Lives
  <1>7. CloneKept
    BY <1>1, <1>2, <1>4 DEF CloneKept, Lives
  <1>8. DetachKept
    BY <1>1, <1>2, <1>4, QuietIs DEF DetachKept, Known, Others, Separate, Listed
  <1>9. MultipleKept
    BY <1>1, <1>2, <1>4 DEF MultipleKept, MultipleOf, Lives
  <1>10. AlarmKept
    BY <1>1, <1>2, <1>4 DEF AlarmKept, AlarmOf
  <1> QED BY <1>3, <1>5, <1>6, <1>7, <1>8, <1>9, <1>10 DEF LifeInv

LEMMA LifeStep == LifeInv /\ [Life!Next]_life_vars => LifeInv'
  <1> SUFFICES ASSUME LifeInv, [Life!Next]_life_vars PROVE LifeInv'
    OBVIOUS
  <1>1. CASE \E t \in Life!Threads : Life!run(t)
    <2>1. PICK t \in Life!Threads : Life!run(t)
      BY <1>1
    <2>2. LifeTypes' /\ UNCHANGED life_version
      BY <2>1, LifeTypesStep DEF LifeInv
    <2> QED BY <2>1, <2>2, SimpleStep, FooStep, CloneStep, DetachStep, MultipleStep, AlarmStep
            DEF LifeInv
  <1>2. CASE UNCHANGED life_vars
    BY <1>2 DEF life_vars, LifeInv, LifeTypes, Harmless, Attached, Lives, SimpleKept, FooKept,
                CloneKept, Known, Others, Separate, Listed, DetachKept, MultipleOf,
                MultipleKept, AlarmOf, AlarmKept
  <1> QED BY <1>1, <1>2 DEF Life!Next, Life!vars, life_vars

LEMMA LifeInvImplies == LifeInv => JoinsInOrder
  <1> SUFFICES ASSUME LifeInv PROVE JoinsInOrder
    OBVIOUS
  <1> DEFINE Printed == ~Life!Done(0) /\ Life!Next_op(0).op = "print" =>
                          val = IF life_version = "simple" THEN 15 ELSE 11
             Ended == life_status[0] = "ended" /\ life_version # "alarm" =>
                        /\ args = {}
                        /\ \A t \in Life!Threads \ {0} :
                             t \notin detached => life_status[t] \in {"none", "gone"}
             Asked == \A t \in Life!Threads :
                        reported[t] # Quiet => (reported[t] = "JOINABLE") = (t \notin detached)
             k  == life_at[0]
             op == Life!Script(0)[k].op
             who == Life!Script(0)[k].of
  <1>0. /\ k \in Nat \ {0} /\ {0, 1, 2, 3} \subseteq Life!Threads
        /\ \A t \in Life!Threads : t = 0 \/ t = 1 \/ t = 2 \/ t = 3 \/ t > 3
        /\ \A t \in Life!Threads : t = 0 \/ t \in 1 .. num_threads
        /\ life_version \in Life!Version
    BY LifeThreads DEF LifeInv, LifeTypes
  <1>1. Life!Done(0) = (k > Len(Life!Script(0))) /\ Life!Next_op(0).op = op
    BY DEF Life!Done, Life!Next_op
  <1> HIDE DEF k, op, who
  <1>2. CASE life_version = "simple"
    <2>1. Printed
      <3>1. ~Life!Done(0) => SimpleCall(0, k, op, who)
        BY <1>0, <1>1, <1>2, SimpleCalls DEF k, op, who
      <3> QED BY <1>1, <1>2, <3>1 DEF LifeInv, SimpleKept, Lives, SimpleCall, k
    <2>2. Ended
      BY <1>0, <1>2 DEF LifeInv, SimpleKept, Lives
    <2>3. Asked
      BY <1>2 DEF LifeInv, SimpleKept, Attached
    <2> QED BY <2>1, <2>2, <2>3, <1>2
            DEF JoinsInOrder, Life!JoinsInOrder, LifeInv, SimpleKept, Attached, Harmless, Quiet,
                Life!main_thread
  <1>3. CASE life_version = "foo"
    <2>1. Printed
      <3>1. ~Life!Done(0) => FooCall(0, k, op, who)
        BY <1>0, <1>1, <1>3, FooCalls DEF k, op, who
      <3> QED BY <1>1, <3>1 DEF FooCall
    <2>2. Ended
      BY <1>0, <1>3 DEF LifeInv, FooKept, Lives
    <2>3. Asked
      BY <1>3 DEF LifeInv, FooKept, Attached
    <2> QED BY <2>1, <2>2, <2>3, <1>3
            DEF JoinsInOrder, Life!JoinsInOrder, LifeInv, FooKept, Attached, Harmless, Quiet,
                Life!main_thread
  <1>4. CASE life_version = "clone"
    <2>1. Printed
      <3>1. ~Life!Done(0) => CloneCall(0, k, op, who)
        BY <1>0, <1>1, <1>4, CloneCalls DEF k, op, who
      <3> QED BY <1>1, <1>4, <3>1 DEF LifeInv, CloneKept, Lives, CloneCall, FooCall, k
    <2>2. Ended
      BY <1>0, <1>4 DEF LifeInv, CloneKept, Lives
    <2>3. Asked
      BY <1>4 DEF LifeInv, CloneKept, Attached
    <2> QED BY <2>1, <2>2, <2>3, <1>4
            DEF JoinsInOrder, Life!JoinsInOrder, LifeInv, CloneKept, Attached, Harmless, Quiet,
                Life!main_thread
  <1>5. CASE life_version = "detach"
    <2>1. Printed
      <3>1. ~Life!Done(0) => DetachCall(0, k, op, who)
        BY <1>0, <1>1, <1>5, DetachCalls DEF k, op, who
      <3> QED BY <1>1, <3>1 DEF DetachCall
    <2>2. Ended
      BY <1>0, <1>5 DEF LifeInv, DetachKept, Separate, Listed
    <2>3. Asked
      BY <1>0, <1>5 DEF LifeInv, DetachKept, Known, Others, Separate, Listed
    <2> QED BY <2>1, <2>2, <2>3, <1>5
            DEF JoinsInOrder, Life!JoinsInOrder, LifeInv, DetachKept, Harmless, Quiet,
                Life!main_thread
  <1>6. CASE life_version = "multiple"
    <2>1. Printed
      <3>1. ~Life!Done(0) => MultipleCall(0, k, op, who)
        BY <1>0, <1>1, <1>6, MultipleCalls DEF k, op, who
      <3> QED BY <1>1, <3>1 DEF MultipleCall, CreateCall
    <2>2. Ended
      <3>1. SUFFICES ASSUME life_at[0] = 3 * num_threads + 1 PROVE Ended
        BY <1>6 DEF LifeInv, MultipleKept
      <3>2. \A t \in 1 .. num_threads : t \notin args /\ life_status[t] = "gone"
        BY <1>6, <3>1, LifeThreads DEF LifeInv, MultipleKept, MultipleOf, Lives
      <3> QED BY <1>0, <1>6, <3>2 DEF LifeInv, MultipleKept
    <2>3. Asked
      BY <1>6 DEF LifeInv, MultipleKept, Attached
    <2> QED BY <2>1, <2>2, <2>3, <1>6
            DEF JoinsInOrder, Life!JoinsInOrder, LifeInv, MultipleKept, Attached, Harmless, Quiet,
                Life!main_thread
  <1>7. CASE life_version = "alarm"
    <2>1. Printed
      <3>1. ~Life!Done(0) => AlarmCall(0, k, op, who)
        BY <1>0, <1>1, <1>7, AlarmCalls DEF k, op, who
      <3> QED BY <1>1, <3>1 DEF AlarmCall, CreateCall
    <2>2. Asked
      BY <1>7 DEF LifeInv, AlarmKept
    <2> QED BY <2>1, <2>2, <1>7
            DEF JoinsInOrder, Life!JoinsInOrder, LifeInv, AlarmKept, Harmless, Quiet,
                Life!main_thread
  <1> QED BY <1>0, <1>2, <1>3, <1>4, <1>5, <1>6, <1>7 DEF Life!Version

(***************************************************************************)
(* In every interleaving of main and its threads, for every number of      *)
(* threads, arguments outlive their use and are all freed, what main       *)
(* prints is complete, no joinable thread is left and 2-detach.c tells the *)
(* threads apart.                                                          *)
(***************************************************************************)
THEOREM ThreadsJoined == Spec => []JoinsInOrder
  <1>1. Init => LifeInv
    BY LifeInit DEF Init
  <1>2. LifeInv /\ [Next]_vars => LifeInv'
    <2>1. [Next]_vars => [Life!Next]_life_vars
      BY DEF Next, vars, Runs
    <2> QED BY <2>1, LifeStep
  <1> QED BY <1>1, <1>2, LifeInvImplies, PTL DEF Spec

---------------------------------------------------------------------------
(* The threads that wait for a change *)

SignalTypes ==
  /\ signal_version \in Versions /\ value \in {0, 1} /\ semaphore \in {0, 1}
  /\ signal_mutex = {} \/ \E w \in Waiting_thread : signal_mutex = {w}
  /\ blocked \subseteq Waiting_thread /\ woken \subseteq Waiting_thread
  /\ wakeups \in 0 .. MaxSpurious
  /\ waiters \in [Waiting_thread -> {"lock", "test", "blocked", "sem_wait", "relock",
                                     "report", "end"}]
  /\ signaller \in {"sleep", "post", "end"}

\* The value changes in the signalling thread's only critical section, and the
\* semaphore is posted after it.
ChangedOnce ==
  /\ signaller = "sleep" <=> value = 0
  /\ signaller # "end" => semaphore = 0

\* Who need not wait any more was let through by the change or by a spurious
\* wakeup, and goes on at once only in the two programs that do not test again.
LetThrough ==
  \A w \in Waiting_thread :
    /\ waiters[w] = "relock" => value = 1
    /\ waiters[w] = "blocked" =>
         /\ signal_version \in {"v1", "v2", "cv"}
         /\ w \in blocked \/ value = 1 \/ w \in woken
    /\ waiters[w] = "report" =>
         value = 1 \/ (w \in woken /\ signal_version \in {"v1", "v2"})

SignalInv == SignalTypes /\ ChangedOnce /\ LetThrough

LEMMA MainWaits == Signal!Main \in Waiting_thread /\ Signal!Waiter \subseteq Waiting_thread
  BY SignalAssumption DEF Signal!Main, Signal!Waiter

LEMMA SignalInit == Signal!Init => SignalInv
  <1> SUFFICES ASSUME Signal!Init PROVE SignalInv
    OBVIOUS
  <1>1. SignalTypes
    BY SpuriousAssumption DEF Signal!Init, SignalTypes, Signal!Free
  <1>2. ChangedOnce
    BY DEF Signal!Init, ChangedOnce
  <1>3. LetThrough
    BY DEF Signal!Init, LetThrough
  <1> QED BY <1>1, <1>2, <1>3 DEF SignalInv

\* A thread moves, and neither value nor signaller changes.
LEMMA WaiterStep ==
  ASSUME SignalInv, NEW w \in Waiting_thread, Signal!waiter(w)
  PROVE  SignalInv'
  <1> USE DEF SignalInv, Signal!rest, Signal!Goto, Signal!pthread_mutex_lock,
              Signal!pthread_mutex_unlock, Signal!Free
  <1>0. \/ Signal!Lock(w) \/ Signal!SemWait(w) \/ Signal!Report(w)
        \/ signal_version \in {"v1", "v2", "cv"} /\ Signal!Test_cond(w)
        \/ signal_version # "loop" /\ signal_version # "sem" /\ Signal!CondWaitReturns(w)
        \/ Signal!Test_sem(w) \/ Signal!Test_loop(w)
        \/ signal_version = "sem" /\ Signal!LockAgain(w)
    BY DEF Signal!waiter, Signal!waiting_thread, Signal!main_sem, Signal!main_loop,
           Signal!Test_cond
  <1>1. CASE Signal!Lock(w)
    <2>1. SignalTypes'
      BY <1>1 DEF Signal!Lock, SignalTypes
    <2>2. ChangedOnce' /\ LetThrough'
      BY <1>1 DEF Signal!Lock, SignalTypes, ChangedOnce, LetThrough
    <2> QED BY <2>1, <2>2
  <1>2. CASE Signal!SemWait(w)
    <2>1. SignalTypes'
      BY <1>2 DEF Signal!SemWait, SignalTypes
    <2>2. ChangedOnce' /\ LetThrough'
      BY <1>2 DEF Signal!SemWait, SignalTypes, ChangedOnce, LetThrough
    <2> QED BY <2>1, <2>2
  <1>3. CASE Signal!Report(w)
    <2>1. SignalTypes'
      BY <1>3 DEF Signal!Report, SignalTypes
    <2>2. ChangedOnce' /\ LetThrough'
      BY <1>3 DEF Signal!Report, SignalTypes, ChangedOnce, LetThrough
    <2> QED BY <2>1, <2>2
  <1>4. CASE signal_version \in {"v1", "v2", "cv"} /\ Signal!Test_cond(w)
    <2>1. SignalTypes'
      BY <1>4 DEF Signal!Test_cond, SignalTypes
    <2>2. ChangedOnce' /\ LetThrough'
      BY <1>4 DEF Signal!Test_cond, SignalTypes, ChangedOnce, LetThrough
    <2> QED BY <2>1, <2>2
  <1>5. CASE /\ signal_version # "loop" /\ signal_version # "sem"
             /\ Signal!CondWaitReturns(w)
    <2>1. SignalTypes'
      BY <1>5 DEF Signal!CondWaitReturns, SignalTypes
    <2>2. ChangedOnce' /\ LetThrough'
      BY <1>5 DEF Signal!CondWaitReturns, SignalTypes, ChangedOnce, LetThrough
    <2> QED BY <2>1, <2>2
  <1>6. CASE Signal!Test_sem(w)
    <2>1. SignalTypes'
      BY <1>6 DEF Signal!Test_sem, SignalTypes
    <2>2. ChangedOnce' /\ LetThrough'
      BY <1>6 DEF Signal!Test_sem, SignalTypes, ChangedOnce, LetThrough
    <2> QED BY <2>1, <2>2
  <1>7. CASE Signal!Test_loop(w)
    <2>1. SignalTypes'
      BY <1>7 DEF Signal!Test_loop, SignalTypes
    <2>2. ChangedOnce' /\ LetThrough'
      BY <1>7 DEF Signal!Test_loop, SignalTypes, ChangedOnce, LetThrough
    <2> QED BY <2>1, <2>2
  <1>8. CASE signal_version = "sem" /\ Signal!LockAgain(w)
    <2>1. SignalTypes'
      BY <1>8 DEF Signal!LockAgain, SignalTypes
    <2>2. ChangedOnce' /\ LetThrough'
      BY <1>8 DEF Signal!LockAgain, SignalTypes, ChangedOnce, LetThrough
    <2> QED BY <2>1, <2>2
  <1> QED BY <1>0, <1>1, <1>2, <1>3, <1>4, <1>5, <1>6, <1>7, <1>8

LEMMA SignalStep == SignalInv /\ [Signal!Next]_signal_vars => SignalInv'
  <1> SUFFICES ASSUME SignalInv, [Signal!Next]_signal_vars PROVE SignalInv'
    OBVIOUS
  <1> USE DEF SignalInv
  <1>1. CASE Signal!signal_thread
    <2>1. \/ Signal!SetAndSignal \/ Signal!SetAndBroadcast
          \/ Signal!SetThenPost \/ Signal!SemPost
      BY <1>1 DEF Signal!signal_thread, Signal!my_thread, Signal!signalling_thread,
                  Signal!sem_thread
    <2>2. SignalTypes'
      BY <2>1 DEF SignalTypes, ChangedOnce, Signal!SetAndSignal, Signal!SetAndBroadcast,
                  Signal!SetThenPost, Signal!SemPost
    <2>3. ChangedOnce' /\ LetThrough'
      BY <2>1 DEF SignalTypes, ChangedOnce, LetThrough, Signal!SetAndSignal,
                  Signal!SetAndBroadcast, Signal!SetThenPost, Signal!SemPost
    <2> QED BY <2>2, <2>3
  <1>2. CASE \E w \in Signal!Waiter : Signal!waiter(w)
    BY <1>2, WaiterStep, MainWaits
  <1>3. CASE \E w \in Signal!Waiter : Signal!SpuriousWakeup(w)
    <2>1. PICK w \in Waiting_thread : Signal!SpuriousWakeup(w)
      BY <1>3, MainWaits
    <2>2. SignalTypes'
      BY <2>1, SpuriousAssumption DEF SignalTypes, Signal!SpuriousWakeup
    <2>3. ChangedOnce' /\ LetThrough'
      BY <2>1 DEF SignalTypes, ChangedOnce, LetThrough, Signal!SpuriousWakeup
    <2> QED BY <2>2, <2>3
  <1>4. CASE UNCHANGED signal_vars
    BY <1>4 DEF signal_vars, SignalTypes, ChangedOnce, LetThrough
  <1> QED BY <1>1, <1>2, <1>3, <1>4 DEF Signal!Next, Signal!vars, signal_vars

(***************************************************************************)
(* No thread passes its wait before the value has changed, in any of the   *)
(* five programs and for any number of threads; a spurious wakeup lets one *)
(* through only where the test is not repeated.                            *)
(***************************************************************************)
THEOREM NobodyStartsEarly == Spec => []Signal!NoFalseStart
  <1>1. Init => SignalInv
    BY SignalInit DEF Init
  <1>2. SignalInv /\ [Next]_vars => SignalInv'
    <2>1. [Next]_vars => [Signal!Next]_signal_vars
      BY DEF Next, vars, Runs
    <2> QED BY <2>1, SignalStep
  <1>3. SignalInv => Signal!NoFalseStart
    BY MainWaits DEF SignalInv, LetThrough, Signal!NoFalseStart
  <1> QED BY <1>1, <1>2, <1>3, PTL DEF Spec

---------------------------------------------------------------------------
(* The types of the variables, where the invariants above do not give them *)

\* The queue's lock is taken as often as somebody has it: a worker that is about
\* to take an item off, or the contractor, for good once it cancels.
Keeping == contractor \in {"add", "look", "cancel", "join", "end"}
Taking(w) == crew[w] = "remove"
OneLock ==
  /\ work_queue_lock \in {0, 1} /\ cancel \subseteq Crew!Worker
  /\ contractor # "crash" =>
       /\ work_queue_lock = 0 <=> Keeping \/ \E w \in Crew!Worker : Taking(w)
       /\ Keeping => \A w \in Crew!Worker : ~Taking(w)
       /\ \A v, w \in Crew!Worker : Taking(v) /\ Taking(w) => v = w

LEMMA OneLockStep ==
  ASSUME CrewInv, OneLock, [Crew!Next]_crew_vars
  PROVE  OneLock'
  <1> USE DEF OneLock, Keeping, Taking, Crew!Goto, Crew!Become, Crew!P_lock, Crew!V_lock
  <1>0. CrewTypes
    BY DEF CrewInv
  <1>1. CASE UNCHANGED crew_vars
    BY <1>1 DEF crew_vars
  <1>2. CASE UNCHANGED Crew!vars
    BY <1>2 DEF Crew!vars
  <1>3. ASSUME contractor # "crash", NEW w \in Crew!Worker, Crew!worker(w) PROVE OneLock'
    <2>1. CASE Crew!WaitWork(w) \/ Crew!Process(w) \/ Crew!pthread_testcancel(w)
      BY <1>0, <1>3, <2>1 DEF CrewTypes, Crew!WaitWork, Crew!Process, Crew!pthread_testcancel
    <2>2. CASE Crew!LockQueue(w)
      BY <1>0, <1>3, <2>2 DEF CrewTypes, Crew!LockQueue
    <2>3. CASE Crew!Remove(w)
      BY <1>0, <1>3, <2>3 DEF CrewTypes, Crew!Remove
    <2>4. CASE Crew!Disable(w)
      BY <1>0, <1>3, <2>4 DEF CrewTypes, Crew!Disable
    <2>5. CASE Crew!Cancelled(w)
      BY <1>0, <1>3, <2>5 DEF CrewTypes, Crew!Cancelled, Crew!CancellationPoint
    <2> QED BY <1>3, <2>1, <2>2, <2>3, <2>4, <2>5 DEF Crew!worker
  <1>4. ASSUME contractor # "crash", Crew!contractor_thread PROVE OneLock'
    <2>1. CASE Crew!LockToAdd \/ Crew!LockToLook
      BY <1>4, <2>1 DEF Crew!LockToAdd, Crew!LockToLook
    <2>2. CASE Crew!Add \/ Crew!Signal \/ Crew!Look
      BY <1>4, <2>2 DEF Crew!Add, Crew!Signal, Crew!Look
    <2>3. CASE Crew!pthread_cancel
      <3>1. Crew!Joining \in Crew!Worker
        BY <1>0, <2>3, CrewAssumption
           DEF CrewTypes, CrewInv, GoingHome, Crew!pthread_cancel, Crew!Joining, Crew!Worker
      <3> QED BY <1>4, <2>3, <3>1 DEF Crew!pthread_cancel
    <2>4. CASE Crew!pthread_join
      BY <1>4, <2>4 DEF Crew!pthread_join
    <2> QED BY <1>4, <2>1, <2>2, <2>3, <2>4 DEF Crew!contractor_thread
  <1> QED BY <1>1, <1>2, <1>3, <1>4 DEF Crew!Next

\* Free chairs and customers in the waiting room add up.
InRoom == {c \in Customer : customers[c] \in {"room", "sit"}}
RoomCounted ==
  /\ waiting_room \in Nat
  /\ waiting_room + Cardinality(InRoom) = num_chairs

LEMMA RoomCountedStep ==
  ASSUME ShopInv, RoomCounted, [Shop!Next]_shop_vars
  PROVE  RoomCounted'
  <1>0. ShopTypes /\ \A S \in SUBSET Customer : IsFiniteSet(S) /\ Cardinality(S) \in Nat
    BY ShopAssumption, FS_Subset, FS_CardinalityType DEF ShopInv
  <1>n. Cardinality(InRoom) \in Nat /\ IsFiniteSet(InRoom) /\ num_chairs \in Nat
    BY <1>0, ShopAssumption DEF InRoom
  <1> USE DEF RoomCounted
  <1>1. CASE UNCHANGED <<waiting_room, customers>>
    BY <1>1 DEF InRoom
  <1>2. ASSUME NEW c \in Customer, Shop!thread_customer(c) PROVE RoomCounted'
    <2> USE DEF Shop!Goto
    <2>1. CASE Shop!EnterRoom(c)
      <3>1. InRoom' = InRoom \cup {c} /\ c \notin InRoom
        BY <1>0, <2>1 DEF Shop!EnterRoom, InRoom, ShopTypes
      <3>2. Cardinality(InRoom') = Cardinality(InRoom) + 1
        BY <1>n, <3>1, FS_AddElement
      <3> QED BY <1>n, <2>1, <3>2 DEF Shop!EnterRoom
    <2>2. CASE Shop!LeaveRoom(c)
      <3>1. InRoom' = InRoom \ {c} /\ c \in InRoom
        BY <1>0, <2>2 DEF Shop!LeaveRoom, InRoom, ShopTypes
      <3>2. Cardinality(InRoom') = Cardinality(InRoom) - 1
        BY <1>n, <3>1, FS_RemoveElement
      <3> QED BY <1>n, <2>2, <3>2 DEF Shop!LeaveRoom
    <2>3. CASE Shop!Sit(c) \/ Shop!WakeBarber(c) \/ Shop!HairCut(c) \/ Shop!GetUp(c)
      <3>1. InRoom' = InRoom /\ waiting_room' = waiting_room
        BY <1>0, <2>3 DEF Shop!Sit, Shop!WakeBarber, Shop!HairCut, Shop!GetUp, InRoom, ShopTypes
      <3> QED BY <3>1
    <2> QED BY <1>2, <2>1, <2>2, <2>3 DEF Shop!thread_customer
  <1>3. ASSUME Shop!main \/ Shop!barber \/ Shop!thread_barber PROVE RoomCounted'
    <2>1. UNCHANGED <<waiting_room, customers>>
      BY <1>3 DEF Shop!main, Shop!barber, Shop!thread_barber, Shop!customers_destroy,
         Shop!WakeToGo, Shop!barbershop_destroy, Shop!Return, Shop!Main, Shop!Barber,
         Shop!While, Shop!Sleep, Shop!TestAgain, Shop!CutHair, Shop!sems
    <2> QED BY <1>1, <2>1
  <1> QED BY <1>1, <1>2, <1>3 DEF Shop!Next, Shop!vars, Shop!sems, shop_vars

\* What PipeTypes leaves out.
PipeRest ==
  /\ Len(work_pipe) <= room /\ room \in {PIPE_BUF, NUM_PRODUCERS}
  /\ main_locked \in BOOLEAN /\ waiting \in BOOLEAN
  /\ pipe_wakeups \in 0 .. MaxSpurious
  /\ pipe_main \in {"while", "check", "wait", "read", "unlock", "exit"}

LEMMA PipeRestStep ==
  ASSUME PipeInv, PipeRest, [Pipe!Next]_pipe_vars
  PROVE  PipeRest'
  <1>0. work_pipe \in Seq(Pipe!Producer) /\ Len(work_pipe) \in Nat /\ room \in Nat
        /\ room \in {PIPE_BUF, NUM_PRODUCERS} /\ room' = room
    <2>1. room' = room
      BY DEF pipe_vars, Pipe!vars, Pipe!Next, Pipe!main, Pipe!LockMain, Pipe!CondWait,
         Pipe!Relock, Pipe!Read, Pipe!UnlockMain, Pipe!Main, Pipe!SpuriousWakeup,
         Pipe!producer, Pipe!Write, Pipe!Signal
    <2> QED BY <2>1, PipeAssumption DEF PipeInv, PipeTypes, PipeRest
  <1> USE DEF PipeRest
  <1>1. CASE UNCHANGED pipe_vars \/ UNCHANGED Pipe!vars
    BY <1>1 DEF pipe_vars, Pipe!vars
  <1>2. ASSUME NEW p \in Pipe!Producer, Pipe!producer(p) PROVE PipeRest'
    <2>1. UNCHANGED <<main_locked, pipe_wakeups, pipe_main>> /\ waiting' \in {waiting, FALSE}
      BY <1>2 DEF Pipe!producer, Pipe!Write, Pipe!Signal, Pipe!main_state
    <2>2. \/ work_pipe' = work_pipe
          \/ Len(work_pipe) < room /\ work_pipe' = Append(work_pipe, p)
      BY <1>2 DEF Pipe!producer, Pipe!Write, Pipe!Signal
    <2>3. Len(work_pipe') <= room
      BY <1>0, <2>2
    <2> QED BY <1>0, <2>1, <2>3
  <1>3. CASE Pipe!SpuriousWakeup
    <2>1. /\ pipe_wakeups < MaxSpurious /\ pipe_wakeups' = pipe_wakeups + 1
          /\ UNCHANGED <<work_pipe, main_locked, pipe_main>> /\ waiting' = FALSE
      BY <1>3 DEF Pipe!SpuriousWakeup
    <2>2. pipe_wakeups' \in 0 .. MaxSpurious
      BY <2>1, SpuriousAssumption
    <2> QED BY <1>0, <2>1, <2>2
  <1>4. CASE Pipe!main
    <2>1. /\ main_locked' \in BOOLEAN /\ waiting' \in BOOLEAN /\ pipe_wakeups' = pipe_wakeups
          /\ pipe_main' \in {"while", "check", "wait", "read", "unlock", "exit"}
      BY <1>4 DEF Pipe!main, Pipe!LockMain, Pipe!CondWait, Pipe!Relock, Pipe!Read,
                  Pipe!UnlockMain, Pipe!Main
    <2>2. work_pipe' = work_pipe \/ (work_pipe # <<>> /\ work_pipe' = Tail(work_pipe))
      BY <1>4 DEF Pipe!main, Pipe!LockMain, Pipe!CondWait, Pipe!Relock, Pipe!Read,
                  Pipe!UnlockMain
    <2>3. Len(work_pipe') <= room
      BY <1>0, <2>2
    <2> QED BY <1>0, <2>1, <2>3
  <1> QED BY <1>1, <1>2, <1>3, <1>4 DEF Pipe!Next

LEMMA PipeBounds ==
  ASSUME PipeInv
  PROVE  avail \in 0 .. NUM_PRODUCERS /\ producers \in 0 .. NUM_PRODUCERS
  <1> DEFINE n == Len(work_pipe)
  <1>1. n \in Nat /\ DOMAIN work_pipe = 1 .. n /\ avail = n
    BY DEF PipeInv, PipeTypes, CountsRight
  <1>2. work_pipe \in Injection(1 .. n, Pipe!Producer)
    BY <1>1 DEF PipeInv, PipeTypes, UnitsApart, Injection, IsInjective
  <1> HIDE DEF n
  <1>3. IsFiniteSet(Pipe!Producer) /\ Cardinality(Pipe!Producer) = NUM_PRODUCERS
    BY PipeAssumption, FS_Interval DEF Pipe!Producer
  <1>4. Cardinality(1 .. n) <= NUM_PRODUCERS
    BY <1>2, <1>3, FS_Injection
  <1>5. Cardinality(1 .. n) = n
    <2>1. 1 \in Int /\ n \in Int
      BY <1>1
    <2>2. Cardinality(1 .. n) = IF 1 > n THEN 0 ELSE n - 1 + 1
      BY <2>1, FS_Interval
    <2> QED BY <1>1, <2>2
  <1>6. Written \subseteq Pipe!Producer
    BY DEF Written
  <1>7. Cardinality(Written) \in Nat /\ Cardinality(Written) <= NUM_PRODUCERS
    BY <1>3, <1>6, FS_Subset, FS_CardinalityType
  <1>8. producers = NUM_PRODUCERS - Cardinality(Written)
    BY DEF PipeInv, CountsRight
  <1> QED BY <1>1, <1>4, <1>5, <1>7, <1>8, PipeAssumption

\* What CancelTypes leaves out: how far a script can go, and sets of threads.
CancelLength == 3 * num_threads + 11
CancelRest ==
  /\ \A t \in Cancel!Team : cancel_at[t] <= CancelLength + 1
  /\ enabled \subseteq Cancel!Team /\ asynchronous \subseteq Cancel!Team
  /\ requested \subseteq Cancel!Team
  /\ memory \subseteq {"matrix", "rows"}
  /\ cancel_main \in {"cancel", "join", "end"}
  /\ main_at \in Cancel!Team \cup {num_threads + 1}
  /\ cancel_main # "end" => main_at \in Cancel!Team

LEMMA CancelLengths ==
  ASSUME CancelTypes, NEW t \in Cancel!Team, ~Cancel!Done(t)
  PROVE  cancel_at[t] \in Nat /\ cancel_at[t] <= CancelLength
  <1>1. cancel_at[t] \in Nat \ {0} /\ num_threads \in Nat /\ num_threads > 2
    BY TeamAssumption DEF CancelTypes
  <1>2. ~(cancel_at[t] > Len(Cancel!Script(t)))
    BY DEF Cancel!Done
  <1>3. CASE cancel_version = "cleanup_v2"
    <2>1. Cancel!Crew \subseteq 1 .. num_threads
      BY DEF Cancel!Crew, Cancel!Team
    <2>2. Subs <= num_threads /\ Subs \in Nat
      <3>1. IsFiniteSet(1 .. num_threads) /\ Cardinality(1 .. num_threads) = num_threads
        BY <1>1, FS_Interval
      <3> QED BY <2>1, <3>1, FS_Subset, TeamFinite DEF Subs
    <2>3. CASE t = 1
      <3>1. cancel_at[t] <= PopAt
        BY <1>1, <1>2, <1>3, <2>3, ContractorScripts
      <3> QED BY <1>1, <2>2, <3>1 DEF PopAt, CancelLength
    <2>4. CASE t # 1
      <3>1. Len(Cancel!Script(t)) = 2
        BY <1>3, <2>4 DEF Cancel!Script, Cancel!First, Cancel!sub_contractor
      <3> QED BY <1>1, <1>2, <3>1 DEF CancelLength
    <2> QED BY <2>3, <2>4
  <1>4. CASE cancel_version # "cleanup_v2"
    <2>1. Len(Cancel!Script(t)) \in 2 .. 12
      <3>1. CASE cancel_version = "deferred"
        BY <3>1 DEF Cancel!Script, Cancel!deferred
      <3>2. CASE cancel_version = "async"
        BY <3>2 DEF Cancel!Script, Cancel!async
      <3>3. CASE cancel_version = "deferred_v1"
        BY <3>3 DEF Cancel!Script, Cancel!deferred_v1
      <3>4. CASE cancel_version = "deferred_v2"
        BY <3>4 DEF Cancel!Script, Cancel!deferred_v2
      <3>5. CASE cancel_version = "async_matrix"
        BY <3>5 DEF Cancel!Script, Cancel!async_matrix
      <3>6. CASE cancel_version \in Cleaning
        BY <3>6, CleaningLengths DEF Cleaning
      <3> QED BY <1>4, <3>1, <3>2, <3>3, <3>4, <3>5, <3>6
              DEF CancelTypes, Cancel!Version, Cleaning
    <2>2. PICK l \in 2 .. 12 : l = Len(Cancel!Script(t))
      BY <2>1
    <2>3. cancel_at[t] <= l
      BY <1>1, <1>2, <2>2
    <2> QED BY <1>1, <2>3 DEF CancelLength
  <1> QED BY <1>3, <1>4

LEMMA CancelThreadRest ==
  ASSUME CancelInv, CancelRest, NEW t \in Cancel!Team, Cancel!my_thread(t)
  PROVE  CancelRest'
  <1>0. CancelTypes /\ CancelLength \in Nat /\ CancelLength > 10
    BY TeamAssumption DEF CancelInv, CancelLength
  <1>1. UNCHANGED <<main_at, cancel_main>>
    BY DEF Cancel!my_thread, Cancel!Plain, Cancel!pthread_setcancelstate,
       Cancel!pthread_setcanceltype, Cancel!malloc, Cancel!pthread_cleanup_push,
       Cancel!pthread_cleanup_pop, Cancel!Loop, Cancel!LockAndCount, Cancel!CondWait,
       Cancel!CreateSub, Cancel!JoinSub, Cancel!Return, Cancel!Cancelled,
       Cancel!cleanup_handler, Cancel!cleanup_a, Cancel!cleanup_b,
       Cancel!cleanup_handler_v1, Cancel!cleanup_handler_v2, Cancel!Unwinds,
       Cancel!Unwound, Cancel!main_state
  <1>2. \A u \in Cancel!Team : cancel_at'[u] <= CancelLength + 1
    <2>1. \/ cancel_at' = cancel_at
          \/ ~Cancel!Done(t) /\ cancel_at' = [cancel_at EXCEPT ![t] = @ + 1]
          \/ ~Cancel!Done(t) /\ \E k \in {1, 9} : cancel_at' = [cancel_at EXCEPT ![t] = k]
      <3>1. CASE Cancel!Loop(t)
        <4>1. cancel_at' = [cancel_at EXCEPT ![t] = cancel_at[t]] => cancel_at' = cancel_at
          BY <1>0 DEF CancelTypes
        <4> QED BY <3>1, <4>1 DEF Cancel!Loop, Cancel!LoopStart
      <3>2. CASE ~Cancel!Loop(t)
        BY <3>2 DEF Cancel!my_thread, Cancel!Plain, Cancel!pthread_setcancelstate,
           Cancel!pthread_setcanceltype, Cancel!malloc, Cancel!pthread_cleanup_push,
           Cancel!pthread_cleanup_pop, Cancel!LockAndCount, Cancel!CondWait,
           Cancel!CreateSub, Cancel!JoinSub, Cancel!Return, Cancel!Cancelled,
           Cancel!cleanup_handler, Cancel!cleanup_a, Cancel!cleanup_b,
           Cancel!cleanup_handler_v1, Cancel!cleanup_handler_v2, Cancel!Unwinds,
           Cancel!Unwound, Cancel!Passes
      <3> QED BY <3>1, <3>2
    <2>2. ~Cancel!Done(t) => cancel_at[t] <= CancelLength
      BY <1>0, CancelLengths
    <2>3. \A k : cancel_at' = [cancel_at EXCEPT ![t] = k] =>
            \A u \in Cancel!Team : cancel_at'[u] = IF u = t THEN k ELSE cancel_at[u]
      BY <1>0 DEF CancelTypes
    <2>4. cancel_at[t] \in Nat
      BY <1>0 DEF CancelTypes
    <2>5. CASE cancel_at' = cancel_at
      BY <2>5 DEF CancelRest
    <2>6. CASE ~Cancel!Done(t) /\ cancel_at' = [cancel_at EXCEPT ![t] = cancel_at[t] + 1]
      BY <1>0, <2>2, <2>3, <2>4, <2>6 DEF CancelRest
    <2>7. ASSUME NEW k \in {1, 9}, cancel_at' = [cancel_at EXCEPT ![t] = k]
          PROVE  \A u \in Cancel!Team : cancel_at'[u] <= CancelLength + 1
      BY <1>0, <2>3, <2>7 DEF CancelRest
    <2> QED BY <2>1, <2>5, <2>6, <2>7
  <1>3. enabled' \subseteq Cancel!Team /\ asynchronous' \subseteq Cancel!Team
    BY DEF CancelRest, Cancel!my_thread, Cancel!Plain, Cancel!pthread_setcancelstate,
       Cancel!pthread_setcanceltype, Cancel!malloc, Cancel!pthread_cleanup_push,
       Cancel!pthread_cleanup_pop, Cancel!Loop, Cancel!LockAndCount, Cancel!CondWait,
       Cancel!CreateSub, Cancel!JoinSub, Cancel!Return, Cancel!Cancelled,
       Cancel!cleanup_handler, Cancel!cleanup_a, Cancel!cleanup_b,
       Cancel!cleanup_handler_v1, Cancel!cleanup_handler_v2, Cancel!Unwinds,
       Cancel!Unwound, Cancel!cancelability
  <1>4. requested' \subseteq Cancel!Team
    BY DEF CancelRest, Cancel!my_thread, Cancel!Plain, Cancel!pthread_setcancelstate,
       Cancel!pthread_setcanceltype, Cancel!malloc, Cancel!pthread_cleanup_push,
       Cancel!pthread_cleanup_pop, Cancel!Loop, Cancel!LockAndCount, Cancel!CondWait,
       Cancel!CreateSub, Cancel!JoinSub, Cancel!Return, Cancel!Cancelled,
       Cancel!cleanup_handler, Cancel!cleanup_a, Cancel!cleanup_b,
       Cancel!cleanup_handler_v1, Cancel!cleanup_handler_v2, Cancel!Unwinds,
       Cancel!Unwound, Cancel!cancelability, Cancel!Crew
  <1>5. memory' \subseteq {"matrix", "rows"}
    BY DEF CancelRest, Cancel!my_thread, Cancel!Plain, Cancel!pthread_setcancelstate,
       Cancel!pthread_setcanceltype, Cancel!malloc, Cancel!pthread_cleanup_push,
       Cancel!pthread_cleanup_pop, Cancel!Loop, Cancel!LockAndCount, Cancel!CondWait,
       Cancel!CreateSub, Cancel!JoinSub, Cancel!Return, Cancel!Cancelled,
       Cancel!cleanup_handler, Cancel!cleanup_a, Cancel!cleanup_b,
       Cancel!cleanup_handler_v1, Cancel!cleanup_handler_v2, Cancel!Unwinds,
       Cancel!Unwound, Cancel!cleanable
  <1> QED BY <1>0, <1>1, <1>2, <1>3, <1>4, <1>5 DEF CancelRest

LEMMA CancelRestStep ==
  ASSUME CancelInv, CancelRest, [Cancel!Next]_cancel_vars
  PROVE  CancelRest'
  <1>1. CASE UNCHANGED cancel_vars \/ UNCHANGED Cancel!vars
    BY <1>1 DEF cancel_vars, Cancel!vars, CancelRest
  <1>2. CASE Cancel!main
    <2>1. UNCHANGED <<cancel_at, enabled, asynchronous, memory>>
      BY <1>2 DEF Cancel!main, Cancel!pthread_cancel, Cancel!pthread_join,
                  Cancel!cancelability, Cancel!cleanable
    <2>2. /\ requested' \subseteq Cancel!Team /\ cancel_main' \in {"cancel", "join", "end"}
          /\ cancel_main' # "end" => main_at' \in Cancel!Team
          /\ main_at' \in Cancel!Team \cup {num_threads + 1}
      <3>1. CASE Cancel!pthread_cancel
        BY <3>1 DEF CancelRest, Cancel!pthread_cancel
      <3>2. CASE Cancel!pthread_join
        <4>1. main_at \in 1 .. num_threads /\ main_at' = main_at + 1
          BY <3>2 DEF CancelRest, Cancel!pthread_join, Cancel!Team
        <4>2. main_at' \in Cancel!Team \cup {num_threads + 1}
          BY <4>1, TeamAssumption DEF Cancel!Team
        <4>3. Cancel!Created \subseteq Cancel!Team
          BY TeamFinite DEF Cancel!Created, Cancel!First
        <4>4. /\ cancel_main' = IF main_at + 1 \in Cancel!Created THEN "cancel" ELSE "end"
              /\ requested' = requested
          BY <3>2 DEF Cancel!pthread_join, Cancel!cancelability
        <4> QED BY <4>1, <4>2, <4>3, <4>4 DEF CancelRest
      <3> QED BY <1>2, <3>1, <3>2 DEF Cancel!main
    <2> QED BY <2>1, <2>2 DEF CancelRest, CancelLength
  <1> QED BY <1>1, <1>2, CancelThreadRest DEF Cancel!Next

\* The counter of cleanup_v1.c counts threads.
LEMMA CounterBounds == CancelInv => counter \in 0 .. num_threads
  <1>1. num_threads \in Nat
    BY TeamAssumption
  <1>2. IsFiniteSet(Cancel!Team) /\ Cardinality(Cancel!Team) = num_threads
    BY <1>1, FS_Interval DEF Cancel!Team
  <1>3. Waiters \subseteq Cancel!Team
    BY DEF Waiters
  <1>4. Cardinality(Waiters) \in Nat /\ Cardinality(Waiters) <= num_threads
    BY <1>2, <1>3, FS_Subset, FS_CardinalityType
  <1> QED BY <1>1, <1>4 DEF CancelInv, NothingToClean, MemoryPushed, WaitersCounted, Cleaning

---------------------------------------------------------------------------
\* What LifeTypes leaves out, but for wild, which is empty.
LifeLength == 3 * num_threads + 7
LifeRest ==
  /\ \A t \in Life!Threads : life_at[t] <= LifeLength + 1
  /\ detached \subseteq Life!Threads /\ args \subseteq Life!Threads
  /\ val \in Nat

\* Where a call can be, and whom it can be about.
LEMMA LifeCalls ==
  ASSUME LifeTypes, NEW t \in Life!Threads, ~(life_at[t] > Len(Life!Script(t)))
  PROVE  /\ life_at[t] <= LifeLength
         /\ Life!Script(t)[life_at[t]].op \in {"create_detached", "detach", "alloc"} =>
              Life!Script(t)[life_at[t]].of \in Life!Threads
         /\ Life!Script(t)[life_at[t]].op = "add" => Life!Script(t)[life_at[t]].of \in Nat
  <1> DEFINE k   == life_at[t]
             op  == Life!Script(t)[k].op
             who == Life!Script(t)[k].of
  <1>0. k \in Nat \ {0}
    BY DEF LifeTypes
  <1>1. \/ SimpleCall(t, k, op, who) \/ FooCall(t, k, op, who) \/ CloneCall(t, k, op, who)
        \/ DetachCall(t, k, op, who) \/ MultipleCall(t, k, op, who)
        \/ AlarmCall(t, k, op, who)
    BY <1>0, SimpleCalls, FooCalls, CloneCalls, DetachCalls, MultipleCalls, AlarmCalls
       DEF LifeTypes, Life!Version
  <1> HIDE DEF k, op, who
  <1>2. /\ k <= LifeLength
        /\ op \in {"create_detached", "detach", "alloc"} => who \in Life!Threads
        /\ op = "add" => who \in Nat
    BY <1>0, <1>1, LifeThreads
       DEF SimpleCall, FooCall, CloneCall, DetachCall, MultipleCall, AlarmCall, CreateCall,
           LifeLength
  <1> QED BY <1>2 DEF k, op, who

LEMMA LifeRestStep ==
  ASSUME LifeInv, LifeRest, [Life!Next]_life_vars
  PROVE  LifeRest'
  <1>1. CASE UNCHANGED life_vars \/ UNCHANGED Life!vars
    BY <1>1 DEF life_vars, Life!vars, LifeRest
  <1>2. ASSUME NEW t \in Life!Threads, Life!run(t) PROVE LifeRest'
    <2> DEFINE op  == Life!Script(t)[life_at[t]].op
               who == Life!Script(t)[life_at[t]].of
    <2>0. LifeTypes /\ LifeLength \in Nat
      BY TeamAssumption DEF LifeInv, LifeLength
    <2>1. CASE ~(life_at[t] > Len(Life!Script(t)))
      <3>1. /\ life_at[t] <= LifeLength /\ life_at[t] \in Nat
            /\ op \in {"create_detached", "detach", "alloc"} => who \in Life!Threads
            /\ op = "add" => who \in Nat
        BY <2>0, <2>1, LifeCalls DEF LifeTypes
      <3>2. /\ \A u \in Life!Threads : life_at'[u] = IF u = t THEN life_at[t] + 1 ELSE life_at[u]
            /\ Effect(op, who)
        BY <1>2, <2>0, <2>1, RunIs
      <3> HIDE DEF op, who
      <3>3. \A u \in Life!Threads : life_at'[u] <= LifeLength + 1
        BY <2>0, <3>1, <3>2 DEF LifeRest
      <3>4. detached' \subseteq Life!Threads /\ args' \subseteq Life!Threads /\ val' \in Nat
        BY <3>1, <3>2 DEF LifeRest, Effect
      <3> QED BY <3>3, <3>4 DEF LifeRest, LifeLength
    <2>2. CASE life_at[t] > Len(Life!Script(t))
      <3>1. UNCHANGED <<life_at, detached, args, val>>
        BY <1>2, <2>0, <2>2, RunIs
      <3> QED BY <3>1 DEF LifeRest, LifeLength
    <2> QED BY <2>1, <2>2
  <1> QED BY <1>1, <1>2 DEF Life!Next

LEMMA NothingWild == LifeInv => wild = {}
  BY DEF LifeInv, LifeTypes, Life!Version, SimpleKept, FooKept, CloneKept, DetachKept,
     MultipleKept, AlarmKept, Attached, Harmless

\* What the types of all programs follow from.
TypesInv ==
  /\ CrewInv /\ OneLock /\ ShopInv /\ RoomCounted /\ PipeInv /\ PipeRest /\ SignalInv
  /\ DotInv /\ CancelInv /\ CancelRest /\ LifeInv /\ LifeRest

LEMMA TypesInit == Init => TypesInv
  <1> SUFFICES ASSUME Init PROVE TypesInv
    OBVIOUS
  <1>1. OneLock
    BY DEF Init, Crew!Init, OneLock, Keeping, Taking
  <1>2. RoomCounted
    <2>1. InRoom = {}
      BY DEF Init, Shop!Init, Shop!customers_create, InRoom
    <2>2. waiting_room = num_chairs
      BY DEF Init, Shop!Init, Shop!barbershop_create
    <2> QED BY <2>1, <2>2, FS_EmptySet, ShopAssumption DEF RoomCounted
  <1>3. PipeRest
    <2>1. /\ work_pipe = <<>> /\ main_locked = FALSE /\ waiting = FALSE
          /\ pipe_wakeups = 0 /\ pipe_main = "while" /\ room \in {PIPE_BUF, NUM_PRODUCERS}
      BY DEF Init, Pipe!Init
    <2>2. Len(work_pipe) <= room /\ pipe_wakeups \in 0 .. MaxSpurious
      BY <2>1, PipeAssumption, SpuriousAssumption
    <2> QED BY <2>1, <2>2 DEF PipeRest
  <1>4. CancelRest
    BY TeamAssumption, TeamFinite
       DEF Init, Cancel!Init, CancelRest, CancelLength, Cancel!First
  <1>5. LifeRest
    <2>1. /\ life_at = [t \in Life!Threads |-> 1]
          /\ detached = {} /\ args = {} /\ val = 10
      BY Zenon DEF Init, Life!Init
    <2> QED BY <2>1, TeamAssumption DEF LifeRest, LifeLength
  <1>6. Shop!Init /\ Pipe!Init /\ Signal!Init /\ Dot!Init /\ Cancel!Init /\ Life!Init
    BY DEF Init
  <1> QED BY <1>1, <1>2, <1>3, <1>4, <1>5, <1>6, CrewInit, ShopInit, PipeInit, SignalInit,
          DotInit, CancelInit, LifeInit DEF TypesInv

LEMMA TypesStep == TypesInv /\ [Next]_vars => TypesInv'
  <1> SUFFICES ASSUME TypesInv, [Next]_vars PROVE TypesInv'
    OBVIOUS
  <1> USE DEF TypesInv
  <1>1. [Crew!Next]_crew_vars
    BY DEF Next, vars, Runs
  <1>2. [Shop!Next]_shop_vars
    BY DEF Next, vars, Runs
  <1>3. [Pipe!Next]_pipe_vars
    BY DEF Next, vars, Runs
  <1>4. [Signal!Next]_signal_vars
    BY DEF Next, vars, Runs
  <1>5. [Dot!Next]_dot_vars
    BY DEF Next, vars, Runs
  <1>6. [Cancel!Next]_cancel_vars
    BY DEF Next, vars, Runs
  <1>7. [Life!Next]_life_vars
    BY DEF Next, vars, Runs
  <1>8. CrewInv' /\ OneLock'
    BY <1>1, CrewStep, OneLockStep
  <1>9. ShopInv' /\ RoomCounted'
    BY <1>2, ShopStep, RoomCountedStep
  <1>10. PipeInv' /\ PipeRest'
    BY <1>3, PipeStep, PipeRestStep
  <1>11. SignalInv' /\ DotInv'
    BY <1>4, <1>5, SignalStep, DotStep
  <1>12. CancelInv' /\ CancelRest'
    <2>1. CancelTypes' /\ NothingToClean' /\ MemoryPushed' /\ WaitersCounted'
      BY <1>6, CancelTypesStep, NothingToCleanStep, MemoryPushedStep, WaitersCountedStep
    <2> QED BY <1>6, <2>1, CancelRestStep DEF CancelInv
  <1>13. LifeInv' /\ LifeRest'
    BY <1>7, LifeStep, LifeRestStep
  <1> QED BY <1>8, <1>9, <1>10, <1>11, <1>12, <1>13

LEMMA TypesImplied == TypesInv => SyncTypes
  <1> SUFFICES ASSUME TypesInv PROVE SyncTypes
    OBVIOUS
  <1> USE DEF TypesInv
  <1>1. Crew!TypeOK
    BY DEF CrewInv, CrewTypes, OneLock, Crew!TypeOK
  <1>2. Shop!TypeOK
    <2>1. waiting_room \in 0 .. num_chairs
      <3>1. Cardinality(InRoom) \in Nat /\ num_chairs \in Nat
        BY ShopAssumption, FS_Subset, FS_CardinalityType DEF InRoom
      <3> QED BY <3>1 DEF RoomCounted
    <2>2. done_with_all_customers \in BOOLEAN
      BY DEF ShopInv, AllHome
    <2>3. shop_main \in {"join", "wake", "destroy", "wait", "exit"}
      BY DEF ShopInv, ShopTypes
    <2> QED BY <2>1, <2>2, <2>3 DEF ShopInv, ShopTypes, Shop!TypeOK
  <1>3. Pipe!TypeOK
    BY PipeBounds DEF PipeInv, PipeTypes, PipeRest, Pipe!TypeOK
  <1>4. Signal!TypeOK
    <2>1. signal_mutex \subseteq Waiting_thread
      BY DEF SignalInv, SignalTypes
    <2>2. Cardinality(signal_mutex) <= 1
      <3>1. CASE signal_mutex = {}
        <4>1. Cardinality(signal_mutex) = 0
          BY <3>1, FS_EmptySet
        <4> QED BY <4>1
      <3>2. ASSUME NEW w \in Waiting_thread, signal_mutex = {w}
            PROVE  Cardinality(signal_mutex) <= 1
        <4>1. Cardinality(signal_mutex) = 1
          BY <3>2, FS_Singleton
        <4> QED BY <4>1
      <3> QED BY <3>1, <3>2 DEF SignalInv, SignalTypes
    <2>3. Signal!Cardinality(signal_mutex) = Cardinality(signal_mutex)
      BY DEF Signal!Cardinality, Signal!IsFiniteSet, Cardinality, IsFiniteSet
    <2> QED BY <2>1, <2>2, <2>3 DEF SignalInv, SignalTypes, Signal!TypeOK
  <1>5. Dot!TypeOK
    BY DEF DotInv, DotTypes, Dot!TypeOK
  <1>6. Cancel!TypeOK
    <2>1. cancel_at \in [Cancel!Team -> 1 .. 3 * num_threads + 12]
      <3>1. \A t \in Cancel!Team : cancel_at[t] \in 1 .. 3 * num_threads + 12
        BY TeamAssumption DEF CancelInv, CancelTypes, CancelRest, CancelLength
      <3> QED BY <3>1 DEF CancelInv, CancelTypes
    <2> QED BY <2>1, CounterBounds DEF CancelInv, CancelTypes, CancelRest, Cancel!TypeOK
  <1>7. Life!TypeOK
    <2>1. life_at \in [Life!Threads -> 1 .. 3 * num_threads + 8]
      <3>1. \A t \in Life!Threads : life_at[t] \in 1 .. 3 * num_threads + 8
        BY TeamAssumption DEF LifeInv, LifeTypes, LifeRest, LifeLength
      <3> QED BY <3>1 DEF LifeInv, LifeTypes
    <2>2. reported \in [Life!Threads -> {"", "JOINABLE", "DETACHED", "error"}]
      BY Zenon DEF LifeInv, LifeTypes, Quiet
    <2>3. /\ life_version \in Life!Version
          /\ life_status \in [Life!Threads -> {"none", "running", "ended", "gone"}]
          /\ detached \subseteq Life!Threads /\ args \subseteq Life!Threads
          /\ wild \subseteq Life!Threads /\ val \in Nat
      BY NothingWild DEF LifeInv, LifeTypes, LifeRest
    <2> QED BY <2>1, <2>2, <2>3, Zenon DEF Life!TypeOK
  <1> QED BY <1>1, <1>2, <1>3, <1>4, <1>5, <1>6, <1>7 DEF SyncTypes

(***************************************************************************)
(* The variables of the synchronization, cancellation and thread programs  *)
(* keep their types: a lock is 0 or 1 and a room has no more chairs taken  *)
(* than it has, whatever the number of threads and customers.              *)
(***************************************************************************)
THEOREM SyncTypesKept == Spec => []SyncTypes
  BY TypesInit, TypesStep, TypesImplied, PTL DEF Spec

---------------------------------------------------------------------------
(* Nobody waits for ever: in each program somebody has a step until it is  *)
(* over, for any number of threads, items and customers                    *)

\* The work queue: a worker has a step of its own unless it waits for work or
\* for the lock, and has not been asked to stop.
WorkerGoesOn(w) ==
  \/ crew[w] \in {"remove", "taken", "busy", "test"}
  \/ crew[w] = "idle" /\ (work_available > 0 \/ w \in cancel)
  \/ crew[w] = "lock" /\ (work_queue_lock > 0 \/ w \in cancel)

CrewGoesOn ==
  \/ contractor \in {"add", "signal", "look", "cancel"}
  \/ contractor \in {"create", "poll"} /\ work_queue_lock > 0
  \/ contractor = "join" /\ crew[Joined] = "ended"
  \/ \E w \in Crew!Worker : WorkerGoesOn(w)

\* The contractor joins a worker it has asked to stop.
AskedFirst == contractor = "join" => Joined \in cancel

LEMMA AskedFirstStep == CrewInv /\ AskedFirst /\ [Crew!Next]_crew_vars => AskedFirst'
  <1> SUFFICES ASSUME CrewInv, AskedFirst, [Crew!Next]_crew_vars PROVE AskedFirst'
    OBVIOUS
  <1> USE DEF AskedFirst, Joined, Crew!Become
  <1>1. CASE UNCHANGED crew_vars \/ UNCHANGED Crew!vars
    BY <1>1 DEF crew_vars, Crew!vars
  <1>2. ASSUME NEW w \in Crew!Worker, Crew!worker(w) PROVE AskedFirst'
    BY <1>2 DEF Crew!worker, Crew!WaitWork, Crew!LockQueue, Crew!Remove, Crew!Disable,
       Crew!Process, Crew!pthread_testcancel, Crew!Cancelled
  <1>3. CASE Crew!pthread_cancel
    BY <1>3 DEF Crew!pthread_cancel, Crew!Joining
  <1>4. CASE Crew!LockToAdd \/ Crew!Add \/ Crew!Signal \/ Crew!LockToLook \/ Crew!Look
               \/ Crew!pthread_join
    <2>1. contractor' # "join"
      BY <1>4 DEF Crew!LockToAdd, Crew!Add, Crew!Signal, Crew!LockToLook, Crew!Look,
         Crew!pthread_join
    <2> QED BY <2>1
  <1> QED BY <1>1, <1>2, <1>3, <1>4 DEF Crew!Next, Crew!contractor_thread

\* Until the work queue is shut down somebody has a step; and the worker that the
\* contractor joins has ended or has a step of its own, although the contractor
\* keeps the lock of the queue: a worker that waits for it is cancelled there.
THEOREM CrewNeverStuck ==
  Spec => [](/\ Crew!Over \/ CrewGoesOn
             /\ contractor = "join" => crew[Joined] = "ended" \/ WorkerGoesOn(Joined))
  <1>1. Init => AskedFirst
    BY DEF Init, Crew!Init, AskedFirst
  <1>2. [Next]_vars => [Crew!Next]_crew_vars
    BY DEF Next, vars, Runs
  <1>3. CrewInv /\ OneLock /\ AskedFirst =>
          /\ Crew!Over \/ CrewGoesOn
          /\ contractor = "join" => crew[Joined] = "ended" \/ WorkerGoesOn(Joined)
    <2> SUFFICES ASSUME CrewInv, OneLock, AskedFirst
                 PROVE  /\ Crew!Over \/ CrewGoesOn
                        /\ contractor = "join" =>
                             crew[Joined] = "ended" \/ WorkerGoesOn(Joined)
      OBVIOUS
    <2>0. CrewTypes /\ GoingHome
      BY DEF CrewInv
    <2>1. ASSUME contractor = "join"
          PROVE  Joined \in Crew!Worker
                 /\ (crew[Joined] = "ended" \/ WorkerGoesOn(Joined))
      <3>1. Joined \in Crew!Worker
        BY <2>0, <2>1, CrewAssumption DEF GoingHome, CrewTypes, Joined, Crew!Worker
      <3>2. crew[Joined] \in {"idle", "lock", "remove", "taken", "busy", "test", "ended"}
        BY <2>0, <3>1 DEF CrewTypes
      <3> HIDE DEF Joined
      <3> QED BY <2>1, <3>1, <3>2 DEF AskedFirst, WorkerGoesOn
    <2>2. ASSUME contractor \in {"create", "poll"} PROVE CrewGoesOn
      <3>1. CASE work_queue_lock = 0
        <4>1. PICK w \in Crew!Worker : crew[w] = "remove"
          BY <2>2, <3>1 DEF OneLock, Keeping, Taking
        <4> QED BY <4>1 DEF CrewGoesOn, WorkerGoesOn
      <3>2. CASE work_queue_lock = 1
        BY <2>2, <3>2 DEF CrewGoesOn
      <3> QED BY <3>1, <3>2 DEF OneLock
    <2>3. contractor \in {"create", "add", "signal", "poll", "look", "cancel", "join", "end",
                          "crash"}
      BY <2>0 DEF CrewTypes
    <2> QED BY <2>1, <2>2, <2>3 DEF Crew!Over, CrewGoesOn
  <1>4. TypesInv => CrewInv /\ OneLock
    BY DEF TypesInv
  <1> QED BY <1>1, <1>2, <1>3, <1>4, AskedFirstStep, TypesInit, TypesStep, PTL DEF Spec

---------------------------------------------------------------------------
\* The barber shop: main, the barber or a customer has a step.
ShopGoesOn ==
  \/ shop_main = "join" /\ \A c \in Customer : customers[c] = "home"
  \/ shop_main \in {"wake", "destroy"}
  \/ shop_main = "wait" /\ (shop = "thr" => barber_pc = "home")
  \/ barber_pc \in {"while", "test", "cut"}
  \/ barber_pc = "sleep" /\ barber_bed > 0
  \/ \E c \in Customer :
       \/ customers[c] = "door" /\ waiting_room > 0
       \/ customers[c] = "room" /\ barber_seat > 0
       \/ customers[c] \in {"sit", "wake", "getup"}
       \/ customers[c] = "cutting" /\ done_with_customer > 0

\* The barber goes home when it has seen the flag, and a barber that sleeps when
\* main waits for it is woken up.
BarberWoken ==
  /\ barber_pc = "home" => done_with_all_customers
  /\ shop = "thr" /\ shop_main = "wait" /\ barber_pc = "sleep" => barber_bed > 0

LEMMA BarberWokenStep == ShopInv /\ BarberWoken /\ [Shop!Next]_shop_vars => BarberWoken'
  <1> SUFFICES ASSUME ShopInv, BarberWoken, [Shop!Next]_shop_vars PROVE BarberWoken'
    OBVIOUS
  <1>0. /\ done_with_all_customers <=> shop_main # "join"
        /\ barber_bed \in Nat
    BY DEF ShopInv, AllHome, ShopTypes
  <1> USE DEF BarberWoken, Shop!Main, Shop!Barber, Shop!others, Shop!sems
  <1>1. CASE UNCHANGED shop_vars \/ UNCHANGED Shop!vars
    BY <1>1 DEF shop_vars, Shop!vars
  <1>2. ASSUME NEW c \in Customer, Shop!thread_customer(c) PROVE BarberWoken'
    <2>1. barber_bed' \in {barber_bed, barber_bed + 1}
          /\ UNCHANGED <<barber_pc, done_with_all_customers, shop, shop_main>>
      BY <1>2 DEF Shop!thread_customer, Shop!EnterRoom, Shop!Sit, Shop!LeaveRoom,
         Shop!WakeBarber, Shop!HairCut, Shop!GetUp
    <2>2. barber_bed > 0 => barber_bed' > 0
      BY <1>0, <2>1
    <2> QED BY <2>1, <2>2
  <1>3. CASE Shop!barber \/ Shop!thread_barber
    BY <1>0, <1>3 DEF Shop!barber, Shop!thread_barber, Shop!While, Shop!Sleep,
       Shop!TestAgain, Shop!CutHair
  <1>4. CASE Shop!customers_destroy \/ Shop!Return
    BY <1>4 DEF Shop!customers_destroy, Shop!Return
  <1>5. CASE Shop!WakeToGo
    <2>1. barber_bed' > 0
      BY <1>0, <1>5 DEF Shop!WakeToGo
    <2> QED BY <1>5, <2>1 DEF Shop!WakeToGo
  <1>6. CASE Shop!barbershop_destroy
    <2>1. shop = "sem"
      BY <1>6 DEF Shop!barbershop_destroy, ShopInv, ShopTypes
    <2> QED BY <1>6, <2>1 DEF Shop!barbershop_destroy
  <1> QED BY <1>1, <1>2, <1>3, <1>4, <1>5, <1>6 DEF Shop!Next, Shop!main

\* Until main is at its end somebody in the shop has a step: a customer that
\* waits for a chair, the seat or a haircut gets it from one who can go on, and
\* the barber of "thr" does not sleep through the end of the day.
THEOREM ShopNeverStuck == Spec => [](shop_main = "exit" \/ ShopGoesOn)
  <1>1. Init => BarberWoken
    BY DEF Init, Shop!Init, BarberWoken
  <1>2. [Next]_vars => [Shop!Next]_shop_vars
    BY DEF Next, vars, Runs
  <1>3. ShopInv /\ RoomCounted /\ BarberWoken => shop_main = "exit" \/ ShopGoesOn
    <2> SUFFICES ASSUME ShopInv, RoomCounted, BarberWoken, ~ShopGoesOn
                 PROVE  shop_main = "exit"
      OBVIOUS
    <2>0. ShopTypes /\ OneSeated /\ OneToken /\ AllHome
      BY DEF ShopInv
    <2>1. shop_main \in {"join", "wait", "exit"} /\ barber_pc \in {"sleep", "home"}
      BY <2>0 DEF ShopTypes, ShopGoesOn
    <2>2. CASE shop_main = "join"
      <3>1. barber_pc = "sleep" /\ ~(barber_bed > 0) /\ barber_bed \in Nat
        BY <2>0, <2>1, <2>2 DEF BarberWoken, AllHome, ShopGoesOn, ShopTypes
      <3>2. ASSUME NEW c \in Customer, customers[c] = "cutting" PROVE FALSE
        <4>1. barber_bed + InHand + done_with_customer = 1
          BY <2>0, <2>2, <3>2 DEF OneToken, Open
        <4>2. barber_bed = 0 /\ InHand = 0 /\ done_with_customer \in Nat
          BY <2>0, <3>1 DEF InHand, ShopTypes
        <4>3. done_with_customer > 0
          BY <4>1, <4>2
        <4> QED BY <3>2, <4>3 DEF ShopGoesOn
      <3>3. \A c \in Customer : customers[c] \in {"door", "room", "home"}
        BY <2>0, <3>2 DEF ShopTypes, ShopGoesOn
      <3>4. barber_seat = 1
        BY <2>0, <3>3 DEF OneSeated, Seated
      <3>5. \A c \in Customer : customers[c] \in {"door", "home"}
        BY <3>3, <3>4 DEF ShopGoesOn
      <3>6. waiting_room > 0
        <4>1. InRoom = {}
          BY <3>5 DEF InRoom
        <4> QED BY <4>1, FS_EmptySet, ShopAssumption DEF RoomCounted
      <3>7. \A c \in Customer : customers[c] = "home"
        BY <3>5, <3>6 DEF ShopGoesOn
      <3> QED BY <2>2, <3>7 DEF ShopGoesOn
    <2>3. CASE shop_main = "wait"
      <3>1. shop = "thr" /\ barber_pc = "sleep"
        BY <2>0, <2>1, <2>3 DEF ShopGoesOn, ShopTypes
      <3> QED BY <2>3, <3>1 DEF BarberWoken, ShopGoesOn
    <2> QED BY <2>1, <2>2, <2>3
  <1>4. TypesInv => ShopInv /\ RoomCounted
    BY DEF TypesInv
  <1> QED BY <1>1, <1>2, <1>3, <1>4, BarberWokenStep, TypesInit, TypesStep, PTL DEF Spec

---------------------------------------------------------------------------
\* The pipe: main or a producer has a step.
PipeGoesOn ==
  \/ pipe_main \in {"check", "read"}
  \/ pipe_main = "while" /\ ~finished /\ ~main_locked
  \/ pipe_main = "wait" /\ ~waiting /\ ~main_locked
  \/ \E p \in Pipe!Producer :
       producing[p] = "signal" \/ (producing[p] = "write" /\ ~main_locked)

\* Units wait behind a sleeping main only as long as a signal is on its way.
SignalOnItsWay ==
  waiting /\ avail > 0 => \E p \in Pipe!Producer : producing[p] = "signal"

\* main holds its lock in the critical section only, and has not finished when
\* it starts to wait; who has read the last unit knows that there is no other.
MainLocks ==
  /\ pipe_main \in {"while", "check", "wait", "read", "exit"}
  /\ main_locked <=> pipe_main \in {"check", "read"}
  /\ waiting => pipe_main = "wait"
  /\ pipe_main = "wait" => pipe_version = "cv"
  /\ pipe_main = "check" => pipe_version = "cv"
  /\ finished => pipe_main \in {"read", "exit"}
  /\ producers = 0 /\ avail = 0 => finished

WakeInv == SignalOnItsWay /\ MainLocks

LEMMA WakeStep == PipeInv /\ WakeInv /\ [Pipe!Next]_pipe_vars => WakeInv'
  <1> SUFFICES ASSUME PipeInv, WakeInv, [Pipe!Next]_pipe_vars PROVE WakeInv'
    OBVIOUS
  <1>0. /\ avail \in Nat /\ producers \in Nat
        /\ producing \in [Pipe!Producer -> {"write", "signal", "ended"}]
    BY PipeBounds DEF PipeInv, PipeTypes
  <1>1. CASE UNCHANGED pipe_vars \/ UNCHANGED Pipe!vars
    BY <1>1 DEF pipe_vars, Pipe!vars, WakeInv, SignalOnItsWay, MainLocks
  <1>2. ASSUME NEW p \in Pipe!Producer, Pipe!Write(p) PROVE WakeInv'
    <2>1. /\ UNCHANGED <<pipe_version, main_locked, finished, pipe_main, waiting>>
          /\ producing' = [producing EXCEPT ![p] = IF pipe_version = "cv" THEN "signal"
                                                                       ELSE "ended"]
          /\ \/ avail' = avail + 1
             \/ UNCHANGED <<avail, producers>>
      BY <1>2 DEF Pipe!Write, Pipe!main_state
    <2>2. avail' > 0 \/ UNCHANGED <<avail, producers>>
      BY <1>0, <2>1
    <2>3. MainLocks'
      <3>1. producers' = 0 /\ avail' = 0 => finished'
        BY <1>0, <2>1, <2>2 DEF WakeInv, MainLocks
      <3> QED BY <2>1, <3>1 DEF WakeInv, MainLocks
    <2>4. ASSUME waiting' PROVE producing'[p] = "signal"
      <3>1. pipe_version = "cv"
        BY <2>1, <2>4 DEF WakeInv, MainLocks
      <3> QED BY <1>0, <2>1, <3>1
    <2> QED BY <2>3, <2>4 DEF WakeInv, SignalOnItsWay
  <1>3. ASSUME NEW p \in Pipe!Producer, Pipe!Signal(p) PROVE WakeInv'
    BY <1>3 DEF Pipe!Signal, Pipe!main_state, WakeInv, SignalOnItsWay, MainLocks
  <1>4. CASE Pipe!LockMain \/ Pipe!CondWait \/ Pipe!Relock \/ Pipe!UnlockMain
    <2> USE DEF WakeInv, MainLocks
    <2>1. CASE Pipe!LockMain \/ Pipe!Relock
      BY <2>1 DEF Pipe!LockMain, Pipe!Relock, Pipe!Main, SignalOnItsWay
    <2>2. CASE Pipe!CondWait
      <3>1. CASE avail = 0
        BY <1>0, <2>2, <3>1 DEF Pipe!CondWait, Pipe!Main, SignalOnItsWay
      <3>2. CASE avail # 0
        BY <1>0, <2>2, <3>2 DEF Pipe!CondWait, Pipe!Main, SignalOnItsWay
      <3> QED BY <3>1, <3>2
    <2>3. CASE Pipe!UnlockMain
      BY <2>3 DEF Pipe!UnlockMain, Pipe!Main, SignalOnItsWay
    <2> QED BY <1>4, <2>1, <2>2, <2>3
  <1>5. CASE Pipe!Read
    <2>1. /\ pipe_main = "read" /\ finished' = (finished \/ producers = 0)
          /\ UNCHANGED <<pipe_main, main_locked, waiting, pipe_version, producers>>
      BY <1>5 DEF Pipe!Read, Pipe!Main
    <2>2. ~waiting' /\ MainLocks'
      BY <2>1 DEF WakeInv, MainLocks
    <2> QED BY <2>2 DEF WakeInv, SignalOnItsWay
  <1>6. CASE Pipe!SpuriousWakeup
    BY <1>6 DEF Pipe!SpuriousWakeup, WakeInv, SignalOnItsWay, MainLocks
  <1> QED BY <1>1, <1>2, <1>3, <1>4, <1>5, <1>6 DEF Pipe!Next, Pipe!main, Pipe!producer

\* No signal is lost in 05-pc_cv.c, although it is sent after the unlock: main
\* sleeps while there is work only as long as somebody has yet to signal.  And
\* until the program is over somebody has a step, without spurious wakeups.
THEOREM PipeNeverStuck == Spec => [](SignalOnItsWay /\ (Pipe!Over \/ PipeGoesOn))
  <1>1. Init => WakeInv
    <2> SUFFICES ASSUME Init PROVE WakeInv
      OBVIOUS
    <2>1. /\ avail = 0 /\ producers = NUM_PRODUCERS /\ main_locked = FALSE
          /\ waiting = FALSE /\ finished = FALSE /\ pipe_main = "while"
      BY DEF Init, Pipe!Init
    <2>2. producers # 0
      BY <2>1, PipeAssumption
    <2> QED BY <2>1, <2>2 DEF WakeInv, SignalOnItsWay, MainLocks
  <1>2. [Next]_vars => [Pipe!Next]_pipe_vars
    BY DEF Next, vars, Runs
  <1>3. PipeInv /\ WakeInv => SignalOnItsWay /\ (Pipe!Over \/ PipeGoesOn)
    <2> SUFFICES ASSUME PipeInv, WakeInv, ~PipeGoesOn PROVE Pipe!Over
      BY DEF WakeInv
    <2>0. PipeTypes /\ CountsRight /\ SignalOnItsWay /\ MainLocks
      BY DEF PipeInv, WakeInv
    <2>1. pipe_main = "exit" \/ (pipe_main = "wait" /\ waiting)
      BY <2>0 DEF MainLocks, PipeGoesOn
    <2>2. CASE waiting
      <3>1. ~main_locked /\ ~finished
        BY <2>0, <2>2 DEF MainLocks
      <3>2. \A p \in Pipe!Producer : producing[p] = "ended"
        BY <2>0, <3>1 DEF PipeGoesOn, PipeTypes
      <3>3. avail = 0
        <4>1. ~(avail > 0)
          BY <2>0, <2>2, <3>2 DEF SignalOnItsWay
        <4> QED BY <4>1, PipeBounds
      <3>4. producers # 0
        BY <2>0, <3>1, <3>3 DEF MainLocks
      <3>5. dropped # {}
        <4> SUFFICES ASSUME dropped = {} PROVE FALSE
          OBVIOUS
        <4>1. Written = Pipe!Producer
          BY <3>2 DEF Written
        <4>2. Cardinality(Written) = NUM_PRODUCERS
          BY <4>1, PipeAssumption, FS_Interval DEF Pipe!Producer
        <4> QED BY <2>0, <3>4, <4>2, PipeAssumption DEF CountsRight
      <3> QED BY <2>2, <3>2, <3>5 DEF Pipe!Over
    <2> QED BY <2>1, <2>2 DEF Pipe!Over
  <1>4. TypesInv => PipeInv
    BY DEF TypesInv
  <1> QED BY <1>1, <1>2, <1>3, <1>4, WakeStep, TypesInit, TypesStep, PTL DEF Spec

---------------------------------------------------------------------------
\* The threads that wait for a change: the signalling thread or a waiting one
\* has a step.
WaiterGoesOn(w) ==
  \/ waiters[w] \in {"test", "report"}
  \/ waiters[w] \in {"lock", "relock"} /\ signal_mutex = {}
  \/ waiters[w] = "blocked" /\ w \notin blocked /\ signal_mutex = {}
  \/ waiters[w] = "sem_wait" /\ semaphore > 0

SignalGoesOn ==
  \/ signaller = "sleep" /\ signal_mutex = {}
  \/ signaller = "post"
  \/ \E w \in Signal!Waiter : WaiterGoesOn(w)

\* After the change nobody is left behind in pthread_cond_wait: all have been
\* woken up, or ("cv") somebody is awake that will wake the next.
Awake(w) == waiters[w] # "end" /\ w \notin blocked
NobodyLeftBehind ==
  value = 1 /\ blocked # {} =>
    signal_version = "cv" /\ \E w \in Signal!Waiter : Awake(w)

\* Who waits where, and who has the mutex.
WaitsKnown ==
  /\ \A w \in Waiting_thread \ Signal!Waiter : waiters[w] = "end"
  /\ \A w \in blocked : waiters[w] = "blocked"
  /\ \A w \in Waiting_thread :
       /\ waiters[w] \in {"test", "report"} => signal_mutex = {w}
       /\ w \in signal_mutex => waiters[w] \in {"test", "report", "relock"}
       /\ waiters[w] = "relock" => signal_version = "sem"
       /\ waiters[w] = "sem_wait" =>
            /\ signal_version \in {"sem", "loop"}
            /\ signaller = "end" => semaphore = 1

WaitInv == NobodyLeftBehind /\ WaitsKnown

LEMMA WaitersAlone ==
  ASSUME signal_version \notin {"v2", "cv"}
  PROVE  Signal!Waiter = {Signal!Main}
  BY DEF Signal!Waiter

LEMMA WaitStepWaiter ==
  ASSUME SignalInv, WaitInv, NEW w \in Signal!Waiter, Signal!waiter(w)
  PROVE  WaitInv'
  <1> USE DEF Signal!rest, Signal!Goto, Signal!pthread_mutex_lock,
              Signal!pthread_mutex_unlock, Signal!Free
  <1>0. /\ SignalTypes /\ ChangedOnce /\ LetThrough /\ NobodyLeftBehind /\ WaitsKnown
        /\ w \in Waiting_thread
    BY MainWaits DEF SignalInv, WaitInv
  <1>1. /\ UNCHANGED <<signal_version, value, signaller>>
        /\ Signal!Waiter' = Signal!Waiter
        /\ \A v \in Waiting_thread \ {w} : waiters'[v] = waiters[v]
    <2>1. /\ UNCHANGED <<signal_version, value, signaller>>
          /\ waiters' = [waiters EXCEPT ![w] = waiters'[w]]
      BY <1>0 DEF SignalTypes, Signal!waiter, Signal!waiting_thread, Signal!main_sem,
         Signal!main_loop, Signal!Lock, Signal!Test_cond, Signal!Test_sem, Signal!Test_loop,
         Signal!SemWait, Signal!LockAgain, Signal!CondWaitReturns, Signal!Report
    <2> QED BY <1>0, <2>1 DEF SignalTypes, Signal!Waiter
  <1>2. \/ Signal!Lock(w) \/ Signal!Report(w) \/ Signal!Test_cond(w)
        \/ Signal!CondWaitReturns(w)
        \/ signal_version \in {"sem", "loop"} /\ Signal!SemWait(w)
        \/ Signal!Test_sem(w) \/ Signal!Test_loop(w)
        \/ signal_version = "sem" /\ Signal!LockAgain(w)
    BY DEF Signal!waiter, Signal!waiting_thread, Signal!main_sem, Signal!main_loop
  <1>3. WaitsKnown'
    <2> USE <1>0, <1>1 DEF WaitsKnown, SignalTypes, ChangedOnce
    <2>1. CASE Signal!Lock(w)
      BY <2>1 DEF Signal!Lock
    <2>2. CASE Signal!Report(w)
      BY <2>2 DEF Signal!Report
    <2>3. CASE Signal!Test_cond(w)
      BY <2>3 DEF Signal!Test_cond
    <2>4. CASE Signal!CondWaitReturns(w)
      BY <2>4 DEF Signal!CondWaitReturns
    <2>5. CASE signal_version \in {"sem", "loop"} /\ Signal!SemWait(w)
      <3>1. \A v \in Waiting_thread \ {w} : waiters[v] # "sem_wait"
        BY <2>5, WaitersAlone DEF Signal!SemWait
      <3> QED BY <2>5, <3>1 DEF Signal!SemWait
    <2>6. CASE Signal!Test_sem(w)
      BY <2>6 DEF Signal!Test_sem
    <2>7. CASE Signal!Test_loop(w)
      BY <2>7 DEF Signal!Test_loop
    <2>8. CASE signal_version = "sem" /\ Signal!LockAgain(w)
      BY <2>8 DEF Signal!LockAgain
    <2> QED BY <1>2, <2>1, <2>2, <2>3, <2>4, <2>5, <2>6, <2>7, <2>8
  <1>4. NobodyLeftBehind'
    <2>1. CASE Signal!Report(w) /\ signal_version = "cv" /\ blocked # {}
      <3>1. PICK v \in blocked : blocked' = blocked \ {v}
        BY <2>1 DEF Signal!Report
      <3>2. v \in Signal!Waiter /\ waiters[v] = "blocked" /\ v # w
        BY <1>0, <2>1, <3>1 DEF WaitsKnown, SignalTypes, Signal!Report
      <3>3. waiters'[v] = "blocked" /\ v \notin blocked'
        BY <1>0, <1>1, <3>1, <3>2 DEF SignalTypes
      <3> QED BY <1>1, <2>1, <3>2, <3>3 DEF NobodyLeftBehind, Awake
    <2>2. CASE value = 1 /\ ~(Signal!Report(w) /\ signal_version = "cv" /\ blocked # {})
      <3>1. blocked' = blocked
        BY <1>2, <2>2 DEF Signal!Lock, Signal!Report, Signal!Test_cond,
           Signal!CondWaitReturns, Signal!SemWait, Signal!Test_sem, Signal!Test_loop,
           Signal!LockAgain
      <3>2. ASSUME blocked # {} PROVE waiters'[w] # "end"
        <4>1. signal_version = "cv" /\ ~Signal!Report(w)
          BY <1>0, <2>2, <3>2 DEF NobodyLeftBehind
        <4> QED BY <1>0, <1>2, <4>1 DEF SignalTypes, Signal!Lock, Signal!Test_cond,
           Signal!CondWaitReturns, Signal!Test_sem, Signal!Test_loop
      <3>3. \A v \in Signal!Waiter : v \in Waiting_thread
        BY MainWaits
      <3> QED BY <1>0, <1>1, <3>1, <3>2, <3>3 DEF NobodyLeftBehind, Awake
    <2>3. CASE value # 1
      BY <1>1, <2>3 DEF NobodyLeftBehind
    <2> QED BY <2>1, <2>2, <2>3
  <1> QED BY <1>3, <1>4 DEF WaitInv

LEMMA WaitInvStep == SignalInv /\ WaitInv /\ [Signal!Next]_signal_vars => WaitInv'
  <1> SUFFICES ASSUME SignalInv, WaitInv, [Signal!Next]_signal_vars PROVE WaitInv'
    OBVIOUS
  <1>0. SignalTypes /\ ChangedOnce /\ LetThrough /\ NobodyLeftBehind /\ WaitsKnown
    BY DEF SignalInv, WaitInv
  <1>1. CASE UNCHANGED signal_vars \/ UNCHANGED Signal!vars
    BY <1>1 DEF signal_vars, Signal!vars, WaitInv, NobodyLeftBehind, WaitsKnown, Awake,
       Signal!Waiter
  <1>2. ASSUME NEW w \in Signal!Waiter, Signal!waiter(w) PROVE WaitInv'
    BY <1>2, WaitStepWaiter
  <1>3. ASSUME NEW w \in Signal!Waiter, Signal!SpuriousWakeup(w) PROVE WaitInv'
    <2>1. /\ w \in blocked /\ blocked' = blocked \ {w}
          /\ UNCHANGED <<signal_version, value, signal_mutex, semaphore, waiters, signaller>>
          /\ Signal!Waiter' = Signal!Waiter
      BY <1>3 DEF Signal!SpuriousWakeup, Signal!Waiter
    <2>2. WaitsKnown'
      BY <1>0, <2>1 DEF WaitsKnown
    <2>3. NobodyLeftBehind'
      BY <1>0, <2>1 DEF NobodyLeftBehind, Awake
    <2> QED BY <2>2, <2>3 DEF WaitInv
  <1>4. CASE Signal!signal_thread
    <2>1. UNCHANGED <<signal_version, signal_mutex, waiters>> /\ Signal!Waiter' = Signal!Waiter
      BY <1>4 DEF Signal!signal_thread, Signal!my_thread, Signal!signalling_thread,
         Signal!sem_thread, Signal!SetAndSignal, Signal!SetAndBroadcast, Signal!SetThenPost,
         Signal!SemPost, Signal!Waiter
    <2>2. CASE /\ signal_version \notin {"v1", "v2", "cv"}
               /\ Signal!SetThenPost \/ Signal!SemPost
      <3>1. blocked = {} /\ blocked' = blocked
        BY <1>0, <2>2 DEF WaitsKnown, LetThrough, SignalTypes, Signal!SetThenPost,
           Signal!SemPost
      <3>2. WaitsKnown'
        BY <1>0, <2>1, <2>2, <3>1 DEF WaitsKnown, ChangedOnce, Signal!SetThenPost,
           Signal!SemPost
      <3> QED BY <3>1, <3>2 DEF WaitInv, NobodyLeftBehind
    <2>3. CASE signal_version = "v2" /\ Signal!SetAndBroadcast
      <3>1. blocked' = {}
        BY <2>3 DEF Signal!SetAndBroadcast
      <3>2. WaitsKnown'
        BY <1>0, <2>1, <2>3, <3>1 DEF WaitsKnown
      <3> QED BY <3>1, <3>2 DEF WaitInv, NobodyLeftBehind
    <2>4. CASE signal_version \in {"v1", "cv"} /\ Signal!SetAndSignal
      <3>1. WaitsKnown'
        BY <1>0, <2>1, <2>4 DEF WaitsKnown, Signal!SetAndSignal
      <3>2. CASE blocked = {}
        BY <2>4, <3>1, <3>2 DEF WaitInv, NobodyLeftBehind, Signal!SetAndSignal
      <3>3. CASE blocked # {}
        <4>1. PICK w \in blocked : blocked' = blocked \ {w}
          BY <2>4, <3>3 DEF Signal!SetAndSignal
        <4>2. w \in Signal!Waiter /\ waiters[w] = "blocked"
          BY <1>0, <4>1 DEF WaitsKnown, SignalTypes
        <4>3. CASE signal_version = "v1"
          <5>1. blocked \subseteq {Signal!Main}
            BY <1>0, <4>3, WaitersAlone DEF WaitsKnown, SignalTypes
          <5> QED BY <3>1, <4>1, <5>1 DEF WaitInv, NobodyLeftBehind
        <4>4. CASE signal_version = "cv"
          BY <2>1, <3>1, <4>1, <4>2, <4>4 DEF WaitInv, NobodyLeftBehind, Awake
        <4> QED BY <2>4, <4>3, <4>4
      <3> QED BY <3>2, <3>3
    <2>5. /\ signal_version \in {"v1", "cv"} => Signal!SetAndSignal
          /\ signal_version = "v2" => Signal!SetAndBroadcast
          /\ signal_version \notin {"v1", "v2", "cv"} => Signal!SetThenPost \/ Signal!SemPost
      BY <1>4 DEF Signal!signal_thread, Signal!my_thread, Signal!signalling_thread,
         Signal!sem_thread
    <2> QED BY <2>2, <2>3, <2>4, <2>5
  <1> QED BY <1>1, <1>2, <1>3, <1>4 DEF Signal!Next

\* In none of the five programs is the signal lost: after the change nobody is
\* left in pthread_cond_wait without somebody awake to wake them, and until all
\* are joined somebody has a step, without spurious wakeups; the one exception
\* is the main of "sem" that waits for the mutex it holds.
THEOREM SignalNeverStuck ==
  Spec => [](/\ NobodyLeftBehind
             /\ Signal!Joined \/ Signal!SelfLocked \/ SignalGoesOn)
  <1>1. Init => WaitInv
    BY DEF Init, Signal!Init, WaitInv, NobodyLeftBehind, WaitsKnown, Signal!Waiter,
       Signal!Free
  <1>2. [Next]_vars => [Signal!Next]_signal_vars
    BY DEF Next, vars, Runs
  <1>3. SignalInv /\ WaitInv => Signal!Joined \/ Signal!SelfLocked \/ SignalGoesOn
    <2> SUFFICES ASSUME SignalInv, WaitInv, ~SignalGoesOn
                 PROVE  Signal!Joined \/ Signal!SelfLocked
      OBVIOUS
    <2>0. SignalTypes /\ ChangedOnce /\ LetThrough /\ NobodyLeftBehind /\ WaitsKnown
      BY DEF SignalInv, WaitInv
    <2>1. CASE signal_mutex # {}
      <3>1. PICK w \in Waiting_thread : signal_mutex = {w}
        BY <2>0, <2>1 DEF SignalTypes
      <3>2. w \in Signal!Waiter
        BY <2>0, <3>1 DEF WaitsKnown
      <3>3. waiters[w] = "relock" /\ signal_version = "sem"
        BY <2>0, <3>1, <3>2 DEF WaitsKnown, SignalGoesOn, WaiterGoesOn
      <3>4. w = Signal!Main
        BY <3>2, <3>3, WaitersAlone
      <3>5. signaller = "end"
        BY <2>0, <3>1, <3>3 DEF LetThrough, ChangedOnce, SignalTypes, SignalGoesOn
      <3> QED BY <3>1, <3>3, <3>4, <3>5 DEF Signal!SelfLocked
    <2>2. CASE signal_mutex = {}
      <3>1. signaller = "end" /\ value = 1
        BY <2>0, <2>2 DEF SignalGoesOn, SignalTypes, ChangedOnce
      <3>2. ASSUME NEW w \in Signal!Waiter
            PROVE  waiters[w] = "end" \/ (waiters[w] = "blocked" /\ w \in blocked)
        <4>1. w \in Waiting_thread
          BY MainWaits
        <4>2. waiters[w] = "sem_wait" => semaphore > 0
          <5>1. waiters[w] = "sem_wait" => semaphore = 1
            BY <2>0, <3>1, <4>1 DEF WaitsKnown
          <5> QED BY <5>1
        <4>3. waiters[w] \in {"end", "blocked"}
          BY <2>0, <2>2, <4>1, <4>2 DEF SignalTypes, SignalGoesOn, WaiterGoesOn
        <4> QED BY <2>2, <4>3 DEF SignalGoesOn, WaiterGoesOn
      <3>3. blocked = {}
        BY <2>0, <3>1, <3>2 DEF NobodyLeftBehind, Awake
      <3> QED BY <3>1, <3>2, <3>3 DEF Signal!Joined
    <2> QED BY <2>1, <2>2
  <1>4. TypesInv => SignalInv
    BY DEF TypesInv
  <1>5. WaitInv => NobodyLeftBehind
    BY DEF WaitInv
  <1> QED BY <1>1, <1>2, <1>3, <1>4, <1>5, WaitInvStep, TypesInit, TypesStep, PTL DEF Spec
---------------------------------------------------------------------------
(* The threads that add something up *)

Adding(t) == adding[t] \in {"read", "write", "unlock"}

\* The threads that run: the counters have two.
Running(t) == Dot!Counting => t \in {0, 1}

\* Who holds the mutex runs and is about to give it back.
HoldersAdd ==
  /\ \A t \in mutex_for_sum : Adding(t) /\ Running(t)
  /\ Dot!Counting => \A t \in Dot!Tid : adding[t] # "compute"

LEMMA HoldersAddStep == ASSUME DotInv, HoldersAdd, [Dot!Next]_dot_vars PROVE HoldersAdd'
  <1> USE DEF HoldersAdd, Adding, Running, Dot!Counting
  <1>0. DotTypes
    BY DEF DotInv
  <1>1. ASSUME NEW t \in Dot!Tid, Dot!thread(t) PROVE HoldersAdd'
    <2>1. /\ Dot!Compute_v1(t) \/ Dot!Compute_v2(t) \/ Dot!Lock(t) \/ Dot!Read(t)
             \/ Dot!Write(t) \/ Dot!Unlock(t)
          /\ Running(t)
      BY <1>0, <1>1 DEF DotTypes, Dot!Version, Dot!thread, Dot!dot_product_v1, Dot!dot_product,
         Dot!thread_nomutex, Dot!thread_mutex
    <2>2. CASE Dot!Compute_v1(t) \/ Dot!Compute_v2(t)
      BY <1>0, <2>2 DEF DotTypes, Dot!Compute_v1, Dot!Compute_v2, Dot!Goto, Dot!main_state
    <2>3. CASE Dot!Lock(t)
      BY <1>0, <2>1, <2>3 DEF DotTypes, Dot!Lock, Dot!Goto, Dot!main_state
    <2>4. CASE Dot!Read(t)
      BY <1>0, <2>4 DEF DotTypes, Dot!Read, Dot!Goto, Dot!main_state
    <2>5. CASE Dot!Write(t)
      BY <1>0, <2>5 DEF DotTypes, Dot!Write, Dot!Goto, Dot!main_state
    <2>6. CASE Dot!Unlock(t)
      BY <1>0, <2>6 DEF DotTypes, Dot!Unlock, Dot!Goto, Dot!main_state
    <2> QED BY <2>1, <2>2, <2>3, <2>4, <2>5, <2>6
  <1>2. CASE Dot!Join
    BY <1>2 DEF Dot!Join
  <1>3. CASE UNCHANGED dot_vars
    BY <1>3 DEF dot_vars
  <1> QED BY <1>1, <1>2, <1>3 DEF Dot!Next, Dot!vars, dot_vars

\* What a thread, and main, need to go on.
AdderGoesOn(t) ==
  /\ Running(t)
  /\ \/ Adding(t)
     \/ adding[t] = "compute" /\ ~Dot!Counting
     \/ adding[t] = "lock" /\ (dot_version = "nomutex" \/ mutex_for_sum = {})

\* Until main is at its end a thread has a step or they have all ended and main
\* adds up: a thread that waits for the mutex waits for one that can go on.
THEOREM SumNeverStuck ==
  Spec => [](dot_main = "end" \/ Dot!Ended \/ \E t \in Dot!Tid : AdderGoesOn(t))
  <1>1. Init => HoldersAdd
    BY DEF Init, Dot!Init, HoldersAdd, Dot!Counting
  <1>2. [Next]_vars => [Dot!Next]_dot_vars
    BY DEF Next, vars, Runs
  <1>3. DotInv /\ HoldersAdd => Dot!Ended \/ \E t \in Dot!Tid : AdderGoesOn(t)
    <2> SUFFICES ASSUME DotInv, HoldersAdd, ~Dot!Ended
                 PROVE  \E t \in Dot!Tid : AdderGoesOn(t)
      OBVIOUS
    <2>0. DotTypes
      BY DEF DotInv
    <2>1. PICK t \in Dot!Tid : adding[t] # "end" /\ Running(t)
      BY DEF Dot!Ended, Running
    <2>2. CASE mutex_for_sum = {} \/ adding[t] # "lock"
      BY <2>0, <2>1, <2>2 DEF DotTypes, HoldersAdd, AdderGoesOn, Adding
    <2>3. CASE mutex_for_sum # {}
      <3>1. PICK u \in Dot!Tid : u \in mutex_for_sum
        BY <2>0, <2>3 DEF DotTypes
      <3> QED BY <3>1 DEF HoldersAdd, AdderGoesOn
    <2> QED BY <2>2, <2>3
  <1>4. TypesInv => DotInv
    BY DEF TypesInv
  <1> QED BY <1>1, <1>2, <1>3, <1>4, HoldersAddStep, TypesInit, TypesStep, PTL DEF Spec
=============================================================================
