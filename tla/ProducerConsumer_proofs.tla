---------------------- MODULE ProducerConsumer_proofs ----------------------
(***************************************************************************)
(* However large the buffer and however many items: the circular buffer    *)
(* and its two flags are a bounded queue.                                  *)
(***************************************************************************)
EXTENDS ProducerConsumer, SequenceTheorems, TLAPS

\* The lock is held by the side that tests its flag, and by no other.
LockHeld == \A s \in Side : lock = s <=> pc[s] = "test"

\* The indices meet when the buffer is full or empty, and only then.
FlagsTell == /\ head = tail <=> full \/ empty
             /\ ~(full /\ empty)

\* A side that has yet to signal is still in its turn of the loop.
TurnsLeft == \A s \in Side : pc[s] # "lock" => i[s] < NUM_ITEMS

\* The consumer has got one item in every turn.
ItemTold == item = i["consumer"] + (IF pc["consumer"] = "signal" THEN 1 ELSE 0)

\* Where the k-th oldest item is.
Slot(k) == IF head + k - 1 < QUEUE_SIZE THEN head + k - 1 ELSE head + k - 1 - QUEUE_SIZE

\* The buffer holds what has been put and not been got, in order.
BufferInOrder == /\ Sent - item = Count
                 /\ \A k \in 1 .. Count : buffer[Slot(k)] = item + k

QueueInv == LockHeld /\ FlagsTell /\ TurnsLeft /\ ItemTold /\ BufferInOrder

IInv == TypeOK /\ QueueInv

---------------------------------------------------------------------------
LEMMA InitIInv == Init => IInv
  <1> SUFFICES ASSUME Init PROVE IInv
    OBVIOUS
  <1> USE QueueAssumption, LibraryAssumption DEF Init, create_queue, Side, Item
  <1>1. TypeOK
    <2>1. buffer \in [0 .. QUEUE_SIZE - 1 -> Item \union {0}]
      OBVIOUS
    <2>2. full \in BOOLEAN /\ empty \in BOOLEAN
      BY Zenon
    <2> QED BY <2>1, <2>2 DEF TypeOK
  <1>2. LockHeld /\ FlagsTell /\ TurnsLeft
    BY DEF LockHeld, FlagsTell, TurnsLeft
  <1>3. ItemTold /\ BufferInOrder
    BY DEF ItemTold, BufferInOrder, Sent, Count, Slot
  <1> QED BY <1>1, <1>2, <1>3 DEF IInv, QueueInv

\* add_to_queue keeps what is in the buffer and puts the next item behind it.
LEMMA ProduceStep ==
  ASSUME IInv, Produce
  PROVE  /\ IInv' /\ item' = item
         /\ Count' = Count + 1 /\ Sent' = Sent + 1 /\ Sent < NUM_ITEMS
  <1> USE QueueAssumption DEF IInv, TypeOK, QueueInv, Side, Item, Produce, Goto,
          add_to_queue, After
  <1>1. /\ i["producer"] < NUM_ITEMS
        /\ Sent = i["producer"] /\ Sent' = Sent + 1
    BY DEF TurnsLeft, Sent
  <1>2. TypeOK'
    <2>1. full' \in BOOLEAN /\ empty' \in BOOLEAN
      BY Zenon
    <2>2. buffer' \in [0 .. QUEUE_SIZE - 1 -> Item \union {0}]
      BY <1>1
    <2>3. tail' \in 0 .. QUEUE_SIZE - 1
      OBVIOUS
    <2> QED BY <2>1, <2>2, <2>3
  <1>3. LockHeld' /\ TurnsLeft'
    BY DEF LockHeld, TurnsLeft
  <1>4. FlagsTell'
    BY DEF FlagsTell
  <1>5. ItemTold'
    BY DEF ItemTold
  <1>6. Count' = Count + 1
    <2>1. ~full /\ (full' <=> tail' = head)
      BY Zenon
    <2>2. Count = IF head <= tail THEN tail - head ELSE tail + QUEUE_SIZE - head
      BY <2>1 DEF Count
    <2> QED BY <2>1, <2>2 DEF Count, FlagsTell
  <1>7. BufferInOrder'
    <2>1. Count \in 0 .. QUEUE_SIZE - 1 /\ tail = Slot(Count + 1)
      BY DEF Count, FlagsTell, Slot
    <2>2. ASSUME NEW k \in 1 .. Count PROVE buffer'[Slot(k)] = item + k
      <3>1. Slot(k) \in 0 .. QUEUE_SIZE - 1 /\ Slot(k) # tail
        BY <2>1 DEF Slot
      <3> QED BY <3>1 DEF BufferInOrder
    <2>3. buffer'[Slot(Count + 1)] = item + Count + 1
      <3>1. buffer'[tail] = Sent + 1
        BY <1>1
      <3>2. Sent \in Int /\ item \in Int
        BY <1>1
      <3> QED BY <2>1, <3>1, <3>2 DEF BufferInOrder
    <2>4. \A k : Slot(k)' = Slot(k)
      BY DEF Slot
    <2>5. Sent' - item' = Count'
      <3>1. /\ Sent \in Int /\ item \in Int /\ item' = item
            /\ Sent - item = Count
        BY <1>1 DEF BufferInOrder
      <3> HIDE QueueAssumption DEF IInv, TypeOK, QueueInv, Side, Item, Produce, Goto,
            add_to_queue, After
      <3> QED BY <1>1, <1>6, <3>1
    <2>6. ASSUME NEW k \in 1 .. Count' PROVE buffer'[Slot(k)'] = item' + k
      <3>1. item' = item /\ Slot(k)' = Slot(k)
        BY <2>4
      <3>2. k \in 1 .. Count \/ k = Count + 1
        BY <1>6, <2>1
      <3>3. CASE k \in 1 .. Count
        BY <2>2, <3>1, <3>3
      <3>4. CASE k = Count + 1
        BY <2>1, <2>3, <3>1, <3>4
      <3> QED BY <3>2, <3>3, <3>4
    <2> QED BY <2>5, <2>6 DEF BufferInOrder
  <1> QED BY <1>1, <1>2, <1>3, <1>4, <1>5, <1>6, <1>7

\* remove_from_queue returns the oldest item.
LEMMA ConsumeStep ==
  ASSUME IInv, Consume
  PROVE  IInv' /\ Count' = Count - 1 /\ item' = item + 1 /\ Sent' = Sent
  <1> USE QueueAssumption DEF IInv, TypeOK, QueueInv, Side, Item, Consume, Goto,
          remove_from_queue, After
  <1>1. Count \in 1 .. QUEUE_SIZE /\ Count' = Count - 1
    BY DEF Count, FlagsTell
  <1>2. item' = item + 1
    <2>1. 1 \in 1 .. Count /\ Slot(1) = head
      BY <1>1 DEF Slot
    <2>2. buffer[Slot(1)] = item + 1
      BY <2>1 DEF BufferInOrder
    <2> QED BY <2>1, <2>2
  <1>3. TypeOK'
    <2>1. full' \in BOOLEAN /\ empty' \in BOOLEAN
      BY Zenon
    <2>2. head' \in 0 .. QUEUE_SIZE - 1
      OBVIOUS
    <2>3. item' \in Item \union {0}
      BY <2>2
    <2> QED BY <2>1, <2>2, <2>3
  <1>4. LockHeld' /\ TurnsLeft'
    BY DEF LockHeld, TurnsLeft
  <1>5. FlagsTell'
    BY DEF FlagsTell
  <1>6. ItemTold'
    BY <1>2 DEF ItemTold
  <1>8. Sent' = Sent
    BY DEF Sent
  <1>7. BufferInOrder'
    <2>2. ASSUME NEW k \in 1 .. Count - 1
          PROVE  Slot(k)' = Slot(k + 1) /\ Slot(k)' \in 0 .. QUEUE_SIZE - 1
      BY <1>1 DEF Slot
    <2>3. Sent \in Int /\ item \in Int
      BY DEF Sent
    <2> QED BY <1>1, <1>2, <1>8, <2>2, <2>3 DEF BufferInOrder
  <1> QED BY <1>1, <1>2, <1>3, <1>4, <1>5, <1>6, <1>7, <1>8

\* pthread_cond_signal changes nothing but the positions and the turn.
LEMMA SignalStep ==
  ASSUME IInv, NEW s \in Side, Signal(s)
  PROVE  IInv' /\ Sent' = Sent
  <1> USE QueueAssumption DEF IInv, TypeOK, QueueInv, Side, Item, Signal, Other, queue
  <1>1. TypeOK'
    BY DEF TurnsLeft
  <1>2. Sent' = Sent
    BY DEF Sent
  <1>3. LockHeld'
    BY DEF LockHeld
  <1>4. FlagsTell' /\ TurnsLeft' /\ ItemTold'
    BY DEF FlagsTell, TurnsLeft, ItemTold
  <1>5. BufferInOrder'
    BY <1>2 DEF BufferInOrder, Count, Slot
  <1> QED BY <1>1, <1>2, <1>3, <1>4, <1>5

\* Waiting and taking the lock move no item.
LEMMA WaitStep ==
  ASSUME IInv, NEW s \in Side,
         NEW from \in {"lock", "test", "wait", "woken"},
         NEW to \in {"lock", "test", "wait", "woken"},
         Goto(s, from, to), UNCHANGED <<queue, i, item>>
  PROVE  FlagsTell' /\ ItemTold' /\ BufferInOrder'
  <1> USE DEF IInv, TypeOK, QueueInv, Side, Goto, queue
  <1>1. \A t \in Side : pc'[t] = "signal" <=> pc[t] = "signal"
    OBVIOUS
  <1>2. Sent' = Sent /\ Count' = Count /\ \A k : Slot(k)' = Slot(k)
    BY <1>1 DEF Sent, Count, Slot
  <1>3. FlagsTell'
    BY DEF FlagsTell
  <1>4. ItemTold'
    BY <1>1 DEF ItemTold
  <1>5. BufferInOrder'
    <2>1. UNCHANGED <<buffer, item>> /\ BufferInOrder
      OBVIOUS
    <2> HIDE DEF IInv, TypeOK, QueueInv, Side, Goto, queue
    <2> QED BY <1>2, <2>1 DEF BufferInOrder
  <1> QED BY <1>3, <1>4, <1>5

LEMMA Step == IInv /\ [Next]_vars => IInv'
  <1> SUFFICES ASSUME IInv, [Next]_vars PROVE IInv'
    OBVIOUS
  <1>1. CASE UNCHANGED vars \/ Joined
    <2>1. UNCHANGED <<buffer, head, tail, full, empty, lock, i, item, spurious, pc>>
      BY <1>1, Zenon DEF Joined, vars, queue
    <2>2. TypeOK'
      BY <2>1, Zenon DEF IInv, TypeOK
    <2>3. LockHeld' /\ FlagsTell' /\ TurnsLeft' /\ ItemTold'
      BY <2>1, Zenon DEF IInv, QueueInv, LockHeld, FlagsTell, TurnsLeft, ItemTold
    <2>4. Sent' = Sent /\ Count' = Count /\ \A k : Slot(k)' = Slot(k)
      BY <2>1, Zenon DEF Sent, Count, Slot
    <2>5. BufferInOrder'
      BY <2>1, <2>4, Zenon DEF IInv, QueueInv, BufferInOrder
    <2> QED BY <2>2, <2>3, <2>5 DEF IInv, QueueInv
  <1>t. TypeOK /\ LockHeld /\ TurnsLeft
    BY DEF IInv, QueueInv
  <1>2. ASSUME NEW s \in Side, Lock(s) PROVE IInv'
    <2>1. FlagsTell' /\ ItemTold' /\ BufferInOrder'
      BY <1>2, WaitStep DEF Lock
    <2>2. TypeOK' /\ LockHeld' /\ TurnsLeft'
      BY <1>2, <1>t DEF Lock, Goto, queue, TypeOK, LockHeld, TurnsLeft, Side
    <2> QED BY <2>1, <2>2 DEF IInv, QueueInv
  <1>3. ASSUME NEW s \in Side, CondWait(s) PROVE IInv'
    <2>1. FlagsTell' /\ ItemTold' /\ BufferInOrder'
      BY <1>3, WaitStep DEF CondWait
    <2>2. TypeOK' /\ LockHeld' /\ TurnsLeft'
      BY <1>3, <1>t DEF CondWait, Goto, queue, TypeOK, LockHeld, TurnsLeft, Side
    <2> QED BY <2>1, <2>2 DEF IInv, QueueInv
  <1>4. ASSUME NEW s \in Side, SpuriousWakeup(s) PROVE IInv'
    <2>1. FlagsTell' /\ ItemTold' /\ BufferInOrder'
      BY <1>4, WaitStep DEF SpuriousWakeup
    <2>2. spurious' \in 0 .. MaxSpurious
      BY <1>4, <1>t, LibraryAssumption DEF SpuriousWakeup, TypeOK
    <2>3. TypeOK' /\ LockHeld' /\ TurnsLeft'
      BY <1>4, <1>t, <2>2 DEF SpuriousWakeup, Goto, queue, TypeOK, LockHeld, TurnsLeft, Side
    <2> QED BY <2>1, <2>3 DEF IInv, QueueInv
  <1>5. ASSUME NEW s \in Side, Relock(s) PROVE IInv'
    <2>1. FlagsTell' /\ ItemTold' /\ BufferInOrder'
      BY <1>5, WaitStep DEF Relock
    <2>2. TypeOK' /\ LockHeld' /\ TurnsLeft'
      BY <1>5, <1>t DEF Relock, Goto, queue, TypeOK, LockHeld, TurnsLeft, Side
    <2> QED BY <2>1, <2>2 DEF IInv, QueueInv
  <1> QED
    BY <1>1, <1>2, <1>3, <1>4, <1>5, ProduceStep, ConsumeStep, SignalStep
    DEF Next, producer, consumer, Side

LEMMA Invariance == Spec => []IInv
  BY InitIInv, Step, PTL DEF Spec

---------------------------------------------------------------------------
\* The position after the last of the buffer is its first.
LEMMA Wrap ==
  ASSUME NEW n \in Nat \ {0}, NEW x \in 0 .. 2 * n - 1
  PROVE  x % n = IF x < n THEN x ELSE x - n
  OBVIOUS

\* In a state of the program, the items inside are the next Count to be got.
InsideInOrder ==
  /\ Count \in 0 .. QUEUE_SIZE /\ Count = Sent - item
  /\ Sent \in Nat /\ item \in Nat
  /\ Inside = [k \in 1 .. Count |-> item + k]

LEMMA InsideIs == IInv => InsideInOrder
  <1> SUFFICES ASSUME IInv PROVE InsideInOrder
    OBVIOUS
  <1> USE QueueAssumption DEF IInv, TypeOK, QueueInv
  <1>1. Count \in 0 .. QUEUE_SIZE
    BY DEF Count, FlagsTell
  <1>2. Count = Sent - item /\ Sent \in Nat /\ item \in Nat
    BY <1>1 DEF BufferInOrder, Sent, Side, Item
  <1>3. ASSUME NEW k \in 1 .. Count PROVE buffer[(head + k - 1) % QUEUE_SIZE] = item + k
    <2>1. head + k - 1 \in 0 .. 2 * QUEUE_SIZE - 1
      BY <1>1
    <2>2. (head + k - 1) % QUEUE_SIZE = Slot(k)
      <3> DEFINE x == head + k - 1
      <3> HIDE DEF x
      <3>1. x % QUEUE_SIZE = IF x < QUEUE_SIZE THEN x ELSE x - QUEUE_SIZE
        BY <2>1, Wrap DEF x
      <3> QED BY <3>1 DEF x, Slot
    <2> QED BY <2>2 DEF BufferInOrder
  <1>4. Inside = [k \in 1 .. Count |-> item + k]
    BY <1>3 DEF Inside
  <1> QED BY <1>1, <1>2, <1>4 DEF InsideInOrder

LEMMA InsideIsNext == IInv' => InsideInOrder'
  BY InsideIs, PTL

\* Putting behind, and taking from the front of, a run of numbers.
LEMMA RunAppend ==
  ASSUME NEW a \in Nat, NEW n \in Nat
  PROVE  Append([k \in 1 .. n |-> a + k], a + n + 1) = [k \in 1 .. n + 1 |-> a + k]
  <1> DEFINE s == [k \in 1 .. n |-> a + k]
             t == [k \in 1 .. n + 1 |-> a + k]
  <1>1. s \in Seq(Nat) /\ t \in Seq(Nat) /\ Len(s) = n /\ Len(t) = n + 1
    OBVIOUS
  <1> QED BY <1>1, AppendProperties

LEMMA RunTail ==
  ASSUME NEW a \in Nat, NEW n \in Nat \ {0}
  PROVE  LET s == [k \in 1 .. n |-> a + k]
         IN  /\ s # <<>> /\ Head(s) = a + 1
             /\ Tail(s) = [k \in 1 .. n - 1 |-> a + 1 + k]
  <1> DEFINE s == [k \in 1 .. n |-> a + k]
             t == [k \in 1 .. n - 1 |-> a + 1 + k]
  <1>1. s \in Seq(Nat) /\ t \in Seq(Nat) /\ Len(s) = n /\ Len(t) = n - 1
    OBVIOUS
  <1>2. s # <<>> /\ Head(s) = a + 1
    BY <1>1
  <1> QED BY <1>1, <1>2, HeadTailProperties

\* Every step of the program is a step of the bounded queue or changes nothing
\* of what it shows.
LEMMA FifoStep == IInv /\ IInv' /\ [Next]_vars => [Fifo!Next]_(Fifo!vars)
  <1> SUFFICES ASSUME IInv, IInv', [Next]_vars PROVE [Fifo!Next]_(Fifo!vars)
    OBVIOUS
  <1> USE DEF Fifo!vars, Fifo!Next
  <1>0. InsideInOrder /\ InsideInOrder'
    BY InsideIs, InsideIsNext
  <1>1. CASE Produce
    <2>1. Count' = Count + 1 /\ Sent' = Sent + 1 /\ item' = item /\ Sent < NUM_ITEMS
      BY <1>1, ProduceStep
    <2>2. Inside' = Append(Inside, Sent')
      <3>1. Inside' = [k \in 1 .. Count + 1 |-> item + k]
        BY <1>0, <2>1 DEF InsideInOrder
      <3>2. Sent' = item + Count + 1
        BY <1>0, <2>1 DEF InsideInOrder
      <3>3. Count \in Nat /\ item \in Nat /\ Inside = [k \in 1 .. Count |-> item + k]
        BY <1>0 DEF InsideInOrder
      <3>4. Append([k \in 1 .. Count |-> item + k], item + Count + 1)
              = [k \in 1 .. Count + 1 |-> item + k]
        BY <3>3, RunAppend
      <3> QED BY <3>1, <3>2, <3>3, <3>4
    <2>3. Len(Inside) < QUEUE_SIZE
      <3>1. Count < QUEUE_SIZE /\ Count \in Nat
        BY <1>0, <2>1, QueueAssumption DEF InsideInOrder
      <3>2. Len([k \in 1 .. Count |-> item + k]) = Count
        BY <3>1
      <3> QED BY <1>0, <3>1, <3>2 DEF InsideInOrder
    <2> QED BY <2>1, <2>2, <2>3 DEF Fifo!Put
  <1>2. CASE Consume
    <2>1. Count' = Count - 1 /\ Sent' = Sent /\ item' = item + 1
      BY <1>2, ConsumeStep
    <2>2. Count \in Nat \ {0}
      BY <1>0, <2>1 DEF InsideInOrder
    <2>3. Inside' = [k \in 1 .. Count - 1 |-> item + 1 + k]
      BY <1>0, <2>1 DEF InsideInOrder
    <2>4. Inside # <<>> /\ Head(Inside) = item + 1 /\ Tail(Inside) = Inside'
      BY <1>0, <2>2, <2>3, RunTail DEF InsideInOrder
    <2> QED BY <2>1, <2>4 DEF Fifo!Get
  <1>3. ASSUME NEW s \in Side,
               Lock(s) \/ CondWait(s) \/ SpuriousWakeup(s) \/ Relock(s)
        PROVE  UNCHANGED Fifo!vars
    BY <1>3 DEF Lock, CondWait, SpuriousWakeup, Relock, Goto, queue, Inside, Count,
       Sent, IInv, TypeOK, Side
  <1>4. ASSUME NEW s \in Side, Signal(s) PROVE UNCHANGED Fifo!vars
    BY <1>4, SignalStep DEF Signal, queue, Inside, Count
  <1>5. CASE UNCHANGED vars
    BY <1>5 DEF vars, queue, Inside, Count, Sent
  <1> QED BY <1>1, <1>2, <1>3, <1>4, <1>5 DEF Next, producer, consumer, Joined, Side

LEMMA FifoInit == Init => Fifo!Init
  BY QueueAssumption DEF Init, create_queue, Fifo!Init, Inside, Count, Sent, Side

---------------------------------------------------------------------------
\* The buffer, its indices and flags, the lock and the positions of the two
\* sides keep their types, whatever the size of the buffer.
THEOREM TypeCorrect == Spec => []TypeOK
  <1>1. IInv => TypeOK
    BY DEF IInv
  <1> QED BY <1>1, Invariance, PTL

\* The circular buffer and its two flags are a bounded queue: every item that
\* was put is got once, in order, and never more than QUEUE_SIZE are inside.
THEOREM Refinement == Spec => ImplementsFifo
  BY FifoInit, FifoStep, Invariance, PTL DEF Spec, ImplementsFifo, Fifo!Spec

---------------------------------------------------------------------------
LEMMA WakeupInit == Init => NoLostWakeup
  BY DEF Init, NoLostWakeup, Side

LEMMA WakeupStep == TypeOK /\ NoLostWakeup /\ [Next]_vars => NoLostWakeup'
  <1> SUFFICES ASSUME TypeOK, NoLostWakeup, [Next]_vars PROVE NoLostWakeup'
    OBVIOUS
  <1>0. pc \in [Side -> {"lock", "test", "wait", "woken", "signal"}]
    BY DEF TypeOK
  <1> USE DEF NoLostWakeup, Side, Goto
  <1>1. CASE Produce
    BY <1>0, <1>1 DEF Produce, add_to_queue
  <1>2. CASE Consume
    BY <1>0, <1>2 DEF Consume, remove_from_queue
  <1>3. ASSUME NEW s \in Side, CondWait(s) PROVE NoLostWakeup'
    BY <1>0, <1>3 DEF CondWait, queue
  <1>4. ASSUME NEW s \in Side, Signal(s) PROVE NoLostWakeup'
    BY <1>0, <1>4 DEF Signal, Other, queue
  <1>5. ASSUME NEW s \in Side, Lock(s) \/ SpuriousWakeup(s) \/ Relock(s) PROVE NoLostWakeup'
    BY <1>0, <1>5 DEF Lock, SpuriousWakeup, Relock, queue
  <1>6. CASE UNCHANGED vars
    BY <1>6 DEF vars, queue
  <1> QED BY <1>1, <1>2, <1>3, <1>4, <1>5, <1>6 DEF Next, producer, consumer, Joined

\* Whoever waits, the other side is on its way and has a turn left.
LEMMA StuckStep == IInv /\ NoLostWakeup => AllDone \/ \E s \in Side : CanStep(s)
  <1> SUFFICES ASSUME IInv, NoLostWakeup, \A s \in Side : ~CanStep(s) PROVE AllDone
    OBVIOUS
  <1>t. TypeOK /\ LockHeld /\ FlagsTell /\ TurnsLeft /\ ItemTold /\ BufferInOrder
    BY DEF IInv, QueueInv
  <1>1. /\ lock = "nobody"
        /\ \A s \in Side : pc[s] = "wait" \/ (pc[s] = "lock" /\ i[s] = NUM_ITEMS)
    <2>1. \A s \in Side : pc[s] \in {"lock", "wait", "woken"} /\ lock # s
      BY <1>t DEF CanStep, TypeOK, LockHeld
    <2>2. lock = "nobody"
      BY <1>t, <2>1 DEF TypeOK
    <2>3. \A s \in Side : i[s] \in 0 .. NUM_ITEMS /\ NUM_ITEMS \in Nat
      BY <1>t, QueueAssumption DEF TypeOK
    <2>4. \A s \in Side : pc[s] # "woken" /\ (pc[s] = "lock" => ~(i[s] < NUM_ITEMS))
      BY <2>2 DEF CanStep
    <2>5. ASSUME NEW s \in Side, pc[s] # "wait" PROVE pc[s] = "lock" /\ i[s] = NUM_ITEMS
      <3>1. pc[s] = "lock" /\ ~(i[s] < NUM_ITEMS)
        BY <2>1, <2>4, <2>5
      <3>2. i[s] \in 0 .. NUM_ITEMS /\ NUM_ITEMS \in Nat
        BY <2>3
      <3> QED BY <3>1, <3>2
    <2> QED BY <2>2, <2>5
  <1>2. pc["producer"] # "wait" \/ pc["consumer"] # "wait"
    BY <1>t DEF NoLostWakeup, FlagsTell
  <1>3. ASSUME pc["producer"] = "wait", pc["consumer"] = "lock", i["consumer"] = NUM_ITEMS
        PROVE  FALSE
    <2>i. i["consumer"] \in 0 .. NUM_ITEMS /\ i["producer"] \in 0 .. NUM_ITEMS /\ NUM_ITEMS \in Nat
      BY <1>t, QueueAssumption DEF TypeOK, Side
    <2>1. item = NUM_ITEMS /\ Sent = i["producer"] /\ i["producer"] < NUM_ITEMS
      BY <1>3, <1>t, <2>i DEF ItemTold, Sent, TurnsLeft, Side
    <2>2. Count \in Nat /\ Sent - item = Count
      BY InsideIs, <1>t DEF InsideInOrder, BufferInOrder
    <2> QED BY <2>i, <2>1, <2>2
  <1>4. ASSUME pc["consumer"] = "wait", pc["producer"] = "lock", i["producer"] = NUM_ITEMS
        PROVE  FALSE
    <2>1. empty
      BY <1>4 DEF NoLostWakeup
    <2>2. Count = 0
      BY <2>1, <1>t DEF Count, FlagsTell, TypeOK
    <2>i. i["consumer"] \in 0 .. NUM_ITEMS /\ i["producer"] \in 0 .. NUM_ITEMS /\ NUM_ITEMS \in Nat
      BY <1>t, QueueAssumption DEF TypeOK, Side
    <2>3. item = i["consumer"] /\ Sent = NUM_ITEMS /\ i["consumer"] < NUM_ITEMS
      BY <1>4, <1>t, <2>i DEF ItemTold, Sent, TurnsLeft, Side
    <2>4. Sent - item = Count
      BY <1>t DEF BufferInOrder
    <2> QED BY <2>i, <2>2, <2>3, <2>4
  <1> QED BY <1>1, <1>2, <1>3, <1>4 DEF AllDone, Side

\* A side never waits for what has already come, unless the signal that tells
\* it so is still to be sent: pthread_cond_signal after the unlock loses nothing.
THEOREM WakeupsArrive == Spec => []NoLostWakeup
  <1>1. IInv => TypeOK
    BY DEF IInv
  <1> QED BY <1>1, Invariance, WakeupInit, WakeupStep, PTL DEF Spec

\* No deadlock, whatever the size of the buffer and without the help of spurious
\* wakeups: until both loops are over, one of the two sides has a step.
THEOREM NeverStuck == Spec => [](AllDone \/ \E s \in Side : CanStep(s))
  BY StuckStep, Invariance, WakeupsArrive, PTL
=============================================================================
