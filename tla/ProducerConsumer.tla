-------------------------- MODULE ProducerConsumer --------------------------
(***************************************************************************)
(* producer_consumer.c: one producer and one consumer on a circular buffer *)
(* whose fullness and emptiness are two flags kept beside the indices.     *)
(* Each side waits on a condition in a loop and signals the other one      *)
(* after it has released the lock.  Items are known by their number.       *)
(***************************************************************************)
EXTENDS ThreadParameters, Sequences

Side == {"producer", "consumer"}
Item == 1 .. NUM_ITEMS

VARIABLES
  buffer, head, tail, full, empty,   \* the queue; 0 in buffer: not written yet
  lock,                              \* who holds it, or "nobody"
  i,                                 \* loop counter of each side
  item,                              \* what remove_from_queue returned last
  spurious,                          \* spurious wakeups so far
  pc

queue == <<buffer, head, tail, full, empty>>
vars  == <<queue, lock, i, item, spurious, pc>>

TypeOK ==
  /\ buffer \in [0 .. QUEUE_SIZE - 1 -> Item \union {0}]
  /\ head \in 0 .. QUEUE_SIZE - 1
  /\ tail \in 0 .. QUEUE_SIZE - 1
  /\ full \in BOOLEAN /\ empty \in BOOLEAN
  /\ lock \in Side \union {"nobody"}
  /\ i \in [Side -> 0 .. NUM_ITEMS]
  /\ item \in Item \union {0}
  /\ spurious \in 0 .. MaxSpurious
  /\ pc \in [Side -> {"lock", "test", "wait", "woken", "signal"}]

create_queue ==
  /\ buffer = [k \in 0 .. QUEUE_SIZE - 1 |-> 0]
  /\ head = 0 /\ tail = 0
  /\ full = FALSE /\ empty = TRUE
  /\ lock = "nobody"

Init ==
  /\ create_queue
  /\ i = [s \in Side |-> 0]
  /\ item = 0
  /\ spurious = 0
  /\ pc = [s \in Side |-> "lock"]

---------------------------------------------------------------------------
After_tooFar(k) == IF k = QUEUE_SIZE THEN 0 ELSE k + 1   \* mutant: wraps one later

\* tail++ or head++, back to 0 at QUEUE_SIZE.
After(k) == IF k + 1 = QUEUE_SIZE THEN 0 ELSE k + 1

add_to_queue(x) ==
  /\ buffer' = [buffer EXCEPT ![tail] = x]
  /\ tail'   = After(tail)
  /\ full'   = (full \/ tail' = head)
  /\ empty'  = FALSE
  /\ UNCHANGED head

remove_from_queue_keepsFull == \* mutant: full = 0 is missing
  /\ item'  = buffer[head]
  /\ head'  = After(head)
  /\ empty' = (empty \/ head' = tail)
  /\ UNCHANGED <<buffer, tail, full>>

remove_from_queue ==
  /\ item'  = buffer[head]
  /\ head'  = After(head)
  /\ empty' = (empty \/ head' = tail)
  /\ full'  = FALSE
  /\ UNCHANGED <<buffer, tail>>

Goto(s, from, to) == pc[s] = from /\ pc' = [pc EXCEPT ![s] = to]
Other(s) == IF s = "producer" THEN "consumer" ELSE "producer"

Lock(s) ==
  /\ i[s] < NUM_ITEMS
  /\ lock = "nobody" /\ lock' = s
  /\ Goto(s, "lock", "test")
  /\ UNCHANGED <<queue, i, item, spurious>>

\* pthread_cond_wait on not_full or not_empty.
CondWait(s) ==
  /\ IF s = "producer" THEN full ELSE empty
  /\ Goto(s, "test", "wait")
  /\ lock' = "nobody"
  /\ UNCHANGED <<queue, i, item, spurious>>

Produce ==
  /\ ~full
  /\ Goto("producer", "test", "signal")
  /\ add_to_queue(i["producer"] + 1)
  /\ lock' = "nobody"
  /\ UNCHANGED <<i, item, spurious>>

Consume ==
  /\ ~empty
  /\ Goto("consumer", "test", "signal")
  /\ remove_from_queue
  /\ lock' = "nobody"
  /\ UNCHANGED <<i, spurious>>

Signal_toSelf(s) ==            \* mutant: the producer signals not_full
  /\ Goto(s, "signal", "lock")
  /\ i'  = [i EXCEPT ![s] = @ + 1]
  /\ UNCHANGED <<queue, lock, item, spurious>>

\* pthread_cond_signal, with the lock released, and the next turn of the loop.
Signal(s) ==
  /\ pc[s] = "signal"
  /\ pc' = [pc EXCEPT ![s] = "lock",
                      ![Other(s)] = IF @ = "wait" THEN "woken" ELSE @]
  /\ i'  = [i EXCEPT ![s] = @ + 1]
  /\ UNCHANGED <<queue, lock, item, spurious>>

SpuriousWakeup(s) ==
  /\ spurious < MaxSpurious
  /\ Goto(s, "wait", "woken")
  /\ spurious' = spurious + 1
  /\ UNCHANGED <<queue, lock, i, item>>

\* pthread_cond_wait returns with the lock; the while tests the flag again.
Relock(s) ==
  /\ lock = "nobody" /\ lock' = s
  /\ Goto(s, "woken", "test")
  /\ UNCHANGED <<queue, i, item, spurious>>

AllDone == \A s \in Side : pc[s] = "lock" /\ i[s] = NUM_ITEMS

\* main returns from its last pthread_join.
Joined == AllDone /\ UNCHANGED vars

producer == Produce \/ Lock("producer") \/ CondWait("producer")
                    \/ Signal("producer") \/ Relock("producer")
consumer == Consume \/ Lock("consumer") \/ CondWait("consumer")
                    \/ Signal("consumer") \/ Relock("consumer")

Next == producer \/ consumer \/ (\E s \in Side : SpuriousWakeup(s)) \/ Joined

Spec == Init /\ [][Next]_vars

---------------------------------------------------------------------------
\* The items in the buffer, oldest first.
Count  == IF full THEN QUEUE_SIZE
          ELSE IF head <= tail THEN tail - head ELSE tail + QUEUE_SIZE - head
Inside == [k \in 1 .. Count |-> buffer[(head + k - 1) % QUEUE_SIZE]]

\* Items the producer has put: the one it has yet to signal included.
Sent == i["producer"] + (IF pc["producer"] = "signal" THEN 1 ELSE 0)

Fifo == INSTANCE BoundedFifo WITH Size <- QUEUE_SIZE, Items <- NUM_ITEMS,
                                  inside <- Inside, sent <- Sent, received <- item

\* The circular buffer and its two flags are a bounded queue: nothing is lost,
\* overwritten or read before it is written.
ImplementsFifo == Fifo!Spec

\* A side that waits though what it waits for has come has a signal on its way.
NoLostWakeup ==
  /\ pc["producer"] = "wait" /\ ~full  => pc["consumer"] = "signal"
  /\ pc["consumer"] = "wait" /\ ~empty => pc["producer"] = "signal"

\* No wakeup is lost: both sides get through all their items.
AllDelivered == []NoLostWakeup /\ <>AllDone

\* Side s has a step of its own: it waits neither for the lock nor for a signal.
CanStep(s) ==
  \/ pc[s] \in {"test", "signal"}
  \/ lock = "nobody" /\ (pc[s] = "woken" \/ (pc[s] = "lock" /\ i[s] < NUM_ITEMS))
=============================================================================
