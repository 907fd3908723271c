----------------------------- MODULE BoundedFifo -----------------------------
(***************************************************************************)
(* What a bounded queue promises: the items that are put come out once, in *)
(* the order they went in, and no more than Size of them are ever inside.  *)
(***************************************************************************)
EXTENDS Naturals, Sequences

CONSTANTS Size, Items   \* Items: how many are put, numbered 1 .. Items

VARIABLES inside, sent, received

vars == <<inside, sent, received>>

Init == inside = <<>> /\ sent = 0 /\ received = 0

Put ==
  /\ sent < Items /\ Len(inside) < Size
  /\ sent'   = sent + 1
  /\ inside' = Append(inside, sent')
  /\ UNCHANGED received

Get ==
  /\ inside # <<>>
  /\ received' = Head(inside)
  /\ inside'   = Tail(inside)
  /\ UNCHANGED sent

Next == Put \/ Get

Spec == Init /\ [][Next]_vars

\* What is inside is what was sent and not received, in order.
InOrder == inside = [k \in 1 .. sent - received |-> received + k]
=============================================================================
