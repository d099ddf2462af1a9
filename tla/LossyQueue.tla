----------------------------- MODULE LossyQueue -----------------------------
(***************************************************************************)
(* What the shared ring promises to the two sides: a bounded first-in      *)
(* first-out queue.  An event that finds it full is lost, whole; every     *)
(* other event is delivered once, intact and in order, in batches.         *)
(***************************************************************************)
EXTENDS Integers, SequencesExt

CONSTANTS Cap, BatchLimit, Event

VARIABLES queue, delivered

vars == <<queue, delivered>>

Init == queue = << >> /\ delivered = << >>

Push(e) ==
  /\ Len(queue) < Cap
  /\ queue' = Append(queue, e)
  /\ UNCHANGED delivered

Take(n) ==
  /\ n <= Len(queue)
  /\ queue' = SubSeq(queue, n + 1, Len(queue))
  /\ delivered' = delivered \o SubSeq(queue, 1, n)

Next == (\E e \in Event : Push(e)) \/ (\E n \in 1 .. BatchLimit : Take(n))

Spec == Init /\ [][Next]_vars
=============================================================================
