------------------------------ MODULE ByteFifo ------------------------------
(***************************************************************************)
(* What the receive ring of Core/serial_io.c promises: a bounded queue of  *)
(* bytes between the USART interrupt and the main loop.  A byte that finds *)
(* the queue full is dropped; the others come out once, in order, and they *)
(* do come out as long as the main loop asks for them.                     *)
(***************************************************************************)
EXTENDS Integers, Sequences

CONSTANTS Byte, Capacity

VARIABLES queue, out    \* out: the byte delivered last, a sequence of length <= 1

Init == queue = <<>> /\ out = <<>>

Push(b) == /\ Len(queue) < Capacity
           /\ queue' = Append(queue, b)
           /\ UNCHANGED out

Drop(b) == /\ Len(queue) = Capacity
           /\ UNCHANGED <<queue, out>>

Pop == /\ queue # <<>>
       /\ out' = <<Head(queue)>>
       /\ queue' = Tail(queue)

Next == (\E b \in Byte : Push(b) \/ Drop(b)) \/ Pop

Spec == Init /\ [][Next]_<<queue, out>>

FairSpec == Spec /\ WF_<<queue, out>>(Pop)
=============================================================================
