------------------------------- MODULE MsgFifo -------------------------------
(***************************************************************************)
(* What a MsgQueue promises: a bounded first-in first-out queue.  enqueue  *)
(* either refuses a message or puts it at the end, dequeue hands out the   *)
(* message at the front; nothing is lost, duplicated or reordered.         *)
(***************************************************************************)
EXTENDS Naturals, Sequences

CONSTANTS Messages,  \* what may be enqueued
          Capacity   \* how many messages fit

VARIABLES queue,     \* the messages in the queue, oldest first
          delivered  \* the messages dequeued so far, in order

Init == queue = <<>> /\ delivered = <<>>

Put(m) ==
    /\ Len(queue) < Capacity
    /\ queue' = Append(queue, m)
    /\ UNCHANGED delivered

Take ==
    /\ queue # <<>>
    /\ queue' = Tail(queue)
    /\ delivered' = Append(delivered, Head(queue))

Next == Take \/ \E m \in Messages : Put(m)

Spec == Init /\ [][Next]_<<queue, delivered>>
=============================================================================
