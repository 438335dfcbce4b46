----------------------------- MODULE BoundedQueue -----------------------------
(***************************************************************************)
(* What a queue between one producer and one consumer promises: items come *)
(* out once each and in the order they went in, a push is refused only     *)
(* while the queue is full, and a pop comes back empty-handed only while   *)
(* the queue is empty.                                                     *)
(***************************************************************************)
EXTENDS Naturals, Sequences

CONSTANTS Bound, Items,
          Nothing       \* what a pop that finds the queue empty leaves

VARIABLES queue,        \* the items that wait, oldest first
          accepted,     \* the outcome of the last push
          received      \* the item of the last pop, or Nothing

queueVars == <<queue, accepted, received>>

QueueInit == queue = <<>> /\ accepted = TRUE /\ received = Nothing

Put(item) == /\ Len(queue) < Bound
             /\ queue' = Append(queue, item) /\ accepted' = TRUE
             /\ UNCHANGED received

Refuse == /\ Len(queue) = Bound
          /\ accepted' = FALSE
          /\ UNCHANGED <<queue, received>>

Take == /\ queue # <<>>
        /\ received' = Head(queue) /\ queue' = Tail(queue)
        /\ UNCHANGED accepted

FindEmpty == /\ queue = <<>>
             /\ received' = Nothing
             /\ UNCHANGED <<queue, accepted>>

QueueNext == (\E item \in Items : Put(item)) \/ Refuse \/ Take \/ FindEmpty

QueueSpec == QueueInit /\ [][QueueNext]_queueVars
=============================================================================
