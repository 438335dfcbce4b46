------------------------------ MODULE SpscQueue ------------------------------
(***************************************************************************)
(* SpscQueue of engine/command_queue.h: a ring that one thread pushes to   *)
(* and another pops from without a lock.  The producer owns writeIndex,    *)
(* the consumer owns readIndex; each reads the other's index once, then    *)
(* touches a slot, then publishes its own index.  The ring is full with    *)
(* one slot to spare.  Commands for the audio callback (64 slots) and MIDI *)
(* events for the editor (4097 slots) travel through it.                   *)
(*                                                                         *)
(* An index is stored with release and read by the other side with acquire *)
(* so what a side did to a slot precedes its store of the index: a step is *)
(* one atomic access, except that an item is copied in the step that ends  *)
(* the copy, the interval before it being the copy in progress.            *)
(***************************************************************************)
EXTENDS Naturals, Sequences

CONSTANTS Capacity, Items, Nothing

ASSUME SpscAssumption ==
  Capacity \in Nat /\ Capacity >= 2 /\ Nothing \notin Items

Indices == 0..(Capacity - 1)

VARIABLES
  items, writeIndex, readIndex,
  producer,      \* "idle", "write": assigns its slot, "publish": slot assigned
  pushing,       \* push()'s argument
  accepted,      \* what the last push() returned
  consumer,      \* "idle", "copy": copies its slot, "release": slot copied
  item,          \* what pop() has copied
  received       \* what the last pop() gave, or Nothing

producerVars == <<producer, pushing, accepted>>
consumerVars == <<consumer, item, received>>
vars == <<items, writeIndex, readIndex, producer, pushing, accepted,
          consumer, item, received>>

Init == /\ items = [i \in Indices |-> Nothing]
        /\ writeIndex = 0 /\ readIndex = 0
        /\ producer = "idle" /\ pushing = Nothing /\ accepted = TRUE
        /\ consumer = "idle" /\ item = Nothing /\ received = Nothing

increment(index) == (index + 1) % Capacity

NeverFull == FALSE                  \* mutant: the check for room is dropped

\* push(): the slot after the producer's must not be the consumer's.
Full == increment(writeIndex) = readIndex

BeginPush(new) ==
  /\ producer = "idle"
  /\ IF Full
       THEN accepted' = FALSE /\ UNCHANGED <<producer, pushing>>
       ELSE producer' = "write" /\ pushing' = new /\ UNCHANGED accepted
  /\ UNCHANGED <<items, writeIndex, readIndex, consumerVars>>

WriteItem ==
  /\ producer = "write"
  /\ items' = [items EXCEPT ![writeIndex] = pushing]
  /\ producer' = "publish"
  /\ UNCHANGED <<writeIndex, readIndex, pushing, accepted, consumerVars>>

PublishItem ==
  /\ producer = "publish"
  /\ writeIndex' = increment(writeIndex)
  /\ accepted' = TRUE /\ producer' = "idle" /\ pushing' = Nothing
  /\ UNCHANGED <<items, readIndex, consumerVars>>

Empty == readIndex = writeIndex

\* pop()
BeginPop ==
  /\ consumer = "idle"
  /\ IF Empty
       THEN received' = Nothing /\ UNCHANGED consumer
       ELSE consumer' = "copy" /\ UNCHANGED received
  /\ UNCHANGED <<items, writeIndex, readIndex, item, producerVars>>

CopyItem ==
  /\ consumer = "copy"
  /\ item' = items[readIndex]
  /\ consumer' = "release"
  /\ UNCHANGED <<items, writeIndex, readIndex, received, producerVars>>

ReleaseSlotUncopied ==          \* mutant: the slot is released before the copy
  /\ consumer = "copy"
  /\ readIndex' = increment(readIndex)
  /\ item' = items[readIndex'] /\ received' = item'
  /\ consumer' = "idle"
  /\ UNCHANGED <<items, writeIndex, producerVars>>

ReleaseSlot ==
  /\ consumer = "release"
  /\ readIndex' = increment(readIndex)
  /\ received' = item /\ item' = Nothing
  /\ consumer' = "idle"
  /\ UNCHANGED <<items, writeIndex, producerVars>>

ConsumerStep == BeginPop \/ CopyItem \/ ReleaseSlot
ProducerStep == (\E new \in Items : BeginPush(new)) \/ WriteItem \/ PublishItem
Next == ProducerStep \/ ConsumerStep

Spec == Init /\ [][Next]_vars

-----------------------------------------------------------------------------
(* Properties.                                                              *)

\* Every variable holds a value of its kind.
TypeOK ==
  /\ items \in [Indices -> Items \union {Nothing}]
  /\ writeIndex \in Indices /\ readIndex \in Indices
  /\ producer \in {"idle", "write", "publish"}
  /\ consumer \in {"idle", "copy", "release"}
  /\ {pushing, item, received} \subseteq Items \union {Nothing}
  /\ accepted \in BOOLEAN

\* push() and pop() never touch one slot at a time: no item is read while it
\* is assigned.
NoSlotRace == producer = "write" /\ consumer = "copy" => writeIndex # readIndex

Length == IF readIndex <= writeIndex THEN writeIndex - readIndex
                                     ELSE writeIndex + Capacity - readIndex
Slot(k) == IF readIndex + k < Capacity THEN readIndex + k
                                       ELSE readIndex + k - Capacity

\* The items between the indices, oldest first.
Waiting == [k \in 1..Length |-> items[Slot(k - 1)]]

\* What both sides rely on between their check and their store: a producer past its check still has a free slot, a consumer past its check
\* still has an item, and a copy is the item it was taken from.
Claims == /\ producer # "idle" => increment(writeIndex) # readIndex /\ pushing \in Items
          /\ producer = "publish" => items[writeIndex] = pushing
          /\ consumer # "idle" => readIndex # writeIndex
          /\ consumer = "release" => item = items[readIndex]
          /\ \A k \in 1..Length : items[Slot(k - 1)] \in Items

Inv == TypeOK /\ Claims

\* The ring is the bounded queue, an item entering it when
\* writeIndex is stored and leaving it when readIndex is.
Queue == INSTANCE BoundedQueue
           WITH Bound <- Capacity - 1, queue <- Waiting
ImplementsBoundedQueue == Queue!QueueSpec
=============================================================================
