------------------------- MODULE CallbackPathsProofs -------------------------
(***************************************************************************)
(* For all sizes and bounds, what the audio callback shares with another   *)
(* thread without a lock: the command queue never has one slot touched by  *)
(* both sides and implements the bounded queue; the ring of the bypass     *)
(* path implements the delay line; a snapshot that is read is a whole one  *)
(* that was current during the read; the page that follows the MIDI input  *)
(* never skips an event for good; and every frame of the telemetry of the  *)
(* engine is delivered in order or counted as lost, once.                  *)
(***************************************************************************)
EXTENDS SpscQueue, TelemetryRing, MidiTelemetry, SeqlockSnapshot, DryDelay,
        SequenceTheorems, WellFoundedInduction, TLAPS

------------------------------------------------------------------------------
(* SpscQueue *)

\* increment() goes to the next index and wraps at the capacity.
LEMMA IncrementWraps ==
  ASSUME NEW i \in Indices
  PROVE  increment(i) = IF i + 1 = Capacity THEN 0 ELSE i + 1
  BY SpscAssumption DEF Indices, increment

\* ... so it stays within the ring and tells indices apart.
LEMMA IncrementFacts ==
  /\ \A i \in Indices : increment(i) \in Indices
  /\ \A i, j \in Indices : increment(i) = increment(j) => i = j
  /\ \A i \in Indices : increment(i) # i
  BY IncrementWraps, SpscAssumption DEF Indices

\* The k-th waiting item lies within the ring, before writeIndex.
LEMMA SlotFacts ==
  ASSUME readIndex \in Indices, writeIndex \in Indices
  PROVE  /\ Length \in 0..(Capacity - 1)
         /\ (Length = 0) <=> (readIndex = writeIndex)
         /\ (Length = Capacity - 1) <=> (increment(writeIndex) = readIndex)
         /\ \A k \in 1..Length : Slot(k - 1) \in Indices \ {writeIndex}
         /\ Slot(Length) = writeIndex
         /\ Slot(0) = readIndex
  BY IncrementWraps, SpscAssumption DEF Indices, Length, Slot

\* Storing writeIndex makes the queue one item longer at its end.
LEMMA LengthAfterPublish ==
  ASSUME readIndex \in Indices, writeIndex \in Indices,
         increment(writeIndex) # readIndex,
         writeIndex' = increment(writeIndex), readIndex' = readIndex
  PROVE  /\ Length' = Length + 1
         /\ \A k \in 0..Length : Slot(k)' = Slot(k)
  BY IncrementWraps, SpscAssumption DEF Indices, Length, Slot

\* Storing readIndex makes it one item shorter at its front.
LEMMA LengthAfterRelease ==
  ASSUME readIndex \in Indices, writeIndex \in Indices,
         readIndex # writeIndex,
         readIndex' = increment(readIndex), writeIndex' = writeIndex
  PROVE  /\ Length' = Length - 1
         /\ \A k \in 0..Length' : Slot(k)' = Slot(k + 1)
  BY IncrementWraps, SpscAssumption DEF Indices, Length, Slot

-----------------------------------------------------------------------------
(* The invariant.                                                           *)

\* An empty ring satisfies it.
LEMMA QueueInitInv == Init => Inv
  BY SpscAssumption DEF Init, Inv, TypeOK, Claims, Indices, Length

\* The two checks: what they establish lasts until the store, because the other
\* side only ever moves its index away.
LEMMA BeginInv ==
  ASSUME Inv, (\E new \in Items : BeginPush(new)) \/ BeginPop
  PROVE  Inv'
<1>1. ASSUME NEW new \in Items, BeginPush(new) PROVE Inv'
  BY <1>1 DEF Inv, TypeOK, Claims, BeginPush, Full, consumerVars, Length, Slot, Indices
<1>2. ASSUME BeginPop PROVE Inv'
  BY <1>2 DEF Inv, TypeOK, Claims, BeginPop, Empty, producerVars, Length, Slot, Indices
<1>3. QED BY <1>1, <1>2

\* The producer assigns a slot that is neither waiting nor being copied.
LEMMA WriteItemInv ==
  ASSUME Inv, WriteItem
  PROVE  Inv'
<1>1. readIndex \in Indices /\ writeIndex \in Indices /\ pushing \in Items
  BY DEF Inv, TypeOK, Claims, WriteItem
<1>2. Length' = Length /\ \A k \in 1..Length : Slot(k - 1)' = Slot(k - 1)
  BY DEF WriteItem, Length, Slot
<1>3. TypeOK'
  BY <1>1 DEF Inv, TypeOK, WriteItem, consumerVars
<1>4. \A i \in Indices : i # writeIndex => items'[i] = items[i]
  BY <1>1 DEF Inv, TypeOK, WriteItem
<1>5. items'[writeIndex'] = pushing'
  BY <1>1 DEF Inv, TypeOK, WriteItem
<1>6. \A k \in 1..Length' : items'[Slot(k - 1)'] \in Items
  <2>1. \A k \in 1..Length : Slot(k - 1) \in Indices \ {writeIndex}
    BY <1>1, SlotFacts
  <2>2. \A k \in 1..Length : items[Slot(k - 1)] \in Items
    BY DEF Inv, Claims
  <2>3. QED BY <1>2, <1>4, <2>1, <2>2
<1>7. consumer' = "release" => item' = items'[readIndex']
  BY <1>1, <1>4 DEF Inv, Claims, WriteItem, consumerVars
<1>8. Claims'
  BY <1>1, <1>5, <1>6, <1>7 DEF Inv, Claims, WriteItem, consumerVars, increment
<1>9. QED BY <1>3, <1>8 DEF Inv

\* The published slot joins the waiting ones.
LEMMA PublishItemInv ==
  ASSUME Inv, PublishItem
  PROVE  Inv'
<1>1. /\ readIndex \in Indices /\ writeIndex \in Indices
      /\ increment(writeIndex) # readIndex
      /\ items[writeIndex] \in Items
  BY DEF Inv, TypeOK, Claims, PublishItem
<1>2. writeIndex' = increment(writeIndex) /\ readIndex' = readIndex /\ items' = items
  BY DEF PublishItem
<1>3. /\ Length \in Nat /\ Length' = Length + 1
      /\ \A k \in 0..Length : Slot(k)' = Slot(k)
      /\ Slot(Length) = writeIndex
  BY <1>1, <1>2, SlotFacts, LengthAfterPublish, SpscAssumption
<1>4. TypeOK'
  BY <1>1, IncrementFacts DEF Inv, TypeOK, PublishItem, consumerVars
<1>5. \A k \in 1..Length' : items'[Slot(k - 1)'] \in Items
  <2> SUFFICES ASSUME NEW k \in 1..(Length + 1)
               PROVE  items[Slot(k - 1)'] \in Items
    BY <1>2, <1>3
  <2>1. k - 1 \in 0..Length /\ Slot(k - 1)' = Slot(k - 1)
    BY <1>3
  <2>2. CASE k = Length + 1
    BY <1>1, <1>3, <2>1, <2>2
  <2>3. CASE k # Length + 1
    <3>1. k \in 1..Length
      BY <1>3, <2>3
    <3>2. QED BY <2>1, <3>1 DEF Inv, Claims
  <2>4. QED BY <2>2, <2>3
<1>6. Claims'
  BY <1>1, <1>2, <1>5 DEF Inv, Claims, PublishItem, consumerVars
<1>7. QED BY <1>4, <1>6 DEF Inv

\* The copy is the oldest waiting item.
LEMMA CopyItemInv ==
  ASSUME Inv, CopyItem
  PROVE  Inv'
  BY DEF Inv, TypeOK, Claims, CopyItem, producerVars, Length, Slot, Indices, increment

\* The released slot leaves the waiting ones, which move up by one.
LEMMA ReleaseSlotInv ==
  ASSUME Inv, ReleaseSlot
  PROVE  Inv'
<1>1. readIndex \in Indices /\ writeIndex \in Indices /\ readIndex # writeIndex
  BY DEF Inv, TypeOK, Claims, ReleaseSlot
<1>2. writeIndex' = writeIndex /\ readIndex' = increment(readIndex) /\ items' = items
  BY DEF ReleaseSlot
<1>3. /\ Length \in Nat /\ Length' = Length - 1
      /\ \A k \in 0..(Length - 1) : Slot(k)' = Slot(k + 1)
  BY <1>1, <1>2, SlotFacts, LengthAfterRelease, SpscAssumption
<1>4. TypeOK'
  BY <1>1, IncrementFacts DEF Inv, TypeOK, ReleaseSlot, producerVars
<1>5. \A k \in 1..Length' : items'[Slot(k - 1)'] \in Items
  <2> SUFFICES ASSUME NEW k \in 1..(Length - 1)
               PROVE  items[Slot(k - 1)'] \in Items
    BY <1>2, <1>3
  <2>1. Slot(k - 1)' = Slot(k) /\ k + 1 \in 1..Length /\ (k + 1) - 1 = k
    BY <1>3
  <2>2. items[Slot((k + 1) - 1)] \in Items
    BY <2>1 DEF Inv, Claims
  <2>3. QED BY <2>1, <2>2
<1>6. producer' # "idle" => increment(writeIndex') # readIndex'
  BY <1>1, <1>2, IncrementFacts
<1>7. Claims'
  BY <1>1, <1>2, <1>5, <1>6 DEF Inv, Claims, ReleaseSlot, producerVars
<1>8. QED BY <1>4, <1>7 DEF Inv

\* Every step keeps the invariant.
LEMMA QueueNextInv == Inv /\ [Next]_vars => Inv'
<1> SUFFICES ASSUME Inv, [Next]_vars PROVE Inv'
  OBVIOUS
<1>1. CASE UNCHANGED vars
  BY <1>1 DEF Inv, TypeOK, Claims, vars, Length, Slot, increment
<1>2. CASE ProducerStep
  BY <1>2, BeginInv, WriteItemInv, PublishItemInv DEF ProducerStep
<1>3. CASE ConsumerStep
  BY <1>3, BeginInv, CopyItemInv, ReleaseSlotInv DEF ConsumerStep
<1>4. QED BY <1>1, <1>2, <1>3 DEF Next

\* The queue's invariant: both sides keep the claim their check made, and every
\* index between the two holds an item.
THEOREM QueueInvariance == Spec => []Inv
  BY QueueInitInv, QueueNextInv, PTL DEF Spec

\* push() never assigns the slot pop() is copying.
THEOREM RaceFree == Spec => []NoSlotRace
<1>1. Inv => NoSlotRace
  BY DEF Inv, Claims, NoSlotRace
<1>2. QED BY <1>1, QueueInvariance, PTL

-----------------------------------------------------------------------------
(* The refinement: a push takes effect when it stores writeIndex or finds    *)
(* the ring full, a pop when it stores readIndex or finds it empty.          *)

\* What the ring's waiting items are, as a sequence.
LEMMA WaitingFacts ==
  ASSUME Inv
  PROVE  /\ Waiting \in Seq(Items) /\ Len(Waiting) = Length
         /\ Length \in 0..(Capacity - 1)
         /\ \A k \in 1..Length : Waiting[k] = items[Slot(k - 1)]
<1>1. Length \in 0..(Capacity - 1)
  BY SlotFacts DEF Inv, TypeOK
<1>2. \A k \in 1..Length : items[Slot(k - 1)] \in Items
  BY DEF Inv, Claims
<1>3. QED BY <1>1, <1>2, SpscAssumption DEF Waiting

\* A step that moves no index and assigns no waiting slot changes no queue.
LEMMA WaitingStays ==
  ASSUME Inv, UNCHANGED <<readIndex, writeIndex>>,
         \A i \in Indices \ {writeIndex} : items'[i] = items[i]
  PROVE  Waiting' = Waiting
<1>1. Length' = Length /\ \A k \in 1..Length : Slot(k - 1)' = Slot(k - 1)
  BY DEF Length, Slot
<1>2. \A k \in 1..Length : Slot(k - 1) \in Indices \ {writeIndex}
  BY SlotFacts DEF Inv, TypeOK
<1>3. \A k \in 1..Length : items'[Slot(k - 1)'] = items[Slot(k - 1)]
  BY <1>1, <1>2
<1>4. QED BY <1>1, <1>3 DEF Waiting

\* Initial states of the ring are initial states of the queue.
LEMMA QueueInitRefines == Init => Queue!QueueInit
<1> SUFFICES ASSUME Init PROVE Queue!QueueInit
  OBVIOUS
<1>1. Length = 0
  BY DEF Init, Length
<1>2. Waiting = <<>>
  BY <1>1 DEF Waiting
<1>3. QED BY <1>2 DEF Init, Queue!QueueInit

\* A refused push finds the queue full.
LEMMA BeginPushRefines ==
  ASSUME Inv, NEW new \in Items, BeginPush(new)
  PROVE  [Queue!QueueNext]_(Queue!queueVars)
<1>1. Waiting' = Waiting
  BY WaitingStays DEF BeginPush
<1>2. CASE Full
  <2>1. Len(Waiting) = Capacity - 1
    BY <1>2, WaitingFacts, SlotFacts DEF Full, Inv, TypeOK
  <2>2. Queue!Refuse
    BY <1>1, <1>2, <2>1 DEF BeginPush, consumerVars, Queue!Refuse
  <2>3. QED BY <2>2 DEF Queue!QueueNext
<1>3. CASE ~Full
  BY <1>1, <1>3 DEF BeginPush, consumerVars, Queue!queueVars
<1>4. QED BY <1>2, <1>3

\* A pop that gives nothing finds the queue empty.
LEMMA BeginPopRefines ==
  ASSUME Inv, BeginPop
  PROVE  [Queue!QueueNext]_(Queue!queueVars)
<1>1. Waiting' = Waiting
  BY WaitingStays DEF BeginPop
<1>2. CASE Empty
  <2>1. Len(Waiting) = 0 /\ Waiting \in Seq(Items)
    BY <1>2, WaitingFacts, SlotFacts DEF Empty, Inv, TypeOK
  <2>2. Waiting = <<>>
    BY <2>1
  <2>3. Queue!FindEmpty
    BY <1>1, <1>2, <2>2 DEF BeginPop, producerVars, Queue!FindEmpty
  <2>4. QED BY <2>3 DEF Queue!QueueNext
<1>3. CASE ~Empty
  BY <1>1, <1>3 DEF BeginPop, producerVars, Queue!queueVars
<1>4. QED BY <1>2, <1>3

\* The store of writeIndex appends the assigned item.
LEMMA PublishItemRefines ==
  ASSUME Inv, Inv', PublishItem
  PROVE  [Queue!QueueNext]_(Queue!queueVars)
<1>1. /\ readIndex \in Indices /\ writeIndex \in Indices
      /\ increment(writeIndex) # readIndex
      /\ items[writeIndex] = pushing /\ pushing \in Items
      /\ writeIndex' = increment(writeIndex) /\ readIndex' = readIndex
      /\ items' = items
  BY DEF Inv, TypeOK, Claims, PublishItem
<1>2. /\ Length \in Nat /\ Length' = Length + 1
      /\ \A k \in 0..Length : Slot(k)' = Slot(k)
      /\ Slot(Length) = writeIndex
      /\ Length # Capacity - 1 /\ Length \in 0..(Capacity - 1)
  BY <1>1, SlotFacts, LengthAfterPublish, SpscAssumption
<1>3. Waiting' = Append(Waiting, pushing)
  <2>1. \A k \in 1..(Length + 1) : items'[Slot(k - 1)'] =
            IF k = Length + 1 THEN pushing ELSE items[Slot(k - 1)]
    <3> SUFFICES ASSUME NEW k \in 1..(Length + 1)
                 PROVE  items[Slot(k - 1)'] =
                          IF k = Length + 1 THEN pushing ELSE items[Slot(k - 1)]
      BY <1>1
    <3>1. k - 1 \in 0..Length /\ Slot(k - 1)' = Slot(k - 1)
      BY <1>2
    <3>2. CASE k = Length + 1
      BY <1>1, <1>2, <3>1, <3>2
    <3>3. CASE k # Length + 1
      BY <3>1, <3>3
    <3>4. QED BY <3>2, <3>3
  <2>2. Waiting' = [k \in 1..(Length + 1) |->
                      IF k = Length + 1 THEN pushing ELSE items[Slot(k - 1)]]
    BY <1>2, <2>1 DEF Waiting
  <2>3. Append(Waiting, pushing) = [k \in 1..(Length + 1) |->
                      IF k = Length + 1 THEN pushing ELSE items[Slot(k - 1)]]
    BY <1>2, WaitingFacts, Z3 DEF Waiting
  <2>4. QED BY <2>2, <2>3
<1>4. Queue!Put(pushing)
  BY <1>1, <1>2, <1>3, WaitingFacts, SpscAssumption
  DEF PublishItem, consumerVars, Queue!Put
<1>5. QED BY <1>1, <1>4 DEF Queue!QueueNext

\* The store of readIndex takes the oldest item, the one that was copied.
LEMMA ReleaseSlotRefines ==
  ASSUME Inv, ReleaseSlot
  PROVE  [Queue!QueueNext]_(Queue!queueVars)
<1>1. /\ readIndex \in Indices /\ writeIndex \in Indices
      /\ readIndex # writeIndex /\ item = items[readIndex]
      /\ readIndex' = increment(readIndex) /\ writeIndex' = writeIndex
      /\ items' = items
  BY DEF Inv, TypeOK, Claims, ReleaseSlot
<1>2. /\ Length \in Nat /\ Length' = Length - 1 /\ Length # 0
      /\ \A k \in 0..(Length - 1) : Slot(k)' = Slot(k + 1)
      /\ Slot(0) = readIndex
  BY <1>1, SlotFacts, LengthAfterRelease, SpscAssumption
<1>3. Waiting # <<>> /\ Head(Waiting) = item
  BY <1>1, <1>2, WaitingFacts
<1>4. Waiting' = Tail(Waiting)
  <2>1. \A k \in 1..(Length - 1) : items'[Slot(k - 1)'] = items[Slot(k)]
    <3> SUFFICES ASSUME NEW k \in 1..(Length - 1)
                 PROVE  items[Slot(k - 1)'] = items[Slot(k)]
      BY <1>1
    <3>1. k - 1 \in 0..(Length - 1) /\ (k - 1) + 1 = k
      BY <1>2
    <3>2. QED BY <1>2, <3>1
  <2>2. Waiting' = [k \in 1..(Length - 1) |-> items[Slot(k)]]
    BY <1>2, <2>1 DEF Waiting
  <2>3. Tail(Waiting) = [k \in 1..(Length - 1) |-> items[Slot(k)]]
    <3>1. /\ Tail(Waiting) \in Seq(Items) /\ Len(Tail(Waiting)) = Length - 1
          /\ \A k \in 1..(Length - 1) : Tail(Waiting)[k] = Waiting[k + 1]
      <4>1. Len(Waiting) = Length /\ Waiting \in Seq(Items)
        BY WaitingFacts
      <4>2. QED BY <4>1, <1>3, HeadTailProperties
    <3>2. \A k \in 1..(Length - 1) : Waiting[k + 1] = items[Slot(k)]
      BY <1>2, WaitingFacts
    <3> DEFINE rest == [k \in 1..(Length - 1) |-> items[Slot(k)]]
    <3>3. /\ rest \in Seq(Items) /\ Len(rest) = Length - 1
          /\ \A k \in 1..(Length - 1) : Tail(Waiting)[k] = rest[k]
      BY <1>2, <3>1, <3>2
    <3> HIDE DEF rest
    <3>4. Tail(Waiting) = rest
      BY <3>1, <3>3, SeqEqual
    <3>5. QED BY <3>4 DEF rest
  <2>4. QED BY <2>2, <2>3
<1>5. Queue!Take
  BY <1>3, <1>4 DEF ReleaseSlot, producerVars, Queue!Take
<1>6. QED BY <1>5 DEF Queue!QueueNext

\* Every step of the ring is a step of the queue or changes nothing of it.
LEMMA QueueNextRefines ==
  ASSUME Inv, Inv', [Next]_vars
  PROVE  [Queue!QueueNext]_(Queue!queueVars)
<1>1. CASE UNCHANGED vars
  BY <1>1 DEF vars, Queue!queueVars, Waiting, Length, Slot
<1>2. CASE WriteItem
  <2>1. Waiting' = Waiting
    BY <1>2, WaitingStays DEF WriteItem, Inv, TypeOK
  <2>2. QED BY <1>2, <2>1 DEF WriteItem, consumerVars, Queue!queueVars
<1>3. CASE CopyItem
  <2>1. Waiting' = Waiting
    BY <1>3, WaitingStays DEF CopyItem
  <2>2. QED BY <1>3, <2>1 DEF CopyItem, producerVars, Queue!queueVars
<1>4. CASE ProducerStep
  BY <1>2, <1>4, BeginPushRefines, PublishItemRefines DEF ProducerStep
<1>5. CASE ConsumerStep
  BY <1>3, <1>5, BeginPopRefines, ReleaseSlotRefines DEF ConsumerStep
<1>6. QED BY <1>1, <1>4, <1>5 DEF Next

\* The ring is a bounded first-in first-out queue for any capacity and items.
THEOREM QueueRefinement == Spec => ImplementsBoundedQueue
<1>1. Inv /\ Inv' /\ [Next]_vars => [Queue!QueueNext]_(Queue!queueVars)
  BY QueueNextRefines
<1>2. QED
  BY <1>1, QueueInitRefines, QueueInvariance, PTL
  DEF Spec, ImplementsBoundedQueue, Queue!QueueSpec

------------------------------------------------------------------------------
(* DryDelay *)

\* The modulo of the ring: an index below twice the capacity wraps once.
LEMMA Wrap ==
  ASSUME NEW c \in Nat \ {0}, NEW i \in 0..(2 * c - 1)
  PROVE  i % c = IF i < c THEN i ELSE i - c
  OBVIOUS

\* The place j frames on from place f.
LEMMA PlaceOn ==
  ASSUME NEW c \in Nat \ {0}, NEW f \in 0..(c - 1), NEW j \in 0..(c - 1)
  PROVE  (f + j) % c = IF f + j < c THEN f + j ELSE f + j - c
<1>1. CASE f + j < c
  BY <1>1
<1>2. CASE f + j >= c
  <2>1. f + j - c \in 0..(c - 1)
    BY <1>2
  <2>2. (f + j) % c = f + j - c
    BY <2>1
  <2>3. QED BY <1>2, <2>2
<1>3. QED BY <1>1, <1>2

\* The cursor after a frame.
LEMMA PlaceNext ==
  ASSUME NEW c \in Nat \ {0}, NEW w \in 0..(c - 1)
  PROVE  /\ (w + 1) % c = IF w + 1 < c THEN w + 1 ELSE w + 1 - c
         /\ (w + 1) % c \in 0..(c - 1)
  OBVIOUS

\* The place of the k-th latest frame, without the modulo.
LEMMA Place ==
  ASSUME NEW c \in Nat \ {0}, NEW w \in 0..(c - 1), NEW k \in 1..c
  PROVE  /\ (w + c - k) % c = IF k <= w THEN w - k ELSE w + c - k
         /\ (w + c - k) % c \in 0..(c - 1)
<1>1. w + c - k \in 0..(2 * c - 1)
  OBVIOUS
<1>2. (w + c - k) % c = IF w + c - k < c THEN w + c - k ELSE w + c - k - c
  BY <1>1, Wrap
<1>3. QED BY <1>2

\* Counting on from the oldest kept frame reaches the k-th latest one.
LEMMA OldestPlace ==
  ASSUME NEW c \in Nat \ {0}, NEW w \in 0..(c - 1), NEW h \in 1..c, NEW k \in 1..h
  PROVE  (((w + c - h) % c) + (h - k)) % c = (w + c - k) % c
<1> DEFINE first == (w + c - h) % c
<1>1. first = (IF h <= w THEN w - h ELSE w + c - h) /\ first \in 0..(c - 1)
  BY Place
<1>2. h - k \in 0..(c - 1)
  OBVIOUS
<1>3. (first + (h - k)) % c = IF first + (h - k) < c THEN first + (h - k)
                             ELSE first + (h - k) - c
  <2> HIDE DEF first
  <2>1. QED BY <1>1, <1>2, PlaceOn
<1>4. (w + c - k) % c = IF k <= w THEN w - k ELSE w + c - k
  BY Place
<1>5. QED BY <1>1, <1>3, <1>4

\* Advancing the cursor moves every kept frame one place further back, and the
\* place it leaves is none of theirs.
LEMMA AdvancedPlace ==
  ASSUME NEW c \in Nat \ {0}, NEW w \in 0..(c - 1), NEW k \in 1..c
  PROVE  /\ (w + 1) % c \in 0..(c - 1)
         /\ k = 1 => (((w + 1) % c) + c - k) % c = w
         /\ k > 1 => /\ (((w + 1) % c) + c - k) % c = (w + c - (k - 1)) % c
                     /\ (w + c - (k - 1)) % c # w
<1> DEFINE v == (w + 1) % c
<1>1. v = (IF w + 1 < c THEN w + 1 ELSE w + 1 - c) /\ v \in 0..(c - 1)
  BY PlaceNext
<1>2. (v + c - k) % c = IF k <= v THEN v - k ELSE v + c - k
  <2> HIDE DEF v
  <2>1. QED BY <1>1, Place
<1>3. CASE k = 1
  BY <1>1, <1>2, <1>3
<1>4. CASE k > 1
  <2>1. k - 1 \in 1..c
    BY <1>4
  <2>2. (w + c - (k - 1)) % c = IF k - 1 <= w THEN w - (k - 1) ELSE w + c - (k - 1)
    BY <2>1, Place
  <2>3. QED BY <1>1, <1>2, <1>4, <2>2
<1>5. QED BY <1>1, <1>3, <1>4

-----------------------------------------------------------------------------
(* The inductive invariant.                                                 *)

LEMMA DelayInitInv == DelayInit => DelayInv
  BY DelayAssumption DEF DelayInit, DelayInv, DelayTypeOK, HoldsLatest, Delays, None, Zeros

\* A line that was cleared holds nothing.
LEMMA PrepareInv ==
  ASSUME DelayInv, NEW delay \in Delays, Prepare(delay)
  PROVE  DelayInv'
  BY DelayAssumption DEF DelayInv, DelayTypeOK, HoldsLatest, Delays, None, Zeros, Prepare,
     Cleared, NoBlock

LEMMA ResetInv ==
  ASSUME DelayInv, Reset
  PROVE  DelayInv'
  BY DelayAssumption DEF DelayInv, DelayTypeOK, HoldsLatest, Delays, None, Zeros, Reset,
     Cleared, NoBlock

\* What a growing line copies is what it held.
LEMMA GrownHolds ==
  ASSUME DelayInv, NEW delay \in Delays, Retune(delay), delay + 1 > capacityFrames,
         capacityFrames > 0
  PROVE  /\ historyFrames' = historyFrames /\ writeFrame' = historyFrames
         /\ \A k \in 1..historyFrames :
              history'[(writeFrame' + capacityFrames' - k) % capacityFrames']
                = history[(writeFrame + capacityFrames - k) % capacityFrames]
<1> DEFINE c == capacityFrames
<1>0. /\ c \in Nat \ {0} /\ delay \in Nat /\ capacityFrames' = delay + 1
      /\ historyFrames \in 0..c /\ writeFrame \in 0..(c - 1)
  BY DelayAssumption DEF DelayInv, DelayTypeOK, Delays, Retune
<1>1. Least(historyFrames, delay + 1) = historyFrames /\ historyFrames < delay + 1
  BY <1>0 DEF Least
<1>2. historyFrames' = historyFrames /\ writeFrame' = historyFrames
  <2>1. historyFrames % (delay + 1) = historyFrames
    BY <1>0, <1>1
  <2>2. QED BY <1>0, <1>1, <2>1 DEF Retune
<1>3. ASSUME NEW k \in 1..historyFrames
      PROVE  history'[(writeFrame' + capacityFrames' - k) % capacityFrames']
               = history[(writeFrame + c - k) % c]
  <2>1. (historyFrames + (delay + 1) - k) % (delay + 1) = historyFrames - k
    BY <1>0, <1>1, Place
  <2>2. history'[historyFrames - k] = KeptFrame(historyFrames, historyFrames - k)
    BY <1>0, <1>1 DEF Retune
  <2>3. KeptFrame(historyFrames, historyFrames - k)
          = history[(((writeFrame + c - historyFrames) % c) + (historyFrames - k)) % c]
    BY DEF KeptFrame
  <2>4. (((writeFrame + c - historyFrames) % c) + (historyFrames - k)) % c
          = (writeFrame + c - k) % c
    BY <1>0, OldestPlace
  <2>5. QED BY <1>0, <1>2, <2>1, <2>2, <2>3, <2>4
<1>4. QED BY <1>2, <1>3

LEMMA RetuneInv ==
  ASSUME DelayInv, NEW delay \in Delays, Retune(delay), capacityFrames > 0,
         update' = None, NoBlock
  PROVE  DelayInv'
<1>1. CASE delay + 1 <= capacityFrames
  <2>1. /\ delayFrames' = delay /\ delay \in Delays /\ delay < capacityFrames
        /\ UNCHANGED <<history, capacityFrames, writeFrame, historyFrames, output,
                       framesLeft, past>>
    BY <1>1, DelayAssumption DEF DelayInv, DelayTypeOK, Delays, Retune
  <2>2. HoldsLatest'
    BY <2>1 DEF DelayInv, HoldsLatest
  <2>3. DelayTypeOK'
    BY <2>1 DEF DelayInv, DelayTypeOK
  <2> QED BY <2>1, <2>2, <2>3 DEF DelayInv
<1>2. CASE delay + 1 > capacityFrames
  <2>1. /\ historyFrames' = historyFrames /\ writeFrame' = historyFrames
        /\ capacityFrames' = delay + 1 /\ delayFrames' = delay
        /\ UNCHANGED <<output, framesLeft, past>>
        /\ historyFrames \in 0..capacityFrames /\ delay \in 0..MaxDelay
    BY <1>2, GrownHolds DEF Retune, DelayInv, DelayTypeOK, Delays
  <2>2. \A i \in 0..delay : i < historyFrames =>
          KeptFrame(historyFrames, i) \in Frames \union {Silence}
    <3> SUFFICES ASSUME NEW i \in 0..delay, i < historyFrames
                 PROVE  KeptFrame(historyFrames, i) \in Frames \union {Silence}
      OBVIOUS
    <3>1. /\ capacityFrames \in Nat \ {0} /\ writeFrame \in 0..(capacityFrames - 1)
          /\ historyFrames \in 1..capacityFrames /\ historyFrames - i \in 1..historyFrames
      BY <2>1, DelayAssumption DEF DelayInv, DelayTypeOK
    <3>2. (((writeFrame + capacityFrames - historyFrames) % capacityFrames)
             + (historyFrames - (historyFrames - i))) % capacityFrames
            \in 0..(capacityFrames - 1)
      BY <3>1, OldestPlace, Place
    <3>3. historyFrames - (historyFrames - i) = i
      BY <3>1
    <3>4. QED BY <3>1, <3>2, <3>3 DEF KeptFrame, DelayInv, DelayTypeOK
  <2>3. history' \in [0..(capacityFrames' - 1) -> Frames \union {Silence}]
    <3>1. Least(historyFrames, delay + 1) = historyFrames
      BY <1>2, <2>1, DelayAssumption DEF Least, DelayInv, DelayTypeOK
    <3>2. history' = [i \in 0..delay |-> IF i < historyFrames
                                          THEN KeptFrame(historyFrames, i) ELSE Silence]
      BY <1>2, <3>1 DEF Retune, DelayInv, DelayTypeOK, Delays
    <3>3. capacityFrames' - 1 = delay
      BY <2>1, DelayAssumption
    <3>4. QED BY <2>2, <3>2, <3>3
  <2>4. DelayTypeOK'
    BY <1>2, <2>1, <2>3, DelayAssumption DEF DelayInv, DelayTypeOK, Delays, None, NoBlock
  <2>5. HoldsLatest'
    BY <1>2, <2>1, GrownHolds DEF DelayInv, HoldsLatest
  <2>6. QED BY <2>1, <2>4, <2>5, DelayAssumption DEF DelayInv
<1>3. QED BY <1>1, <1>2, DelayAssumption DEF DelayInv, DelayTypeOK, Delays

\* The frame written becomes the latest, and the others one older.
LEMMA ProcessFrameInv ==
  ASSUME DelayInv, NEW input \in Frames, ProcessFrame(input)
  PROVE  DelayInv'
<1> DEFINE c == capacityFrames
<1>1. /\ c \in Nat \ {0} /\ writeFrame \in 0..(c - 1) /\ historyFrames \in 0..c
      /\ past \in Seq(Frames) /\ capacityFrames' = c
      /\ history \in [0..(c - 1) -> Frames \union {Silence}]
      /\ delayFrames \in 0..MaxDelay /\ framesLeft \in 1..MaxBlock
  BY DelayAssumption DEF DelayInv, DelayTypeOK, ProcessFrame, Delays
<1>2. writeFrame' = (writeFrame + 1) % c /\ writeFrame' \in 0..(c - 1)
  BY <1>1, AdvancedPlace DEF ProcessFrame, NextWriteFrame
<1>3. historyFrames' \in 0..c /\ historyFrames' <= historyFrames + 1
  BY <1>1 DEF ProcessFrame, Least
<1>4. /\ past' \in Seq(Frames) /\ Len(past') = Len(past) + 1
      /\ past'[Len(past')] = input
      /\ \A i \in 1..Len(past) : past'[i] = past[i]
  BY <1>1 DEF ProcessFrame
<1>5. /\ history' \in [0..(c - 1) -> Frames \union {Silence}]
      /\ history'[writeFrame] = input
      /\ \A i \in 0..(c - 1) : i # writeFrame => history'[i] = history[i]
  BY <1>1 DEF ProcessFrame
<1>6. output' \in Frames \union {Silence}
  <2>1. CASE delayFrames = 0 \/ historyFrames < delayFrames
    BY <1>1, <2>1 DEF ProcessFrame
  <2>2. CASE delayFrames > 0 /\ historyFrames >= delayFrames
    <3>1. (writeFrame + c - delayFrames) % c \in 0..(c - 1)
      BY <1>1, <2>2, Place
    <3>2. QED BY <1>1, <2>2, <3>1 DEF ProcessFrame, ReadFrame
  <2>3. QED BY <1>1, <2>1, <2>2
<1>7. DelayTypeOK'
  BY <1>1, <1>2, <1>3, <1>4, <1>5, <1>6, DelayAssumption
     DEF DelayInv, DelayTypeOK, Delays, ProcessFrame
<1>8. HoldsLatest'
  <2>1. historyFrames' <= Len(past')
    BY <1>1, <1>3, <1>4 DEF DelayInv, HoldsLatest
  <2>2. ASSUME NEW k \in 1..historyFrames'
        PROVE  history'[(writeFrame' + c - k) % c] = past'[Len(past') + 1 - k]
    <3>1. CASE k = 1
      <4>1. (writeFrame' + c - k) % c = writeFrame
        BY <1>1, <1>2, <3>1, AdvancedPlace, 1 \in 1..c
      <4>2. QED BY <1>1, <1>4, <1>5, <3>1, <4>1
    <3>2. CASE k > 1
      <4>1. k - 1 \in 1..historyFrames /\ k \in 1..c
        BY <1>1, <1>3, <3>2
      <4>2. /\ (writeFrame' + c - k) % c = (writeFrame + c - (k - 1)) % c
            /\ (writeFrame + c - (k - 1)) % c # writeFrame
        BY <1>1, <1>2, <3>2, <4>1, AdvancedPlace
      <4>3. (writeFrame + c - (k - 1)) % c \in 0..(c - 1)
        BY <1>1, <4>1, Place
      <4>4. history[(writeFrame + c - (k - 1)) % c] = past[Len(past) + 1 - (k - 1)]
        BY <4>1 DEF DelayInv, HoldsLatest
      <4>5. Len(past) + 1 - (k - 1) \in 1..Len(past)
        BY <1>1, <4>1 DEF DelayInv, HoldsLatest
      <4>6. Len(past') + 1 - k = Len(past) + 1 - (k - 1)
        BY <1>1, <1>4, <4>1
      <4>7. QED BY <1>4, <1>5, <4>2, <4>3, <4>4, <4>5, <4>6
    <3>3. QED BY <1>3, <3>1, <3>2
  <2>3. QED BY <1>1, <2>1, <2>2 DEF HoldsLatest
<1>9. QED BY <1>1, <1>7, <1>8 DEF DelayInv, ProcessFrame

LEMMA DelayNextInv == DelayInv /\ [DelayNext]_delayVars => DelayInv'
<1> SUFFICES ASSUME DelayInv, [DelayNext]_delayVars PROVE DelayInv'
  OBVIOUS
<1>1. ASSUME NEW delay \in Delays, Prepare(delay) PROVE DelayInv'
  BY <1>1, PrepareInv
<1>2. ASSUME NEW delay \in Delays, PrepareUpdate(delay) PROVE DelayInv'
  BY <1>2, DelayAssumption DEF PrepareUpdate, DelayInv, DelayTypeOK, HoldsLatest, Delays, None
<1>3. ASSUME NEW delay \in Delays, SetDelay(delay) PROVE DelayInv'
  BY <1>3, RetuneInv DEF SetDelay
<1>4. CASE Reset
  BY <1>4, ResetInv
<1>5. CASE ApplyUpdate
  BY <1>5, RetuneInv DEF ApplyUpdate, DelayInv, DelayTypeOK
<1>6. ASSUME NEW frames \in 1..MaxBlock, BeginProcess(frames) PROVE DelayInv'
  BY <1>6, DelayAssumption DEF BeginProcess, DelayInv, DelayTypeOK, HoldsLatest
<1>7. ASSUME NEW input \in Frames, ProcessFrame(input) PROVE DelayInv'
  BY <1>7, ProcessFrameInv
<1>8. CASE UNCHANGED delayVars
  BY <1>8 DEF delayVars, DelayInv, DelayTypeOK, HoldsLatest
<1>9. QED BY <1>1, <1>2, <1>3, <1>4, <1>5, <1>6, <1>7, <1>8 DEF DelayNext

\* The ring of the bypass path always holds the latest frames of its input.
THEOREM DelayInvariance == DelaySpec => []DelayInv
  BY DelayInitInv, DelayNextInv, PTL DEF DelaySpec

-----------------------------------------------------------------------------
(* The refinement.                                                          *)

LEMMA DelayInitRefines == DelayInit => Line!LineInit
  BY DEF DelayInit, Line!LineInit

\* Both ways of changing the delay keep what is held.
LEMMA RetuneRefines ==
  ASSUME DelayInv, NEW delay \in Delays, Retune(delay), capacityFrames > 0
  PROVE  Line!ChangeDelay(delay)
<1>1. CASE delay + 1 <= capacityFrames
  BY <1>1, DelayAssumption DEF Retune, Line!ChangeDelay, DelayInv, DelayTypeOK, Delays
<1>2. CASE delay + 1 > capacityFrames
  BY <1>2, GrownHolds, DelayAssumption DEF Retune, Line!ChangeDelay, DelayInv, DelayTypeOK, Delays
<1>3. QED BY <1>1, <1>2, DelayAssumption DEF DelayInv, DelayTypeOK, Delays

\* The frame that is read is the one that went in `delay' frames ago.
LEMMA ProcessFrameRefines ==
  ASSUME DelayInv, NEW input \in Frames, ProcessFrame(input)
  PROVE  Line!Pass(input)
<1>1. /\ capacityFrames \in Nat \ {0} /\ historyFrames \in Nat
      /\ delayFrames \in Nat /\ past \in Seq(Frames)
  BY DelayAssumption DEF DelayInv, DelayTypeOK, ProcessFrame, Delays
<1>2. output' = IF delayFrames = 0 THEN input
                ELSE IF historyFrames >= delayFrames
                  THEN past[Len(past) - delayFrames + 1] ELSE Silence
  <2>1. CASE delayFrames > 0 /\ historyFrames >= delayFrames
    <3>1. ReadFrame = past[Len(past) + 1 - delayFrames]
      BY <1>1, <2>1 DEF ReadFrame, DelayInv, HoldsLatest
    <3>2. Len(past) + 1 - delayFrames = Len(past) - delayFrames + 1
      BY <1>1
    <3>3. QED BY <1>1, <2>1, <3>1, <3>2 DEF ProcessFrame
  <2>2. CASE delayFrames = 0 \/ historyFrames < delayFrames
    BY <1>1, <2>2 DEF ProcessFrame
  <2>3. QED BY <1>1, <2>1, <2>2
<1>3. historyFrames' = Line!Least(historyFrames + 1, capacityFrames)
  BY DEF ProcessFrame, Least, Line!Least
<1>4. QED BY <1>1, <1>2, <1>3 DEF ProcessFrame, Line!Pass

LEMMA DelayNextRefines == DelayInv /\ [DelayNext]_delayVars => [Line!LineNext]_(Line!lineVars)
<1> SUFFICES ASSUME DelayInv, [DelayNext]_delayVars PROVE [Line!LineNext]_(Line!lineVars)
  OBVIOUS
<1>1. ASSUME NEW delay \in Delays, Prepare(delay) PROVE Line!LineNext
  BY <1>1 DEF Prepare, Cleared, Line!LineNext, Line!Renew
<1>2. ASSUME NEW delay \in Delays, PrepareUpdate(delay) PROVE UNCHANGED Line!lineVars
  BY <1>2 DEF PrepareUpdate, Line!lineVars
<1>3. ASSUME NEW delay \in Delays, SetDelay(delay) PROVE Line!LineNext
  BY <1>3, RetuneRefines DEF SetDelay, Line!LineNext
<1>4. CASE Reset
  BY <1>4 DEF Reset, Cleared, Line!LineNext, Line!Clear
<1>5. CASE ApplyUpdate
  BY <1>5, RetuneRefines DEF ApplyUpdate, DelayInv, DelayTypeOK, Line!LineNext
<1>6. ASSUME NEW frames \in 1..MaxBlock, BeginProcess(frames)
      PROVE  UNCHANGED Line!lineVars
  BY <1>6 DEF BeginProcess, Line!lineVars
<1>7. ASSUME NEW input \in Frames, ProcessFrame(input) PROVE Line!LineNext
  BY <1>7, ProcessFrameRefines DEF Line!LineNext
<1>8. CASE UNCHANGED delayVars
  BY <1>8 DEF delayVars, Line!lineVars
<1>9. QED BY <1>1, <1>2, <1>3, <1>4, <1>5, <1>6, <1>7, <1>8 DEF DelayNext

\* DryDelayLine implements the delay it promises: what comes out of the bypass
\* path is what went in `delay' frames ago, whatever was done to the line.
THEOREM DelayRefinement == DelaySpec => ImplementsDelayLine
<1>1. DelayInv /\ DelayInv' /\ [DelayNext]_delayVars => [Line!LineNext]_(Line!lineVars)
  BY DelayNextRefines
<1>2. QED BY <1>1, DelayInitRefines, DelayInvariance, PTL DEF DelaySpec, ImplementsDelayLine, Line!LineSpec

------------------------------------------------------------------------------
(* SeqlockSnapshot *)

ReaderKind ==
    [at : {"idle", "attempt", "fields", "captured", "omitted"}, sequence : Nat,
     copy : [Fields -> Nat], copied : SUBSET Fields, attempts : Nat, since : Nat]

SnapshotTypeOK ==
    /\ sequence \in Nat
    /\ field \in [Fields -> Nat]
    /\ unwritten \in SUBSET Fields
    /\ reader \in [Readers -> ReaderKind]

\* A field is of the publication under way once it is written, and of the one
\* before until then; between publications there is nothing to write.
FieldsInv ==
    /\ unwritten # {} => Odd(sequence)
    /\ \A f \in Fields :
          field[f] = IF f \in unwritten THEN Complete ELSE Publication

\* As long as the number has not moved, what a reader has copied is of the
\* publication the number stands for.
AttemptInv(r) ==
    reader[r].at = "fields" =>
       /\ ~Odd(reader[r].sequence)
       /\ reader[r].sequence <= sequence
       /\ 2 * reader[r].since <= reader[r].sequence
       /\ reader[r].sequence = sequence =>
             \A f \in reader[r].copied : reader[r].copy[f] = Complete

CapturedInv(r) ==
    reader[r].at = "captured" =>
       \E n \in reader[r].since .. Publication : \A f \in Fields : reader[r].copy[f] = n

ReadersInv ==
    \A r \in Readers :
       2 * reader[r].since <= sequence /\ AttemptInv(r) /\ CapturedInv(r)

SnapshotInv == SnapshotTypeOK /\ FieldsInv /\ ReadersInv

\* The two halves of the number.
LEMMA Halves ==
    ASSUME NEW n \in Nat
    PROVE  /\ n \div 2 \in Nat /\ (n + 1) \div 2 \in Nat
           /\ Odd(n) => ~Odd(n + 1) /\ (n + 1) \div 2 = n \div 2 + 1
                        /\ (n + 2) \div 2 = (n + 1) \div 2
           /\ ~Odd(n) => Odd(n + 1) /\ (n + 1) \div 2 = n \div 2 /\ 2 * (n \div 2) = n
                         /\ (n + 2) \div 2 = n \div 2 + 1
           /\ 2 * (n \div 2) <= n
           /\ (n + 2) \div 2 >= (n + 1) \div 2
BY DEF Odd

\* A new number ends what the readers have copied under the old one.
LEMMA ReadersKept ==
    ASSUME SnapshotInv, UNCHANGED reader, sequence' = sequence + 1
    PROVE  ReadersInv'
<1> SUFFICES ASSUME NEW r \in Readers
             PROVE  (2 * reader[r].since <= sequence /\ AttemptInv(r) /\ CapturedInv(r))'
    BY DEF ReadersInv
<1>1. /\ sequence \in Nat /\ reader[r] \in ReaderKind
      /\ 2 * reader[r].since <= sequence /\ AttemptInv(r) /\ CapturedInv(r)
    BY DEF SnapshotInv, SnapshotTypeOK, ReadersInv
<1>2. 2 * reader[r].since <= sequence + 1
    BY <1>1 DEF ReaderKind
<1>3. AttemptInv(r)'
    BY <1>1 DEF AttemptInv, ReaderKind
<1>4. CapturedInv(r)'
    <2>1. Publication \in Nat /\ Publication' \in Nat /\ Publication <= Publication'
        BY <1>1, Halves DEF Publication
    <2>2. reader[r].since .. Publication \subseteq reader[r].since .. Publication'
        BY <1>1, <2>1 DEF ReaderKind
    <2>3. QED BY <1>1, <2>2 DEF CapturedInv
<1>5. QED BY <1>2, <1>3, <1>4

\* The publisher.
LEMMA PublisherInv ==
    ASSUME SnapshotInv, BeginPublication \/ WriteField \/ EndPublication
    PROVE  SnapshotInv'
<1>1. CASE BeginPublication
    <2>1. SnapshotTypeOK'
        BY <1>1 DEF BeginPublication, SnapshotInv, SnapshotTypeOK
    <2>2. unwritten = {}
        BY <1>1 DEF BeginPublication, SnapshotInv, FieldsInv
    <2>3. Odd(sequence') /\ Complete' = Publication
        BY <1>1, Halves DEF BeginPublication, SnapshotInv, SnapshotTypeOK, Complete, Publication
    <2>4. FieldsInv'
        BY <1>1, <2>2, <2>3 DEF BeginPublication, SnapshotInv, FieldsInv
    <2>5. QED BY <1>1, <2>1, <2>4, ReadersKept DEF BeginPublication, SnapshotInv
<1>2. CASE WriteField
    <2>1. PICK f \in unwritten :
             field' = [field EXCEPT ![f] = Publication] /\ unwritten' = unwritten \ {f}
        BY <1>2 DEF WriteField
    <2>2. /\ UNCHANGED <<sequence, reader>> /\ f \in Fields /\ Odd(sequence)
          /\ sequence \in Nat
        BY <1>2, <2>1 DEF WriteField, SnapshotInv, SnapshotTypeOK, FieldsInv
    <2>3. Publication \in Nat /\ Publication' = Publication /\ Complete' = Complete
        BY <2>2, Halves DEF Publication, Complete
    <2>4. SnapshotTypeOK'
        BY <2>1, <2>2, <2>3 DEF SnapshotInv, SnapshotTypeOK
    <2>5. FieldsInv'
        BY <2>1, <2>2, <2>3 DEF SnapshotInv, SnapshotTypeOK, FieldsInv
    <2>6. ReadersInv'
        BY <2>2, <2>3 DEF SnapshotInv, ReadersInv, AttemptInv, CapturedInv
    <2>7. QED BY <2>4, <2>5, <2>6 DEF SnapshotInv
<1>3. CASE EndPublication
    <2>1. SnapshotTypeOK'
        BY <1>3 DEF EndPublication, SnapshotInv, SnapshotTypeOK
    <2>2. Publication' = Publication
        BY <1>3, Halves DEF EndPublication, SnapshotInv, SnapshotTypeOK, Publication
    <2>3. FieldsInv'
        BY <1>3, <2>2 DEF EndPublication, SnapshotInv, FieldsInv
    <2>4. QED BY <1>3, <2>1, <2>3, ReadersKept DEF EndPublication, SnapshotInv
<1>4. QED BY <1>1, <1>2, <1>3

\* A reader changes nothing but its own read.
LEMMA ReaderInv ==
    ASSUME SnapshotInv, NEW r \in Readers, NEW new \in ReaderKind,
           reader' = [reader EXCEPT ![r] = new],
           UNCHANGED <<sequence, field, unwritten>>,
           (2 * reader[r].since <= sequence /\ AttemptInv(r) /\ CapturedInv(r))'
    PROVE  SnapshotInv'
<1>1. SnapshotTypeOK' /\ FieldsInv'
    BY DEF SnapshotInv, SnapshotTypeOK, FieldsInv, Publication, Complete
<1>2. ASSUME NEW s \in Readers
      PROVE  (2 * reader[s].since <= sequence /\ AttemptInv(s) /\ CapturedInv(s))'
    <2>1. CASE s = r
        BY <2>1
    <2>2. CASE s # r
        <3>1. reader'[s] = reader[s]
            BY <2>2 DEF SnapshotInv, SnapshotTypeOK
        <3>2. QED BY <3>1 DEF SnapshotInv, ReadersInv, AttemptInv, CapturedInv, Complete,
                              Publication
    <2>3. QED BY <2>1, <2>2
<1>3. QED BY <1>1, <1>2 DEF SnapshotInv, ReadersInv

\* An attempt that failed leaves no claim about what was copied.
LEMMA FailedFacts ==
    ASSUME SnapshotInv, NEW r \in Readers
    PROVE  /\ Failed(r) \in ReaderKind /\ Failed(r).at \in {"attempt", "omitted"}
           /\ Failed(r).since = reader[r].since
<1>1. reader[r] \in ReaderKind
    BY DEF SnapshotInv, SnapshotTypeOK
<1>2. CASE r \in HastyReaders
    <2> DEFINE spent == reader[r].attempts + 1
               at == IF spent = MaxAttempts THEN "omitted" ELSE "attempt"
    <2>1. at \in {"attempt", "omitted"} /\ spent \in Nat
        BY <1>1 DEF ReaderKind
    <2>2. Failed(r) = [reader[r] EXCEPT !.attempts = spent, !.at = at]
        BY <1>2 DEF Failed
    <2> HIDE DEF spent, at
    <2>3. QED BY <1>1, <2>1, <2>2 DEF ReaderKind
<1>3. CASE r \notin HastyReaders
    <2>1. Failed(r) = [reader[r] EXCEPT !.at = "attempt"]
        BY <1>3 DEF Failed
    <2>2. QED BY <1>1, <2>1 DEF ReaderKind
<1>4. QED BY <1>2, <1>3

\* The steps of a read.
LEMMA ReadInv ==
    ASSUME SnapshotInv, NEW r \in Readers,
           StartRead(r) \/ LoadSequence(r) \/ CopyField(r) \/ Confirm(r)
    PROVE  SnapshotInv'
<1>1. /\ reader[r] \in ReaderKind /\ reader \in [Readers -> ReaderKind] /\ sequence \in Nat
      /\ 2 * reader[r].since <= sequence /\ AttemptInv(r) /\ CapturedInv(r)
    BY DEF SnapshotInv, SnapshotTypeOK, ReadersInv
<1>2. Complete \in Nat /\ Publication \in Nat /\ 2 * Complete <= sequence
    BY <1>1, Halves DEF Complete, Publication
<1>3. CASE StartRead(r)
    <2> DEFINE new == [NotReading EXCEPT !.at = "attempt", !.since = Complete]
    <2>0. NotReading \in ReaderKind
        BY DEF NotReading, ReaderKind
    <2>1. new \in ReaderKind /\ new.at = "attempt" /\ new.since = Complete
        BY <1>2, <2>0 DEF ReaderKind
    <2>2. reader' = [reader EXCEPT ![r] = new] /\ UNCHANGED <<sequence, field, unwritten>>
        BY <1>3 DEF StartRead
    <2>3. reader'[r] = new
        BY <1>1, <2>2
    <2> HIDE DEF new
    <2>4. (2 * reader[r].since <= sequence /\ AttemptInv(r) /\ CapturedInv(r))'
        BY <1>2, <2>1, <2>2, <2>3 DEF AttemptInv, CapturedInv
    <2>5. QED BY <2>1, <2>2, <2>4, ReaderInv
<1>4. ASSUME reader' = [reader EXCEPT ![r] = Failed(r)], UNCHANGED <<sequence, field, unwritten>>
      PROVE  SnapshotInv'
    <2>1. reader'[r] = Failed(r)
        BY <1>1, <1>4
    <2>2. (2 * reader[r].since <= sequence /\ AttemptInv(r) /\ CapturedInv(r))'
        BY <1>1, <1>4, <2>1, FailedFacts DEF AttemptInv, CapturedInv
    <2>3. QED BY <1>4, <2>2, FailedFacts, ReaderInv
<1>5. CASE LoadSequence(r) /\ ~Odd(sequence)
    <2> DEFINE new == [reader[r] EXCEPT !.at = "fields", !.sequence = sequence, !.copied = {}]
    <2>1. /\ new \in ReaderKind /\ new.at = "fields" /\ new.sequence = sequence
          /\ new.copied = {} /\ new.since = reader[r].since
        BY <1>1 DEF ReaderKind
    <2>2. reader' = [reader EXCEPT ![r] = new] /\ UNCHANGED <<sequence, field, unwritten>>
        BY <1>5 DEF LoadSequence
    <2>3. reader'[r] = new
        BY <1>1, <2>2
    <2> HIDE DEF new
    <2>4. (2 * reader[r].since <= sequence /\ AttemptInv(r) /\ CapturedInv(r))'
        BY <1>1, <1>5, <2>1, <2>2, <2>3 DEF AttemptInv, CapturedInv, Odd
    <2>5. QED BY <2>1, <2>2, <2>4, ReaderInv
<1>6. CASE CopyField(r)
    <2>1. PICK f \in Fields \ reader[r].copied :
             reader' = [reader EXCEPT ![r].copy[f] = field[f], ![r].copied = @ \union {f}]
        BY <1>6 DEF CopyField
    <2> DEFINE new == [reader[r] EXCEPT !.copy = [reader[r].copy EXCEPT ![f] = field[f]],
                                        !.copied = reader[r].copied \union {f}]
    <2>2. field[f] \in Nat
        BY DEF SnapshotInv, SnapshotTypeOK
    <2>3. /\ new \in ReaderKind /\ new.at = "fields" /\ new.sequence = reader[r].sequence
          /\ new.copied = reader[r].copied \union {f} /\ new.since = reader[r].since
          /\ new.copy = [reader[r].copy EXCEPT ![f] = field[f]]
        BY <1>1, <1>6, <2>2 DEF ReaderKind, CopyField
    <2>4. reader' = [reader EXCEPT ![r] = new] /\ UNCHANGED <<sequence, field, unwritten>>
        BY <1>1, <1>6, <2>1 DEF CopyField, ReaderKind
    <2>5. reader'[r] = new
        BY <1>1, <2>4
    <2> HIDE DEF new
    <2>6. reader[r].sequence = sequence => field[f] = Complete
        <3>1. ~Odd(reader[r].sequence)
            BY <1>1, <1>6 DEF AttemptInv, CopyField
        <3>2. ~Odd(sequence) => Publication = Complete
            BY <1>1, Halves DEF Publication, Complete
        <3>3. QED BY <3>1, <3>2 DEF SnapshotInv, FieldsInv
    <2>7. \A g \in new.copied : new.copy[g] = IF g = f THEN field[f] ELSE reader[r].copy[g]
        BY <1>1, <2>3 DEF ReaderKind
    <2>8. (2 * reader[r].since <= sequence /\ AttemptInv(r) /\ CapturedInv(r))'
        BY <1>1, <1>6, <2>3, <2>4, <2>5, <2>6, <2>7
        DEF AttemptInv, CapturedInv, Complete, CopyField
    <2>9. QED BY <2>3, <2>4, <2>8, ReaderInv
<1>7. CASE Confirm(r) /\ UnchangedSince(r)
    <2> DEFINE new == [reader[r] EXCEPT !.at = "captured"]
    <2>1. /\ new \in ReaderKind /\ new.at = "captured" /\ new.since = reader[r].since
          /\ new.copy = reader[r].copy
        BY <1>1 DEF ReaderKind
    <2>2. reader' = [reader EXCEPT ![r] = new] /\ UNCHANGED <<sequence, field, unwritten>>
        BY <1>7 DEF Confirm
    <2>3. reader'[r] = new
        BY <1>1, <2>2
    <2> HIDE DEF new
    <2>4. /\ \A f \in Fields : reader[r].copy[f] = Complete
          /\ ~Odd(sequence)
        BY <1>1, <1>7 DEF Confirm, UnchangedSince, AttemptInv
    <2>5. Complete \in reader[r].since .. Publication
        BY <1>1, <1>2, <2>4, Halves DEF Complete, Publication, ReaderKind
    <2>6. (2 * reader[r].since <= sequence /\ AttemptInv(r) /\ CapturedInv(r))'
        BY <1>1, <2>1, <2>2, <2>3, <2>4, <2>5 DEF AttemptInv, CapturedInv, Publication
    <2>7. QED BY <2>1, <2>2, <2>6, ReaderInv
<1>8. QED BY <1>3, <1>4, <1>5, <1>6, <1>7 DEF LoadSequence, Confirm

\* readHostContext(), appendHostTransport() and the mixer's read() hand out one
\* publication, whole, and no older than the last that was complete when the
\* read began, however publications and reads overlap.
THEOREM SnapshotsAreCurrent == SnapshotSpec => []SnapshotIsCurrent
<1>1. SnapshotInit => SnapshotInv
    <2> SUFFICES ASSUME SnapshotInit PROVE SnapshotInv
        OBVIOUS
    <2>1. NotReading \in ReaderKind /\ NotReading.at = "idle" /\ NotReading.since = 0
        BY DEF NotReading, ReaderKind
    <2>2. Publication = 0 /\ Complete = 0
        BY DEF SnapshotInit, Publication, Complete
    <2>3. QED BY <2>1, <2>2 DEF SnapshotInit, SnapshotInv, SnapshotTypeOK, FieldsInv, ReadersInv,
                                AttemptInv, CapturedInv
<1>2. SnapshotInv /\ [SnapshotNext]_snapshotVars => SnapshotInv'
    <2> SUFFICES ASSUME SnapshotInv, [SnapshotNext]_snapshotVars PROVE SnapshotInv'
        OBVIOUS
    <2>1. CASE UNCHANGED snapshotVars
        BY <2>1 DEF snapshotVars, SnapshotInv, SnapshotTypeOK, FieldsInv, ReadersInv, AttemptInv,
                    CapturedInv, Publication, Complete
    <2>2. QED BY <2>1, PublisherInv, ReadInv DEF SnapshotNext
<1>3. SnapshotInv => SnapshotIsCurrent
    BY DEF SnapshotInv, ReadersInv, CapturedInv, SnapshotIsCurrent
<1>4. QED BY <1>1, <1>2, <1>3, PTL DEF SnapshotSpec

------------------------------------------------------------------------------
(* MidiTelemetry *)

\* What publishMidiTelemetry() puts on the queue.
Record == [generation : Nat, seconds : Nat, serial : Nat]

\* The kinds of the variables.
MidiTypeOK ==
  /\ midiTelemetry \in Seq(Record) /\ pendingMidiTelemetry \in SUBSET Record
  /\ midiGeneration \in Nat /\ midiPosition \in Nat
  /\ midiDroppedEvents \in BOOLEAN /\ midiResetRequested \in BOOLEAN
  /\ publisher \in {"idle", "push", "position", "generation"}
  /\ block \in [generation : Nat, left : Nat, lost : Nat, dropped : BOOLEAN]
  /\ poller \in {"idle", "position", "pop", "count"}
  /\ poll \in [generation : Nat, position : Nat, rows : SUBSET Record, index : Nat]
  /\ page \in [started : BOOLEAN, generation : Nat, applied : SUBSET Nat]
  /\ tags \in Seq(Nat \union {Lost})

\* The generation that the callback is at, whether it has stored it or not.
Latest == IF publisher = "idle" THEN midiGeneration ELSE block.generation

\* The records that no poll has looked at and let go.
Unread == pendingMidiTelemetry \union {midiTelemetry[k] : k \in DOMAIN midiTelemetry}

\* Their places in the order of the input.
Serials(records) == {record.serial : record \in records}

\* The generations on their way from the callback over the poll to the page.
GenerationsInv ==
  /\ publisher # "idle" => midiGeneration <= block.generation
  /\ publisher = "push" /\ block.dropped => midiGeneration < block.generation
  /\ page.generation <= midiGeneration
  /\ poller # "idle" => /\ page.generation <= poll.generation
                        /\ poll.generation <= midiGeneration
                        /\ poll.position <= midiPosition
  /\ poller = "idle" => poll.rows = {}
  /\ ~page.started => page.applied = {}
  /\ midiDroppedEvents /\ page.started => page.generation < Latest

\* Every event was tagged with the generation of its time.
TagsInv ==
  /\ \A s \in DOMAIN tags : tags[s] <= Latest
  /\ \A s, t \in DOMAIN tags : s < t /\ tags[t] # Lost => tags[s] <= tags[t]
  /\ \A record \in Unread : /\ record.serial \in DOMAIN tags
                            /\ tags[record.serial] = record.generation
  /\ \A record \in poll.rows : /\ record.serial \in DOMAIN tags
                               /\ tags[record.serial] = poll.generation
  /\ \A s \in page.applied : s \in DOMAIN tags /\ tags[s] = page.generation

\* The queue is in order; what a poll left over comes before it.
QueueInOrder ==
  /\ \A k, l \in DOMAIN midiTelemetry :
       k < l => midiTelemetry[k].serial < midiTelemetry[l].serial
  /\ \A left \in pendingMidiTelemetry :
       /\ pendingMidiTelemetry = {left}
       /\ \A k \in DOMAIN midiTelemetry : left.serial < midiTelemetry[k].serial

\* Events are looked at in order.
OrderInv ==
  /\ QueueInOrder
  /\ \A s \in DOMAIN tags, record \in Unread :
       tags[s] # Lost /\ s \notin Serials(Unread) => s < record.serial
  /\ \A s \in page.applied, record \in Unread : s < record.serial
  /\ \A row \in poll.rows, record \in Unread : row.serial < record.serial
  /\ \A s \in page.applied, row \in poll.rows : s < row.serial

\* A loss ends a generation, at the latest at the end of its block.
LossInv ==
  \A s, lost \in DOMAIN tags :
    s < lost /\ tags[lost] = Lost
      => tags[s] < Latest \/ (publisher = "push" /\ block.lost > 0)

\* While the block of a loss lasts, no poll lets go of what came after the loss.
SinceLossInv ==
  publisher \in {"push", "position"} =>
    \A s, lost, t \in DOMAIN tags :
      s < lost /\ tags[lost] = Lost /\ lost < t /\ tags[t] # Lost =>
        \/ tags[s] < midiGeneration
        \/ \E record \in Unread : /\ record.serial = t
                                  /\ record.seconds = midiPosition
                                  /\ record.generation >= midiGeneration

\* From the first event it took on, a poll takes every one of its generation, and
\* the page keeps them while the generation lasts.
RunInv ==
  /\ \A row \in poll.rows, s \in DOMAIN tags :
       row.serial < s /\ tags[s] = poll.generation /\ s \notin Serials(Unread)
         => s \in Serials(poll.rows)
  /\ page.generation = midiGeneration =>
       \A first \in page.applied, s \in DOMAIN tags :
         first < s /\ tags[s] = page.generation /\ s \notin Serials(Unread)
           => \/ s \in page.applied
              \/ poll.generation = page.generation /\ s \in Serials(poll.rows)

\* No event of the latest generation was let go of but to the page, or the page
\* has asked for a new generation.
CompleteInv ==
  \/ midiResetRequested
  \/ \A s \in DOMAIN tags :
       tags[s] = Latest /\ s \notin Serials(Unread)
         => \/ page.started /\ page.generation = Latest /\ s \in page.applied
            \/ poll.generation = Latest /\ s \in Serials(poll.rows)

\* The inductive invariant.
MidiInv == /\ MidiTypeOK /\ GenerationsInv /\ TagsInv /\ OrderInv
           /\ LossInv /\ SinceLossInv /\ RunInv /\ CompleteInv

\* A record that is added is the newest of the unread ones.
LEMMA AddedRecord ==
  ASSUME midiTelemetry \in Seq(Record), NEW record \in Record,
         midiTelemetry' = Append(midiTelemetry, record), UNCHANGED pendingMidiTelemetry
  PROVE  /\ midiTelemetry' \in Seq(Record)
         /\ Unread' = Unread \union {record}
         /\ (QueueInOrder /\ \A other \in Unread : other.serial < record.serial)
              => QueueInOrder'
<1>1. /\ midiTelemetry' \in Seq(Record)
      /\ DOMAIN midiTelemetry = 1..Len(midiTelemetry)
      /\ DOMAIN midiTelemetry' = 1..(Len(midiTelemetry) + 1)
      /\ \A k \in DOMAIN midiTelemetry : midiTelemetry'[k] = midiTelemetry[k]
      /\ midiTelemetry'[Len(midiTelemetry) + 1] = record
      /\ Len(midiTelemetry) \in Nat
  OBVIOUS
<1>2. Unread' = Unread \union {record}
  <2>1. \A k \in DOMAIN midiTelemetry' : k \in DOMAIN midiTelemetry \/ k = Len(midiTelemetry) + 1
    BY <1>1
  <2>2. DOMAIN midiTelemetry \subseteq DOMAIN midiTelemetry'
        /\ Len(midiTelemetry) + 1 \in DOMAIN midiTelemetry'
    BY <1>1
  <2>3. {midiTelemetry'[k] : k \in DOMAIN midiTelemetry'}
          = {midiTelemetry[k] : k \in DOMAIN midiTelemetry} \union {record}
    BY <1>1, <2>1, <2>2
  <2>4. QED BY <2>3 DEF Unread
<1>3. ASSUME QueueInOrder, \A other \in Unread : other.serial < record.serial
      PROVE  QueueInOrder'
  <2>1. \A k \in DOMAIN midiTelemetry : midiTelemetry[k].serial < record.serial
    BY <1>3 DEF Unread
  <2>2. \A left \in pendingMidiTelemetry : left.serial < record.serial
    BY <1>3 DEF Unread
  <2>3. QED BY <1>1, <1>3, <2>1, <2>2 DEF QueueInOrder
<1>4. QED BY <1>1, <1>2, <1>3

\* An event's tag is added to the history; those before it stay.
LEMMA AddedTag ==
  ASSUME tags \in Seq(Nat \union {Lost}), NEW tag \in Nat \union {Lost},
         tags' = Append(tags, tag)
  PROVE  /\ tags' \in Seq(Nat \union {Lost})
         /\ DOMAIN tags = 1..Len(tags) /\ Len(tags) \in Nat
         /\ DOMAIN tags' = DOMAIN tags \union {Len(tags) + 1}
         /\ \A s \in DOMAIN tags : tags'[s] = tags[s] /\ s < Len(tags) + 1
         /\ tags'[Len(tags) + 1] = tag /\ Len(tags) + 1 \notin DOMAIN tags
  OBVIOUS

\* A poll looks at the oldest record, and keeps it or lets go of it.
Looked(record) ==
  /\ record \in Unread
  /\ \A other \in Unread \ {record} : record.serial < other.serial
  /\ \/ /\ KeepForNextPoll(record)
        /\ Unread' = Unread /\ poll' = poll
     \/ /\ ~KeepForNextPoll(record)
        /\ Unread' = Unread \ {record}
        /\ poll'.generation = poll.generation /\ poll'.position = poll.position
        /\ poll'.rows = IF record.generation = poll.generation
                          THEN poll.rows \union {record} ELSE poll.rows

\* Either way what it looks at is no newer than what stays.
LEMMA LookFacts ==
  ASSUME MidiInv, LookAtPending \/ PopRecord
  PROVE  /\ \E record \in Record : Looked(record)
         /\ QueueInOrder' /\ MidiTypeOK'
         /\ poller = "pop" /\ poller' \in {"pop", "count"}
         /\ UNCHANGED <<midiGeneration, midiPosition, midiDroppedEvents,
                        midiResetRequested, publisher, block, page, tags>>
<1>1. UNCHANGED <<midiGeneration, midiPosition, midiDroppedEvents, midiResetRequested,
                  publisher, block, page, tags>>
  BY DEF LookAtPending, PopRecord, Unpolled
<1>2. MidiTypeOK /\ QueueInOrder /\ poller = "pop"
  BY DEF MidiInv, OrderInv, LookAtPending, PopRecord
<1>3. ASSUME NEW record \in Record, Look(record)
      PROVE  /\ poll' \in [generation : Nat, position : Nat, rows : SUBSET Record, index : Nat]
             /\ poller' \in {"pop", "count"}
             /\ \/ /\ KeepForNextPoll(record) /\ pendingMidiTelemetry' = {record}
                   /\ poll' = poll
                \/ /\ ~KeepForNextPoll(record) /\ pendingMidiTelemetry' = {}
                   /\ poll'.generation = poll.generation /\ poll'.position = poll.position
                   /\ poll'.rows = IF record.generation = poll.generation
                                     THEN poll.rows \union {record} ELSE poll.rows
  <2>1. CASE KeepForNextPoll(record)
    BY <1>2, <1>3, <2>1 DEF Look, MidiTypeOK
  <2>2. CASE ~KeepForNextPoll(record)
    <3> DEFINE rows == IF record.generation = poll.generation
                         THEN poll.rows \union {record} ELSE poll.rows
    <3>1. /\ pendingMidiTelemetry' = {} /\ poller' = poller
          /\ poll' = [poll EXCEPT !.rows = rows, !.index = poll.index + 1]
      BY <1>3, <2>2 DEF Look
    <3>2. poll \in [generation : Nat, position : Nat, rows : SUBSET Record, index : Nat]
          /\ rows \in SUBSET Record
      BY <1>2 DEF MidiTypeOK
    <3> HIDE DEF rows
    <3>3. /\ poll'.generation = poll.generation /\ poll'.position = poll.position
          /\ poll'.rows = rows
      BY <3>1, <3>2
    <3> DEFINE index == poll.index + 1
    <3>4. poll' = [poll EXCEPT !.rows = rows, !.index = index] /\ index \in Nat
      BY <3>1, <3>2
    <3> HIDE DEF index
    <3>5. poll' \in [generation : Nat, position : Nat, rows : SUBSET Record, index : Nat]
      BY <3>2, <3>4
    <3>6. QED BY <1>2, <2>2, <3>1, <3>3, <3>5 DEF rows
  <2>3. QED BY <2>1, <2>2
<1>4. CASE LookAtPending
  <2>1. PICK record \in pendingMidiTelemetry : Look(record)
    BY <1>4 DEF LookAtPending
  <2>2. /\ record \in Record /\ pendingMidiTelemetry = {record}
        /\ midiTelemetry' = midiTelemetry
        /\ \A k \in DOMAIN midiTelemetry : record.serial < midiTelemetry[k].serial
    BY <1>2, <1>4, <2>1 DEF MidiTypeOK, QueueInOrder, LookAtPending
  <2>3. record.serial \in Nat
    BY <2>2 DEF Record
  <2>4. \A k \in DOMAIN midiTelemetry : midiTelemetry[k] # record
    BY <2>2, <2>3
  <2>5. Looked(record)
    BY <1>3, <2>1, <2>2, <2>4 DEF Looked, Unread
  <2>6. QueueInOrder'
    BY <1>2, <1>3, <2>1, <2>2 DEF QueueInOrder
  <2>7. MidiTypeOK'
    BY <1>1, <1>2, <1>3, <2>1, <2>2 DEF MidiTypeOK
  <2>8. QED BY <1>1, <1>2, <1>3, <2>1, <2>2, <2>5, <2>6, <2>7
<1>5. CASE PopRecord
  <2> DEFINE record == Head(midiTelemetry)
  <2>1. /\ pendingMidiTelemetry = {} /\ midiTelemetry # <<>>
        /\ Look(record) /\ midiTelemetry' = Tail(midiTelemetry)
        /\ midiTelemetry \in Seq(Record)
    BY <1>2, <1>5 DEF PopRecord, MidiTypeOK
  <2>2. /\ midiTelemetry' \in Seq(Record) /\ record \in Record
        /\ Len(midiTelemetry) \in Nat /\ Len(midiTelemetry) >= 1
        /\ DOMAIN midiTelemetry = 1..Len(midiTelemetry)
        /\ DOMAIN midiTelemetry' = 1..(Len(midiTelemetry) - 1)
        /\ record = midiTelemetry[1]
        /\ \A k \in DOMAIN midiTelemetry' : midiTelemetry'[k] = midiTelemetry[k + 1]
    BY <2>1
  <2> HIDE DEF record
  <2>3. /\ 1 \in DOMAIN midiTelemetry
        /\ \A k \in DOMAIN midiTelemetry :
             k # 1 => k - 1 \in DOMAIN midiTelemetry' /\ midiTelemetry[k] = midiTelemetry'[k - 1]
        /\ \A k \in DOMAIN midiTelemetry' : k + 1 \in DOMAIN midiTelemetry /\ k + 1 # 1
    BY <2>2
  <2>4. /\ \A k \in DOMAIN midiTelemetry : k # 1 => record.serial < midiTelemetry[k].serial
        /\ \A k \in DOMAIN midiTelemetry : k # 1 => midiTelemetry[k] # record
    <3>1. \A k \in DOMAIN midiTelemetry : k # 1 => 1 < k
      BY <2>2
    <3>2. record.serial \in Nat
      BY <2>2 DEF Record
    <3>3. QED BY <1>2, <2>2, <2>3, <3>1, <3>2 DEF QueueInOrder
  <2>5. {midiTelemetry'[k] : k \in DOMAIN midiTelemetry'}
          = {midiTelemetry[k] : k \in DOMAIN midiTelemetry} \ {record}
    BY <2>2, <2>3, <2>4
  <2>6. record \in {midiTelemetry[k] : k \in DOMAIN midiTelemetry}
    BY <2>2, <2>3
  <2>7. Looked(record)
    <3>1. record \in Unread /\ \A other \in Unread \ {record} : record.serial < other.serial
      BY <2>1, <2>2, <2>4, <2>6 DEF Unread
    <3>2. Unread' = pendingMidiTelemetry' \union (Unread \ {record})
      BY <2>1, <2>5 DEF Unread
    <3>3. QED BY <1>3, <2>1, <2>2, <3>1, <3>2 DEF Looked
  <2>8. QueueInOrder'
    <3>1. \A k, l \in DOMAIN midiTelemetry' :
            k < l => midiTelemetry'[k].serial < midiTelemetry'[l].serial
      BY <1>2, <2>2, <2>3 DEF QueueInOrder
    <3>2. pendingMidiTelemetry' \subseteq {record}
      BY <1>3, <2>1, <2>2
    <3>3. \A k \in DOMAIN midiTelemetry' : record.serial < midiTelemetry'[k].serial
      BY <2>2, <2>3, <2>4
    <3>4. QED BY <3>1, <3>2, <3>3 DEF QueueInOrder
  <2>9. MidiTypeOK'
    <3>1. pendingMidiTelemetry' \in SUBSET Record
      BY <1>3, <2>1, <2>2
    <3>2. QED BY <1>1, <1>2, <1>3, <2>1, <2>2, <3>1 DEF MidiTypeOK
  <2>10. QED BY <1>1, <1>2, <1>3, <2>1, <2>2, <2>7, <2>8, <2>9
<1>6. QED BY <1>4, <1>5

\* The kinds of what the proofs compare.
LEMMA MidiFacts ==
  ASSUME MidiTypeOK
  PROVE  /\ midiGeneration \in Nat /\ midiPosition \in Nat
         /\ block.generation \in Nat /\ block.lost \in Nat /\ block.left \in Nat
         /\ block.dropped \in BOOLEAN /\ Latest \in Nat
         /\ poll.generation \in Nat /\ poll.position \in Nat /\ poll.rows \subseteq Record
         /\ page.generation \in Nat /\ page.applied \subseteq Nat /\ page.started \in BOOLEAN
         /\ Unread \subseteq Record
         /\ \A record \in Record : /\ record.serial \in Nat /\ record.generation \in Nat
                                   /\ record.seconds \in Nat
         /\ DOMAIN tags = 1..Len(tags) /\ Len(tags) \in Nat
         /\ \A s \in DOMAIN tags : tags[s] \in Nat \union {Lost}
<1>1. Unread \subseteq Record
  BY DEF MidiTypeOK, Unread
<1>2. \A record \in Record : /\ record.serial \in Nat /\ record.generation \in Nat
                             /\ record.seconds \in Nat
  BY DEF Record
<1>3. /\ block.generation \in Nat /\ block.lost \in Nat /\ block.left \in Nat
      /\ block.dropped \in BOOLEAN /\ Latest \in Nat
  BY DEF MidiTypeOK, Latest
<1>4. /\ DOMAIN tags = 1..Len(tags) /\ Len(tags) \in Nat
      /\ \A s \in DOMAIN tags : tags[s] \in Nat \union {Lost}
  BY DEF MidiTypeOK
<1>5. QED BY <1>1, <1>2, <1>3, <1>4 DEF MidiTypeOK

\* A record that a poll lets go of is of an older generation, or is a row of it.
LEMMA LookInv ==
  ASSUME MidiInv, LookAtPending \/ PopRecord
  PROVE  MidiInv'
<1> USE DEF MidiInv
<1>1. PICK record \in Record : Looked(record)
  BY LookFacts
<1>2. /\ QueueInOrder' /\ MidiTypeOK'
      /\ poller # "idle" /\ poller' # "idle"
      /\ UNCHANGED <<midiGeneration, midiPosition, midiDroppedEvents,
                     midiResetRequested, publisher, block, page, tags>>
      /\ Latest' = Latest
  BY LookFacts DEF Latest
<1>3. /\ record \in Unread /\ \A other \in Unread \ {record} : record.serial < other.serial
      /\ record.serial \in DOMAIN tags /\ tags[record.serial] = record.generation
      /\ poll'.generation = poll.generation /\ poll'.position = poll.position
  BY <1>1 DEF Looked, TagsInv
<1>4. CASE Unread' = Unread /\ poll' = poll
  <2>1. GenerationsInv' /\ TagsInv' /\ OrderInv'
    BY <1>2, <1>4 DEF GenerationsInv, TagsInv, OrderInv, Serials
  <2>2. LossInv' /\ SinceLossInv'
    BY <1>2, <1>4 DEF LossInv, SinceLossInv
  <2>3. RunInv' /\ CompleteInv'
    BY <1>2, <1>4 DEF RunInv, CompleteInv, Serials
  <2>4. QED BY <1>2, <2>1, <2>2, <2>3
<1>5. CASE ~KeepForNextPoll(record) /\ Unread' = Unread \ {record}
  <2> USE MidiFacts
  <2>1. /\ record.generation <= poll.generation
        /\ record.generation = poll.generation => record.seconds < poll.position
    BY <1>5 DEF KeepForNextPoll
  <2>2. poll'.rows = IF record.generation = poll.generation
                       THEN poll.rows \union {record} ELSE poll.rows
    BY <1>1, <1>5 DEF Looked
  <2>3. \A s : s \notin Serials(Unread') => s \notin Serials(Unread) \/ s = record.serial
    BY <1>3, <1>5 DEF Serials
  <2>4. \A s : s \in Serials(poll'.rows)
                 <=> \/ s \in Serials(poll.rows)
                     \/ record.generation = poll.generation /\ s = record.serial
    BY <2>2 DEF Serials
  <2>5. poll.generation <= midiGeneration /\ poll.position <= midiPosition
    BY <1>2 DEF GenerationsInv
  <2>6. GenerationsInv'
    BY <1>2, <1>3 DEF GenerationsInv
  <2>7. TagsInv'
    BY <1>2, <1>3, <1>5, <2>2 DEF TagsInv
  <2>8. OrderInv'
    <3>1. \A s \in DOMAIN tags, other \in Unread' :
            tags[s] # Lost /\ s \notin Serials(Unread') => s < other.serial
      BY <1>3, <1>5, <2>3 DEF OrderInv
    <3>2. \A s \in page.applied, other \in Unread' : s < other.serial
      BY <1>5 DEF OrderInv
    <3>3. \A row \in poll'.rows, other \in Unread' : row.serial < other.serial
      BY <1>3, <1>5, <2>2 DEF OrderInv
    <3>4. \A s \in page.applied, row \in poll'.rows : s < row.serial
      BY <1>3, <2>2 DEF OrderInv
    <3>5. QED BY <1>2, <3>1, <3>2, <3>3, <3>4 DEF OrderInv
  <2>9. LossInv'
    BY <1>2 DEF LossInv
  <2>10. SinceLossInv'
    <3>1. record.seconds = midiPosition => record.generation < midiGeneration
      BY <2>1, <2>5
    <3>2. \A other \in Unread : other.seconds = midiPosition
                                  /\ other.generation >= midiGeneration => other \in Unread'
      BY <1>5, <3>1
    <3>3. QED BY <1>2, <3>2 DEF SinceLossInv
  <2>11. RunInv'
    <3>1. \A row \in poll'.rows, s \in DOMAIN tags :
            row.serial < s /\ tags[s] = poll.generation /\ s \notin Serials(Unread')
              => s \in Serials(poll'.rows)
      <4> SUFFICES ASSUME NEW row \in poll'.rows, NEW s \in DOMAIN tags, row.serial < s,
                          tags[s] = poll.generation, s \notin Serials(Unread')
                   PROVE  s \in Serials(poll'.rows)
        OBVIOUS
      <4>1. CASE s = record.serial
        BY <1>3, <2>4, <4>1
      <4>2. CASE s # record.serial
        <5>1. s \notin Serials(Unread) /\ tags[s] # Lost
          BY <2>3, <4>2 DEF Lost
        <5>2. s < record.serial
          BY <1>3, <5>1 DEF OrderInv
        <5>3. row \in poll.rows
          BY <2>2, <5>2, MidiFacts
        <5>4. QED BY <2>4, <5>1, <5>3 DEF RunInv
      <4>3. QED BY <4>1, <4>2
    <3>2. ASSUME page.generation = midiGeneration, NEW first \in page.applied,
                 NEW s \in DOMAIN tags, first < s, tags[s] = page.generation,
                 s \notin Serials(Unread')
          PROVE  \/ s \in page.applied
                 \/ poll.generation = page.generation /\ s \in Serials(poll'.rows)
      <4>1. CASE s \notin Serials(Unread)
        BY <2>4, <3>2, <4>1 DEF RunInv
      <4>2. CASE s = record.serial
        BY <1>3, <2>1, <2>4, <2>5, <3>2, <4>2
      <4>3. QED BY <2>3, <3>2, <4>1, <4>2
    <3>3. QED BY <1>2, <1>3, <3>1, <3>2 DEF RunInv
  <2>12. CompleteInv'
    <3>1. ASSUME ~midiResetRequested, NEW s \in DOMAIN tags, tags[s] = Latest,
                 s \notin Serials(Unread')
          PROVE  \/ page.started /\ page.generation = Latest /\ s \in page.applied
                 \/ poll.generation = Latest /\ s \in Serials(poll'.rows)
      <4>1. CASE s \notin Serials(Unread)
        BY <2>4, <3>1, <4>1 DEF CompleteInv
      <4>2. CASE s = record.serial
        <5>1. midiGeneration <= Latest
          BY DEF GenerationsInv, Latest
        <5>2. record.generation = poll.generation /\ poll.generation = Latest
          BY <1>3, <2>1, <2>5, <3>1, <4>2, <5>1
        <5>3. QED BY <2>4, <4>2, <5>2
      <4>3. QED BY <2>3, <3>1, <4>1, <4>2
    <3>2. QED BY <1>2, <1>3, <3>1 DEF CompleteInv
  <2>13. QED BY <1>2, <2>6, <2>7, <2>8, <2>9, <2>10, <2>11, <2>12
<1>6. QED BY <1>1, <1>4, <1>5 DEF Looked

\* A block begins in the generation of the last one, or in the next.
LEMMA BeginBlockInv ==
  ASSUME MidiInv, NEW events \in 0..MaxEvents, NEW rebase \in BOOLEAN,
         NEW dropped \in BOOLEAN, BeginBlock(events, rebase, dropped)
  PROVE  MidiInv'
<1> USE DEF MidiInv
<1>1. /\ publisher = "idle" /\ publisher' = "push" /\ midiResetRequested' = FALSE
      /\ block' = [generation |-> IF rebase \/ midiResetRequested \/ dropped
                                    THEN midiGeneration + 1 ELSE midiGeneration,
                   left |-> events, lost |-> 0, dropped |-> dropped]
      /\ tags' = IF dropped THEN Append(tags, Lost) ELSE tags
      /\ UNCHANGED <<midiTelemetry, midiGeneration, midiPosition, midiDroppedEvents,
                     poller, poll, pendingMidiTelemetry, page>>
  BY DEF BeginBlock, pollerVars
<1>2. /\ block'.generation = IF rebase \/ midiResetRequested \/ dropped
                               THEN midiGeneration + 1 ELSE midiGeneration
      /\ block'.lost = 0 /\ block'.dropped = dropped
      /\ Latest = midiGeneration /\ Latest' = block'.generation
      /\ Unread' = Unread
  BY <1>1 DEF Latest, Unread
<1> USE MidiFacts
<1>3. /\ midiGeneration <= Latest' /\ Latest <= Latest' /\ Latest' \in Nat
      /\ midiResetRequested \/ dropped => Latest < Latest'
  BY <1>2
<1>4. /\ DOMAIN tags \subseteq DOMAIN tags' /\ DOMAIN tags' \subseteq Nat
      /\ \A s \in DOMAIN tags : tags'[s] = tags[s]
      /\ \A s \in DOMAIN tags' \ DOMAIN tags :
           dropped /\ tags'[s] = Lost /\ \A t \in DOMAIN tags' : t <= s
      /\ tags' \in Seq(Nat \union {Lost})
  <2>1. CASE dropped
    <3>1. tags \in Seq(Nat \union {Lost}) /\ tags' = Append(tags, Lost)
      BY <1>1, <2>1 DEF MidiTypeOK
    <3>2. /\ tags' \in Seq(Nat \union {Lost})
          /\ DOMAIN tags = 1..Len(tags) /\ Len(tags) \in Nat
          /\ DOMAIN tags' = DOMAIN tags \union {Len(tags) + 1}
          /\ \A s \in DOMAIN tags : tags'[s] = tags[s] /\ s < Len(tags) + 1
          /\ tags'[Len(tags) + 1] = Lost /\ Len(tags) + 1 \notin DOMAIN tags
      BY <3>1, AddedTag
    <3>3. QED BY <2>1, <3>2
  <2>2. CASE ~dropped
    BY <1>1, <2>2 DEF MidiTypeOK
  <2>3. QED BY <2>1, <2>2
<1>5. MidiTypeOK'
  <2>1. block' \in [generation : Nat, left : Nat, lost : Nat, dropped : BOOLEAN]
    BY <1>1, MidiAssumption
  <2>2. QED BY <1>1, <1>4, <2>1 DEF MidiTypeOK
<1>6. GenerationsInv'
  BY <1>1, <1>2, <1>3 DEF GenerationsInv
<1>7. TagsInv'
  <2>1. \A s \in DOMAIN tags' : tags'[s] <= Latest'
    <3>1. \A s \in DOMAIN tags : tags[s] <= Latest /\ tags[s] \in Int
      BY DEF TagsInv, Lost
    <3>2. \A s \in DOMAIN tags' : s \in DOMAIN tags \/ tags'[s] = -1
      BY <1>4 DEF Lost
    <3>3. QED BY <1>3, <1>4, <3>1, <3>2
  <2>2. \A s, t \in DOMAIN tags' : s < t /\ tags'[t] # Lost => tags'[s] <= tags'[t]
    BY <1>4 DEF TagsInv
  <2>3. QED BY <1>1, <1>2, <1>4, <2>1, <2>2 DEF TagsInv
<1>8. OrderInv'
  BY <1>1, <1>2, <1>4 DEF OrderInv, QueueInOrder
<1>9. LossInv'
  <2> SUFFICES ASSUME NEW s \in DOMAIN tags', NEW lost \in DOMAIN tags', s < lost,
                      tags'[lost] = Lost
               PROVE  tags'[s] < Latest'
    BY DEF LossInv
  <2>1. s \in DOMAIN tags
    BY <1>4
  <2>2. tags'[s] = tags[s] /\ tags[s] <= Latest /\ tags[s] \in Int
    BY <1>4, <2>1 DEF TagsInv, Lost
  <2>3. CASE lost \in DOMAIN tags
    <3>1. tags[s] < Latest
      BY <1>1, <1>4, <2>1, <2>3 DEF LossInv
    <3>2. QED BY <1>3, <2>2, <3>1
  <2>4. CASE lost \notin DOMAIN tags
    BY <1>3, <1>4, <2>2, <2>4
  <2>5. QED BY <2>3, <2>4
<1>10. SinceLossInv'
  <2> SUFFICES ASSUME NEW s \in DOMAIN tags', NEW lost \in DOMAIN tags', NEW t \in DOMAIN tags',
                      s < lost, tags'[lost] = Lost, lost < t, tags'[t] # Lost
               PROVE  tags'[s] < midiGeneration
    BY <1>1 DEF SinceLossInv
  <2>1. lost \in DOMAIN tags /\ s \in DOMAIN tags
    <3>1. t \in DOMAIN tags
      BY <1>4
    <3>2. DOMAIN tags' \subseteq Nat
      BY <1>4
    <3>3. QED BY <1>4, <3>1, <3>2
  <2>2. QED BY <1>1, <1>2, <1>4, <2>1 DEF LossInv
<1>11. RunInv'
  <2>1. \A s \in DOMAIN tags' : tags'[s] # Lost => s \in DOMAIN tags /\ tags'[s] = tags[s]
    BY <1>4
  <2>2. poll.generation # Lost /\ page.generation # Lost
    BY DEF Lost
  <2>3. QED BY <1>1, <1>2, <2>1, <2>2 DEF RunInv, Serials
<1>12. CompleteInv'
  <2>1. \A s \in DOMAIN tags' : tags'[s] = Latest' =>
          s \in DOMAIN tags /\ tags'[s] = tags[s] /\ Latest' = Latest
    <3>1. \A s \in DOMAIN tags : tags[s] <= Latest /\ tags[s] \in Int
      BY DEF TagsInv, Lost
    <3>2. Latest' # Lost
      BY <1>3 DEF Lost
    <3>3. QED BY <1>3, <1>4, <3>1, <3>2
  <2>2. Latest' = Latest => ~midiResetRequested
    BY <1>3
  <2>3. QED BY <1>1, <1>2, <2>1, <2>2 DEF CompleteInv, Serials
<1>13. QED BY <1>5, <1>6, <1>7, <1>8, <1>9, <1>10, <1>11, <1>12

\* An event is the newest record, or is lost and ends the generation.
LEMMA PushEventInv ==
  ASSUME MidiInv, PushEvent
  PROVE  MidiInv'
<1> USE DEF MidiInv
<1> DEFINE new == Len(tags) + 1
           record == [generation |-> block.generation, seconds |-> midiPosition,
                      serial |-> new]
<1> USE MidiFacts
<1>1. /\ publisher = "push" /\ publisher' = "push" /\ block.left > 0
      /\ UNCHANGED <<midiGeneration, midiPosition, midiDroppedEvents, midiResetRequested,
                     poller, poll, pendingMidiTelemetry, page>>
  BY DEF PushEvent, pollerVars
<1>2. /\ record \in Record /\ record.serial = new /\ record.seconds = midiPosition
      /\ record.generation = block.generation /\ new \in Nat
      /\ Latest = block.generation /\ midiGeneration <= block.generation
  BY <1>1 DEF Record, Latest, GenerationsInv
<1>3. \/ /\ midiTelemetry' = Append(midiTelemetry, record)
         /\ block' = [block EXCEPT !.left = block.left - 1]
         /\ tags' = Append(tags, block.generation)
      \/ /\ midiTelemetry' = midiTelemetry
         /\ block' = [block EXCEPT !.left = block.left - 1, !.lost = block.lost + 1]
         /\ tags' = Append(tags, Lost)
  BY DEF PushEvent
<1>4. /\ block' \in [generation : Nat, left : Nat, lost : Nat, dropped : BOOLEAN]
      /\ block'.generation = block.generation /\ block'.dropped = block.dropped
      /\ block'.lost >= block.lost
      /\ tags' = Append(tags, Lost) => block'.lost > 0
  <2>1. /\ block \in [generation : Nat, left : Nat, lost : Nat, dropped : BOOLEAN]
        /\ block.left - 1 \in Nat /\ block.lost + 1 \in Nat
    BY <1>1 DEF MidiTypeOK
  <2>2. CASE block' = [block EXCEPT !.left = block.left - 1, !.lost = block.lost + 1]
    <3> DEFINE left == block.left - 1
               lost == block.lost + 1
    <3>1. block' = [block EXCEPT !.left = left, !.lost = lost] /\ {left, lost} \subseteq Nat
      BY <2>1, <2>2
    <3>2. lost >= block.lost /\ lost > 0
      OBVIOUS
    <3> HIDE DEF left, lost
    <3>3. QED BY <2>1, <3>1, <3>2
  <2>3. CASE /\ block' = [block EXCEPT !.left = block.left - 1]
             /\ tags' = Append(tags, block.generation)
    <3>1. tags \in Seq(Nat \union {Lost}) /\ block.generation # Lost
      BY DEF MidiTypeOK, Lost
    <3>2. tags' # Append(tags, Lost)
      <4> SUFFICES ASSUME tags' = Append(tags, Lost) PROVE FALSE
        OBVIOUS
      <4>1. tags'[new] = Lost
        BY <3>1, AddedTag
      <4>2. tags'[new] = block.generation
        BY <2>3, <3>1, AddedTag
      <4>3. QED BY <3>1, <4>1, <4>2
    <3> DEFINE left == block.left - 1
    <3>3. block' = [block EXCEPT !.left = left] /\ left \in Nat
      BY <2>1, <2>3
    <3> HIDE DEF left
    <3>4. block' \in [generation : Nat, left : Nat, lost : Nat, dropped : BOOLEAN]
      BY <2>1, <3>3
    <3>5. /\ block'.generation = block.generation /\ block'.dropped = block.dropped
          /\ block'.lost = block.lost
      BY <2>1, <3>3
    <3>6. QED BY <3>2, <3>4, <3>5
  <2>4. QED BY <1>3, <2>2, <2>3
<1>5. Latest' = Latest /\ Latest = block.generation
  BY <1>1, <1>4 DEF Latest
<1>6. /\ tags' \in Seq(Nat \union {Lost}) /\ new \notin DOMAIN tags
      /\ DOMAIN tags' = DOMAIN tags \union {new}
      /\ \A s \in DOMAIN tags : tags'[s] = tags[s] /\ s < new
      /\ tags'[new] \in {block.generation, Lost}
  <2>1. tags \in Seq(Nat \union {Lost}) /\ block.generation \in Nat \union {Lost}
    BY DEF MidiTypeOK
  <2>2. \E tag \in {block.generation, Lost} : tags' = Append(tags, tag)
    BY <1>3
  <2>3. QED BY <2>1, <2>2, AddedTag
<1>7. \A other \in Unread : other.serial < new
  BY <1>6 DEF TagsInv
<1>8. /\ midiTelemetry' \in Seq(Record) /\ QueueInOrder'
      /\ \/ Unread' = Unread \union {record} /\ tags'[new] = block.generation
         \/ Unread' = Unread /\ tags'[new] = Lost
  <2>1. CASE /\ midiTelemetry' = Append(midiTelemetry, record)
             /\ tags' = Append(tags, block.generation)
    <3>1. midiTelemetry \in Seq(Record)
      BY DEF MidiTypeOK
    <3>2. tags'[new] = block.generation
      BY <2>1 DEF MidiTypeOK
    <3> HIDE DEF record
    <3>3. QED BY <1>1, <1>2, <1>7, <2>1, <3>1, <3>2, AddedRecord DEF OrderInv
  <2>2. CASE /\ midiTelemetry' = midiTelemetry /\ tags' = Append(tags, Lost)
    BY <1>1, <2>2 DEF MidiTypeOK, OrderInv, QueueInOrder, Unread
  <2>3. QED BY <1>3, <2>1, <2>2
<1>9. MidiTypeOK'
  BY <1>1, <1>4, <1>6, <1>8 DEF MidiTypeOK
<1> HIDE DEF record, new
<1>10. GenerationsInv'
  BY <1>1, <1>4, <1>5 DEF GenerationsInv
<1>11. TagsInv'
  <2>1. \A s \in DOMAIN tags' : tags'[s] <= Latest'
    BY <1>5, <1>6 DEF TagsInv, Lost
  <2>2. \A s, t \in DOMAIN tags' : s < t /\ tags'[t] # Lost => tags'[s] <= tags'[t]
    BY <1>2, <1>5, <1>6 DEF TagsInv
  <2>3. \A other \in Unread' : other.serial \in DOMAIN tags' /\ tags'[other.serial] = other.generation
    BY <1>2, <1>6, <1>8 DEF TagsInv
  <2>4. QED BY <1>1, <1>6, <2>1, <2>2, <2>3 DEF TagsInv
<1>12. \A s : s \notin Serials(Unread') => s \notin Serials(Unread) /\ (s = new => tags'[new] = Lost)
  BY <1>2, <1>8 DEF Serials
<1>13. OrderInv'
  <2>1. \A s \in DOMAIN tags', other \in Unread' :
          tags'[s] # Lost /\ s \notin Serials(Unread') => s < other.serial
    BY <1>2, <1>6, <1>8, <1>12 DEF OrderInv
  <2>2. \A s \in page.applied, other \in Unread' : s < other.serial
    BY <1>2, <1>6, <1>8 DEF OrderInv, TagsInv
  <2>3. \A row \in poll.rows, other \in Unread' : row.serial < other.serial
    BY <1>2, <1>6, <1>8 DEF OrderInv, TagsInv
  <2>4. QED BY <1>1, <1>8, <2>1, <2>2, <2>3 DEF OrderInv
<1>14. LossInv'
  <2> SUFFICES ASSUME NEW s \in DOMAIN tags', NEW lost \in DOMAIN tags', s < lost,
                      tags'[lost] = Lost, ~(tags'[s] < Latest)
               PROVE  block'.lost > 0
    BY <1>1, <1>5 DEF LossInv
  <2>1. s \in DOMAIN tags /\ tags'[s] = tags[s]
    BY <1>2, <1>6
  <2>2. CASE lost = new
    <3>1. tags' = Append(tags, Lost)
      <4>1. block.generation # Lost
        BY DEF Lost
      <4>2. tags' = Append(tags, block.generation) => tags'[new] = block.generation
        BY AddedTag DEF MidiTypeOK, new
      <4>3. QED BY <1>3, <2>2, <4>1, <4>2
    <3>2. QED BY <1>4, <3>1
  <2>3. CASE lost \in DOMAIN tags
    BY <1>4, <1>6, <2>1, <2>3 DEF LossInv
  <2>4. QED BY <1>6, <2>2, <2>3
<1>15. SinceLossInv'
  <2> SUFFICES ASSUME NEW s \in DOMAIN tags', NEW lost \in DOMAIN tags', NEW t \in DOMAIN tags',
                      s < lost, tags'[lost] = Lost, lost < t, tags'[t] # Lost,
                      ~(tags'[s] < midiGeneration)
               PROVE  \E other \in Unread' : /\ other.serial = t
                                             /\ other.seconds = midiPosition
                                             /\ other.generation >= midiGeneration
    BY <1>1 DEF SinceLossInv
  <2>1. s \in DOMAIN tags /\ lost \in DOMAIN tags
    BY <1>2, <1>6
  <2>2. CASE t = new
    BY <1>2, <1>8, <2>2
  <2>3. CASE t \in DOMAIN tags
    <3>1. /\ tags'[s] = tags[s] /\ tags'[lost] = tags[lost] /\ tags'[t] = tags[t]
          /\ publisher \in {"push", "position"} /\ Unread \subseteq Unread'
      BY <1>1, <1>6, <1>8, <2>1, <2>3
    <3>2. \E other \in Unread : /\ other.serial = t
                                /\ other.seconds = midiPosition
                                /\ other.generation >= midiGeneration
      BY <2>1, <2>3, <3>1 DEF SinceLossInv
    <3>3. QED BY <3>1, <3>2
  <2>4. QED BY <1>6, <2>2, <2>3
<1>16. RunInv'
  <2>1. \A s \in DOMAIN tags' :
          tags'[s] # Lost /\ s \notin Serials(Unread')
            => s \in DOMAIN tags /\ tags'[s] = tags[s] /\ s \notin Serials(Unread)
    BY <1>6, <1>12
  <2>2. poll.generation # Lost /\ page.generation # Lost
    BY DEF Lost
  <2>3. QED BY <1>1, <2>1, <2>2 DEF RunInv
<1>17. CompleteInv'
  <2>1. Latest # Lost
    BY DEF Lost
  <2>2. QED BY <1>1, <1>5, <1>6, <1>12, <2>1 DEF CompleteInv
<1>18. QED BY <1>9, <1>10, <1>11, <1>13, <1>14, <1>15, <1>16, <1>17

\* The end of the block: a loss in it starts the next generation.
LEMMA EndPushInv ==
  ASSUME MidiInv, EndPush
  PROVE  MidiInv'
<1> USE DEF MidiInv
<1> USE MidiFacts
<1>1. /\ publisher = "push" /\ publisher' = "position"
      /\ midiDroppedEvents' = (midiDroppedEvents \/ block.dropped \/ block.lost > 0)
      /\ block' = [EmptyBlock EXCEPT !.generation = NextGeneration]
      /\ UNCHANGED <<midiTelemetry, midiGeneration, midiPosition, midiResetRequested,
                     poller, poll, pendingMidiTelemetry, page, tags>>
      /\ Unread' = Unread
  BY DEF EndPush, pollerVars, Unread
<1>2. /\ NextGeneration \in Nat /\ Latest = block.generation /\ Latest <= NextGeneration
      /\ block.lost > 0 => Latest < NextGeneration
      /\ midiGeneration <= Latest /\ block.dropped => midiGeneration < Latest
  BY <1>1 DEF NextGeneration, Latest, GenerationsInv
<1>3. /\ block' \in [generation : Nat, left : Nat, lost : Nat, dropped : BOOLEAN]
      /\ block'.generation = NextGeneration /\ Latest' = NextGeneration
  BY <1>1, <1>2 DEF EmptyBlock, Latest
<1>4. \A s \in DOMAIN tags : tags[s] <= Latest /\ tags[s] \in Int
  BY DEF TagsInv, Lost
<1>5. MidiTypeOK'
  BY <1>1, <1>3 DEF MidiTypeOK
<1>6. GenerationsInv'
  <2>1. midiDroppedEvents' /\ page.started => page.generation < NextGeneration
    BY <1>1, <1>2 DEF GenerationsInv
  <2>2. QED BY <1>1, <1>2, <1>3, <2>1 DEF GenerationsInv
<1>7. TagsInv'
  BY <1>1, <1>2, <1>3, <1>4 DEF TagsInv
<1>8. OrderInv'
  BY <1>1 DEF OrderInv, QueueInOrder, Serials
<1>9. LossInv'
  <2> SUFFICES ASSUME NEW s \in DOMAIN tags, NEW lost \in DOMAIN tags, s < lost,
                      tags[lost] = Lost
               PROVE  tags[s] < NextGeneration
    BY <1>1, <1>3 DEF LossInv
  <2>1. tags[s] < Latest \/ block.lost > 0
    BY DEF LossInv
  <2>2. QED BY <1>2, <1>4, <2>1
<1>10. SinceLossInv'
  BY <1>1 DEF SinceLossInv
<1>11. RunInv'
  BY <1>1 DEF RunInv, Serials
<1>12. CompleteInv'
  <2>1. \A s \in DOMAIN tags : tags[s] = NextGeneration => NextGeneration = Latest
    BY <1>2, <1>4
  <2>2. QED BY <1>1, <1>3, <2>1 DEF CompleteInv, Serials
<1>13. QED BY <1>5, <1>6, <1>7, <1>8, <1>9, <1>10, <1>11, <1>12

\* The end of the block is stored; from here a poll may let go of its events.
LEMMA StorePositionInv ==
  ASSUME MidiInv, StorePosition
  PROVE  MidiInv'
<1> USE DEF MidiInv
<1> USE MidiFacts
<1>1. /\ publisher = "position" /\ publisher' = "generation"
      /\ midiPosition' = midiPosition + 1
      /\ UNCHANGED <<midiTelemetry, midiGeneration, midiDroppedEvents, midiResetRequested,
                     block, poller, poll, pendingMidiTelemetry, page, tags>>
      /\ Unread' = Unread /\ Latest' = Latest
  BY DEF StorePosition, pollerVars, Unread, Latest
<1>2. MidiTypeOK'
  BY <1>1 DEF MidiTypeOK
<1>3. GenerationsInv' /\ TagsInv' /\ OrderInv'
  BY <1>1 DEF GenerationsInv, TagsInv, OrderInv, QueueInOrder, Serials
<1>4. LossInv' /\ SinceLossInv'
  BY <1>1 DEF LossInv, SinceLossInv
<1>5. RunInv' /\ CompleteInv'
  BY <1>1 DEF RunInv, CompleteInv, Serials
<1>6. QED BY <1>2, <1>3, <1>4, <1>5

\* The generation is stored: from here a page with a gap is behind.
LEMMA StoreGenerationInv ==
  ASSUME MidiInv, StoreGeneration
  PROVE  MidiInv'
<1> USE DEF MidiInv
<1> USE MidiFacts
<1>1. /\ publisher = "generation" /\ publisher' = "idle"
      /\ midiGeneration' = block.generation /\ block' = EmptyBlock
      /\ UNCHANGED <<midiTelemetry, midiPosition, midiDroppedEvents, midiResetRequested,
                     poller, poll, pendingMidiTelemetry, page, tags>>
      /\ Unread' = Unread /\ Latest' = Latest /\ midiGeneration <= midiGeneration'
  BY DEF StoreGeneration, pollerVars, Unread, Latest, GenerationsInv
<1>2. MidiTypeOK'
  BY <1>1 DEF MidiTypeOK, EmptyBlock
<1>3. GenerationsInv' /\ TagsInv' /\ OrderInv'
  BY <1>1 DEF GenerationsInv, TagsInv, OrderInv, QueueInOrder, Serials
<1>4. LossInv' /\ SinceLossInv'
  BY <1>1 DEF LossInv, SinceLossInv
<1>5. RunInv'
  <2>1. page.generation = midiGeneration' => page.generation = midiGeneration
    BY <1>1 DEF GenerationsInv
  <2>2. QED BY <1>1, <2>1 DEF RunInv, Serials
<1>6. CompleteInv'
  BY <1>1 DEF CompleteInv, Serials
<1>7. QED BY <1>2, <1>3, <1>4, <1>5, <1>6

\* A poll begins with no rows, at the generation it finds.
LEMMA LoadGenerationInv ==
  ASSUME MidiInv, LoadGeneration
  PROVE  MidiInv'
<1> USE DEF MidiInv
<1> USE MidiFacts
<1>1. /\ poller = "idle" /\ poller' = "position"
      /\ poll' = [NoPoll EXCEPT !.generation = midiGeneration]
      /\ UNCHANGED <<midiTelemetry, midiDroppedEvents, pendingMidiTelemetry, page,
                     midiGeneration, midiPosition, midiResetRequested, publisher, block, tags>>
      /\ Unread' = Unread /\ Latest' = Latest
  BY DEF LoadGeneration, Unpolled, Unread, Latest
<1>2. /\ poll' \in [generation : Nat, position : Nat, rows : SUBSET Record, index : Nat]
      /\ poll'.generation = midiGeneration /\ poll'.rows = {} /\ poll'.position = 0
      /\ poll.rows = {}
  BY <1>1 DEF NoPoll, GenerationsInv
<1>3. MidiTypeOK'
  BY <1>1, <1>2 DEF MidiTypeOK
<1>4. GenerationsInv'
  BY <1>1, <1>2 DEF GenerationsInv
<1>5. TagsInv' /\ OrderInv'
  BY <1>1, <1>2 DEF TagsInv, OrderInv, QueueInOrder, Serials
<1>6. LossInv' /\ SinceLossInv'
  BY <1>1 DEF LossInv, SinceLossInv
<1>7. RunInv' /\ CompleteInv'
  BY <1>1, <1>2 DEF RunInv, CompleteInv, Serials
<1>8. QED BY <1>3, <1>4, <1>5, <1>6, <1>7

\* The position is loaded after the generation; a poll may also find no record.
LEMMA LoadPositionInv ==
  ASSUME MidiInv, LoadPosition \/ FindNoRecord
  PROVE  MidiInv'
<1> USE DEF MidiInv
<1> USE MidiFacts
<1>1. /\ poller # "idle" /\ poller' \in {"pop", "count"}
      /\ poll' = poll \/ poll' = [poll EXCEPT !.position = midiPosition]
      /\ UNCHANGED <<midiTelemetry, midiDroppedEvents, pendingMidiTelemetry, page,
                     midiGeneration, midiPosition, midiResetRequested, publisher, block, tags>>
      /\ Unread' = Unread /\ Latest' = Latest
  BY DEF LoadPosition, FindNoRecord, Unpolled, Unread, Latest
<1>2. /\ poll' \in [generation : Nat, position : Nat, rows : SUBSET Record, index : Nat]
      /\ poll'.generation = poll.generation /\ poll'.rows = poll.rows
      /\ poll'.position <= midiPosition
  <2>1. /\ poll \in [generation : Nat, position : Nat, rows : SUBSET Record, index : Nat]
        /\ midiPosition \in Nat
    BY DEF MidiTypeOK
  <2>2. poll.position <= midiPosition
    BY <1>1 DEF GenerationsInv
  <2>3. CASE poll' = poll
    BY <2>1, <2>2, <2>3
  <2>4. CASE poll' = [poll EXCEPT !.position = midiPosition]
    BY <2>1, <2>4
  <2>5. QED BY <1>1, <2>3, <2>4
<1>3. MidiTypeOK'
  BY <1>1, <1>2 DEF MidiTypeOK
<1>4. GenerationsInv'
  BY <1>1, <1>2 DEF GenerationsInv
<1>5. TagsInv' /\ OrderInv'
  BY <1>1, <1>2 DEF TagsInv, OrderInv, QueueInOrder, Serials
<1>6. LossInv' /\ SinceLossInv'
  BY <1>1 DEF LossInv, SinceLossInv
<1>7. RunInv' /\ CompleteInv'
  BY <1>1, <1>2 DEF RunInv, CompleteInv, Serials
<1>8. QED BY <1>3, <1>4, <1>5, <1>6, <1>7

\* The answer: a page that is told of a loss starts afresh, and then it is behind.
LEMMA FinishPollInv ==
  ASSUME MidiInv, FinishPoll
  PROVE  MidiInv'
<1> USE DEF MidiInv
<1> USE MidiFacts
<1> DEFINE afresh == ~page.started \/ page.generation # poll.generation \/ midiDroppedEvents
<1>1. /\ poller = "count" /\ poller' = "idle" /\ poll' = NoPoll
      /\ midiDroppedEvents' = FALSE
      /\ UNCHANGED <<midiTelemetry, pendingMidiTelemetry,
                     midiGeneration, midiPosition, midiResetRequested, publisher, block, tags>>
      /\ Unread' = Unread /\ Latest' = Latest
  BY DEF FinishPoll, Unpolled, Unread, Latest
<1>2. page' = [started |-> TRUE, generation |-> poll.generation,
               applied |-> (IF afresh THEN {} ELSE page.applied) \union Serials(poll.rows)]
  BY DEF FinishPoll, Applied, Serials
<1>3. /\ page'.started = TRUE /\ page'.generation = poll.generation
      /\ page'.applied = (IF afresh THEN {} ELSE page.applied) \union Serials(poll.rows)
      /\ poll'.rows = {} /\ poll'.generation = 0
  BY <1>1, <1>2 DEF NoPoll
<1>4. Serials(poll.rows) \subseteq Nat
  BY DEF Serials
<1>5. /\ poll.generation <= midiGeneration /\ page.generation <= poll.generation
      /\ midiGeneration <= Latest
      /\ midiDroppedEvents /\ page.started => page.generation < Latest
  BY <1>1 DEF GenerationsInv, Latest
<1>6. MidiTypeOK'
  <2>1. page' \in [started : BOOLEAN, generation : Nat, applied : SUBSET Nat]
    BY <1>2, <1>4
  <2>2. poll' \in [generation : Nat, position : Nat, rows : SUBSET Record, index : Nat]
    BY <1>1 DEF NoPoll
  <2>3. QED BY <1>1, <2>1, <2>2 DEF MidiTypeOK
<1> HIDE DEF afresh
<1>7. GenerationsInv'
  BY <1>1, <1>3, <1>5 DEF GenerationsInv
<1>8. TagsInv'
  <2>1. \A s \in page'.applied : s \in DOMAIN tags /\ tags[s] = poll.generation
    BY <1>3 DEF TagsInv, Serials, afresh
  <2>2. QED BY <1>1, <1>3, <2>1 DEF TagsInv
<1>9. OrderInv'
  <2>1. \A s \in page'.applied, record \in Unread : s < record.serial
    BY <1>3 DEF OrderInv, Serials
  <2>2. QED BY <1>1, <1>3, <2>1 DEF OrderInv, QueueInOrder, Serials
<1>10. LossInv' /\ SinceLossInv'
  BY <1>1 DEF LossInv, SinceLossInv
<1>11. RunInv'
  <2> SUFFICES ASSUME poll.generation = midiGeneration, NEW first \in page'.applied,
                      NEW s \in DOMAIN tags, first < s, tags[s] = poll.generation,
                      s \notin Serials(Unread)
               PROVE  s \in page'.applied
    BY <1>1, <1>3 DEF RunInv
  <2>1. CASE first \in Serials(poll.rows)
    <3>1. PICK row \in poll.rows : first = row.serial
      BY <2>1 DEF Serials
    <3>2. s \in Serials(poll.rows)
      BY <3>1 DEF RunInv
    <3>3. QED BY <1>3, <3>2
  <2>2. CASE ~afresh /\ first \in page.applied
    <3>1. page.generation = poll.generation
      BY <2>2 DEF afresh
    <3>2. s \in page.applied \/ s \in Serials(poll.rows)
      BY <2>2, <3>1 DEF RunInv
    <3>3. QED BY <1>3, <2>2, <3>2
  <2>3. QED BY <1>3, <2>1, <2>2
<1>12. CompleteInv'
  <2> SUFFICES ASSUME ~midiResetRequested, NEW s \in DOMAIN tags, tags[s] = Latest,
                      s \notin Serials(Unread)
               PROVE  poll.generation = Latest /\ s \in page'.applied
    BY <1>1, <1>3 DEF CompleteInv
  <2>1. CASE page.started /\ page.generation = Latest /\ s \in page.applied
    <3>1. poll.generation = Latest /\ ~afresh
      BY <1>5, <2>1 DEF afresh
    <3>2. QED BY <1>3, <2>1, <3>1
  <2>2. CASE poll.generation = Latest /\ s \in Serials(poll.rows)
    BY <1>3, <2>2
  <2>3. QED BY <2>1, <2>2 DEF CompleteInv
<1>13. QED BY <1>6, <1>7, <1>8, <1>9, <1>10, <1>11, <1>12

\* A page that starts, or a deactivation, asks for a new generation.
LEMMA MidiResetInv ==
  ASSUME MidiInv, StartPage \/ Deactivate
  PROVE  MidiInv'
<1> USE DEF MidiInv
<1> USE MidiFacts
<1>1. /\ midiResetRequested' = TRUE
      /\ UNCHANGED <<midiTelemetry, publisher, block, tags, midiGeneration, midiPosition,
                     midiDroppedEvents, poller, poll, pendingMidiTelemetry>>
      /\ Unread' = Unread /\ Latest' = Latest
      /\ page' = page \/ (page' = FreshPage /\ poller = "idle")
  BY DEF StartPage, Deactivate, publisherVars, pollerVars, Unread, Latest
<1>2. /\ page' \in [started : BOOLEAN, generation : Nat, applied : SUBSET Nat]
      /\ page' = FreshPage =>
           page'.started = FALSE /\ page'.generation = 0 /\ page'.applied = {}
  <2>1. page \in [started : BOOLEAN, generation : Nat, applied : SUBSET Nat]
    BY DEF MidiTypeOK
  <2>2. /\ FreshPage \in [started : BOOLEAN, generation : Nat, applied : SUBSET Nat]
        /\ FreshPage.started = FALSE /\ FreshPage.generation = 0 /\ FreshPage.applied = {}
    BY DEF FreshPage
  <2>3. QED BY <1>1, <2>1, <2>2
<1>3. MidiTypeOK'
  BY <1>1, <1>2 DEF MidiTypeOK
<1>4. GenerationsInv'
  BY <1>1, <1>2 DEF GenerationsInv
<1>5. TagsInv' /\ OrderInv'
  BY <1>1, <1>2 DEF TagsInv, OrderInv, QueueInOrder, Serials
<1>6. LossInv' /\ SinceLossInv'
  BY <1>1 DEF LossInv, SinceLossInv
<1>7. RunInv' /\ CompleteInv'
  BY <1>1, <1>2 DEF RunInv, CompleteInv, Serials
<1>8. QED BY <1>3, <1>4, <1>5, <1>6, <1>7

\* Before the first block nothing was played, and no page has asked.
LEMMA MidiInitInv == MidiInit => MidiInv
<1> SUFFICES ASSUME MidiInit PROVE MidiInv
  OBVIOUS
<1>1. Unread = {} /\ tags = <<>> /\ DOMAIN tags = {} /\ DOMAIN midiTelemetry = {}
  BY DEF MidiInit, Unread
<1>2. poll.rows = {} /\ page.applied = {} /\ page.started = FALSE
      /\ page.generation = 0 /\ block = EmptyBlock
  BY DEF MidiInit, NoPoll, FreshPage
<1>3. MidiTypeOK
  <2>1. midiTelemetry \in Seq(Record) /\ tags \in Seq(Nat \union {Lost})
    BY DEF MidiInit
  <2>2. /\ block \in [generation : Nat, left : Nat, lost : Nat, dropped : BOOLEAN]
        /\ poll \in [generation : Nat, position : Nat, rows : SUBSET Record, index : Nat]
        /\ page \in [started : BOOLEAN, generation : Nat, applied : SUBSET Nat]
    BY DEF MidiInit, NoPoll, FreshPage, EmptyBlock
  <2>3. QED BY <2>1, <2>2 DEF MidiInit, MidiTypeOK
<1>4. GenerationsInv
  BY <1>2 DEF MidiInit, GenerationsInv
<1>5. TagsInv /\ OrderInv
  BY <1>1, <1>2 DEF MidiInit, TagsInv, OrderInv, QueueInOrder
<1>6. LossInv /\ SinceLossInv /\ RunInv /\ CompleteInv
  BY <1>1, <1>2 DEF LossInv, SinceLossInv, RunInv, CompleteInv
<1>7. QED BY <1>3, <1>4, <1>5, <1>6 DEF MidiInv

\* Losses, gaps and what the page has stay in order, whatever the callback and the
\* polls do between each other's loads and stores.
THEOREM MidiInvariance == MidiSpec => []MidiInv
<1>1. MidiInit => MidiInv
  BY MidiInitInv
<1>2. MidiInv /\ [MidiNext]_midiVars => MidiInv'
  <2> SUFFICES ASSUME MidiInv, [MidiNext]_midiVars PROVE MidiInv'
    OBVIOUS
  <2>1. CASE Publish
    BY <2>1, BeginBlockInv, PushEventInv, EndPushInv, StorePositionInv, StoreGenerationInv
    DEF Publish
  <2>2. CASE Poll
    BY <2>2, LookInv, LoadGenerationInv, LoadPositionInv, FinishPollInv DEF Poll
  <2>3. CASE StartPage \/ Deactivate
    BY <2>3, MidiResetInv
  <2>4. CASE UNCHANGED midiVars
    <3>1. /\ UNCHANGED <<midiTelemetry, midiGeneration, midiPosition, midiDroppedEvents,
                         midiResetRequested, publisher, block, poller, poll,
                         pendingMidiTelemetry, page, tags>>
          /\ Unread' = Unread /\ Latest' = Latest
      BY <2>4 DEF midiVars, Unread, Latest
    <3>2. MidiTypeOK' /\ GenerationsInv'
      BY <3>1 DEF MidiInv, MidiTypeOK, GenerationsInv
    <3>3. TagsInv' /\ OrderInv' /\ LossInv' /\ SinceLossInv'
      BY <3>1 DEF MidiInv, TagsInv, OrderInv, QueueInOrder, Serials, LossInv, SinceLossInv
    <3>4. RunInv' /\ CompleteInv'
      BY <3>1 DEF MidiInv, RunInv, CompleteInv, Serials
    <3>5. QED BY <3>2, <3>3, <3>4 DEF MidiInv
  <2>5. QED BY <2>1, <2>2, <2>3, <2>4 DEF MidiNext
<1>3. QED BY <1>1, <1>2, PTL DEF MidiSpec

\* PageFollowsInput: whatever events are lost on the way to the page and whenever it
\* polls, a page that skips an event is about to start afresh, and one with nothing
\* left to fetch has every event of its generation.
THEOREM PagesFollowInput == MidiSpec => []PageFollowsInput
<1>1. MidiInv => GapIsTransient
  <2> SUFFICES ASSUME MidiInv, NEW first \in page.applied, NEW last \in page.applied,
                      NEW between \in DOMAIN tags, first < between, between < last,
                      between \notin page.applied, ~(page.generation < midiGeneration)
               PROVE  publisher = "generation" /\ page.generation < block.generation
    BY DEF GapIsTransient, Gap
  <2> USE MidiFacts DEF MidiInv
  <2>1. page.generation = midiGeneration
    BY DEF GenerationsInv
  <2>2. /\ first \in DOMAIN tags /\ last \in DOMAIN tags
        /\ tags[first] = page.generation /\ tags[last] = page.generation
        /\ tags[last] # Lost
    BY DEF TagsInv, Lost
  <2>3. last \notin Serials(Unread)
    BY DEF OrderInv, Serials
  <2>4. tags[between] = Lost
    <3> SUFFICES ASSUME tags[between] # Lost PROVE FALSE
      OBVIOUS
    <3>1. tags[between] = page.generation
      BY <2>2 DEF TagsInv
    <3>2. between \notin Serials(Unread)
      BY DEF OrderInv, Serials
    <3>3. poll.generation = page.generation /\ between \in Serials(poll.rows)
      BY <2>1, <3>1, <3>2 DEF RunInv
    <3>4. last < between
      BY <3>3 DEF OrderInv, Serials
    <3>5. QED BY <3>4
  <2>5. publisher \notin {"push", "position"}
    BY <2>1, <2>2, <2>3, <2>4 DEF SinceLossInv, Serials
  <2>6. page.generation < Latest
    BY <2>2, <2>4, <2>5 DEF LossInv
  <2>7. QED BY <2>1, <2>5, <2>6 DEF Latest, MidiTypeOK
<1>2. MidiInv => SettledPageIsComplete
  <2> SUFFICES ASSUME MidiInv, Settled
               PROVE  page.applied = {serial \in DOMAIN tags : tags[serial] = midiGeneration}
    BY DEF SettledPageIsComplete
  <2> USE DEF MidiInv, Settled
  <2>1. Serials(Unread) = {} /\ Latest = midiGeneration
    BY DEF Serials, Unread, Latest
  <2>2. Serials(poll.rows) = {}
    BY DEF GenerationsInv, Serials
  <2>3. \A s \in DOMAIN tags : tags[s] = midiGeneration => s \in page.applied
    BY <2>1, <2>2 DEF CompleteInv
  <2>4. QED BY <2>3 DEF TagsInv
<1>3. MidiInv => PageFollowsInput
  BY <1>1, <1>2 DEF PageFollowsInput
<1>4. QED BY <1>3, MidiInvariance, PTL
------------------------------------------------------------------------------
(* Induction and sums.  The library states induction for operators, which   *)
(* the provers cannot instantiate; for sets it follows from the order of    *)
(* the natural numbers being well-founded.                                  *)

\* Every set of natural numbers has a least one.
LEMMA NatMin ==
  ASSUME NEW T, T \subseteq Nat, T # {}
  PROVE  \E x \in T : \A y \in T : x <= y
<1> DEFINE R == {ss \in Nat \X Nat : ss[1] < ss[2]}
<1>0. OpToRel(<, Nat) = R
  BY Zenon DEF OpToRel
<1>1. IsWellFoundedOn(R, Nat)
  BY Zenon, <1>0, NatLessThanWellFounded
<1>2. \A x, y \in Nat : x < y => <<x, y>> \in R
  OBVIOUS
<1> HIDE DEF R
<1>3. PICK x \in T : \A y \in T : ~(<<y, x>> \in R)
  BY <1>1, WFMin
<1>4. ASSUME NEW y \in T PROVE x <= y
  <2>1. x \in Nat /\ y \in Nat
    OBVIOUS
  <2>2. ~(y < x)
    BY <1>2, <1>3, <2>1
  <2> QED BY <2>1, <2>2
<1>5. QED BY <1>4

\* Induction over the natural numbers, for sets: what is shown of 0, and of n + 1
\* from n, holds of all.
LEMMA SetInduction ==
  ASSUME NEW S, 0 \in S, \A n \in Nat : n \in S => n + 1 \in S
  PROVE  Nat \subseteq S
<1> SUFFICES ASSUME Nat \ S # {} PROVE FALSE
  OBVIOUS
<1>1. PICK x \in Nat \ S : \A y \in Nat \ S : x <= y
  BY NatMin
<1>2. x # 0 /\ x - 1 \in Nat
  BY <1>1
<1>3. x - 1 \in S
  BY <1>1, <1>2
<1>4. QED BY <1>1, <1>2, <1>3

\* The partial sums of n numbers.
Sums(n, w, f) == /\ f \in [0 .. n -> Nat]
                 /\ f[0] = 0
                 /\ \A k \in 1 .. n : f[k] = f[k - 1] + w[k]

\* There are partial sums.
LEMMA SumsExist ==
  ASSUME NEW n \in Nat, NEW w \in [1 .. n -> Nat]
  PROVE  \E f : Sums(n, w, f)
<1> DEFINE S == {m \in Nat : m <= n => \E f : Sums(m, w, f)}
<1>1. 0 \in S
  <2>1. Sums(0, w, [k \in 0 .. 0 |-> 0])
    BY DEF Sums
  <2> QED BY <2>1
<1>2. ASSUME NEW m \in Nat, m \in S PROVE m + 1 \in S
  <2> SUFFICES ASSUME m + 1 <= n PROVE \E f : Sums(m + 1, w, f)
    OBVIOUS
  <2>1. PICK f : Sums(m, w, f)
    BY <1>2
  <2> DEFINE g == [k \in 0 .. m + 1 |-> IF k = m + 1 THEN f[m] + w[m + 1] ELSE f[k]]
  <2>2. f[m] \in Nat /\ w[m + 1] \in Nat /\ f \in [0 .. m -> Nat]
    BY <2>1 DEF Sums
  <2>3. g \in [0 .. m + 1 -> Nat]
    BY <2>2
  <2>4. g[0] = 0
    BY <2>1 DEF Sums
  <2>5. ASSUME NEW k \in 1 .. m + 1 PROVE g[k] = g[k - 1] + w[k]
    <3>1. CASE k = m + 1
      <4>1. g[k] = f[m] + w[m + 1] /\ k - 1 = m /\ g[m] = f[m]
        BY <3>1
      <4> HIDE DEF g
      <4> QED BY <4>1, <3>1
    <3>2. CASE k # m + 1
      <4>1. k \in 1 .. m /\ k - 1 \in 0 .. m
        BY <3>2
      <4>2. g[k] = f[k] /\ g[k - 1] = f[k - 1]
        BY <4>1
      <4>3. f[k] = f[k - 1] + w[k]
        BY <2>1, <4>1 DEF Sums
      <4> HIDE DEF g
      <4> QED BY <4>2, <4>3
    <3> QED BY <3>1, <3>2
  <2>6. Sums(m + 1, w, g)
    BY <2>3, <2>4, <2>5 DEF Sums
  <2> QED BY <2>6
<1> HIDE DEF S
<1>3. n \in S
  BY <1>1, <1>2, SetInduction
<1>4. QED BY <1>3 DEF S

\* ... and the last is the sum, since the recursion has no other solution.
LEMMA SumsAreTotals ==
  ASSUME NEW n \in Nat, NEW w \in [1 .. n -> Nat], NEW f, Sums(n, w, f)
  PROVE  Total(w) = f[n]
<1> DEFINE Eq(g) == g = [k \in 0 .. n |-> IF k = 0 THEN 0 ELSE g[k - 1] + w[k]]
<1>1. Eq(f)
  BY DEF Sums
<1>2. Len(w) = n
  OBVIOUS
<1>3. Total(w) = (CHOOSE g : Eq(g))[n]
  BY <1>2 DEF Total
<1>4. ASSUME NEW g, Eq(g) PROVE g[n] = f[n]
  <2> DEFINE S == {m \in Nat : m <= n => g[m] = f[m]}
  <2>1. 0 \in S
    BY <1>4 DEF Sums
  <2>2. ASSUME NEW m \in Nat, m \in S PROVE m + 1 \in S
    <3> SUFFICES ASSUME m + 1 <= n PROVE g[m + 1] = f[m + 1]
      OBVIOUS
    <3>1. g[m + 1] = g[m] + w[m + 1]
      BY <1>4
    <3>2. f[m + 1] = f[m] + w[m + 1]
      BY DEF Sums
    <3> QED BY <3>1, <3>2, <2>2
  <2> HIDE DEF S
  <2>3. n \in S
    BY <2>1, <2>2, SetInduction
  <2> QED BY <2>3 DEF S
<1> HIDE DEF Eq
<1>5. Eq(CHOOSE g : Eq(g))
  BY <1>1
<1>6. QED BY <1>3, <1>4, <1>5

\* A sum of nothing, the kind of a sum, and a sum with one number more at its
\* end or at its front.
LEMMA TotalOfNone ==
  ASSUME NEW w \in [1 .. 0 -> Nat]
  PROVE  Total(w) = 0
<1>1. Sums(0, w, [k \in 0 .. 0 |-> 0])
  BY DEF Sums
<1> QED BY <1>1, SumsAreTotals

\* A sum of natural numbers is one.
LEMMA TotalIsNat ==
  ASSUME NEW n \in Nat, NEW w \in [1 .. n -> Nat]
  PROVE  Total(w) \in Nat
<1>1. PICK f : Sums(n, w, f)
  BY SumsExist
<1>2. Total(w) = f[n]
  BY <1>1, SumsAreTotals
<1> QED BY <1>1, <1>2 DEF Sums

\* One number more at the end.
LEMMA TotalOfLonger ==
  ASSUME NEW n \in Nat, NEW w \in [1 .. n + 1 -> Nat], NEW v \in [1 .. n -> Nat],
         \A k \in 1 .. n : v[k] = w[k]
  PROVE  Total(w) = Total(v) + w[n + 1]
<1>1. PICK f : Sums(n + 1, w, f)
  BY SumsExist
<1> DEFINE g == [k \in 0 .. n |-> f[k]]
<1>2. Sums(n, v, g)
  BY <1>1 DEF Sums
<1>3. Total(w) = f[n + 1] /\ Total(v) = g[n] /\ g[n] = f[n]
  BY <1>1, <1>2, SumsAreTotals
<1>4. f[n + 1] = f[n] + w[n + 1]
  <2>1. n + 1 \in 1 .. n + 1 /\ (n + 1) - 1 = n
    OBVIOUS
  <2> QED BY <1>1, <2>1 DEF Sums
<1> HIDE DEF g
<1> QED BY <1>3, <1>4

\* One number more at the front.
LEMMA TotalFromSecond ==
  ASSUME NEW n \in Nat, NEW w \in [1 .. n + 1 -> Nat], NEW v \in [1 .. n -> Nat],
         \A k \in 1 .. n : v[k] = w[k + 1]
  PROVE  Total(w) = w[1] + Total(v)
<1>1. PICK g : Sums(n, v, g)
  BY SumsExist
<1> DEFINE f == [k \in 0 .. n + 1 |-> IF k = 0 THEN 0 ELSE w[1] + g[k - 1]]
<1>2. g \in [0 .. n -> Nat] /\ g[0] = 0
  BY <1>1 DEF Sums
<1>3. f \in [0 .. n + 1 -> Nat] /\ f[0] = 0
  BY <1>2
<1>4. ASSUME NEW k \in 1 .. n + 1 PROVE f[k] = f[k - 1] + w[k]
  <2>1. CASE k = 1
    <3>1. f[1] = w[1] + g[0] /\ f[0] = 0 /\ w[1] \in Nat
      BY <1>2
    <3> HIDE DEF f
    <3> QED BY <2>1, <3>1, <1>2
  <2>2. CASE k # 1
    <3>1. k - 1 \in 1 .. n /\ k - 1 \in 0 .. n + 1 /\ k - 1 # 0 /\ (k - 1) + 1 = k
      BY <2>2
    <3>2. f[k] = w[1] + g[k - 1] /\ f[k - 1] = w[1] + g[(k - 1) - 1]
      BY <3>1
    <3>3. g[k - 1] = g[(k - 1) - 1] + v[k - 1] /\ v[k - 1] = w[k]
      BY <1>1, <3>1 DEF Sums
    <3>4. w[1] \in Nat /\ g[(k - 1) - 1] \in Nat /\ w[k] \in Nat
      BY <1>2, <3>1
    <3> HIDE DEF f
    <3> QED BY <3>2, <3>3, <3>4
  <2> QED BY <2>1, <2>2
<1>5. Sums(n + 1, w, f)
  BY <1>3, <1>4 DEF Sums
<1>6. f[n + 1] = w[1] + g[n]
  OBVIOUS
<1> HIDE DEF f
<1>7. Total(w) = f[n + 1] /\ Total(v) = g[n]
  <2>1. n + 1 \in Nat
    OBVIOUS
  <2>2. Total(w) = f[n + 1]
    BY <1>5, <2>1, SumsAreTotals
  <2>3. Total(v) = g[n]
    BY <1>1, SumsAreTotals
  <2> QED BY <2>2, <2>3
<1> QED BY <1>6, <1>7

------------------------------------------------------------------------------
(* TelemetryRing: places of the ring.                                       *)

\* What a slot holds, and a read in progress.
Slots    == [Places -> [frames : Seq(Nat), dropped : Nat]]
Readings == [at : {"idle", "counters", "slots", "throw"}, room : Rooms \union {0},
             upTo : Places, index : Places, frames : Seq(Nat), dropped : Nat]

\* After() goes to the next place and wraps.
LEMMA AfterWraps ==
  ASSUME NEW p \in Places
  PROVE  After(p) = IF p + 1 = RingSlots THEN 0 ELSE p + 1
  BY RingAssumption DEF Places, After

\* A distance is counted forwards, around the end of the ring.
LEMMA DistanceIs ==
  ASSUME NEW a \in Places, NEW b \in Places
  PROVE  Distance(a, b) = IF a <= b THEN b - a ELSE b + RingSlots - a
  BY RingAssumption DEF Places, Distance

\* So are the places from a place on.
LEMMA PlaceAt ==
  ASSUME NEW a \in Places, NEW k \in Places
  PROVE  (a + k) % RingSlots = IF a + k < RingSlots THEN a + k ELSE a + k - RingSlots
  BY RingAssumption DEF Places

\* What the proofs use of them.
LEMMA RingPlaces ==
  /\ 0 \in Places
  /\ \A p \in Places : After(p) \in Places
  /\ \A p, q \in Places : /\ Distance(p, q) \in 0 .. RingSlots - 1
                          /\ Distance(p, q) = 0 <=> p = q
                          /\ (After(q) = p) <=> Distance(p, q) = RingSlots - 1
  /\ \A p, q \in Places : p # q => Distance(After(p), q) = Distance(p, q) - 1
  /\ \A p, q \in Places : After(q) # p => Distance(p, After(q)) = Distance(p, q) + 1
  /\ \A p, q, r \in Places : Distance(p, q) = Distance(p, r) => q = r
  /\ RingSlots \in Nat
<1>1. 0 \in Places /\ \A p \in Places : After(p) \in Places
  BY RingAssumption, AfterWraps DEF Places
<1>2. \A p, q \in Places : /\ Distance(p, q) \in 0 .. RingSlots - 1
                           /\ Distance(p, q) = 0 <=> p = q
                           /\ (After(q) = p) <=> Distance(p, q) = RingSlots - 1
  BY RingAssumption, AfterWraps, DistanceIs DEF Places
<1>3. ASSUME NEW p \in Places, NEW q \in Places, p # q
      PROVE  Distance(After(p), q) = Distance(p, q) - 1
  <2>1. After(p) \in Places
    BY <1>1
  <2>2. Distance(After(p), q) = IF After(p) <= q THEN q - After(p)
                                ELSE q + RingSlots - After(p)
    BY <2>1, DistanceIs
  <2>3. Distance(p, q) = IF p <= q THEN q - p ELSE q + RingSlots - p
    BY DistanceIs
  <2> QED BY <2>2, <2>3, <1>3, AfterWraps, RingAssumption DEF Places
<1>4. ASSUME NEW p \in Places, NEW q \in Places, After(q) # p
      PROVE  Distance(p, After(q)) = Distance(p, q) + 1
  <2>1. After(q) \in Places
    BY <1>1
  <2>2. Distance(p, After(q)) = IF p <= After(q) THEN After(q) - p
                                ELSE After(q) + RingSlots - p
    BY <2>1, DistanceIs
  <2>3. Distance(p, q) = IF p <= q THEN q - p ELSE q + RingSlots - p
    BY DistanceIs
  <2> QED BY <2>2, <2>3, <1>4, AfterWraps, RingAssumption DEF Places
<1>5. \A p, q, r \in Places : Distance(p, q) = Distance(p, r) => q = r
  <2>1. ASSUME NEW p \in Places, NEW q \in Places, NEW r \in Places,
               Distance(p, q) = Distance(p, r)
        PROVE  q = r
    <3>1. PICK d \in 0 .. RingSlots - 1 : d = Distance(p, q) /\ d = Distance(p, r)
      BY <1>2, <2>1
    <3>2. /\ d = IF p <= q THEN q - p ELSE q + RingSlots - p
          /\ d = IF p <= r THEN r - p ELSE r + RingSlots - p
      BY <3>1, DistanceIs
    <3> QED BY <3>2, RingAssumption DEF Places
  <2> QED BY <2>1
<1> QED BY <1>1, <1>2, <1>3, <1>4, <1>5, RingAssumption

\* The frames of the slots between two places, one number for each slot.
Weights(slots, a, b) ==
  [k \in 1 .. Distance(a, b) |-> SlotFrames(slots[(a + k - 1) % RingSlots])]

\* They are natural numbers, of slots that lie before the second place.
LEMMA WeightFacts ==
  ASSUME NEW slots \in Slots, NEW a \in Places, NEW b \in Places
  PROVE  /\ Weights(slots, a, b) \in [1 .. Distance(a, b) -> Nat]
         /\ Backlog(slots, a, b) = Total(Weights(slots, a, b))
         /\ \A k \in 1 .. Distance(a, b) : /\ (a + k - 1) % RingSlots \in Places
                                           /\ (a + k - 1) % RingSlots # b
         /\ \A p \in Places : SlotFrames(slots[p]) \in Nat
<1>1. \A p \in Places : SlotFrames(slots[p]) \in Nat
  BY DEF Slots, SlotFrames
<1>2. ASSUME NEW k \in 1 .. Distance(a, b)
      PROVE  /\ (a + k - 1) % RingSlots \in Places
             /\ (a + k - 1) % RingSlots # b
  <2>1. k - 1 \in Places /\ k \in Nat /\ a \in Nat /\ a + k - 1 = a + (k - 1)
    BY RingPlaces DEF Places
  <2>2. (a + (k - 1)) % RingSlots = IF a + (k - 1) < RingSlots THEN a + (k - 1)
                                    ELSE a + (k - 1) - RingSlots
    BY <2>1, PlaceAt
  <2>3. /\ k <= Distance(a, b)
        /\ Distance(a, b) = IF a <= b THEN b - a ELSE b + RingSlots - a
    BY RingPlaces, DistanceIs
  <2>4. (a + (k - 1)) % RingSlots \in Places /\ (a + (k - 1)) % RingSlots # b
    BY <2>1, <2>2, <2>3, RingAssumption DEF Places
  <2> QED BY <2>1, <2>4
<1> QED BY <1>1, <1>2 DEF Weights, Backlog

\* A place is no distance from itself.
LEMMA BacklogOfNone ==
  ASSUME NEW slots \in Slots, NEW a \in Places
  PROVE  Backlog(slots, a, a) = 0
<1>1. Distance(a, a) = 0
  BY RingPlaces
<1> QED BY <1>1, WeightFacts, TotalOfNone

\* What lies between two places is counted by a natural number.
LEMMA BacklogIsNat ==
  ASSUME NEW slots \in Slots, NEW a \in Places, NEW b \in Places
  PROVE  Backlog(slots, a, b) \in Nat
<1>1. Distance(a, b) \in Nat
  BY RingPlaces
<1>2. Weights(slots, a, b) \in [1 .. Distance(a, b) -> Nat]
  BY WeightFacts
<1>3. Total(Weights(slots, a, b)) \in Nat
  BY <1>1, <1>2, TotalIsNat
<1> QED BY <1>3, WeightFacts

\* The slot at the second place does not count.
LEMMA BacklogIgnoresWrite ==
  ASSUME NEW slots \in Slots, NEW more \in Slots, NEW a \in Places, NEW b \in Places,
         \A p \in Places : p # b => more[p] = slots[p]
  PROVE  Backlog(more, a, b) = Backlog(slots, a, b)
<1>1. \A k \in 1 .. Distance(a, b) :
        more[(a + k - 1) % RingSlots] = slots[(a + k - 1) % RingSlots]
  BY WeightFacts
<1>2. Weights(more, a, b) = Weights(slots, a, b)
  BY <1>1 DEF Weights
<1> QED BY <1>2, WeightFacts

\* A published slot adds its frames.
LEMMA BacklogGrows ==
  ASSUME NEW slots \in Slots, NEW a \in Places, NEW b \in Places, After(b) # a
  PROVE  Backlog(slots, a, After(b)) = Backlog(slots, a, b) + SlotFrames(slots[b])
<1> DEFINE n == Distance(a, b)
           w == Weights(slots, a, After(b))
           v == Weights(slots, a, b)
<1>1. After(b) \in Places /\ n \in Nat /\ Distance(a, After(b)) = n + 1 /\ n \in Places
  BY RingPlaces DEF Places
<1>2. w \in [1 .. n + 1 -> Nat] /\ v \in [1 .. n -> Nat]
  BY <1>1, WeightFacts
<1>3. \A k \in 1 .. n : v[k] = w[k]
  BY <1>1 DEF Weights
<1>4. w[n + 1] = SlotFrames(slots[(a + (n + 1) - 1) % RingSlots])
  BY <1>1 DEF Weights
<1>5. (a + (n + 1) - 1) % RingSlots = b
  <2>1. a \in Nat /\ a + (n + 1) - 1 = a + n
    BY <1>1 DEF Places
  <2>2. (a + n) % RingSlots = IF a + n < RingSlots THEN a + n ELSE a + n - RingSlots
    BY <1>1, PlaceAt
  <2>3. n = IF a <= b THEN b - a ELSE b + RingSlots - a
    BY DistanceIs
  <2> HIDE DEF n
  <2> QED BY <2>1, <2>2, <2>3, RingAssumption DEF Places
<1>6. Backlog(slots, a, After(b)) = Total(w) /\ Backlog(slots, a, b) = Total(v)
  BY <1>1, WeightFacts
<1> HIDE DEF n, w, v
<1>7. Total(w) = Total(v) + w[n + 1]
  BY <1>1, <1>2, <1>3, TotalOfLonger
<1> QED BY <1>4, <1>5, <1>6, <1>7

\* A slot that was looked at takes them away.
LEMMA BacklogShrinks ==
  ASSUME NEW slots \in Slots, NEW a \in Places, NEW b \in Places, a # b
  PROVE  Backlog(slots, a, b) = SlotFrames(slots[a]) + Backlog(slots, After(a), b)
<1> DEFINE n == Distance(After(a), b)
           w == Weights(slots, a, b)
           v == Weights(slots, After(a), b)
<1>1. After(a) \in Places /\ n \in Nat /\ Distance(a, b) = n + 1
  BY RingPlaces
<1>2. w \in [1 .. n + 1 -> Nat] /\ v \in [1 .. n -> Nat]
  BY <1>1, WeightFacts
<1>3. ASSUME NEW k \in 1 .. n PROVE v[k] = w[k + 1]
  <2>1. k + 1 \in 1 .. n + 1
    BY <1>1
  <2>2. /\ v[k] = SlotFrames(slots[(After(a) + k - 1) % RingSlots])
        /\ w[k + 1] = SlotFrames(slots[(a + (k + 1) - 1) % RingSlots])
    BY <1>1, <2>1 DEF Weights
  <2>3. k \in Places /\ k - 1 \in Places /\ k \in Nat /\ a \in Nat /\ After(a) \in Nat
    BY <1>1, RingPlaces DEF Places
  <2>4. /\ (After(a) + (k - 1)) % RingSlots = IF After(a) + (k - 1) < RingSlots
             THEN After(a) + (k - 1) ELSE After(a) + (k - 1) - RingSlots
        /\ (a + k) % RingSlots = IF a + k < RingSlots THEN a + k ELSE a + k - RingSlots
    BY <1>1, <2>3, PlaceAt
  <2>5. (After(a) + (k - 1)) % RingSlots = (a + k) % RingSlots
    BY <2>3, <2>4, AfterWraps, RingAssumption DEF Places
  <2>6. After(a) + k - 1 = After(a) + (k - 1) /\ a + (k + 1) - 1 = a + k
    BY <2>3
  <2> QED BY <2>2, <2>5, <2>6
<1>4. w[1] = SlotFrames(slots[a])
  <2>1. a + 1 - 1 = a + 0 /\ 0 \in Places /\ a \in Nat /\ a < RingSlots
    BY RingPlaces DEF Places
  <2>2. (a + 0) % RingSlots = a
    BY <2>1, PlaceAt
  <2> QED BY <1>1, <2>1, <2>2 DEF Weights
<1>5. Backlog(slots, a, b) = Total(w) /\ Backlog(slots, After(a), b) = Total(v)
  BY <1>1, WeightFacts
<1> HIDE DEF n, w, v
<1>6. Total(w) = w[1] + Total(v)
  BY <1>1, <1>2, <1>3, TotalFromSecond
<1> QED BY <1>4, <1>5, <1>6

------------------------------------------------------------------------------
(* The invariant: the callback and the page never meet, the frames lie in   *)
(* order, and every frame is in one place.                                  *)

\* The types of the variables.
RingTypeOK ==
  /\ ring \in Slots /\ ringWrite \in Places /\ ringRead \in Places
  /\ producerDropped \in Nat /\ deliveryDropped \in Nat
  /\ engineFrames \in Seq(Nat) /\ engineDropped \in Nat
  /\ drain \in {"idle", "store", "discard", "publish"}
  /\ reading \in Readings
  /\ made \in Nat /\ delivered \in Seq(Nat) /\ reported \in Nat /\ cleared \in Nat

\* Where the two sides are: the page stays behind the callback, and the
\* callback has a slot to spare when it stores one.
PlacesInv ==
  /\ reading.at = "idle" => reading = NoReading
  /\ reading.at \in {"counters", "throw"} => reading.frames = <<>>
  /\ reading.at = "counters" => reading.dropped = 0 /\ reading.index = ringRead
  /\ reading.at # "idle" =>
       Distance(reading.index, reading.upTo) <= Distance(reading.index, ringWrite)
  /\ Distance(Front, ringWrite) <= Distance(ringRead, ringWrite)
  /\ drain \in {"store", "publish"} => After(ringWrite) # ringRead

\* The frames of a sequence rise; those of one lie below those of another; none
\* is above a bound.
Rising(s)   == \A i, j \in 1 .. Len(s) : i < j => s[i] < s[j]
Below(s, t) == \A i \in 1 .. Len(s), j \in 1 .. Len(t) : s[i] < t[j]
UpTo(s, n)  == \A i \in 1 .. Len(s) : s[i] <= n

\* The slots from a place on that hold frames, the one that is not yet
\* published among them.
Filled(from, write, storing) ==
  {p \in Places : Distance(from, p) < Distance(from, write) \/ (storing /\ p = write)}

\* What was delivered, what a poll has taken, what lies in the slots from a
\* place on and what the engine holds, in this order, rises.
InOrder(got, taken, slots, from, filled, held, n) ==
  /\ Rising(got) /\ Rising(taken) /\ Rising(held)
  /\ Below(got, taken) /\ Below(got, held) /\ Below(taken, held)
  /\ UpTo(got, n) /\ UpTo(taken, n) /\ UpTo(held, n)
  /\ \A p \in filled :
       /\ Rising(slots[p].frames) /\ UpTo(slots[p].frames, n)
       /\ Below(got, slots[p].frames) /\ Below(taken, slots[p].frames)
       /\ Below(slots[p].frames, held)
  /\ \A p, q \in filled : Distance(from, p) < Distance(from, q) =>
                            Below(slots[p].frames, slots[q].frames)

OrderOfFrames ==
  InOrder(delivered, reading.frames, ring, Front,
          Filled(Front, ringWrite, drain = "publish"), engineFrames, made)

\* Every frame is in one place.
Accounts ==
  made = Len(delivered) + reported + cleared + InHand + producerDropped + deliveryDropped
           + Len(engineFrames) + engineDropped

RingInv == RingTypeOK /\ PlacesInv /\ OrderOfFrames /\ Accounts

\* The parts of a joined sequence.
LEMMA JoinedParts ==
  ASSUME NEW s \in Seq(Nat), NEW t \in Seq(Nat)
  PROVE  /\ s \o t \in Seq(Nat) /\ Len(s \o t) = Len(s) + Len(t)
         /\ Len(s) \in Nat /\ Len(t) \in Nat
         /\ \A i \in 1 .. Len(s \o t) :
              \/ i \in 1 .. Len(s) /\ (s \o t)[i] = s[i]
              \/ i - Len(s) \in 1 .. Len(t) /\ (s \o t)[i] = t[i - Len(s)]
  BY ConcatProperties

\* Joining what rises, one below the other, and comparing with a third.
LEMMA JoinedOrder ==
  ASSUME NEW s \in Seq(Nat), NEW t \in Seq(Nat)
  PROVE  /\ Rising(s) /\ Rising(t) /\ Below(s, t) => Rising(s \o t)
         /\ \A u \in Seq(Nat) : Below(s, u) /\ Below(t, u) => Below(s \o t, u)
         /\ \A u \in Seq(Nat) : Below(u, s) /\ Below(u, t) => Below(u, s \o t)
         /\ \A n \in Nat : UpTo(s, n) /\ UpTo(t, n) => UpTo(s \o t, n)
<1> DEFINE st == s \o t
<1>1. /\ st \in Seq(Nat) /\ Len(st) = Len(s) + Len(t)
      /\ Len(s) \in Nat /\ Len(t) \in Nat
      /\ \A i \in 1 .. Len(st) : \/ i \in 1 .. Len(s) /\ st[i] = s[i]
                                 \/ i - Len(s) \in 1 .. Len(t) /\ st[i] = t[i - Len(s)]
  BY JoinedParts
<1> HIDE DEF st
<1>2. ASSUME Rising(s), Rising(t), Below(s, t) PROVE Rising(st)
  <2> SUFFICES ASSUME NEW i \in 1 .. Len(st), NEW j \in 1 .. Len(st), i < j
               PROVE  st[i] < st[j]
    BY DEF Rising
  <2>1. CASE j \in 1 .. Len(s) /\ st[j] = s[j]
    <3>1. i \in 1 .. Len(s) /\ ~(i - Len(s) \in 1 .. Len(t))
      BY <1>1, <2>1
    <3> QED BY <1>1, <1>2, <2>1, <3>1 DEF Rising
  <2>2. CASE j - Len(s) \in 1 .. Len(t) /\ st[j] = t[j - Len(s)]
    <3>1. CASE i \in 1 .. Len(s) /\ st[i] = s[i]
      BY <1>2, <2>2, <3>1 DEF Below
    <3>2. CASE i - Len(s) \in 1 .. Len(t) /\ st[i] = t[i - Len(s)]
      <4>1. i - Len(s) < j - Len(s)
        BY <1>1
      <4> QED BY <1>2, <2>2, <3>2, <4>1 DEF Rising
    <3> QED BY <1>1, <3>1, <3>2
  <2> QED BY <1>1, <2>1, <2>2
<1>3. ASSUME NEW u \in Seq(Nat), Below(s, u), Below(t, u) PROVE Below(st, u)
  BY <1>1, <1>3 DEF Below
<1>4. ASSUME NEW u \in Seq(Nat), Below(u, s), Below(u, t) PROVE Below(u, st)
  BY <1>1, <1>4 DEF Below
<1>5. ASSUME NEW n \in Nat, UpTo(s, n), UpTo(t, n) PROVE UpTo(st, n)
  BY <1>1, <1>5 DEF UpTo
<1> QED BY <1>2, <1>3, <1>4, <1>5 DEF st

\* Nothing is out of order in an empty sequence.
LEMMA EmptyOrder ==
  /\ Rising(<<>>) /\ \A n : UpTo(<<>>, n)
  /\ \A s : Below(<<>>, s) /\ Below(s, <<>>)
<1>1. 1 .. Len(<<>>) = {}
  OBVIOUS
<1> QED BY <1>1 DEF Rising, UpTo, Below

\* A frame above all others may follow.
LEMMA NextFrame ==
  ASSUME NEW s \in Seq(Nat), NEW n \in Nat
  PROVE  /\ Append(s, n + 1) \in Seq(Nat)
         /\ Rising(s) /\ UpTo(s, n) => Rising(Append(s, n + 1))
         /\ UpTo(s, n) => UpTo(s, n + 1) /\ UpTo(Append(s, n + 1), n + 1)
         /\ \A u \in Seq(Nat) : UpTo(u, n) /\ Below(u, s) => Below(u, Append(s, n + 1))
<1> DEFINE m == Append(s, n + 1)
<1>1. /\ m \in Seq(Nat) /\ Len(m) = Len(s) + 1 /\ Len(s) \in Nat
      /\ \A i \in 1 .. Len(s) : m[i] = s[i]
      /\ m[Len(m)] = n + 1
  OBVIOUS
<1> HIDE DEF m
<1>2. \A i \in 1 .. Len(m) : i = Len(m) \/ i \in 1 .. Len(s)
  BY <1>1
<1>3. \A i \in 1 .. Len(s) : s[i] \in Nat
  OBVIOUS
<1>4. ASSUME Rising(s), UpTo(s, n) PROVE Rising(m)
  <2> SUFFICES ASSUME NEW i \in 1 .. Len(m), NEW j \in 1 .. Len(m), i < j
               PROVE  m[i] < m[j]
    BY DEF Rising
  <2>1. i \in 1 .. Len(s)
    BY <1>1
  <2>2. CASE j \in 1 .. Len(s)
    BY <1>1, <1>4, <2>1, <2>2 DEF Rising
  <2>3. CASE j = Len(m)
    <3>1. s[i] <= n /\ s[i] \in Nat
      BY <1>3, <1>4, <2>1 DEF UpTo
    <3>2. m[i] = s[i] /\ m[j] = n + 1
      BY <1>1, <2>1, <2>3
    <3> QED BY <3>1, <3>2
  <2> QED BY <1>2, <2>2, <2>3
<1>5. ASSUME UpTo(s, n) PROVE UpTo(s, n + 1) /\ UpTo(m, n + 1)
  <2>1. \A i \in 1 .. Len(s) : s[i] <= n + 1
    BY <1>3, <1>5 DEF UpTo
  <2>2. \A i \in 1 .. Len(m) : m[i] <= n + 1
    BY <1>1, <1>2, <2>1
  <2> QED BY <2>1, <2>2 DEF UpTo
<1>6. ASSUME NEW u \in Seq(Nat), UpTo(u, n), Below(u, s) PROVE Below(u, m)
  <2>1. \A i \in 1 .. Len(u) : u[i] \in Nat
    OBVIOUS
  <2> SUFFICES ASSUME NEW i \in 1 .. Len(u), NEW j \in 1 .. Len(m)
               PROVE  u[i] < m[j]
    BY DEF Below
  <2>2. CASE j \in 1 .. Len(s)
    BY <1>1, <1>6, <2>2 DEF Below
  <2>3. CASE j = Len(m)
    <3>1. u[i] <= n /\ u[i] \in Nat
      BY <1>6, <2>1 DEF UpTo
    <3> QED BY <1>1, <2>3, <3>1
  <2> QED BY <1>2, <2>2, <2>3
<1> QED BY <1>1, <1>4, <1>5, <1>6 DEF m

\* Which slots are filled, and in which order they lie.
LEMMA FilledFacts ==
  ASSUME NEW a \in Places, NEW w \in Places
  PROVE  /\ Filled(a, w, TRUE) = Filled(a, w, FALSE) \union {w}
         /\ \A p \in Filled(a, w, FALSE) : Distance(a, p) < Distance(a, w) /\ p # w
         /\ After(w) # a => Filled(a, After(w), FALSE) \subseteq Filled(a, w, TRUE)
         /\ Filled(w, w, FALSE) = {}
<1>1. Filled(a, w, TRUE) = Filled(a, w, FALSE) \union {w}
  BY DEF Filled
<1>2. ASSUME NEW p \in Filled(a, w, FALSE) PROVE Distance(a, p) < Distance(a, w) /\ p # w
  <2>1. p \in Places /\ Distance(a, p) < Distance(a, w)
    BY DEF Filled
  <2>2. Distance(a, w) \in Nat
    BY RingPlaces
  <2> QED BY <2>1, <2>2
<1>3. ASSUME After(w) # a, NEW p \in Filled(a, After(w), FALSE)
      PROVE  p \in Filled(a, w, TRUE)
  <2>1. p \in Places /\ Distance(a, p) < Distance(a, After(w))
    BY DEF Filled
  <2>2. Distance(a, After(w)) = Distance(a, w) + 1
    BY <1>3, RingPlaces
  <2>3. Distance(a, p) \in Nat /\ Distance(a, w) \in Nat
    BY <2>1, RingPlaces
  <2>4. Distance(a, p) < Distance(a, w) \/ Distance(a, p) = Distance(a, w)
    BY <2>1, <2>2, <2>3
  <2>5. Distance(a, p) = Distance(a, w) => p = w
    BY <2>1, RingPlaces
  <2> QED BY <2>1, <2>4, <2>5 DEF Filled
<1>4. Filled(w, w, FALSE) = {}
  <2>1. Distance(w, w) = 0 /\ \A p \in Places : Distance(w, p) \in Nat
    BY RingPlaces
  <2> QED BY <2>1 DEF Filled
<1> QED BY <1>1, <1>2, <1>3, <1>4

\* Behind a slot that was looked at lie the others, one place nearer.
LEMMA FilledBehind ==
  ASSUME NEW a \in Places, NEW w \in Places, NEW storing \in BOOLEAN, a # w
  PROVE  /\ a \in Filled(a, w, storing)
         /\ \A p \in Filled(After(a), w, storing) :
              /\ p \in Filled(a, w, storing)
              /\ Distance(a, a) < Distance(a, p)
              /\ Distance(After(a), p) = Distance(a, p) - 1
              /\ Distance(a, p) \in Nat
<1>1. Distance(a, a) = 0 /\ Distance(a, w) \in Nat /\ Distance(a, w) # 0
  BY RingPlaces
<1>2. a \in Filled(a, w, storing)
  BY <1>1 DEF Filled
<1>3. ASSUME NEW p \in Filled(After(a), w, storing)
      PROVE  /\ p \in Filled(a, w, storing)
             /\ Distance(a, a) < Distance(a, p)
             /\ Distance(After(a), p) = Distance(a, p) - 1
             /\ Distance(a, p) \in Nat
  <2>1. p \in Places /\ After(a) \in Places
    BY RingPlaces DEF Filled
  <2>2. p # a
    <3> SUFFICES ASSUME p = a PROVE FALSE
      OBVIOUS
    <3>1. Distance(After(a), a) < Distance(After(a), w)
      BY DEF Filled
    <3>2. Distance(After(a), a) = RingSlots - 1 /\ RingSlots \in Nat
      BY <2>1, RingPlaces
    <3>3. Distance(After(a), w) \in 0 .. RingSlots - 1
      BY <2>1, RingPlaces
    <3> QED BY <3>1, <3>2, <3>3
  <2>3. /\ Distance(After(a), p) = Distance(a, p) - 1
        /\ Distance(After(a), w) = Distance(a, w) - 1
        /\ Distance(a, p) \in Nat /\ Distance(a, p) # 0
    BY <2>1, <2>2, RingPlaces
  <2>4. p \in Filled(a, w, storing)
    BY <2>1, <2>3, <1>1 DEF Filled
  <2> QED BY <1>1, <2>3, <2>4
<1> QED BY <1>2, <1>3

\* Fewer slots, in the same places.
LEMMA OrderOfFewer ==
  ASSUME NEW got, NEW taken, NEW slots, NEW a, NEW filled, NEW held, NEW n,
         InOrder(got, taken, slots, a, filled, held, n), NEW fewer \in SUBSET filled
  PROVE  InOrder(got, taken, slots, a, fewer, held, n)
  BY DEF InOrder

\* The engine makes a frame and keeps it, or not.
LEMMA OrderOfMade ==
  ASSUME NEW got \in Seq(Nat), NEW taken \in Seq(Nat), NEW slots \in Slots, NEW a,
         NEW filled \in SUBSET Places, NEW held \in Seq(Nat), NEW n \in Nat,
         InOrder(got, taken, slots, a, filled, held, n)
  PROVE  /\ InOrder(got, taken, slots, a, filled, held, n + 1)
         /\ InOrder(got, taken, slots, a, filled, Append(held, n + 1), n + 1)
<1>1. \A p \in filled : slots[p].frames \in Seq(Nat)
  BY DEF Slots
<1>2. \A s \in Seq(Nat) : UpTo(s, n) => UpTo(s, n + 1)
  BY NextFrame
<1>3. InOrder(got, taken, slots, a, filled, held, n + 1)
  BY <1>1, <1>2 DEF InOrder
<1>4. Rising(held) /\ UpTo(held, n)
  BY DEF InOrder
<1>5. Rising(Append(held, n + 1)) /\ UpTo(Append(held, n + 1), n + 1)
  BY <1>4, NextFrame
<1>6. \A u \in Seq(Nat) : UpTo(u, n) /\ Below(u, held) => Below(u, Append(held, n + 1))
  BY NextFrame
<1> DEFINE more == Append(held, n + 1)
<1> HIDE DEF more
<1>7. Rising(more) /\ UpTo(more, n + 1)
  BY <1>5 DEF more
<1>8. \A u \in Seq(Nat) : UpTo(u, n) /\ Below(u, held) => Below(u, more)
  BY <1>6 DEF more
<1>9. InOrder(got, taken, slots, a, filled, more, n + 1)
  BY <1>1, <1>2, <1>7, <1>8 DEF InOrder
<1> QED BY <1>3, <1>9 DEF more

\* The engine gives its frames away.
LEMMA OrderOfDiscarded ==
  ASSUME NEW got, NEW taken, NEW slots, NEW a, NEW filled, NEW held, NEW n,
         InOrder(got, taken, slots, a, filled, held, n)
  PROVE  InOrder(got, taken, slots, a, filled, <<>>, n)
  BY EmptyOrder DEF InOrder

\* They go into a slot behind all others.
LEMMA OrderOfStored ==
  ASSUME NEW got, NEW taken, NEW slots \in Slots, NEW more \in Slots, NEW a \in Places,
         NEW w \in Places, NEW held, NEW n,
         InOrder(got, taken, slots, a, Filled(a, w, FALSE), held, n),
         more[w].frames = held, \A p \in Places : p # w => more[p] = slots[p]
  PROVE  InOrder(got, taken, more, a, Filled(a, w, TRUE), <<>>, n)
<1> DEFINE filled == Filled(a, w, FALSE)
<1>1. /\ Filled(a, w, TRUE) = filled \union {w}
      /\ \A p \in filled : Distance(a, p) < Distance(a, w) /\ p # w
  BY FilledFacts
<1>2. filled \subseteq Places /\ \A p \in filled : more[p] = slots[p]
  BY <1>1 DEF Filled
<1>3. \A p \in Places : Distance(a, p) \in Nat
  BY RingPlaces
<1>4. InOrder(got, taken, slots, a, filled, held, n)
  OBVIOUS
<1> HIDE DEF filled
<1>5. \A p \in filled \union {w} :
        /\ Rising(more[p].frames) /\ UpTo(more[p].frames, n)
        /\ Below(got, more[p].frames) /\ Below(taken, more[p].frames)
        /\ Below(more[p].frames, <<>>)
  BY <1>2, <1>4, EmptyOrder DEF InOrder
<1>6. ASSUME NEW p \in filled \union {w}, NEW q \in filled \union {w},
             Distance(a, p) < Distance(a, q)
      PROVE  Below(more[p].frames, more[q].frames)
  <2>1. p \in filled
    <3> SUFFICES ASSUME p = w PROVE FALSE
      OBVIOUS
    <3>1. q \in filled \/ q = w
      OBVIOUS
    <3>2. Distance(a, q) \in Nat /\ Distance(a, w) \in Nat
      BY <1>2, <1>3
    <3> QED BY <1>1, <1>6, <3>1, <3>2
  <2>2. CASE q \in filled
    BY <1>2, <1>4, <1>6, <2>1, <2>2 DEF InOrder
  <2>3. CASE q = w
    BY <1>2, <1>4, <2>1, <2>3 DEF InOrder
  <2> QED BY <2>2, <2>3
<1>7. InOrder(got, taken, more, a, filled \union {w}, <<>>, n)
  BY <1>4, <1>5, <1>6, EmptyOrder DEF InOrder
<1> QED BY <1>1, <1>7

\* The page passes over a slot.
LEMMA OrderOfSkipped ==
  ASSUME NEW got, NEW taken, NEW slots, NEW a \in Places, NEW w \in Places,
         NEW storing \in BOOLEAN, a # w, NEW held, NEW n,
         InOrder(got, taken, slots, a, Filled(a, w, storing), held, n)
  PROVE  InOrder(got, taken, slots, After(a), Filled(After(a), w, storing), held, n)
<1> DEFINE rest == Filled(After(a), w, storing)
           filled == Filled(a, w, storing)
<1>1. \A p \in rest : /\ p \in filled
                      /\ Distance(After(a), p) = Distance(a, p) - 1
                      /\ Distance(a, p) \in Nat
  BY FilledBehind
<1>2. InOrder(got, taken, slots, a, filled, held, n)
  OBVIOUS
<1> HIDE DEF rest, filled
<1>3. ASSUME NEW p \in rest, NEW q \in rest, Distance(After(a), p) < Distance(After(a), q)
      PROVE  Below(slots[p].frames, slots[q].frames)
  <2>1. Distance(a, p) < Distance(a, q)
    BY <1>1, <1>3
  <2> QED BY <1>1, <1>2, <2>1 DEF InOrder
<1>4. InOrder(got, taken, slots, After(a), rest, held, n)
  BY <1>1, <1>2, <1>3 DEF InOrder
<1> QED BY <1>4 DEF rest

\* ... and takes its frames.
LEMMA OrderOfTaken ==
  ASSUME NEW got \in Seq(Nat), NEW taken \in Seq(Nat), NEW slots \in Slots,
         NEW a \in Places, NEW w \in Places,
         NEW storing \in BOOLEAN, a # w, NEW held \in Seq(Nat), NEW n \in Nat,
         InOrder(got, taken, slots, a, Filled(a, w, storing), held, n)
  PROVE  InOrder(got, taken \o slots[a].frames, slots, After(a),
                 Filled(After(a), w, storing), held, n)
<1> DEFINE rest == Filled(After(a), w, storing)
           filled == Filled(a, w, storing)
           s == slots[a].frames
           more == taken \o s
<1>1. a \in filled /\ \A p \in rest : p \in filled /\ Distance(a, a) < Distance(a, p)
  BY FilledBehind
<1>2. InOrder(got, taken, slots, a, filled, held, n)
  OBVIOUS
<1>3. InOrder(got, taken, slots, After(a), rest, held, n)
  BY OrderOfSkipped
<1>4. s \in Seq(Nat) /\ \A p \in rest : slots[p].frames \in Seq(Nat)
  BY DEF Slots, Filled
<1>5. /\ Rising(taken) /\ Rising(s) /\ Below(taken, s)
      /\ Below(got, taken) /\ Below(got, s) /\ Below(taken, held) /\ Below(s, held)
      /\ UpTo(taken, n) /\ UpTo(s, n)
  BY <1>1, <1>2 DEF InOrder
<1>6. ASSUME NEW p \in rest
      PROVE  Below(taken, slots[p].frames) /\ Below(s, slots[p].frames)
  BY <1>1, <1>2 DEF InOrder
<1> HIDE DEF rest, filled, s
<1>7. /\ Rising(more) /\ Below(got, more) /\ Below(more, held) /\ UpTo(more, n)
      /\ \A p \in rest : Below(more, slots[p].frames)
  BY <1>4, <1>5, <1>6, JoinedOrder
<1> HIDE DEF more
<1>8. InOrder(got, more, slots, After(a), rest, held, n)
  BY <1>3, <1>7 DEF InOrder
<1> QED BY <1>8 DEF rest, s, more

\* A poll that ends delivers what it has taken.
LEMMA OrderOfDelivered ==
  ASSUME NEW got \in Seq(Nat), NEW taken \in Seq(Nat), NEW slots \in Slots, NEW a,
         NEW filled \in SUBSET Places, NEW held \in Seq(Nat), NEW n \in Nat,
         InOrder(got, taken, slots, a, filled, held, n)
  PROVE  InOrder(got \o taken, <<>>, slots, a, filled, held, n)
<1> DEFINE more == got \o taken
<1>1. \A p \in filled : slots[p].frames \in Seq(Nat)
  BY DEF Slots
<1>2. /\ Rising(got) /\ Rising(taken) /\ Below(got, taken)
      /\ Below(got, held) /\ Below(taken, held) /\ UpTo(got, n) /\ UpTo(taken, n)
      /\ \A p \in filled : Below(got, slots[p].frames) /\ Below(taken, slots[p].frames)
  BY DEF InOrder
<1>3. /\ Rising(more) /\ Below(more, held) /\ UpTo(more, n)
      /\ \A p \in filled : Below(more, slots[p].frames)
  BY <1>1, <1>2, JoinedOrder
<1> HIDE DEF more
<1>4. InOrder(more, <<>>, slots, a, filled, held, n)
  BY <1>3, EmptyOrder DEF InOrder
<1> QED BY <1>4 DEF more

------------------------------------------------------------------------------
(* The steps of callback and page keep it.                                  *)

\* What the invariant says of the places and numbers of a state.
LEMMA RingFacts ==
  ASSUME RingInv
  PROVE  /\ Front \in Places /\ reading.frames \in Seq(Nat) /\ Len(reading.frames) \in Nat
         /\ reading.dropped \in Nat /\ reading.index \in Places /\ reading.upTo \in Places
         /\ reading.at \in {"idle", "counters", "slots", "throw"}
         /\ Backlog(ring, Front, ringWrite) \in Nat
         /\ SlotFrames(ring[ringWrite]) \in Nat
         /\ Filled(Front, ringWrite, drain = "publish") \in SUBSET Places
         /\ Len(engineFrames) \in Nat /\ Len(delivered) \in Nat
<1>1. RingTypeOK
  BY DEF RingInv
<1>2. reading \in Readings
  BY <1>1 DEF RingTypeOK
<1>3. /\ reading.frames \in Seq(Nat) /\ reading.dropped \in Nat
      /\ reading.index \in Places /\ reading.upTo \in Places
      /\ reading.at \in {"idle", "counters", "slots", "throw"}
  BY <1>2 DEF Readings
<1>4. Front \in Places /\ ringWrite \in Places /\ ring \in Slots
  BY <1>1, <1>3 DEF RingTypeOK, Front
<1>5. SlotFrames(ring[ringWrite]) \in Nat
  BY <1>4, WeightFacts
<1>6. Len(engineFrames) \in Nat /\ Len(delivered) \in Nat
  BY <1>1 DEF RingTypeOK
<1>7. Backlog(ring, Front, ringWrite) \in Nat
  BY <1>4, BacklogIsNat
<1>8. Filled(Front, ringWrite, drain = "publish") \in SUBSET Places
  BY DEF Filled
<1>9. Len(reading.frames) \in Nat
  BY <1>3
<1> QED BY <1>3, <1>4, <1>5, <1>6, <1>7, <1>8, <1>9

\* Nothing has been made yet.
LEMMA RingStarts ==
  ASSUME RingInit
  PROVE  RingInv
<1>1. 0 \in Places
  BY RingPlaces
<1>2. EmptySlot \in [frames : Seq(Nat), dropped : Nat]
  BY DEF EmptySlot
<1>3. ring \in Slots
  BY <1>2 DEF RingInit, Slots
<1>4. NoReading \in Readings
  BY <1>1 DEF NoReading, Readings
<1>5. RingTypeOK
  BY <1>1, <1>3, <1>4 DEF RingInit, RingTypeOK
<1>6. /\ reading.at = "idle" /\ reading.frames = <<>> /\ reading.dropped = 0 /\ Front = 0
      /\ reading = NoReading
  BY DEF RingInit, NoReading, Front
<1>7. Distance(0, 0) = 0 /\ Backlog(ring, 0, 0) = 0 /\ Filled(0, 0, FALSE) = {}
  BY <1>1, <1>3, RingPlaces, BacklogOfNone, FilledFacts
<1>8. PlacesInv
  BY <1>6, <1>7 DEF PlacesInv, RingInit
<1>9. OrderOfFrames
  BY <1>6, <1>7, EmptyOrder DEF OrderOfFrames, InOrder, RingInit
<1>10. Accounts
  BY <1>6, <1>7 DEF Accounts, InHand, RingInit
<1> QED BY <1>5, <1>8, <1>9, <1>10 DEF RingInv

\* The engine makes a frame.
LEMMA MakeFrameKeeps ==
  ASSUME RingInv, MakeFrame
  PROVE  RingInv'
<1>1. RingTypeOK'
  <2>1. made + 1 \in Nat /\ engineDropped + 1 \in Nat
    BY DEF RingInv, RingTypeOK
  <2>2. Append(engineFrames, made + 1) \in Seq(Nat)
    BY <2>1 DEF RingInv, RingTypeOK
  <2>3. made' \in Nat /\ engineFrames' \in Seq(Nat) /\ engineDropped' \in Nat
    BY <2>1, <2>2 DEF RingInv, RingTypeOK, MakeFrame
  <2> QED BY <2>3 DEF RingInv, RingTypeOK, MakeFrame
<1>2. Front' = Front /\ PlacesInv'
  BY DEF RingInv, PlacesInv, MakeFrame, Front
<1>3. OrderOfFrames'
  <2>1. InOrder(delivered, reading.frames, ring, Front,
                Filled(Front, ringWrite, drain = "publish"), engineFrames, made)
    BY DEF RingInv, OrderOfFrames
  <2>2. /\ delivered \in Seq(Nat) /\ ring \in Slots /\ engineFrames \in Seq(Nat) /\ made \in Nat
    BY DEF RingInv, RingTypeOK
  <2> DEFINE filled == Filled(Front, ringWrite, drain = "publish")
  <2>3. reading.frames \in Seq(Nat) /\ filled \in SUBSET Places
    BY RingFacts
  <2>4. /\ InOrder(delivered, reading.frames, ring, Front, filled, engineFrames, made + 1)
        /\ InOrder(delivered, reading.frames, ring, Front, filled,
                   Append(engineFrames, made + 1), made + 1)
    BY <2>1, <2>2, <2>3, OrderOfMade
  <2> QED BY <1>2, <2>4 DEF OrderOfFrames, MakeFrame
<1>4. Accounts'
  <2>1. InHand' = InHand
    BY <1>2 DEF MakeFrame, InHand
  <2>2. Len(Append(engineFrames, made + 1)) = Len(engineFrames) + 1
    BY DEF RingInv, RingTypeOK
  <2>3. InHand \in Nat
    BY RingFacts DEF InHand
  <2>4. Len(engineFrames') + engineDropped' = Len(engineFrames) + engineDropped + 1
    BY <2>2, RingFacts DEF RingInv, RingTypeOK, MakeFrame
  <2>5. /\ made \in Nat /\ reported \in Nat /\ cleared \in Nat /\ producerDropped \in Nat
        /\ deliveryDropped \in Nat /\ engineDropped \in Nat
        /\ Len(delivered) \in Nat /\ Len(engineFrames) \in Nat
    BY RingFacts DEF RingInv, RingTypeOK
  <2>6. /\ made' = made + 1 /\ delivered' = delivered /\ reported' = reported
        /\ cleared' = cleared /\ producerDropped' = producerDropped
        /\ deliveryDropped' = deliveryDropped
        /\ Len(engineFrames') \in Nat /\ engineDropped' \in Nat
    BY <1>1 DEF RingTypeOK, MakeFrame
  <2> QED BY <2>1, <2>3, <2>4, <2>5, <2>6 DEF RingInv, Accounts
<1> QED BY <1>1, <1>2, <1>3, <1>4 DEF RingInv

\* The callback sees whether there is a slot to spare.
LEMMA BeginDrainKeeps ==
  ASSUME RingInv, BeginDrain
  PROVE  RingInv'
<1>1. RingTypeOK'
  BY DEF RingInv, RingTypeOK, BeginDrain
<1>2. Front' = Front /\ PlacesInv'
  BY DEF RingInv, PlacesInv, BeginDrain, Front
<1>3. (drain' = "publish") = FALSE /\ (drain = "publish") = FALSE
  BY DEF BeginDrain
<1>4. OrderOfFrames'
  BY <1>2, <1>3 DEF RingInv, OrderOfFrames, BeginDrain
<1>5. InHand' = InHand
  BY <1>2, <1>3 DEF InHand, BeginDrain
<1>6. Accounts'
  BY <1>5 DEF RingInv, Accounts, BeginDrain
<1> QED BY <1>1, <1>2, <1>4, <1>6 DEF RingInv

\* It counts what there is no room for.
LEMMA DiscardKeeps ==
  ASSUME RingInv, Discard
  PROVE  RingInv'
<1>1. RingTypeOK'
  BY RingFacts DEF RingInv, RingTypeOK, Discard
<1>2. Front' = Front /\ PlacesInv'
  BY DEF RingInv, PlacesInv, Discard, Front
<1>3. (drain' = "publish") = FALSE /\ (drain = "publish") = FALSE
  BY DEF Discard
<1>4. OrderOfFrames'
  <2>1. InOrder(delivered, reading.frames, ring, Front, Filled(Front, ringWrite, FALSE),
                <<>>, made)
    BY <1>3, OrderOfDiscarded DEF RingInv, OrderOfFrames
  <2> QED BY <1>2, <1>3, <2>1 DEF OrderOfFrames, Discard
<1>5. InHand' = InHand /\ InHand \in Nat
  BY <1>2, <1>3, RingFacts DEF InHand, Discard
<1>6. Accounts'
  BY <1>5, RingFacts DEF RingInv, RingTypeOK, Accounts, Discard
<1> QED BY <1>1, <1>2, <1>4, <1>6 DEF RingInv

\* It moves the frames of the engine into a slot.
LEMMA StoreKeeps ==
  ASSUME RingInv, Store
  PROVE  RingInv'
<1>1. RingTypeOK /\ PlacesInv /\ OrderOfFrames /\ Accounts
  BY DEF RingInv
<1> DEFINE s == [frames |-> engineFrames, dropped |-> engineDropped]
           more == [ring EXCEPT ![ringWrite] = s]
<1>2. /\ ring \in Slots /\ ringWrite \in Places /\ Front \in Places
      /\ engineFrames \in Seq(Nat) /\ engineDropped \in Nat
      /\ delivered \in Seq(Nat) /\ reading.frames \in Seq(Nat)
  BY <1>1, RingFacts DEF RingTypeOK
<1>3. more \in Slots /\ more[ringWrite] = s /\ \A p \in Places : p # ringWrite => more[p] = ring[p]
  BY <1>2 DEF Slots
<1>4. ring' = more
  BY DEF Store
<1> HIDE DEF more
<1>5. RingTypeOK'
  <2>1. engineFrames' \in Seq(Nat) /\ engineDropped' \in Nat
    BY DEF Store
  <2>2. ring' \in Slots
    BY <1>3, <1>4
  <2> QED BY <1>1, <2>1, <2>2 DEF RingTypeOK, Store
<1>6. Front' = Front /\ PlacesInv'
  BY <1>1 DEF PlacesInv, Store, Front
<1>7. (drain' = "publish") = TRUE /\ (drain = "publish") = FALSE
  BY DEF Store
<1>8. OrderOfFrames'
  <2>1. InOrder(delivered, reading.frames, ring, Front, Filled(Front, ringWrite, FALSE),
                engineFrames, made)
    BY <1>1, <1>7 DEF OrderOfFrames
  <2>2. more[ringWrite].frames = engineFrames
    BY <1>3
  <2>3. InOrder(delivered, reading.frames, more, Front, Filled(Front, ringWrite, TRUE), <<>>, made)
    BY <1>2, <1>3, <2>1, <2>2, OrderOfStored
  <2> QED BY <1>4, <1>6, <1>7, <2>3 DEF OrderOfFrames, Store
<1>9. Accounts'
  <2>1. Backlog(more, Front, ringWrite) = Backlog(ring, Front, ringWrite)
    BY <1>2, <1>3, BacklogIgnoresWrite
  <2>2. SlotFrames(more[ringWrite]) = Len(engineFrames) + engineDropped
    BY <1>3 DEF SlotFrames
  <2>3. InHand' = InHand + Len(engineFrames) + engineDropped
    <3>1. InHand' = Len(reading.frames) + reading.dropped + SlotFrames(more[ringWrite])
                      + Backlog(more, Front, ringWrite)
      BY <1>4, <1>6, <1>7 DEF InHand, Store
    <3>2. InHand = Len(reading.frames) + reading.dropped + 0 + Backlog(ring, Front, ringWrite)
      BY <1>7 DEF InHand
    <3>3. /\ Len(reading.frames) \in Nat /\ reading.dropped \in Nat
          /\ Backlog(ring, Front, ringWrite) \in Nat
          /\ Len(engineFrames) \in Nat /\ engineDropped \in Nat
      BY <1>2, RingFacts
    <3> QED BY <2>1, <2>2, <3>1, <3>2, <3>3
  <2>4. InHand \in Nat
    BY <1>7, RingFacts DEF InHand
  <2>5. Len(engineFrames') = 0 /\ engineDropped' = 0
    BY DEF Store
  <2>6. /\ made \in Nat /\ reported \in Nat /\ cleared \in Nat /\ producerDropped \in Nat
        /\ deliveryDropped \in Nat /\ engineDropped \in Nat
        /\ Len(delivered) \in Nat /\ Len(engineFrames) \in Nat
    BY <1>1, RingFacts DEF RingTypeOK
  <2>7. /\ made' = made /\ delivered' = delivered /\ reported' = reported
        /\ cleared' = cleared /\ producerDropped' = producerDropped
        /\ deliveryDropped' = deliveryDropped
    BY DEF Store
  <2> QED BY <1>1, <2>3, <2>4, <2>5, <2>6, <2>7 DEF Accounts
<1> QED BY <1>5, <1>6, <1>8, <1>9 DEF RingInv

\* There is a slot to spare behind what the page has not looked at.
LEMMA SpareSlot ==
  ASSUME RingInv, drain \in {"store", "publish"}
  PROVE  After(ringWrite) # Front
<1>1. /\ ringWrite \in Places /\ ringRead \in Places /\ Front \in Places
      /\ After(ringWrite) # ringRead
      /\ Distance(Front, ringWrite) <= Distance(ringRead, ringWrite)
  BY RingFacts DEF RingInv, RingTypeOK, PlacesInv
<1>2. /\ Distance(ringRead, ringWrite) # RingSlots - 1
      /\ Distance(ringRead, ringWrite) \in 0 .. RingSlots - 1
      /\ Distance(Front, ringWrite) \in 0 .. RingSlots - 1 /\ RingSlots \in Nat
  BY <1>1, RingPlaces
<1>3. Distance(Front, ringWrite) # RingSlots - 1
  BY <1>1, <1>2
<1> QED BY <1>1, <1>3, RingPlaces

\* It publishes the slot, or leaves it as it was if it is empty.
LEMMA PublishSlotKeeps ==
  ASSUME RingInv, PublishSlot
  PROVE  RingInv'
<1>1. RingTypeOK /\ PlacesInv /\ OrderOfFrames /\ Accounts
  BY DEF RingInv
<1>2. /\ ring \in Slots /\ ringWrite \in Places /\ ringRead \in Places /\ Front \in Places
      /\ reading.index \in Places
  BY <1>1, RingFacts DEF RingTypeOK
<1>3. drain = "publish" /\ (drain' = "publish") = FALSE
  BY DEF PublishSlot
<1>4. /\ After(ringWrite) # ringRead
      /\ Distance(Front, ringWrite) <= Distance(ringRead, ringWrite)
  BY <1>1, <1>3 DEF PlacesInv
<1>5. After(ringWrite) # Front
  BY <1>3, SpareSlot
<1>6. reading.at # "idle" => After(ringWrite) # reading.index
  <2>1. reading.index \in {Front, ringRead} \/ reading.at = "idle"
    BY <1>1, RingFacts DEF PlacesInv, Front
  <2> QED BY <1>4, <1>5, <2>1
<1>7. Front' = Front
  BY DEF Front, PublishSlot
<1>8. RingTypeOK'
  BY <1>1, <1>2, RingPlaces DEF RingTypeOK, PublishSlot
<1>9. PlacesInv'
  <2>1. /\ Distance(Front, After(ringWrite)) = Distance(Front, ringWrite) + 1
        /\ Distance(ringRead, After(ringWrite)) = Distance(ringRead, ringWrite) + 1
        /\ reading.at # "idle" =>
             Distance(reading.index, After(ringWrite)) = Distance(reading.index, ringWrite) + 1
    BY <1>2, <1>4, <1>5, <1>6, RingPlaces
  <2>2. /\ Distance(Front, ringWrite) \in Nat /\ Distance(ringRead, ringWrite) \in Nat
        /\ Distance(reading.index, ringWrite) \in Nat
        /\ Distance(reading.index, reading.upTo) \in Nat
    <3>1. \A p, q \in Places : Distance(p, q) \in Nat
      BY RingPlaces
    <3> QED BY <1>2, <3>1, RingFacts
  <2>3. Distance(Front, ringWrite') <= Distance(ringRead, ringWrite')
    BY <1>4, <2>1, <2>2 DEF PublishSlot
  <2>4. reading.at # "idle" =>
          Distance(reading.index, reading.upTo) <= Distance(reading.index, ringWrite')
    BY <1>1, <2>1, <2>2 DEF PlacesInv, PublishSlot
  <2> QED BY <1>1, <1>3, <1>7, <2>3, <2>4 DEF PlacesInv, PublishSlot
<1>10. OrderOfFrames'
  <2>1. Filled(Front, ringWrite', FALSE) \subseteq Filled(Front, ringWrite, TRUE)
    <3>1. Filled(Front, After(ringWrite), FALSE) \subseteq Filled(Front, ringWrite, TRUE)
      BY <1>2, <1>5, FilledFacts
    <3>2. Filled(Front, ringWrite, FALSE) \subseteq Filled(Front, ringWrite, TRUE)
      BY DEF Filled
    <3> QED BY <3>1, <3>2 DEF PublishSlot
  <2>2. InOrder(delivered, reading.frames, ring, Front, Filled(Front, ringWrite, TRUE),
                engineFrames, made)
    BY <1>1, <1>3 DEF OrderOfFrames
  <2>3. InOrder(delivered, reading.frames, ring, Front, Filled(Front, ringWrite', FALSE),
                engineFrames, made)
    BY <2>1, <2>2, OrderOfFewer
  <2> QED BY <1>3, <1>7, <2>3 DEF OrderOfFrames, PublishSlot
<1>11. Accounts'
  <2>1. SlotFrames(ring[ringWrite]) + Backlog(ring, Front, ringWrite)
          = Backlog(ring, Front, ringWrite')
    <3>1. CASE ring[ringWrite] = EmptySlot
      <4>1. SlotFrames(ring[ringWrite]) = 0 /\ ringWrite' = ringWrite
        BY <3>1 DEF SlotFrames, EmptySlot, PublishSlot
      <4> QED BY <4>1, RingFacts
    <3>2. CASE ring[ringWrite] # EmptySlot
      <4>1. ringWrite' = After(ringWrite)
        BY <3>2 DEF PublishSlot
      <4> QED BY <1>2, <1>5, <4>1, BacklogGrows, RingFacts
    <3> QED BY <3>1, <3>2
  <2>2. InHand' = InHand
    <3>1. InHand' = Len(reading.frames) + reading.dropped + 0 + Backlog(ring, Front, ringWrite')
      BY <1>3, <1>7 DEF InHand, PublishSlot
    <3>2. InHand = Len(reading.frames) + reading.dropped + SlotFrames(ring[ringWrite])
                     + Backlog(ring, Front, ringWrite)
      BY <1>3 DEF InHand
    <3> QED BY <2>1, <3>1, <3>2, RingFacts
  <2> QED BY <1>1, <2>2 DEF Accounts, PublishSlot
<1> QED BY <1>8, <1>9, <1>10, <1>11 DEF RingInv

\* A poll begins; it has looked at no slot.
LEMMA BeginPollKeeps ==
  ASSUME RingInv, NEW room \in Rooms, BeginPoll(room)
  PROVE  RingInv'
<1>1. RingTypeOK /\ PlacesInv /\ OrderOfFrames /\ Accounts
  BY DEF RingInv
<1>2. ringWrite \in Places /\ ringRead \in Places /\ reading = NoReading
  BY <1>1 DEF RingTypeOK, BeginPoll
<1>3. reading' = [at |-> "counters", room |-> room, upTo |-> ringWrite, index |-> ringRead,
                  frames |-> <<>>, dropped |-> 0]
  BY DEF BeginPoll, NoReading
<1>4. reading' \in Readings
  BY <1>2, <1>3 DEF Readings
<1>5. /\ reading.at = "idle" /\ reading.frames = <<>> /\ reading.dropped = 0
      /\ reading'.at = "counters" /\ reading'.frames = <<>> /\ reading'.dropped = 0
      /\ reading'.index = ringRead /\ reading'.upTo = ringWrite
  BY <1>2, <1>3 DEF NoReading
<1>6. Front' = Front
  BY <1>5 DEF Front, BeginPoll
<1>7. RingTypeOK'
  BY <1>1, <1>4 DEF RingTypeOK, BeginPoll
<1>8. PlacesInv'
  <2>1. Distance(ringRead, ringWrite) <= Distance(ringRead, ringWrite)
    BY <1>2, RingPlaces
  <2> QED BY <1>1, <1>5, <1>6, <2>1 DEF PlacesInv, BeginPoll
<1>9. OrderOfFrames'
  BY <1>1, <1>5, <1>6 DEF OrderOfFrames, BeginPoll
<1>10. Accounts'
  <2>1. InHand' = InHand
    BY <1>5, <1>6 DEF InHand, BeginPoll
  <2> QED BY <1>1, <2>1 DEF Accounts, BeginPoll
<1> QED BY <1>7, <1>8, <1>9, <1>10 DEF RingInv

\* The poll takes the counters with it.
LEMMA TakeCountersKeeps ==
  ASSUME RingInv, TakeCounters
  PROVE  RingInv'
<1>1. RingTypeOK /\ PlacesInv /\ OrderOfFrames /\ Accounts
  BY DEF RingInv
<1>2. reading \in Readings /\ producerDropped \in Nat /\ deliveryDropped \in Nat
  BY <1>1 DEF RingTypeOK
<1>3. reading' = [reading EXCEPT !.at = "slots", !.dropped = producerDropped + deliveryDropped]
  BY DEF TakeCounters
<1>4. reading' \in Readings
  <2>1. producerDropped + deliveryDropped \in Nat
    BY <1>2
  <2> QED BY <1>2, <1>3, <2>1 DEF Readings
<1>5. /\ reading.at = "counters" /\ reading.dropped = 0 /\ reading.index = ringRead
      /\ reading'.at = "slots" /\ reading'.frames = reading.frames
      /\ reading'.dropped = producerDropped + deliveryDropped
      /\ reading'.index = reading.index /\ reading'.upTo = reading.upTo
  BY <1>1, <1>2, <1>3 DEF Readings, PlacesInv, TakeCounters
<1>6. Front' = Front
  BY <1>5 DEF Front
<1>7. RingTypeOK'
  BY <1>1, <1>4 DEF RingTypeOK, TakeCounters
<1>8. PlacesInv'
  BY <1>1, <1>5, <1>6 DEF PlacesInv, TakeCounters
<1>9. OrderOfFrames'
  BY <1>1, <1>5, <1>6 DEF OrderOfFrames, TakeCounters
<1>10. Accounts'
  <2> DEFINE unpublished == IF drain = "publish" THEN SlotFrames(ring[ringWrite]) ELSE 0
  <2>1. InHand = Len(reading.frames) + 0 + unpublished + Backlog(ring, Front, ringWrite)
    BY <1>5 DEF InHand
  <2>2. InHand' = Len(reading.frames) + (producerDropped + deliveryDropped) + unpublished
                    + Backlog(ring, Front, ringWrite)
    BY <1>5, <1>6 DEF InHand, TakeCounters
  <2>3. unpublished \in Nat
    BY RingFacts
  <2> HIDE DEF unpublished
  <2>4. InHand' = InHand + producerDropped + deliveryDropped /\ InHand \in Nat
    <3>1. Len(reading.frames) \in Nat /\ Backlog(ring, Front, ringWrite) \in Nat
      BY RingFacts
    <3>2. producerDropped \in Nat /\ deliveryDropped \in Nat
      BY <1>2
    <3>3. InHand \in Nat
      BY <2>1, <2>3, <3>1
    <3>4. InHand' = InHand + producerDropped + deliveryDropped
      <4>1. PICK a \in Nat, b \in Nat, u \in Nat :
              a = Len(reading.frames) /\ b = Backlog(ring, Front, ringWrite) /\ u = unpublished
        BY <2>3, <3>1
      <4>2. InHand = a + 0 + u + b /\ InHand' = a + (producerDropped + deliveryDropped) + u + b
        BY <2>1, <2>2, <4>1
      <4> QED BY <3>2, <4>2
    <3> QED BY <3>3, <3>4
  <2>5. /\ made \in Nat /\ reported \in Nat /\ cleared \in Nat /\ engineDropped \in Nat
        /\ Len(delivered) \in Nat /\ Len(engineFrames) \in Nat
    BY <1>1, RingFacts DEF RingTypeOK
  <2>6. /\ made' = made /\ delivered' = delivered /\ reported' = reported
        /\ cleared' = cleared /\ producerDropped' = 0 /\ deliveryDropped' = 0
        /\ engineFrames' = engineFrames /\ engineDropped' = engineDropped
    BY DEF TakeCounters
  <2> QED BY <1>1, <1>2, <2>4, <2>5, <2>6 DEF Accounts
<1> QED BY <1>7, <1>8, <1>9, <1>10 DEF RingInv

\* Going on to the next slot, whatever is done with the one before.
LEMMA NextSlot ==
  ASSUME RingInv, reading.at \in {"slots", "throw"}, reading.index # reading.upTo,
         reading' \in Readings, reading'.at = reading.at, reading'.upTo = reading.upTo,
         reading'.index = After(reading.index),
         reading.at = "throw" => reading'.frames = <<>>,
         UNCHANGED <<ring, ringWrite, ringRead, producerDropped, deliveryDropped, engineFrames,
                     engineDropped, drain, made, delivered, reported, cleared>>
  PROVE  /\ RingTypeOK' /\ PlacesInv'
         /\ Front = reading.index /\ Front' = After(Front) /\ Front # ringWrite
         /\ SlotFrames(ring[Front]) \in Nat /\ Backlog(ring, Front', ringWrite) \in Nat
         /\ Backlog(ring, Front, ringWrite)
              = SlotFrames(ring[Front]) + Backlog(ring, Front', ringWrite)
<1>1. RingTypeOK /\ PlacesInv
  BY DEF RingInv
<1>2. /\ ring \in Slots /\ ringWrite \in Places /\ ringRead \in Places /\ Front \in Places
      /\ reading.upTo \in Places
  BY <1>1, RingFacts DEF RingTypeOK
<1>3. Front = reading.index /\ Front' = After(Front) /\ After(Front) \in Places
  BY <1>2, RingPlaces DEF Front
<1>4. RingTypeOK'
  BY <1>1 DEF RingTypeOK
<1>5. /\ Distance(Front, reading.upTo) <= Distance(Front, ringWrite)
      /\ Distance(Front, ringWrite) <= Distance(ringRead, ringWrite)
  BY <1>1, <1>3 DEF PlacesInv
<1>6. \A p, q \in Places : Distance(p, q) \in Nat /\ (Distance(p, q) = 0 <=> p = q)
  BY RingPlaces
<1>7. Front # ringWrite
  <2>1. Distance(Front, reading.upTo) # 0
    BY <1>2, <1>3, <1>6
  <2>2. Distance(Front, ringWrite) # 0
    BY <1>2, <1>5, <1>6, <2>1
  <2> QED BY <1>2, <1>6, <2>2
<1>8. /\ Distance(After(Front), ringWrite) = Distance(Front, ringWrite) - 1
      /\ Distance(After(Front), reading.upTo) = Distance(Front, reading.upTo) - 1
  <2>1. Front # reading.upTo
    BY <1>3
  <2>2. \A p, q \in Places : p # q => Distance(After(p), q) = Distance(p, q) - 1
    BY RingPlaces
  <2> QED BY <1>2, <1>7, <2>1, <2>2
<1>9. /\ Distance(After(Front), reading.upTo) <= Distance(After(Front), ringWrite)
      /\ Distance(After(Front), ringWrite) <= Distance(ringRead, ringWrite)
  BY <1>2, <1>5, <1>6, <1>8
<1>10. reading'.at # "idle" /\ reading'.at # "counters" /\ reading'.index = After(Front)
  BY <1>3
<1>11. PlacesInv'
  BY <1>1, <1>3, <1>9, <1>10 DEF PlacesInv
<1>12. /\ Backlog(ring, Front, ringWrite)
            = SlotFrames(ring[Front]) + Backlog(ring, After(Front), ringWrite)
       /\ SlotFrames(ring[Front]) \in Nat
       /\ Backlog(ring, After(Front), ringWrite) \in Nat
  <2>1. Backlog(ring, Front, ringWrite)
          = SlotFrames(ring[Front]) + Backlog(ring, After(Front), ringWrite)
    BY <1>2, <1>7, BacklogShrinks
  <2>2. SlotFrames(ring[Front]) \in Nat
    BY <1>2, WeightFacts
  <2>3. Backlog(ring, After(Front), ringWrite) \in Nat
    BY <1>2, <1>3, BacklogIsNat
  <2> QED BY <2>1, <2>2, <2>3
<1> QED BY <1>3, <1>4, <1>7, <1>11, <1>12

\* The poll takes the frames of a slot.
LEMMA TakeSlotKeeps ==
  ASSUME RingInv, TakeSlot
  PROVE  RingInv'
<1> DEFINE s == ring[reading.index]
           more == reading.frames \o s.frames
<1>1. RingTypeOK /\ PlacesInv /\ OrderOfFrames /\ Accounts
  BY DEF RingInv
<1>2. /\ ring \in Slots /\ ringWrite \in Places /\ Front \in Places /\ reading \in Readings
      /\ engineFrames \in Seq(Nat) /\ delivered \in Seq(Nat) /\ made \in Nat
      /\ reading.frames \in Seq(Nat) /\ reading.index \in Places /\ reading.dropped \in Nat
  BY <1>1, RingFacts DEF RingTypeOK
<1>3. s.frames \in Seq(Nat) /\ s.dropped \in Nat
  BY <1>2 DEF Slots
<1>4. more \in Seq(Nat) /\ Len(more) = Len(reading.frames) + Len(s.frames)
      /\ Len(reading.frames) \in Nat /\ Len(s.frames) \in Nat
  BY <1>2, <1>3, JoinedParts
<1>5. reading' = [reading EXCEPT !.frames = more, !.dropped = reading.dropped + s.dropped,
                                 !.index = After(reading.index)]
  BY DEF TakeSlot
<1>6. After(reading.index) \in Places /\ reading.dropped + s.dropped \in Nat
  <2> HIDE DEF s
  <2>1. reading.dropped + s.dropped \in Nat
    BY <1>2, <1>3
  <2>2. After(reading.index) \in Places
    BY <1>2, RingPlaces
  <2> QED BY <2>1, <2>2
<1>7. SlotFrames(s) = Len(s.frames) + s.dropped
  BY DEF SlotFrames
<1> HIDE DEF s, more
<1>8. /\ reading' \in Readings /\ reading'.at = reading.at /\ reading'.upTo = reading.upTo
      /\ reading'.index = After(reading.index) /\ reading'.frames = more
      /\ reading'.dropped = reading.dropped + s.dropped
  BY <1>2, <1>4, <1>5, <1>6 DEF Readings
<1>9. /\ reading.at = "slots" /\ reading.index # reading.upTo
      /\ UNCHANGED <<ring, ringWrite, ringRead, producerDropped, deliveryDropped, engineFrames,
                     engineDropped, drain, made, delivered, reported, cleared>>
  BY DEF TakeSlot
<1>10. /\ RingTypeOK' /\ PlacesInv'
       /\ Front = reading.index /\ Front' = After(Front) /\ Front # ringWrite
       /\ SlotFrames(ring[Front]) \in Nat /\ Backlog(ring, Front', ringWrite) \in Nat
       /\ Backlog(ring, Front, ringWrite)
            = SlotFrames(ring[Front]) + Backlog(ring, Front', ringWrite)
  BY <1>8, <1>9, NextSlot
<1>11. s = ring[Front]
  BY <1>10 DEF s
<1>12. OrderOfFrames'
  <2> DEFINE storing == drain = "publish"
  <2>1. InOrder(delivered, reading.frames, ring, Front, Filled(Front, ringWrite, storing),
                engineFrames, made)
    BY <1>1 DEF OrderOfFrames
  <2>2. storing \in BOOLEAN
    OBVIOUS
  <2> HIDE DEF storing
  <2>3. InOrder(delivered, reading.frames \o ring[Front].frames, ring, After(Front),
                Filled(After(Front), ringWrite, storing), engineFrames, made)
    BY <1>2, <1>10, <2>1, <2>2, OrderOfTaken
  <2>4. InOrder(delivered, more, ring, Front', Filled(Front', ringWrite, storing),
                engineFrames, made)
    BY <1>10, <1>11, <2>3 DEF more
  <2> QED BY <1>8, <1>9, <2>4 DEF OrderOfFrames, storing
<1>13. Accounts'
  <2> DEFINE unpublished == IF drain = "publish" THEN SlotFrames(ring[ringWrite]) ELSE 0
  <2>1. InHand = Len(reading.frames) + reading.dropped + unpublished
                   + Backlog(ring, Front, ringWrite)
    BY DEF InHand
  <2>2. InHand' = Len(more) + (reading.dropped + s.dropped) + unpublished
                    + Backlog(ring, Front', ringWrite)
    BY <1>8, <1>9 DEF InHand
  <2>3. unpublished \in Nat
    BY RingFacts
  <2> HIDE DEF unpublished
  <2>4. InHand' = InHand
    <3>1. Backlog(ring, Front, ringWrite)
            = Len(s.frames) + s.dropped + Backlog(ring, Front', ringWrite)
      BY <1>7, <1>10, <1>11
    <3>2. Backlog(ring, Front', ringWrite) \in Nat
      BY <1>10
    <3>3. reading.dropped \in Nat /\ s.dropped \in Nat
      BY <1>2, <1>3
    <3>4. PICK a \in Nat, b \in Nat, u \in Nat, n \in Nat :
            /\ a = Len(reading.frames) /\ b = Backlog(ring, Front', ringWrite)
            /\ u = unpublished /\ n = Len(s.frames)
      BY <1>4, <2>3, <3>2
    <3>5. /\ InHand = a + reading.dropped + u + (n + s.dropped + b)
          /\ InHand' = (a + n) + (reading.dropped + s.dropped) + u + b
      BY <1>4, <2>1, <2>2, <3>1, <3>4
    <3> QED BY <3>3, <3>5
  <2> QED BY <1>1, <1>9, <2>4 DEF Accounts
<1> QED BY <1>10, <1>12, <1>13 DEF RingInv

\* The poll ends; what it took is delivered and reported.
LEMMA EndPollKeeps ==
  ASSUME RingInv, EndPoll
  PROVE  RingInv'
<1>1. RingTypeOK /\ PlacesInv /\ OrderOfFrames /\ Accounts
  BY DEF RingInv
<1> DEFINE more == delivered \o reading.frames
<1>2. /\ ring \in Slots /\ ringWrite \in Places /\ Front \in Places
      /\ engineFrames \in Seq(Nat) /\ delivered \in Seq(Nat) /\ made \in Nat
      /\ reading.frames \in Seq(Nat) /\ reading.index \in Places /\ reading.dropped \in Nat
      /\ reported \in Nat
  BY <1>1, RingFacts DEF RingTypeOK
<1>3. more \in Seq(Nat) /\ Len(more) = Len(delivered) + Len(reading.frames)
      /\ Len(delivered) \in Nat /\ Len(reading.frames) \in Nat
  BY <1>2, JoinedParts
<1>4. /\ reading.at = "slots" /\ ringRead' = reading.index /\ reading' = NoReading
      /\ delivered' = more /\ reported' = reported + reading.dropped
      /\ UNCHANGED <<ring, ringWrite, producerDropped, deliveryDropped, engineFrames,
                     engineDropped, drain, made, cleared>>
  BY DEF EndPoll, Released
<1> HIDE DEF more
<1>5. NoReading \in Readings /\ NoReading.at = "idle" /\ NoReading.frames = <<>>
      /\ NoReading.dropped = 0
  BY RingPlaces DEF NoReading, Readings
<1>6. Front = reading.index /\ Front' = Front
  BY <1>4, <1>5 DEF Front
<1>7. RingTypeOK'
  <2>1. reported' \in Nat /\ delivered' \in Seq(Nat) /\ ringRead' \in Places
    BY <1>2, <1>3, <1>4
  <2> QED BY <1>1, <1>4, <1>5, <2>1 DEF RingTypeOK
<1>8. PlacesInv'
  <2>1. Distance(Front, ringWrite) \in Nat
    BY <1>2, RingPlaces
  <2>2. drain \in {"store", "publish"} => After(ringWrite) # Front
    BY SpareSlot
  <2> QED BY <1>4, <1>5, <1>6, <2>1, <2>2 DEF PlacesInv
<1>9. OrderOfFrames'
  <2> DEFINE filled == Filled(Front, ringWrite, drain = "publish")
  <2>1. InOrder(delivered, reading.frames, ring, Front, filled, engineFrames, made)
    BY <1>1 DEF OrderOfFrames
  <2>2. filled \in SUBSET Places
    BY RingFacts
  <2> HIDE DEF filled
  <2>3. InOrder(more, <<>>, ring, Front, filled, engineFrames, made)
    BY <1>2, <2>1, <2>2, OrderOfDelivered DEF more
  <2> QED BY <1>4, <1>5, <1>6, <2>3 DEF OrderOfFrames, filled
<1>10. Accounts'
  <2> DEFINE behind == (IF drain = "publish" THEN SlotFrames(ring[ringWrite]) ELSE 0)
                         + Backlog(ring, Front, ringWrite)
  <2>1. behind \in Nat
    BY RingFacts
  <2>2. InHand = Len(reading.frames) + reading.dropped + behind
    BY <1>2, <1>3, RingFacts DEF InHand
  <2>3. InHand' = 0 + 0 + behind
    BY <1>4, <1>5, <1>6, RingFacts DEF InHand
  <2> HIDE DEF behind
  <2>4. /\ cleared \in Nat /\ engineDropped \in Nat /\ Len(engineFrames) \in Nat
        /\ producerDropped \in Nat /\ deliveryDropped \in Nat
    BY <1>1, RingFacts DEF RingTypeOK
  <2>5. made \in Nat /\ reported \in Nat /\ reading.dropped \in Nat
    BY <1>2
  <2>6. /\ made' = made /\ Len(delivered') = Len(delivered) + Len(reading.frames)
        /\ reported' = reported + reading.dropped /\ cleared' = cleared
        /\ producerDropped' = producerDropped /\ deliveryDropped' = deliveryDropped
        /\ engineFrames' = engineFrames /\ engineDropped' = engineDropped
    BY <1>3, <1>4
  <2>7. PICK a \in Nat, b \in Nat, n \in Nat, m \in Nat :
          /\ a = Len(reading.frames) /\ b = behind /\ n = Len(delivered)
          /\ m = Len(engineFrames)
    BY <1>3, <2>1, <2>4
  <2>8. made = n + reported + cleared + (a + reading.dropped + b) + producerDropped
                 + deliveryDropped + m + engineDropped
    BY <1>1, <2>2, <2>7 DEF Accounts
  <2>9. made = (n + a) + (reported + reading.dropped) + cleared + b + producerDropped
                 + deliveryDropped + m + engineDropped
    <3>1. /\ cleared \in Nat /\ engineDropped \in Nat /\ producerDropped \in Nat
          /\ deliveryDropped \in Nat
      BY <2>4
    <3> QED BY <2>5, <2>8, <3>1
  <2>10. /\ made' = made /\ Len(delivered') = n + a /\ reported' = reported + reading.dropped
         /\ cleared' = cleared /\ producerDropped' = producerDropped
         /\ deliveryDropped' = deliveryDropped /\ engineDropped' = engineDropped
         /\ Len(engineFrames') = m /\ InHand' = b
    BY <2>3, <2>6, <2>7
  <2>11. made' = Len(delivered') + reported' + cleared' + InHand' + producerDropped'
                   + deliveryDropped' + Len(engineFrames') + engineDropped'
    BY <2>9, <2>10
  <2> QED BY <2>11 DEF Accounts
<1> QED BY <1>7, <1>8, <1>9, <1>10 DEF RingInv

\* The page begins to throw the ring away.
LEMMA BeginDiscardKeeps ==
  ASSUME RingInv, BeginDiscard
  PROVE  RingInv'
<1>1. RingTypeOK /\ PlacesInv /\ OrderOfFrames /\ Accounts
  BY DEF RingInv
<1>2. /\ ringWrite \in Places /\ ringRead \in Places /\ reading = NoReading
      /\ producerDropped \in Nat
  BY <1>1 DEF RingTypeOK, BeginDiscard
<1>3. reading' = [at |-> "throw", room |-> 0, upTo |-> ringWrite, index |-> ringRead,
                  frames |-> <<>>, dropped |-> producerDropped]
  BY DEF BeginDiscard, NoReading
<1>4. reading' \in Readings
  BY <1>2, <1>3 DEF Readings
<1>5. /\ reading.at = "idle" /\ reading.frames = <<>> /\ reading.dropped = 0
      /\ reading'.at = "throw" /\ reading'.frames = <<>>
      /\ reading'.dropped = producerDropped
      /\ reading'.index = ringRead /\ reading'.upTo = ringWrite
  BY <1>2, <1>3 DEF NoReading
<1>6. Front = ringRead /\ Front' = Front
  BY <1>5 DEF Front
<1>7. RingTypeOK'
  BY <1>1, <1>4 DEF RingTypeOK, BeginDiscard
<1>8. PlacesInv'
  <2>1. Distance(ringRead, ringWrite) <= Distance(ringRead, ringWrite)
    BY <1>2, RingPlaces
  <2> QED BY <1>1, <1>5, <1>6, <2>1 DEF PlacesInv, BeginDiscard
<1>9. OrderOfFrames'
  BY <1>1, <1>5, <1>6 DEF OrderOfFrames, BeginDiscard
<1>10. Accounts'
  <2> DEFINE behind == (IF drain = "publish" THEN SlotFrames(ring[ringWrite]) ELSE 0)
                         + Backlog(ring, Front, ringWrite)
  <2>1. behind \in Nat
    BY RingFacts
  <2>2. InHand = behind
    BY <1>5, RingFacts DEF InHand
  <2>3. InHand' = producerDropped + behind
    BY <1>2, <1>5, <1>6, RingFacts DEF InHand, BeginDiscard
  <2> HIDE DEF behind
  <2>4. /\ made \in Nat /\ reported \in Nat /\ cleared \in Nat /\ engineDropped \in Nat
        /\ deliveryDropped \in Nat
    BY <1>1 DEF RingTypeOK
  <2>5. PICK b \in Nat, n \in Nat, m \in Nat :
          b = behind /\ n = Len(delivered) /\ m = Len(engineFrames)
    BY <2>1, RingFacts
  <2>6. made = n + reported + cleared + b + producerDropped + deliveryDropped + m
                 + engineDropped
    BY <1>1, <2>2, <2>5 DEF Accounts
  <2>7. made = n + reported + cleared + (producerDropped + b) + 0 + deliveryDropped + m
                 + engineDropped
    BY <1>2, <2>4, <2>6
  <2>8. /\ made' = made /\ Len(delivered') = n /\ reported' = reported /\ cleared' = cleared
        /\ InHand' = producerDropped + b /\ producerDropped' = 0
        /\ deliveryDropped' = deliveryDropped /\ Len(engineFrames') = m
        /\ engineDropped' = engineDropped
    BY <2>3, <2>5 DEF BeginDiscard
  <2> QED BY <2>7, <2>8 DEF Accounts
<1> QED BY <1>7, <1>8, <1>9, <1>10 DEF RingInv

\* It counts the frames of a slot.
LEMMA CountSlotKeeps ==
  ASSUME RingInv, CountSlot
  PROVE  RingInv'
<1> DEFINE s == ring[reading.index]
           lost == reading.dropped + s.dropped + Len(s.frames)
<1>1. RingTypeOK /\ PlacesInv /\ OrderOfFrames /\ Accounts
  BY DEF RingInv
<1>2. /\ ring \in Slots /\ ringWrite \in Places /\ Front \in Places /\ reading \in Readings
      /\ reading.index \in Places /\ reading.dropped \in Nat
  BY <1>1, RingFacts DEF RingTypeOK
<1>3. s.frames \in Seq(Nat) /\ s.dropped \in Nat
  BY <1>2 DEF Slots
<1>4. Len(s.frames) \in Nat
  BY <1>3
<1>5. reading' = [reading EXCEPT !.dropped = lost, !.index = After(reading.index)]
  BY DEF CountSlot
<1>6. SlotFrames(s) = Len(s.frames) + s.dropped
  BY DEF SlotFrames
<1> HIDE DEF s
<1>7. lost \in Nat
  BY <1>2, <1>3, <1>4
<1> HIDE DEF lost
<1>8. After(reading.index) \in Places
  BY <1>2, RingPlaces
<1>9. /\ reading' \in Readings /\ reading'.at = reading.at /\ reading'.upTo = reading.upTo
      /\ reading'.index = After(reading.index) /\ reading'.frames = reading.frames
      /\ reading'.dropped = lost
  BY <1>2, <1>5, <1>7, <1>8 DEF Readings
<1>10. /\ reading.at = "throw" /\ reading.index # reading.upTo
       /\ UNCHANGED <<ring, ringWrite, ringRead, producerDropped, deliveryDropped, engineFrames,
                      engineDropped, drain, made, delivered, reported, cleared>>
  BY DEF CountSlot
<1>11. reading.frames = <<>>
  BY <1>1, <1>10 DEF PlacesInv
<1>12. /\ RingTypeOK' /\ PlacesInv'
       /\ Front = reading.index /\ Front' = After(Front) /\ Front # ringWrite
       /\ SlotFrames(ring[Front]) \in Nat /\ Backlog(ring, Front', ringWrite) \in Nat
       /\ Backlog(ring, Front, ringWrite)
            = SlotFrames(ring[Front]) + Backlog(ring, Front', ringWrite)
  BY <1>9, <1>10, <1>11, NextSlot
<1>13. s = ring[Front]
  BY <1>12 DEF s
<1>14. OrderOfFrames'
  <2> DEFINE storing == drain = "publish"
  <2>1. InOrder(delivered, reading.frames, ring, Front, Filled(Front, ringWrite, storing),
                engineFrames, made)
    BY <1>1 DEF OrderOfFrames
  <2>2. storing \in BOOLEAN
    OBVIOUS
  <2> HIDE DEF storing
  <2>3. InOrder(delivered, reading.frames, ring, After(Front),
                Filled(After(Front), ringWrite, storing), engineFrames, made)
    BY <1>2, <1>12, <2>1, <2>2, OrderOfSkipped
  <2>4. InOrder(delivered, reading.frames, ring, Front', Filled(Front', ringWrite, storing),
                engineFrames, made)
    BY <1>12, <2>3
  <2> QED BY <1>9, <1>10, <2>4 DEF OrderOfFrames, storing
<1>15. Accounts'
  <2> DEFINE unpublished == IF drain = "publish" THEN SlotFrames(ring[ringWrite]) ELSE 0
  <2>1. InHand = Len(reading.frames) + reading.dropped + unpublished
                   + Backlog(ring, Front, ringWrite)
    BY DEF InHand
  <2>2. InHand' = Len(reading.frames) + lost + unpublished + Backlog(ring, Front', ringWrite)
    BY <1>9, <1>10 DEF InHand
  <2>3. unpublished \in Nat /\ Len(reading.frames) \in Nat
    BY RingFacts
  <2> HIDE DEF unpublished
  <2>4. InHand' = InHand
    <3>1. Backlog(ring, Front, ringWrite)
            = Len(s.frames) + s.dropped + Backlog(ring, Front', ringWrite)
      BY <1>6, <1>12, <1>13
    <3>2. PICK a \in Nat, b \in Nat, u \in Nat, n \in Nat :
            /\ a = Len(reading.frames) /\ b = Backlog(ring, Front', ringWrite)
            /\ u = unpublished /\ n = Len(s.frames)
      BY <1>4, <1>12, <2>3
    <3>3. InHand = a + reading.dropped + u + (n + s.dropped + b)
      BY <2>1, <3>1, <3>2
    <3>4. InHand' = a + (reading.dropped + s.dropped + n) + u + b
      BY <2>2, <3>2 DEF lost
    <3>5. reading.dropped \in Nat /\ s.dropped \in Nat
      BY <1>2, <1>3
    <3> QED BY <3>3, <3>4, <3>5
  <2> QED BY <1>1, <1>10, <2>4 DEF Accounts
<1> QED BY <1>12, <1>14, <1>15 DEF RingInv

\* It leaves the count to the next poll.
LEMMA EndDiscardKeeps ==
  ASSUME RingInv, EndDiscard
  PROVE  RingInv'
<1>1. RingTypeOK /\ PlacesInv /\ OrderOfFrames /\ Accounts
  BY DEF RingInv
<1>2. /\ ring \in Slots /\ ringWrite \in Places /\ Front \in Places
      /\ reading.index \in Places /\ reading.dropped \in Nat /\ deliveryDropped \in Nat
  BY <1>1, RingFacts DEF RingTypeOK
<1>3. /\ reading.at = "throw" /\ ringRead' = reading.index /\ reading' = NoReading
      /\ deliveryDropped' = deliveryDropped + reading.dropped
      /\ UNCHANGED <<ring, ringWrite, producerDropped, engineFrames, engineDropped, drain,
                     made, delivered, reported, cleared>>
  BY DEF EndDiscard
<1>4. NoReading \in Readings /\ NoReading.at = "idle" /\ NoReading.frames = <<>>
      /\ NoReading.dropped = 0
  BY RingPlaces DEF NoReading, Readings
<1>5. Front = reading.index /\ Front' = Front
  BY <1>3, <1>4 DEF Front
<1>6. reading.frames = <<>>
  BY <1>1, <1>3 DEF PlacesInv
<1>7. RingTypeOK'
  <2>1. deliveryDropped' \in Nat /\ ringRead' \in Places
    BY <1>2, <1>3
  <2> QED BY <1>1, <1>3, <1>4, <2>1 DEF RingTypeOK
<1>8. PlacesInv'
  <2>1. Distance(Front, ringWrite) <= Distance(Front, ringWrite)
    BY <1>2, RingPlaces
  <2>2. drain \in {"store", "publish"} => After(ringWrite) # Front
    BY SpareSlot
  <2> QED BY <1>3, <1>4, <1>5, <2>1, <2>2 DEF PlacesInv
<1>9. OrderOfFrames'
  BY <1>1, <1>3, <1>4, <1>5, <1>6 DEF OrderOfFrames
<1>10. Accounts'
  <2> DEFINE behind == (IF drain = "publish" THEN SlotFrames(ring[ringWrite]) ELSE 0)
                         + Backlog(ring, Front, ringWrite)
  <2>1. behind \in Nat
    BY RingFacts
  <2>2. InHand = reading.dropped + behind
    BY <1>2, <1>6, RingFacts DEF InHand
  <2>3. InHand' = behind
    BY <1>3, <1>4, <1>5, RingFacts DEF InHand
  <2> HIDE DEF behind
  <2>4. /\ made \in Nat /\ reported \in Nat /\ cleared \in Nat /\ engineDropped \in Nat
        /\ producerDropped \in Nat
    BY <1>1 DEF RingTypeOK
  <2>5. PICK b \in Nat, n \in Nat, m \in Nat :
          b = behind /\ n = Len(delivered) /\ m = Len(engineFrames)
    BY <2>1, RingFacts
  <2>6. made = n + reported + cleared + (reading.dropped + b) + producerDropped
                 + deliveryDropped + m + engineDropped
    BY <1>1, <2>2, <2>5 DEF Accounts
  <2>7. made = n + reported + cleared + b + producerDropped
                 + (deliveryDropped + reading.dropped) + m + engineDropped
    BY <1>2, <2>4, <2>6
  <2>8. /\ made' = made /\ Len(delivered') = n /\ reported' = reported /\ cleared' = cleared
        /\ InHand' = b /\ producerDropped' = producerDropped
        /\ deliveryDropped' = deliveryDropped + reading.dropped /\ Len(engineFrames') = m
        /\ engineDropped' = engineDropped
    BY <1>3, <2>3, <2>5
  <2> QED BY <2>7, <2>8 DEF Accounts
<1> QED BY <1>7, <1>8, <1>9, <1>10 DEF RingInv

\* A rebuild counts what it removes.
LEMMA ClearInstancesKeeps ==
  ASSUME RingInv, ClearInstances
  PROVE  RingInv'
<1>1. RingTypeOK /\ PlacesInv /\ OrderOfFrames /\ Accounts
  BY DEF RingInv
<1>2. /\ ring \in Slots /\ ringWrite \in Places /\ made \in Nat /\ reported \in Nat
      /\ cleared \in Nat /\ Len(delivered) \in Nat
  BY <1>1, RingFacts DEF RingTypeOK
<1>3. /\ drain = "idle" /\ reading = NoReading
      /\ engineFrames' = <<>> /\ engineDropped' = 0 /\ ringRead' = ringWrite
      /\ producerDropped' = 0 /\ deliveryDropped' = 0
      /\ cleared' = made - Len(delivered) - reported
      /\ made > Len(delivered) + reported + cleared
      /\ UNCHANGED <<ring, ringWrite, drain, reading, made, delivered, reported>>
  BY DEF ClearInstances
<1>4. NoReading.at = "idle" /\ NoReading.frames = <<>> /\ NoReading.dropped = 0
  BY DEF NoReading
<1>5. Front' = ringWrite
  BY <1>3, <1>4 DEF Front
<1>6. cleared' \in Nat /\ made = Len(delivered) + reported + cleared'
  BY <1>2, <1>3
<1>7. RingTypeOK'
  <2>1. engineFrames' \in Seq(Nat)
    BY <1>3
  <2> QED BY <1>1, <1>3, <1>6, <2>1 DEF RingTypeOK
<1>8. PlacesInv'
  <2>1. Distance(ringWrite, ringWrite) <= Distance(ringWrite, ringWrite)
    BY <1>2, RingPlaces
  <2> QED BY <1>3, <1>4, <1>5, <2>1 DEF PlacesInv
<1>9. OrderOfFrames'
  <2>1. Filled(ringWrite, ringWrite, FALSE) = {} /\ (drain' = "publish") = FALSE
    BY <1>2, <1>3, FilledFacts
  <2>2. Rising(delivered) /\ UpTo(delivered, made)
    BY <1>1 DEF OrderOfFrames, InOrder
  <2>3. InOrder(delivered, <<>>, ring, ringWrite, {}, <<>>, made)
    BY <2>2, EmptyOrder DEF InOrder
  <2> QED BY <1>3, <1>4, <1>5, <2>1, <2>3 DEF OrderOfFrames
<1>10. Accounts'
  <2>1. Backlog(ring, ringWrite, ringWrite) = 0
    BY <1>2, BacklogOfNone
  <2>2. InHand' = 0
    BY <1>3, <1>4, <1>5, <2>1 DEF InHand
  <2>3. Len(engineFrames') = 0
    BY <1>3
  <2>4. PICK n \in Nat, c \in Nat : n = Len(delivered) /\ c = cleared'
    BY <1>2, <1>6
  <2>5. made = n + reported + c + 0 + 0 + 0 + 0 + 0
    BY <1>2, <1>6, <2>4
  <2> QED BY <1>3, <2>2, <2>3, <2>4, <2>5 DEF Accounts
<1> QED BY <1>7, <1>8, <1>9, <1>10 DEF RingInv

\* The invariant holds throughout.
THEOREM RingInvariance == RingSpec => []RingInv
<1>1. RingInit => RingInv
  BY RingStarts
<1>2. RingInv /\ [RingNext]_ringVars => RingInv'
  <2> SUFFICES ASSUME RingInv, [RingNext]_ringVars PROVE RingInv'
    OBVIOUS
  <2>1. CASE UNCHANGED ringVars
    <3>1. Front' = Front
      BY <2>1 DEF ringVars, Front
    <3>2. RingTypeOK' /\ PlacesInv'
      BY <2>1, <3>1 DEF ringVars, RingInv, RingTypeOK, PlacesInv
    <3>3. OrderOfFrames'
      BY <2>1, <3>1 DEF ringVars, RingInv, OrderOfFrames
    <3>4. InHand' = InHand
      BY <2>1, <3>1 DEF ringVars, InHand
    <3>5. Accounts'
      BY <2>1, <3>4 DEF ringVars, RingInv, Accounts
    <3> QED BY <3>2, <3>3, <3>5 DEF RingInv
  <2>2. CASE RingNext
    BY <2>2, MakeFrameKeeps, BeginDrainKeeps, DiscardKeeps, StoreKeeps, PublishSlotKeeps,
       BeginPollKeeps, TakeCountersKeeps, TakeSlotKeeps, EndPollKeeps,
       BeginDiscardKeeps, CountSlotKeeps, EndDiscardKeeps, ClearInstancesKeeps DEF RingNext
  <2> QED BY <2>1, <2>2
<1> QED BY <1>1, <1>2, PTL DEF RingSpec

\* engine_host.cpp:2110-2190: no frame is lost in silence or counted twice, and the
\* page gets them in order, for any ring, room and number of frames.
THEOREM EveryFrameIsAccounted == RingSpec => []FramesAccounted
<1>1. RingInv => FramesAccounted
  <2> SUFFICES ASSUME RingInv PROVE FramesAccounted
    OBVIOUS
  <2>1. Accounts /\ Rising(delivered) /\ Len(delivered) \in Nat
    BY RingFacts DEF RingInv, OrderOfFrames, InOrder
  <2>2. ASSUME NEW k \in 1 .. Len(delivered) - 1 PROVE delivered[k] < delivered[k + 1]
    <3>1. k \in 1 .. Len(delivered) /\ k + 1 \in 1 .. Len(delivered) /\ k < k + 1
      BY <2>1
    <3> QED BY <2>1, <3>1 DEF Rising
  <2> QED BY <2>1, <2>2 DEF Accounts, FramesAccounted
<1> QED BY <1>1, RingInvariance, PTL
==============================================================================
