--------------------------- MODULE TelemetryRing ---------------------------
(***************************************************************************)
(* The ring that carries the telemetry of the DSP engine from the audio    *)
(* callback to the page (EngineHost::TelemetryStorage).  After a block the *)
(* callback moves what the engine reports into a free slot, without a      *)
(* lock; a poll of the page takes as many slots as it has room for, under  *)
(* the engine mutex.  What is lost on the way is counted: by the engine,   *)
(* by a callback that finds the ring full, by a page that throws the ring  *)
(* away; the next poll that delivers anything reports all of it.           *)
(*                                                                         *)
(* A frame is its number.  The counters saturate at 2^32 - 1 in the code,  *)
(* which no bound here comes near.                                         *)
(***************************************************************************)
EXTENDS Naturals, Sequences

CONSTANTS
    RingSlots,   \* slots of the ring (4 in the code)
    Rooms,       \* room a poll may have, in frames
    MaxTelemetry    \* bound on the frames the engine makes

ASSUME RingAssumption == RingSlots \in Nat \ {0}

VARIABLES
    ring,               \* the slots: [frames, dropped]
    ringWrite,          \* TelemetryStorage::write
    ringRead,           \* TelemetryStorage::read
    producerDropped,    \* producerDroppedFrames
    deliveryDropped,    \* deliveryDroppedFrames
    engineFrames,       \* frames the engine holds for the callback
    engineDropped,      \* frames the engine had no room for
    drain,              \* drainTelemetryUnlocked(): "idle", "store", "discard", "publish"
    reading,            \* readTelemetry() or discardTelemetry() of the page
    made,               \* history: frames made so far
    delivered,          \* history: the frames the page got
    reported,           \* history: the frames the page was told it lost
    cleared             \* history: the frames a rebuild removed

ringVars == <<ring, ringWrite, ringRead, producerDropped, deliveryDropped, engineFrames,
              engineDropped, drain, reading, made, delivered, reported, cleared>>

Places    == 0 .. (RingSlots - 1)
EmptySlot == [frames |-> <<>>, dropped |-> 0]
NoReading    == [at |-> "idle", room |-> 0, upTo |-> 0, index |-> 0, frames |-> <<>>, dropped |-> 0]

After(place) == (place + 1) % RingSlots

RingInit ==
    /\ ring = [p \in Places |-> EmptySlot]
    /\ ringWrite = 0 /\ ringRead = 0
    /\ producerDropped = 0 /\ deliveryDropped = 0
    /\ engineFrames = <<>> /\ engineDropped = 0
    /\ drain = "idle"
    /\ reading = NoReading
    /\ made = 0 /\ delivered = <<>> /\ reported = 0 /\ cleared = 0

---------------------------------------------------------------------------
(* The callback *)

\* A block makes a frame, which the engine keeps or has no room for.
MakeFrame ==
    /\ drain = "idle" /\ made < MaxTelemetry
    /\ made' = made + 1
    /\ \/ engineFrames' = Append(engineFrames, made + 1) /\ UNCHANGED engineDropped
       \/ engineDropped' = engineDropped + 1 /\ UNCHANGED engineFrames
    /\ UNCHANGED <<ring, ringWrite, ringRead, producerDropped, deliveryDropped, drain,
                   reading, delivered, reported, cleared>>

\* The ring is full with one slot to spare.
BeginDrain ==
    /\ drain = "idle"
    /\ drain' = IF After(ringWrite) = ringRead THEN "discard" ELSE "store"
    /\ UNCHANGED <<ring, ringWrite, ringRead, producerDropped, deliveryDropped,
                   engineFrames, engineDropped, reading, made, delivered, reported, cleared>>

Discard ==
    /\ drain = "discard"
    /\ producerDropped' = producerDropped + engineDropped + Len(engineFrames)
    /\ engineFrames' = <<>> /\ engineDropped' = 0
    /\ drain' = "idle"
    /\ UNCHANGED <<ring, ringWrite, ringRead, deliveryDropped, reading, made, delivered,
                   reported, cleared>>

Store ==
    /\ drain = "store"
    /\ ring' = [ring EXCEPT ![ringWrite] = [frames |-> engineFrames, dropped |-> engineDropped]]
    /\ engineFrames' = <<>> /\ engineDropped' = 0
    /\ drain' = "publish"
    /\ UNCHANGED <<ringWrite, ringRead, producerDropped, deliveryDropped, reading, made,
                   delivered, reported, cleared>>

\* A slot with frames, or with news of lost ones, is published.
PublishSlot ==
    /\ drain = "publish"
    /\ ringWrite' = IF ring[ringWrite] = EmptySlot THEN ringWrite ELSE After(ringWrite)
    /\ drain' = "idle"
    /\ UNCHANGED <<ring, ringRead, producerDropped, deliveryDropped, engineFrames,
                   engineDropped, reading, made, delivered, reported, cleared>>

---------------------------------------------------------------------------
(* The page, under the engine mutex *)

\* A poll finds out how far the ring reaches.  Nothing is reported when there
\* is nothing to take.
BeginPoll(room) ==
    /\ reading = NoReading
    /\ ringRead # ringWrite /\ room > 0
    /\ reading' = [NoReading EXCEPT !.at = "counters", !.room = room, !.upTo = ringWrite,
                              !.index = ringRead]
    /\ UNCHANGED <<ring, ringWrite, ringRead, producerDropped, deliveryDropped, engineFrames,
                   engineDropped, drain, made, delivered, reported, cleared>>

TakeCounters ==
    /\ reading.at = "counters"
    /\ reading' = [reading EXCEPT !.at = "slots", !.dropped = producerDropped + deliveryDropped]
    /\ producerDropped' = 0 /\ deliveryDropped' = 0
    /\ UNCHANGED <<ring, ringWrite, ringRead, engineFrames, engineDropped, drain, made,
                   delivered, reported, cleared>>

Fits == Len(ring[reading.index].frames) <= reading.room - Len(reading.frames)

TakeSlot ==
    LET slot == ring[reading.index] IN
    /\ reading.at = "slots" /\ reading.index # reading.upTo
    /\ Fits
    /\ reading' = [reading EXCEPT !.frames = @ \o slot.frames, !.dropped = @ + slot.dropped,
                            !.index = After(@)]
    /\ UNCHANGED <<ring, ringWrite, ringRead, producerDropped, deliveryDropped, engineFrames,
                   engineDropped, drain, made, delivered, reported, cleared>>

\* Mutant: all slots are released, those that did not fit as well.
ReleasedAll == reading.upTo

\* The slots that were taken are released, the others stay for the next poll.
Released == reading.index

EndPoll ==
    /\ reading.at = "slots"
    /\ reading.index = reading.upTo \/ ~Fits
    /\ ringRead' = Released
    /\ delivered' = delivered \o reading.frames
    /\ reported' = reported + reading.dropped
    /\ reading' = NoReading
    /\ UNCHANGED <<ring, ringWrite, producerDropped, deliveryDropped, engineFrames,
                   engineDropped, drain, made, cleared>>

\* discardTelemetry(): a page that shows no analyzer throws the ring away; what
\* it held is counted for the poll that comes after.
BeginDiscard ==
    /\ reading = NoReading
    /\ reading' = [NoReading EXCEPT !.at = "throw", !.upTo = ringWrite, !.index = ringRead,
                              !.dropped = producerDropped]
    /\ producerDropped' = 0
    /\ UNCHANGED <<ring, ringWrite, ringRead, deliveryDropped, engineFrames, engineDropped,
                   drain, made, delivered, reported, cleared>>

CountSlot ==
    LET slot == ring[reading.index] IN
    /\ reading.at = "throw" /\ reading.index # reading.upTo
    /\ reading' = [reading EXCEPT !.dropped = @ + slot.dropped + Len(slot.frames), !.index = After(@)]
    /\ UNCHANGED <<ring, ringWrite, ringRead, producerDropped, deliveryDropped, engineFrames,
                   engineDropped, drain, made, delivered, reported, cleared>>

EndDiscard ==
    /\ reading.at = "throw" /\ reading.index = reading.upTo
    /\ ringRead' = reading.upTo
    /\ deliveryDropped' = deliveryDropped + reading.dropped
    /\ reading' = NoReading
    /\ UNCHANGED <<ring, ringWrite, producerDropped, engineFrames, engineDropped, drain,
                   made, delivered, reported, cleared>>

\* clearInstancesUnlocked() of a rebuild, which owns the engine and its mutex:
\* neither raw frames nor queued ones outlive the instances they came from.
ClearInstances ==
    /\ drain = "idle" /\ reading = NoReading
    /\ made > Len(delivered) + reported + cleared
    /\ engineFrames' = <<>> /\ engineDropped' = 0
    /\ ringRead' = ringWrite
    /\ producerDropped' = 0 /\ deliveryDropped' = 0
    /\ cleared' = made - Len(delivered) - reported
    /\ UNCHANGED <<ring, ringWrite, drain, reading, made, delivered, reported>>

RingNext ==
    \/ MakeFrame \/ BeginDrain \/ Discard \/ Store \/ PublishSlot
    \/ \E room \in Rooms : BeginPoll(room)
    \/ TakeCounters \/ TakeSlot \/ EndPoll
    \/ BeginDiscard \/ CountSlot \/ EndDiscard
    \/ ClearInstances

RingSpec == RingInit /\ [][RingNext]_ringVars

---------------------------------------------------------------------------

\* How many slots lie between two places of the ring.
Distance(from, to) == (to + RingSlots - from) % RingSlots

\* The sum of a sequence of numbers.
Total(numbers) ==
    LET upTo[k \in 0 .. Len(numbers)] == IF k = 0 THEN 0 ELSE upTo[k - 1] + numbers[k]
    IN  upTo[Len(numbers)]

\* Frames a slot stands for, delivered or lost, and all slots between two places.
SlotFrames(s) == Len(s.frames) + s.dropped
Backlog(slots, from, to) ==
    Total([k \in 1 .. Distance(from, to) |-> SlotFrames(slots[(from + k - 1) % RingSlots])])

\* Where the slots begin that the page has not looked at.
Front == IF reading.at \in {"slots", "throw"} THEN reading.index ELSE ringRead

\* The frames in the hands of the callback and of the page.
InHand ==
    LET unpublished == IF drain = "publish" THEN SlotFrames(ring[ringWrite]) ELSE 0
    IN  Len(reading.frames) + reading.dropped + unpublished + Backlog(ring, Front, ringWrite)

\* Every frame the engine made is in exactly one place: delivered, reported as
\* lost, removed by a rebuild, or still on its way or counted for the next
\* poll.  None is lost in silence and none counted twice, although callback and
\* page work on the ring at the same time and a poll may have room for less
\* than there is (engine_host.cpp:2162).  The page gets them in order.
FramesAccounted ==
    /\ made = Len(delivered) + reported + cleared + InHand + producerDropped + deliveryDropped
                + Len(engineFrames) + engineDropped
    /\ \A k \in 1 .. Len(delivered) - 1 : delivered[k] < delivered[k + 1]
=============================================================================
