----------------------------- MODULE MidiTelemetry -----------------------------
(***************************************************************************)
(* How the editor's page follows the MIDI input: each block pushes its     *)
(* events, tagged with a generation, to the queue of SpscQueue (here the   *)
(* bounded queue it implements) and then stores the position and the       *)
(* generation it ends with; a poll of the page reads generation and        *)
(* position, pops what belongs to them and takes the count of lost events. *)
(* A generation the page has not seen, or any loss, makes it start afresh. *)
(*                                                                         *)
(* The page is external to the C++ side: applyNativeMidiInput() of         *)
(* vst-audio-manager.js.  A time is the number of its block, since a poll  *)
(* compares times with positions and every position ends a block.  The     *)
(* count of lost events only matters as zero or not.                       *)
(***************************************************************************)
EXTENDS Integers, Sequences

CONSTANTS
  Bound,          \* slots of the queue: its capacity less the free one
  PollLimit,      \* kMidiTelemetryCapacity: records a poll looks at
  MaxBlocks,      \* bound on the blocks of a run
  MaxEvents,      \* bound on the events of a block
  MaxResets       \* bound on the pages that start and the deactivations

ASSUME MidiAssumption ==
  /\ {Bound, PollLimit, MaxBlocks, MaxEvents, MaxResets} \subseteq Nat
  /\ Bound > 0 /\ PollLimit > Bound

VARIABLES
  midiTelemetry,         \* the queue
  midiGeneration, midiPosition, midiDroppedEvents, midiResetRequested,
  publisher,             \* where publishMidiTelemetry() is
  block,                 \* its locals: generation, events left, loss
  poller,                \* where appendMidiTelemetry() is
  poll,                  \* its locals: generation, position, rows, index
  pendingMidiTelemetry,  \* the record a poll left for the next, or none
  page,                  \* the page's generation and the events it applied
  resets,                \* the bound's counter
  tags                   \* of every event, the tag it was pushed with, or Lost

publisherVars == <<midiTelemetry, publisher, block, tags>>
pollerVars == <<poller, poll, pendingMidiTelemetry, page>>
midiVars == <<midiTelemetry, midiGeneration, midiPosition, midiDroppedEvents,
          midiResetRequested, publisher, block, poller, poll,
          pendingMidiTelemetry, page, resets, tags>>

Lost == -1
EmptyBlock == [generation |-> 0, left |-> 0, lost |-> 0, dropped |-> FALSE]
NoPoll == [generation |-> 0, position |-> 0, rows |-> {}, index |-> 0]
FreshPage == [started |-> FALSE, generation |-> 0, applied |-> {}]

MidiInit ==
  /\ midiTelemetry = <<>> /\ midiGeneration = 0 /\ midiPosition = 0
  /\ midiDroppedEvents = FALSE /\ midiResetRequested = FALSE
  /\ publisher = "idle" /\ block = EmptyBlock
  /\ poller = "idle" /\ poll = NoPoll /\ pendingMidiTelemetry = {}
  /\ page = FreshPage /\ resets = 0 /\ tags = <<>>

-----------------------------------------------------------------------------
(* publishMidiTelemetry(), in the audio callback.                           *)

\* events: what the block brings; dropped: the host sent more than a block can
\* hold, and the rest is gone before this function.
BeginBlock(events, rebase, dropped) ==
  /\ publisher = "idle" /\ midiPosition < MaxBlocks
  /\ block' = [generation |-> IF rebase \/ midiResetRequested \/ dropped
                                THEN midiGeneration + 1 ELSE midiGeneration,
               left |-> events, lost |-> 0, dropped |-> dropped]
  /\ midiResetRequested' = FALSE
  /\ tags' = IF dropped THEN Append(tags, Lost) ELSE tags
  /\ publisher' = "push"
  /\ UNCHANGED <<midiTelemetry, midiGeneration, midiPosition, midiDroppedEvents,
                 pollerVars, resets>>

PushEvent ==
  LET serial == Len(tags) + 1
      record == [generation |-> block.generation, seconds |-> midiPosition,
                 serial |-> serial]
  IN /\ publisher = "push" /\ block.left > 0
     /\ IF Len(midiTelemetry) < Bound
          THEN /\ midiTelemetry' = Append(midiTelemetry, record)
               /\ block' = [block EXCEPT !.left = @ - 1]
               /\ tags' = Append(tags, block.generation)
          ELSE /\ block' = [block EXCEPT !.left = @ - 1, !.lost = @ + 1]
               /\ tags' = Append(tags, Lost)
               /\ UNCHANGED midiTelemetry
     /\ UNCHANGED <<midiGeneration, midiPosition, midiDroppedEvents,
                    midiResetRequested, publisher, pollerVars, resets>>

NextGenerationKept == block.generation     \* mutant: a loss starts nothing afresh

\* Events lost in this block start a generation that its records do not carry.
NextGeneration == block.generation + IF block.lost > 0 THEN 1 ELSE 0

EndPush ==
  /\ publisher = "push" /\ block.left = 0
  /\ midiDroppedEvents' = (midiDroppedEvents \/ block.dropped \/ block.lost > 0)
  /\ block' = [EmptyBlock EXCEPT !.generation = NextGeneration]
  /\ publisher' = "position"
  /\ UNCHANGED <<midiTelemetry, midiGeneration, midiPosition,
                 midiResetRequested, pollerVars, resets, tags>>

StorePosition ==
  /\ publisher = "position"
  /\ midiPosition' = midiPosition + 1
  /\ publisher' = "generation"
  /\ UNCHANGED <<midiTelemetry, midiGeneration, midiDroppedEvents,
                 midiResetRequested, block, pollerVars, resets, tags>>

StoreGeneration ==
  /\ publisher = "generation"
  /\ midiGeneration' = block.generation
  /\ block' = EmptyBlock /\ publisher' = "idle"
  /\ UNCHANGED <<midiTelemetry, midiPosition, midiDroppedEvents,
                 midiResetRequested, pollerVars, resets, tags>>

-----------------------------------------------------------------------------
(* appendMidiTelemetry(), under midiTelemetryMutex_.                        *)

Unpolled == UNCHANGED <<midiGeneration, midiPosition, midiResetRequested,
                        publisher, block, resets, tags>>

LoadGeneration ==
  /\ poller = "idle"
  /\ poll' = [NoPoll EXCEPT !.generation = midiGeneration]
  /\ poller' = "position"
  /\ UNCHANGED <<midiTelemetry, midiDroppedEvents, pendingMidiTelemetry, page>>
  /\ Unpolled

LoadPosition ==
  /\ poller = "position"
  /\ poll' = [poll EXCEPT !.position = midiPosition]
  /\ poller' = "pop"
  /\ UNCHANGED <<midiTelemetry, midiDroppedEvents, pendingMidiTelemetry, page>>
  /\ Unpolled

\* A record of a block the poll has not seen the end of waits for the next poll.
KeepNothing(record) == FALSE         \* mutant: a newer record is thrown away
KeepForNextPoll(record) ==
  \/ record.generation > poll.generation
  \/ record.generation = poll.generation /\ record.seconds >= poll.position

Look(record) ==
  IF KeepForNextPoll(record)
    THEN /\ pendingMidiTelemetry' = {record}
         /\ poller' = "count" /\ UNCHANGED poll
    ELSE /\ pendingMidiTelemetry' = {}
         /\ poll' = [poll EXCEPT
                      !.rows = IF record.generation = poll.generation
                                 THEN @ \union {record} ELSE @,
                      !.index = @ + 1]
         /\ UNCHANGED poller

LookAtPending ==
  /\ poller = "pop" /\ poll.index < PollLimit
  /\ \E record \in pendingMidiTelemetry : Look(record)
  /\ UNCHANGED <<midiTelemetry, midiDroppedEvents, page>>
  /\ Unpolled

PopRecord ==
  /\ poller = "pop" /\ poll.index < PollLimit
  /\ pendingMidiTelemetry = {} /\ midiTelemetry # <<>>
  /\ Look(Head(midiTelemetry))
  /\ midiTelemetry' = Tail(midiTelemetry)
  /\ UNCHANGED <<midiDroppedEvents, page>>
  /\ Unpolled

FindNoRecord ==
  /\ poller = "pop"
  /\ \/ poll.index = PollLimit
     \/ pendingMidiTelemetry = {} /\ midiTelemetry = <<>>
  /\ poller' = "count"
  /\ UNCHANGED <<midiTelemetry, midiDroppedEvents, poll, pendingMidiTelemetry, page>>
  /\ Unpolled

\* applyNativeMidiInput(): the page starts afresh, then applies the rows.
Applied(old, answer, dropped) ==
  LET afresh == ~old.started \/ old.generation # answer.generation \/ dropped
  IN [started |-> TRUE, generation |-> answer.generation,
      applied |-> (IF afresh THEN {} ELSE old.applied)
                    \union {row.serial : row \in answer.rows}]

\* The count is exchanged last, and the answer reaches the page.
FinishPoll ==
  /\ poller = "count"
  /\ midiDroppedEvents' = FALSE
  /\ page' = Applied(page, poll, midiDroppedEvents)
  /\ poller' = "idle" /\ poll' = NoPoll
  /\ UNCHANGED <<midiTelemetry, pendingMidiTelemetry>>
  /\ Unpolled

\* A page that starts knows nothing; its handshake asks for a new generation.
StartPage ==
  /\ poller = "idle" /\ resets < MaxResets
  /\ page' = FreshPage /\ midiResetRequested' = TRUE
  /\ resets' = resets + 1
  /\ UNCHANGED <<publisherVars, midiGeneration, midiPosition, midiDroppedEvents,
                 poller, poll, pendingMidiTelemetry>>

\* setActive(false), on a thread of the host.
Deactivate ==
  /\ publisher = "idle" /\ resets < MaxResets
  /\ midiResetRequested' = TRUE /\ resets' = resets + 1
  /\ UNCHANGED <<publisherVars, midiGeneration, midiPosition, midiDroppedEvents,
                 pollerVars>>

Publish ==
  \/ \E events \in 0..MaxEvents, rebase, dropped \in BOOLEAN :
       BeginBlock(events, rebase, dropped)
  \/ PushEvent \/ EndPush \/ StorePosition \/ StoreGeneration
Poll == LoadGeneration \/ LoadPosition \/ LookAtPending \/ PopRecord
          \/ FindNoRecord \/ FinishPoll
MidiNext == Publish \/ Poll \/ StartPage \/ Deactivate

MidiSpec == MidiInit /\ [][MidiNext]_midiVars

-----------------------------------------------------------------------------
(* Properties.                                                              *)

\* What the page applied skips an event it should have applied in between.
Gap == \E first, last \in page.applied, between \in DOMAIN tags :
         first < between /\ between < last /\ between \notin page.applied

\* publishMidiTelemetry() and applyNativeMidiInput(): a page whose events skip
\* one starts afresh at its next poll, so that no note stays wrong: the
\* generation has moved on, or the callback is about to store that it has.
GapIsTransient ==
  Gap => \/ page.generation < midiGeneration
         \/ publisher = "generation" /\ page.generation < block.generation

\* Once the callback and the polls have nothing left to do, the page has applied
\* every event of its generation and nothing else.
Settled == /\ publisher = "idle" /\ poller = "idle" /\ ~midiResetRequested
           /\ midiTelemetry = <<>> /\ pendingMidiTelemetry = {}
           /\ ~midiDroppedEvents
           /\ page.started /\ page.generation = midiGeneration
SettledPageIsComplete ==
  Settled => page.applied = {serial \in DOMAIN tags :
                               tags[serial] = midiGeneration}

\* The page shows what was played: it never skips an event for good, and it has
\* everything once callback and polls are done.
PageFollowsInput == GapIsTransient /\ SettledPageIsComplete
=============================================================================
