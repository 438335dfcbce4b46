-------------------------- MODULE AutomationAuthority --------------------------
(***************************************************************************)
(* Who decides the value of an automation slot.  The lane the host plays    *)
(* reaches the callback as a queue of points per block; the hand of the     *)
(* user is adopted by the control side and handed to the callback as a      *)
(* configuration; a value the host writes while nothing plays is adopted    *)
(* too, and crosses in a hand-off of its own.  What the callback takes in   *)
(* it publishes, and the drain writes that into the registry that is saved  *)
(* and shown.                                                               *)
(*                                                                          *)
(* One slot bound to one parameter: slots share nothing but summary flags.  *)
(* Generations are compared only with the one last seen, so each comparison *)
(* is a Boolean.  The sequence locks of configuration and publication are   *)
(* read whole or not at all: they are single variables.  Samples are left   *)
(* out: the last point of a block falls on a control boundary inside it, or *)
(* beyond its end.  Which parameter the slot is bound to, state             *)
(* replacement and the report of an edit to the host are not in this module.*)
(***************************************************************************)
EXTENDS Integers

CONSTANTS
  Values,          \* normalized values
  MaxStatements    \* bound on the edits, host queues and host writes of a run

ASSUME AuthorityAssumption ==
  /\ Values \subseteq Nat /\ 0 \in Values /\ MaxStatements \in Nat

None == -1
Optional == Values \union {None}

VARIABLES
  \* The audio callback and the slot of its scheduler.
  audio, flushOnly, queued, latestInput, current, carry,
  \* What the callback published, and whether the drain has yet to see it.
  published, undrained,
  \* publishConfiguration(): the value forced on the next block.
  configuration,
  \* The control side.  section: what processingResourcesMutex_ is held for.
  registry, document, section, ui, edit, endGesture, hostGestureOpen,
  \* The value a drain holds stateMutex_ for, and has yet to write.
  drained,
  \* The host's writes: called and waiting for the mutex, pending, committed.
  hostCall, pending, committing, handoff, handoffAnnounced,
  \* The authority generation is still the one the write was armed under.
  pendingCurrent, handoffCurrent,
  statements,
  \* History: whose statement was accepted last, and its value; the callback
  \* will never play what the registry holds; the last publication is older
  \* than the value last adopted; the touch is older than the block.
  last, lastValue, dropped, older, held

audioVars   == <<audio, flushOnly, queued, latestInput, current, carry>>
controlVars == <<registry, document, section, ui, edit, endGesture, hostGestureOpen>>
writeVars   == <<hostCall, pending, committing, handoff, handoffAnnounced>>
historyVars == <<last, lastValue, dropped, older, held>>
vars == <<audio, flushOnly, queued, latestInput, current, carry, published,
          undrained, configuration, registry, document, section, ui, edit,
          endGesture, hostGestureOpen, drained, hostCall, pending, committing,
          handoff, handoffAnnounced, pendingCurrent, handoffCurrent, statements,
          last, lastValue, dropped, older, held>>

NoHandoff == [odd |-> FALSE, value |-> None]

Init ==
  /\ audio = "out" /\ flushOnly = FALSE /\ queued = None
  /\ latestInput = None /\ current = 0 /\ carry = None
  /\ published = 0 /\ undrained = FALSE /\ configuration = None
  /\ registry = 0 /\ document = 0 /\ section = "free" /\ ui = "idle" /\ edit = 0
  /\ endGesture = FALSE /\ hostGestureOpen = FALSE /\ drained = None
  /\ hostCall = None /\ pending = None /\ committing = 0
  /\ handoff = NoHandoff /\ handoffAnnounced = FALSE
  /\ pendingCurrent = FALSE /\ handoffCurrent = FALSE
  /\ statements = 0
  /\ last = "none" /\ lastValue = 0 /\ dropped = FALSE /\ older = FALSE /\ held = FALSE

Statement == statements < MaxStatements /\ statements' = statements + 1
NoStatement == UNCHANGED statements

\* A new authority: the generation moves on under whatever was armed before.
Supersede == pendingCurrent' = FALSE /\ handoffCurrent' = FALSE
SameAuthority == UNCHANGED <<pendingCurrent, handoffCurrent>>

Accept(source, value) == last' = source /\ lastValue' = value

-----------------------------------------------------------------------------
(* The audio callback.                                                      *)

NonAudio == UNCHANGED <<controlVars, drained, hostCall, pending, committing>>

Publish(value) == published' = value /\ undrained' = TRUE /\ older' = FALSE

\* beginBlock(): a rebase drops what the last block carried over its end, and a
\* configuration is adopted; one that is not forced leaves the value alone, and
\* shows nowhere here.
BeginBlock(flush, rebase) ==
  /\ audio = "out"
  /\ flushOnly' = flush /\ latestInput' = None /\ held' = hostGestureOpen
  /\ configuration' = None
  /\ IF configuration # None
       THEN /\ audio' = "adopt" /\ current' = configuration
            /\ carry' = None /\ dropped' = FALSE
       ELSE /\ audio' = "ingest" /\ UNCHANGED current
            /\ carry' = IF rebase THEN None ELSE carry
            /\ dropped' = (dropped \/ (rebase /\ carry \notin {None, current}))
  /\ NonAudio /\ SameAuthority /\ NoStatement
  /\ UNCHANGED <<queued, published, undrained, handoff, handoffAnnounced, last,
                 lastValue, older>>

PublishAdopted ==
  /\ audio = "adopt" /\ audio' = "ingest"
  /\ Publish(current)
  /\ NonAudio /\ SameAuthority /\ NoStatement
  /\ UNCHANGED <<flushOnly, queued, latestInput, current, carry, configuration,
                 handoff, handoffAnnounced, last, lastValue, dropped, held>>

\* ingestControllerWriteHandoffs(), before the queues of the host.  A hand-off
\* that is being written stays announced for the next block.
Ingest ==
  /\ audio = "ingest" /\ audio' = "intake"
  /\ IF handoffAnnounced /\ ~handoff.odd
       THEN /\ handoff' = NoHandoff /\ handoffAnnounced' = FALSE
            /\ latestInput' = IF handoffCurrent THEN handoff.value ELSE latestInput
       ELSE UNCHANGED <<handoff, handoffAnnounced, latestInput>>
  /\ NonAudio /\ SameAuthority /\ NoStatement
  /\ UNCHANGED <<flushOnly, queued, current, carry, published, undrained,
                 configuration, historyVars>>

NoQueue ==
  /\ audio = "intake" /\ audio' = "finish"
  /\ NonAudio /\ SameAuthority /\ NoStatement
  /\ UNCHANGED <<flushOnly, queued, latestInput, current, carry, published,
                 undrained, configuration, handoff, handoffAnnounced, historyVars>>

ClassifyLate(value) ==              \* mutant: the lane plays under the hand
  /\ audio = "intake" /\ Statement
  /\ audio' = "queue" /\ queued' = value
  /\ NonAudio /\ SameAuthority
  /\ UNCHANGED <<flushOnly, latestInput, current, carry, published, undrained,
                 configuration, handoff, handoffAnnounced, historyVars>>

\* classifyHostInput(): a queue is skipped while the hand is on the control ...
Classify(value) ==
  /\ audio = "intake" /\ Statement
  /\ IF hostGestureOpen
       THEN audio' = "finish" /\ UNCHANGED queued
       ELSE audio' = "queue" /\ queued' = value
  /\ NonAudio /\ SameAuthority
  /\ UNCHANGED <<flushOnly, latestInput, current, carry, published, undrained,
                 configuration, handoff, handoffAnnounced, historyVars>>

\* ... and otherwise outranks every write armed so far.  An edit that has been
\* adopted meanwhile is played by the next block, and is the later of the two.
EditAwaitsBlock == configuration # None \/ section = "adopt"
TakeQueue ==
  /\ audio = "queue" /\ audio' = "finish"
  /\ latestInput' = queued /\ queued' = None /\ Supersede
  /\ IF EditAwaitsBlock \/ held THEN UNCHANGED <<last, lastValue>>
                                ELSE Accept("queue", queued)
  /\ NonAudio /\ NoStatement
  /\ UNCHANGED <<flushOnly, current, carry, published, undrained, configuration,
                 handoff, handoffAnnounced, dropped, older, held>>

\* finishIntake(): a block that only flushes plays its input at once.
FinishIntake ==
  /\ audio = "finish"
  /\ audio' = (IF flushOnly THEN "out" ELSE "render") /\ held' = FALSE
  /\ IF latestInput # None
       THEN /\ Publish(latestInput) /\ dropped' = FALSE
            /\ IF flushOnly THEN current' = latestInput /\ carry' = None
                            ELSE UNCHANGED <<current, carry>>
       ELSE UNCHANGED <<published, undrained, older, dropped, current, carry>>
  /\ NonAudio /\ SameAuthority /\ NoStatement
  /\ UNCHANGED <<flushOnly, queued, latestInput, configuration, handoff,
                 handoffAnnounced, last, lastValue>>

\* What the block leaves behind: its last point, or what is carried, reached at a
\* boundary; or carried on beyond the end, the curve being anywhere on its way.
Due == IF latestInput # None THEN latestInput ELSE carry
Reaches == current' = (IF Due # None THEN Due ELSE current) /\ carry' = None
Carries == /\ Due # None /\ carry' = Due
           /\ IF latestInput # None THEN current' \in Values ELSE UNCHANGED current

Render ==
  /\ audio = "render" /\ audio' = "out"
  /\ Reaches \/ Carries
  /\ NonAudio /\ SameAuthority /\ NoStatement
  /\ UNCHANGED <<flushOnly, queued, latestInput, published, undrained,
                 configuration, handoff, handoffAnnounced, historyVars>>

FailKeepsCurrent ==                 \* mutant: the failed block forgets its input
  /\ audio = "render" /\ audio' = "out"
  /\ UNCHANGED current /\ carry' = None
  /\ NonAudio /\ SameAuthority /\ NoStatement
  /\ UNCHANGED <<flushOnly, queued, latestInput, published, undrained,
                 configuration, handoff, handoffAnnounced, historyVars>>

\* completeBlock(false): a block that was refused collapses onto its end.
Fail ==
  /\ audio = "render" /\ audio' = "out"
  /\ Reaches
  /\ NonAudio /\ SameAuthority /\ NoStatement
  /\ UNCHANGED <<flushOnly, queued, latestInput, published, undrained,
                 configuration, handoff, handoffAnnounced, historyVars>>

AudioStep ==
  \/ \E flush, rebase \in BOOLEAN : BeginBlock(flush, rebase)
  \/ PublishAdopted \/ Ingest \/ NoQueue \/ TakeQueue
  \/ \E value \in Values : Classify(value)
  \/ FinishIntake \/ Render \/ Fail

-----------------------------------------------------------------------------
(* The control side.  A section is what one holder of the mutex does; the    *)
(* document is under stateMutex_, which a drain keeps beyond its section.     *)

NonControl == UNCHANGED <<audioVars, published, drained>>
Free == section = "free"
DocumentFree == drained = None

AdoptKeepsPublication(value) ==     \* mutant: the drain may replay over it
  registry' = value /\ older' = TRUE /\ UNCHANGED undrained

\* adoptAutomationAuthorityLocked(): claims whatever is published, as older.
Adopt(value) == registry' = value /\ older' = TRUE /\ undrained' = FALSE

\* The hand moves a control.  An update of the plug-in writes its image into the
\* document first; a bare "automation/edit" leaves the document to the drain.  The
\* edit opens its touch, if it is not open yet and the host agrees, and a complete
\* one closes it again, before it is adopted.
BeginEdit(value, complete, image) ==
  /\ ui = "idle" /\ Statement
  /\ IF image THEN Free /\ DocumentFree /\ document' = value ELSE UNCHANGED document
  /\ ui' = "report" /\ edit' = value /\ endGesture' = complete
  /\ hostGestureOpen' \in {hostGestureOpen, TRUE}
  /\ NonControl /\ SameAuthority
  /\ UNCHANGED <<undrained, configuration, registry, section, writeVars, historyVars>>

EndEdit ==
  /\ ui = "report" /\ ui' = "adopt"
  /\ hostGestureOpen' = (hostGestureOpen /\ ~endGesture) /\ endGesture' = FALSE
  /\ held' = (held /\ ~endGesture)
  /\ NonControl /\ SameAuthority /\ NoStatement
  /\ UNCHANGED <<undrained, configuration, registry, document, section, edit,
                 writeVars, last, lastValue, dropped, older>>

\* adoptAutomationEditLocked() invalidates the host's write, adopts the edit ...
AdoptEdit ==
  /\ ui = "adopt" /\ Free /\ section' = "adopt"
  /\ Adopt(edit) /\ Accept("hand", edit)
  /\ Supersede /\ pending' = None
  /\ NonControl /\ NoStatement
  /\ UNCHANGED <<configuration, document, ui, edit, endGesture, hostGestureOpen,
                 hostCall, committing, handoff, handoffAnnounced, dropped, held>>

\* A configuration carries the value it is given, and a force outlasts the later
\* ones that do not force.
Configure(force, value) ==
  configuration' = IF force \/ configuration # None THEN value ELSE None

\* ... and hands it to the next block.
ConfigureEdit ==
  /\ section = "adopt" /\ section' = "free" /\ ui' = "idle"
  /\ Configure(TRUE, edit)
  /\ NonControl /\ SameAuthority /\ NoStatement
  /\ UNCHANGED <<undrained, registry, document, edit, endGesture, hostGestureOpen,
                 writeVars, historyVars>>

\* "automation/beginGesture" before a value, "automation/endGesture" after the
\* last; closeOpenHostGestures() may end a touch at any moment.
Touch(open) ==
  /\ hostGestureOpen # open /\ hostGestureOpen' = open
  /\ open => ui = "idle"
  /\ held' = (held /\ open)
  /\ NonControl /\ SameAuthority /\ NoStatement
  /\ UNCHANGED <<undrained, configuration, registry, document, section, ui, edit,
                 endGesture, writeVars, last, lastValue, dropped, older>>

DrainUntouched ==                   \* mutant: the drain leaves a touched slot alone
  /\ Free /\ DocumentFree /\ undrained /\ ~hostGestureOpen
  /\ registry' = published /\ drained' = published /\ undrained' = FALSE
  /\ SameAuthority /\ NoStatement
  /\ UNCHANGED <<audioVars, published, configuration, document, section, ui, edit,
                 endGesture, hostGestureOpen, writeVars, historyVars>>

\* drainAutomationValues() claims what is published for the registry, lets go of
\* processingResourcesMutex_ ...
Drain ==
  /\ Free /\ DocumentFree /\ undrained
  /\ registry' = published /\ drained' = published /\ undrained' = FALSE
  /\ SameAuthority /\ NoStatement
  /\ UNCHANGED <<audioVars, published, configuration, document, section, ui, edit,
                 endGesture, hostGestureOpen, writeVars, historyVars>>

\* ... and rewrites the document.
WriteDrained ==
  /\ drained # None
  /\ document' = drained /\ drained' = None
  /\ SameAuthority /\ NoStatement
  /\ UNCHANGED <<audioVars, published, undrained, configuration, registry, section,
                 ui, edit, endGesture, hostGestureOpen, writeVars, historyVars>>

\* synchronizeAutomationBindings() and bindAutomationSlot(): the registry is built
\* anew from the document.  An edit no block has taken up yet stays forced, but with
\* the value of the document, which may not have heard of the edit.
Overtakes == last = "hand" /\ configuration \notin {None, document}
Refresh ==
  /\ Free /\ DocumentFree
  /\ registry' = document /\ Configure(FALSE, document)
  /\ last' = IF Overtakes THEN "overtaken" ELSE last
  /\ NonControl /\ SameAuthority /\ NoStatement
  /\ UNCHANGED <<undrained, document, section, ui, edit, endGesture,
                 hostGestureOpen, writeVars, lastValue, dropped, older, held>>

\* setActive(TRUE), with the callback kept out: reset() of the scheduler.
Reset ==
  /\ Free /\ audio = "out"
  /\ latestInput' = None /\ carry' = None
  /\ dropped' = (dropped \/ carry \notin {None, current})
  /\ SameAuthority /\ NoStatement
  /\ UNCHANGED <<audio, flushOnly, queued, current, published,
                 undrained, configuration, controlVars, drained, writeVars, last,
                 lastValue, older, held>>

\* setParamNormalized() of a host that plays nothing, no hand on the control.
HostWrites(value) ==
  /\ hostCall = None /\ Statement
  /\ ~hostGestureOpen /\ audio = "out"
  /\ hostCall' = value
  /\ NonControl /\ SameAuthority
  /\ UNCHANGED <<undrained, configuration, controlVars, pending, committing,
                 handoff, handoffAnnounced, historyVars>>

\* It waits for the mutex, and is armed under the authority it finds there.
Arm ==
  /\ hostCall # None /\ Free
  /\ pending' = hostCall /\ hostCall' = None
  /\ pendingCurrent' = TRUE
  /\ NonControl /\ NoStatement
  /\ UNCHANGED <<undrained, configuration, controlVars, committing, handoff,
                 handoffAnnounced, handoffCurrent, historyVars>>

\* commitPendingControllerWritesIfAudioIdle(): the control service, getState()
\* and the call itself, once no block runs; setActive(FALSE) commits too.
Commit ==
  /\ Free /\ pending # None /\ audio = "out"
  /\ section' = "commit"
  /\ NonControl /\ SameAuthority /\ NoStatement
  /\ UNCHANGED <<undrained, configuration, registry, document, ui, edit,
                 endGesture, hostGestureOpen, writeVars, historyVars>>

\* A queue or an edit that came after the write was armed outranks it.
CheckWrite ==
  /\ section = "commit"
  /\ section' = IF pendingCurrent THEN "adoptWrite" ELSE "free"
  /\ pending' = None /\ committing' = pending
  /\ NonControl /\ SameAuthority /\ NoStatement
  /\ UNCHANGED <<undrained, configuration, registry, document, ui, edit,
                 endGesture, hostGestureOpen, hostCall, handoff, handoffAnnounced,
                 historyVars>>

\* The write is adopted, even if a queue came in between: its hand-off will then
\* be refused.
AdoptWrite ==
  /\ section = "adoptWrite" /\ section' = "handoff" /\ DocumentFree
  /\ Adopt(committing) /\ document' = committing
  /\ IF pendingCurrent
       THEN Accept("write", committing) /\ UNCHANGED dropped
       ELSE UNCHANGED <<last, lastValue>> /\ dropped' = TRUE
  /\ NonControl /\ SameAuthority /\ NoStatement
  /\ UNCHANGED <<configuration, ui, edit, endGesture, hostGestureOpen, writeVars,
                 held>>

HandOff(to, value, announced) ==
  /\ section' = to /\ handoff' = value /\ handoffAnnounced' = announced
  /\ NonControl /\ NoStatement
  /\ UNCHANGED <<undrained, configuration, registry, document, ui, edit,
                 endGesture, hostGestureOpen, hostCall, pending, pendingCurrent,
                 historyVars>>

\* publishControllerWriteHandoffLocked(): odd while it is written, then even,
\* then announced.
BeginHandoff ==
  /\ section = "handoff" /\ UNCHANGED <<committing, handoffCurrent>>
  /\ HandOff("odd", [handoff EXCEPT !.odd = TRUE], handoffAnnounced)
StoreHandoff ==
  /\ section = "odd" /\ handoffCurrent' = pendingCurrent /\ committing' = 0
  /\ HandOff("even", [odd |-> FALSE, value |-> committing],
             handoffAnnounced)
AnnounceHandoff ==
  /\ section = "even" /\ UNCHANGED <<committing, handoffCurrent>>
  /\ HandOff("free", handoff, TRUE)

CommitStep == Commit \/ CheckWrite \/ AdoptWrite
HandoffStep == BeginHandoff \/ StoreHandoff \/ AnnounceHandoff

ControlStep ==
  \/ \E value \in Values, complete, image \in BOOLEAN : BeginEdit(value, complete, image)
  \/ EndEdit \/ AdoptEdit \/ ConfigureEdit
  \/ \E open \in BOOLEAN : Touch(open)
  \/ Drain \/ WriteDrained \/ Refresh \/ Reset
  \/ \E value \in Values : HostWrites(value)
  \/ Arm \/ CommitStep \/ HandoffStep

Next == AudioStep \/ ControlStep

\* Playback goes on, requests return, and the control service drains.
Spec == /\ Init /\ [][Next]_vars
        /\ WF_vars(AudioStep)
        /\ WF_vars(EndEdit) /\ WF_vars(AdoptEdit) /\ WF_vars(ConfigureEdit)
        /\ WF_vars(Drain) /\ WF_vars(WriteDrained)
        /\ WF_vars(CheckWrite \/ AdoptWrite) /\ WF_vars(HandoffStep)

-----------------------------------------------------------------------------
(* Properties.                                                              *)

\* Every variable of the callback, the control side and the host's writes holds a
\* value of its kind.
TypeOK ==
  /\ audio \in {"out", "adopt", "ingest", "intake", "queue", "finish", "render"}
  /\ {queued, latestInput, carry, configuration, hostCall, pending, drained}
       \subseteq Optional
  /\ {current, published, registry, document, edit, committing, lastValue} \subseteq Values
  /\ handoff \in [odd : BOOLEAN, value : Optional]
  /\ section \in {"free", "adopt", "commit", "adoptWrite", "handoff", "odd", "even"}
  /\ ui \in {"idle", "report", "adopt"}
  /\ {flushOnly, undrained, endGesture, hostGestureOpen, handoffAnnounced,
      pendingCurrent, handoffCurrent, dropped, older, held} \subseteq BOOLEAN
  /\ statements \in 0..MaxStatements
  /\ last \in {"none", "hand", "overtaken", "queue", "write"}

\* What the audio plays, or is about to.
Played == IF carry # None THEN carry ELSE current
Quiet == /\ audio = "out" /\ Free /\ ui = "idle" /\ configuration = None
         /\ ~undrained /\ DocumentFree
         /\ ~(handoff.value # None /\ handoffCurrent)

\* What is saved is what is heard: once everything said was taken in, document and
\* registry hold the value the callback plays, whoever it came from.  There are
\* two exceptions: what is carried over the end of a block is dropped by a rebase
\* or a reset, and a write can be adopted after a queue has superseded it.
SavedIsPlayed == Quiet /\ ~dropped => document = Played /\ registry = Played

\* drainAutomationValues() and adoptAutomationAuthorityLocked(): a value published
\* before the registry took an edit or a write is never drained over it.
NoReplay == undrained => ~older

\* Neither way does the document part from the audio: it does not stay behind,
\* and it is not overtaken by what the audio has left behind.
DocumentFollowsAudio == SavedIsPlayed /\ NoReplay

\* adoptAutomationAuthorityLocked(): "Claiming the published generation here is
\* what makes the adoption final".  An edit that waits for the next block is the
\* value that block will adopt.
AdoptionIsFinal ==
  configuration # None /\ section # "adopt" /\ last \in {"hand", "overtaken"}
    => configuration = lastValue

\* classifyHostInput(): "the hand on the control outranks the lane the host is
\* playing into it".  Once a block has taken up the value of the hand nothing else
\* is played or published under the touch, a queue that was let through before the
\* touch began being the one thing that can still come.
HandOutranksLane ==
  hostGestureOpen /\ last = "hand" /\ section # "adopt" /\ configuration = None
    /\ audio # "adopt"
      => current = lastValue /\ published = lastValue /\ carry = None

\* Whoever spoke last, hand, lane or host, ends up both in what is played and in
\* what is saved, while blocks are rendered and the control service runs.
LastStatementSettles ==
  \A value \in Values :
    lastValue = value /\ last # "none"
      ~> \/ dropped \/ lastValue # value \/ last = "overtaken"
         \/ document = value /\ registry = value /\ Played = value
=============================================================================
