------------------------------ MODULE AudioGate ------------------------------
(***************************************************************************)
(* How EffeTuneProcessor keeps control threads and the audio callback out  *)
(* of each other's way without the callback ever taking a lock.            *)
(*                                                                         *)
(* The callback raises processBlockEpoch_ on entry and on exit, and reads  *)
(* four atomics at fixed places of the block: the timeline claim, the      *)
(* runtime-image claim, the published automation face and the processing   *)
(* gate.  A control thread changes one of them and then waits the block it *)
(* found executing out.  EngineMutationWindow, AudioTimelineWindow and     *)
(* RuntimeImageOwnership are that protocol as scopes, and every control    *)
(* operation is a nest of such scopes around a body.                       *)
(*                                                                         *)
(* Every control operation here holds processingResourcesMutex_ from its   *)
(* first window to its last, so one operation is in progress at a time and *)
(* `op' names it.  The two places that step outside the mutex are modelled *)
(* apart.  One is the read of the gate that opens "os/set".  The other is  *)
(* terminate(), which closes the gate and waits without the mutex and      *)
(* takes it to clear the buffers: the host has ended its own calls by then *)
(* and the timer is gone, but the message handler of the web view, which   *)
(* is shut down in between and may be of another thread, goes on.          *)
(***************************************************************************)
EXTENDS Integers, Sequences, FiniteSets

CONSTANT Operations        \* the control operations the instance performs

ControlOperations ==
  {"setActive", "configure", "standDown", "setState", "rebuild", "replace",
   "replaceInstance", "reseat", "asset", "bind", "serviceImage",
   "serviceEngine", "setOversampling", "restoreOversampling"}

ASSUME OperationsAssumption == Operations \subseteq ControlOperations

VARIABLES
  \* The audio callback.
  block,                     \* where process() stands
  stageParameterImages,      \* this block owns the runtime image
  automationTable,           \* the face this block latched
  claimedBeforeGate,         \* an engine claim was seen before the gate
  \* Atomics both sides touch.
  processingReady, controlEngineClaims, controlOwnsAudioTimeline,
  controlOwnsRuntimeImage, publishedAutomationTable,
  \* State guarded by processingResourcesMutex_.
  automationApplyTableQuiesced, stateReplacementPending,
  engine,                    \* what EngineHost holds
  \* The control operation in progress.
  op, phase,
  windows,                   \* open scopes, outermost first
  pending,                   \* the scope or table wait under construction
  toOpen,                    \* scopes op still has to open
  tables,                    \* apply tables op still has to publish
  epochUnchanged,            \* per waiter: the epoch is still the one it read
  waitForUiRepack,
  \* The "os/set" message handler, and what a refused one had found (history).
  oversampling, previousProcessingReady, playableWhenRefused,
  \* terminate(), and whether a window opened the gate behind it (history).
  termination, gateReopened

audioVars   == <<block, stageParameterImages, automationTable, claimedBeforeGate>>
atomicVars  == <<processingReady, controlEngineClaims, controlOwnsAudioTimeline,
                 controlOwnsRuntimeImage, publishedAutomationTable>>
guardedVars == <<automationApplyTableQuiesced, stateReplacementPending, engine>>
planVars    == <<op, toOpen, tables, waitForUiRepack>>
uiVars      == <<oversampling, previousProcessingReady, playableWhenRefused>>
terminationVars == <<termination, gateReopened>>
vars == <<block, stageParameterImages, automationTable, claimedBeforeGate,
          processingReady, controlEngineClaims, controlOwnsAudioTimeline,
          controlOwnsRuntimeImage, publishedAutomationTable,
          automationApplyTableQuiesced, stateReplacementPending, engine,
          op, phase, windows, pending, toOpen, tables, epochUnchanged,
          waitForUiRepack, oversampling, previousProcessingReady,
          playableWhenRefused, termination, gateReopened>>

WindowKinds == {"engine", "timeline", "image"}
\* `restore' is restoreReady_, releaseClaim_, or TRUE for the image claim.
Window  == [kind : WindowKinds, restore : BOOLEAN]
Pending == [kind : WindowKinds \union {"none", "table"}, restore : BOOLEAN]
NoWindow == [kind |-> "none", restore |-> FALSE]

BlockSteps == {"outside", "entered", "timeline", "imageRead", "latched",
               "claimRead", "refused", "report", "engine", "leaving"}
Phases == {"idle", "open", "claimed", "observe", "spin", "body", "tables",
           "fill", "close", "unclaim"}
Terminations == {"none", "observe", "spin", "quiet", "cleared"}

\* Who may be in waitForAudioQuiescence() at the same time.
Waiters == {"operation", "terminate"}

\* The part of process() that touches each protected resource.
UsesTimeline == block \in {"timeline", "imageRead", "latched", "claimRead",
                           "refused", "report", "engine"}
UsesEngine   == block = "engine"
UsesImage    == block = "engine" /\ stageParameterImages
UsesTable    == block \in {"latched", "claimRead", "refused", "report", "engine"}

Init ==
  /\ block = "outside"
  /\ stageParameterImages = FALSE
  /\ automationTable = 0
  /\ claimedBeforeGate = FALSE
  /\ processingReady = FALSE
  /\ controlEngineClaims = 0
  /\ controlOwnsAudioTimeline = FALSE
  /\ controlOwnsRuntimeImage = FALSE
  /\ publishedAutomationTable = 0
  /\ automationApplyTableQuiesced = TRUE
  /\ stateReplacementPending = FALSE
  /\ engine = "unprepared"
  /\ op = "none" /\ phase = "idle"
  /\ windows = <<>> /\ pending = NoWindow /\ toOpen = <<>>
  /\ tables = 0 /\ waitForUiRepack = FALSE
  /\ epochUnchanged = [w \in Waiters |-> FALSE]
  /\ oversampling = "idle"
  /\ previousProcessingReady = FALSE /\ playableWhenRefused = FALSE
  /\ termination = "none" /\ gateReopened = FALSE

-----------------------------------------------------------------------------
(* The audio callback.                                                      *)

ControlUnchanged == UNCHANGED <<atomicVars, guardedVars, planVars, phase,
                                windows, pending, uiVars, terminationVars>>

\* BlockEpochScope: the epoch becomes odd, so no wait can still be reading it.
EnterBlock ==
  /\ block = "outside"
  /\ block' = "entered"
  /\ epochUnchanged' = [w \in Waiters |-> FALSE]
  /\ UNCHANGED <<stageParameterImages, automationTable, claimedBeforeGate>>
  /\ ControlUnchanged

\* A claimed timeline turns the block into a dry copy and nothing else.
CheckTimeline ==
  /\ block = "entered"
  /\ block' = IF controlOwnsAudioTimeline THEN "leaving" ELSE "timeline"
  /\ UNCHANGED <<stageParameterImages, automationTable, claimedBeforeGate,
                 epochUnchanged>>
  /\ ControlUnchanged

ReadImageClaim ==
  /\ block = "timeline"
  /\ stageParameterImages' = ~controlOwnsRuntimeImage
  /\ block' = "imageRead"
  /\ UNCHANGED <<automationTable, claimedBeforeGate, epochUnchanged>>
  /\ ControlUnchanged

LatchTable ==
  /\ block = "imageRead"
  /\ automationTable' = publishedAutomationTable
  /\ block' = "latched"
  /\ UNCHANGED <<stageParameterImages, claimedBeforeGate, epochUnchanged>>
  /\ ControlUnchanged

\* Intake, then a flush-only or malformed block leaves before the gate.
LeaveBeforeGate ==
  /\ block = "latched"
  /\ block' = "leaving"
  /\ UNCHANGED <<stageParameterImages, automationTable, claimedBeforeGate,
                 epochUnchanged>>
  /\ ControlUnchanged

SkipClaimBeforeGate ==              \* mutant: looks for a claim only afterwards
  /\ block = "latched"
  /\ claimedBeforeGate' = FALSE
  /\ block' = "claimRead"
  /\ UNCHANGED <<stageParameterImages, automationTable, epochUnchanged>>
  /\ ControlUnchanged

ReadClaimBeforeGate ==
  /\ block = "latched"
  /\ claimedBeforeGate' = (controlEngineClaims # 0)
  /\ block' = "claimRead"
  /\ UNCHANGED <<stageParameterImages, automationTable, epochUnchanged>>
  /\ ControlUnchanged

CheckGate ==
  /\ block = "claimRead"
  /\ block' = IF processingReady THEN "engine" ELSE "refused"
  /\ UNCHANGED <<stageParameterImages, automationTable, claimedBeforeGate,
                 epochUnchanged>>
  /\ ControlUnchanged

\* A refused block reports processingNotReady only if neither side of the gate
\* showed a claim.
ReadClaimAfterGate ==
  /\ block = "refused"
  /\ block' = IF ~claimedBeforeGate /\ controlEngineClaims = 0
                THEN "report" ELSE "leaving"
  /\ UNCHANGED <<stageParameterImages, automationTable, claimedBeforeGate,
                 epochUnchanged>>
  /\ ControlUnchanged

\* The end of the engine section, or of the diagnostic.
FinishBlock ==
  /\ block \in {"engine", "report"}
  /\ block' = "leaving"
  /\ UNCHANGED <<stageParameterImages, automationTable, claimedBeforeGate,
                 epochUnchanged>>
  /\ ControlUnchanged

\* The epoch becomes even; what the block had read dies with it.
ExitBlock ==
  /\ block = "leaving"
  /\ block' = "outside"
  /\ epochUnchanged' = [w \in Waiters |-> FALSE]
  /\ stageParameterImages' = FALSE /\ automationTable' = 0
  /\ claimedBeforeGate' = FALSE
  /\ ControlUnchanged

FinishProcess == \/ CheckTimeline \/ ReadImageClaim \/ LatchTable
                 \/ LeaveBeforeGate \/ ReadClaimBeforeGate \/ CheckGate
                 \/ ReadClaimAfterGate \/ FinishBlock \/ ExitBlock

-----------------------------------------------------------------------------
(* Windows.                                                                 *)

EngineWindows == {i \in DOMAIN windows : windows[i].kind = "engine"}
Outermost(i)  == \A j \in EngineWindows : i <= j

\* EngineMutationWindow::wasReady of the operation's outermost engine window.
WasReady == \E i \in EngineWindows : windows[i].restore

SetRestoreOnCloseOfAll(restore) ==  \* mutant: inner engine windows restore too
  windows' = [i \in DOMAIN windows |->
                IF i \in EngineWindows
                  THEN [windows[i] EXCEPT !.restore = restore]
                  ELSE windows[i]]

\* Only an outermost window ever finds the gate open, so an inner window that
\* is told to restore what it found is told FALSE, which it already holds.
SetRestoreOnClose(restore) ==
  windows' = [i \in DOMAIN windows |->
                IF i \in EngineWindows /\ Outermost(i)
                  THEN [windows[i] EXCEPT !.restore = restore]
                  ELSE windows[i]]

\* The gate as it will stand once the engine windows now under way are closed.
Playable ==
  IF EngineWindows # {} THEN WasReady
  ELSE IF pending.kind = "engine" THEN pending.restore
  ELSE processingReady

\* What the scopes of each operation are, outermost first.
WindowsOf(o) ==
  CASE o = "setActive"                          -> <<"engine", "timeline">>
    [] o \in {"configure", "setOversampling"}   -> <<"timeline", "engine", "timeline">>
    [] o = "standDown"                          -> <<"timeline", "engine">>
    [] o = "replace"                            -> <<"engine", "timeline", "engine", "timeline">>
    [] o = "restoreOversampling"                -> <<"engine", "engine", "timeline">>
    [] o \in {"rebuild", "replaceInstance", "reseat", "asset"} -> <<"engine">>
    [] o = "serviceImage"                       -> <<"image">>
    [] o = "serviceEngine"                      -> <<"image", "engine">>
    [] OTHER                                    -> <<>>

\* Operations the WebView message handler runs on its own thread.
UiOperations == {"rebuild", "replace", "replaceInstance", "reseat", "asset",
                 "setOversampling", "restoreOversampling"}
MessageOperations == UiOperations \union {"bind", "serviceImage", "serviceEngine"}

CanBegin(o) ==
  CASE o = "standDown"           -> stateReplacementPending
    [] o = "configure"           -> ~stateReplacementPending
    [] o = "replace"             -> stateReplacementPending
    [] o \in {"rebuild", "bind", "setState"} -> ~stateReplacementPending
    [] o = "replaceInstance"     -> ~stateReplacementPending /\ processingReady
    [] o = "reseat"              -> ~stateReplacementPending /\ ~processingReady
    [] o = "setOversampling"     -> oversampling = "requested"
    [] o = "restoreOversampling" -> oversampling = "refused"
    [] OTHER                     -> TRUE

\* The unlocked read at the head of "os/set": the only control-side read of the
\* gate outside the mutex that a later decision rests on.
RequestOversampling ==
  /\ "setOversampling" \in Operations
  /\ oversampling = "idle" /\ op \notin UiOperations
  /\ oversampling' = "requested"
  /\ previousProcessingReady' = processingReady
  /\ UNCHANGED <<audioVars, atomicVars, guardedVars, planVars, phase, windows,
                 pending, epochUnchanged, playableWhenRefused, terminationVars>>

\* processingResourcesMutex_ is taken.  While a restore is pending "os/set"
\* stands the gate down like any other reconfiguration.
BeginOperation(o) ==
  /\ phase = "idle"
  /\ termination # "none" => o \in MessageOperations
  /\ o \in UiOperations \ {"setOversampling", "restoreOversampling"} =>
       oversampling = "idle"
  /\ CanBegin(o)
  /\ LET standsDown == o = "setOversampling" /\ stateReplacementPending
         started    == IF standsDown THEN "standDown" ELSE o
     IN /\ op' = started
        /\ toOpen' = WindowsOf(started)
        /\ oversampling' = IF standsDown THEN "idle" ELSE oversampling
  /\ waitForUiRepack' = \/ o \in {"configure", "setOversampling"} /\ ~processingReady
                        \/ o = "restoreOversampling" /\ ~previousProcessingReady
  /\ phase' = "open"
  /\ UNCHANGED <<audioVars, atomicVars, guardedVars, windows, pending, tables,
                 epochUnchanged, previousProcessingReady, playableWhenRefused,
                 terminationVars>>

\* EngineMutationWindow, first half: the claim precedes the gate.
ClaimEngine ==
  /\ phase = "open" /\ toOpen # <<>> /\ Head(toOpen) = "engine"
  /\ controlEngineClaims' = controlEngineClaims + 1
  /\ phase' = "claimed"
  /\ UNCHANGED <<audioVars, processingReady, controlOwnsAudioTimeline,
                 controlOwnsRuntimeImage, publishedAutomationTable, guardedVars,
                 planVars, windows, pending, epochUnchanged, uiVars,
                 terminationVars>>

CloseGate ==
  /\ phase = "claimed"
  /\ pending' = [kind |-> "engine", restore |-> processingReady]
  /\ processingReady' = FALSE
  /\ phase' = "observe"
  /\ UNCHANGED <<audioVars, controlEngineClaims, controlOwnsAudioTimeline,
                 controlOwnsRuntimeImage, publishedAutomationTable, guardedVars,
                 planVars, windows, epochUnchanged, uiVars, terminationVars>>

ClaimTimeline ==
  /\ phase = "open" /\ toOpen # <<>> /\ Head(toOpen) = "timeline"
  /\ pending' = [kind |-> "timeline", restore |-> ~controlOwnsAudioTimeline]
  /\ controlOwnsAudioTimeline' = TRUE
  /\ phase' = "observe"
  /\ UNCHANGED <<audioVars, processingReady, controlEngineClaims,
                 controlOwnsRuntimeImage, publishedAutomationTable, guardedVars,
                 planVars, windows, epochUnchanged, uiVars, terminationVars>>

ClaimImage ==
  /\ phase = "open" /\ toOpen # <<>> /\ Head(toOpen) = "image"
  /\ pending' = [kind |-> "image", restore |-> TRUE]
  /\ controlOwnsRuntimeImage' = TRUE
  /\ phase' = "observe"
  /\ UNCHANGED <<audioVars, processingReady, controlEngineClaims,
                 controlOwnsAudioTimeline, publishedAutomationTable, guardedVars,
                 planVars, windows, epochUnchanged, uiVars, terminationVars>>

\* What follows waitForAudioQuiescence() at each of its call sites.
Quiesced ==
  /\ pending' = NoWindow
  /\ \/ /\ pending.kind = "table"
        /\ automationApplyTableQuiesced' = TRUE
        /\ phase' = "fill"
        /\ UNCHANGED <<windows, toOpen>>
     \/ /\ pending.kind \in WindowKinds
        /\ windows' = Append(windows, pending)
        /\ toOpen' = Tail(toOpen)
        /\ phase' = "open"
        /\ UNCHANGED automationApplyTableQuiesced
  /\ UNCHANGED <<audioVars, atomicVars, stateReplacementPending, engine, op,
                 tables, waitForUiRepack, uiVars, terminationVars>>

\* waitForAudioQuiescence: an even epoch returns at once, an odd one is kept.
ObserveEpoch ==
  /\ phase = "observe"
  /\ IF block = "outside"
       THEN Quiesced /\ UNCHANGED epochUnchanged
       ELSE /\ phase' = "spin"
            /\ epochUnchanged' = [epochUnchanged EXCEPT !["operation"] = TRUE]
            /\ UNCHANGED <<audioVars, atomicVars, guardedVars, planVars,
                           windows, pending, uiVars, terminationVars>>

EpochEven ==                        \* mutant: waits for a moment without a block
  /\ phase = "spin" /\ block = "outside"
  /\ Quiesced
  /\ UNCHANGED epochUnchanged

\* The spin ends as soon as the epoch differs, whatever block is then running.
EpochMoved ==
  /\ phase = "spin" /\ ~epochUnchanged["operation"]
  /\ Quiesced
  /\ UNCHANGED epochUnchanged

WindowsOpen ==
  /\ phase = "open" /\ toOpen = <<>>
  /\ phase' = "body"
  /\ UNCHANGED <<audioVars, atomicVars, guardedVars, planVars, windows, pending,
                 epochUnchanged, uiVars, terminationVars>>

-----------------------------------------------------------------------------
(* Bodies.  `tables' is how often the body publishes the apply table.       *)

BodyDone(publications) ==
  /\ phase = "body"
  /\ phase' = "tables"
  /\ tables' = publications
  /\ UNCHANGED <<audioVars, atomicVars, automationApplyTableQuiesced, op, pending,
                 toOpen, epochUnchanged, waitForUiRepack, previousProcessingReady,
                 terminationVars>>
  /\ op # "setOversampling" => UNCHANGED playableWhenRefused

\* setActive, asset routes, the control service: the engine keeps its topology.
KeepTopology ==
  /\ op \in {"setActive", "asset", "serviceImage", "serviceEngine"}
  /\ BodyDone(0)
  /\ UNCHANGED <<windows, engine, stateReplacementPending, oversampling>>

\* Binding reconciliation, and a runtime image re-seated behind a closed gate.
PublishOnly ==
  /\ op \in {"bind", "reseat"}
  /\ BodyDone(1)
  /\ UNCHANGED <<windows, engine, stateReplacementPending, oversampling>>

\* setState publishes the new document and keeps the old generation playing.
RestoreState ==
  /\ op = "setState"
  /\ BodyDone(0)
  /\ stateReplacementPending' = TRUE
  /\ UNCHANGED <<windows, engine, oversampling>>

StandDown ==
  /\ op = "standDown"
  /\ BodyDone(0)
  /\ SetRestoreOnClose(FALSE)
  /\ UNCHANGED <<engine, stateReplacementPending, oversampling>>

\* configureDspLocked.  It fails before touching the engine, in prepare(), in
\* rebuild(), or past both; a repack configuration stops before rebuild().
ConfigureOutcomes(repack) ==
  {[ok |-> TRUE, engine |-> IF repack THEN "prepared" ELSE "built"]} \union
  {[ok |-> FALSE, engine |-> e] :
     e \in {engine, "unprepared", "prepared"} \union (IF repack THEN {} ELSE {"built"})}

ConfigureRestoresAnyway ==          \* mutant: restores the gate on failure too
  /\ op = "configure"
  /\ BodyDone(0)
  /\ \E outcome \in ConfigureOutcomes(waitForUiRepack) :
       /\ engine' = outcome.engine
       /\ SetRestoreOnClose(WasReady /\ ~waitForUiRepack)
  /\ UNCHANGED <<stateReplacementPending, oversampling>>

Configure ==
  /\ op = "configure"
  /\ BodyDone(0)
  /\ \E outcome \in ConfigureOutcomes(waitForUiRepack) :
       /\ engine' = outcome.engine
       /\ SetRestoreOnClose(outcome.ok /\ WasReady /\ ~waitForUiRepack)
  /\ UNCHANGED <<stateReplacementPending, oversampling>>

SetOversampling ==
  /\ op = "setOversampling"
  /\ BodyDone(0)
  /\ \E outcome \in ConfigureOutcomes(waitForUiRepack) :
       /\ engine' = outcome.engine
       /\ SetRestoreOnClose(outcome.ok /\ WasReady /\ ~waitForUiRepack)
       /\ oversampling' = IF outcome.ok THEN "idle" ELSE "refused"
       /\ playableWhenRefused' = (~outcome.ok /\ WasReady)
  /\ UNCHANGED stateReplacementPending

\* The rollback of a refused "os/set".
RestoreOversampling ==
  /\ op = "restoreOversampling"
  /\ BodyDone(0)
  /\ \E outcome \in ConfigureOutcomes(waitForUiRepack) :
       /\ engine' = outcome.engine
       /\ SetRestoreOnClose(previousProcessingReady /\ outcome.ok)
       /\ oversampling' = IF outcome.ok THEN "restored" ELSE "idle"
  /\ UNCHANGED stateReplacementPending

\* pipeline/rebuild while a restored document waits for its runtime image.
ReplaceGeneration ==
  /\ op = "replace"
  /\ BodyDone(2)
  /\ \E outcome \in ConfigureOutcomes(FALSE) :
       /\ engine' = outcome.engine
       /\ SetRestoreOnClose(outcome.ok)
       /\ stateReplacementPending' = ~outcome.ok
  /\ UNCHANGED oversampling

\* Without host dimensions the document is adopted and nothing is configured.
ReplaceBeforeSetup ==
  /\ op = "replace" /\ engine = "unprepared"
  /\ BodyDone(2)
  /\ SetRestoreOnClose(FALSE)
  /\ stateReplacementPending' = FALSE
  /\ UNCHANGED <<engine, oversampling>>

\* pipeline/rebuild, history/restore and an instance replaced by an update.
RebuildSucceeds ==
  /\ op \in {"rebuild", "replaceInstance"}
  /\ engine # "unprepared"
  /\ BodyDone(IF op = "rebuild" THEN 2 ELSE 1)
  /\ engine' = "built"
  /\ SetRestoreOnClose(TRUE)
  /\ UNCHANGED <<stateReplacementPending, oversampling>>

\* A refused image rebuilds the previous one, if there was a playable one.
RebuildRestoresPrevious ==
  /\ op \in {"rebuild", "replaceInstance"}
  /\ engine # "unprepared" /\ WasReady
  /\ BodyDone(IF op = "rebuild" THEN 0 ELSE 2)
  /\ engine' = "built"
  /\ SetRestoreOnClose(TRUE)
  /\ UNCHANGED <<stateReplacementPending, oversampling>>

RebuildFails ==
  /\ op \in {"rebuild", "replaceInstance"}
  /\ BodyDone(IF op = "rebuild" THEN 0 ELSE 2)
  /\ engine' \in {engine} \union (IF engine = "unprepared" THEN {} ELSE {"prepared", "built"})
  /\ SetRestoreOnClose(FALSE)
  /\ UNCHANGED <<stateReplacementPending, oversampling>>

RunBody == \/ KeepTopology \/ PublishOnly \/ RestoreState \/ StandDown
           \/ Configure \/ SetOversampling \/ RestoreOversampling
           \/ ReplaceGeneration \/ ReplaceBeforeSetup \/ RebuildSucceeds
           \/ RebuildRestoresPrevious \/ RebuildFails

-----------------------------------------------------------------------------
(* publishAutomationApplyTableLocked, and the end of an operation.          *)

\* The retired face has to be proven quiet before it is written.
ReachFace ==
  /\ phase = "tables" /\ tables > 0
  /\ IF automationApplyTableQuiesced
       THEN phase' = "fill" /\ UNCHANGED pending
       ELSE /\ pending' = [kind |-> "table", restore |-> FALSE]
            /\ phase' = "observe"
  /\ UNCHANGED <<audioVars, atomicVars, guardedVars, planVars, windows,
                 epochUnchanged, uiVars, terminationVars>>

PublishFaceStillQuiesced ==         \* mutant: forgets that the faces swapped
  /\ phase = "fill"
  /\ publishedAutomationTable' = 1 - publishedAutomationTable
  /\ tables' = tables - 1
  /\ phase' = "tables"
  /\ UNCHANGED <<audioVars, processingReady, controlEngineClaims,
                 controlOwnsAudioTimeline, controlOwnsRuntimeImage, guardedVars,
                 op, windows, pending, toOpen, epochUnchanged, waitForUiRepack,
                 uiVars, terminationVars>>

\* The face is rewritten during "fill"; an equal one is not published, which
\* leaves the retired face proven quiet.
PublishFace ==
  /\ phase = "fill"
  /\ \E equal \in BOOLEAN :
       /\ publishedAutomationTable' = IF equal THEN publishedAutomationTable
                                      ELSE 1 - publishedAutomationTable
       /\ automationApplyTableQuiesced' = equal
  /\ tables' = tables - 1
  /\ phase' = "tables"
  /\ UNCHANGED <<audioVars, processingReady, controlEngineClaims,
                 controlOwnsAudioTimeline, controlOwnsRuntimeImage,
                 stateReplacementPending, engine, op, windows, pending, toOpen,
                 epochUnchanged, waitForUiRepack, uiVars, terminationVars>>

BodyEnds ==
  /\ phase = "tables" /\ tables = 0
  /\ phase' = "close"
  /\ UNCHANGED <<audioVars, atomicVars, guardedVars, planVars, windows, pending,
                 epochUnchanged, uiVars, terminationVars>>

Innermost == windows[Len(windows)]

\* Scopes close innermost first; an engine window drops its claim last.
CloseWindow ==
  /\ phase = "close" /\ windows # <<>>
  /\ windows' = SubSeq(windows, 1, Len(windows) - 1)
  /\ processingReady' = (processingReady \/ (Innermost.kind = "engine" /\ Innermost.restore))
  /\ controlOwnsAudioTimeline' =
       (controlOwnsAudioTimeline /\ ~(Innermost.kind = "timeline" /\ Innermost.restore))
  /\ controlOwnsRuntimeImage' = (controlOwnsRuntimeImage /\ Innermost.kind # "image")
  /\ phase' = IF Innermost.kind = "engine" THEN "unclaim" ELSE "close"
  /\ gateReopened' = (gateReopened \/ (/\ termination # "none"
                                       /\ Innermost.kind = "engine" /\ Innermost.restore))
  /\ UNCHANGED <<audioVars, controlEngineClaims, publishedAutomationTable, guardedVars,
                 planVars, pending, epochUnchanged, uiVars, termination>>

DropClaim ==
  /\ phase = "unclaim"
  /\ controlEngineClaims' = controlEngineClaims - 1
  /\ phase' = "close"
  /\ UNCHANGED <<audioVars, processingReady, controlOwnsAudioTimeline,
                 controlOwnsRuntimeImage, publishedAutomationTable, guardedVars,
                 planVars, windows, pending, epochUnchanged, uiVars,
                 terminationVars>>

EndOperation ==
  /\ phase = "close" /\ windows = <<>>
  /\ op' = "none" /\ phase' = "idle" /\ waitForUiRepack' = FALSE
  /\ IF oversampling \in {"idle", "restored"}
       THEN /\ oversampling' = "idle"
            /\ previousProcessingReady' = FALSE /\ playableWhenRefused' = FALSE
       ELSE UNCHANGED uiVars
  /\ UNCHANGED <<audioVars, atomicVars, guardedVars, toOpen, tables, windows,
                 pending, epochUnchanged, terminationVars>>

ControlStep == \/ ClaimEngine \/ CloseGate \/ ClaimTimeline \/ ClaimImage
               \/ ObserveEpoch \/ EpochMoved \/ WindowsOpen \/ RunBody
               \/ ReachFace \/ PublishFace \/ BodyEnds \/ CloseWindow
               \/ DropClaim \/ EndOperation

-----------------------------------------------------------------------------
(* terminate().                                                             *)

\* What terminate() leaves to the operation that may be in progress beside it.
OperationUnchanged == UNCHANGED <<audioVars, controlEngineClaims, controlOwnsAudioTimeline,
                                  controlOwnsRuntimeImage, publishedAutomationTable,
                                  guardedVars, planVars, phase, windows, pending, uiVars,
                                  gateReopened>>

CloseGateWithoutWaiting ==          \* mutant: goes on at once
  /\ termination = "none" /\ op \in MessageOperations \union {"none"}
  /\ processingReady' = FALSE
  /\ termination' = "quiet"
  /\ UNCHANGED epochUnchanged /\ OperationUnchanged

\* The flag is cleared without a claim and without the mutex.
CloseGateForGood ==
  /\ termination = "none" /\ op \in MessageOperations \union {"none"}
  /\ processingReady' = FALSE
  /\ termination' = "observe"
  /\ UNCHANGED epochUnchanged /\ OperationUnchanged

TerminateObserves ==
  /\ termination = "observe"
  /\ IF block = "outside"
       THEN termination' = "quiet" /\ UNCHANGED epochUnchanged
       ELSE /\ termination' = "spin"
            /\ epochUnchanged' = [epochUnchanged EXCEPT !["terminate"] = TRUE]
  /\ UNCHANGED processingReady /\ OperationUnchanged

TerminateQuiesced ==
  /\ termination = "spin" /\ ~epochUnchanged["terminate"]
  /\ termination' = "quiet"
  /\ UNCHANGED <<epochUnchanged, processingReady>> /\ OperationUnchanged

\* The buffers go under the mutex, so between two operations.
ClearBuffers ==
  /\ termination = "quiet" /\ phase = "idle"
  /\ termination' = "cleared"
  /\ UNCHANGED <<epochUnchanged, processingReady>> /\ OperationUnchanged

TerminateStep == \/ CloseGateForGood \/ TerminateObserves \/ TerminateQuiesced
                 \/ ClearBuffers

Next == \/ EnterBlock
        \/ FinishProcess
        \/ RequestOversampling
        \/ \E o \in Operations : BeginOperation(o)
        \/ ControlStep
        \/ TerminateStep

\* The host need not call process() again and nobody need start an operation,
\* but a block that began ends and a thread that holds the mutex keeps running.
Spec == Init /\ [][Next]_vars /\ WF_vars(FinishProcess) /\ WF_vars(ControlStep)

-----------------------------------------------------------------------------
(* Properties.                                                              *)

\* Every variable holds a value of its kind; the engine claim count in
\* particular never drops below zero.
TypeOK ==
  /\ block \in BlockSteps
  /\ stageParameterImages \in BOOLEAN /\ claimedBeforeGate \in BOOLEAN
  /\ automationTable \in {0, 1} /\ publishedAutomationTable \in {0, 1}
  /\ processingReady \in BOOLEAN
  /\ controlEngineClaims \in Nat
  /\ controlOwnsAudioTimeline \in BOOLEAN /\ controlOwnsRuntimeImage \in BOOLEAN
  /\ automationApplyTableQuiesced \in BOOLEAN
  /\ stateReplacementPending \in BOOLEAN
  /\ engine \in {"unprepared", "prepared", "built"}
  /\ op \in ControlOperations \union {"none"}
  /\ phase \in Phases
  /\ windows \in Seq(Window) /\ toOpen \in Seq(WindowKinds)
  /\ pending \in Pending
  /\ tables \in Nat
  /\ epochUnchanged \in [Waiters -> BOOLEAN] /\ waitForUiRepack \in BOOLEAN
  /\ oversampling \in {"idle", "requested", "refused", "restored"}
  /\ previousProcessingReady \in BOOLEAN /\ playableWhenRefused \in BOOLEAN
  /\ termination \in Terminations /\ gateReopened \in BOOLEAN

Holds(kind) == \E i \in DOMAIN windows : windows[i].kind = kind

\* While an EngineMutationWindow is open no block is inside the engine section
\* of process(), so instances and descriptors are never rewritten under it.
EngineExclusion == ~(Holds("engine") /\ UsesEngine)

\* While an AudioTimelineWindow is open no block is past the timeline check:
\* the scheduler and the output transition are never reset under a block.
TimelineExclusion == ~(Holds("timeline") /\ UsesTimeline)

\* The mailbox and the dirty flags have one consumer: the control service holds
\* them only while no block that owns them is running.
ImageExclusion == ~(Holds("image") /\ UsesImage)

\* What a window protects is never used by a block while the window is open.
WindowExclusion == EngineExclusion /\ TimelineExclusion /\ ImageExclusion

\* publishAutomationApplyTableLocked never writes the face a block latched,
\* including when it skips the wait because the face was proven quiet before.
FaceExclusion ==
  phase = "fill" /\ UsesTable => automationTable = publishedAutomationTable

\* Once terminate() has waited, and when it clears the buffers, no block is in the
\* engine or can get there, unless a window of a message that overlapped it opened
\* the gate again.
TerminatedEngineQuiet ==
  termination \in {"quiet", "cleared"} /\ ~gateReopened => ~UsesEngine /\ ~processingReady

\* The same without the exception, which the code does not keep: the destructor of
\* a window stores the flag that terminate() has cleared.
ClearedEngineQuiet == termination = "cleared" => ~UsesEngine

\* A block reports processingNotReady only for a DSP that is not playable, never
\* because a control operation was passing over a playable one.
NoFalseDiagnostic == block = "report" => ~Playable

\* No block enters an engine that was torn down and not rebuilt: every failing
\* path abandons the restore, and nested windows do not undo that.
EngineBuiltWhenUsed == UsesEngine => engine = "built"

\* A block that renders has an engine to render with: terminate() and the
\* operations that tear it down and fail leave no way to it.
EngineUsable == TerminatedEngineQuiet /\ EngineBuiltWhenUsed

\* An operation that holds the mutex finishes even if the host keeps calling
\* process() back to back, because a wait needs one block to end and no more.
OperationsFinish == (phase = "open") ~> (phase = "idle")

\* When "os/set" is refused and its rollback succeeds, the gate is open again if
\* the refused reconfiguration had found it open.
RefusedOversamplingRestoresGate ==
  [][oversampling = "restored" /\ oversampling' = "idle" /\ playableWhenRefused
       => processingReady']_vars

-----------------------------------------------------------------------------
(* The inductive invariant behind the properties.                           *)

\* A scope is under construction exactly while its wait runs, and it is the
\* next one the operation has to open.
PhaseInv ==
  /\ phase \in {"observe", "spin"} <=> pending.kind # "none"
  /\ pending.kind \in WindowKinds => toOpen # <<>> /\ Head(toOpen) = pending.kind
  /\ phase = "claimed" => toOpen # <<>> /\ Head(toOpen) = "engine"
  /\ phase = "fill" \/ pending.kind = "table" => tables > 0

\* The count of engine claims is the number of engine windows, open, being
\* opened or being closed.
ClaimInv ==
  controlEngineClaims =
    Cardinality(EngineWindows) +
      (IF phase \in {"claimed", "unclaim"} \/ pending.kind = "engine" THEN 1 ELSE 0)

Closed(kind) == \/ kind = "engine" /\ ~processingReady
                \/ kind = "timeline" /\ controlOwnsAudioTimeline
                \/ kind = "image" /\ controlOwnsRuntimeImage

\* What a scope closed stays closed, because of several scopes of a kind only
\* the outermost one restores, and image claims do not nest.
ClosedInv ==
  /\ \A i \in DOMAIN windows : Closed(windows[i].kind)
  /\ pending.kind \in WindowKinds => Closed(pending.kind)
  /\ termination # "none" /\ ~gateReopened => ~processingReady

NestingInv ==
  /\ \A i, j \in DOMAIN windows :
       i < j /\ windows[i].kind = windows[j].kind => ~windows[j].restore
  /\ Holds(pending.kind) => ~pending.restore
  /\ \A i \in DOMAIN windows : windows[i].kind = "image" => i = 1
  /\ \A i \in DOMAIN toOpen : toOpen[i] = "image" => i = 1 /\ windows = <<>>
  /\ phase = "idle" => windows = <<>>

\* The wait under way has not been answered by the block that runs.
WaitsForBlock == phase = "observe" \/ (phase = "spin" /\ epochUnchanged["operation"])
TerminateWaits == \/ termination \in {"none", "observe"}
                  \/ termination = "spin" /\ epochUnchanged["terminate"]

\* A block that still uses what a scope protects holds that scope up.
DrainInv ==
  /\ UsesEngine => /\ ~Holds("engine")
                   /\ pending.kind = "engine" => WaitsForBlock
                   /\ TerminateWaits \/ gateReopened
  /\ UsesTimeline => /\ ~Holds("timeline")
                     /\ pending.kind = "timeline" => WaitsForBlock
  /\ stageParameterImages => /\ block # "outside" /\ ~Holds("image")
                             /\ pending.kind = "image" => WaitsForBlock
  /\ UsesTable /\ automationTable # publishedAutomationTable =>
       /\ ~automationApplyTableQuiesced /\ phase # "fill"
       /\ pending.kind = "table" => WaitsForBlock

\* No engine scope opens or closes around a block that saw no claim before the
\* gate, so the gate such a block finds closed was not closed in passing.
DiagnosticInv ==
  /\ block \in {"claimRead", "refused", "report"} /\ ~claimedBeforeGate =>
       /\ ~Holds("engine") /\ phase # "unclaim"
       /\ pending.kind = "engine" => WaitsForBlock
  /\ block \in {"refused", "report"} /\ ~claimedBeforeGate => ~processingReady
  /\ block = "report" => /\ ~claimedBeforeGate
                         /\ pending.kind = "engine" => ~pending.restore

\* Operations that tear the engine down and build it again.
TopologyOperations == {"configure", "setOversampling", "restoreOversampling",
                       "replace", "rebuild", "replaceInstance"}

BuiltInv ==
  /\ phase = "body" => toOpen = <<>>
  /\ /\ op \in TopologyOperations
     /\ phase \in {"open", "claimed", "body"} \/ pending.kind \in WindowKinds
     => Holds("engine") \/ \E i \in DOMAIN toOpen : toOpen[i] = "engine"
  /\ op = "restoreOversampling" => waitForUiRepack = ~previousProcessingReady
  /\ Playable => engine = "built"
  /\ UsesEngine => engine = "built"

Inv == /\ TypeOK /\ PhaseInv /\ ClaimInv /\ ClosedInv /\ NestingInv
       /\ DrainInv /\ DiagnosticInv /\ BuiltInv
=============================================================================
