---------------------------- MODULE LatencyHandoff ----------------------------
(***************************************************************************)
(* How a change of latency reaches the wet path, the bypass delay and the  *)
(* host together while blocks keep being rendered.  The audio callback     *)
(* captures what the engine now needs at the end of a block, the control   *)
(* service prepares compensation from that snapshot, and the callback      *)
(* applies it at the start of a later block; latencyUpdateState_ passes    *)
(* the slot back and forth.  When the callback stands still, or a topology *)
(* is replaced, the control side does the same work inside an              *)
(* EngineMutationWindow (see AudioGate: a window opens once no block is in *)
(* the engine, and no block enters it before it closes).                   *)
(*                                                                         *)
(* The DSP engine is external.  It is taken to refuse an update prepared   *)
(* from a snapshot that no longer describes it, as engine_batch_tests.cpp  *)
(* expects.  Several edits made at once are one edit here, and backoff     *)
(* intervals and the debounce are deadlines that pass at any time.         *)
(***************************************************************************)
EXTENDS Integers

CONSTANTS
  MaxLatency,      \* bound on the latency of the pipeline and of the resampler
  MaxEdits,        \* bound on the edits and configurations of a run
  MaxFailures      \* bound on the failed preparations, applications, rollbacks

ASSUME LatencyAssumption ==
  /\ MaxLatency \in Nat /\ MaxEdits \in Nat /\ MaxFailures \in Nat

None == -1
Latencies == 0..MaxLatency

VARIABLES
  \* The engine: what its kernels are asked for, what they report, what was
  \* last observed, what the applied plan compensates, and the plan revision.
  target, kernel, observed, plan, pipelinePlanRevision,
  latencyStale,              \* latencyRevision_ # servicedLatencyRevision_
  resamplerLatency, dryDelay, latencySamples,
  \* The slot that latencyUpdateState_ hands over.
  latencyUpdateState, update,
  \* The audio callback.
  playing, audio, pipelinePlanDirty,
  \* Requests of the editor, or None, and their generations.
  image, descriptor, imageGeneration, descriptorGeneration,
  \* The control side.
  control, audioIdle, applyDescriptor, previousLatency,
  servicedPlanRevision, servicedImageGeneration, failedPlanRevision,
  failedImageGeneration, failedDescriptorGeneration, retryDeferred,
  \* Notification of the host.
  appliedNotificationPending, latencyNotificationPending, debounceArmed,
  debounceDue, hostLatency,
  \* The bounds' counters; history: a rollback has changed the latency.
  edits, failures

engineVars  == <<target, kernel, observed, plan, pipelinePlanRevision, latencyStale>>
delayVars   == <<resamplerLatency, dryDelay, latencySamples>>
slotVars    == <<latencyUpdateState, update>>
audioVars   == <<playing, audio, pipelinePlanDirty>>
requestVars == <<image, descriptor, imageGeneration, descriptorGeneration>>
controlVars == <<control, audioIdle, applyDescriptor, previousLatency>>
retryVars   == <<servicedImageGeneration, failedPlanRevision,
                 failedImageGeneration, failedDescriptorGeneration, retryDeferred>>
notifyVars  == <<appliedNotificationPending, latencyNotificationPending,
                 debounceArmed, debounceDue, hostLatency>>
boundVars   == <<edits, failures>>
vars == <<target, kernel, observed, plan, pipelinePlanRevision, latencyStale,
          resamplerLatency, dryDelay, latencySamples, latencyUpdateState, update,
          playing, audio, pipelinePlanDirty, image, descriptor, imageGeneration,
          descriptorGeneration, control, audioIdle, applyDescriptor,
          previousLatency, servicedPlanRevision, servicedImageGeneration,
          failedPlanRevision, failedImageGeneration, failedDescriptorGeneration, retryDeferred,
          appliedNotificationPending, latencyNotificationPending, debounceArmed,
          debounceDue, hostLatency, edits, failures>>

\* fresh: the engine is still what the snapshot describes.
Revisions == 0..(3 * MaxEdits + 1)
Update == [fresh : BOOLEAN, latency : Latencies, resampler : Latencies,
           revision : Revisions]
NoUpdate == [fresh |-> FALSE, latency |-> 0, resampler |-> 0, revision |-> 0]
Stale(u) == [u EXCEPT !.fresh = FALSE]

\* The resampler reports its round trip.
TotalLatency(r, p) == r + p

Init ==
  /\ target = 0 /\ kernel = 0 /\ observed = 0 /\ plan = 0
  /\ pipelinePlanRevision = 0 /\ latencyStale = FALSE
  /\ resamplerLatency = 0 /\ dryDelay = 0 /\ latencySamples = 0
  /\ latencyUpdateState = "idle" /\ update = NoUpdate
  /\ playing = FALSE /\ audio = "out" /\ pipelinePlanDirty = FALSE
  /\ image = None /\ descriptor = None
  /\ imageGeneration = 0 /\ descriptorGeneration = 0
  /\ control = "idle" /\ audioIdle = FALSE /\ applyDescriptor = FALSE
  /\ previousLatency = 0
  /\ servicedPlanRevision = 0 /\ servicedImageGeneration = 0
  /\ failedPlanRevision = 0
  /\ failedImageGeneration = 0 /\ failedDescriptorGeneration = 0
  /\ retryDeferred = FALSE
  /\ appliedNotificationPending = FALSE /\ latencyNotificationPending = FALSE
  /\ debounceArmed = FALSE /\ debounceDue = FALSE /\ hostLatency = 0
  /\ edits = 0 /\ failures = [count |-> 0, rolledBack |-> FALSE]

\* An EngineMutationWindow is open or waits for the block in flight, or one was
\* left with the gate closed.
WindowOpen == control \in {"window", "rebuild", "configure", "closed", "reopen"}
Edit    == edits < MaxEdits /\ edits' = edits + 1
NoEdit  == UNCHANGED edits
Failure == /\ failures.count < MaxFailures
           /\ failures' = [failures EXCEPT !.count = @ + 1]

-----------------------------------------------------------------------------
(* The audio callback.                                                      *)

NonAudio == UNCHANGED <<resamplerLatency, playing, descriptor, imageGeneration,
                        descriptorGeneration, controlVars, retryVars,
                        latencyNotificationPending, debounceArmed, debounceDue,
                        hostLatency, failures>>

\* A kernel reports a new latency at once, or once it has processed.
Reported(old, asked) == {old, asked}

\* stageParameters(): the images of the mailbox, or a value automation plays.
Stage(asked) ==
  /\ target' = asked
  /\ kernel' \in Reported(kernel, asked)
  /\ pipelinePlanDirty' = (pipelinePlanDirty \/ kernel' # kernel)
  /\ update' = Stale(update)

BeginBlock ==
  /\ audio = "out" /\ playing /\ ~WindowOpen
  /\ audio' = "apply"
  /\ IF image # None
       THEN Stage(image) /\ image' = None
       ELSE UNCHANGED <<target, kernel, pipelinePlanDirty, update, image>>
  /\ UNCHANGED <<observed, plan, pipelinePlanRevision, latencyStale, dryDelay,
                 latencySamples, latencyUpdateState, servicedPlanRevision,
                 appliedNotificationPending>>
  /\ NonAudio /\ NoEdit

AutomationStages(asked) ==
  /\ audio \in {"apply", "process"} /\ Edit
  /\ Stage(asked)
  /\ UNCHANGED <<audio, image, observed, plan, pipelinePlanRevision, latencyStale,
                 dryDelay, latencySamples, latencyUpdateState,
                 servicedPlanRevision, appliedNotificationPending>>
  /\ NonAudio

ApplyUpdateWetOnly ==               \* mutant: the bypass delay lags behind
  IF update.fresh
    THEN /\ plan' = update.latency /\ observed' = kernel
         /\ latencyStale' = FALSE /\ servicedPlanRevision' = update.revision
         /\ latencySamples' = TotalLatency(update.resampler, update.latency)
         /\ appliedNotificationPending' = TRUE /\ UNCHANGED dryDelay
    ELSE UNCHANGED <<plan, observed, dryDelay, latencySamples, latencyStale,
                     servicedPlanRevision, appliedNotificationPending>>

ApplyUpdateUnnotified ==            \* mutant: the host is not told
  /\ IF update.fresh
       THEN /\ plan' = update.latency /\ observed' = kernel
            /\ dryDelay' = TotalLatency(update.resampler, update.latency)
            /\ latencySamples' = dryDelay'
            /\ latencyStale' = FALSE /\ servicedPlanRevision' = update.revision
       ELSE UNCHANGED <<plan, observed, dryDelay, latencySamples, latencyStale,
                        servicedPlanRevision>>
  /\ UNCHANGED appliedNotificationPending

\* applyPreparedLatencyUpdate(): refreshLatencyUnlocked() sets the observed
\* latency and the revision of the applied one, which is serviced at once.
ApplyUpdate ==
  IF update.fresh
    THEN LET next == TotalLatency(update.resampler, update.latency)
         IN /\ plan' = update.latency
            /\ observed' = kernel
            /\ dryDelay' = next /\ latencySamples' = next
            /\ latencyStale' = FALSE
            /\ servicedPlanRevision' = update.revision
            /\ appliedNotificationPending' =
                 (appliedNotificationPending \/ latencySamples # next)
    ELSE UNCHANGED <<plan, observed, dryDelay, latencySamples, latencyStale,
                     servicedPlanRevision, appliedNotificationPending>>

ApplyPrepared ==
  /\ audio = "apply"
  /\ audio' = "process"
  /\ IF latencyUpdateState = "prepared"
       THEN ApplyUpdate /\ latencyUpdateState' = "retired"
       ELSE UNCHANGED <<plan, observed, dryDelay, latencySamples, latencyStale,
                        servicedPlanRevision, appliedNotificationPending,
                        latencyUpdateState>>
  /\ UNCHANGED <<target, kernel, pipelinePlanRevision, pipelinePlanDirty, update,
                 image>>
  /\ NonAudio /\ NoEdit

PlanStagedOnly == pipelinePlanDirty    \* mutant: trusts what staging saw

\* processChunk(), then ProcessBatch::finish(): what the kernels report now is
\* compared with what was observed, and a difference outdates the plan.
PlanOutdated == pipelinePlanDirty \/ observed # target
Finish ==
  /\ audio = "process"
  /\ audio' = "capture"
  /\ kernel' = target /\ observed' = target
  /\ pipelinePlanRevision' = pipelinePlanRevision + IF PlanOutdated THEN 1 ELSE 0
  /\ pipelinePlanDirty' = FALSE
  /\ update' = IF kernel' # kernel THEN Stale(update) ELSE update
  /\ UNCHANGED <<target, plan, latencyStale, dryDelay, latencySamples,
                 latencyUpdateState, image, servicedPlanRevision,
                 appliedNotificationPending>>
  /\ NonAudio /\ NoEdit

Snapshot == [fresh |-> TRUE, latency |-> kernel, resampler |-> resamplerLatency,
             revision |-> pipelinePlanRevision]

\* capturePendingLatencyUpdate(), at the end of the block.
Capture ==
  /\ audio = "capture"
  /\ IF latencyUpdateState = "idle" /\ pipelinePlanRevision # servicedPlanRevision
       THEN update' = Snapshot /\ latencyUpdateState' = "captured"
       ELSE UNCHANGED <<update, latencyUpdateState>>
  /\ audio' = "out"
  /\ UNCHANGED <<engineVars, dryDelay, latencySamples, pipelinePlanDirty, image,
                 servicedPlanRevision, appliedNotificationPending>>
  /\ NonAudio /\ NoEdit

AudioStep == BeginBlock \/ ApplyPrepared \/ Finish \/ Capture

-----------------------------------------------------------------------------
(* Requests of the editor.                                                  *)

Unrequested == UNCHANGED <<engineVars, delayVars, slotVars, audioVars, controlVars,
                           servicedPlanRevision, retryVars, failures>>

\* A whole parameter image goes to the mailbox; the debounce is armed early.
PublishImage(asked) ==
  /\ control = "idle" /\ Edit
  /\ image' = asked /\ imageGeneration' = imageGeneration + 1
  /\ debounceArmed' = TRUE /\ debounceDue' = FALSE
  /\ UNCHANGED <<descriptor, descriptorGeneration, appliedNotificationPending,
                 latencyNotificationPending, hostLatency>>
  /\ Unrequested

\* A topology edit that reuses the instances waits for the control service.
QueueDescriptor(asked) ==
  /\ control = "idle" /\ Edit
  /\ descriptor' = asked /\ descriptorGeneration' = descriptorGeneration + 1
  /\ UNCHANGED <<image, imageGeneration, notifyVars>>
  /\ Unrequested

-----------------------------------------------------------------------------
(* The control service's tick.  It runs on the message thread, like the     *)
(* editor's requests, and keeps processingResourcesMutex_ until it notifies. *)

QueueNotification(restartDebounce) ==
  /\ latencyNotificationPending' = TRUE
  /\ IF restartDebounce \/ ~debounceArmed
       THEN debounceArmed' = TRUE /\ debounceDue' = FALSE
       ELSE UNCHANGED <<debounceArmed, debounceDue>>

\* exchange(appliedLatencyNotificationPending_, false)
TakeAppliedNotification ==
  /\ appliedNotificationPending' = FALSE
  /\ IF appliedNotificationPending
       THEN QueueNotification(FALSE)
       ELSE UNCHANGED <<latencyNotificationPending, debounceArmed, debounceDue>>
  /\ UNCHANGED hostLatency

ImageWork == image # None \/ imageGeneration # servicedImageGeneration

HasPendingControlWork ==
  \/ latencyUpdateState # "idle" \/ appliedNotificationPending
  \/ descriptor # None \/ ImageWork
  \/ pipelinePlanRevision # servicedPlanRevision \/ latencyStale

\* A captured slot whose revision moved on, or one the callback has retired.
Outdated == latencyUpdateState = "captured" /\ update.revision # pipelinePlanRevision
ReturnedOutdated == Outdated         \* mutant: a retired slot is kept
Returned == latencyUpdateState = "retired" \/ Outdated

\* observeAudioIdle() is a guess about a host that renders, never wrong about
\* one that has stopped for good.
TickBegin(idle) ==
  /\ control = "idle"
  /\ idle => audio = "out"
  /\ ~playing => idle
  /\ HasPendingControlWork \/ debounceArmed
  /\ audioIdle' = idle
  /\ TakeAppliedNotification
  /\ IF Returned
       THEN /\ latencyUpdateState' = "idle" /\ update' = NoUpdate
            /\ control' = "service"
       ELSE /\ control' = IF /\ latencyUpdateState = "captured"
                             /\ \/ update.revision # failedPlanRevision
                                \/ ~retryDeferred
                            THEN "prepare" ELSE "service"
            /\ UNCHANGED slotVars
  /\ UNCHANGED <<engineVars, delayVars, audioVars, requestVars, applyDescriptor,
                 previousLatency, servicedPlanRevision, retryVars, boundVars>>

\* The preparation reads only the snapshot; blocks go on meanwhile.
PrepareSucceeds ==
  /\ control = "prepare"
  /\ latencyUpdateState' = "prepared"
  /\ control' = "service"
  /\ UNCHANGED <<engineVars, delayVars, update, audioVars, requestVars, audioIdle,
                 applyDescriptor, previousLatency, servicedPlanRevision,
                 retryVars, notifyVars, boundVars>>

PrepareFails ==
  /\ control = "prepare" /\ Failure
  /\ failedPlanRevision' = update.revision /\ retryDeferred' = TRUE
  /\ control' = "service"
  /\ UNCHANGED <<engineVars, delayVars, slotVars, audioVars, requestVars,
                 audioIdle, applyDescriptor, previousLatency,
                 servicedPlanRevision, servicedImageGeneration,
                 failedImageGeneration, failedDescriptorGeneration, notifyVars,
                 edits>>

DescriptorIsNew == \/ descriptorGeneration # failedDescriptorGeneration
                   \/ imageGeneration # failedImageGeneration
RevisionIsNew(revision) == \/ revision # failedPlanRevision
                           \/ imageGeneration # failedImageGeneration

DescriptorDueOnce ==                \* mutant: a failed topology is not retried
  descriptor # None /\ DescriptorIsNew

DescriptorDue == descriptor # None /\ (DescriptorIsNew \/ ~retryDeferred)

\* Only work with no other way in closes the gate: a topology to apply, or
\* anything once the callback has stopped.  Without it the images stay dirty
\* for the callback to stage.
Service ==
  LET ownEngine   == DescriptorDue \/ audioIdle
      refreshPlan == /\ pipelinePlanRevision # servicedPlanRevision
                     /\ RevisionIsNew(pipelinePlanRevision) \/ ~retryDeferred
      engineOwned == \/ DescriptorDue
                     \/ ownEngine /\ (refreshPlan \/ latencyStale \/ ImageWork)
  IN /\ control = "service"
     /\ applyDescriptor' = DescriptorDue
     /\ IF engineOwned
          THEN control' = "window" /\ UNCHANGED servicedImageGeneration
          ELSE /\ control' = "notify"
               /\ servicedImageGeneration' =
                    IF image = None THEN imageGeneration ELSE servicedImageGeneration
     /\ UNCHANGED <<engineVars, delayVars, slotVars, audioVars, requestVars,
                    audioIdle, previousLatency, servicedPlanRevision,
                    failedPlanRevision, failedImageGeneration,
                    failedDescriptorGeneration, retryDeferred, notifyVars,
                    boundVars>>

-----------------------------------------------------------------------------
(* The body of the tick's window.  The slot is discarded first, whatever    *)
(* state it is in, and the images are consumed before anything is applied.  *)

InWindow == /\ control = "window" /\ audio = "out"
            /\ control' = "notify"
            /\ update' = NoUpdate /\ latencyUpdateState' = "idle"
            /\ UNCHANGED <<resamplerLatency, audioVars, imageGeneration,
                           descriptorGeneration, audioIdle, applyDescriptor,
                           previousLatency, hostLatency, edits>>

\* updateParameters() of the pending images makes the kernels report these.
ReportedAfterImages ==
  IF image = None THEN {kernel} ELSE Reported(kernel, image)
RevisionAfter(reported) ==
  pipelinePlanRevision + IF reported # kernel THEN 1 ELSE 0
ConsumeImages(reported) ==
  /\ target' = IF image = None THEN target ELSE image
  /\ kernel' = reported
  /\ observed' = IF reported # kernel THEN reported ELSE observed
  /\ image' = None

\* The engine refuses an image: it stays dirty.
RefuseImages ==
  /\ InWindow /\ image # None /\ Failure
  /\ IF applyDescriptor
       THEN /\ failedDescriptorGeneration' = descriptorGeneration
            /\ failedImageGeneration' = imageGeneration
            /\ retryDeferred' = TRUE
       ELSE UNCHANGED <<failedDescriptorGeneration, failedImageGeneration,
                        retryDeferred>>
  /\ UNCHANGED <<engineVars, dryDelay, latencySamples, image, descriptor,
                 servicedPlanRevision, servicedImageGeneration,
                 failedPlanRevision, appliedNotificationPending,
                 latencyNotificationPending, debounceArmed, debounceDue>>

RefuseDescriptor(reported) ==
  /\ InWindow /\ applyDescriptor /\ Failure
  /\ ConsumeImages(reported)
  /\ pipelinePlanRevision' = RevisionAfter(reported)
  /\ failedDescriptorGeneration' = descriptorGeneration
  /\ failedImageGeneration' = imageGeneration
  /\ retryDeferred' = TRUE
  /\ UNCHANGED <<plan, latencyStale, dryDelay, latencySamples, descriptor,
                 servicedPlanRevision, servicedImageGeneration,
                 failedPlanRevision, appliedNotificationPending,
                 latencyNotificationPending, debounceArmed, debounceDue>>

\* synchronizeLatencyLocked() for an engine whose plan is now `planned'.
Synchronize(planned, restartDebounce) ==
  LET next == TotalLatency(resamplerLatency, planned)
  IN \/ /\ dryDelay' = next /\ latencySamples' = next
        /\ latencyStale' = FALSE
        /\ servicedImageGeneration' = imageGeneration
        /\ IF latencySamples # next
             THEN QueueNotification(restartDebounce)
             ELSE UNCHANGED <<latencyNotificationPending, debounceArmed, debounceDue>>
        /\ UNCHANGED failures
     \/ /\ Failure /\ latencySamples # next
        /\ latencyStale' = TRUE
        /\ UNCHANGED <<dryDelay, latencySamples, servicedImageGeneration,
                       latencyNotificationPending, debounceArmed, debounceDue>>

Synchronized ==
  /\ servicedImageGeneration' = imageGeneration
  /\ UNCHANGED <<latencyStale, dryDelay, latencySamples, latencyNotificationPending,
                 debounceArmed, debounceDue, failures>>

\* applyDescriptorCommand() compiles a plan for what it configures, and counts
\* the revision that is serviced with it.
ServiceDescriptor(reported) ==
  /\ InWindow /\ applyDescriptor
  /\ target' = descriptor /\ kernel' = descriptor
  /\ observed' = descriptor /\ plan' = descriptor
  /\ image' = None /\ descriptor' = None
  /\ pipelinePlanRevision' = RevisionAfter(reported) + 1
  /\ servicedPlanRevision' = RevisionAfter(reported) + 1
  /\ failedDescriptorGeneration' = 0 /\ failedImageGeneration' = 0
  /\ failedPlanRevision' = 0
  /\ IF latencyStale \/ plan # descriptor
       THEN Synchronize(descriptor, FALSE)
       ELSE Synchronized
  /\ UNCHANGED <<retryDeferred, appliedNotificationPending>>

\* Captured, prepared and applied in place by the exclusive owner.
RefreshPlan(reported, revision) ==
  \/ LET next == TotalLatency(resamplerLatency, reported)
     IN /\ plan' = reported
        /\ dryDelay' = next /\ latencySamples' = next
        /\ servicedPlanRevision' = revision
        /\ latencyStale' = FALSE
        /\ failedPlanRevision' = 0 /\ failedImageGeneration' = 0
        /\ servicedImageGeneration' = imageGeneration
        /\ appliedNotificationPending' =
             (appliedNotificationPending \/ latencySamples # next)
        /\ UNCHANGED <<retryDeferred, latencyNotificationPending, debounceArmed,
                       debounceDue, failures>>
  \/ /\ Failure
     /\ failedPlanRevision' = revision /\ failedImageGeneration' = imageGeneration
     /\ retryDeferred' = TRUE
     /\ UNCHANGED <<plan, dryDelay, latencySamples, servicedPlanRevision,
                    latencyStale, servicedImageGeneration,
                    appliedNotificationPending, latencyNotificationPending,
                    debounceArmed, debounceDue>>

\* Without a topology to apply: the plan is refreshed in place if it is outdated
\* and no failure of the same revision is being backed off.
ServiceImages(reported) ==
  LET revision == RevisionAfter(reported)
  IN /\ InWindow /\ ~applyDescriptor
     /\ ConsumeImages(reported)
     /\ pipelinePlanRevision' = revision
     /\ UNCHANGED <<descriptor, failedDescriptorGeneration>>
     /\ \/ /\ revision = servicedPlanRevision
           /\ IF latencyStale THEN Synchronize(plan, FALSE) ELSE Synchronized
           /\ UNCHANGED <<plan, servicedPlanRevision, failedPlanRevision,
                          failedImageGeneration, retryDeferred,
                          appliedNotificationPending>>
        \/ /\ revision # servicedPlanRevision
           /\ ~RevisionIsNew(revision) /\ retryDeferred
           /\ UNCHANGED <<plan, latencyStale, dryDelay, latencySamples,
                          servicedPlanRevision, retryVars,
                          appliedNotificationPending, latencyNotificationPending,
                          debounceArmed, debounceDue, failures>>
        \/ /\ revision # servicedPlanRevision
           /\ RevisionIsNew(revision) \/ ~retryDeferred
           /\ RefreshPlan(reported, revision)

-----------------------------------------------------------------------------
(* The end of a tick: what the callback or the window applied is queued,    *)
(* the mutex is released, and the host is told when the debounce is due.    *)

TickNotify ==
  /\ control = "notify"
  /\ TakeAppliedNotification
  /\ control' = "debounce"
  /\ UNCHANGED <<engineVars, delayVars, slotVars, audioVars, requestVars,
                 audioIdle, applyDescriptor, previousLatency,
                 servicedPlanRevision, retryVars, boundVars>>

\* restartComponent(kLatencyChanged): the host asks for the latency at once.
TickDebounce ==
  /\ control = "debounce"
  /\ control' = "idle"
  /\ IF debounceArmed /\ debounceDue
       THEN /\ debounceArmed' = FALSE
            /\ latencyNotificationPending' = FALSE
            /\ hostLatency' = IF latencyNotificationPending
                                THEN latencySamples ELSE hostLatency
       ELSE UNCHANGED <<debounceArmed, latencyNotificationPending, hostLatency>>
  /\ UNCHANGED <<engineVars, delayVars, slotVars, audioVars, requestVars,
                 audioIdle, applyDescriptor, previousLatency,
                 servicedPlanRevision, retryVars, appliedNotificationPending,
                 debounceDue, boundVars>>

DebounceExpires ==
  /\ debounceArmed /\ ~debounceDue
  /\ debounceDue' = TRUE
  /\ UNCHANGED <<engineVars, delayVars, slotVars, audioVars, requestVars,
                 controlVars, servicedPlanRevision, retryVars,
                 appliedNotificationPending, latencyNotificationPending,
                 debounceArmed, hostLatency, boundVars>>

RetryExpires ==
  /\ retryDeferred
  /\ retryDeferred' = FALSE
  /\ UNCHANGED <<engineVars, delayVars, slotVars, audioVars, requestVars,
                 controlVars, servicedPlanRevision, servicedImageGeneration,
                 failedPlanRevision, failedImageGeneration,
                 failedDescriptorGeneration, notifyVars, boundVars>>

-----------------------------------------------------------------------------
(* Topology replacement and configuration.                                  *)

Begin(from, operation) ==
  /\ control = from /\ Edit
  /\ control' = operation
  /\ previousLatency' = latencySamples
  /\ UNCHANGED <<engineVars, delayVars, slotVars, audioVars, requestVars,
                 audioIdle, applyDescriptor, servicedPlanRevision, retryVars,
                 notifyVars, failures>>

\* The engine holds nothing but `needed' and a plan for it.
Compile(needed) ==
  /\ target' = needed /\ kernel' = needed /\ observed' = needed /\ plan' = needed
  /\ latencyStale' = FALSE
  /\ servicedPlanRevision' = pipelinePlanRevision
  /\ failedPlanRevision' = 0 /\ failedImageGeneration' = 0
  /\ UNCHANGED <<pipelinePlanRevision, audioVars, imageGeneration,
                 descriptorGeneration, audioIdle, applyDescriptor,
                 previousLatency, retryDeferred>>

DropRequests ==
  image' = None /\ descriptor' = None /\ failedDescriptorGeneration' = 0

Delay(resampler, needed) ==
  /\ dryDelay' = TotalLatency(resampler, needed)
  /\ latencySamples' = TotalLatency(resampler, needed)

\* What an image and a topology that are still pending add up to.
Wanted == IF descriptor # None THEN {descriptor}
          ELSE IF image # None THEN {target, image} ELSE {target}

\* "pipeline/rebuild", "history/restore", a plug-in whose instance is replaced.
\* One that succeeds opens the gate again, if it was left closed.
RebuildSucceeds(needed) ==
  /\ NoEdit
  /\ control \in {"rebuild", "reopen"} /\ audio = "out"
  /\ control' = "idle"
  /\ Compile(needed)
  /\ Delay(resamplerLatency, needed)
  /\ update' = NoUpdate /\ latencyUpdateState' = "idle"
  /\ DropRequests
  /\ IF latencySamples # latencySamples'
       THEN QueueNotification(TRUE)
       ELSE UNCHANGED <<latencyNotificationPending, debounceArmed, debounceDue>>
  /\ UNCHANGED <<resamplerLatency, servicedImageGeneration,
                 appliedNotificationPending, hostLatency, failures>>

RolledBack ==
  failures' = [failures EXCEPT !.rolledBack = @ \/ latencySamples' # latencySamples]

\* restorePreviousPlayableGeneration(): the runtime image and the document the
\* engine is rebuilt from already hold what was pending.  That the latency is
\* another one is computed here and forgotten (5424-5426, 6204-6206).
RebuildRefused(needed) ==
  /\ NoEdit
  /\ control = "rebuild" /\ audio = "out"
  /\ control' = "idle"
  /\ Compile(needed)
  /\ Delay(resamplerLatency, needed)
  /\ update' = NoUpdate /\ latencyUpdateState' = "idle"
  /\ RolledBack
  /\ UNCHANGED <<resamplerLatency, image, descriptor, servicedImageGeneration,
                 failedDescriptorGeneration, notifyVars>>

\* configureDspLocked(): the slot keeps whatever it held, about another engine.
ConfigureFor(resampler, needed) ==
  /\ audio = "out"
  /\ Compile(needed)
  /\ resamplerLatency' = resampler /\ Delay(resampler, needed)
  /\ update' = Stale(update) /\ UNCHANGED latencyUpdateState
  /\ DropRequests
  /\ servicedImageGeneration' = imageGeneration

\* "os/set", or the rebuild that completes a state replacement ...
Configure(resampler, needed) ==
  /\ NoEdit
  /\ control = "configure" /\ control' = "notifyChange"
  /\ ConfigureFor(resampler, needed)
  /\ UNCHANGED <<notifyVars, failures>>

\* ... or, refused, configures the previous oversampling again, which adopts what
\* was pending as well; the host is not told (5302-5307).
ConfigureRefused(needed) ==
  /\ NoEdit
  /\ control = "configure" /\ control' = "idle"
  /\ ConfigureFor(resamplerLatency, needed)
  /\ RolledBack
  /\ UNCHANGED notifyVars

\* A configuration that fails leaves the gate closed, and so does a rollback that
\* fails.  No block enters the engine then: what a tick does to it, and what the
\* failed attempt left in it, is replaced before the gate opens again, and is
\* left out.
Close ==
  /\ Failure
  /\ control' = "closed"
  /\ UNCHANGED <<engineVars, delayVars, slotVars, audioVars, imageGeneration,
                 descriptorGeneration, audioIdle, applyDescriptor,
                 previousLatency, servicedPlanRevision, servicedImageGeneration,
                 failedPlanRevision, failedImageGeneration, retryDeferred,
                 notifyVars>>

GiveUp ==
  /\ control \in {"rebuild", "configure", "reopen"} /\ audio = "out"
  /\ Close /\ NoEdit
  /\ IF control = "configure"
       THEN DropRequests
       ELSE UNCHANGED <<image, descriptor, failedDescriptorGeneration>>

\* notifyLatencyChange(), after a configuration and outside the mutex.
NotifyLatencyChange ==
  /\ control = "notifyChange" /\ control' = "idle"
  /\ IF previousLatency # latencySamples
       THEN /\ hostLatency' = latencySamples
            /\ debounceArmed' = FALSE /\ latencyNotificationPending' = FALSE
       ELSE UNCHANGED <<hostLatency, debounceArmed, latencyNotificationPending>>
  /\ UNCHANGED <<engineVars, delayVars, slotVars, audioVars, requestVars,
                 audioIdle, applyDescriptor, previousLatency,
                 servicedPlanRevision, retryVars, appliedNotificationPending,
                 debounceDue, boundVars>>

\* The host stops the component, sets it up anew and asks for the latency.
Reactivate(resampler, needed) ==
  /\ control = "idle" /\ ~playing
  /\ Edit
  /\ ConfigureFor(resampler, needed)
  /\ hostLatency' = latencySamples'
  /\ UNCHANGED <<control, appliedNotificationPending, latencyNotificationPending,
                 debounceArmed, debounceDue, failures>>

ReactivateFails ==
  /\ control = "idle" /\ ~playing
  /\ Edit
  /\ Close /\ DropRequests

Play ==
  /\ ~playing /\ Edit /\ playing' = TRUE
  /\ UNCHANGED <<audio, pipelinePlanDirty, engineVars, delayVars, slotVars,
                 requestVars, controlVars, servicedPlanRevision, retryVars,
                 notifyVars, failures>>

Stop ==
  /\ playing /\ audio = "out" /\ playing' = FALSE
  /\ UNCHANGED <<audio, pipelinePlanDirty, engineVars, delayVars, slotVars,
                 requestVars, controlVars, servicedPlanRevision, retryVars,
                 notifyVars, boundVars>>

-----------------------------------------------------------------------------

WindowStep ==
  \/ RefuseImages
  \/ \E reported \in ReportedAfterImages :
       RefuseDescriptor(reported) \/ ServiceDescriptor(reported)
         \/ ServiceImages(reported)
TickStep == \/ \E idle \in BOOLEAN : TickBegin(idle)
            \/ PrepareSucceeds \/ PrepareFails \/ Service \/ WindowStep
            \/ TickNotify \/ TickDebounce
ReplaceStep ==
  \/ \E needed \in Latencies : RebuildSucceeds(needed)
  \/ \E needed \in Wanted :
       \/ RebuildRefused(needed) \/ ConfigureRefused(needed)
       \/ \E r \in Latencies : Configure(r, needed)
  \/ GiveUp \/ NotifyLatencyChange
Expire == DebounceExpires \/ RetryExpires
Environment ==
  \/ \E asked \in Latencies :
       AutomationStages(asked) \/ PublishImage(asked) \/ QueueDescriptor(asked)
  \/ Begin("idle", "rebuild") \/ Begin("idle", "configure")
  \/ Begin("closed", "reopen")
  \/ \E r \in Latencies, needed \in Wanted : Reactivate(r, needed)
  \/ ReactivateFails
  \/ Play \/ Stop

Next == AudioStep \/ TickStep \/ ReplaceStep \/ Expire \/ Environment

\* A host that plays keeps calling process(); the timer keeps ticking, an
\* operation runs to its end, and deadlines pass.  Edits are never owed.
Spec == /\ Init /\ [][Next]_vars
        /\ WF_vars(AudioStep) /\ WF_vars(TickStep) /\ WF_vars(ReplaceStep)
        /\ WF_vars(DebounceExpires) /\ WF_vars(RetryExpires)

-----------------------------------------------------------------------------
(* Properties.                                                              *)

\* Every variable holds a value of its kind.
TypeOK ==
  /\ {target, kernel, observed, plan, resamplerLatency} \subseteq Latencies
  /\ {dryDelay, latencySamples, previousLatency, hostLatency}
       \subseteq 0..(2 * MaxLatency)
  /\ latencyUpdateState \in {"idle", "captured", "prepared", "retired"}
  /\ update \in Update
  /\ {pipelinePlanRevision, servicedPlanRevision, failedPlanRevision}
       \subseteq Revisions
  /\ {image, descriptor} \subseteq Latencies \union {None}
  /\ {imageGeneration, descriptorGeneration, servicedImageGeneration,
      failedImageGeneration, failedDescriptorGeneration} \subseteq 0..MaxEdits
  /\ {latencyStale, playing, pipelinePlanDirty, audioIdle, applyDescriptor,
      retryDeferred, appliedNotificationPending, latencyNotificationPending,
      debounceArmed, debounceDue} \subseteq BOOLEAN
  /\ audio \in {"out", "apply", "process", "capture"}
  /\ control \in {"idle", "prepare", "service", "window", "notify", "debounce",
                  "rebuild", "configure", "notifyChange", "closed", "reopen"}
  /\ edits \in 0..MaxEdits /\ failures \in [count : 0..MaxFailures, rolledBack : BOOLEAN]

\* README: a boundary "applies the matching wet plan, bypass delay, and host
\* latency together": the bypass delay and the published latency are always
\* those of the plan the wet path runs with, however an update got there.  When
\* setDelay() runs out of memory they lag behind the plan, together, and the
\* control side knows: it owes the synchronisation (latencyRevision_).
Aligned == /\ dryDelay = latencySamples
           /\ ~latencyStale => latencySamples = TotalLatency(resamplerLatency, plan)

\* A plan whose revision counts as serviced compensates what the kernels report,
\* at every moment no block is between staging and finish(): no edit, in
\* whatever slice or window it arrives, is mistaken for compensated.
ServicedPlanIsCurrent ==
  audio \notin {"apply", "process"} /\ pipelinePlanRevision = servicedPlanRevision
    => plan = kernel

\* The gate is closed until the page sends a pipeline that can be built.
Closed == control = "closed"

\* Once the edits pause, the pipeline reaches a plan for what the kernels report,
\* however often preparations failed or went stale.
PlanSettles == pipelinePlanRevision # servicedPlanRevision
                 ~> pipelinePlanRevision = servicedPlanRevision \/ Closed

\* A topology the editor queued is applied, unless a replacement drops it.
DescriptorServiced == descriptor # None ~> descriptor = None \/ Closed

\* What waits for the control service is serviced in the end, whatever was
\* refused, dropped or overtaken on the way (plugin_processor.cpp:4001-4109).
PendingIsServiced == PlanSettles /\ DescriptorServiced

\* The host is told of every latency the plug-in publishes, whatever failed on
\* the way, unless it was a refused rebuild or configuration whose rollback changed
\* it: then nothing asks for a restart until the latency changes again.
HostLearnsLatency ==
  latencySamples # hostLatency
    ~> latencySamples = hostLatency \/ failures.rolledBack \/ Closed
=============================================================================
