------------------------- MODULE EngineUpdateProofs --------------------------
(***************************************************************************)
(* Two ways in which the running engine is changed without stopping the    *)
(* audio.  Latency: for any latencies and any number of edits and failures *)
(* the wet plan, the bypass delay and the published latency change         *)
(* together, and a plan whose revision counts as serviced compensates what *)
(* the kernels report.  Assets: for any instances, any memory and any      *)
(* number of requests, rebuilds and pages, what the page is answered about *)
(* its banks is true, and a superseded request changes no player.          *)
(***************************************************************************)
EXTENDS LatencyHandoff, AssetUpdate, FiniteSetTheorems, SequenceTheorems, TLAPS

-----------------------------------------------------------------------------
(* Latency.                                                                *)

\* What the snapshot is made of.
Kinds ==
  /\ target \in Latencies /\ kernel \in Latencies
  /\ resamplerLatency \in Latencies
  /\ pipelinePlanRevision \in Nat
  /\ image \in Latencies \union {None} /\ descriptor \in Latencies \union {None}
  /\ update \in [fresh : BOOLEAN, latency : Latencies, resampler : Latencies,
                 revision : Nat]

\* A snapshot that still describes the engine was taken with the resampler in
\* use: nothing but a configuration changes the resampler, and it outdates the
\* snapshot.  Without this a block could apply another resampler's latency.
SnapshotMatches == update.fresh => update.resampler = resamplerLatency

AlignedInv == Kinds /\ Aligned /\ SnapshotMatches

\* The two records the slot is reset to, and what outdating it leaves.
LEMMA StaleFacts ==
  ASSUME Kinds
  PROVE  /\ Stale(update) \in [fresh : BOOLEAN, latency : Latencies,
                               resampler : Latencies, revision : Nat]
         /\ Stale(update).fresh = FALSE
         /\ NoUpdate \in [fresh : BOOLEAN, latency : Latencies,
                          resampler : Latencies, revision : Nat]
         /\ NoUpdate.fresh = FALSE
<1>1. Stale(update) \in [fresh : BOOLEAN, latency : Latencies,
                         resampler : Latencies, revision : Nat]
  BY DEF Kinds, Stale
<1>2. Stale(update).fresh = FALSE
  BY DEF Kinds, Stale
<1>3. 0 \in Latencies
  BY LatencyAssumption DEF Latencies
<1>4. QED BY <1>1, <1>2, <1>3 DEF NoUpdate

\* Nothing starts misaligned.
LEMMA InitAligned == Init => AlignedInv
<1> SUFFICES ASSUME Init PROVE AlignedInv
  OBVIOUS
<1>1. Kinds
  BY LatencyAssumption DEF Init, Kinds, NoUpdate, Latencies
<1>2. QED
  BY <1>1 DEF Init, AlignedInv, Aligned, SnapshotMatches, NoUpdate, TotalLatency

\* Staging a value outdates the snapshot and touches no delay.
LEMMA StageAligned ==
  ASSUME AlignedInv, NEW asked \in Latencies, Stage(asked),
         UNCHANGED <<plan, latencyStale, dryDelay, latencySamples, resamplerLatency,
                     pipelinePlanRevision, descriptor>>,
         image' \in {image, None}
  PROVE  AlignedInv'
<1>1. kernel' \in Latencies /\ target' = asked /\ update' = Stale(update)
  BY DEF Stage, Reported, AlignedInv, Kinds
<1>2. Kinds'
  BY <1>1, StaleFacts DEF AlignedInv, Kinds
<1>3. SnapshotMatches'
  BY <1>1, StaleFacts DEF AlignedInv, SnapshotMatches
<1>4. QED BY <1>2, <1>3 DEF AlignedInv, Aligned, TotalLatency

\* No step of the callback misaligns: it applies a snapshot of this resampler,
\* with both delays, or nothing of it.
LEMMA AudioAligned ==
  ASSUME AlignedInv, AudioStep
  PROVE  AlignedInv'
<1>1. ASSUME BeginBlock PROVE AlignedInv'
  <2>1. CASE image # None
    <3>1. image \in Latencies /\ Stage(image) /\ image' = None
      BY <1>1, <2>1 DEF BeginBlock, AlignedInv, Kinds
    <3>2. QED BY <1>1, <3>1, StageAligned DEF BeginBlock, NonAudio
  <2>2. CASE image = None
    BY <1>1, <2>2
    DEF BeginBlock, NonAudio, AlignedInv, Kinds, Aligned, SnapshotMatches,
        TotalLatency
  <2>3. QED BY <2>1, <2>2
<1>2. ASSUME ApplyPrepared PROVE AlignedInv'
  <2>1. Kinds' /\ SnapshotMatches'
    BY <1>2 DEF ApplyPrepared, NonAudio, AlignedInv, Kinds, SnapshotMatches
  <2>2. Aligned'
    BY <1>2
    DEF ApplyPrepared, ApplyUpdate, NonAudio, AlignedInv, Aligned,
        SnapshotMatches, TotalLatency
  <2>3. QED BY <2>1, <2>2 DEF AlignedInv
<1>3. ASSUME Finish PROVE AlignedInv'
  <2>1. kernel' \in Latencies /\ target' \in Latencies /\ pipelinePlanRevision' \in Nat
    BY <1>3 DEF Finish, AlignedInv, Kinds
  <2>2. update' = Stale(update) \/ update' = update
    BY <1>3 DEF Finish
  <2>3. Kinds' /\ SnapshotMatches'
    BY <1>3, <2>1, <2>2, StaleFacts
    DEF Finish, NonAudio, AlignedInv, Kinds, SnapshotMatches
  <2>4. QED BY <1>3, <2>3 DEF Finish, NonAudio, AlignedInv, Aligned, TotalLatency
<1>4. ASSUME Capture PROVE AlignedInv'
  <2>1. update' = Snapshot \/ update' = update
    BY <1>4 DEF Capture
  <2>2. /\ Snapshot \in [fresh : BOOLEAN, latency : Latencies,
                         resampler : Latencies, revision : Nat]
        /\ Snapshot.resampler = resamplerLatency
    BY DEF Snapshot, AlignedInv, Kinds
  <2>3. UNCHANGED <<target, kernel, plan, pipelinePlanRevision, latencyStale, resamplerLatency,
                    dryDelay, latencySamples, image, descriptor>>
    BY <1>4 DEF Capture, NonAudio, engineVars
  <2>4. Kinds' /\ SnapshotMatches'
    BY <2>1, <2>2, <2>3 DEF AlignedInv, Kinds, SnapshotMatches
  <2>5. QED BY <2>3, <2>4 DEF AlignedInv, Aligned, TotalLatency
<1>5. QED BY <1>1, <1>2, <1>3, <1>4 DEF AudioStep

\* Requests of the editor and of automation change no delay.
LEMMA RequestAligned ==
  ASSUME AlignedInv, NEW asked \in Latencies,
         AutomationStages(asked) \/ PublishImage(asked) \/ QueueDescriptor(asked)
  PROVE  AlignedInv'
<1>1. ASSUME AutomationStages(asked) PROVE AlignedInv'
  BY <1>1, StageAligned DEF AutomationStages, NonAudio
<1>2. ASSUME PublishImage(asked) \/ QueueDescriptor(asked) PROVE AlignedInv'
  BY <1>2
  DEF PublishImage, QueueDescriptor, Unrequested, engineVars, delayVars, slotVars,
      AlignedInv, Kinds, Aligned, SnapshotMatches, TotalLatency
<1>3. QED BY <1>1, <1>2

\* What the tick does outside its window touches no delay, and only takes the
\* slot back or hands it over.
LEMMA TickAligned ==
  ASSUME AlignedInv,
         (\E idle \in BOOLEAN : TickBegin(idle)) \/ PrepareSucceeds \/ PrepareFails
           \/ Service \/ TickNotify \/ TickDebounce
  PROVE  AlignedInv'
<1>1. UNCHANGED <<target, kernel, plan, pipelinePlanRevision, latencyStale, resamplerLatency,
                  dryDelay, latencySamples, image, descriptor>>
  BY DEF TickBegin, PrepareSucceeds, PrepareFails, Service, TickNotify,
         TickDebounce, engineVars, delayVars, requestVars
<1>2. update' = NoUpdate \/ update' = update
  BY DEF TickBegin, PrepareSucceeds, PrepareFails, Service, TickNotify,
         TickDebounce, slotVars
<1>3. Kinds' /\ SnapshotMatches'
  BY <1>1, <1>2, StaleFacts DEF AlignedInv, Kinds, SnapshotMatches
<1>4. QED BY <1>1, <1>3 DEF AlignedInv, Aligned, TotalLatency

\* The topology a tick found due is still there when its window opens.
DescriptorHeld == control = "window" /\ applyDescriptor => descriptor # None

\* Only the control side, which is in the tick, takes a topology away.
LEMMA HeldStep ==
  ASSUME DescriptorHeld, Next
  PROVE  DescriptorHeld'
<1>1. ASSUME AudioStep \/ Expire \/ Play \/ Stop PROVE DescriptorHeld'
  BY <1>1
  DEF AudioStep, BeginBlock, ApplyPrepared, Finish, Capture, NonAudio, Expire,
      DebounceExpires, RetryExpires, Play, Stop, controlVars, requestVars,
      DescriptorHeld
<1>2. ASSUME TickStep PROVE DescriptorHeld'
  <2>1. CASE Service
    BY <2>1 DEF Service, DescriptorDue, requestVars, DescriptorHeld
  <2>2. CASE WindowStep
    BY <2>2 DEF WindowStep, RefuseImages, RefuseDescriptor, ServiceDescriptor,
                ServiceImages, InWindow, DescriptorHeld
  <2>3. CASE (\E idle \in BOOLEAN : TickBegin(idle)) \/ PrepareSucceeds
               \/ PrepareFails \/ TickNotify \/ TickDebounce
    <3>1. control' # "window"
      BY <2>3 DEF TickBegin, PrepareSucceeds, PrepareFails, TickNotify, TickDebounce
    <3>2. QED BY <3>1 DEF DescriptorHeld
  <2>4. QED BY <1>2, <2>1, <2>2, <2>3 DEF TickStep
<1>3. ASSUME ReplaceStep PROVE DescriptorHeld'
  BY <1>3 DEF ReplaceStep, RebuildSucceeds, RebuildRefused, Configure,
              ConfigureRefused, GiveUp, Close, NotifyLatencyChange, DescriptorHeld
<1>4. ASSUME \/ Begin("idle", "rebuild") \/ Begin("idle", "configure")
             \/ Begin("closed", "reopen")
      PROVE  DescriptorHeld'
  BY <1>4 DEF Begin, DescriptorHeld
<1>5. ASSUME \/ \E r \in Latencies, needed \in Wanted : Reactivate(r, needed)
             \/ ReactivateFails
      PROVE  DescriptorHeld'
  BY <1>5 DEF Reactivate, ReactivateFails, Close, DescriptorHeld
<1>6. ASSUME \E asked \in Latencies :
               AutomationStages(asked) \/ PublishImage(asked) \/ QueueDescriptor(asked)
      PROVE  DescriptorHeld'
  BY <1>6 DEF AutomationStages, PublishImage, QueueDescriptor, NonAudio,
              Unrequested, controlVars, DescriptorHeld
<1>7. QED BY <1>1, <1>2, <1>3, <1>4, <1>5, <1>6 DEF Next, Environment

\* A synchronisation that fails leaves both delays where they were, and owes.
LEMMA SynchronizeAligned ==
  ASSUME AlignedInv, NEW planned, NEW restartDebounce \in BOOLEAN,
         Synchronize(planned, restartDebounce),
         plan' = planned, resamplerLatency' = resamplerLatency
  PROVE  Aligned'
<1>1. CASE /\ dryDelay' = TotalLatency(resamplerLatency, planned)
           /\ latencySamples' = TotalLatency(resamplerLatency, planned)
  BY <1>1 DEF Aligned, TotalLatency
<1>2. CASE latencyStale' /\ UNCHANGED <<dryDelay, latencySamples>>
  BY <1>2 DEF AlignedInv, Aligned
<1>3. QED BY <1>1, <1>2 DEF Synchronize

\* The tick's window: the slot is emptied, and a plan that changes there changes
\* both delays with it.
LEMMA WindowAligned ==
  ASSUME AlignedInv, DescriptorHeld, WindowStep
  PROVE  AlignedInv'
<1> SUFFICES ASSUME NEW reported \in ReportedAfterImages,
                    RefuseImages \/ RefuseDescriptor(reported)
                      \/ ServiceDescriptor(reported) \/ ServiceImages(reported)
             PROVE  AlignedInv'
  <2>1. kernel \in ReportedAfterImages
    BY DEF ReportedAfterImages, Reported
  <2>2. QED BY <2>1 DEF WindowStep
<1>1. InWindow
  BY DEF RefuseImages, RefuseDescriptor, ServiceDescriptor, ServiceImages
<1>2. update' = NoUpdate /\ resamplerLatency' = resamplerLatency
  BY <1>1 DEF InWindow
<1>3. /\ reported \in Latencies /\ RevisionAfter(reported) \in Nat
      /\ RevisionAfter(reported) + 1 \in Nat
  <2>1. reported \in {kernel, image} /\ (image = None => reported = kernel)
    BY DEF ReportedAfterImages, Reported
  <2>2. reported \in Latencies
    BY <2>1 DEF AlignedInv, Kinds
  <2>3. pipelinePlanRevision \in Nat
    BY DEF AlignedInv, Kinds
  <2>4. QED BY <2>2, <2>3 DEF RevisionAfter
<1>4. Kinds'
  <2>1. /\ target' \in Latencies /\ kernel' \in Latencies
        /\ pipelinePlanRevision' \in Nat
        /\ image' \in {image, None} /\ descriptor' \in {descriptor, None}
    <3>1. CASE RefuseImages
      BY <3>1 DEF RefuseImages, engineVars, AlignedInv, Kinds
    <3>2. CASE RefuseDescriptor(reported)
      BY <1>3, <3>2 DEF RefuseDescriptor, ConsumeImages, AlignedInv, Kinds
    <3>3. CASE ServiceDescriptor(reported)
      <4>1. descriptor \in Latencies
        BY <3>3 DEF ServiceDescriptor, InWindow, DescriptorHeld, AlignedInv, Kinds
      <4>2. QED BY <1>3, <3>3, <4>1 DEF ServiceDescriptor, AlignedInv, Kinds
    <3>4. CASE ServiceImages(reported)
      BY <1>3, <3>4 DEF ServiceImages, ConsumeImages, AlignedInv, Kinds
    <3>5. QED BY <3>1, <3>2, <3>3, <3>4
  <2>2. QED BY <1>2, <2>1, StaleFacts DEF AlignedInv, Kinds
<1>5. Aligned'
  <2>1. CASE RefuseImages \/ RefuseDescriptor(reported)
    BY <1>2, <2>1
    DEF RefuseImages, RefuseDescriptor, engineVars, AlignedInv, Aligned, TotalLatency
  <2>2. CASE ServiceDescriptor(reported)
    <3>1. plan' = descriptor
      BY <2>2 DEF ServiceDescriptor
    <3>2. CASE latencyStale \/ plan # descriptor
      <4>1. Synchronize(descriptor, FALSE)
        BY <2>2, <3>2 DEF ServiceDescriptor
      <4>2. QED BY <1>2, <3>1, <4>1, SynchronizeAligned
    <3>3. CASE ~(latencyStale \/ plan # descriptor)
      <4>1. Synchronized
        BY <2>2, <3>3 DEF ServiceDescriptor
      <4>2. QED
        BY <1>2, <3>1, <3>3, <4>1 DEF Synchronized, AlignedInv, Aligned, TotalLatency
    <3>4. QED BY <3>2, <3>3
  <2>3. CASE ServiceImages(reported)
    <3>1. CASE Synchronize(plan, FALSE) /\ UNCHANGED plan
      BY <1>2, <3>1, SynchronizeAligned
    <3>2. CASE UNCHANGED <<plan, latencyStale, dryDelay, latencySamples>>
      BY <1>2, <3>2 DEF AlignedInv, Aligned, TotalLatency
    <3>3. CASE RefreshPlan(reported, RevisionAfter(reported))
      BY <1>2, <3>2, <3>3 DEF RefreshPlan, Aligned, TotalLatency
    <3>4. QED BY <2>3, <3>1, <3>2, <3>3 DEF ServiceImages, Synchronized
  <2>4. QED BY <2>1, <2>2, <2>3
<1>6. QED BY <1>2, <1>4, <1>5, StaleFacts DEF AlignedInv, SnapshotMatches

\* An attempt that fails for good leaves the delays as they were, and closes the
\* gate.
LEMMA CloseAligned ==
  ASSUME AlignedInv, Close, image' \in {image, None}, descriptor' \in {descriptor, None}
  PROVE  AlignedInv'
<1>1. UNCHANGED <<target, kernel, plan, pipelinePlanRevision, latencyStale,
                  resamplerLatency, dryDelay, latencySamples, update>>
  BY DEF Close, engineVars, delayVars, slotVars
<1>2. Kinds' /\ SnapshotMatches'
  BY <1>1 DEF AlignedInv, Kinds, SnapshotMatches
<1>3. QED BY <1>1, <1>2 DEF AlignedInv, Aligned, TotalLatency

\* A replaced or reconfigured engine gets a plan and both delays for it.
LEMMA ReplaceAligned ==
  ASSUME AlignedInv, ReplaceStep
  PROVE  AlignedInv'
<1>1. \A needed \in Wanted : needed \in Latencies
  BY DEF Wanted, AlignedInv, Kinds
<1>2. ASSUME NEW needed \in Latencies,
             RebuildSucceeds(needed) \/ RebuildRefused(needed)
      PROVE  AlignedInv'
  <2>1. /\ Compile(needed) /\ Delay(resamplerLatency, needed)
        /\ update' = NoUpdate /\ resamplerLatency' = resamplerLatency
        /\ image' \in {image, None} /\ descriptor' \in {descriptor, None}
    BY <1>2 DEF RebuildSucceeds, DropRequests, RebuildRefused
  <2>2. Kinds' /\ SnapshotMatches'
    BY <2>1, StaleFacts DEF Compile, AlignedInv, Kinds, SnapshotMatches
  <2>3. QED BY <2>1, <2>2 DEF Compile, Delay, AlignedInv, Aligned, TotalLatency
<1>3. ASSUME NEW needed \in Wanted, NEW r \in Latencies, ConfigureFor(r, needed)
      PROVE  AlignedInv'
  <2>1. /\ needed \in Latencies
        /\ Compile(needed) /\ Delay(r, needed) /\ resamplerLatency' = r
        /\ update' = Stale(update) /\ image' = None /\ descriptor' = None
    BY <1>1, <1>3 DEF ConfigureFor, DropRequests
  <2>2. Kinds' /\ SnapshotMatches'
    BY <2>1, StaleFacts DEF Compile, AlignedInv, Kinds, SnapshotMatches
  <2>3. QED BY <2>1, <2>2 DEF Compile, Delay, AlignedInv, Aligned, TotalLatency
<1>4. ASSUME NotifyLatencyChange PROVE AlignedInv'
  BY <1>4 DEF NotifyLatencyChange, engineVars, delayVars, slotVars, requestVars,
              AlignedInv, Kinds, Aligned, SnapshotMatches, TotalLatency
<1>5. ASSUME GiveUp PROVE AlignedInv'
  BY <1>5, CloseAligned DEF GiveUp, DropRequests
<1>6. resamplerLatency \in Latencies
  BY DEF AlignedInv, Kinds
<1>7. QED
  BY <1>1, <1>2, <1>3, <1>4, <1>5, <1>6 DEF ReplaceStep, Configure, ConfigureRefused

\* The rest: the host's transport and set-up, the beginning of an operation and
\* the passing of deadlines.
LEMMA HostAligned ==
  ASSUME AlignedInv,
         \/ Expire \/ Play \/ Stop
         \/ Begin("idle", "rebuild") \/ Begin("idle", "configure")
         \/ Begin("closed", "reopen")
         \/ \E r \in Latencies, needed \in Wanted : Reactivate(r, needed)
         \/ ReactivateFails
  PROVE  AlignedInv'
<1>1. ASSUME NEW r \in Latencies, NEW needed \in Wanted, Reactivate(r, needed)
      PROVE  AlignedInv'
  <2>1. /\ needed \in Latencies
        /\ Compile(needed) /\ Delay(r, needed) /\ resamplerLatency' = r
        /\ update' = Stale(update) /\ image' = None /\ descriptor' = None
    BY <1>1 DEF Reactivate, ConfigureFor, DropRequests, Wanted, AlignedInv, Kinds
  <2>2. Kinds' /\ SnapshotMatches'
    BY <2>1, StaleFacts DEF Compile, AlignedInv, Kinds, SnapshotMatches
  <2>3. QED BY <2>1, <2>2 DEF Compile, Delay, AlignedInv, Aligned, TotalLatency
<1>2. ASSUME \/ Expire \/ Play \/ Stop
             \/ Begin("idle", "rebuild") \/ Begin("idle", "configure")
             \/ Begin("closed", "reopen")
      PROVE  AlignedInv'
  BY <1>2 DEF Expire, DebounceExpires, RetryExpires, Play, Stop, Begin, engineVars,
              delayVars, slotVars, requestVars, AlignedInv, Kinds, Aligned,
              SnapshotMatches, TotalLatency
<1>3. ASSUME ReactivateFails PROVE AlignedInv'
  BY <1>3, CloseAligned DEF ReactivateFails, DropRequests
<1>4. QED BY <1>1, <1>2, <1>3

\* No step of any of them misaligns.
LEMMA HandoffStep ==
  ASSUME AlignedInv, DescriptorHeld, Next
  PROVE  AlignedInv' /\ DescriptorHeld'
<1>1. DescriptorHeld'
  BY HeldStep
<1>2. AlignedInv'
  BY AudioAligned, RequestAligned, TickAligned, WindowAligned, ReplaceAligned,
     HostAligned
  DEF Next, TickStep, Environment
<1>3. QED BY <1>1, <1>2

\* README: a boundary "applies the matching wet plan, bypass delay, and host
\* latency together".  Whatever the interleaving of callback, control service,
\* replacements and failures, the bypass delay is the latency the plug-in
\* publishes, and both match the plan the wet path runs with, or the control
\* side knows that it owes a synchronisation.
THEOREM AlignedAlways == Spec => []Aligned
<1> DEFINE Held == AlignedInv /\ DescriptorHeld
<1>1. Init => Held
  <2>1. Init => DescriptorHeld
    BY DEF Init, DescriptorHeld
  <2>2. QED BY <2>1, InitAligned
<1>2. Held /\ [Next]_vars => Held'
  <2> SUFFICES ASSUME Held, [Next]_vars PROVE Held'
    OBVIOUS
  <2>1. CASE UNCHANGED vars
    BY <2>1 DEF vars, AlignedInv, Kinds, Aligned, SnapshotMatches, DescriptorHeld,
                TotalLatency
  <2>2. CASE Next
    BY <2>2, HandoffStep
  <2>3. QED BY <2>1, <2>2
<1>3. Held => Aligned
  BY DEF AlignedInv
<1>4. QED BY <1>1, <1>2, <1>3, PTL DEF Spec

-----------------------------------------------------------------------------
(* The serviced plan.                                                       *)

\* The revisions only grow, so a revision that moved on is never the serviced one.
Revised ==
  /\ servicedPlanRevision \in Nat
  /\ servicedPlanRevision <= pipelinePlanRevision

\* A snapshot that still describes the engine holds what its kernels report.
SnapshotCurrent ==
  update.fresh => /\ update.latency = kernel
                  /\ update.revision <= pipelinePlanRevision

\* What staging has not flagged was observed, and no flag outlives its block.
DirtyInv ==
  /\ pipelinePlanDirty \in BOOLEAN
  /\ ~pipelinePlanDirty => observed = kernel
  /\ audio \notin {"apply", "process"} => ~pipelinePlanDirty

\* ServicedPlanIsCurrent, extended into the block: until staging changes what a
\* kernel reports, the serviced plan still compensates it.
PlanCurrent ==
  ~pipelinePlanDirty /\ pipelinePlanRevision = servicedPlanRevision => plan = kernel

PlanInv == Kinds /\ Revised /\ SnapshotCurrent /\ DirtyInv /\ PlanCurrent

\* Nothing starts with a plan for something else.
LEMMA InitPlan == Init => PlanInv
<1> SUFFICES ASSUME Init PROVE PlanInv
  OBVIOUS
<1>1. Kinds
  BY InitAligned DEF AlignedInv
<1>2. Revised /\ PlanCurrent
  BY DEF Init, Revised, PlanCurrent
<1>3. SnapshotCurrent
  BY DEF Init, SnapshotCurrent, NoUpdate
<1>4. DirtyInv
  BY DEF Init, DirtyInv
<1>5. QED BY <1>1, <1>2, <1>3, <1>4 DEF PlanInv

\* An outdated snapshot says nothing about the engine.
LEMMA OutdatedSnapshot ==
  ASSUME Kinds, update' = NoUpdate \/ update' = Stale(update)
  PROVE  SnapshotCurrent'
<1>1. update'.fresh = FALSE
  BY StaleFacts
<1>2. QED BY <1>1 DEF SnapshotCurrent

\* Staging either leaves what the kernels report or flags the plan.
LEMMA StagePlan ==
  ASSUME PlanInv, NEW asked \in Latencies, Stage(asked),
         audio' \in {"apply", "process"},
         UNCHANGED <<plan, observed, pipelinePlanRevision, servicedPlanRevision>>
  PROVE  /\ Revised' /\ SnapshotCurrent' /\ DirtyInv' /\ PlanCurrent'
<1>1. SnapshotCurrent'
  BY OutdatedSnapshot DEF Stage, PlanInv
<1>2. pipelinePlanDirty' \in BOOLEAN
  BY DEF Stage, PlanInv, DirtyInv
<1>3. ~pipelinePlanDirty' => ~pipelinePlanDirty /\ kernel' = kernel
  BY DEF Stage
<1>4. Revised' /\ DirtyInv' /\ PlanCurrent'
  BY <1>2, <1>3 DEF PlanInv, Revised, DirtyInv, PlanCurrent
<1>5. QED BY <1>1, <1>4

\* A block applies a snapshot only while it is what the kernels report, and
\* finish() counts a revision for everything staging or processing has changed.
LEMMA AudioPlan ==
  ASSUME PlanInv, Kinds', AudioStep
  PROVE  PlanInv'
<1>1. ASSUME BeginBlock PROVE PlanInv'
  <2>1. CASE image # None
    <3>1. image \in Latencies /\ Stage(image)
      BY <1>1, <2>1 DEF BeginBlock, PlanInv, Kinds
    <3>2. QED BY <1>1, <3>1, StagePlan DEF BeginBlock, PlanInv
  <2>2. CASE image = None
    BY <1>1, <2>2
    DEF BeginBlock, PlanInv, Revised, SnapshotCurrent, DirtyInv, PlanCurrent
  <2>3. QED BY <2>1, <2>2
<1>2. ASSUME ApplyPrepared PROVE PlanInv'
  <2>1. CASE latencyUpdateState = "prepared" /\ update.fresh
    <3>1. /\ update.latency = kernel /\ update.revision <= pipelinePlanRevision
          /\ update.revision \in Nat
      BY <2>1 DEF PlanInv, SnapshotCurrent, Kinds
    <3>2. /\ plan' = kernel /\ observed' = kernel
          /\ servicedPlanRevision' = update.revision
      BY <1>2, <2>1, <3>1 DEF ApplyPrepared, ApplyUpdate
    <3>3. /\ UNCHANGED <<kernel, pipelinePlanRevision, pipelinePlanDirty, update>>
          /\ audio' = "process"
      BY <1>2 DEF ApplyPrepared
    <3>4. QED
      BY <3>1, <3>2, <3>3
      DEF PlanInv, Revised, SnapshotCurrent, DirtyInv, PlanCurrent
  <2>2. CASE ~(latencyUpdateState = "prepared" /\ update.fresh)
    BY <1>2, <2>2
    DEF ApplyPrepared, ApplyUpdate, PlanInv, Revised, SnapshotCurrent, DirtyInv,
        PlanCurrent
  <2>3. QED BY <2>1, <2>2
<1>3. ASSUME Finish PROVE PlanInv'
  <2>1. /\ kernel' = target /\ observed' = target /\ pipelinePlanDirty' = FALSE
        /\ UNCHANGED <<plan, servicedPlanRevision>>
    BY <1>3 DEF Finish
  <2>2. CASE PlanOutdated
    <3>1. pipelinePlanRevision' = pipelinePlanRevision + 1
      BY <1>3, <2>2 DEF Finish
    <3>2. DirtyInv'
      BY <2>1 DEF DirtyInv
    <3>3. Revised' /\ PlanCurrent'
      BY <2>1, <3>1 DEF PlanInv, Kinds, Revised, PlanCurrent
    <3>4. CASE kernel' # kernel
      BY <1>3, <3>2, <3>3, <3>4, OutdatedSnapshot DEF Finish, PlanInv
    <3>5. CASE kernel' = kernel
      <4>1. update' = update
        BY <1>3, <3>5 DEF Finish
      <4>2. SnapshotCurrent'
        <5>1. CASE update.fresh
          BY <3>1, <3>5, <4>1, <5>1 DEF PlanInv, Kinds, SnapshotCurrent
        <5>2. CASE ~update.fresh
          BY <4>1, <5>2 DEF SnapshotCurrent
        <5>3. QED BY <5>1, <5>2
      <4>3. QED BY <3>2, <3>3, <4>2 DEF PlanInv
    <3>6. QED BY <3>4, <3>5
  <2>3. CASE ~PlanOutdated
    <3>1. ~pipelinePlanDirty /\ target = kernel
      BY <2>3 DEF PlanOutdated, PlanInv, DirtyInv
    <3>2. pipelinePlanRevision' = pipelinePlanRevision /\ update' = update
      BY <1>3, <2>3, <3>1 DEF Finish, PlanInv, Kinds
    <3>3. QED
      BY <2>1, <3>1, <3>2
      DEF PlanInv, Revised, SnapshotCurrent, DirtyInv, PlanCurrent
  <2>4. QED BY <2>2, <2>3
<1>4. ASSUME Capture PROVE PlanInv'
  <2>1. UNCHANGED <<kernel, observed, plan, pipelinePlanRevision, pipelinePlanDirty,
                    servicedPlanRevision>>
    BY <1>4 DEF Capture, engineVars
  <2>2. audio = "capture" /\ audio' = "out"
    BY <1>4 DEF Capture
  <2>3. Revised' /\ DirtyInv' /\ PlanCurrent'
    BY <2>1, <2>2 DEF PlanInv, Revised, DirtyInv, PlanCurrent
  <2>4. SnapshotCurrent'
    <3>1. update' = Snapshot \/ update' = update
      BY <1>4 DEF Capture
    <3>2. Snapshot.latency = kernel /\ Snapshot.revision = pipelinePlanRevision
      BY DEF Snapshot
    <3>3. pipelinePlanRevision <= pipelinePlanRevision
      BY DEF PlanInv, Kinds
    <3>4. CASE update' = Snapshot
      BY <2>1, <3>2, <3>3, <3>4 DEF SnapshotCurrent
    <3>5. CASE update' = update
      BY <2>1, <3>5 DEF PlanInv, SnapshotCurrent
    <3>6. QED BY <3>1, <3>4, <3>5
  <2>5. QED BY <2>3, <2>4 DEF PlanInv
<1>5. QED BY <1>1, <1>2, <1>3, <1>4 DEF AudioStep

\* Requests of the editor wait; what automation plays is staged.
LEMMA RequestPlan ==
  ASSUME PlanInv, Kinds', NEW asked \in Latencies,
         AutomationStages(asked) \/ PublishImage(asked) \/ QueueDescriptor(asked)
  PROVE  PlanInv'
<1>1. ASSUME AutomationStages(asked) PROVE PlanInv'
  BY <1>1, StagePlan DEF AutomationStages, PlanInv
<1>2. ASSUME PublishImage(asked) \/ QueueDescriptor(asked) PROVE PlanInv'
  BY <1>2
  DEF PublishImage, QueueDescriptor, Unrequested, engineVars, slotVars, audioVars,
      PlanInv, Revised, SnapshotCurrent, DirtyInv, PlanCurrent
<1>3. QED BY <1>1, <1>2

\* Steps that leave the engine and the block alone, and take back or keep the
\* slot: the tick outside its window, deadlines, the transport, an operation's
\* beginning, its failing for good and its notification.
LEMMA OutsidePlan ==
  ASSUME PlanInv, Kinds',
         \/ (\E idle \in BOOLEAN : TickBegin(idle)) \/ PrepareSucceeds
         \/ PrepareFails \/ Service \/ TickNotify \/ TickDebounce
         \/ Expire \/ Play \/ Stop
         \/ Begin("idle", "rebuild") \/ Begin("idle", "configure")
         \/ Begin("closed", "reopen") \/ GiveUp \/ ReactivateFails
         \/ NotifyLatencyChange
  PROVE  PlanInv'
<1>1. UNCHANGED <<kernel, observed, plan, pipelinePlanRevision, pipelinePlanDirty,
                  servicedPlanRevision, audio>>
  BY DEF TickBegin, PrepareSucceeds, PrepareFails, Service, TickNotify,
         TickDebounce, Expire, DebounceExpires, RetryExpires, Play, Stop, Begin,
         GiveUp, ReactivateFails, Close, NotifyLatencyChange, engineVars, audioVars
<1>2. update' = NoUpdate \/ update' = update
  BY DEF TickBegin, PrepareSucceeds, PrepareFails, Service, TickNotify,
         TickDebounce, Expire, DebounceExpires, RetryExpires, Play, Stop, Begin,
         GiveUp, ReactivateFails, Close, NotifyLatencyChange, slotVars
<1>3. SnapshotCurrent'
  <2>1. CASE update' = NoUpdate
    BY <2>1, OutdatedSnapshot DEF PlanInv
  <2>2. CASE update' = update
    BY <1>1, <2>2 DEF PlanInv, SnapshotCurrent
  <2>3. QED BY <1>2, <2>1, <2>2
<1>4. QED BY <1>1, <1>3 DEF PlanInv, Revised, DirtyInv, PlanCurrent

\* In the tick's window: a plan is serviced for what the consumed images make
\* the kernels report, or its revision is not the serviced one.
LEMMA WindowPlan ==
  ASSUME PlanInv, Kinds', WindowStep
  PROVE  PlanInv'
<1> SUFFICES ASSUME NEW reported \in ReportedAfterImages,
                    RefuseImages \/ RefuseDescriptor(reported)
                      \/ ServiceDescriptor(reported) \/ ServiceImages(reported)
             PROVE  PlanInv'
  <2>1. kernel \in ReportedAfterImages
    BY DEF ReportedAfterImages, Reported
  <2>2. QED BY <2>1 DEF WindowStep
<1>1. InWindow
  BY DEF RefuseImages, RefuseDescriptor, ServiceDescriptor, ServiceImages
<1>2. /\ ~pipelinePlanDirty /\ ~pipelinePlanDirty' /\ pipelinePlanDirty' \in BOOLEAN
      /\ audio' = "out" /\ observed = kernel
  BY <1>1 DEF InWindow, audioVars, PlanInv, DirtyInv
<1>3. SnapshotCurrent'
  BY <1>1, OutdatedSnapshot DEF InWindow, PlanInv
<1> DEFINE revision == RevisionAfter(reported)
<1>4. /\ revision \in Nat /\ servicedPlanRevision \in Nat
      /\ servicedPlanRevision <= revision
      /\ revision = servicedPlanRevision =>
           reported = kernel /\ pipelinePlanRevision = servicedPlanRevision
  <2>1. pipelinePlanRevision \in Nat
    BY DEF PlanInv, Kinds
  <2>2. CASE reported = kernel
    BY <2>1, <2>2 DEF RevisionAfter, PlanInv, Revised
  <2>3. CASE reported # kernel
    BY <2>1, <2>3 DEF RevisionAfter, PlanInv, Revised
  <2>4. QED BY <2>2, <2>3
<1> HIDE DEF revision
<1>5. ASSUME ConsumeImages(reported) PROVE kernel' = reported /\ observed' = reported
  BY <1>2, <1>5 DEF ConsumeImages
<1>6. SUFFICES /\ servicedPlanRevision' \in Nat
               /\ servicedPlanRevision' <= pipelinePlanRevision'
               /\ observed' = kernel'
               /\ pipelinePlanRevision' = servicedPlanRevision' => plan' = kernel'
  BY <1>2, <1>3, <1>6 DEF PlanInv, Revised, DirtyInv, PlanCurrent
<1>7. CASE RefuseImages
  BY <1>2, <1>7 DEF RefuseImages, engineVars, PlanInv, Revised, PlanCurrent
<1>8. CASE RefuseDescriptor(reported)
  <2>1. /\ ConsumeImages(reported) /\ pipelinePlanRevision' = revision
        /\ UNCHANGED <<plan, servicedPlanRevision>>
    BY <1>8 DEF RefuseDescriptor, revision
  <2>2. QED BY <1>2, <1>4, <1>5, <2>1 DEF PlanInv, PlanCurrent
<1>9. CASE ServiceDescriptor(reported)
  <2>1. /\ kernel' = descriptor /\ observed' = descriptor /\ plan' = descriptor
        /\ pipelinePlanRevision' = revision + 1
        /\ servicedPlanRevision' = revision + 1
    BY <1>9 DEF ServiceDescriptor, revision
  <2>2. QED BY <1>4, <2>1
<1>10. CASE ServiceImages(reported)
  <2>1. ConsumeImages(reported) /\ pipelinePlanRevision' = revision
    BY <1>10 DEF ServiceImages, revision
  <2>2. kernel' = reported /\ observed' = reported
    BY <1>5, <2>1
  <2>3. \/ UNCHANGED <<plan, servicedPlanRevision>>
        \/ plan' = reported /\ servicedPlanRevision' = revision
    BY <1>10 DEF ServiceImages, RefreshPlan, revision
  <2>4. CASE UNCHANGED <<plan, servicedPlanRevision>>
    BY <1>2, <1>4, <2>1, <2>2, <2>4 DEF PlanInv, PlanCurrent
  <2>5. CASE plan' = reported /\ servicedPlanRevision' = revision
    BY <1>4, <2>1, <2>2, <2>5
  <2>6. QED BY <2>3, <2>4, <2>5
<1>11. QED BY <1>7, <1>8, <1>9, <1>10

\* An engine compiled anew has a plan for what it holds, and no snapshot of the
\* engine before it survives.
LEMMA CompilePlan ==
  ASSUME PlanInv, Kinds', NEW needed \in Latencies, Compile(needed), audio = "out",
         update' = NoUpdate \/ update' = Stale(update)
  PROVE  PlanInv'
<1>1. SnapshotCurrent'
  BY OutdatedSnapshot DEF PlanInv
<1>2. /\ kernel' = needed /\ observed' = needed /\ plan' = needed
      /\ servicedPlanRevision' = pipelinePlanRevision
      /\ UNCHANGED <<pipelinePlanRevision, audio, pipelinePlanDirty>>
  BY DEF Compile, audioVars
<1>3. pipelinePlanRevision \in Nat
  BY DEF PlanInv, Kinds
<1>4. QED BY <1>1, <1>2, <1>3 DEF PlanInv, Revised, DirtyInv, PlanCurrent

\* So no replacement and no configuration leaves a plan of the engine before.
LEMMA ReplacePlan ==
  ASSUME PlanInv, Kinds',
         ReplaceStep \/ \E r \in Latencies, needed \in Wanted : Reactivate(r, needed)
  PROVE  PlanInv'
<1>1. \A needed \in Wanted : needed \in Latencies
  BY DEF Wanted, PlanInv, Kinds
<1>2. ASSUME NEW needed \in Latencies,
             RebuildSucceeds(needed) \/ RebuildRefused(needed)
      PROVE  PlanInv'
  BY <1>2, CompilePlan DEF RebuildSucceeds, RebuildRefused
<1>3. ASSUME NEW needed \in Wanted, NEW r \in Latencies,
             ConfigureFor(r, needed)
      PROVE  PlanInv'
  BY <1>1, <1>3, CompilePlan DEF ConfigureFor
<1>4. CASE GiveUp \/ NotifyLatencyChange
  BY <1>4, OutsidePlan
<1>5. resamplerLatency \in Latencies
  BY DEF PlanInv, Kinds
<1>6. QED
  BY <1>1, <1>2, <1>3, <1>4, <1>5
  DEF ReplaceStep, Configure, ConfigureRefused, Reactivate

\* A plan whose revision counts as serviced compensates what the kernels report
\* whenever no block is between staging and finish(): a change that arrives while
\* the service prepares a snapshot, applies one or owns the window is never
\* marked serviced with it (plugin_processor.cpp:3643-3660, 4001-4109).
THEOREM ServicedPlans == Spec => []ServicedPlanIsCurrent
<1> DEFINE Held == AlignedInv /\ DescriptorHeld /\ PlanInv
<1>1. Init => Held
  <2>1. Init => DescriptorHeld
    BY DEF Init, DescriptorHeld
  <2>2. QED BY <2>1, InitAligned, InitPlan
<1>2. Held /\ [Next]_vars => Held'
  <2> SUFFICES ASSUME Held, [Next]_vars PROVE Held'
    OBVIOUS
  <2>1. CASE UNCHANGED vars
    BY <2>1 DEF vars, AlignedInv, Kinds, Aligned, SnapshotMatches, DescriptorHeld,
                TotalLatency, PlanInv, Revised, SnapshotCurrent, DirtyInv, PlanCurrent
  <2>2. CASE Next
    <3>1. AlignedInv' /\ DescriptorHeld'
      BY <2>2, HandoffStep
    <3>2. PlanInv'
      BY <2>2, <3>1, AudioPlan, RequestPlan, OutsidePlan, WindowPlan, ReplacePlan
      DEF Next, TickStep, Environment, AlignedInv
    <3>3. QED BY <3>1, <3>2
  <2>3. QED BY <2>1, <2>2
<1>3. Held => ServicedPlanIsCurrent
  BY DEF PlanInv, DirtyInv, PlanCurrent, ServicedPlanIsCurrent
<1>4. QED BY <1>1, <1>2, <1>3, PTL DEF Spec

-----------------------------------------------------------------------------
(* Asset updates.                                                          *)

\* The objects of an exchange.
InstanceRecord == [there : BOOLEAN, bypassed : BOOLEAN, wide : BOOLEAN, failed : BOOLEAN]
AssetRecord == [known : BOOLEAN, bank : Numbers, size : Nat, rev : Nat,
                state : {"none", "active", "error"}]
TransferRecord == [n : Numbers, bytes : Nat, pages : Nat, size : Nat, epoch : Nat,
                   page : Nat, rev : Nat]
UpdateRecord == [bank : TransferRecord, size : Nat, wide : BOOLEAN, rev : Nat,
                 epoch : Nat, limit : Int, ok : BOOLEAN, applied : BOOLEAN]
CallRecord ==
    [pc : {"idle", "entered", "lock", "await", "window", "activate", "finish"},
     kind : {"none", "bytes", "pages", "commit", "cancel", "clear"},
     epoch : Nat, page : Nat, take : TransferRecord]
RequestRecord == [i : Instances, paged : BOOLEAN, page : Nat,
                  next : {"bytes", "pages", "commit", "done"}, orphan : BOOLEAN, op : Nat]

AssetKinds ==
    /\ AssetTypeOK
    /\ cache \in [Instances -> AssetRecord]
    /\ transfers \in [Instances -> TransferRecord]
    /\ upd \in UpdateRecord /\ blocks \in BOOLEAN
    /\ epoch \in Nat /\ page \in Nat
    /\ calls \in [Requests -> CallRecord]
    /\ reqs \in Seq(RequestRecord) /\ Len(reqs) <= MaxRequests

\* A message is about a request that was made, and the page that made it.
MessageOf(c) ==
    /\ calls[c].pc # "idle" => c \in DOMAIN reqs
    /\ calls[c].pc = "entered" => /\ calls[c].kind \in {"bytes", "pages", "commit", "cancel"}
                                  /\ calls[c].page = reqs[c].page
    /\ calls[c].pc = "lock" => calls[c].kind \in {"commit", "clear"}
MessagesInv == \A c \in Requests : MessageOf(c)

\* Whose the update is: one message's, and at most one side's of the slot.
Holding == {"await", "window", "activate", "finish"}
LendInv ==
    /\ (slot = "idle" <=> owner = NoOwner)
    /\ \A c \in Requests : (calls[c].pc \in Holding <=> owner = c)
    /\ owner # NoOwner /\ calls[owner].pc \in {"activate", "finish"} => slot = "captured"
    /\ OneUserOfUpdate
    /\ upd.applied => /\ owner # NoOwner
                      /\ slot = "retired" \/ calls[owner].pc = "finish"

\* What the engine plays is in the cache, or about to be put there.
LiveOf(i) ==
    /\ live[i] # 0 => inst[i].there /\ ~inst[i].bypassed
    /\ live[i] # 0 => cache[i].bank = live[i] \/ (upd.applied /\ i = Updated)
    /\ cache[i].state = "active" => live[i] # 0
LiveInv ==
    /\ \A i \in Instances : LiveOf(i)
    /\ owner # NoOwner => Supports(Updated)
    /\ upd.applied => live[Updated] = upd.bank.n

\* What may be put in the cache fits beside what is there.
MemoryInv ==
    /\ WithinBudget
    /\ owner # NoOwner => upd.limit = Remaining(Updated)
    /\ owner # NoOwner /\ upd.bank.n # 0 => upd.size <= upd.limit
    /\ owner # NoOwner /\ upd.bank.n = 0 => upd.size = 0

\* The operation numbers of a page tell its requests apart.
Asked(p) == {m \in DOMAIN reqs : reqs[m].page = p}
NumbersInv ==
    /\ \A n \in DOMAIN reqs : reqs[n].op \in 1..Cardinality(Asked(reqs[n].page))
    /\ \A m, n \in DOMAIN reqs :
          reqs[m].page = reqs[n].page /\ reqs[m].op = reqs[n].op => m = n

\* A transfer has pieces of its own request only, on its way and taken.
OwnPieces(t, n) == t.n = n /\ t.bytes \in {0, n} /\ t.pages \in {0, n}
TransferOf(i) ==
    LET t == transfers[i]
    IN t.n # 0 => /\ t.n \in DOMAIN reqs /\ reqs[t.n].i = i /\ reqs[t.n].page = t.page
                  /\ OwnPieces(t, t.n)
Taken(t, n) ==
    \/ t.n = 0 /\ t.size = 0
    \/ t.n = n /\ t.bytes = n /\ t.pages \in {0, n}
BankInv ==
    /\ \A i \in Instances : TransferOf(i)
    /\ \A c \in Requests : calls[c].pc = "lock" =>
          /\ Taken(calls[c].take, c)
          /\ (calls[c].kind = "clear" <=> calls[c].take.n = 0)
    /\ owner # NoOwner => Taken(upd.bank, owner)

\* The revision a request was given is behind that of the cache once another
\* request has superseded it.
Ticket(n, rev) ==
    LET i == reqs[n].i
    IN reqs[n].orphan \/ /\ cache[i].known /\ rev \in 1..cache[i].rev
                         /\ n # latest[i] => rev < cache[i].rev
TicketsInv ==
    /\ \A i \in Instances : transfers[i].n # 0 => Ticket(transfers[i].n, transfers[i].rev)
    /\ \A c \in Requests : calls[c].pc = "lock" => Ticket(c, calls[c].take.rev)
    /\ owner # NoOwner => Ticket(owner, upd.rev)

AssetInv == /\ AssetKinds /\ MessagesInv /\ LendInv /\ LiveInv /\ MemoryInv
            /\ NumbersInv /\ BankInv /\ TicketsInv

\* The records a handler starts from are of their kinds.
LEMMA AssetConstants ==
  /\ MaxRequests \in Nat /\ Budget \in Nat /\ IsFiniteSet(Instances)
  /\ Players \subseteq Instances /\ Requests \subseteq Nat
  /\ NoAsset \in AssetRecord /\ NoTransfer \in TransferRecord
  /\ NoAssetUpdate \in UpdateRecord /\ Idle \in CallRecord /\ Built \in InstanceRecord
  /\ 0 \in Numbers
<1>1. /\ MaxRequests \in Nat /\ Budget \in Nat /\ IsFiniteSet(Instances)
      /\ Players \subseteq Instances /\ Requests \subseteq Nat
  BY AssetUpdateAssumption DEF Requests
<1>6. 0 \in Numbers
  BY <1>1 DEF Numbers
<1>2. NoTransfer \in TransferRecord
  BY <1>6 DEF NoTransfer, TransferRecord
<1>3. NoAsset \in AssetRecord /\ Built \in InstanceRecord
  BY <1>6 DEF NoAsset, AssetRecord, Built, InstanceRecord
<1>4. Idle \in CallRecord
  BY <1>2 DEF Idle, CallRecord
<1>5. NoAssetUpdate \in UpdateRecord
  BY <1>2 DEF NoAssetUpdate, UpdateRecord
<1> QED BY <1>1, <1>2, <1>3, <1>4, <1>5, <1>6

\* A step that asks nothing new keeps what the requests are about, and never
\* brings a request back whose instance left the cache.
SameRequests ==
    /\ DOMAIN reqs' = DOMAIN reqs
    /\ reqs' \in Seq(RequestRecord) /\ Len(reqs') = Len(reqs)
    /\ \A n \in DOMAIN reqs :
          /\ reqs'[n].i = reqs[n].i /\ reqs'[n].paged = reqs[n].paged
          /\ reqs'[n].page = reqs[n].page /\ reqs'[n].op = reqs[n].op
          /\ reqs[n].orphan => reqs'[n].orphan
Orphans == \A n \in DOMAIN reqs : reqs'[n].orphan = reqs[n].orphan

LEMMA RequestTypes ==
  ASSUME AssetKinds
  PROVE  /\ Len(reqs) \in Nat /\ DOMAIN reqs = 1..Len(reqs) /\ DOMAIN reqs \subseteq Requests
         /\ \A n \in DOMAIN reqs : reqs[n] \in RequestRecord
<1>1. reqs \in Seq(RequestRecord) /\ Len(reqs) <= MaxRequests
  BY DEF AssetKinds
<1>2. Len(reqs) \in Nat /\ DOMAIN reqs = 1..Len(reqs)
  BY <1>1, LenProperties
<1>3. \A n \in DOMAIN reqs : reqs[n] \in RequestRecord
  BY <1>1, <1>2, ElementOfSeq
<1> QED BY <1>1, <1>2, <1>3, AssetConstants DEF Requests

LEMMA UnchangedRequests ==
  ASSUME AssetKinds, UNCHANGED reqs
  PROVE  SameRequests /\ Orphans
BY DEF AssetKinds, SameRequests, Orphans

\* The answer to a message.
LEMMA ReplyFacts ==
  ASSUME AssetKinds, NEW c \in Requests, c \in DOMAIN reqs, NEW ok \in BOOLEAN, Reply(c, ok)
  PROVE  /\ SameRequests /\ Orphans
         /\ calls' \in [Requests -> CallRecord]
         /\ calls'[c].pc = "idle"
         /\ \A d \in Requests : d # c => calls'[d] = calls[d]
<1>1. calls \in [Requests -> CallRecord]
  BY DEF AssetKinds
<1>2. calls' = [calls EXCEPT ![c] = Idle]
  BY DEF Reply
<1>3. calls' \in [Requests -> CallRecord] /\ calls'[c] = Idle
      /\ \A d \in Requests : d # c => calls'[d] = calls[d]
  BY <1>1, <1>2, AssetConstants
<1>4. Idle.pc = "idle"
  BY DEF Idle
<1> DEFINE next == IF ok THEN Following(c, calls[c].kind) ELSE "done"
<1>5. next \in {"bytes", "pages", "commit", "done"}
  BY DEF Following
<1>6. reqs' = [reqs EXCEPT ![c].next = next]
  BY DEF Reply
<1> HIDE DEF next
<1>7. reqs[c] \in RequestRecord /\ DOMAIN reqs = 1..Len(reqs) /\ reqs \in Seq(RequestRecord)
  BY RequestTypes DEF AssetKinds
<1> DEFINE new == [reqs[c] EXCEPT !.next = next]
<1>8. new \in RequestRecord
  BY <1>5, <1>7 DEF RequestRecord
<1>9. /\ new.i = reqs[c].i /\ new.paged = reqs[c].paged /\ new.page = reqs[c].page
      /\ new.op = reqs[c].op /\ new.orphan = reqs[c].orphan
  BY <1>7 DEF RequestRecord
<1>10. reqs' = [reqs EXCEPT ![c] = new]
  BY <1>6
<1> HIDE DEF new
<1>11. /\ reqs' \in Seq(RequestRecord) /\ Len(reqs') = Len(reqs)
       /\ \A n \in 1..Len(reqs) : reqs'[n] = IF n = c THEN new ELSE reqs[n]
  BY <1>7, <1>8, <1>10, ExceptSeq
<1>12. DOMAIN reqs' = DOMAIN reqs
  BY <1>10
<1>13. SameRequests /\ Orphans
  BY <1>7, <1>9, <1>11, <1>12 DEF SameRequests, Orphans
<1> QED BY <1>3, <1>4, <1>13

\* Requests that lose their instance lose nothing else.
LEMMA OrphanedFacts ==
  ASSUME AssetKinds, NEW left, reqs' = Orphaned(left)
  PROVE  /\ SameRequests
         /\ \A n \in DOMAIN reqs : reqs'[n].orphan <=> reqs[n].orphan \/ reqs[n].i \in left
<1>1. /\ Len(reqs) \in Nat /\ DOMAIN reqs = 1..Len(reqs)
      /\ \A n \in DOMAIN reqs : reqs[n] \in RequestRecord
  BY RequestTypes
<1>2. DOMAIN reqs' = DOMAIN reqs
  BY DEF Orphaned
<1>3. \A n \in DOMAIN reqs :
         /\ reqs'[n] \in RequestRecord
         /\ reqs'[n].i = reqs[n].i /\ reqs'[n].paged = reqs[n].paged
         /\ reqs'[n].page = reqs[n].page /\ reqs'[n].op = reqs[n].op
         /\ reqs'[n].orphan <=> reqs[n].orphan \/ reqs[n].i \in left
  <2> TAKE n \in DOMAIN reqs
  <2>1. reqs[n] \in RequestRecord
    BY <1>1
  <2>2. CASE reqs[n].i \in left
    <3>1. reqs'[n] = [reqs[n] EXCEPT !.orphan = TRUE]
      BY <2>2 DEF Orphaned
    <3> QED BY <2>1, <2>2, <3>1 DEF RequestRecord
  <2>3. CASE reqs[n].i \notin left
    <3>1. reqs'[n] = reqs[n]
      BY <2>3 DEF Orphaned
    <3> QED BY <2>1, <2>3, <3>1
  <2> QED BY <2>2, <2>3
<1>4. reqs' \in [1..Len(reqs) -> RequestRecord]
  BY <1>1, <1>3 DEF Orphaned
<1>5. reqs' \in Seq(RequestRecord) /\ Len(reqs') = Len(reqs)
  BY <1>1, <1>4
<1> QED BY <1>2, <1>3, <1>5 DEF SameRequests

\* A new request is numbered within its page behind those before it.
LEMMA AsksFacts ==
  ASSUME AssetKinds, NumbersInv, NEW i \in Instances, NEW paged \in BOOLEAN,
         NEW next \in {"bytes", "done"}, Len(reqs) + 1 <= MaxRequests,
         reqs' = Asks(i, paged, next), UNCHANGED page
  PROVE  LET n == Len(reqs) + 1
         IN  /\ reqs' \in Seq(RequestRecord) /\ Len(reqs') = n /\ DOMAIN reqs' = 1..n
             /\ n \in Requests /\ n \notin DOMAIN reqs
             /\ \A m \in DOMAIN reqs : reqs'[m] = reqs[m]
             /\ reqs'[n].i = i /\ reqs'[n].paged = paged /\ reqs'[n].page = page
             /\ reqs'[n].orphan = ~cache[i].known
             /\ reqs'[n].op = 1 + Cardinality(Asked(page))
<1> DEFINE n == Len(reqs) + 1
           new == [i |-> i, paged |-> paged, page |-> page, next |-> next,
                   orphan |-> ~cache[i].known, op |-> 1 + Cardinality(Asked(page))]
<1>1. /\ Len(reqs) \in Nat /\ DOMAIN reqs = 1..Len(reqs) /\ reqs \in Seq(RequestRecord)
  BY RequestTypes DEF AssetKinds
<1>2. IsFiniteSet(1..Len(reqs))
  BY <1>1, FS_Interval
<1>3. Cardinality(Asked(page)) \in Nat
  <2>1. Asked(page) \in SUBSET (1..Len(reqs))
    BY <1>1 DEF Asked
  <2> QED BY <1>2, <2>1, FS_Subset, FS_CardinalityType
<1>4. cache[i].known \in BOOLEAN
  BY DEF AssetKinds, AssetRecord
<1>5. new \in RequestRecord
  BY <1>3, <1>4 DEF RequestRecord, AssetKinds
<1>6. reqs' = Append(reqs, new)
  BY DEF Asks, Asked
<1>7. /\ new.i = i /\ new.paged = paged /\ new.page = page
      /\ new.orphan = ~cache[i].known /\ new.op = 1 + Cardinality(Asked(page))
  OBVIOUS
<1> HIDE DEF new
<1>8. /\ reqs' \in Seq(RequestRecord) /\ Len(reqs') = n /\ reqs'[n] = new
      /\ \A m \in 1..Len(reqs) : reqs'[m] = reqs[m]
  BY <1>1, <1>5, <1>6, AppendProperties
<1>9. DOMAIN reqs' = 1..n
  BY <1>8, LenProperties
<1>10. n \in Requests /\ n \notin DOMAIN reqs
  BY <1>1, AssetConstants DEF Requests
<1> QED BY <1>1, <1>7, <1>8, <1>9, <1>10

\* A message that moves on is still the same message.
LEMMA MoveFacts ==
  ASSUME AssetKinds, NEW c \in Requests,
         NEW pc \in {"idle", "entered", "lock", "await", "window", "activate", "finish"},
         calls' = [calls EXCEPT ![c].pc = pc]
  PROVE  /\ calls' \in [Requests -> CallRecord]
         /\ calls'[c].pc = pc /\ calls'[c].kind = calls[c].kind
         /\ calls'[c].page = calls[c].page /\ calls'[c].take = calls[c].take
         /\ \A d \in Requests : d # c => calls'[d] = calls[d]
<1>1. calls \in [Requests -> CallRecord] /\ calls[c] \in CallRecord
  BY DEF AssetKinds
<1> DEFINE new == [calls[c] EXCEPT !.pc = pc]
<1>2. new \in CallRecord /\ new.pc = pc /\ new.kind = calls[c].kind
      /\ new.page = calls[c].page /\ new.take = calls[c].take
  BY <1>1 DEF CallRecord
<1>3. calls' = [calls EXCEPT ![c] = new]
  OBVIOUS
<1> HIDE DEF new
<1> QED BY <1>1, <1>2, <1>3

\* What supersedeAssetRequest() does to the entry of its instance.
LEMMA SupersededFacts ==
  ASSUME AssetKinds, NEW i \in Instances, cache' = Superseded(i)
  PROVE  /\ cache' \in [Instances -> AssetRecord]
         /\ \A j \in Instances : j # i => cache'[j] = cache[j]
         /\ cache'[i].known = cache[i].known /\ cache'[i].bank = cache[i].bank
         /\ cache'[i].size = cache[i].size /\ cache'[i].state = cache[i].state
         /\ cache[i].known => cache'[i].rev = cache[i].rev + 1
<1>1. cache \in [Instances -> AssetRecord] /\ cache[i] \in AssetRecord
  BY DEF AssetKinds
<1> DEFINE rev == IF cache[i].known THEN cache[i].rev + 1 ELSE cache[i].rev
           new == [cache[i] EXCEPT !.rev = rev]
<1>2. rev \in Nat /\ (cache[i].known => rev = cache[i].rev + 1)
  BY <1>1 DEF AssetRecord
<1>3. cache' = [cache EXCEPT ![i] = new]
  BY DEF Superseded
<1> HIDE DEF rev
<1>4. /\ new \in AssetRecord /\ new.known = cache[i].known /\ new.bank = cache[i].bank
      /\ new.size = cache[i].size /\ new.state = cache[i].state /\ new.rev = rev
  BY <1>1, <1>2 DEF AssetRecord
<1> HIDE DEF new
<1> QED BY <1>1, <1>2, <1>3, <1>4

\* Publishing the states changes nothing else of the cache, and calls a bank
\* active only where the engine has one.
LEMMA RefreshedFacts ==
  ASSUME NEW ch \in [Instances -> AssetRecord], NEW in, NEW lv \in [Instances -> Nat]
  PROVE  /\ Refreshed(ch, in, lv) \in [Instances -> AssetRecord]
         /\ \A j \in Instances :
               /\ Refreshed(ch, in, lv)[j].known = ch[j].known
               /\ Refreshed(ch, in, lv)[j].bank = ch[j].bank
               /\ Refreshed(ch, in, lv)[j].size = ch[j].size
               /\ Refreshed(ch, in, lv)[j].rev = ch[j].rev
               /\ Refreshed(ch, in, lv)[j].state = "active" => lv[j] # 0
<1> DEFINE r == Refreshed(ch, in, lv)
<1>1. \A j \in Instances :
         /\ r[j] \in AssetRecord
         /\ r[j].known = ch[j].known /\ r[j].bank = ch[j].bank
         /\ r[j].size = ch[j].size /\ r[j].rev = ch[j].rev
         /\ r[j].state = "active" => lv[j] # 0
  <2> TAKE j \in Instances
  <2> DEFINE state == IF ch[j].known THEN State(in, lv, j) ELSE "none"
  <2>1. state \in {"none", "active", "error"} /\ (state = "active" => lv[j] # 0)
    BY DEF State
  <2>2. r[j] = [ch[j] EXCEPT !.state = state]
    BY DEF Refreshed
  <2> HIDE DEF state
  <2>3. ch[j] \in AssetRecord
    OBVIOUS
  <2> QED BY <2>1, <2>2, <2>3 DEF AssetRecord
<1>2. r \in [Instances -> AssetRecord]
  BY <1>1 DEF Refreshed
<1> QED BY <1>1, <1>2

\* What an exchange leaves alone while it runs.
SameUpdate ==
    /\ upd'.bank = upd.bank /\ upd'.rev = upd.rev /\ upd'.limit = upd.limit
    /\ upd'.size = upd.size
SameEntries ==
    \A j \in Instances : /\ cache'[j].known = cache[j].known /\ cache'[j].rev = cache[j].rev
                         /\ cache'[j].bank = cache[j].bank /\ cache'[j].size = cache[j].size
SamePlaces ==
    \A j \in Instances : /\ inst'[j].there = inst[j].there
                         /\ inst'[j].bypassed = inst[j].bypassed

\* The engine applied the update, or it still plays what it did, or nothing.
Outcome ==
    /\ inst' \in [Instances -> InstanceRecord] /\ live' \in [Instances -> Numbers]
    /\ cache' \in [Instances -> AssetRecord] /\ upd' \in UpdateRecord
    /\ SameUpdate /\ SameEntries /\ SamePlaces
    /\ \A j \in Instances : j # Updated => /\ live'[j] = live[j]
                                           /\ cache'[j].state = cache[j].state
    /\ upd'.applied =>
          /\ cache[Updated].known /\ cache[Updated].rev = upd.rev
          /\ live'[Updated] = upd.bank.n
    /\ ~upd'.applied => live'[Updated] \in {live[Updated], 0}
    /\ cache'[Updated].state = "active" =>
          live'[Updated] # 0 \/ (live'[Updated] = live[Updated] /\ cache[Updated].state = "active")

LEMMA UpdateFacts ==
  ASSUME AssetKinds, NEW ok \in BOOLEAN, NEW applied \in BOOLEAN,
         upd' = [upd EXCEPT !.ok = ok, !.applied = applied]
  PROVE  upd' \in UpdateRecord /\ SameUpdate /\ upd'.applied = applied
<1>1. upd \in UpdateRecord
  BY DEF AssetKinds
<1> QED BY <1>1 DEF UpdateRecord, SameUpdate

LEMMA RefusedFacts ==
  ASSUME AssetKinds, NEW ok \in BOOLEAN, upd' = [upd EXCEPT !.ok = ok]
  PROVE  upd' \in UpdateRecord /\ SameUpdate /\ upd'.applied = upd.applied
<1>1. upd \in UpdateRecord
  BY DEF AssetKinds
<1> QED BY <1>1 DEF UpdateRecord, SameUpdate

\* The instance of an update that is under way.
LEMMA UpdatedFacts ==
  ASSUME AssetKinds, MessagesInv, LendInv, BankInv, owner # NoOwner
  PROVE  /\ owner \in Requests /\ owner \in DOMAIN reqs /\ Updated \in Instances
         /\ upd.bank.n \in Numbers /\ calls[owner].pc \in Holding
<1>1. owner \in Requests
  BY AssetConstants DEF AssetKinds, AssetTypeOK, NoOwner, Requests
<1>2. calls[owner].pc \in Holding
  BY <1>1 DEF LendInv
<1>3. owner \in DOMAIN reqs
  BY <1>1, <1>2 DEF MessagesInv, MessageOf, Holding
<1>4. Updated \in Instances
  BY <1>3, RequestTypes DEF Updated, RequestRecord
<1>5. upd.bank.n \in {0, owner}
  BY DEF BankInv, Taken
<1>6. upd.bank.n \in Numbers
  BY <1>1, <1>5, AssetConstants DEF Requests, Numbers
<1> QED BY <1>1, <1>2, <1>3, <1>4, <1>6

\* Nothing is applied: a refusal, a capture, a preparation that fails.
LEMMA NothingApplied ==
  ASSUME AssetKinds, UNCHANGED <<live, inst, cache>>, upd' \in UpdateRecord, SameUpdate,
         ~upd'.applied, Updated \in Instances
  PROVE  Outcome
BY DEF AssetKinds, AssetTypeOK, Outcome, SameEntries, SamePlaces, InstanceRecord, Numbers

\* applyAssetUpdate(), and what its caller makes of it.
LEMMA AppliedFacts ==
  ASSUME AssetKinds, MessagesInv, LendInv, BankInv, owner # NoOwner, ~upd.applied, Applied
  PROVE  Outcome
<1> DEFINE i == Updated
<1>1. i \in Instances /\ upd.bank.n \in Numbers
  BY UpdatedFacts
<1>2. /\ inst \in [Instances -> InstanceRecord] /\ live \in [Instances -> Numbers]
      /\ cache \in [Instances -> AssetRecord]
  BY DEF AssetKinds, AssetTypeOK, InstanceRecord
<1> HIDE DEF i
<1>3. CASE upd' = [upd EXCEPT !.ok = FALSE] /\ UNCHANGED <<bankVars, cache>>
  BY <1>1, <1>3, RefusedFacts, NothingApplied DEF bankVars, i
<1>4. ASSUME NEW failed \in BOOLEAN, NEW state \in {"none", "active", "error"},
             NEW bank \in Numbers, NEW ok \in BOOLEAN,
             inst' = [inst EXCEPT ![i].failed = failed], live' = [live EXCEPT ![i] = bank],
             cache' = [cache EXCEPT ![i].state = state],
             upd' = [upd EXCEPT !.ok = ok, !.applied = ok],
             ok => bank = upd.bank.n /\ cache[i].known /\ cache[i].rev = upd.rev,
             ~ok => bank = 0, state = "active" => bank # 0
      PROVE  Outcome
  <2> DEFINE entry == [cache[i] EXCEPT !.state = state]
             place == [inst[i] EXCEPT !.failed = failed]
  <2>1. /\ entry \in AssetRecord /\ entry.known = cache[i].known /\ entry.rev = cache[i].rev
        /\ entry.bank = cache[i].bank /\ entry.size = cache[i].size /\ entry.state = state
    BY <1>1, <1>2 DEF AssetRecord
  <2>2. /\ place \in InstanceRecord /\ place.there = inst[i].there
        /\ place.bypassed = inst[i].bypassed
    BY <1>1, <1>2 DEF InstanceRecord
  <2>3. cache' = [cache EXCEPT ![i] = entry] /\ inst' = [inst EXCEPT ![i] = place]
    BY <1>4
  <2> HIDE DEF entry, place
  <2>4. upd' \in UpdateRecord /\ SameUpdate /\ upd'.applied = ok
    BY <1>4, UpdateFacts
  <2>5. cache' \in [Instances -> AssetRecord] /\ SameEntries
        /\ cache'[i].state = state /\ \A j \in Instances \ {i} : cache'[j] = cache[j]
    BY <1>1, <1>2, <2>1, <2>3 DEF SameEntries
  <2>6. inst' \in [Instances -> InstanceRecord] /\ SamePlaces
    BY <1>1, <1>2, <2>2, <2>3 DEF SamePlaces
  <2>7. live' \in [Instances -> Numbers] /\ live'[i] = bank
        /\ \A j \in Instances \ {i} : live'[j] = live[j]
    BY <1>1, <1>2, <1>4
  <2> QED BY <1>4, <2>4, <2>5, <2>6, <2>7 DEF Outcome, i
<1>5. 0 \in Numbers
  BY AssetConstants DEF Numbers
<1>6. CASE /\ Current /\ live' = [live EXCEPT ![i] = upd.bank.n]
           /\ inst' = [inst EXCEPT ![i].failed = FALSE]
           /\ cache' = [cache EXCEPT ![i].state = IF upd.bank.n = 0 THEN "none" ELSE "active"]
           /\ upd' = [upd EXCEPT !.ok = TRUE, !.applied = TRUE]
  <2> DEFINE state == IF upd.bank.n = 0 THEN "none" ELSE "active"
  <2>1. state \in {"none", "active", "error"} /\ (state = "active" => upd.bank.n # 0)
    OBVIOUS
  <2>2. cache' = [cache EXCEPT ![i].state = state]
    BY <1>6
  <2>3. cache[i].known /\ cache[i].rev = upd.rev
    BY <1>6 DEF Current, i
  <2> HIDE DEF state
  <2> QED BY <1>1, <1>4, <1>6, <2>1, <2>2, <2>3
<1>7. CASE /\ Current /\ live' = [live EXCEPT ![i] = 0]
           /\ inst' = [inst EXCEPT ![i].failed = TRUE]
           /\ cache' = [cache EXCEPT ![i].state = "error"]
           /\ upd' = [upd EXCEPT !.ok = FALSE]
  <2>1. upd' = [upd EXCEPT !.ok = FALSE, !.applied = FALSE]
    BY <1>7 DEF AssetKinds, UpdateRecord
  <2> QED BY <1>4, <1>5, <1>7, <2>1
<1> QED BY <1>3, <1>6, <1>7 DEF Applied, i

\* serviceAssetUpdateBoundary(), whoever runs it.
LEMMA ServeFacts ==
  ASSUME AssetKinds, MessagesInv, LendInv, BankInv, Lent, NEW refuse \in BOOLEAN, Serve(refuse)
  PROVE  /\ Outcome /\ slot' \in {"captured", "retired"} /\ owner # NoOwner
         /\ ~upd.applied /\ (upd'.applied => slot' = "retired")
<1>1. owner # NoOwner
  BY DEF LendInv, Lent
<1>2. ~upd.applied
  <2>1. calls[owner].pc # "finish"
    BY <1>1 DEF LendInv, Lent
  <2> QED BY <2>1 DEF LendInv, Lent
<1>3. Updated \in Instances
  BY <1>1, UpdatedFacts
<1>4. CASE refuse
  <2>1. upd' = [upd EXCEPT !.ok = FALSE] /\ UNCHANGED <<live, inst, cache>>
    BY <1>4 DEF Serve, bankVars
  <2>2. slot' = "retired"
    BY <1>4 DEF Serve
  <2>3. upd' \in UpdateRecord /\ SameUpdate /\ upd'.applied = upd.applied
    BY <2>1, RefusedFacts
  <2>4. Outcome
    BY <1>2, <1>3, <2>1, <2>3, NothingApplied
  <2> QED BY <1>1, <1>2, <2>2, <2>3, <2>4
<1>5. CASE ~refuse /\ slot = "requested"
  <2>1. \E ok \in BOOLEAN : upd' = [upd EXCEPT !.ok = ok]
    BY <1>5 DEF Serve
  <2>2. UNCHANGED <<live, inst, cache>> /\ slot' \in {"captured", "retired"}
    BY <1>5 DEF Serve, bankVars
  <2>3. upd' \in UpdateRecord /\ SameUpdate /\ upd'.applied = upd.applied
    BY <2>1, RefusedFacts
  <2>4. Outcome
    BY <1>2, <1>3, <2>2, <2>3, NothingApplied
  <2> QED BY <1>1, <1>2, <2>2, <2>3, <2>4
<1>6. CASE ~refuse /\ slot # "requested"
  BY <1>1, <1>2, <1>6, AppliedFacts DEF Serve
<1> QED BY <1>1, <1>2, <1>4, <1>5, <1>6

\* Every object stays of its kind.
LEMMA CallKinds ==
  ASSUME AssetKinds, NEW pc \in {"entered", "lock"},
         NEW kind \in {"bytes", "pages", "commit", "cancel", "clear"}
  PROVE  /\ Call(pc, kind) \in CallRecord /\ Call(pc, kind).pc = pc
         /\ Call(pc, kind).kind = kind /\ Call(pc, kind).page = page
         /\ Call(pc, kind).take = NoTransfer
<1>1. epoch \in Nat /\ page \in Nat /\ NoTransfer \in TransferRecord
  BY AssetConstants DEF AssetKinds
<1> QED BY <1>1 DEF Call, Idle, CallRecord

\* What a handler does to the transfer of its instance.
LEMMA TransferChange ==
  ASSUME AssetKinds, NEW i \in Instances, NEW t \in TransferRecord,
         transfers' = [transfers EXCEPT ![i] = t]
  PROVE  /\ transfers' \in [Instances -> TransferRecord] /\ transfers'[i] = t
         /\ \A j \in Instances : j # i => transfers'[j] = transfers[j]
BY DEF AssetKinds

\* The steps of a message that has not come to the engine yet.
LEMMA BeginFacts ==
  ASSUME AssetInv, NEW i \in Instances, NEW paged \in BOOLEAN, BeginTransfer(i, paged)
  PROVE  LET n == Len(reqs) + 1
         IN  /\ cache' = Superseded(i) /\ reqs' = Asks(i, paged, "bytes")
             /\ n <= MaxRequests /\ n \in Numbers /\ n # 0 /\ UNCHANGED page
             /\ latest' = [latest EXCEPT ![i] = n]
             /\ transfers' \in [Instances -> TransferRecord]
             /\ \A j \in Instances : j # i => transfers'[j] = transfers[j]
             /\ transfers'[i].n = n /\ transfers'[i].bytes = 0 /\ transfers'[i].pages = 0
             /\ transfers'[i].page = page /\ transfers'[i].rev = cache'[i].rev
             /\ UNCHANGED <<bankVars, lentVars, cb, blocks, worldVars, calls>>
<1> DEFINE n == Len(reqs) + 1
           t == [NoTransfer EXCEPT !.n = n, !.size = 1, !.epoch = epoch, !.page = page,
                                   !.rev = cache'[i].rev]
<1>1. /\ cache' = Superseded(i) /\ reqs' = Asks(i, paged, "bytes") /\ n <= MaxRequests
      /\ latest' = [latest EXCEPT ![i] = n] /\ transfers' = [transfers EXCEPT ![i] = t]
      /\ UNCHANGED <<bankVars, lentVars, cb, blocks, worldVars, calls>>
  BY DEF BeginTransfer
<1>2. AssetKinds /\ Len(reqs) \in Nat
  BY RequestTypes DEF AssetInv
<1>3. n \in Nat /\ n # 0 /\ n \in Numbers
  BY <1>1, <1>2, AssetConstants DEF Numbers
<1>4. cache'[i].rev \in Nat
  BY <1>1, <1>2, SupersededFacts DEF AssetRecord
<1>5. epoch \in Nat /\ page \in Nat
  BY <1>2 DEF AssetKinds
<1> HIDE DEF n
<1>6. /\ t \in TransferRecord /\ t.n = n /\ t.bytes = 0 /\ t.pages = 0 /\ t.page = page
      /\ t.rev = cache'[i].rev
  BY <1>3, <1>4, <1>5 DEF NoTransfer, TransferRecord
<1> HIDE DEF t
<1>7. /\ transfers' \in [Instances -> TransferRecord] /\ transfers'[i] = t
      /\ \A j \in Instances : j # i => transfers'[j] = transfers[j]
  BY <1>1, <1>2, <1>6, TransferChange
<1>8. UNCHANGED page
  BY <1>1 DEF worldVars
<1> QED BY <1>1, <1>3, <1>6, <1>7, <1>8 DEF n

LEMMA ClearFacts ==
  ASSUME AssetInv, NEW i \in Instances, Clear(i)
  PROVE  LET n == Len(reqs) + 1
         IN  /\ cache' = Superseded(i) /\ reqs' = Asks(i, FALSE, "done")
             /\ n <= MaxRequests /\ n \in Numbers /\ n # 0 /\ n \in Requests /\ UNCHANGED page
             /\ latest' = [latest EXCEPT ![i] = n]
             /\ transfers' = [transfers EXCEPT ![i] = NoTransfer]
             /\ calls' \in [Requests -> CallRecord]
             /\ \A d \in Requests : d # n => calls'[d] = calls[d]
             /\ calls'[n].pc = "lock" /\ calls'[n].kind = "clear" /\ calls'[n].take.n = 0
             /\ calls'[n].take.size = 0 /\ calls'[n].take.rev = cache'[i].rev
             /\ UNCHANGED <<bankVars, lentVars, cb, blocks, worldVars>>
<1> DEFINE n == Len(reqs) + 1
           msg == [Call("lock", "clear") EXCEPT !.take.rev = cache'[i].rev]
<1>1. /\ cache' = Superseded(i) /\ reqs' = Asks(i, FALSE, "done") /\ n <= MaxRequests
      /\ latest' = [latest EXCEPT ![i] = n]
      /\ transfers' = [transfers EXCEPT ![i] = NoTransfer]
      /\ calls' = [calls EXCEPT ![n] = msg]
      /\ UNCHANGED <<bankVars, lentVars, cb, blocks, worldVars>>
  BY DEF Clear
<1>2. AssetKinds /\ Len(reqs) \in Nat
  BY RequestTypes DEF AssetInv
<1>3. n \in Requests /\ n # 0 /\ n \in Numbers
  BY <1>1, <1>2, AssetConstants DEF Numbers, Requests
<1>4. cache'[i].rev \in Nat
  BY <1>1, <1>2, SupersededFacts DEF AssetRecord
<1> DEFINE take == [NoTransfer EXCEPT !.rev = cache'[i].rev]
<1>5. take \in TransferRecord /\ take.n = 0 /\ take.size = 0 /\ take.rev = cache'[i].rev
  BY <1>4, AssetConstants DEF NoTransfer, TransferRecord
<1>6. /\ Call("lock", "clear") \in CallRecord /\ Call("lock", "clear").pc = "lock"
      /\ Call("lock", "clear").kind = "clear" /\ Call("lock", "clear").take = NoTransfer
  BY <1>2, CallKinds
<1>7. msg = [Call("lock", "clear") EXCEPT !.take = take]
  BY <1>6
<1> HIDE DEF take, n, msg
<1>8. msg \in CallRecord /\ msg.pc = "lock" /\ msg.kind = "clear" /\ msg.take = take
  BY <1>5, <1>6, <1>7 DEF CallRecord
<1>9. /\ calls' \in [Requests -> CallRecord] /\ calls'[n] = msg
      /\ \A d \in Requests : d # n => calls'[d] = calls[d]
  BY <1>1, <1>2, <1>3, <1>8 DEF AssetKinds
<1>10. UNCHANGED page
  BY <1>1 DEF worldVars
<1> QED BY <1>1, <1>3, <1>5, <1>8, <1>9, <1>10 DEF n

LEMMA ContinueFacts ==
  ASSUME AssetInv, NEW c \in Requests, Continue(c)
  PROVE  /\ c \in DOMAIN reqs /\ calls[c].pc = "idle"
         /\ calls' \in [Requests -> CallRecord]
         /\ \A d \in Requests : d # c => calls'[d] = calls[d]
         /\ calls'[c].pc = "entered" /\ calls'[c].page = reqs[c].page
         /\ calls'[c].kind \in {"bytes", "pages", "commit", "cancel"}
         /\ UNCHANGED <<bankVars, cache, transfers, lentVars, cb, blocks, worldVars, reqs, latest>>
<1>1. /\ c \in DOMAIN reqs /\ calls[c].pc = "idle" /\ reqs[c].page = page
      /\ reqs[c].next # "done"
      /\ UNCHANGED <<bankVars, cache, transfers, lentVars, cb, blocks, worldVars, reqs, latest>>
  BY DEF Continue
<1>2. AssetKinds /\ reqs[c] \in RequestRecord
  BY <1>1, RequestTypes DEF AssetInv
<1>3. reqs[c].next \in {"bytes", "pages", "commit"}
  BY <1>1, <1>2 DEF RequestRecord
<1>4. PICK kind \in {"bytes", "pages", "commit", "cancel"} :
         calls' = [calls EXCEPT ![c] = Call("entered", kind)]
  BY <1>3 DEF Continue
<1>5. /\ Call("entered", kind) \in CallRecord /\ Call("entered", kind).pc = "entered"
      /\ Call("entered", kind).kind = kind /\ Call("entered", kind).page = page
  BY <1>2, CallKinds
<1>6. /\ calls' \in [Requests -> CallRecord] /\ calls'[c] = Call("entered", kind)
      /\ \A d \in Requests : d # c => calls'[d] = calls[d]
  BY <1>2, <1>4, <1>5 DEF AssetKinds
<1> QED BY <1>1, <1>5, <1>6

\* Operation numbers, epoch and page identify the request of a transfer.
LEMMA MatchedIsOwn ==
  ASSUME AssetInv, NEW c \in Requests, calls[c].pc = "entered", Matches(c)
  PROVE  c \in DOMAIN reqs /\ reqs[c].i \in Instances /\ transfers[reqs[c].i].n = c
<1>1. c \in DOMAIN reqs /\ calls[c].page = reqs[c].page
  BY DEF AssetInv, MessagesInv, MessageOf
<1>2. reqs[c].i \in Instances
  BY <1>1, RequestTypes DEF AssetInv, RequestRecord
<1> DEFINE t == transfers[reqs[c].i]
<1>3. t.n # 0 /\ reqs[t.n].op = reqs[c].op /\ t.page = calls[c].page
  BY DEF Matches
<1>4. t.n \in DOMAIN reqs /\ reqs[t.n].page = t.page
  BY <1>2, <1>3 DEF AssetInv, BankInv, TransferOf
<1>5. t.n = c
  BY <1>1, <1>3, <1>4 DEF AssetInv, NumbersInv
<1> QED BY <1>1, <1>2, <1>5

Quiet(c) ==
    /\ calls' \in [Requests -> CallRecord] /\ calls'[c].pc = "idle"
    /\ \A d \in Requests : d # c => calls'[d] = calls[d]
    /\ SameRequests

LEMMA PieceFacts ==
  ASSUME AssetInv, NEW c \in Requests, AppendPiece(c)
  PROVE  LET i == reqs[c].i
         IN  /\ c \in DOMAIN reqs /\ i \in Instances /\ Quiet(c) /\ Orphans
             /\ calls[c].pc = "entered"
             /\ transfers' \in [Instances -> TransferRecord]
             /\ \/ UNCHANGED transfers
                \/ /\ transfers[i].n = c
                   /\ \A j \in Instances : j # i => transfers'[j] = transfers[j]
                   /\ transfers'[i].n = c /\ transfers'[i].page = transfers[i].page
                   /\ transfers'[i].rev = transfers[i].rev
                   /\ transfers'[i].bytes \in {transfers[i].bytes, c}
                   /\ transfers'[i].pages \in {transfers[i].pages, c}
             /\ UNCHANGED <<bankVars, cache, lentVars, cb, blocks, worldVars, latest>>
<1> DEFINE i == reqs[c].i
<1>1. calls[c].pc = "entered"
  BY DEF AppendPiece, Entered
<1>2. AssetKinds /\ c \in DOMAIN reqs
  BY <1>1 DEF AssetInv, MessagesInv, MessageOf
<1>3. i \in Instances
  BY <1>2, RequestTypes DEF RequestRecord
<1>4. \E ok \in BOOLEAN : Reply(c, ok)
  BY DEF AppendPiece
<1>5. Quiet(c) /\ Orphans
  BY <1>2, <1>4, ReplyFacts DEF Quiet
<1>6. UNCHANGED <<bankVars, cache, lentVars, cb, blocks, worldVars, latest>>
  BY DEF AppendPiece
<1>7. transfers \in [Instances -> TransferRecord]
  BY <1>2 DEF AssetKinds
<1>7a. c \in Nat
  BY AssetConstants
<1>8. CASE UNCHANGED transfers
  BY <1>1, <1>2, <1>3, <1>5, <1>6, <1>7, <1>8
<1>9. CASE Matches(c) /\ transfers' = [transfers EXCEPT ![i].bytes = c]
  <2> DEFINE t == [transfers[i] EXCEPT !.bytes = c]
  <2>1. transfers' = [transfers EXCEPT ![i] = t]
    BY <1>9
  <2>0. t = [transfers[i] EXCEPT !.bytes = c]
    OBVIOUS
  <2> HIDE DEF t
  <2>2. /\ t \in TransferRecord /\ t.n = transfers[i].n /\ t.page = transfers[i].page
        /\ t.rev = transfers[i].rev /\ t.bytes \in {transfers[i].bytes, c}
        /\ t.pages \in {transfers[i].pages, c}
    BY <1>3, <1>7, <1>7a, <2>0 DEF TransferRecord
  <2>3. /\ transfers' \in [Instances -> TransferRecord] /\ transfers'[i] = t
        /\ \A j \in Instances : j # i => transfers'[j] = transfers[j]
    BY <1>2, <1>3, <2>1, <2>2, TransferChange
  <2>4. transfers[i].n = c
    BY <1>1, <1>9, MatchedIsOwn
  <2> QED BY <1>1, <1>2, <1>3, <1>5, <1>6, <2>2, <2>3, <2>4
<1>10. CASE /\ Matches(c)
            /\ transfers' = [transfers EXCEPT ![i].pages = c, ![i].size = @ + 1]
  <2> DEFINE t == [transfers[i] EXCEPT !.pages = c, !.size = @ + 1]
  <2>1. transfers' = [transfers EXCEPT ![i] = t]
    BY <1>3, <1>7, <1>10
  <2>0. t = [transfers[i] EXCEPT !.pages = c, !.size = @ + 1]
    OBVIOUS
  <2> HIDE DEF t
  <2>2. /\ t \in TransferRecord /\ t.n = transfers[i].n /\ t.page = transfers[i].page
        /\ t.rev = transfers[i].rev /\ t.bytes \in {transfers[i].bytes, c}
        /\ t.pages \in {transfers[i].pages, c}
    <3>1. transfers[i] \in TransferRecord /\ transfers[i].size + 1 \in Nat
      BY <1>3, <1>7 DEF TransferRecord
    <3> HIDE DEF i
    <3> QED BY <1>7a, <2>0, <3>1 DEF TransferRecord
  <2>3. /\ transfers' \in [Instances -> TransferRecord] /\ transfers'[i] = t
        /\ \A j \in Instances : j # i => transfers'[j] = transfers[j]
    BY <1>2, <1>3, <2>1, <2>2, TransferChange
  <2>4. transfers[i].n = c
    BY <1>1, <1>10, MatchedIsOwn
  <2> QED BY <1>1, <1>2, <1>3, <1>5, <1>6, <2>2, <2>3, <2>4
<1> QED BY <1>8, <1>9, <1>10 DEF AppendPiece

LEMMA CancelFacts ==
  ASSUME AssetInv, NEW c \in Requests, Cancel(c)
  PROVE  LET i == reqs[c].i
         IN  /\ c \in DOMAIN reqs /\ i \in Instances /\ Quiet(c) /\ Orphans
             /\ calls[c].pc = "entered"
             /\ transfers' \in {transfers, [transfers EXCEPT ![i] = NoTransfer]}
             /\ UNCHANGED <<bankVars, cache, lentVars, cb, blocks, worldVars, latest>>
<1>1. calls[c].pc = "entered" /\ Reply(c, FALSE)
  BY DEF Cancel, Entered
<1>2. AssetKinds /\ c \in DOMAIN reqs
  BY <1>1 DEF AssetInv, MessagesInv, MessageOf
<1>3. reqs[c].i \in Instances
  BY <1>2, RequestTypes DEF RequestRecord
<1>4. Quiet(c) /\ Orphans
  BY <1>1, <1>2, ReplyFacts DEF Quiet
<1> QED BY <1>1, <1>2, <1>3, <1>4 DEF Cancel

\* A bank that is committed is taken out whole.
LEMMA CommitFacts ==
  ASSUME AssetInv, NEW c \in Requests, Commit(c)
  PROVE  LET i == reqs[c].i
             t == transfers[i]
         IN  /\ c \in DOMAIN reqs /\ i \in Instances /\ calls[c].pc = "entered"
             /\ \/ Quiet(c) /\ Orphans /\ UNCHANGED transfers
                \/ /\ UNCHANGED reqs /\ t.n = c /\ t.bytes # 0
                   /\ transfers' = [transfers EXCEPT ![i] = NoTransfer]
                   /\ calls' \in [Requests -> CallRecord]
                   /\ \A d \in Requests : d # c => calls'[d] = calls[d]
                   /\ calls'[c].pc = "lock" /\ calls'[c].kind = "commit"
                   /\ calls'[c].take.n = c /\ calls'[c].take.bytes = t.bytes
                   /\ calls'[c].take.pages \in {t.pages, c}
                   /\ calls'[c].take.rev = t.rev
             /\ UNCHANGED <<bankVars, cache, lentVars, cb, blocks, worldVars, latest>>
<1> DEFINE i == reqs[c].i
           t == transfers[i]
<1>1. calls[c].pc = "entered" /\ calls[c].kind = "commit"
  BY DEF Commit, Entered
<1>2. AssetKinds /\ c \in DOMAIN reqs
  BY <1>1 DEF AssetInv, MessagesInv, MessageOf
<1>3. i \in Instances
  BY <1>2, RequestTypes DEF RequestRecord
<1>4. UNCHANGED <<bankVars, cache, lentVars, cb, blocks, worldVars, latest>>
  BY DEF Commit
<1>5. CASE Reply(c, FALSE) /\ UNCHANGED transfers
  <2>1. Quiet(c) /\ Orphans
    BY <1>2, <1>5, ReplyFacts DEF Quiet
  <2> QED BY <1>1, <1>2, <1>3, <1>4, <1>5, <2>1
<1>6. CASE ~(Reply(c, FALSE) /\ UNCHANGED transfers)
  <2> DEFINE fromFile == t.n # 0 /\ reqs[t.n].paged /\ t.pages = 0
             take == IF fromFile THEN [t EXCEPT !.pages = c, !.size = @ + 1] ELSE t
             msg == [calls[c] EXCEPT !.pc = "lock", !.take = take]
  <2>1. /\ Matches(c) /\ t.bytes # 0 /\ UNCHANGED reqs
        /\ transfers' = [transfers EXCEPT ![i] = NoTransfer]
        /\ calls' = [calls EXCEPT ![c].pc = "lock", ![c].take = take]
    BY <1>6 DEF Commit
  <2>2. t.n = c
    BY <1>1, <2>1, MatchedIsOwn
  <2>3. t \in TransferRecord /\ calls[c] \in CallRecord /\ calls \in [Requests -> CallRecord]
    BY <1>2, <1>3 DEF AssetKinds
  <2>4. /\ take \in TransferRecord /\ take.n = t.n /\ take.bytes = t.bytes /\ take.rev = t.rev
        /\ take.pages \in {t.pages, c}
    <3>1. CASE fromFile
      <4>1. c \in Nat /\ t.size + 1 \in Nat
        BY <2>3, AssetConstants DEF TransferRecord
      <4>2. take = [t EXCEPT !.pages = c, !.size = @ + 1]
        BY <3>1
      <4> QED BY <2>3, <4>1, <4>2 DEF TransferRecord
    <3>2. CASE ~fromFile
      BY <2>3, <3>2
    <3> QED BY <3>1, <3>2
  <2>5. calls' = [calls EXCEPT ![c] = msg]
    BY <2>1, <2>3
  <2> HIDE DEF take
  <2>6. msg \in CallRecord /\ msg.pc = "lock" /\ msg.kind = "commit" /\ msg.take = take
    BY <1>1, <2>3, <2>4 DEF CallRecord
  <2> HIDE DEF msg
  <2>7. /\ calls' \in [Requests -> CallRecord] /\ calls'[c] = msg
        /\ \A d \in Requests : d # c => calls'[d] = calls[d]
    BY <2>3, <2>5, <2>6
  <2> QED BY <1>1, <1>2, <1>3, <1>4, <2>1, <2>2, <2>4, <2>6, <2>7
<1> QED BY <1>5, <1>6

-----------------------------------------------------------------------------
(* The memory banks take.                                                  *)

Sized(table) == \A j \in Instances : table[j].size \in Nat

\* One bank takes as much memory as it has pieces.
LEMMA OnePiece ==
  ASSUME NEW table, Sized(table), NEW j \in Instances
  PROVE  /\ IsFiniteSet({j} \X (1..table[j].size))
         /\ Cardinality({j} \X (1..table[j].size)) = table[j].size
<1> DEFINE k == table[j].size
<1>1. k \in Nat
  BY DEF Sized
<1> HIDE DEF k
<1>2. IsFiniteSet(1..k) /\ Cardinality(1..k) = k
  BY <1>1, FS_Interval
<1>3. IsFiniteSet({j}) /\ Cardinality({j}) = 1
  BY FS_Singleton
<1>4. IsFiniteSet({j} \X (1..k)) /\ Cardinality({j} \X (1..k)) = 1 * k
  BY <1>2, <1>3, FS_Product
<1>5. 1 * k = k
  BY <1>1
<1> QED BY <1>4, <1>5 DEF k

LEMMA PiecesAreFinite ==
  ASSUME NEW table, Sized(table), NEW is \in SUBSET Instances
  PROVE  /\ IsFiniteSet(Pieces(table, is)) /\ Cardinality(Pieces(table, is)) \in Nat
<1> DEFINE banks == {{j} \X (1..table[j].size) : j \in is}
           f == [j \in is |-> {j} \X (1..table[j].size)]
<1>1. IsFiniteSet(is)
  BY AssetConstants, FS_Subset
<1>2. f \in Surjection(is, banks)
  BY DEF Surjection
<1>3. IsFiniteSet(banks)
  BY <1>1, <1>2, FS_Surjection
<1>4. \A b \in banks : IsFiniteSet(b)
  BY OnePiece
<1>5. IsFiniteSet(UNION banks)
  BY <1>3, <1>4, FS_UNION
<1> QED BY <1>5, FS_CardinalityType DEF Pieces

\* What some banks take together is what one takes and what the others take.
LEMMA PiecesSplit ==
  ASSUME NEW table, Sized(table), NEW is \in SUBSET Instances, NEW i \in is
  PROVE  Cardinality(Pieces(table, is)) = Cardinality(Pieces(table, is \ {i})) + table[i].size
<1> DEFINE rest == Pieces(table, is \ {i})
           own == {i} \X (1..table[i].size)
<1>1. IsFiniteSet(rest) /\ IsFiniteSet(own) /\ Cardinality(own) = table[i].size
      /\ Cardinality(rest) \in Nat /\ table[i].size \in Nat
  BY PiecesAreFinite, OnePiece DEF Sized
<1>2. Pieces(table, is) = rest \cup own
  BY DEF Pieces
<1>3. rest \cap own = {}
  BY DEF Pieces
<1>4. Cardinality(rest \cup own) = Cardinality(rest) + Cardinality(own) - Cardinality(rest \cap own)
  BY <1>1, FS_Union
<1>5. Cardinality(rest \cap own) = 0
  BY <1>3, FS_EmptySet
<1> QED BY <1>1, <1>2, <1>4, <1>5

\* Only the sizes matter, and smaller banks take less.
LEMMA PiecesGrow ==
  ASSUME NEW small, NEW large, Sized(small), Sized(large), NEW is \in SUBSET Instances,
         \A j \in is : small[j].size <= large[j].size
  PROVE  Cardinality(Pieces(small, is)) <= Cardinality(Pieces(large, is))
<1>1. Pieces(small, is) \subseteq Pieces(large, is)
  BY DEF Pieces, Sized
<1> QED BY <1>1, PiecesAreFinite, FS_Subset

LEMMA SamePieces ==
  ASSUME NEW one, NEW other, NEW is, \A j \in is : one[j].size = other[j].size
  PROVE  Pieces(one, is) = Pieces(other, is)
BY DEF Pieces

LEMMA RemainingType ==
  ASSUME AssetKinds, NEW i \in Instances
  PROVE  /\ Remaining(i) \in Int /\ Sized(cache) /\ Mates(i) \in SUBSET Instances /\ i \in Mates(i)
         /\ Cached(Mates(i)) = Cached(Mates(i) \ {i}) + cache[i].size
         /\ Cached(Mates(i)) \in Nat /\ Cached(Mates(i) \ {i}) \in Nat /\ cache[i].size \in Nat
<1>1. Sized(cache)
  BY DEF AssetKinds, AssetRecord, Sized
<1>2. Mates(i) \in SUBSET Instances /\ i \in Mates(i)
  BY AssetConstants DEF Mates
<1>3. Cached(Mates(i)) \in Nat /\ Cached(Mates(i) \ {i}) \in Nat
  BY <1>1, <1>2, PiecesAreFinite DEF Cached
<1>4. Cached(Mates(i)) = Cached(Mates(i) \ {i}) + cache[i].size
  BY <1>1, <1>2, PiecesSplit DEF Cached
<1>5. Remaining(i) \in Int
  BY <1>3, AssetConstants DEF Remaining
<1> QED BY <1>1, <1>2, <1>3, <1>4, <1>5 DEF Sized

\* The steps of a message that holds the engine.
LEMMA LockedFacts ==
  ASSUME AssetInv, NEW c \in Requests, calls[c].pc = "lock"
  PROVE  /\ AssetKinds /\ c \in DOMAIN reqs /\ reqs[c].i \in Instances
         /\ calls[c].take \in TransferRecord /\ calls[c] \in CallRecord
         /\ calls[c].take.n \in Numbers
         /\ (Clears(c) <=> calls[c].take.n = 0) /\ (calls[c].take.n = 0 => calls[c].take.size = 0)
         /\ owner # c
<1>1. AssetKinds /\ c \in DOMAIN reqs
  BY DEF AssetInv, MessagesInv, MessageOf
<1>2. reqs[c].i \in Instances
  BY <1>1, RequestTypes DEF RequestRecord
<1>3. calls[c] \in CallRecord /\ calls[c].take \in TransferRecord
  BY <1>1 DEF AssetKinds, CallRecord
<1>4. Taken(calls[c].take, c) /\ (calls[c].kind = "clear" <=> calls[c].take.n = 0)
  BY DEF AssetInv, BankInv
<1>5. 0 \in Numbers /\ c \in Numbers /\ c # 0
  BY AssetConstants DEF Numbers, Requests
<1>6. calls[c].take.n \in Numbers /\ (calls[c].take.n = 0 => calls[c].take.size = 0)
  BY <1>4, <1>5 DEF Taken
<1>7. owner # c
  BY DEF AssetInv, LendInv, Holding
<1> QED BY <1>1, <1>2, <1>3, <1>4, <1>6, <1>7 DEF Clears

LEMMA SetFacts ==
  ASSUME AssetInv, NEW c \in Requests, SetAsset(c)
  PROVE  LET i == reqs[c].i
             t == calls[c].take
         IN  /\ c \in DOMAIN reqs /\ i \in Instances /\ Quiet(c) /\ Orphans /\ owner = NoOwner
             /\ calls[c].pc = "lock"
             /\ live' \in [Instances -> Numbers] /\ cache' \in [Instances -> AssetRecord]
             /\ \/ UNCHANGED <<live, cache>>
                \/ /\ inst[i].there /\ t.size <= Remaining(i)
                   /\ \A j \in Instances : j # i =>
                         /\ live'[j] = live[j] /\ cache'[j].bank = cache[j].bank
                         /\ cache'[j].known = cache[j].known /\ cache'[j].size = cache[j].size
                   /\ live'[i] = IF inst[i].bypassed THEN live[i] ELSE t.n
                   /\ cache'[i].known /\ cache'[i].bank = t.n /\ cache'[i].size = t.size
                   /\ \A j \in Instances : /\ cache'[j].rev = cache[j].rev
                                           /\ cache'[j].state = "active" => live'[j] # 0
             /\ UNCHANGED <<inst, transfers, lentVars, cb, blocks, worldVars, latest>>
<1> DEFINE i == reqs[c].i
           t == calls[c].take
<1>1. /\ calls[c].pc = "lock" /\ owner = NoOwner
      /\ UNCHANGED <<inst, transfers, lentVars, cb, blocks, worldVars, latest>>
  BY DEF SetAsset, Locks
<1>2. /\ AssetKinds /\ c \in DOMAIN reqs /\ i \in Instances /\ t \in TransferRecord
      /\ t.n \in Numbers
  BY <1>1, LockedFacts
<1>3. \E ok \in BOOLEAN : Reply(c, ok)
  BY DEF SetAsset
<1>4. Quiet(c) /\ Orphans
  BY <1>2, <1>3, ReplyFacts DEF Quiet
<1>5. live \in [Instances -> Numbers] /\ cache \in [Instances -> AssetRecord]
      /\ cache[i] \in AssetRecord
  BY <1>2 DEF AssetKinds, AssetTypeOK
<1>6. CASE UNCHANGED <<live, cache>>
  BY <1>1, <1>2, <1>4, <1>5, <1>6
<1>7. CASE ~UNCHANGED <<live, cache>>
  <2> DEFINE entry == [cache[i] EXCEPT !.known = TRUE, !.bank = t.n, !.size = t.size]
             ch == [cache EXCEPT ![i] = entry]
  <2>1. /\ inst[i].there /\ t.size <= Remaining(i)
        /\ live' = IF inst[i].bypassed THEN live ELSE [live EXCEPT ![i] = t.n]
        /\ cache' = Refreshed([cache EXCEPT ![i].known = TRUE, ![i].bank = t.n,
                                            ![i].size = t.size], inst, live')
    BY <1>7 DEF SetAsset
  <2>2. t.n \in Numbers /\ t.size \in Nat
    BY <1>2 DEF TransferRecord
  <2>3. /\ entry \in AssetRecord /\ entry.known /\ entry.bank = t.n /\ entry.size = t.size
        /\ entry.rev = cache[i].rev
    BY <1>5, <2>2 DEF AssetRecord
  <2>4. [cache EXCEPT ![i].known = TRUE, ![i].bank = t.n, ![i].size = t.size] = ch
    BY <1>2, <1>5
  <2> HIDE DEF entry
  <2>5. ch \in [Instances -> AssetRecord] /\ ch[i] = entry
        /\ \A j \in Instances : j # i => ch[j] = cache[j]
    BY <1>2, <1>5, <2>3
  <2> HIDE DEF ch
  <2>6. cache' = Refreshed(ch, inst, live')
    BY <2>1, <2>4
  <2>7. /\ live' \in [Instances -> Numbers]
        /\ \A j \in Instances : j # i => live'[j] = live[j]
        /\ live'[i] = IF inst[i].bypassed THEN live[i] ELSE t.n
    BY <1>2, <1>5, <2>1
  <2>8. live' \in [Instances -> Nat]
    BY <2>7 DEF Numbers
  <2>9. /\ cache' \in [Instances -> AssetRecord]
        /\ \A j \in Instances :
               /\ cache'[j].known = ch[j].known /\ cache'[j].bank = ch[j].bank
               /\ cache'[j].size = ch[j].size /\ cache'[j].rev = ch[j].rev
               /\ cache'[j].state = "active" => live'[j] # 0
    BY <2>5, <2>6, <2>8, RefreshedFacts
  <2>10. \A j \in Instances : ch[j].rev = cache[j].rev
    BY <2>3, <2>5
  <2>11. \A j \in Instances : j # i =>
             /\ live'[j] = live[j] /\ cache'[j].bank = cache[j].bank
             /\ cache'[j].known = cache[j].known /\ cache'[j].size = cache[j].size
    BY <2>5, <2>7, <2>9
  <2>12. cache'[i].known /\ cache'[i].bank = t.n /\ cache'[i].size = t.size
    BY <1>2, <2>3, <2>5, <2>9
  <2>13. \A j \in Instances : /\ cache'[j].rev = cache[j].rev
                              /\ cache'[j].state = "active" => live'[j] # 0
    BY <2>9, <2>10
  <2>14. /\ live' \in [Instances -> Numbers] /\ cache' \in [Instances -> AssetRecord]
         /\ live'[i] = IF inst[i].bypassed THEN live[i] ELSE t.n
    BY <2>7, <2>9
  <2>15. inst[i].there /\ t.size <= Remaining(i)
    BY <2>1
  <2> HIDE DEF i, t
  <2> QED BY <1>1, <1>2, <1>4, <2>11, <2>12, <2>13, <2>14, <2>15 DEF i, t
<1> QED BY <1>6, <1>7

LEMMA ClearedFacts ==
  ASSUME AssetInv, NEW c \in Requests, ClearAsset(c)
  PROVE  LET i == reqs[c].i
         IN  /\ c \in DOMAIN reqs /\ i \in Instances /\ Quiet(c) /\ owner = NoOwner
             /\ calls[c].pc = "lock"
             /\ live' \in [Instances -> Numbers] /\ cache' \in [Instances -> AssetRecord]
             /\ inst' \in [Instances -> InstanceRecord] /\ SamePlaces
             /\ \A j \in Instances : j # i =>
                   /\ live'[j] = live[j] /\ cache'[j].bank = cache[j].bank
                   /\ cache'[j].known = cache[j].known /\ cache'[j].size = cache[j].size
                   /\ cache'[j].rev = cache[j].rev
             /\ live'[i] = 0 /\ cache'[i].size = 0
             /\ \A j \in Instances : cache'[j].state = "active" => live'[j] # 0
             /\ \/ cache'[i].known /\ cache'[i].rev = cache[i].rev + 1 /\ Orphans
                \/ \A n \in DOMAIN reqs : reqs[n].i = i => reqs'[n].orphan
             /\ UNCHANGED <<transfers, lentVars, cb, blocks, worldVars, latest>>
<1> DEFINE i == reqs[c].i
           player == inst[i].there /\ i \in Players
           entry == IF player THEN [NoAsset EXCEPT !.known = TRUE, !.rev = cache[i].rev + 1]
                              ELSE NoAsset
           ch == [cache EXCEPT ![i] = entry]
<1>1. /\ calls[c].pc = "lock" /\ owner = NoOwner
      /\ live' = IF inst[i].there /\ ~inst[i].bypassed THEN [live EXCEPT ![i] = 0] ELSE live
      /\ inst' = IF player THEN [inst EXCEPT ![i].failed = FALSE] ELSE inst
      /\ cache' = Refreshed(ch, inst', live')
      /\ reqs' = IF player THEN reqs ELSE Orphaned({i})
      /\ calls' = [calls EXCEPT ![c] = Idle]
      /\ UNCHANGED <<transfers, lentVars, cb, blocks, worldVars, latest>>
  BY DEF ClearAsset, Locks
<1>2. AssetKinds /\ c \in DOMAIN reqs /\ i \in Instances
  BY <1>1, LockedFacts
<1>3. /\ live \in [Instances -> Numbers] /\ cache \in [Instances -> AssetRecord]
      /\ cache[i] \in AssetRecord /\ inst \in [Instances -> InstanceRecord]
      /\ calls \in [Requests -> CallRecord]
  BY <1>2 DEF AssetKinds, AssetTypeOK, InstanceRecord
<1>4. entry \in AssetRecord /\ entry.size = 0
      /\ (player => entry.known /\ entry.rev = cache[i].rev + 1)
  <2>1. cache[i].rev + 1 \in Nat
    BY <1>3 DEF AssetRecord
  <2> QED BY <2>1, AssetConstants DEF NoAsset, AssetRecord
<1> HIDE DEF entry
<1>5. ch \in [Instances -> AssetRecord] /\ ch[i] = entry
      /\ \A j \in Instances : j # i => ch[j] = cache[j]
  BY <1>2, <1>3, <1>4
<1> HIDE DEF ch
<1>6. 0 \in Numbers
  BY AssetConstants DEF Numbers
<1>7. /\ live' \in [Instances -> Numbers]
      /\ \A j \in Instances : j # i => live'[j] = live[j]
  BY <1>1, <1>2, <1>3, <1>6
<1>8. live'[i] = 0
  <2>1. live[i] # 0 => inst[i].there /\ ~inst[i].bypassed
    BY <1>2 DEF AssetInv, LiveInv, LiveOf
  <2> QED BY <1>1, <1>2, <1>3, <2>1
<1>9. live' \in [Instances -> Nat]
  BY <1>7 DEF Numbers
<1>10. /\ cache' \in [Instances -> AssetRecord]
       /\ \A j \in Instances :
              /\ cache'[j].known = ch[j].known /\ cache'[j].bank = ch[j].bank
              /\ cache'[j].size = ch[j].size /\ cache'[j].rev = ch[j].rev
              /\ cache'[j].state = "active" => live'[j] # 0
  <2> DEFINE in == inst'
             lv == live'
  <2>1. cache' = Refreshed(ch, in, lv) /\ lv \in [Instances -> Nat]
    BY <1>1, <1>9
  <2>2. lv = live'
    OBVIOUS
  <2> HIDE DEF in, lv
  <2> QED BY <1>5, <2>1, <2>2, RefreshedFacts
<1>11. inst' \in [Instances -> InstanceRecord] /\ SamePlaces
  <2> DEFINE place == [inst[i] EXCEPT !.failed = FALSE]
  <2>1. /\ place \in InstanceRecord /\ place.there = inst[i].there
        /\ place.bypassed = inst[i].bypassed
    BY <1>2, <1>3 DEF InstanceRecord
  <2>2. inst' = inst \/ inst' = [inst EXCEPT ![i] = place]
    BY <1>1
  <2> HIDE DEF place
  <2> QED BY <1>2, <1>3, <2>1, <2>2 DEF SamePlaces
<1>12. /\ calls' \in [Requests -> CallRecord] /\ calls'[c].pc = "idle"
       /\ \A d \in Requests : d # c => calls'[d] = calls[d]
  BY <1>1, <1>3, AssetConstants DEF Idle
<1>13. SameRequests
  BY <1>1, <1>2, OrphanedFacts, UnchangedRequests
<1>14. \/ cache'[i].known /\ cache'[i].rev = cache[i].rev + 1 /\ Orphans
       \/ \A n \in DOMAIN reqs : reqs[n].i = i => reqs'[n].orphan
  <2>1. CASE player
    BY <1>1, <1>2, <1>4, <1>5, <1>10, <2>1, UnchangedRequests
  <2>2. CASE ~player
    BY <1>1, <1>2, <2>2, OrphanedFacts
  <2> QED BY <2>1, <2>2
<1>15. \A j \in Instances : j # i =>
          /\ live'[j] = live[j] /\ cache'[j].bank = cache[j].bank
          /\ cache'[j].known = cache[j].known /\ cache'[j].size = cache[j].size
          /\ cache'[j].rev = cache[j].rev
  BY <1>5, <1>7, <1>10
<1>16. cache'[i].size = 0
  BY <1>2, <1>4, <1>5, <1>10
<1>17. Quiet(c)
  BY <1>12, <1>13 DEF Quiet
<1>18. \A j \in Instances : cache'[j].state = "active" => live'[j] # 0
  BY <1>10
<1> HIDE DEF i
<1> QED BY <1>1, <1>2, <1>7, <1>8, <1>10, <1>11, <1>14, <1>15, <1>16, <1>17, <1>18 DEF i

LEMMA CreateFacts ==
  ASSUME AssetInv, NEW c \in Requests, Create(c)
  PROVE  LET i == reqs[c].i
             t == calls[c].take
         IN  /\ c \in DOMAIN reqs /\ i \in Instances /\ owner = NoOwner
             /\ calls[c].pc = "lock" /\ Supports(i)
             /\ \/ Quiet(c) /\ Orphans /\ UNCHANGED <<lentVars, blocks>>
                \/ /\ UNCHANGED reqs /\ owner' = c /\ slot' = "requested" /\ blocks' \in BOOLEAN
                   /\ cache[i].known /\ (t.n # 0 => t.size <= Remaining(i))
                   /\ upd' \in UpdateRecord /\ upd'.bank = t /\ upd'.size = t.size
                   /\ upd'.limit = Remaining(i) /\ ~upd'.applied
                   /\ upd'.rev = IF t.rev = 0 THEN cache[i].rev ELSE t.rev
                   /\ calls' \in [Requests -> CallRecord] /\ calls'[c].pc = "await"
                   /\ \A d \in Requests : d # c => calls'[d] = calls[d]
             /\ UNCHANGED <<bankVars, cache, transfers, cb, worldVars, latest>>
<1> DEFINE i == reqs[c].i
           t == calls[c].take
<1>1. /\ calls[c].pc = "lock" /\ owner = NoOwner /\ Supports(i)
      /\ UNCHANGED <<bankVars, cache, transfers, cb, worldVars, latest>>
  BY DEF Create, Locks
<1>2. /\ AssetKinds /\ c \in DOMAIN reqs /\ i \in Instances /\ t \in TransferRecord
      /\ calls[c] \in CallRecord /\ (Clears(c) <=> t.n = 0)
  BY <1>1, LockedFacts
<1>3. CASE Reply(c, FALSE) /\ UNCHANGED <<lentVars, blocks>>
  <2>1. Quiet(c) /\ Orphans
    BY <1>2, <1>3, ReplyFacts DEF Quiet
  <2> QED BY <1>1, <1>2, <1>3, <2>1
<1>4. CASE ~(Reply(c, FALSE) /\ UNCHANGED <<lentVars, blocks>>)
  <2> DEFINE rev == IF t.rev = 0 THEN cache[i].rev ELSE t.rev
             wide == inst[i].wide
             request == calls[c].epoch
             limit == Remaining(i)
  <2>1. /\ cache[i].known /\ (t.n # 0 => t.size <= Remaining(i))
        /\ owner' = c /\ slot' = "requested" /\ blocks' \in BOOLEAN /\ UNCHANGED reqs
        /\ upd' = [NoAssetUpdate EXCEPT !.bank = t, !.size = t.size, !.wide = wide,
                     !.epoch = request, !.rev = rev, !.limit = limit]
        /\ calls' = [calls EXCEPT ![c].pc = "await"]
    BY <1>2, <1>4 DEF Create
  <2>2. rev \in Nat /\ wide \in BOOLEAN /\ request \in Nat /\ t.size \in Nat
    <3>1. cache[i] \in AssetRecord /\ inst[i] \in InstanceRecord
      BY <1>2 DEF AssetKinds, AssetTypeOK, InstanceRecord
    <3> QED BY <1>2, <3>1 DEF AssetRecord, InstanceRecord, CallRecord, TransferRecord
  <2>3. limit \in Int
    BY <1>2, RemainingType
  <2> HIDE DEF rev, wide, request, limit
  <2>4. /\ upd' \in UpdateRecord /\ upd'.bank = t /\ upd'.size = t.size
        /\ upd'.limit = limit /\ ~upd'.applied /\ upd'.rev = rev
    BY <1>2, <2>1, <2>2, <2>3 DEF NoAssetUpdate, UpdateRecord
  <2>5. /\ calls' \in [Requests -> CallRecord] /\ calls'[c].pc = "await"
        /\ \A d \in Requests : d # c => calls'[d] = calls[d]
    BY <1>2, <2>1, MoveFacts
  <2> QED BY <1>1, <1>2, <2>1, <2>4, <2>5 DEF rev, limit
<1> QED BY <1>3, <1>4

\* The steps of an exchange that change its record.
LEMMA HolderFacts ==
  ASSUME AssetInv, NEW c \in Requests, calls[c].pc \in Holding
  PROVE  /\ owner = c /\ owner # NoOwner /\ c \in DOMAIN reqs /\ Updated \in Instances
         /\ Updated = reqs[c].i /\ upd \in UpdateRecord /\ upd.bank.n \in Numbers
<1>1. owner = c
  BY DEF AssetInv, LendInv
<1>2. c # NoOwner
  BY AssetConstants DEF Requests, NoOwner
<1>3. c \in DOMAIN reqs /\ Updated \in Instances /\ upd.bank.n \in Numbers
  BY <1>1, <1>2, UpdatedFacts DEF AssetInv
<1> QED BY <1>1, <1>2, <1>3 DEF AssetInv, AssetKinds, Updated

LEMMA PrepareFacts ==
  ASSUME AssetInv, NEW c \in Requests, Prepare(c)
  PROVE  /\ owner = c /\ owner # NoOwner /\ calls[c].pc = "await" /\ slot = "captured"
         /\ upd' \in UpdateRecord /\ upd'.bank = upd.bank /\ upd'.rev = upd.rev
         /\ upd'.limit = upd.limit /\ ~upd'.applied
         /\ upd.bank.n = 0 => upd'.size = upd.size
         /\ upd'.size = upd.size \/ upd'.size <= upd.limit
         /\ calls' \in [Requests -> CallRecord]
         /\ \A d \in Requests : d # c => calls'[d] = calls[d]
         /\ \/ calls'[c].pc \in {"finish", "activate"} /\ UNCHANGED slot
            \/ calls'[c].pc = "await" /\ slot' = "prepared"
         /\ UNCHANGED <<bankVars, cache, transfers, owner, cb, blocks, worldVars, reqs, latest>>
<1>1. /\ calls[c].pc = "await" /\ slot = "captured"
      /\ UNCHANGED <<bankVars, cache, transfers, owner, cb, blocks, worldVars, reqs, latest>>
  BY DEF Prepare
<1>2. owner = c /\ owner # NoOwner /\ upd \in UpdateRecord
  BY <1>1, HolderFacts DEF Holding
<1>3. ~upd.applied
  BY <1>1, <1>2 DEF AssetInv, LendInv
<1>4. AssetKinds
  BY DEF AssetInv
<1>5. CASE /\ calls' = [calls EXCEPT ![c].pc = "finish"]
           /\ upd' = [upd EXCEPT !.ok = FALSE] /\ UNCHANGED slot
  <2>1. upd' \in UpdateRecord /\ SameUpdate /\ ~upd'.applied
    BY <1>3, <1>4, <1>5, RefusedFacts
  <2>2. /\ calls' \in [Requests -> CallRecord] /\ calls'[c].pc = "finish"
        /\ \A d \in Requests : d # c => calls'[d] = calls[d]
    BY <1>4, <1>5, MoveFacts
  <2> QED BY <1>1, <1>2, <1>5, <2>1, <2>2 DEF SameUpdate
<1>6. ASSUME NEW extra \in 0..1, upd.bank.n = 0 => extra = 0,
             upd.size + extra <= upd.limit \/ upd.bank.n = 0,
             upd' = [upd EXCEPT !.size = @ + extra],
             NEW paged \in BOOLEAN,
             IF paged THEN UNCHANGED slot ELSE slot' = "prepared",
             calls' = [calls EXCEPT ![c].pc = IF paged THEN "activate" ELSE "await"]
      PROVE  /\ upd' \in UpdateRecord /\ upd'.bank = upd.bank /\ upd'.rev = upd.rev
             /\ upd'.limit = upd.limit /\ ~upd'.applied
             /\ upd.bank.n = 0 => upd'.size = upd.size
             /\ upd'.size = upd.size \/ upd'.size <= upd.limit
             /\ calls' \in [Requests -> CallRecord]
             /\ \A d \in Requests : d # c => calls'[d] = calls[d]
             /\ \/ calls'[c].pc \in {"finish", "activate"} /\ UNCHANGED slot
                \/ calls'[c].pc = "await" /\ slot' = "prepared"
  <2> DEFINE size == upd.size + extra
             pc == IF paged THEN "activate" ELSE "await"
  <2>1. size \in Nat /\ (extra = 0 => size = upd.size)
    BY <1>2, <1>6 DEF UpdateRecord
  <2>2. upd' = [upd EXCEPT !.size = size]
    BY <1>6
  <2>3. size = upd.size \/ size <= upd.limit
    BY <1>6, <2>1
  <2> HIDE DEF size
  <2>4. /\ upd' \in UpdateRecord /\ upd'.bank = upd.bank /\ upd'.rev = upd.rev
        /\ upd'.limit = upd.limit /\ upd'.applied = upd.applied /\ upd'.size = size
    BY <1>2, <2>1, <2>2 DEF UpdateRecord
  <2>5. pc \in {"await", "activate"} /\ calls' = [calls EXCEPT ![c].pc = pc]
    BY <1>6
  <2>6. \/ pc \in {"finish", "activate"} /\ UNCHANGED slot
        \/ pc = "await" /\ slot' = "prepared"
    BY <1>6
  <2> HIDE DEF pc
  <2>7. /\ calls' \in [Requests -> CallRecord] /\ calls'[c].pc = pc
        /\ \A d \in Requests : d # c => calls'[d] = calls[d]
    BY <1>4, <2>5, MoveFacts
  <2> QED BY <1>3, <1>6, <2>1, <2>3, <2>4, <2>6, <2>7
<1>7. CASE ~(/\ calls' = [calls EXCEPT ![c].pc = "finish"]
             /\ upd' = [upd EXCEPT !.ok = FALSE] /\ UNCHANGED slot)
  <2> DEFINE paged == upd.bank.n # 0 /\ reqs[owner].paged
  <2>1. PICK extra \in 0..1 :
           /\ upd.bank.n = 0 => extra = 0
           /\ upd.size + extra <= upd.limit \/ upd.bank.n = 0
           /\ upd' = [upd EXCEPT !.size = @ + extra]
           /\ IF paged THEN UNCHANGED slot ELSE slot' = "prepared"
           /\ calls' = [calls EXCEPT ![c].pc = IF paged THEN "activate" ELSE "await"]
    BY <1>7 DEF Prepare
  <2>2. paged \in BOOLEAN
    <3>1. reqs[owner] \in RequestRecord
      BY <1>1, <1>2, <1>4, HolderFacts, RequestTypes DEF Holding
    <3> QED BY <3>1 DEF RequestRecord
  <2> HIDE DEF paged
  <2> QED BY <1>1, <1>2, <1>6, <2>1, <2>2
<1> QED BY <1>5, <1>7

LEMMA FinishFacts ==
  ASSUME AssetInv, NEW c \in Requests, FinishUpdate(c)
  PROVE  /\ owner = c /\ owner # NoOwner /\ Updated \in Instances
         /\ Quiet(c) /\ Orphans /\ c \in DOMAIN reqs
         /\ slot \notin {"requested", "prepared"}
         /\ owner' = NoOwner /\ slot' = "idle" /\ upd' = NoAssetUpdate /\ blocks' = TRUE
         /\ cache' \in [Instances -> AssetRecord]
         /\ \A j \in Instances : /\ j # Updated => cache'[j] = cache[j]
                                 /\ cache'[j].known = cache[j].known
                                 /\ cache'[j].rev = cache[j].rev
                                 /\ cache'[j].state = cache[j].state
         /\ upd.applied => /\ cache'[Updated].bank = upd.bank.n
                           /\ cache'[Updated].size = upd.size
         /\ ~upd.applied => UNCHANGED cache
         /\ UNCHANGED <<bankVars, transfers, cb, worldVars, latest>>
<1>1. /\ calls[c].pc = "finish" \/ (calls[c].pc = "await" /\ slot = "retired")
      /\ owner' = NoOwner /\ slot' = "idle" /\ upd' = NoAssetUpdate /\ blocks' = TRUE
      /\ Reply(c, upd.ok) /\ UNCHANGED <<bankVars, transfers, cb, worldVars, latest>>
      /\ cache' = IF upd.applied
                  THEN [cache EXCEPT ![Updated].bank = upd.bank.n, ![Updated].size = upd.size]
                  ELSE cache
  BY DEF FinishUpdate
<1>2. /\ owner = c /\ owner # NoOwner /\ c \in DOMAIN reqs /\ Updated \in Instances
      /\ upd \in UpdateRecord /\ upd.bank.n \in Numbers
  BY <1>1, HolderFacts DEF Holding
<1>3. AssetKinds /\ cache \in [Instances -> AssetRecord]
  BY DEF AssetInv, AssetKinds
<1>4. slot \notin {"requested", "prepared"}
  BY <1>1, <1>2 DEF AssetInv, LendInv
<1>5. upd.ok \in BOOLEAN /\ upd.size \in Nat /\ upd.bank.n \in Nat
  BY <1>2 DEF UpdateRecord, Numbers
<1>6. Quiet(c) /\ Orphans
  BY <1>1, <1>2, <1>3, <1>5, ReplyFacts DEF Quiet
<1> DEFINE i == Updated
           entry == [cache[i] EXCEPT !.bank = upd.bank.n, !.size = upd.size]
<1>7. upd.applied => cache' = [cache EXCEPT ![i] = entry]
  BY <1>1, <1>2, <1>3
<1>8. /\ entry \in AssetRecord /\ entry.bank = upd.bank.n /\ entry.size = upd.size
      /\ entry.known = cache[i].known /\ entry.rev = cache[i].rev /\ entry.state = cache[i].state
  BY <1>2, <1>3, <1>5 DEF AssetRecord
<1>9. ~upd.applied => UNCHANGED cache
  BY <1>1
<1> HIDE DEF i, entry
<1>10. i \in Instances
  BY <1>2 DEF i
<1>11. /\ cache' \in [Instances -> AssetRecord]
       /\ \A j \in Instances : /\ j # i => cache'[j] = cache[j]
                               /\ cache'[j].known = cache[j].known
                               /\ cache'[j].rev = cache[j].rev
                               /\ cache'[j].state = cache[j].state
       /\ upd.applied => cache'[i].bank = upd.bank.n /\ cache'[i].size = upd.size
  <2>1. CASE upd.applied
    BY <1>3, <1>7, <1>8, <1>10, <2>1
  <2>2. CASE ~upd.applied
    BY <1>3, <1>9, <2>2
  <2> QED BY <2>1, <2>2
<1> QED BY <1>1, <1>2, <1>4, <1>6, <1>9, <1>11 DEF i

\* A new topology: what stays in use, what is staged again, what is dropped.
LEMMA RebuildFacts ==
  ASSUME AssetInv, Rebuild
  PROVE  /\ owner = NoOwner /\ cb = "out" /\ SameRequests
         /\ live' \in [Instances -> Numbers] /\ inst' \in [Instances -> InstanceRecord]
         /\ cache' \in [Instances -> AssetRecord]
         /\ transfers' \in [Instances -> TransferRecord]
         /\ \A j \in Instances :
               /\ live'[j] # 0 => /\ inst'[j].there /\ ~inst'[j].bypassed
                                  /\ cache'[j].bank = live'[j]
               /\ cache'[j].state = "active" => live'[j] # 0
               /\ cache'[j].size <= cache[j].size
               /\ transfers'[j] \in {transfers[j], NoTransfer}
               /\ \/ \A n \in DOMAIN reqs : reqs[n].i = j => reqs'[n].orphan
                  \/ /\ cache[j].known => cache'[j].known
                     /\ cache[j].rev <= cache'[j].rev
         /\ UNCHANGED <<lentVars, cb, blocks, epoch, page, calls, latest>>
<1>1. AssetKinds /\ LiveInv /\ owner = NoOwner /\ cb = "out"
  BY DEF AssetInv, Rebuild, Editable
<1>2. UNCHANGED <<lentVars, cb, blocks, epoch, page, calls, latest>>
  BY DEF Rebuild
<1>3. PICK i \in Instances, there \in BOOLEAN, bypassed \in BOOLEAN, wide \in BOOLEAN :
         \E doc \in {Instances, Instances \ {i}}, staged \in SUBSET Instances :
            /\ bypassed \/ wide => there
            /\ wide => i \in Players /\ ~bypassed
            /\ there => i \in doc
            /\ Rebuilt(doc, [inst EXCEPT ![i] = [there |-> there, bypassed |-> bypassed,
                                                wide |-> wide, failed |-> FALSE]], staged)
            /\ reqs' = Orphaned(Instances \ doc)
  BY Zenon DEF Rebuild
<1>4. PICK doc \in {Instances, Instances \ {i}}, staged \in SUBSET Instances :
         /\ there => i \in doc
         /\ Rebuilt(doc, [inst EXCEPT ![i] = [there |-> there, bypassed |-> bypassed,
                                             wide |-> wide, failed |-> FALSE]], staged)
         /\ reqs' = Orphaned(Instances \ doc)
  BY <1>3
<1> DEFINE new == [inst EXCEPT ![i] = [there |-> there, bypassed |-> bypassed,
                                       wide |-> wide, failed |-> FALSE]]
           kept == [j \in Instances |->
                      IF j \in Players /\ new[j].there
                      THEN [cache[j] EXCEPT !.known = TRUE, !.rev = @ + 1] ELSE cache[j]]
           ch == RetainAssets(doc, kept)
<1>5. /\ live' = [j \in Instances |->
             IF j \in Retained(new) THEN live[j]
             ELSE IF j \in Replayed(new) \cap staged THEN cache[j].bank ELSE 0]
      /\ inst' = [j \in Instances |-> [new[j] EXCEPT !.failed =
             IF j \in Retained(new) THEN inst[j].failed
             ELSE j \in Players /\ j \in Replayed(new) \ staged]]
      /\ cache' = Refreshed(ch, inst', live')
      /\ transfers' = PruneTransfers(doc)
  BY <1>4 DEF Rebuilt
<1>6. /\ inst \in [Instances -> InstanceRecord] /\ cache \in [Instances -> AssetRecord]
      /\ live \in [Instances -> Numbers] /\ transfers \in [Instances -> TransferRecord]
  BY <1>1 DEF AssetKinds, AssetTypeOK, InstanceRecord
<1>7. /\ new \in [Instances -> InstanceRecord]
      /\ \A j \in Instances : new[j].there => j \in doc
  <2>1. [there |-> there, bypassed |-> bypassed, wide |-> wide, failed |-> FALSE]
          \in InstanceRecord
    BY DEF InstanceRecord
  <2> QED BY <1>4, <1>6, <2>1
<1> HIDE DEF new
<1>8. \A j \in Instances :
         /\ ch[j] \in AssetRecord /\ ch[j].size <= cache[j].size
         /\ j \in doc => /\ ch[j].bank = cache[j].bank /\ (cache[j].known => ch[j].known)
                         /\ cache[j].rev <= ch[j].rev
  <2> TAKE j \in Instances
  <2>1. cache[j] \in AssetRecord /\ NoAsset \in AssetRecord /\ NoAsset.size = 0
    BY <1>6, AssetConstants DEF NoAsset
  <2>2. /\ kept[j] \in AssetRecord /\ kept[j].size = cache[j].size
        /\ kept[j].bank = cache[j].bank /\ (cache[j].known => kept[j].known)
        /\ cache[j].rev <= kept[j].rev
    <3> DEFINE entry == [cache[j] EXCEPT !.known = TRUE, !.rev = @ + 1]
    <3>1. cache[j].rev \in Nat /\ cache[j].rev + 1 \in Nat /\ cache[j].rev <= cache[j].rev
          /\ cache[j].rev <= cache[j].rev + 1
      BY <2>1 DEF AssetRecord
    <3>2. /\ entry \in AssetRecord /\ entry.size = cache[j].size /\ entry.known
          /\ entry.bank = cache[j].bank /\ entry.rev = cache[j].rev + 1
      BY <2>1, <3>1 DEF AssetRecord
    <3>3. kept[j] = entry \/ kept[j] = cache[j]
      OBVIOUS
    <3> HIDE DEF entry, kept
    <3> QED BY <2>1, <3>1, <3>2, <3>3
  <2>3. ch[j] = IF j \in doc THEN kept[j] ELSE NoAsset
    BY DEF RetainAssets
  <2>4. cache[j].size \in Nat /\ cache[j].size <= cache[j].size
    BY <2>1 DEF AssetRecord
  <2> HIDE DEF ch, kept
  <2> QED BY <2>1, <2>2, <2>3, <2>4
<1>9. ch \in [Instances -> AssetRecord]
  BY <1>8 DEF RetainAssets
<1> HIDE DEF ch
<1>10. live' \in [Instances -> Numbers]
  <2>1. \A j \in Instances : cache[j].bank \in Numbers
    BY <1>1 DEF AssetKinds, AssetTypeOK
  <2>2. 0 \in Numbers
    BY AssetConstants DEF Numbers
  <2> QED BY <1>5, <1>6, <2>1, <2>2
<1>11. /\ inst' \in [Instances -> InstanceRecord]
       /\ \A j \in Instances : /\ inst'[j].there = new[j].there
                               /\ inst'[j].bypassed = new[j].bypassed
  <2>1. \A j \in Instances :
           /\ inst'[j] \in InstanceRecord /\ inst'[j].there = new[j].there
           /\ inst'[j].bypassed = new[j].bypassed
    <3> TAKE j \in Instances
    <3> DEFINE failed == IF j \in Retained(new) THEN inst[j].failed
                         ELSE j \in Players /\ j \in Replayed(new) \ staged
    <3>1. failed \in BOOLEAN
      BY <1>6 DEF InstanceRecord
    <3>2. inst'[j] = [new[j] EXCEPT !.failed = failed] /\ new[j] \in InstanceRecord
      BY <1>5, <1>7
    <3> HIDE DEF failed
    <3> QED BY <3>1, <3>2 DEF InstanceRecord
  <2>2. DOMAIN inst' = Instances /\ inst' = [j \in Instances |-> inst'[j]]
    BY <1>5
  <2> QED BY <2>1, <2>2
<1>12. /\ cache' \in [Instances -> AssetRecord]
       /\ \A j \in Instances :
              /\ cache'[j].known = ch[j].known /\ cache'[j].bank = ch[j].bank
              /\ cache'[j].size = ch[j].size /\ cache'[j].rev = ch[j].rev
              /\ cache'[j].state = "active" => live'[j] # 0
  <2> DEFINE in == inst'
             lv == live'
  <2>1. cache' = Refreshed(ch, in, lv) /\ lv \in [Instances -> Nat]
    BY <1>5, <1>10 DEF Numbers
  <2>2. lv = live'
    OBVIOUS
  <2> HIDE DEF in, lv
  <2> QED BY <1>9, <2>1, <2>2, RefreshedFacts
<1>13. \A j \in Instances : live'[j] # 0 =>
          new[j].there /\ ~new[j].bypassed /\ live'[j] = cache[j].bank
  <2> TAKE j \in Instances
  <2>1. CASE j \in Retained(new)
    <3>1. live'[j] = live[j] /\ new[j].there /\ ~new[j].bypassed
      BY <1>5, <2>1 DEF Retained
    <3>2. ~upd.applied
      BY <1>1 DEF AssetInv, LendInv
    <3>3. live[j] # 0 => cache[j].bank = live[j]
      BY <1>1, <3>2 DEF LiveInv, LiveOf
    <3> QED BY <3>1, <3>3
  <2>2. CASE j \notin Retained(new) /\ j \in Replayed(new) \cap staged
    BY <1>5, <2>2 DEF Replayed
  <2>3. CASE j \notin Retained(new) /\ j \notin Replayed(new) \cap staged
    BY <1>5, <2>3
  <2> QED BY <2>1, <2>2, <2>3
<1>14. /\ transfers' \in [Instances -> TransferRecord]
       /\ \A j \in Instances : transfers'[j] \in {transfers[j], NoTransfer}
  BY <1>5, <1>6, AssetConstants DEF PruneTransfers
<1>15. /\ SameRequests
       /\ \A n \in DOMAIN reqs : reqs[n].i \in Instances \ doc => reqs'[n].orphan
  BY <1>1, <1>4, OrphanedFacts
<1>16. \A j \in Instances :
          /\ live'[j] # 0 => /\ inst'[j].there /\ ~inst'[j].bypassed
                             /\ cache'[j].bank = live'[j]
          /\ cache'[j].size <= cache[j].size
  BY <1>7, <1>8, <1>11, <1>12, <1>13
<1>17. ASSUME NEW j \in Instances
       PROVE  \/ \A n \in DOMAIN reqs : reqs[n].i = j => reqs'[n].orphan
              \/ /\ cache[j].known => cache'[j].known
                 /\ cache[j].rev <= cache'[j].rev
  <2>1. CASE j \in doc
    BY <1>8, <1>12, <2>1
  <2>2. CASE j \notin doc
    BY <1>15, <2>2
  <2> QED BY <2>1, <2>2
<1> QED BY <1>1, <1>2, <1>10, <1>11, <1>12, <1>14, <1>15, <1>16, <1>17

LEMMA RebuildFailsFacts ==
  ASSUME AssetInv, RebuildFails
  PROVE  /\ owner = NoOwner /\ cb = "out"
         /\ live' \in [Instances -> Numbers] /\ inst' \in [Instances -> InstanceRecord]
         /\ cache' \in [Instances -> AssetRecord] /\ SameEntries
         /\ \A j \in Instances : live'[j] = 0 /\ cache'[j].state # "active"
         /\ UNCHANGED <<transfers, lentVars, cb, blocks, epoch, page, pending, pageVars>>
<1>1. /\ owner = NoOwner /\ cb = "out"
      /\ inst' = [i \in Instances |-> [Built EXCEPT !.there = FALSE]]
      /\ live' = [i \in Instances |-> 0] /\ cache' = Refreshed(cache, inst', live')
      /\ UNCHANGED <<transfers, lentVars, cb, blocks, epoch, page, pending, pageVars>>
  BY DEF RebuildFails, Editable
<1>2. live' \in [Instances -> Numbers] /\ live' \in [Instances -> Nat]
      /\ \A j \in Instances : live'[j] = 0
  BY <1>1, AssetConstants DEF Numbers
<1>3. [Built EXCEPT !.there = FALSE] \in InstanceRecord
  BY DEF Built, InstanceRecord
<1>4. inst' \in [Instances -> InstanceRecord]
  BY <1>1, <1>3
<1>5. cache \in [Instances -> AssetRecord]
  BY DEF AssetInv, AssetKinds
<1> DEFINE in == inst'
           lv == live'
<1>6. cache' = Refreshed(cache, in, lv) /\ lv \in [Instances -> Nat]
      /\ \A j \in Instances : lv[j] = 0
  BY <1>1, <1>2
<1> HIDE DEF in, lv
<1>7. /\ cache' \in [Instances -> AssetRecord]
      /\ \A j \in Instances :
              /\ cache'[j].known = cache[j].known /\ cache'[j].bank = cache[j].bank
              /\ cache'[j].size = cache[j].size /\ cache'[j].rev = cache[j].rev
              /\ cache'[j].state # "active"
  BY <1>5, <1>6, RefreshedFacts
<1> QED BY <1>1, <1>2, <1>4, <1>7 DEF SameEntries

\* awaitBoundary(), its window, and the activation of a paged bank.
LEMMA ObserveFacts ==
  ASSUME AssetInv, NEW c \in Requests, Observe(c)
  PROVE  /\ calls[c].pc = "await" /\ owner = c
         /\ calls' \in [Requests -> CallRecord] /\ calls'[c].pc = "window"
         /\ \A d \in Requests : d # c => calls'[d] = calls[d]
         /\ UNCHANGED <<bankVars, cache, transfers, lentVars, cb, blocks, worldVars, reqs, latest>>
<1>1. /\ calls[c].pc = "await" /\ calls' = [calls EXCEPT ![c].pc = "window"]
      /\ UNCHANGED <<bankVars, cache, transfers, lentVars, cb, blocks, worldVars, reqs, latest>>
  BY DEF Observe
<1>2. AssetKinds
  BY DEF AssetInv
<1>3. /\ calls' \in [Requests -> CallRecord] /\ calls'[c].pc = "window"
      /\ \A d \in Requests : d # c => calls'[d] = calls[d]
  BY <1>1, <1>2, MoveFacts
<1> QED BY <1>1, <1>3, HolderFacts DEF Holding

LEMMA WindowFacts ==
  ASSUME AssetInv, NEW c \in Requests, ServeInWindow(c)
  PROVE  /\ calls[c].pc = "window" /\ owner = c /\ owner # NoOwner /\ cb = "out"
         /\ calls' \in [Requests -> CallRecord] /\ calls'[c].pc = "await"
         /\ \A d \in Requests : d # c => calls'[d] = calls[d]
         /\ \/ UNCHANGED <<inst, live, cache, slot, upd>>
            \/ /\ Outcome /\ slot' \in {"captured", "retired"} /\ ~upd.applied
               /\ upd'.applied => slot' = "retired"
         /\ UNCHANGED <<transfers, owner, cb, blocks, worldVars, reqs, latest>>
<1>1. /\ calls[c].pc = "window" /\ cb = "out" /\ calls' = [calls EXCEPT ![c].pc = "await"]
      /\ UNCHANGED <<transfers, owner, cb, blocks, worldVars, reqs, latest>>
      /\ IF Lent THEN Serve(Obsolete) ELSE UNCHANGED <<bankVars, cache, slot, upd>>
  BY DEF ServeInWindow
<1>2. AssetKinds /\ MessagesInv /\ LendInv /\ BankInv
  BY DEF AssetInv
<1>3. /\ calls' \in [Requests -> CallRecord] /\ calls'[c].pc = "await"
      /\ \A d \in Requests : d # c => calls'[d] = calls[d]
  BY <1>1, <1>2, MoveFacts
<1>4. owner = c /\ owner # NoOwner
  BY <1>1, HolderFacts DEF Holding
<1>5. Obsolete \in BOOLEAN
  BY DEF Obsolete
<1>6. CASE Lent
  BY <1>1, <1>2, <1>3, <1>4, <1>5, <1>6, ServeFacts
<1>7. CASE ~Lent
  BY <1>1, <1>3, <1>4, <1>7 DEF bankVars
<1> QED BY <1>6, <1>7

LEMMA ActivateFacts ==
  ASSUME AssetInv, NEW c \in Requests, Activate(c)
  PROVE  /\ calls[c].pc = "activate" /\ owner = c /\ owner # NoOwner /\ cb = "out"
         /\ slot = "captured" /\ Outcome /\ ~upd.applied
         /\ calls' \in [Requests -> CallRecord] /\ calls'[c].pc = "finish"
         /\ \A d \in Requests : d # c => calls'[d] = calls[d]
         /\ UNCHANGED <<transfers, owner, slot, cb, blocks, worldVars, reqs, latest>>
<1>1. /\ calls[c].pc = "activate" /\ cb = "out" /\ Applied
      /\ calls' = [calls EXCEPT ![c].pc = "finish"]
      /\ UNCHANGED <<transfers, owner, slot, cb, blocks, worldVars, reqs, latest>>
  BY DEF Activate
<1>2. AssetKinds /\ MessagesInv /\ LendInv /\ BankInv
  BY DEF AssetInv
<1>3. /\ calls' \in [Requests -> CallRecord] /\ calls'[c].pc = "finish"
      /\ \A d \in Requests : d # c => calls'[d] = calls[d]
  BY <1>1, <1>2, MoveFacts
<1>4. owner = c /\ owner # NoOwner
  BY <1>1, HolderFacts DEF Holding
<1>5. slot = "captured" /\ ~upd.applied
  BY <1>1, <1>2, <1>4 DEF LendInv
<1>6. Outcome
  BY <1>1, <1>2, <1>4, <1>5, AppliedFacts
<1> QED BY <1>1, <1>3, <1>4, <1>5, <1>6

\* The callback.
LEMMA LookFacts ==
  ASSUME AssetInv, Look
  PROVE  /\ cb' \in {"serve", "refuse"} /\ Lent /\ owner # NoOwner
         /\ calls[owner].pc \in {"await", "window"}
         /\ UNCHANGED <<bankVars, cache, transfers, lentVars, blocks, worldVars, pageVars>>
<1>1. /\ cb' \in {"serve", "refuse"} /\ Lent
      /\ UNCHANGED <<bankVars, cache, transfers, lentVars, blocks, worldVars, pageVars>>
  BY DEF Look
<1>2. owner # NoOwner
  BY <1>1 DEF AssetInv, LendInv, Lent
<1>3. calls[owner].pc \in Holding
  BY <1>2, UpdatedFacts DEF AssetInv
<1>4. calls[owner].pc \in {"await", "window"}
  BY <1>1, <1>2, <1>3 DEF AssetInv, LendInv, Lent, Holding
<1> QED BY <1>1, <1>2, <1>4

LEMMA BlockFacts ==
  ASSUME AssetInv, ServeInBlock
  PROVE  /\ cb # "out" /\ owner # NoOwner /\ calls[owner].pc \in {"await", "window"}
         /\ cb' = "out" /\ Outcome /\ slot' \in {"captured", "retired"} /\ ~upd.applied
         /\ upd'.applied => slot' = "retired"
         /\ UNCHANGED <<transfers, owner, blocks, worldVars, pageVars>>
<1>1. /\ cb # "out" /\ cb' = "out" /\ Serve(cb = "refuse")
      /\ UNCHANGED <<transfers, owner, blocks, worldVars, pageVars>>
  BY DEF ServeInBlock
<1>2. Lent /\ owner # NoOwner /\ calls[owner].pc \in {"await", "window"}
  BY <1>1 DEF AssetInv, LendInv, OneUserOfUpdate
<1>3. (cb = "refuse") \in BOOLEAN
  OBVIOUS
<1> QED BY <1>1, <1>2, <1>3, ServeFacts DEF AssetInv

\* What happens around the exchange.
LEMMA WorldFacts ==
  ASSUME AssetInv, Restore \/ NewPage \/ HostPlays
  PROVE  /\ epoch' \in Nat /\ page' \in Nat /\ blocks' \in BOOLEAN
         /\ UNCHANGED <<bankVars, cache, transfers, lentVars, cb, pageVars>>
<1>1. epoch \in Nat /\ page \in Nat /\ blocks \in BOOLEAN
  BY DEF AssetInv, AssetKinds
<1>2. CASE Restore
  BY <1>1, <1>2 DEF Restore
<1>3. CASE NewPage
  BY <1>1, <1>3 DEF NewPage
<1>4. CASE HostPlays
  <2>1. blocks' \in BOOLEAN
    BY <1>4 DEF HostPlays
  <2> QED BY <1>1, <1>4, <2>1 DEF HostPlays, worldVars
<1> QED BY <1>2, <1>3, <1>4

\* Requests once made stay what they are.
OldRequests ==
    /\ reqs' \in Seq(RequestRecord) /\ Len(reqs') <= MaxRequests
    /\ \A n \in DOMAIN reqs :
          /\ n \in DOMAIN reqs' /\ reqs'[n].i = reqs[n].i /\ reqs'[n].paged = reqs[n].paged
          /\ reqs'[n].page = reqs[n].page /\ reqs'[n].op = reqs[n].op
          /\ reqs[n].orphan => reqs'[n].orphan

LEMMA OldFromSame ==
  ASSUME AssetKinds, SameRequests
  PROVE  OldRequests
BY DEF AssetKinds, SameRequests, OldRequests

LEMMA OldFromAsks ==
  ASSUME AssetInv, NEW i \in Instances, NEW paged \in BOOLEAN,
         NEW next \in {"bytes", "done"}, Len(reqs) + 1 <= MaxRequests,
         reqs' = Asks(i, paged, next), UNCHANGED page
  PROVE  OldRequests /\ DOMAIN reqs' = 1..(Len(reqs) + 1)
<1>1. AssetKinds /\ NumbersInv
  BY DEF AssetInv
<1>2. /\ reqs' \in Seq(RequestRecord) /\ Len(reqs') = Len(reqs) + 1
      /\ DOMAIN reqs' = 1..(Len(reqs) + 1) /\ \A m \in DOMAIN reqs : reqs'[m] = reqs[m]
  BY <1>1, AsksFacts
<1>3. Len(reqs) \in Nat /\ DOMAIN reqs = 1..Len(reqs)
  BY <1>1, RequestTypes
<1>4. \A m \in DOMAIN reqs : m \in DOMAIN reqs'
  BY <1>2, <1>3
<1> QED BY <1>2, <1>4 DEF OldRequests

\* One request is added.
OneAsked ==
    \E i \in Instances, paged \in BOOLEAN, next \in {"bytes", "done"} :
       Len(reqs) + 1 <= MaxRequests /\ reqs' = Asks(i, paged, next) /\ UNCHANGED page

\* Every step adds one request or none.
LEMMA RequestsChange ==
  ASSUME AssetInv, [AssetNext]_assetVars
  PROVE  SameRequests \/ OneAsked
<1>1. ASSUME NEW i \in Instances, NEW paged \in BOOLEAN, BeginTransfer(i, paged)
      PROVE  SameRequests \/ OneAsked
  <2>1. Len(reqs) + 1 <= MaxRequests /\ reqs' = Asks(i, paged, "bytes") /\ UNCHANGED page
    BY <1>1, BeginFacts
  <2> QED BY <1>1, <2>1 DEF OneAsked
<1>2. ASSUME NEW i \in Instances, Clear(i)
      PROVE  SameRequests \/ OneAsked
  <2>1. Len(reqs) + 1 <= MaxRequests /\ reqs' = Asks(i, FALSE, "done") /\ UNCHANGED page
    BY <1>2, ClearFacts
  <2> QED BY <1>2, <2>1 DEF OneAsked
<1>3. ASSUME NEW c \in Requests, Continue(c)
      PROVE  SameRequests \/ OneAsked
  <2>1. UNCHANGED reqs
    BY <1>3, ContinueFacts DEF pageVars
  <2> QED BY <2>1, UnchangedRequests DEF AssetInv
<1>4. ASSUME NEW c \in Requests, AppendPiece(c)
      PROVE  SameRequests \/ OneAsked
  BY <1>4, PieceFacts DEF AssetInv, Quiet
<1>5. ASSUME NEW c \in Requests, Cancel(c)
      PROVE  SameRequests \/ OneAsked
  BY <1>5, CancelFacts DEF AssetInv, Quiet
<1>6. ASSUME NEW c \in Requests, Commit(c)
      PROVE  SameRequests \/ OneAsked
  BY <1>6, CommitFacts, UnchangedRequests DEF AssetInv, Quiet
<1>7. ASSUME NEW c \in Requests, SetAsset(c)
      PROVE  SameRequests \/ OneAsked
  BY <1>7, SetFacts DEF AssetInv, Quiet
<1>8. ASSUME NEW c \in Requests, ClearAsset(c)
      PROVE  SameRequests \/ OneAsked
  BY <1>8, ClearedFacts DEF AssetInv, Quiet
<1>9. ASSUME NEW c \in Requests, Create(c)
      PROVE  SameRequests \/ OneAsked
  BY <1>9, CreateFacts, UnchangedRequests DEF AssetInv, Quiet
<1>10. ASSUME NEW c \in Requests, Observe(c)
       PROVE  SameRequests \/ OneAsked
  <2>1. UNCHANGED reqs
    BY <1>10, ObserveFacts DEF pageVars
  <2> QED BY <2>1, UnchangedRequests DEF AssetInv
<1>11. ASSUME NEW c \in Requests, ServeInWindow(c)
       PROVE  SameRequests \/ OneAsked
  <2>1. UNCHANGED reqs
    BY <1>11, WindowFacts DEF pageVars
  <2> QED BY <2>1, UnchangedRequests DEF AssetInv
<1>12. ASSUME NEW c \in Requests, Prepare(c)
       PROVE  SameRequests \/ OneAsked
  <2>1. UNCHANGED reqs
    BY <1>12, PrepareFacts DEF pageVars
  <2> QED BY <2>1, UnchangedRequests DEF AssetInv
<1>13. ASSUME NEW c \in Requests, Activate(c)
       PROVE  SameRequests \/ OneAsked
  <2>1. UNCHANGED reqs
    BY <1>13, ActivateFacts DEF pageVars
  <2> QED BY <2>1, UnchangedRequests DEF AssetInv
<1>14. ASSUME NEW c \in Requests, FinishUpdate(c)
       PROVE  SameRequests \/ OneAsked
  BY <1>14, FinishFacts DEF AssetInv, Quiet
<1>15. CASE Look
  <2>1. UNCHANGED reqs
    BY <1>15, LookFacts DEF pageVars
  <2> QED BY <2>1, UnchangedRequests DEF AssetInv
<1>16. CASE ServeInBlock
  <2>1. UNCHANGED reqs
    BY <1>16, BlockFacts DEF pageVars
  <2> QED BY <2>1, UnchangedRequests DEF AssetInv
<1>17. CASE Rebuild
  BY <1>17, RebuildFacts
<1>18. CASE RebuildFails
  <2>1. UNCHANGED reqs
    BY <1>18, RebuildFailsFacts DEF pageVars
  <2> QED BY <2>1, UnchangedRequests DEF AssetInv
<1>19. CASE Restore \/ NewPage \/ HostPlays
  <2>1. UNCHANGED reqs
    BY <1>19, WorldFacts DEF pageVars
  <2> QED BY <2>1, UnchangedRequests DEF AssetInv
<1>20. CASE UNCHANGED assetVars
  BY <1>20, UnchangedRequests DEF AssetInv, assetVars
<1> QED BY <1>1, <1>2, <1>3, <1>4, <1>5, <1>6, <1>7, <1>8, <1>9, <1>10, <1>11, <1>12,
       <1>13, <1>14, <1>15, <1>16, <1>17, <1>18, <1>19, <1>20 DEF AssetNext, Proceed,
       Message, Exchange, Page, Block, World

\* Every step keeps the requests there are.
LEMMA RequestsKept ==
  ASSUME AssetInv, [AssetNext]_assetVars
  PROVE  OldRequests
<1>1. CASE SameRequests
  BY <1>1, OldFromSame DEF AssetInv
<1>2. CASE OneAsked
  BY <1>2, OldFromAsks DEF OneAsked
<1> QED BY <1>1, <1>2, RequestsChange

\* Numbers of operations when no request is added.
LEMMA NumbersSame ==
  ASSUME NumbersInv, SameRequests
  PROVE  NumbersInv'
<1>1. ASSUME NEW n \in DOMAIN reqs
      PROVE  {m \in DOMAIN reqs' : reqs'[m].page = reqs'[n].page} = Asked(reqs[n].page)
  BY DEF SameRequests, Asked
<1>2. ASSUME NEW n \in DOMAIN reqs
      PROVE  /\ n \in DOMAIN reqs' /\ reqs'[n].op = reqs[n].op
             /\ reqs[n].op \in 1..Cardinality(Asked(reqs[n].page))
  BY DEF SameRequests, NumbersInv
<1>4. \A n \in DOMAIN reqs' :
         reqs'[n].op \in 1..Cardinality({m \in DOMAIN reqs' : reqs'[m].page = reqs'[n].page})
  <2>1. DOMAIN reqs' = DOMAIN reqs
    BY DEF SameRequests
  <2> QED BY <1>1, <1>2, <2>1, Zenon
<1>3. \A m, n \in DOMAIN reqs' :
          reqs'[m].page = reqs'[n].page /\ reqs'[m].op = reqs'[n].op => m = n
  BY DEF SameRequests, NumbersInv
<1> QED BY <1>3, <1>4 DEF NumbersInv, Asked

\* A new request has a number its page has not used.
LEMMA NumbersAsk ==
  ASSUME AssetKinds, NumbersInv, NEW i \in Instances, NEW paged \in BOOLEAN,
         NEW next \in {"bytes", "done"}, Len(reqs) + 1 <= MaxRequests,
         reqs' = Asks(i, paged, next), UNCHANGED page
  PROVE  NumbersInv'
<1> DEFINE n == Len(reqs) + 1
           same(p) == {m \in DOMAIN reqs' : reqs'[m].page = p}
<1>1. /\ DOMAIN reqs' = 1..n /\ n \notin DOMAIN reqs
      /\ \A m \in DOMAIN reqs : reqs'[m] = reqs[m]
      /\ reqs'[n].page = page /\ reqs'[n].op = 1 + Cardinality(Asked(page))
  BY AsksFacts
<1>2. DOMAIN reqs = 1..Len(reqs) /\ Len(reqs) \in Nat
  BY RequestTypes
<1>3. DOMAIN reqs' = DOMAIN reqs \cup {n}
  BY <1>1, <1>2
<1>4. \A p : /\ IsFiniteSet(Asked(p)) /\ Cardinality(Asked(p)) \in Nat
             /\ Asked(p) \subseteq DOMAIN reqs
  <2>1. IsFiniteSet(DOMAIN reqs)
    BY <1>2, FS_Interval
  <2>2. \A p : Asked(p) \in SUBSET DOMAIN reqs
    BY DEF Asked
  <2> QED BY <2>1, <2>2, FS_Subset, FS_CardinalityType
<1> HIDE DEF n
<1>5. same(page) = Asked(page) \cup {n} /\ n \notin Asked(page)
  BY <1>1, <1>3 DEF Asked
<1>6. Cardinality(same(page)) = Cardinality(Asked(page)) + 1
  BY <1>4, <1>5, FS_AddElement
<1>7. \A p : p # page => same(p) = Asked(p)
  BY <1>1, <1>3 DEF Asked
<1>8. \A m \in DOMAIN reqs : reqs[m].op \in 1..Cardinality(Asked(reqs[m].page))
  BY DEF NumbersInv
<1>9. ASSUME NEW m \in DOMAIN reqs'
      PROVE  reqs'[m].op \in 1..Cardinality(same(reqs'[m].page))
  <2>1. CASE m = n
    <3>1. reqs'[m].page = page /\ reqs'[m].op = 1 + Cardinality(Asked(page))
      BY <1>1, <2>1
    <3>2. Cardinality(Asked(page)) \in Nat
      BY <1>4
    <3> HIDE DEF same
    <3>3. Cardinality(same(reqs'[m].page)) = Cardinality(Asked(page)) + 1
      BY <1>6, <3>1
    <3> QED BY <3>1, <3>2, <3>3
  <2>2. CASE m # n
    <3>1. m \in DOMAIN reqs /\ reqs'[m] = reqs[m]
      BY <1>1, <1>3, <2>2
    <3>2. CASE reqs[m].page = page
      <4>1. reqs[m].op \in 1..Cardinality(Asked(page))
        BY <1>8, <3>1, <3>2
      <4>2. Cardinality(same(reqs'[m].page)) = Cardinality(Asked(page)) + 1
        BY <1>6, <3>1, <3>2
      <4>3. Cardinality(Asked(page)) \in Nat
        BY <1>4
      <4> HIDE DEF same
      <4> QED BY <3>1, <4>1, <4>2, <4>3
    <3>3. CASE reqs[m].page # page
      BY <1>7, <1>8, <3>1, <3>3
    <3> QED BY <3>2, <3>3
  <2> QED BY <2>1, <2>2
<1>10. ASSUME NEW m \in DOMAIN reqs', NEW k \in DOMAIN reqs',
              reqs'[m].page = reqs'[k].page, reqs'[m].op = reqs'[k].op
       PROVE  m = k
  <2>1. \A q \in DOMAIN reqs : reqs[q].page = page => reqs[q].op # 1 + Cardinality(Asked(page))
    BY <1>4, <1>8
  <2>2. CASE m = n /\ k # n
    BY <1>1, <1>3, <1>10, <2>1, <2>2
  <2>3. CASE m # n /\ k = n
    BY <1>1, <1>3, <1>10, <2>1, <2>3
  <2>4. CASE m # n /\ k # n
    BY <1>1, <1>3, <1>10, <2>4 DEF NumbersInv
  <2> QED BY <2>2, <2>3, <2>4
<1> QED BY <1>9, <1>10 DEF NumbersInv, Asked

\* Every step keeps the operation numbers of a page apart.
LEMMA NumbersKept ==
  ASSUME AssetInv, [AssetNext]_assetVars
  PROVE  NumbersInv'
<1>1. CASE SameRequests
  BY <1>1, NumbersSame DEF AssetInv
<1>2. CASE OneAsked
  BY <1>2, NumbersAsk DEF AssetInv, OneAsked
<1> QED BY <1>1, <1>2, RequestsChange

-----------------------------------------------------------------------------
(* Every step keeps the invariant: what the variables range over.          *)

\* What the variables range over, the requests apart.
OtherKinds ==
    /\ inst \in [Instances -> InstanceRecord] /\ live \in [Instances -> Numbers]
    /\ cache \in [Instances -> AssetRecord] /\ transfers \in [Instances -> TransferRecord]
    /\ upd \in UpdateRecord /\ calls \in [Requests -> CallRecord]
    /\ latest \in [Instances -> Numbers]
PlainKinds ==
    /\ blocks \in BOOLEAN /\ epoch \in Nat /\ page \in Nat
    /\ owner \in 0..MaxRequests
    /\ slot \in {"idle", "requested", "captured", "prepared", "retired"}
    /\ cb \in {"out", "serve", "refuse"}

\* The two parts of the types, taken apart and put together.
LEMMA KindsSplit ==
  ASSUME AssetKinds
  PROVE  OtherKinds /\ PlainKinds
BY DEF AssetKinds, AssetTypeOK, OtherKinds, PlainKinds, InstanceRecord

\* A step that keeps both, and the requests, keeps the types.
LEMMA KindsJoin ==
  ASSUME OtherKinds', PlainKinds', OldRequests
  PROVE  AssetKinds'
BY DEF AssetKinds, AssetTypeOK, OtherKinds, PlainKinds, OldRequests, InstanceRecord,
   AssetRecord,
       TransferRecord

\* Every step keeps the types.
LEMMA TypesKept ==
  ASSUME AssetInv, [AssetNext]_assetVars
  PROVE  OtherKinds' /\ PlainKinds'
<1>1. ASSUME NEW i \in Instances, NEW paged \in BOOLEAN, BeginTransfer(i, paged)
      PROVE  OtherKinds' /\ PlainKinds'
  <2>1. OtherKinds'
    <3>1. OtherKinds /\ AssetKinds
      BY KindsSplit DEF AssetInv
    <3> QED BY <1>1, <3>1, BeginFacts, SupersededFacts DEF OtherKinds, Quiet, bankVars,
       lentVars, pageVars
  <2>2. PlainKinds'
    BY <1>1, BeginFacts, KindsSplit, AssetConstants DEF Numbers, AssetInv, PlainKinds,
       Outcome, lentVars, worldVars, NoOwner, Requests
  <2> QED BY <2>1, <2>2
<1>2. ASSUME NEW i \in Instances, Clear(i)
      PROVE  OtherKinds' /\ PlainKinds'
  <2>1. OtherKinds'
    <3>1. OtherKinds /\ AssetKinds
      BY KindsSplit DEF AssetInv
    <3> QED BY <1>2, <3>1, ClearFacts, SupersededFacts, AssetConstants DEF OtherKinds, Quiet,
       bankVars, lentVars, pageVars
  <2>2. PlainKinds'
    BY <1>2, ClearFacts, KindsSplit, AssetConstants DEF Numbers, AssetInv, PlainKinds,
       Outcome, lentVars, worldVars, NoOwner, Requests
  <2> QED BY <2>1, <2>2
<1>3. ASSUME NEW c \in Requests, Continue(c)
      PROVE  OtherKinds' /\ PlainKinds'
  <2>1. OtherKinds'
    BY <1>3, ContinueFacts, KindsSplit DEF AssetInv, OtherKinds, Quiet, Outcome, bankVars,
       lentVars, pageVars
  <2>2. PlainKinds'
    BY <1>3, ContinueFacts, KindsSplit, AssetConstants DEF AssetInv, PlainKinds, Outcome,
       lentVars, worldVars, NoOwner, Requests
  <2> QED BY <2>1, <2>2
<1>4. ASSUME NEW c \in Requests, AppendPiece(c)
      PROVE  OtherKinds' /\ PlainKinds'
  <2>1. OtherKinds'
    BY <1>4, PieceFacts, KindsSplit DEF AssetInv, OtherKinds, Quiet, Outcome, bankVars,
       lentVars, pageVars
  <2>2. PlainKinds'
    BY <1>4, PieceFacts, KindsSplit, AssetConstants DEF AssetInv, PlainKinds, Outcome,
       lentVars, worldVars, NoOwner, Requests
  <2> QED BY <2>1, <2>2
<1>5. ASSUME NEW c \in Requests, Cancel(c)
      PROVE  OtherKinds' /\ PlainKinds'
  <2>1. OtherKinds'
    <3>1. OtherKinds /\ AssetKinds
      BY KindsSplit DEF AssetInv
    <3> QED BY <1>5, <3>1, CancelFacts, AssetConstants DEF OtherKinds, Quiet, bankVars,
       lentVars, pageVars
  <2>2. PlainKinds'
    BY <1>5, CancelFacts, KindsSplit, AssetConstants DEF Numbers, AssetInv, PlainKinds,
       Outcome, lentVars, worldVars, NoOwner, Requests
  <2> QED BY <2>1, <2>2
<1>6. ASSUME NEW c \in Requests, Commit(c)
      PROVE  OtherKinds' /\ PlainKinds'
  <2>1. OtherKinds'
    <3>1. OtherKinds /\ AssetKinds
      BY KindsSplit DEF AssetInv
    <3> QED BY <1>6, <3>1, CommitFacts, AssetConstants DEF OtherKinds, Quiet, bankVars,
       lentVars, pageVars
  <2>2. PlainKinds'
    BY <1>6, CommitFacts, KindsSplit, AssetConstants DEF Numbers, AssetInv, PlainKinds,
       Outcome, lentVars, worldVars, NoOwner, Requests
  <2> QED BY <2>1, <2>2
<1>7. ASSUME NEW c \in Requests, SetAsset(c)
      PROVE  OtherKinds' /\ PlainKinds'
  <2>1. OtherKinds'
    BY <1>7, SetFacts, KindsSplit DEF AssetInv, OtherKinds, Quiet, Outcome, bankVars,
       lentVars, pageVars
  <2>2. PlainKinds'
    BY <1>7, SetFacts, KindsSplit, AssetConstants DEF AssetInv, PlainKinds, Outcome, lentVars,
       worldVars, NoOwner, Requests
  <2> QED BY <2>1, <2>2
<1>8. ASSUME NEW c \in Requests, ClearAsset(c)
      PROVE  OtherKinds' /\ PlainKinds'
  <2>1. OtherKinds'
    BY <1>8, ClearedFacts, KindsSplit DEF AssetInv, OtherKinds, Quiet, Outcome, bankVars,
       lentVars, pageVars
  <2>2. PlainKinds'
    BY <1>8, ClearedFacts, KindsSplit, AssetConstants DEF AssetInv, PlainKinds, Outcome,
       lentVars, worldVars, NoOwner, Requests
  <2> QED BY <2>1, <2>2
<1>9. ASSUME NEW c \in Requests, Create(c)
      PROVE  OtherKinds' /\ PlainKinds'
  <2>1. OtherKinds'
    BY <1>9, CreateFacts, KindsSplit DEF AssetInv, OtherKinds, Quiet, Outcome, bankVars,
       lentVars, pageVars
  <2>2. PlainKinds'
    BY <1>9, CreateFacts, KindsSplit, AssetConstants DEF AssetInv, PlainKinds, Outcome,
       lentVars, worldVars, NoOwner, Requests
  <2> QED BY <2>1, <2>2
<1>10. ASSUME NEW c \in Requests, Observe(c)
       PROVE  OtherKinds' /\ PlainKinds'
  <2>1. OtherKinds'
    BY <1>10, ObserveFacts, KindsSplit DEF AssetInv, OtherKinds, Quiet, Outcome, bankVars,
       lentVars, pageVars
  <2>2. PlainKinds'
    BY <1>10, ObserveFacts, KindsSplit, AssetConstants DEF AssetInv, PlainKinds, Outcome,
       lentVars, worldVars, NoOwner, Requests
  <2> QED BY <2>1, <2>2
<1>11. ASSUME NEW c \in Requests, ServeInWindow(c)
       PROVE  OtherKinds' /\ PlainKinds'
  <2>1. OtherKinds'
    BY <1>11, WindowFacts, KindsSplit DEF AssetInv, OtherKinds, Quiet, Outcome, bankVars,
       lentVars, pageVars
  <2>2. PlainKinds'
    BY <1>11, WindowFacts, KindsSplit, AssetConstants DEF AssetInv, PlainKinds, Outcome,
       lentVars, worldVars, NoOwner, Requests
  <2> QED BY <2>1, <2>2
<1>12. ASSUME NEW c \in Requests, Prepare(c)
       PROVE  OtherKinds' /\ PlainKinds'
  <2>1. OtherKinds'
    BY <1>12, PrepareFacts, KindsSplit DEF AssetInv, OtherKinds, Quiet, Outcome, bankVars,
       lentVars, pageVars
  <2>2. PlainKinds'
    BY <1>12, PrepareFacts, KindsSplit, AssetConstants DEF AssetInv, PlainKinds, Outcome,
       lentVars, worldVars, NoOwner, Requests
  <2> QED BY <2>1, <2>2
<1>13. ASSUME NEW c \in Requests, Activate(c)
       PROVE  OtherKinds' /\ PlainKinds'
  <2>1. OtherKinds'
    BY <1>13, ActivateFacts, KindsSplit DEF AssetInv, OtherKinds, Quiet, Outcome, bankVars,
       lentVars, pageVars
  <2>2. PlainKinds'
    BY <1>13, ActivateFacts, KindsSplit, AssetConstants DEF AssetInv, PlainKinds, Outcome,
       lentVars, worldVars, NoOwner, Requests
  <2> QED BY <2>1, <2>2
<1>14. ASSUME NEW c \in Requests, FinishUpdate(c)
       PROVE  OtherKinds' /\ PlainKinds'
  <2>1. OtherKinds'
    <3>1. OtherKinds /\ AssetKinds
      BY KindsSplit DEF AssetInv
    <3> QED BY <1>14, <3>1, FinishFacts, AssetConstants DEF OtherKinds, Quiet, bankVars,
       lentVars, pageVars
  <2>2. PlainKinds'
    BY <1>14, FinishFacts, KindsSplit, AssetConstants DEF Numbers, AssetInv, PlainKinds,
       Outcome, lentVars, worldVars, NoOwner, Requests
  <2> QED BY <2>1, <2>2
<1>15. CASE Look
  <2>1. OtherKinds'
    BY <1>15, LookFacts, KindsSplit DEF AssetInv, OtherKinds, Quiet, Outcome, bankVars,
       lentVars, pageVars
  <2>2. PlainKinds'
    BY <1>15, LookFacts, KindsSplit, AssetConstants DEF AssetInv, PlainKinds, Outcome,
       lentVars, worldVars, NoOwner, Requests
  <2> QED BY <2>1, <2>2
<1>16. CASE ServeInBlock
  <2>1. OtherKinds'
    BY <1>16, BlockFacts, KindsSplit DEF AssetInv, OtherKinds, Quiet, Outcome, bankVars,
       lentVars, pageVars
  <2>2. PlainKinds'
    BY <1>16, BlockFacts, KindsSplit, AssetConstants DEF AssetInv, PlainKinds, Outcome,
       lentVars, worldVars, NoOwner, Requests
  <2> QED BY <2>1, <2>2
<1>17. CASE Rebuild
  <2>1. OtherKinds'
    BY <1>17, RebuildFacts, KindsSplit DEF AssetInv, OtherKinds, Quiet, Outcome, bankVars,
       lentVars, pageVars
  <2>2. PlainKinds'
    BY <1>17, RebuildFacts, KindsSplit, AssetConstants DEF AssetInv, PlainKinds, Outcome,
       lentVars, worldVars, NoOwner, Requests
  <2> QED BY <2>1, <2>2
<1>18. CASE RebuildFails
  <2>1. OtherKinds'
    BY <1>18, RebuildFailsFacts, KindsSplit DEF AssetInv, OtherKinds, Quiet, Outcome,
       bankVars, lentVars, pageVars
  <2>2. PlainKinds'
    BY <1>18, RebuildFailsFacts, KindsSplit, AssetConstants DEF AssetInv, PlainKinds, Outcome,
       lentVars, worldVars, NoOwner, Requests
  <2> QED BY <2>1, <2>2
<1>19. CASE Restore \/ NewPage \/ HostPlays
  <2>1. OtherKinds'
    BY <1>19, WorldFacts, KindsSplit DEF AssetInv, OtherKinds, Quiet, Outcome, bankVars,
       lentVars, pageVars
  <2>2. PlainKinds'
    BY <1>19, WorldFacts, KindsSplit, AssetConstants DEF AssetInv, PlainKinds, Outcome,
       lentVars, worldVars, NoOwner, Requests
  <2> QED BY <2>1, <2>2
<1>20. CASE UNCHANGED assetVars
  <2>1. OtherKinds'
    BY <1>20, KindsSplit DEF AssetInv, OtherKinds, assetVars
  <2>2. PlainKinds'
    BY <1>20, KindsSplit DEF AssetInv, PlainKinds, assetVars
  <2> QED BY <2>1, <2>2
<1> QED BY <1>1, <1>2, <1>3, <1>4, <1>5, <1>6, <1>7, <1>8, <1>9, <1>10, <1>11, <1>12,
       <1>13, <1>14, <1>15, <1>16, <1>17, <1>18, <1>19, <1>20 DEF AssetNext, Proceed,
       Message, Exchange, Page, Block, World

\* Every step keeps the type invariant.
LEMMA AssetKindsKept ==
  ASSUME AssetInv, [AssetNext]_assetVars
  PROVE  AssetKinds'
BY TypesKept, RequestsKept, KindsJoin

-----------------------------------------------------------------------------
(* Every step keeps the invariant: messages, and who holds the update.     *)

\* Every step keeps messages with the requests they are about.
LEMMA MessagesKept ==
  ASSUME AssetInv, [AssetNext]_assetVars
  PROVE  MessagesInv'
<1>0. OldRequests /\ AssetKinds /\ MessagesInv /\ LendInv
  BY RequestsKept DEF AssetInv
<1>1. ASSUME NEW i \in Instances, NEW paged \in BOOLEAN, BeginTransfer(i, paged)
      PROVE  MessagesInv'
  BY <1>0, <1>1, BeginFacts DEF MessagesInv, MessageOf, OldRequests, Quiet, bankVars,
     lentVars, worldVars, pageVars
<1>2. ASSUME NEW i \in Instances, Clear(i)
      PROVE  MessagesInv'
  <2>1. Len(reqs) + 1 \in DOMAIN reqs'
    <3>1. Len(reqs) \in Nat
      BY <1>0, RequestTypes
    <3>2. DOMAIN reqs' = 1..(Len(reqs) + 1)
      BY <1>2, ClearFacts, OldFromAsks
    <3>3. Len(reqs) + 1 \in 1..(Len(reqs) + 1)
      BY <3>1
    <3> QED BY <3>2, <3>3
  <2> QED BY <1>0, <2>1, <1>2, ClearFacts DEF MessagesInv, MessageOf, OldRequests, bankVars,
     lentVars, worldVars, pageVars
<1>3. ASSUME NEW c \in Requests, Continue(c)
      PROVE  MessagesInv'
  BY <1>0, <1>3, ContinueFacts DEF MessagesInv, MessageOf, OldRequests, Quiet, bankVars,
     lentVars, worldVars, pageVars
<1>4. ASSUME NEW c \in Requests, AppendPiece(c)
      PROVE  MessagesInv'
  BY <1>0, <1>4, PieceFacts DEF MessagesInv, MessageOf, OldRequests, Quiet, bankVars,
     lentVars, worldVars, pageVars
<1>5. ASSUME NEW c \in Requests, Cancel(c)
      PROVE  MessagesInv'
  BY <1>0, <1>5, CancelFacts DEF MessagesInv, MessageOf, OldRequests, Quiet, bankVars,
     lentVars, worldVars, pageVars
<1>6. ASSUME NEW c \in Requests, Commit(c)
      PROVE  MessagesInv'
  BY <1>0, <1>6, CommitFacts DEF MessagesInv, MessageOf, OldRequests, Quiet, bankVars,
     lentVars, worldVars, pageVars
<1>7. ASSUME NEW c \in Requests, SetAsset(c)
      PROVE  MessagesInv'
  BY <1>0, <1>7, SetFacts DEF MessagesInv, MessageOf, OldRequests, Quiet, bankVars, lentVars,
     worldVars, pageVars
<1>8. ASSUME NEW c \in Requests, ClearAsset(c)
      PROVE  MessagesInv'
  BY <1>0, <1>8, ClearedFacts DEF MessagesInv, MessageOf, OldRequests, Quiet, bankVars,
     lentVars, worldVars, pageVars
<1>9. ASSUME NEW c \in Requests, Create(c)
      PROVE  MessagesInv'
  BY <1>0, <1>9, CreateFacts DEF MessagesInv, MessageOf, OldRequests, Quiet, bankVars,
     lentVars, worldVars, pageVars
<1>10. ASSUME NEW c \in Requests, Observe(c)
       PROVE  MessagesInv'
  BY <1>0, <1>10, ObserveFacts DEF MessagesInv, MessageOf, OldRequests, Quiet, bankVars,
     lentVars, worldVars, pageVars
<1>11. ASSUME NEW c \in Requests, ServeInWindow(c)
       PROVE  MessagesInv'
  BY <1>0, <1>11, WindowFacts DEF MessagesInv, MessageOf, OldRequests, Quiet, bankVars,
     lentVars, worldVars, pageVars
<1>12. ASSUME NEW c \in Requests, Prepare(c)
       PROVE  MessagesInv'
  BY <1>0, <1>12, PrepareFacts DEF MessagesInv, MessageOf, OldRequests, Quiet, bankVars,
     lentVars, worldVars, pageVars
<1>13. ASSUME NEW c \in Requests, Activate(c)
       PROVE  MessagesInv'
  BY <1>0, <1>13, ActivateFacts DEF MessagesInv, MessageOf, OldRequests, Quiet, bankVars,
     lentVars, worldVars, pageVars
<1>14. ASSUME NEW c \in Requests, FinishUpdate(c)
       PROVE  MessagesInv'
  <2>1. Quiet(c)
    BY <1>14, FinishFacts
  <2> QED BY <1>0, <2>1 DEF MessagesInv, MessageOf, OldRequests, Quiet
<1>15. CASE Look
  BY <1>0, <1>15, LookFacts DEF MessagesInv, MessageOf, OldRequests, Quiet, bankVars,
     lentVars, worldVars, pageVars
<1>16. CASE ServeInBlock
  BY <1>0, <1>16, BlockFacts DEF MessagesInv, MessageOf, OldRequests, Quiet, bankVars,
     lentVars, worldVars, pageVars
<1>17. CASE Rebuild
  BY <1>0, <1>17, RebuildFacts DEF MessagesInv, MessageOf, OldRequests, Quiet, bankVars,
     lentVars, worldVars, pageVars
<1>18. CASE RebuildFails
  BY <1>0, <1>18, RebuildFailsFacts DEF MessagesInv, MessageOf, OldRequests, Quiet, bankVars,
     lentVars, worldVars, pageVars
<1>19. CASE Restore \/ NewPage \/ HostPlays
  BY <1>0, <1>19, WorldFacts DEF MessagesInv, MessageOf, OldRequests, Quiet, bankVars,
     lentVars, worldVars, pageVars
<1>20. CASE UNCHANGED assetVars
  BY <1>0, <1>20 DEF MessagesInv, MessageOf, OldRequests, assetVars
<1> QED BY <1>1, <1>2, <1>3, <1>4, <1>5, <1>6, <1>7, <1>8, <1>9, <1>10, <1>11, <1>12,
       <1>13, <1>14, <1>15, <1>16, <1>17, <1>18, <1>19, <1>20 DEF AssetNext, Proceed,
       Message, Exchange, Page, Block, World

\* A step of a message that has nothing to do with the update under way.
LEMMA LendAside ==
  ASSUME LendInv, NEW c \in Requests, calls[c].pc \notin Holding, calls'[c].pc \notin Holding,
         \A d \in Requests : d # c => calls'[d] = calls[d], UNCHANGED <<lentVars, cb>>,
         owner \in 0..MaxRequests
  PROVE  LendInv'
<1>1. c # owner
  BY DEF LendInv
<1>2. owner # NoOwner => calls'[owner] = calls[owner]
  BY <1>1 DEF Requests, NoOwner
<1> QED BY <1>1, <1>2 DEF LendInv, OneUserOfUpdate, Lent, lentVars

\* Every step keeps the update with one message and one side.
LEMMA LendKept ==
  ASSUME AssetInv, [AssetNext]_assetVars
  PROVE  LendInv'
<1>0. OldRequests /\ AssetKinds /\ MessagesInv /\ LendInv
  BY RequestsKept DEF AssetInv
<1>1. ASSUME NEW i \in Instances, NEW paged \in BOOLEAN, BeginTransfer(i, paged)
      PROVE  LendInv'
  BY <1>0, <1>1, BeginFacts DEF LendInv, Holding, OneUserOfUpdate, Lent, Quiet, bankVars,
     lentVars, worldVars, pageVars
<1>2. ASSUME NEW i \in Instances, Clear(i)
      PROVE  LendInv'
  <2> DEFINE n == Len(reqs) + 1
  <2>1. n \in Requests /\ calls[n].pc = "idle"
    <3>1. Len(reqs) \in Nat /\ DOMAIN reqs = 1..Len(reqs) /\ n \in Requests
      BY <1>0, <1>2, ClearFacts, RequestTypes
    <3> QED BY <1>0, <3>1 DEF MessagesInv, MessageOf
  <2>2. /\ calls'[n].pc = "lock" /\ UNCHANGED <<lentVars, cb>>
        /\ \A d \in Requests : d # n => calls'[d] = calls[d]
    BY <1>2, ClearFacts
  <2> QED BY <1>0, <2>1, <2>2, LendAside DEF AssetKinds, AssetTypeOK, Holding
<1>3. ASSUME NEW c \in Requests, Continue(c)
      PROVE  LendInv'
  <2>1. /\ calls[c].pc \notin Holding /\ calls'[c].pc \notin Holding
        /\ \A d \in Requests : d # c => calls'[d] = calls[d]
        /\ UNCHANGED <<lentVars, cb>>
    BY <1>3, ContinueFacts DEF Quiet, Holding, pageVars
  <2> QED BY <1>0, <2>1, LendAside DEF AssetKinds, AssetTypeOK
<1>4. ASSUME NEW c \in Requests, AppendPiece(c)
      PROVE  LendInv'
  <2>1. /\ calls[c].pc \notin Holding /\ calls'[c].pc \notin Holding
        /\ \A d \in Requests : d # c => calls'[d] = calls[d]
        /\ UNCHANGED <<lentVars, cb>>
    BY <1>4, PieceFacts DEF Quiet, Holding, pageVars
  <2> QED BY <1>0, <2>1, LendAside DEF AssetKinds, AssetTypeOK
<1>5. ASSUME NEW c \in Requests, Cancel(c)
      PROVE  LendInv'
  <2>1. /\ calls[c].pc \notin Holding /\ calls'[c].pc \notin Holding
        /\ \A d \in Requests : d # c => calls'[d] = calls[d]
        /\ UNCHANGED <<lentVars, cb>>
    BY <1>5, CancelFacts DEF Quiet, Holding, pageVars
  <2> QED BY <1>0, <2>1, LendAside DEF AssetKinds, AssetTypeOK
<1>6. ASSUME NEW c \in Requests, Commit(c)
      PROVE  LendInv'
  <2>1. /\ calls[c].pc \notin Holding /\ calls'[c].pc \notin Holding
        /\ \A d \in Requests : d # c => calls'[d] = calls[d]
        /\ UNCHANGED <<lentVars, cb>>
    BY <1>6, CommitFacts DEF Quiet, Holding, pageVars
  <2> QED BY <1>0, <2>1, LendAside DEF AssetKinds, AssetTypeOK
<1>7. ASSUME NEW c \in Requests, SetAsset(c)
      PROVE  LendInv'
  <2>1. /\ calls[c].pc \notin Holding /\ calls'[c].pc \notin Holding
        /\ \A d \in Requests : d # c => calls'[d] = calls[d]
        /\ UNCHANGED <<lentVars, cb>>
    BY <1>7, SetFacts DEF Quiet, Holding, pageVars
  <2> QED BY <1>0, <2>1, LendAside DEF AssetKinds, AssetTypeOK
<1>8. ASSUME NEW c \in Requests, ClearAsset(c)
      PROVE  LendInv'
  <2>1. /\ calls[c].pc \notin Holding /\ calls'[c].pc \notin Holding
        /\ \A d \in Requests : d # c => calls'[d] = calls[d]
        /\ UNCHANGED <<lentVars, cb>>
    BY <1>8, ClearedFacts DEF Quiet, Holding, pageVars
  <2> QED BY <1>0, <2>1, LendAside DEF AssetKinds, AssetTypeOK
<1>9. ASSUME NEW c \in Requests, Create(c)
      PROVE  LendInv'
  <2>0. calls[c].pc \notin Holding /\ owner \in 0..MaxRequests /\ owner = NoOwner /\ UNCHANGED cb
    BY <1>0, <1>9, CreateFacts DEF Holding, AssetKinds, AssetTypeOK
  <2>1. CASE Quiet(c) /\ UNCHANGED lentVars
    BY <1>0, <2>0, <2>1, LendAside DEF Quiet, Holding
  <2>2. CASE ~(Quiet(c) /\ UNCHANGED lentVars)
    <3>1. /\ owner' = c /\ slot' = "requested" /\ ~upd'.applied /\ calls'[c].pc = "await"
          /\ \A d \in Requests : d # c => calls'[d] = calls[d]
      BY <1>9, CreateFacts, <2>2
    <3>2. c # NoOwner
      BY DEF Requests, NoOwner
    <3>3. cb = "out" /\ \A d \in Requests : calls[d].pc \notin Holding
      BY <1>0, <2>0 DEF LendInv, OneUserOfUpdate, Requests, NoOwner
    <3>4. \A d \in Requests : calls'[d].pc \in Holding <=> owner' = d
      BY <3>1, <3>3 DEF Holding
    <3> QED BY <2>0, <3>1, <3>2, <3>3, <3>4 DEF LendInv, OneUserOfUpdate
  <2> QED BY <2>1, <2>2
<1>10. ASSUME NEW c \in Requests, Observe(c)
       PROVE  LendInv'
  BY <1>0, <1>10, ObserveFacts DEF LendInv, Holding, OneUserOfUpdate, Lent, Quiet, bankVars,
     lentVars, worldVars, pageVars
<1>11. ASSUME NEW c \in Requests, ServeInWindow(c)
       PROVE  LendInv'
  BY <1>0, <1>11, WindowFacts DEF LendInv, Holding, OneUserOfUpdate, Lent, Quiet, bankVars,
     lentVars, worldVars, pageVars
<1>12. ASSUME NEW c \in Requests, Prepare(c)
       PROVE  LendInv'
  BY <1>0, <1>12, PrepareFacts DEF LendInv, Holding, OneUserOfUpdate, Lent, Quiet, bankVars,
     lentVars, worldVars, pageVars
<1>13. ASSUME NEW c \in Requests, Activate(c)
       PROVE  LendInv'
  BY <1>0, <1>13, ActivateFacts DEF LendInv, Holding, OneUserOfUpdate, Lent, Quiet, bankVars,
     lentVars, worldVars, pageVars
<1>14. ASSUME NEW c \in Requests, FinishUpdate(c)
       PROVE  LendInv'
  <2>1. /\ owner = c /\ owner' = NoOwner /\ slot' = "idle" /\ upd' = NoAssetUpdate
        /\ slot \notin {"requested", "prepared"} /\ UNCHANGED cb /\ calls'[c].pc = "idle"
        /\ \A d \in Requests : d # c => calls'[d] = calls[d]
    BY <1>14, FinishFacts DEF Quiet
  <2>2. cb = "out" /\ \A d \in Requests : calls'[d].pc \notin Holding
    BY <1>0, <2>1 DEF LendInv, OneUserOfUpdate, Lent, Holding
  <2> QED BY <2>1, <2>2 DEF LendInv, OneUserOfUpdate, NoAssetUpdate, Requests, NoOwner
<1>15. CASE Look
  BY <1>0, <1>15, LookFacts DEF LendInv, Holding, OneUserOfUpdate, Lent, Quiet, bankVars,
     lentVars, worldVars, pageVars
<1>16. CASE ServeInBlock
  BY <1>0, <1>16, BlockFacts DEF LendInv, Holding, OneUserOfUpdate, Lent, Quiet, bankVars,
     lentVars, worldVars, pageVars
<1>17. CASE Rebuild
  BY <1>0, <1>17, RebuildFacts DEF LendInv, Holding, OneUserOfUpdate, Lent, Quiet, bankVars,
     lentVars, worldVars, pageVars
<1>18. CASE RebuildFails
  BY <1>0, <1>18, RebuildFailsFacts DEF LendInv, Holding, OneUserOfUpdate, Lent, Quiet,
     bankVars, lentVars, worldVars, pageVars
<1>19. CASE Restore \/ NewPage \/ HostPlays
  BY <1>0, <1>19, WorldFacts DEF LendInv, Holding, OneUserOfUpdate, Lent, Quiet, bankVars,
     lentVars, worldVars, pageVars
<1>20. CASE UNCHANGED assetVars
  BY <1>0, <1>20 DEF LendInv, Holding, OneUserOfUpdate, Lent, assetVars
<1> QED BY <1>1, <1>2, <1>3, <1>4, <1>5, <1>6, <1>7, <1>8, <1>9, <1>10, <1>11, <1>12,
       <1>13, <1>14, <1>15, <1>16, <1>17, <1>18, <1>19, <1>20 DEF AssetNext, Proceed,
       Message, Exchange, Page, Block, World

-----------------------------------------------------------------------------
(* Every step keeps the invariant: what the engine plays.                  *)

\* The instance of an update does not change while the update is under way.
StillUpdated ==
    /\ owner # NoOwner => Updated \in Instances
    /\ owner # NoOwner /\ UNCHANGED owner => Updated' = Updated

\* Whoever holds the update, its request stays the same.
LEMMA StillTheSame ==
  ASSUME AssetInv, [AssetNext]_assetVars
  PROVE  StillUpdated
<1>1. OldRequests
  BY RequestsKept
<1>2. owner # NoOwner => owner \in DOMAIN reqs /\ Updated \in Instances
  BY UpdatedFacts DEF AssetInv
<1> QED BY <1>1, <1>2 DEF StillUpdated, OldRequests, Updated

\* A step that leaves the engine and the update alone.
LEMMA LiveAside ==
  ASSUME LiveInv, LendInv, StillUpdated, UNCHANGED <<inst, live, owner, upd>>,
         \A j \in Instances : cache'[j].bank = cache[j].bank /\ cache'[j].state = cache[j].state
  PROVE  LiveInv'
<1>1. owner # NoOwner => Updated' = Updated /\ (Supports(Updated))'
  BY DEF StillUpdated, LiveInv, Supports
<1>2. upd.applied => owner # NoOwner
  BY DEF LendInv
<1> QED BY <1>1, <1>2 DEF LiveInv, LiveOf

\* A step by which the engine or the update changes as its boundary says.
LEMMA LiveOutcome ==
  ASSUME AssetKinds, LiveInv, StillUpdated, Outcome, owner # NoOwner, UNCHANGED owner, ~upd.applied
  PROVE  LiveInv'
<1>1. Updated' = Updated /\ Updated \in Instances
  BY DEF StillUpdated
<1>2. Supports(Updated) /\ Supports(Updated)'
  BY <1>1 DEF LiveInv, Supports, Outcome, SamePlaces
<1>3. upd'.applied => live'[Updated'] = upd'.bank.n
  BY <1>1 DEF Outcome, SameUpdate
<1>4. ASSUME NEW j \in Instances
      PROVE  LiveOf(j)'
  <2>1. CASE j = Updated
    BY <1>1, <1>2, <2>1 DEF LiveInv, LiveOf, Outcome, SameEntries, SamePlaces, Supports
  <2>2. CASE j # Updated
    BY <2>2 DEF LiveInv, LiveOf, Outcome, SameEntries, SamePlaces
  <2> QED BY <2>1, <2>2
<1> QED BY <1>2, <1>3, <1>4 DEF LiveInv

\* Every step keeps what the engine plays in the cache, or about to be.
LEMMA LiveKept ==
  ASSUME AssetInv, [AssetNext]_assetVars
  PROVE  LiveInv'
<1>0. AssetKinds /\ LendInv /\ LiveInv /\ StillUpdated
  BY StillTheSame DEF AssetInv
<1>1. ASSUME NEW i \in Instances, NEW paged \in BOOLEAN, BeginTransfer(i, paged)
      PROVE  LiveInv'
  <2>1. UNCHANGED <<inst, live, owner, upd>> /\ cache' = Superseded(i)
    BY <1>1, BeginFacts DEF bankVars, lentVars
  <2>2. \A j \in Instances : cache'[j].bank = cache[j].bank /\ cache'[j].state = cache[j].state
    BY <1>0, <1>1, <2>1, SupersededFacts
  <2> QED BY <1>0, <2>1, <2>2, LiveAside
<1>2. ASSUME NEW i \in Instances, Clear(i)
      PROVE  LiveInv'
  <2>1. UNCHANGED <<inst, live, owner, upd>> /\ cache' = Superseded(i)
    BY <1>2, ClearFacts DEF bankVars, lentVars
  <2>2. \A j \in Instances : cache'[j].bank = cache[j].bank /\ cache'[j].state = cache[j].state
    BY <1>0, <1>2, <2>1, SupersededFacts
  <2> QED BY <1>0, <2>1, <2>2, LiveAside
<1>3. ASSUME NEW c \in Requests, Continue(c)
      PROVE  LiveInv'
  <2>1. UNCHANGED <<inst, live, owner, upd, cache>>
    BY <1>3, ContinueFacts DEF bankVars, lentVars
  <2> QED BY <1>0, <2>1, LiveAside
<1>4. ASSUME NEW c \in Requests, AppendPiece(c)
      PROVE  LiveInv'
  <2>1. UNCHANGED <<inst, live, owner, upd, cache>>
    BY <1>4, PieceFacts DEF bankVars, lentVars
  <2> QED BY <1>0, <2>1, LiveAside
<1>5. ASSUME NEW c \in Requests, Cancel(c)
      PROVE  LiveInv'
  <2>1. UNCHANGED <<inst, live, owner, upd, cache>>
    BY <1>5, CancelFacts DEF bankVars, lentVars
  <2> QED BY <1>0, <2>1, LiveAside
<1>6. ASSUME NEW c \in Requests, Commit(c)
      PROVE  LiveInv'
  <2>1. UNCHANGED <<inst, live, owner, upd, cache>>
    BY <1>6, CommitFacts DEF bankVars, lentVars
  <2> QED BY <1>0, <2>1, LiveAside
<1>7. ASSUME NEW c \in Requests, SetAsset(c)
      PROVE  LiveInv'
  <2>1. owner = NoOwner /\ owner' = NoOwner /\ ~upd.applied /\ ~upd'.applied /\ UNCHANGED inst
    BY <1>0, <1>7, SetFacts DEF LendInv, lentVars
  <2>2. CASE UNCHANGED <<live, cache>>
    BY <1>0, <2>1, <2>2 DEF LiveInv, LiveOf
  <2>3. CASE ~UNCHANGED <<live, cache>>
    BY <1>0, <1>7, SetFacts, <2>1, <2>3 DEF LiveInv, LiveOf
  <2> QED BY <2>2, <2>3
<1>8. ASSUME NEW c \in Requests, ClearAsset(c)
      PROVE  LiveInv'
  <2>1. owner = NoOwner /\ owner' = NoOwner /\ ~upd.applied /\ ~upd'.applied
    BY <1>0, <1>8, ClearedFacts DEF LendInv, lentVars
  <2> QED BY <1>0, <1>8, ClearedFacts, <2>1 DEF LiveInv, LiveOf, SamePlaces
<1>9. ASSUME NEW c \in Requests, Create(c)
      PROVE  LiveInv'
  <2>1. /\ owner = NoOwner /\ ~upd.applied /\ UNCHANGED <<inst, live, cache>>
        /\ reqs[c].i \in Instances /\ Supports(reqs[c].i) /\ c \in DOMAIN reqs
    BY <1>0, <1>9, CreateFacts DEF LendInv, bankVars
  <2>2. /\ ~upd'.applied
        /\ owner' = NoOwner \/ (owner' = c /\ reqs' = reqs)
    BY <1>9, CreateFacts, <2>1 DEF lentVars
  <2>3. owner' # NoOwner => Supports(Updated)'
    BY <2>1, <2>2 DEF Updated, Supports
  <2> QED BY <1>0, <2>1, <2>2, <2>3 DEF LiveInv, LiveOf
<1>10. ASSUME NEW c \in Requests, Observe(c)
       PROVE  LiveInv'
  <2>1. UNCHANGED <<inst, live, owner, upd, cache>>
    BY <1>10, ObserveFacts DEF bankVars, lentVars
  <2> QED BY <1>0, <2>1, LiveAside
<1>11. ASSUME NEW c \in Requests, ServeInWindow(c)
       PROVE  LiveInv'
  <2>1. CASE UNCHANGED <<inst, live, cache, upd>>
    BY <1>0, <1>11, WindowFacts, <2>1, LiveAside
  <2>2. CASE ~UNCHANGED <<inst, live, cache, upd>>
    BY <1>0, <1>11, WindowFacts, <2>2, LiveOutcome
  <2> QED BY <2>1, <2>2
<1>12. ASSUME NEW c \in Requests, Prepare(c)
       PROVE  LiveInv'
  <2>1. UNCHANGED <<inst, live, cache, owner>> /\ owner # NoOwner /\ ~upd'.applied /\ ~upd.applied
    BY <1>0, <1>12, PrepareFacts DEF bankVars, LendInv
  <2> QED BY <1>0, <2>1 DEF LiveInv, LiveOf, StillUpdated, Supports
<1>13. ASSUME NEW c \in Requests, Activate(c)
       PROVE  LiveInv'
  BY <1>0, <1>13, ActivateFacts, LiveOutcome
<1>14. ASSUME NEW c \in Requests, FinishUpdate(c)
       PROVE  LiveInv'
  <2>1. /\ UNCHANGED <<inst, live>> /\ owner' = NoOwner /\ ~upd'.applied /\ Updated \in Instances
        /\ \A j \in Instances : /\ j # Updated => cache'[j] = cache[j]
                                /\ cache'[j].state = cache[j].state
        /\ upd.applied => cache'[Updated].bank = upd.bank.n
        /\ ~upd.applied => UNCHANGED cache
    <3>1. upd' = NoAssetUpdate
      BY <1>14, FinishFacts
    <3>2. ~upd'.applied
      BY <3>1 DEF NoAssetUpdate
    <3> QED BY <1>14, FinishFacts, <3>2 DEF bankVars
  <2> QED BY <1>0, <2>1 DEF LiveInv, LiveOf
<1>15. CASE Look
  <2>1. UNCHANGED <<inst, live, owner, upd, cache>>
    BY <1>15, LookFacts DEF bankVars, lentVars
  <2> QED BY <1>0, <2>1, LiveAside
<1>16. CASE ServeInBlock
  BY <1>0, <1>16, BlockFacts, LiveOutcome
<1>17. CASE Rebuild
  <2>1. owner = NoOwner /\ owner' = NoOwner /\ ~upd.applied /\ ~upd'.applied
    BY <1>0, <1>17, RebuildFacts DEF LendInv, lentVars
  <2> QED BY <1>0, <1>17, RebuildFacts, <2>1 DEF LiveInv, LiveOf
<1>18. CASE RebuildFails
  <2>1. owner = NoOwner /\ owner' = NoOwner /\ ~upd.applied /\ ~upd'.applied
    BY <1>0, <1>18, RebuildFailsFacts DEF LendInv, lentVars
  <2> QED BY <1>0, <1>18, RebuildFailsFacts, <2>1 DEF LiveInv, LiveOf
<1>19. CASE Restore \/ NewPage \/ HostPlays
  <2>1. UNCHANGED <<inst, live, owner, upd, cache>>
    BY <1>19, WorldFacts DEF bankVars, lentVars
  <2> QED BY <1>0, <2>1, LiveAside
<1>20. CASE UNCHANGED assetVars
  <2>1. UNCHANGED <<inst, live, owner, upd, cache>>
    BY <1>20 DEF assetVars
  <2> QED BY <1>0, <2>1, LiveAside
<1> QED BY <1>1, <1>2, <1>3, <1>4, <1>5, <1>6, <1>7, <1>8, <1>9, <1>10, <1>11, <1>12,
       <1>13, <1>14, <1>15, <1>16, <1>17, <1>18, <1>19, <1>20 DEF AssetNext, Proceed,
       Message, Exchange, Page, Block, World

-----------------------------------------------------------------------------
(* Every step keeps the invariant: memory.                                 *)

\* The memory of a kind, when no entry takes more than before, and when none
\* takes anything else.
LEMMA NoMoreCached ==
  ASSUME AssetKinds, AssetKinds', NEW i \in Instances,
         \A j \in Instances : cache'[j].size <= cache[j].size
  PROVE  /\ Cached(Mates(i))' <= Cached(Mates(i))
         /\ Cached(Mates(i))' \in Nat /\ Cached(Mates(i)) \in Nat
<1>1. Sized(cache) /\ Sized(cache')
  BY DEF AssetKinds, AssetRecord, Sized
<1>2. Mates(i) \in SUBSET Instances
  BY RemainingType
<1>3. Cardinality(Pieces(cache', Mates(i))) <= Cardinality(Pieces(cache, Mates(i)))
  BY <1>1, <1>2, PiecesGrow
<1>4. Cardinality(Pieces(cache', Mates(i))) \in Nat /\ Cardinality(Pieces(cache, Mates(i))) \in Nat
  BY <1>1, <1>2, PiecesAreFinite
<1> QED BY <1>3, <1>4 DEF Cached, Mates

\* The same for any instances at all.
LEMMA AsMuchCached ==
  ASSUME NEW is \in SUBSET Instances, \A j \in Instances : cache'[j].size = cache[j].size
  PROVE  Cardinality(Pieces(cache', is)) = Cardinality(Pieces(cache, is))
BY SamePieces

\* The memory left, whatever the primes are about.
LEMMA SameRemaining ==
  ASSUME NEW i \in Instances, \A j \in Instances : cache'[j].size = cache[j].size
  PROVE  Remaining(i)' = Remaining(i) /\ Cached(Mates(i))' = Cached(Mates(i))
<1>1. Mates(i) \in SUBSET Instances /\ Mates(i) \ {i} \in SUBSET Instances
  BY AssetConstants DEF Mates
<1> QED BY <1>1, AsMuchCached DEF Remaining, Cached, Mates

\* Where the sizes in the cache stay, the update may be in any phase.
LEMMA MemoryAside ==
  ASSUME MemoryInv, StillUpdated, UNCHANGED owner, owner # NoOwner => SameUpdate,
         \A j \in Instances : cache'[j].size = cache[j].size
  PROVE  MemoryInv'
<1>1. WithinBudget'
  BY SameRemaining DEF MemoryInv, WithinBudget
<1>2. CASE owner = NoOwner
  BY <1>1, <1>2 DEF MemoryInv
<1>3. CASE owner # NoOwner
  <2>1. Updated' = Updated /\ Updated \in Instances /\ Remaining(Updated)' = Remaining(Updated)
    BY <1>3, SameRemaining DEF StillUpdated
  <2>2. Remaining(Updated)' = upd'.limit
    BY <1>3, <2>1 DEF MemoryInv, SameUpdate
  <2> QED BY <1>1, <1>3, <2>2 DEF MemoryInv, SameUpdate
<1> QED BY <1>2, <1>3

\* The cache takes a bank for which there is memory left.
LEMMA MemoryTaken ==
  ASSUME AssetKinds, AssetKinds', WithinBudget, NEW i \in Instances,
         cache'[i].size <= Remaining(i),
         \A j \in Instances : j # i => cache'[j].size = cache[j].size
  PROVE  WithinBudget'
<1>1. /\ Remaining(i) = Budget - Cached(Mates(i) \ {i}) /\ Cached(Mates(i) \ {i}) \in Nat
      /\ Budget \in Nat /\ cache'[i].size \in Nat /\ i \in Mates(i)
      /\ Sized(cache') /\ Mates(i) \in SUBSET Instances
  BY RemainingType, AssetConstants DEF Remaining, AssetKinds, AssetRecord, Sized
<1>2. Cardinality(Pieces(cache', Mates(i)))
         = Cardinality(Pieces(cache', Mates(i) \ {i})) + cache'[i].size
  BY <1>1, PiecesSplit
<1>3. Pieces(cache', Mates(i) \ {i}) = Pieces(cache, Mates(i) \ {i})
  BY <1>1, SamePieces
<1>4. Cardinality(Pieces(cache', Mates(i))) <= Budget
  BY <1>1, <1>2, <1>3 DEF Cached
<1>5. ASSUME NEW k \in Instances
      PROVE  Cardinality(Pieces(cache', Mates(k))) <= Budget
  <2>1. CASE i \in Mates(k)
    BY <1>4, <2>1 DEF Mates
  <2>2. CASE i \notin Mates(k)
    <3>1. \A j \in Mates(k) : cache'[j].size = cache[j].size
      BY <2>2, RemainingType
    <3>2. Pieces(cache', Mates(k)) = Pieces(cache, Mates(k))
      BY <3>1, SamePieces
    <3> QED BY <3>2 DEF WithinBudget, Cached
  <2> QED BY <2>1, <2>2
<1> QED BY <1>5 DEF WithinBudget, Cached, Mates

\* Every step keeps the banks of the cache within their memory.
LEMMA MemoryKept ==
  ASSUME AssetInv, [AssetNext]_assetVars
  PROVE  MemoryInv'
<1>0. AssetKinds /\ AssetKinds' /\ LendInv /\ MemoryInv /\ StillUpdated
  BY StillTheSame, AssetKindsKept DEF AssetInv
<1>1. ASSUME NEW i \in Instances, NEW paged \in BOOLEAN, BeginTransfer(i, paged)
      PROVE  MemoryInv'
  <2>1. UNCHANGED <<owner, upd>> /\ cache' = Superseded(i)
    BY <1>1, BeginFacts DEF lentVars
  <2>2. \A j \in Instances : cache'[j].size = cache[j].size
    BY <1>0, <1>1, <2>1, SupersededFacts
  <2> QED BY <1>0, <2>1, <2>2, MemoryAside DEF SameUpdate
<1>2. ASSUME NEW i \in Instances, Clear(i)
      PROVE  MemoryInv'
  <2>1. UNCHANGED <<owner, upd>> /\ cache' = Superseded(i)
    BY <1>2, ClearFacts DEF lentVars
  <2>2. \A j \in Instances : cache'[j].size = cache[j].size
    BY <1>0, <1>2, <2>1, SupersededFacts
  <2> QED BY <1>0, <2>1, <2>2, MemoryAside DEF SameUpdate
<1>3. ASSUME NEW c \in Requests, Continue(c)
      PROVE  MemoryInv'
  <2>1. UNCHANGED <<owner, upd, cache>>
    BY <1>3, ContinueFacts DEF lentVars
  <2> QED BY <1>0, <2>1, MemoryAside DEF SameUpdate
<1>4. ASSUME NEW c \in Requests, AppendPiece(c)
      PROVE  MemoryInv'
  <2>1. UNCHANGED <<owner, upd, cache>>
    BY <1>4, PieceFacts DEF lentVars
  <2> QED BY <1>0, <2>1, MemoryAside DEF SameUpdate
<1>5. ASSUME NEW c \in Requests, Cancel(c)
      PROVE  MemoryInv'
  <2>1. UNCHANGED <<owner, upd, cache>>
    BY <1>5, CancelFacts DEF lentVars
  <2> QED BY <1>0, <2>1, MemoryAside DEF SameUpdate
<1>6. ASSUME NEW c \in Requests, Commit(c)
      PROVE  MemoryInv'
  <2>1. UNCHANGED <<owner, upd, cache>>
    BY <1>6, CommitFacts DEF lentVars
  <2> QED BY <1>0, <2>1, MemoryAside DEF SameUpdate
<1>7. ASSUME NEW c \in Requests, SetAsset(c)
      PROVE  MemoryInv'
  <2>1. owner = NoOwner /\ owner' = NoOwner /\ UNCHANGED upd
    BY <1>7, SetFacts DEF lentVars
  <2>2. CASE UNCHANGED cache
    BY <1>0, <2>1, <2>2, MemoryAside DEF SameUpdate
  <2>3. CASE ~UNCHANGED cache
    <3>1. /\ reqs[c].i \in Instances /\ cache'[reqs[c].i].size <= Remaining(reqs[c].i)
          /\ \A j \in Instances : j # reqs[c].i => cache'[j].size = cache[j].size
      BY <1>7, SetFacts, <2>3
    <3>2. WithinBudget'
      BY <1>0, <3>1, MemoryTaken DEF MemoryInv
    <3> QED BY <2>1, <3>2 DEF MemoryInv
  <2> QED BY <2>2, <2>3
<1>8. ASSUME NEW c \in Requests, ClearAsset(c)
      PROVE  MemoryInv'
  <2>1. owner' = NoOwner
    BY <1>8, ClearedFacts DEF lentVars
  <2>0. \A j \in Instances : cache[j].size \in Nat
    BY <1>0 DEF AssetKinds, AssetRecord
  <2>2. \A j \in Instances : cache'[j].size <= cache[j].size
    BY <1>8, ClearedFacts, <2>0
  <2>3. \A j \in Instances : /\ Cached(Mates(j))' <= Cached(Mates(j)) /\ Cached(Mates(j)) \in Nat
                            /\ Cached(Mates(j))' \in Nat /\ Budget \in Nat
    BY <1>0, <2>2, NoMoreCached, AssetConstants
  <2>4. WithinBudget'
    BY <1>0, <2>3 DEF MemoryInv, WithinBudget
  <2> QED BY <2>1, <2>4 DEF MemoryInv
<1>9. ASSUME NEW c \in Requests, Create(c)
      PROVE  MemoryInv'
  <2>1. /\ owner = NoOwner /\ UNCHANGED cache /\ reqs[c].i \in Instances
        /\ calls[c].take.n = 0 => calls[c].take.size = 0
    BY <1>9, CreateFacts, LockedFacts
  <2>2. CASE UNCHANGED lentVars
    BY <1>0, <2>1, <2>2, MemoryAside DEF SameUpdate, lentVars
  <2>3. CASE ~UNCHANGED lentVars
    <3>1. /\ owner' = c /\ UNCHANGED reqs
          /\ upd'.limit = Remaining(reqs[c].i) /\ upd'.size = calls[c].take.size
          /\ upd'.bank = calls[c].take
          /\ calls[c].take.n # 0 => calls[c].take.size <= Remaining(reqs[c].i)
      BY <1>9, CreateFacts, <2>3
    <3>2. WithinBudget' /\ Remaining(reqs[c].i)' = Remaining(reqs[c].i)
      BY <1>0, <2>1, <3>1, SameRemaining DEF MemoryInv, WithinBudget
    <3>3. Updated' = reqs[c].i /\ Remaining(Updated)' = Remaining(reqs[c].i)
      BY <2>1, <3>1, <3>2 DEF Updated, Remaining, Cached
    <3> QED BY <2>1, <3>1, <3>2, <3>3 DEF MemoryInv
  <2> QED BY <2>2, <2>3
<1>10. ASSUME NEW c \in Requests, Observe(c)
       PROVE  MemoryInv'
  <2>1. UNCHANGED <<owner, upd, cache>>
    BY <1>10, ObserveFacts DEF lentVars
  <2> QED BY <1>0, <2>1, MemoryAside DEF SameUpdate
<1>11. ASSUME NEW c \in Requests, ServeInWindow(c)
       PROVE  MemoryInv'
  <2>1. UNCHANGED owner /\ SameUpdate /\ \A j \in Instances : cache'[j].size = cache[j].size
    BY <1>0, <1>11, WindowFacts DEF Outcome, SameEntries, SameUpdate
  <2> QED BY <1>0, <2>1, MemoryAside
<1>12. ASSUME NEW c \in Requests, Prepare(c)
       PROVE  MemoryInv'
  <2>1. UNCHANGED <<owner, cache>> /\ owner # NoOwner /\ upd'.bank = upd.bank
        /\ upd'.limit = upd.limit /\ (upd.bank.n = 0 => upd'.size = upd.size)
        /\ (upd'.size = upd.size \/ upd'.size <= upd.limit)
    BY <1>12, PrepareFacts
  <2>2. Updated' = Updated /\ Updated \in Instances /\ WithinBudget'
    BY <1>0, <2>1, SameRemaining DEF StillUpdated, MemoryInv, WithinBudget
  <2>3. Remaining(Updated)' = Remaining(Updated)
    BY <2>1, <2>2, SameRemaining
  <2> QED BY <1>0, <2>1, <2>2, <2>3 DEF MemoryInv
<1>13. ASSUME NEW c \in Requests, Activate(c)
       PROVE  MemoryInv'
  <2>1. UNCHANGED owner /\ SameUpdate /\ \A j \in Instances : cache'[j].size = cache[j].size
    BY <1>0, <1>13, ActivateFacts DEF Outcome, SameEntries, SameUpdate
  <2> QED BY <1>0, <2>1, MemoryAside
<1>14. ASSUME NEW c \in Requests, FinishUpdate(c)
       PROVE  MemoryInv'
  <2>1. /\ owner # NoOwner /\ owner' = NoOwner /\ Updated \in Instances
        /\ \A j \in Instances : j # Updated => cache'[j] = cache[j]
        /\ upd.applied => cache'[Updated].size = upd.size
        /\ ~upd.applied => UNCHANGED cache
    BY <1>14, FinishFacts
  <2>2. CASE ~upd.applied
    <3>1. WithinBudget'
      BY <1>0, <2>1, <2>2, SameRemaining DEF MemoryInv, WithinBudget
    <3> QED BY <2>1, <3>1 DEF MemoryInv
  <2>3. CASE upd.applied
    <3>1. 0 <= Remaining(Updated)
      <4>1. /\ Cached(Mates(Updated)) = Cached(Mates(Updated) \ {Updated}) + cache[Updated].size
            /\ Cached(Mates(Updated) \ {Updated}) \in Nat /\ cache[Updated].size \in Nat
            /\ Budget \in Nat
        BY <1>0, <2>1, RemainingType, AssetConstants
      <4>2. Cached(Mates(Updated)) <= Budget
        BY <1>0, <2>1 DEF MemoryInv, WithinBudget
      <4> QED BY <4>1, <4>2 DEF Remaining
    <3>2. cache'[Updated].size <= Remaining(Updated)
      BY <1>0, <2>1, <2>3, <3>1 DEF MemoryInv
    <3>3. WithinBudget'
      BY <1>0, <2>1, <3>2, MemoryTaken DEF MemoryInv
    <3> QED BY <2>1, <3>3 DEF MemoryInv
  <2> QED BY <2>2, <2>3
<1>15. CASE Look
  <2>1. UNCHANGED <<owner, upd, cache>>
    BY <1>15, LookFacts DEF lentVars
  <2> QED BY <1>0, <2>1, MemoryAside DEF SameUpdate
<1>16. CASE ServeInBlock
  <2>1. UNCHANGED owner /\ SameUpdate /\ \A j \in Instances : cache'[j].size = cache[j].size
    BY <1>0, <1>16, BlockFacts DEF Outcome, SameEntries, SameUpdate
  <2> QED BY <1>0, <2>1, MemoryAside
<1>17. CASE Rebuild
  <2>1. owner' = NoOwner
    BY <1>17, RebuildFacts DEF lentVars
  <2>0. \A j \in Instances : cache[j].size \in Nat
    BY <1>0 DEF AssetKinds, AssetRecord
  <2>2. \A j \in Instances : cache'[j].size <= cache[j].size
    BY <1>17, RebuildFacts, <2>0
  <2>3. \A j \in Instances : /\ Cached(Mates(j))' <= Cached(Mates(j)) /\ Cached(Mates(j)) \in Nat
                            /\ Cached(Mates(j))' \in Nat /\ Budget \in Nat
    BY <1>0, <2>2, NoMoreCached, AssetConstants
  <2>4. WithinBudget'
    BY <1>0, <2>3 DEF MemoryInv, WithinBudget
  <2> QED BY <2>1, <2>4 DEF MemoryInv
<1>18. CASE RebuildFails
  <2>1. owner' = NoOwner
    BY <1>18, RebuildFailsFacts DEF lentVars
  <2>0. \A j \in Instances : cache[j].size \in Nat
    BY <1>0 DEF AssetKinds, AssetRecord
  <2>2. \A j \in Instances : cache'[j].size <= cache[j].size
    BY <1>18, RebuildFailsFacts, <2>0 DEF SameEntries
  <2>3. \A j \in Instances : /\ Cached(Mates(j))' <= Cached(Mates(j)) /\ Cached(Mates(j)) \in Nat
                            /\ Cached(Mates(j))' \in Nat /\ Budget \in Nat
    BY <1>0, <2>2, NoMoreCached, AssetConstants
  <2>4. WithinBudget'
    BY <1>0, <2>3 DEF MemoryInv, WithinBudget
  <2> QED BY <2>1, <2>4 DEF MemoryInv
<1>19. CASE Restore \/ NewPage \/ HostPlays
  <2>1. UNCHANGED <<owner, upd, cache>>
    BY <1>19, WorldFacts DEF lentVars
  <2> QED BY <1>0, <2>1, MemoryAside DEF SameUpdate
<1>20. CASE UNCHANGED assetVars
  <2>1. UNCHANGED <<owner, upd, cache>>
    BY <1>20 DEF assetVars
  <2> QED BY <1>0, <2>1, MemoryAside DEF SameUpdate
<1> QED BY <1>1, <1>2, <1>3, <1>4, <1>5, <1>6, <1>7, <1>8, <1>9, <1>10, <1>11, <1>12,
       <1>13, <1>14, <1>15, <1>16, <1>17, <1>18, <1>19, <1>20 DEF AssetNext, Proceed,
       Message, Exchange, Page, Block, World

-----------------------------------------------------------------------------
(* Every step keeps the invariant: which request a bank is from.           *)

\* BankInv and TicketsInv, of one transfer, one message and the update.
OfTransfer(i) ==
    TransferOf(i) /\ (transfers[i].n # 0 => Ticket(transfers[i].n, transfers[i].rev))
OfCall(c) ==
    calls[c].pc = "lock" => /\ Taken(calls[c].take, c)
                            /\ (calls[c].kind = "clear" <=> calls[c].take.n = 0)
                            /\ Ticket(c, calls[c].take.rev)
OfUpdate == owner # NoOwner => Taken(upd.bank, owner) /\ Ticket(owner, upd.rev)

\* The revisions of an instance in the cache grow, and those of another request
\* are left behind, as long as the instance stays there.
RevisionsGrow ==
    \A j \in Instances :
       \/ \A n \in DOMAIN reqs : reqs[n].i = j => reqs'[n].orphan
       \/ cache[j].known => /\ cache'[j].known /\ cache[j].rev <= cache'[j].rev
                            /\ latest'[j] = latest[j] \/ cache[j].rev < cache'[j].rev

\* The parts taken apart.
LEMMA OriginSplit ==
  ASSUME AssetInv
  PROVE  /\ \A i \in Instances : OfTransfer(i)
         /\ \A c \in Requests : OfCall(c)
         /\ OfUpdate
BY DEF AssetInv, BankInv, TicketsInv, OfTransfer, OfCall, OfUpdate

\* And put together.
LEMMA OriginJoin ==
  ASSUME \A i \in Instances : OfTransfer(i)', \A c \in Requests : OfCall(c)', OfUpdate'
  PROVE  BankInv' /\ TicketsInv'
BY DEF BankInv, TicketsInv, OfTransfer, OfCall, OfUpdate

\* Every step lets the revisions grow.
LEMMA RevisionsKept ==
  ASSUME AssetInv, [AssetNext]_assetVars
  PROVE  RevisionsGrow
<1>0. AssetKinds /\ \A j \in Instances : cache[j].rev \in Nat
  BY DEF AssetInv, AssetKinds, AssetTypeOK
<1>1. ASSUME NEW i \in Instances, NEW paged \in BOOLEAN, BeginTransfer(i, paged)
      PROVE  RevisionsGrow
  <2>1. cache' = Superseded(i) /\ latest' = [latest EXCEPT ![i] = Len(reqs) + 1]
    BY <1>1, BeginFacts
  <2>2. latest \in [Instances -> Numbers]
    BY <1>0 DEF AssetKinds, AssetTypeOK
  <2>3. /\ \A j \in Instances : j # i => cache'[j] = cache[j]
        /\ cache'[i].known = cache[i].known
        /\ cache[i].known => cache'[i].rev = cache[i].rev + 1
    BY <1>0, <1>1, <2>1, SupersededFacts
  <2> QED BY <1>0, <1>1, <2>1, <2>2, <2>3 DEF RevisionsGrow
<1>2. ASSUME NEW i \in Instances, Clear(i)
      PROVE  RevisionsGrow
  <2>1. cache' = Superseded(i) /\ latest' = [latest EXCEPT ![i] = Len(reqs) + 1]
    BY <1>2, ClearFacts
  <2>2. latest \in [Instances -> Numbers]
    BY <1>0 DEF AssetKinds, AssetTypeOK
  <2>3. /\ \A j \in Instances : j # i => cache'[j] = cache[j]
        /\ cache'[i].known = cache[i].known
        /\ cache[i].known => cache'[i].rev = cache[i].rev + 1
    BY <1>0, <1>2, <2>1, SupersededFacts
  <2> QED BY <1>0, <1>2, <2>1, <2>2, <2>3 DEF RevisionsGrow
<1>3. ASSUME NEW c \in Requests, Continue(c)
      PROVE  RevisionsGrow
  <2>1. UNCHANGED <<cache, latest>>
    BY <1>3, ContinueFacts DEF pageVars
  <2> QED BY <1>0, <2>1 DEF RevisionsGrow
<1>4. ASSUME NEW c \in Requests, AppendPiece(c)
      PROVE  RevisionsGrow
  <2>1. UNCHANGED <<cache, latest>>
    BY <1>4, PieceFacts DEF pageVars
  <2> QED BY <1>0, <2>1 DEF RevisionsGrow
<1>5. ASSUME NEW c \in Requests, Cancel(c)
      PROVE  RevisionsGrow
  <2>1. UNCHANGED <<cache, latest>>
    BY <1>5, CancelFacts DEF pageVars
  <2> QED BY <1>0, <2>1 DEF RevisionsGrow
<1>6. ASSUME NEW c \in Requests, Commit(c)
      PROVE  RevisionsGrow
  <2>1. UNCHANGED <<cache, latest>>
    BY <1>6, CommitFacts DEF pageVars
  <2> QED BY <1>0, <2>1 DEF RevisionsGrow
<1>7. ASSUME NEW c \in Requests, SetAsset(c)
      PROVE  RevisionsGrow
  <2>1. UNCHANGED latest
    BY <1>7, SetFacts
  <2>2. CASE UNCHANGED cache
    BY <1>0, <2>1, <2>2 DEF RevisionsGrow
  <2>3. CASE ~UNCHANGED cache
    <3>1. \A j \in Instances : cache'[j].rev = cache[j].rev /\ (cache[j].known => cache'[j].known)
      BY <1>7, SetFacts, <2>3
    <3> QED BY <1>0, <2>1, <3>1 DEF RevisionsGrow
  <2> QED BY <2>2, <2>3
<1>8. ASSUME NEW c \in Requests, ClearAsset(c)
      PROVE  RevisionsGrow
  <2>1. UNCHANGED latest /\ reqs[c].i \in Instances
    BY <1>8, ClearedFacts
  <2>2. \A j \in Instances : j # reqs[c].i => cache'[j].known = cache[j].known /\ cache'[j].rev = cache[j].rev
    BY <1>8, ClearedFacts
  <2>3. \/ cache'[reqs[c].i].known /\ cache'[reqs[c].i].rev = cache[reqs[c].i].rev + 1
        \/ \A n \in DOMAIN reqs : reqs[n].i = reqs[c].i => reqs'[n].orphan
    BY <1>8, ClearedFacts
  <2> QED BY <1>0, <2>1, <2>2, <2>3 DEF RevisionsGrow
<1>9. ASSUME NEW c \in Requests, Create(c)
      PROVE  RevisionsGrow
  <2>1. UNCHANGED <<cache, latest>>
    BY <1>9, CreateFacts DEF pageVars
  <2> QED BY <1>0, <2>1 DEF RevisionsGrow
<1>10. ASSUME NEW c \in Requests, Observe(c)
       PROVE  RevisionsGrow
  <2>1. UNCHANGED <<cache, latest>>
    BY <1>10, ObserveFacts DEF pageVars
  <2> QED BY <1>0, <2>1 DEF RevisionsGrow
<1>11. ASSUME NEW c \in Requests, ServeInWindow(c)
       PROVE  RevisionsGrow
  <2>1. UNCHANGED latest /\ \A j \in Instances : cache'[j].known = cache[j].known /\ cache'[j].rev = cache[j].rev
    BY <1>11, WindowFacts DEF Outcome, SameEntries, pageVars
  <2> QED BY <1>0, <2>1 DEF RevisionsGrow
<1>12. ASSUME NEW c \in Requests, Prepare(c)
       PROVE  RevisionsGrow
  <2>1. UNCHANGED <<cache, latest>>
    BY <1>12, PrepareFacts DEF pageVars
  <2> QED BY <1>0, <2>1 DEF RevisionsGrow
<1>13. ASSUME NEW c \in Requests, Activate(c)
       PROVE  RevisionsGrow
  <2>1. UNCHANGED latest /\ \A j \in Instances : cache'[j].known = cache[j].known /\ cache'[j].rev = cache[j].rev
    BY <1>13, ActivateFacts DEF Outcome, SameEntries, pageVars
  <2> QED BY <1>0, <2>1 DEF RevisionsGrow
<1>14. ASSUME NEW c \in Requests, FinishUpdate(c)
       PROVE  RevisionsGrow
  <2>1. UNCHANGED latest /\ \A j \in Instances : cache'[j].known = cache[j].known /\ cache'[j].rev = cache[j].rev
    BY <1>14, FinishFacts DEF Outcome, SameEntries, pageVars
  <2> QED BY <1>0, <2>1 DEF RevisionsGrow
<1>15. CASE Look
  <2>1. UNCHANGED <<cache, latest>>
    BY <1>15, LookFacts DEF pageVars
  <2> QED BY <1>0, <2>1 DEF RevisionsGrow
<1>16. CASE ServeInBlock
  <2>1. UNCHANGED latest /\ \A j \in Instances : cache'[j].known = cache[j].known /\ cache'[j].rev = cache[j].rev
    BY <1>16, BlockFacts DEF Outcome, SameEntries, pageVars
  <2> QED BY <1>0, <2>1 DEF RevisionsGrow
<1>17. CASE Rebuild
  <2>1. UNCHANGED latest
    BY <1>17, RebuildFacts
  <2>2. \A j \in Instances :
           \/ \A n \in DOMAIN reqs : reqs[n].i = j => reqs'[n].orphan
           \/ /\ cache[j].known => cache'[j].known
              /\ cache[j].rev <= cache'[j].rev
    BY <1>17, RebuildFacts
  <2> QED BY <2>1, <2>2 DEF RevisionsGrow
<1>18. CASE RebuildFails
  <2>1. UNCHANGED latest /\ \A j \in Instances : cache'[j].known = cache[j].known /\ cache'[j].rev = cache[j].rev
    BY <1>18, RebuildFailsFacts DEF Outcome, SameEntries, pageVars
  <2> QED BY <1>0, <2>1 DEF RevisionsGrow
<1>19. CASE Restore \/ NewPage \/ HostPlays
  <2>1. UNCHANGED <<cache, latest>>
    BY <1>19, WorldFacts DEF pageVars
  <2> QED BY <1>0, <2>1 DEF RevisionsGrow
<1>20. CASE UNCHANGED assetVars
  <2>1. UNCHANGED <<cache, latest>>
    BY <1>20 DEF assetVars
  <2> QED BY <1>0, <2>1 DEF RevisionsGrow
<1> QED BY <1>1, <1>2, <1>3, <1>4, <1>5, <1>6, <1>7, <1>8, <1>9, <1>10, <1>11, <1>12,
       <1>13, <1>14, <1>15, <1>16, <1>17, <1>18, <1>19, <1>20 DEF AssetNext, Proceed,
       Message, Exchange, Page, Block, World

\* A request that held a place for its revision still does.
LEMMA TicketStays ==
  ASSUME AssetKinds, AssetKinds', OldRequests, RevisionsGrow, NEW n \in DOMAIN reqs, NEW rev,
         Ticket(n, rev)
  PROVE  Ticket(n, rev)'
<1> DEFINE i == reqs[n].i
<1>1. i \in Instances /\ reqs'[n].i = i /\ (reqs[n].orphan => reqs'[n].orphan)
  BY RequestTypes DEF OldRequests, RequestRecord
<1>2. cache[i].rev \in Nat /\ cache'[i].rev \in Nat
  BY <1>1 DEF AssetKinds, AssetTypeOK
<1>3. CASE reqs'[n].orphan
  BY <1>3 DEF Ticket
<1>4. CASE ~reqs'[n].orphan
  <2>1. /\ cache[i].known /\ rev \in 1..cache[i].rev
        /\ n # latest[i] => rev < cache[i].rev
    BY <1>1, <1>4 DEF Ticket
  <2>2. /\ cache'[i].known /\ cache[i].rev <= cache'[i].rev
        /\ latest'[i] = latest[i] \/ cache[i].rev < cache'[i].rev
    BY <1>1, <1>4, <2>1 DEF RevisionsGrow
  <2>3. rev \in 1..cache'[i].rev /\ (n # latest'[i] => rev < cache'[i].rev)
    BY <1>2, <2>1, <2>2
  <2> QED BY <1>1, <2>2, <2>3 DEF Ticket
<1> QED BY <1>3, <1>4

\* A transfer a step has nothing to do with.
LEMMA TransferStays ==
  ASSUME AssetInv, AssetKinds', OldRequests, RevisionsGrow, NEW j \in Instances,
         transfers'[j] \in {transfers[j], NoTransfer}
  PROVE  OfTransfer(j)'
<1>1. CASE transfers'[j] = NoTransfer
  <2>1. transfers'[j].n = 0
    BY <1>1 DEF NoTransfer
  <2> QED BY <2>1 DEF OfTransfer, TransferOf
<1>2. CASE transfers'[j] = transfers[j] /\ transfers[j].n # 0
  <2>1. transfers[j].n \in DOMAIN reqs /\ Ticket(transfers[j].n, transfers[j].rev)
    BY <1>2, OriginSplit DEF OfTransfer, TransferOf
  <2>2. AssetKinds /\ TransferOf(j)
    BY DEF AssetInv, BankInv
  <2>3. TransferOf(j)'
    BY <1>2, <2>1, <2>2 DEF TransferOf, OldRequests, OwnPieces
  <2>4. Ticket(transfers[j].n, transfers[j].rev)'
    <3>1. PICK n \in DOMAIN reqs, rev \in {transfers[j].rev} : n = transfers[j].n
      BY <2>1
    <3>2. n = transfers'[j].n /\ rev = transfers'[j].rev
      BY <1>2, <3>1
    <3>3. Ticket(n, rev)
      BY <2>1, <3>1
    <3>4. Ticket(n, rev)'
      BY <2>2, <3>3, TicketStays
    <3> QED BY <3>2, <3>4
  <2> QED BY <2>3, <2>4 DEF OfTransfer
<1>3. CASE transfers'[j] = transfers[j] /\ transfers[j].n = 0
  BY <1>3 DEF OfTransfer, TransferOf
<1> QED BY <1>1, <1>2, <1>3

\* A message a step has nothing to do with.
LEMMA CallStays ==
  ASSUME AssetInv, AssetKinds', OldRequests, RevisionsGrow, NEW c \in Requests,
         calls'[c].pc = "lock" => calls'[c] = calls[c]
  PROVE  OfCall(c)'
<1>1. CASE calls'[c].pc # "lock"
  BY <1>1 DEF OfCall
<1>2. CASE calls'[c].pc = "lock"
  <2>1. calls'[c] = calls[c] /\ calls[c].pc = "lock"
    BY <1>2
  <2>2. c \in DOMAIN reqs /\ OfCall(c) /\ AssetKinds
    BY <2>1, OriginSplit DEF AssetInv, MessagesInv, MessageOf
  <2> DEFINE rev == calls[c].take.rev
  <2>3. rev' = rev /\ Ticket(c, rev)
    BY <2>1, <2>2 DEF OfCall
  <2> HIDE DEF rev
  <2>4. Ticket(c, rev)'
    BY <2>2, <2>3, TicketStays DEF Ticket
  <2>5. Ticket(c, calls[c].take.rev)'
    BY <2>4 DEF rev
  <2> QED BY <2>1, <2>2, <2>5 DEF OfCall, Taken
<1> QED BY <1>1, <1>2

\* An update a step has nothing to do with.
LEMMA UpdateStays ==
  ASSUME AssetInv, AssetKinds', OldRequests, RevisionsGrow,
         owner' # NoOwner => owner' = owner /\ upd'.bank = upd.bank /\ upd'.rev = upd.rev
  PROVE  OfUpdate'
<1>1. CASE owner' = NoOwner
  BY <1>1 DEF OfUpdate
<1>2. CASE owner' # NoOwner
  <2>1. owner' = owner /\ upd'.bank = upd.bank /\ upd'.rev = upd.rev /\ owner # NoOwner
    BY <1>2
  <2>2. owner \in DOMAIN reqs /\ OfUpdate /\ AssetKinds
    BY <2>1, OriginSplit, UpdatedFacts DEF AssetInv
  <2> DEFINE rev == upd.rev
  <2>3. rev' = rev /\ Ticket(owner, rev)
    BY <2>1, <2>2 DEF OfUpdate
  <2> HIDE DEF rev
  <2>4. Ticket(owner, rev)'
    BY <2>1, <2>2, <2>3, TicketStays DEF Ticket
  <2>5. Ticket(owner, upd.rev)'
    BY <2>4 DEF rev
  <2> QED BY <2>1, <2>2, <2>5 DEF OfUpdate, Taken
<1> QED BY <1>1, <1>2

\* What a request that was just made is about.
LEMMA NewRequest ==
  ASSUME AssetInv, NEW i \in Instances, NEW paged \in BOOLEAN,
         NEW next \in {"bytes", "done"}, Len(reqs) + 1 <= MaxRequests,
         reqs' = Asks(i, paged, next), UNCHANGED page
  PROVE  LET n == Len(reqs) + 1
         IN  /\ n \in DOMAIN reqs' /\ reqs'[n].i = i /\ reqs'[n].page = page
             /\ reqs'[n].orphan = ~cache[i].known
<1>1. AssetKinds /\ NumbersInv
  BY DEF AssetInv
<1>2. Len(reqs) \in Nat
  BY <1>1, RequestTypes
<1>3. Len(reqs) + 1 \in 1..(Len(reqs) + 1)
  BY <1>2
<1> QED BY <1>1, <1>3, AsksFacts

\* The revision a request is given when it supersedes the others.
LEMMA NewTicket ==
  ASSUME AssetKinds, NEW i \in Instances, NEW n \in Numbers, reqs'[n].i = i,
         reqs'[n].orphan = ~cache[i].known, latest' = [latest EXCEPT ![i] = n],
         cache' = Superseded(i)
  PROVE  LET rev == cache'[i].rev
         IN  \/ reqs'[n].orphan
             \/ cache'[i].known /\ rev \in 1..cache'[i].rev /\ n = latest'[i]
<1>1. latest \in [Instances -> Numbers] /\ cache[i].rev \in Nat /\ cache[i].known \in BOOLEAN
  BY DEF AssetKinds, AssetTypeOK, AssetRecord
<1>2. latest'[i] = n
  BY <1>1
<1>3. cache'[i].known = cache[i].known /\ (cache[i].known => cache'[i].rev = cache[i].rev + 1)
  BY SupersededFacts
<1>4. CASE cache[i].known
  <2>1. cache'[i].rev = cache[i].rev + 1 /\ cache'[i].known
    BY <1>3, <1>4
  <2>2. cache'[i].rev \in 1..cache'[i].rev
    BY <1>1, <2>1
  <2> QED BY <1>2, <2>1, <2>2
<1>5. CASE ~cache[i].known
  BY <1>5
<1> QED BY <1>4, <1>5

\* Every step keeps whose pieces a bank has, and which request it is from.
LEMMA OriginsKept ==
  ASSUME AssetInv, [AssetNext]_assetVars
  PROVE  (\A j \in Instances : OfTransfer(j)') /\ (\A d \in Requests : OfCall(d)') /\ OfUpdate'
<1>0. /\ AssetKinds /\ AssetKinds' /\ OldRequests /\ RevisionsGrow
      /\ (\A i \in Instances : OfTransfer(i)) /\ (\A c \in Requests : OfCall(c)) /\ OfUpdate
  BY RequestsKept, AssetKindsKept, RevisionsKept, OriginSplit DEF AssetInv
<1>1. ASSUME NEW i \in Instances, NEW paged \in BOOLEAN, BeginTransfer(i, paged)
      PROVE  (\A j \in Instances : OfTransfer(j)') /\ (\A d \in Requests : OfCall(d)') /\ OfUpdate'
  <2> DEFINE n == Len(reqs) + 1
  <2>4. /\ n # 0 /\ UNCHANGED page /\ latest' = [latest EXCEPT ![i] = n] /\ n \in Numbers
        /\ transfers'[i].n = n /\ transfers'[i].bytes = 0 /\ transfers'[i].pages = 0
        /\ transfers'[i].page = page /\ transfers'[i].rev = cache'[i].rev
        /\ reqs' = Asks(i, paged, "bytes") /\ cache' = Superseded(i) /\ n <= MaxRequests
    BY <1>1, BeginFacts
  <2>1. \A j \in Instances : OfTransfer(j)'
    <3>1. ASSUME NEW j \in Instances, j # i
          PROVE  OfTransfer(j)'
      <4>1. transfers'[j] = transfers[j]
        BY <1>1, BeginFacts, <3>1
      <4> QED BY <1>0, <4>1, TransferStays
    <3>2. OfTransfer(i)'
      <4>1. n \in DOMAIN reqs' /\ reqs'[n].i = i /\ reqs'[n].page = page
            /\ reqs'[n].orphan = ~cache[i].known
        BY <1>0, <1>1, <2>4, NewRequest
      <4>2. \/ reqs'[n].orphan
            \/ cache'[i].known /\ transfers'[i].rev \in 1..cache'[i].rev /\ n = latest'[i]
        BY <1>0, <1>1, <2>4, <4>1, NewTicket
      <4> HIDE DEF n
      <4> QED BY <2>4, <4>1, <4>2 DEF OfTransfer, TransferOf, OwnPieces, Ticket
    <3> QED BY <3>1, <3>2
  <2>2. \A d \in Requests : OfCall(d)'
    <3>1. \A d \in Requests : calls'[d].pc = "lock" => calls'[d] = calls[d]
      BY <1>1, BeginFacts DEF Quiet, pageVars
    <3> QED BY <1>0, <3>1, CallStays
  <2>3. OfUpdate'
    <3>1. owner' # NoOwner => owner' = owner /\ upd'.bank = upd.bank /\ upd'.rev = upd.rev
      BY <1>1, BeginFacts DEF lentVars
    <3> QED BY <1>0, <3>1, UpdateStays
  <2> QED BY <2>1, <2>2, <2>3
<1>2. ASSUME NEW i \in Instances, Clear(i)
      PROVE  (\A j \in Instances : OfTransfer(j)') /\ (\A d \in Requests : OfCall(d)') /\ OfUpdate'
  <2> DEFINE n == Len(reqs) + 1
  <2>4. /\ n # 0 /\ UNCHANGED page /\ latest' = [latest EXCEPT ![i] = n] /\ n \in Numbers
        /\ calls'[n].pc = "lock" /\ calls'[n].kind = "clear" /\ calls'[n].take.n = 0
        /\ calls'[n].take.size = 0 /\ calls'[n].take.rev = cache'[i].rev /\ n \in Requests
        /\ \A d \in Requests : d # n => calls'[d] = calls[d]
        /\ reqs' = Asks(i, FALSE, "done") /\ cache' = Superseded(i) /\ n <= MaxRequests
    BY <1>2, ClearFacts
  <2>1. \A j \in Instances : OfTransfer(j)'
    <3>1. \A j \in Instances : transfers'[j] \in {transfers[j], NoTransfer}
      BY <1>0, <1>2, ClearFacts DEF AssetKinds
    <3> QED BY <1>0, <3>1, TransferStays
  <2>2. \A d \in Requests : OfCall(d)'
    <3>1. ASSUME NEW d \in Requests, d # n
          PROVE  OfCall(d)'
      <4>1. calls'[d] = calls[d]
        BY <2>4, <3>1
      <4> QED BY <1>0, <4>1, CallStays
    <3>2. ASSUME NEW d \in Requests, d = n
          PROVE  OfCall(d)'
      <4>1. n \in DOMAIN reqs' /\ reqs'[n].i = i /\ reqs'[n].orphan = ~cache[i].known
        BY <1>0, <1>2, <2>4, NewRequest
      <4>2. \/ reqs'[n].orphan
            \/ cache'[i].known /\ calls'[n].take.rev \in 1..cache'[i].rev /\ n = latest'[i]
        BY <1>0, <1>2, <2>4, <4>1, NewTicket
      <4> HIDE DEF n
      <4> QED BY <2>4, <3>2, <4>1, <4>2 DEF OfCall, Taken, Ticket
    <3> QED BY <3>1, <3>2
  <2>3. OfUpdate'
    <3>1. owner' # NoOwner => owner' = owner /\ upd'.bank = upd.bank /\ upd'.rev = upd.rev
      BY <1>2, ClearFacts DEF lentVars
    <3> QED BY <1>0, <3>1, UpdateStays
  <2> QED BY <2>1, <2>2, <2>3
<1>3. ASSUME NEW c \in Requests, Continue(c)
      PROVE  (\A j \in Instances : OfTransfer(j)') /\ (\A d \in Requests : OfCall(d)') /\ OfUpdate'
  <2>1. \A j \in Instances : OfTransfer(j)'
    <3>1. \A j \in Instances : transfers'[j] \in {transfers[j], NoTransfer}
      BY <1>3, ContinueFacts
    <3> QED BY <1>0, <3>1, TransferStays
  <2>2. \A d \in Requests : OfCall(d)'
    <3>1. \A d \in Requests : calls'[d].pc = "lock" => calls'[d] = calls[d]
      BY <1>3, ContinueFacts DEF Quiet, pageVars
    <3> QED BY <1>0, <3>1, CallStays
  <2>3. OfUpdate'
    <3>1. owner' # NoOwner => owner' = owner /\ upd'.bank = upd.bank /\ upd'.rev = upd.rev
      BY <1>3, ContinueFacts DEF lentVars
    <3> QED BY <1>0, <3>1, UpdateStays
  <2> QED BY <2>1, <2>2, <2>3
<1>4. ASSUME NEW c \in Requests, AppendPiece(c)
      PROVE  (\A j \in Instances : OfTransfer(j)') /\ (\A d \in Requests : OfCall(d)') /\ OfUpdate'
  <2>4. reqs[c].i \in Instances
    BY <1>4, PieceFacts
  <2>5. PICK i \in Instances : i = reqs[c].i
    BY <2>4
  <2>1. \A j \in Instances : OfTransfer(j)'
    <3>1. ASSUME NEW j \in Instances, j # i
          PROVE  OfTransfer(j)'
      <4>1. transfers'[j] = transfers[j]
        BY <1>4, PieceFacts, <2>5, <3>1
      <4> QED BY <1>0, <4>1, TransferStays
    <3>2. OfTransfer(i)'
      <4>1. CASE UNCHANGED transfers
        BY <1>0, <4>1, TransferStays
      <4>2. CASE ~UNCHANGED transfers
        <5>1. /\ transfers[i].n = c
              /\ transfers'[i].n = c /\ transfers'[i].page = transfers[i].page
              /\ transfers'[i].rev = transfers[i].rev
              /\ transfers'[i].bytes \in {transfers[i].bytes, c}
              /\ transfers'[i].pages \in {transfers[i].pages, c}
          BY <1>4, PieceFacts, <2>5, <4>2
        <5>2. c # 0
          BY DEF Requests
        <5>3. /\ c \in DOMAIN reqs /\ reqs[c].i = i /\ reqs[c].page = transfers[i].page
              /\ OwnPieces(transfers[i], c) /\ Ticket(c, transfers[i].rev)
          BY <1>0, <2>5, <5>1, <5>2 DEF OfTransfer, TransferOf, Ticket
        <5>4. PICK rev \in {transfers[i].rev} : Ticket(c, rev)
          BY <5>3
        <5>5. Ticket(c, rev)'
          BY <1>0, <5>3, <5>4, TicketStays
        <5>6. Ticket(c, transfers[i].rev)'
          BY <5>1, <5>4, <5>5
        <5>7. c \in DOMAIN reqs' /\ reqs'[c].i = i /\ reqs'[c].page = reqs[c].page
          BY <1>0, <5>3 DEF OldRequests
        <5> QED BY <5>1, <5>3, <5>6, <5>7 DEF OfTransfer, TransferOf, OwnPieces
      <4> QED BY <4>1, <4>2
    <3> QED BY <3>1, <3>2
  <2>2. \A d \in Requests : OfCall(d)'
    <3>1. \A d \in Requests : calls'[d].pc = "lock" => calls'[d] = calls[d]
      BY <1>4, PieceFacts DEF Quiet, pageVars
    <3> QED BY <1>0, <3>1, CallStays
  <2>3. OfUpdate'
    <3>1. owner' # NoOwner => owner' = owner /\ upd'.bank = upd.bank /\ upd'.rev = upd.rev
      BY <1>4, PieceFacts DEF lentVars
    <3> QED BY <1>0, <3>1, UpdateStays
  <2> QED BY <2>1, <2>2, <2>3
<1>5. ASSUME NEW c \in Requests, Cancel(c)
      PROVE  (\A j \in Instances : OfTransfer(j)') /\ (\A d \in Requests : OfCall(d)') /\ OfUpdate'
  <2>1. \A j \in Instances : OfTransfer(j)'
    <3>1. \A j \in Instances : transfers'[j] \in {transfers[j], NoTransfer}
      BY <1>0, <1>5, CancelFacts DEF AssetKinds
    <3> QED BY <1>0, <3>1, TransferStays
  <2>2. \A d \in Requests : OfCall(d)'
    <3>1. \A d \in Requests : calls'[d].pc = "lock" => calls'[d] = calls[d]
      BY <1>5, CancelFacts DEF Quiet, pageVars
    <3> QED BY <1>0, <3>1, CallStays
  <2>3. OfUpdate'
    <3>1. owner' # NoOwner => owner' = owner /\ upd'.bank = upd.bank /\ upd'.rev = upd.rev
      BY <1>5, CancelFacts DEF lentVars
    <3> QED BY <1>0, <3>1, UpdateStays
  <2> QED BY <2>1, <2>2, <2>3
<1>6. ASSUME NEW c \in Requests, Commit(c)
      PROVE  (\A j \in Instances : OfTransfer(j)') /\ (\A d \in Requests : OfCall(d)') /\ OfUpdate'
  <2> DEFINE i == reqs[c].i
  <2>4. i \in Instances /\ c \in DOMAIN reqs
    BY <1>6, CommitFacts
  <2>1. \A j \in Instances : OfTransfer(j)'
    <3>1. \A j \in Instances : transfers'[j] \in {transfers[j], NoTransfer}
      BY <1>0, <1>6, CommitFacts DEF AssetKinds
    <3> QED BY <1>0, <3>1, TransferStays
  <2>2. \A d \in Requests : OfCall(d)'
    <3>1. ASSUME NEW d \in Requests, d # c
          PROVE  OfCall(d)'
      <4>1. calls'[d] = calls[d]
        BY <1>6, CommitFacts, <3>1 DEF Quiet
      <4> QED BY <1>0, <4>1, CallStays
    <3>2. ASSUME calls'[c].pc # "lock"
          PROVE  OfCall(c)'
      BY <3>2 DEF OfCall
    <3>3. ASSUME calls'[c].pc = "lock"
          PROVE  OfCall(c)'
      <4>1. /\ transfers[i].n = c /\ transfers[i].bytes # 0
            /\ calls'[c].pc = "lock" /\ calls'[c].kind = "commit"
            /\ calls'[c].take.n = c /\ calls'[c].take.bytes = transfers[i].bytes
            /\ calls'[c].take.pages \in {transfers[i].pages, c}
            /\ calls'[c].take.rev = transfers[i].rev
        BY <1>6, CommitFacts, <3>3 DEF Quiet
      <4>2. c # 0
        BY DEF Requests
      <4>3. OwnPieces(transfers[i], c) /\ Ticket(c, transfers[i].rev)
        BY <1>0, <2>4, <4>1, <4>2 DEF OfTransfer, TransferOf
      <4>4. PICK rev \in {transfers[i].rev} : Ticket(c, rev)
        BY <4>3
      <4>5. Ticket(c, rev)'
        BY <1>0, <2>4, <4>4, TicketStays
      <4>6. Ticket(c, calls[c].take.rev)'
        BY <4>1, <4>4, <4>5
      <4>7. Taken(calls'[c].take, c)
        BY <4>1, <4>3 DEF Taken, OwnPieces
      <4> QED BY <4>1, <4>2, <4>6, <4>7 DEF OfCall, Taken
    <3>4. OfCall(c)'
      BY <3>2, <3>3
    <3> QED BY <3>1, <3>4
  <2>3. OfUpdate'
    <3>1. owner' # NoOwner => owner' = owner /\ upd'.bank = upd.bank /\ upd'.rev = upd.rev
      BY <1>6, CommitFacts DEF lentVars
    <3> QED BY <1>0, <3>1, UpdateStays
  <2> QED BY <2>1, <2>2, <2>3
<1>7. ASSUME NEW c \in Requests, SetAsset(c)
      PROVE  (\A j \in Instances : OfTransfer(j)') /\ (\A d \in Requests : OfCall(d)') /\ OfUpdate'
  <2>1. \A j \in Instances : OfTransfer(j)'
    <3>1. \A j \in Instances : transfers'[j] \in {transfers[j], NoTransfer}
      BY <1>7, SetFacts
    <3> QED BY <1>0, <3>1, TransferStays
  <2>2. \A d \in Requests : OfCall(d)'
    <3>1. \A d \in Requests : calls'[d].pc = "lock" => calls'[d] = calls[d]
      BY <1>7, SetFacts DEF Quiet, pageVars
    <3> QED BY <1>0, <3>1, CallStays
  <2>3. OfUpdate'
    <3>1. owner' # NoOwner => owner' = owner /\ upd'.bank = upd.bank /\ upd'.rev = upd.rev
      BY <1>7, SetFacts DEF lentVars
    <3> QED BY <1>0, <3>1, UpdateStays
  <2> QED BY <2>1, <2>2, <2>3
<1>8. ASSUME NEW c \in Requests, ClearAsset(c)
      PROVE  (\A j \in Instances : OfTransfer(j)') /\ (\A d \in Requests : OfCall(d)') /\ OfUpdate'
  <2>1. \A j \in Instances : OfTransfer(j)'
    <3>1. \A j \in Instances : transfers'[j] \in {transfers[j], NoTransfer}
      BY <1>8, ClearedFacts
    <3> QED BY <1>0, <3>1, TransferStays
  <2>2. \A d \in Requests : OfCall(d)'
    <3>1. \A d \in Requests : calls'[d].pc = "lock" => calls'[d] = calls[d]
      BY <1>8, ClearedFacts DEF Quiet, pageVars
    <3> QED BY <1>0, <3>1, CallStays
  <2>3. OfUpdate'
    <3>1. owner' # NoOwner => owner' = owner /\ upd'.bank = upd.bank /\ upd'.rev = upd.rev
      BY <1>8, ClearedFacts DEF lentVars
    <3> QED BY <1>0, <3>1, UpdateStays
  <2> QED BY <2>1, <2>2, <2>3
<1>9. ASSUME NEW c \in Requests, Create(c)
      PROVE  (\A j \in Instances : OfTransfer(j)') /\ (\A d \in Requests : OfCall(d)') /\ OfUpdate'
  <2>4. c \in DOMAIN reqs /\ calls[c].pc = "lock" /\ owner = NoOwner
    BY <1>9, CreateFacts
  <2>1. \A j \in Instances : OfTransfer(j)'
    <3>1. \A j \in Instances : transfers'[j] \in {transfers[j], NoTransfer}
      BY <1>9, CreateFacts
    <3> QED BY <1>0, <3>1, TransferStays
  <2>2. \A d \in Requests : OfCall(d)'
    <3>1. \A d \in Requests : calls'[d].pc = "lock" => calls'[d] = calls[d]
      BY <1>9, CreateFacts DEF Quiet, pageVars
    <3> QED BY <1>0, <3>1, CallStays
  <2>3. OfUpdate'
    <3>1. CASE owner' = NoOwner
      BY <3>1 DEF OfUpdate
    <3>2. CASE owner' # NoOwner
      <4>1. /\ owner' = c /\ upd'.bank = calls[c].take
            /\ upd'.rev = IF calls[c].take.rev = 0 THEN cache[reqs[c].i].rev ELSE calls[c].take.rev
        BY <1>9, CreateFacts, <2>4, <3>2 DEF lentVars
      <4>2. Taken(calls[c].take, c) /\ Ticket(c, calls[c].take.rev)
        BY <1>0, <2>4 DEF OfCall
      <4>3. Ticket(c, upd'.rev)
        <5>1. CASE reqs[c].orphan
          BY <5>1 DEF Ticket
        <5>2. CASE ~reqs[c].orphan
          <6>1. calls[c].take.rev \in 1..cache[reqs[c].i].rev
            BY <4>2, <5>2 DEF Ticket
          <6>2. upd'.rev = calls[c].take.rev
            BY <4>1, <6>1
          <6> QED BY <4>2, <6>2 DEF Ticket
        <5> QED BY <5>1, <5>2
      <4>4. PICK rev \in {upd'.rev} : Ticket(c, rev)
        BY <4>3
      <4>5. Ticket(c, rev)'
        BY <1>0, <2>4, <4>4, TicketStays
      <4>6. Ticket(owner, upd.rev)'
        BY <4>1, <4>4, <4>5 DEF Ticket
      <4> QED BY <4>1, <4>2, <4>6 DEF OfUpdate, Taken
    <3> QED BY <3>1, <3>2
  <2> QED BY <2>1, <2>2, <2>3
<1>10. ASSUME NEW c \in Requests, Observe(c)
       PROVE  (\A j \in Instances : OfTransfer(j)') /\ (\A d \in Requests : OfCall(d)') /\ OfUpdate'
  <2>1. \A j \in Instances : OfTransfer(j)'
    <3>1. \A j \in Instances : transfers'[j] \in {transfers[j], NoTransfer}
      BY <1>10, ObserveFacts
    <3> QED BY <1>0, <3>1, TransferStays
  <2>2. \A d \in Requests : OfCall(d)'
    <3>1. \A d \in Requests : calls'[d].pc = "lock" => calls'[d] = calls[d]
      BY <1>10, ObserveFacts DEF Quiet, pageVars
    <3> QED BY <1>0, <3>1, CallStays
  <2>3. OfUpdate'
    <3>1. owner' # NoOwner => owner' = owner /\ upd'.bank = upd.bank /\ upd'.rev = upd.rev
      BY <1>10, ObserveFacts DEF lentVars
    <3> QED BY <1>0, <3>1, UpdateStays
  <2> QED BY <2>1, <2>2, <2>3
<1>11. ASSUME NEW c \in Requests, ServeInWindow(c)
       PROVE  (\A j \in Instances : OfTransfer(j)') /\ (\A d \in Requests : OfCall(d)') /\ OfUpdate'
  <2>1. \A j \in Instances : OfTransfer(j)'
    <3>1. \A j \in Instances : transfers'[j] \in {transfers[j], NoTransfer}
      BY <1>11, WindowFacts
    <3> QED BY <1>0, <3>1, TransferStays
  <2>2. \A d \in Requests : OfCall(d)'
    <3>1. \A d \in Requests : calls'[d].pc = "lock" => calls'[d] = calls[d]
      BY <1>11, WindowFacts DEF Quiet, pageVars
    <3> QED BY <1>0, <3>1, CallStays
  <2>3. OfUpdate'
    <3>1. owner' # NoOwner => owner' = owner /\ upd'.bank = upd.bank /\ upd'.rev = upd.rev
      BY <1>11, WindowFacts DEF Outcome, SameUpdate
    <3> QED BY <1>0, <3>1, UpdateStays
  <2> QED BY <2>1, <2>2, <2>3
<1>12. ASSUME NEW c \in Requests, Prepare(c)
       PROVE  (\A j \in Instances : OfTransfer(j)') /\ (\A d \in Requests : OfCall(d)') /\ OfUpdate'
  <2>1. \A j \in Instances : OfTransfer(j)'
    <3>1. \A j \in Instances : transfers'[j] \in {transfers[j], NoTransfer}
      BY <1>12, PrepareFacts
    <3> QED BY <1>0, <3>1, TransferStays
  <2>2. \A d \in Requests : OfCall(d)'
    <3>1. \A d \in Requests : calls'[d].pc = "lock" => calls'[d] = calls[d]
      BY <1>12, PrepareFacts DEF Quiet, pageVars
    <3> QED BY <1>0, <3>1, CallStays
  <2>3. OfUpdate'
    <3>1. owner' # NoOwner => owner' = owner /\ upd'.bank = upd.bank /\ upd'.rev = upd.rev
      BY <1>12, PrepareFacts DEF lentVars
    <3> QED BY <1>0, <3>1, UpdateStays
  <2> QED BY <2>1, <2>2, <2>3
<1>13. ASSUME NEW c \in Requests, Activate(c)
       PROVE  (\A j \in Instances : OfTransfer(j)') /\ (\A d \in Requests : OfCall(d)') /\ OfUpdate'
  <2>1. \A j \in Instances : OfTransfer(j)'
    <3>1. \A j \in Instances : transfers'[j] \in {transfers[j], NoTransfer}
      BY <1>13, ActivateFacts
    <3> QED BY <1>0, <3>1, TransferStays
  <2>2. \A d \in Requests : OfCall(d)'
    <3>1. \A d \in Requests : calls'[d].pc = "lock" => calls'[d] = calls[d]
      BY <1>13, ActivateFacts DEF Quiet, pageVars
    <3> QED BY <1>0, <3>1, CallStays
  <2>3. OfUpdate'
    <3>1. owner' # NoOwner => owner' = owner /\ upd'.bank = upd.bank /\ upd'.rev = upd.rev
      BY <1>13, ActivateFacts DEF Outcome, SameUpdate
    <3> QED BY <1>0, <3>1, UpdateStays
  <2> QED BY <2>1, <2>2, <2>3
<1>14. ASSUME NEW c \in Requests, FinishUpdate(c)
       PROVE  (\A j \in Instances : OfTransfer(j)') /\ (\A d \in Requests : OfCall(d)') /\ OfUpdate'
  <2>1. \A j \in Instances : OfTransfer(j)'
    <3>1. \A j \in Instances : transfers'[j] \in {transfers[j], NoTransfer}
      BY <1>14, FinishFacts
    <3> QED BY <1>0, <3>1, TransferStays
  <2>2. \A d \in Requests : OfCall(d)'
    <3>1. \A d \in Requests : calls'[d].pc = "lock" => calls'[d] = calls[d]
      BY <1>14, FinishFacts DEF Quiet, pageVars
    <3> QED BY <1>0, <3>1, CallStays
  <2>3. OfUpdate'
    <3>1. owner' # NoOwner => owner' = owner /\ upd'.bank = upd.bank /\ upd'.rev = upd.rev
      BY <1>14, FinishFacts DEF lentVars
    <3> QED BY <1>0, <3>1, UpdateStays
  <2> QED BY <2>1, <2>2, <2>3
<1>15. CASE Look
  <2>1. \A j \in Instances : OfTransfer(j)'
    <3>1. \A j \in Instances : transfers'[j] \in {transfers[j], NoTransfer}
      BY <1>15, LookFacts
    <3> QED BY <1>0, <3>1, TransferStays
  <2>2. \A d \in Requests : OfCall(d)'
    <3>1. \A d \in Requests : calls'[d].pc = "lock" => calls'[d] = calls[d]
      BY <1>15, LookFacts DEF Quiet, pageVars
    <3> QED BY <1>0, <3>1, CallStays
  <2>3. OfUpdate'
    <3>1. owner' # NoOwner => owner' = owner /\ upd'.bank = upd.bank /\ upd'.rev = upd.rev
      BY <1>15, LookFacts DEF lentVars
    <3> QED BY <1>0, <3>1, UpdateStays
  <2> QED BY <2>1, <2>2, <2>3
<1>16. CASE ServeInBlock
  <2>1. \A j \in Instances : OfTransfer(j)'
    <3>1. \A j \in Instances : transfers'[j] \in {transfers[j], NoTransfer}
      BY <1>16, BlockFacts
    <3> QED BY <1>0, <3>1, TransferStays
  <2>2. \A d \in Requests : OfCall(d)'
    <3>1. \A d \in Requests : calls'[d].pc = "lock" => calls'[d] = calls[d]
      BY <1>16, BlockFacts DEF Quiet, pageVars
    <3> QED BY <1>0, <3>1, CallStays
  <2>3. OfUpdate'
    <3>1. owner' # NoOwner => owner' = owner /\ upd'.bank = upd.bank /\ upd'.rev = upd.rev
      BY <1>16, BlockFacts DEF Outcome, SameUpdate
    <3> QED BY <1>0, <3>1, UpdateStays
  <2> QED BY <2>1, <2>2, <2>3
<1>17. CASE Rebuild
  <2>1. \A j \in Instances : OfTransfer(j)'
    <3>1. \A j \in Instances : transfers'[j] \in {transfers[j], NoTransfer}
      BY <1>17, RebuildFacts
    <3> QED BY <1>0, <3>1, TransferStays
  <2>2. \A d \in Requests : OfCall(d)'
    <3>1. \A d \in Requests : calls'[d].pc = "lock" => calls'[d] = calls[d]
      BY <1>17, RebuildFacts DEF Quiet, pageVars
    <3> QED BY <1>0, <3>1, CallStays
  <2>3. OfUpdate'
    <3>1. owner' # NoOwner => owner' = owner /\ upd'.bank = upd.bank /\ upd'.rev = upd.rev
      BY <1>17, RebuildFacts DEF lentVars
    <3> QED BY <1>0, <3>1, UpdateStays
  <2> QED BY <2>1, <2>2, <2>3
<1>18. CASE RebuildFails
  <2>1. \A j \in Instances : OfTransfer(j)'
    <3>1. \A j \in Instances : transfers'[j] \in {transfers[j], NoTransfer}
      BY <1>18, RebuildFailsFacts
    <3> QED BY <1>0, <3>1, TransferStays
  <2>2. \A d \in Requests : OfCall(d)'
    <3>1. \A d \in Requests : calls'[d].pc = "lock" => calls'[d] = calls[d]
      BY <1>18, RebuildFailsFacts DEF Quiet, pageVars
    <3> QED BY <1>0, <3>1, CallStays
  <2>3. OfUpdate'
    <3>1. owner' # NoOwner => owner' = owner /\ upd'.bank = upd.bank /\ upd'.rev = upd.rev
      BY <1>18, RebuildFailsFacts DEF lentVars
    <3> QED BY <1>0, <3>1, UpdateStays
  <2> QED BY <2>1, <2>2, <2>3
<1>19. CASE Restore \/ NewPage \/ HostPlays
  <2>1. \A j \in Instances : OfTransfer(j)'
    <3>1. \A j \in Instances : transfers'[j] \in {transfers[j], NoTransfer}
      BY <1>19, WorldFacts
    <3> QED BY <1>0, <3>1, TransferStays
  <2>2. \A d \in Requests : OfCall(d)'
    <3>1. \A d \in Requests : calls'[d].pc = "lock" => calls'[d] = calls[d]
      BY <1>19, WorldFacts DEF Quiet, pageVars
    <3> QED BY <1>0, <3>1, CallStays
  <2>3. OfUpdate'
    <3>1. owner' # NoOwner => owner' = owner /\ upd'.bank = upd.bank /\ upd'.rev = upd.rev
      BY <1>19, WorldFacts DEF lentVars
    <3> QED BY <1>0, <3>1, UpdateStays
  <2> QED BY <2>1, <2>2, <2>3
<1>20. CASE UNCHANGED assetVars
  <2>1. \A j \in Instances : OfTransfer(j)'
    <3>1. \A j \in Instances : transfers'[j] \in {transfers[j], NoTransfer}
      BY <1>20 DEF assetVars
    <3> QED BY <1>0, <3>1, TransferStays
  <2>2. \A d \in Requests : OfCall(d)'
    <3>1. \A d \in Requests : calls'[d].pc = "lock" => calls'[d] = calls[d]
      BY <1>20 DEF assetVars
    <3> QED BY <1>0, <3>1, CallStays
  <2>3. OfUpdate'
    <3>1. owner' # NoOwner => owner' = owner /\ upd'.bank = upd.bank /\ upd'.rev = upd.rev
      BY <1>20 DEF assetVars
    <3> QED BY <1>0, <3>1, UpdateStays
  <2> QED BY <2>1, <2>2, <2>3
<1> QED BY <1>1, <1>2, <1>3, <1>4, <1>5, <1>6, <1>7, <1>8, <1>9, <1>10, <1>11, <1>12,
       <1>13, <1>14, <1>15, <1>16, <1>17, <1>18, <1>19, <1>20 DEF AssetNext, Proceed,
       Message, Exchange, Page, Block, World

\* The invariant holds as long as the model runs.
LEMMA AssetInvKept ==
  ASSUME AssetInv, [AssetNext]_assetVars
  PROVE  AssetInv'
<1>1. BankInv' /\ TicketsInv'
  BY OriginsKept, OriginJoin
<1> QED BY <1>1, AssetKindsKept, MessagesKept, LendKept, LiveKept, MemoryKept, NumbersKept DEF
   AssetInv

-----------------------------------------------------------------------------
(* Asset updates: the results.                                             *)

\* An engine with nothing loaded.
LEMMA AssetInvInit == AssetInit => AssetInv
<1> SUFFICES ASSUME AssetInit
             PROVE  AssetInv
  OBVIOUS
<1>1. AssetKinds
  <2>1. \A i \in Instances : cache[i] \in AssetRecord
    <3> DEFINE first == [NoAsset EXCEPT !.known = TRUE, !.rev = 1]
    <3>1. first \in AssetRecord /\ NoAsset \in AssetRecord
      BY AssetConstants DEF NoAsset, AssetRecord
    <3> HIDE DEF first
    <3> QED BY <3>1 DEF AssetInit, first
  <2>2. cache \in [Instances -> AssetRecord]
    BY <2>1 DEF AssetInit
  <2>3. inst \in [Instances -> InstanceRecord] /\ live \in [Instances -> Numbers]
        /\ latest \in [Instances -> Numbers] /\ transfers \in [Instances -> TransferRecord]
        /\ calls \in [Requests -> CallRecord] /\ upd \in UpdateRecord
    BY AssetConstants DEF AssetInit
  <2>4. reqs \in Seq(RequestRecord) /\ Len(reqs) <= MaxRequests
    BY AssetConstants DEF AssetInit
  <2>5. \A i \in Instances : cache[i].bank \in Numbers /\ cache[i].rev \in Nat
           /\ cache[i].state \in {"none", "active", "error"} /\ transfers[i].n \in Numbers
    BY <2>2, <2>3 DEF AssetRecord, TransferRecord
  <2>6. owner \in 0..MaxRequests
    BY AssetConstants DEF AssetInit, NoOwner
  <2> QED BY <2>2, <2>3, <2>4, <2>5, <2>6 DEF AssetInit, AssetKinds, AssetTypeOK, InstanceRecord
<1>2. \A c \in Requests : calls[c].pc = "idle"
  BY DEF AssetInit, Idle
<1>3. owner = NoOwner /\ slot = "idle" /\ cb = "out" /\ ~upd.applied /\ reqs = <<>>
  BY DEF AssetInit, NoAssetUpdate
<1>4. \A i \in Instances : /\ live[i] = 0 /\ transfers[i].n = 0
                          /\ cache[i].size = 0 /\ cache[i].state = "none"
  BY DEF AssetInit, NoTransfer, NoAsset
<1>5. MessagesInv
  BY <1>2 DEF MessagesInv, MessageOf
<1>6. LendInv
  BY <1>2, <1>3 DEF LendInv, Holding, OneUserOfUpdate, NoOwner, Requests
<1>7. LiveInv
  BY <1>3, <1>4 DEF LiveInv, LiveOf
<1>8. MemoryInv
  <2>1. ASSUME NEW i \in Instances
        PROVE  Cached(Mates(i)) = 0
    <3>1. Mates(i) \subseteq Instances
      BY AssetConstants DEF Mates
    <3>2. \A j \in Mates(i) : 1..cache[j].size = {}
      BY <1>4, <3>1
    <3>3. Pieces(cache, Mates(i)) = {}
      BY <3>2 DEF Pieces
    <3> QED BY <3>3, FS_EmptySet DEF Cached
  <2> QED BY <1>3, <2>1, AssetConstants DEF MemoryInv, WithinBudget
<1>9. NumbersInv
  BY <1>3 DEF NumbersInv
<1>10. BankInv /\ TicketsInv
  BY <1>2, <1>3, <1>4 DEF BankInv, TicketsInv, TransferOf
<1> QED BY <1>1, <1>5, <1>6, <1>7, <1>8, <1>9, <1>10 DEF AssetInv

\* The invariant: types, the lending of the update, what the engine plays,
\* memory, the pieces of banks and the revisions of requests.
THEOREM AssetInvariance == AssetSpec => []AssetInv
<1>1. AssetInit => AssetInv
  BY AssetInvInit
<1>2. AssetInv /\ [AssetNext]_assetVars => AssetInv'
  BY AssetInvKept
<1> QED BY <1>1, <1>2, PTL DEF AssetSpec

\* The variables keep to their types.
THEOREM AssetTypes == AssetSpec => []AssetTypeOK
<1>1. AssetInv => AssetTypeOK
  BY DEF AssetInv, AssetKinds
<1> QED BY <1>1, AssetInvariance, PTL

\* The storage of an update is used by the callback or by the control thread,
\* never by both (plugin_processor.cpp:3700-3704).
THEOREM UpdateHasOneUser == AssetSpec => []OneUserOfUpdate
<1>1. AssetInv => OneUserOfUpdate
  BY DEF AssetInv, LendInv
<1> QED BY <1>1, AssetInvariance, PTL

\* The page is told the truth: what it is told is active plays and is replayed
\* (engine_host.cpp:1206-1215), the cached banks fit into their memory whatever
\* their instances needed, and a bank that is played has the pieces of one
\* request, that of the message which brings it (plugin_processor.cpp:4858-4861).
THEOREM AnswersAreTrue == AssetSpec => []BanksAreAsAnswered
<1>1. AssetInv => ReplayIsLive
  <2> SUFFICES ASSUME AssetInv, NEW i \in Instances, cache[i].state = "active",
                      owner # NoOwner => i # Updated
               PROVE  live[i] = cache[i].bank /\ live[i] # 0
    BY DEF ReplayIsLive
  <2>1. ~(upd.applied /\ i = Updated)
    BY DEF AssetInv, LendInv
  <2> QED BY <2>1 DEF AssetInv, LiveInv, LiveOf
<1>2. AssetInv => WithinBudget
  BY DEF AssetInv, MemoryInv
<1>3. AssetInv => WholeBank
  BY DEF AssetInv, LendInv, BankInv, Taken, WholeBank
<1> QED BY <1>1, <1>2, <1>3, AssetInvariance, PTL DEF BanksAreAsAnswered

\* An update is applied to the engine only at its boundary, where its instance
\* has the revision that the request of the update was given.
Applies ==
    upd'.applied /\ ~upd.applied =>
       owner # NoOwner /\ cache[Updated].known /\ cache[Updated].rev = upd.rev

\* No step applies an update that is not the one its instance waits for.
LEMMA AppliedIsCurrent ==
  ASSUME AssetInv, [AssetNext]_assetVars
  PROVE  Applies
<1>1. ASSUME NEW i \in Instances, NEW paged \in BOOLEAN, BeginTransfer(i, paged)
      PROVE  Applies
  <2>1. UNCHANGED upd
    BY <1>1, BeginFacts DEF lentVars
  <2> QED BY <2>1 DEF Applies
<1>2. ASSUME NEW i \in Instances, Clear(i)
      PROVE  Applies
  <2>1. UNCHANGED upd
    BY <1>2, ClearFacts DEF lentVars
  <2> QED BY <2>1 DEF Applies
<1>3. ASSUME NEW c \in Requests, Continue(c)
      PROVE  Applies
  <2>1. UNCHANGED upd
    BY <1>3, ContinueFacts DEF lentVars
  <2> QED BY <2>1 DEF Applies
<1>4. ASSUME NEW c \in Requests, AppendPiece(c)
      PROVE  Applies
  <2>1. UNCHANGED upd
    BY <1>4, PieceFacts DEF lentVars
  <2> QED BY <2>1 DEF Applies
<1>5. ASSUME NEW c \in Requests, Cancel(c)
      PROVE  Applies
  <2>1. UNCHANGED upd
    BY <1>5, CancelFacts DEF lentVars
  <2> QED BY <2>1 DEF Applies
<1>6. ASSUME NEW c \in Requests, Commit(c)
      PROVE  Applies
  <2>1. UNCHANGED upd
    BY <1>6, CommitFacts DEF lentVars
  <2> QED BY <2>1 DEF Applies
<1>7. ASSUME NEW c \in Requests, SetAsset(c)
      PROVE  Applies
  <2>1. UNCHANGED upd
    BY <1>7, SetFacts DEF lentVars
  <2> QED BY <2>1 DEF Applies
<1>8. ASSUME NEW c \in Requests, ClearAsset(c)
      PROVE  Applies
  <2>1. UNCHANGED upd
    BY <1>8, ClearedFacts DEF lentVars
  <2> QED BY <2>1 DEF Applies
<1>9. ASSUME NEW c \in Requests, Create(c)
      PROVE  Applies
  <2>1. ~upd'.applied \/ UNCHANGED upd
    BY <1>9, CreateFacts DEF lentVars
  <2> QED BY <2>1 DEF Applies
<1>10. ASSUME NEW c \in Requests, Observe(c)
       PROVE  Applies
  <2>1. UNCHANGED upd
    BY <1>10, ObserveFacts DEF lentVars
  <2> QED BY <2>1 DEF Applies
<1>11. ASSUME NEW c \in Requests, ServeInWindow(c)
       PROVE  Applies
  BY <1>11, WindowFacts DEF Applies, Outcome
<1>12. ASSUME NEW c \in Requests, Prepare(c)
       PROVE  Applies
  BY <1>12, PrepareFacts DEF Applies
<1>13. ASSUME NEW c \in Requests, Activate(c)
       PROVE  Applies
  BY <1>13, ActivateFacts DEF Applies, Outcome
<1>14. ASSUME NEW c \in Requests, FinishUpdate(c)
       PROVE  Applies
  <2>1. upd' = NoAssetUpdate
    BY <1>14, FinishFacts
  <2> QED BY <2>1 DEF Applies, NoAssetUpdate
<1>15. CASE Look
  <2>1. UNCHANGED upd
    BY <1>15, LookFacts DEF lentVars
  <2> QED BY <2>1 DEF Applies
<1>16. CASE ServeInBlock
  BY <1>16, BlockFacts DEF Applies, Outcome
<1>17. CASE Rebuild
  <2>1. UNCHANGED upd
    BY <1>17, RebuildFacts DEF lentVars
  <2> QED BY <2>1 DEF Applies
<1>18. CASE RebuildFails
  <2>1. UNCHANGED upd
    BY <1>18, RebuildFailsFacts DEF lentVars
  <2> QED BY <2>1 DEF Applies
<1>19. CASE Restore \/ NewPage \/ HostPlays
  <2>1. UNCHANGED upd
    BY <1>19, WorldFacts DEF lentVars
  <2> QED BY <2>1 DEF Applies
<1>20. CASE UNCHANGED assetVars
  BY <1>20 DEF Applies, assetVars
<1> QED BY <1>1, <1>2, <1>3, <1>4, <1>5, <1>6, <1>7, <1>8, <1>9, <1>10, <1>11, <1>12,
       <1>13, <1>14, <1>15, <1>16, <1>17, <1>18, <1>19, <1>20 DEF AssetNext, Proceed,
       Message, Exchange, Page, Block, World

\* A player is never given a bank, nor cleared, by a request that a later one
\* has superseded, as long as its instance stays in the replay cache
\* (engine_host.cpp:1189-1190).
THEOREM NewestRequestWins == AssetSpec => NewestBankWins
<1>1. ASSUME AssetInv, [AssetNext]_assetVars, upd'.applied, ~upd.applied
      PROVE  owner = latest[Updated] \/ reqs[owner].orphan
  <2>1. owner # NoOwner /\ cache[Updated].known /\ cache[Updated].rev = upd.rev
    BY <1>1, AppliedIsCurrent DEF Applies
  <2>2. Updated \in Instances /\ cache[Updated].rev \in Nat
    BY <1>1, <2>1, UpdatedFacts DEF AssetInv, AssetKinds, AssetTypeOK
  <2>3. Ticket(owner, upd.rev)
    BY <1>1, <2>1 DEF AssetInv, TicketsInv
  <2> QED BY <2>1, <2>2, <2>3 DEF Ticket, Updated
<1>2. AssetInv /\ [AssetNext]_assetVars =>
        [upd'.applied /\ ~upd.applied => owner = latest[Updated] \/ reqs[owner].orphan]_assetVars
  BY <1>1
<1> QED BY <1>2, AssetInvariance, PTL DEF AssetSpec, NewestBankWins
=============================================================================
