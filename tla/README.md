# Verification project for EffeTune Mixwright

EffeTune Mixwright is a VST3 plug-in (C++) that hosts the EffeTune effect
pipeline and its web editor inside a digital audio workstation. This directory
holds TLA+ models of the parts of it whose correctness depends on the order in
which threads act, the TLC configurations that check them on small instances,
and TLAPS proofs of the properties that matter most.

Source paths are relative to the repository root (`src/plugin/...`); in
`PROJECT.json` they carry the prefix of the checkout.

## The system

| Part | Source | State it keeps | Operations |
|---|---|---|---|
| Plug-in processor | `src/plugin/plugin_processor.*` | document, epochs, gate, claims, slots of every hand-off | VST3 calls, `process()`, `handleUiMessage()`, the 50 ms control service |
| Engine host | `src/engine/engine_host.*` | instances, descriptor, latency observations, assets, telemetry ring | prepare, rebuild, batch of a block, latency and asset updates |
| Lock-free queues | `src/engine/command_queue.h` | ring of commands, mailbox of parameter images | push, pop, publish, consume, discard |
| Bypass path | `src/engine/dry_delay.*`, `output_transition.*` | delay history, ramp | process, apply update, reset |
| Automation | `src/engine/automation_*`, `src/plugin/automation_*` | bindings of 128 host parameters, points of a block | reconcile, schedule, drain, trace |
| Analysis | `src/engine/output_analyzers.*`, `*spectrum_capture*` | capture requests and spectra | request, capture, read |
| Resampler | `src/engine/resampler.*` | filter state | process |
| Bridge | `src/bridge/*` | web contexts, presets, configuration, SFZ index | messages, stores |
| UI shim | `src/ui-shim/*` | the page's view of the native state | requests, polls |

The DSP core (`effetune::Engine`) is a git submodule and not part of the
repository; what the models need of it is taken from how `src/` uses it.

Three kinds of thread meet in the processor:

* the **audio callback** runs `process()`; it never locks and never waits;
* the **message thread** runs `handleUiMessage()` and every 50 ms the control
  service (`drainAutomationValues`, `serviceLatencyUpdates`,
  `serviceHeldHostEdits`);
* the **host thread** runs `setActive`, `setupProcessing`, `setState`, `terminate`.

The control threads exclude each other by `processingResourcesMutex_`. Between
them and the callback there are only atomics: a block epoch, a gate with claim
counts, slots that change owner (`LatencyUpdateState`, `AssetUpdateState`),
queues and seqlocks. That is where the hard behaviours are, and what the models
are about. `PROJECT.json` lists them as `hazards`, each at its line.

What makes each part correct:

* exclusion: nothing the callback uses is written while it uses it, and no
  control operation waits for more than the block it found;
* parameter mailbox: an image can be garbled only if a confirmation overtook its
  announcement, and then a whole one follows; the newest image of every plug-in
  is eventually applied;
* latency hand-off: wet path, bypass delay and published latency are those of
  one plan; the plan, the queued topology and the host eventually catch up;
* queues: FIFO, nothing lost but what was refused, no slot shared;
* MIDI telemetry: a page that missed an event starts afresh;
* bypass delay: what comes out is what went in `delay` frames ago, whatever
  changes of the delay happened on the way;
* automation: hand, lane and host agree in the end on one value, the last to
  speak wins, what is saved is what is played;
* engine telemetry: every frame is delivered or counted as dropped, once;
* snapshots: a reader gets one whole publication, and not one that was
  replaced before it began;
* host gestures: the host hears of a value inside a touch only, after the
  punch-in position, and before the touch ends;
* state restore: nothing of an older generation gets into the restored
  document, and the restore is completed;
* asset updates: one user of the update at a time, the newest bank wins, and
  engine, replay cache and answer say the same;
* web views: one live editor, no operation admitted after its caller gave up,
  nothing left behind at a shutdown;
* files: replaced whole or not at all; no selection of a bank lost.

## Modules

| Module | Models | State and actions |
|---|---|---|
| `AudioGate` | `plugin_processor.cpp`: block epoch, gate, claims, apply-table faces | The callback is `EnterBlock` .. `ExitBlock`, one action per atomic it reads. A control operation is a nest of windows (`WindowsOf`): `ClaimEngine`, `CloseGate`, `ClaimTimeline`, `ClaimImage` open one, `ObserveEpoch`/`EpochMoved` wait the running block out, `RunBody` does what the operation does to gate and topology, `CloseWindow`/`DropClaim` are the destructors. `TerminateStep` is `terminate()` beside it: `CloseGateForGood`, `TerminateObserves`/`TerminateQuiesced` its wait, `ClearBuffers` |
| `LatestValueBox` | what the parameter mailbox promises | publish, take, discard, per plug-in; `Spoil`: what was taken is garbled while a newer image is waiting |
| `ParameterMailbox` | `command_queue.h`: `LatestParameterMailbox` | one action per atomic access of `publish()` and `consumePending()`; the consumer's stores pass through a store buffer that `DrainStore` empties |
| `BoundedQueue` | what the command queue promises | put, refuse, take, find empty |
| `SpscQueue` | `command_queue.h`: `SpscQueue` | one action per index access and per copy |
| `MidiTelemetry` | `publishMidiTelemetry`, `appendMidiTelemetry`, the page's `applyNativeMidiInput` | pushes and stores of a block, loads and pops of a poll, a page that starts, a deactivation; the queue is `BoundedQueue`'s sequence |
| `LatencyHandoff` | latency slot, control service, descriptor and image replacement, host notification | `AudioStep` (stage, apply, process, capture), `TickStep` (the 50 ms service, its in-window synchronisation included), `ReplaceStep` (rebuild, configure; `RebuildRefused` and `ConfigureRefused` roll back, `GiveUp` leaves the gate closed, `Reactivate` opens it again), `Environment` (edits, the host) |
| `DelayLine` | what the bypass delay promises | pass a frame, change the delay, clear, renew |
| `DryDelay` | `dry_delay.cpp` | prepare, reset, prepared update, apply, set delay, a block frame by frame |
| `AutomationAuthority` | one automation slot across `automation_scheduler.cpp` and the edit, host-write, drain and rebinding paths of `plugin_processor.cpp` | `AudioStep`: a block adopts a configuration, ingests a hand-off, classifies and takes the host's queue, publishes, renders or fails. `ControlStep`: `BeginEdit` .. `ConfigureEdit` an edit with its touch, `HostWrites` .. `AnnounceHandoff` a write of the host, `Drain` and `WriteDrained` the drain into registry and document, `Refresh` the rebuilding of the registry from the document, `Reset` an activation |
| `TelemetryRing` | `engine_host.cpp`: `drainTelemetryUnlocked`, `readTelemetry`, `discardTelemetry`, `clearInstancesUnlocked` | `BeginDrain` .. `PublishSlot` the end of a block, `BeginPoll` .. `EndPoll` and `BeginDiscard` .. `EndDiscard` the page under the engine mutex, `ClearInstances` a rebuild |
| `SeqlockSnapshot` | `publishHostContext`, `publishHostTransport`, `SoundFontMixerProjection` and their readers | one action per store or load of the sequence number and of a field |
| `HostGesture` | `plugin_processor.cpp` 2263-2635 and the edits of a plug-in image (5800-5946) | `Press`, `Edits`, `Release`, `CloseAll`, `Rebuilt` begin a message; `OpenForEdit` .. `Finish` and `CloseNext` are its calls of the host, each with an `...Answered` action in which the host refuses or accepts; `Restore` is a host that calls `setState()` from inside one or between messages (`RestoreElsewhere`: at any moment, in `SpecOtherThread` only); `Tick` is the timer, `MoveEpoch` the callback |
| `StateReplacement` | `setState`, `getState`, the handshake of a page and the bulk and single-image requests of `handleUiMessage` | `Restore`, `AskReload` the host; `NewPage`, `Handshake`, `Load`, `SendImage` the page; `Enter`, `Decide`, `Replace`, `Rebuild`, `RestoreHistory`, `Check`, `Commit` the locked regions of a request |
| `AssetUpdate` | `plugin_processor.cpp` 3690-3761 and 4804-4997, the asset table of `engine_host.cpp` | `BeginTransfer`, `AppendPiece`, `Cancel`, `Commit`, `Clear` the messages; `Create` .. `FinishUpdate` the exchange of `replaceSfzAsset()`; `Look`, `ServeInBlock` the callback; `Rebuild`, `RebuildFails`, `Restore`, `NewPage`, `HostPlays` what overtakes it |
| `WebViewHost` | `webview_host.cpp`, Windows build | `Attach` .. `FinishAttach`, `DetachView`, `Evaluate`, `Shutdown` the callers; `Invoke`, `Send`, `Answered`, `TimeOut` the bounded wait; `Pump`, `DrainNext`, `DrainRun` the owner's message loop; `ViewReady`, `ViewFails`, `Tick` the start-up watch |
| `InstrumentLibrary` | `sfz_library.cpp` and its callers | `Ask`, `Choose`, `Chosen` a request with its file chooser; `Acquire`, `Stage`, `Replace`, `Answer` the registry under its lock file; `Open`, `BeginLoad`, `ReadBytes`, `EndLoad`, `CloseRead` a pinned read |
| `FileStores` | `preset_store.cpp`, `config_store.cpp`, `backup_export.cpp` | `OpenTemporary`, `WritePiece`, `Rename` and their failures; `AskBackup` .. `CancelBackup` |
| `PluginFiles`, `PluginInstances` | both of them with the ends of pages, editors and processes | `NewPage`, `Detach`, `Crash`: one step of library and stores together |
| `*Proofs` | | theorems about the module of that name; `EngineUpdateProofs` those of `LatencyHandoff` and `AssetUpdate`, `CallbackPathsProofs` those of `SpscQueue`, `TelemetryRing`, `DryDelay`, `SeqlockSnapshot` and `MidiTelemetry`, `BridgeProofs` those of `InstrumentLibrary`, `FileStores` and `WebViewHost` |
| `MC*` | | instances that need definitions; the other runs take their constants from the `.cfg`. `MCCallbackPaths` puts five modules that share no state beside each other: a behaviour is of one of them |

How they fit together. Each level uses what the one below establishes, as an
assumption of its actions. `AudioGate` shows that an open window means no block
in the engine; `LatencyHandoff` and `DryDelay` take that as the guard of what
the control side does in a window. `ParameterMailbox` takes from it that there
is one consumer. `MidiTelemetry` runs over `BoundedQueue`, which `SpscQueue` is
shown to implement. `LatencyHandoff` decides when the bypass delay changes,
`DryDelay` shows what such a change does to the sound path. `AutomationAuthority`
takes from `AudioGate` that a reset meets no block, and `AssetUpdate` that a window
on the engine meets none. `HostGesture` takes the epoch of `AudioGate` for the
boundary its first value waits for. `StateReplacement` is what moves the epoch and
the page generation that `AssetUpdate` and `HostGesture` compare. `PluginFiles`
composes `InstrumentLibrary` and `FileStores`. `WebViewHost` stands beside the rest.

Three abstract specifications are implemented under a refinement mapping:
`LatestValueBox` by `ParameterMailbox`, `BoundedQueue` by `SpscQueue`,
`DelayLine` by `DryDelay`.

### Abstractions worth knowing

* `AudioGate` has one control operation at a time, because each holds
  `processingResourcesMutex_` from its first window to its last. What acts
  outside it are actions of their own: the early read of the gate in `os/set`
  (`RequestOversampling`), and `terminate()`, which takes the mutex only to clear
  the buffers (639) and before that closes the gate and waits (622-623) beside
  whatever operation of a message is in progress. Messages may go on after it, even
  past the shutdown of the web view, whose wait for its owner's thread is bounded;
  the host's own calls and the timer have ended. Window bodies are reduced to their
  effect on the gate, the engine's topology and the restore flags. In "replace"
  all windows open before the body; `standDown`'s return before its window
  (932-940) is the operation that does not begin; `os/set` with no host block
  size yet does nothing and is left out.
* Memory is sequentially consistent everywhere but in `ParameterMailbox`. There
  every store of `consumePending()` may reach memory at any later time, in order,
  because the release store of the announcement and the acquire load that confirms
  it (`command_queue.h:162-163`) are not ordered; the `fetch_add` that ends the
  block waits for the last of them. The producer's stores are in memory before it
  unlocks its mutex. What a garbled copy looks like is left open. A model of C++
  relaxed memory in full is out of reach.
* `SeqlockSnapshot` has its steps in one order for all threads: that the relaxed
  loads of `readHostContext()` (2698-2702) might be performed after the check
  that follows them is not modelled.
* `TelemetryRing` numbers the frames; its counters never come near the value at
  which the code saturates them.
* `HostGesture` keeps one Boolean per slot for the epoch a hold compares; group
  edits and the automation trace are left out. Closing the gestures (4181) and
  moving the epoch (4207) of a restore are one step. In `Spec` the host restores
  from inside a call or between messages; from a thread of its own only in
  `SpecOtherThread`, of which no property is claimed (see the observations).
* `LatencyHandoff` covers refused edits, preparations, applications and
  allocations of the delay, a refused rebuild or `os/set` with its rollback, and a
  configuration or a rollback that fails and leaves the gate closed
  (`control = "closed"`). While it is closed, ticks and set-ups are left out:
  no block enters the engine, and all they touch is replaced before the gate opens
  again. A configuration that fails after it stored the latency (884-889) is not
  told apart from one that fails before.
* `StateReplacement` abstracts every content to the restore it descends from.
  `Enter` reads epoch, page and marker (4437-4440) in one step; a mixed reading is
  refused by the later comparisons.
  File choosers, commands to instances, reset and MIDI commands, and `detach` are
  left out.
* `AssetUpdate` takes a bank for the number of its request and a size that counts
  pieces. It leaves out the shortcut for an asset that is there already, sizes
  that change when a bank is staged again, slots beyond the first of an instance,
  a step between finding an update obsolete and retiring it,
  and `bad_alloc` outside the staging.
* `WebViewHost` is the Windows build without resizing, styles, results of
  scripts and `WM_NCDESTROY`; creating the dispatcher window succeeds.
* `InstrumentLibrary` takes a bank for one file with a version;
  `FileStores` takes a document for its writer, in two pieces. A crash keeps all
  that was written: nothing in the code asks for a flush to disk, so a power
  failure may lose more.
* `DryDelay` has one channel: the channels share the cursors and do the same.
* The DSP engine is external. It refuses an update prepared from a snapshot that
  no longer describes it, as `tests/unit/engine_batch_tests.cpp` expects.
* Backoff and debounce are deadlines that expire at any time.
* `AutomationAuthority` follows one slot with one parameter bound to it: slots
  share only summary flags ("something changed"), which each slot's own
  generation confirms. Generations are compared only with the one last seen, so
  each comparison is a Boolean. Samples are abstracted to whether the last point
  falls on a control boundary inside its block or is carried beyond the end. Its
  history variables (`last`, `lastValue`, `dropped`, `older`, `held`) say whose
  statement came last; no action of the code reads them. `dropped` marks two
  places where the code gives up a value on purpose or by race, listed under
  observations below.

## What the runs check

| Run | Instance | States | Shows |
|---|---|---|---|
| `audio_gate` | every control operation | 1,312,468 | `WindowExclusion`: nothing under an open window is in use by a block. `FaceExclusion`: an apply table is not rewritten under the block that latched it, although the wait for a face proven quiet is skipped. `EngineUsable`: no failing path leaves the gate open over a torn-down engine, and past the wait of `terminate()` no block renders, unless a window of a message that overlapped it opens the gate again (`gateReopened`). `NoFalseDiagnostic`: a gate closed in passing is not reported to the user. `OperationsFinish`: a wait needs one block to end |
| `mailbox` | 3 plug-ins, 2 entries, 4 images | 215,188 | `ImagesWholeOrFollowed`: no image is lost to a recycled entry, and only one whose confirmation overtook its announcement can be garbled, while a newer one is pending. `EveryImageSettles`, by a whole image, and the refinement |
| `latency` | 3 edits, latencies 0..1, 1 failure of those `LatencyHandoff` covers | 251,828 | `Aligned`: bypass delay, published latency and applied wet plan agree, unless a synchronisation is owed. `ServicedPlanIsCurrent`. `PendingIsServiced`: plan and queued topology settle, or the gate stays closed. `HostLearnsLatency`, but for a rollback or a gate left closed |
| `callback_paths` | queue: 4 slots, 3 items; MIDI: queue of 2, 3 blocks of up to 2 events, 1 reset; telemetry: 3 slots, 4 frames; snapshot: 2 fields, 3 publications, 2 attempts; delay 0..3, blocks of up to 2, 7 frames | 2,767,946 | `NoSlotRace`, `ImplementsBoundedQueue`: the command queue. `PageFollowsInput`: a MIDI page never skips an event for good and ends up with all of its generation. `FramesAccounted`: every telemetry frame is delivered once and in order, or counted as lost once. `SnapshotIsCurrent`. `ImplementsDelayLine`: every output frame is the input `delay` frames ago |
| `automation` | 2 values, 3 statements | 790,780 | `DocumentFollowsAudio`: when nothing is on its way, document, registry and audio agree, and the drain never writes a publication older than an adoption over it. `HandOutranksLane`: under a touch only the hand's value plays and is published. `LastStatementSettles`: whoever spoke last is played and saved in the end |
| `webview_host` | 2 threads, 2 attachments, 1 further operation | 542,602 | `EditorsAreHonest`: no live editor that nobody will take down, no diagnostic in front of a page that runs. `NoLateOperation`: nothing is admitted after its caller was told it failed; what was admitted before may still take effect (1233-1235). `GenerationsAreReleased`, `EditorIsExplained` |
| `host_gesture` | 2 slots, 2 values, 2 edits, 1 restore | 288,290 | `EditsInsideTouch`, `NothingAtPunchIn`, `ReportedAtRelease`: what the host is told, and when. `DisplayIsAdopted`: the Parameter shows what the registry holds. `HeldReachesHost`: nothing is withheld for good |
| `state_replacement` | 2 restores, 4 pages, 2 requests | 1,124,877 | `BulkImageIsCurrent`: no pipeline of an older generation gets into document or runtime. `SavedIsOneGeneration`: whenever the host saves. `RestoreCompletes`, unless the reload was lost or the engine refused |
| `asset_update` | a player and another instance, memory for 2 pieces each, 2 requests, 2 events | 1,101,957 | `OneUserOfUpdate`: callback and control side are never in the update together. `BanksAreAsAnswered`: an active bank plays and is the one a rebuild stages, the cache stays in its budget, and a bank is of one request. `NewestBankWins`, `MessagesEnd` |
| `plugin_files` | 2 instances, 2 banks, 1 store, 2 backups, 3 operations | 1,231,712 | `RegistryIsHistory`: no import or removal is lost. `PinnedReadsAreOneRevision`. `FilesAreWhole`: store and backup are replaced whole or not at all |
| `adoption`, `stale_image` | small instances | | the findings below |

Some properties are conjunctions of parts that one question asks for together
(`EngineUsable`, `PageFollowsInput`, `BanksAreAsAnswered`, `FilesAreWhole` and
others); most parts have a mutant of their own. Every
module also has a type invariant. Where a proof rests on it, it is part of the
inductive invariant; the runs do not list it again.

Every property of a passing run has a mutant in `PROJECT.json`: a definition of
the model changed the way a plausible bug would change the code, under which
TLC finds that property violated.

### Bounds, and why they are enough

* `mailbox`: three plug-ins in two entries make `publish()` recycle (its second
  scan). Tokens carry a slot and a generation; four generations overtake an
  announced slot twice, which is what it takes to wrap around three slots and to
  write the slot of a confirmed token again. The proof removes the bounds.
* `latency`: three edits let one arrive before, one during and one after the
  preparation of the first; each may go through either of the two slots.
  Revisions stay within `3 * MaxEdits + 1`. Two latencies tell equal from
  unequal, which is all the code compares.
* `callback_paths`: four slots of the command queue make full, empty and wrapped
  distinct; the proof removes the bound. Two MIDI slots and blocks of two events
  overflow the queue in the middle of a block, with a block before and one after.
  Three telemetry slots hold two published ones; with room for one frame a poll
  leaves one behind, and four frames make the callback discard; the proof
  removes these bounds. Three publications overtake a read twice; the proof removes the bound. With delays up
  to 3 the bypass ring is regrown from every fill and every cursor, and 7 frames
  wrap the largest one; the proof removes the bounds.
* `automation`: a value is right or stale, so two are enough. Three statements
  (an edit, a queue of the host, a write of the host) give every pair an
  overtaking third, before, between and after.
* `audio_gate` has no bound: its state is finite.
* `webview_host`: two threads are one owner and one stranger, which is all the
  code tells apart; two attachments make a generation that is published over
  while the one before it starts. The proof removes the bounds, which mattered
  once: an earlier property, never two live editors, holds with two attachments
  and fails with three (see the observations).
* `host_gesture`: two slots for one that closes while the other stays open; two
  edits for a held value and the one that replaces or joins it.
* `state_replacement`: two restores, so that a request may enter before, between
  and after; four pages, so that a page is replaced during its start-up.
* `asset_update`: two requests for an older and a newer bank of one player, or
  for banks that share a budget of two; two events for a rebuild with a restore or
  a page in between.
* `plugin_files`: three operations of either kind in any mix, which is what it
  takes for one instance to write, another to write over it and a third act to
  read. Instances and banks are interchangeable; the symmetry is sound because
  the run has no temporal property.

`CHECK_DEADLOCK FALSE` is set where the bound on edits, blocks or statements
stops the run; in `audio_gate` and `mailbox` deadlock is checked.

### Fairness

* `AudioGate`: weak fairness of a block that has begun (`process()` never
  waits) and of a thread that holds the mutex. Neither the start of a block nor
  the start of an operation is owed.
* `ParameterMailbox`: of the producer in `publish()` and of consumer passes,
  which blocks make while audio runs and the control service makes otherwise.
* `LatencyHandoff`: of a callback the host keeps calling while it plays (the
  host may stop at any time), of the 50 ms timer, of an operation under way and
  of deadlines. Edits are never owed.
* `AutomationAuthority`: of the callback, of the drain the 50 ms timer runs, and
  of the steps of an edit or a commit under way. Edits, queues and writes of the
  host, touches, refreshes and resets are never owed.
* `HostGesture`: weak fairness of a message under way (the host answers its
  calls), strong fairness of the 50 ms timer, which runs between messages.
  `HeldReachesHost` assumes in its statement that blocks go on.
* `StateReplacement`: of `setState()` once it has begun, of a page that starts, of
  the answer to a request. The reload may be lost; the user owes nothing.
* `AssetUpdate`: of the steps of a message under way. Strong fairness of `Look`
  says that a host that keeps playing makes blocks that come past the boundary;
  it may stop and start as it likes.
* `WebViewHost`: every thread returns to its message loop, and the start-up timer
  ticks.

## What is proved

TLAPS checks the following for every value of the constants. Each inductive
invariant was checked by TLC on the run's instance before it was proved.

* `AudioGateProofs`: `Inv` is inductive, hence all safety properties of the run.
  The heart of it is `DrainInv`: while a block still uses what a scope under
  construction protects, the scope is still waiting for it (`WaitsForBlock`).
  The exclusions alone are not inductive, since they say nothing of a scope
  being opened. `NestingInv` says only the outermost scope of a kind restores;
  `DiagnosticInv` follows the two claim reads around the gate; `BuiltInv` ties
  an open gate to a built engine through every failing path. `TerminateWaits` is
  `WaitsForBlock` for the wait of `terminate()`, which may be under way beside that
  of an operation; what it promises is up once a window has opened the gate behind
  it (`gateReopened`), the one exception. Assumption:
  `Operations` is a set of the operations named.
* `EngineUpdateProofs`, latency: `AlignedAlways`, whatever fails. The strengthening is
  `SnapshotMatches`: a fresh snapshot was taken with the resampler in use. An
  allocation of the delay line that fails leaves `latencyStale` set, which is what
  `Aligned` excepts: dry and published latency still agree, the wet plan is ahead.
  An attempt that fails for good changes neither (lemma `CloseAligned`).
  `ServicedPlans` rests on `PlanInv`: revisions only grow, a snapshot of the
  current revision holds what the kernels report, and whatever changes the
  kernels behind a plan leaves it dirty until its revision has moved.
* `EngineUpdateProofs`, assets: `UpdateHasOneUser`, `AnswersAreTrue`,
  `NewestRequestWins`, for any instances, memory, requests, rebuilds and pages.
  `AssetInv` has eight parts. `LendInv` says which message holds the update and
  which side of the slot may use it. `LiveInv` ties what the engine plays to the
  cache, but for the one bank that is applied and not yet cached. `MemoryInv`
  carries the memory left, measured when the update was created, to the end of the
  exchange: nobody else changes the cache meanwhile. `NumbersInv` says that
  operation numbers tell the requests of one page apart, from which `BankInv`
  follows: a piece finds only the transfer of its own request. `TicketsInv` is what
  `NewestRequestWins` needs: the revision that a request was given is behind that
  of the cache as soon as another request supersedes it. It does not hold across an
  entry of the cache that was erased; the attempt to prove it showed that
  `clearAsset()` erases one too (see the observations).
* `ParameterMailboxProofs`: `MailboxInvariance`, `MailboxIsWhole` and the
  refinement, for any number of entries, plug-ins and images, with the consumer's
  stores delayed as long as they like. `BufferInv` says which stores are under way:
  the announcement is in memory, or it is the last of them. The producer never
  writes the slot that is published (`ProducerInv`); so if it writes the slot being
  copied, the token that was confirmed is no longer the published one, and since
  it saw no announcement, that was late. Hence a garbled image has a newer one
  published behind it (`VisitInv`), which the pass leaves pending: that is
  `SpoiledIsFollowed`, and the step `Spoil` of the box. Assumption: only that on
  the constants.
* `CallbackPathsProofs`: what the callback hands over without a lock.
  * The queue: the items between the indices are those pushed and not popped; no
    slot race (`RaceFree`), and the refinement, for every capacity of at least 2.
  * The bypass delay: `DelayInv` and the refinement, for every bound. `HoldsLatest`
    is stated relative to the write cursor, so that a regrowth, which moves every
    frame, preserves it (lemma `OldestPlace`) as a written frame does
    (`AdvancedPlace`). It needs `delayFrames < capacityFrames`, which only
    `Retune` could break.
  * Snapshots: `SnapshotsAreCurrent`, for any fields, readers and attempts.
    `FieldsInv` says what a field holds while it is, or is not, yet written;
    `ReadersInv` that what a reader has copied is the publication of its number
    for as long as the number stands, since a field that was rewritten has moved
    the number. Assumption: the bounds are natural numbers.
  * MIDI: `PagesFollowInput`, for any queue, blocks and polls. A loss ends a
    generation at the latest with its block (`LossInv`); while that block lasts no
    poll lets go of what came after the loss (`SinceLossInv`); hence from the first
    event it took a page has every one of the generation (`RunInv`), and nothing
    of the latest generation is let go but to the page (`CompleteInv`).
  * Telemetry: `EveryFrameIsAccounted`, for any ring, room of a slot and frames.
    `PlacesInv` keeps the page behind the callback with a slot to spare,
    `OrderOfFrames` has what the page got, what a poll holds, the slots from the
    oldest to the newest and the engine's own frames rise in this order, and
    `Accounts` adds them up: delivered, in hand, in slots and lost are all the
    engine made. The sum over the slots needs induction (`SetInduction`), done
    over the set of the numbers for which the claim fails, which has no least
    element; the induction theorems of the library take an operator, which no
    prover here can instantiate. Assumption: there is at least one slot.
* `AutomationAuthorityProofs`: `DocumentsFollowAudio` and `HandsOutrankLanes`. What
  is saved at rest is what is played because each place a value can stand
  (stage, configuration, hand-off, publication, registry, document) is tied to
  the statement that put it there: `StageInv` and `RegistryInv` for the paths of a
  hand (with `Saved`, what the document holds once a drain in hand has written
  it), `HandInv` for the touch, `PublishedInv` for the lane. `NoReplay` is a part
  of the invariant, not a consequence of the others. The exceptions are those of
  the properties themselves (`dropped`).
* `HostGestureProofs`: `EditsStayInside`, `PunchInIsClean`, `ReleasesAreReported`,
  `DisplayFollowsRegistry`, across hosts that refuse, re-enter and restore from
  inside a call. `CountInv` counts the touches the transactions in progress still
  owe the host; `InsideInv` and `TouchInv` say what the interrupted transaction may
  still rely on, `PunchInv` and `HeldInv` what the withheld value waits for.
* `StateReplacementProofs`: `LateImagesAreDropped` and `SavesAreWhole`. `RequestsInv`
  says what a request that has entered knows: either the epoch and the page it
  compared are still those of the processor, or a comparison it has yet to make
  fails. `PageInv` and `PagesInv` say what pages hold from before a restore.
* `BridgeProofs`, files: `RegistryIsKept`, `SessionsStayPinned`, `FilesStayWhole`, for any
  instances, banks, stores and backups, crashes included. `RequestInv` says that
  who holds the lock file has read the registry as it is and staged it with its own
  change only. `SessionInv` ties a pinned read to the revision it opened.
  `WriterInv`, `ExportInv` and `StagingInv` say what a temporary file holds at each
  step of the writer it belongs to; a store two instances wrote at once is excepted
  (`mixed`). Assumptions: `None` is no instance, store, bank or revision, a backup
  at least one piece, the bounds are natural numbers.
* `BridgeProofs`, web view: `HonestEditors` and `NothingRunsLate`, for any threads,
  attachments and operations. `Accounted` says where the cleanup of every
  generation has got to: it is in the slot, some caller is about to retire it, or
  it is retired. `ThreadOf` and `GenerationOf` say what the step a caller stands at
  has done already, and `FailedAreCancelled` that the caller of a bounded wait is
  told it failed only once the operation is cancelled; a cancelled operation is not
  admitted, which is what `NoLateOperation` needs. `Counted` bounds the generations by the calls of
  `attach()`, so that a fresh one is always there.

Every safety and action property of a passing run is stated by a theorem. Only
model-checked: the ten properties about what must come (`OperationsFinish`,
`EveryImageSettles`, `PendingIsServiced`, `HostLearnsLatency`,
`LastStatementSettles`, `GenerationsAreReleased`, `EditorIsExplained`,
`HeldReachesHost`, `RestoreCompletes`, `MessagesEnd`), since the prover does not
reach fairness and `ENABLED`. They hold for the instances above.

## Findings

Each is a run that expects a violation, described in `PROJECT.json`.

* `adoption`: an adopted edit that no block has taken up yet is lost when another
  control is bound or the topology changes, because the registry is rebuilt from
  a document the drain has not reached (`plugin_processor.cpp:1693`).

* `stale_image`: an image of a single plug-in (`updatePlugin`) is judged by the
  pending marker alone. One that enters before a restore and reaches its
  transaction after the new page has completed it is committed into the restored
  document (`plugin_processor.cpp:5959`, 6098), although bulk images compare epoch
  and page generation.

### Observations beside the runs

Five have a configuration that shows them but is not one of the runs:

* `MCAudioGateOversampling.cfg` (module `MCAudioGate`): the `os/set` handler
  decides from a gate read before it took the mutex whether to open the gate again
  (`plugin_processor.cpp:5283`), so that a refused change may leave a playable DSP
  closed.
* `MCAudioGateTerminate.cfg` (module `MCAudioGate`): `terminate()` closes the gate
  and waits (`plugin_processor.cpp:622-623`) without the mutex it takes at 639. A
  message that is in one of its `EngineMutationWindow`s meanwhile restores the flag
  in the window's destructor (1762-1765), so a block may be in the engine when the
  buffers are cleared (640-641), if the host still calls `process()`.
* `MCParameterMailboxStoreBuffer.cfg` (module `MCParameterMailbox`):
  announce-then-confirm of the mailbox needs a full fence (`command_queue.h:162`).
  While the announcement is on its way, the producer may write the slot being
  copied: `NoTornImage` is violated, and a block may apply a garbled image. What the
  run `mailbox` and the proofs show is that a whole one replaces it.
* `MCHostGesturePunchIn.cfg` (module `HostGesture`): the comment at
  `plugin_processor.h:649` has the epoch advanced "at the end of every block";
  `BlockEpochScope` advances it on entry too, so the first value may be told
  before one whole block lies behind the `beginEdit`. `NothingAtPunchIn` is what
  holds.
* `MCHostGestureOtherThread.cfg` (module `HostGesture`): a `setState()` of another
  thread, which the comment at 5845-5851 reckons with, may close a touch after
  an edit was judged against its hold (2328-2331) and before it joins it
  (2475-2478). The hold then survives the touch, and the timer, which does not look
  whether the touch is open (2510-2520), tells the value outside any:
  `EditsInsideTouch` is violated.

The others come from reading:

* A rolled-back rebuild computes whether it changed the latency and drops the
  answer (`plugin_processor.cpp:5424-5426`, 6204-6206), so the host is not told,
  although `src/README.md:211` has notifications "describe applied, not merely
  prepared, compensation". A refused `os/set` configures the previous oversampling
  again and tells the host as little (5302-5307). `failures.rolledBack` in
  `HostLearnsLatency` excepts both.
* The rebuild of `updatePlugin()` discards the whole mailbox (6222) after it has
  replaced the runtime image of one plug-in only; `configureDspLocked()` adopts the
  images first (800). An image of another plug-in that was pending is then not
  applied. `ParameterMailbox` counts what is discarded as settled, whoever discards
  it.
* A bypass delay that cannot be allocated (`plugin_processor.cpp:4109`) leaves the
  wet plan applied a few lines above: dry and wet path are apart until the
  synchronisation that is then owed.
* A value carried beyond the end of a block is dropped by a rebase or a reset
  (`automation_scheduler.cpp:515-522`, 456), although it was published: registry
  and document then hold a value that was never played.
* `commitPendingControllerWritesLocked()` compares the authority generation
  (1149) and adopts later (1172). A queue taken in between wins in the audio and
  loses in the document. This and the one above are the exceptions `dropped`
  makes in `SavedIsPlayed` and `LastStatementSettles`.
* `setParamNormalized()` reads the generation only once it holds the mutex
  (1533), so that a queue that came while it waited does not cancel the write, as
  the comment at 1539 has it; only one that comes later does.
* `openHostGesture()` called by "automation/beginGesture" starts no hold
  (only an edit that opens the touch itself does, 2292-2303), so its first value
  is reported at once even when no block separates it from the `beginEdit`.
* Two comments say more than the code does, without consequence for what is
  heard. At 3643 "no captured or prepared result can survive a
  lifecycle/configuration replacement": `configureDspLocked` does not discard the
  slot; the engine refuses the update later. At 2907 a record of a block "whose
  generation has not been committed yet" is left for the next poll: the position
  is stored before the generation and loaded after it, so one poll can take it;
  `GapIsTransient` shows that the next poll repairs the page.

* The commands for an instance (`instanceCommands_`) are not discarded by a
  restore, and `setMasterBypass` compares no epoch. `storageReadFile` reads the
  document and the marker under different locks. When the reload of a restore is
  lost, the old page's edits are answered with success and dropped.
* `replaceSfzAsset()` waits for a boundary that a host whose blocks all fail
  validation (`process()` returns before it) never reaches; it holds the mutex
  meanwhile. `MessagesEnd` assumes that a host that plays reaches it. The
  activation of a paged bank (3744-3749) does not compare epoch and marker again.
  Request revisions start over when an instance leaves the replay cache: with the
  document (`retainAssets()`), and when a clear finds the instance gone after a
  failed rebuild (`clearAsset()`, 1304). A bank that was committed before may then
  be applied after a newer one (`orphan` in `NewestBankWins`).
* Two plug-in instances write the same temporary file of a store
  (`preset_store.cpp:128`). Their documents may then mix, although the errors speak
  of an atomic replacement (144, 151); `mixed` in `StoreIsLastDocument` excepts
  it. A read-modify-write of presets by two instances loses one of them. The
  registry of banks, which uses a lock file, has neither problem.
* `attach()` of the web view stores the status outside its lock
  (`webview_host.cpp:1542`), so the copy may be of an older generation for a while.
  Between taking a generation out of the slot and retiring it (1506-1520) another
  `attach()` may have its own published: for that moment two editors are alive.
  `NoStrayEditor` states what holds. The owner's thread reads `cancelled` and then runs
  the operation (1233-1235), so one admitted in between may take effect after its
  caller has given up; `NoLateOperation` is about the admission.
* `readHostContext()` reads the fields with relaxed loads between two
  sequentially consistent loads of the number (`plugin_processor.cpp:2698-2703`);
  on weakly ordered machines they might be performed after the second.

## Not modelled, and why

* Resampler, spectrum capture, output analyzers: floating-point signal
  processing, whose correctness is numerical.
* The DSP core: not in the repository.
* Message parsing, the state codec, the parameter codec: stateless conversions.
* View, file dialogs, factory, external URLs, tools: thin wrappers of
  operating-system and SDK calls, or developer tools.
* Automation trace: a diagnostic record no decision reads.
* Frequency preview: one atomic.
* Parts of what is modelled: of the stores their reading and the exchange files
  of presets; of the web view host everything but the Windows build; of the engine
  host the diff of instances in a rebuild and the command batches; of the UI shim
  all but the MIDI page and the pages of `StateReplacement` and `AssetUpdate`.
* The parts the plan below names: not modelled yet.

## Plan

What is left, in order:

1. The abstract specifications below, with their refinements checked and proved.
2. `AutomationScheduler`: the grid of a block as functions over points, against a
   reference curve: what is played does not depend on how the host partitions
   time into blocks; with `automation_binding` and `automation_catalog`.
3. `OutputTransition`; pipeline diff and latency algorithms as operators; capture
   requests of the analyzers.
4. The serialised requests and retries of the page (`vst-audio-manager.js`).

Abstract specifications worth stating: a register the last speaker writes, for
`AutomationAuthority`; a transaction on the host's side, for `HostGesture`; an
atomic file, for `FileStores`; a bounded stream with a loss count, for
`TelemetryRing`.
