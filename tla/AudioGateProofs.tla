--------------------------- MODULE AudioGateProofs ---------------------------
(***************************************************************************)
(* Proofs that AudioGate keeps control threads and the audio callback out  *)
(* of each other's way, whatever operations an instance performs.          *)
(***************************************************************************)
EXTENDS AudioGate, FiniteSetTheorems, TLAPS

-----------------------------------------------------------------------------
(* The stack of windows.                                                    *)

\* SetRestoreOnClose changes the restore flag of the outermost engine window
\* and nothing else.
LEMMA SetRestoreFacts ==
  ASSUME windows \in Seq(Window), NEW restore \in BOOLEAN, SetRestoreOnClose(restore)
  PROVE  /\ windows' \in Seq(Window)
         /\ DOMAIN windows' = DOMAIN windows
         /\ \A i \in DOMAIN windows : windows'[i].kind = windows[i].kind
         /\ \A i \in DOMAIN windows :
              windows[i].kind = "engine" /\ Outermost(i) => windows'[i].restore = restore
         /\ \A i \in DOMAIN windows :
              ~(windows[i].kind = "engine" /\ Outermost(i)) => windows'[i] = windows[i]
<1> DEFINE n == Len(windows)
           image(i) == IF i \in EngineWindows /\ Outermost(i)
                         THEN [windows[i] EXCEPT !.restore = restore]
                         ELSE windows[i]
<1>1. n \in Nat /\ DOMAIN windows = 1..n
  OBVIOUS
<1>2. \A i \in 1..n : windows[i] \in Window
  BY <1>1
<1>3. \A i \in 1..n : image(i) \in Window /\ image(i).kind = windows[i].kind
  BY <1>2 DEF Window
<1>4. windows' = [i \in 1..n |-> image(i)]
  BY <1>1 DEF SetRestoreOnClose
<1>5. windows' \in Seq(Window)
  <2>1. windows' \in [1..n -> Window]
    BY <1>3, <1>4
  <2> QED BY <1>1, <2>1
<1>6. DOMAIN windows' = DOMAIN windows
  BY <1>1, <1>4
<1>7. \A i \in 1..n : i \in EngineWindows <=> windows[i].kind = "engine"
  BY <1>1 DEF EngineWindows
<1> QED BY <1>1, <1>2, <1>3, <1>4, <1>5, <1>6, <1>7 DEF Window

\* A scope that opens goes on top of the stack and moves no other.
LEMMA PushFacts ==
  ASSUME NEW S, NEW s \in Seq(S), NEW x \in S
  PROVE  /\ Append(s, x) \in Seq(S)
         /\ Len(Append(s, x)) = Len(s) + 1
         /\ \A i \in 1..Len(s) : Append(s, x)[i] = s[i]
         /\ Append(s, x)[Len(s) + 1] = x
OBVIOUS

\* A scope that closes was on top of the stack and moves no other.
LEMMA PopFacts ==
  ASSUME NEW S, NEW s \in Seq(S), s # <<>>
  PROVE  /\ Len(s) \in Nat \ {0}
         /\ SubSeq(s, 1, Len(s) - 1) \in Seq(S)
         /\ Len(SubSeq(s, 1, Len(s) - 1)) = Len(s) - 1
         /\ \A i \in 1..(Len(s) - 1) : SubSeq(s, 1, Len(s) - 1)[i] = s[i]
         /\ s[Len(s)] \in S
<1>1. PICK m \in Nat : m + 1 = Len(s)
  <2>1. Len(s) \in Nat \ {0}
    OBVIOUS
  <2> QED BY <2>1
<1>2. Len(s) - 1 = m
  BY <1>1
<1>3. SubSeq(s, 1, m) \in Seq(S)
  BY <1>1
<1>4. Len(SubSeq(s, 1, m)) = m
  BY <1>1
<1>5. ASSUME NEW i \in 1..m PROVE SubSeq(s, 1, m)[i] = s[i]
  BY <1>1
<1>6. s[Len(s)] \in S
  BY <1>1
<1> QED BY <1>1, <1>2, <1>3, <1>4, <1>5, <1>6

\* A finished wait for a scope pushes that scope.
LEMMA QuiescedFacts ==
  ASSUME TypeOK, Quiesced, pending.kind \in WindowKinds
  PROVE  /\ windows' \in Seq(Window)
         /\ Len(windows') = Len(windows) + 1
         /\ \A i \in 1..Len(windows) : windows'[i] = windows[i]
         /\ windows'[Len(windows) + 1] = pending
<1>1. pending \in Window
  BY DEF TypeOK, Pending, Window
<1>2. windows' = Append(windows, pending)
  BY DEF Quiesced, WindowKinds
<1>3. windows \in Seq(Window)
  BY DEF TypeOK
<1> QED BY <1>1, <1>2, <1>3, PushFacts

\* A closing scope is popped.
LEMMA CloseWindowFacts ==
  ASSUME TypeOK, CloseWindow
  PROVE  /\ windows' \in Seq(Window)
         /\ Len(windows) \in Nat \ {0}
         /\ Len(windows') = Len(windows) - 1
         /\ \A i \in 1..(Len(windows) - 1) : windows'[i] = windows[i]
         /\ Innermost \in Window
<1>1. windows \in Seq(Window) /\ windows # <<>>
  BY DEF TypeOK, CloseWindow
<1>2. windows' = SubSeq(windows, 1, Len(windows) - 1)
  BY DEF CloseWindow
<1> QED BY <1>1, <1>2, PopFacts DEF Innermost

\* Whatever is on the stack is a window of one of the three kinds.
LEMMA WindowKindsOf ==
  ASSUME NEW s \in Seq(Window)
  PROVE  \A i \in DOMAIN s : s[i] \in Window /\ s[i].kind \in WindowKinds
<1>1. \A i \in DOMAIN s : s[i] \in Window
  OBVIOUS
<1>2. \A w \in Window : w.kind \in WindowKinds
  BY DEF Window
<1> QED BY <1>1, <1>2

\* There are finitely many engine windows.
LEMMA EngineWindowsFinite ==
  ASSUME windows \in Seq(Window)
  PROVE  IsFiniteSet(EngineWindows) /\ Cardinality(EngineWindows) \in Nat
<1>1. IsFiniteSet(1..Len(windows)) /\ EngineWindows \subseteq 1..Len(windows)
  BY FS_Interval DEF EngineWindows
<1> QED BY <1>1, FS_Subset, FS_CardinalityType

-----------------------------------------------------------------------------
(* What the steps of one side leave alone.                                  *)

AudioStep == EnterBlock \/ FinishProcess

\* The callback never changes what the control side owns, and it moves the
\* epoch only when a block begins or ends.
LEMMA AudioFrame ==
  ASSUME TypeOK, AudioStep
  PROVE  /\ UNCHANGED <<atomicVars, guardedVars, planVars, phase, windows, pending, uiVars,
                        terminationVars>>
         /\ epochUnchanged' \in [Waiters -> BOOLEAN]
         /\ \/ epochUnchanged' = epochUnchanged
            \/ block = "outside" /\ block' = "entered" /\ UNCHANGED stageParameterImages
            \/ block = "leaving" /\ block' = "outside" /\ stageParameterImages' = FALSE
BY DEF AudioStep, TypeOK, EnterBlock, FinishProcess, CheckTimeline, ReadImageClaim,
       LatchTable, LeaveBeforeGate, ReadClaimBeforeGate, CheckGate,
       ReadClaimAfterGate, FinishBlock, ExitBlock, ControlUnchanged

\* terminate() leaves the operation beside it alone, closes the gate or leaves it
\* as it is, and does not touch the wait of that operation.
LEMMA TerminateFrame ==
  ASSUME TypeOK, TerminateStep
  PROVE  /\ UNCHANGED <<audioVars, controlEngineClaims, controlOwnsAudioTimeline,
                        controlOwnsRuntimeImage, publishedAutomationTable, guardedVars,
                        planVars, phase, windows, pending, uiVars, gateReopened>>
         /\ epochUnchanged' \in [Waiters -> BOOLEAN]
         /\ epochUnchanged'["operation"] = epochUnchanged["operation"]
         /\ processingReady' \in BOOLEAN /\ (processingReady' => processingReady)
         /\ termination' \in Terminations
         /\ termination = "none" => ~processingReady'
<1>1. epochUnchanged \in [Waiters -> BOOLEAN] /\ processingReady \in BOOLEAN
  BY DEF TypeOK
<1>2. CASE CloseGateForGood
  BY <1>1, <1>2 DEF CloseGateForGood, OperationUnchanged, Terminations
<1>3. CASE TerminateObserves
  <2>1. epochUnchanged' = epochUnchanged \/
          epochUnchanged' = [epochUnchanged EXCEPT !["terminate"] = TRUE]
    BY <1>3 DEF TerminateObserves
  <2>2. /\ epochUnchanged' \in [Waiters -> BOOLEAN]
        /\ epochUnchanged'["operation"] = epochUnchanged["operation"]
    BY <1>1, <2>1 DEF Waiters
  <2> QED BY <1>1, <1>3, <2>2 DEF TerminateObserves, OperationUnchanged, Terminations
<1>4. CASE TerminateQuiesced \/ ClearBuffers
  BY <1>1, <1>4 DEF TerminateQuiesced, ClearBuffers, OperationUnchanged, Terminations
<1> QED BY <1>2, <1>3, <1>4 DEF TerminateStep

\* What configureDspLocked can answer.
LEMMA OutcomeFacts ==
  ASSUME engine \in {"unprepared", "prepared", "built"}, NEW repack \in BOOLEAN,
         NEW outcome \in ConfigureOutcomes(repack)
  PROVE  /\ outcome.ok \in BOOLEAN
         /\ outcome.engine \in {"unprepared", "prepared", "built"}
         /\ outcome.ok /\ ~repack => outcome.engine = "built"
<1>1. CASE outcome = [ok |-> TRUE, engine |-> IF repack THEN "prepared" ELSE "built"]
  BY <1>1
<1>2. CASE \E e \in {engine, "unprepared", "prepared"} \union (IF repack THEN {} ELSE {"built"}) :
             outcome = [ok |-> FALSE, engine |-> e]
  BY <1>2
<1> QED BY <1>1, <1>2 DEF ConfigureOutcomes

\* A body changes neither what the callback reads nor the scopes themselves: it
\* settles what the outermost engine window restores and how often the apply
\* table is published.
LEMMA BodyFrame ==
  ASSUME TypeOK, RunBody
  PROVE  /\ phase = "body" /\ phase' = "tables" /\ tables' \in Nat
         /\ UNCHANGED <<audioVars, atomicVars, automationApplyTableQuiesced, op,
                        pending, toOpen, epochUnchanged, waitForUiRepack,
                        previousProcessingReady, terminationVars>>
         /\ windows' = windows \/ \E restore \in BOOLEAN : SetRestoreOnClose(restore)
<1>1. engine \in {"unprepared", "prepared", "built"} /\ waitForUiRepack \in BOOLEAN
      /\ previousProcessingReady \in BOOLEAN
  BY DEF TypeOK
<1>2. WasReady \in BOOLEAN
  BY DEF WasReady
<1>3. \E publications \in Nat : BodyDone(publications)
  BY DEF RunBody, KeepTopology, PublishOnly, RestoreState, StandDown, Configure,
         SetOversampling, RestoreOversampling, ReplaceGeneration, ReplaceBeforeSetup, RebuildSucceeds,
         RebuildRestoresPrevious, RebuildFails
<1>4. windows' = windows \/ \E restore \in BOOLEAN : SetRestoreOnClose(restore)
  <2>1. CASE KeepTopology \/ PublishOnly \/ RestoreState
    BY <2>1 DEF KeepTopology, PublishOnly, RestoreState
  <2>2. CASE StandDown \/ RebuildFails \/ ReplaceBeforeSetup
    <3>1. SetRestoreOnClose(FALSE)
      BY <2>2 DEF StandDown, RebuildFails, ReplaceBeforeSetup
    <3> QED BY <3>1, Zenon
  <2>3. CASE RebuildSucceeds \/ RebuildRestoresPrevious
    <3>1. SetRestoreOnClose(TRUE)
      BY <2>3 DEF RebuildSucceeds, RebuildRestoresPrevious
    <3> QED BY <3>1, Zenon
  <2>4. CASE Configure \/ SetOversampling
    <3>1. PICK outcome \in ConfigureOutcomes(waitForUiRepack) :
            SetRestoreOnClose(outcome.ok /\ WasReady /\ ~waitForUiRepack)
      BY <2>4 DEF Configure, SetOversampling
    <3>2. (outcome.ok /\ WasReady /\ ~waitForUiRepack) \in BOOLEAN
      OBVIOUS
    <3> QED BY <3>1, <3>2, Zenon
  <2>5. CASE RestoreOversampling
    <3>1. PICK outcome \in ConfigureOutcomes(waitForUiRepack) :
            SetRestoreOnClose(previousProcessingReady /\ outcome.ok)
      BY <2>5 DEF RestoreOversampling
    <3>2. (previousProcessingReady /\ outcome.ok) \in BOOLEAN
      OBVIOUS
    <3> QED BY <3>1, <3>2, Zenon
  <2>6. CASE ReplaceGeneration
    <3>1. PICK outcome \in ConfigureOutcomes(FALSE) : SetRestoreOnClose(outcome.ok)
      BY <2>6 DEF ReplaceGeneration
    <3>2. outcome.ok \in BOOLEAN
      BY <1>1, OutcomeFacts
    <3> QED BY <3>1, <3>2, Zenon
  <2> QED BY <2>1, <2>2, <2>3, <2>4, <2>5, <2>6 DEF RunBody
<1> QED BY <1>3, <1>4 DEF BodyDone

-----------------------------------------------------------------------------
(* Types.                                                                   *)

\* A window under construction is a kind and a flag.
LEMMA PendingType ==
  ASSUME NEW kind \in WindowKinds \union {"none", "table"},
         NEW restore \in BOOLEAN
  PROVE  [kind |-> kind, restore |-> restore] \in Pending
BY DEF Pending

\* What is left to open once the next scope has been taken.
LEMMA TailFacts ==
  ASSUME NEW S, NEW s \in Seq(S), s # <<>>
  PROVE  /\ Tail(s) \in Seq(S)
         /\ Len(Tail(s)) = Len(s) - 1
         /\ \A i \in 1..(Len(s) - 1) : Tail(s)[i] = s[i + 1]
OBVIOUS

\* Every operation opens scopes of the three kinds.
LEMMA WindowsOfType ==
  ASSUME NEW o \in ControlOperations
  PROVE  WindowsOf(o) \in Seq(WindowKinds)
<1>1. /\ "engine" \in WindowKinds /\ "timeline" \in WindowKinds /\ "image" \in WindowKinds
  BY DEF WindowKinds
<1>2. /\ <<>> \in Seq(WindowKinds) /\ <<"engine">> \in Seq(WindowKinds)
      /\ <<"image">> \in Seq(WindowKinds)
      /\ <<"engine", "timeline">> \in Seq(WindowKinds)
      /\ <<"timeline", "engine">> \in Seq(WindowKinds)
      /\ <<"image", "engine">> \in Seq(WindowKinds)
      /\ <<"timeline", "engine", "timeline">> \in Seq(WindowKinds)
      /\ <<"engine", "engine", "timeline">> \in Seq(WindowKinds)
      /\ <<"engine", "timeline", "engine", "timeline">> \in Seq(WindowKinds)
  BY <1>1
<1> QED BY <1>2 DEF WindowsOf

\* Every variable starts with a value of its kind.
LEMMA InitType == Init => TypeOK
<1> SUFFICES ASSUME Init PROVE TypeOK
  OBVIOUS
<1>1. windows \in Seq(Window) /\ toOpen \in Seq(WindowKinds)
  BY DEF Init
<1>2. pending \in Pending
  BY DEF Init, Pending, NoWindow
<1>3. block \in BlockSteps /\ phase \in Phases
  BY DEF Init, BlockSteps, Phases
<1>4. termination \in Terminations /\ epochUnchanged \in [Waiters -> BOOLEAN]
  BY DEF Init, Terminations
<1> QED BY <1>1, <1>2, <1>3, <1>4 DEF Init, TypeOK

\* Every step keeps every variable in its type; that the claim count stays a
\* natural number rests on ClaimInv, that Tail is applied to a sequence that
\* has one on PhaseInv.
LEMMA TypeStep ==
  ASSUME TypeOK, PhaseInv, ClaimInv, Next
  PROVE  TypeOK'
<1>1. CASE AudioStep
  <2>1. /\ block' \in BlockSteps /\ automationTable' \in {0, 1}
        /\ stageParameterImages' \in BOOLEAN /\ claimedBeforeGate' \in BOOLEAN
    BY <1>1 DEF AudioStep, TypeOK, EnterBlock, FinishProcess, CheckTimeline, ReadImageClaim,
       LatchTable, LeaveBeforeGate, ReadClaimBeforeGate, CheckGate,
       ReadClaimAfterGate, FinishBlock, ExitBlock, ControlUnchanged, BlockSteps
  <2>2. UNCHANGED <<atomicVars, guardedVars, planVars, phase, windows, pending, uiVars,
                    terminationVars>>
        /\ epochUnchanged' \in [Waiters -> BOOLEAN]
    BY <1>1, AudioFrame
  <2> QED BY <2>1, <2>2
          DEF TypeOK, atomicVars, guardedVars, planVars, uiVars, terminationVars
<1>2. CASE RequestOversampling
  BY <1>2 DEF RequestOversampling, TypeOK, audioVars, atomicVars, guardedVars, planVars,
     terminationVars
<1>3. CASE \E o \in Operations : BeginOperation(o)
  <2>1. PICK o \in ControlOperations : BeginOperation(o)
    BY <1>3, OperationsAssumption
  <2>2. \A started \in ControlOperations : WindowsOf(started) \in Seq(WindowKinds)
    BY WindowsOfType
  <2>3. op' \in ControlOperations /\ toOpen' \in Seq(WindowKinds)
    BY <2>1, <2>2 DEF BeginOperation, ControlOperations
  <2>4. oversampling' \in {"idle", "requested", "refused", "restored"}
        /\ waitForUiRepack' \in BOOLEAN /\ phase' \in Phases
    BY <2>1 DEF BeginOperation, TypeOK, Phases
  <2> QED BY <2>1, <2>3, <2>4 DEF BeginOperation, TypeOK, audioVars, atomicVars, guardedVars,
          terminationVars
<1>4. CASE ClaimEngine
  BY <1>4 DEF ClaimEngine, TypeOK, Phases, audioVars, guardedVars, planVars, uiVars,
     terminationVars
<1>5. CASE CloseGate \/ ClaimTimeline \/ ClaimImage
  <2>1. pending' \in Pending
    <3>1. CASE CloseGate
      BY <3>1, PendingType DEF CloseGate, TypeOK, WindowKinds
    <3>2. CASE ClaimTimeline
      BY <3>2, PendingType DEF ClaimTimeline, TypeOK, WindowKinds
    <3>3. CASE ClaimImage
      BY <3>3, PendingType DEF ClaimImage, WindowKinds
    <3> QED BY <1>5, <3>1, <3>2, <3>3
  <2>2. /\ processingReady' \in BOOLEAN /\ controlOwnsAudioTimeline' \in BOOLEAN
        /\ controlOwnsRuntimeImage' \in BOOLEAN /\ phase' \in Phases
    BY <1>5 DEF CloseGate, ClaimTimeline, ClaimImage, TypeOK, Phases
  <2>3. UNCHANGED <<audioVars, controlEngineClaims, publishedAutomationTable, guardedVars,
                    planVars, windows, epochUnchanged, uiVars, terminationVars>>
    BY <1>5 DEF CloseGate, ClaimTimeline, ClaimImage
  <2> QED BY <2>1, <2>2, <2>3
          DEF TypeOK, audioVars, guardedVars, planVars, uiVars, terminationVars
<1>6. CASE ObserveEpoch \/ EpochMoved
  <2>1. CASE Quiesced /\ UNCHANGED epochUnchanged
    <3>1. NoWindow \in Pending
      BY DEF NoWindow, Pending
    <3>2. windows' \in Seq(Window)
      BY <2>1, QuiescedFacts DEF Quiesced, TypeOK, Pending, WindowKinds
    <3>3. toOpen' \in Seq(WindowKinds)
      BY <2>1, TailFacts DEF Quiesced, TypeOK, PhaseInv
    <3>4. phase' \in Phases /\ automationApplyTableQuiesced' \in BOOLEAN
      BY <2>1 DEF Quiesced, TypeOK, Phases
    <3> QED BY <2>1, <3>1, <3>2, <3>3, <3>4
            DEF Quiesced, TypeOK, audioVars, atomicVars, uiVars, terminationVars
  <2>2. CASE ObserveEpoch /\ block # "outside"
    <3>1. epochUnchanged' \in [Waiters -> BOOLEAN] /\ phase' \in Phases
      BY <2>2 DEF ObserveEpoch, TypeOK, Phases, Waiters
    <3>2. UNCHANGED <<audioVars, atomicVars, guardedVars, planVars, windows, pending,
                      uiVars, terminationVars>>
      BY <2>2 DEF ObserveEpoch
    <3> QED BY <3>1, <3>2 DEF TypeOK, audioVars, atomicVars, guardedVars, planVars, uiVars,
            terminationVars
  <2> QED BY <1>6, <2>1, <2>2 DEF ObserveEpoch, EpochMoved
<1>7. CASE WindowsOpen \/ ReachFace \/ BodyEnds
  <2>1. pending' \in Pending
    <3>1. [kind |-> "table", restore |-> FALSE] \in Pending
      BY PendingType
    <3> QED BY <1>7, <3>1 DEF WindowsOpen, ReachFace, BodyEnds, TypeOK
  <2>2. phase' \in Phases
    BY <1>7 DEF WindowsOpen, ReachFace, BodyEnds, Phases
  <2>3. UNCHANGED <<audioVars, atomicVars, guardedVars, planVars, windows,
                    epochUnchanged, uiVars, terminationVars>>
    BY <1>7 DEF WindowsOpen, ReachFace, BodyEnds
  <2> QED BY <2>1, <2>2, <2>3
          DEF TypeOK, audioVars, atomicVars, guardedVars, planVars, uiVars, terminationVars
<1>8. CASE RunBody
  <2>1. windows' \in Seq(Window)
    BY <1>8, BodyFrame, SetRestoreFacts DEF TypeOK
  <2>2. \A repack \in BOOLEAN : \A outcome \in ConfigureOutcomes(repack) :
          outcome.engine \in {"unprepared", "prepared", "built"} /\ outcome.ok \in BOOLEAN
    BY OutcomeFacts DEF TypeOK
  <2>3. engine' \in {"unprepared", "prepared", "built"}
    BY <1>8, <2>2 DEF RunBody, TypeOK, KeepTopology, PublishOnly, RestoreState, StandDown,
       Configure, SetOversampling, RestoreOversampling, ReplaceGeneration, ReplaceBeforeSetup, RebuildSucceeds,
       RebuildRestoresPrevious, RebuildFails
  <2>4. oversampling' \in {"idle", "requested", "refused", "restored"}
    BY <1>8 DEF RunBody, TypeOK, KeepTopology, PublishOnly, RestoreState, StandDown,
       Configure, SetOversampling, RestoreOversampling, ReplaceGeneration, ReplaceBeforeSetup, RebuildSucceeds,
       RebuildRestoresPrevious, RebuildFails
  <2>5. stateReplacementPending' \in BOOLEAN
    BY <1>8, <2>2 DEF RunBody, TypeOK, KeepTopology, PublishOnly, RestoreState, StandDown,
       Configure, SetOversampling, RestoreOversampling, ReplaceGeneration, ReplaceBeforeSetup, RebuildSucceeds,
       RebuildRestoresPrevious, RebuildFails
  <2>6. playableWhenRefused' \in BOOLEAN
    <3>1. CASE SetOversampling
      BY <3>1 DEF SetOversampling, TypeOK
    <3>2. CASE op # "setOversampling"
      BY <1>8, <3>2 DEF RunBody, TypeOK, KeepTopology, PublishOnly, RestoreState, StandDown,
       Configure, SetOversampling, RestoreOversampling, ReplaceGeneration, ReplaceBeforeSetup, RebuildSucceeds,
       RebuildRestoresPrevious, RebuildFails, BodyDone
    <3> QED BY <1>8, <3>1, <3>2 DEF RunBody, TypeOK, KeepTopology, PublishOnly,
       RestoreState, StandDown, Configure, RestoreOversampling, ReplaceGeneration,
       ReplaceBeforeSetup, RebuildSucceeds, RebuildRestoresPrevious, RebuildFails
  <2> QED BY <1>8, BodyFrame, <2>1, <2>3, <2>4, <2>5, <2>6
          DEF TypeOK, Phases, audioVars, atomicVars, terminationVars
<1>9. CASE PublishFace
  BY <1>9 DEF PublishFace, TypeOK, PhaseInv, Phases, audioVars, uiVars, terminationVars
<1>10. CASE CloseWindow
  <2>1. windows' \in Seq(Window) /\ Innermost \in Window
    BY <1>10, CloseWindowFacts
  <2> QED BY <1>10, <2>1 DEF CloseWindow, TypeOK, Phases, Window, audioVars, guardedVars,
          planVars, uiVars
<1>11. CASE DropClaim
  <2>1. controlEngineClaims' \in Nat
    BY <1>11, EngineWindowsFinite DEF DropClaim, TypeOK, ClaimInv
  <2> QED BY <1>11, <2>1 DEF DropClaim, TypeOK, Phases, audioVars, guardedVars, planVars, uiVars,
          terminationVars
<1>12. CASE EndOperation
  <2>1. /\ op' = "none" /\ phase' \in Phases /\ waitForUiRepack' \in BOOLEAN
        /\ UNCHANGED <<audioVars, atomicVars, guardedVars, toOpen, tables, windows,
                       pending, epochUnchanged, terminationVars>>
    BY <1>12 DEF EndOperation, Phases
  <2>2. /\ oversampling' \in {"idle", "requested", "refused", "restored"}
        /\ previousProcessingReady' \in BOOLEAN /\ playableWhenRefused' \in BOOLEAN
    BY <1>12 DEF EndOperation, TypeOK, uiVars
  <2> QED BY <2>1, <2>2 DEF TypeOK, audioVars, atomicVars, guardedVars, terminationVars
<1>13. CASE TerminateStep
  BY <1>13, TerminateFrame DEF TypeOK, audioVars, guardedVars, planVars, uiVars
<1> QED BY <1>1, <1>2, <1>3, <1>4, <1>5, <1>6, <1>7, <1>8, <1>9, <1>10, <1>11, <1>12, <1>13
        DEF Next, ControlStep, AudioStep

-----------------------------------------------------------------------------
(* The stages of an operation.                                              *)

\* Every step keeps a wait tied to the scope, or the table, it is for.
LEMMA PhaseStep ==
  ASSUME TypeOK, PhaseInv, Next
  PROVE  PhaseInv'
<1>1. CASE AudioStep
  <2>1. UNCHANGED <<phase, pending, toOpen, tables>>
    BY <1>1, AudioFrame DEF planVars
  <2> QED BY <2>1 DEF PhaseInv
<1>2. CASE RequestOversampling
  BY <1>2 DEF RequestOversampling, PhaseInv, planVars
<1>3. CASE \E o \in Operations : BeginOperation(o)
  <2>1. phase = "idle" /\ phase' = "open" /\ UNCHANGED <<pending, tables>>
    BY <1>3 DEF BeginOperation
  <2> QED BY <2>1 DEF PhaseInv, WindowKinds
<1>4. CASE ClaimEngine \/ CloseGate \/ ClaimTimeline \/ ClaimImage
  BY <1>4 DEF ClaimEngine, CloseGate, ClaimTimeline, ClaimImage, PhaseInv,
     WindowKinds, planVars
<1>5. CASE ObserveEpoch \/ EpochMoved
  <2>1. CASE Quiesced
    BY <1>5, <2>1 DEF ObserveEpoch, EpochMoved, Quiesced, PhaseInv, NoWindow, WindowKinds
  <2>2. CASE phase = "observe" /\ phase' = "spin" /\ UNCHANGED <<pending, planVars>>
    BY <2>2 DEF PhaseInv, planVars
  <2> QED BY <1>5, <2>1, <2>2 DEF ObserveEpoch, EpochMoved
<1>6. CASE WindowsOpen \/ ReachFace \/ BodyEnds
  BY <1>6 DEF WindowsOpen, ReachFace, BodyEnds, PhaseInv, WindowKinds, TypeOK, planVars
<1>7. CASE RunBody
  <2>1. phase = "body" /\ phase' = "tables" /\ UNCHANGED pending
    BY <1>7, BodyFrame
  <2> QED BY <2>1 DEF PhaseInv, WindowKinds
<1>8. CASE PublishFace \/ CloseWindow \/ DropClaim \/ EndOperation
  <2>1. /\ phase \in {"fill", "close", "unclaim"}
        /\ phase' \in {"tables", "close", "unclaim", "idle"} /\ UNCHANGED pending
    BY <1>8 DEF PublishFace, CloseWindow, DropClaim, EndOperation
  <2> QED BY <2>1 DEF PhaseInv, WindowKinds
<1>9. CASE TerminateStep
  BY <1>9, TerminateFrame DEF PhaseInv, planVars
<1> QED BY <1>1, <1>2, <1>3, <1>4, <1>5, <1>6, <1>7, <1>8, <1>9
        DEF Next, ControlStep, AudioStep

-----------------------------------------------------------------------------
(* The engine claims.                                                       *)

EngineIndices(stack) == {i \in DOMAIN stack : stack[i].kind = "engine"}

\* A stack holds finitely many engine windows, so they can be counted.
LEMMA CountType ==
  ASSUME NEW s \in Seq(Window)
  PROVE  IsFiniteSet(EngineIndices(s)) /\ Cardinality(EngineIndices(s)) \in Nat
<1>1. Len(s) \in Nat /\ EngineIndices(s) \subseteq 1..Len(s)
  BY DEF EngineIndices
<1>2. IsFiniteSet(1..Len(s))
  <2>1. 1 \in Int /\ Len(s) \in Int
    BY <1>1
  <2> QED BY <2>1, FS_Interval
<1> QED BY <1>1, <1>2, FS_Subset, FS_CardinalityType

\* Pushing or popping an engine window changes their number by one.
LEMMA CountPush ==
  ASSUME NEW s \in Seq(Window), NEW t \in Seq(Window), Len(t) = Len(s) + 1,
         \A i \in 1..Len(s) : t[i] = s[i]
  PROVE  Cardinality(EngineIndices(t)) =
           Cardinality(EngineIndices(s)) + (IF t[Len(t)].kind = "engine" THEN 1 ELSE 0)
<1>1. IsFiniteSet(EngineIndices(s)) /\ Cardinality(EngineIndices(s)) \in Nat
  BY CountType
<1>2. Len(s) \in Nat /\ DOMAIN s = 1..Len(s) /\ DOMAIN t = 1..(Len(s) + 1)
  OBVIOUS
<1>3. CASE t[Len(t)].kind = "engine"
  <2>1. EngineIndices(t) = EngineIndices(s) \union {Len(s) + 1}
    BY <1>2, <1>3 DEF EngineIndices
  <2>2. Len(s) + 1 \notin EngineIndices(s)
    BY <1>2 DEF EngineIndices
  <2> QED BY <1>1, <1>3, <2>1, <2>2, FS_AddElement
<1>4. CASE t[Len(t)].kind # "engine"
  <2>1. EngineIndices(t) = EngineIndices(s)
    BY <1>2, <1>4 DEF EngineIndices
  <2> QED BY <1>1, <1>4, <2>1
<1> QED BY <1>3, <1>4

\* Every step keeps the count of claims equal to the engine windows it stands for.
LEMMA ClaimStep ==
  ASSUME TypeOK, PhaseInv, ClaimInv, Next, TypeOK'
  PROVE  ClaimInv'
<1> DEFINE extra == IF phase \in {"claimed", "unclaim"} \/ pending.kind = "engine" THEN 1 ELSE 0
<1>1. /\ EngineWindows = EngineIndices(windows)
      /\ controlEngineClaims = Cardinality(EngineIndices(windows)) + extra
  BY DEF EngineWindows, EngineIndices, ClaimInv
<1>2. EngineWindows' = EngineIndices(windows')
  BY DEF EngineWindows, EngineIndices
<1>3. Cardinality(EngineIndices(windows)) \in Nat
  BY <1>1, EngineWindowsFinite DEF TypeOK
<1>4. SUFFICES controlEngineClaims' = Cardinality(EngineIndices(windows')) + extra'
  BY <1>2 DEF ClaimInv
<1>5. CASE /\ UNCHANGED <<controlEngineClaims, windows, pending>>
           /\ phase \in {"claimed", "unclaim"} <=> phase' \in {"claimed", "unclaim"}
  BY <1>1, <1>5
<1>6. CASE ClaimEngine
  <2>1. extra = 0 /\ extra' = 1 /\ controlEngineClaims' = controlEngineClaims + 1
        /\ windows' = windows
    BY <1>6 DEF ClaimEngine, PhaseInv, NoWindow
  <2> QED BY <1>1, <1>3, <2>1
<1>7. CASE CloseGate
  <2>1. extra = 1 /\ extra' = 1 /\ UNCHANGED <<controlEngineClaims, windows>>
    BY <1>7 DEF CloseGate
  <2> QED BY <1>1, <2>1
<1>8. CASE ClaimTimeline \/ ClaimImage
  <2>1. extra = 0 /\ extra' = 0 /\ UNCHANGED <<controlEngineClaims, windows>>
    BY <1>8 DEF ClaimTimeline, ClaimImage, PhaseInv
  <2> QED BY <1>1, <2>1
<1>9. CASE Quiesced /\ phase \in {"observe", "spin"}
  <2>1. controlEngineClaims' = controlEngineClaims /\ extra' = 0
    BY <1>9 DEF Quiesced, atomicVars, NoWindow
  <2>2. CASE pending.kind \in WindowKinds
    <3>1. Cardinality(EngineIndices(windows')) = Cardinality(EngineIndices(windows)) + extra
      BY <1>9, <2>2, QuiescedFacts, CountPush DEF TypeOK
    <3> QED BY <1>1, <1>3, <2>1, <3>1
  <2>3. CASE pending.kind \notin WindowKinds
    <3>1. windows' = windows /\ extra = 0
      BY <1>9, <2>3 DEF Quiesced, WindowKinds
    <3> QED BY <1>1, <1>3, <2>1, <3>1
  <2> QED BY <2>2, <2>3
<1>10. CASE RunBody
  <2>1. /\ extra = 0 /\ extra' = 0 /\ controlEngineClaims' = controlEngineClaims
        /\ windows' = windows \/ \E restore \in BOOLEAN : SetRestoreOnClose(restore)
    BY <1>10, BodyFrame DEF PhaseInv, atomicVars
  <2>2. EngineIndices(windows') = EngineIndices(windows)
    BY <2>1, SetRestoreFacts DEF EngineIndices, TypeOK
  <2> QED BY <1>1, <2>1, <2>2
<1>11. CASE CloseWindow
  <2>1. /\ controlEngineClaims' = controlEngineClaims /\ extra = 0
        /\ extra' = IF Innermost.kind = "engine" THEN 1 ELSE 0
    BY <1>11 DEF CloseWindow, PhaseInv
  <2>2. /\ windows' \in Seq(Window) /\ windows \in Seq(Window)
        /\ Len(windows) = Len(windows') + 1
        /\ \A i \in 1..Len(windows') : windows[i] = windows'[i]
    BY <1>11, CloseWindowFacts DEF TypeOK
  <2>3. Cardinality(EngineIndices(windows)) =
          Cardinality(EngineIndices(windows')) + (IF Innermost.kind = "engine" THEN 1 ELSE 0)
    BY <2>2, CountPush DEF Innermost
  <2>4. Cardinality(EngineIndices(windows')) \in Nat
    BY <2>2, CountType
  <2> QED BY <1>1, <1>3, <2>1, <2>3, <2>4
<1>12. CASE DropClaim
  <2>1. extra = 1 /\ extra' = 0 /\ controlEngineClaims' = controlEngineClaims - 1
        /\ windows' = windows
    BY <1>12 DEF DropClaim, PhaseInv
  <2> QED BY <1>1, <1>3, <2>1
<1>13. CASE AudioStep
  <2>1. UNCHANGED <<controlEngineClaims, windows, pending, phase>>
    BY <1>13, AudioFrame DEF atomicVars
  <2> QED BY <1>5, <2>1
<1>14. CASE RequestOversampling \/ (\E o \in Operations : BeginOperation(o))
            \/ WindowsOpen \/ PublishFace \/ BodyEnds \/ EndOperation
  <2>1. UNCHANGED <<controlEngineClaims, windows, pending>>
    BY <1>14 DEF RequestOversampling, BeginOperation, WindowsOpen, PublishFace, BodyEnds,
       EndOperation, atomicVars
  <2>2. phase' = phase \/ (phase \in {"idle", "open", "fill", "tables", "close"}
                           /\ phase' \in {"open", "body", "tables", "close", "idle"})
    BY <1>14 DEF RequestOversampling, BeginOperation, WindowsOpen, PublishFace, BodyEnds,
       EndOperation
  <2> QED BY <1>5, <2>1, <2>2
<1>15. CASE ReachFace
  <2>1. extra = 0 /\ extra' = 0 /\ UNCHANGED <<controlEngineClaims, windows>>
    BY <1>15 DEF ReachFace, PhaseInv, atomicVars
  <2> QED BY <1>1, <2>1
<1>16. CASE ObserveEpoch /\ block # "outside"
  <2>1. UNCHANGED <<controlEngineClaims, windows, pending>>
        /\ phase = "observe" /\ phase' = "spin"
    BY <1>16 DEF ObserveEpoch, atomicVars
  <2> QED BY <1>5, <2>1
<1>17. CASE TerminateStep
  <2>1. UNCHANGED <<controlEngineClaims, windows, pending, phase>>
    BY <1>17, TerminateFrame
  <2> QED BY <1>5, <2>1
<1> QED BY <1>6, <1>7, <1>8, <1>9, <1>10, <1>11, <1>12, <1>13, <1>14, <1>15, <1>16, <1>17
        DEF Next, ControlStep, AudioStep, ObserveEpoch, EpochMoved

-----------------------------------------------------------------------------
(* Nesting.                                                                 *)

\* The steps that neither push, pop nor close a scope.
QuietStep == \/ AudioStep \/ RequestOversampling \/ ClaimEngine \/ WindowsOpen
             \/ ReachFace \/ PublishFace \/ BodyEnds \/ DropClaim \/ EndOperation
             \/ ObserveEpoch /\ block # "outside"

\* A step that neither opens nor closes a scope nor runs a body leaves the
\* claims of the control side, its stack and the engine as they are.
LEMMA QuietFrame ==
  ASSUME TypeOK, PhaseInv, QuietStep
  PROVE  /\ UNCHANGED <<processingReady, controlOwnsAudioTimeline,
                        controlOwnsRuntimeImage, windows, toOpen, engine,
                        terminationVars>>
         /\ pending' = pending \/ (pending.kind = "none" /\ pending'.kind = "table")
         /\ phase' = "idle" => phase = "idle" \/ windows = <<>>
<1>1. CASE AudioStep
  BY <1>1, AudioFrame DEF atomicVars, guardedVars, planVars
<1>2. CASE RequestOversampling \/ ClaimEngine \/ WindowsOpen \/ ReachFace \/ PublishFace
  BY <1>2 DEF RequestOversampling, ClaimEngine, WindowsOpen, ReachFace, PublishFace,
     PhaseInv, atomicVars, guardedVars, planVars
<1>3. CASE BodyEnds \/ DropClaim \/ EndOperation \/ (ObserveEpoch /\ block # "outside")
  BY <1>3 DEF BodyEnds, DropClaim, EndOperation, ObserveEpoch, atomicVars, guardedVars, planVars
<1> QED BY <1>1, <1>2, <1>3 DEF QuietStep

\* Next, by what a step does to the scopes.
LEMMA StepKinds ==
  ASSUME Next
  PROVE  \/ QuietStep
         \/ \E o \in Operations : BeginOperation(o)
         \/ CloseGate \/ ClaimTimeline \/ ClaimImage \/ TerminateStep
         \/ Quiesced /\ phase \in {"observe", "spin"} /\ UNCHANGED epochUnchanged
            /\ (phase = "observe" => block = "outside") /\ (phase = "spin" => ~epochUnchanged["operation"])
         \/ RunBody
         \/ CloseWindow
BY DEF Next, ControlStep, QuietStep, AudioStep, ObserveEpoch, EpochMoved

\* Every step keeps what the open scopes closed closed.
LEMMA ClosedStep ==
  ASSUME TypeOK, PhaseInv, ClosedInv, NestingInv, Next, TypeOK'
  PROVE  ClosedInv'
<1> USE DEF WindowKinds
<1>1. CASE QuietStep
  BY <1>1, QuietFrame DEF ClosedInv, Closed, terminationVars
<1>2. CASE \E o \in Operations : BeginOperation(o)
  BY <1>2 DEF BeginOperation, ClosedInv, Closed, atomicVars, terminationVars
<1>3. CASE CloseGate
  BY <1>3 DEF CloseGate, ClosedInv, Closed, terminationVars
<1>4. CASE ClaimTimeline
  BY <1>4 DEF ClaimTimeline, ClosedInv, Closed, terminationVars
<1>5. CASE ClaimImage
  BY <1>5 DEF ClaimImage, ClosedInv, Closed, terminationVars
<1>6. CASE TerminateStep
  <2>1. /\ UNCHANGED <<controlOwnsAudioTimeline, controlOwnsRuntimeImage, windows, pending,
                       gateReopened>>
        /\ processingReady' => processingReady
        /\ termination = "none" => ~processingReady'
    BY <1>6, TerminateFrame
  <2> QED BY <2>1 DEF ClosedInv, Closed
<1>7. CASE Quiesced /\ phase \in {"observe", "spin"}
  <2>1. UNCHANGED <<processingReady, controlOwnsAudioTimeline, controlOwnsRuntimeImage>>
        /\ pending'.kind = "none"
    BY <1>7 DEF Quiesced, atomicVars, NoWindow
  <2>2. UNCHANGED <<termination, gateReopened>>
    BY <1>7 DEF Quiesced, terminationVars
  <2>3. CASE pending.kind \in WindowKinds
    <3>1. \A i \in DOMAIN windows' : Closed(windows'[i].kind)
      <4>1. /\ windows \in Seq(Window) /\ windows' \in Seq(Window)
            /\ Len(windows') = Len(windows) + 1
            /\ \A i \in 1..Len(windows) : windows'[i] = windows[i]
            /\ windows'[Len(windows) + 1] = pending
        BY <1>7, <2>3, QuiescedFacts DEF TypeOK
      <4>2. ASSUME NEW i \in DOMAIN windows', i # Len(windows) + 1
            PROVE  Closed(windows'[i].kind)
        BY <4>1, <4>2 DEF ClosedInv
      <4>3. Closed(pending.kind)
        BY <2>3 DEF ClosedInv
      <4> QED BY <4>1, <4>2, <4>3
    <3> QED BY <2>1, <2>2, <2>3, <3>1 DEF ClosedInv, Closed
  <2>4. CASE pending.kind \notin WindowKinds
    <3>1. windows' = windows
      BY <1>7, <2>4 DEF Quiesced
    <3> QED BY <2>1, <2>2, <2>4, <3>1 DEF ClosedInv, Closed
  <2> QED BY <2>3, <2>4
<1>8. CASE RunBody
  <2>1. /\ UNCHANGED <<processingReady, controlOwnsAudioTimeline, controlOwnsRuntimeImage, pending>>
        /\ UNCHANGED <<termination, gateReopened>>
        /\ windows' = windows \/ \E restore \in BOOLEAN : SetRestoreOnClose(restore)
    BY <1>8, BodyFrame DEF atomicVars, terminationVars
  <2>2. /\ DOMAIN windows' = DOMAIN windows
        /\ \A i \in DOMAIN windows : windows'[i].kind = windows[i].kind
    BY <2>1, SetRestoreFacts DEF TypeOK
  <2> QED BY <2>1, <2>2 DEF ClosedInv, Closed
<1>9. CASE CloseWindow
  <2> DEFINE n == Len(windows)
  <2>1. /\ n \in Nat \ {0} /\ DOMAIN windows = 1..n /\ DOMAIN windows' = 1..(n - 1)
        /\ \A i \in 1..(n - 1) : windows'[i] = windows[i]
        /\ Innermost = windows[n]
    BY <1>9, CloseWindowFacts DEF TypeOK, Innermost
  <2>2. pending'.kind = "none"
    BY <1>9 DEF CloseWindow, PhaseInv
  <2>3. ASSUME NEW i \in 1..(n - 1)
        PROVE  Closed(windows[i].kind)'
    <3>1. i \in 1..n /\ n \in 1..n /\ i < n
      BY <2>1
    <3>2. windows[i].kind = Innermost.kind => ~Innermost.restore
      BY <2>1, <3>1 DEF NestingInv
    <3>3. windows[i].kind = "image" /\ Innermost.kind = "image" => FALSE
      BY <2>1, <3>1 DEF NestingInv
    <3>4. Closed(windows[i].kind)
      BY <2>1, <3>1 DEF ClosedInv
    <3>5. windows'[i].kind = windows[i].kind
      BY <2>1
    <3> QED BY <1>9, <3>2, <3>3, <3>4, <3>5 DEF CloseWindow, Closed
  <2>4. termination' # "none" /\ ~gateReopened' => ~processingReady'
    BY <1>9 DEF CloseWindow, ClosedInv
  <2> QED BY <2>1, <2>2, <2>3, <2>4 DEF ClosedInv
<1> QED BY <1>1, <1>2, <1>3, <1>4, <1>5, <1>6, <1>7, <1>8, <1>9, StepKinds

\* An operation opens an image scope first or not at all.
LEMMA ImageFirst ==
  ASSUME NEW o \in ControlOperations
  PROVE  \A i \in DOMAIN WindowsOf(o) : WindowsOf(o)[i] = "image" => i = 1
<1>1. \A i \in DOMAIN <<"engine", "timeline", "engine", "timeline">> :
        <<"engine", "timeline", "engine", "timeline">>[i] # "image"
  OBVIOUS
<1>2. CASE o \notin {"serviceImage", "serviceEngine"}
  BY <1>1, <1>2 DEF WindowsOf
<1>3. CASE o \in {"serviceImage", "serviceEngine"}
  BY <1>3 DEF WindowsOf
<1> QED BY <1>2, <1>3

\* Every step keeps the scopes nested so that only the outermost one restores.
LEMMA NestingStep ==
  ASSUME TypeOK, PhaseInv, ClosedInv, NestingInv, Next, TypeOK'
  PROVE  NestingInv'
<1>1. windows \in Seq(Window) /\ \A i \in DOMAIN windows : windows[i].kind \in WindowKinds
  BY WindowKindsOf DEF TypeOK
<1>2. CASE UNCHANGED <<windows, toOpen>> /\ pending'.kind \notin WindowKinds /\ phase' # "idle"
  BY <1>1, <1>2 DEF NestingInv, Holds
<1>3. CASE QuietStep
  <2>1. /\ UNCHANGED <<windows, toOpen>> /\ (pending' = pending \/ pending'.kind = "table")
        /\ phase' = "idle" => phase = "idle" \/ windows = <<>>
    BY <1>3, QuietFrame
  <2>2. ~Holds("table")
    BY <1>1 DEF Holds, WindowKinds
  <2> QED BY <2>1, <2>2 DEF NestingInv, Holds
<1>4. CASE \E o \in Operations : BeginOperation(o)
  <2>1. PICK o \in ControlOperations : BeginOperation(o)
    BY <1>4, OperationsAssumption
  <2>2. /\ op' \in ControlOperations /\ toOpen' = WindowsOf(op')
        /\ phase = "idle" /\ phase' = "open" /\ UNCHANGED <<windows, pending>>
    BY <2>1 DEF BeginOperation, ControlOperations
  <2>3. windows = <<>> /\ windows' = <<>>
    BY <2>2 DEF NestingInv
  <2>4. \A i \in DOMAIN toOpen' : toOpen'[i] = "image" => i = 1
    BY <2>2, ImageFirst
  <2> QED BY <2>2, <2>3, <2>4 DEF NestingInv, Holds
<1>5. CASE CloseGate
  <2>1. /\ UNCHANGED <<windows, toOpen>> /\ phase' = "observe"
        /\ pending' = [kind |-> "engine", restore |-> processingReady]
    BY <1>5 DEF CloseGate, planVars
  <2>2. Holds("engine") => ~processingReady
    BY DEF Holds, ClosedInv, Closed
  <2> QED BY <2>1, <2>2 DEF NestingInv, Holds
<1>6. CASE ClaimTimeline
  <2>1. /\ UNCHANGED <<windows, toOpen>> /\ phase' = "observe"
        /\ pending' = [kind |-> "timeline", restore |-> ~controlOwnsAudioTimeline]
    BY <1>6 DEF ClaimTimeline, planVars
  <2>2. Holds("timeline") => controlOwnsAudioTimeline
    BY DEF Holds, ClosedInv, Closed
  <2> QED BY <2>1, <2>2 DEF NestingInv, Holds
<1>7. CASE ClaimImage
  <2>1. /\ UNCHANGED <<windows, toOpen>> /\ phase' = "observe" /\ toOpen # <<>>
        /\ pending' = [kind |-> "image", restore |-> TRUE] /\ Head(toOpen) = "image"
    BY <1>7 DEF ClaimImage, planVars
  <2>2. windows = <<>>
    BY <2>1 DEF NestingInv, TypeOK
  <2> QED BY <2>1, <2>2 DEF NestingInv, Holds
<1>8. CASE TerminateStep
  <2>1. UNCHANGED <<windows, toOpen, pending, phase>>
    BY <1>8, TerminateFrame DEF planVars
  <2> QED BY <2>1 DEF NestingInv, Holds
<1>9. CASE Quiesced /\ phase \in {"observe", "spin"}
  <2>1. CASE pending.kind \notin WindowKinds
    BY <1>2, <1>9, <2>1 DEF Quiesced, NoWindow, WindowKinds
  <2>2. CASE pending.kind \in WindowKinds
    <3> DEFINE n == Len(windows)
    <3>1. /\ n \in Nat /\ DOMAIN windows = 1..n /\ DOMAIN windows' = 1..(n + 1)
          /\ \A i \in 1..n : windows'[i] = windows[i]
          /\ windows'[n + 1] = pending
      BY <1>9, <2>2, QuiescedFacts DEF TypeOK
    <3>2. /\ toOpen # <<>> /\ Head(toOpen) = pending.kind /\ toOpen' = Tail(toOpen)
          /\ phase' = "open" /\ pending'.kind = "none"
      BY <1>9, <2>2 DEF Quiesced, PhaseInv, NoWindow, WindowKinds
    <3>3. \A i, j \in 1..(n + 1) :
            i < j /\ windows'[i].kind = windows'[j].kind => ~windows'[j].restore
      <4>1. \A i \in 1..n : windows[i].kind = pending.kind => ~pending.restore
        BY <3>1 DEF NestingInv, Holds
      <4>2. ASSUME NEW i \in 1..(n + 1), NEW j \in 1..(n + 1), i < j,
                   windows'[i].kind = windows'[j].kind
            PROVE  ~windows'[j].restore
        <5>1. i \in 1..n
          BY <3>1, <4>2
        <5>2. CASE j = n + 1
          BY <3>1, <4>1, <4>2, <5>1, <5>2
        <5>3. CASE j # n + 1
          <6>1. j \in 1..n
            BY <3>1, <5>3
          <6> QED BY <3>1, <4>2, <5>1, <6>1 DEF NestingInv
        <5> QED BY <5>2, <5>3
      <4> QED BY <4>2
    <3>4. \A i \in 1..(n + 1) : windows'[i].kind = "image" => i = 1
      <4>1. pending.kind = "image" => n = 0
        BY <3>2 DEF NestingInv, TypeOK
      <4> QED BY <3>1, <4>1 DEF NestingInv
    <3>5. \A i \in DOMAIN toOpen' : toOpen'[i] # "image"
      <4>1. /\ Len(Tail(toOpen)) = Len(toOpen) - 1 /\ Tail(toOpen) \in Seq(WindowKinds)
            /\ \A i \in 1..(Len(toOpen) - 1) : Tail(toOpen)[i] = toOpen[i + 1]
        BY <3>2, TailFacts DEF TypeOK
      <4>2. ASSUME NEW i \in 1..(Len(toOpen) - 1) PROVE toOpen[i + 1] # "image"
        <5>1. i + 1 \in DOMAIN toOpen /\ i + 1 # 1
          BY DEF TypeOK
        <5> QED BY <5>1 DEF NestingInv
      <4> QED BY <3>2, <4>1, <4>2
    <3>6. ~Holds("none")'
      <4>1. \A i \in DOMAIN windows' : windows'[i].kind \in WindowKinds
        BY WindowKindsOf DEF TypeOK
      <4> QED BY <4>1 DEF Holds, WindowKinds
    <3> QED BY <3>1, <3>2, <3>3, <3>4, <3>5, <3>6 DEF NestingInv
  <2> QED BY <2>1, <2>2
<1>10. CASE RunBody
  <2>1. /\ pending.kind = "none" /\ pending' = pending /\ toOpen' = toOpen
        /\ phase' # "idle"
        /\ windows' = windows \/ \E restore \in BOOLEAN : SetRestoreOnClose(restore)
    BY <1>10, BodyFrame DEF PhaseInv
  <2>2. CASE windows' = windows
    BY <1>2, <2>1, <2>2 DEF WindowKinds
  <2>3. CASE \E restore \in BOOLEAN : SetRestoreOnClose(restore)
    <3>1. /\ DOMAIN windows' = DOMAIN windows
          /\ \A i \in DOMAIN windows : windows'[i].kind = windows[i].kind
          /\ \A i \in DOMAIN windows :
               ~(windows[i].kind = "engine" /\ Outermost(i)) => windows'[i] = windows[i]
      BY <1>1, <2>3, SetRestoreFacts
    <3>2. ASSUME NEW i \in DOMAIN windows, NEW j \in DOMAIN windows, i < j,
                 windows[i].kind = windows[j].kind
          PROVE  ~windows'[j].restore
      <4>1. ~(windows[j].kind = "engine" /\ Outermost(j))
        BY <1>1, <3>2 DEF Outermost, EngineWindows
      <4> QED BY <3>1, <3>2, <4>1 DEF NestingInv
    <3>3. ~Holds("none")'
      BY <1>1, <3>1 DEF Holds, WindowKinds
    <3>4. windows = <<>> => windows' = <<>>
      <4>1. windows' \in Seq(Window)
        BY DEF TypeOK
      <4> QED BY <1>1, <3>1, <4>1
    <3> QED BY <2>1, <3>1, <3>2, <3>3, <3>4 DEF NestingInv
  <2> QED BY <2>1, <2>2, <2>3
<1>11. CASE CloseWindow
  <2> DEFINE n == Len(windows)
  <2>1. /\ n \in Nat \ {0} /\ DOMAIN windows = 1..n /\ DOMAIN windows' = 1..(n - 1)
        /\ \A i \in 1..(n - 1) : windows'[i] = windows[i]
    BY <1>11, CloseWindowFacts DEF TypeOK
  <2>2. pending'.kind = "none" /\ phase' # "idle" /\ toOpen' = toOpen /\ windows # <<>>
    BY <1>11 DEF CloseWindow, PhaseInv, planVars
  <2>3. ~Holds("none")'
    <3>1. \A i \in DOMAIN windows' : windows'[i].kind \in WindowKinds
      BY WindowKindsOf DEF TypeOK
    <3> QED BY <3>1 DEF Holds, WindowKinds
  <2>4. 1..(n - 1) \subseteq 1..n
    BY <2>1
  <2> QED BY <2>1, <2>2, <2>3, <2>4 DEF NestingInv
<1> QED BY <1>3, <1>4, <1>5, <1>6, <1>7, <1>8, <1>9, <1>10, <1>11, StepKinds

-----------------------------------------------------------------------------
(* Draining.                                                                *)

\* A wait that ends, with what let it end.
Answered == /\ Quiesced /\ phase \in {"observe", "spin"} /\ UNCHANGED epochUnchanged
            /\ phase = "observe" => block = "outside"
            /\ phase = "spin" => ~epochUnchanged["operation"]

\* What a control step changes of the faces, of the wait and of the stages.
LEMMA ControlFrame ==
  ASSUME TypeOK, PhaseInv, Next, ~AudioStep
  PROVE  /\ UNCHANGED audioVars
         /\ \/ pending'.kind = "none"
            \/ WaitsForBlock'
            \/ /\ UNCHANGED <<pending, phase>>
               /\ epochUnchanged'["operation"] = epochUnchanged["operation"]
         /\ PublishFace \/ UNCHANGED publishedAutomationTable
         /\ \/ PublishFace
            \/ UNCHANGED automationApplyTableQuiesced
            \/ Answered /\ pending.kind = "table"
         /\ phase' = "fill" => \/ phase = "fill"
                               \/ automationApplyTableQuiesced
                               \/ Answered /\ pending.kind = "table"
<1>1. CASE RequestOversampling
  BY <1>1 DEF RequestOversampling, atomicVars, guardedVars
<1>2. CASE \E o \in Operations : BeginOperation(o)
  BY <1>2 DEF BeginOperation, PhaseInv, atomicVars, guardedVars
<1>3. CASE ClaimEngine \/ CloseGate \/ ClaimTimeline \/ ClaimImage
  BY <1>3 DEF ClaimEngine, CloseGate, ClaimTimeline, ClaimImage, PhaseInv,
     WaitsForBlock, guardedVars
<1>4. CASE Answered
  BY <1>4 DEF Answered, Quiesced, NoWindow, atomicVars, WindowKinds
<1>5. CASE ObserveEpoch /\ block # "outside"
  <2>1. epochUnchanged'["operation"]
    BY <1>5 DEF ObserveEpoch, TypeOK, Waiters
  <2> QED BY <1>5, <2>1 DEF ObserveEpoch, WaitsForBlock, atomicVars, guardedVars
<1>6. CASE WindowsOpen \/ BodyEnds
  BY <1>6 DEF WindowsOpen, BodyEnds, PhaseInv, atomicVars, guardedVars
<1>7. CASE RunBody
  BY <1>7, BodyFrame DEF PhaseInv, atomicVars
<1>8. CASE ReachFace
  BY <1>8 DEF ReachFace, PhaseInv, WaitsForBlock, atomicVars, guardedVars
<1>9. CASE PublishFace
  BY <1>9 DEF PublishFace, PhaseInv
<1>10. CASE CloseWindow \/ DropClaim \/ EndOperation
  BY <1>10 DEF CloseWindow, DropClaim, EndOperation, PhaseInv, atomicVars, guardedVars
<1>11. CASE TerminateStep
  BY <1>11, TerminateFrame DEF guardedVars
<1> QED BY <1>1, <1>2, <1>3, <1>4, <1>5, <1>6, <1>7, <1>8, <1>9, <1>10, <1>11
        DEF Next, ControlStep, AudioStep, Answered, ObserveEpoch, EpochMoved

\* While a block runs that terminate() found, nothing ends its wait; a window that
\* opens the gate behind it is recorded.
LEMMA TerminateWaitStep ==
  ASSUME TypeOK, Next, ~AudioStep, block # "outside", TerminateWaits \/ gateReopened
  PROVE  (TerminateWaits \/ gateReopened)'
<1>1. epochUnchanged \in [Waiters -> BOOLEAN]
  BY DEF TypeOK
<1>2. CASE TerminateStep
  <2>1. CASE gateReopened
    BY <1>2, <2>1, TerminateFrame
  <2>2. CASE TerminateWaits
    <3>1. CASE TerminateObserves
      <4>1. epochUnchanged'["terminate"] /\ termination' = "spin"
        BY <1>1, <3>1 DEF TerminateObserves, Waiters
      <4> QED BY <4>1 DEF TerminateWaits
    <3>2. CASE CloseGateForGood
      BY <3>2 DEF CloseGateForGood, TerminateWaits
    <3> QED BY <1>2, <2>2, <3>1, <3>2
            DEF TerminateStep, TerminateQuiesced, ClearBuffers, TerminateWaits
  <2> QED BY <2>1, <2>2
<1>3. CASE CloseWindow
  BY <1>3 DEF CloseWindow, TerminateWaits
<1>4. CASE UNCHANGED terminationVars /\ epochUnchanged'["terminate"] = epochUnchanged["terminate"]
  BY <1>4 DEF terminationVars, TerminateWaits
<1>5. CASE ObserveEpoch
  <2>1. UNCHANGED terminationVars /\ epochUnchanged'["terminate"] = epochUnchanged["terminate"]
    BY <1>1, <1>5 DEF ObserveEpoch, Quiesced, Waiters
  <2> QED BY <1>4, <2>1
<1>6. CASE RunBody
  BY <1>4, <1>6, BodyFrame
<1>7. CASE RequestOversampling \/ (\E o \in Operations : BeginOperation(o))
  BY <1>4, <1>7 DEF RequestOversampling, BeginOperation
<1>8. CASE ClaimEngine \/ CloseGate \/ ClaimTimeline \/ ClaimImage \/ EpochMoved
  BY <1>4, <1>8 DEF ClaimEngine, CloseGate, ClaimTimeline, ClaimImage, EpochMoved, Quiesced
<1>9. CASE WindowsOpen \/ ReachFace \/ PublishFace \/ BodyEnds \/ DropClaim \/ EndOperation
  BY <1>4, <1>9 DEF WindowsOpen, ReachFace, PublishFace, BodyEnds, DropClaim, EndOperation
<1> QED BY <1>2, <1>3, <1>5, <1>6, <1>7, <1>8, <1>9 DEF Next, ControlStep, AudioStep

\* A scope is open after a step only if it was, or its wait has just ended.
LEMMA HoldsStep ==
  ASSUME TypeOK, PhaseInv, Next, NEW k, Holds(k)'
  PROVE  Holds(k) \/ (Answered /\ pending.kind = k)
<1>1. PICK i \in DOMAIN windows' : windows'[i].kind = k
  BY DEF Holds
<1>2. CASE UNCHANGED windows
  BY <1>1, <1>2 DEF Holds
<1>3. CASE QuietStep
  BY <1>2, <1>3, QuietFrame
<1>4. CASE (\E o \in Operations : BeginOperation(o)) \/ CloseGate \/ ClaimTimeline
           \/ ClaimImage
  BY <1>2, <1>4 DEF BeginOperation, CloseGate, ClaimTimeline, ClaimImage
<1>8. CASE TerminateStep
  BY <1>2, <1>8, TerminateFrame
<1>5. CASE Answered
  <2>1. CASE pending.kind \in WindowKinds
    <3>1. /\ windows' \in Seq(Window) /\ windows \in Seq(Window)
          /\ Len(windows') = Len(windows) + 1
          /\ \A j \in 1..Len(windows) : windows'[j] = windows[j]
          /\ windows'[Len(windows) + 1] = pending
      BY <1>5, <2>1, QuiescedFacts DEF TypeOK, Answered
    <3>2. CASE i = Len(windows) + 1
      BY <1>1, <1>5, <3>1, <3>2
    <3>3. CASE i # Len(windows) + 1
      <4>1. i \in DOMAIN windows
        BY <3>1, <3>3
      <4> QED BY <1>1, <3>1, <4>1 DEF Holds
    <3> QED BY <3>2, <3>3
  <2>2. CASE pending.kind \notin WindowKinds
    BY <1>2, <1>5, <2>2 DEF Answered, Quiesced
  <2> QED BY <2>1, <2>2
<1>6. CASE RunBody
  <2>1. windows' = windows \/ \E restore \in BOOLEAN : SetRestoreOnClose(restore)
    BY <1>6, BodyFrame
  <2>2. /\ DOMAIN windows' = DOMAIN windows
        /\ \A j \in DOMAIN windows : windows'[j].kind = windows[j].kind
    BY <2>1, SetRestoreFacts DEF TypeOK
  <2> QED BY <1>1, <2>2 DEF Holds
<1>7. CASE CloseWindow
  <2>1. /\ windows' \in Seq(Window) /\ windows \in Seq(Window)
        /\ Len(windows) \in Nat \ {0} /\ Len(windows') = Len(windows) - 1
        /\ \A j \in 1..(Len(windows) - 1) : windows'[j] = windows[j]
    BY <1>7, CloseWindowFacts DEF TypeOK
  <2>2. i \in 1..(Len(windows) - 1) /\ i \in DOMAIN windows
    BY <2>1
  <2> QED BY <1>1, <2>1, <2>2 DEF Holds
<1> QED BY <1>3, <1>4, <1>5, <1>6, <1>7, <1>8, StepKinds DEF Answered

\* A running block that passes neither end keeps the wait under way as it is.
LEMMA AudioWait ==
  ASSUME TypeOK, AudioStep, block' \notin {"outside", "entered"}
  PROVE  /\ UNCHANGED <<windows, pending, phase, epochUnchanged>>
         /\ UNCHANGED <<publishedAutomationTable, automationApplyTableQuiesced>>
         /\ UNCHANGED <<processingReady, controlEngineClaims, termination, gateReopened>>
BY AudioFrame DEF atomicVars, guardedVars, terminationVars

\* Every step keeps a scope waiting for the blocks that use what it protects.
LEMMA DrainStep ==
  ASSUME TypeOK, PhaseInv, ClosedInv, DrainInv, Next
  PROVE  DrainInv'
<1> USE DEF UsesEngine, UsesTimeline, UsesTable
<1>1. ASSUME UsesEngine'
      PROVE  /\ ~Holds("engine")'
             /\ pending'.kind = "engine" => WaitsForBlock'
             /\ (TerminateWaits \/ gateReopened)'
  <2>1. CASE AudioStep
    <3>1. CheckGate /\ processingReady
      BY <1>1, <2>1 DEF AudioStep, EnterBlock, FinishProcess, CheckTimeline, ReadImageClaim,
         LatchTable, LeaveBeforeGate, ReadClaimBeforeGate, CheckGate, ReadClaimAfterGate,
         FinishBlock, ExitBlock
    <3>2. UNCHANGED <<windows, pending, phase, termination, gateReopened>>
      BY <1>1, <2>1, AudioWait
    <3>3. ~Holds("engine") /\ pending.kind # "engine"
      BY <3>1 DEF ClosedInv, Closed, Holds, WindowKinds
    <3>4. termination = "none" \/ gateReopened
      BY <3>1 DEF ClosedInv
    <3> QED BY <3>2, <3>3, <3>4 DEF Holds, TerminateWaits
  <2>2. CASE ~AudioStep
    <3>1. UsesEngine /\ block # "outside"
      BY <1>1, <2>2, ControlFrame DEF audioVars
    <3>2. ~(Answered /\ pending.kind = "engine")
      BY <3>1 DEF Answered, DrainInv, WaitsForBlock
    <3>3. ~Holds("engine")'
      BY <3>1, <3>2, HoldsStep DEF DrainInv
    <3>4. (TerminateWaits \/ gateReopened)'
      BY <2>2, <3>1, TerminateWaitStep DEF DrainInv
    <3> QED BY <2>2, <3>1, <3>3, <3>4, ControlFrame DEF DrainInv, WaitsForBlock
  <2> QED BY <2>1, <2>2
<1>2. ASSUME UsesTimeline'
      PROVE  ~Holds("timeline")' /\ (pending'.kind = "timeline" => WaitsForBlock')
  <2>1. CASE AudioStep
    <3>1. UNCHANGED <<windows, pending, phase, epochUnchanged>>
      BY <1>2, <2>1, AudioWait
    <3>2. UsesTimeline \/ (CheckTimeline /\ ~controlOwnsAudioTimeline)
      BY <1>2, <2>1 DEF AudioStep, EnterBlock, FinishProcess, CheckTimeline, ReadImageClaim,
         LatchTable, LeaveBeforeGate, ReadClaimBeforeGate, CheckGate, ReadClaimAfterGate,
         FinishBlock, ExitBlock
    <3>3. ~controlOwnsAudioTimeline => ~Holds("timeline") /\ pending.kind # "timeline"
      BY DEF ClosedInv, Closed, Holds, WindowKinds
    <3> QED BY <3>1, <3>2, <3>3 DEF Holds, DrainInv, WaitsForBlock
  <2>2. CASE ~AudioStep
    <3>1. UsesTimeline /\ block # "outside"
      BY <1>2, <2>2, ControlFrame DEF audioVars
    <3>2. ~(Answered /\ pending.kind = "timeline")
      BY <3>1 DEF Answered, DrainInv, WaitsForBlock
    <3>3. ~Holds("timeline")'
      BY <3>1, <3>2, HoldsStep DEF DrainInv
    <3> QED BY <2>2, <3>1, <3>3, ControlFrame DEF DrainInv, WaitsForBlock
  <2> QED BY <2>1, <2>2
<1>3. ASSUME stageParameterImages'
      PROVE  /\ block' # "outside" /\ ~Holds("image")'
             /\ pending'.kind = "image" => WaitsForBlock'
  <2>1. CASE AudioStep
    <3>1. block' # "outside" /\ (stageParameterImages \/ (ReadImageClaim /\ ~controlOwnsRuntimeImage))
      BY <1>3, <2>1 DEF AudioStep, EnterBlock, FinishProcess, CheckTimeline, ReadImageClaim,
         LatchTable, LeaveBeforeGate, ReadClaimBeforeGate, CheckGate, ReadClaimAfterGate,
         FinishBlock, ExitBlock, DrainInv
    <3>2. UNCHANGED <<windows, pending, phase>>
      BY <2>1, AudioFrame
    <3>3. UNCHANGED epochUnchanged
      BY <1>3, <2>1, <3>1, AudioFrame DEF DrainInv
    <3>4. ~controlOwnsRuntimeImage => ~Holds("image") /\ pending.kind # "image"
      BY DEF ClosedInv, Closed, Holds, WindowKinds
    <3> QED BY <3>1, <3>2, <3>3, <3>4 DEF Holds, DrainInv, WaitsForBlock
  <2>2. CASE ~AudioStep
    <3>1. stageParameterImages /\ block # "outside" /\ block' = block
      BY <1>3, <2>2, ControlFrame DEF audioVars, DrainInv
    <3>2. ~(Answered /\ pending.kind = "image")
      BY <3>1 DEF Answered, DrainInv, WaitsForBlock
    <3>3. ~Holds("image")'
      BY <3>1, <3>2, HoldsStep DEF DrainInv
    <3> QED BY <2>2, <3>1, <3>3, ControlFrame DEF DrainInv, WaitsForBlock
  <2> QED BY <2>1, <2>2
<1>4. ASSUME UsesTable', automationTable' # publishedAutomationTable'
      PROVE  /\ ~automationApplyTableQuiesced' /\ phase' # "fill"
             /\ pending'.kind = "table" => WaitsForBlock'
  <2>1. CASE AudioStep
    <3>1. /\ UNCHANGED <<windows, pending, phase, epochUnchanged>>
          /\ UNCHANGED <<publishedAutomationTable, automationApplyTableQuiesced>>
      BY <1>4, <2>1, AudioWait
    <3>2. UsesTable /\ automationTable' = automationTable
      BY <1>4, <2>1, <3>1 DEF AudioStep, EnterBlock, FinishProcess, CheckTimeline,
         ReadImageClaim, LatchTable, LeaveBeforeGate, ReadClaimBeforeGate, CheckGate,
         ReadClaimAfterGate, FinishBlock, ExitBlock
    <3> QED BY <1>4, <3>1, <3>2 DEF DrainInv, WaitsForBlock
  <2>2. CASE ~AudioStep
    <3>1. UsesTable /\ block # "outside" /\ automationTable' = automationTable
      BY <1>4, <2>2, ControlFrame DEF audioVars
    <3>2. CASE PublishFace
      <4>1. automationTable = publishedAutomationTable
        BY <3>1, <3>2 DEF DrainInv, PublishFace
      <4>2. automationApplyTableQuiesced' = FALSE /\ phase' = "tables"
        BY <1>4, <3>1, <3>2, <4>1 DEF PublishFace
      <4>3. pending'.kind # "table"
        BY <3>2 DEF PublishFace, PhaseInv
      <4> QED BY <4>2, <4>3
    <3>3. CASE ~PublishFace
      <4>1. /\ ~automationApplyTableQuiesced /\ phase # "fill"
            /\ pending.kind = "table" => WaitsForBlock
        BY <1>4, <2>2, <3>1, <3>3, ControlFrame DEF DrainInv
      <4>2. ~(Answered /\ pending.kind = "table")
        BY <3>1, <4>1 DEF Answered, WaitsForBlock
      <4> QED BY <2>2, <3>3, <4>1, <4>2, ControlFrame DEF WaitsForBlock
    <3> QED BY <3>2, <3>3
  <2> QED BY <2>1, <2>2
<1> QED BY <1>1, <1>2, <1>3, <1>4 DEF DrainInv

-----------------------------------------------------------------------------
(* The gate as a block sees it.                                             *)

\* Without a claim there is no engine scope at any stage.
LEMMA NoClaim ==
  ASSUME TypeOK, ClaimInv, controlEngineClaims = 0
  PROVE  ~Holds("engine") /\ phase \notin {"claimed", "unclaim"} /\ pending.kind # "engine"
<1>1. Cardinality(EngineWindows) \in Nat /\ IsFiniteSet(EngineWindows)
  BY EngineWindowsFinite DEF TypeOK
<1>2. Cardinality(EngineWindows) = 0 /\ phase \notin {"claimed", "unclaim"}
      /\ pending.kind # "engine"
  BY <1>1 DEF ClaimInv
<1>3. EngineWindows = {}
  BY <1>1, <1>2, FS_EmptySet
<1> QED BY <1>2, <1>3 DEF EngineWindows, Holds

\* The gate opens, and a claim is about to be dropped, only when an engine scope
\* closes; a new engine scope remembers the gate it found.
LEMMA GateFrame ==
  ASSUME TypeOK, PhaseInv, Next, ~AudioStep
  PROVE  /\ processingReady' => processingReady \/ Holds("engine")
         /\ phase' = "unclaim" => phase = "unclaim" \/ Holds("engine")
         /\ pending'.kind = "engine" =>
              pending' = pending \/ pending'.restore = processingReady
<1>1. CASE RequestOversampling \/ (\E o \in Operations : BeginOperation(o)) \/ WindowsOpen
           \/ BodyEnds \/ DropClaim \/ EndOperation
  <2>1. UNCHANGED <<processingReady, pending>>
    BY <1>1 DEF RequestOversampling, BeginOperation, WindowsOpen, BodyEnds, DropClaim,
       EndOperation, atomicVars
  <2>2. phase' = phase \/ phase' # "unclaim"
    BY <1>1 DEF RequestOversampling, BeginOperation, WindowsOpen, BodyEnds, DropClaim,
       EndOperation
  <2> QED BY <2>1, <2>2
<1>2. CASE ClaimEngine \/ CloseGate \/ ClaimTimeline \/ ClaimImage
  BY <1>2 DEF ClaimEngine, CloseGate, ClaimTimeline, ClaimImage
<1>3. CASE Answered
  BY <1>3 DEF Answered, Quiesced, NoWindow, atomicVars
<1>4. CASE ObserveEpoch /\ block # "outside"
  BY <1>4 DEF ObserveEpoch, atomicVars
<1>5. CASE RunBody
  BY <1>5, BodyFrame DEF atomicVars
<1>6. CASE ReachFace \/ PublishFace
  BY <1>6 DEF ReachFace, PublishFace, atomicVars
<1>7. CASE CloseWindow
  <2>1. Innermost.kind = "engine" => Holds("engine")
    <3>1. Len(windows) \in DOMAIN windows
      BY <1>7 DEF CloseWindow, TypeOK
    <3> QED BY <3>1 DEF Innermost, Holds
  <2> QED BY <1>7, <2>1 DEF CloseWindow
<1>8. CASE TerminateStep
  BY <1>8, TerminateFrame
<1> QED BY <1>1, <1>2, <1>3, <1>4, <1>5, <1>6, <1>7, <1>8
        DEF Next, ControlStep, AudioStep, Answered, ObserveEpoch, EpochMoved

\* Every step keeps the gate as it was around a block that saw no claim.
LEMMA DiagnosticStep ==
  ASSUME TypeOK, PhaseInv, ClaimInv, ClosedInv, DiagnosticInv, Next
  PROVE  DiagnosticInv'
<1>1. CASE AudioStep
  <2>1. CASE block' \in {"claimRead", "refused", "report"} /\ ~claimedBeforeGate'
    <3>1. UNCHANGED <<windows, pending, phase, epochUnchanged, processingReady>>
      BY <1>1, <2>1, AudioWait
    <3>2. CASE ReadClaimBeforeGate
      <4>1. controlEngineClaims = 0 /\ block' = "claimRead"
        BY <2>1, <3>2 DEF ReadClaimBeforeGate
      <4> QED BY <3>1, <4>1, NoClaim DEF DiagnosticInv, Holds
    <3>3. CASE CheckGate
      <4>1. block = "claimRead" /\ ~claimedBeforeGate /\ block' = "refused" /\ ~processingReady
        BY <2>1, <3>3 DEF CheckGate
      <4> QED BY <3>1, <4>1 DEF DiagnosticInv, Holds, WaitsForBlock
    <3>4. CASE ReadClaimAfterGate
      <4>1. /\ block = "refused" /\ ~claimedBeforeGate /\ block' = "report"
            /\ controlEngineClaims = 0
        BY <2>1, <3>4 DEF ReadClaimAfterGate
      <4> QED BY <2>1, <3>1, <4>1, NoClaim DEF DiagnosticInv, Holds
    <3> QED BY <1>1, <2>1, <3>2, <3>3, <3>4 DEF AudioStep, EnterBlock, FinishProcess,
            CheckTimeline, ReadImageClaim, LatchTable, LeaveBeforeGate, FinishBlock, ExitBlock
  <2>2. CASE ~(block' \in {"claimRead", "refused", "report"} /\ ~claimedBeforeGate')
    <3>1. block' # "report"
      BY <1>1, <2>2 DEF AudioStep, EnterBlock, FinishProcess, CheckTimeline, ReadImageClaim,
         LatchTable, LeaveBeforeGate, ReadClaimBeforeGate, CheckGate, ReadClaimAfterGate,
         FinishBlock, ExitBlock
    <3> QED BY <2>2, <3>1 DEF DiagnosticInv
  <2> QED BY <2>1, <2>2
<1>2. CASE ~AudioStep
  <2>1. block' = block /\ claimedBeforeGate' = claimedBeforeGate
    BY <1>2, ControlFrame DEF audioVars
  <2>2. ASSUME block \in {"claimRead", "refused", "report"}, ~claimedBeforeGate
        PROVE  /\ ~Holds("engine")' /\ phase' # "unclaim"
               /\ pending'.kind = "engine" => WaitsForBlock'
               /\ processingReady' => processingReady
    <3>1. /\ ~Holds("engine") /\ phase # "unclaim"
          /\ pending.kind = "engine" => WaitsForBlock
      BY <2>2 DEF DiagnosticInv
    <3>2. ~(Answered /\ pending.kind = "engine")
      BY <2>2, <3>1 DEF Answered, WaitsForBlock
    <3>3. ~Holds("engine")'
      BY <3>1, <3>2, HoldsStep
    <3>4. pending'.kind = "engine" => WaitsForBlock'
      BY <1>2, <3>1, ControlFrame DEF WaitsForBlock
    <3> QED BY <1>2, <3>1, <3>3, <3>4, GateFrame
  <2>3. ASSUME block = "report"
        PROVE  ~claimedBeforeGate /\ (pending'.kind = "engine" => ~pending'.restore)
    BY <1>2, <2>3, GateFrame DEF DiagnosticInv
  <2> QED BY <2>1, <2>2, <2>3 DEF DiagnosticInv
<1> QED BY <1>1, <1>2

-----------------------------------------------------------------------------
(* The engine behind the gate.                                              *)

\* Outside a body no step makes the DSP playable that was not, or changes the
\* engine.
LEMMA PlayableStep ==
  ASSUME TypeOK, PhaseInv, ClosedInv, NestingInv, Next, ~RunBody
  PROVE  engine' = engine /\ (Playable' => Playable)
<1> USE DEF Playable, WasReady, EngineWindows
<1>1. CASE QuietStep
  BY <1>1, QuietFrame
<1>2. CASE \E o \in Operations : BeginOperation(o)
  <2>1. UNCHANGED <<engine, windows, pending, processingReady>>
    BY <1>2 DEF BeginOperation, guardedVars, atomicVars
  <2> QED BY <2>1
<1>3. CASE CloseGate
  <2>1. /\ UNCHANGED <<engine, windows>> /\ pending.kind = "none"
        /\ pending' = [kind |-> "engine", restore |-> processingReady]
    BY <1>3 DEF CloseGate, PhaseInv, guardedVars
  <2> QED BY <2>1
<1>4. CASE ClaimTimeline \/ ClaimImage
  <2>1. /\ UNCHANGED <<engine, windows>> /\ pending.kind = "none" /\ pending'.kind # "engine"
        /\ processingReady' => processingReady
    BY <1>4 DEF ClaimTimeline, ClaimImage, PhaseInv, guardedVars
  <2> QED BY <2>1
<1>5. CASE Answered
  <2>1. UNCHANGED <<engine, processingReady>> /\ pending'.kind = "none"
    BY <1>5 DEF Answered, Quiesced, atomicVars, NoWindow
  <2>2. CASE pending.kind \in WindowKinds
    <3> DEFINE n == Len(windows)
    <3>1. /\ n \in Nat /\ DOMAIN windows = 1..n /\ DOMAIN windows' = 1..(n + 1)
          /\ \A j \in 1..n : windows'[j] = windows[j]
          /\ windows'[n + 1] = pending
      BY <1>5, <2>2, QuiescedFacts DEF TypeOK, Answered
    <3>2. CASE pending.kind = "engine"
      <4>1. ASSUME NEW i \in 1..(n + 1), windows'[i].kind = "engine", windows'[i].restore
            PROVE  Playable
        <5>1. CASE i \in 1..n
          BY <3>1, <4>1, <5>1
        <5>2. CASE i = n + 1
          BY <3>1, <3>2, <4>1, <5>2 DEF NestingInv, Holds
        <5> QED BY <3>1, <5>1, <5>2
      <4>2. n + 1 \in EngineWindows'
        BY <3>1, <3>2
      <4> QED BY <2>1, <3>1, <4>1, <4>2
    <3>3. CASE pending.kind # "engine"
      <4>1. ASSUME NEW i \in 1..(n + 1), windows'[i].kind = "engine"
            PROVE  i \in 1..n /\ windows'[i] = windows[i]
        BY <3>1, <3>3, <4>1
      <4>2. ASSUME NEW i \in 1..n
            PROVE  i \in 1..(n + 1) /\ windows'[i] = windows[i]
        BY <3>1
      <4> QED BY <2>1, <3>1, <3>3, <4>1, <4>2
    <3> QED BY <3>2, <3>3
  <2>3. CASE pending.kind \notin WindowKinds
    <3>1. windows' = windows /\ pending.kind # "engine"
      BY <1>5, <2>3 DEF Answered, Quiesced, WindowKinds
    <3> QED BY <2>1, <3>1
  <2> QED BY <2>2, <2>3
<1>6. CASE CloseWindow
  <2> DEFINE n == Len(windows)
  <2>1. /\ n \in Nat \ {0} /\ DOMAIN windows = 1..n /\ DOMAIN windows' = 1..(n - 1)
        /\ \A j \in 1..(n - 1) : windows'[j] = windows[j]
        /\ Innermost = windows[n]
    BY <1>6, CloseWindowFacts DEF TypeOK, Innermost
  <2>2. /\ engine' = engine /\ pending' = pending /\ pending.kind = "none"
        /\ processingReady' => processingReady \/ (Innermost.kind = "engine" /\ Innermost.restore)
    BY <1>6 DEF CloseWindow, PhaseInv, guardedVars
  <2>3. \A i \in 1..(n - 1) : i \in 1..n
    BY <2>1
  <2>4. n \in 1..n
    BY <2>1
  <2>5. processingReady => EngineWindows = {}
    BY DEF ClosedInv, Closed
  <2>6. CASE EngineWindows' # {}
    BY <2>1, <2>2, <2>3, <2>6
  <2>7. CASE EngineWindows' = {}
    BY <2>1, <2>2, <2>4, <2>5, <2>7
  <2> QED BY <2>6, <2>7
<1>7. CASE TerminateStep
  <2>1. UNCHANGED <<engine, windows, pending>> /\ (processingReady' => processingReady)
    BY <1>7, TerminateFrame DEF guardedVars
  <2> QED BY <2>1
<1> QED BY <1>1, <1>2, <1>3, <1>4, <1>5, <1>6, <1>7, StepKinds DEF Answered

\* After a body the DSP is to be playable only if the body said so.
LEMMA BodyPlayable ==
  ASSUME TypeOK, PhaseInv, NestingInv, RunBody, Holds("engine"),
         NEW restore \in BOOLEAN, SetRestoreOnClose(restore), Playable'
  PROVE  restore
<1>1. /\ DOMAIN windows' = DOMAIN windows
      /\ \A i \in DOMAIN windows : windows'[i].kind = windows[i].kind
      /\ \A i \in DOMAIN windows :
           windows[i].kind = "engine" /\ Outermost(i) => windows'[i].restore = restore
      /\ \A i \in DOMAIN windows :
           ~(windows[i].kind = "engine" /\ Outermost(i)) => windows'[i] = windows[i]
  BY SetRestoreFacts DEF TypeOK
<1>2. EngineWindows' # {}
  BY <1>1 DEF EngineWindows, Holds
<1>3. PICK i \in DOMAIN windows : windows[i].kind = "engine" /\ windows'[i].restore
  BY <1>1, <1>2 DEF Playable, WasReady, EngineWindows
<1>4. CASE Outermost(i)
  BY <1>1, <1>3, <1>4
<1>5. CASE ~Outermost(i)
  <2>1. PICK j \in EngineWindows : ~(i <= j)
    BY <1>5 DEF Outermost
  <2>2. j \in DOMAIN windows /\ j < i /\ windows[j].kind = "engine"
    BY <2>1 DEF EngineWindows, TypeOK
  <2>3. ~windows[i].restore
    BY <1>3, <2>2 DEF NestingInv
  <2> QED BY <1>1, <1>3, <1>5, <2>3
<1> QED BY <1>4, <1>5

\* Every operation that rebuilds the engine opens an engine scope.
LEMMA EngineScopeOpened ==
  ASSUME NEW o \in TopologyOperations
  PROVE  \E i \in DOMAIN WindowsOf(o) : WindowsOf(o)[i] = "engine"
<1>1. CASE o \in {"configure", "setOversampling"}
  <2>1. WindowsOf(o) = <<"timeline", "engine", "timeline">>
    BY <1>1 DEF WindowsOf
  <2> QED BY <2>1
<1>2. CASE o = "replace"
  <2>1. WindowsOf(o) = <<"engine", "timeline", "engine", "timeline">>
    BY <1>2 DEF WindowsOf
  <2> QED BY <2>1
<1>3. CASE o = "restoreOversampling"
  <2>1. WindowsOf(o) = <<"engine", "engine", "timeline">>
    BY <1>3 DEF WindowsOf
  <2> QED BY <2>1
<1>4. CASE o \in {"rebuild", "replaceInstance"}
  <2>1. WindowsOf(o) = <<"engine">>
    BY <1>4 DEF WindowsOf
  <2> QED BY <2>1
<1> QED BY <1>1, <1>2, <1>3, <1>4 DEF TopologyOperations

\* The engine scope stays due until it is open, and open until the body ran.
EngineScopeDue == Holds("engine") \/ \E i \in DOMAIN toOpen : toOpen[i] = "engine"

\* An operation that replaces the engine keeps its engine scope due or open
\* through every step up to its body.
LEMMA EngineScopeStep ==
  ASSUME TypeOK, PhaseInv, ClosedInv, BuiltInv, Next,
         op' \in TopologyOperations,
         phase' \in {"open", "claimed", "body"} \/ pending'.kind \in WindowKinds
  PROVE  EngineScopeDue'
<1>1. CASE \E o \in Operations : BeginOperation(o)
  <2>1. toOpen' = WindowsOf(op')
    BY <1>1 DEF BeginOperation
  <2> QED BY <2>1, EngineScopeOpened DEF EngineScopeDue
<1>2. CASE UNCHANGED <<op, windows, toOpen>>
           /\ (phase \in {"open", "claimed", "body"} \/ pending.kind \in WindowKinds)
  BY <1>2 DEF BuiltInv, EngineScopeDue, Holds
<1>3. CASE AudioStep
  <2>1. UNCHANGED <<op, windows, toOpen, phase, pending>>
    BY <1>3, AudioFrame DEF planVars
  <2> QED BY <1>2, <2>1
<1>4. CASE RequestOversampling
  BY <1>2, <1>4 DEF RequestOversampling, planVars
<1>5. CASE ClaimEngine \/ CloseGate \/ ClaimTimeline \/ ClaimImage
  <2>1. UNCHANGED <<op, windows, toOpen>> /\ phase \in {"open", "claimed"}
    BY <1>5 DEF ClaimEngine, CloseGate, ClaimTimeline, ClaimImage, planVars
  <2> QED BY <1>2, <2>1
<1>6. CASE Answered
  <2>1. CASE pending.kind \notin WindowKinds
    BY <1>6, <2>1 DEF Answered, Quiesced, NoWindow, WindowKinds
  <2>2. CASE pending.kind \in WindowKinds
    <3>1. /\ windows' \in Seq(Window) /\ Len(windows') = Len(windows) + 1
          /\ \A i \in 1..Len(windows) : windows'[i] = windows[i]
          /\ windows'[Len(windows) + 1] = pending
      BY <1>6, <2>2, QuiescedFacts DEF Answered
    <3>2. /\ op' = op /\ toOpen' = Tail(toOpen) /\ toOpen # <<>>
          /\ Head(toOpen) = pending.kind
      BY <1>6, <2>2 DEF Answered, Quiesced, PhaseInv, WindowKinds
    <3>3. CASE Holds("engine")
      <4>1. PICK i \in DOMAIN windows : windows[i].kind = "engine"
        BY <3>3 DEF Holds
      <4>2. i \in DOMAIN windows' /\ windows'[i].kind = "engine"
        BY <3>1, <4>1 DEF TypeOK
      <4> QED BY <4>2 DEF EngineScopeDue, Holds
    <3>4. CASE pending.kind = "engine"
      <4>1. Len(windows) + 1 \in DOMAIN windows'
        BY <3>1 DEF TypeOK
      <4> QED BY <3>1, <3>4, <4>1 DEF EngineScopeDue, Holds
    <3>5. CASE pending.kind # "engine" /\ ~Holds("engine")
      <4>1. PICK i \in DOMAIN toOpen : toOpen[i] = "engine"
        BY <2>2, <3>2, <3>5 DEF BuiltInv
      <4>2. /\ Len(Tail(toOpen)) = Len(toOpen) - 1 /\ Tail(toOpen) \in Seq(WindowKinds)
            /\ \A j \in 1..(Len(toOpen) - 1) : Tail(toOpen)[j] = toOpen[j + 1]
        BY <3>2, TailFacts DEF TypeOK
      <4>3. i # 1
        BY <3>2, <3>5, <4>1 DEF TypeOK
      <4>4. i \in Nat /\ i - 1 \in 1..(Len(toOpen) - 1) /\ (i - 1) + 1 = i
        BY <4>1, <4>3 DEF TypeOK
      <4>5. i - 1 \in DOMAIN Tail(toOpen) /\ Tail(toOpen)[i - 1] = "engine"
        BY <4>1, <4>2, <4>4
      <4> QED BY <3>2, <4>5 DEF EngineScopeDue
    <3> QED BY <3>3, <3>4, <3>5
  <2> QED BY <2>1, <2>2
<1>7. CASE ObserveEpoch /\ block # "outside"
  <2>1. UNCHANGED <<op, windows, toOpen, pending>> /\ phase' = "spin"
    BY <1>7 DEF ObserveEpoch, planVars
  <2> QED BY <1>2, <2>1
<1>8. CASE WindowsOpen
  BY <1>2, <1>8 DEF WindowsOpen, planVars
<1>9. CASE RunBody
  <2>1. phase' = "tables" /\ pending' = pending /\ pending.kind = "none"
    BY <1>9, BodyFrame DEF PhaseInv
  <2> QED BY <2>1 DEF WindowKinds
<1>10. CASE ReachFace \/ PublishFace \/ BodyEnds \/ CloseWindow \/ DropClaim \/ EndOperation
  <2>1. /\ phase \in {"tables", "fill", "close", "unclaim"}
        /\ phase' \notin {"open", "claimed", "body"}
        /\ pending' = pending \/ pending'.kind = "table"
    BY <1>10 DEF ReachFace, PublishFace, BodyEnds, CloseWindow, DropClaim, EndOperation
  <2> QED BY <2>1 DEF PhaseInv, WindowKinds
<1>11. CASE TerminateStep
  <2>1. UNCHANGED <<op, windows, toOpen, phase, pending>>
    BY <1>11, TerminateFrame DEF planVars
  <2> QED BY <1>2, <2>1
<1> QED BY <1>1, <1>3, <1>4, <1>5, <1>6, <1>7, <1>8, <1>9, <1>10, <1>11
        DEF Next, ControlStep, AudioStep, Answered, ObserveEpoch, EpochMoved

\* What a body makes playable it built.
LEMMA BodyBuilt ==
  ASSUME TypeOK, PhaseInv, NestingInv, BuiltInv, RunBody, Playable'
  PROVE  engine' = "built"
<1>1. phase = "body" /\ toOpen = <<>>
  BY BodyFrame DEF BuiltInv
<1>2. op \in TopologyOperations => Holds("engine")
  BY <1>1 DEF BuiltInv
<1>3. /\ engine \in {"unprepared", "prepared", "built"} /\ waitForUiRepack \in BOOLEAN
      /\ previousProcessingReady \in BOOLEAN /\ WasReady \in BOOLEAN
  BY DEF TypeOK, WasReady
<1>4. CASE KeepTopology \/ PublishOnly \/ RestoreState
  <2>1. UNCHANGED <<windows, engine>>
    BY <1>4 DEF KeepTopology, PublishOnly, RestoreState
  <2>2. UNCHANGED <<pending, processingReady>>
    BY BodyFrame DEF atomicVars
  <2> QED BY <2>1, <2>2 DEF BuiltInv, Playable, WasReady, EngineWindows
<1>5. CASE StandDown
  <2>1. SetRestoreOnClose(FALSE) /\ engine' = engine
    BY <1>5 DEF StandDown
  <2>2. CASE Holds("engine")
    BY <2>1, <2>2, BodyPlayable
  <2>3. CASE ~Holds("engine")
    <3>1. /\ DOMAIN windows' = DOMAIN windows
          /\ \A i \in DOMAIN windows : windows'[i].kind = windows[i].kind
      BY <2>1, SetRestoreFacts DEF TypeOK
    <3>2. EngineWindows = {} /\ EngineWindows' = {}
      BY <2>3, <3>1 DEF EngineWindows, Holds
    <3>3. UNCHANGED <<pending, processingReady>>
      BY BodyFrame DEF atomicVars
    <3> QED BY <2>1, <3>2, <3>3 DEF BuiltInv, Playable
  <2> QED BY <2>2, <2>3
<1>6. CASE Configure \/ SetOversampling
  <2>1. PICK outcome \in ConfigureOutcomes(waitForUiRepack) :
          /\ engine' = outcome.engine
          /\ SetRestoreOnClose(outcome.ok /\ WasReady /\ ~waitForUiRepack)
    BY <1>6 DEF Configure, SetOversampling
  <2>2. Holds("engine")
    BY <1>2, <1>6 DEF Configure, SetOversampling, TopologyOperations
  <2>3. outcome.ok /\ WasReady /\ ~waitForUiRepack
    <3> DEFINE restore == outcome.ok /\ WasReady /\ ~waitForUiRepack
    <3>1. restore \in BOOLEAN /\ SetRestoreOnClose(restore)
      BY <2>1
    <3> HIDE DEF restore
    <3>2. restore
      BY <2>2, <3>1, BodyPlayable
    <3> QED BY <3>2 DEF restore
  <2> QED BY <1>3, <2>1, <2>3, OutcomeFacts
<1>7. CASE RestoreOversampling
  <2>1. PICK outcome \in ConfigureOutcomes(waitForUiRepack) :
          /\ engine' = outcome.engine
          /\ SetRestoreOnClose(previousProcessingReady /\ outcome.ok)
    BY <1>7 DEF RestoreOversampling
  <2>2. Holds("engine") /\ waitForUiRepack = ~previousProcessingReady
    BY <1>2, <1>7 DEF RestoreOversampling, TopologyOperations, BuiltInv
  <2>3. previousProcessingReady /\ outcome.ok
    <3> DEFINE restore == previousProcessingReady /\ outcome.ok
    <3>1. restore \in BOOLEAN /\ SetRestoreOnClose(restore)
      BY <2>1
    <3> HIDE DEF restore
    <3>2. restore
      BY <2>2, <3>1, BodyPlayable
    <3> QED BY <3>2 DEF restore
  <2> QED BY <1>3, <2>1, <2>2, <2>3, OutcomeFacts
<1>8. CASE ReplaceGeneration
  <2>1. PICK outcome \in ConfigureOutcomes(FALSE) :
          engine' = outcome.engine /\ SetRestoreOnClose(outcome.ok)
    BY <1>8 DEF ReplaceGeneration
  <2>2. Holds("engine")
    BY <1>2, <1>8 DEF ReplaceGeneration, TopologyOperations
  <2>3. outcome.ok \in BOOLEAN /\ (outcome.ok => outcome.engine = "built")
    BY <1>3, <2>1, OutcomeFacts
  <2>4. outcome.ok
    BY <2>1, <2>2, <2>3, BodyPlayable
  <2> QED BY <2>1, <2>3, <2>4
<1>9. CASE RebuildSucceeds \/ RebuildRestoresPrevious
  BY <1>9 DEF RebuildSucceeds, RebuildRestoresPrevious
<1>10. CASE RebuildFails \/ ReplaceBeforeSetup
  <2>1. SetRestoreOnClose(FALSE) /\ Holds("engine")
    BY <1>2, <1>10 DEF RebuildFails, ReplaceBeforeSetup, TopologyOperations
  <2> QED BY <2>1, BodyPlayable
<1> QED BY <1>4, <1>5, <1>6, <1>7, <1>8, <1>9, <1>10 DEF RunBody

\* Every step keeps a gate that is or will be open in front of a built engine.
LEMMA BuiltStep ==
  ASSUME TypeOK, PhaseInv, ClosedInv, NestingInv, DrainInv, BuiltInv, Next
  PROVE  BuiltInv'
<1>1. phase' = "body" => toOpen' = <<>>
  <2>1. CASE AudioStep
    BY <2>1, AudioFrame DEF planVars, BuiltInv
  <2>2. CASE RequestOversampling
    BY <2>2 DEF RequestOversampling, planVars, BuiltInv
  <2>3. CASE WindowsOpen
    BY <2>3 DEF WindowsOpen, planVars
  <2>4. CASE RunBody
    BY <2>4, BodyFrame
  <2>5. CASE \E o \in Operations : BeginOperation(o)
    BY <2>5 DEF BeginOperation
  <2>6. CASE ClaimEngine \/ CloseGate \/ ClaimTimeline \/ ClaimImage
             \/ ObserveEpoch \/ EpochMoved
    BY <2>6 DEF ClaimEngine, CloseGate, ClaimTimeline, ClaimImage,
       ObserveEpoch, EpochMoved, Quiesced
  <2>7. CASE ReachFace \/ PublishFace \/ BodyEnds \/ CloseWindow \/ DropClaim \/ EndOperation
    BY <2>7 DEF ReachFace, PublishFace, BodyEnds, CloseWindow, DropClaim, EndOperation
  <2>8. CASE TerminateStep
    BY <2>8, TerminateFrame DEF planVars, BuiltInv
  <2> QED BY <2>1, <2>2, <2>3, <2>4, <2>5, <2>6, <2>7, <2>8 DEF Next, ControlStep, AudioStep
<1>2. op' = "restoreOversampling" => waitForUiRepack' = ~previousProcessingReady'
  <2>1. CASE AudioStep
    BY <2>1, AudioFrame DEF planVars, uiVars, BuiltInv
  <2>2. CASE RequestOversampling
    BY <2>2 DEF RequestOversampling, planVars, UiOperations
  <2>3. CASE \E o \in Operations : BeginOperation(o)
    <3>1. PICK o \in Operations : BeginOperation(o)
      BY <2>3
    <3>2. op' = "restoreOversampling" => o = "restoreOversampling"
      BY <3>1 DEF BeginOperation
    <3>3. o = "restoreOversampling" => waitForUiRepack' = ~previousProcessingReady
      BY <3>1 DEF BeginOperation, TypeOK
    <3>4. previousProcessingReady' = previousProcessingReady
      BY <3>1 DEF BeginOperation
    <3> QED BY <3>2, <3>3, <3>4
  <2>4. CASE RunBody
    BY <2>4, BodyFrame DEF BuiltInv
  <2>5. CASE ClaimEngine \/ CloseGate \/ ClaimTimeline \/ ClaimImage
             \/ WindowsOpen
    BY <2>5 DEF ClaimEngine, CloseGate, ClaimTimeline, ClaimImage,
       WindowsOpen, planVars, uiVars, BuiltInv
  <2>6. CASE ObserveEpoch \/ EpochMoved
    <3>1. UNCHANGED <<op, waitForUiRepack, previousProcessingReady>>
      BY <2>6 DEF ObserveEpoch, EpochMoved, Quiesced, planVars, uiVars
    <3> QED BY <3>1 DEF BuiltInv
  <2>7. CASE ReachFace \/ PublishFace \/ BodyEnds \/ CloseWindow \/ DropClaim
    BY <2>7 DEF ReachFace, PublishFace, BodyEnds, CloseWindow, DropClaim, planVars, uiVars,
       BuiltInv
  <2>8. CASE EndOperation
    BY <2>8 DEF EndOperation
  <2>9. CASE TerminateStep
    BY <2>9, TerminateFrame DEF planVars, uiVars, BuiltInv
  <2> QED BY <2>1, <2>2, <2>3, <2>4, <2>5, <2>6, <2>7, <2>8, <2>9
          DEF Next, ControlStep, AudioStep
<1>3. Playable' => engine' = "built"
  BY PlayableStep, BodyBuilt DEF BuiltInv
<1>4. UsesEngine' => engine' = "built"
  <2>1. CASE AudioStep
    <3>1. UNCHANGED engine
      BY <2>1, AudioFrame DEF guardedVars
    <3>2. UsesEngine' => processingReady
      BY <2>1 DEF UsesEngine, AudioStep, EnterBlock, FinishProcess, CheckTimeline,
         ReadImageClaim, LatchTable, LeaveBeforeGate, ReadClaimBeforeGate, CheckGate,
         ReadClaimAfterGate, FinishBlock, ExitBlock
    <3>3. processingReady => Playable
      BY DEF ClosedInv, Closed, Playable, EngineWindows, WindowKinds
    <3> QED BY <3>1, <3>2, <3>3 DEF BuiltInv
  <2>2. CASE ~AudioStep
    <3>1. UsesEngine' => UsesEngine
      BY <2>2, ControlFrame DEF audioVars, UsesEngine
    <3>2. CASE ~RunBody
      BY <3>1, <3>2, PlayableStep DEF BuiltInv
    <3>3. CASE RunBody /\ UsesEngine
      <4>1. ~Holds("engine") /\ phase = "body" /\ toOpen = <<>>
        BY <3>3, BodyFrame DEF DrainInv, BuiltInv
      <4>2. op \notin TopologyOperations
        BY <4>1 DEF BuiltInv
      <4>3. engine' = engine
        BY <3>3, <4>2 DEF RunBody, TopologyOperations, KeepTopology, PublishOnly, RestoreState,
           StandDown, Configure, SetOversampling, RestoreOversampling, ReplaceGeneration,
           ReplaceBeforeSetup, RebuildSucceeds, RebuildRestoresPrevious, RebuildFails
      <4> QED BY <3>3, <4>3 DEF BuiltInv
    <3> QED BY <3>1, <3>2, <3>3
  <2> QED BY <2>1, <2>2
<1>5. /\ op' \in TopologyOperations
      /\ phase' \in {"open", "claimed", "body"} \/ pending'.kind \in WindowKinds
      => EngineScopeDue'
  BY EngineScopeStep
<1> QED BY <1>1, <1>2, <1>3, <1>4, <1>5 DEF BuiltInv, EngineScopeDue, Holds

-----------------------------------------------------------------------------
(* The theorems.                                                            *)

\* The processor starts with no block, no operation and no claim.
LEMMA InitInv == Init => Inv
<1> SUFFICES ASSUME Init PROVE Inv
  OBVIOUS
<1>1. windows = <<>> /\ EngineWindows = {} /\ DOMAIN windows = {} /\ DOMAIN toOpen = {}
  BY DEF Init, EngineWindows
<1>2. PhaseInv
  BY DEF Init, PhaseInv, NoWindow, WindowKinds
<1>3. ClaimInv
  BY <1>1, FS_EmptySet DEF Init, ClaimInv, NoWindow
<1>4. ClosedInv /\ NestingInv
  BY <1>1 DEF Init, ClosedInv, NestingInv, NoWindow, WindowKinds, Holds
<1>5. DrainInv /\ DiagnosticInv
  BY DEF Init, DrainInv, DiagnosticInv, UsesEngine, UsesTimeline, UsesTable
<1>6. BuiltInv
  BY <1>1 DEF Init, BuiltInv, TopologyOperations, Playable, UsesEngine, NoWindow
<1> QED BY <1>2, <1>3, <1>4, <1>5, <1>6, InitType DEF Inv

\* Every step of the callback and of the control thread keeps the invariant.
LEMMA NextInv == Inv /\ [Next]_vars => Inv'
<1>1. ASSUME Inv, Next PROVE Inv'
  <2>1. TypeOK' /\ PhaseInv'
    BY <1>1, TypeStep, PhaseStep DEF Inv
  <2>2. ClaimInv' /\ ClosedInv' /\ NestingInv'
    BY <1>1, <2>1, ClaimStep, ClosedStep, NestingStep DEF Inv
  <2>3. DrainInv' /\ DiagnosticInv' /\ BuiltInv'
    BY <1>1, DrainStep, DiagnosticStep, BuiltStep DEF Inv
  <2> QED BY <2>1, <2>2, <2>3 DEF Inv
<1>2. ASSUME Inv, UNCHANGED vars PROVE Inv'
  BY <1>2 DEF vars, Inv, TypeOK, PhaseInv, ClaimInv, ClosedInv, NestingInv, DrainInv,
     DiagnosticInv, BuiltInv, Closed, Holds, WaitsForBlock, TerminateWaits, Playable,
     WasReady, EngineWindows, UsesEngine, UsesTimeline, UsesTable
<1> QED BY <1>1, <1>2

\* The invariant holds in every state of every instance.
THEOREM Invariance == Spec => []Inv
BY InitInv, NextInv, PTL DEF Spec

\* Every variable keeps its type; the claim count never drops below zero.
THEOREM TypeCorrect == Spec => []TypeOK
<1>1. Inv => TypeOK
  BY DEF Inv
<1> QED BY <1>1, Invariance, PTL

\* No block is in the engine section while an EngineMutationWindow is open, past
\* the timeline check while an AudioTimelineWindow is, or in charge of the
\* parameter images while the control service is.
THEOREM Exclusion == Spec => []WindowExclusion
<1>1. Inv => WindowExclusion
  BY DEF Inv, DrainInv, WindowExclusion, EngineExclusion, TimelineExclusion, ImageExclusion, UsesImage
<1> QED BY <1>1, Invariance, PTL

\* The face of the apply table that is written is not the one a block latched.
THEOREM FaceSafe == Spec => []FaceExclusion
<1>1. Inv => FaceExclusion
  BY DEF Inv, DrainInv, FaceExclusion
<1> QED BY <1>1, Invariance, PTL

\* When terminate() has waited, and when it clears the buffers, no block is in the
\* engine or can get there, whatever message operation goes on beside it, as long
\* as no window of such an operation has opened the gate behind it.
THEOREM TerminateSafe == Spec => []TerminatedEngineQuiet
<1>1. Inv => TerminatedEngineQuiet
  BY DEF Inv, DrainInv, ClosedInv, TerminateWaits, TerminatedEngineQuiet
<1> QED BY <1>1, Invariance, PTL

\* A block that reports processingNotReady met a DSP that is not playable.
THEOREM DiagnosticTrue == Spec => []NoFalseDiagnostic
<1>1. Inv => NoFalseDiagnostic
  BY DEF Inv, DiagnosticInv, NoFalseDiagnostic, Playable, EngineWindows, Holds
<1> QED BY <1>1, Invariance, PTL

\* A block in the engine section finds an engine that was built.
THEOREM EngineBuilt == Spec => []EngineBuiltWhenUsed
<1>1. Inv => EngineBuiltWhenUsed
  BY DEF Inv, BuiltInv, EngineBuiltWhenUsed
<1> QED BY <1>1, Invariance, PTL

\* A block that renders has an engine that was built, whatever operation tore it
\* down or was refused before; and past the wait of terminate() no block renders,
\* unless a window that overlapped terminate() opened the gate behind it.
THEOREM EngineAlwaysUsable == Spec => []EngineUsable
<1>1. TerminatedEngineQuiet /\ EngineBuiltWhenUsed => EngineUsable
  BY DEF EngineUsable
<1> QED BY <1>1, TerminateSafe, EngineBuilt, PTL
=============================================================================
