------------------------------- MODULE DryDelay -------------------------------
(***************************************************************************)
(* DryDelayLine, the delay of the bypass path: a ring of the latest frames *)
(* whose delay changes while it runs.  The callback processes a block      *)
(* frame by frame and swaps in storage the control service prepared, at    *)
(* the start of a block; the control side changes the delay, reconfigures  *)
(* or clears the line only while no block runs (see AudioGate).            *)
(*                                                                         *)
(* All channels share the cursors, so a frame is one value.  A preparation *)
(* that fails or is invalid changes nothing and is left out.  An update    *)
(* that outlives a configuration is refused by the engine before it gets   *)
(* here (see LatencyHandoff), which the model takes as its being dropped.  *)
(***************************************************************************)
EXTENDS Integers, Sequences

CONSTANTS Frames, Silence,
          MaxDelay,      \* bound on the delays
          MaxBlock,      \* maxBlockFrames_
          MaxFrames      \* bound on the frames of a run

ASSUME DelayAssumption ==
  /\ MaxDelay \in Nat /\ MaxBlock \in Nat /\ MaxFrames \in Nat
  /\ Silence \notin Frames

VARIABLES history, capacityFrames, delayFrames, writeFrame, historyFrames,
          output,        \* the frame last written to output_
          framesLeft,    \* of the block in process()
          update,        \* the delay of the prepared Update, or None
          past           \* history variable: the input since the line was cleared

delayVars == <<history, capacityFrames, delayFrames, writeFrame, historyFrames,
          output, framesLeft, update, past>>

Delays == 0..MaxDelay
None == -1
Least(a, b) == IF a < b THEN a ELSE b
Zeros(frames) == [i \in 0..(frames - 1) |-> Silence]

DelayInit ==
  /\ history = Zeros(0) /\ capacityFrames = 0 /\ delayFrames = 0
  /\ writeFrame = 0 /\ historyFrames = 0
  /\ output = Silence /\ framesLeft = 0 /\ update = None /\ past = <<>>

-----------------------------------------------------------------------------
(* The control side.                                                        *)

NoBlock == framesLeft = 0

Cleared == /\ writeFrame' = 0 /\ historyFrames' = 0
           /\ output' = Silence /\ past' = <<>>

Prepare(delay) ==
  /\ NoBlock
  /\ history' = Zeros(delay + 1)
  /\ capacityFrames' = delay + 1 /\ delayFrames' = delay
  /\ Cleared
  /\ update' = None
  /\ UNCHANGED framesLeft

Reset ==
  /\ NoBlock
  /\ history' = Zeros(capacityFrames)
  /\ Cleared
  /\ UNCHANGED <<capacityFrames, delayFrames, framesLeft, update>>

PrepareUpdate(delay) ==
  /\ capacityFrames > 0 /\ update = None
  /\ update' = delay
  /\ UNCHANGED <<history, capacityFrames, delayFrames, writeFrame,
                 historyFrames, output, framesLeft, past>>

\* What a longer ring keeps: the latest frames, oldest first, from its start.
KeptFromStart(keepFrames, i) == history[i]     \* mutant: copies storage as it lies
KeptFrame(keepFrames, i) ==
  LET firstFrame == (writeFrame + capacityFrames - keepFrames) % capacityFrames
  IN history[(firstFrame + i) % capacityFrames]

\* applyUpdate(): a line that is long enough only changes its delay.
Retune(delay) ==
  LET requiredFrames == delay + 1
      keepFrames == Least(historyFrames, requiredFrames)
  IN /\ delayFrames' = delay
     /\ IF requiredFrames <= capacityFrames
          THEN UNCHANGED <<history, capacityFrames, writeFrame, historyFrames>>
          ELSE /\ history' = [i \in 0..delay |-> IF i < keepFrames
                                                 THEN KeptFrame(keepFrames, i)
                                                 ELSE Silence]
               /\ capacityFrames' = requiredFrames
               /\ historyFrames' = keepFrames
               /\ writeFrame' = keepFrames % requiredFrames
     /\ UNCHANGED <<output, framesLeft, past>>

\* setDelay(), after its caller discarded the prepared update.
SetDelay(delay) ==
  /\ NoBlock /\ capacityFrames > 0
  /\ Retune(delay)
  /\ update' = None

-----------------------------------------------------------------------------
(* The audio callback.                                                      *)

ApplyUpdate ==
  /\ NoBlock /\ capacityFrames > 0 /\ update # None
  /\ Retune(update)
  /\ update' = None

\* A block that does not fit returns before the loop.
BeginProcess(frames) ==
  /\ NoBlock /\ capacityFrames > 0 /\ Len(past) + frames <= MaxFrames
  /\ framesLeft' = frames
  /\ UNCHANGED <<history, capacityFrames, delayFrames, writeFrame,
                 historyFrames, output, update, past>>

ReadFrameLate ==                        \* mutant: a frame too late
  history[(writeFrame + capacityFrames - delayFrames + 1) % capacityFrames]
ReadFrame == history[(writeFrame + capacityFrames - delayFrames) % capacityFrames]

NextWriteFrame == (writeFrame + 1) % capacityFrames

\* One round of the loop over frames: the output is read before the input is
\* written, since both may be the same place of the ring.
ProcessFrame(input) ==
  /\ framesLeft > 0
  /\ output' = IF delayFrames = 0 THEN input
               ELSE IF historyFrames >= delayFrames THEN ReadFrame
               ELSE Silence
  /\ history' = [history EXCEPT ![writeFrame] = input]
  /\ writeFrame' = NextWriteFrame
  /\ historyFrames' = Least(historyFrames + 1, capacityFrames)
  /\ past' = Append(past, input)
  /\ framesLeft' = framesLeft - 1
  /\ UNCHANGED <<capacityFrames, delayFrames, update>>

DelayNext ==
  \/ \E delay \in Delays : Prepare(delay) \/ PrepareUpdate(delay) \/ SetDelay(delay)
  \/ Reset
  \/ ApplyUpdate
  \/ \E frames \in 1..MaxBlock : BeginProcess(frames)
  \/ \E input \in Frames : ProcessFrame(input)

DelaySpec == DelayInit /\ [][DelayNext]_delayVars

-----------------------------------------------------------------------------
(* Properties.                                                              *)

\* Every variable holds a value of its kind; the cursor stays in the ring.
DelayTypeOK ==
  /\ capacityFrames \in 0..(MaxDelay + 1) /\ delayFrames \in Delays
  /\ history \in [0..(capacityFrames - 1) -> Frames \union {Silence}]
  /\ writeFrame \in 0..MaxDelay /\ (capacityFrames > 0 => writeFrame < capacityFrames)
  /\ historyFrames \in 0..capacityFrames
  /\ output \in Frames \union {Silence}
  /\ framesLeft \in 0..MaxBlock
  /\ update \in Delays \union {None}
  /\ past \in Seq(Frames)

\* Going back from the write cursor the ring holds the latest frames, latest
\* first, however often the storage was swapped, grown or retuned.
HoldsLatest ==
  /\ historyFrames <= Len(past)
  /\ \A k \in 1..historyFrames :
       history[(writeFrame + capacityFrames - k) % capacityFrames] =
         past[Len(past) + 1 - k]

DelayInv == /\ DelayTypeOK
            /\ capacityFrames > 0 => delayFrames < capacityFrames
            /\ capacityFrames = 0 => delayFrames = 0 /\ framesLeft = 0 /\ update = None
            /\ HoldsLatest

Line == INSTANCE DelayLine WITH known <- historyFrames, delay <- delayFrames,
                                reach <- capacityFrames, heard <- output

\* The bypass path is the input `delay' frames ago at every frame, in every
\* order of blocks, prepared updates and changes of the delay.
ImplementsDelayLine == Line!LineSpec
=============================================================================
