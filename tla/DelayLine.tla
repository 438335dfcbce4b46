------------------------------ MODULE DelayLine ------------------------------
(***************************************************************************)
(* What DryDelayLine promises: each frame of the bypass path comes out     *)
(* `delay' frames after it went in.  Until the line has heard enough, or   *)
(* where a shorter line has already forgotten, it is silent; what it still *)
(* remembers is never garbled by a change of the delay, and a line grown   *)
(* to a delay remembers for good as far as that delay reaches.             *)
(***************************************************************************)
EXTENDS Integers, Sequences

CONSTANTS Frames,      \* frames of all channels
          Silence,     \* a frame of zeros
          Delays

VARIABLES past,        \* the frames heard since the line was cleared
          known,       \* how many of them, counted from the latest, it holds
          delay,
          reach,       \* the most it can hold: the longest delay so far, plus one
          heard        \* the frame it last gave out

lineVars == <<past, known, delay, reach, heard>>

Least(a, b) == IF a < b THEN a ELSE b

LineInit == past = <<>> /\ known = 0 /\ delay = 0 /\ reach = 0 /\ heard = Silence

Pass(frame) ==
  /\ reach > 0
  /\ heard' = IF delay = 0 THEN frame
              ELSE IF known >= delay THEN past[Len(past) - delay + 1]
              ELSE Silence
  /\ past' = Append(past, frame)
  /\ known' = Least(known + 1, reach)
  /\ UNCHANGED <<delay, reach>>

\* A new delay keeps everything the line holds.
ChangeDelay(d) ==
  /\ reach > 0
  /\ delay' = d
  /\ reach' = IF d < reach THEN reach ELSE d + 1
  /\ UNCHANGED <<past, known, heard>>

Clear == past' = <<>> /\ known' = 0 /\ heard' = Silence /\ UNCHANGED <<delay, reach>>

Renew(d) ==
  past' = <<>> /\ known' = 0 /\ heard' = Silence /\ delay' = d /\ reach' = d + 1

LineNext == \/ \E frame \in Frames : Pass(frame)
            \/ \E d \in Delays : ChangeDelay(d) \/ Renew(d)
            \/ Clear
LineSpec == LineInit /\ [][LineNext]_lineVars
=============================================================================
