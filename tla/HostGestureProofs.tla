--------------------------- MODULE HostGestureProofs ---------------------------
(***************************************************************************)
(* For any slots, values and bounds: the host is told of an edit inside a  *)
(* touch, of none on the punch-in position, and of the last one before the *)
(* touch ends; and between messages the Parameter shows what is adopted.   *)
(***************************************************************************)
EXTENDS HostGesture, FiniteSetTheorems, TLAPS

EditKinds == {"edit", "image"}

\* What the thread may be doing for each kind of message.
UiInv ==
  /\ ui.pc = "idle" => ui = Idle
  /\ ui.pc \in {"next", "enter", "set", "join", "performEdit", "finish"}
       => ui.kind \in EditKinds \cup {"report"}
  /\ ui.pc = "settle" => ui.kind \in EditKinds
  /\ ui.pc \in {"beginEdit", "anchor"} => ui.kind \in EditKinds \cup {"press"}
  /\ ui.pc \in {"flush", "endEdit"}
       => ui.kind \in EditKinds \cup {"report", "retire", "closeAll", "tick"}
  /\ ui.pc = "endEdit" => ui.kind # "tick"
  /\ ui.pc = "closeAll" => ui.kind = "closeAll"

\* closeHostGesture() has dropped the flag and tells the value that was held: the
\* host has yet to hear of the end of the touch.
Closing(i) == ui.pc = "flush" /\ ui.kind # "tick" /\ i = ui.slot

\* The host's view of a touch is that of the flag, but for the one that is closing;
\* and only an open touch holds a value.
TouchInv ==
  /\ \A i \in Slots : /\ touch[i] <=> open[i] \/ Closing(i)
                      /\ Closing(i) => ~open[i]
                      /\ hold[i] => open[i]
  /\ ui.pc = "beginEdit" => ~hold[ui.slot]
  /\ ui.pc = "join" => open[ui.slot]

\* Where a value is on its way to the host, its touch is open, unless the host has
\* restored from inside the transaction or the edit wanted none.
InsideInv ==
  /\ ui.pc \in {"beginEdit", "anchor"} => open[ui.slot] \/ ui.crossed
  /\ ui.pc = "flush" /\ ui.kind = "tick" => open[ui.slot] \/ ui.crossed
  /\ ui.pc \in {"set", "performEdit"}
       => open[ui.slot] \/ ui.crossed \/ (ui.kind # "report" /\ ~ui.begin)

\* A touch still at its punch-in position holds the value that opened it, or the
\* transaction that opened it has yet to come that far.
Opening(i) ==
  i = ui.slot /\ ui.opened /\ ui.pc \in {"beginEdit", "anchor", "set", "join"}
PunchInv ==
  /\ \A i \in Slots :
       open[i] /\ punch[i] = "same" => (hold[i] /\ fresh[i]) \/ Opening(i)
  /\ ui.pc \in {"beginEdit", "anchor"} => (ui.opened <=> ui.kind # "press")
  /\ ui.pc = "performEdit" \/ (ui.pc = "flush" /\ ui.kind = "tick")
       => ~open[ui.slot] \/ punch[ui.slot] # "same"

\* What the hand gave last is held, or was told to the host.
HeldInv ==
  /\ \A i \in Slots :
       \/ i = ui.slot /\ ui.pc = "join"
       \/ hold[i] /\ held[i] = given[i]
       \/ ~hold[i] /\ reported[i] = given[i]
  /\ ui.pc = "join" => given[ui.slot] = ui.value

\* The Parameter parts from the registry only where an edit is not yet settled.
Unsettled(i) ==
  /\ i = ui.slot /\ ui.kind \in EditKinds
  /\ ui.pc \in {"performEdit", "join", "finish", "flush", "endEdit", "settle"}
DisplayInv == \A i \in Slots : shown[i] = adopted[i] \/ Unsettled(i)

\* The tick's first look, at the count alone, misses no hold.
HoldSlots == {i \in Slots : hold[i]}
CountInv == holdCount = Cardinality(HoldSlots)

\* TypeOK without the count, which CountInv types.
Contents ==
  /\ open \in [Slots -> BOOLEAN] /\ hold \in [Slots -> BOOLEAN]
  /\ held \in [Slots -> Values] /\ fresh \in [Slots -> BOOLEAN]
  /\ shown \in [Slots -> Values] /\ adopted \in [Slots -> Values]
  /\ restoring \in {"no", "asked", "page"} /\ inBlock \in BOOLEAN
  /\ edits \in Nat /\ restores \in Nat
  /\ touch \in [Slots -> BOOLEAN]
  /\ reported \in [Slots -> Values] /\ given \in [Slots -> Values]
  /\ punch \in [Slots -> {"free", "same", "boundary", "block"}]

GestureInv ==
  /\ Contents /\ ui \in Ui /\ UiInv /\ TouchInv /\ InsideInv /\ PunchInv /\ HeldInv /\ DisplayInv
  /\ CountInv

\* There is a slot and a value to start with.
LEMMA IdleFacts ==
  /\ Start \in Values
  /\ Idle \in Ui
  /\ Idle.pc = "idle" /\ Idle.kind = "none" /\ Idle.crossed = FALSE /\ Idle.ok = TRUE
  /\ Idle.opened = FALSE /\ Idle.stale = FALSE
<1>1. Start \in Values /\ (CHOOSE i \in Slots : TRUE) \in Slots
  BY HostGestureAssumption DEF Start
<1>2. Idle \in Ui
  BY <1>1 DEF Idle, Ui
<1>3. QED BY <1>1, <1>2 DEF Idle

\* Where a transaction or a close leads.
LEMMA AfterFacts ==
  ASSUME NEW record \in Ui
  PROVE  /\ After(record) \in Ui
         /\ record.kind \in EditKinds => After(record) = [record EXCEPT !.pc = "settle"]
         /\ record.kind = "report" => After(record) = [record EXCEPT !.pc = "next"]
         /\ record.kind = "closeAll" => After(record) = [record EXCEPT !.pc = "closeAll"]
         /\ record.kind \notin EditKinds \cup {"report", "closeAll"} => After(record) = Idle
<1>1. CASE record.kind \in EditKinds
  <2>1. After(record) = [record EXCEPT !.pc = "settle"]
    BY <1>1 DEF After, EditKinds
  <2>2. QED BY <1>1, <2>1 DEF Ui, EditKinds
<1>2. CASE record.kind = "report"
  <2>1. After(record) = [record EXCEPT !.pc = "next"]
    BY <1>2 DEF After
  <2>2. QED BY <1>2, <2>1 DEF Ui, EditKinds
<1>3. CASE record.kind = "closeAll"
  <2>1. After(record) = [record EXCEPT !.pc = "closeAll"]
    BY <1>3 DEF After
  <2>2. QED BY <1>3, <2>1 DEF Ui, EditKinds
<1>4. CASE record.kind \notin EditKinds \cup {"report", "closeAll"}
  <2>1. After(record) = Idle
    BY <1>4 DEF After, EditKinds
  <2>2. QED BY <1>4, <2>1, IdleFacts
<1>5. QED BY <1>1, <1>2, <1>3, <1>4

\* Raising or lowering a flag of one slot leaves flags.
LEMMA FlagFacts ==
  ASSUME NEW f \in [Slots -> BOOLEAN], NEW i \in Slots
  PROVE  /\ [f EXCEPT ![i] = FALSE] \in [Slots -> BOOLEAN]
         /\ [f EXCEPT ![i] = TRUE] \in [Slots -> BOOLEAN]
  OBVIOUS

\* closeHostGesture() keeps the rest of what the thread was doing.
LEMMA CloseFacts ==
  ASSUME Contents, NEW i \in Slots, NEW then \in Ui, Close(i, then)
  PROVE  /\ ui' \in Ui /\ ui'.slot = i /\ ui'.kind = then.kind
         /\ ui'.crossed = then.crossed
         /\ ui'.pc = IF hold[i] THEN "flush" ELSE "endEdit"
         /\ open' = [open EXCEPT ![i] = FALSE] /\ hold' = [hold EXCEPT ![i] = FALSE]
         /\ reported' = IF hold[i] THEN [reported EXCEPT ![i] = held[i]] ELSE reported
         /\ touch' = IF hold[i] THEN touch ELSE [touch EXCEPT ![i] = FALSE]
<1>0. open' = [open EXCEPT ![i] = FALSE] /\ hold' = [hold EXCEPT ![i] = FALSE]
  BY DEF Close, Unhold
<1>1. CASE hold[i]
  <2>1. /\ ui' = [then EXCEPT !.slot = i, !.pc = "flush"]
        /\ reported' = [reported EXCEPT ![i] = held[i]]
        /\ UNCHANGED touch
    BY <1>1 DEF Close
  <2>2. /\ ui'.slot = i /\ ui'.kind = then.kind
        /\ ui'.crossed = then.crossed /\ ui'.pc = "flush"
    BY <2>1
  <2>3. ui' \in Ui
    BY <2>1 DEF Ui, HostCalls
  <2>4. QED BY <1>0, <1>1, <2>1, <2>2, <2>3
<1>2. CASE ~hold[i]
  <2>1. /\ ui' = [then EXCEPT !.slot = i, !.pc = "endEdit"]
        /\ UNCHANGED reported
        /\ touch' = [touch EXCEPT ![i] = FALSE]
    BY <1>2 DEF Close
  <2>2. /\ ui'.slot = i /\ ui'.kind = then.kind
        /\ ui'.crossed = then.crossed /\ ui'.pc = "endEdit"
    BY <2>1
  <2>3. ui' \in Ui
    BY <2>1 DEF Ui, HostCalls
  <2>4. QED BY <1>0, <1>2, <2>1, <2>2, <2>3
<1>3. QED BY <1>1, <1>2

\* What is held is told before the host hears of the end, and the host hears of it
\* when nothing was held.
LEMMA CloseKeeps ==
  ASSUME GestureInv, NEW i \in Slots, NEW then \in Ui, Close(i, then), open[i],
         then.kind \in EditKinds \cup {"report", "retire", "closeAll"},
         ui.pc \in {"idle", "finish", "closeAll", "settle"},
         UNCHANGED <<held, fresh, restoring, inBlock, edits, restores, given, punch>>,
         shown' \in [Slots -> Values], adopted' \in [Slots -> Values],
         \A j \in Slots : shown'[j] = adopted'[j] \/ (j = i /\ then.kind \in EditKinds)
  PROVE  /\ Contents' /\ (ui \in Ui)' /\ UiInv' /\ TouchInv' /\ InsideInv' /\ PunchInv'
         /\ HeldInv' /\ DisplayInv'
<1> USE DEF GestureInv
<1>0. /\ ui' \in Ui /\ ui'.slot = i /\ ui'.kind = then.kind
      /\ ui'.crossed = then.crossed
      /\ ui'.pc = IF hold[i] THEN "flush" ELSE "endEdit"
      /\ open' = [open EXCEPT ![i] = FALSE] /\ hold' = [hold EXCEPT ![i] = FALSE]
      /\ reported' = IF hold[i] THEN [reported EXCEPT ![i] = held[i]] ELSE reported
      /\ touch' = IF hold[i] THEN touch ELSE [touch EXCEPT ![i] = FALSE]
  BY CloseFacts
<1> USE <1>0
<1>1. Contents'
  <2>1. open' \in [Slots -> BOOLEAN] /\ hold' \in [Slots -> BOOLEAN]
    BY <1>0 DEF Contents
  <2>2. reported' \in [Slots -> Values]
    BY DEF Contents
  <2>3. touch' \in [Slots -> BOOLEAN]
    BY <1>0 DEF Contents
  <2>4. QED BY <2>1, <2>2, <2>3 DEF Contents
<1>2. UiInv'
  BY DEF UiInv, EditKinds
<1>3. TouchInv'
  BY DEF TouchInv, Closing, Contents, EditKinds
<1>4. InsideInv'
  BY DEF InsideInv, EditKinds
<1>5. PunchInv'
  BY DEF PunchInv, Opening, Contents
<1>6. HeldInv'
  BY DEF HeldInv, Contents
<1>7. DisplayInv'
  BY DEF DisplayInv, Unsettled
<1>8. QED BY <1>1, <1>2, <1>3, <1>4, <1>5, <1>6, <1>7

\* The steps that may close a touch.
Closers == Finish \/ (\E i \in Slots : Release(i)) \/ CloseNext \/ Settle

\* Whatever the closing step was about: it tells what was held before the end.
LEMMA CloserStep ==
  ASSUME GestureInv, Closers
  PROVE  /\ Contents' /\ (ui \in Ui)' /\ UiInv' /\ TouchInv' /\ InsideInv' /\ PunchInv'
         /\ HeldInv' /\ DisplayInv'
<1> DEFINE Goal == /\ Contents' /\ (ui \in Ui)' /\ UiInv' /\ TouchInv' /\ InsideInv'
                   /\ PunchInv' /\ HeldInv' /\ DisplayInv'
<1>1. ui \in Ui /\ ui.slot \in Slots
  BY DEF GestureInv, Ui
<1>2. ASSUME Finish PROVE Goal
  <2>1. ui.pc = "finish" /\ ui.kind \in EditKinds \cup {"report"}
    BY <1>2 DEF Finish, GestureInv, UiInv
  <2>2. CASE ui.end /\ open[ui.slot]
    <3>1. Close(ui.slot, ui)
      BY <1>2, <2>2 DEF Finish
    <3>2. /\ UNCHANGED <<held, fresh, restoring, inBlock, edits, restores, given, punch>>
          /\ shown' = shown /\ adopted' = adopted
      BY <1>2 DEF Finish, valueVars, outside
    <3>3. /\ shown' \in [Slots -> Values] /\ adopted' \in [Slots -> Values]
          /\ \A j \in Slots : shown'[j] = adopted'[j] \/ (j = ui.slot /\ ui.kind \in EditKinds)
      BY <3>2 DEF GestureInv, Contents, DisplayInv, Unsettled
    <3>4. QED BY <1>1, <2>1, <2>2, <3>1, <3>2, <3>3, CloseKeeps
  <2>3. CASE ~(ui.end /\ open[ui.slot])
    <3>1. /\ ui' = After(ui)
          /\ UNCHANGED <<open, hold, touch, reported, held, fresh, shown, adopted, inBlock,
                         edits, restores, restoring, given, punch>>
      BY <1>2, <2>3 DEF Finish, valueVars, outside
    <3>2. /\ ui' \in Ui /\ ui'.slot = ui.slot /\ ui'.kind = ui.kind
          /\ ui.kind \in EditKinds => ui'.pc = "settle"
          /\ ui.kind = "report" => ui'.pc = "next"
      BY <1>1, <2>1, <3>1, AfterFacts DEF Ui
    <3>3. UiInv'
      BY <2>1, <3>2 DEF UiInv
    <3>4. TouchInv' /\ InsideInv'
      BY <2>1, <3>1, <3>2 DEF GestureInv, TouchInv, Closing, InsideInv
    <3>5. PunchInv' /\ HeldInv'
      BY <2>1, <3>1, <3>2 DEF GestureInv, PunchInv, Opening, HeldInv
    <3>6. DisplayInv'
      BY <2>1, <3>1, <3>2 DEF GestureInv, DisplayInv, Unsettled
    <3>7. Contents'
      BY <3>1 DEF GestureInv, Contents
    <3>8. QED BY <3>2, <3>3, <3>4, <3>5, <3>6, <3>7
  <2>4. QED BY <2>2, <2>3
<1>3. ASSUME NEW i \in Slots, Release(i) PROVE Goal
  <2>1. /\ ui.pc = "idle" /\ open[i]
        /\ Close(i, [Idle EXCEPT !.kind = "retire"])
        /\ UNCHANGED <<held, fresh, shown, adopted, inBlock, edits, restores, restoring,
                       given, punch>>
    BY <1>3 DEF Release, valueVars, outside
  <2>2. /\ [Idle EXCEPT !.kind = "retire"] \in Ui
        /\ [Idle EXCEPT !.kind = "retire"].kind = "retire"
    BY IdleFacts DEF Ui
  <2>3. /\ shown' \in [Slots -> Values] /\ adopted' \in [Slots -> Values]
        /\ \A j \in Slots : shown'[j] = adopted'[j]
    BY <2>1 DEF GestureInv, Contents, DisplayInv, Unsettled
  <2>4. QED BY <2>1, <2>2, <2>3, CloseKeeps
<1>4. ASSUME CloseNext PROVE Goal
  <2>1. /\ ui.pc = "closeAll" /\ ui.kind = "closeAll"
        /\ UNCHANGED <<held, fresh, shown, adopted, inBlock, edits, restores, restoring,
                       given, punch>>
    BY <1>4 DEF CloseNext, valueVars, outside, GestureInv, UiInv
  <2>2. /\ shown' \in [Slots -> Values] /\ adopted' \in [Slots -> Values]
        /\ \A j \in Slots : shown'[j] = adopted'[j]
    BY <2>1 DEF GestureInv, Contents, DisplayInv, Unsettled
  <2>3. ASSUME NEW i \in Slots, open[i], Close(i, ui) PROVE Goal
    BY <1>1, <2>1, <2>2, <2>3, CloseKeeps
  <2>4. CASE ui' = Idle /\ UNCHANGED <<open, hold, touch, reported>>
    <3>1. ui' \in Ui /\ ui'.pc = "idle" /\ UiInv'
      BY <2>4, IdleFacts DEF UiInv
    <3>2. TouchInv' /\ InsideInv' /\ PunchInv'
      BY <2>1, <2>4, <3>1
      DEF GestureInv, TouchInv, Closing, InsideInv, PunchInv, Opening
    <3>3. HeldInv' /\ DisplayInv' /\ Contents'
      BY <2>1, <2>2, <2>4, <3>1 DEF GestureInv, HeldInv, DisplayInv, Contents
    <3>4. QED BY <3>1, <3>2, <3>3
  <2>5. QED BY <1>4, <2>3, <2>4 DEF CloseNext
<1>5. ASSUME Settle PROVE Goal
  <2>1. /\ ui.pc = "settle" /\ ui.kind \in EditKinds
        /\ UNCHANGED <<held, fresh, inBlock, edits, restores, restoring, given, punch>>
    BY <1>5 DEF Settle, outside, GestureInv, UiInv
  <2>2. /\ shown' \in [Slots -> Values] /\ adopted' \in [Slots -> Values]
        /\ \A j \in Slots : shown'[j] = adopted'[j]
    <3>1. ui.value \in Values /\ ui.previous \in Values
      BY <1>1 DEF Ui
    <3>2. DEFINE rolledBack == IF ui.ok THEN shown ELSE [shown EXCEPT ![ui.slot] = ui.previous]
    <3>3. /\ rolledBack \in [Slots -> Values]
          /\ \A j \in Slots : j # ui.slot => rolledBack[j] = shown[j]
      BY <3>1 DEF GestureInv, Contents
    <3>4. \A j \in Slots : j # ui.slot => shown[j] = adopted[j]
      BY DEF GestureInv, DisplayInv, Unsettled
    <3>5. \/ shown' = [rolledBack EXCEPT ![ui.slot] = adopted[ui.slot]] /\ adopted' = adopted
          \/ /\ shown' = [rolledBack EXCEPT ![ui.slot] = ui.value]
             /\ adopted' = [adopted EXCEPT ![ui.slot] = ui.value]
      BY <1>5 DEF Settle
    <3>6. adopted \in [Slots -> Values]
      BY DEF GestureInv, Contents
    <3> HIDE DEF rolledBack
    <3>7. QED BY <1>1, <3>1, <3>3, <3>4, <3>5, <3>6
  <2>3. CASE open[ui.slot] /\ Close(ui.slot, [ui EXCEPT !.kind = "report"])
    <3>1. /\ [ui EXCEPT !.kind = "report"] \in Ui
          /\ [ui EXCEPT !.kind = "report"].kind = "report"
      BY <1>1 DEF Ui
    <3>2. QED BY <1>1, <2>1, <2>2, <2>3, <3>1, CloseKeeps
  <2>4. CASE /\ ui' = [ui EXCEPT !.pc = "next"]
             /\ UNCHANGED <<open, hold, touch, reported>>
    <3>1. /\ ui' \in Ui /\ ui'.pc = "next" /\ ui'.kind = ui.kind /\ ui'.slot = ui.slot
      BY <1>1, <2>4 DEF Ui
    <3>2. UiInv'
      BY <2>1, <3>1 DEF UiInv
    <3>3. TouchInv' /\ InsideInv' /\ PunchInv'
      BY <2>1, <2>4, <3>1
      DEF GestureInv, TouchInv, Closing, InsideInv, PunchInv, Opening
    <3>4. HeldInv' /\ DisplayInv' /\ Contents'
      BY <2>1, <2>2, <2>4, <3>1 DEF GestureInv, HeldInv, DisplayInv, Contents
    <3>5. QED BY <3>1, <3>2, <3>3, <3>4
  <2>5. QED BY <1>5, <2>3, <2>4 DEF Settle
<1>6. QED BY <1>2, <1>3, <1>4, <1>5 DEF Closers

\* An edit that wants a touch opens it, or finds it open.
LEMMA OpenForEditFacts ==
  ASSUME GestureInv, OpenForEdit
  PROVE  /\ ui' \in Ui /\ ui'.slot = ui.slot /\ ui'.kind = ui.kind
         /\ ui'.crossed = ui.crossed /\ ui'.begin = ui.begin
         /\ ui.pc = "enter" /\ ui.slot \in Slots /\ ui.kind \in EditKinds
         /\ UNCHANGED <<hold, held, fresh, shown, adopted, reported, given>>
         /\ \/ /\ ~open[ui.slot] /\ ui'.pc = "beginEdit" /\ ui'.opened
               /\ open' = [open EXCEPT ![ui.slot] = TRUE]
               /\ touch' = [touch EXCEPT ![ui.slot] = TRUE]
               /\ punch' = [punch EXCEPT ![ui.slot] = "same"]
            \/ /\ ~ui.begin \/ open[ui.slot]
               /\ ui'.pc = "set" /\ UNCHANGED <<open, touch, punch>>
<1>1. ui \in Ui /\ ui.slot \in Slots /\ ui.pc = "enter" /\ shown[ui.slot] \in Values
  BY DEF GestureInv, OpenForEdit, Ui, Contents
<1>2. ui.kind \in EditKinds
  BY <1>1 DEF GestureInv, OpenForEdit, UiInv
<1>3. UNCHANGED <<hold, held, fresh, shown, adopted, reported, given>>
  BY DEF OpenForEdit, holdVars, valueVars
<1>4. CASE ui.begin /\ ~open[ui.slot]
  <2>1. /\ Open(ui.slot, "edit")
        /\ ui' = [ui EXCEPT !.pc = "beginEdit", !.opened = TRUE,
                            !.previous = shown[ui.slot]]
    BY <1>4 DEF OpenForEdit
  <2>2. /\ ui' \in Ui /\ ui'.slot = ui.slot /\ ui'.kind = ui.kind
        /\ ui'.crossed = ui.crossed /\ ui'.begin = ui.begin
        /\ ui'.pc = "beginEdit" /\ ui'.opened
    BY <1>1, <2>1 DEF Ui, HostCalls
  <2>3. QED BY <1>1, <1>2, <1>3, <1>4, <2>1, <2>2 DEF Open
<1>5. CASE ~(ui.begin /\ ~open[ui.slot])
  <2>1. /\ UNCHANGED <<open, touch, punch>>
        /\ ui' = [ui EXCEPT !.pc = "set", !.previous = shown[ui.slot]]
    BY <1>5 DEF OpenForEdit
  <2>2. /\ ui' \in Ui /\ ui'.slot = ui.slot /\ ui'.kind = ui.kind
        /\ ui'.crossed = ui.crossed /\ ui'.begin = ui.begin /\ ui'.pc = "set"
    BY <1>1, <2>1 DEF Ui
  <2>3. QED BY <1>1, <1>2, <1>3, <1>5, <2>1, <2>2
<1>6. QED BY <1>4, <1>5

\* A touch the host accepts begins with the value the Parameter had; one it refuses
\* is none.
LEMMA BeginFacts ==
  ASSUME GestureInv, NEW accepted \in BOOLEAN, BeginAnswered(accepted)
  PROVE  /\ ui' \in Ui /\ ui.slot \in Slots /\ ui.pc = "beginEdit"
         /\ ui.kind \in EditKinds \cup {"press"}
         /\ UNCHANGED <<hold, held, fresh, shown, adopted, punch>>
         /\ \/ /\ ui'.pc = "anchor" /\ ui'.slot = ui.slot /\ ui'.kind = ui.kind
               /\ ui'.crossed = ui.crossed /\ ui'.opened = ui.opened
               /\ \E v \in Values : /\ reported' = [reported EXCEPT ![ui.slot] = v]
                                    /\ given' = [given EXCEPT ![ui.slot] = v]
               /\ UNCHANGED <<open, touch>>
            \/ /\ \/ ui' = Idle
                  \/ ui'.pc = "settle" /\ ui'.slot = ui.slot /\ ui'.kind \in EditKinds
               /\ open' = [open EXCEPT ![ui.slot] = FALSE]
               /\ touch' = [touch EXCEPT ![ui.slot] = FALSE]
               /\ UNCHANGED <<reported, given>>
<1>1. ui \in Ui /\ ui.slot \in Slots /\ ui.pc = "beginEdit" /\ ui.previous \in Values
  BY DEF GestureInv, BeginAnswered, Ui
<1>2. ui.kind \in EditKinds \cup {"press"}
  BY <1>1 DEF GestureInv, UiInv
<1>3. UNCHANGED <<hold, held, fresh, shown, adopted, punch>>
  BY DEF BeginAnswered, holdVars, valueVars
<1>4. CASE accepted
  <2>1. /\ ui' = [ui EXCEPT !.pc = "anchor"]
        /\ reported' = [reported EXCEPT ![ui.slot] = ui.previous]
        /\ given' = [given EXCEPT ![ui.slot] = ui.previous]
        /\ UNCHANGED <<open, touch>>
    BY <1>4 DEF BeginAnswered
  <2>2. /\ ui' \in Ui /\ ui'.pc = "anchor" /\ ui'.slot = ui.slot /\ ui'.kind = ui.kind
        /\ ui'.crossed = ui.crossed /\ ui'.opened = ui.opened
    BY <1>1, <2>1 DEF Ui, HostCalls
  <2>3. QED BY <1>1, <1>2, <1>3, <2>1, <2>2
<1>5. CASE ~accepted
  <2>1. /\ ui' = IF ui.kind = "press" THEN Idle
                                      ELSE [ui EXCEPT !.pc = "settle", !.ok = TRUE]
        /\ open' = [open EXCEPT ![ui.slot] = FALSE]
        /\ touch' = [touch EXCEPT ![ui.slot] = FALSE]
        /\ UNCHANGED <<reported, given>>
    BY <1>5 DEF BeginAnswered
  <2>2. CASE ui.kind = "press"
    BY <1>1, <1>2, <1>3, <2>1, <2>2, IdleFacts
  <2>3. CASE ui.kind # "press"
    <3>1. /\ ui' \in Ui /\ ui'.pc = "settle" /\ ui'.slot = ui.slot
          /\ ui'.kind = ui.kind
      BY <1>1, <2>1, <2>3 DEF Ui
    <3>2. QED BY <1>1, <1>2, <1>3, <2>1, <2>3, <3>1
  <2>4. QED BY <2>2, <2>3
<1>6. QED BY <1>4, <1>5

\* The end of a touch leads on to what the message was about.
LEMMA EndFacts ==
  ASSUME GestureInv, NEW accepted \in BOOLEAN, EndAnswered(accepted)
  PROVE  /\ ui' \in Ui /\ ui.slot \in Slots /\ ui.pc = "endEdit"
         /\ UNCHANGED <<open, hold, held, fresh, shown, adopted, touch, reported, given,
                        punch>>
         /\ \/ ui' = Idle /\ ui.kind \notin EditKinds
            \/ /\ ui'.slot = ui.slot /\ ui'.kind = ui.kind
               /\ \/ ui'.pc = "settle" /\ ui.kind \in EditKinds
                  \/ ui'.pc = "next" /\ ui.kind = "report"
                  \/ ui'.pc = "closeAll" /\ ui.kind = "closeAll"
<1> DEFINE record == [ui EXCEPT !.ok = ui.ok /\ accepted]
<1>1. ui \in Ui /\ ui.slot \in Slots /\ ui.pc = "endEdit"
  BY DEF GestureInv, EndAnswered, Ui
<1>2. record \in Ui /\ record.slot = ui.slot /\ record.kind = ui.kind
  BY <1>1 DEF Ui
<1>3. ui' = After(record)
  BY DEF EndAnswered
<1>4. UNCHANGED <<open, hold, held, fresh, shown, adopted, touch, reported, given, punch>>
  BY DEF EndAnswered, holdVars, valueVars, hostVars
<1> HIDE DEF record
<1>5. ui' \in Ui
  BY <1>2, <1>3, AfterFacts
<1>6. CASE ui.kind \in EditKinds
  <2>1. ui' = [record EXCEPT !.pc = "settle"]
    BY <1>2, <1>3, <1>6, AfterFacts
  <2>2. ui'.slot = ui.slot /\ ui'.kind = ui.kind /\ ui'.pc = "settle"
    BY <1>2, <2>1
  <2>3. QED BY <1>1, <1>4, <1>5, <1>6, <2>2
<1>7. CASE ui.kind = "report"
  <2>1. ui' = [record EXCEPT !.pc = "next"]
    BY <1>2, <1>3, <1>7, AfterFacts
  <2>2. ui'.slot = ui.slot /\ ui'.kind = ui.kind /\ ui'.pc = "next"
    BY <1>2, <2>1
  <2>3. QED BY <1>1, <1>4, <1>5, <1>7, <2>2
<1>8. CASE ui.kind = "closeAll"
  <2>1. ui' = [record EXCEPT !.pc = "closeAll"]
    BY <1>2, <1>3, <1>8, AfterFacts
  <2>2. ui'.slot = ui.slot /\ ui'.kind = ui.kind /\ ui'.pc = "closeAll"
    BY <1>2, <2>1
  <2>3. QED BY <1>1, <1>4, <1>5, <1>8, <2>2
<1>9. CASE ui.kind \notin EditKinds \cup {"report", "closeAll"}
  BY <1>1, <1>2, <1>3, <1>4, <1>5, <1>9, AfterFacts
<1>10. QED BY <1>6, <1>7, <1>8, <1>9

\* A restore closes every touch, and marks the call of the host it came from.
LEMMA RestoreFacts ==
  ASSUME GestureInv, Restore
  PROVE  /\ ui' \in Ui /\ ui'.pc = ui.pc /\ ui'.slot = ui.slot /\ ui'.kind = ui.kind
         /\ ui'.opened = ui.opened
         /\ ui.slot \in Slots /\ ui.pc \in HostCalls \cup {"idle"}
         /\ ui.pc = "idle" => ui' = ui
         /\ ui.pc # "idle" => ui'.crossed
         /\ \A i \in Slots : /\ ~open'[i] /\ ~hold'[i]
                             /\ touch'[i] <=> touch[i] /\ ~open[i]
                             /\ reported'[i] = IF hold[i] THEN held[i] ELSE reported[i]
         /\ UNCHANGED <<held, fresh, shown, adopted, given, punch>>
<1>1. ui \in Ui /\ ui.slot \in Slots /\ ui.pc \in HostCalls \cup {"idle"}
  BY DEF GestureInv, Restore, RestoreAt, Ui
<1>2. \A i \in Slots : /\ ~open'[i] /\ ~hold'[i]
                       /\ touch'[i] <=> touch[i] /\ ~open[i]
                       /\ reported'[i] = IF hold[i] THEN held[i] ELSE reported[i]
  BY DEF Restore, RestoreAt, GestureInv, TouchInv
<1>3. UNCHANGED <<held, fresh, shown, adopted, given, punch>>
  BY DEF Restore, RestoreAt, valueVars
<1>4. CASE ui.pc = "idle"
  BY <1>1, <1>2, <1>3, <1>4 DEF Restore, RestoreAt
<1>5. CASE ui.pc # "idle"
  <2>1. ui' = [ui EXCEPT !.crossed = TRUE, !.stale = (ui.kind = "image")]
    BY <1>5 DEF Restore, RestoreAt
  <2>2. /\ ui' \in Ui /\ ui'.pc = ui.pc /\ ui'.slot = ui.slot /\ ui'.kind = ui.kind
        /\ ui'.opened = ui.opened /\ ui'.crossed
    BY <1>1, <2>1 DEF Ui
  <2>3. QED BY <1>1, <1>2, <1>3, <1>5, <2>2
<1>6. QED BY <1>4, <1>5

\* The arrays keep their slots and their values.
LEMMA ContentsStep ==
  ASSUME GestureInv, Next
  PROVE  Contents'
<1>1. ASSUME NEW i \in Slots, Press(i) PROVE Contents'
  BY <1>1 DEF Press, Open, holdVars, valueVars, GestureInv, Contents
<1>2. ASSUME NEW kind \in EditKinds, NEW n \in 1..2, Edits(kind, n)
      PROVE  Contents'
  BY <1>2 DEF Edits, holdVars, valueVars, outside, hostVars, GestureInv, Contents
<1>3. ASSUME NEW i \in Slots, NEW v \in Values, NEW begin \in BOOLEAN,
             NEW end \in BOOLEAN, Enter(i, v, begin, end)
      PROVE  Contents'
  BY <1>3 DEF Enter, holdVars, valueVars, hostVars, GestureInv, Contents
<1>4. ASSUME Answer PROVE Contents'
  BY <1>4 DEF Answer, holdVars, valueVars, outside, hostVars, GestureInv, Contents
<1>5. ASSUME OpenForEdit PROVE Contents'
  <2>1. /\ open' \in [Slots -> BOOLEAN] /\ touch' \in [Slots -> BOOLEAN]
        /\ punch' \in [Slots -> {"free", "same", "boundary", "block"}]
    <3>1. open \in [Slots -> BOOLEAN] /\ touch \in [Slots -> BOOLEAN]
      BY DEF GestureInv, Contents
    <3>2. CASE /\ open' = [open EXCEPT ![ui.slot] = TRUE]
               /\ touch' = [touch EXCEPT ![ui.slot] = TRUE]
               /\ punch' = [punch EXCEPT ![ui.slot] = "same"]
      <4>1. ui.slot \in Slots
        BY <1>5, OpenForEditFacts
      <4>2. open' \in [Slots -> BOOLEAN] /\ touch' \in [Slots -> BOOLEAN]
        BY <3>1, <3>2, <4>1
      <4>3. QED BY <3>2, <4>1, <4>2 DEF GestureInv, Contents
    <3>3. CASE UNCHANGED <<open, touch, punch>>
      BY <3>1, <3>3 DEF GestureInv, Contents
    <3>4. QED BY <1>5, <3>2, <3>3, OpenForEditFacts
  <2>2. UNCHANGED <<restoring, inBlock, edits, restores>>
    BY <1>5 DEF OpenForEdit, outside
  <2>3. QED BY <1>5, <2>1, <2>2, OpenForEditFacts DEF GestureInv, Contents
<1>6. ASSUME EnterReport PROVE Contents'
  BY <1>6
  DEF EnterReport, holdVars, valueVars, outside, hostVars, GestureInv, Contents
<1>7. ASSUME NEW accepted \in BOOLEAN, BeginAnswered(accepted) PROVE Contents'
  <2>1. /\ open' \in [Slots -> BOOLEAN] /\ touch' \in [Slots -> BOOLEAN]
        /\ reported' \in [Slots -> Values] /\ given' \in [Slots -> Values]
    <3>1. /\ open \in [Slots -> BOOLEAN] /\ touch \in [Slots -> BOOLEAN]
          /\ reported \in [Slots -> Values] /\ given \in [Slots -> Values]
          /\ ui.slot \in Slots
      BY <1>7, BeginFacts DEF GestureInv, Contents
    <3>2. ASSUME NEW v \in Values, reported' = [reported EXCEPT ![ui.slot] = v],
                 given' = [given EXCEPT ![ui.slot] = v], UNCHANGED <<open, touch>>
          PROVE  /\ open' \in [Slots -> BOOLEAN] /\ touch' \in [Slots -> BOOLEAN]
                 /\ reported' \in [Slots -> Values] /\ given' \in [Slots -> Values]
      BY <3>1, <3>2
    <3>3. CASE /\ open' = [open EXCEPT ![ui.slot] = FALSE]
               /\ touch' = [touch EXCEPT ![ui.slot] = FALSE]
               /\ UNCHANGED <<reported, given>>
      BY <3>1, <3>3
    <3>4. QED BY <1>7, <3>2, <3>3, BeginFacts
  <2>2. UNCHANGED <<restoring, inBlock, edits, restores>>
    BY <1>7 DEF BeginAnswered, outside
  <2>3. QED BY <1>7, <2>1, <2>2, BeginFacts DEF GestureInv, Contents
<1>8. ASSUME AnchorAnswered PROVE Contents'
  BY <1>8
  DEF AnchorAnswered, holdVars, valueVars, outside, hostVars, GestureInv, Contents
<1>9. ASSUME SetValue PROVE Contents'
  <2>1. /\ ui.slot \in Slots /\ ui.value \in Values /\ hold \in [Slots -> BOOLEAN]
        /\ shown \in [Slots -> Values] /\ given \in [Slots -> Values]
        /\ reported \in [Slots -> Values]
    BY DEF GestureInv, Contents, Ui
  <2>2. shown' \in [Slots -> Values] /\ given' \in [Slots -> Values]
    BY <1>9, <2>1 DEF SetValue
  <2>3. reported' \in [Slots -> Values]
    BY <1>9, <2>1 DEF SetValue
  <2>4. hold' \in [Slots -> BOOLEAN]
    <3>1. hold' = hold \/ hold' = [hold EXCEPT ![ui.slot] = FALSE]
      BY <1>9 DEF SetValue, Unhold
    <3>2. QED BY <2>1, <3>1
  <2>5. UNCHANGED <<open, held, fresh, adopted, inBlock, edits, restores, restoring, touch,
                    punch>>
    BY <1>9 DEF SetValue, outside
  <2>6. QED BY <2>2, <2>3, <2>4, <2>5 DEF GestureInv, Contents
<1>10. ASSUME Join PROVE Contents'
  BY <1>10 DEF Join, valueVars, outside, hostVars, GestureInv, Contents, Ui
<1>11. ASSUME NEW accepted \in BOOLEAN, PerformAnswered(accepted)
       PROVE  Contents'
  BY <1>11
  DEF PerformAnswered, holdVars, valueVars, outside, hostVars, GestureInv, Contents
<1>12. ASSUME FlushAnswered PROVE Contents'
  BY <1>12 DEF FlushAnswered, holdVars, valueVars, outside, GestureInv, Contents
<1>13. ASSUME NEW accepted \in BOOLEAN, EndAnswered(accepted) PROVE Contents'
  BY <1>13
  DEF EndAnswered, holdVars, valueVars, outside, hostVars, GestureInv, Contents
<1>14. ASSUME NEW page \in BOOLEAN, CloseAll(page) PROVE Contents'
  BY <1>14 DEF CloseAll, holdVars, valueVars, hostVars, GestureInv, Contents
<1>15. ASSUME NEW i \in Slots, Tick(i) PROVE Contents'
  BY <1>15 DEF Tick, Unhold, valueVars, outside, GestureInv, Contents
<1>16. ASSUME Restore PROVE Contents'
  BY <1>16 DEF Restore, RestoreAt, valueVars, GestureInv, Contents
<1>17. ASSUME Rebuilt PROVE Contents'
  BY <1>17 DEF Rebuilt, holdVars, valueVars, hostVars, GestureInv, Contents
<1>18. ASSUME MoveEpoch PROVE Contents'
  BY <1>18 DEF MoveEpoch, valueVars, GestureInv, Contents
<1>19. ASSUME Closers PROVE Contents'
  BY <1>19, CloserStep
<1>20. QED
  BY <1>1, <1>2, <1>3, <1>4, <1>5, <1>6, <1>7, <1>8, <1>9, <1>10, <1>11, <1>12,
     <1>13, <1>14, <1>15, <1>16, <1>17, <1>18, <1>19
  DEF Next, Starts, Proceed, Ticks, EditKinds, Closers

\* The thread's record stays one.
LEMMA UiTypeStep ==
  ASSUME GestureInv, Next
  PROVE  (ui \in Ui)'
<1>1. ASSUME NEW i \in Slots, Press(i) PROVE (ui \in Ui)'
  <2>1. shown[i] \in Values
    BY DEF GestureInv, Contents
  <2>2. ui' = [Idle EXCEPT !.pc = "beginEdit", !.kind = "press", !.slot = i,
                           !.previous = shown[i]]
    BY <1>1 DEF Press
  <2>3. QED BY <2>1, <2>2, IdleFacts DEF Ui, HostCalls
<1>2. ASSUME NEW kind \in EditKinds, NEW n \in 1..2, Edits(kind, n)
      PROVE  (ui \in Ui)'
  <2>1. ui' = [Idle EXCEPT !.pc = "next", !.kind = kind, !.more = n,
                           !.stale = (kind = "image" /\ restoring # "no")]
    BY <1>2 DEF Edits
  <2>2. n \in 0..2 /\ kind \in {"edit", "image"}
    BY DEF EditKinds
  <2>3. QED BY <2>1, <2>2, IdleFacts DEF Ui
<1>3. ASSUME NEW i \in Slots, NEW v \in Values, NEW begin \in BOOLEAN,
             NEW end \in BOOLEAN, Enter(i, v, begin, end)
      PROVE  (ui \in Ui)'
  <2>1. ui \in Ui /\ ui.more - 1 \in 0..2
    BY <1>3 DEF Enter, GestureInv, Ui
  <2>2. PICK kind \in {ui.kind, "report"} :
          ui' = [ui EXCEPT !.pc = "enter", !.slot = i, !.value = v, !.begin = begin,
                           !.end = end, !.more = ui.more - 1, !.opened = FALSE, !.ok = TRUE,
                           !.kind = kind]
    BY <1>3 DEF Enter
  <2>3. kind \in {"none", "press", "edit", "image", "report", "retire", "tick", "closeAll"}
    BY <2>1, <2>2 DEF Ui
  <2>4. QED BY <2>1, <2>2, <2>3 DEF Ui
<1>4. ASSUME Answer PROVE (ui \in Ui)'
  BY <1>4, IdleFacts DEF Answer
<1>5. ASSUME OpenForEdit PROVE (ui \in Ui)'
  BY <1>5, OpenForEditFacts
<1>6. ASSUME EnterReport PROVE (ui \in Ui)'
  BY <1>6 DEF EnterReport, GestureInv, Ui
<1>7. ASSUME NEW accepted \in BOOLEAN, BeginAnswered(accepted)
      PROVE  (ui \in Ui)'
  BY <1>7, BeginFacts
<1>8. ASSUME AnchorAnswered PROVE (ui \in Ui)'
  BY <1>8, AfterFacts DEF AnchorAnswered, GestureInv, Ui, EditKinds
<1>9. ASSUME SetValue PROVE (ui \in Ui)'
  BY <1>9 DEF SetValue, Withholds, GestureInv, Ui, HostCalls
<1>10. ASSUME Join PROVE (ui \in Ui)'
  BY <1>10 DEF Join, GestureInv, Ui
<1>11. ASSUME NEW accepted \in BOOLEAN, PerformAnswered(accepted)
       PROVE  (ui \in Ui)'
  BY <1>11 DEF PerformAnswered, GestureInv, Ui
<1>12. ASSUME FlushAnswered PROVE (ui \in Ui)'
  BY <1>12, AfterFacts DEF FlushAnswered, GestureInv, Ui, HostCalls, EditKinds
<1>13. ASSUME NEW accepted \in BOOLEAN, EndAnswered(accepted)
       PROVE  (ui \in Ui)'
  BY <1>13, EndFacts
<1>14. ASSUME NEW page \in BOOLEAN, CloseAll(page) PROVE (ui \in Ui)'
  BY <1>14 DEF CloseAll, GestureInv, Ui, UiInv
<1>15. ASSUME NEW i \in Slots, Tick(i) PROVE (ui \in Ui)'
  BY <1>15 DEF Tick, GestureInv, Ui, HostCalls, UiInv
<1>16. ASSUME Restore PROVE (ui \in Ui)'
  BY <1>16, RestoreFacts
<1>17. ASSUME Rebuilt PROVE (ui \in Ui)'
  BY <1>17 DEF Rebuilt, GestureInv
<1>18. ASSUME MoveEpoch PROVE (ui \in Ui)'
  BY <1>18 DEF MoveEpoch, GestureInv
<1>19. ASSUME Closers PROVE (ui \in Ui)'
  BY <1>19, CloserStep
<1>20. QED
  BY <1>1, <1>2, <1>3, <1>4, <1>5, <1>6, <1>7, <1>8, <1>9, <1>10, <1>11, <1>12,
     <1>13, <1>14, <1>15, <1>16, <1>17, <1>18, <1>19
  DEF Next, Starts, Proceed, Ticks, EditKinds, Closers

\* Each kind of message goes through the calls that are its own.
LEMMA UiStep ==
  ASSUME GestureInv, Next
  PROVE  UiInv'
<1>1. ASSUME NEW i \in Slots, Press(i) PROVE UiInv'
  BY <1>1 DEF Press, Open, UiInv
<1>2. ASSUME NEW kind \in EditKinds, NEW n \in 1..2, Edits(kind, n)
      PROVE  UiInv'
  BY <1>2 DEF Edits, UiInv
<1>3. ASSUME NEW i \in Slots, NEW v \in Values, NEW begin \in BOOLEAN,
             NEW end \in BOOLEAN, Enter(i, v, begin, end)
      PROVE  UiInv'
  BY <1>3 DEF Enter, GestureInv, UiInv
<1>4. ASSUME Answer PROVE UiInv'
  BY <1>4, IdleFacts DEF Answer, UiInv
<1>5. ASSUME OpenForEdit PROVE UiInv'
  BY <1>5, OpenForEditFacts DEF UiInv
<1>6. ASSUME EnterReport PROVE UiInv'
  BY <1>6 DEF EnterReport, UiInv
<1>7. ASSUME NEW accepted \in BOOLEAN, BeginAnswered(accepted) PROVE UiInv'
  BY <1>7, BeginFacts, IdleFacts DEF UiInv
<1>8. ASSUME AnchorAnswered PROVE UiInv'
  BY <1>8, IdleFacts DEF AnchorAnswered, GestureInv, UiInv
<1>9. ASSUME SetValue PROVE UiInv'
  BY <1>9 DEF SetValue, Withholds, GestureInv, Ui, UiInv
<1>10. ASSUME Join PROVE UiInv'
  BY <1>10 DEF Join, GestureInv, UiInv
<1>11. ASSUME NEW accepted \in BOOLEAN, PerformAnswered(accepted) PROVE UiInv'
  BY <1>11 DEF PerformAnswered, GestureInv, UiInv
<1>12. ASSUME FlushAnswered PROVE UiInv'
  BY <1>12, IdleFacts DEF FlushAnswered, GestureInv, Ui, UiInv
<1>13. ASSUME NEW accepted \in BOOLEAN, EndAnswered(accepted) PROVE UiInv'
  BY <1>13, EndFacts, IdleFacts DEF UiInv
<1>14. ASSUME NEW page \in BOOLEAN, CloseAll(page) PROVE UiInv'
  BY <1>14 DEF CloseAll, UiInv
<1>15. ASSUME NEW i \in Slots, Tick(i) PROVE UiInv'
  BY <1>15 DEF Tick, UiInv
<1>16. ASSUME Restore PROVE UiInv'
  BY <1>16, RestoreFacts DEF GestureInv, UiInv
<1>17. ASSUME Rebuilt PROVE UiInv'
  BY <1>17 DEF Rebuilt, GestureInv, UiInv
<1>18. ASSUME MoveEpoch PROVE UiInv'
  BY <1>18 DEF MoveEpoch, GestureInv, UiInv
<1>19. ASSUME Closers PROVE UiInv'
  BY <1>19, CloserStep
<1>20. QED
  BY <1>1, <1>2, <1>3, <1>4, <1>5, <1>6, <1>7, <1>8, <1>9, <1>10, <1>11, <1>12,
     <1>13, <1>14, <1>15, <1>16, <1>17, <1>18, <1>19
  DEF Next, Starts, Proceed, Ticks, EditKinds, Closers

\* The host hears of a touch when the flag is raised, and of its end after what is held.
LEMMA TouchStep ==
  ASSUME GestureInv, Next
  PROVE  TouchInv'
<1>1. ASSUME NEW i \in Slots, Press(i) PROVE TouchInv'
  BY <1>1 DEF Press, Open, holdVars, GestureInv, Contents, TouchInv, Closing
<1>2. ASSUME NEW kind \in EditKinds, NEW n \in 1..2, Edits(kind, n)
      PROVE  TouchInv'
  BY <1>2 DEF Edits, holdVars, hostVars, GestureInv, TouchInv, Closing
<1>3. ASSUME NEW i \in Slots, NEW v \in Values, NEW begin \in BOOLEAN,
             NEW end \in BOOLEAN, Enter(i, v, begin, end)
      PROVE  TouchInv'
  BY <1>3 DEF Enter, holdVars, hostVars, GestureInv, TouchInv, Closing
<1>4. ASSUME Answer PROVE TouchInv'
  BY <1>4, IdleFacts DEF Answer, holdVars, hostVars, GestureInv, TouchInv, Closing
<1>5. ASSUME OpenForEdit PROVE TouchInv'
  BY <1>5, OpenForEditFacts DEF GestureInv, Contents, TouchInv, Closing
<1>6. ASSUME EnterReport PROVE TouchInv'
  BY <1>6 DEF EnterReport, holdVars, hostVars, GestureInv, TouchInv, Closing
<1>7. ASSUME NEW accepted \in BOOLEAN, BeginAnswered(accepted) PROVE TouchInv'
  BY <1>7, BeginFacts, IdleFacts DEF GestureInv, Contents, TouchInv, Closing
<1>8. ASSUME AnchorAnswered PROVE TouchInv'
  BY <1>8, IdleFacts
  DEF AnchorAnswered, holdVars, hostVars, GestureInv, TouchInv, Closing
<1>9. ASSUME SetValue PROVE TouchInv'
  BY <1>9
  DEF SetValue, Withholds, Unhold, GestureInv, Contents, Ui, TouchInv, Closing
<1>10. ASSUME Join PROVE TouchInv'
  BY <1>10 DEF Join, hostVars, GestureInv, TouchInv, Closing
<1>11. ASSUME NEW accepted \in BOOLEAN, PerformAnswered(accepted)
       PROVE  TouchInv'
  BY <1>11 DEF PerformAnswered, holdVars, hostVars, GestureInv, TouchInv, Closing
<1>12. ASSUME FlushAnswered PROVE TouchInv'
  BY <1>12, IdleFacts
  DEF FlushAnswered, holdVars, GestureInv, Contents, Ui, TouchInv, Closing
<1>13. ASSUME NEW accepted \in BOOLEAN, EndAnswered(accepted) PROVE TouchInv'
  BY <1>13, EndFacts, IdleFacts DEF GestureInv, TouchInv, Closing
<1>14. ASSUME NEW page \in BOOLEAN, CloseAll(page) PROVE TouchInv'
  BY <1>14 DEF CloseAll, holdVars, hostVars, GestureInv, TouchInv, Closing
<1>15. ASSUME NEW i \in Slots, Tick(i) PROVE TouchInv'
  BY <1>15 DEF Tick, Unhold, GestureInv, TouchInv, Closing
<1>16. ASSUME Restore PROVE TouchInv'
  BY <1>16, RestoreFacts DEF GestureInv, TouchInv, Closing, HostCalls
<1>17. ASSUME Rebuilt PROVE TouchInv'
  BY <1>17 DEF Rebuilt, holdVars, hostVars, GestureInv, TouchInv, Closing
<1>18. ASSUME MoveEpoch PROVE TouchInv'
  BY <1>18 DEF MoveEpoch, GestureInv, TouchInv, Closing
<1>19. ASSUME Closers PROVE TouchInv'
  BY <1>19, CloserStep
<1>20. QED
  BY <1>1, <1>2, <1>3, <1>4, <1>5, <1>6, <1>7, <1>8, <1>9, <1>10, <1>11, <1>12,
     <1>13, <1>14, <1>15, <1>16, <1>17, <1>18, <1>19
  DEF Next, Starts, Proceed, Ticks, EditKinds, Closers

\* What is on its way to the host is inside a touch, or crossed by a restore.
LEMMA InsideStep ==
  ASSUME GestureInv, Next
  PROVE  InsideInv'
<1>1. ASSUME NEW i \in Slots, Press(i) PROVE InsideInv'
  BY <1>1 DEF Press, Open, GestureInv, Contents, InsideInv
<1>2. ASSUME NEW kind \in EditKinds, NEW n \in 1..2, Edits(kind, n)
      PROVE  InsideInv'
  BY <1>2 DEF Edits, InsideInv
<1>3. ASSUME NEW i \in Slots, NEW v \in Values, NEW begin \in BOOLEAN,
             NEW end \in BOOLEAN, Enter(i, v, begin, end)
      PROVE  InsideInv'
  BY <1>3 DEF Enter, InsideInv
<1>4. ASSUME Answer PROVE InsideInv'
  BY <1>4, IdleFacts DEF Answer, InsideInv
<1>5. ASSUME OpenForEdit PROVE InsideInv'
  BY <1>5, OpenForEditFacts DEF GestureInv, Contents, InsideInv, EditKinds
<1>6. ASSUME EnterReport PROVE InsideInv'
  BY <1>6 DEF EnterReport, InsideInv
<1>7. ASSUME NEW accepted \in BOOLEAN, BeginAnswered(accepted) PROVE InsideInv'
  BY <1>7, BeginFacts, IdleFacts DEF GestureInv, InsideInv
<1>8. ASSUME AnchorAnswered PROVE InsideInv'
  BY <1>8, IdleFacts DEF AnchorAnswered, GestureInv, InsideInv
<1>9. ASSUME SetValue PROVE InsideInv'
  BY <1>9 DEF SetValue, Withholds, GestureInv, Ui, InsideInv
<1>10. ASSUME Join PROVE InsideInv'
  BY <1>10 DEF Join, InsideInv
<1>11. ASSUME NEW accepted \in BOOLEAN, PerformAnswered(accepted)
       PROVE  InsideInv'
  BY <1>11 DEF PerformAnswered, InsideInv
<1>12. ASSUME FlushAnswered PROVE InsideInv'
  BY <1>12, IdleFacts DEF FlushAnswered, GestureInv, Ui, InsideInv
<1>13. ASSUME NEW accepted \in BOOLEAN, EndAnswered(accepted) PROVE InsideInv'
  BY <1>13, EndFacts, IdleFacts DEF InsideInv
<1>14. ASSUME NEW page \in BOOLEAN, CloseAll(page) PROVE InsideInv'
  BY <1>14 DEF CloseAll, InsideInv
<1>15. ASSUME NEW i \in Slots, Tick(i) PROVE InsideInv'
  BY <1>15 DEF Tick, GestureInv, TouchInv, InsideInv
<1>16. ASSUME Restore PROVE InsideInv'
  BY <1>16, RestoreFacts DEF InsideInv
<1>17. ASSUME Rebuilt PROVE InsideInv'
  BY <1>17 DEF Rebuilt, InsideInv
<1>18. ASSUME MoveEpoch PROVE InsideInv'
  BY <1>18 DEF MoveEpoch, GestureInv, InsideInv
<1>19. ASSUME Closers PROVE InsideInv'
  BY <1>19, CloserStep
<1>20. QED
  BY <1>1, <1>2, <1>3, <1>4, <1>5, <1>6, <1>7, <1>8, <1>9, <1>10, <1>11, <1>12,
     <1>13, <1>14, <1>15, <1>16, <1>17, <1>18, <1>19
  DEF Next, Starts, Proceed, Ticks, EditKinds, Closers

\* A value offered at the punch-in position is withheld until the epoch moves.
LEMMA PunchStep ==
  ASSUME GestureInv, Next
  PROVE  PunchInv'
<1>1. ASSUME NEW i \in Slots, Press(i) PROVE PunchInv'
  BY <1>1, IdleFacts
  DEF Press, Open, holdVars, GestureInv, Contents, PunchInv, Opening
<1>2. ASSUME NEW kind \in EditKinds, NEW n \in 1..2, Edits(kind, n)
      PROVE  PunchInv'
  BY <1>2 DEF Edits, holdVars, hostVars, GestureInv, PunchInv, Opening
<1>3. ASSUME NEW i \in Slots, NEW v \in Values, NEW begin \in BOOLEAN,
             NEW end \in BOOLEAN, Enter(i, v, begin, end)
      PROVE  PunchInv'
  BY <1>3 DEF Enter, holdVars, hostVars, GestureInv, PunchInv, Opening
<1>4. ASSUME Answer PROVE PunchInv'
  BY <1>4, IdleFacts DEF Answer, holdVars, hostVars, GestureInv, PunchInv, Opening
<1>5. ASSUME OpenForEdit PROVE PunchInv'
  BY <1>5, OpenForEditFacts DEF GestureInv, Contents, PunchInv, Opening, EditKinds
<1>6. ASSUME EnterReport PROVE PunchInv'
  BY <1>6 DEF EnterReport, holdVars, hostVars, GestureInv, PunchInv, Opening
<1>7. ASSUME NEW accepted \in BOOLEAN, BeginAnswered(accepted) PROVE PunchInv'
  BY <1>7, BeginFacts, IdleFacts DEF GestureInv, Contents, PunchInv, Opening
<1>8. ASSUME AnchorAnswered PROVE PunchInv'
  BY <1>8, IdleFacts
  DEF AnchorAnswered, holdVars, hostVars, GestureInv, PunchInv, Opening
<1>9. ASSUME SetValue PROVE PunchInv'
  BY <1>9
  DEF SetValue, Withholds, Unhold, GestureInv, Contents, Ui, PunchInv, Opening
<1>10. ASSUME Join PROVE PunchInv'
  BY <1>10 DEF Join, hostVars, GestureInv, Contents, PunchInv, Opening
<1>11. ASSUME NEW accepted \in BOOLEAN, PerformAnswered(accepted)
       PROVE  PunchInv'
  BY <1>11 DEF PerformAnswered, holdVars, hostVars, GestureInv, PunchInv, Opening
<1>12. ASSUME FlushAnswered PROVE PunchInv'
  BY <1>12, IdleFacts DEF FlushAnswered, holdVars, GestureInv, Ui, PunchInv, Opening
<1>13. ASSUME NEW accepted \in BOOLEAN, EndAnswered(accepted) PROVE PunchInv'
  BY <1>13, EndFacts, IdleFacts DEF GestureInv, PunchInv, Opening
<1>14. ASSUME NEW page \in BOOLEAN, CloseAll(page) PROVE PunchInv'
  BY <1>14 DEF CloseAll, holdVars, hostVars, GestureInv, PunchInv, Opening
<1>15. ASSUME NEW i \in Slots, Tick(i) PROVE PunchInv'
  BY <1>15 DEF Tick, Unhold, GestureInv, PunchInv, Opening
<1>16. ASSUME Restore PROVE PunchInv'
  BY <1>16, RestoreFacts DEF GestureInv, PunchInv
<1>17. ASSUME Rebuilt PROVE PunchInv'
  BY <1>17 DEF Rebuilt, holdVars, hostVars, GestureInv, PunchInv, Opening
<1>18. ASSUME MoveEpoch PROVE PunchInv'
  BY <1>18 DEF MoveEpoch, GestureInv, Ui, PunchInv
<1>19. ASSUME Closers PROVE PunchInv'
  BY <1>19, CloserStep
<1>20. QED
  BY <1>1, <1>2, <1>3, <1>4, <1>5, <1>6, <1>7, <1>8, <1>9, <1>10, <1>11, <1>12,
     <1>13, <1>14, <1>15, <1>16, <1>17, <1>18, <1>19
  DEF Next, Starts, Proceed, Ticks, EditKinds, Closers

\* A newer value supersedes the one that is held; a close and a tick tell it.
LEMMA HeldStep ==
  ASSUME GestureInv, Next
  PROVE  HeldInv'
<1>1. ASSUME NEW i \in Slots, Press(i) PROVE HeldInv'
  BY <1>1 DEF Press, Open, holdVars, GestureInv, HeldInv
<1>2. ASSUME NEW kind \in EditKinds, NEW n \in 1..2, Edits(kind, n)
      PROVE  HeldInv'
  BY <1>2 DEF Edits, holdVars, hostVars, GestureInv, HeldInv
<1>3. ASSUME NEW i \in Slots, NEW v \in Values, NEW begin \in BOOLEAN,
             NEW end \in BOOLEAN, Enter(i, v, begin, end)
      PROVE  HeldInv'
  BY <1>3 DEF Enter, holdVars, hostVars, GestureInv, HeldInv
<1>4. ASSUME Answer PROVE HeldInv'
  BY <1>4, IdleFacts DEF Answer, holdVars, hostVars, GestureInv, HeldInv
<1>5. ASSUME OpenForEdit PROVE HeldInv'
  BY <1>5, OpenForEditFacts DEF GestureInv, HeldInv
<1>6. ASSUME EnterReport PROVE HeldInv'
  BY <1>6 DEF EnterReport, holdVars, hostVars, GestureInv, HeldInv
<1>7. ASSUME NEW accepted \in BOOLEAN, BeginAnswered(accepted) PROVE HeldInv'
  BY <1>7, BeginFacts, IdleFacts DEF GestureInv, Contents, HeldInv, TouchInv
<1>8. ASSUME AnchorAnswered PROVE HeldInv'
  BY <1>8, IdleFacts DEF AnchorAnswered, holdVars, hostVars, GestureInv, HeldInv
<1>9. ASSUME SetValue PROVE HeldInv'
  BY <1>9
  DEF SetValue, Withholds, Unhold, GestureInv, Contents, Ui, TouchInv, HeldInv
<1>10. ASSUME Join PROVE HeldInv'
  BY <1>10 DEF Join, hostVars, GestureInv, Contents, HeldInv
<1>11. ASSUME NEW accepted \in BOOLEAN, PerformAnswered(accepted)
       PROVE  HeldInv'
  BY <1>11 DEF PerformAnswered, holdVars, hostVars, GestureInv, HeldInv
<1>12. ASSUME FlushAnswered PROVE HeldInv'
  BY <1>12, IdleFacts DEF FlushAnswered, holdVars, GestureInv, Ui, HeldInv
<1>13. ASSUME NEW accepted \in BOOLEAN, EndAnswered(accepted) PROVE HeldInv'
  BY <1>13, EndFacts, IdleFacts DEF GestureInv, HeldInv
<1>14. ASSUME NEW page \in BOOLEAN, CloseAll(page) PROVE HeldInv'
  BY <1>14 DEF CloseAll, holdVars, hostVars, GestureInv, HeldInv
<1>15. ASSUME NEW i \in Slots, Tick(i) PROVE HeldInv'
  BY <1>15 DEF Tick, Unhold, GestureInv, Contents, HeldInv
<1>16. ASSUME Restore PROVE HeldInv'
  BY <1>16, RestoreFacts DEF GestureInv, HeldInv, HostCalls
<1>17. ASSUME Rebuilt PROVE HeldInv'
  BY <1>17 DEF Rebuilt, holdVars, hostVars, GestureInv, HeldInv
<1>18. ASSUME MoveEpoch PROVE HeldInv'
  BY <1>18 DEF MoveEpoch, GestureInv, HeldInv
<1>19. ASSUME Closers PROVE HeldInv'
  BY <1>19, CloserStep
<1>20. QED
  BY <1>1, <1>2, <1>3, <1>4, <1>5, <1>6, <1>7, <1>8, <1>9, <1>10, <1>11, <1>12,
     <1>13, <1>14, <1>15, <1>16, <1>17, <1>18, <1>19
  DEF Next, Starts, Proceed, Ticks, EditKinds, Closers

\* Only an edit under way parts the Parameter from the registry.
LEMMA DisplayStep ==
  ASSUME GestureInv, Next
  PROVE  DisplayInv'
<1>1. ASSUME NEW i \in Slots, Press(i) PROVE DisplayInv'
  BY <1>1 DEF Press, Open, valueVars, GestureInv, DisplayInv, Unsettled
<1>2. ASSUME NEW kind \in EditKinds, NEW n \in 1..2, Edits(kind, n)
      PROVE  DisplayInv'
  BY <1>2 DEF Edits, valueVars, GestureInv, DisplayInv, Unsettled
<1>3. ASSUME NEW i \in Slots, NEW v \in Values, NEW begin \in BOOLEAN,
             NEW end \in BOOLEAN, Enter(i, v, begin, end)
      PROVE  DisplayInv'
  BY <1>3 DEF Enter, valueVars, GestureInv, DisplayInv, Unsettled
<1>4. ASSUME Answer PROVE DisplayInv'
  BY <1>4 DEF Answer, valueVars, GestureInv, DisplayInv, Unsettled
<1>5. ASSUME OpenForEdit PROVE DisplayInv'
  BY <1>5, OpenForEditFacts DEF GestureInv, DisplayInv, Unsettled
<1>6. ASSUME EnterReport PROVE DisplayInv'
  BY <1>6 DEF EnterReport, valueVars, GestureInv, DisplayInv, Unsettled
<1>7. ASSUME NEW accepted \in BOOLEAN, BeginAnswered(accepted)
      PROVE  DisplayInv'
  BY <1>7, BeginFacts DEF GestureInv, DisplayInv, Unsettled
<1>8. ASSUME AnchorAnswered PROVE DisplayInv'
  BY <1>8 DEF AnchorAnswered, valueVars, GestureInv, DisplayInv, Unsettled
<1>9. ASSUME SetValue PROVE DisplayInv'
  BY <1>9 DEF SetValue, Withholds, GestureInv, Ui, UiInv, DisplayInv, Unsettled
<1>10. ASSUME Join PROVE DisplayInv'
  BY <1>10 DEF Join, valueVars, GestureInv, DisplayInv, Unsettled
<1>11. ASSUME NEW accepted \in BOOLEAN, PerformAnswered(accepted)
       PROVE  DisplayInv'
  BY <1>11 DEF PerformAnswered, valueVars, GestureInv, DisplayInv, Unsettled
<1>12. ASSUME FlushAnswered PROVE DisplayInv'
  BY <1>12
  DEF FlushAnswered, valueVars, GestureInv, Ui, DisplayInv, Unsettled, EditKinds
<1>13. ASSUME NEW accepted \in BOOLEAN, EndAnswered(accepted) PROVE DisplayInv'
  BY <1>13, EndFacts DEF GestureInv, DisplayInv, Unsettled, EditKinds
<1>14. ASSUME NEW page \in BOOLEAN, CloseAll(page) PROVE DisplayInv'
  BY <1>14 DEF CloseAll, valueVars, GestureInv, DisplayInv, Unsettled
<1>15. ASSUME NEW i \in Slots, Tick(i) PROVE DisplayInv'
  BY <1>15 DEF Tick, valueVars, GestureInv, DisplayInv, Unsettled
<1>16. ASSUME Restore PROVE DisplayInv'
  BY <1>16, RestoreFacts DEF GestureInv, DisplayInv, Unsettled
<1>17. ASSUME Rebuilt PROVE DisplayInv'
  BY <1>17 DEF Rebuilt, valueVars, GestureInv, DisplayInv, Unsettled
<1>18. ASSUME MoveEpoch PROVE DisplayInv'
  BY <1>18 DEF MoveEpoch, valueVars, GestureInv, DisplayInv, Unsettled
<1>19. ASSUME Closers PROVE DisplayInv'
  BY <1>19, CloserStep
<1>20. QED
  BY <1>1, <1>2, <1>3, <1>4, <1>5, <1>6, <1>7, <1>8, <1>9, <1>10, <1>11, <1>12,
     <1>13, <1>14, <1>15, <1>16, <1>17, <1>18, <1>19
  DEF Next, Starts, Proceed, Ticks, EditKinds, Closers

\* What Unhold() takes off the count is the hold it drops.
LEMMA UnholdCounts ==
  ASSUME Contents, CountInv, NEW i \in Slots, Unhold(i)
  PROVE  CountInv'
<1>1. IsFiniteSet(HoldSlots) /\ HoldSlots \subseteq Slots
  BY HostGestureAssumption, FS_Subset DEF HoldSlots
<1>2. hold' = [hold EXCEPT ![i] = FALSE]
  BY DEF Unhold
<1>3. HoldSlots' = HoldSlots \ {i}
  BY <1>2 DEF Contents, HoldSlots
<1>4. Cardinality(HoldSlots \ {i})
        = IF i \in HoldSlots THEN Cardinality(HoldSlots) - 1 ELSE Cardinality(HoldSlots)
  BY <1>1, FS_RemoveElement
<1>5. i \in HoldSlots <=> hold[i]
  BY DEF HoldSlots
<1>6. QED BY <1>3, <1>4, <1>5 DEF Unhold, CountInv

\* The count the tick looks at first is that of the holds, after every step.
LEMMA CountStep ==
  ASSUME GestureInv, Next
  PROVE  CountInv'
<1>1. Contents /\ CountInv /\ ui.slot \in Slots
  BY DEF GestureInv, Ui
<1>2. ASSUME NEW i \in Slots, Unhold(i) PROVE CountInv'
  BY <1>1, <1>2, UnholdCounts
<1>3. ASSUME UNCHANGED <<hold, holdCount>> PROVE CountInv'
  BY <1>1, <1>3 DEF CountInv, HoldSlots
<1>4. ASSUME NEW i \in Slots, NEW then, Close(i, then) PROVE CountInv'
  BY <1>2, <1>4 DEF Close
<1>5. CASE Join
  <2>1. IsFiniteSet(HoldSlots)
    BY HostGestureAssumption, FS_Subset DEF HoldSlots
  <2>2. hold' = [hold EXCEPT ![ui.slot] = TRUE]
    BY <1>5 DEF Join
  <2>3. HoldSlots' = HoldSlots \cup {ui.slot}
    BY <1>1, <2>2 DEF Contents, HoldSlots
  <2>4. Cardinality(HoldSlots \cup {ui.slot})
          = IF ui.slot \in HoldSlots THEN Cardinality(HoldSlots)
                                     ELSE Cardinality(HoldSlots) + 1
    BY <2>1, FS_AddElement
  <2>5. ui.slot \in HoldSlots <=> hold[ui.slot]
    BY <1>1 DEF HoldSlots
  <2>6. holdCount' = IF hold[ui.slot] THEN holdCount ELSE holdCount + 1
    BY <1>5 DEF Join
  <2>7. QED BY <1>1, <2>3, <2>4, <2>5, <2>6 DEF CountInv
<1>6. CASE Restore
  <2>1. HoldSlots' = {} /\ {i \in Slots : hold[i] /\ open[i]} = HoldSlots
    BY <1>6, RestoreFacts DEF GestureInv, TouchInv, HoldSlots
  <2>2. Cardinality(HoldSlots) \in Nat
    BY HostGestureAssumption, FS_Subset, FS_CardinalityType DEF HoldSlots
  <2>3. holdCount' = holdCount - Cardinality({i \in Slots : hold[i] /\ open[i]})
    BY <1>6 DEF Restore, RestoreAt
  <2>4. QED BY <1>1, <2>1, <2>2, <2>3, FS_EmptySet DEF CountInv
<1>7. CASE SetValue
  BY <1>1, <1>2, <1>3, <1>7 DEF SetValue
<1>8. CASE Closers
  BY <1>1, <1>3, <1>4, <1>8 DEF Closers, Finish, Release, CloseNext, Settle
<1>9. CASE Ticks
  BY <1>2, <1>9 DEF Ticks, Tick
<1>10. CASE Starts
  BY <1>3, <1>8, <1>10 DEF Starts, Press, Edits, CloseAll, Rebuilt, holdVars, Closers
<1>11. CASE MoveEpoch
  BY <1>3, <1>11 DEF MoveEpoch
<1>12. CASE Proceed
  <2>1. ASSUME NEW i \in Slots, NEW v \in Values, NEW begin \in BOOLEAN,
               NEW end \in BOOLEAN, Enter(i, v, begin, end)
        PROVE  CountInv'
    BY <1>3, <2>1 DEF Enter, holdVars
  <2>2. ASSUME Answer \/ OpenForEdit \/ EnterReport \/ AnchorAnswered \/ FlushAnswered
        PROVE  CountInv'
    BY <1>3, <2>2
    DEF Answer, OpenForEdit, EnterReport, AnchorAnswered, FlushAnswered, holdVars
  <2>3. ASSUME NEW accepted \in BOOLEAN,
               BeginAnswered(accepted) \/ PerformAnswered(accepted) \/ EndAnswered(accepted)
        PROVE  CountInv'
    BY <1>3, <2>3 DEF BeginAnswered, PerformAnswered, EndAnswered, holdVars
  <2>4. QED BY <1>5, <1>7, <1>8, <1>12, <2>1, <2>2, <2>3 DEF Proceed, Closers
<1>13. QED BY <1>6, <1>9, <1>10, <1>11, <1>12 DEF Next

\* Before the first edit nothing is open, held or awaited.
LEMMA InitGesture == Init => GestureInv
<1> SUFFICES ASSUME Init PROVE GestureInv
  OBVIOUS
<1>1. ui = Idle /\ ui \in Ui /\ ui.pc = "idle" /\ Start \in Values
  BY IdleFacts DEF Init
<1>2. Contents
  BY <1>1 DEF Init, Contents
<1>3. UiInv /\ TouchInv /\ InsideInv
  BY <1>1 DEF Init, UiInv, TouchInv, Closing, InsideInv
<1>4. PunchInv /\ HeldInv /\ DisplayInv
  BY <1>1 DEF Init, PunchInv, HeldInv, DisplayInv
<1>5. CountInv
  <2>1. HoldSlots = {}
    BY DEF Init, HoldSlots
  <2>2. QED BY <2>1, FS_EmptySet DEF Init, CountInv
<1>6. QED BY <1>1, <1>2, <1>3, <1>4, <1>5 DEF GestureInv

\* The invariant is inductive.
LEMMA GestureStep == GestureInv /\ [Next]_vars => GestureInv'
<1> SUFFICES ASSUME GestureInv, [Next]_vars PROVE GestureInv'
  OBVIOUS
<1>1. CASE Next
  <2>1. Contents' /\ (ui \in Ui)' /\ UiInv' /\ TouchInv'
    BY <1>1, ContentsStep, UiTypeStep, UiStep, TouchStep
  <2>2. InsideInv' /\ PunchInv' /\ HeldInv' /\ DisplayInv' /\ CountInv'
    BY <1>1, InsideStep, PunchStep, HeldStep, DisplayStep, CountStep
  <2>3. QED BY <2>1, <2>2 DEF GestureInv
<1>2. CASE UNCHANGED vars
  <2>1. Contents' /\ (ui \in Ui)'
    BY <1>2 DEF GestureInv, vars, Contents
  <2>2. UiInv' /\ TouchInv' /\ InsideInv'
    BY <1>2 DEF GestureInv, vars, UiInv, TouchInv, Closing, InsideInv
  <2>3. PunchInv' /\ HeldInv'
    BY <1>2 DEF GestureInv, vars, PunchInv, Opening, HeldInv
  <2>4. DisplayInv' /\ CountInv'
    BY <1>2 DEF GestureInv, vars, DisplayInv, Unsettled, CountInv, HoldSlots
  <2>5. QED BY <2>1, <2>2, <2>3, <2>4 DEF GestureInv
<1>3. QED BY <1>1, <1>2

\* The touch, the hold, the display and the count of holds stay in step, whatever
\* the host answers and wherever it restores.
THEOREM GestureInvariance == Spec => []GestureInv
<1>1. Init => GestureInv
  BY InitGesture
<1>2. GestureInv /\ [Next]_vars => GestureInv'
  BY GestureStep
<1>3. QED BY <1>1, <1>2, PTL DEF Spec

\* The gesture state has its types; the count of holds never goes below zero,
\* though a restore subtracts many at once.
THEOREM GestureTypes == Spec => []TypeOK
<1>1. GestureInv => TypeOK
  <2> SUFFICES ASSUME GestureInv PROVE TypeOK
    OBVIOUS
  <2>1. holdCount \in Nat
    BY HostGestureAssumption, FS_Subset, FS_CardinalityType
    DEF GestureInv, CountInv, HoldSlots
  <2>2. QED BY <2>1 DEF GestureInv, Contents, TypeOK
<1>2. QED BY <1>1, GestureInvariance, PTL

\* EditsInsideTouch: performEdit, and the value that anchors or ends a touch, reach
\* the host between its beginEdit and its endEdit, even if the host restores from
\* inside one of them.
THEOREM EditsStayInside == Spec => []EditsInsideTouch
<1>1. GestureInv => EditsInsideTouch
  <2> SUFFICES ASSUME GestureInv PROVE EditsInsideTouch
    OBVIOUS
  <2>1. ui.slot \in Slots
    BY DEF GestureInv, Ui
  <2>2. ui.pc \in {"anchor", "performEdit", "flush"}
          => touch[ui.slot] \/ ui.crossed \/ Untouched
    BY <2>1 DEF GestureInv, TouchInv, InsideInv, Closing, Untouched
  <2>3. ASSUME ui.pc = "idle" PROVE touch = open
    <3>1. \A i \in Slots : touch[i] = open[i]
      BY <2>3 DEF GestureInv, Contents, TouchInv, Closing
    <3>2. QED BY <3>1 DEF GestureInv, Contents
  <2>4. \A i \in Slots : hold[i] => open[i]
    BY DEF GestureInv, TouchInv
  <2>5. QED BY <2>2, <2>3, <2>4 DEF EditsInsideTouch
<1>2. QED BY <1>1, GestureInvariance, PTL

\* NothingAtPunchIn: the value that opens a touch, and those that join it, wait for
\* the epoch to move; so no performEdit but that of the release shares the position
\* of the beginEdit.
THEOREM PunchInIsClean == Spec => []NothingAtPunchIn
<1>1. GestureInv => NothingAtPunchIn
  <2> SUFFICES ASSUME GestureInv PROVE NothingAtPunchIn
    OBVIOUS
  <2>1. ui.slot \in Slots
    BY DEF GestureInv, Ui
  <2>2. QED BY <2>1 DEF GestureInv, TouchInv, PunchInv, Closing, NothingAtPunchIn
<1>2. QED BY <1>1, GestureInvariance, PTL

\* ReportedAtRelease: a touch that has ended took what was held with it; the host
\* was last told what the hand last gave.
THEOREM ReleasesAreReported == Spec => []ReportedAtRelease
<1>1. GestureInv => ReportedAtRelease
  BY DEF GestureInv, TouchInv, HeldInv, ReportedAtRelease
<1>2. QED BY <1>1, GestureInvariance, PTL

\* DisplayIsAdopted: when the message is served, the Parameter and the registry show
\* the same value, whatever the host refused or restored meanwhile.
THEOREM DisplayFollowsRegistry == Spec => []DisplayIsAdopted
<1>1. GestureInv => DisplayIsAdopted
  <2> SUFFICES ASSUME GestureInv, ui.pc = "idle" PROVE shown = adopted
    BY DEF DisplayIsAdopted
  <2>1. \A i \in Slots : shown[i] = adopted[i]
    BY DEF GestureInv, DisplayInv, Unsettled
  <2>2. QED BY <2>1 DEF GestureInv, Contents
<1>2. QED BY <1>1, GestureInvariance, PTL
================================================================================
