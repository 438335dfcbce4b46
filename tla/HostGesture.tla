----------------------------- MODULE HostGesture -----------------------------
(***************************************************************************)
(* How an edit of the page is told to the host: beginEdit, performEdit and *)
(* endEdit of one parameter, with the value that opens a touch withheld    *)
(* until a process() boundary separates it from the punch-in position      *)
(* (plugin_processor.cpp:2263-2635), and the plug-in image that carries    *)
(* edits across a state restore (5800-5946).  All of it runs on the        *)
(* message thread; the callback only moves the block epoch.  A host may    *)
(* call setState() from inside beginEdit, performEdit or endEdit, as the   *)
(* comment at plugin_processor.h:676 expects.  What a host does that calls *)
(* it on a thread of its own is SpecOtherThread: no property is claimed of *)
(* it.                                                                     *)
(*                                                                         *)
(* The epoch is only compared with the one a hold recorded, so a Boolean   *)
(* per slot (`fresh`) stands for both.  Group edits and the trace are left *)
(* out; every slot is bound and keeps its target.                          *)
(***************************************************************************)
EXTENDS Naturals, FiniteSets

CONSTANTS Slots,        \* host parameters that can be held open
          Values,       \* normalized values
          MaxEdits,     \* bound: edits and presses ever made
          MaxRestores   \* bound: setState() calls ever made

ASSUME HostGestureAssumption ==
    /\ Slots # {} /\ Values # {} /\ IsFiniteSet(Slots)
    /\ MaxEdits \in Nat /\ MaxRestores \in Nat

VARIABLES open,       \* hostGestureOpen_
          hold,       \* hostGestureHoldPending_
          held,       \* hostGestureHeldValue_
          fresh,      \* hostGestureHoldEpoch_ equals processBlockEpoch_
          holdCount,  \* hostGestureHoldCount_
          shown,      \* normalized value of the host-facing Parameter
          adopted,    \* value of the slot in the binding registry
          restoring,  \* where a state restore stands, as the page knows it
          inBlock,    \* the callback is in process()
          edits,      \* edits and presses made
          restores,   \* restores made
          ui,         \* what the message thread is doing
          touch,      \* what the host was told: a touch is open
          reported,   \* the last value it was told
          given,      \* the last value the hand gave, for the host to be told
          punch       \* what separates now from the last beginEdit

vars == <<open, hold, held, fresh, holdCount, shown, adopted, restoring, inBlock,
          edits, restores, ui, touch, reported, given, punch>>

HostCalls == {"beginEdit", "anchor", "performEdit", "flush", "endEdit"}

\* kind: what the thread serves.  crossed: the host restored from inside a call
\* of it.  more: edits of the image still to come.
Ui == [pc : HostCalls \cup {"idle", "next", "enter", "set", "join", "finish", "settle", "closeAll"},
       kind : {"none", "press", "edit", "image", "report", "retire", "tick", "closeAll"},
       slot : Slots, value : Values, previous : Values,
       begin : BOOLEAN, end : BOOLEAN, opened : BOOLEAN, ok : BOOLEAN,
       stale : BOOLEAN, crossed : BOOLEAN, more : 0..2]

TypeOK ==
    /\ open \in [Slots -> BOOLEAN] /\ hold \in [Slots -> BOOLEAN]
    /\ held \in [Slots -> Values] /\ fresh \in [Slots -> BOOLEAN]
    /\ holdCount \in Nat
    /\ shown \in [Slots -> Values] /\ adopted \in [Slots -> Values]
    /\ restoring \in {"no", "asked", "page"} /\ inBlock \in BOOLEAN
    /\ edits \in Nat /\ restores \in Nat
    /\ ui \in Ui
    /\ touch \in [Slots -> BOOLEAN]
    /\ reported \in [Slots -> Values] /\ given \in [Slots -> Values]
    /\ punch \in [Slots -> {"free", "same", "boundary", "block"}]

Start == CHOOSE v \in Values : TRUE

Idle == [pc |-> "idle", kind |-> "none", slot |-> CHOOSE i \in Slots : TRUE,
         value |-> Start, previous |-> Start, begin |-> FALSE, end |-> FALSE,
         opened |-> FALSE, ok |-> TRUE, stale |-> FALSE, crossed |-> FALSE, more |-> 0]

Init ==
    /\ open = [i \in Slots |-> FALSE] /\ hold = [i \in Slots |-> FALSE]
    /\ held = [i \in Slots |-> Start] /\ fresh = [i \in Slots |-> FALSE]
    /\ holdCount = 0
    /\ shown = [i \in Slots |-> Start] /\ adopted = [i \in Slots |-> Start]
    /\ restoring = "no" /\ inBlock = FALSE /\ edits = 0 /\ restores = 0
    /\ ui = Idle
    /\ touch = [i \in Slots |-> FALSE]
    /\ reported = [i \in Slots |-> Start] /\ given = [i \in Slots |-> Start]
    /\ punch = [i \in Slots |-> "block"]

hostVars  == <<touch, reported, given, punch>>
holdVars  == <<hold, held, fresh, holdCount>>
valueVars == <<shown, adopted>>
outside   == <<inBlock, edits, restores, restoring>>

------------------------------------------------------------------------------
(* Opening a touch and offering a value *)

\* The flag is published before the host is told.
Open(i, by) ==
    /\ open' = [open EXCEPT ![i] = TRUE]
    /\ touch' = [touch EXCEPT ![i] = TRUE]
    /\ punch' = [punch EXCEPT ![i] = IF by = "press" THEN "free" ELSE "same"]

\* Drops the hold of slot i, if it has one.
Unhold(i) ==
    /\ hold' = [hold EXCEPT ![i] = FALSE]
    /\ holdCount' = IF hold[i] THEN holdCount - 1 ELSE holdCount

\* "automation/beginGesture": the pointer is down on a control that will only
\* report a value later.
Press(i) ==
    /\ ui.pc = "idle" /\ edits < MaxEdits /\ ~open[i]
    /\ Open(i, "press")
    /\ ui' = [Idle EXCEPT !.pc = "beginEdit", !.kind = "press", !.slot = i, !.previous = shown[i]]
    /\ edits' = edits + 1
    /\ UNCHANGED <<holdVars, valueVars, restoring, inBlock, restores, reported, given>>

\* An edit that arrives alone, or an image with one or two.  An image of a page
\* that a restore has condemned may only finish a touch it finds open.
Edits(kind, n) ==
    /\ ui.pc = "idle" /\ edits < MaxEdits
    /\ ui' = [Idle EXCEPT !.pc = "next", !.kind = kind, !.more = n,
                          !.stale = kind = "image" /\ restoring # "no"]
    /\ UNCHANGED <<open, holdVars, valueVars, outside, hostVars>>

Enter(i, v, begin, end) ==
    /\ ui.pc = "next" /\ ui.more > 0 /\ edits < MaxEdits /\ edits' = edits + 1
    /\ ui' = [ui EXCEPT !.pc = "enter", !.slot = i, !.value = v, !.begin = begin, !.end = end,
                        !.more = ui.more - 1, !.opened = FALSE, !.ok = TRUE,
                        !.kind = IF ui.stale THEN "report" ELSE ui.kind]
    /\ UNCHANGED <<open, holdVars, valueVars, restoring, inBlock, restores, hostVars>>

Answer ==
    /\ ui.pc = "next" /\ (ui.more = 0 \/ edits = MaxEdits)
    /\ ui' = Idle
    /\ UNCHANGED <<open, holdVars, valueVars, outside, hostVars>>

\* performHostEditTransaction() up to the value, or reportHostEditToOpenGesture()
\* finding no touch to report to.
OpenForEdit ==
    LET i == ui.slot IN
    /\ ui.pc = "enter" /\ ui.kind # "report"
    /\ IF ui.begin /\ ~open[i]
         THEN /\ Open(i, "edit")
              /\ ui' = [ui EXCEPT !.pc = "beginEdit", !.opened = TRUE, !.previous = shown[i]]
         ELSE /\ ui' = [ui EXCEPT !.pc = "set", !.previous = shown[i]]
              /\ UNCHANGED <<open, touch, punch>>
    /\ UNCHANGED <<holdVars, valueVars, outside, reported, given>>

EnterReport ==
    /\ ui.pc = "enter" /\ ui.kind = "report"
    /\ ui' = [ui EXCEPT !.pc = IF open[ui.slot] THEN "set" ELSE "next"]
    /\ UNCHANGED <<open, holdVars, valueVars, outside, hostVars>>

\* A touch begins by stating the value the parameter held when the hand came.
\* A host that refuses leaves no touch; an edit is adopted all the same.
BeginAnswered(accepted) ==
    LET i == ui.slot IN
    /\ ui.pc = "beginEdit"
    /\ IF accepted
         THEN /\ ui' = [ui EXCEPT !.pc = "anchor"]
              /\ reported' = [reported EXCEPT ![i] = ui.previous]
              /\ given' = [given EXCEPT ![i] = ui.previous]
              /\ UNCHANGED <<open, touch>>
         ELSE /\ ui' = IF ui.kind = "press" THEN Idle
                                            ELSE [ui EXCEPT !.pc = "settle", !.ok = TRUE]
              /\ open' = [open EXCEPT ![i] = FALSE]
              /\ touch' = [touch EXCEPT ![i] = FALSE]
              /\ UNCHANGED <<reported, given>>
    /\ UNCHANGED <<holdVars, valueVars, outside, punch>>

AnchorAnswered ==
    /\ ui.pc = "anchor"
    /\ ui' = IF ui.kind = "press" THEN Idle ELSE [ui EXCEPT !.pc = "set"]
    /\ UNCHANGED <<open, holdVars, valueVars, outside, hostVars>>

\* Mutant: a touch somebody closed meanwhile still takes a hold.
WithholdsUnasked(i) == ui.opened \/ (hold[i] /\ fresh[i])

\* holdHostEditValue(): only the call that opens a touch starts a hold, and a
\* later value joins one whose boundary has not passed.
Withholds(i) == open[i] /\ (ui.opened \/ (hold[i] /\ fresh[i]))

\* The value goes to the Parameter (a stale report leaves that alone) and is
\* withheld or told to the host.  It supersedes one that is held.
SetValue ==
    LET i == ui.slot IN
    /\ ui.pc = "set"
    /\ shown' = IF ui.kind = "report" THEN shown ELSE [shown EXCEPT ![i] = ui.value]
    /\ given' = [given EXCEPT ![i] = ui.value]
    /\ IF Withholds(i)
         THEN /\ ui' = [ui EXCEPT !.pc = "join"]
              /\ UNCHANGED <<hold, holdCount, reported>>
         ELSE /\ ui' = [ui EXCEPT !.pc = "performEdit"]
              /\ reported' = [reported EXCEPT ![i] = ui.value]
              /\ IF open[i] THEN Unhold(i) ELSE UNCHANGED <<hold, holdCount>>
    /\ UNCHANGED <<open, held, fresh, adopted, outside, touch, punch>>

\* The epoch is recorded after the value and may have moved since it was compared.
Join ==
    LET i == ui.slot IN
    /\ ui.pc = "join"
    /\ held' = [held EXCEPT ![i] = ui.value]
    /\ fresh' = [fresh EXCEPT ![i] = TRUE]
    /\ hold' = [hold EXCEPT ![i] = TRUE]
    /\ holdCount' = IF hold[i] THEN holdCount ELSE holdCount + 1
    /\ ui' = [ui EXCEPT !.pc = "finish"]
    /\ UNCHANGED <<open, valueVars, outside, hostVars>>

PerformAnswered(accepted) ==
    /\ ui.pc = "performEdit"
    /\ ui' = [ui EXCEPT !.pc = "finish", !.ok = accepted]
    /\ UNCHANGED <<open, holdVars, valueVars, outside, hostVars>>

------------------------------------------------------------------------------
(* Closing a touch *)

\* Mutant: the value still held is dropped with the touch.
CloseDropping(i, then) ==
    /\ open' = [open EXCEPT ![i] = FALSE]
    /\ Unhold(i)
    /\ ui' = [then EXCEPT !.slot = i, !.pc = "endEdit"]
    /\ touch' = [touch EXCEPT ![i] = FALSE]
    /\ UNCHANGED reported

\* closeHostGesture(i): the flag drops first, then whatever is held is released
\* inside the touch, whether or not a boundary has passed.
Close(i, then) ==
    /\ open' = [open EXCEPT ![i] = FALSE]
    /\ Unhold(i)
    /\ IF hold[i]
         THEN /\ ui' = [then EXCEPT !.slot = i, !.pc = "flush"]
              /\ reported' = [reported EXCEPT ![i] = held[i]]
              /\ UNCHANGED touch
         ELSE /\ ui' = [then EXCEPT !.slot = i, !.pc = "endEdit"]
              /\ touch' = [touch EXCEPT ![i] = FALSE]
              /\ UNCHANGED reported

\* What follows the end of a transaction or of a close.
After(record) ==
    CASE record.kind \in {"edit", "image"} -> [record EXCEPT !.pc = "settle"]
      [] record.kind = "report"            -> [record EXCEPT !.pc = "next"]
      [] record.kind = "closeAll"          -> [record EXCEPT !.pc = "closeAll"]
      [] OTHER                             -> Idle

Finish ==
    /\ ui.pc = "finish"
    /\ IF ui.end /\ open[ui.slot]
         THEN Close(ui.slot, ui)
         ELSE ui' = After(ui) /\ UNCHANGED <<open, hold, holdCount, touch, reported>>
    /\ UNCHANGED <<held, fresh, valueVars, outside, given, punch>>

FlushAnswered ==
    /\ ui.pc = "flush"
    /\ IF ui.kind = "tick"
         THEN ui' = Idle /\ UNCHANGED touch
         ELSE /\ ui' = [ui EXCEPT !.pc = "endEdit"]
              /\ touch' = [touch EXCEPT ![ui.slot] = FALSE]
    /\ UNCHANGED <<open, holdVars, valueVars, outside, reported, given, punch>>

EndAnswered(accepted) ==
    /\ ui.pc = "endEdit"
    /\ ui' = After([ui EXCEPT !.ok = ui.ok /\ accepted])
    /\ UNCHANGED <<open, holdVars, valueVars, outside, hostVars>>

\* The release of the pointer, or a slot whose target went away.
Release(i) ==
    /\ ui.pc = "idle" /\ open[i]
    /\ Close(i, [Idle EXCEPT !.kind = "retire"])
    /\ UNCHANGED <<held, fresh, valueVars, outside, given, punch>>

\* closeOpenHostGestures(): the editor is detached, the component deactivated,
\* or a page announces itself, which then stands for the restored document.
CloseAll(page) ==
    /\ ui.pc = "idle"
    /\ \E i \in Slots : open[i] \/ (page /\ restoring = "asked")
    /\ ui' = [Idle EXCEPT !.pc = "closeAll", !.kind = "closeAll"]
    /\ restoring' = IF page /\ restoring = "asked" THEN "page" ELSE restoring
    /\ UNCHANGED <<open, holdVars, valueVars, inBlock, edits, restores, hostVars>>

CloseNext ==
    /\ ui.pc = "closeAll"
    /\ IF \E i \in Slots : open[i]
         THEN \E i \in Slots : open[i] /\ Close(i, ui)
         ELSE ui' = Idle /\ UNCHANGED <<open, hold, holdCount, touch, reported>>
    /\ UNCHANGED <<held, fresh, valueVars, outside, given, punch>>

\* Mutant: the tick looks at a hold only when it has none.
TickIdle(i) ==
    /\ ui.pc = "idle" /\ holdCount = 0 /\ hold[i] /\ ~fresh[i]
    /\ UNCHANGED vars

\* Mutant: the tick releases on elapsed time.
TickImpatient(i) ==
    /\ ui.pc = "idle" /\ holdCount > 0 /\ hold[i]
    /\ Unhold(i)
    /\ reported' = [reported EXCEPT ![i] = held[i]]
    /\ ui' = [Idle EXCEPT !.pc = "flush", !.kind = "tick", !.slot = i]
    /\ UNCHANGED <<open, held, fresh, valueVars, outside, touch, given, punch>>

\* serviceHeldHostEdits(), for one slot whose boundary has passed.
Tick(i) ==
    /\ ui.pc = "idle" /\ holdCount > 0 /\ hold[i] /\ ~fresh[i]
    /\ Unhold(i)
    /\ reported' = [reported EXCEPT ![i] = held[i]]
    /\ ui' = [Idle EXCEPT !.pc = "flush", !.kind = "tick", !.slot = i]
    /\ UNCHANGED <<open, held, fresh, valueVars, outside, touch, given, punch>>

------------------------------------------------------------------------------
(* Adoption, restores and the callback *)

\* Mutant: a restore that crossed the host call leaves the stale value on display.
SettleStanding ==
    LET i == ui.slot IN
    /\ ui.pc = "settle"
    /\ IF ui.stale
         THEN IF open[i]
                THEN /\ Close(i, [ui EXCEPT !.kind = "report"])
                     /\ UNCHANGED valueVars
                ELSE /\ ui' = [ui EXCEPT !.pc = "next"]
                     /\ UNCHANGED <<open, hold, holdCount, touch, reported, valueVars>>
         ELSE /\ adopted' = [adopted EXCEPT ![i] = ui.value]
              /\ shown' = [shown EXCEPT ![i] = ui.value]
              /\ ui' = [ui EXCEPT !.pc = "next"]
              /\ UNCHANGED <<open, hold, holdCount, touch, reported>>
    /\ UNCHANGED <<held, fresh, outside, given, punch>>

\* A transaction that failed puts the Parameter back; the edit is adopted either
\* way, unless a restore crossed it, which closes what the edit left open.
Settle ==
    LET i == ui.slot
        rolledBack == IF ui.ok THEN shown ELSE [shown EXCEPT ![i] = ui.previous] IN
    /\ ui.pc = "settle"
    /\ IF ui.stale
         THEN /\ shown' = [rolledBack EXCEPT ![i] = adopted[i]]
              /\ UNCHANGED adopted
              /\ IF open[i]
                   THEN Close(i, [ui EXCEPT !.kind = "report"])
                   ELSE /\ ui' = [ui EXCEPT !.pc = "next"]
                        /\ UNCHANGED <<open, hold, holdCount, touch, reported>>
         ELSE /\ adopted' = [adopted EXCEPT ![i] = ui.value]
              /\ shown' = [rolledBack EXCEPT ![i] = ui.value]
              /\ ui' = [ui EXCEPT !.pc = "next"]
              /\ UNCHANGED <<open, hold, holdCount, touch, reported>>
    /\ UNCHANGED <<held, fresh, outside, given, punch>>

\* setState(): every touch is closed and the epoch moves on.
RestoreAt(points) ==
    /\ ui.pc \in points /\ restores < MaxRestores
    /\ restores' = restores + 1 /\ restoring' = "asked"
    /\ open' = [i \in Slots |-> FALSE]
    /\ hold' = [i \in Slots |-> hold[i] /\ ~open[i]]
    /\ holdCount' = holdCount - Cardinality({i \in Slots : hold[i] /\ open[i]})
    /\ reported' = [i \in Slots |-> IF hold[i] /\ open[i] THEN held[i] ELSE reported[i]]
    /\ touch' = [i \in Slots |-> touch[i] /\ ~open[i]]
    /\ ui' = IF ui.pc = "idle" THEN ui
                               ELSE [ui EXCEPT !.crossed = TRUE, !.stale = ui.kind = "image"]
    /\ UNCHANGED <<held, fresh, valueVars, inBlock, edits, given, punch>>

\* It comes between two messages, or from inside a call to the host.
Restore == RestoreAt(HostCalls \cup {"idle"})

\* A host that restores from a thread of its own may do so at any moment.
RestoreElsewhere ==
    RestoreAt(HostCalls \cup {"idle", "next", "enter", "set", "join", "finish",
                              "settle", "closeAll"})

\* The page that announced itself has sent the document back.
Rebuilt ==
    /\ ui.pc = "idle" /\ restoring = "page" /\ restoring' = "no"
    /\ UNCHANGED <<open, holdVars, valueVars, inBlock, edits, restores, ui, hostVars>>

\* process() moves the epoch when it begins and again when it ends.
MoveEpoch ==
    /\ inBlock' = ~inBlock
    /\ fresh' = [i \in Slots |-> FALSE]
    /\ punch' = [i \in Slots |-> IF inBlock /\ punch[i] # "free" THEN "block"
                                 ELSE IF punch[i] = "same" THEN "boundary" ELSE punch[i]]
    /\ UNCHANGED <<open, hold, held, holdCount, valueVars, restoring, edits, restores,
                   ui, touch, reported, given>>

Starts ==
    \/ \E i \in Slots : Press(i)
    \/ Edits("edit", 1) \/ \E n \in 1..2 : Edits("image", n)
    \/ \E i \in Slots : Release(i)
    \/ \E page \in BOOLEAN : CloseAll(page)
    \/ Rebuilt

Proceed ==
    \/ \E i \in Slots, v \in Values, begin, end \in BOOLEAN : Enter(i, v, begin, end)
    \/ Answer \/ OpenForEdit \/ EnterReport \/ AnchorAnswered \/ SetValue \/ Join
    \/ \E accepted \in BOOLEAN : BeginAnswered(accepted) \/ PerformAnswered(accepted)
                                                         \/ EndAnswered(accepted)
    \/ Finish \/ FlushAnswered \/ CloseNext \/ Settle

Ticks == \E i \in Slots : Tick(i)

Next == Starts \/ Proceed \/ Ticks \/ Restore \/ MoveEpoch

\* A message once begun is finished (the host answers its calls) and the 50 ms
\* timer runs between messages.  Blocks, edits and restores are never owed.
Spec == Init /\ [][Next]_vars /\ WF_vars(Proceed) /\ SF_vars(Ticks)

\* The same with a host that restores from another thread, beside the messages.
SpecOtherThread == Init /\ [][Next \/ RestoreElsewhere]_vars

------------------------------------------------------------------------------
(* Properties *)

\* An edit that neither opens a touch nor found one.
Untouched == ui.pc = "performEdit" /\ ui.kind # "report" /\ ~ui.begin

\* A value is told to the host only inside a touch, even when the host closed
\* everything from inside an earlier call of the same transaction; there only
\* the transaction it interrupted may still speak.
EditsInsideTouch ==
    /\ ui.pc \in {"anchor", "performEdit", "flush"} => touch[ui.slot] \/ ui.crossed \/ Untouched
    /\ ui.pc = "idle" => touch = open
    /\ \A i \in Slots : hold[i] => open[i]

\* Under a touch that an edit opened, no value lands on the punch-in position:
\* what is told outside a close has an epoch between itself and the beginEdit.
NothingAtPunchIn ==
    (ui.pc = "performEdit" \/ (ui.pc = "flush" /\ ui.kind = "tick")) /\ touch[ui.slot]
        => punch[ui.slot] # "same"

\* plugin_processor.h:649: the epoch is advanced at the end of every block, so a
\* whole process() call lies between the beginEdit and the first value.
BlockBeforeFirstValue ==
    (ui.pc = "performEdit" \/ (ui.pc = "flush" /\ ui.kind = "tick")) /\ touch[ui.slot]
        => punch[ui.slot] \in {"free", "block"}

\* When a touch has ended, the host was last told what the hand last gave.
ReportedAtRelease ==
    ui.pc = "idle" => \A i \in Slots : open[i] \/ reported[i] = given[i]

\* Between messages the Parameter shows what the registry holds, whatever the
\* host refused and whatever restore crossed the edit.
DisplayIsAdopted == ui.pc = "idle" => shown = adopted

\* While blocks go on, a withheld value does not wait for the end of the touch.
HeldReachesHost ==
    ([]<>inBlock /\ []<>~inBlock) => []<>(\A i \in Slots : ~hold[i])
==============================================================================
