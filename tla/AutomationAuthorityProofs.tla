------------------------ MODULE AutomationAuthorityProofs ------------------------
(***************************************************************************)
(* For any values and any number of statements: every variable keeps its   *)
(* kind, what is saved is what is played, no older publication is drained  *)
(* over a newer value, and nothing is played over the hand.                *)
(***************************************************************************)
EXTENDS AutomationAuthority, TLAPS

\* A block holds input that it has yet to publish.
InputPending ==
  \/ audio = "queue"
  \/ audio \in {"intake", "finish"} /\ latestInput # None

\* What the block in hand will leave to be played.
Coming == IF audio = "render" /\ latestInput # None THEN latestInput ELSE Played

\* A write of the host is on its way to the callback, or waits for a block there.
WriteOwed ==
  \/ section \in {"handoff", "odd"} /\ pendingCurrent
  \/ handoff.value # None /\ handoffCurrent

\* The callback has published all that it took in, and has dropped nothing.
Settled == audio # "adopt" /\ ~InputPending /\ ~dropped

\* What the drain has yet to see is what will be played ...
PublishedInv == Settled /\ undrained => published = Coming

\* What the document holds once the drain in hand has written it.
Saved == IF drained # None THEN drained ELSE document

\* ... and when it has seen it, and neither an edit nor a write is on its way,
\* the registry and what is saved agree with the audio.
RegistryInv ==
  Settled /\ ~undrained /\ configuration = None /\ ui = "idle" /\ ~WriteOwed
    => registry = Coming /\ Saved = Coming

\* Where the callback and the control side stand, with what they then hold.  A
\* queue or an edit that outranks a write on its way to the hand-off outranks
\* the one that waits there.
StageInv ==
  /\ section = "adopt" => ui = "adopt"
  /\ section = "commit" => pending # None
  /\ section \in {"adoptWrite", "handoff", "odd"} /\ handoffCurrent => pendingCurrent
  /\ audio = "queue" => queued # None /\ ~held
  /\ audio = "adopt" => latestInput = None /\ carry = None
  /\ audio = "ingest" => latestInput = None
  /\ held => hostGestureOpen

\* While the hand spoke last: its value waits for a block, or it is all there is
\* to play, and no write of the host can come after it.
HandInv ==
  last = "hand" =>
    /\ section = "adopt" => lastValue = edit
    /\ configuration # None /\ section # "adopt" => configuration = lastValue
    /\ configuration = None /\ section # "adopt" =>
         /\ current = lastValue /\ carry = None
         /\ audio # "adopt" => published = lastValue
         /\ audio # "out" => latestInput = None
    /\ ~handoffCurrent
    /\ section \in {"handoff", "odd"} => ~pendingCurrent

AuthorityInv ==
  TypeOK /\ StageInv /\ NoReplay /\ PublishedInv /\ RegistryInv /\ HandInv

\* A value is never mistaken for none.
LEMMA ValuesAreSome ==
  /\ \A value \in Values : value # None /\ value \in Optional
  /\ None \in Optional
  /\ NoHandoff \in [odd : BOOLEAN, value : Optional] /\ NoHandoff.value = None
  BY AuthorityAssumption DEF None, Optional, NoHandoff

\* Nothing is said at first, and all agree on it.
LEMMA InitAuthority == Init => AuthorityInv
<1> SUFFICES ASSUME Init PROVE AuthorityInv
  OBVIOUS
<1>1. TypeOK
  <2>1. handoff \in [odd : BOOLEAN, value : Optional]
    BY ValuesAreSome DEF Init
  <2>2. /\ {queued, latestInput, carry, configuration, hostCall, pending}
             \subseteq Optional
        /\ {current, published, registry, document, edit, committing, lastValue}
             \subseteq Values
    BY ValuesAreSome, AuthorityAssumption DEF Init
  <2>3. statements \in 0..MaxStatements
    BY AuthorityAssumption DEF Init
  <2>4. QED BY <2>1, <2>2, <2>3 DEF Init, TypeOK
<1>2. StageInv /\ NoReplay /\ HandInv
  BY DEF Init, StageInv, NoReplay, HandInv
<1>3. PublishedInv /\ RegistryInv
  BY DEF Init, PublishedInv, RegistryInv, Saved, Coming, Played
<1>4. QED BY <1>1, <1>2, <1>3 DEF AuthorityInv

\* Every step keeps every variable in its kind.
LEMMA TypeStep ==
  ASSUME TypeOK, StageInv, Next
  PROVE  TypeOK'
<1>1. ASSUME NEW flush \in BOOLEAN, NEW rebase \in BOOLEAN, BeginBlock(flush, rebase)
      PROVE  TypeOK'
  <2>1. CASE configuration # None
    BY <1>1, <2>1
    DEF BeginBlock, NonAudio, SameAuthority, NoStatement, controlVars, TypeOK,
        Optional
  <2>2. CASE configuration = None
    <3>1. dropped' \in BOOLEAN
      BY <1>1, <2>2 DEF BeginBlock, TypeOK
    <3>2. carry' \in Optional
      BY <1>1, <2>2 DEF BeginBlock, TypeOK
    <3>3. QED
      BY <1>1, <2>2, <3>1, <3>2
      DEF BeginBlock, NonAudio, SameAuthority, NoStatement, controlVars, TypeOK
  <2>3. QED BY <2>1, <2>2
<1>2. ASSUME PublishAdopted PROVE TypeOK'
  BY <1>2
  DEF PublishAdopted, Publish, NonAudio, controlVars, SameAuthority, NoStatement,
      TypeOK
<1>3. ASSUME Ingest PROVE TypeOK'
  <2>1. handoff' \in [odd : BOOLEAN, value : Optional] /\ latestInput' \in Optional
    BY <1>3, ValuesAreSome DEF Ingest, TypeOK
  <2>2. handoffAnnounced' \in BOOLEAN
    BY <1>3 DEF Ingest, TypeOK
  <2>3. QED
    BY <1>3, <2>1, <2>2
    DEF Ingest, NonAudio, SameAuthority, NoStatement, controlVars, historyVars,
        TypeOK
<1>4. ASSUME NoQueue PROVE TypeOK'
  BY <1>4
  DEF NoQueue, NonAudio, controlVars, SameAuthority, NoStatement, historyVars,
      TypeOK
<1>5. ASSUME NEW value \in Values, Classify(value) PROVE TypeOK'
  BY <1>5, AuthorityAssumption
  DEF Classify, Statement, NonAudio, controlVars, SameAuthority, historyVars,
      TypeOK, Optional
<1>6. ASSUME TakeQueue PROVE TypeOK'
  BY <1>6
  DEF TakeQueue, Supersede, EditAwaitsBlock, Accept, NonAudio, controlVars,
      NoStatement, TypeOK, StageInv, Optional
<1>7. ASSUME FinishIntake PROVE TypeOK'
  <2>1. /\ published' \in Values /\ current' \in Values /\ carry' \in Optional
        /\ {undrained', older', dropped'} \subseteq BOOLEAN
    <3>1. CASE latestInput # None
      BY <1>7, <3>1 DEF FinishIntake, Publish, TypeOK, Optional
    <3>2. CASE latestInput = None
      BY <1>7, <3>2 DEF FinishIntake, Publish, TypeOK
    <3>3. QED BY <3>1, <3>2
  <2>2. QED
    BY <1>7, <2>1
    DEF FinishIntake, NonAudio, SameAuthority, NoStatement, controlVars, TypeOK
<1>8. ASSUME Render PROVE TypeOK'
  BY <1>8
  DEF Render, Reaches, Due, Carries, NonAudio, controlVars, SameAuthority,
      NoStatement, historyVars, TypeOK, Optional
<1>9. ASSUME Fail PROVE TypeOK'
  BY <1>9
  DEF Fail, Reaches, Due, NonAudio, controlVars, SameAuthority, NoStatement,
      historyVars, TypeOK, Optional
<1>10. ASSUME NEW value \in Values, NEW complete \in BOOLEAN, NEW image \in BOOLEAN,
              BeginEdit(value, complete, image)
       PROVE  TypeOK'
  <2>1. hostGestureOpen' \in BOOLEAN
    BY <1>10 DEF BeginEdit, TypeOK
  <2>2. document' \in Values
    BY <1>10 DEF BeginEdit, TypeOK
  <2>3. QED
    BY <1>10, <2>1, <2>2, AuthorityAssumption
    DEF BeginEdit, Statement, NonControl, SameAuthority, audioVars, writeVars,
        historyVars, TypeOK
<1>11. ASSUME EndEdit PROVE TypeOK'
  BY <1>11, ValuesAreSome
  DEF EndEdit, NonControl, audioVars, SameAuthority, NoStatement, writeVars, TypeOK
<1>12. ASSUME AdoptEdit PROVE TypeOK'
  BY <1>12
  DEF AdoptEdit, Free, Adopt, Accept, Supersede, NonControl, audioVars, NoStatement,
      TypeOK, Optional
<1>13. ASSUME ConfigureEdit PROVE TypeOK'
  BY <1>13
  DEF ConfigureEdit, Configure, NonControl, audioVars, SameAuthority, NoStatement,
      writeVars, historyVars, TypeOK, Optional
<1>14. ASSUME NEW opened \in BOOLEAN, Touch(opened) PROVE TypeOK'
  BY <1>14
  DEF Touch, NonControl, audioVars, SameAuthority, NoStatement, writeVars, TypeOK
<1>15. ASSUME Drain PROVE TypeOK'
  <2>1. drained' \in Optional /\ registry' \in Values
    BY <1>15, ValuesAreSome DEF Drain, TypeOK
  <2>2. QED
    BY <1>15, <2>1
    DEF Drain, audioVars, SameAuthority, NoStatement, writeVars, historyVars, TypeOK
<1>26. ASSUME WriteDrained PROVE TypeOK'
  BY <1>26
  DEF WriteDrained, audioVars, SameAuthority, NoStatement, writeVars, historyVars,
      TypeOK, Optional
<1>16. ASSUME Refresh PROVE TypeOK'
  BY <1>16
  DEF Refresh, Free, DocumentFree, Configure, Overtakes, NonControl, audioVars,
      SameAuthority, NoStatement, writeVars, TypeOK, Optional
<1>17. ASSUME Reset PROVE TypeOK'
  BY <1>17
  DEF Reset, Free, SameAuthority, NoStatement, controlVars, writeVars, TypeOK,
      Optional
<1>18. ASSUME NEW value \in Values, HostWrites(value) PROVE TypeOK'
  BY <1>18, AuthorityAssumption
  DEF HostWrites, Statement, NonControl, audioVars, SameAuthority, controlVars,
      historyVars, TypeOK, Optional
<1>19. ASSUME Arm PROVE TypeOK'
  BY <1>19
  DEF Arm, Free, NonControl, audioVars, NoStatement, controlVars, historyVars,
      TypeOK, Optional
<1>20. ASSUME Commit PROVE TypeOK'
  BY <1>20
  DEF Commit, Free, NonControl, audioVars, SameAuthority, NoStatement, writeVars,
      historyVars, TypeOK
<1>21. ASSUME CheckWrite PROVE TypeOK'
  BY <1>21
  DEF CheckWrite, NonControl, audioVars, SameAuthority, NoStatement, historyVars,
      TypeOK, StageInv, Optional
<1>22. ASSUME AdoptWrite PROVE TypeOK'
  BY <1>22
  DEF AdoptWrite, DocumentFree, Adopt, Accept, NonControl, audioVars, SameAuthority,
      NoStatement, writeVars, TypeOK
<1>23. ASSUME BeginHandoff PROVE TypeOK'
  BY <1>23
  DEF BeginHandoff, HandOff, NonControl, audioVars, NoStatement, historyVars, TypeOK
<1>24. ASSUME StoreHandoff PROVE TypeOK'
  BY <1>24, AuthorityAssumption
  DEF StoreHandoff, HandOff, NonControl, audioVars, NoStatement, historyVars,
      TypeOK, Optional
<1>25. ASSUME AnnounceHandoff PROVE TypeOK'
  BY <1>25
  DEF AnnounceHandoff, HandOff, NonControl, audioVars, NoStatement, historyVars,
      TypeOK
<1>27. QED
  BY <1>1, <1>2, <1>3, <1>4, <1>5, <1>6, <1>7, <1>8, <1>9, <1>10, <1>11, <1>12,
     <1>13, <1>14, <1>15, <1>16, <1>17, <1>18, <1>19, <1>20, <1>21, <1>22, <1>23,
     <1>24, <1>25, <1>26
  DEF Next, AudioStep, ControlStep, CommitStep, HandoffStep

\* Nor does a step leave its stage with what belongs to another.
LEMMA StageStep ==
  ASSUME TypeOK, StageInv, Next
  PROVE  StageInv'
<1>1. ASSUME NEW flush \in BOOLEAN, NEW rebase \in BOOLEAN, BeginBlock(flush, rebase)
      PROVE  StageInv'
  BY <1>1
  DEF BeginBlock, NonAudio, controlVars, SameAuthority, NoStatement, StageInv
<1>2. ASSUME PublishAdopted PROVE StageInv'
  BY <1>2
  DEF PublishAdopted, Publish, NonAudio, controlVars, SameAuthority, NoStatement,
      StageInv
<1>3. ASSUME Ingest PROVE StageInv'
  BY <1>3
  DEF Ingest, NonAudio, controlVars, SameAuthority, NoStatement, historyVars,
      StageInv
<1>4. ASSUME NoQueue PROVE StageInv'
  BY <1>4
  DEF NoQueue, NonAudio, controlVars, SameAuthority, NoStatement, historyVars,
      StageInv
<1>5. ASSUME NEW value \in Values, Classify(value) PROVE StageInv'
  BY <1>5, ValuesAreSome
  DEF Classify, Statement, NonAudio, controlVars, SameAuthority, historyVars,
      StageInv
<1>6. ASSUME TakeQueue PROVE StageInv'
  BY <1>6
  DEF TakeQueue, Supersede, EditAwaitsBlock, Accept, NonAudio, controlVars,
      NoStatement, StageInv
<1>7. ASSUME FinishIntake PROVE StageInv'
  BY <1>7
  DEF FinishIntake, Publish, NonAudio, controlVars, SameAuthority, NoStatement,
      StageInv
<1>8. ASSUME Render PROVE StageInv'
  BY <1>8
  DEF Render, Reaches, Due, Carries, NonAudio, controlVars, SameAuthority,
      NoStatement, historyVars, StageInv
<1>9. ASSUME Fail PROVE StageInv'
  BY <1>9
  DEF Fail, Reaches, Due, NonAudio, controlVars, SameAuthority, NoStatement,
      historyVars, StageInv
<1>10. ASSUME NEW value \in Values, NEW complete \in BOOLEAN, NEW image \in BOOLEAN,
              BeginEdit(value, complete, image)
       PROVE  StageInv'
  <2>1. hostGestureOpen => hostGestureOpen'
    BY <1>10 DEF BeginEdit
  <2>2. QED
    BY <1>10, <2>1
    DEF BeginEdit, NonControl, SameAuthority, audioVars, writeVars, historyVars,
        StageInv
<1>11. ASSUME EndEdit PROVE StageInv'
  BY <1>11
  DEF EndEdit, NonControl, audioVars, SameAuthority, NoStatement, writeVars,
      StageInv
<1>12. ASSUME AdoptEdit PROVE StageInv'
  BY <1>12
  DEF AdoptEdit, Free, Adopt, Accept, Supersede, NonControl, audioVars, NoStatement,
      StageInv
<1>13. ASSUME ConfigureEdit PROVE StageInv'
  BY <1>13
  DEF ConfigureEdit, Configure, NonControl, audioVars, SameAuthority, NoStatement,
      writeVars, historyVars, StageInv
<1>14. ASSUME NEW opened \in BOOLEAN, Touch(opened) PROVE StageInv'
  BY <1>14
  DEF Touch, NonControl, audioVars, SameAuthority, NoStatement, writeVars, StageInv
<1>15. ASSUME Drain PROVE StageInv'
  BY <1>15
  DEF Drain, Free, DocumentFree, audioVars, SameAuthority, NoStatement, writeVars,
      historyVars, StageInv
<1>26. ASSUME WriteDrained PROVE StageInv'
  BY <1>26
  DEF WriteDrained, audioVars, SameAuthority, NoStatement, writeVars, historyVars,
      StageInv
<1>16. ASSUME Refresh PROVE StageInv'
  BY <1>16
  DEF Refresh, Free, DocumentFree, Configure, Overtakes, NonControl, audioVars,
      SameAuthority, NoStatement, writeVars, StageInv
<1>17. ASSUME Reset PROVE StageInv'
  BY <1>17
  DEF Reset, Free, SameAuthority, NoStatement, controlVars, writeVars, StageInv
<1>18. ASSUME NEW value \in Values, HostWrites(value) PROVE StageInv'
  BY <1>18
  DEF HostWrites, Statement, NonControl, audioVars, SameAuthority, controlVars,
      historyVars, StageInv
<1>19. ASSUME Arm PROVE StageInv'
  BY <1>19
  DEF Arm, Free, NonControl, audioVars, NoStatement, controlVars, historyVars,
      StageInv
<1>20. ASSUME Commit PROVE StageInv'
  BY <1>20
  DEF Commit, Free, NonControl, audioVars, SameAuthority, NoStatement, writeVars,
      historyVars, StageInv
<1>21. ASSUME CheckWrite PROVE StageInv'
  BY <1>21
  DEF CheckWrite, NonControl, audioVars, SameAuthority, NoStatement, historyVars,
      StageInv
<1>22. ASSUME AdoptWrite PROVE StageInv'
  BY <1>22
  DEF AdoptWrite, DocumentFree, Adopt, Accept, NonControl, audioVars, SameAuthority,
      NoStatement, writeVars, StageInv
<1>23. ASSUME BeginHandoff PROVE StageInv'
  BY <1>23
  DEF BeginHandoff, HandOff, NonControl, audioVars, NoStatement, historyVars,
      StageInv
<1>24. ASSUME StoreHandoff PROVE StageInv'
  BY <1>24
  DEF StoreHandoff, HandOff, NonControl, audioVars, NoStatement, historyVars,
      StageInv
<1>25. ASSUME AnnounceHandoff PROVE StageInv'
  BY <1>25
  DEF AnnounceHandoff, HandOff, NonControl, audioVars, NoStatement, historyVars,
      StageInv
<1>27. QED
  BY <1>1, <1>2, <1>3, <1>4, <1>5, <1>6, <1>7, <1>8, <1>9, <1>10, <1>11, <1>12,
     <1>13, <1>14, <1>15, <1>16, <1>17, <1>18, <1>19, <1>20, <1>21, <1>22, <1>23,
     <1>24, <1>25, <1>26
  DEF Next, AudioStep, ControlStep, CommitStep, HandoffStep

\* Whoever changes the registry claims what is published; whoever publishes is newer.
LEMMA NoReplayStep ==
  ASSUME NoReplay, Next
  PROVE  NoReplay'
<1>1. ASSUME NEW flush \in BOOLEAN, NEW rebase \in BOOLEAN, BeginBlock(flush, rebase)
      PROVE  NoReplay'
  BY <1>1
  DEF BeginBlock, NonAudio, controlVars, SameAuthority, NoStatement, NoReplay
<1>2. ASSUME PublishAdopted PROVE NoReplay'
  BY <1>2
  DEF PublishAdopted, Publish, NonAudio, controlVars, SameAuthority, NoStatement,
      NoReplay
<1>3. ASSUME Ingest PROVE NoReplay'
  BY <1>3
  DEF Ingest, NonAudio, controlVars, SameAuthority, NoStatement, historyVars,
      NoReplay
<1>4. ASSUME NoQueue PROVE NoReplay'
  BY <1>4
  DEF NoQueue, NonAudio, controlVars, SameAuthority, NoStatement, historyVars,
      NoReplay
<1>5. ASSUME NEW value \in Values, Classify(value) PROVE NoReplay'
  BY <1>5
  DEF Classify, Statement, NonAudio, controlVars, SameAuthority, historyVars,
      NoReplay
<1>6. ASSUME TakeQueue PROVE NoReplay'
  BY <1>6
  DEF TakeQueue, Supersede, EditAwaitsBlock, Accept, NonAudio, controlVars,
      NoStatement, NoReplay
<1>7. ASSUME FinishIntake PROVE NoReplay'
  BY <1>7
  DEF FinishIntake, Publish, NonAudio, controlVars, SameAuthority, NoStatement,
      NoReplay
<1>8. ASSUME Render PROVE NoReplay'
  BY <1>8
  DEF Render, Reaches, Due, Carries, NonAudio, controlVars, SameAuthority,
      NoStatement, historyVars, NoReplay
<1>9. ASSUME Fail PROVE NoReplay'
  BY <1>9
  DEF Fail, Reaches, Due, NonAudio, controlVars, SameAuthority, NoStatement,
      historyVars, NoReplay
<1>10. ASSUME NEW value \in Values, NEW complete \in BOOLEAN, NEW image \in BOOLEAN,
              BeginEdit(value, complete, image)
       PROVE  NoReplay'
  BY <1>10
  DEF BeginEdit, Statement, Free, DocumentFree, NonControl, audioVars,
      SameAuthority, writeVars, historyVars, NoReplay
<1>11. ASSUME EndEdit PROVE NoReplay'
  BY <1>11
  DEF EndEdit, NonControl, audioVars, SameAuthority, NoStatement, writeVars,
      NoReplay
<1>12. ASSUME AdoptEdit PROVE NoReplay'
  BY <1>12
  DEF AdoptEdit, Free, Adopt, Accept, Supersede, NonControl, audioVars, NoStatement,
      NoReplay
<1>13. ASSUME ConfigureEdit PROVE NoReplay'
  BY <1>13
  DEF ConfigureEdit, Configure, NonControl, audioVars, SameAuthority, NoStatement,
      writeVars, historyVars, NoReplay
<1>14. ASSUME NEW opened \in BOOLEAN, Touch(opened) PROVE NoReplay'
  BY <1>14
  DEF Touch, NonControl, audioVars, SameAuthority, NoStatement, writeVars, NoReplay
<1>15. ASSUME Drain PROVE NoReplay'
  BY <1>15
  DEF Drain, Free, DocumentFree, audioVars, SameAuthority, NoStatement, writeVars,
      historyVars, NoReplay
<1>26. ASSUME WriteDrained PROVE NoReplay'
  BY <1>26
  DEF WriteDrained, audioVars, SameAuthority, NoStatement, writeVars, historyVars,
      NoReplay
<1>16. ASSUME Refresh PROVE NoReplay'
  BY <1>16
  DEF Refresh, Free, DocumentFree, Configure, Overtakes, NonControl, audioVars,
      SameAuthority, NoStatement, writeVars, NoReplay
<1>17. ASSUME Reset PROVE NoReplay'
  BY <1>17
  DEF Reset, Free, SameAuthority, NoStatement, controlVars, writeVars, NoReplay
<1>18. ASSUME NEW value \in Values, HostWrites(value) PROVE NoReplay'
  BY <1>18
  DEF HostWrites, Statement, NonControl, audioVars, SameAuthority, controlVars,
      historyVars, NoReplay
<1>19. ASSUME Arm PROVE NoReplay'
  BY <1>19
  DEF Arm, Free, NonControl, audioVars, NoStatement, controlVars, historyVars,
      NoReplay
<1>20. ASSUME Commit PROVE NoReplay'
  BY <1>20
  DEF Commit, Free, NonControl, audioVars, SameAuthority, NoStatement, writeVars,
      historyVars, NoReplay
<1>21. ASSUME CheckWrite PROVE NoReplay'
  BY <1>21
  DEF CheckWrite, NonControl, audioVars, SameAuthority, NoStatement, historyVars,
      NoReplay
<1>22. ASSUME AdoptWrite PROVE NoReplay'
  BY <1>22
  DEF AdoptWrite, DocumentFree, Adopt, Accept, NonControl, audioVars, SameAuthority,
      NoStatement, writeVars, NoReplay
<1>23. ASSUME BeginHandoff PROVE NoReplay'
  BY <1>23
  DEF BeginHandoff, HandOff, NonControl, audioVars, NoStatement, historyVars,
      NoReplay
<1>24. ASSUME StoreHandoff PROVE NoReplay'
  BY <1>24
  DEF StoreHandoff, HandOff, NonControl, audioVars, NoStatement, historyVars,
      NoReplay
<1>25. ASSUME AnnounceHandoff PROVE NoReplay'
  BY <1>25
  DEF AnnounceHandoff, HandOff, NonControl, audioVars, NoStatement, historyVars,
      NoReplay
<1>27. QED
  BY <1>1, <1>2, <1>3, <1>4, <1>5, <1>6, <1>7, <1>8, <1>9, <1>10, <1>11, <1>12,
     <1>13, <1>14, <1>15, <1>16, <1>17, <1>18, <1>19, <1>20, <1>21, <1>22, <1>23,
     <1>24, <1>25, <1>26
  DEF Next, AudioStep, ControlStep, CommitStep, HandoffStep

\* What is taken in is published before it settles, and only what is dropped is lost.
LEMMA PublishedStep ==
  ASSUME TypeOK, StageInv, PublishedInv, Next
  PROVE  PublishedInv'
<1>1. ASSUME NEW flush \in BOOLEAN, NEW rebase \in BOOLEAN, BeginBlock(flush, rebase)
      PROVE  PublishedInv'
  BY <1>1
  DEF BeginBlock, NonAudio, controlVars, SameAuthority, NoStatement, PublishedInv,
      Settled, InputPending, Coming, Played
<1>2. ASSUME PublishAdopted PROVE PublishedInv'
  BY <1>2
  DEF PublishAdopted, Publish, NonAudio, controlVars, SameAuthority, NoStatement,
      StageInv, PublishedInv, Settled, InputPending, Coming, Played
<1>3. ASSUME Ingest PROVE PublishedInv'
  BY <1>3
  DEF Ingest, NonAudio, controlVars, SameAuthority, NoStatement, historyVars,
      PublishedInv, Settled, InputPending, Coming, Played
<1>4. ASSUME NoQueue PROVE PublishedInv'
  BY <1>4
  DEF NoQueue, NonAudio, controlVars, SameAuthority, NoStatement, historyVars,
      PublishedInv, Settled, InputPending, Coming, Played
<1>5. ASSUME NEW value \in Values, Classify(value) PROVE PublishedInv'
  BY <1>5
  DEF Classify, Statement, NonAudio, controlVars, SameAuthority, historyVars,
      PublishedInv, Settled, InputPending, Coming, Played
<1>6. ASSUME TakeQueue PROVE PublishedInv'
  BY <1>6
  DEF TakeQueue, Supersede, EditAwaitsBlock, Accept, NonAudio, controlVars,
      NoStatement, StageInv, PublishedInv, Settled, InputPending, Coming, Played
<1>7. ASSUME FinishIntake PROVE PublishedInv'
  BY <1>7
  DEF FinishIntake, Publish, NonAudio, controlVars, SameAuthority, NoStatement,
      PublishedInv, Settled, InputPending, Coming, Played
<1>8. ASSUME Render PROVE PublishedInv'
  BY <1>8
  DEF Render, Reaches, Due, Carries, NonAudio, controlVars, SameAuthority,
      NoStatement, historyVars, PublishedInv, Settled, InputPending, Coming, Played
<1>9. ASSUME Fail PROVE PublishedInv'
  BY <1>9
  DEF Fail, Reaches, Due, NonAudio, controlVars, SameAuthority, NoStatement,
      historyVars, PublishedInv, Settled, InputPending, Coming, Played
<1>10. ASSUME NEW value \in Values, NEW complete \in BOOLEAN, NEW image \in BOOLEAN,
              BeginEdit(value, complete, image)
       PROVE  PublishedInv'
  BY <1>10
  DEF BeginEdit, Statement, Free, DocumentFree, NonControl, audioVars,
      SameAuthority, writeVars, historyVars, PublishedInv, Settled, InputPending,
      Coming, Played
<1>11. ASSUME EndEdit PROVE PublishedInv'
  BY <1>11
  DEF EndEdit, NonControl, audioVars, SameAuthority, NoStatement, writeVars,
      PublishedInv, Settled, InputPending, Coming, Played
<1>12. ASSUME AdoptEdit PROVE PublishedInv'
  BY <1>12
  DEF AdoptEdit, Free, Adopt, Accept, Supersede, NonControl, audioVars, NoStatement,
      PublishedInv, Settled, InputPending, Coming, Played
<1>13. ASSUME ConfigureEdit PROVE PublishedInv'
  BY <1>13
  DEF ConfigureEdit, Configure, NonControl, audioVars, SameAuthority, NoStatement,
      writeVars, historyVars, PublishedInv, Settled, InputPending, Coming, Played
<1>14. ASSUME NEW opened \in BOOLEAN, Touch(opened) PROVE PublishedInv'
  BY <1>14
  DEF Touch, NonControl, audioVars, SameAuthority, NoStatement, writeVars,
      PublishedInv, Settled, InputPending, Coming, Played
<1>15. ASSUME Drain PROVE PublishedInv'
  BY <1>15
  DEF Drain, Free, DocumentFree, audioVars, SameAuthority, NoStatement, writeVars,
      historyVars, PublishedInv, Settled, InputPending, Coming, Played
<1>26. ASSUME WriteDrained PROVE PublishedInv'
  BY <1>26
  DEF WriteDrained, audioVars, SameAuthority, NoStatement, writeVars, historyVars,
      PublishedInv, Settled, InputPending, Coming, Played
<1>16. ASSUME Refresh PROVE PublishedInv'
  BY <1>16
  DEF Refresh, Free, DocumentFree, Configure, Overtakes, NonControl, audioVars,
      SameAuthority, NoStatement, writeVars, PublishedInv, Settled, InputPending,
      Coming, Played
<1>17. ASSUME Reset PROVE PublishedInv'
  BY <1>17
  DEF Reset, Free, SameAuthority, NoStatement, controlVars, writeVars, PublishedInv,
      Settled, InputPending, Coming, Played
<1>18. ASSUME NEW value \in Values, HostWrites(value) PROVE PublishedInv'
  BY <1>18
  DEF HostWrites, Statement, NonControl, audioVars, SameAuthority, controlVars,
      historyVars, PublishedInv, Settled, InputPending, Coming, Played
<1>19. ASSUME Arm PROVE PublishedInv'
  BY <1>19
  DEF Arm, Free, NonControl, audioVars, NoStatement, controlVars, historyVars,
      PublishedInv, Settled, InputPending, Coming, Played
<1>20. ASSUME Commit PROVE PublishedInv'
  BY <1>20
  DEF Commit, Free, NonControl, audioVars, SameAuthority, NoStatement, writeVars,
      historyVars, PublishedInv, Settled, InputPending, Coming, Played
<1>21. ASSUME CheckWrite PROVE PublishedInv'
  BY <1>21
  DEF CheckWrite, NonControl, audioVars, SameAuthority, NoStatement, historyVars,
      PublishedInv, Settled, InputPending, Coming, Played
<1>22. ASSUME AdoptWrite PROVE PublishedInv'
  BY <1>22
  DEF AdoptWrite, DocumentFree, Adopt, Accept, NonControl, audioVars, SameAuthority,
      NoStatement, writeVars, PublishedInv, Settled, InputPending, Coming, Played
<1>23. ASSUME BeginHandoff PROVE PublishedInv'
  BY <1>23
  DEF BeginHandoff, HandOff, NonControl, audioVars, NoStatement, historyVars,
      PublishedInv, Settled, InputPending, Coming, Played
<1>24. ASSUME StoreHandoff PROVE PublishedInv'
  BY <1>24
  DEF StoreHandoff, HandOff, NonControl, audioVars, NoStatement, historyVars,
      PublishedInv, Settled, InputPending, Coming, Played
<1>25. ASSUME AnnounceHandoff PROVE PublishedInv'
  BY <1>25
  DEF AnnounceHandoff, HandOff, NonControl, audioVars, NoStatement, historyVars,
      PublishedInv, Settled, InputPending, Coming, Played
<1>27. QED
  BY <1>1, <1>2, <1>3, <1>4, <1>5, <1>6, <1>7, <1>8, <1>9, <1>10, <1>11, <1>12,
     <1>13, <1>14, <1>15, <1>16, <1>17, <1>18, <1>19, <1>20, <1>21, <1>22, <1>23,
     <1>24, <1>25, <1>26
  DEF Next, AudioStep, ControlStep, CommitStep, HandoffStep

\* A drain brings the registry to what will be played; a step that takes the registry
\* elsewhere leaves an edit or a write on its way, and that one publishes again.
LEMMA RegistryStep ==
  ASSUME TypeOK, StageInv, PublishedInv, RegistryInv, Next
  PROVE  RegistryInv'
<1>1. ASSUME NEW flush \in BOOLEAN, NEW rebase \in BOOLEAN, BeginBlock(flush, rebase)
      PROVE  RegistryInv'
  BY <1>1
  DEF BeginBlock, NonAudio, controlVars, SameAuthority, NoStatement, PublishedInv,
      RegistryInv, Saved, Settled, InputPending, Coming, Played, WriteOwed
<1>2. ASSUME PublishAdopted PROVE RegistryInv'
  BY <1>2
  DEF PublishAdopted, Publish, NonAudio, controlVars, SameAuthority, NoStatement,
      PublishedInv, RegistryInv, Saved, Settled, InputPending, Coming, Played, WriteOwed
<1>3. ASSUME Ingest PROVE RegistryInv'
  BY <1>3
  DEF Ingest, NonAudio, controlVars, SameAuthority, NoStatement, historyVars,
      PublishedInv, RegistryInv, Saved, Settled, InputPending, Coming, Played, WriteOwed
<1>4. ASSUME NoQueue PROVE RegistryInv'
  BY <1>4
  DEF NoQueue, NonAudio, controlVars, SameAuthority, NoStatement, historyVars,
      PublishedInv, RegistryInv, Saved, Settled, InputPending, Coming, Played, WriteOwed
<1>5. ASSUME NEW value \in Values, Classify(value) PROVE RegistryInv'
  BY <1>5
  DEF Classify, Statement, NonAudio, controlVars, SameAuthority, historyVars,
      PublishedInv, RegistryInv, Saved, Settled, InputPending, Coming, Played, WriteOwed
<1>6. ASSUME TakeQueue PROVE RegistryInv'
  BY <1>6
  DEF TakeQueue, Supersede, EditAwaitsBlock, Accept, NonAudio, controlVars,
      NoStatement, StageInv, PublishedInv, RegistryInv, Saved, Settled, InputPending,
      Coming, Played, WriteOwed
<1>7. ASSUME FinishIntake PROVE RegistryInv'
  BY <1>7
  DEF FinishIntake, Publish, NonAudio, controlVars, SameAuthority, NoStatement,
      PublishedInv, RegistryInv, Saved, Settled, InputPending, Coming, Played, WriteOwed
<1>8. ASSUME Render PROVE RegistryInv'
  BY <1>8
  DEF Render, Reaches, Due, Carries, NonAudio, controlVars, SameAuthority,
      NoStatement, historyVars, PublishedInv, RegistryInv, Saved, Settled, InputPending,
      Coming, Played, WriteOwed
<1>9. ASSUME Fail PROVE RegistryInv'
  BY <1>9
  DEF Fail, Reaches, Due, NonAudio, controlVars, SameAuthority, NoStatement,
      historyVars, PublishedInv, RegistryInv, Saved, Settled, InputPending, Coming, Played,
      WriteOwed
<1>10. ASSUME NEW value \in Values, NEW complete \in BOOLEAN, NEW image \in BOOLEAN,
              BeginEdit(value, complete, image)
       PROVE  RegistryInv'
  BY <1>10
  DEF BeginEdit, Statement, Free, DocumentFree, NonControl, audioVars,
      SameAuthority, writeVars, historyVars, PublishedInv, RegistryInv, Saved,
      Settled, InputPending, Coming, Played, WriteOwed
<1>11. ASSUME EndEdit PROVE RegistryInv'
  BY <1>11
  DEF EndEdit, NonControl, audioVars, SameAuthority, NoStatement, writeVars,
      PublishedInv, RegistryInv, Saved, Settled, InputPending, Coming, Played, WriteOwed
<1>12. ASSUME AdoptEdit PROVE RegistryInv'
  BY <1>12
  DEF AdoptEdit, Free, Adopt, Accept, Supersede, NonControl, audioVars, NoStatement,
      PublishedInv, RegistryInv, Saved, Settled, InputPending, Coming, Played, WriteOwed
<1>13. ASSUME ConfigureEdit PROVE RegistryInv'
  <2>1. edit # None
    BY ValuesAreSome DEF TypeOK
  <2>2. QED
    BY <1>13, <2>1
    DEF ConfigureEdit, Configure, NonControl, audioVars, SameAuthority, NoStatement,
        writeVars, historyVars, PublishedInv, RegistryInv, Saved, Settled, InputPending,
        Coming, Played, WriteOwed
<1>14. ASSUME NEW opened \in BOOLEAN, Touch(opened) PROVE RegistryInv'
  BY <1>14
  DEF Touch, NonControl, audioVars, SameAuthority, NoStatement, writeVars,
      PublishedInv, RegistryInv, Saved, Settled, InputPending, Coming, Played, WriteOwed
<1>15. ASSUME Drain PROVE RegistryInv'
  <2>1. published # None
    BY ValuesAreSome DEF TypeOK
  <2>2. QED
    BY <1>15, <2>1
    DEF Drain, Free, DocumentFree, audioVars, SameAuthority, NoStatement, writeVars,
        historyVars, PublishedInv, RegistryInv, Saved, Settled, InputPending,
        Coming, Played, WriteOwed
<1>26. ASSUME WriteDrained PROVE RegistryInv'
  BY <1>26
  DEF WriteDrained, audioVars, SameAuthority, NoStatement, writeVars, historyVars,
      PublishedInv, RegistryInv, Saved, Settled, InputPending,
      Coming, Played, WriteOwed
<1>16. ASSUME Refresh PROVE RegistryInv'
  <2>1. document # None
    BY ValuesAreSome DEF TypeOK
  <2>2. QED
    BY <1>16, <2>1
    DEF Refresh, Free, DocumentFree, Configure, Overtakes, NonControl, audioVars,
        SameAuthority, NoStatement, writeVars, PublishedInv, RegistryInv, Saved,
        Settled, InputPending, Coming, Played, WriteOwed
<1>17. ASSUME Reset PROVE RegistryInv'
  BY <1>17
  DEF Reset, Free, SameAuthority, NoStatement, controlVars, writeVars, PublishedInv,
      RegistryInv, Saved, Settled, InputPending, Coming, Played, WriteOwed
<1>18. ASSUME NEW value \in Values, HostWrites(value) PROVE RegistryInv'
  BY <1>18
  DEF HostWrites, Statement, NonControl, audioVars, SameAuthority, controlVars,
      historyVars, PublishedInv, RegistryInv, Saved, Settled, InputPending, Coming, Played,
      WriteOwed
<1>19. ASSUME Arm PROVE RegistryInv'
  BY <1>19
  DEF Arm, Free, NonControl, audioVars, NoStatement, controlVars, historyVars,
      PublishedInv, RegistryInv, Saved, Settled, InputPending, Coming, Played, WriteOwed
<1>20. ASSUME Commit PROVE RegistryInv'
  BY <1>20
  DEF Commit, Free, NonControl, audioVars, SameAuthority, NoStatement, writeVars,
      historyVars, PublishedInv, RegistryInv, Saved, Settled, InputPending, Coming, Played,
      WriteOwed
<1>21. ASSUME CheckWrite PROVE RegistryInv'
  BY <1>21
  DEF CheckWrite, NonControl, audioVars, SameAuthority, NoStatement, historyVars,
      PublishedInv, RegistryInv, Saved, Settled, InputPending, Coming, Played, WriteOwed
<1>22. ASSUME AdoptWrite PROVE RegistryInv'
  BY <1>22
  DEF AdoptWrite, DocumentFree, Adopt, Accept, NonControl, audioVars, SameAuthority,
      NoStatement, writeVars, PublishedInv, RegistryInv, Saved, Settled,
      InputPending, Coming, Played, WriteOwed
<1>23. ASSUME BeginHandoff PROVE RegistryInv'
  BY <1>23
  DEF BeginHandoff, HandOff, NonControl, audioVars, NoStatement, historyVars,
      PublishedInv, RegistryInv, Saved, Settled, InputPending, Coming, Played, WriteOwed
<1>24. ASSUME StoreHandoff PROVE RegistryInv'
  <2>1. committing # None
    BY ValuesAreSome DEF TypeOK
  <2>2. QED
    BY <1>24, <2>1
    DEF StoreHandoff, HandOff, NonControl, audioVars, NoStatement, historyVars,
        StageInv, PublishedInv, RegistryInv, Saved, Settled, InputPending, Coming, Played,
        WriteOwed
<1>25. ASSUME AnnounceHandoff PROVE RegistryInv'
  BY <1>25
  DEF AnnounceHandoff, HandOff, NonControl, audioVars, NoStatement, historyVars,
      PublishedInv, RegistryInv, Saved, Settled, InputPending, Coming, Played, WriteOwed
<1>27. QED
  BY <1>1, <1>2, <1>3, <1>4, <1>5, <1>6, <1>7, <1>8, <1>9, <1>10, <1>11, <1>12,
     <1>13, <1>14, <1>15, <1>16, <1>17, <1>18, <1>19, <1>20, <1>21, <1>22, <1>23,
     <1>24, <1>25, <1>26
  DEF Next, AudioStep, ControlStep, CommitStep, HandoffStep

\* Nothing armed before the hand survives its adoption, and a queue that was let in
\* before the touch, once taken, is itself the last to have spoken.
LEMMA HandStep ==
  ASSUME TypeOK, StageInv, HandInv, Next
  PROVE  HandInv'
<1>1. ASSUME NEW flush \in BOOLEAN, NEW rebase \in BOOLEAN, BeginBlock(flush, rebase)
      PROVE  HandInv'
  BY <1>1 DEF BeginBlock, NonAudio, controlVars, SameAuthority, NoStatement, HandInv
<1>2. ASSUME PublishAdopted PROVE HandInv'
  BY <1>2
  DEF PublishAdopted, Publish, NonAudio, controlVars, SameAuthority, NoStatement,
      HandInv
<1>3. ASSUME Ingest PROVE HandInv'
  BY <1>3
  DEF Ingest, NonAudio, controlVars, SameAuthority, NoStatement, historyVars,
      HandInv
<1>4. ASSUME NoQueue PROVE HandInv'
  BY <1>4
  DEF NoQueue, NonAudio, controlVars, SameAuthority, NoStatement, historyVars,
      HandInv
<1>5. ASSUME NEW value \in Values, Classify(value) PROVE HandInv'
  BY <1>5
  DEF Classify, Statement, NonAudio, controlVars, SameAuthority, historyVars,
      HandInv
<1>6. ASSUME TakeQueue PROVE HandInv'
  BY <1>6
  DEF TakeQueue, Supersede, EditAwaitsBlock, Accept, NonAudio, controlVars,
      NoStatement, StageInv, HandInv
<1>7. ASSUME FinishIntake PROVE HandInv'
  BY <1>7
  DEF FinishIntake, Publish, NonAudio, controlVars, SameAuthority, NoStatement,
      HandInv
<1>8. ASSUME Render PROVE HandInv'
  BY <1>8
  DEF Render, Reaches, Due, Carries, NonAudio, controlVars, SameAuthority,
      NoStatement, historyVars, HandInv
<1>9. ASSUME Fail PROVE HandInv'
  BY <1>9
  DEF Fail, Reaches, Due, NonAudio, controlVars, SameAuthority, NoStatement,
      historyVars, HandInv
<1>10. ASSUME NEW value \in Values, NEW complete \in BOOLEAN, NEW image \in BOOLEAN,
              BeginEdit(value, complete, image)
       PROVE  HandInv'
  BY <1>10
  DEF BeginEdit, Statement, Free, DocumentFree, NonControl, audioVars,
      SameAuthority, writeVars, historyVars, StageInv, HandInv
<1>11. ASSUME EndEdit PROVE HandInv'
  BY <1>11
  DEF EndEdit, NonControl, audioVars, SameAuthority, NoStatement, writeVars, HandInv
<1>12. ASSUME AdoptEdit PROVE HandInv'
  BY <1>12
  DEF AdoptEdit, Free, Adopt, Accept, Supersede, NonControl, audioVars, NoStatement,
      HandInv
<1>13. ASSUME ConfigureEdit PROVE HandInv'
  <2>1. edit # None
    BY ValuesAreSome DEF TypeOK
  <2>2. QED
    BY <1>13, <2>1
    DEF ConfigureEdit, Configure, NonControl, audioVars, SameAuthority, NoStatement,
        writeVars, historyVars, HandInv
<1>14. ASSUME NEW opened \in BOOLEAN, Touch(opened) PROVE HandInv'
  BY <1>14
  DEF Touch, NonControl, audioVars, SameAuthority, NoStatement, writeVars, HandInv
<1>15. ASSUME Drain PROVE HandInv'
  BY <1>15
  DEF Drain, Free, DocumentFree, audioVars, SameAuthority, NoStatement, writeVars,
      historyVars, HandInv
<1>26. ASSUME WriteDrained PROVE HandInv'
  BY <1>26
  DEF WriteDrained, audioVars, SameAuthority, NoStatement, writeVars, historyVars,
      HandInv
<1>16. ASSUME Refresh PROVE HandInv'
  BY <1>16
  DEF Refresh, Free, DocumentFree, Configure, Overtakes, NonControl, audioVars,
      SameAuthority, NoStatement, writeVars, HandInv
<1>17. ASSUME Reset PROVE HandInv'
  BY <1>17
  DEF Reset, Free, SameAuthority, NoStatement, controlVars, writeVars, HandInv
<1>18. ASSUME NEW value \in Values, HostWrites(value) PROVE HandInv'
  BY <1>18
  DEF HostWrites, Statement, NonControl, audioVars, SameAuthority, controlVars,
      historyVars, HandInv
<1>19. ASSUME Arm PROVE HandInv'
  BY <1>19
  DEF Arm, Free, NonControl, audioVars, NoStatement, controlVars, historyVars,
      HandInv
<1>20. ASSUME Commit PROVE HandInv'
  BY <1>20
  DEF Commit, Free, NonControl, audioVars, SameAuthority, NoStatement, writeVars,
      historyVars, HandInv
<1>21. ASSUME CheckWrite PROVE HandInv'
  BY <1>21
  DEF CheckWrite, NonControl, audioVars, SameAuthority, NoStatement, historyVars,
      HandInv
<1>22. ASSUME AdoptWrite PROVE HandInv'
  BY <1>22
  DEF AdoptWrite, DocumentFree, Adopt, Accept, NonControl, audioVars, SameAuthority,
      NoStatement, writeVars, HandInv
<1>23. ASSUME BeginHandoff PROVE HandInv'
  BY <1>23
  DEF BeginHandoff, HandOff, NonControl, audioVars, NoStatement, historyVars,
      HandInv
<1>24. ASSUME StoreHandoff PROVE HandInv'
  BY <1>24
  DEF StoreHandoff, HandOff, NonControl, audioVars, NoStatement, historyVars,
      HandInv
<1>25. ASSUME AnnounceHandoff PROVE HandInv'
  BY <1>25
  DEF AnnounceHandoff, HandOff, NonControl, audioVars, NoStatement, historyVars,
      HandInv
<1>27. QED
  BY <1>1, <1>2, <1>3, <1>4, <1>5, <1>6, <1>7, <1>8, <1>9, <1>10, <1>11, <1>12,
     <1>13, <1>14, <1>15, <1>16, <1>17, <1>18, <1>19, <1>20, <1>21, <1>22, <1>23,
     <1>24, <1>25, <1>26
  DEF Next, AudioStep, ControlStep, CommitStep, HandoffStep

\* What the drain and the adoption must keep is kept by every step of every actor.
LEMMA AuthorityStep ==
  ASSUME AuthorityInv, [Next]_vars
  PROVE  AuthorityInv'
<1>1. CASE UNCHANGED vars
  BY <1>1
  DEF vars, AuthorityInv, TypeOK, StageInv, NoReplay, PublishedInv, RegistryInv,
      HandInv, Saved, Settled, InputPending, Coming, Played, WriteOwed
<1>2. CASE Next
  BY <1>2, TypeStep, StageStep, NoReplayStep, PublishedStep, RegistryStep, HandStep
  DEF AuthorityInv
<1>3. QED BY <1>1, <1>2

\* The inductive invariant holds, whatever the values and however much is said.
THEOREM AuthorityInvariance == Spec => []AuthorityInv
<1>1. QED BY InitAuthority, AuthorityStep, PTL DEF Spec

\* Every variable keeps its kind; in particular what is forced, handed off, played
\* or saved is always a value, never the mark for none.
THEOREM AuthorityTypes == Spec => []TypeOK
<1>1. AuthorityInv => TypeOK
  BY DEF AuthorityInv
<1>2. QED BY <1>1, AuthorityInvariance, PTL

\* Once everything said was taken in, what is saved and shown is what is heard, and
\* drainAutomationValues() never replays an older publication over the value
\* adoptAutomationAuthorityLocked() put in the registry.
THEOREM DocumentsFollowAudio == Spec => []DocumentFollowsAudio
<1>1. AuthorityInv => SavedIsPlayed
  <2> SUFFICES ASSUME AuthorityInv, Quiet, ~dropped
               PROVE  document = Played /\ registry = Played
    BY DEF SavedIsPlayed
  <2>1. Settled /\ Coming = Played
    BY DEF Quiet, Settled, InputPending, Coming
  <2>2. /\ ~undrained /\ configuration = None /\ ui = "idle"
        /\ section = "free" /\ ~(handoff.value # None /\ handoffCurrent)
    BY DEF Quiet, Free
  <2>3. ~WriteOwed
    BY <2>2 DEF WriteOwed
  <2>4. Saved = document
    BY DEF Saved, Quiet, DocumentFree
  <2>5. QED BY <2>1, <2>2, <2>3, <2>4 DEF AuthorityInv, RegistryInv
<1>2. AuthorityInv => DocumentFollowsAudio
  BY <1>1 DEF AuthorityInv, DocumentFollowsAudio
<1>3. QED BY <1>2, AuthorityInvariance, PTL

\* classifyHostInput(): "the hand on the control outranks the lane the host is
\* playing into it", under every interleaving of blocks, queues, edits, touches and
\* writes of the host.
THEOREM HandsOutrankLanes == Spec => []HandOutranksLane
<1>1. AuthorityInv => HandOutranksLane
  BY DEF AuthorityInv, HandInv, HandOutranksLane
<1>2. QED BY <1>1, AuthorityInvariance, PTL
=============================================================================
