-------------------------- MODULE StateReplacement --------------------------
(***************************************************************************)
(* How a project the host loads replaces document, runtime image and       *)
(* engine (plugin_processor.cpp:4161-6232).  setState() puts the document  *)
(* in place at once and asks the page to reload; the page that comes back  *)
(* sends the document back as a pipeline image, and only that image makes  *)
(* runtime and engine follow.  Until then, and on its way, requests of     *)
(* older pages arrive and are judged by the epoch and the page generation  *)
(* they entered with.                                                      *)
(*                                                                         *)
(* Contents are abstracted to their lineage: the restore (0 for the        *)
(* initial document) from which a pipeline, a bypass or an edit of one     *)
(* plug-in descends.  A request is one call of handleUiMessage(), and      *)
(* calls overlap: the web view may have moved to another thread, and the   *)
(* code's tests call it from threads of their own.  Every locked region is *)
(* one action.  Touches of the host are in HostGesture.                    *)
(***************************************************************************)
EXTENDS Naturals

CONSTANTS Requests,      \* calls of handleUiMessage() that may be under way
          MaxRestores,   \* bound: setState() calls ever made
          MaxPages,      \* bound: pages ever announced
          MaxRequests    \* bound: requests of the user ever sent

ASSUME StateReplacementAssumption ==
    /\ MaxRestores \in Nat /\ MaxRequests \in Nat
    /\ MaxPages \in Nat /\ MaxPages > MaxRestores

VARIABLES epoch,      \* stateReplacementEpoch_
          pending,    \* stateReplacementPending_
          pageGen,    \* uiPageGeneration_
          auth,       \* replacementPageAuthorized_, ..StateEpoch_, ..Generation_
          doc,        \* lineage of state_: pipeline in use, the other one, last edit
          runtime,    \* lineage of runtimePlugins_ and bypass_
          engine,     \* lineage of the pipeline the engine was built for
          restorer,   \* what setState() is doing
          page,       \* the live JavaScript context
          reload,     \* a reload has reached it
          rq,         \* the requests
          sent,       \* how many were sent
          lost        \* a reload or a rebuild of the restored document failed

vars == <<epoch, pending, pageGen, auth, doc, runtime, engine, restorer,
          page, reload, rq, sent, lost>>

Lineage == 0..MaxRestores

\* An engine that could not be built; the gate stays closed.
Down == MaxRestores + 1

\* The page's startup image may meet every other call under way.
Startup == "startup"
Calls == Requests \cup {Startup}
Kinds == {"rebuild", "history", "update"}

\* entry, page, during: what the request found when it entered.  base: what its
\* image descends from.  seen: the pipeline it read to build its own from.
Request ==
    [pc : {"idle", "decode", "replace", "ordinary", "history", "check", "commit"},
     base : Lineage, entry : Lineage, page : 0..MaxPages, during : BOOLEAN, seen : Lineage]

TypeOK ==
    /\ epoch \in Lineage /\ pending \in BOOLEAN /\ pageGen \in 0..MaxPages
    /\ auth \in [on : BOOLEAN, epoch : Lineage, page : 0..MaxPages]
    /\ doc \in [bulk : Lineage, other : Lineage, edit : Lineage, bypass : Lineage]
    /\ runtime \in [bulk : Lineage, edit : Lineage, bypass : Lineage]
    /\ engine \in Lineage \cup {Down}
    /\ restorer \in {"idle", "ask"}
    /\ page \in [phase : {"starting", "shaken", "loaded", "running"},
                 base : Lineage, keep : BOOLEAN]
    /\ reload \in BOOLEAN
    /\ rq \in [Calls -> Request] /\ sent \in 0..MaxRequests
    /\ lost \in BOOLEAN

NoRequest == [pc |-> "idle", base |-> 0, entry |-> 0, page |-> 0,
              during |-> FALSE, seen |-> 0]
NoPage == [phase |-> "starting", base |-> 0, keep |-> FALSE]

Init ==
    /\ epoch = 0 /\ pending = FALSE /\ pageGen = 0
    /\ auth = [on |-> FALSE, epoch |-> 0, page |-> 0]
    /\ doc = [bulk |-> 0, other |-> 0, edit |-> 0, bypass |-> 0]
    /\ runtime = [bulk |-> 0, edit |-> 0, bypass |-> 0] /\ engine = 0
    /\ restorer = "idle" /\ page = NoPage /\ reload = FALSE
    /\ rq = [r \in Calls |-> NoRequest] /\ sent = 0
    /\ lost = FALSE

contents  == <<doc, runtime, engine>>
authority == <<epoch, pending, pageGen, auth>>

Goto(r, pc) == rq' = [rq EXCEPT ![r].pc = pc]
Drop(r)     == rq' = [rq EXCEPT ![r] = NoRequest]

------------------------------------------------------------------------------
(* The restore and the page it calls for *)

\* setState(): document, epoch and marker change together, under the mutex.
Restore ==
    /\ restorer = "idle" /\ epoch < MaxRestores
    /\ doc' = [bulk |-> epoch + 1, other |-> epoch + 1, edit |-> epoch + 1, bypass |-> epoch + 1]
    /\ epoch' = epoch + 1 /\ pending' = TRUE
    /\ auth' = [auth EXCEPT !.on = FALSE]
    /\ restorer' = "ask"
    /\ UNCHANGED <<pageGen, runtime, engine, sent, page, reload, rq, lost>>

\* The reload is asked of whatever page lives.  It may not arrive; a page that
\* has not announced itself does not need it.
AskReload(arrives) ==
    /\ restorer = "ask" /\ restorer' = "idle"
    /\ reload' = (reload \/ arrives)
    /\ lost' = (lost \/ (~arrives /\ page.phase # "starting"))
    /\ UNCHANGED <<authority, contents, sent, page, rq>>

\* The context dies and another starts: the reload, or a new web view.
NewPage ==
    /\ reload \/ (page.phase = "running" /\ pageGen + MaxRestores < MaxPages)
    /\ page' = NoPage /\ reload' = FALSE
    /\ UNCHANGED <<authority, contents, sent, restorer, rq, lost>>

\* Mutant: a page is authorised for whatever is restored later.
HandshakeForever ==
    /\ page.phase = "starting"
    /\ pageGen' = pageGen + 1
    /\ auth' = [on |-> TRUE, epoch |-> MaxRestores, page |-> pageGen + 1]
    /\ page' = [page EXCEPT !.phase = "shaken", !.keep = ~pending]
    /\ UNCHANGED <<epoch, pending, contents, restorer, reload, rq, sent, lost>>

\* "host/getInfo" with startup: the page is authorised to complete the restore it found pending.  Where none
\* is, it keeps the pipeline that plays.
Handshake ==
    /\ page.phase = "starting"
    /\ pageGen' = pageGen + 1
    /\ auth' = IF pending THEN [on |-> TRUE, epoch |-> epoch, page |-> pageGen + 1]
                          ELSE [auth EXCEPT !.on = FALSE]
    /\ page' = [page EXCEPT !.phase = "shaken", !.keep = ~pending]
    /\ UNCHANGED <<epoch, pending, contents, restorer, reload, rq, sent, lost>>

\* The page reads pipeline-state.json, which the processor answers from state_.
Load ==
    /\ page.phase = "shaken"
    /\ page' = [page EXCEPT !.base = doc.bulk,
                            !.phase = IF page.keep THEN "running" ELSE "loaded"]
    /\ UNCHANGED <<authority, contents, sent, restorer, reload, rq, lost>>

\* Mutant: the bypass saved is always the one being played.
SavedDocumentPlaying == [bulk |-> doc.bulk, bypass |-> runtime.bypass]

\* What getState() writes: the bypass of the runtime stands for the document's
\* only when no restore is pending.
SavedDocument ==
    [bulk |-> doc.bulk, bypass |-> IF pending THEN doc.bypass ELSE runtime.bypass]

------------------------------------------------------------------------------
(* Requests *)

\* A request enters, and remembers what it found.
Enter(r, kind) ==
    /\ rq[r].pc = "idle"
    /\ rq' = [rq EXCEPT ![r] =
                IF kind = "update"
                  THEN [NoRequest EXCEPT !.pc = "check", !.base = page.base]
                  ELSE [NoRequest EXCEPT !.pc = IF kind = "rebuild" THEN "decode" ELSE kind,
                                         !.base = page.base, !.entry = epoch,
                                         !.page = pageGen, !.during = pending]]
    /\ UNCHANGED <<authority, contents, restorer, reload, lost>>

\* The user changes the pipeline, steps through the history or turns a knob.
Act(r, kind) ==
    /\ page.phase = "running" /\ sent < MaxRequests /\ sent' = sent + 1
    /\ Enter(r, kind)
    /\ UNCHANGED page

\* A page that found a restore pending sends the document back.
SendImage(r) ==
    /\ page.phase = "loaded" /\ page' = [page EXCEPT !.phase = "running"]
    /\ Enter(r, "rebuild")
    /\ UNCHANGED sent

Crossed(r) == epoch # rq[r].entry \/ pageGen # rq[r].page

\* Mutant: only the marker decides, not the generation the request entered in.
AuthorizedByMarker(r) == pending /\ auth.on

\* authorizedReplacementRequestLocked()
Authorized(r) ==
    /\ rq[r].during /\ pending /\ auth.on
    /\ auth.epoch = epoch /\ auth.page = pageGen /\ ~Crossed(r)

\* "pipeline/rebuild" decides by the marker, outside the mutex, which way to go.
Decide(r) ==
    /\ rq[r].pc = "decode"
    /\ Goto(r, IF pending THEN "replace" ELSE "ordinary")
    /\ UNCHANGED <<authority, contents, sent, restorer, page, reload, lost>>

\* The image of the authorised page becomes document, runtime and engine in one
\* window; an engine that cannot be configured leaves the restore pending.
Replace(r, configured) ==
    /\ rq[r].pc = "replace" /\ Drop(r)
    /\ IF Authorized(r)
         THEN /\ doc' = [doc EXCEPT !.bulk = rq[r].base, !.edit = rq[r].base]
              /\ runtime' = [bulk |-> rq[r].base, edit |-> rq[r].base, bypass |-> doc.bypass]
              /\ engine' = IF configured THEN rq[r].base ELSE Down
              /\ pending' = ~configured
              /\ auth' = [auth EXCEPT !.on = ~configured]
              /\ lost' = (lost \/ ~configured)
         ELSE UNCHANGED <<contents, pending, auth, lost>>
    /\ UNCHANGED <<epoch, pageGen, sent, restorer, page, reload>>

\* Mutant: a request that began under a restore now completed is let in.
CurrentlySettled(r) == ~pending

\* "pipeline/rebuild" and "pipeline/restoreHistory" outside a restore.
Settled(r) == ~rq[r].during /\ ~pending /\ ~Crossed(r)

\* restorePreviousPlayableGeneration(): the engine of the document, or none.
PutBack == engine' \in {doc.bulk, Down} /\ UNCHANGED <<doc, runtime>>

\* "pipeline/rebuild": the image becomes the pipeline in use.
Rebuild(r, built) ==
    /\ rq[r].pc = "ordinary" /\ Drop(r)
    /\ IF Settled(r) /\ built
         THEN /\ doc' = [doc EXCEPT !.bulk = rq[r].base, !.edit = rq[r].base]
              /\ runtime' = [runtime EXCEPT !.bulk = rq[r].base, !.edit = rq[r].base]
              /\ engine' = rq[r].base
         ELSE IF Settled(r) THEN PutBack ELSE UNCHANGED contents
    /\ UNCHANGED <<authority, sent, restorer, page, reload, lost>>

\* "pipeline/restoreHistory": the same for both pipelines at once.
RestoreHistory(r, built) ==
    /\ rq[r].pc = "history" /\ Drop(r)
    /\ IF Settled(r) /\ built
         THEN /\ doc' = [doc EXCEPT !.bulk = rq[r].base, !.other = rq[r].base, !.edit = rq[r].base]
              /\ runtime' = [runtime EXCEPT !.bulk = rq[r].base, !.edit = rq[r].base]
              /\ engine' = rq[r].base
         ELSE IF Settled(r) THEN PutBack ELSE UNCHANGED contents
    /\ UNCHANGED <<authority, sent, restorer, page, reload, lost>>

\* "pipeline/updatePlugin": a first look at the marker, under the mutex, and a
\* copy of the pipeline the update would produce.
Check(r) ==
    /\ rq[r].pc = "check"
    /\ rq' = [rq EXCEPT ![r] = IF pending THEN NoRequest
                                          ELSE [@ EXCEPT !.pc = "commit", !.seen = doc.bulk]]
    /\ UNCHANGED <<authority, contents, sent, restorer, page, reload, lost>>

\* The transaction looks at the marker again, and at nothing else.  The engine
\* takes a parameter image, or is rebuilt with the pipeline read before; an
\* engine that refuses is put back and the update is not committed.
Commit(r, rebuilt) ==
    /\ rq[r].pc = "commit" /\ Drop(r)
    /\ IF pending
         THEN UNCHANGED contents
         ELSE \/ /\ doc' = [doc EXCEPT !.edit = rq[r].base]
                 /\ runtime' = [runtime EXCEPT !.edit = rq[r].base]
                 /\ engine' = IF rebuilt THEN rq[r].seen ELSE engine
              \/ /\ rebuilt /\ engine' \in {rq[r].seen, Down}
                 /\ UNCHANGED <<doc, runtime>>
    /\ UNCHANGED <<authority, sent, restorer, page, reload, lost>>

StartUp == (reload /\ NewPage) \/ Handshake \/ Load \/ \E r \in Calls : SendImage(r)
Answer  == \E r \in Calls : \/ Decide(r) \/ Check(r)
                             \/ \E ok \in BOOLEAN : \/ Replace(r, ok) \/ Rebuild(r, ok)
                                                      \/ RestoreHistory(r, ok) \/ Commit(r, ok)
Asks    == \E arrives \in BOOLEAN : AskReload(arrives)

Next ==
    \/ Restore \/ Asks \/ NewPage \/ StartUp \/ Answer
    \/ \E r \in Requests, kind \in Kinds : Act(r, kind)

\* setState() returns, a page that starts goes on to send its image, and a
\* request is answered.  Restores and what the user does are never owed.
Spec == Init /\ [][Next]_vars /\ WF_vars(Asks) /\ WF_vars(StartUp) /\ WF_vars(Answer)

------------------------------------------------------------------------------
(* Properties *)

\* Whatever request arrives late, the pipelines of the document descend from the
\* latest restore; once none is pending, so do the runtime image and its bypass.
BulkImageIsCurrent ==
    /\ doc.bulk = epoch /\ doc.other = epoch /\ doc.bypass = epoch
    /\ ~pending => runtime.bulk = epoch /\ runtime.bypass = epoch

\* A project saved at any moment, also between setState() and the page's image,
\* is of one generation.
SavedIsOneGeneration == SavedDocument = [bulk |-> epoch, bypass |-> epoch]

\* The comment at plugin_processor.cpp:6092: setState() either publishes first and
\* makes the complete plug-in image a no-op, or waits and then replaces it whole.
ImageIsCurrent == doc.edit = epoch

\* A restore is completed by the page it calls for, unless the reload did not
\* arrive or the engine could not be configured.
RestoreCompletes == []<>(~pending \/ lost)
=============================================================================
