---------------------------- MODULE AssetUpdate ----------------------------
(***************************************************************************)
(* Sample banks and impulse responses on their way from the page into the  *)
(* engine (plugin_processor.cpp:3690-3761 and 4804-4997, engine_host.cpp:  *)
(* 478-1349).  A bank is announced, sent in pieces and committed by        *)
(* messages that may overlap.  Then it goes into a sample player without   *)
(* stopping the audio: the control thread lends the update to whoever owns *)
(* the engine at that moment, once to capture and once to apply.  Anything *)
(* else takes the engine for itself.  What the engine was given is kept in *)
(* a replay cache, from which a rebuild of the topology stages it again.   *)
(*                                                                         *)
(* A bank is the number of the request that brought it, 0 is none; its     *)
(* content is abstracted to whose pieces it was put together from, sizes   *)
(* count pieces.  Players share the sample memory, other instances have    *)
(* one of their own.  A window on the engine (AudioGate) is one action     *)
(* that meets no block.                                                    *)
(***************************************************************************)
EXTENDS Integers, Sequences, FiniteSets

CONSTANTS Instances,    \* logical ids of plug-ins that take an asset
          Players,      \* those with prepared updates: SFZ and SoundFont players
          Budget,       \* sample memory of each kind
          MaxRequests,  \* bound: banks ever announced or cleared
          MaxEvents     \* bound: rebuilds, setState() calls and pages loaded

ASSUME AssetUpdateAssumption ==
    /\ Players \subseteq Instances /\ IsFiniteSet(Instances)
    /\ {Budget, MaxRequests, MaxEvents} \subseteq Nat

VARIABLES inst,       \* instances_: there, bypassed by context, width, bank failed
          live,       \* the bank the engine plays for each instance
          cache,      \* assets_: the replay cache and the state it publishes
          transfers,  \* pendingAssetTransfers_
          owner,      \* who holds processingResourcesMutex_
          slot,       \* assetUpdateState_
          upd,        \* pendingAssetUpdate_ and what it found
          cb,         \* the callback in serviceAssetUpdateBoundary(), or out
          blocks,     \* while an update is under way: the host calls process()
          epoch,      \* stateReplacementEpoch_
          page,       \* uiPageGeneration_
          pending,    \* stateReplacementPending_, and whether the page is back
          calls,      \* the message under way for each request
          reqs,       \* what the pages ever asked for
          latest,     \* history: the last request accepted for each instance
          events

assetVars == <<inst, live, cache, transfers, owner, slot, upd, cb, blocks, epoch,
          page, pending, calls, reqs, latest, events>>
bankVars == <<inst, live>>
lentVars == <<owner, slot, upd>>
worldVars == <<epoch, page, pending, events>>
pageVars == <<calls, reqs, latest>>

Requests == 1..MaxRequests
NoOwner == 0

NoAsset == [known |-> FALSE, bank |-> 0, size |-> 0, rev |-> 0, state |-> "none"]
NoTransfer == [n |-> 0, bytes |-> 0, pages |-> 0, size |-> 0, epoch |-> 0, page |-> 0, rev |-> 0]
NoAssetUpdate == [bank |-> NoTransfer, size |-> 0, wide |-> FALSE, rev |-> 0,
             epoch |-> 0, limit |-> 0, ok |-> FALSE, applied |-> FALSE]
Idle == [pc |-> "idle", kind |-> "none", epoch |-> 0, page |-> 0, take |-> NoTransfer]
Built == [there |-> TRUE, bypassed |-> FALSE, wide |-> FALSE, failed |-> FALSE]

\* The engine starts with every instance built and nothing loaded.
AssetInit ==
    /\ inst = [i \in Instances |-> Built]
    /\ live = [i \in Instances |-> 0]
    /\ cache = [i \in Instances |->
                  IF i \in Players THEN [NoAsset EXCEPT !.known = TRUE, !.rev = 1] ELSE NoAsset]
    /\ transfers = [i \in Instances |-> NoTransfer]
    /\ owner = NoOwner /\ slot = "idle" /\ upd = NoAssetUpdate /\ cb = "out"
    /\ blocks = TRUE /\ epoch = 1 /\ page = 1 /\ pending = "no"
    /\ calls = [n \in Requests |-> Idle] /\ reqs = <<>>
    /\ latest = [i \in Instances |-> 0] /\ events = 0

-----------------------------------------------------------------------------
(* Memory and published states.                                            *)

Mates(i) == IF i \in Players THEN Players ELSE Instances \ Players
Sending(is) == {j \in is : transfers[j].n # 0}

\* The pieces that a table holds for some instances.
Pieces(table, is) == UNION {{j} \X (1..table[j].size) : j \in is}
Cached(is) == Cardinality(Pieces(cache, is))
OnTheWay(is) == Cardinality(Pieces(transfers, is))

\* Memory left for a bank of i beside the cached banks of its kind.
Remaining(i) == Budget - Cached(Mates(i) \ {i})

\* refreshAssetStatesUnlocked()
State(in, lv, i) ==
    IF ~in[i].there \/ in[i].bypassed THEN "none"
    ELSE IF in[i].failed THEN "error"
    ELSE IF lv[i] # 0 THEN "active" ELSE "none"
Refreshed(ch, in, lv) ==
    [i \in Instances |-> [ch[i] EXCEPT !.state = IF ch[i].known THEN State(in, lv, i) ELSE "none"]]

\* supersedeAssetRequest(): 0 where the cache knows nothing of the instance.
Superseded(i) == [cache EXCEPT ![i].rev = IF cache[i].known THEN @ + 1 ELSE @]

-----------------------------------------------------------------------------
(* Messages.  A page sends the pieces of one bank in order and waits for   *)
(* each answer; banks of one page overlap.                                 *)

Following(n, kind) ==
    CASE kind = "begin" -> "bytes"
      [] kind = "bytes" -> IF reqs[n].paged THEN "pages" ELSE "commit"
      [] kind = "pages" -> "commit"
      [] OTHER -> "done"

Call(pc, kind) ==
    [Idle EXCEPT !.pc = pc, !.kind = kind, !.epoch = epoch, !.page = page]

\* A request of this page; operation revisions count from one in each page.
\* History: an orphan is one whose instance left the cache.
Asks(i, paged, next) ==
    Append(reqs, [i |-> i, paged |-> paged, page |-> page, next |-> next, orphan |-> ~cache[i].known,
                  op |-> 1 + Cardinality({m \in DOMAIN reqs : reqs[m].page = page})])

Reply(c, ok) ==
    /\ calls' = [calls EXCEPT ![c] = Idle]
    /\ reqs' = [reqs EXCEPT ![c].next =
                  IF ok THEN Following(c, calls[c].kind) ELSE "done"]

\* beginPluginAsset: the memory of what is on its way counts, its cached
\* predecessor does not.  What the page is refused it does not ask again.
BeginTransfer(i, paged) ==
    LET others == Sending(Mates(i) \ {i})
        n == Len(reqs) + 1
    IN /\ n <= MaxRequests /\ inst[i].there /\ (paged => i \in Players)
       /\ 1 + OnTheWay(others) + Cached(Mates(i) \ (others \cup {i})) <= Budget
       /\ cache' = Superseded(i)
       /\ transfers' = [transfers EXCEPT ![i] =
             [NoTransfer EXCEPT !.n = n, !.size = 1, !.epoch = epoch, !.page = page,
                                !.rev = cache'[i].rev]]
       /\ latest' = [latest EXCEPT ![i] = n]
       /\ reqs' = Asks(i, paged, "bytes")
       /\ UNCHANGED <<bankVars, lentVars, cb, blocks, worldVars, calls>>

\* clearPluginAsset, up to processingResourcesMutex_
Clear(i) ==
    LET n == Len(reqs) + 1
    IN /\ n <= MaxRequests
       /\ transfers' = [transfers EXCEPT ![i] = NoTransfer]
       /\ cache' = Superseded(i)
       /\ latest' = [latest EXCEPT ![i] = n]
       /\ reqs' = Asks(i, FALSE, "done")
       /\ calls' = [calls EXCEPT ![n] =
             [Call("lock", "clear") EXCEPT !.take.rev = cache'[i].rev]]
       /\ UNCHANGED <<bankVars, lentVars, cb, blocks, worldVars>>

\* The page goes on with a bank, or gives it up; the message may be overtaken
\* before it finds the transfer.
Continue(n) ==
    /\ calls[n].pc = "idle" /\ n \in DOMAIN reqs
    /\ reqs[n].page = page /\ reqs[n].next # "done"
    /\ \E kind \in {reqs[n].next, "cancel"} \cup
                    (IF reqs[n].next = "pages" THEN {"commit"} ELSE {}) :
          calls' = [calls EXCEPT ![n] = Call("entered", kind)]
    /\ UNCHANGED <<bankVars, cache, transfers, lentVars, cb, blocks, worldVars, reqs, latest>>

Entered(c, kind) == calls[c].pc = "entered" /\ calls[c].kind = kind

\* Is the transfer under way for this instance the one the message is about?
\* Mutant: the page that asks is not compared.
MatchesAnyPage(c) ==
    LET t == transfers[reqs[c].i]
    IN t.n # 0 /\ reqs[t.n].op = reqs[c].op /\ t.epoch = calls[c].epoch
Matches(c) ==
    LET t == transfers[reqs[c].i]
    IN /\ t.n # 0 /\ reqs[t.n].op = reqs[c].op
       /\ t.epoch = calls[c].epoch /\ t.page = calls[c].page

\* appendPluginAsset, appendPluginAssetPage
MoreFits(i) ==
    OnTheWay(Mates(i)) + 1 + Cached(Mates(i) \ Sending(Mates(i))) <= Budget

AppendPiece(c) ==
    LET i == reqs[c].i IN
    /\ \/ /\ Entered(c, "bytes")
          /\ IF Matches(c) /\ transfers[i].bytes = 0
             THEN transfers' = [transfers EXCEPT ![i].bytes = c] /\ Reply(c, TRUE)
             ELSE Reply(c, FALSE) /\ UNCHANGED transfers
       \/ /\ Entered(c, "pages")
          /\ IF Matches(c) /\ reqs[transfers[i].n].paged /\ MoreFits(i)
             THEN /\ transfers' = [transfers EXCEPT ![i].pages = c, ![i].size = @ + 1]
                  /\ Reply(c, TRUE)
             ELSE Reply(c, FALSE) /\ UNCHANGED transfers
    /\ UNCHANGED <<bankVars, cache, lentVars, cb, blocks, worldVars, latest>>

Cancel(c) ==
    /\ Entered(c, "cancel")
    /\ transfers' = IF Matches(c) THEN [transfers EXCEPT ![reqs[c].i] = NoTransfer] ELSE transfers
    /\ Reply(c, FALSE)
    /\ UNCHANGED <<bankVars, cache, lentVars, cb, blocks, worldVars, latest>>

\* commitPluginAsset: a SoundFont's pages are read from its file here.
Commit(c) ==
    LET i == reqs[c].i
        t == transfers[i]
        fromFile == t.n # 0 /\ reqs[t.n].paged /\ t.pages = 0
    IN /\ Entered(c, "commit")
       /\ IF Matches(c) /\ t.bytes # 0 /\ (fromFile => MoreFits(i))
          THEN /\ transfers' = [transfers EXCEPT ![i] = NoTransfer]
               /\ calls' = [calls EXCEPT ![c].pc = "lock", ![c].take =
                    IF fromFile THEN [t EXCEPT !.pages = c, !.size = @ + 1] ELSE t]
               /\ UNCHANGED reqs
          ELSE Reply(c, FALSE) /\ UNCHANGED transfers
       /\ UNCHANGED <<bankVars, cache, lentVars, cb, blocks, worldVars, latest>>

-----------------------------------------------------------------------------
(* Under processingResourcesMutex_: what cannot be exchanged while it      *)
(* plays takes the engine.                                                 *)

Clears(c) == calls[c].kind = "clear"
Supports(i) == i \in Players /\ inst[i].there /\ ~inst[i].bypassed
Locks(c) == calls[c].pc = "lock" /\ owner = NoOwner

\* setAsset()
SetAsset(c) ==
    LET i == reqs[c].i
        t == calls[c].take
    IN /\ Locks(c) /\ ~Clears(c) /\ ~Supports(i) /\ cb = "out"
       /\ \/ /\ inst[i].there /\ t.size <= Remaining(i)
             /\ live' = IF inst[i].bypassed THEN live ELSE [live EXCEPT ![i] = t.n]
             /\ cache' = Refreshed([cache EXCEPT ![i].known = TRUE, ![i].bank = t.n,
                                                 ![i].size = t.size], inst, live')
             /\ Reply(c, TRUE)
          \/ \* gone, too large, or refused by the engine
             /\ ~(inst[i].there /\ inst[i].bypassed /\ t.size <= Remaining(i))
             /\ Reply(c, FALSE) /\ UNCHANGED <<live, cache>>
       /\ UNCHANGED <<inst, transfers, lentVars, cb, blocks, worldVars, latest>>

\* History: requests of instances that left the cache, where the count of their
\* revisions starts over.
Orphaned(left) ==
    [n \in DOMAIN reqs |->
        IF reqs[n].i \in left THEN [reqs[n] EXCEPT !.orphan = TRUE] ELSE reqs[n]]

\* clearAsset(): only a player that is there keeps its place in the cache.
ClearAsset(c) ==
    LET i == reqs[c].i
        player == inst[i].there /\ i \in Players
    IN /\ Locks(c) /\ Clears(c) /\ ~Supports(i) /\ cb = "out"
       /\ live' = IF inst[i].there /\ ~inst[i].bypassed THEN [live EXCEPT ![i] = 0] ELSE live
       /\ inst' = IF player THEN [inst EXCEPT ![i].failed = FALSE] ELSE inst
       /\ cache' = Refreshed([cache EXCEPT ![i] =
                      IF player THEN [NoAsset EXCEPT !.known = TRUE, !.rev = cache[i].rev + 1]
                                ELSE NoAsset], inst', live')
       /\ reqs' = IF player THEN reqs ELSE Orphaned({i})
       /\ calls' = [calls EXCEPT ![c] = Idle]
       /\ UNCHANGED <<transfers, lentVars, cb, blocks, worldVars, latest>>

-----------------------------------------------------------------------------
(* A sample player's bank is exchanged under the running audio.            *)

\* createAssetUpdate() and the request
Create(c) ==
    LET i == reqs[c].i
        t == calls[c].take
    IN /\ Locks(c) /\ Supports(i)
       /\ IF cache[i].known /\ (Clears(c) \/ t.size <= Remaining(i))
          THEN /\ owner' = c /\ slot' = "requested" /\ blocks' \in BOOLEAN
               /\ upd' = [NoAssetUpdate EXCEPT !.bank = t, !.size = t.size,
                            !.wide = inst[i].wide, !.epoch = calls[c].epoch,
                            !.rev = IF t.rev = 0 THEN cache[i].rev ELSE t.rev,
                            !.limit = Remaining(i)]
               /\ calls' = [calls EXCEPT ![c].pc = "await"]
               /\ UNCHANGED reqs
          ELSE Reply(c, FALSE) /\ UNCHANGED <<lentVars, blocks>>
       /\ UNCHANGED <<bankVars, cache, transfers, cb, worldVars, latest>>

Updated == reqs[owner].i

\* Does the update still describe its instance?
\* Mutant: the request revision is not compared.
CurrentByWidth == inst[Updated].there /\ inst[Updated].wide = upd.wide /\ cache[Updated].known
Current == /\ inst[Updated].there /\ inst[Updated].wide = upd.wide
              /\ cache[Updated].known /\ cache[Updated].rev = upd.rev

\* applyAssetUpdate() inside the engine: refused, applied, or applied and then
\* cleared because the stream of a paged bank could not be activated.
Applied ==
    LET i == Updated
        paged == upd.bank.n # 0 /\ reqs[owner].paged
        accept == live' = [live EXCEPT ![i] = upd.bank.n]
    IN \/ /\ upd' = [upd EXCEPT !.ok = FALSE] /\ UNCHANGED <<bankVars, cache>>
       \/ /\ Current /\ accept
          /\ inst' = [inst EXCEPT ![i].failed = FALSE]
          /\ cache' = [cache EXCEPT ![i].state = IF upd.bank.n = 0 THEN "none" ELSE "active"]
          /\ upd' = [upd EXCEPT !.ok = TRUE, !.applied = TRUE]
       \/ /\ Current /\ paged
          /\ live' = [live EXCEPT ![i] = 0]
          /\ inst' = [inst EXCEPT ![i].failed = TRUE]
          /\ cache' = [cache EXCEPT ![i].state = "error"]
          /\ upd' = [upd EXCEPT !.ok = FALSE]

Lent == slot \in {"requested", "prepared"}
Obsolete == pending # "no" \/ epoch # upd.epoch

\* serviceAssetUpdateBoundary() for whoever owns the engine.
Serve(refuse) ==
    IF refuse
    THEN /\ slot' = "retired" /\ upd' = [upd EXCEPT !.ok = FALSE]
         /\ UNCHANGED <<bankVars, cache>>
    ELSE IF slot = "requested"
    THEN /\ \/ Current /\ slot' = "captured" /\ upd' = [upd EXCEPT !.ok = TRUE]
            \/ slot' = "retired" /\ upd' = [upd EXCEPT !.ok = FALSE]
         /\ UNCHANGED <<bankVars, cache>>
    ELSE slot' = "retired" /\ Applied

\* The callback on its way to the engine, and in it.
Look ==
    /\ cb = "out" /\ blocks /\ Lent
    /\ cb' = IF Obsolete THEN "refuse" ELSE "serve"
    /\ UNCHANGED <<bankVars, cache, transfers, lentVars, blocks, worldVars, pageVars>>

ServeInBlock ==
    /\ cb # "out"
    /\ Serve(cb = "refuse") /\ cb' = "out"
    /\ UNCHANGED <<transfers, owner, blocks, worldVars, pageVars>>

\* awaitBoundary() finds no callback, and serves under a window of its own.
\* Mutant: it is the running host whose callback it stands in for.
ObserveRunning(c) ==
    /\ calls[c].pc = "await" /\ Lent /\ blocks
    /\ calls' = [calls EXCEPT ![c].pc = "window"]
    /\ UNCHANGED <<bankVars, cache, transfers, lentVars, cb, blocks, worldVars, reqs, latest>>
Observe(c) ==
    /\ calls[c].pc = "await" /\ Lent /\ ~blocks
    /\ calls' = [calls EXCEPT ![c].pc = "window"]
    /\ UNCHANGED <<bankVars, cache, transfers, lentVars, cb, blocks, worldVars, reqs, latest>>

\* Mutant: it does not wait for a block that is in the engine.
ServeUnderBlock(c) ==
    /\ calls[c].pc = "window"
    /\ IF Lent THEN Serve(Obsolete) ELSE UNCHANGED <<bankVars, cache, slot, upd>>
    /\ calls' = [calls EXCEPT ![c].pc = "await"]
    /\ UNCHANGED <<transfers, owner, cb, blocks, worldVars, reqs, latest>>
ServeInWindow(c) ==
    /\ calls[c].pc = "window" /\ cb = "out"
    /\ IF Lent THEN Serve(Obsolete) ELSE UNCHANGED <<bankVars, cache, slot, upd>>
    /\ calls' = [calls EXCEPT ![c].pc = "await"]
    /\ UNCHANGED <<transfers, owner, cb, blocks, worldVars, reqs, latest>>

\* prepareAssetUpdate(), outside every window: the instance may need more
\* memory than the page declared, and pages must be complete.
\* Mutant: what the instance needs is not compared with what is left.
PrepareUnlimited(c) ==
    LET paged == upd.bank.n # 0 /\ reqs[owner].paged
    IN /\ calls[c].pc = "await" /\ slot = "captured"
       /\ \E extra \in 0..1 :
             /\ upd.bank.n = 0 => extra = 0
             /\ upd' = [upd EXCEPT !.size = @ + extra]
       /\ IF paged THEN UNCHANGED slot ELSE slot' = "prepared"
       /\ calls' = [calls EXCEPT ![c].pc = IF paged THEN "activate" ELSE "await"]
       /\ UNCHANGED <<bankVars, cache, transfers, owner, cb, blocks, worldVars, reqs, latest>>
Prepare(c) ==
    LET paged == upd.bank.n # 0 /\ reqs[owner].paged
    IN /\ calls[c].pc = "await" /\ slot = "captured"
       /\ \/ /\ calls' = [calls EXCEPT ![c].pc = "finish"]
             /\ upd' = [upd EXCEPT !.ok = FALSE] /\ UNCHANGED slot
          \/ \E extra \in 0..1 :
                /\ paged => upd.bank.pages # 0
                /\ upd.bank.n = 0 => extra = 0
                /\ upd.size + extra <= upd.limit \/ upd.bank.n = 0
                /\ upd' = [upd EXCEPT !.size = @ + extra]
                /\ IF paged THEN UNCHANGED slot ELSE slot' = "prepared"
                /\ calls' = [calls EXCEPT ![c].pc = IF paged THEN "activate" ELSE "await"]
       /\ UNCHANGED <<bankVars, cache, transfers, owner, cb, blocks, worldVars, reqs, latest>>

\* A paged bank is applied and activated under a window.
Activate(c) ==
    /\ calls[c].pc = "activate" /\ cb = "out"
    /\ Applied
    /\ calls' = [calls EXCEPT ![c].pc = "finish"]
    /\ UNCHANGED <<transfers, owner, slot, cb, blocks, worldVars, reqs, latest>>

\* finishAssetUpdate(): what was applied is what a rebuild replays.
\* Mutant: it is cached although it was not applied.
FinishUpdateAlways(c) ==
    /\ calls[c].pc = "finish" \/ (calls[c].pc = "await" /\ slot = "retired")
    /\ cache' = [cache EXCEPT ![Updated].bank = upd.bank.n, ![Updated].size = upd.size]
    /\ owner' = NoOwner /\ slot' = "idle" /\ upd' = NoAssetUpdate /\ blocks' = TRUE
    /\ Reply(c, upd.ok)
    /\ UNCHANGED <<bankVars, transfers, cb, worldVars, latest>>
FinishUpdate(c) ==
    /\ calls[c].pc = "finish" \/ (calls[c].pc = "await" /\ slot = "retired")
    /\ cache' = IF upd.applied
                THEN [cache EXCEPT ![Updated].bank = upd.bank.n, ![Updated].size = upd.size]
                ELSE cache
    /\ owner' = NoOwner /\ slot' = "idle" /\ upd' = NoAssetUpdate /\ blocks' = TRUE
    /\ Reply(c, upd.ok)
    /\ UNCHANGED <<bankVars, transfers, cb, worldVars, latest>>

-----------------------------------------------------------------------------
(* The topology is rebuilt under a window, by a page that may do so.       *)

Editable == owner = NoOwner /\ cb = "out" /\ pending # "reload" /\ events < MaxEvents

\* rebuild() with the new instances `new` of the document `doc`: players whose
\* width and type stay keep their bank; what left the document is dropped.
Retained(new) ==
    {i \in Players : /\ inst[i].there /\ new[i].there /\ ~inst[i].bypassed
                     /\ ~new[i].bypassed /\ inst[i].wide = new[i].wide}

\* stageAssetUnlocked(): what is staged anew from the cache; it may fail.
Replayed(new) == {i \in Instances \ Retained(new) :
                     new[i].there /\ ~new[i].bypassed /\ cache[i].bank # 0}

RetainAssets(doc, ch) == [i \in Instances |-> IF i \in doc THEN ch[i] ELSE NoAsset]
PruneTransfers(doc) == [i \in Instances |-> IF i \in doc THEN transfers[i] ELSE NoTransfer]

Rebuilt(doc, new, staged) ==
    /\ live' = [i \in Instances |->
          IF i \in Retained(new) THEN live[i]
          ELSE IF i \in Replayed(new) \cap staged THEN cache[i].bank ELSE 0]
    /\ inst' = [i \in Instances |-> [new[i] EXCEPT !.failed =
          IF i \in Retained(new) THEN inst[i].failed
          ELSE i \in Players /\ i \in Replayed(new) \ staged]]
    /\ cache' = Refreshed(RetainAssets(doc, [i \in Instances |->
          IF i \in Players /\ new[i].there
          THEN [cache[i] EXCEPT !.known = TRUE, !.rev = @ + 1] ELSE cache[i]]), inst', live')
    /\ transfers' = PruneTransfers(doc)

\* One edit concerns one plug-in, which may be in use, in the other pipeline
\* only, or deleted.
Rebuild ==
    /\ Editable
    /\ \E i \in Instances, there, bypassed, wide \in BOOLEAN :
          \E doc \in {Instances, Instances \ {i}}, staged \in SUBSET Instances :
             /\ bypassed \/ wide => there
             /\ wide => i \in Players /\ ~bypassed
             /\ there => i \in doc
             /\ Rebuilt(doc, [inst EXCEPT ![i] = [there |-> there, bypassed |-> bypassed,
                                                 wide |-> wide, failed |-> FALSE]], staged)
             /\ reqs' = Orphaned(Instances \ doc)
    /\ pending' = "no" /\ events' = events + 1
    /\ UNCHANGED <<lentVars, cb, blocks, epoch, page, calls, latest>>

\* clearInstancesUnlocked(): a rebuild that fails leaves no instance, and no
\* bank but those in the cache.
RebuildFails ==
    /\ Editable
    /\ inst' = [i \in Instances |-> [Built EXCEPT !.there = FALSE]]
    /\ live' = [i \in Instances |-> 0]
    /\ cache' = Refreshed(cache, inst', live')
    /\ events' = events + 1
    /\ UNCHANGED <<transfers, lentVars, cb, blocks, epoch, page, pending, pageVars>>

-----------------------------------------------------------------------------
(* The host, the editor.                                                   *)

\* setState() announces a new document; the page is asked to load again.
Restore == /\ events < MaxEvents /\ events' = events + 1
           /\ epoch' = epoch + 1 /\ pending' = "reload"
           /\ UNCHANGED <<bankVars, cache, transfers, lentVars, cb, blocks, page, pageVars>>

\* A page loads, because it was asked to or because the editor was opened.
NewPage == /\ events < MaxEvents /\ events' = events + 1
           /\ page' = page + 1 /\ pending' = IF pending = "reload" THEN "loading" ELSE pending
           /\ UNCHANGED <<bankVars, cache, transfers, lentVars, cb, blocks, epoch, pageVars>>

\* The host stops or starts while an update waits for someone to serve it.
HostPlays ==
    /\ owner # NoOwner /\ blocks' = ~blocks
    /\ UNCHANGED <<bankVars, cache, transfers, lentVars, cb, worldVars, pageVars>>

Page == \/ \E i \in Instances, paged \in BOOLEAN : BeginTransfer(i, paged)
        \/ \E i \in Instances : Clear(i)
        \/ \E n \in Requests : Continue(n)
Message(c) == AppendPiece(c) \/ Cancel(c) \/ Commit(c)
Exchange(c) == \/ Create(c) \/ Observe(c) \/ ServeInWindow(c) \/ Prepare(c)
               \/ Activate(c) \/ FinishUpdate(c)
Proceed(c) == Message(c) \/ SetAsset(c) \/ ClearAsset(c) \/ Exchange(c)
Block == Look \/ ServeInBlock
World == Rebuild \/ RebuildFails \/ Restore \/ NewPage \/ HostPlays

AssetNext == \/ \E c \in Requests : Proceed(c)
        \/ Page \/ Block \/ World

\* Threads go on with a message they began; a host that plays calls process().
Fairness == /\ \A c \in Requests : WF_assetVars(Proceed(c))
            /\ SF_assetVars(Look) /\ WF_assetVars(ServeInBlock)

AssetSpec == AssetInit /\ [][AssetNext]_assetVars /\ Fairness

-----------------------------------------------------------------------------
(* Properties.                                                             *)

Numbers == 0..MaxRequests

AssetTypeOK ==
    /\ inst \in [Instances -> [there : BOOLEAN, bypassed : BOOLEAN, wide : BOOLEAN, failed : BOOLEAN]]
    /\ live \in [Instances -> Numbers]
    /\ \A i \in Instances : /\ cache[i].bank \in Numbers /\ cache[i].rev \in Nat
                            /\ cache[i].state \in {"none", "active", "error"}
                            /\ transfers[i].n \in Numbers
    /\ owner \in 0..MaxRequests
    /\ slot \in {"idle", "requested", "captured", "prepared", "retired"}
    /\ cb \in {"out", "serve", "refuse"}
    /\ latest \in [Instances -> Numbers]

\* The storage of an update is used by one side at a time: while the callback
\* is in it (plugin_processor.cpp:3700-3704), the control thread neither
\* prepares nor releases it, and the slot says what the callback took it for.
OneUserOfUpdate ==
    cb # "out" => Lent /\ owner # NoOwner /\ calls[owner].pc \in {"await", "window"}

\* What the page is told is active is what the engine plays, and what a rebuild
\* would stage again (engine_host.cpp:1206-1215), whichever step failed.
ReplayIsLive ==
    \A i \in Instances :
        cache[i].state = "active" /\ (owner # NoOwner => i # Updated) =>
            live[i] = cache[i].bank /\ live[i] # 0

\* The banks in the cache fit into the memory of their kind, although an
\* instance may need more for a bank than its page had declared.
WithinBudget == \A i \in Instances : Cached(Mates(i)) <= Budget

\* A bank the engine plays is put together from the pieces of one request, even
\* when operation numbers start over in a page that replaces another
\* (plugin_processor.cpp:4858-4861).
WholeBank == upd.applied /\ upd.bank.n # 0 => /\ owner = upd.bank.n /\ upd.bank.bytes = upd.bank.n
                                             /\ upd.bank.pages \in {0, upd.bank.n}

\* What a page was answered about its banks is true of engine, cache and memory.
BanksAreAsAnswered == ReplayIsLive /\ WithinBudget /\ WholeBank

\* A player is never given a bank, nor cleared, by a request that a later one
\* has superseded (engine_host.cpp:1189-1190), unless its instance left the
\* replay cache in between and the count of requests started over.
NewestBankWins ==
    [][upd'.applied /\ ~upd.applied => owner = latest[Updated] \/ reqs[owner].orphan]_assetVars

\* A message gets its answer, whether the host plays, stops or starts again
\* while the update waits for someone to serve it.
MessagesEnd == []<>(\A n \in Requests : calls[n].pc = "idle")
=============================================================================
