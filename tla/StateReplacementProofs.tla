----------------------- MODULE StateReplacementProofs -----------------------
(***************************************************************************)
(* For any number of restores, pages and overlapping requests: whatever    *)
(* arrives late, the document is of the latest restore, and so is what is  *)
(* saved.                                                                  *)
(***************************************************************************)
EXTENDS StateReplacement, TLAPS

\* The page of the current generation may complete the restore that is pending.
Entitled == auth.on /\ auth.epoch = epoch /\ auth.page = pageGen

\* The page holds a pipeline it loaded.
HasLoaded == page.phase \in {"loaded", "running"}

\* What a page would send is of the latest restore whenever it could be let in:
\* as the image that completes the restore, or as an edit outside of one.
PageInv == HasLoaded /\ (Entitled \/ ~pending) => page.base = epoch

\* An image on its way that nothing has crossed.  One that entered outside a
\* restore is good until the next one, one that entered during a restore as long
\* as its page is the one that may complete it.
ImageInv(q) ==
    q.pc \in {"decode", "replace", "ordinary", "history"} =>
       /\ q.entry <= epoch /\ q.page <= pageGen
       /\ ~q.during /\ q.entry = epoch => q.base = epoch /\ ~pending
       /\ q.during /\ q.entry = epoch /\ q.page = pageGen /\ Entitled => q.base = epoch

RequestsInv == \A r \in Calls : ImageInv(rq[r])

\* The pages that may still be announced: the one that starts, the one a reload
\* under way will bring, and one for each restore yet to come.
One(b) == IF b THEN 1 ELSE 0

PagesInv ==
    /\ restorer = "ask" => epoch > 0
    /\ pageGen + One(page.phase = "starting") + One(reload) + One(restorer = "ask")
          + (MaxRestores - epoch) <= MaxPages

RestoreInv == TypeOK /\ BulkImageIsCurrent /\ PageInv /\ RequestsInv /\ PagesInv

\* Nothing has been loaded, and the only page is the one that starts.
LEMMA InitInv ==
    ASSUME Init
    PROVE  RestoreInv
<1>1. MaxRestores \in Nat /\ MaxRequests \in Nat /\ MaxPages \in Nat /\ MaxPages > MaxRestores
    BY StateReplacementAssumption
<1>2. TypeOK
    <2>1. NoRequest \in Request
        BY <1>1 DEF NoRequest, Request, Lineage
    <2>2. rq \in [Calls -> Request] /\ sent \in 0..MaxRequests
        BY <1>1, <2>1 DEF Init
    <2>3. auth \in [on : BOOLEAN, epoch : Lineage, page : 0..MaxPages]
        BY <1>1 DEF Init, Lineage
    <2>4. /\ doc \in [bulk : Lineage, other : Lineage, edit : Lineage, bypass : Lineage]
          /\ runtime \in [bulk : Lineage, edit : Lineage, bypass : Lineage]
        BY <1>1 DEF Init, Lineage
    <2>5. page \in [phase : {"starting", "shaken", "loaded", "running"},
                     base : Lineage, keep : BOOLEAN]
        BY <1>1 DEF Init, NoPage, Lineage
    <2>6. epoch \in Lineage /\ engine \in Lineage \cup {Down} /\ pageGen \in 0..MaxPages
        BY <1>1 DEF Init, Lineage
    <2>7. QED BY <2>2, <2>3, <2>4, <2>5, <2>6 DEF Init, TypeOK
<1>3. BulkImageIsCurrent /\ PageInv
    BY DEF Init, BulkImageIsCurrent, PageInv, HasLoaded, NoPage
<1>4. RequestsInv
    BY DEF Init, RequestsInv, ImageInv, NoRequest
<1>5. PagesInv
    BY <1>1 DEF Init, PagesInv, One, NoPage
<1>6. QED BY <1>2, <1>3, <1>4, <1>5 DEF RestoreInv

\* An action of one request touches no other: as long as the authority stands,
\* what is left to show is that the request itself is still good.
LEMMA OneRequest ==
    ASSUME TypeOK, RequestsInv, UNCHANGED authority,
           NEW r \in Calls, NEW new \in Request, rq' = [rq EXCEPT ![r] = new],
           ImageInv(new)
    PROVE  RequestsInv' /\ rq' \in [Calls -> Request]
<1>1. rq \in [Calls -> Request]
    BY DEF TypeOK
<1>2. ASSUME NEW s \in Calls
      PROVE  ImageInv(rq[s])'
    <2>1. CASE s = r
        BY <1>1, <2>1 DEF authority, ImageInv, Entitled
    <2>2. CASE s # r
        BY <1>1, <2>2 DEF authority, RequestsInv, ImageInv, Entitled
    <2>3. QED BY <2>1, <2>2
<1>3. QED BY <1>1, <1>2 DEF RequestsInv

\* An idle request carries nothing.
LEMMA Dropped ==
    NoRequest \in Request /\ ImageInv(NoRequest)
BY StateReplacementAssumption DEF NoRequest, Request, Lineage, ImageInv

\* setState(): no page is entitled to the new restore, and no request is of it.
LEMMA RestoreStep ==
    ASSUME RestoreInv, Restore
    PROVE  RestoreInv'
<1>1. /\ epoch \in 0..MaxRestores /\ epoch < MaxRestores /\ MaxRestores \in Nat
      /\ auth \in [on : BOOLEAN, epoch : Lineage, page : 0..MaxPages]
      /\ rq \in [Calls -> Request] /\ pageGen \in 0..MaxPages /\ MaxPages \in Nat
    BY StateReplacementAssumption DEF RestoreInv, TypeOK, Restore, Lineage
<1>2. auth' \in [on : BOOLEAN, epoch : Lineage, page : 0..MaxPages] /\ ~auth'.on
    BY <1>1 DEF Restore
<1>3. TypeOK'
    BY <1>1, <1>2 DEF RestoreInv, TypeOK, Restore, Lineage
<1>4. BulkImageIsCurrent'
    BY DEF Restore, BulkImageIsCurrent
<1>5. PageInv'
    BY <1>2 DEF Restore, PageInv, Entitled
<1>6. RequestsInv'
    <2> SUFFICES ASSUME NEW r \in Calls
                 PROVE  ImageInv(rq[r])'
        BY DEF Restore, RequestsInv
    <2>1. ImageInv(rq[r]) /\ rq[r] \in Request
        BY <1>1 DEF RestoreInv, RequestsInv
    <2>2. QED BY <1>1, <1>2, <2>1 DEF Restore, ImageInv, Entitled, Request, Lineage
<1>7. PagesInv'
    BY <1>1 DEF RestoreInv, Restore, PagesInv, One
<1>8. QED BY <1>3, <1>4, <1>5, <1>6, <1>7 DEF RestoreInv

\* What changes neither authority, contents nor requests can only disturb the
\* count of the pages and what the page holds.
LEMMA QuietStep ==
    ASSUME RestoreInv, UNCHANGED <<authority, contents, rq>>,
           TypeOK', PageInv', PagesInv'
    PROVE  RestoreInv'
<1>1. BulkImageIsCurrent'
    BY DEF RestoreInv, BulkImageIsCurrent, authority, contents
<1>2. RequestsInv'
    BY DEF RestoreInv, RequestsInv, ImageInv, Entitled, authority
<1>3. QED BY <1>1, <1>2 DEF RestoreInv

\* A reload is asked for, once for each restore.
LEMMA AskStep ==
    ASSUME RestoreInv, NEW arrives \in BOOLEAN, AskReload(arrives)
    PROVE  RestoreInv'
<1>1. /\ epoch \in 0..MaxRestores /\ MaxRestores \in Nat /\ MaxPages \in Nat
      /\ pageGen \in 0..MaxPages /\ reload \in BOOLEAN /\ lost \in BOOLEAN
    BY StateReplacementAssumption DEF RestoreInv, TypeOK, Lineage
<1>2. TypeOK' /\ PageInv'
    BY DEF RestoreInv, TypeOK, PageInv, HasLoaded, Entitled, AskReload, authority, contents
<1>3. PagesInv'
    <2>1. One(reload') + One(restorer' = "ask") <= One(reload) + One(restorer = "ask")
        BY <1>1 DEF AskReload, One
    <2>2. /\ One(reload') \in Nat /\ One(restorer' = "ask") \in Nat /\ One(reload) \in Nat
          /\ One(restorer = "ask") \in Nat /\ One(page.phase = "starting") \in Nat
        BY DEF One
    <2>3. restorer' = "idle" /\ UNCHANGED <<pageGen, epoch, page>>
        BY DEF AskReload, authority
    <2>4. QED BY <1>1, <2>1, <2>2, <2>3 DEF RestoreInv, PagesInv
<1>4. QED BY <1>2, <1>3, QuietStep DEF AskReload

\* A new page holds nothing yet; the reload that brought it is used up.
LEMMA NewPageStep ==
    ASSUME RestoreInv, NewPage
    PROVE  RestoreInv'
<1>1. /\ epoch \in 0..MaxRestores /\ MaxRestores \in Nat /\ MaxPages \in Nat
      /\ pageGen \in 0..MaxPages /\ reload \in BOOLEAN
    BY StateReplacementAssumption DEF RestoreInv, TypeOK, Lineage
<1>2. TypeOK'
    <2>1. page' \in [phase : {"starting", "shaken", "loaded", "running"},
                      base : Lineage, keep : BOOLEAN]
        BY <1>1 DEF NewPage, NoPage, Lineage
    <2>2. QED BY <2>1 DEF RestoreInv, TypeOK, NewPage, authority, contents
<1>3. PageInv'
    BY DEF NewPage, NoPage, PageInv, HasLoaded
<1>4. PagesInv'
    <2>1. /\ UNCHANGED <<epoch, pageGen, restorer>> /\ ~reload'
          /\ page'.phase = "starting"
        BY DEF NewPage, NoPage, authority
    <2>2. CASE reload /\ page.phase # "starting"
        BY <1>1, <2>1, <2>2 DEF RestoreInv, PagesInv, One
    <2>3. CASE page.phase = "starting"
        BY <1>1, <2>1, <2>3 DEF RestoreInv, PagesInv, One
    <2>4. CASE page.phase = "running" /\ pageGen + MaxRestores < MaxPages
        BY <1>1, <2>1, <2>4 DEF RestoreInv, PagesInv, One
    <2>5. \/ page.phase = "starting" \/ reload
          \/ page.phase = "running" /\ pageGen + MaxRestores < MaxPages
        BY DEF NewPage
    <2>6. QED BY <2>2, <2>3, <2>4, <2>5
<1>5. QED BY <1>2, <1>3, <1>4, QuietStep DEF NewPage

\* The page that shakes hands holds nothing either, and requests of the page
\* before it are crossed.
LEMMA HandshakeStep ==
    ASSUME RestoreInv, Handshake
    PROVE  RestoreInv'
<1>1. /\ epoch \in 0..MaxRestores /\ MaxRestores \in Nat /\ MaxPages \in Nat
      /\ pageGen \in 0..MaxPages /\ pending \in BOOLEAN
      /\ auth \in [on : BOOLEAN, epoch : Lineage, page : 0..MaxPages]
      /\ page \in [phase : {"starting", "shaken", "loaded", "running"},
                   base : Lineage, keep : BOOLEAN]
      /\ rq \in [Calls -> Request] /\ reload \in BOOLEAN
    BY StateReplacementAssumption DEF RestoreInv, TypeOK, Lineage
<1>2. page'.phase = "shaken" /\ page' \in [phase : {"starting", "shaken", "loaded", "running"},
                                           base : Lineage, keep : BOOLEAN]
    BY <1>1 DEF Handshake
<1>3. pageGen + 1 + One(reload) + One(restorer = "ask") + (MaxRestores - epoch) <= MaxPages
    BY <1>1 DEF RestoreInv, PagesInv, Handshake, One
<1>4. pageGen' \in 0..MaxPages
    BY <1>1, <1>3 DEF One, Handshake
<1>5. auth' \in [on : BOOLEAN, epoch : Lineage, page : 0..MaxPages]
    <2>1. CASE pending
        BY <1>1, <1>4, <2>1 DEF Handshake, Lineage
    <2>2. CASE ~pending
        BY <1>1, <2>2 DEF Handshake
    <2>3. QED BY <2>1, <2>2
<1>6. TypeOK'
    BY <1>2, <1>4, <1>5 DEF RestoreInv, TypeOK, Handshake, contents
<1>7. BulkImageIsCurrent'
    BY DEF RestoreInv, BulkImageIsCurrent, Handshake, contents
<1>8. PageInv'
    BY <1>2 DEF PageInv, HasLoaded
<1>9. RequestsInv'
    <2> SUFFICES ASSUME NEW r \in Calls
                 PROVE  ImageInv(rq[r])'
        BY DEF Handshake, RequestsInv
    <2>1. ImageInv(rq[r]) /\ rq[r] \in Request
        BY <1>1 DEF RestoreInv, RequestsInv
    <2>2. rq[r].page \in Nat /\ pageGen' = pageGen + 1
        BY <2>1, <1>1 DEF Request, Handshake
    <2>3. QED BY <1>1, <2>1, <2>2 DEF Handshake, ImageInv, Entitled
<1>10. PagesInv'
    BY <1>1, <1>2, <1>3 DEF RestoreInv, PagesInv, Handshake, One
<1>11. QED BY <1>6, <1>7, <1>8, <1>9, <1>10 DEF RestoreInv

\* The page loads the document, which is of the latest restore.
LEMMA LoadStep ==
    ASSUME RestoreInv, Load
    PROVE  RestoreInv'
<1>1. /\ page \in [phase : {"starting", "shaken", "loaded", "running"},
                   base : Lineage, keep : BOOLEAN]
      /\ doc.bulk = epoch /\ epoch \in Lineage
    BY DEF RestoreInv, TypeOK, BulkImageIsCurrent
<1>2. /\ page' \in [phase : {"starting", "shaken", "loaded", "running"},
                    base : Lineage, keep : BOOLEAN]
      /\ page'.base = epoch /\ page'.phase # "starting" /\ page.phase # "starting"
    <2> DEFINE phase == IF page.keep THEN "running" ELSE "loaded"
    <2>1. phase \in {"running", "loaded"} /\ page' = [page EXCEPT !.base = doc.bulk, !.phase = phase]
        BY DEF Load
    <2> HIDE DEF phase
    <2>2. QED BY <1>1, <2>1 DEF Load
<1>3. TypeOK'
    BY <1>2 DEF RestoreInv, TypeOK, Load, authority, contents
<1>4. PageInv'
    BY <1>2 DEF PageInv, Load, authority
<1>5. PagesInv'
    BY <1>2 DEF RestoreInv, PagesInv, Load, One, authority
<1>6. QED BY <1>3, <1>4, <1>5, QuietStep DEF Load

\* A request enters with what its page holds, and finds what the page was
\* answered to.
LEMMA EnterStep ==
    ASSUME RestoreInv, NEW r \in Calls, NEW kind \in Kinds, Enter(r, kind), HasLoaded,
           page' \in [phase : {"loaded", "running"}, base : Lineage, keep : BOOLEAN],
           page'.base = page.base, sent' \in 0..MaxRequests
    PROVE  RestoreInv'
<1>1. /\ epoch \in Lineage /\ pageGen \in 0..MaxPages /\ pending \in BOOLEAN
      /\ page.base \in Lineage /\ epoch \in Nat /\ pageGen \in Nat
      /\ MaxRestores \in Nat /\ MaxPages \in Nat
    BY StateReplacementAssumption DEF RestoreInv, TypeOK, Lineage
<1>2. PICK new \in Request : ImageInv(new) /\ rq' = [rq EXCEPT ![r] = new]
    <2>1. CASE kind = "update"
        <3> DEFINE new == [NoRequest EXCEPT !.pc = "check", !.base = page.base]
        <3>1. new \in Request /\ new.pc = "check"
            BY <1>1, Dropped DEF Request
        <3>2. rq' = [rq EXCEPT ![r] = new] /\ ImageInv(new)
            BY <2>1, <3>1 DEF Enter, ImageInv
        <3>3. QED BY <3>1, <3>2
    <2>2. CASE kind # "update"
        <3> DEFINE pc == IF kind = "rebuild" THEN "decode" ELSE kind
                   new == [NoRequest EXCEPT !.pc = pc, !.base = page.base, !.entry = epoch,
                                            !.page = pageGen, !.during = pending]
        <3>1. rq' = [rq EXCEPT ![r] = new] /\ pc \in {"decode", "history"}
            BY <2>2 DEF Enter, Kinds
        <3> HIDE DEF pc
        <3>2. /\ new \in Request /\ new.entry = epoch /\ new.page = pageGen
              /\ new.base = page.base /\ new.during = pending
            BY <1>1, <3>1, Dropped DEF Request
        <3>3. ImageInv(new)
            BY <1>1, <3>2 DEF RestoreInv, PageInv, ImageInv
        <3>4. QED BY <3>1, <3>2, <3>3
    <2>3. QED BY <2>1, <2>2
<1>3. RequestsInv' /\ rq' \in [Calls -> Request]
    BY <1>2, OneRequest DEF RestoreInv, Enter
<1>4. TypeOK'
    BY <1>3 DEF RestoreInv, TypeOK, Enter, authority, contents
<1>5. BulkImageIsCurrent' /\ PageInv'
    BY DEF RestoreInv, BulkImageIsCurrent, PageInv, HasLoaded, Entitled, Enter, authority,
           contents
<1>6. PagesInv'
    BY DEF RestoreInv, PagesInv, HasLoaded, One, Enter, authority
<1>7. QED BY <1>3, <1>4, <1>5, <1>6 DEF RestoreInv

\* The user acts on the page; the page that found a restore pending sends the
\* document back.
LEMMA SendSteps ==
    ASSUME RestoreInv,
           \/ \E r \in Requests, kind \in Kinds : Act(r, kind)
           \/ \E r \in Calls : SendImage(r)
    PROVE  RestoreInv'
<1>1. page \in [phase : {"starting", "shaken", "loaded", "running"},
                base : Lineage, keep : BOOLEAN] /\ sent \in 0..MaxRequests
      /\ MaxRequests \in Nat
    BY StateReplacementAssumption DEF RestoreInv, TypeOK
<1>2. ASSUME NEW r \in Requests, NEW kind \in Kinds, Act(r, kind)
      PROVE  RestoreInv'
    <2>1. sent' \in 0..MaxRequests /\ HasLoaded /\ r \in Calls
          /\ page' \in [phase : {"loaded", "running"}, base : Lineage, keep : BOOLEAN]
        BY <1>1, <1>2 DEF Act, HasLoaded, Calls
    <2>2. QED BY <1>2, <2>1, EnterStep DEF Act
<1>3. ASSUME NEW r \in Calls, SendImage(r)
      PROVE  RestoreInv'
    <2>1. page' \in [phase : {"loaded", "running"}, base : Lineage, keep : BOOLEAN]
          /\ page'.base = page.base
        BY <1>1, <1>3 DEF SendImage
    <2>2. "rebuild" \in Kinds /\ HasLoaded
        BY <1>3 DEF Kinds, HasLoaded, SendImage
    <2>3. QED BY <1>1, <1>3, <2>1, <2>2, EnterStep DEF SendImage
<1>4. QED BY <1>2, <1>3

\* What leaves authority and page alone and changes one request keeps the
\* invariant when it keeps the contents good.
LEMMA AnswerStep ==
    ASSUME RestoreInv, UNCHANGED <<authority, restorer, page, reload, sent, lost>>,
           NEW r \in Calls, NEW new \in Request, rq' = [rq EXCEPT ![r] = new], ImageInv(new),
           BulkImageIsCurrent',
           doc' \in [bulk : Lineage, other : Lineage, edit : Lineage, bypass : Lineage],
           runtime' \in [bulk : Lineage, edit : Lineage, bypass : Lineage],
           engine' \in Lineage \cup {Down}
    PROVE  RestoreInv'
<1>1. RequestsInv' /\ rq' \in [Calls -> Request]
    BY OneRequest DEF RestoreInv
<1>2. TypeOK'
    BY <1>1 DEF RestoreInv, TypeOK, authority
<1>3. PageInv' /\ PagesInv'
    BY DEF RestoreInv, PageInv, HasLoaded, Entitled, PagesInv, authority
<1>4. QED BY <1>1, <1>2, <1>3 DEF RestoreInv

\* The types of contents and of a request.
LEMMA ContentsTypes ==
    ASSUME RestoreInv, NEW r \in Calls
    PROVE  /\ doc \in [bulk : Lineage, other : Lineage, edit : Lineage, bypass : Lineage]
           /\ runtime \in [bulk : Lineage, edit : Lineage, bypass : Lineage]
           /\ engine \in Lineage \cup {Down}
           /\ rq \in [Calls -> Request] /\ rq[r] \in Request /\ ImageInv(rq[r])
           /\ doc.bulk \in Lineage
BY DEF RestoreInv, TypeOK, RequestsInv

\* Which way a rebuild goes changes nothing but its place.
LEMMA DecideStep ==
    ASSUME RestoreInv, NEW r \in Calls, Decide(r)
    PROVE  RestoreInv'
<1> DEFINE pc == IF pending THEN "replace" ELSE "ordinary"
           new == [rq[r] EXCEPT !.pc = pc]
<1>1. rq[r] \in Request /\ ImageInv(rq[r]) /\ rq[r].pc = "decode"
    BY ContentsTypes DEF Decide
<1>2. pc \in {"replace", "ordinary"} /\ rq' = [rq EXCEPT ![r] = new]
    BY DEF Decide, Goto
<1> HIDE DEF pc
<1>3. new \in Request /\ ImageInv(new)
    BY <1>1, <1>2 DEF Request, ImageInv
<1>4. BulkImageIsCurrent'
    BY DEF RestoreInv, BulkImageIsCurrent, Decide, authority, contents
<1>5. QED BY <1>2, <1>3, <1>4, ContentsTypes, AnswerStep DEF Decide, contents

\* A request of an older page is dropped; the one that is let in is of the
\* latest restore, and with it no restore is pending any more.
LEMMA ReplaceStep ==
    ASSUME RestoreInv, NEW r \in Calls, NEW configured \in BOOLEAN, Replace(r, configured)
    PROVE  RestoreInv'
<1>1. /\ rq[r] \in Request /\ ImageInv(rq[r]) /\ rq \in [Calls -> Request]
      /\ rq' = [rq EXCEPT ![r] = NoRequest] /\ rq[r].pc = "replace"
    BY ContentsTypes DEF Replace, Drop
<1>2. CASE ~Authorized(r)
    <2>1. UNCHANGED <<authority, contents, restorer, page, reload, sent, lost>>
        BY <1>2 DEF Replace, authority
    <2>2. BulkImageIsCurrent'
        BY <2>1 DEF RestoreInv, BulkImageIsCurrent, authority, contents
    <2>3. QED BY <1>1, <2>1, <2>2, ContentsTypes, Dropped, AnswerStep DEF contents
<1>3. CASE Authorized(r)
    <2>1. Entitled /\ pending /\ rq[r].during /\ rq[r].base = epoch /\ epoch \in Lineage
        BY <1>1, <1>3 DEF Authorized, Entitled, Crossed, ImageInv, RestoreInv, TypeOK
    <2>2. /\ doc' = [doc EXCEPT !.bulk = epoch, !.edit = epoch]
          /\ runtime' = [bulk |-> epoch, edit |-> epoch, bypass |-> doc.bypass]
          /\ engine' \in Lineage \cup {Down}
          /\ pending' = ~configured /\ auth' = [auth EXCEPT !.on = ~configured]
          /\ lost' \in BOOLEAN
          /\ UNCHANGED <<epoch, pageGen, sent, restorer, page, reload>>
        BY <1>3, <2>1 DEF Replace, RestoreInv, TypeOK
    <2>3. /\ auth \in [on : BOOLEAN, epoch : Lineage, page : 0..MaxPages]
          /\ doc \in [bulk : Lineage, other : Lineage, edit : Lineage, bypass : Lineage]
        BY DEF RestoreInv, TypeOK
    <2>4. /\ auth' \in [on : BOOLEAN, epoch : Lineage, page : 0..MaxPages]
          /\ doc' \in [bulk : Lineage, other : Lineage, edit : Lineage, bypass : Lineage]
          /\ runtime' \in [bulk : Lineage, edit : Lineage, bypass : Lineage]
        BY <2>1, <2>2, <2>3
    <2>5. TypeOK'
        BY <1>1, <2>2, <2>4, Dropped DEF RestoreInv, TypeOK
    <2>6. BulkImageIsCurrent'
        BY <2>2, <2>3 DEF RestoreInv, BulkImageIsCurrent
    <2>7. PageInv'
        BY <2>1, <2>2 DEF RestoreInv, PageInv, HasLoaded
    <2>8. RequestsInv'
        <3> SUFFICES ASSUME NEW s \in Calls
                     PROVE  ImageInv(rq[s])'
            BY DEF RequestsInv
        <3>1. ImageInv(rq[s]) /\ rq'[s] \in {rq[s], NoRequest}
            BY <1>1 DEF RestoreInv, RequestsInv
        <3>2. CASE rq'[s] = NoRequest
            BY <3>2 DEF ImageInv, NoRequest
        <3>3. CASE rq'[s] = rq[s]
            BY <2>1, <2>2, <3>1, <3>3 DEF ImageInv, Entitled
        <3>4. QED BY <3>1, <3>2, <3>3
    <2>9. PagesInv'
        BY <2>2 DEF RestoreInv, PagesInv
    <2>10. QED BY <2>5, <2>6, <2>7, <2>8, <2>9 DEF RestoreInv
<1>4. QED BY <1>2, <1>3

\* An image that is let in outside a restore is of the latest one.
LEMMA SettledIsCurrent ==
    ASSUME RestoreInv, NEW r \in Calls, rq[r].pc \in {"ordinary", "history"}, Settled(r)
    PROVE  rq[r].base = epoch /\ ~pending
BY ContentsTypes DEF Settled, Crossed, ImageInv

\* The engine is put back to the document's, or it is down.
LEMMA PutBackStep ==
    ASSUME RestoreInv, NEW r \in Calls, PutBack, Drop(r),
           UNCHANGED <<authority, sent, restorer, page, reload, lost>>
    PROVE  RestoreInv'
<1>1. BulkImageIsCurrent'
    BY DEF RestoreInv, BulkImageIsCurrent, PutBack, authority
<1>2. engine' \in Lineage \cup {Down}
    BY ContentsTypes DEF PutBack
<1>3. QED BY <1>1, <1>2, ContentsTypes, Dropped, AnswerStep DEF Drop, PutBack

\* "pipeline/rebuild" and "pipeline/restoreHistory" outside a restore.
LEMMA RebuildSteps ==
    ASSUME RestoreInv, NEW r \in Calls, NEW built \in BOOLEAN,
           Rebuild(r, built) \/ RestoreHistory(r, built)
    PROVE  RestoreInv'
<1>1. Drop(r) /\ UNCHANGED <<authority, sent, restorer, page, reload, lost>>
    BY DEF Rebuild, RestoreHistory
<1>2. CASE Settled(r) /\ built
    <2>1. rq[r].base = epoch /\ ~pending /\ epoch \in Lineage
        BY <1>2, SettledIsCurrent DEF Rebuild, RestoreHistory, RestoreInv, TypeOK
    <2>2. /\ \/ doc' = [doc EXCEPT !.bulk = epoch, !.edit = epoch]
             \/ doc' = [doc EXCEPT !.bulk = epoch, !.other = epoch, !.edit = epoch]
          /\ runtime' = [runtime EXCEPT !.bulk = epoch, !.edit = epoch] /\ engine' = epoch
        BY <1>2, <2>1 DEF Rebuild, RestoreHistory
    <2>3. /\ doc' \in [bulk : Lineage, other : Lineage, edit : Lineage, bypass : Lineage]
          /\ runtime' \in [bulk : Lineage, edit : Lineage, bypass : Lineage]
        BY <2>1, <2>2, ContentsTypes
    <2>4. BulkImageIsCurrent'
        BY <1>1, <2>1, <2>2, ContentsTypes DEF RestoreInv, BulkImageIsCurrent, authority
    <2>5. QED BY <1>1, <2>1, <2>2, <2>3, <2>4, Dropped, AnswerStep DEF Drop
<1>3. CASE Settled(r) /\ ~built
    BY <1>1, <1>3, PutBackStep DEF Rebuild, RestoreHistory
<1>4. CASE ~Settled(r)
    <2>1. UNCHANGED contents
        BY <1>4 DEF Rebuild, RestoreHistory
    <2>2. BulkImageIsCurrent'
        BY <1>1, <2>1 DEF RestoreInv, BulkImageIsCurrent, authority, contents
    <2>3. QED BY <1>1, <2>1, <2>2, ContentsTypes, Dropped, AnswerStep DEF Drop, contents
<1>5. QED BY <1>2, <1>3, <1>4

\* An update of one plug-in leaves the pipelines' lineage alone.
LEMMA UpdateSteps ==
    ASSUME RestoreInv, NEW r \in Calls,
           Check(r) \/ \E rebuilt \in BOOLEAN : Commit(r, rebuilt)
    PROVE  RestoreInv'
<1>1. CASE Check(r)
    <2>1. PICK new \in Request : ImageInv(new) /\ rq' = [rq EXCEPT ![r] = new]
        <3>1. CASE pending
            BY <1>1, <3>1, Dropped DEF Check
        <3>2. CASE ~pending
            <4> DEFINE new == [rq[r] EXCEPT !.pc = "commit", !.seen = doc.bulk]
            <4>1. new \in Request /\ new.pc = "commit"
                BY ContentsTypes DEF Request
            <4>2. ImageInv(new) /\ rq' = [rq EXCEPT ![r] = new]
                BY <1>1, <3>2, <4>1 DEF Check, ImageInv
            <4>3. QED BY <4>1, <4>2
        <3>3. QED BY <3>1, <3>2
    <2>2. BulkImageIsCurrent'
        BY <1>1 DEF RestoreInv, BulkImageIsCurrent, Check, authority, contents
    <2>3. QED BY <1>1, <2>1, <2>2, ContentsTypes, AnswerStep DEF Check, contents
<1>2. ASSUME NEW rebuilt \in BOOLEAN, Commit(r, rebuilt)
      PROVE  RestoreInv'
    <2>1. rq[r].base \in Lineage /\ rq[r].seen \in Lineage
        BY ContentsTypes DEF Request
    <2>2. /\ \/ UNCHANGED <<doc, runtime>>
             \/ /\ doc' = [doc EXCEPT !.edit = rq[r].base]
                /\ runtime' = [runtime EXCEPT !.edit = rq[r].base]
          /\ engine' \in Lineage \cup {Down}
        BY <1>2, <2>1, ContentsTypes DEF Commit, contents
    <2>3. /\ doc' \in [bulk : Lineage, other : Lineage, edit : Lineage, bypass : Lineage]
          /\ runtime' \in [bulk : Lineage, edit : Lineage, bypass : Lineage]
          /\ doc'.bulk = doc.bulk /\ doc'.other = doc.other /\ doc'.bypass = doc.bypass
          /\ runtime'.bulk = runtime.bulk /\ runtime'.bypass = runtime.bypass
        BY <2>1, <2>2, ContentsTypes
    <2>4. BulkImageIsCurrent'
        BY <1>2, <2>3 DEF RestoreInv, BulkImageIsCurrent, Commit, authority
    <2>5. QED BY <1>2, <2>2, <2>3, <2>4, Dropped, AnswerStep DEF Commit, Drop
<1>3. QED BY <1>1, <1>2

\* Nothing happens.
LEMMA StutterStep ==
    ASSUME RestoreInv, UNCHANGED vars
    PROVE  RestoreInv'
<1>1. TypeOK'
    BY DEF RestoreInv, TypeOK, vars
<1>2. BulkImageIsCurrent' /\ PageInv' /\ PagesInv'
    BY DEF RestoreInv, BulkImageIsCurrent, PageInv, HasLoaded, Entitled, PagesInv, vars
<1>3. RequestsInv'
    BY DEF RestoreInv, RequestsInv, ImageInv, Entitled, vars
<1>4. QED BY <1>1, <1>2, <1>3 DEF RestoreInv

\* The invariant holds in every state, for any number of requests, restores and
\* pages.
THEOREM RestoreInvariance == Spec => []RestoreInv
<1>1. Init => RestoreInv
    BY InitInv
<1>2. RestoreInv /\ [Next]_vars => RestoreInv'
    <2> SUFFICES ASSUME RestoreInv, [Next]_vars
                 PROVE  RestoreInv'
        OBVIOUS
    <2>1. CASE Restore
        BY <2>1, RestoreStep
    <2>2. CASE Asks
        BY <2>2, AskStep DEF Asks
    <2>3. CASE NewPage
        BY <2>3, NewPageStep
    <2>4. CASE StartUp
        BY <2>4, NewPageStep, HandshakeStep, LoadStep, SendSteps DEF StartUp
    <2>5. CASE Answer
        BY <2>5, DecideStep, ReplaceStep, RebuildSteps, UpdateSteps DEF Answer
    <2>6. CASE \E r \in Requests, kind \in Kinds : Act(r, kind)
        BY <2>6, SendSteps
    <2>7. CASE UNCHANGED vars
        BY <2>7, StutterStep
    <2>8. QED BY <2>1, <2>2, <2>3, <2>4, <2>5, <2>6, <2>7 DEF Next
<1>3. QED BY <1>1, <1>2, PTL DEF Spec

\* Every bound of the model holds: no more pages are announced than the restores
\* and the new web views account for.
THEOREM RestoreTypes == Spec => []TypeOK
<1>1. RestoreInv => TypeOK
    BY DEF RestoreInv
<1>2. QED BY <1>1, RestoreInvariance, PTL

\* BulkImageIsCurrent: a request of an older page or of an older restore never
\* replaces what setState() put in place (plugin_processor.cpp:4530, 5442-5757), in
\* whatever order requests, handshakes and further restores arrive.
THEOREM LateImagesAreDropped == Spec => []BulkImageIsCurrent
<1>1. RestoreInv => BulkImageIsCurrent
    BY DEF RestoreInv
<1>2. QED BY <1>1, RestoreInvariance, PTL

\* SavedIsOneGeneration: getState() at any moment, also between setState() and
\* the image of the page, writes pipeline and bypass of the latest restore.
THEOREM SavesAreWhole == Spec => []SavedIsOneGeneration
<1>1. RestoreInv => SavedIsOneGeneration
    BY DEF RestoreInv, BulkImageIsCurrent, SavedIsOneGeneration, SavedDocument
<1>2. QED BY <1>1, RestoreInvariance, PTL
=============================================================================
