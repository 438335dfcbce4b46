----------------------------- MODULE WebViewHost -----------------------------
(***************************************************************************)
(* The native host of the editor's web page (bridge/webview_host.cpp, the  *)
(* Windows build).  A generation is one web view bound to the thread that  *)
(* made it: every operation of another thread is queued and announced to   *)
(* the generation's dispatcher window with SendMessageTimeout, gives up    *)
(* after a second, and must then not be admitted any more behind its       *)
(* caller's back.  One that the owner had admitted by then, and was about  *)
(* to run, may still take effect (1233-1235).  attach() from another       *)
(* thread retires the generation in the slot and starts a new one;         *)
(* shutdown() retires it for good.                                         *)
(*                                                                         *)
(* Simplifications: window styles, sizes and resize() are left out, and so *)
(* are the copies of status and load result the host keeps for tests and   *)
(* the results of scripts (the plug-in asks for none).                     *)
(* Creating the dispatcher window and parenting the view succeed; starting *)
(* the view may fail.  The three immediate attempts of ensureWebView are   *)
(* one attempt, and the time that has passed at a tick of the start-up     *)
(* watch is a free choice.                                                 *)
(***************************************************************************)
EXTENDS Naturals, Sequences, SequencesExt

CONSTANTS Threads,        \* threads of the host that own message queues
          FirstThread,    \* the one that calls initialize()
          Views,          \* plug-in views (the `owner` of an attachment)
          MaxOps,         \* bound: detach and evaluate calls ever made
          MaxAttaches,    \* bound: attach calls ever made
          Nobody

ASSUME WebViewHostAssumption ==
    /\ MaxOps \in Nat /\ MaxAttaches \in Nat
    /\ FirstThread \in Threads /\ Nobody \notin Threads \cup Views

VARIABLES slot,      \* WebViewHostState::generation, 0 when empty
          stopping,  \* WebViewHostState::stopping
          gen,       \* the generations, by number
          made,      \* how many of them exist
          job,       \* WebViewOperation objects, by number
          called,    \* how many of those exist
          attaches,  \* attach calls made
          mail,      \* messages sent or posted to the windows of a thread
          th         \* what each thread is doing

webVars == <<slot, stopping, gen, made, job, called, attaches, mail, th>>

\* One generation exists from initialize() on; each attach() makes at most one.
MaxGenerations == MaxAttaches + 1
Gens == 1..MaxGenerations
Ops  == 1..MaxOps

Generation ==
    [thread : Threads \cup {Nobody}, retiring : BOOLEAN, released : BOOLEAN,
     open : BOOLEAN, owner : Views \cup {Nobody},
     web : {"none", "starting", "ready"},
     status : {"initialising", "ready", "unavailable", "timedOut"},
     diag : BOOLEAN, watch : BOOLEAN, ops : Seq(Ops)]

\* A detach() of `view`, or an evaluate() when there is none.
Operation ==
    [view : Views \cup {Nobody}, gen : 0..MaxGenerations, cancelled : BOOLEAN,
     stage : {"none", "queued", "admitted", "ran", "dropped"}, failed : BOOLEAN]

Labels == {"idle", "take", "retire", "create", "publish", "recheck",
           "attach", "finish", "show", "invoke", "send", "sent", "shut", "drain", "run"}

Message == [gen : Gens, command : {"invoke", "release"},
            from : Threads \cup {Nobody}, op : 0..MaxOps]

Letter(g, command, from, o) == [gen |-> g, command |-> command, from |-> from, op |-> o]

Thread ==
    [pc : Labels, then : Labels, view : Views \cup {Nobody}, target : 0..MaxGenerations,
     op : 0..MaxOps, answer : {"none", "done", "refused"}, batch : Seq(Ops),
     message : Message \cup {Nobody}]

\* Every variable has the type of the object it stands for, the slot names a
\* generation that exists, and only an attachment shows a diagnostic view.
WebTypeOK ==
    /\ slot \in 0..made /\ stopping \in BOOLEAN
    /\ gen \in [Gens -> Generation] /\ made \in 0..MaxGenerations
    /\ job \in [Ops -> Operation] /\ called \in 0..MaxOps
    /\ attaches \in 0..MaxAttaches
    /\ mail \in [Threads -> Seq(Message)] /\ th \in [Threads -> Thread]

NoGeneration ==
    [thread |-> Nobody, retiring |-> FALSE, released |-> FALSE, open |-> FALSE,
     owner |-> Nobody, web |-> "none", status |-> "initialising",
     diag |-> FALSE, watch |-> FALSE, ops |-> <<>>]

NoOperation == [view |-> Nobody, gen |-> 0, cancelled |-> FALSE, stage |-> "none",
                failed |-> FALSE]

AtRest == [pc |-> "idle", then |-> "idle", view |-> Nobody, target |-> 0, op |-> 0,
           answer |-> "none", batch |-> <<>>, message |-> Nobody]

-----------------------------------------------------------------------------
(* What the owner thread does to a generation, as functions of its record. *)

\* createWebViewOnOwner(): a new view that is still starting, or none at all.
WithView(g, starts) ==
    IF g.retiring THEN g
    ELSE [g EXCEPT !.web = IF starts THEN "starting" ELSE "none",
                   !.status = IF starts THEN "initialising" ELSE "unavailable"]

Usable(g) == g.status # "unavailable" /\ g.web # "none"

\* endInitialisationWatchOnOwner(), destroyDiagnosticViewOnOwner(), owner and
\* parent cleared.
Bare(g) == [g EXCEPT !.watch = FALSE, !.diag = FALSE, !.owner = Nobody]

\* attachOnOwner() up to the view it will show: a page that already ran is
\* replaced, a view that is not usable is started again.
Prepared(g, starts) ==
    LET b == Bare(g)
    IN  IF b.web = "ready" \/ ~Usable(b) THEN WithView(b, starts) ELSE b

\* Mutant: the view is shown without the start-up watch.
ShownUnwatched(g, view) ==
    IF Usable(g) THEN [g EXCEPT !.owner = view, !.status = "initialising"]
    ELSE [g EXCEPT !.owner = view, !.diag = TRUE]

\* The rest of attachOnOwner(): the view is shown under the watch, or the
\* diagnostic takes its place.
Shown(g, view) ==
    IF Usable(g)
    THEN [g EXCEPT !.owner = view, !.status = "initialising", !.watch = TRUE]
    ELSE [g EXCEPT !.owner = view, !.diag = TRUE]

\* detachOnOwner(): refused for any but the present owner.
Detached(g, view, starts) ==
    IF view # g.owner \/ g.retiring THEN g ELSE WithView(Bare(g), starts)

\* releaseOnOwner(), once.
Released(g) ==
    IF g.released THEN g
    ELSE [Bare(g) EXCEPT !.released = TRUE, !.retiring = TRUE, !.web = "none",
                         !.open = FALSE]

\* serviceInitialisationOnOwner(), from the 500 ms timer.
Ticked(g, late) ==
    IF Usable(g) /\ g.web = "ready"
    THEN [g EXCEPT !.status = "ready", !.watch = FALSE,
                   !.diag = g.diag /\ g.status = "ready"]
    ELSE [g EXCEPT !.status = IF late /\ @ = "initialising" THEN "timedOut" ELSE @,
                   !.diag = TRUE]

-----------------------------------------------------------------------------
WebInit ==
    \E starts \in BOOLEAN :
        /\ slot = 1 /\ made = 1
        /\ gen = [g \in Gens |-> IF g = 1
                    THEN WithView([NoGeneration EXCEPT !.thread = FirstThread, !.open = TRUE], starts)
                    ELSE NoGeneration]
        /\ stopping = FALSE /\ called = 0 /\ attaches = 0
        /\ job = [o \in Ops |-> NoOperation]
        /\ mail = [u \in Threads |-> <<>>]
        /\ th = [u \in Threads |-> AtRest]

At(t, label) == th[t].pc = label
Become(t, rec) == th' = [th EXCEPT ![t] = rec]
Goto(t, label) ==
    Become(t, IF label = "idle" THEN AtRest ELSE [th[t] EXCEPT !.pc = label])
Own(t, g) == gen[g].thread = t
hostVars == <<slot, stopping, made, called, attaches>>

\* A call of a UI thread ends; what it was told is recorded in its operation.
Finish(t) == Become(t, AtRest)

-----------------------------------------------------------------------------
(* attach()                                                                *)

Attach(t, v) ==
    /\ At(t, "idle") /\ ~stopping /\ attaches < MaxAttaches
    /\ attaches' = attaches + 1
    /\ Become(t, [AtRest EXCEPT !.pc = "take", !.view = v])
    /\ UNCHANGED <<slot, stopping, gen, made, job, called, mail>>

\* Under the lock: the generation of this thread is kept, one of another
\* thread is taken out of the slot and retired.
TakeGeneration(t) ==
    /\ At(t, "take")
    /\ \/ /\ slot # 0 /\ Own(t, slot)
          /\ Become(t, [th[t] EXCEPT !.pc = "recheck", !.target = slot])
          /\ UNCHANGED slot
       \/ /\ slot # 0 /\ ~Own(t, slot)
          /\ Become(t, [th[t] EXCEPT !.pc = "retire", !.target = slot, !.then = "create"])
          /\ slot' = 0
       \/ slot = 0 /\ Goto(t, "create") /\ UNCHANGED slot
    /\ UNCHANGED <<stopping, gen, made, job, called, attaches, mail>>

CreateGeneration(t) ==
    /\ At(t, "create")
    /\ made' = made + 1
    /\ \E starts \in BOOLEAN :
         gen' = [gen EXCEPT ![made + 1] =
                   WithView([NoGeneration EXCEPT !.thread = t, !.open = TRUE], starts)]
    /\ Become(t, [th[t] EXCEPT !.pc = "publish", !.target = made + 1])
    /\ UNCHANGED <<slot, stopping, job, called, attaches, mail>>

\* Mutant: the slot is not looked at again.
PublishOver(t) ==
    /\ At(t, "publish") /\ slot' = th[t].target /\ Goto(t, "recheck")
    /\ UNCHANGED <<stopping, gen, made, job, called, attaches, mail>>

\* Whoever finds the slot taken in the meantime drops its own generation
\* again (retire() on the owner thread).
PublishGeneration(t) ==
    /\ At(t, "publish")
    /\ \/ /\ slot = 0 /\ slot' = th[t].target /\ Goto(t, "recheck") /\ UNCHANGED gen
       \/ /\ slot # 0 /\ UNCHANGED slot
          /\ gen' = [gen EXCEPT ![th[t].target] = Released(@)]
          /\ Become(t, [th[t] EXCEPT !.pc = "recheck", !.target = slot])
    /\ UNCHANGED <<stopping, made, job, called, attaches, mail>>

\* Mutant: a shutdown since the call began goes unnoticed.
RecheckThreadOnly(t) ==
    /\ At(t, "recheck")
    /\ \/ ~Own(t, th[t].target) /\ Finish(t)
       \/ Own(t, th[t].target) /\ Goto(t, "attach")
    /\ UNCHANGED <<hostVars, gen, job, mail>>

Recheck(t) ==
    LET g == th[t].target IN
    /\ At(t, "recheck")
    /\ \/ ~Own(t, g) /\ Finish(t)
       \/ Own(t, g) /\ stopping /\ Become(t, [th[t] EXCEPT !.pc = "retire", !.then = "idle"])
       \/ Own(t, g) /\ ~stopping /\ Goto(t, "attach")
    /\ UNCHANGED <<hostVars, gen, job, mail>>

\* attachOnOwner(), in three steps: another thread may retire the generation
\* while the view is being started, and again while it is given its parent.
AttachOnOwner(t) ==
    LET g == th[t].target IN
    /\ At(t, "attach")
    /\ \/ gen[g].retiring /\ Finish(t) /\ UNCHANGED gen
       \/ /\ ~gen[g].retiring /\ Goto(t, "finish")
          /\ \E starts \in BOOLEAN : gen' = [gen EXCEPT ![g] = Prepared(@, starts)]
    /\ UNCHANGED <<hostVars, job, mail>>

FinishAttach(t) ==
    LET g == th[t].target IN
    /\ At(t, "finish")
    /\ IF Usable(gen[g]) /\ gen[g].retiring THEN Finish(t) ELSE Goto(t, "show")
    /\ UNCHANGED <<hostVars, gen, job, mail>>

ShowAttached(t) ==
    LET g == th[t].target IN
    /\ At(t, "show") /\ Finish(t)
    /\ gen' = [gen EXCEPT ![g] = Shown(@, th[t].view)]
    /\ UNCHANGED <<hostVars, job, mail>>

-----------------------------------------------------------------------------
(* retire() and shutdown()                                                 *)

\* retiring.exchange(), then the queued operations are cancelled; on the
\* owner thread the generation is released on the spot, otherwise the owner
\* is told to.
CancelQueued(g) ==
    job' = [o \in Ops |-> IF o \in ToSet(gen[g].ops)
                         THEN [job[o] EXCEPT !.cancelled = TRUE] ELSE job[o]]

Retire(t) ==
    LET g == th[t].target IN
    /\ At(t, "retire")
    /\ \/ gen[g].retiring /\ Goto(t, th[t].then) /\ UNCHANGED <<gen, job, mail>>
       \/ /\ ~gen[g].retiring /\ Own(t, g)
          /\ gen' = [gen EXCEPT ![g] = Released(@)]
          /\ CancelQueued(g)
          /\ Goto(t, th[t].then) /\ UNCHANGED mail
       \/ /\ ~gen[g].retiring /\ ~Own(t, g)
          /\ gen' = [gen EXCEPT ![g].retiring = TRUE]
          /\ CancelQueued(g)
          /\ mail' = [mail EXCEPT ![gen[g].thread] =
                        Append(@, Letter(g, "release", t, 0))]
          /\ Goto(t, "sent")
    /\ UNCHANGED hostVars

\* terminate() comes on the thread initialize() came on.
Shutdown(t) ==
    /\ t = FirstThread /\ At(t, "idle") /\ ~stopping
    /\ stopping' = TRUE
    /\ Become(t, [AtRest EXCEPT !.pc = "shut"])
    /\ UNCHANGED <<slot, made, called, attaches, gen, job, mail>>

ShutdownTake(t) ==
    /\ At(t, "shut")
    /\ slot' = 0
    /\ IF slot = 0 THEN Finish(t)
       ELSE Become(t, [th[t] EXCEPT !.pc = "retire", !.target = slot, !.then = "idle"])
    /\ UNCHANGED <<stopping, made, called, attaches, gen, job, mail>>

-----------------------------------------------------------------------------
(* invoke(): detach() and evaluate() of any thread.                        *)

\* detach(v), or evaluate() when v is Nobody.
Call(t, v) ==
    /\ At(t, "idle") /\ ~stopping /\ slot # 0 /\ called < MaxOps
    /\ called' = called + 1
    /\ job' = [job EXCEPT ![called + 1].view = v, ![called + 1].gen = slot]
    /\ Become(t, [AtRest EXCEPT !.pc = "invoke", !.target = slot, !.op = called + 1])
    /\ UNCHANGED <<slot, stopping, made, attaches, gen, mail>>

DetachView(t, v) == Call(t, v)
Evaluate(t) == Call(t, Nobody)

\* The operation is cancelled and its caller told that it failed.
Fail(t) ==
    /\ job' = [job EXCEPT ![th[t].op].cancelled = TRUE, ![th[t].op].failed = TRUE]
    /\ Finish(t)

\* evaluateOnOwner() runs the script only in a page that is up.
PageUp(g) == gen[g].web = "ready" /\ ~gen[g].retiring

\* The callback of an operation: detachOnOwner() or evaluateOnOwner().
Execute(o) ==
    LET g == job[o].gen IN
    \/ /\ job[o].view = Nobody /\ UNCHANGED gen
       /\ job' = [job EXCEPT ![o].stage = IF PageUp(g) THEN "ran" ELSE "dropped"]
    \/ /\ job[o].view # Nobody
       /\ \E starts \in BOOLEAN :
            gen' = [gen EXCEPT ![g] = Detached(@, job[o].view, starts)]
       /\ job' = [job EXCEPT ![o].stage = "ran"]

Invoke(t) ==
    LET g == th[t].target
        o == th[t].op IN
    /\ At(t, "invoke")
    /\ \/ gen[g].retiring /\ Fail(t) /\ UNCHANGED gen
       \/ /\ ~gen[g].retiring /\ Own(t, g)
          /\ Execute(o)
          /\ Finish(t)
       \/ /\ ~gen[g].retiring /\ ~Own(t, g)
          /\ gen' = [gen EXCEPT ![g].ops = Append(@, o)]
          /\ job' = [job EXCEPT ![o].stage = "queued"]
          /\ Goto(t, "send")
    /\ UNCHANGED <<hostVars, mail>>

\* sendBounded(): refused when the dispatcher window is gone.
Send(t) ==
    LET g == th[t].target IN
    /\ At(t, "send")
    /\ \/ /\ gen[g].open
          /\ mail' = [mail EXCEPT ![gen[g].thread] =
                        Append(@, Letter(g, "invoke", t, th[t].op))]
          /\ Goto(t, "sent") /\ UNCHANGED job
       \/ ~gen[g].open /\ Fail(t) /\ UNCHANGED mail
    /\ UNCHANGED <<hostVars, gen>>

Answered(t) ==
    LET o == th[t].op IN
    /\ At(t, "sent") /\ th[t].answer # "none"
    /\ \/ o = 0 /\ Goto(t, th[t].then) /\ UNCHANGED job
       \/ o # 0 /\ th[t].answer = "done" /\ job[o].stage = "ran" /\ Finish(t) /\ UNCHANGED job
       \/ o # 0 /\ ~(th[t].answer = "done" /\ job[o].stage = "ran") /\ Fail(t)
    /\ UNCHANGED <<hostVars, gen, mail>>

\* The second is over.  The message stays in the queue of the owner; a
\* release is posted again so that it is not lost with its sender.
TimeOut(t) ==
    LET g == th[t].target IN
    /\ At(t, "sent") /\ th[t].answer = "none"
    /\ \/ th[t].op # 0 /\ Fail(t) /\ UNCHANGED mail
       \/ /\ th[t].op = 0 /\ Goto(t, th[t].then)
          /\ mail' = IF gen[g].open
                     THEN [mail EXCEPT ![gen[g].thread] =
                             Append(@, Letter(g, "release", Nobody, 0))]
                     ELSE mail
          /\ UNCHANGED job
    /\ UNCHANGED <<hostVars, gen>>

-----------------------------------------------------------------------------
(* The message loop of a thread that has nothing else to do:               *)
(* dispatcherWindowProc() and the callbacks of the web view.               *)

\* A sender that still waits for message m is answered.
AnswerTo(f, m, a) ==
    IF m.from # Nobody /\ f[m.from].pc = "sent" /\ f[m.from].target = m.gen
                     /\ f[m.from].op = m.op
    THEN [f EXCEPT ![m.from].answer = a] ELSE f

Pump(t) ==
    LET m == Head(mail[t])
        g == gen[m.gen] IN
    /\ At(t, "idle") /\ mail[t] # <<>>
    /\ mail' = [mail EXCEPT ![t] = Tail(@)]
    /\ \/ ~g.open /\ th' = AnswerTo(th, m, "refused") /\ UNCHANGED gen
       \/ /\ g.open /\ m.command = "release"
          /\ gen' = [gen EXCEPT ![m.gen] = Released(@)]
          /\ th' = AnswerTo(th, m, "done")
       \/ /\ g.open /\ m.command = "invoke"
          /\ gen' = [gen EXCEPT ![m.gen].ops = <<>>]
          /\ Become(t, [AtRest EXCEPT !.pc = "drain", !.batch = g.ops, !.message = m])
    /\ UNCHANGED <<hostVars, job>>

\* Mutant: the drain forgets that its caller has given up.
SkippedOnlyRetired(o) == gen[job[o].gen].retiring
Skipped(o) == job[o].cancelled \/ gen[job[o].gen].retiring

\* Past this check the callback runs whatever its caller is told meanwhile.
DrainNext(t) ==
    LET b == th[t].batch IN
    /\ At(t, "drain")
    /\ IF b = <<>>
       THEN /\ th' = AnswerTo([th EXCEPT ![t] = AtRest], th[t].message, "done")
            /\ UNCHANGED job
       ELSE IF Skipped(Head(b))
       THEN /\ job' = [job EXCEPT ![Head(b)].stage = "dropped"]
            /\ Become(t, [th[t] EXCEPT !.batch = Tail(b)])
       ELSE /\ job' = [job EXCEPT ![Head(b)].stage = "admitted"]
            /\ Goto(t, "run")
    /\ UNCHANGED <<hostVars, gen, mail>>

DrainRun(t) ==
    LET b == th[t].batch IN
    /\ At(t, "run")
    /\ Execute(Head(b))
    /\ Become(t, [th[t] EXCEPT !.pc = "drain", !.batch = Tail(b)])
    /\ UNCHANGED <<hostVars, mail>>

Loop(g) == g \in 1..made /\ At(gen[g].thread, "idle") /\ ~gen[g].released

\* Mutant: the page comes up behind the diagnostic.
ViewReadyBehind(g) ==
    /\ Loop(g) /\ gen[g].web = "starting" /\ gen[g].status # "unavailable"
    /\ ~gen[g].retiring
    /\ gen' = [gen EXCEPT ![g].web = "ready", ![g].status = "ready", ![g].watch = FALSE]
    /\ UNCHANGED <<hostVars, job, mail, th>>

\* webviewIsReady: the page is configured; an attached one takes the place of
\* the diagnostic and ends the watch.
ViewReady(g) ==
    /\ Loop(g) /\ gen[g].web = "starting" /\ gen[g].status # "unavailable"
    /\ ~gen[g].retiring
    /\ gen' = [gen EXCEPT ![g].web = "ready", ![g].status = "ready",
                          ![g].diag = FALSE, ![g].watch = FALSE]
    /\ UNCHANGED <<hostVars, job, mail, th>>

\* webviewInitialisationError.
ViewFails(g) ==
    /\ Loop(g) /\ gen[g].web = "starting" /\ gen[g].status # "unavailable"
    /\ ~gen[g].retiring
    /\ gen' = [gen EXCEPT ![g].status = "unavailable", ![g].watch = FALSE,
                          ![g].diag = gen[g].owner # Nobody]
    /\ UNCHANGED <<hostVars, job, mail, th>>

Tick(g) ==
    /\ Loop(g) /\ gen[g].watch /\ ~gen[g].retiring
    /\ \E late \in BOOLEAN : gen' = [gen EXCEPT ![g] = Ticked(@, late)]
    /\ UNCHANGED <<hostVars, job, mail, th>>

-----------------------------------------------------------------------------
Step(t) ==
    \/ TakeGeneration(t) \/ CreateGeneration(t) \/ PublishGeneration(t)
    \/ Recheck(t) \/ AttachOnOwner(t) \/ FinishAttach(t) \/ ShowAttached(t)
    \/ Retire(t) \/ ShutdownTake(t)
    \/ Invoke(t) \/ Send(t) \/ Answered(t) \/ TimeOut(t)
    \/ Pump(t) \/ DrainNext(t) \/ DrainRun(t)

WebNext ==
    \/ \E t \in Threads :
         \/ Step(t) \/ Shutdown(t)
         \/ Evaluate(t)
         \/ \E v \in Views : Attach(t, v) \/ DetachView(t, v)
    \/ \E g \in Gens : ViewReady(g) \/ ViewFails(g) \/ Tick(g)

\* A thread goes on with the call it is in and returns to its message loop,
\* which sees every message and timer; nothing promises that a view ever starts.
Fairness ==
    /\ \A t \in Threads : WF_webVars(Step(t))
    /\ \A g \in Gens : WF_webVars(Tick(g))

WebSpec == WebInit /\ [][WebNext]_webVars /\ Fairness

-----------------------------------------------------------------------------
\* invoke() (webview_host.cpp:1202-1224) gives up on an operation of another
\* thread after a second: once its caller was told that it failed, the owner
\* thread never admits it, whatever message makes it drain the queue.
NoLateOperation ==
    [][\A o \in Ops : job[o].failed =>
          (job'[o].stage = "admitted" => job[o].stage = "admitted")]_webVars

\* The slot and the retirements (webview_host.cpp:1506-1546) account for every
\* editor that is alive: a generation that shows a view and was not retired is
\* the one in the slot, or some caller has taken it out and is about to retire
\* it.  So two editors are alive at once only until that caller goes on, however
\* attachments from several threads interleave with a shutdown.
NoStrayEditor ==
    \A g \in 1..made :
        gen[g].owner # Nobody /\ ~gen[g].retiring =>
            g = slot \/ \E t \in Threads : At(t, "retire") /\ th[t].target = g

\* The diagnostic text (webview_host.cpp:700-712, 1005-1012) never stays in
\* front of a page that has come up.
DiagnosticHonest == \A g \in Gens : gen[g].diag => gen[g].web # "ready"

\* What the user sees, at every moment of attachments, retirements and faults:
\* no editor that nobody will take down, no complaint about a page that runs.
EditorsAreHonest == NoStrayEditor /\ DiagnosticHonest

\* retire() (webview_host.cpp:1291-1323): a generation that was retired, and
\* after a shutdown every generation there is, is released by its own thread
\* in the end, although the message may time out and the slot may be refilled
\* by an attachment that was under way.
GenerationsAreReleased ==
    []<>(\A g \in 1..made : gen[g].retiring \/ stopping => gen[g].released)

\* The start-up watch (webview_host.cpp:973-1024): an editor that was attached
\* shows its page or says why it cannot, unless it is taken down first.
EditorIsExplained ==
    []<>(\A g \in 1..made : gen[g].owner # Nobody =>
            gen[g].status = "ready" \/ gen[g].diag \/ gen[g].retiring)

=============================================================================
