------------------------- MODULE InstrumentLibrary -------------------------
(***************************************************************************)
(* The library of instrument banks (sfz_library.cpp) as the plug-in        *)
(* instances of all hosts on a machine use it.  Every instance has its own *)
(* SfzLibrary; they share one registry file, which each operation loads    *)
(* anew under a lock on a file beside it, and the bank files of the user,  *)
(* which any other program may edit, or replace, at any time.  A process   *)
(* may die at every step.                                                  *)
(*                                                                         *)
(* An entry of the registry is the bank it names.  A revision of a bank    *)
(* file is the identity of the file with its time of modification, which   *)
(* every edit is taken to change.                                          *)
(***************************************************************************)
EXTENDS PluginInstances, Naturals

CONSTANTS
    Banks,        \* the instruments a user may choose
    ReadIds,      \* the places of the table of read sessions (16 in the code)
    MaxRequests,  \* bound on the requests to the library
    MaxEdits,     \* bound on the edits of the bank file
    MaxPages      \* bound on the pages an instance shows

VARIABLES
    registry,     \* the banks in the registry file
    expected,     \* history: the banks that were imported and not removed
    holder,       \* the instance that holds the lock file
    task,         \* [Instances -> the request inside SfzLibrary::request()]
    choosing,     \* [Instances -> the choosers that are open, with what they captured]
    generation,   \* [Instances -> sfzGeneration_]
    page,         \* [Instances -> uiPageGeneration_]
    reads,        \* [Instances -> Impl::reads]
    load,         \* [Instances -> the read that is going on]
    source,       \* the bank file: which file the path names, and the version of each
    asked         \* the number of requests so far

libraryVars == <<registry, expected, holder, task, choosing, generation, page,
                 reads, load, source, asked>>

Operations == {"list", "remove", "select", "openRead"}
Files      == 0 .. MaxEdits
Revisions  == Files \X Files

ASSUME LibraryAssumption ==
    /\ None \notin Instances /\ None \notin ReadIds /\ None \notin Revisions
    /\ {MaxRequests, MaxEdits, MaxPages} \subseteq Nat

NoTask     == [at |-> "idle", op |-> None, bank |-> None, entries |-> {},
               pinned |-> None, generation |-> 0, page |-> 0]
NoRead     == [file |-> None, pinned |-> None, seen |-> {}]
NoLoad     == [id |-> None, got |-> {}]

Task(at, op, bank, pinned, i) ==
    [NoTask EXCEPT !.at = at, !.op = op, !.bank = bank, !.pinned = pinned,
                   !.generation = generation[i], !.page = page[i]]

\* The identity and modification time of an open file.
Revision(file) == <<file, source.version[file]>>

\* The request was made for a page or an editor that has gone since.
Abandoned(i) ==
    \/ task[i].generation # generation[i]
    \/ task[i].page # page[i]

\* sfzMutex_ of an instance: nobody is inside its library.
Free(i) == task[i].at = "idle" /\ load[i] = NoLoad

LibraryInit ==
    /\ registry \in SUBSET Banks
    /\ expected = registry
    /\ holder = None
    /\ task = [i \in Instances |-> NoTask]
    /\ choosing = [i \in Instances |-> {}]
    /\ generation = [i \in Instances |-> 0]
    /\ page = [i \in Instances |-> 0]
    /\ reads = [i \in Instances |-> [r \in ReadIds |-> NoRead]]
    /\ load = [i \in Instances |-> NoLoad]
    /\ source = [path |-> 0, version |-> [f \in Files |-> 0]]
    /\ asked = 0

---------------------------------------------------------------------------
(* The registry *)

\* list, remove and openRead reach the library at once.  A page that learned
\* the revision of the bank file earlier may pin its session to it.
Ask(i, op, bank, pinned) ==
    /\ Free(i) /\ asked < MaxRequests
    /\ op # "select"
    /\ (op = "list") <=> (bank = None)
    /\ pinned # None => op = "openRead"
    /\ asked' = asked + 1
    /\ task' = [task EXCEPT ![i] = Task("waiting", op, bank, pinned, i)]
    /\ UNCHANGED <<registry, expected, holder, choosing, generation, page,
                   reads, load, source>>

\* select opens a modal chooser first, which pumps events: no lock is held.
Choose(i) ==
    /\ Free(i) /\ asked < MaxRequests
    /\ asked' = asked + 1
    /\ generation' = [generation EXCEPT ![i] = @ + 1]
    /\ choosing' = [choosing EXCEPT
                      ![i] = @ \union {[generation |-> generation[i] + 1, page |-> page[i]]}]
    /\ UNCHANGED <<registry, expected, holder, task, page, reads, load, source>>

\* The answer of a chooser counts while nothing has taken its place.
ChoiceStands(i, c) ==
    /\ c.generation = generation[i]
    /\ c.page = page[i]

Chosen(i) ==
    /\ Free(i)
    /\ \E c \in choosing[i], bank \in Banks \union {None} :
          /\ choosing' = [choosing EXCEPT ![i] = @ \ {c}]
          /\ task' = IF bank # None /\ ChoiceStands(i, c)
                     THEN [task EXCEPT ![i] =
                             [Task("waiting", "select", bank, None, i) EXCEPT
                                !.generation = c.generation, !.page = c.page]]
                     ELSE task
    /\ UNCHANGED <<registry, expected, holder, generation, page, reads, load,
                   source, asked>>

\* load(): the entries of the registry file, each of them checked.
Loaded == registry

\* Mutant: the registry is loaded without the lock.
AcquireUnlocked(i) ==
    /\ task[i].at = "waiting"
    /\ holder' = i
    /\ task' = [task EXCEPT ![i].at = "loaded", ![i].entries = Loaded]
    /\ UNCHANGED <<registry, expected, choosing, generation, page, reads, load,
                   source, asked>>

\* RegistryLock, and load() under it.
Acquire(i) ==
    /\ holder = None
    /\ task[i].at = "waiting"
    /\ holder' = i
    /\ task' = [task EXCEPT ![i].at = "loaded", ![i].entries = Loaded]
    /\ UNCHANGED <<registry, expected, choosing, generation, page, reads, load,
                   source, asked>>

\* Leaving perform(): the lock is released with the scope.
Leave(i) ==
    /\ holder' = None
    /\ task' = [task EXCEPT ![i] = NoTask]

Edited(i) ==
    IF task[i].op = "select" THEN task[i].entries \union {task[i].bank}
                             ELSE task[i].entries \ {task[i].bank}

\* save() writes a temporary file whose name no other process knows ...
Stage(i) ==
    /\ task[i].at = "loaded" /\ task[i].op \in {"select", "remove"}
    /\ task' = [task EXCEPT ![i].at = "staged", ![i].entries = Edited(i)]
    /\ UNCHANGED <<registry, expected, holder, choosing, generation, page, reads,
                   load, source, asked>>

\* ... and puts it in the place of the registry.
Replace(i) ==
    /\ task[i].at = "staged"
    /\ registry' = task[i].entries
    /\ expected' = CASE Abandoned(i)            -> expected
                     [] task[i].op = "select"   -> expected \union {task[i].bank}
                     [] OTHER                   -> expected \ {task[i].bank}
    /\ Leave(i)
    /\ UNCHANGED <<choosing, generation, page, reads, load, source, asked>>

\* A list is answered; or an exception ends the request, whatever it was
\* (a temporary file is removed then).
Answer(i) ==
    /\ task[i].at \in {"loaded", "staged"}
    /\ Leave(i)
    /\ UNCHANGED <<registry, expected, choosing, generation, page, reads, load,
                   source, asked>>

---------------------------------------------------------------------------
(* Read sessions *)

\* The file a handle is on: whichever has the name when it is opened.
OpenedFile == source.path

\* openRead: a handle that outlives the name of the file.  A session that asks
\* for a revision is refused when the file is of another, and pinned to it.
Open(i) ==
    /\ task[i].at = "loaded" /\ task[i].op = "openRead"
    /\ task[i].bank \in task[i].entries
    /\ task[i].pinned \in {None, Revision(OpenedFile)}
    /\ \E r \in ReadIds :
          /\ reads[i][r] = NoRead
          /\ reads' = [reads EXCEPT ![i][r] =
                         [file |-> OpenedFile, pinned |-> task[i].pinned, seen |-> {}]]
    /\ Leave(i)
    /\ UNCHANGED <<registry, expected, choosing, generation, page, load, source, asked>>

\* verifyRevision() throws SourceChanged for a pinned session whose file is
\* of another revision by now.
Verified(read) == read.pinned \in {None, Revision(read.file)}

\* readChunk and readSoundFontPages() verify before they read ...
BeginLoad(i, r) ==
    /\ Free(i)
    /\ reads[i][r] # NoRead
    /\ Verified(reads[i][r])
    /\ load' = [load EXCEPT ![i] = [id |-> r, got |-> {}]]
    /\ UNCHANGED <<registry, expected, holder, task, choosing, generation, page,
                   reads, source, asked>>

\* ... take the bytes with as many system calls as it needs ...
ReadBytes(i) ==
    LET l == load[i]  r == l.id IN
    /\ l # NoLoad
    /\ load' = [load EXCEPT ![i].got = @ \union {Revision(reads[i][r].file)}]
    /\ load' # load
    /\ UNCHANGED <<registry, expected, holder, task, choosing, generation, page,
                   reads, source, asked>>

\* Mutant: only the read itself is checked to have succeeded.
EndLoadUnverified(i) ==
    LET l == load[i]  r == l.id IN
    /\ l # NoLoad /\ l.got # {}
    /\ load' = [load EXCEPT ![i] = NoLoad]
    /\ reads' = [reads EXCEPT ![i][r].seen = @ \union l.got]
    /\ UNCHANGED <<registry, expected, holder, task, choosing, generation, page,
                   source, asked>>

\* ... and hand them out if they can verify once more.
EndLoad(i) ==
    LET l == load[i]  r == l.id IN
    /\ l # NoLoad /\ l.got # {}
    /\ load' = [load EXCEPT ![i] = NoLoad]
    /\ reads' = IF Verified(reads[i][r])
                THEN [reads EXCEPT ![i][r].seen = @ \union l.got] ELSE reads
    /\ UNCHANGED <<registry, expected, holder, task, choosing, generation, page,
                   source, asked>>

CloseRead(i, r) ==
    /\ Free(i) /\ reads[i][r] # NoRead
    /\ reads' = [reads EXCEPT ![i][r] = NoRead]
    /\ UNCHANGED <<registry, expected, holder, task, choosing, generation, page,
                   load, source, asked>>

---------------------------------------------------------------------------
(* The editor, other programs and the end of a process *)

\* The handshake of a new page: closeSfzReads(), then the page generation.
LibraryNewPage(i) ==
    /\ Free(i) /\ page[i] < MaxPages
    /\ generation' = [generation EXCEPT ![i] = @ + 1]
    /\ reads' = [reads EXCEPT ![i] = [r \in ReadIds |-> NoRead]]
    /\ page' = [page EXCEPT ![i] = @ + 1]
    /\ UNCHANGED <<registry, expected, holder, task, choosing, load, source, asked>>

\* detachEditor(): its choosers are void, the page and its reads go on.
LibraryDetach(i) ==
    /\ Free(i)
    /\ generation' = [generation EXCEPT ![i] = @ + 1]
    /\ UNCHANGED <<registry, expected, holder, task, choosing, page, reads, load,
                   source, asked>>

\* The process dies: the system releases its lock and its handles.
LibraryCrash(i) ==
    /\ holder' = IF holder = i THEN None ELSE holder
    /\ task' = [task EXCEPT ![i] = NoTask]
    /\ choosing' = [choosing EXCEPT ![i] = {}]
    /\ reads' = [reads EXCEPT ![i] = [r \in ReadIds |-> NoRead]]
    /\ load' = [load EXCEPT ![i] = NoLoad]
    /\ generation' = [generation EXCEPT ![i] = 0]
    /\ page' = [page EXCEPT ![i] = 0]
    /\ UNCHANGED <<registry, expected, source, asked>>

\* Another program writes into the bank file, or puts a new one in its place.
EditSource ==
    /\ \/ /\ source.version[source.path] < MaxEdits
          /\ source' = [source EXCEPT !.version[source.path] = @ + 1]
       \/ /\ source.path < MaxEdits
          /\ source' = [source EXCEPT !.path = @ + 1]
    /\ UNCHANGED <<registry, expected, holder, task, choosing, generation, page,
                   reads, load, asked>>

LibraryStep(i) ==
    \/ \E op \in Operations, bank \in Banks \union {None},
          pinned \in {None, Revision(source.path)} : Ask(i, op, bank, pinned)
    \/ Choose(i) \/ Chosen(i)
    \/ Acquire(i) \/ Stage(i) \/ Replace(i) \/ Answer(i) \/ Open(i)
    \/ \E r \in ReadIds : BeginLoad(i, r) \/ CloseRead(i, r)
    \/ ReadBytes(i) \/ EndLoad(i)

---------------------------------------------------------------------------

LibraryTypeOK ==
    /\ registry \in SUBSET Banks /\ expected \in SUBSET Banks
    /\ holder \in Instances \union {None}
    /\ task \in [Instances ->
          [at : {"idle", "waiting", "loaded", "staged"}, op : Operations \union {None},
           bank : Banks \union {None}, entries : SUBSET Banks,
           pinned : Revisions \union {None}, generation : Nat, page : 0 .. MaxPages]]
    /\ choosing \in [Instances -> SUBSET [generation : Nat, page : 0 .. MaxPages]]
    /\ generation \in [Instances -> Nat]
    /\ page \in [Instances -> 0 .. MaxPages]
    /\ reads \in [Instances -> [ReadIds ->
          [file : Files \union {None}, pinned : Revisions \union {None},
           seen : SUBSET Revisions]]]
    /\ load \in [Instances -> [id : ReadIds \union {None}, got : SUBSET Revisions]]
    /\ source \in [path : Files, version : [Files -> Files]]
    /\ asked \in 0 .. MaxRequests

\* The registry holds what was imported and not removed, whichever instance did
\* either: no import is lost to another process that loaded the registry before
\* it, none is left half done by a process that died, and none is made by a
\* chooser whose editor or page has gone (plugin_processor.cpp:4457).
RegistryIsHistory == registry = expected

\* All that a session pinned to a revision hands out, over any number of chunks
\* and pages, is of that one revision of the file, however the file is edited
\* while the session is open.
PinnedReadsAreOneRevision ==
    \A i \in Instances, r \in ReadIds :
       reads[i][r].pinned # None => reads[i][r].seen \subseteq {reads[i][r].pinned}
=============================================================================
