---------------------------- MODULE BridgeProofs ----------------------------
(***************************************************************************)
(* Proofs about the bridge between the page and the files of the user.     *)
(*                                                                         *)
(* Files: the registry of the instrument library and the read sessions     *)
(* (InstrumentLibrary), and the stores with the backup (FileStores), which *)
(* PluginFiles joins.  Each of the two has an inductive invariant of its   *)
(* own, kept by every one of its actions; the steps that concern both keep *)
(* both.                                                                   *)
(*                                                                         *)
(* The registry is safe because whoever changes it holds the lock since it *)
(* loaded it (RequestInv).  A pinned session is safe because what it reads *)
(* is no older than the first look at the revision and no newer than the   *)
(* last (SessionInv).  A store is safe from everybody but a second writer, *)
(* because a writer that is alone owns the temporary file (WriterInv); a   *)
(* backup is safe because the file that is staged is that of the one       *)
(* request its page is sending (ExportInv, StagingInv).                    *)
(*                                                                         *)
(* The web view host (WebViewHost): a generation that nobody has retired   *)
(* is in the slot, or in the hands of the caller that took it out and will *)
(* retire it, or not yet published and without an editor (Accounted).      *)
(* Only its owner thread shows a view in it, and it is past publishing by  *)
(* then (ThreadOf): that is why no editor stays behind.                    *)
(***************************************************************************)
EXTENDS PluginFiles, WebViewHost, FiniteSetTheorems, SequenceTheorems, TLAPS

------------------------------------------------------------------------------
(* The library *)

\* Who holds the lock has loaded the registry and nobody has changed it since; and
\* nothing takes the place of a request while it is inside the library.
RequestOf(i) ==
  /\ holder = i <=> task[i].at \in {"loaded", "staged"}
  /\ task[i].at # "idle" => /\ task[i].generation = generation[i]
                            /\ task[i].page = page[i]
                            /\ load[i] = NoLoad
                            /\ task[i].op = "list" <=> task[i].bank = None
  /\ task[i].at = "loaded" => task[i].entries = registry
  /\ task[i].at = "staged" =>
       /\ task[i].op \in {"select", "remove"}
       /\ task[i].entries = IF task[i].op = "select" THEN registry \union {task[i].bank}
                                                     ELSE registry \ {task[i].bank}

RequestInv == \A i \in Instances : RequestOf(i)

\* Between the two looks at the revision of a pinned file, what is read is of a
\* revision no older than the first look and no newer than the file is now.
SessionOf(i, r) ==
  LET read == reads[i][r] IN
  /\ read # NoRead => read.file \in Files
  /\ load[i].id = r => read.file \in Files
  /\ read.pinned # None =>
       /\ read.pinned[1] = read.file /\ read.pinned[2] <= source.version[read.file]
       /\ read.seen \subseteq {read.pinned}
       /\ load[i].id = r =>
            \A got \in load[i].got : /\ got[1] = read.file /\ read.pinned[2] <= got[2]
                                     /\ got[2] <= source.version[read.file]

SessionInv ==
  \A i \in Instances : /\ load[i].id = None => load[i] = NoLoad
                       /\ \A r \in ReadIds : SessionOf(i, r)

LibraryInv == LibraryTypeOK /\ RequestInv /\ SessionInv /\ RegistryIsHistory

TaskKind == [at : {"idle", "waiting", "loaded", "staged"}, op : Operations \union {None},
             bank : Banks \union {None}, entries : SUBSET Banks,
             pinned : Revisions \union {None}, generation : Nat, page : 0 .. MaxPages]
ReadKind == [file : Files \union {None}, pinned : Revisions \union {None},
             seen : SUBSET Revisions]
LoadKind == [id : ReadIds \union {None}, got : SUBSET Revisions]

\* The parts of the library's state are of their kinds.
LEMMA LibraryKinds ==
  ASSUME LibraryTypeOK
  PROVE  /\ task \in [Instances -> TaskKind] /\ NoTask \in TaskKind
         /\ reads \in [Instances -> [ReadIds -> ReadKind]] /\ NoRead \in ReadKind
         /\ load \in [Instances -> LoadKind] /\ NoLoad \in LoadKind
         /\ \A file \in Files : Revision(file) \in Revisions
         /\ source.path \in Files /\ \A file \in Files : source.version[file] \in Files
         /\ Files \subseteq Nat
         /\ NoTask.at = "idle" /\ NoRead.pinned = None /\ NoLoad.id = None
<1>1. task \in [Instances -> TaskKind]
  BY DEF LibraryTypeOK, TaskKind
<1>2. reads \in [Instances -> [ReadIds -> ReadKind]] /\ load \in [Instances -> LoadKind]
  BY DEF LibraryTypeOK, ReadKind, LoadKind
<1>3. NoTask \in TaskKind
  BY LibraryAssumption DEF NoTask, TaskKind
<1>4. NoRead \in ReadKind /\ NoLoad \in LoadKind
  BY DEF NoRead, ReadKind, NoLoad, LoadKind
<1>5. source.path \in Files /\ \A file \in Files : source.version[file] \in Files
  BY DEF LibraryTypeOK
<1>6. \A file \in Files : Revision(file) \in Revisions
  BY <1>5 DEF Revision, Revisions
<1>7. QED BY <1>1, <1>2, <1>3, <1>4, <1>5, <1>6, LibraryAssumption
          DEF Files, NoTask, NoRead, NoLoad

\* A request that is made carries the generation and the page of its time.
LEMMA TaskFacts ==
  ASSUME LibraryTypeOK, NEW i \in Instances, NEW op \in Operations,
         NEW bank \in Banks \union {None}, NEW pinned \in Revisions \union {None}
  PROVE  LET t == Task("waiting", op, bank, pinned, i) IN
         /\ t \in TaskKind /\ t.at = "waiting"
         /\ t.generation = generation[i] /\ t.page = page[i]
         /\ t.op = op /\ t.bank = bank
<1>1. generation[i] \in Nat /\ page[i] \in 0 .. MaxPages /\ NoTask \in TaskKind
  BY LibraryKinds DEF LibraryTypeOK
<1>2. QED BY <1>1 DEF Task, TaskKind

\* The task of one instance changes.
LEMMA TaskChange ==
  ASSUME LibraryTypeOK, NEW i \in Instances, NEW t \in TaskKind,
         task' = [task EXCEPT ![i] = t]
  PROVE  /\ task' \in [Instances -> TaskKind] /\ task'[i] = t
         /\ \A j \in Instances \ {i} : task'[j] = task[j]
  BY LibraryKinds

\* A free instance gets a request of its page, or none; nothing else is disturbed.
LEMMA WaitingInv ==
  ASSUME LibraryInv, NEW i \in Instances, NEW t \in TaskKind,
         task[i].at = "idle", load[i] = NoLoad,
         t.at = "waiting", t.generation = generation[i], t.page = page[i],
         t.op = "list" <=> t.bank = None,
         task' = task \/ task' = [task EXCEPT ![i] = t],
         UNCHANGED <<registry, expected, holder, generation, page, reads, load, source>>
  PROVE  /\ task' \in [Instances -> TaskKind]
         /\ RequestInv' /\ SessionInv' /\ RegistryIsHistory'
<1>1. CASE task' = task
  <2>1. RequestInv'
    BY <1>1 DEF LibraryInv, RequestInv, RequestOf
  <2>2. task' \in [Instances -> TaskKind]
    BY <1>1, LibraryKinds DEF LibraryInv
  <2>3. SessionInv' /\ RegistryIsHistory'
    BY DEF LibraryInv, SessionInv, SessionOf, RegistryIsHistory
  <2>4. QED BY <2>1, <2>2, <2>3
<1>2. CASE task' = [task EXCEPT ![i] = t]
  <2>1. /\ task' \in [Instances -> TaskKind] /\ task'[i] = t
        /\ \A j \in Instances \ {i} : task'[j] = task[j]
    BY <1>2, TaskChange DEF LibraryInv
  <2>2. RequestInv'
    <3> SUFFICES ASSUME NEW j \in Instances PROVE RequestOf(j)'
      BY DEF RequestInv
    <3>1. CASE j = i
      BY <2>1, <3>1 DEF LibraryInv, RequestInv, RequestOf
    <3>2. CASE j # i
      <4>1. task'[j] = task[j] /\ RequestOf(j)
        BY <2>1, <3>2 DEF LibraryInv, RequestInv, RequestOf
      <4>2. QED BY <4>1 DEF RequestOf
    <3>3. QED BY <3>1, <3>2
  <2>3. SessionInv' /\ RegistryIsHistory'
    BY DEF LibraryInv, SessionInv, SessionOf, RegistryIsHistory
  <2>4. QED BY <2>1, <2>2, <2>3
<1>3. QED BY <1>1, <1>2

\* A request arrives at an instance that is free.
LEMMA AskInv ==
  ASSUME LibraryInv, NEW i \in Instances, NEW op \in Operations,
         NEW bank \in Banks \union {None}, NEW pinned \in {None, Revision(source.path)},
         Ask(i, op, bank, pinned)
  PROVE  LibraryInv'
<1> DEFINE t == Task("waiting", op, bank, pinned, i)
<1>1. /\ task[i].at = "idle" /\ load[i] = NoLoad /\ asked < MaxRequests
      /\ op = "list" <=> bank = None
      /\ asked' = asked + 1 /\ task' = [task EXCEPT ![i] = t]
      /\ UNCHANGED <<registry, expected, holder, choosing, generation, page, reads, load,
                     source>>
  BY DEF Ask, Free
<1>2. LibraryTypeOK /\ pinned \in Revisions \union {None}
  BY LibraryKinds DEF LibraryInv
<1>3. /\ t \in TaskKind /\ t.at = "waiting"
      /\ t.generation = generation[i] /\ t.page = page[i]
      /\ t.op = op /\ t.bank = bank
  BY <1>2, TaskFacts
<1> HIDE DEF t
<1>4. /\ task' \in [Instances -> TaskKind]
      /\ RequestInv' /\ SessionInv' /\ RegistryIsHistory'
  BY <1>1, <1>3, WaitingInv
<1>5. LibraryTypeOK'
  <2>1. asked' \in 0 .. MaxRequests
    BY <1>1, <1>2, LibraryAssumption DEF LibraryTypeOK
  <2>2. QED BY <1>1, <1>2, <1>4, <2>1 DEF LibraryTypeOK, TaskKind
<1>6. QED BY <1>4, <1>5 DEF LibraryInv

\* A chooser opens in place of any other of the instance.
LEMMA ChooseInv ==
  ASSUME LibraryInv, NEW i \in Instances, Choose(i)
  PROVE  LibraryInv'
<1>1. /\ task[i].at = "idle" /\ asked < MaxRequests /\ asked' = asked + 1
      /\ generation' = [generation EXCEPT ![i] = generation[i] + 1]
      /\ choosing' = [choosing EXCEPT ![i] = choosing[i] \union
                        {[generation |-> generation[i] + 1, page |-> page[i]]}]
      /\ UNCHANGED <<registry, expected, holder, task, page, reads, load, source>>
  BY DEF Choose, Free
<1>2. LibraryTypeOK'
  <2>1. generation[i] + 1 \in Nat /\ page[i] \in 0 .. MaxPages
    BY DEF LibraryInv, LibraryTypeOK
  <2> DEFINE c == [generation |-> generation[i] + 1, page |-> page[i]]
             next == generation[i] + 1
  <2>2. c \in [generation : Nat, page : 0 .. MaxPages] /\ next \in Nat
    BY <2>1
  <2>3. /\ choosing' = [choosing EXCEPT ![i] = choosing[i] \union {c}]
        /\ generation' = [generation EXCEPT ![i] = next]
    BY <1>1
  <2> HIDE DEF c, next
  <2>4. /\ choosing' \in [Instances -> SUBSET [generation : Nat, page : 0 .. MaxPages]]
        /\ generation' \in [Instances -> Nat]
    BY <2>2, <2>3 DEF LibraryInv, LibraryTypeOK
  <2>5. asked' \in 0 .. MaxRequests
    BY <1>1, LibraryAssumption DEF LibraryInv, LibraryTypeOK
  <2>6. QED BY <1>1, <2>4, <2>5 DEF LibraryInv, LibraryTypeOK
<1>3. RequestInv'
  BY <1>1 DEF LibraryInv, RequestInv, RequestOf, LibraryTypeOK
<1>4. SessionInv' /\ RegistryIsHistory'
  BY <1>1 DEF LibraryInv, SessionInv, SessionOf, RegistryIsHistory
<1>5. QED BY <1>2, <1>3, <1>4 DEF LibraryInv

\* The answer of a chooser that still stands becomes a request.
LEMMA ChosenInv ==
  ASSUME LibraryInv, NEW i \in Instances, Chosen(i)
  PROVE  LibraryInv'
<1>1. /\ task[i].at = "idle" /\ load[i] = NoLoad
      /\ UNCHANGED <<registry, expected, holder, generation, page, reads, load, source,
                     asked>>
  BY DEF Chosen, Free
<1>2. PICK c \in choosing[i], bank \in Banks \union {None} :
        /\ choosing' = [choosing EXCEPT ![i] = choosing[i] \ {c}]
        /\ task' = IF bank # None /\ ChoiceStands(i, c)
                     THEN [task EXCEPT ![i] =
                             [Task("waiting", "select", bank, None, i) EXCEPT
                                !.generation = c.generation, !.page = c.page]]
                     ELSE task
  BY DEF Chosen
<1>3. choosing' \in [Instances -> SUBSET [generation : Nat, page : 0 .. MaxPages]]
  BY <1>2 DEF LibraryInv, LibraryTypeOK
<1>4. CASE bank # None /\ ChoiceStands(i, c)
  <2> DEFINE t == Task("waiting", "select", bank, None, i)
             u == [t EXCEPT !.generation = c.generation, !.page = c.page]
  <2>1. task' = [task EXCEPT ![i] = u]
    BY <1>2, <1>4
  <2>2. /\ t \in TaskKind /\ t.at = "waiting"
        /\ t.generation = generation[i] /\ t.page = page[i]
        /\ t.op = "select" /\ t.bank = bank
    <3>1. LibraryTypeOK /\ "select" \in Operations /\ None \in Revisions \union {None}
      BY DEF LibraryInv, Operations
    <3>2. QED BY <3>1, TaskFacts
  <2>3. c.generation = generation[i] /\ c.page = page[i]
    BY <1>4 DEF ChoiceStands
  <2> HIDE DEF t
  <2>4. u = t
    BY <2>2, <2>3 DEF TaskKind
  <2> HIDE DEF u
  <2>5. /\ task' \in [Instances -> TaskKind]
        /\ RequestInv' /\ SessionInv' /\ RegistryIsHistory'
    BY <1>1, <1>4, <2>1, <2>2, <2>4, WaitingInv
  <2>6. LibraryTypeOK'
    BY <1>1, <1>3, <2>5 DEF LibraryInv, LibraryTypeOK, TaskKind
  <2>7. QED BY <2>5, <2>6 DEF LibraryInv
<1>5. CASE task' = task
  <2>1. LibraryTypeOK'
    BY <1>1, <1>3, <1>5 DEF LibraryInv, LibraryTypeOK
  <2>2. RequestInv'
    BY <1>1, <1>5 DEF LibraryInv, RequestInv, RequestOf
  <2>3. SessionInv' /\ RegistryIsHistory'
    BY <1>1 DEF LibraryInv, SessionInv, SessionOf, RegistryIsHistory
  <2>4. QED BY <2>1, <2>2, <2>3 DEF LibraryInv
<1>6. QED BY <1>2, <1>4, <1>5

\* The request of one instance goes a step; the registry changes only while that
\* instance holds the lock.
LEMMA RequestStep ==
  ASSUME LibraryInv, NEW i \in Instances, NEW t \in TaskKind,
         task' = [task EXCEPT ![i] = t],
         UNCHANGED <<generation, page, load>>,
         registry' = registry \/ holder = i,
         \A j \in Instances \ {i} : holder' = j <=> holder = j,
         task'[i] = t => RequestOf(i)'
  PROVE  task' \in [Instances -> TaskKind] /\ task'[i] = t /\ RequestInv'
<1>1. /\ task' \in [Instances -> TaskKind] /\ task'[i] = t
      /\ \A j \in Instances \ {i} : task'[j] = task[j]
  BY TaskChange DEF LibraryInv
<1>2. ASSUME NEW j \in Instances PROVE RequestOf(j)'
  <2>1. CASE j = i
    BY <1>1, <2>1
  <2>2. CASE j # i
    <3>1. task'[j] = task[j] /\ RequestOf(j) /\ (holder' = j <=> holder = j)
      BY <1>1, <2>2 DEF LibraryInv, RequestInv
    <3>2. CASE registry' = registry
      BY <3>1, <3>2 DEF RequestOf
    <3>3. CASE holder = i
      BY <2>2, <3>1, <3>3 DEF RequestOf
    <3>4. QED BY <3>2, <3>3
  <2>3. QED BY <2>1, <2>2
<1>3. RequestInv'
  BY <1>2 DEF RequestInv
<1>4. QED BY <1>1, <1>3

\* The registry is loaded when the lock is free, so nobody else has loaded it.
LEMMA AcquireInv ==
  ASSUME LibraryInv, NEW i \in Instances, Acquire(i)
  PROVE  LibraryInv'
<1>1. /\ holder = None /\ holder' = i /\ task[i].at = "waiting"
      /\ task' = [task EXCEPT ![i].at = "loaded", ![i].entries = registry]
      /\ UNCHANGED <<registry, expected, choosing, generation, page, reads, load, source,
                     asked>>
  BY DEF Acquire, Loaded
<1> DEFINE t == [task[i] EXCEPT !.at = "loaded", !.entries = registry]
<1>2. task' = [task EXCEPT ![i] = t]
  BY <1>1
<1>3. task[i] \in TaskKind /\ registry \subseteq Banks
  BY LibraryKinds DEF LibraryInv, LibraryTypeOK
<1>4. /\ t \in TaskKind /\ t.at = "loaded" /\ t.entries = registry
      /\ t.generation = task[i].generation /\ t.page = task[i].page
      /\ t.op = task[i].op /\ t.bank = task[i].bank
  BY <1>3 DEF TaskKind
<1> HIDE DEF t
<1>5. RequestOf(i)
  BY DEF LibraryInv, RequestInv
<1>6. task'[i] = t => RequestOf(i)'
  BY <1>1, <1>4, <1>5 DEF RequestOf
<1>7. task' \in [Instances -> TaskKind] /\ RequestInv'
  BY <1>1, <1>2, <1>4, <1>6, RequestStep, LibraryAssumption
<1>8. LibraryTypeOK'
  BY <1>1, <1>7 DEF LibraryInv, LibraryTypeOK, TaskKind
<1>9. SessionInv' /\ RegistryIsHistory'
  BY <1>1 DEF LibraryInv, SessionInv, SessionOf, RegistryIsHistory
<1>10. QED BY <1>7, <1>8, <1>9 DEF LibraryInv

\* The temporary file is what the registry is to become.
LEMMA StageInv ==
  ASSUME LibraryInv, NEW i \in Instances, Stage(i)
  PROVE  LibraryInv'
<1>1. /\ task[i].at = "loaded" /\ task[i].op \in {"select", "remove"}
      /\ task' = [task EXCEPT ![i].at = "staged", ![i].entries = Edited(i)]
      /\ UNCHANGED <<registry, expected, holder, choosing, generation, page, reads, load,
                     source, asked>>
  BY DEF Stage
<1> DEFINE edited == Edited(i)
           t == [task[i] EXCEPT !.at = "staged", !.entries = edited]
<1>2. task' = [task EXCEPT ![i] = t]
  BY <1>1
<1>3. task[i] \in TaskKind /\ RequestOf(i) /\ registry \subseteq Banks
  BY LibraryKinds DEF LibraryInv, LibraryTypeOK, RequestInv
<1>4. edited = IF task[i].op = "select" THEN registry \union {task[i].bank}
                                        ELSE registry \ {task[i].bank}
  BY <1>1, <1>3 DEF Edited, RequestOf
<1>5. edited \subseteq Banks
  BY <1>1, <1>3, <1>4 DEF TaskKind, RequestOf
<1> HIDE DEF edited
<1>6. /\ t \in TaskKind /\ t.at = "staged" /\ t.entries = edited
      /\ t.op = task[i].op /\ t.bank = task[i].bank
      /\ t.generation = task[i].generation /\ t.page = task[i].page
  BY <1>3, <1>5 DEF TaskKind
<1> HIDE DEF t
<1>7. task'[i] = t => RequestOf(i)'
  BY <1>1, <1>3, <1>4, <1>6 DEF RequestOf
<1>8. task' \in [Instances -> TaskKind] /\ RequestInv'
  BY <1>1, <1>2, <1>6, <1>7, RequestStep
<1>9. LibraryTypeOK'
  BY <1>1, <1>8 DEF LibraryInv, LibraryTypeOK, TaskKind
<1>10. SessionInv' /\ RegistryIsHistory'
  BY <1>1 DEF LibraryInv, SessionInv, SessionOf, RegistryIsHistory
<1>11. QED BY <1>8, <1>9, <1>10 DEF LibraryInv
\* Leaving the library: who is inside has the lock, so the registry may change.
LEMMA LeaveStep ==
  ASSUME LibraryInv, NEW i \in Instances, task[i].at \in {"loaded", "staged"}, Leave(i),
         UNCHANGED <<generation, page, load>>
  PROVE  /\ holder' = None /\ task' \in [Instances -> TaskKind]
         /\ RequestInv' /\ load[i] = NoLoad
<1>1. holder' = None /\ task' = [task EXCEPT ![i] = NoTask]
  BY DEF Leave
<1>2. holder = i /\ load[i] = NoLoad
  BY DEF LibraryInv, RequestInv, RequestOf
<1>3. NoTask \in TaskKind /\ NoTask.at = "idle"
  BY LibraryKinds DEF LibraryInv
<1>4. \A j \in Instances : holder' # j
  BY <1>1, LibraryAssumption
<1>5. task'[i] = NoTask => RequestOf(i)'
  BY <1>3, <1>4 DEF RequestOf
<1>6. \A j \in Instances \ {i} : holder' = j <=> holder = j
  BY <1>2, <1>4
<1>7. task' \in [Instances -> TaskKind] /\ RequestInv'
  BY <1>1, <1>2, <1>3, <1>5, <1>6, RequestStep
<1>8. QED BY <1>1, <1>2, <1>7

\* What replaces the registry is the registry with the request applied, since nobody
\* could change it while the lock was held.
LEMMA ReplaceInv ==
  ASSUME LibraryInv, NEW i \in Instances, Replace(i)
  PROVE  LibraryInv'
<1>1. /\ task[i].at = "staged" /\ registry' = task[i].entries
      /\ expected' = CASE Abandoned(i)            -> expected
                       [] task[i].op = "select"   -> expected \union {task[i].bank}
                       [] OTHER                   -> expected \ {task[i].bank}
      /\ Leave(i)
      /\ UNCHANGED <<choosing, generation, page, reads, load, source, asked>>
  BY DEF Replace
<1>2. /\ holder' = None /\ task' \in [Instances -> TaskKind] /\ RequestInv'
  BY <1>1, LeaveStep
<1>3. RequestOf(i) /\ task[i] \in TaskKind /\ registry = expected
  BY LibraryKinds DEF LibraryInv, RequestInv, RegistryIsHistory
<1>4. ~Abandoned(i)
  BY <1>1, <1>3 DEF RequestOf, Abandoned
<1>5. expected' = IF task[i].op = "select" THEN expected \union {task[i].bank}
                                           ELSE expected \ {task[i].bank}
  BY <1>1, <1>4
<1>6. registry' = expected'
  BY <1>1, <1>3, <1>5 DEF RequestOf
<1>7. registry' \subseteq Banks
  BY <1>1, <1>3 DEF TaskKind
<1>8. LibraryTypeOK'
  BY <1>1, <1>2, <1>6, <1>7 DEF LibraryInv, LibraryTypeOK, TaskKind
<1>9. SessionInv'
  BY <1>1 DEF LibraryInv, SessionInv, SessionOf
<1>10. QED BY <1>2, <1>6, <1>8, <1>9 DEF LibraryInv, RegistryIsHistory

\* A request that is answered, or fails, leaves the registry alone.
LEMMA AnswerInv ==
  ASSUME LibraryInv, NEW i \in Instances, Answer(i)
  PROVE  LibraryInv'
<1>1. /\ task[i].at \in {"loaded", "staged"} /\ Leave(i)
      /\ UNCHANGED <<registry, expected, choosing, generation, page, reads, load, source,
                     asked>>
  BY DEF Answer
<1>2. /\ holder' = None /\ task' \in [Instances -> TaskKind] /\ RequestInv'
  BY <1>1, LeaveStep
<1>3. LibraryTypeOK'
  BY <1>1, <1>2 DEF LibraryInv, LibraryTypeOK, TaskKind
<1>4. SessionInv' /\ RegistryIsHistory'
  BY <1>1 DEF LibraryInv, SessionInv, SessionOf, RegistryIsHistory
<1>5. QED BY <1>2, <1>3, <1>4 DEF LibraryInv

\* One session changes while nothing of its instance is being read.
LEMMA SessionStep ==
  ASSUME LibraryInv, NEW i \in Instances, NEW r \in ReadIds, NEW new \in ReadKind,
         load'[i] = NoLoad, \A j \in Instances \ {i} : load'[j] = load[j],
         reads' = [reads EXCEPT ![i][r] = new],
         UNCHANGED source,
         new # NoRead => new.file \in Files,
         new.pinned # None => /\ new.pinned[1] = new.file
                              /\ new.pinned[2] <= source.version[new.file]
                              /\ new.seen \subseteq {new.pinned}
  PROVE  reads' \in [Instances -> [ReadIds -> ReadKind]] /\ SessionInv'
<1>1. /\ reads' \in [Instances -> [ReadIds -> ReadKind]] /\ reads'[i][r] = new
      /\ \A j \in Instances, q \in ReadIds :
           j # i \/ q # r => reads'[j][q] = reads[j][q]
  <2>1. reads \in [Instances -> [ReadIds -> ReadKind]]
    BY LibraryKinds DEF LibraryInv
  <2>2. QED BY <2>1
<1>2. NoLoad.id = None /\ \A q \in ReadIds : q # None
  BY LibraryAssumption DEF NoLoad
<1>3. ASSUME NEW j \in Instances, NEW q \in ReadIds PROVE SessionOf(j, q)'
  <2>0. SessionOf(j, q)
    BY DEF LibraryInv, SessionInv
  <2>1. CASE j = i /\ q = r
    BY <1>1, <1>2, <2>1 DEF SessionOf
  <2>2. CASE j = i /\ q # r
    <3>1. reads'[j][q] = reads[j][q] /\ load'[j].id # q
      BY <1>1, <1>2, <2>2
    <3>2. QED BY <2>0, <3>1 DEF SessionOf
  <2>3. CASE j # i
    <3>1. reads'[j][q] = reads[j][q] /\ load'[j] = load[j]
      BY <1>1, <2>3
    <3>2. QED BY <2>0, <3>1 DEF SessionOf
  <2>4. QED BY <2>1, <2>2, <2>3
<1>4. \A j \in Instances : load'[j].id = None => load'[j] = NoLoad
  BY DEF LibraryInv, SessionInv
<1>5. QED BY <1>1, <1>3, <1>4 DEF SessionInv

\* A session that is pinned opens on the revision it is pinned to.
LEMMA OpenInv ==
  ASSUME LibraryInv, NEW i \in Instances, Open(i)
  PROVE  LibraryInv'
<1>1. /\ task[i].at = "loaded" /\ Leave(i)
      /\ task[i].pinned \in {None, Revision(source.path)}
      /\ UNCHANGED <<registry, expected, choosing, generation, page, load, source, asked>>
  BY DEF Open, OpenedFile
<1> DEFINE new == [file |-> source.path, pinned |-> task[i].pinned, seen |-> {}]
<1>2. PICK r \in ReadIds : reads' = [reads EXCEPT ![i][r] = new]
  BY DEF Open, OpenedFile
<1>3. /\ holder' = None /\ task' \in [Instances -> TaskKind] /\ RequestInv'
      /\ load[i] = NoLoad
  BY <1>1, LeaveStep
<1>4. /\ task[i] \in TaskKind /\ source.path \in Files
      /\ source.version[source.path] \in Files /\ Files \subseteq Nat
      /\ Revision(source.path) = <<source.path, source.version[source.path]>>
  BY LibraryKinds DEF LibraryInv, Revision
<1>5. /\ new \in ReadKind /\ new.file = source.path
      /\ new.pinned = task[i].pinned /\ new.seen = {}
  BY <1>4 DEF TaskKind, ReadKind
<1> HIDE DEF new
<1>6. new.pinned # None => /\ new.pinned[1] = new.file
                           /\ new.pinned[2] <= source.version[new.file]
                           /\ new.seen \subseteq {new.pinned}
  <2>1. new.pinned # None => new.pinned = <<new.file, source.version[new.file]>>
    BY <1>1, <1>4, <1>5
  <2>2. new.file = source.path /\ source.version[source.path] \in Nat
    BY <1>4, <1>5
  <2>3. QED BY <1>5, <2>1, <2>2
<1>7. load'[i] = NoLoad /\ \A j \in Instances \ {i} : load'[j] = load[j]
  BY <1>1, <1>3
<1>8. reads' \in [Instances -> [ReadIds -> ReadKind]] /\ SessionInv'
  BY <1>1, <1>2, <1>4, <1>5, <1>6, <1>7, SessionStep
<1>9. LibraryTypeOK'
  BY <1>1, <1>3, <1>8 DEF LibraryInv, LibraryTypeOK, TaskKind, ReadKind
<1>10. QED BY <1>1, <1>3, <1>8, <1>9 DEF LibraryInv, RegistryIsHistory

\* A load of a free instance begins, goes on or ends: nobody is inside its library.
LEMMA LoadRequests ==
  ASSUME LibraryInv, NEW i \in Instances, task[i].at = "idle",
         \A j \in Instances \ {i} : load'[j] = load[j],
         UNCHANGED <<registry, holder, task, generation, page>>
  PROVE  RequestInv'
<1>1. ASSUME NEW j \in Instances PROVE RequestOf(j)'
  <2>1. RequestOf(j)
    BY DEF LibraryInv, RequestInv
  <2>2. CASE j = i
    BY <2>1, <2>2 DEF RequestOf
  <2>3. CASE j # i
    BY <2>1, <2>3 DEF RequestOf
  <2>4. QED BY <2>2, <2>3
<1>2. QED BY <1>1 DEF RequestInv

\* A session is read from only when it is open.
LEMMA BeginLoadInv ==
  ASSUME LibraryInv, NEW i \in Instances, NEW r \in ReadIds, BeginLoad(i, r)
  PROVE  LibraryInv'
<1> DEFINE new == [id |-> r, got |-> {}]
<1>1. /\ task[i].at = "idle" /\ load[i] = NoLoad /\ reads[i][r] # NoRead
      /\ load' = [load EXCEPT ![i] = new]
      /\ UNCHANGED <<registry, expected, holder, task, choosing, generation, page, reads,
                     source, asked>>
  BY DEF BeginLoad, Free
<1>2. new \in LoadKind /\ new.id = r /\ new.got = {}
  BY DEF LoadKind
<1> HIDE DEF new
<1>3. /\ load' \in [Instances -> LoadKind] /\ load'[i] = new
      /\ \A j \in Instances \ {i} : load'[j] = load[j]
  BY <1>1, <1>2, LibraryKinds DEF LibraryInv
<1>4. RequestInv'
  BY <1>1, <1>3, LoadRequests
<1>5. ASSUME NEW j \in Instances, NEW q \in ReadIds PROVE SessionOf(j, q)'
  <2>1. SessionOf(j, q)
    BY DEF LibraryInv, SessionInv
  <2>2. CASE j = i
    <3>1. load'[j].id = q => q = r
      BY <1>2, <1>3, <2>2
    <3>2. load'[j].got = {}
      BY <1>2, <1>3, <2>2
    <3>3. QED BY <1>1, <2>1, <2>2, <3>1, <3>2 DEF SessionOf
  <2>3. CASE j # i
    BY <1>1, <1>3, <2>1, <2>3 DEF SessionOf
  <2>4. QED BY <2>2, <2>3
<1>6. \A j \in Instances : load'[j].id = None => load'[j] = NoLoad
  BY <1>2, <1>3, LibraryAssumption DEF LibraryInv, SessionInv
<1>7. SessionInv'
  BY <1>5, <1>6 DEF SessionInv
<1>8. LibraryTypeOK'
  BY <1>1, <1>3 DEF LibraryInv, LibraryTypeOK, LoadKind
<1>9. QED BY <1>1, <1>4, <1>7, <1>8 DEF LibraryInv, RegistryIsHistory

\* What is read is of the revision the file has at that time.
LEMMA ReadBytesInv ==
  ASSUME LibraryInv, NEW i \in Instances, ReadBytes(i)
  PROVE  LibraryInv'
<1>1. /\ load[i] # NoLoad
      /\ load' = [load EXCEPT ![i].got =
                    load[i].got \union {Revision(reads[i][load[i].id].file)}]
      /\ UNCHANGED <<registry, expected, holder, task, choosing, generation, page, reads,
                     source, asked>>
  BY DEF ReadBytes
<1>2. /\ load[i] \in LoadKind /\ Files \subseteq Nat
      /\ \A f \in Files : source.version[f] \in Files
  BY LibraryKinds DEF LibraryInv
<1>3. PICK r \in ReadIds : load[i].id = r
  BY <1>1, <1>2 DEF LibraryInv, SessionInv, LoadKind
<1> DEFINE file == reads[i][r].file
           more == load[i].got \union {Revision(file)}
           new == [load[i] EXCEPT !.got = more]
<1>4. SessionOf(i, r) /\ file \in Files
  BY <1>3 DEF LibraryInv, SessionInv, SessionOf
<1>5. Revision(file) \in Revisions
  BY <1>4, LibraryKinds DEF LibraryInv
<1>6. new \in LoadKind /\ new.id = r /\ new.got = more
  BY <1>2, <1>3, <1>5 DEF LoadKind
<1>6a. load' = [load EXCEPT ![i] = new]
  BY <1>1, <1>3
<1> HIDE DEF new
<1>7. /\ load' \in [Instances -> LoadKind] /\ load'[i] = new
      /\ \A j \in Instances \ {i} : load'[j] = load[j]
  BY <1>6, <1>6a, LibraryKinds DEF LibraryInv
<1>8. task[i].at = "idle"
  BY <1>1 DEF LibraryInv, RequestInv, RequestOf
<1>9. RequestInv'
  BY <1>1, <1>7, <1>8, LoadRequests
<1>10. SessionOf(i, r)'
  <2>1. reads'[i][r] = reads[i][r] /\ source' = source
    BY <1>1
  <2>2. load'[i].id = r /\ load'[i].got = more
    BY <1>6, <1>7
  <2>3. /\ Revision(file)[1] = file /\ Revision(file)[2] = source.version[file]
        /\ source.version[file] \in Nat
    BY <1>2, <1>4 DEF Revision
  <2>4. reads[i][r].pinned # None =>
          /\ reads[i][r].pinned[1] = file
          /\ reads[i][r].pinned[2] <= source.version[file]
          /\ reads[i][r].seen \subseteq {reads[i][r].pinned}
          /\ \A got \in load[i].got : /\ got[1] = file /\ reads[i][r].pinned[2] <= got[2]
                                      /\ got[2] <= source.version[file]
    BY <1>3, <1>4 DEF SessionOf
  <2>5. reads[i][r].pinned # None =>
          \A got \in more : /\ got[1] = file /\ reads[i][r].pinned[2] <= got[2]
                            /\ got[2] <= source.version[file]
    BY <2>3, <2>4
  <2> HIDE DEF more
  <2>6. QED BY <1>4, <2>1, <2>2, <2>4, <2>5 DEF SessionOf
<1>11. ASSUME NEW j \in Instances, NEW q \in ReadIds PROVE SessionOf(j, q)'
  <2>1. SessionOf(j, q)
    BY DEF LibraryInv, SessionInv
  <2>2. CASE j = i /\ q # r
    <3>1. reads'[j][q] = reads[j][q] /\ load'[j].id # q
      BY <1>1, <1>6, <1>7, <2>2
    <3>2. QED BY <1>1, <2>1, <3>1 DEF SessionOf
  <2>3. CASE j # i
    BY <1>1, <1>7, <2>1, <2>3 DEF SessionOf
  <2>4. QED BY <1>10, <2>2, <2>3
<1>12. \A j \in Instances : load'[j].id = None => load'[j] = NoLoad
  BY <1>3, <1>6, <1>7, LibraryAssumption DEF LibraryInv, SessionInv
<1>13. SessionInv'
  BY <1>11, <1>12 DEF SessionInv
<1>14. LibraryTypeOK'
  BY <1>1, <1>7 DEF LibraryInv, LibraryTypeOK, LoadKind
<1>15. QED BY <1>1, <1>9, <1>13, <1>14 DEF LibraryInv, RegistryIsHistory

\* What a pinned session hands out lies between two looks that saw the same revision.
LEMMA EndLoadInv ==
  ASSUME LibraryInv, NEW i \in Instances, EndLoad(i)
  PROVE  LibraryInv'
<1>1. /\ load[i] # NoLoad /\ load' = [load EXCEPT ![i] = NoLoad]
      /\ reads' = IF Verified(reads[i][load[i].id])
                  THEN [reads EXCEPT ![i][load[i].id].seen =
                          reads[i][load[i].id].seen \union load[i].got]
                  ELSE reads
      /\ UNCHANGED <<registry, expected, holder, task, choosing, generation, page,
                     source, asked>>
  BY DEF EndLoad
<1>2. /\ load[i] \in LoadKind /\ NoLoad \in LoadKind /\ Files \subseteq Nat
      /\ reads \in [Instances -> [ReadIds -> ReadKind]]
      /\ \A f \in Files : source.version[f] \in Files
  BY LibraryKinds DEF LibraryInv
<1>3. PICK r \in ReadIds : load[i].id = r
  BY <1>1, <1>2 DEF LibraryInv, SessionInv, LoadKind
<1> DEFINE read == reads[i][r]
           more == read.seen \union load[i].got
           new == IF Verified(read) THEN [read EXCEPT !.seen = more] ELSE read
<1>4. SessionOf(i, r) /\ read.file \in Files /\ read \in ReadKind
  BY <1>2, <1>3 DEF LibraryInv, SessionInv, SessionOf
<1>5. reads' = [reads EXCEPT ![i][r] = new]
  BY <1>1, <1>2, <1>3
<1>6. more \subseteq Revisions
  BY <1>2, <1>4 DEF LoadKind, ReadKind
<1>7. /\ new \in ReadKind /\ new.file = read.file /\ new.pinned = read.pinned
      /\ new.seen = IF Verified(read) THEN more ELSE read.seen
  BY <1>4, <1>6 DEF ReadKind
<1>8. read.pinned # None =>
        /\ read.pinned[1] = read.file /\ read.pinned[2] <= source.version[read.file]
        /\ read.seen \subseteq {read.pinned}
        /\ \A got \in load[i].got : /\ got[1] = read.file /\ read.pinned[2] <= got[2]
                                    /\ got[2] <= source.version[read.file]
  BY <1>3, <1>4 DEF SessionOf
<1>9. ASSUME read.pinned # None, Verified(read) PROVE load[i].got \subseteq {read.pinned}
  <2>1. read.pinned = <<read.file, source.version[read.file]>>
    BY <1>9 DEF Verified, Revision
  <2>2. ASSUME NEW got \in load[i].got PROVE got = read.pinned
    <3>1. got \in Files \X Files
      BY <1>2 DEF LoadKind, Revisions
    <3>2. /\ got = <<got[1], got[2]>> /\ got[2] \in Nat
          /\ source.version[read.file] \in Nat
      <4>1. got = <<got[1], got[2]>> /\ got[2] \in Files
        BY <3>1
      <4>2. source.version[read.file] \in Files
        BY <1>2, <1>4
      <4>3. QED BY <1>2, <4>1, <4>2
    <3>3. /\ got[1] = read.file /\ read.pinned[2] <= got[2]
          /\ got[2] <= source.version[read.file]
      BY <1>8, <1>9
    <3>4. read.pinned[2] = source.version[read.file]
      BY <2>1
    <3>5. got[2] = source.version[read.file]
      BY <3>2, <3>3, <3>4
    <3>6. QED BY <2>1, <3>2, <3>3, <3>5
  <2>3. QED BY <2>2
<1>10. new.pinned # None => /\ new.pinned[1] = new.file
                            /\ new.pinned[2] <= source.version[new.file]
                            /\ new.seen \subseteq {new.pinned}
  BY <1>7, <1>8, <1>9
<1>11. /\ load' \in [Instances -> LoadKind] /\ load'[i] = NoLoad
       /\ \A j \in Instances \ {i} : load'[j] = load[j]
  BY <1>1, <1>2, LibraryKinds DEF LibraryInv
<1>12. new.file \in Files
  BY <1>4, <1>7
<1> HIDE DEF new
<1>13. reads' \in [Instances -> [ReadIds -> ReadKind]] /\ SessionInv'
  BY <1>1, <1>3, <1>5, <1>7, <1>10, <1>11, <1>12, SessionStep
<1>14. task[i].at = "idle"
  BY <1>1 DEF LibraryInv, RequestInv, RequestOf
<1>15. RequestInv'
  BY <1>1, <1>11, <1>14, LoadRequests
<1>16. LibraryTypeOK'
  BY <1>1, <1>11, <1>13 DEF LibraryInv, LibraryTypeOK, LoadKind, ReadKind
<1>17. QED BY <1>1, <1>13, <1>15, <1>16 DEF LibraryInv, RegistryIsHistory

\* A session is closed.
LEMMA CloseReadInv ==
  ASSUME LibraryInv, NEW i \in Instances, NEW r \in ReadIds, CloseRead(i, r)
  PROVE  LibraryInv'
<1>1. /\ task[i].at = "idle" /\ load[i] = NoLoad
      /\ reads' = [reads EXCEPT ![i][r] = NoRead]
      /\ UNCHANGED <<registry, expected, holder, task, choosing, generation, page,
                     load, source, asked>>
  BY DEF CloseRead, Free
<1>2. NoRead \in ReadKind /\ NoRead.pinned = None
  BY LibraryKinds DEF LibraryInv
<1>3. load'[i] = NoLoad /\ \A j \in Instances \ {i} : load'[j] = load[j]
  BY <1>1
<1>4. reads' \in [Instances -> [ReadIds -> ReadKind]] /\ SessionInv'
  BY <1>1, <1>2, <1>3, SessionStep
<1>5. RequestInv'
  BY <1>1, <1>3, LoadRequests
<1>6. LibraryTypeOK'
  BY <1>1, <1>4 DEF LibraryInv, LibraryTypeOK, ReadKind
<1>7. QED BY <1>1, <1>4, <1>5, <1>6 DEF LibraryInv, RegistryIsHistory

\* A new page has no reads, and nobody is inside the library of its instance.
LEMMA LibraryNewPageInv ==
  ASSUME LibraryInv, NEW i \in Instances, LibraryNewPage(i)
  PROVE  LibraryInv'
<1> DEFINE fresh == [r \in ReadIds |-> NoRead]
<1>1. /\ task[i].at = "idle" /\ load[i] = NoLoad /\ page[i] < MaxPages
      /\ generation' = [generation EXCEPT ![i] = generation[i] + 1]
      /\ reads' = [reads EXCEPT ![i] = fresh]
      /\ page' = [page EXCEPT ![i] = page[i] + 1]
      /\ UNCHANGED <<registry, expected, holder, task, choosing, load, source, asked>>
  BY DEF LibraryNewPage, Free
<1>2. /\ generation \in [Instances -> Nat] /\ page \in [Instances -> 0 .. MaxPages]
      /\ reads \in [Instances -> [ReadIds -> ReadKind]] /\ NoRead \in ReadKind
      /\ NoRead.pinned = None /\ NoLoad.id = None
  BY LibraryKinds DEF LibraryInv, LibraryTypeOK
<1>3. generation[i] + 1 \in Nat /\ page[i] + 1 \in 0 .. MaxPages
  BY <1>1, <1>2, LibraryAssumption
<1>4. generation' \in [Instances -> Nat] /\ page' \in [Instances -> 0 .. MaxPages]
  BY <1>1, <1>2, <1>3
<1>5. fresh \in [ReadIds -> ReadKind] /\ \A r \in ReadIds : fresh[r] = NoRead
  BY <1>2
<1> HIDE DEF fresh
<1>6. /\ reads' \in [Instances -> [ReadIds -> ReadKind]] /\ reads'[i] = fresh
      /\ \A j \in Instances \ {i} : reads'[j] = reads[j]
  BY <1>1, <1>2, <1>5
<1>7. ASSUME NEW j \in Instances PROVE RequestOf(j)'
  <2>1. RequestOf(j)
    BY DEF LibraryInv, RequestInv
  <2>2. CASE j = i
    BY <1>1, <2>1, <2>2 DEF RequestOf
  <2>3. CASE j # i
    <3>1. generation'[j] = generation[j] /\ page'[j] = page[j]
      BY <1>1, <1>2, <2>3
    <3>2. QED BY <1>1, <2>1, <3>1 DEF RequestOf
  <2>4. QED BY <2>2, <2>3
<1>8. ASSUME NEW j \in Instances, NEW r \in ReadIds PROVE SessionOf(j, r)'
  <2>1. SessionOf(j, r) /\ r # None
    BY LibraryAssumption DEF LibraryInv, SessionInv
  <2>2. CASE j = i
    <3>1. reads'[j][r] = NoRead /\ load'[j].id # r
      BY <1>1, <1>2, <1>5, <1>6, <2>1, <2>2
    <3>2. QED BY <1>2, <3>1 DEF SessionOf
  <2>3. CASE j # i
    <3>1. reads'[j] = reads[j]
      BY <1>6, <2>3
    <3>2. QED BY <1>1, <2>1, <3>1 DEF SessionOf
  <2>4. QED BY <2>2, <2>3
<1>9. RequestInv' /\ SessionInv'
  BY <1>1, <1>7, <1>8 DEF RequestInv, SessionInv, LibraryInv
<1>10. LibraryTypeOK'
  BY <1>1, <1>4, <1>6 DEF LibraryInv, LibraryTypeOK, ReadKind
<1>11. QED BY <1>1, <1>9, <1>10 DEF LibraryInv, RegistryIsHistory

\* The choosers of an editor that closes are void.
LEMMA LibraryDetachInv ==
  ASSUME LibraryInv, NEW i \in Instances, LibraryDetach(i)
  PROVE  LibraryInv'
<1>1. /\ task[i].at = "idle"
      /\ generation' = [generation EXCEPT ![i] = generation[i] + 1]
      /\ UNCHANGED <<registry, expected, holder, task, choosing, page, reads, load,
                     source, asked>>
  BY DEF LibraryDetach, Free
<1>2. generation \in [Instances -> Nat]
  BY DEF LibraryInv, LibraryTypeOK
<1>3. generation[i] + 1 \in Nat
  BY <1>2
<1>4. /\ generation' \in [Instances -> Nat]
      /\ \A j \in Instances \ {i} : generation'[j] = generation[j]
  BY <1>1, <1>2, <1>3
<1>5. ASSUME NEW j \in Instances PROVE RequestOf(j)'
  <2>1. RequestOf(j)
    BY DEF LibraryInv, RequestInv
  <2>2. CASE j = i
    BY <1>1, <2>1, <2>2 DEF RequestOf
  <2>3. CASE j # i
    BY <1>1, <1>4, <2>1, <2>3 DEF RequestOf
  <2>4. QED BY <2>2, <2>3
<1>6. RequestInv'
  BY <1>5 DEF RequestInv
<1>7. SessionInv' /\ RegistryIsHistory'
  BY <1>1 DEF LibraryInv, SessionInv, SessionOf, RegistryIsHistory
<1>8. LibraryTypeOK'
  BY <1>1, <1>4 DEF LibraryInv, LibraryTypeOK
<1>9. QED BY <1>6, <1>7, <1>8 DEF LibraryInv

\* A process that dies lets go of the lock and of its handles.
LEMMA LibraryCrashInv ==
  ASSUME LibraryInv, NEW i \in Instances, LibraryCrash(i)
  PROVE  LibraryInv'
<1> DEFINE fresh == [r \in ReadIds |-> NoRead]
<1>1. /\ holder' = IF holder = i THEN None ELSE holder
      /\ task' = [task EXCEPT ![i] = NoTask]
      /\ choosing' = [choosing EXCEPT ![i] = {}]
      /\ reads' = [reads EXCEPT ![i] = fresh]
      /\ load' = [load EXCEPT ![i] = NoLoad]
      /\ generation' = [generation EXCEPT ![i] = 0]
      /\ page' = [page EXCEPT ![i] = 0]
      /\ UNCHANGED <<registry, expected, source, asked>>
  BY DEF LibraryCrash
<1>2. LibraryTypeOK
  BY DEF LibraryInv
<1>3. /\ task \in [Instances -> TaskKind] /\ NoTask \in TaskKind
      /\ reads \in [Instances -> [ReadIds -> ReadKind]] /\ NoRead \in ReadKind
      /\ load \in [Instances -> LoadKind] /\ NoLoad \in LoadKind
      /\ NoTask.at = "idle" /\ NoRead.pinned = None /\ NoLoad.id = None
  BY <1>2, LibraryKinds
<1>4. 0 \in Nat /\ 0 \in 0 .. MaxPages
  BY LibraryAssumption
<1>5. fresh \in [ReadIds -> ReadKind] /\ \A r \in ReadIds : fresh[r] = NoRead
  BY <1>3
<1> HIDE DEF fresh
<1>6. /\ task' \in [Instances -> TaskKind] /\ task'[i] = NoTask
      /\ reads' \in [Instances -> [ReadIds -> ReadKind]] /\ reads'[i] = fresh
      /\ load' \in [Instances -> LoadKind] /\ load'[i] = NoLoad
  BY <1>1, <1>3, <1>5
<1>7. \A j \in Instances \ {i} :
        /\ task'[j] = task[j] /\ reads'[j] = reads[j] /\ load'[j] = load[j]
        /\ generation'[j] = generation[j] /\ page'[j] = page[j]
        /\ holder' = j <=> holder = j
  BY <1>1, <1>2, <1>3, LibraryAssumption DEF LibraryTypeOK
<1>8. holder' # i /\ holder' \in Instances \union {None}
  BY <1>1, <1>2, LibraryAssumption DEF LibraryTypeOK
<1>9. ASSUME NEW j \in Instances PROVE RequestOf(j)'
  <2>1. CASE j = i
    BY <1>3, <1>6, <1>8, <2>1 DEF RequestOf
  <2>2. CASE j # i
    <3>1. RequestOf(j)
      BY DEF LibraryInv, RequestInv
    <3>2. QED BY <1>1, <1>7, <2>2, <3>1 DEF RequestOf
  <2>3. QED BY <2>1, <2>2
<1>10. ASSUME NEW j \in Instances, NEW r \in ReadIds PROVE SessionOf(j, r)'
  <2>1. SessionOf(j, r) /\ r # None
    BY LibraryAssumption DEF LibraryInv, SessionInv
  <2>2. CASE j = i
    <3>1. reads'[j][r] = NoRead /\ load'[j].id # r
      BY <1>3, <1>5, <1>6, <2>1, <2>2
    <3>2. QED BY <1>3, <3>1 DEF SessionOf
  <2>3. CASE j # i
    <3>1. reads'[j] = reads[j] /\ load'[j] = load[j]
      BY <1>7, <2>3
    <3>2. QED BY <1>1, <2>1, <3>1 DEF SessionOf
  <2>4. QED BY <2>2, <2>3
<1>11. \A j \in Instances : load'[j].id = None => load'[j] = NoLoad
  BY <1>6, <1>7 DEF LibraryInv, SessionInv
<1>12. RequestInv' /\ SessionInv'
  BY <1>9, <1>10, <1>11 DEF RequestInv, SessionInv
<1>13. /\ generation' \in [Instances -> Nat] /\ page' \in [Instances -> 0 .. MaxPages]
       /\ choosing' \in [Instances -> SUBSET [generation : Nat, page : 0 .. MaxPages]]
  BY <1>1, <1>2, <1>4 DEF LibraryTypeOK
<1>14. LibraryTypeOK'
  BY <1>1, <1>2, <1>6, <1>8, <1>13 DEF LibraryTypeOK, TaskKind, ReadKind, LoadKind
<1>15. QED BY <1>1, <1>12, <1>14 DEF LibraryInv, RegistryIsHistory

\* Another program makes the bank file newer, never older.
LEMMA EditSourceInv ==
  ASSUME LibraryInv, EditSource
  PROVE  LibraryInv'
<1>1. UNCHANGED <<registry, expected, holder, task, choosing, generation, page,
                  reads, load, asked>>
  BY DEF EditSource
<1>2. /\ source \in [path : Files, version : [Files -> Files]]
      /\ Files \subseteq Nat /\ \A n \in Files : n < MaxEdits => n + 1 \in Files
  BY LibraryAssumption DEF LibraryInv, LibraryTypeOK, Files
<1>3. /\ source' \in [path : Files, version : [Files -> Files]]
      /\ \A file \in Files : source.version[file] <= source'.version[file]
  <2>1. CASE /\ source.version[source.path] < MaxEdits
             /\ source' = [source EXCEPT !.version[source.path] = @ + 1]
    <3> DEFINE more == source.version[source.path] + 1
               version == [source.version EXCEPT ![source.path] = more]
    <3>1. source' = [source EXCEPT !.version = version]
      BY <1>2, <2>1
    <3>2. more \in Files
      BY <1>2, <2>1
    <3>3. source.version[source.path] <= more
      <4>1. source.version[source.path] \in Nat
        BY <1>2
      <4>2. QED BY <4>1
    <3>4. /\ version \in [Files -> Files] /\ version[source.path] = more
          /\ \A file \in Files \ {source.path} : version[file] = source.version[file]
      BY <1>2, <3>2
    <3> HIDE DEF version, more
    <3>5. /\ source' \in [path : Files, version : [Files -> Files]]
          /\ source'.version = version
      BY <1>2, <3>1, <3>4
    <3>6. \A file \in Files : source.version[file] \in Nat
      BY <1>2
    <3>7. QED BY <3>3, <3>4, <3>5, <3>6
  <2>2. CASE /\ source.path < MaxEdits
             /\ source' = [source EXCEPT !.path = @ + 1]
    <3> DEFINE more == source.path + 1
    <3>1. more \in Files
      BY <1>2, <2>2
    <3>2. source' = [source EXCEPT !.path = more]
      BY <2>2
    <3> HIDE DEF more
    <3>3. /\ source' \in [path : Files, version : [Files -> Files]]
          /\ source'.version = source.version
      BY <1>2, <3>1, <3>2
    <3>4. \A file \in Files : source.version[file] \in Nat
      BY <1>2
    <3>5. QED BY <3>3, <3>4
  <2>3. QED BY <2>1, <2>2 DEF EditSource
<1>4. ASSUME NEW j \in Instances, NEW r \in ReadIds PROVE SessionOf(j, r)'
  <2>1. SessionOf(j, r) /\ reads[j][r] \in ReadKind /\ load[j] \in LoadKind
    BY LibraryKinds DEF LibraryInv, SessionInv
  <2>2. ASSUME reads[j][r].pinned # None
        PROVE  /\ reads[j][r].file \in Files
               /\ reads[j][r].pinned \in Files \X Files
    BY <2>1, <2>2, LibraryKinds DEF LibraryInv, SessionOf, ReadKind, Revisions
  <2>3. ASSUME reads[j][r].pinned # None
        PROVE  reads[j][r].pinned[2] <= source'.version[reads[j][r].file]
    <3> DEFINE file == reads[j][r].file
    <3>1. reads[j][r].pinned[2] <= source.version[file]
      BY <2>1, <2>3 DEF SessionOf
    <3>2. /\ reads[j][r].pinned[2] \in Nat /\ source.version[file] \in Nat
          /\ source'.version[file] \in Nat
      BY <1>2, <1>3, <2>2, <2>3
    <3>3. source.version[file] <= source'.version[file]
      BY <1>3, <2>2, <2>3
    <3> HIDE DEF file
    <3>4. reads[j][r].pinned[2] <= source'.version[file]
      BY <3>1, <3>2, <3>3
    <3>5. QED BY <3>4 DEF file
  <2>4. ASSUME reads[j][r].pinned # None, load[j].id = r, NEW got \in load[j].got
        PROVE  got[2] <= source'.version[reads[j][r].file]
    <3> DEFINE file == reads[j][r].file
    <3>1. got[2] <= source.version[file]
      BY <2>1, <2>4 DEF SessionOf
    <3>2. got \in Files \X Files
      BY <2>1 DEF LoadKind, Revisions
    <3>3. got[2] \in Nat /\ source.version[file] \in Nat /\ source'.version[file] \in Nat
      BY <1>2, <1>3, <2>2, <2>4, <3>2
    <3>4. source.version[file] <= source'.version[file]
      BY <1>3, <2>2, <2>4
    <3> HIDE DEF file
    <3>5. got[2] <= source'.version[file]
      BY <3>1, <3>3, <3>4
    <3>6. QED BY <3>5 DEF file
  <2>5. reads' = reads /\ load' = load
    BY <1>1
  <2>6. QED BY <2>1, <2>3, <2>4, <2>5 DEF SessionOf
<1>5. SessionInv'
  BY <1>1, <1>4 DEF LibraryInv, SessionInv
<1>6. RequestInv' /\ RegistryIsHistory'
  BY <1>1 DEF LibraryInv, RequestInv, RequestOf, RegistryIsHistory
<1>7. LibraryTypeOK'
  BY <1>1, <1>3 DEF LibraryInv, LibraryTypeOK
<1>8. QED BY <1>5, <1>6, <1>7 DEF LibraryInv

\* The library in its initial state.
LEMMA LibraryInitInv ==
  ASSUME LibraryInit
  PROVE  LibraryInv
<1>1. NoTask \in TaskKind /\ NoTask.at = "idle"
  BY LibraryAssumption DEF NoTask, TaskKind
<1>2. NoRead \in ReadKind /\ NoRead.pinned = None
  BY DEF NoRead, ReadKind
<1>3. NoLoad \in LoadKind /\ NoLoad.id = None
  BY DEF NoLoad, LoadKind
<1>4. 0 \in Files /\ 0 \in 0 .. MaxRequests /\ 0 \in 0 .. MaxPages
  BY LibraryAssumption DEF Files
<1>5. LibraryTypeOK
  <2>1. /\ task \in [Instances -> TaskKind]
        /\ reads \in [Instances -> [ReadIds -> ReadKind]]
        /\ load \in [Instances -> LoadKind]
    BY <1>1, <1>2, <1>3 DEF LibraryInit
  <2>2. source \in [path : Files, version : [Files -> Files]]
    BY <1>4 DEF LibraryInit
  <2>3. QED BY <1>4, <2>1, <2>2
            DEF LibraryInit, LibraryTypeOK, TaskKind, ReadKind, LoadKind
<1>6. RequestInv
  BY <1>1, LibraryAssumption DEF LibraryInit, RequestInv, RequestOf
<1>7. SessionInv
  BY <1>2, <1>3, LibraryAssumption DEF LibraryInit, SessionInv, SessionOf
<1>8. QED BY <1>5, <1>6, <1>7 DEF LibraryInit, LibraryInv, RegistryIsHistory

\* What an instance does with its library.
LEMMA LibraryStepInv ==
  ASSUME LibraryInv, NEW i \in Instances, LibraryStep(i)
  PROVE  LibraryInv'
<1>1. ASSUME NEW op \in Operations, NEW bank \in Banks \union {None},
             NEW pinned \in {None, Revision(source.path)}, Ask(i, op, bank, pinned)
      PROVE  LibraryInv'
  BY <1>1, AskInv
<1>2. ASSUME NEW r \in ReadIds, BeginLoad(i, r) \/ CloseRead(i, r)
      PROVE  LibraryInv'
  BY <1>2, BeginLoadInv, CloseReadInv
<1>3. CASE Choose(i) \/ Chosen(i)
  BY <1>3, ChooseInv, ChosenInv
<1>4. CASE Acquire(i) \/ Stage(i) \/ Replace(i) \/ Answer(i) \/ Open(i)
  BY <1>4, AcquireInv, StageInv, ReplaceInv, AnswerInv, OpenInv
<1>5. CASE ReadBytes(i) \/ EndLoad(i)
  BY <1>5, ReadBytesInv, EndLoadInv
<1>6. QED BY <1>1, <1>2, <1>3, <1>4, <1>5 DEF LibraryStep

------------------------------------------------------------------------------
(* The stores and the backup *)

ContentKind == [by : Instances \union {None},
                state : {"absent", "empty", "part", "whole", "garbled"}]
WriteKind   == [at : {"idle", "opened", "half", "closed"}, store : Stores \union {None},
                file : {"temporary", "store", None}, alone : BOOLEAN]
ExportKind  == [at : {"none", "choosing", "lost", "sending", "done"},
                page : Instances \union {None}, epoch : Nat, sent : 0 .. BackupSize]
StagingKind == [target : Exports \union {None}, chunks : Seq(Exports)]

StoresKinds ==
  /\ StoresTypeOK
  /\ staging \in [Instances -> StagingKind]
  /\ backup \in [Exports -> Seq(Exports)]

\* A writer that is alone is the only one at its store, and the temporary file is as
\* far as that writer is; a handle is on a store only where writers were mixed.
WriterOf(i) ==
  LET w == write[i] IN
  /\ w.at = "idle" <=> w.store = None
  /\ w.at # "idle" /\ w.alone =>
       /\ w.file = "temporary"
       /\ \A j \in Instances \ {i} : write[j].store # w.store
       /\ w.at = "opened" => temporary[w.store] = Empty
       /\ w.at = "half"   => temporary[w.store] = Part(i)
       /\ w.at = "closed" => temporary[w.store] = Whole(i)
  /\ w.at # "idle" /\ w.file = "store" => mixed[w.store]

WriterInv == \A i \in Instances : WriterOf(i)

\* A page has one request under way; a chooser that outlived its page is of an older
\* generation of the export.
Live(e) == export[e].at \in {"choosing", "sending"}

ExportInv ==
  /\ \A e \in Exports :
       LET x == export[e] IN
       /\ x.at = "choosing" => x.sent = 0
       /\ \A i \in Instances : x.page = i => /\ x.at = "choosing" => x.epoch <= epoch[i]
                                             /\ x.at = "lost"     => x.epoch < epoch[i]
  /\ \A e, f \in Exports :
       Live(e) /\ Live(f) /\ export[e].page = export[f].page => e = f

\* The file that is staged is that of the request the page is sending, as far as it
\* has been sent.
StagedOf(i) ==
  LET e == staging[i].target IN
  e # None => /\ export[e].page = i /\ export[e].at = "sending"
              /\ staging[i].chunks \in Seq({e})
              /\ Len(staging[i].chunks) = export[e].sent

StagingInv == \A i \in Instances : StagedOf(i)

StoresInv == StoresKinds /\ WriterInv /\ ExportInv /\ StagingInv /\ FilesAreWhole

\* The parts of the stores' state are of their kinds.
LEMMA StoresFacts ==
  ASSUME StoresKinds
  PROVE  /\ store \in [Stores -> ContentKind] /\ temporary \in [Stores -> ContentKind]
         /\ documented \in [Stores -> ContentKind] /\ mixed \in [Stores -> BOOLEAN]
         /\ write \in [Instances -> WriteKind] /\ NoWrite \in WriteKind
         /\ export \in [Exports -> ExportKind] /\ epoch \in [Instances -> Nat]
         /\ staging \in [Instances -> StagingKind] /\ NoStaging \in StagingKind
         /\ backup \in [Exports -> Seq(Exports)]
         /\ NoWrite.at = "idle" /\ NoWrite.store = None
         /\ NoStaging.target = None /\ NoStaging.chunks = <<>>
<1>1. /\ store \in [Stores -> ContentKind] /\ temporary \in [Stores -> ContentKind]
      /\ documented \in [Stores -> ContentKind] /\ mixed \in [Stores -> BOOLEAN]
      /\ epoch \in [Instances -> Nat]
  BY DEF StoresKinds, StoresTypeOK, Contents, ContentKind
<1>2. write \in [Instances -> WriteKind]
  BY DEF StoresKinds, StoresTypeOK, WriteKind
<1>3. export \in [Exports -> ExportKind]
  BY DEF StoresKinds, StoresTypeOK, ExportKind
<1>4. staging \in [Instances -> StagingKind] /\ backup \in [Exports -> Seq(Exports)]
  BY DEF StoresKinds
<1>5. NoWrite \in WriteKind /\ NoWrite.at = "idle" /\ NoWrite.store = None
  BY DEF NoWrite, WriteKind
<1>6. NoStaging.target = None /\ NoStaging.chunks = <<>> /\ NoStaging \in StagingKind
  BY DEF NoStaging, StagingKind
<1>7. QED BY <1>1, <1>2, <1>3, <1>4, <1>5, <1>6

\* The contents a writer leaves, and that they differ.
LEMMA ContentFacts ==
  /\ Empty \in ContentKind /\ Absent \in ContentKind /\ Garbled \in ContentKind
  /\ Initial \in ContentKind
  /\ \A i \in Instances : /\ Part(i) \in ContentKind /\ Whole(i) \in ContentKind
                          /\ Written(i, Empty) = Part(i)
                          /\ Written(i, Part(i)) = Whole(i)
  /\ \A i \in Instances, c \in ContentKind : Written(i, c) \in ContentKind
<1>1. /\ Empty \in ContentKind /\ Absent \in ContentKind /\ Garbled \in ContentKind
      /\ Initial \in ContentKind
      /\ \A i \in Instances : Part(i) \in ContentKind /\ Whole(i) \in ContentKind
  BY DEF ContentKind, Empty, Absent, Garbled, Initial, Part, Whole
<1>2. \A i \in Instances : Part(i) # Empty
  BY DEF Part, Empty
<1>3. QED BY <1>1, <1>2 DEF Written

\* A step of a writer leaves the backup alone.
LEMMA BackupStands ==
  ASSUME StoresInv, UNCHANGED backupVars
  PROVE  /\ ExportInv' /\ StagingInv' /\ BackupIsWhole'
         /\ UNCHANGED <<export, epoch, staging, backup>>
<1>1. UNCHANGED <<export, epoch, staging, backup>>
  BY DEF backupVars
<1>2. ExportInv'
  BY <1>1 DEF StoresInv, ExportInv, Live
<1>3. StagingInv'
  BY <1>1 DEF StoresInv, StagingInv, StagedOf
<1>4. BackupIsWhole'
  BY <1>1 DEF StoresInv, FilesAreWhole, BackupIsWhole
<1>5. QED BY <1>1, <1>2, <1>3, <1>4

\* The temporary file is created or truncated: whoever writes it too is not alone
\* from then on.
LEMMA OpenTemporaryInv ==
  ASSUME StoresInv, NEW i \in Instances, NEW s \in Stores, OpenTemporary(i, s)
  PROVE  StoresInv'
<1> DEFINE new == [at |-> "opened", store |-> s, file |-> "temporary",
                   alone |-> Writing(s) = {}]
<1>1. /\ write[i] = NoWrite /\ begun < MaxWrites /\ begun' = begun + 1
      /\ write' = [j \in Instances |->
            IF j = i THEN new
            ELSE IF j \in Writing(s) THEN [write[j] EXCEPT !.alone = FALSE]
            ELSE write[j]]
      /\ temporary' = [temporary EXCEPT ![s] = Empty]
      /\ UNCHANGED <<store, documented, mixed>> /\ UNCHANGED backupVars
  BY DEF OpenTemporary, Target
<1>2. StoresKinds /\ WriterInv /\ FilesAreWhole
  BY DEF StoresInv
<1>3. /\ write \in [Instances -> WriteKind] /\ temporary \in [Stores -> ContentKind]
      /\ NoWrite.at = "idle" /\ NoWrite.store = None
      /\ Empty \in ContentKind /\ s # None
  BY <1>2, StoresFacts, ContentFacts, FileStoresAssumption
<1>4. /\ new \in WriteKind /\ new.at = "opened" /\ new.store = s /\ new.file = "temporary"
      /\ (new.alone <=> Writing(s) = {})
  BY DEF WriteKind
<1> HIDE DEF new
<1>5. \A j \in Instances : j \in Writing(s) <=> write[j].store = s
  BY DEF Writing
<1>6. ASSUME NEW j \in Instances, j # i
      PROVE  /\ write'[j] \in WriteKind /\ write'[j].at = write[j].at
             /\ write'[j].store = write[j].store /\ write'[j].file = write[j].file
             /\ write[j].store = s => write'[j].alone = FALSE
             /\ write[j].store # s => write'[j] = write[j]
  <2>1. write'[j] = IF write[j].store = s THEN [write[j] EXCEPT !.alone = FALSE]
                                          ELSE write[j]
    BY <1>1, <1>5, <1>6
  <2>2. write[j] \in WriteKind
    BY <1>3
  <2>3. QED BY <2>1, <2>2 DEF WriteKind
<1>7. write'[i] = new /\ write' \in [Instances -> WriteKind]
  BY <1>1, <1>4, <1>6
<1>8. /\ temporary' \in [Stores -> ContentKind] /\ temporary'[s] = Empty
      /\ \A u \in Stores \ {s} : temporary'[u] = temporary[u]
  BY <1>1, <1>3
<1>9. ASSUME NEW j \in Instances PROVE WriterOf(j)'
  <2>1. CASE j = i
    <3>1. \A k \in Instances \ {i} : new.alone => write'[k].store # s
      BY <1>4, <1>5, <1>6
    <3>2. QED BY <1>3, <1>4, <1>7, <1>8, <2>1, <3>1, FileStoresAssumption DEF WriterOf
  <2>2. CASE j # i /\ write[j].store = s
    <3>1. WriterOf(j)
      BY <1>2 DEF WriterInv
    <3>2. QED BY <1>1, <1>6, <2>2, <3>1 DEF WriterOf
  <2>3. CASE j # i /\ write[j].store # s
    <3>1. WriterOf(j) /\ write'[j] = write[j] /\ write[j] \in WriteKind
      BY <1>2, <1>3, <1>6, <2>3 DEF WriterInv
    <3>2. write[j].at # "idle" => write[j].store \in Stores
      BY <3>1 DEF WriterOf, WriteKind
    <3>3. \A k \in Instances : write'[k].store = IF k = i THEN s ELSE write[k].store
      BY <1>4, <1>6, <1>7
    <3>4. ASSUME write[j].at # "idle", write[j].alone
          PROVE  /\ write[j].file = "temporary"
                 /\ \A k \in Instances \ {j} : write'[k].store # write[j].store
                 /\ temporary'[write[j].store] = temporary[write[j].store]
      BY <1>8, <2>3, <3>1, <3>2, <3>3, <3>4 DEF WriterOf
    <3>5. QED BY <1>1, <3>1, <3>4 DEF WriterOf
  <2>4. QED BY <2>1, <2>2, <2>3
<1>10. StoreIsLastDocument'
  BY <1>1, <1>2 DEF FilesAreWhole, StoreIsLastDocument
<1>11. /\ ExportInv' /\ StagingInv' /\ BackupIsWhole'
       /\ UNCHANGED <<export, epoch, staging, backup>>
  BY <1>1, BackupStands
<1>12. begun' \in 0 .. MaxWrites
  BY <1>1, <1>2, FileStoresAssumption DEF StoresKinds, StoresTypeOK
<1>13. StoresKinds'
  BY <1>1, <1>2, <1>7, <1>8, <1>11, <1>12
     DEF StoresKinds, StoresTypeOK, WriteKind, ContentKind, Contents
<1>14. QED BY <1>9, <1>10, <1>11, <1>13 DEF StoresInv, WriterInv, FilesAreWhole

\* What a writer may count on: the others at its store know that it is there.
LEMMA WriterFacts ==
  ASSUME StoresInv, NEW i \in Instances, write[i].at # "idle"
  PROVE  /\ write[i] \in WriteKind /\ WriterOf(i) /\ write[i].store \in Stores
         /\ \A j \in Instances \ {i} :
              /\ WriterOf(j) /\ write[j] \in WriteKind
              /\ write[j].store = write[i].store => ~write[j].alone /\ ~write[i].alone
                                                    /\ write[j].at # "idle"
<1>1. /\ write \in [Instances -> WriteKind]
      /\ \A j \in Instances : WriterOf(j)
  BY StoresFacts DEF StoresInv, WriterInv
<1>2. write[i].store \in Stores
  BY <1>1 DEF WriterOf, WriteKind
<1>3. ASSUME NEW j \in Instances \ {i}, write[j].store = write[i].store
      PROVE  write[j].at # "idle" /\ ~write[j].alone /\ ~write[i].alone
  <2>1. WriterOf(i) /\ WriterOf(j)
    BY <1>1
  <2>2. write[j].at # "idle"
    BY <1>2, <1>3, <2>1, FileStoresAssumption DEF WriterOf
  <2>3. ~write[j].alone
    BY <1>3, <2>1, <2>2 DEF WriterOf
  <2>4. ~write[i].alone
    BY <1>3, <2>1 DEF WriterOf
  <2>5. QED BY <2>2, <2>3, <2>4
<1>4. QED BY <1>1, <1>2, <1>3

\* A step of one writer: of the others at its store only the file their handles are on
\* may change, those elsewhere are not concerned.
LEMMA WriterStep ==
  ASSUME StoresInv, NEW i \in Instances, write[i].at # "idle",
         NEW s \in Stores, s = write[i].store,
         write' \in [Instances -> WriteKind],
         WriterOf(i)',
         write'[i].store \in {s, None},
         \A j \in Instances \ {i} :
           /\ write'[j].at = write[j].at /\ write'[j].store = write[j].store
           /\ write'[j].alone = write[j].alone
           /\ write[j].store # s => write'[j].file = write[j].file
           /\ write[j].store = s /\ write'[j].file = "store" => mixed'[s],
         \A u \in Stores \ {s} : temporary'[u] = temporary[u] /\ mixed'[u] = mixed[u]
  PROVE  WriterInv'
<1>1. /\ write[i] \in WriteKind
      /\ \A j \in Instances \ {i} :
           /\ WriterOf(j) /\ write[j] \in WriteKind
           /\ write[j].store = s => ~write[j].alone /\ write[j].at # "idle"
  BY WriterFacts
<1>2. ASSUME NEW j \in Instances PROVE WriterOf(j)'
  <2>1. CASE j = i
    BY <2>1
  <2>2. CASE j # i /\ write[j].store = s
    <3>1. /\ WriterOf(j) /\ write'[j].at = write[j].at /\ write'[j].store = s
          /\ write'[j].alone = write[j].alone /\ ~write[j].alone
          /\ write'[j].file = "store" => mixed'[s]
      BY <1>1, <2>2
    <3>2. QED BY <2>2, <3>1 DEF WriterOf
  <2>3. CASE j # i /\ write[j].store # s
    <3>1. /\ WriterOf(j) /\ write[j] \in WriteKind
          /\ write'[j].at = write[j].at /\ write'[j].store = write[j].store
          /\ write'[j].alone = write[j].alone /\ write'[j].file = write[j].file
      BY <1>1, <2>3
    <3>2. write[j].at # "idle" => write[j].store \in Stores \ {s}
      BY <2>3, <3>1 DEF WriterOf, WriteKind
    <3>3. write[j].at # "idle" => /\ temporary'[write[j].store] = temporary[write[j].store]
                                  /\ mixed'[write[j].store] = mixed[write[j].store]
      BY <3>2
    <3>4. ASSUME write[j].at # "idle", write[j].alone, NEW k \in Instances \ {j}
          PROVE  write'[k].store # write[j].store
      <4>1. write[k].store # write[j].store
        BY <3>1, <3>4 DEF WriterOf
      <4>2. CASE k = i
        BY <2>3, <3>2, <3>4, <4>2, FileStoresAssumption
      <4>3. CASE k # i
        BY <4>1, <4>3
      <4>4. QED BY <4>2, <4>3
    <3>5. QED BY <3>1, <3>3, <3>4 DEF WriterOf
  <2>4. QED BY <2>1, <2>2, <2>3
<1>3. QED BY <1>2 DEF WriterInv

\* A piece goes to the file the handle is on: to the store itself only where writers
\* were mixed.
LEMMA WritePieceInv ==
  ASSUME StoresInv, NEW i \in Instances, WritePiece(i)
  PROVE  StoresInv'
<1> DEFINE w == write[i]
           s == w.store
           next == IF w.at = "opened" THEN "half" ELSE "closed"
           new == [w EXCEPT !.at = next]
<1>1. /\ w.at \in {"opened", "half"} /\ write' = [write EXCEPT ![i] = new]
      /\ temporary' = IF w.file = "temporary"
                      THEN [temporary EXCEPT ![s] = Written(i, temporary[s])] ELSE temporary
      /\ store' = IF w.file = "store"
                  THEN [store EXCEPT ![s] = Written(i, store[s])] ELSE store
      /\ UNCHANGED <<documented, mixed, begun>> /\ UNCHANGED backupVars
  BY DEF WritePiece
<1>2. /\ w \in WriteKind /\ WriterOf(i) /\ s \in Stores
  BY <1>1, WriterFacts
<1>3. /\ write \in [Instances -> WriteKind]
      /\ temporary \in [Stores -> ContentKind] /\ store \in [Stores -> ContentKind]
  BY StoresFacts DEF StoresInv
<1>4. /\ new \in WriteKind /\ new.at = next /\ new.store = s /\ new.file = w.file
      /\ new.alone = w.alone
  BY <1>2 DEF WriteKind
<1>5. next \in {"half", "closed"} /\ (next = "half" <=> w.at = "opened")
  BY <1>1
<1>6. /\ Written(i, temporary[s]) \in ContentKind /\ Written(i, store[s]) \in ContentKind
      /\ Written(i, Empty) = Part(i) /\ Written(i, Part(i)) = Whole(i)
  BY <1>2, <1>3, ContentFacts
<1> HIDE DEF new, next
<1>7. /\ write' \in [Instances -> WriteKind] /\ write'[i] = new
      /\ \A j \in Instances \ {i} : write'[j] = write[j]
  BY <1>1, <1>3, <1>4
<1>8. /\ temporary' \in [Stores -> ContentKind] /\ store' \in [Stores -> ContentKind]
      /\ w.file = "temporary" => temporary'[s] = Written(i, temporary[s])
      /\ \A u \in Stores \ {s} : temporary'[u] = temporary[u] /\ store'[u] = store[u]
      /\ w.file # "store" => store' = store
  BY <1>1, <1>2, <1>3, <1>6
<1>9. WriterOf(i)'
  <2>1. \A j \in Instances \ {i} : write'[j].store = write[j].store
    BY <1>7
  <2>2. w.alone => /\ w.file = "temporary"
                   /\ \A j \in Instances \ {i} : write[j].store # s
                   /\ w.at = "opened" => temporary[s] = Empty
                   /\ w.at = "half" => temporary[s] = Part(i)
    BY <1>1, <1>2 DEF WriterOf
  <2>3. w.alone => /\ next = "half" => temporary'[s] = Part(i)
                   /\ next = "closed" => temporary'[s] = Whole(i)
    BY <1>1, <1>5, <1>6, <1>8, <2>2
  <2>4. w.file = "store" => mixed'[s]
    BY <1>1, <1>2 DEF WriterOf
  <2>5. s # None
    BY <1>2, FileStoresAssumption
  <2>6. QED BY <1>4, <1>5, <1>7, <2>1, <2>2, <2>3, <2>4, <2>5 DEF WriterOf
<1>10. WriterInv'
  <2>1. \A j \in Instances \ {i} :
          write[j].store = s /\ write[j].file = "store" => mixed[s]
    BY <1>1, WriterFacts DEF WriterOf
  <2>2. QED BY <1>1, <1>2, <1>4, <1>7, <1>8, <1>9, <2>1, WriterStep
<1>11. StoreIsLastDocument'
  <2>1. w.file = "store" => mixed[s]
    BY <1>1, <1>2 DEF WriterOf
  <2>2. QED BY <1>1, <1>8, <2>1 DEF StoresInv, FilesAreWhole, StoreIsLastDocument
<1>12. /\ ExportInv' /\ StagingInv' /\ BackupIsWhole'
       /\ UNCHANGED <<export, epoch, staging, backup>>
  BY <1>1, BackupStands
<1>13. StoresKinds'
  BY <1>1, <1>7, <1>8, <1>12
     DEF StoresInv, StoresKinds, StoresTypeOK, WriteKind, ContentKind, Contents
<1>14. QED BY <1>10, <1>11, <1>12, <1>13 DEF StoresInv, FilesAreWhole

\* A writer that stops is in the way of nobody.
LEMMA WriterLeaves ==
  ASSUME StoresInv, NEW i \in Instances, write' = [write EXCEPT ![i] = NoWrite],
         UNCHANGED <<temporary, mixed>>
  PROVE  write' \in [Instances -> WriteKind] /\ WriterInv'
<1>1. /\ write \in [Instances -> WriteKind] /\ NoWrite \in WriteKind
      /\ NoWrite.at = "idle" /\ NoWrite.store = None
  BY StoresFacts DEF StoresInv
<1>2. /\ write' \in [Instances -> WriteKind] /\ write'[i] = NoWrite
      /\ \A j \in Instances \ {i} : write'[j] = write[j]
  BY <1>1
<1>3. ASSUME NEW j \in Instances PROVE WriterOf(j)'
  <2>1. CASE j = i
    BY <1>1, <1>2, <2>1 DEF WriterOf
  <2>2. CASE j # i
    <3>1. WriterOf(j) /\ write'[j] = write[j]
      BY <1>2, <2>2 DEF StoresInv, WriterInv
    <3>2. \A k \in Instances : write'[k].store \in {write[k].store, None}
      BY <1>1, <1>2
    <3>3. QED BY <3>1, <3>2 DEF WriterOf
  <2>3. QED BY <2>1, <2>2
<1>4. QED BY <1>2, <1>3 DEF WriterInv

\* A write that fails leaves the store alone.
LEMMA WriteFailsInv ==
  ASSUME StoresInv, NEW i \in Instances, WriteFails(i)
  PROVE  StoresInv'
<1>1. /\ write' = [write EXCEPT ![i] = NoWrite]
      /\ UNCHANGED <<store, temporary, documented, mixed, begun>> /\ UNCHANGED backupVars
  BY DEF WriteFails
<1>2. write' \in [Instances -> WriteKind] /\ WriterInv'
  BY <1>1, WriterLeaves
<1>3. StoreIsLastDocument'
  BY <1>1 DEF StoresInv, FilesAreWhole, StoreIsLastDocument
<1>4. /\ ExportInv' /\ StagingInv' /\ BackupIsWhole'
      /\ UNCHANGED <<export, epoch, staging, backup>>
  BY <1>1, BackupStands
<1>5. StoresKinds'
  BY <1>1, <1>2, <1>4 DEF StoresInv, StoresKinds, StoresTypeOK, WriteKind
<1>6. QED BY <1>2, <1>3, <1>4, <1>5 DEF StoresInv, FilesAreWhole

\* The handles after a rename or a removal of the temporary file.
LEMMA MovedFacts ==
  ASSUME StoresInv, NEW i \in Instances, NEW s \in Stores, NEW file \in {"store", None},
         write' = Moved(i, s, file)
  PROVE  /\ write' \in [Instances -> WriteKind] /\ write'[i] = NoWrite
         /\ \A j \in Instances \ {i} :
              /\ write'[j].at = write[j].at /\ write'[j].store = write[j].store
              /\ write'[j].alone = write[j].alone
              /\ write[j].store # s => write'[j].file = write[j].file
              /\ file = None /\ write'[j].file = "store" => write[j].file = "store"
<1>1. write \in [Instances -> WriteKind] /\ NoWrite \in WriteKind
  BY StoresFacts DEF StoresInv
<1>2. write'[i] = NoWrite
  BY DEF Moved
<1>3. ASSUME NEW j \in Instances, j # i
      PROVE  /\ write'[j] \in WriteKind
             /\ write'[j].at = write[j].at /\ write'[j].store = write[j].store
             /\ write'[j].alone = write[j].alone
             /\ write[j].store # s => write'[j].file = write[j].file
             /\ file = None /\ write'[j].file = "store" => write[j].file = "store"
  <2> DEFINE moved == IF write[j].file = "temporary" THEN file
                      ELSE IF file = "store" THEN None ELSE write[j].file
             new == [write[j] EXCEPT !.file = moved]
  <2>1. write'[j] = IF write[j].store # s THEN write[j] ELSE new
    BY <1>3 DEF Moved
  <2>2. write[j] \in WriteKind
    BY <1>1
  <2>3. /\ moved \in {"temporary", "store", None}
        /\ file = None /\ moved = "store" => write[j].file = "store"
    BY <2>2, FileStoresAssumption DEF WriteKind
  <2> HIDE DEF moved
  <2>4. /\ new \in WriteKind /\ new.at = write[j].at /\ new.store = write[j].store
        /\ new.alone = write[j].alone /\ new.file = moved
    BY <2>2, <2>3 DEF WriteKind
  <2> HIDE DEF new
  <2>5. QED BY <2>1, <2>2, <2>3, <2>4
<1>4. write' \in [Instances -> WriteKind]
  <2>1. \A j \in Instances : write'[j] \in WriteKind
    BY <1>1, <1>2, <1>3
  <2>2. QED BY <2>1 DEF Moved
<1>5. QED BY <1>2, <1>3, <1>4

\* The rename of a writer that was alone puts its document, whole, in place.
LEMMA RenameInv ==
  ASSUME StoresInv, NEW i \in Instances, Rename(i)
  PROVE  StoresInv'
<1>1. write[i].at = "closed"
  BY DEF Rename
<1>2. PICK s \in Stores : s = write[i].store
  BY <1>1, WriterFacts
<1> DEFINE both == ~write[i].alone
<1>3. /\ store' = [store EXCEPT ![s] = temporary[s]]
      /\ temporary' = [temporary EXCEPT ![s] = Absent]
      /\ documented' = [documented EXCEPT ![s] = Whole(i)]
      /\ mixed' = [mixed EXCEPT ![s] = both]
      /\ write' = Moved(i, s, "store")
      /\ UNCHANGED begun /\ UNCHANGED backupVars
  BY <1>2 DEF Rename
<1>4. /\ store \in [Stores -> ContentKind] /\ temporary \in [Stores -> ContentKind]
      /\ documented \in [Stores -> ContentKind] /\ mixed \in [Stores -> BOOLEAN]
      /\ NoWrite.at = "idle" /\ NoWrite.store = None
      /\ Absent \in ContentKind /\ Whole(i) \in ContentKind
  BY StoresFacts, ContentFacts DEF StoresInv
<1>5. both \in BOOLEAN
  OBVIOUS
<1>6. /\ WriterOf(i)
      /\ \A j \in Instances \ {i} : write[j].store = s => both
  BY <1>1, <1>2, WriterFacts
<1>7. ~both => temporary[s] = Whole(i)
  BY <1>1, <1>2, <1>6 DEF WriterOf
<1> HIDE DEF both
<1>8. /\ store' \in [Stores -> ContentKind] /\ store'[s] = temporary[s]
      /\ temporary' \in [Stores -> ContentKind]
      /\ documented' \in [Stores -> ContentKind] /\ documented'[s] = Whole(i)
      /\ \A u \in Stores \ {s} : /\ store'[u] = store[u] /\ documented'[u] = documented[u]
                                 /\ temporary'[u] = temporary[u]
  BY <1>3, <1>4
<1>9. /\ mixed' \in [Stores -> BOOLEAN] /\ mixed'[s] = both
      /\ \A u \in Stores \ {s} : mixed'[u] = mixed[u]
  BY <1>3, <1>4, <1>5
<1>10. /\ write' \in [Instances -> WriteKind] /\ write'[i] = NoWrite
       /\ \A j \in Instances \ {i} :
            /\ write'[j].at = write[j].at /\ write'[j].store = write[j].store
            /\ write'[j].alone = write[j].alone
            /\ write[j].store # s => write'[j].file = write[j].file
  BY <1>3, MovedFacts
<1>11. WriterOf(i)'
  BY <1>4, <1>10 DEF WriterOf
<1>12. WriterInv'
  BY <1>1, <1>2, <1>4, <1>6, <1>8, <1>9, <1>10, <1>11, WriterStep
<1>13. StoreIsLastDocument'
  <2>1. \A u \in Stores : mixed[u] \/ store[u] = documented[u]
    BY DEF StoresInv, FilesAreWhole, StoreIsLastDocument
  <2>2. mixed'[s] \/ store'[s] = documented'[s]
    BY <1>7, <1>8, <1>9
  <2>3. QED BY <1>8, <1>9, <2>1, <2>2 DEF StoreIsLastDocument
<1>14. /\ ExportInv' /\ StagingInv' /\ BackupIsWhole'
       /\ UNCHANGED <<export, epoch, staging, backup>>
  BY <1>3, BackupStands
<1>15. StoresKinds'
  BY <1>3, <1>8, <1>9, <1>10, <1>14
     DEF StoresInv, StoresKinds, StoresTypeOK, WriteKind, ContentKind, Contents
<1>16. QED BY <1>12, <1>13, <1>14, <1>15 DEF StoresInv, FilesAreWhole

\* A rename that fails removes the temporary file, and leaves the store alone.
LEMMA RenameFailsInv ==
  ASSUME StoresInv, NEW i \in Instances, RenameFails(i)
  PROVE  StoresInv'
<1>1. write[i].at = "closed"
  BY DEF RenameFails
<1>2. PICK s \in Stores : s = write[i].store
  BY <1>1, WriterFacts
<1>3. /\ temporary' = [temporary EXCEPT ![s] = Absent]
      /\ write' = Moved(i, s, None)
      /\ UNCHANGED <<store, documented, mixed, begun>> /\ UNCHANGED backupVars
  BY <1>2 DEF RenameFails
<1>4. /\ temporary \in [Stores -> ContentKind] /\ Absent \in ContentKind
      /\ NoWrite.at = "idle" /\ NoWrite.store = None
  BY StoresFacts, ContentFacts DEF StoresInv
<1>5. /\ temporary' \in [Stores -> ContentKind]
      /\ \A u \in Stores \ {s} : temporary'[u] = temporary[u]
  BY <1>3, <1>4
<1>6. /\ write' \in [Instances -> WriteKind] /\ write'[i] = NoWrite
      /\ \A j \in Instances \ {i} :
           /\ write'[j].at = write[j].at /\ write'[j].store = write[j].store
           /\ write'[j].alone = write[j].alone
           /\ write[j].store # s => write'[j].file = write[j].file
           /\ write'[j].file = "store" => write[j].file = "store"
  BY <1>3, MovedFacts
<1>7. \A j \in Instances \ {i} :
        write[j].store = s /\ write[j].file = "store" => mixed[s]
  BY <1>1, <1>2, WriterFacts DEF WriterOf
<1>8. WriterOf(i)'
  BY <1>4, <1>6 DEF WriterOf
<1>9. WriterInv'
  BY <1>1, <1>2, <1>3, <1>4, <1>5, <1>6, <1>7, <1>8, WriterStep
<1>10. StoreIsLastDocument'
  BY <1>3 DEF StoresInv, FilesAreWhole, StoreIsLastDocument
<1>11. /\ ExportInv' /\ StagingInv' /\ BackupIsWhole'
       /\ UNCHANGED <<export, epoch, staging, backup>>
  BY <1>3, BackupStands
<1>12. StoresKinds'
  BY <1>3, <1>5, <1>6, <1>11
     DEF StoresInv, StoresKinds, StoresTypeOK, WriteKind, ContentKind, Contents
<1>13. QED BY <1>9, <1>10, <1>11, <1>12 DEF StoresInv, FilesAreWhole

\* A step of a backup leaves the writers alone.
LEMMA WritersStand ==
  ASSUME StoresInv, UNCHANGED fileVars
  PROVE  /\ WriterInv' /\ StoreIsLastDocument'
         /\ UNCHANGED <<store, temporary, documented, mixed, write>>
<1>1. UNCHANGED <<store, temporary, documented, mixed, write>>
  BY DEF fileVars
<1>2. WriterInv'
  BY <1>1 DEF StoresInv, WriterInv, WriterOf
<1>3. StoreIsLastDocument'
  BY <1>1 DEF StoresInv, FilesAreWhole, StoreIsLastDocument
<1>4. QED BY <1>1, <1>2, <1>3

\* The state of the backup after a step that leaves the files alone.
LEMMA BackupStep ==
  ASSUME StoresInv, UNCHANGED fileVars,
         export' \in [Exports -> ExportKind], epoch' \in [Instances -> Nat],
         staging' \in [Instances -> StagingKind],
         backup' = backup \/ (backup' \in [Exports -> Seq(Exports)] /\ BackupIsWhole'),
         begun' \in 0 .. MaxWrites, ExportInv', StagingInv'
  PROVE  StoresInv'
<1>1. /\ WriterInv' /\ StoreIsLastDocument'
      /\ UNCHANGED <<store, temporary, documented, mixed, write>>
  BY WritersStand
<1>2. BackupIsWhole'
  BY DEF StoresInv, FilesAreWhole, BackupIsWhole
<1>3. StoresTypeOK'
  <2>1. \A i \in Instances : staging'[i].target \in Exports \union {None}
    BY DEF StagingKind
  <2>2. QED BY <1>1, <2>1 DEF StoresInv, StoresKinds, StoresTypeOK, ExportKind
<1>4. StoresKinds'
  BY <1>3 DEF StoresInv, StoresKinds
<1>5. QED BY <1>1, <1>2, <1>4 DEF StoresInv, FilesAreWhole

\* The parts of StoresInv that the backup is about.
LEMMA BackupFacts ==
  ASSUME StoresInv
  PROVE  /\ export \in [Exports -> ExportKind] /\ epoch \in [Instances -> Nat]
         /\ staging \in [Instances -> StagingKind] /\ NoStaging \in StagingKind
         /\ NoStaging.target = None /\ begun \in 0 .. MaxWrites
         /\ backup \in [Exports -> Seq(Exports)]
         /\ \A i \in Instances : StagedOf(i)
         /\ \A e, f \in Exports :
              Live(e) /\ Live(f) /\ export[e].page = export[f].page => e = f
         /\ \A e \in Exports : export[e].at = "choosing" => export[e].sent = 0
         /\ \A e \in Exports, i \in Instances : export[e].page = i =>
              /\ export[e].at = "choosing" => export[e].epoch <= epoch[i]
              /\ export[e].at = "lost" => export[e].epoch < epoch[i]
<1>1. StoresKinds /\ ExportInv /\ StagingInv
  BY DEF StoresInv
<1>2. /\ export \in [Exports -> ExportKind] /\ epoch \in [Instances -> Nat]
      /\ staging \in [Instances -> StagingKind] /\ NoStaging \in StagingKind
      /\ NoStaging.target = None /\ backup \in [Exports -> Seq(Exports)]
  BY <1>1, StoresFacts
<1>3. begun \in 0 .. MaxWrites
  BY <1>1 DEF StoresKinds, StoresTypeOK
<1>4. QED BY <1>1, <1>2, <1>3 DEF ExportInv, StagingInv

\* One request of a page takes a step; the staged file of that page with it.  What
\* concerns the other requests and pages stays.
LEMMA ExportStep ==
  ASSUME StoresInv, NEW i \in Instances, NEW e \in Exports,
         export'[e].page = i,
         \A f \in Exports \ {e} : export'[f] = export[f],
         export[e].page = i \/ export[e].at = "none",
         \A j \in Instances \ {i} : epoch'[j] = epoch[j] /\ staging'[j] = staging[j],
         epoch' \in [Instances -> Nat], epoch[i] <= epoch'[i],
         export'[e].at = "choosing" => /\ export'[e].sent = 0
                                       /\ export'[e].epoch <= epoch'[i],
         export'[e].at # "lost",
         export'[e].at \in {"choosing", "sending"} =>
           Live(e) \/ \A f \in Exports : export[f].page = i => ~Live(f),
         StagedOf(i)'
  PROVE  ExportInv' /\ StagingInv'
<1>1. /\ epoch \in [Instances -> Nat] /\ export \in [Exports -> ExportKind]
      /\ \A j \in Instances : StagedOf(j)
      /\ \A f, g \in Exports :
           Live(f) /\ Live(g) /\ export[f].page = export[g].page => f = g
      /\ \A f \in Exports : export[f].at = "choosing" => export[f].sent = 0
      /\ \A f \in Exports, j \in Instances : export[f].page = j =>
           /\ export[f].at = "choosing" => export[f].epoch <= epoch[j]
           /\ export[f].at = "lost" => export[f].epoch < epoch[j]
  BY BackupFacts
<1>2. ASSUME NEW j \in Instances PROVE StagedOf(j)'
  <2>1. CASE j = i
    BY <2>1
  <2>2. CASE j # i
    <3>1. StagedOf(j) /\ staging'[j] = staging[j]
      BY <1>1, <2>2
    <3>2. staging[j].target # None => staging[j].target # e
      BY <2>2, <3>1 DEF StagedOf
    <3>3. ASSUME staging[j].target # None
          PROVE  export'[staging[j].target] = export[staging[j].target]
      <4>1. staging[j].target \in Exports
        BY <1>1, <3>3, BackupFacts DEF StagingKind
      <4>2. QED BY <3>2, <3>3, <4>1
    <3>4. QED BY <3>1, <3>3 DEF StagedOf
  <2>3. QED BY <2>1, <2>2
<1>3. ASSUME NEW f \in Exports
      PROVE  export'[f].at = "choosing" => export'[f].sent = 0
  BY <1>1
<1>4. ASSUME NEW f \in Exports, NEW j \in Instances, export'[f].page = j
      PROVE  /\ export'[f].at = "choosing" => export'[f].epoch <= epoch'[j]
             /\ export'[f].at = "lost" => export'[f].epoch < epoch'[j]
  <2>1. CASE f = e
    BY <1>4, <2>1
  <2>2. CASE f # e
    <3>1. /\ export'[f] = export[f] /\ export[f].page = j
          /\ epoch[j] \in Nat /\ epoch'[j] \in Nat /\ epoch[j] <= epoch'[j]
      BY <1>1, <1>4, <2>2
    <3>2. export[f].epoch \in Nat
      BY <1>1 DEF ExportKind
    <3>3. /\ export[f].at = "choosing" => export[f].epoch <= epoch[j]
          /\ export[f].at = "lost" => export[f].epoch < epoch[j]
      BY <1>1, <3>1
    <3>4. QED BY <3>1, <3>2, <3>3
  <2>3. QED BY <2>1, <2>2
<1>5. ASSUME NEW f \in Exports, NEW g \in Exports, Live(f)', Live(g)',
             export'[f].page = export'[g].page
      PROVE  f = g
  <2>1. ASSUME NEW h \in Exports, h # e, Live(h)', export'[h].page = i, Live(e)'
        PROVE  FALSE
    <3>1. Live(h) /\ export[h].page = i
      BY <2>1 DEF Live
    <3>2. Live(e)
      BY <2>1, <3>1 DEF Live
    <3>3. export[e].page = i
      BY <3>2 DEF Live
    <3>4. QED BY <1>1, <2>1, <3>1, <3>2, <3>3
  <2>2. CASE f # e /\ g # e
    <3>1. Live(f) /\ Live(g) /\ export[f].page = export[g].page
      BY <1>5, <2>2 DEF Live
    <3>2. QED BY <1>1, <3>1
  <2>3. CASE f = e \/ g = e
    BY <1>5, <2>1, <2>3
  <2>4. QED BY <2>2, <2>3
<1>6. QED BY <1>2, <1>3, <1>4, <1>5 DEF ExportInv, StagingInv

\* A page that has no request under way asks for a backup.
LEMMA AskBackupInv ==
  ASSUME StoresInv, NEW i \in Instances, NEW e \in Exports, AskBackup(i, e)
  PROVE  StoresInv'
<1> DEFINE later == epoch[i] + 1
           new == [at |-> "choosing", page |-> i, epoch |-> later, sent |-> 0]
<1>1. /\ begun < MaxWrites /\ begun' = begun + 1
      /\ export[e] = NoExport /\ PageIdle(i)
      /\ epoch' = [epoch EXCEPT ![i] = later]
      /\ staging' = [staging EXCEPT ![i] = NoStaging]
      /\ export' = [export EXCEPT ![e] = new]
      /\ UNCHANGED fileVars /\ UNCHANGED backup
  BY DEF AskBackup, Cancelled
<1>2. /\ export \in [Exports -> ExportKind] /\ epoch \in [Instances -> Nat]
      /\ staging \in [Instances -> StagingKind] /\ NoStaging \in StagingKind
      /\ NoStaging.target = None /\ begun \in 0 .. MaxWrites
  BY BackupFacts
<1>3. later \in Nat /\ epoch[i] <= later /\ later <= later
  BY <1>2
<1>4. begun' \in 0 .. MaxWrites
  BY <1>1, <1>2, FileStoresAssumption
<1>5. new \in ExportKind /\ new.at = "choosing" /\ new.page = i /\ new.epoch = later /\ new.sent = 0
  BY <1>3, FileStoresAssumption DEF ExportKind
<1> HIDE DEF new, later
<1>6. /\ export' \in [Exports -> ExportKind] /\ export'[e] = new
      /\ \A f \in Exports \ {e} : export'[f] = export[f]
  BY <1>1, <1>2, <1>5
<1>7. /\ epoch' \in [Instances -> Nat] /\ epoch'[i] = later
      /\ \A j \in Instances \ {i} : epoch'[j] = epoch[j]
  BY <1>1, <1>2, <1>3
<1>8. /\ staging' \in [Instances -> StagingKind] /\ staging'[i] = NoStaging
      /\ \A j \in Instances \ {i} : staging'[j] = staging[j]
  BY <1>1, <1>2
<1>9. export[e].at = "none"
  BY <1>1 DEF NoExport
<1>10. \A f \in Exports : export[f].page = i => ~Live(f)
  BY <1>1 DEF PageIdle, Live
<1>11. StagedOf(i)'
  BY <1>2, <1>8 DEF StagedOf
<1>12. ExportInv' /\ StagingInv'
  BY <1>3, <1>5, <1>6, <1>7, <1>8, <1>9, <1>10, <1>11, ExportStep
<1>13. QED BY <1>1, <1>4, <1>6, <1>7, <1>8, <1>12, BackupStep

\* The state of one request changes, its page does not.
LEMMA ExportChange ==
  ASSUME StoresInv, NEW e \in Exports, NEW at \in {"sending", "done"},
         NEW sent \in 0 .. BackupSize,
         export' = [export EXCEPT ![e].at = at, ![e].sent = sent]
  PROVE  /\ export' \in [Exports -> ExportKind]
         /\ export'[e].at = at /\ export'[e].page = export[e].page
         /\ export'[e].sent = sent /\ export'[e].epoch = export[e].epoch
         /\ \A f \in Exports \ {e} : export'[f] = export[f]
<1> DEFINE new == [export[e] EXCEPT !.at = at, !.sent = sent]
<1>1. export' = [export EXCEPT ![e] = new] /\ export \in [Exports -> ExportKind]
  BY BackupFacts
<1>2. export[e] \in ExportKind
  BY <1>1
<1>3. /\ new \in ExportKind /\ new.at = at /\ new.page = export[e].page
      /\ new.sent = sent /\ new.epoch = export[e].epoch
  BY <1>2 DEF ExportKind
<1> HIDE DEF new
<1>4. QED BY <1>1, <1>3

\* A request of a page ends, and with it the file that the page had staged.
LEMMA ExportEnds ==
  ASSUME StoresInv, NEW i \in Instances, NEW e \in Exports, export[e].page = i,
         export' = [export EXCEPT ![e].at = "done"],
         staging' = Cancelled(i),
         epoch' = epoch \/ epoch' = [epoch EXCEPT ![i] = epoch[i] + 1],
         backup' = backup \/ (backup' \in [Exports -> Seq(Exports)] /\ BackupIsWhole'),
         UNCHANGED fileVars, UNCHANGED begun
  PROVE  StoresInv'
<1>1. /\ export \in [Exports -> ExportKind] /\ epoch \in [Instances -> Nat]
      /\ staging \in [Instances -> StagingKind] /\ NoStaging \in StagingKind
      /\ NoStaging.target = None /\ begun \in 0 .. MaxWrites
  BY BackupFacts
<1> DEFINE sent == export[e].sent
<1>2. sent \in 0 .. BackupSize
  BY <1>1 DEF ExportKind
<1>3. export' = [export EXCEPT ![e].at = "done", ![e].sent = sent]
  <2>1. export[e] \in ExportKind
    BY <1>1
  <2>2. [export[e] EXCEPT !.at = "done", !.sent = sent] = [export[e] EXCEPT !.at = "done"]
    BY <2>1 DEF ExportKind
  <2>3. QED BY <1>1, <2>2
<1> HIDE DEF sent
<1>4. /\ export' \in [Exports -> ExportKind]
      /\ export'[e].at = "done" /\ export'[e].page = i
      /\ \A f \in Exports \ {e} : export'[f] = export[f]
  BY <1>2, <1>3, ExportChange
<1>5. epoch[i] \in Nat
  BY <1>1
<1> DEFINE later == epoch[i] + 1
<1>6. later \in Nat /\ epoch[i] <= later /\ epoch[i] <= epoch[i]
  BY <1>5
<1>7. epoch' = epoch \/ epoch' = [epoch EXCEPT ![i] = later]
  OBVIOUS
<1> HIDE DEF later
<1>8. /\ epoch' \in [Instances -> Nat] /\ epoch[i] <= epoch'[i]
      /\ \A j \in Instances \ {i} : epoch'[j] = epoch[j]
  BY <1>1, <1>6, <1>7
<1>9. /\ staging' \in [Instances -> StagingKind] /\ staging'[i] = NoStaging
      /\ \A j \in Instances \ {i} : staging'[j] = staging[j]
  BY <1>1 DEF Cancelled
<1>10. StagedOf(i)'
  BY <1>1, <1>9 DEF StagedOf
<1>11. ExportInv' /\ StagingInv'
  BY <1>4, <1>8, <1>9, <1>10, ExportStep
<1>12. QED BY <1>1, <1>4, <1>8, <1>9, <1>11, BackupStep

\* A chooser that outlived its page stages nothing.
LEMMA ChooseTargetInv ==
  ASSUME StoresInv, NEW i \in Instances, NEW e \in Exports, ChooseTarget(i, e)
  PROVE  StoresInv'
<1> DEFINE fresh == [target |-> e, chunks |-> <<>>]
<1>1. /\ export[e].page = i /\ export[e].at \in {"choosing", "lost"}
      /\ UNCHANGED fileVars /\ UNCHANGED <<epoch, backup, begun>>
  BY DEF ChooseTarget
<1>2. PICK selected \in BOOLEAN :
        LET begin == selected /\ Accepted(i, e) IN
        /\ staging' = IF begin THEN [staging EXCEPT ![i] = fresh] ELSE staging
        /\ export' = [export EXCEPT ![e].at =
                        IF begin /\ export[e].at = "choosing" THEN "sending" ELSE "done"]
  BY DEF ChooseTarget
<1> DEFINE begin == selected /\ Accepted(i, e)
<1>3. /\ export \in [Exports -> ExportKind] /\ epoch \in [Instances -> Nat]
      /\ staging \in [Instances -> StagingKind] /\ begun \in 0 .. MaxWrites
      /\ StagedOf(i)
      /\ export[e].at = "choosing" => export[e].sent = 0
      /\ export[e].at = "lost" => export[e].epoch < epoch[i]
      /\ export[e].at = "choosing" => export[e].epoch <= epoch[i]
  BY <1>1, BackupFacts
<1>4. begin => export[e].at = "choosing"
  <2>1. epoch[i] \in Nat
    BY <1>3
  <2>2. begin => export[e].epoch = epoch[i]
    BY <1>2 DEF Accepted
  <2>3. QED BY <1>1, <1>3, <2>1, <2>2
<1> DEFINE at == IF begin THEN "sending" ELSE "done"
           sent == export[e].sent
<1>5. sent \in 0 .. BackupSize /\ at \in {"sending", "done"}
  BY <1>3 DEF ExportKind
<1>6. export' = [export EXCEPT ![e].at = at, ![e].sent = sent]
  <2>1. export[e] \in ExportKind
    BY <1>3
  <2>2. [export[e] EXCEPT !.at = at, !.sent = sent] = [export[e] EXCEPT !.at = at]
    BY <2>1 DEF ExportKind
  <2>3. export' = [export EXCEPT ![e].at = at]
    BY <1>2, <1>4
  <2>4. QED BY <1>3, <2>2, <2>3
<1>7. begin => sent = 0 /\ Live(e)
  BY <1>3, <1>4 DEF Live
<1> HIDE DEF sent, at
<1>8. /\ export' \in [Exports -> ExportKind]
      /\ export'[e].at = at /\ export'[e].page = i /\ export'[e].sent = sent
      /\ \A f \in Exports \ {e} : export'[f] = export[f]
  BY <1>1, <1>5, <1>6, ExportChange
<1>9. /\ fresh \in StagingKind /\ fresh.target = e
      /\ fresh.chunks \in Seq({e}) /\ Len(fresh.chunks) = 0
  BY EmptySeq DEF StagingKind
<1> HIDE DEF fresh
<1>10. /\ staging' \in [Instances -> StagingKind]
       /\ begin => staging'[i] = fresh
       /\ ~begin => staging'[i] = staging[i]
       /\ \A j \in Instances \ {i} : staging'[j] = staging[j]
  BY <1>2, <1>3, <1>9
<1>11. StagedOf(i)'
  <2>1. CASE begin
    BY <1>7, <1>8, <1>9, <1>10, <2>1 DEF StagedOf, at
  <2>2. CASE ~begin
    <3>1. staging[i].target # None =>
            staging[i].target \in Exports \ {e}
      <4>1. staging[i] \in StagingKind
        BY <1>3
      <4>2. staging[i].target # None => staging[i].target \in Exports
        BY <4>1 DEF StagingKind
      <4>3. staging[i].target # None => export[staging[i].target].at = "sending"
        BY <1>3 DEF StagedOf
      <4>4. QED BY <1>1, <4>2, <4>3
    <3>2. staging[i].target # None =>
            export'[staging[i].target] = export[staging[i].target]
      BY <1>8, <3>1
    <3>3. QED BY <1>3, <1>10, <2>2, <3>2 DEF StagedOf
  <2>3. QED BY <2>1, <2>2
<1>12. epoch[i] <= epoch'[i] /\ epoch' \in [Instances -> Nat]
  <2>1. epoch[i] \in Nat /\ epoch' = epoch
    BY <1>1, <1>3
  <2>2. QED BY <1>3, <2>1
<1>13. /\ export'[e].at \in {"choosing", "sending"} => Live(e)
       /\ export'[e].at # "lost" /\ export'[e].at # "choosing"
  BY <1>5, <1>7, <1>8 DEF at
<1>14. ExportInv' /\ StagingInv'
  BY <1>1, <1>8, <1>10, <1>11, <1>12, <1>13, ExportStep
<1>15. QED BY <1>1, <1>3, <1>8, <1>10, <1>12, <1>14, BackupStep

\* A chunk is appended to the file of its own request, or ends it.
LEMMA SendChunkInv ==
  ASSUME StoresInv, NEW i \in Instances, NEW e \in Exports, SendChunk(i, e)
  PROVE  StoresInv'
<1>1. /\ export[e].page = i /\ export[e].at = "sending" /\ export[e].sent < BackupSize
      /\ UNCHANGED fileVars /\ UNCHANGED <<epoch, backup, begun>>
  BY DEF SendChunk
<1>2. CASE /\ staging[i].target # None /\ Len(staging[i].chunks) = export[e].sent
           /\ staging' = [staging EXCEPT ![i].chunks = Append(@, e)]
           /\ export' = [export EXCEPT ![e].sent = @ + 1]
  <2>1. /\ export \in [Exports -> ExportKind] /\ epoch \in [Instances -> Nat]
        /\ staging \in [Instances -> StagingKind] /\ begun \in 0 .. MaxWrites
        /\ StagedOf(i)
        /\ \A f, g \in Exports :
             Live(f) /\ Live(g) /\ export[f].page = export[g].page => f = g
    BY BackupFacts
  <2>2. staging[i] \in StagingKind /\ export[e] \in ExportKind
    BY <2>1
  <2>3. staging[i].target \in Exports
    BY <1>2, <2>2 DEF StagingKind
  <2>4. staging[i].target = e
    BY <1>1, <1>2, <2>1, <2>3 DEF StagedOf, Live
  <2> DEFINE sent == export[e].sent + 1
             chunks == Append(staging[i].chunks, e)
             new == [staging[i] EXCEPT !.chunks = chunks]
             at == export[e].at
  <2>5. sent \in 0 .. BackupSize /\ export[e].sent \in Nat
    BY <1>1, <2>2, FileStoresAssumption DEF ExportKind
  <2>6. export' = [export EXCEPT ![e].at = at, ![e].sent = sent]
    <3>1. [export[e] EXCEPT !.at = at, !.sent = sent] = [export[e] EXCEPT !.sent = sent]
      BY <2>2 DEF ExportKind
    <3>2. QED BY <1>2, <2>1, <3>1
  <2>7. /\ chunks \in Seq({e}) /\ Len(chunks) = sent
    <3>1. staging[i].chunks \in Seq({e})
      BY <1>2, <2>1, <2>4 DEF StagedOf
    <3>2. e \in {e}
      OBVIOUS
    <3>3. /\ Append(staging[i].chunks, e) \in Seq({e})
          /\ Len(Append(staging[i].chunks, e)) = Len(staging[i].chunks) + 1
      BY <3>1, <3>2, AppendProperties
    <3>4. QED BY <1>2, <3>3
  <2>8. chunks \in Seq(Exports)
    <3>1. staging[i].chunks \in Seq(Exports)
      BY <2>2 DEF StagingKind
    <3>2. QED BY <3>1, AppendProperties
  <2>9. staging' = [staging EXCEPT ![i] = new]
    BY <1>2
  <2> HIDE DEF chunks, sent
  <2>10. new \in StagingKind /\ new.target = e /\ new.chunks = chunks
    BY <2>2, <2>4, <2>8 DEF StagingKind
  <2> HIDE DEF new
  <2>11. at \in {"sending", "done"} /\ at = "sending"
    BY <1>1
  <2> HIDE DEF at
  <2>12. /\ export' \in [Exports -> ExportKind]
         /\ export'[e].at = "sending" /\ export'[e].page = i /\ export'[e].sent = sent
         /\ \A f \in Exports \ {e} : export'[f] = export[f]
    BY <1>1, <2>5, <2>6, <2>11, ExportChange
  <2>13. /\ staging' \in [Instances -> StagingKind] /\ staging'[i] = new
         /\ \A j \in Instances \ {i} : staging'[j] = staging[j]
    BY <2>1, <2>9, <2>10
  <2>14. StagedOf(i)'
    BY <2>7, <2>10, <2>12, <2>13 DEF StagedOf
  <2>15. epoch[i] <= epoch'[i] /\ epoch' \in [Instances -> Nat]
    <3>1. epoch[i] \in Nat /\ epoch' = epoch
      BY <1>1, <2>1
    <3>2. QED BY <2>1, <3>1
  <2>16. ExportInv' /\ StagingInv'
    BY <1>1, <2>12, <2>13, <2>14, <2>15, ExportStep DEF Live
  <2>17. QED BY <1>1, <2>1, <2>12, <2>13, <2>15, <2>16, BackupStep
<1>3. CASE staging' = Cancelled(i) /\ export' = [export EXCEPT ![e].at = "done"]
  BY <1>1, <1>3, ExportEnds
<1>4. QED BY <1>2, <1>3 DEF SendChunk

\* What is committed is all of one backup, that of the request.
LEMMA CommitBackupInv ==
  ASSUME StoresInv, NEW i \in Instances, NEW e \in Exports, CommitBackup(i, e)
  PROVE  StoresInv'
<1>1. /\ export[e].page = i /\ export[e].at = "sending" /\ export[e].sent = BackupSize
      /\ staging' = Cancelled(i) /\ export' = [export EXCEPT ![e].at = "done"]
      /\ UNCHANGED fileVars /\ UNCHANGED <<epoch, begun>>
      /\ \/ /\ staging[i].target # None
            /\ backup' = [backup EXCEPT ![staging[i].target] = staging[i].chunks]
         \/ backup' = backup
  BY DEF CommitBackup
<1>2. ASSUME staging[i].target # None,
             backup' = [backup EXCEPT ![staging[i].target] = staging[i].chunks]
      PROVE  backup' \in [Exports -> Seq(Exports)] /\ BackupIsWhole'
  <2>1. /\ staging[i] \in StagingKind /\ StagedOf(i)
        /\ backup \in [Exports -> Seq(Exports)]
        /\ \A f, g \in Exports :
             Live(f) /\ Live(g) /\ export[f].page = export[g].page => f = g
    BY BackupFacts
  <2>2. staging[i].target \in Exports /\ staging[i].chunks \in Seq(Exports)
    BY <1>2, <2>1 DEF StagingKind
  <2>3. staging[i].target = e
    BY <1>1, <1>2, <2>1, <2>2 DEF StagedOf, Live
  <2>4. staging[i].chunks \in Seq({e}) /\ Len(staging[i].chunks) = BackupSize
    BY <1>1, <1>2, <2>1, <2>3 DEF StagedOf
  <2> DEFINE chunks == staging[i].chunks
  <2>5. chunks = [n \in 1 .. BackupSize |-> e]
    <3>1. chunks \in [1 .. BackupSize -> {e}]
      BY <2>4, LenProperties
    <3>2. QED BY <3>1
  <2> HIDE DEF chunks
  <2>6. /\ backup' \in [Exports -> Seq(Exports)] /\ backup'[e] = chunks
        /\ \A f \in Exports \ {e} : backup'[f] = backup[f]
    BY <1>2, <2>1, <2>2, <2>3 DEF chunks
  <2>7. \A f \in Exports : backup[f] \in {<<>>, [n \in 1 .. BackupSize |-> f]}
    BY DEF StoresInv, FilesAreWhole, BackupIsWhole
  <2>8. ASSUME NEW f \in Exports
        PROVE  backup'[f] \in {<<>>, [n \in 1 .. BackupSize |-> f]}
    <3>1. CASE f = e
      BY <2>5, <2>6, <3>1
    <3>2. CASE f # e
      BY <2>6, <2>7, <3>2
    <3>3. QED BY <3>1, <3>2
  <2>9. QED BY <2>6, <2>8 DEF BackupIsWhole
<1>3. QED BY <1>1, <1>2, ExportEnds

\* A call of the page failed, or the user cancels.
LEMMA CancelBackupInv ==
  ASSUME StoresInv, NEW i \in Instances, NEW e \in Exports, CancelBackup(i, e)
  PROVE  StoresInv'
  BY ExportEnds DEF CancelBackup

\* A new page: the requests of the old one are over, its choosers of an older
\* generation than that of the new one.
LEMMA StoresNewPageInv ==
  ASSUME StoresInv, NEW i \in Instances, StoresNewPage(i)
  PROVE  StoresInv'
<1> DEFINE later == epoch[i] + 1
<1>1. /\ epoch' = [epoch EXCEPT ![i] = later] /\ staging' = [staging EXCEPT ![i] = NoStaging]
      /\ export' = [e \in Exports |-> Lost(i, e)]
      /\ UNCHANGED fileVars /\ UNCHANGED <<backup, begun>>
  BY DEF StoresNewPage, Cancelled
<1>2. /\ export \in [Exports -> ExportKind] /\ epoch \in [Instances -> Nat]
      /\ staging \in [Instances -> StagingKind] /\ NoStaging \in StagingKind
      /\ NoStaging.target = None /\ begun \in 0 .. MaxWrites
      /\ \A j \in Instances : StagedOf(j)
      /\ \A f, g \in Exports :
           Live(f) /\ Live(g) /\ export[f].page = export[g].page => f = g
      /\ \A f \in Exports : export[f].at = "choosing" => export[f].sent = 0
      /\ \A f \in Exports, j \in Instances : export[f].page = j =>
           /\ export[f].at = "choosing" => export[f].epoch <= epoch[j]
           /\ export[f].at = "lost" => export[f].epoch < epoch[j]
  BY BackupFacts
<1>3. later \in Nat /\ epoch[i] \in Nat /\ epoch[i] < later
  BY <1>2
<1> HIDE DEF later
<1>4. /\ epoch' \in [Instances -> Nat] /\ epoch'[i] = later
      /\ \A j \in Instances \ {i} : epoch'[j] = epoch[j]
  BY <1>1, <1>2, <1>3
<1>5. /\ staging' \in [Instances -> StagingKind] /\ staging'[i] = NoStaging
      /\ \A j \in Instances \ {i} : staging'[j] = staging[j]
  BY <1>1, <1>2
<1>6. ASSUME NEW e \in Exports
      PROVE  /\ export'[e] \in ExportKind /\ export'[e].page = export[e].page
             /\ export'[e].epoch = export[e].epoch /\ export'[e].sent = export[e].sent
             /\ export[e].page # i => export'[e] = export[e]
             /\ export[e].page = i => /\ export'[e].at \notin {"choosing", "sending"}
                                      /\ export'[e].at = "lost" =>
                                           export[e].at \in {"choosing", "lost"}
  <2> DEFINE at == IF export[e].at = "choosing" THEN "lost"
                   ELSE IF export[e].at = "sending" THEN "done" ELSE export[e].at
             new == [export[e] EXCEPT !.at = at]
  <2>1. export'[e] = IF export[e].page # i THEN export[e] ELSE new
    BY <1>1 DEF Lost
  <2>2. export[e] \in ExportKind
    BY <1>2
  <2>3. /\ at \in {"none", "lost", "done"}
        /\ at = "lost" => export[e].at \in {"choosing", "lost"}
    BY <2>2 DEF ExportKind
  <2> HIDE DEF at
  <2>4. /\ new \in ExportKind /\ new.at = at /\ new.page = export[e].page
        /\ new.epoch = export[e].epoch /\ new.sent = export[e].sent
    BY <2>2, <2>3 DEF ExportKind
  <2> HIDE DEF new
  <2>5. QED BY <2>1, <2>2, <2>3, <2>4
<1>7. export' \in [Exports -> ExportKind]
  BY <1>1, <1>6
<1>8. StagingInv'
  <2>1. ASSUME NEW j \in Instances PROVE StagedOf(j)'
    <3>1. CASE j = i
      BY <1>2, <1>5, <3>1 DEF StagedOf
    <3>2. CASE j # i
      <4>1. staging'[j] = staging[j] /\ StagedOf(j) /\ staging[j] \in StagingKind
        BY <1>2, <1>5, <3>2
      <4>2. staging[j].target # None => staging[j].target \in Exports
        BY <4>1 DEF StagingKind
      <4>3. staging[j].target # None =>
              export'[staging[j].target] = export[staging[j].target]
        BY <1>6, <3>2, <4>1, <4>2 DEF StagedOf
      <4>4. QED BY <4>1, <4>3 DEF StagedOf
    <3>3. QED BY <3>1, <3>2
  <2>2. QED BY <2>1 DEF StagingInv
<1>9. ASSUME NEW e \in Exports
      PROVE  export'[e].at = "choosing" => export'[e].sent = 0
  <2>1. export'[e].at = "choosing" => export'[e] = export[e]
    BY <1>6
  <2>2. QED BY <1>2, <2>1
<1>10. ASSUME NEW e \in Exports, NEW j \in Instances, export'[e].page = j
       PROVE  /\ export'[e].at = "choosing" => export'[e].epoch <= epoch'[j]
              /\ export'[e].at = "lost" => export'[e].epoch < epoch'[j]
  <2>1. export[e].page = j /\ export[e].epoch \in Nat /\ epoch[j] \in Nat
    BY <1>2, <1>6, <1>10 DEF ExportKind
  <2>2. CASE j = i
    <3>1. export'[e].at # "choosing"
      BY <1>6, <2>1, <2>2
    <3>2. export'[e].at = "lost" => export[e].epoch <= epoch[i]
      <4>1. export'[e].at = "lost" => export[e].at \in {"choosing", "lost"}
        BY <1>6, <2>1, <2>2
      <4>2. export[e].at = "lost" => export[e].epoch < epoch[i]
        BY <1>2, <2>1, <2>2
      <4>3. export[e].at = "choosing" => export[e].epoch <= epoch[i]
        BY <1>2, <2>1, <2>2
      <4>4. QED BY <1>3, <2>1, <4>1, <4>2, <4>3
    <3>3. export'[e].epoch = export[e].epoch
      BY <1>6
    <3>4. QED BY <1>3, <1>4, <2>1, <2>2, <3>1, <3>2, <3>3
  <2>3. CASE j # i
    <3>1. export'[e] = export[e] /\ epoch'[j] = epoch[j]
      BY <1>4, <1>6, <2>1, <2>3
    <3>2. QED BY <1>2, <2>1, <3>1
  <2>4. QED BY <2>2, <2>3
<1>11. ASSUME NEW e \in Exports, NEW f \in Exports, Live(e)', Live(f)',
              export'[e].page = export'[f].page
       PROVE  e = f
  <2>1. /\ export[e].page # i /\ export[f].page # i
    BY <1>6, <1>11 DEF Live
  <2>2. export'[e] = export[e] /\ export'[f] = export[f]
    BY <1>6, <2>1
  <2>3. Live(e) /\ Live(f) /\ export[e].page = export[f].page
    BY <1>11, <2>2 DEF Live
  <2>4. QED BY <1>2, <2>3
<1>12. ExportInv'
  BY <1>9, <1>10, <1>11 DEF ExportInv
<1>13. QED BY <1>1, <1>2, <1>4, <1>5, <1>7, <1>8, <1>12, BackupStep

\* The editor closes: the staged file goes, its page keeps what it asked for.
LEMMA StoresDetachInv ==
  ASSUME StoresInv, NEW i \in Instances, StoresDetach(i)
  PROVE  StoresInv'
<1> DEFINE later == epoch[i] + 1
<1>1. /\ epoch' = [epoch EXCEPT ![i] = later] /\ staging' = [staging EXCEPT ![i] = NoStaging]
      /\ UNCHANGED fileVars /\ UNCHANGED <<export, backup, begun>>
  BY DEF StoresDetach, Cancelled
<1>2. /\ export \in [Exports -> ExportKind] /\ epoch \in [Instances -> Nat]
      /\ staging \in [Instances -> StagingKind] /\ NoStaging \in StagingKind
      /\ NoStaging.target = None /\ begun \in 0 .. MaxWrites
      /\ \A j \in Instances : StagedOf(j)
      /\ \A f, g \in Exports :
           Live(f) /\ Live(g) /\ export[f].page = export[g].page => f = g
      /\ \A f \in Exports : export[f].at = "choosing" => export[f].sent = 0
      /\ \A f \in Exports, j \in Instances : export[f].page = j =>
           /\ export[f].at = "choosing" => export[f].epoch <= epoch[j]
           /\ export[f].at = "lost" => export[f].epoch < epoch[j]
  BY BackupFacts
<1>3. later \in Nat /\ epoch[i] \in Nat /\ epoch[i] < later
  BY <1>2
<1> HIDE DEF later
<1>4. /\ epoch' \in [Instances -> Nat]
      /\ \A j \in Instances : epoch[j] \in Nat /\ epoch'[j] \in Nat /\ epoch[j] <= epoch'[j]
  <2>1. epoch' \in [Instances -> Nat]
    BY <1>1, <1>2, <1>3
  <2>2. ASSUME NEW j \in Instances
        PROVE  epoch[j] \in Nat /\ epoch'[j] \in Nat /\ epoch[j] <= epoch'[j]
    <3>1. epoch[j] \in Nat /\ epoch'[j] = IF j = i THEN later ELSE epoch[j]
      BY <1>1, <1>2
    <3>2. QED BY <1>3, <3>1
  <2>3. QED BY <2>1, <2>2
<1>5. /\ staging' \in [Instances -> StagingKind] /\ staging'[i] = NoStaging
      /\ \A j \in Instances \ {i} : staging'[j] = staging[j]
  BY <1>1, <1>2
<1>6. StagingInv'
  BY <1>1, <1>2, <1>5 DEF StagingInv, StagedOf
<1>7. ASSUME NEW e \in Exports, NEW j \in Instances, export[e].page = j
      PROVE  /\ export[e].at = "choosing" => export[e].epoch <= epoch'[j]
             /\ export[e].at = "lost" => export[e].epoch < epoch'[j]
  <2>1. export[e].epoch \in Nat
    BY <1>2 DEF ExportKind
  <2>2. /\ export[e].at = "choosing" => export[e].epoch <= epoch[j]
        /\ export[e].at = "lost" => export[e].epoch < epoch[j]
    BY <1>2, <1>7
  <2>3. QED BY <1>4, <2>1, <2>2
<1>8. ExportInv'
  BY <1>1, <1>2, <1>7 DEF ExportInv, Live
<1>9. QED BY <1>1, <1>2, <1>4, <1>5, <1>6, <1>8, BackupStep

\* The process dies: what it wrote stays, and nothing of it goes on.
LEMMA StoresCrashInv ==
  ASSUME StoresInv, NEW i \in Instances, StoresCrash(i)
  PROVE  StoresInv'
<1>1. /\ write' = [write EXCEPT ![i] = NoWrite]
      /\ staging' = [staging EXCEPT ![i] = NoStaging]
      /\ export' = [e \in Exports |->
           IF export[e].page = i THEN [export[e] EXCEPT !.at = "done", !.epoch = 0]
                                 ELSE export[e]]
      /\ epoch' = [epoch EXCEPT ![i] = 0]
      /\ UNCHANGED <<store, temporary, documented, mixed, backup, begun>>
  BY DEF StoresCrash, Cancelled
<1>2. /\ export \in [Exports -> ExportKind] /\ epoch \in [Instances -> Nat]
      /\ staging \in [Instances -> StagingKind] /\ NoStaging \in StagingKind
      /\ NoStaging.target = None
      /\ \A j \in Instances : StagedOf(j)
      /\ \A f, g \in Exports :
           Live(f) /\ Live(g) /\ export[f].page = export[g].page => f = g
      /\ \A f \in Exports : export[f].at = "choosing" => export[f].sent = 0
      /\ \A f \in Exports, j \in Instances : export[f].page = j =>
           /\ export[f].at = "choosing" => export[f].epoch <= epoch[j]
           /\ export[f].at = "lost" => export[f].epoch < epoch[j]
  BY BackupFacts
<1>3. write' \in [Instances -> WriteKind] /\ WriterInv'
  BY <1>1, WriterLeaves
<1>4. /\ epoch' \in [Instances -> Nat]
      /\ \A j \in Instances \ {i} : epoch'[j] = epoch[j]
  BY <1>1, <1>2
<1>5. /\ staging' \in [Instances -> StagingKind] /\ staging'[i] = NoStaging
      /\ \A j \in Instances \ {i} : staging'[j] = staging[j]
  BY <1>1, <1>2
<1>6. ASSUME NEW e \in Exports
      PROVE  /\ export'[e] \in ExportKind /\ export'[e].page = export[e].page
             /\ export[e].page = i => export'[e].at = "done"
             /\ export[e].page # i => export'[e] = export[e]
  <2> DEFINE new == [export[e] EXCEPT !.at = "done", !.epoch = 0]
  <2>1. export'[e] = IF export[e].page = i THEN new ELSE export[e]
    BY <1>1
  <2>2. export[e] \in ExportKind
    BY <1>2
  <2>3. new \in ExportKind /\ new.at = "done" /\ new.page = export[e].page
    BY <2>2 DEF ExportKind
  <2> HIDE DEF new
  <2>4. QED BY <2>1, <2>2, <2>3
<1>7. export' \in [Exports -> ExportKind]
  BY <1>1, <1>6
<1>8. ASSUME NEW j \in Instances PROVE StagedOf(j)'
  <2>1. CASE j = i
    BY <1>2, <1>5, <2>1 DEF StagedOf
  <2>2. CASE j # i
    <3>1. staging'[j] = staging[j] /\ StagedOf(j) /\ staging[j] \in StagingKind
      BY <1>2, <1>5, <2>2
    <3>2. staging[j].target # None => staging[j].target \in Exports
      BY <3>1 DEF StagingKind
    <3>3. staging[j].target # None => export'[staging[j].target] = export[staging[j].target]
      BY <1>6, <2>2, <3>1, <3>2 DEF StagedOf
    <3>4. QED BY <3>1, <3>3 DEF StagedOf
  <2>3. QED BY <2>1, <2>2
<1>9. ASSUME NEW e \in Exports
      PROVE  /\ export'[e].at = "choosing" => export'[e].sent = 0
             /\ \A j \in Instances : export'[e].page = j =>
                  /\ export'[e].at = "choosing" => export'[e].epoch <= epoch'[j]
                  /\ export'[e].at = "lost" => export'[e].epoch < epoch'[j]
  <2>1. CASE export[e].page = i
    <3>1. export'[e].at = "done"
      BY <1>6, <2>1
    <3>2. QED BY <3>1
  <2>2. CASE export[e].page # i
    <3>1. export'[e] = export[e]
      BY <1>6, <2>2
    <3>2. \A j \in Instances : export[e].page = j => epoch'[j] = epoch[j]
      BY <1>4, <2>2
    <3>3. QED BY <1>2, <3>1, <3>2
  <2>3. QED BY <2>1, <2>2
<1>10. ASSUME NEW e \in Exports, NEW f \in Exports, Live(e)', Live(f)',
              export'[e].page = export'[f].page
       PROVE  e = f
  <2>1. /\ export[e].page # i /\ export[f].page # i
    BY <1>6, <1>10 DEF Live
  <2>2. export'[e] = export[e] /\ export'[f] = export[f]
    BY <1>6, <2>1
  <2>3. Live(e) /\ Live(f) /\ export[e].page = export[f].page
    BY <1>10, <2>2 DEF Live
  <2>4. QED BY <1>2, <2>3
<1>11. ExportInv' /\ StagingInv'
  BY <1>8, <1>9, <1>10 DEF ExportInv, StagingInv
<1>12. FilesAreWhole'
  BY <1>1 DEF StoresInv, FilesAreWhole, StoreIsLastDocument, BackupIsWhole
<1>13. StoresKinds'
  <2>1. \A j \in Instances : staging'[j].target \in Exports \union {None}
    BY <1>5 DEF StagingKind
  <2>2. StoresTypeOK'
    BY <1>1, <1>3, <1>4, <1>7, <2>1
       DEF StoresInv, StoresKinds, StoresTypeOK, WriteKind, ExportKind
  <2>3. QED BY <1>1, <1>5, <2>2 DEF StoresInv, StoresKinds
<1>14. QED BY <1>3, <1>11, <1>12, <1>13 DEF StoresInv

\* The stores and the backup in their initial state.
LEMMA StoresInitInv ==
  ASSUME StoresInit
  PROVE  StoresInv
<1>1. NoWrite \in WriteKind /\ NoWrite.at = "idle" /\ NoWrite.store = None
  BY DEF NoWrite, WriteKind
<1>2. NoExport \in ExportKind /\ NoExport.at = "none"
  BY FileStoresAssumption DEF NoExport, ExportKind
<1>3. <<>> \in Seq(Exports)
  BY EmptySeq
<1>4. NoStaging \in StagingKind /\ NoStaging.target = None
  BY <1>3 DEF NoStaging, StagingKind
<1>5. /\ store = [s \in Stores |-> Initial] /\ temporary = [s \in Stores |-> Absent]
      /\ documented = [s \in Stores |-> Initial] /\ mixed = [s \in Stores |-> FALSE]
      /\ write = [i \in Instances |-> NoWrite] /\ export = [e \in Exports |-> NoExport]
      /\ epoch = [i \in Instances |-> 0] /\ staging = [i \in Instances |-> NoStaging]
      /\ backup = [e \in Exports |-> <<>>] /\ begun = 0
  BY DEF StoresInit
<1>6. StoresKinds
  <2>1. /\ store \in [Stores -> ContentKind] /\ temporary \in [Stores -> ContentKind]
        /\ documented \in [Stores -> ContentKind] /\ mixed \in [Stores -> BOOLEAN]
    BY <1>5, ContentFacts
  <2>2. /\ write \in [Instances -> WriteKind] /\ export \in [Exports -> ExportKind]
        /\ epoch \in [Instances -> Nat] /\ staging \in [Instances -> StagingKind]
        /\ begun \in 0 .. MaxWrites
    BY <1>1, <1>2, <1>4, <1>5, FileStoresAssumption
  <2>3. backup \in [Exports -> Seq(Exports)]
    BY <1>3, <1>5
  <2>4. \A i \in Instances : staging[i].target \in Exports \union {None}
    BY <2>2 DEF StagingKind
  <2>5. QED BY <2>1, <2>2, <2>3, <2>4
            DEF StoresKinds, StoresTypeOK, ContentKind, Contents, WriteKind, ExportKind
<1>7. WriterInv
  BY <1>1, <1>5 DEF WriterInv, WriterOf
<1>8. ExportInv
  BY <1>2, <1>5 DEF ExportInv, Live
<1>9. StagingInv
  BY <1>4, <1>5 DEF StagingInv, StagedOf
<1>10. FilesAreWhole
  BY <1>5 DEF FilesAreWhole, StoreIsLastDocument, BackupIsWhole
<1>11. QED BY <1>6, <1>7, <1>8, <1>9, <1>10 DEF StoresInv

\* What an instance does with the stores and the backup.
LEMMA StoresStepInv ==
  ASSUME StoresInv, NEW i \in Instances, StoresStep(i)
  PROVE  StoresInv'
<1>1. CASE \E s \in Stores : OpenTemporary(i, s)
  BY <1>1, OpenTemporaryInv
<1>2. CASE WritePiece(i) \/ WriteFails(i) \/ Rename(i) \/ RenameFails(i)
  BY <1>2, WritePieceInv, WriteFailsInv, RenameInv, RenameFailsInv
<1>3. ASSUME NEW e \in Exports,
             \/ AskBackup(i, e) \/ ChooseTarget(i, e) \/ SendChunk(i, e)
             \/ CommitBackup(i, e) \/ CancelBackup(i, e)
      PROVE  StoresInv'
  BY <1>3, AskBackupInv, ChooseTargetInv, SendChunkInv, CommitBackupInv, CancelBackupInv
<1>4. QED BY <1>1, <1>2, <1>3 DEF StoresStep

------------------------------------------------------------------------------
(* Both together *)

PluginFilesInv == LibraryInv /\ StoresInv

\* What one of the two does leaves the other as it was.
LEMMA LibraryStands ==
  ASSUME LibraryInv, UNCHANGED libraryVars
  PROVE  LibraryInv'
<1>1. UNCHANGED <<registry, expected, holder, task, choosing, generation, page, reads,
                  load, source, asked>>
  BY DEF libraryVars
<1>2. LibraryTypeOK'
  BY <1>1 DEF LibraryInv, LibraryTypeOK
<1>3. RequestInv'
  BY <1>1 DEF LibraryInv, RequestInv, RequestOf
<1>4. SessionInv' /\ RegistryIsHistory'
  BY <1>1 DEF LibraryInv, SessionInv, SessionOf, RegistryIsHistory
<1>5. QED BY <1>2, <1>3, <1>4 DEF LibraryInv

\* ... and the other way round.
LEMMA StoresStand ==
  ASSUME StoresInv, UNCHANGED storeVars
  PROVE  StoresInv'
<1>1. UNCHANGED fileVars /\ UNCHANGED backupVars /\ UNCHANGED begun
  BY DEF storeVars, fileVars, backupVars
<1>2. /\ WriterInv' /\ StoreIsLastDocument'
      /\ UNCHANGED <<store, temporary, documented, mixed, write>>
  BY <1>1, WritersStand
<1>3. /\ ExportInv' /\ StagingInv' /\ BackupIsWhole'
      /\ UNCHANGED <<export, epoch, staging, backup>>
  BY <1>1, BackupStands
<1>4. StoresKinds'
  BY <1>1, <1>2, <1>3 DEF StoresInv, StoresKinds, StoresTypeOK
<1>5. QED BY <1>2, <1>3, <1>4 DEF StoresInv, FilesAreWhole

\* The inductive invariant of all files of all instances: who is inside the library
\* with the lock knows the registry as it is, a pinned session has read between two
\* equal looks at the revision, a writer that is alone owns the temporary file, and
\* the staged file is that of the one request its page is sending
\* (sfz_library.cpp, preset_store.cpp, config_store.cpp, backup_export.cpp).
THEOREM PluginFilesInvariance == Spec => []PluginFilesInv
<1>1. Init => PluginFilesInv
  BY LibraryInitInv, StoresInitInv DEF Init, PluginFilesInv
<1>2. PluginFilesInv /\ [Next]_vars => PluginFilesInv'
  <2> SUFFICES ASSUME PluginFilesInv, [Next]_vars PROVE PluginFilesInv'
    OBVIOUS
  <2>0. LibraryInv /\ StoresInv
    BY DEF PluginFilesInv
  <2>1. ASSUME NEW i \in Instances, UseLibrary(i) PROVE PluginFilesInv'
    BY <2>0, <2>1, LibraryStepInv, StoresStand DEF UseLibrary, PluginFilesInv
  <2>2. ASSUME NEW i \in Instances, UseStores(i) PROVE PluginFilesInv'
    BY <2>0, <2>2, StoresStepInv, LibraryStands DEF UseStores, PluginFilesInv
  <2>3. ASSUME NEW i \in Instances, NewPage(i) PROVE PluginFilesInv'
    BY <2>0, <2>3, LibraryNewPageInv, StoresNewPageInv DEF NewPage, PluginFilesInv
  <2>4. ASSUME NEW i \in Instances, Detach(i) PROVE PluginFilesInv'
    BY <2>0, <2>4, LibraryDetachInv, StoresDetachInv DEF Detach, PluginFilesInv
  <2>5. ASSUME NEW i \in Instances, Crash(i) PROVE PluginFilesInv'
    BY <2>0, <2>5, LibraryCrashInv, StoresCrashInv DEF Crash, PluginFilesInv
  <2>6. CASE EditFiles
    BY <2>0, <2>6, EditSourceInv, StoresStand DEF EditFiles, PluginFilesInv
  <2>7. CASE UNCHANGED vars
    <3>1. UNCHANGED libraryVars /\ UNCHANGED storeVars
      BY <2>7 DEF vars
    <3>2. QED BY <2>0, <3>1, LibraryStands, StoresStand DEF PluginFilesInv
  <2>8. QED BY <2>1, <2>2, <2>3, <2>4, <2>5, <2>6, <2>7 DEF Next
<1>3. QED BY <1>1, <1>2, PTL DEF Spec

\* The state of both is of its kind.
THEOREM PluginFilesTypes == Spec => []TypeOK
<1>1. PluginFilesInv => TypeOK
  BY DEF PluginFilesInv, LibraryInv, StoresInv, StoresKinds, TypeOK
<1>2. QED BY <1>1, PluginFilesInvariance, PTL

\* No import and no removal is lost, whatever other processes do meanwhile and
\* whoever dies: the registry is at all times what was imported and not removed
\* (sfz_library.cpp, SfzLibrary::Impl::perform under RegistryLock).
THEOREM RegistryIsKept == Spec => []RegistryIsHistory
<1>1. PluginFilesInv => RegistryIsHistory
  BY DEF PluginFilesInv, LibraryInv
<1>2. QED BY <1>1, PluginFilesInvariance, PTL

\* All that a pinned session hands out is of one revision of its file, however the
\* file is edited or replaced meanwhile (sfz_library.cpp, verifyRevision before and
\* after every read).
THEOREM SessionsStayPinned == Spec => []PinnedReadsAreOneRevision
<1>1. PluginFilesInv => PinnedReadsAreOneRevision
  BY DEF PluginFilesInv, LibraryInv, SessionInv, SessionOf, PinnedReadsAreOneRevision
<1>2. QED BY <1>1, PluginFilesInvariance, PTL

\* A store is replaced whole or not at all, by a writer that is alone, and a backup
\* likewise, whatever fails or dies (preset_store.cpp, config_store.cpp,
\* backup_export.cpp).
THEOREM FilesStayWhole == Spec => []FilesAreWhole
<1>1. PluginFilesInv => FilesAreWhole
  BY DEF PluginFilesInv, StoresInv
<1>2. QED BY <1>1, PluginFilesInvariance, PTL

------------------------------------------------------------------------------
(* The web view host                                                       *)

\* What is known of one generation: no complaint in front of a page that runs, which
\* holds because a page that runs is never held to be unusable.
GenerationOf(r) ==
  /\ r.diag => r.web # "ready"
  /\ r.web = "ready" => r.status # "unavailable"
  /\ r.released => r.retiring

GenerationsInv == \A g \in Gens : GenerationOf(gen[g])

\* What is known of a thread: it works on a generation that exists, on one of its own
\* where it publishes or attaches, and on an operation that exists.
ThreadOf(t) ==
  /\ th[t].then \in {"idle", "create"}
  /\ th[t].pc \in {"retire", "publish", "recheck", "attach", "finish", "show", "invoke",
                   "send", "sent"} => th[t].target \in 1 .. made
  /\ th[t].pc \in {"publish", "attach", "finish", "show"} => gen[th[t].target].thread = t
  /\ th[t].pc \in {"invoke", "send"} => th[t].op \in Ops /\ th[t].then = "idle"
  /\ th[t].pc \in {"drain", "run"} => th[t].message \in Message
  /\ th[t].pc = "run" => th[t].batch # <<>>

ThreadsInv == \A t \in Threads : ThreadOf(t)

\* Where a generation that nobody has retired can be.
AccountedOf(g) ==
  \/ gen[g].retiring
  \/ g = slot
  \/ \E t \in Threads : th[t].pc = "retire" /\ th[t].target = g
  \/ \E t \in Threads : /\ th[t].pc = "publish" /\ th[t].target = g
                        /\ gen[g].owner = Nobody

Accounted == \A g \in 1 .. made : AccountedOf(g)

\* A caller that was told that its operation failed had cancelled it.
FailedAreCancelled == \A o \in Ops : job[o].failed => job[o].cancelled

\* The calls of attach() that may still make a generation: the numbers suffice.
Making(r) == r.pc \in {"take", "create"} \/ (r.pc \in {"retire", "sent"} /\ r.then = "create")

Makers == {t \in Threads : Making(th[t])}

Counted == IsFiniteSet(Makers) /\ made + Cardinality(Makers) <= attaches + 1

WebInv == /\ WebTypeOK /\ GenerationsInv /\ ThreadsInv /\ Accounted
          /\ FailedAreCancelled /\ Counted

\* What the owner thread may make of a generation, showing a view aside.
Follows(a, b) ==
  /\ b \in Generation
  /\ b.thread = a.thread
  /\ a.retiring => b.retiring
  /\ b.owner = a.owner \/ b.owner = Nobody
  /\ GenerationOf(b)

Frees(a, b) == Follows(a, b) /\ b.retiring

\* A generation follows itself.
LEMMA FollowsSame ==
  ASSUME NEW a \in Generation, GenerationOf(a)
  PROVE  Follows(a, a)
BY DEF Follows

\* createWebViewOnOwner() makes no page that runs.
LEMMA WithViewFollows ==
  ASSUME NEW a \in Generation, GenerationOf(a), NEW starts \in BOOLEAN
  PROVE  Follows(a, WithView(a, starts))
<1>1. CASE a.retiring
  BY <1>1 DEF Follows, WithView
<1>2. CASE ~a.retiring
  BY <1>2 DEF Follows, WithView, Generation, GenerationOf
<1>3. QED BY <1>1, <1>2 DEF Generation

\* The owner and the watch are taken away.
LEMMA BareFollows ==
  ASSUME NEW a \in Generation, GenerationOf(a)
  PROVE  /\ Follows(a, Bare(a)) /\ Bare(a).retiring = a.retiring
         /\ Bare(a).owner = Nobody /\ ~Bare(a).diag
BY DEF Follows, Bare, Generation, GenerationOf

\* One change after the other.
LEMMA FollowsTwice ==
  ASSUME NEW a, NEW b, NEW c, Follows(a, b), Follows(b, c)
  PROVE  Follows(a, c)
BY DEF Follows

\* attachOnOwner() up to the view it will show.
LEMMA PreparedFollows ==
  ASSUME NEW a \in Generation, GenerationOf(a), NEW starts \in BOOLEAN
  PROVE  Follows(a, Prepared(a, starts))
<1> DEFINE b == Bare(a)
<1>1. Follows(a, b)
  BY BareFollows
<1>2. b \in Generation /\ GenerationOf(b)
  BY <1>1 DEF Follows
<1> HIDE DEF b
<1>3. Follows(b, WithView(b, starts)) /\ Follows(b, b)
  BY <1>2, WithViewFollows, FollowsSame
<1>4. Follows(a, WithView(b, starts))
  BY <1>1, <1>3, FollowsTwice
<1>5. Prepared(a, starts) \in {b, WithView(b, starts)}
  BY DEF Prepared, b
<1>6. QED BY <1>1, <1>4, <1>5

\* detachOnOwner().
LEMMA DetachedFollows ==
  ASSUME NEW a \in Generation, GenerationOf(a), NEW view, NEW starts \in BOOLEAN
  PROVE  Follows(a, Detached(a, view, starts))
<1> DEFINE b == Bare(a)
<1>1. Follows(a, b)
  BY BareFollows
<1>2. b \in Generation /\ GenerationOf(b)
  BY <1>1 DEF Follows
<1> HIDE DEF b
<1>3. Follows(b, WithView(b, starts)) /\ Follows(a, a)
  BY <1>2, WithViewFollows, FollowsSame
<1>4. Follows(a, WithView(b, starts))
  BY <1>1, <1>3, FollowsTwice
<1>5. Detached(a, view, starts) \in {a, WithView(b, starts)}
  BY DEF Detached, b
<1>6. QED BY <1>3, <1>4, <1>5

\* releaseOnOwner() leaves the generation retired.
LEMMA ReleasedFrees ==
  ASSUME NEW a \in Generation, GenerationOf(a)
  PROVE  Frees(a, Released(a))
<1>1. CASE a.released
  BY <1>1 DEF Frees, Follows, Released, GenerationOf
<1>2. CASE ~a.released
  BY <1>2 DEF Frees, Follows, Released, Bare, Generation, GenerationOf
<1>3. QED BY <1>1, <1>2 DEF Generation

\* The timer of the start-up watch.
LEMMA TickedFollows ==
  ASSUME NEW a \in Generation, GenerationOf(a), NEW late \in BOOLEAN
  PROVE  Follows(a, Ticked(a, late))
<1>1. CASE Usable(a) /\ a.web = "ready"
  BY <1>1 DEF Follows, Ticked, Generation, GenerationOf
<1>2. CASE ~(Usable(a) /\ a.web = "ready")
  <2>1. a.web # "ready"
    BY <1>2 DEF Usable, GenerationOf
  <2>2. QED
    BY <1>2, <2>1 DEF Follows, Ticked, Generation, GenerationOf
<1>3. QED BY <1>1, <1>2

\* Showing the view, the one change that brings an owner.
LEMMA ShownKeeps ==
  ASSUME NEW a \in Generation, GenerationOf(a), NEW view \in Views \cup {Nobody}
  PROVE  /\ Shown(a, view) \in Generation /\ GenerationOf(Shown(a, view))
         /\ Shown(a, view).thread = a.thread
         /\ Shown(a, view).retiring = a.retiring
<1>1. CASE Usable(a)
  BY <1>1 DEF Shown, Generation, GenerationOf
<1>2. CASE ~Usable(a)
  <2>1. a.web # "ready"
    BY <1>2 DEF Usable, GenerationOf
  <2>2. QED
    BY <1>2, <2>1 DEF Shown, Generation, GenerationOf
<1>3. QED BY <1>1, <1>2

\* A thread at rest, and one that goes on to another point of its call.
Turned(t, label) ==
  IF label = "idle" THEN AtRest ELSE [th[t] EXCEPT !.pc = label]

LEMMA AtRestFacts ==
  AtRest \in Thread /\ AtRest.pc = "idle" /\ AtRest.then = "idle" /\ ~Making(AtRest)
<1>1. 0 \in 0 .. MaxGenerations /\ 0 \in 0 .. MaxOps
  BY WebViewHostAssumption DEF MaxGenerations
<1>2. <<>> \in Seq(Ops)
  OBVIOUS
<1>3. QED BY <1>1, <1>2 DEF AtRest, Thread, Labels, Making

\* What Goto leaves of a thread.
LEMMA TurnedFacts ==
  ASSUME WebTypeOK, NEW t \in Threads, NEW label \in Labels
  PROVE  /\ Turned(t, label) \in Thread /\ Turned(t, label).pc = label
         /\ label # "idle" => /\ Turned(t, label).then = th[t].then
                              /\ Turned(t, label).target = th[t].target
                              /\ Turned(t, label).op = th[t].op
                              /\ Turned(t, label).batch = th[t].batch
                              /\ Turned(t, label).message = th[t].message
         /\ label = "idle" => Turned(t, label) = AtRest
         /\ Goto(t, label) => th' = [th EXCEPT ![t] = Turned(t, label)]
<1>1. th[t] \in Thread
  BY DEF WebTypeOK
<1>2. CASE label = "idle"
  BY <1>2, AtRestFacts DEF Turned, Goto, Become
<1>3. CASE label # "idle"
  BY <1>1, <1>3 DEF Turned, Goto, Become, Thread
<1>4. QED BY <1>2, <1>3

\* One thread moves, every other one stays.
LEMMA OneMoves ==
  ASSUME WebTypeOK, ThreadsInv, NEW t \in Threads, NEW rec \in Thread,
         th' = [th EXCEPT ![t] = rec],
         made' \in Nat, made <= made',
         \A g \in 1 .. made : gen'[g].thread = gen[g].thread,
         ThreadOf(t)'
  PROVE  /\ th' \in [Threads -> Thread] /\ ThreadsInv'
         /\ th'[t] = rec /\ \A u \in Threads \ {t} : th'[u] = th[u]
<1>1. th' \in [Threads -> Thread] /\ th'[t] = rec
  BY DEF WebTypeOK
<1>2. \A u \in Threads \ {t} : th'[u] = th[u]
  BY DEF WebTypeOK
<1>3. ASSUME NEW u \in Threads \ {t} PROVE ThreadOf(u)'
  <2>1. th'[u] = th[u] /\ ThreadOf(u)
    BY <1>2, <1>3 DEF ThreadsInv
  <2>2. made \in Nat
    BY WebViewHostAssumption DEF WebTypeOK, MaxGenerations
  <2>3. 1 .. made \subseteq 1 .. made'
    BY <2>2
  <2>4. th[u].pc \in {"publish", "attach", "finish", "show"} =>
          gen'[th[u].target].thread = gen[th[u].target].thread
    BY <2>1 DEF ThreadOf
  <2>5. QED BY <2>1, <2>3, <2>4 DEF ThreadOf
<1>4. ThreadsInv'
  BY <1>3 DEF ThreadsInv
<1>5. QED BY <1>1, <1>2, <1>4

\* No call starts to make a generation.
LEMMA CountedKeeps ==
  ASSUME WebTypeOK, Counted, made' = made, attaches' = attaches,
         \A u \in Threads : Making(th'[u]) => Making(th[u])
  PROVE  Counted'
<1>1. Makers' \subseteq Makers
  BY DEF Makers
<1>2. /\ IsFiniteSet(Makers') /\ Cardinality(Makers') <= Cardinality(Makers)
      /\ Cardinality(Makers') \in Nat /\ Cardinality(Makers) \in Nat
  BY <1>1, FS_Subset, FS_CardinalityType DEF Counted
<1>3. made \in Nat /\ attaches \in Nat
  BY WebViewHostAssumption DEF WebTypeOK, MaxGenerations
<1>4. made + Cardinality(Makers') <= attaches + 1
  BY <1>2, <1>3 DEF Counted
<1>5. Cardinality(Makers)' = Cardinality(Makers')
  OBVIOUS
<1>6. QED BY <1>2, <1>4 DEF Counted

\* Nobody loses sight of a generation: the slot is as it was, who is about to
\* retire one or to publish one still is, and no other generation gets an owner.
LEMMA AccountedKeeps ==
  ASSUME Accounted, made' = made, slot' = slot,
         \A g \in 1 .. made : /\ gen[g].retiring => gen'[g].retiring
                              /\ gen'[g].owner \in {gen[g].owner, Nobody},
         \A u \in Threads : th[u].pc \in {"retire", "publish"} =>
            th'[u].pc = th[u].pc /\ th'[u].target = th[u].target
  PROVE  Accounted'
<1> SUFFICES ASSUME NEW g \in 1 .. made PROVE AccountedOf(g)'
  BY DEF Accounted
<1>1. AccountedOf(g)
  BY DEF Accounted
<1>2. CASE gen[g].retiring
  BY <1>2 DEF AccountedOf
<1>3. CASE g = slot
  BY <1>3 DEF AccountedOf
<1>4. CASE \E t \in Threads : th[t].pc = "retire" /\ th[t].target = g
  BY <1>4 DEF AccountedOf
<1>5. CASE \E t \in Threads : /\ th[t].pc = "publish" /\ th[t].target = g
                              /\ gen[g].owner = Nobody
  BY <1>5 DEF AccountedOf
<1>6. QED BY <1>1, <1>2, <1>3, <1>4, <1>5 DEF AccountedOf

\* An ordinary step: none that takes a generation, makes one, publishes one,
\* retires one or shows a view.
Ordinary ==
  /\ slot' = slot /\ made' = made /\ attaches' = attaches
  /\ stopping' \in BOOLEAN /\ called' \in 0 .. MaxOps
  /\ gen' = [g \in Gens |-> gen'[g]] /\ \A g \in Gens : Follows(gen[g], gen'[g])
  /\ job' \in [Ops -> Operation] /\ FailedAreCancelled'
  /\ mail' \in [Threads -> Seq(Message)]
  /\ th' \in [Threads -> Thread] /\ ThreadsInv'
  /\ \A u \in Threads : /\ Making(th'[u]) => Making(th[u])
                        /\ th[u].pc \in {"retire", "publish"} =>
                             th'[u].pc = th[u].pc /\ th'[u].target = th[u].target

LEMMA OrdinaryKeeps ==
  ASSUME WebInv, Ordinary
  PROVE  WebInv'
<1>1. WebTypeOK'
  <2>1. gen' \in [Gens -> Generation]
    BY DEF Ordinary, Follows
  <2>2. QED BY <2>1 DEF Ordinary, WebInv, WebTypeOK
<1>2. GenerationsInv'
  BY DEF Ordinary, GenerationsInv, Follows
<1>3. Accounted'
  <2>1. 1 .. made \subseteq Gens
    BY WebViewHostAssumption DEF WebInv, WebTypeOK, Gens, MaxGenerations
  <2>2. \A g \in 1 .. made : /\ gen[g].retiring => gen'[g].retiring
                             /\ gen'[g].owner \in {gen[g].owner, Nobody}
    BY <2>1 DEF Ordinary, Follows
  <2>3. QED BY <2>2, AccountedKeeps DEF Ordinary, WebInv
<1>4. Counted'
  BY CountedKeeps DEF Ordinary, WebInv
<1>5. QED BY <1>1, <1>2, <1>3, <1>4 DEF Ordinary, WebInv

\* The generations while one of them changes as its owner thread changes it.
LEMMA OneFollows ==
  ASSUME WebTypeOK, GenerationsInv, NEW g, NEW r, g \in Gens => Follows(gen[g], r),
         gen' = [gen EXCEPT ![g] = r]
  PROVE  /\ gen' = [h \in Gens |-> gen'[h]]
         /\ \A h \in Gens : Follows(gen[h], gen'[h])
<1>1. gen' = [h \in Gens |-> gen'[h]]
  BY DEF WebTypeOK
<1>2. ASSUME NEW h \in Gens PROVE Follows(gen[h], gen'[h])
  <2>1. gen[h] \in Generation /\ GenerationOf(gen[h])
    BY <1>2 DEF WebTypeOK, GenerationsInv
  <2>2. Follows(gen[h], gen[h])
    BY <2>1, FollowsSame
  <2>3. gen'[h] = IF h = g THEN r ELSE gen[h]
    BY <1>2 DEF WebTypeOK
  <2>4. QED BY <2>2, <2>3
<1>3. QED BY <1>1, <1>2

\* And while none changes.
LEMMA NoneChanges ==
  ASSUME WebTypeOK, GenerationsInv, gen' = gen
  PROVE  /\ gen' = [h \in Gens |-> gen'[h]]
         /\ \A h \in Gens : Follows(gen[h], gen'[h])
<1>1. \A h \in Gens : gen[h] \in Generation /\ GenerationOf(gen[h])
  BY DEF WebTypeOK, GenerationsInv
<1>2. QED BY <1>1, FollowsSame DEF WebTypeOK

\* An ordinary step of one thread.
LEMMA MoveKeeps ==
  ASSUME WebInv, NEW t \in Threads, NEW rec \in Thread,
         th' = [th EXCEPT ![t] = rec], ThreadOf(t)',
         Making(rec) => Making(th[t]), th[t].pc \notin {"retire", "publish"},
         slot' = slot, made' = made, attaches' = attaches, stopping' \in BOOLEAN,
         called' \in 0 .. MaxOps,
         gen' = [g \in Gens |-> gen'[g]], \A g \in Gens : Follows(gen[g], gen'[g]),
         job' \in [Ops -> Operation], FailedAreCancelled',
         mail' \in [Threads -> Seq(Message)]
  PROVE  WebInv'
<1>1. WebTypeOK /\ ThreadsInv /\ made \in Nat /\ 1 .. made \subseteq Gens
  BY WebViewHostAssumption DEF WebInv, WebTypeOK, Gens, MaxGenerations
<1>2. /\ \A g \in 1 .. made : gen'[g].thread = gen[g].thread
      /\ made' \in Nat /\ made <= made'
  BY <1>1 DEF Follows
<1>3. /\ th' \in [Threads -> Thread] /\ ThreadsInv'
      /\ th'[t] = rec /\ \A u \in Threads \ {t} : th'[u] = th[u]
  BY <1>1, <1>2, OneMoves
<1>4. \A u \in Threads : /\ Making(th'[u]) => Making(th[u])
                         /\ th[u].pc \in {"retire", "publish"} =>
                              th'[u].pc = th[u].pc /\ th'[u].target = th[u].target
  BY <1>3
<1>5. Ordinary
  BY <1>3, <1>4 DEF Ordinary
<1>6. QED BY <1>5, OrdinaryKeeps

\* Such a step of a thread whose call ends.
LEMMA FinishKeeps ==
  ASSUME WebInv, NEW t \in Threads, Finish(t), th[t].pc \notin {"retire", "publish"},
         slot' = slot, made' = made, attaches' = attaches, stopping' = stopping,
         called' = called,
         gen' = [g \in Gens |-> gen'[g]], \A g \in Gens : Follows(gen[g], gen'[g]),
         job' \in [Ops -> Operation], FailedAreCancelled', mail' = mail
  PROVE  WebInv'
<1>1. th' = [th EXCEPT ![t] = AtRest] /\ th'[t] = AtRest
  BY DEF Finish, Become, WebInv, WebTypeOK
<1>2. ThreadOf(t)'
  BY <1>1, AtRestFacts DEF ThreadOf
<1>3. stopping' \in BOOLEAN /\ called' \in 0 .. MaxOps /\ mail' \in [Threads -> Seq(Message)]
  BY DEF WebInv, WebTypeOK
<1>4. QED BY <1>1, <1>2, <1>3, AtRestFacts, MoveKeeps

\* What a thread must have to go on to a point of its call.
Fits(t, label) ==
  /\ label \in Labels \ {"idle", "take"} /\ th[t].pc \notin {"retire", "publish"}
  /\ label \in {"create", "retire"} => Making(th[t])
  /\ label = "sent" => th[t].then = "idle"
  /\ label \in {"retire", "publish", "recheck", "attach", "finish", "show", "invoke",
                "send", "sent"} => th[t].target \in 1 .. made
  /\ label \in {"publish", "attach", "finish", "show"} => gen[th[t].target].thread = t
  /\ label \in {"invoke", "send"} => th[t].op \in Ops /\ th[t].then = "idle"
  /\ label \in {"drain", "run"} => th[t].message \in Message
  /\ label = "run" => th[t].batch # <<>>

\* And of a thread that goes on to another point of its call.
LEMMA GotoKeeps ==
  ASSUME WebInv, NEW t \in Threads, NEW label, Fits(t, label), Goto(t, label),
         slot' = slot, made' = made, attaches' = attaches, stopping' = stopping,
         called' = called,
         gen' = [g \in Gens |-> gen'[g]], \A g \in Gens : Follows(gen[g], gen'[g]),
         job' \in [Ops -> Operation], FailedAreCancelled',
         mail' \in [Threads -> Seq(Message)]
  PROVE  WebInv'
<1> DEFINE rec == Turned(t, label)
<1>1. /\ rec \in Thread /\ rec.pc = label /\ th' = [th EXCEPT ![t] = rec]
      /\ rec.then = th[t].then /\ rec.target = th[t].target /\ rec.op = th[t].op
      /\ rec.batch = th[t].batch /\ rec.message = th[t].message
  BY TurnedFacts DEF WebInv, Fits
<1> HIDE DEF rec
<1>2. th'[t] = rec
  BY <1>1 DEF WebInv, WebTypeOK
<1>3. ThreadOf(t) /\ 1 .. made \subseteq Gens
  BY WebViewHostAssumption DEF WebInv, ThreadsInv, WebTypeOK, Gens, MaxGenerations
<1>4. label \in {"attach", "finish", "show", "publish"} => gen'[th[t].target].thread = t
  BY <1>3 DEF Follows, Fits
<1>5. ThreadOf(t)'
  BY <1>1, <1>2, <1>3, <1>4 DEF ThreadOf, Fits
<1>6. Making(rec) => Making(th[t])
  BY <1>1 DEF Making, Fits
<1>7. stopping' \in BOOLEAN /\ called' \in 0 .. MaxOps
  BY DEF WebInv, WebTypeOK
<1>8. QED BY <1>1, <1>5, <1>6, <1>7, MoveKeeps DEF Fits

\* Operations that nobody touches.
LEMMA OperationsSame ==
  ASSUME WebInv, job' = job
  PROVE  job' \in [Ops -> Operation] /\ FailedAreCancelled'
BY DEF WebInv, WebTypeOK, FailedAreCancelled

\* recheck: another owner, a shutdown meanwhile, or on with the attachment.
LEMMA RecheckKeeps ==
  ASSUME WebInv, NEW t \in Threads, Recheck(t)
  PROVE  WebInv'
<1>1. /\ th[t].pc = "recheck" /\ th[t] \in Thread /\ th[t].target \in 1 .. made
  BY DEF Recheck, At, WebInv, WebTypeOK, ThreadsInv, ThreadOf
<1>2. /\ slot' = slot /\ made' = made /\ attaches' = attaches /\ stopping' = stopping
      /\ called' = called /\ gen' = gen /\ mail' = mail /\ job' = job
  BY DEF Recheck, hostVars
<1>3. /\ gen' = [g \in Gens |-> gen'[g]] /\ \A g \in Gens : Follows(gen[g], gen'[g])
      /\ job' \in [Ops -> Operation] /\ FailedAreCancelled'
      /\ stopping' \in BOOLEAN /\ called' \in 0 .. MaxOps
      /\ mail' \in [Threads -> Seq(Message)]
  BY <1>2, NoneChanges, OperationsSame DEF WebInv, WebTypeOK
<1>4. CASE Finish(t)
  BY <1>1, <1>2, <1>3, <1>4, FinishKeeps
<1>5. CASE Become(t, [th[t] EXCEPT !.pc = "retire", !.then = "idle"])
  <2> DEFINE rec == [th[t] EXCEPT !.pc = "retire", !.then = "idle"]
  <2>1. /\ rec \in Thread /\ rec.pc = "retire" /\ rec.then = "idle"
        /\ rec.target = th[t].target
    BY <1>1 DEF Thread, Labels
  <2>2. th' = [th EXCEPT ![t] = rec]
    BY <1>5 DEF Become
  <2> HIDE DEF rec
  <2>3. th'[t] = rec
    BY <2>2 DEF WebInv, WebTypeOK
  <2>4. ThreadOf(t)' /\ ~Making(rec)
    BY <1>1, <1>2, <2>1, <2>3 DEF ThreadOf, Making
  <2>5. QED BY <1>1, <1>2, <1>3, <2>1, <2>2, <2>4, MoveKeeps
<1>6. CASE Own(t, th[t].target) /\ Goto(t, "attach")
  <2>1. Fits(t, "attach")
    BY <1>1, <1>6 DEF Labels, Own, Fits
  <2>2. QED BY <1>1, <1>2, <1>3, <1>6, <2>1, GotoKeeps
<1>7. QED BY <1>4, <1>5, <1>6 DEF Recheck

\* attachOnOwner() as far as the view it will show.
LEMMA AttachOnOwnerKeeps ==
  ASSUME WebInv, NEW t \in Threads, AttachOnOwner(t)
  PROVE  WebInv'
<1> DEFINE g == th[t].target
<1>1. /\ th[t].pc = "attach" /\ g \in 1 .. made /\ gen[g].thread = t
      /\ g \in Gens /\ WebTypeOK /\ GenerationsInv
  BY WebViewHostAssumption
     DEF AttachOnOwner, At, WebInv, WebTypeOK, ThreadsInv, ThreadOf, Gens, MaxGenerations
<1>2. /\ slot' = slot /\ made' = made /\ attaches' = attaches /\ stopping' = stopping
      /\ called' = called /\ mail' = mail /\ job' = job
  BY DEF AttachOnOwner, hostVars
<1>3. /\ job' \in [Ops -> Operation] /\ FailedAreCancelled'
      /\ mail' \in [Threads -> Seq(Message)]
  BY <1>2, OperationsSame DEF WebInv, WebTypeOK
<1>4. CASE Finish(t) /\ gen' = gen
  BY <1>1, <1>2, <1>3, <1>4, FinishKeeps, NoneChanges
<1>5. ASSUME NEW starts \in BOOLEAN, Goto(t, "finish"),
             gen' = [gen EXCEPT ![g] = Prepared(gen[g], starts)]
      PROVE  WebInv'
  <2>1. Follows(gen[g], Prepared(gen[g], starts))
    BY <1>1, PreparedFollows DEF WebTypeOK, GenerationsInv
  <2>2. /\ gen' = [h \in Gens |-> gen'[h]]
        /\ \A h \in Gens : Follows(gen[h], gen'[h])
    BY <1>1, <1>5, <2>1, OneFollows
  <2>3. Fits(t, "finish")
    BY <1>1 DEF Labels, Fits
  <2>4. QED BY <1>1, <1>2, <1>3, <1>5, <2>2, <2>3, GotoKeeps
<1>6. QED BY <1>4, <1>5 DEF AttachOnOwner

\* The variables an attachment or a retirement changes, as they are left.
LEMMA HostSame ==
  ASSUME WebInv, UNCHANGED hostVars
  PROVE  /\ slot' = slot /\ made' = made /\ attaches' = attaches /\ stopping' = stopping
         /\ called' = called
BY DEF hostVars

\* Whoever is told that its operation failed has cancelled it.
LEMMA FailFacts ==
  ASSUME WebInv, NEW t \in Threads, Fail(t)
  PROVE  job' \in [Ops -> Operation] /\ FailedAreCancelled' /\ Finish(t)
<1>1. job \in [Ops -> Operation] /\ FailedAreCancelled
  BY DEF WebInv, WebTypeOK
<1>2. job' = [job EXCEPT ![th[t].op].cancelled = TRUE, ![th[t].op].failed = TRUE]
  BY DEF Fail
<1>3. ASSUME NEW o \in Ops
      PROVE  job'[o] \in Operation /\ (job'[o].failed => job'[o].cancelled)
  <2>1. job[o] \in Operation /\ (job[o].failed => job[o].cancelled)
    BY <1>1 DEF FailedAreCancelled
  <2>2. CASE o = th[t].op
    <3>1. job'[o] = [job[o] EXCEPT !.cancelled = TRUE, !.failed = TRUE]
      BY <1>1, <1>2, <2>2 DEF Operation
    <3>2. QED BY <2>1, <3>1 DEF Operation
  <2>3. CASE o # th[t].op
    BY <1>1, <1>2, <2>1, <2>3
  <2>4. QED BY <2>2, <2>3
<1>4. job' \in [Ops -> Operation]
  BY <1>1, <1>2, <1>3
<1>5. QED BY <1>3, <1>4 DEF FailedAreCancelled, Fail

\* The stage of an operation has no part in what its caller was told.
LEMMA StageFacts ==
  ASSUME WebInv, NEW o, NEW stage \in {"none", "queued", "admitted", "ran", "dropped"},
         job' = [job EXCEPT ![o].stage = stage]
  PROVE  job' \in [Ops -> Operation] /\ FailedAreCancelled'
<1>1. job \in [Ops -> Operation] /\ FailedAreCancelled
  BY DEF WebInv, WebTypeOK
<1>2. ASSUME NEW p \in Ops
      PROVE  job'[p] \in Operation /\ (job'[p].failed => job'[p].cancelled)
  <2>1. job[p] \in Operation /\ (job[p].failed => job[p].cancelled)
    BY <1>1 DEF FailedAreCancelled
  <2>2. job'[p] = IF p = o THEN [job[p] EXCEPT !.stage = stage] ELSE job[p]
    BY <1>1
  <2>3. QED BY <2>1, <2>2 DEF Operation
<1>3. job' \in [Ops -> Operation]
  BY <1>1, <1>2
<1>4. QED BY <1>2, <1>3 DEF FailedAreCancelled

\* The callback of an operation changes one generation, as its owner does.
LEMMA ExecuteFacts ==
  ASSUME WebInv, NEW o \in Ops, Execute(o)
  PROVE  /\ job' \in [Ops -> Operation] /\ FailedAreCancelled'
         /\ gen' = [g \in Gens |-> gen'[g]] /\ \A g \in Gens : Follows(gen[g], gen'[g])
<1> DEFINE g == job[o].gen
<1>1. WebTypeOK /\ GenerationsInv
  BY DEF WebInv
<1>2. CASE job[o].view = Nobody /\ gen' = gen
              /\ job' = [job EXCEPT ![o].stage = IF PageUp(g) THEN "ran" ELSE "dropped"]
  <2> DEFINE stage == IF PageUp(g) THEN "ran" ELSE "dropped"
  <2>1. stage \in {"none", "queued", "admitted", "ran", "dropped"}
    OBVIOUS
  <2>2. job' = [job EXCEPT ![o].stage = stage]
    BY <1>2
  <2> HIDE DEF stage
  <2>3. job' \in [Ops -> Operation] /\ FailedAreCancelled'
    BY <2>1, <2>2, StageFacts
  <2>4. QED BY <1>1, <1>2, <2>3, NoneChanges
<1>3. ASSUME NEW starts \in BOOLEAN,
             gen' = [gen EXCEPT ![g] = Detached(gen[g], job[o].view, starts)],
             job' = [job EXCEPT ![o].stage = "ran"]
      PROVE  /\ job' \in [Ops -> Operation] /\ FailedAreCancelled'
             /\ gen' = [h \in Gens |-> gen'[h]]
             /\ \A h \in Gens : Follows(gen[h], gen'[h])
  <2>1. job' \in [Ops -> Operation] /\ FailedAreCancelled'
    BY <1>3, StageFacts
  <2>2. g \in Gens => Follows(gen[g], Detached(gen[g], job[o].view, starts))
    BY <1>1, DetachedFollows DEF WebTypeOK, GenerationsInv
  <2>3. /\ gen' = [h \in Gens |-> gen'[h]]
        /\ \A h \in Gens : Follows(gen[h], gen'[h])
    BY <1>1, <1>3, <2>2, OneFollows
  <2>4. QED BY <2>1, <2>3
<1>4. CASE job[o].view = Nobody
  BY <1>2, <1>4 DEF Execute
<1>5. CASE job[o].view # Nobody
  <2>1. PICK starts \in BOOLEAN :
           /\ gen' = [gen EXCEPT ![g] = Detached(gen[g], job[o].view, starts)]
           /\ job' = [job EXCEPT ![o].stage = "ran"]
    BY <1>5 DEF Execute
  <2>2. QED BY <1>3, <2>1
<1>6. QED BY <1>4, <1>5

\* The queue of a generation is the owner's and the callers' business alone.
LEMMA QueueFollows ==
  ASSUME NEW a \in Generation, GenerationOf(a), NEW queue \in Seq(Ops)
  PROVE  Follows(a, [a EXCEPT !.ops = queue])
BY DEF Follows, Generation, GenerationOf

\* invoke(): refused, run on the spot, or queued for the owner thread.
LEMMA InvokeKeeps ==
  ASSUME WebInv, NEW t \in Threads, Invoke(t)
  PROVE  WebInv'
<1> DEFINE g == th[t].target
           o == th[t].op
<1>1. /\ th[t].pc = "invoke" /\ g \in 1 .. made /\ o \in Ops /\ th[t].then = "idle"
      /\ g \in Gens /\ WebTypeOK /\ GenerationsInv
  BY WebViewHostAssumption
     DEF Invoke, At, WebInv, WebTypeOK, ThreadsInv, ThreadOf, Gens, MaxGenerations
<1>2. /\ slot' = slot /\ made' = made /\ attaches' = attaches /\ stopping' = stopping
      /\ called' = called /\ mail' = mail
  BY HostSame DEF Invoke
<1>3. mail' \in [Threads -> Seq(Message)]
  BY <1>1, <1>2 DEF WebTypeOK
<1>4. CASE Fail(t) /\ gen' = gen
  BY <1>1, <1>2, <1>4, FailFacts, FinishKeeps, NoneChanges
<1>5. CASE Execute(o) /\ Finish(t)
  BY <1>1, <1>2, <1>5, ExecuteFacts, FinishKeeps
<1>6. CASE /\ gen' = [gen EXCEPT ![g].ops = Append(@, o)]
           /\ job' = [job EXCEPT ![o].stage = "queued"] /\ Goto(t, "send")
  <2> DEFINE r == [gen[g] EXCEPT !.ops = Append(@, o)]
  <2>1. job' \in [Ops -> Operation] /\ FailedAreCancelled'
    BY <1>6, StageFacts
  <2>2. gen[g] \in Generation /\ GenerationOf(gen[g])
    BY <1>1 DEF WebTypeOK, GenerationsInv
  <2>3. Append(gen[g].ops, o) \in Seq(Ops)
    BY <1>1, <2>2 DEF Generation
  <2>4. Follows(gen[g], r)
    BY <2>2, <2>3, QueueFollows
  <2>5. gen' = [gen EXCEPT ![g] = r]
    BY <1>1, <1>6 DEF WebTypeOK
  <2> HIDE DEF r
  <2>6. /\ gen' = [h \in Gens |-> gen'[h]]
        /\ \A h \in Gens : Follows(gen[h], gen'[h])
    BY <1>1, <2>4, <2>5, OneFollows
  <2>7. Fits(t, "send")
    BY <1>1 DEF Fits, Labels
  <2>8. QED BY <1>2, <1>3, <1>6, <2>1, <2>6, <2>7, GotoKeeps
<1>7. QED BY <1>4, <1>5, <1>6 DEF Invoke

\* A letter for a thread.
LEMMA LetterFacts ==
  ASSUME WebInv, NEW g \in Gens, NEW command \in {"invoke", "release"},
         NEW from \in Threads \cup {Nobody}, NEW o \in 0 .. MaxOps, NEW u,
         mail' = [mail EXCEPT ![u] = Append(@, Letter(g, command, from, o))]
  PROVE  mail' \in [Threads -> Seq(Message)]
<1>1. Letter(g, command, from, o) \in Message
  BY DEF Letter, Message
<1>2. mail \in [Threads -> Seq(Message)]
  BY DEF WebInv, WebTypeOK
<1>3. \A v \in Threads : Append(mail[v], Letter(g, command, from, o)) \in Seq(Message)
  BY <1>1, <1>2
<1>4. QED BY <1>2, <1>3

\* sendBounded().
LEMMA SendKeeps ==
  ASSUME WebInv, NEW t \in Threads, Send(t)
  PROVE  WebInv'
<1> DEFINE g == th[t].target
<1>0. th[t].pc = "send" /\ ThreadOf(t)
  BY DEF Send, At, WebInv, ThreadsInv
<1>1. /\ th[t].pc = "send" /\ g \in 1 .. made /\ th[t].op \in Ops /\ th[t].then = "idle"
      /\ g \in Gens /\ WebTypeOK /\ GenerationsInv
  BY <1>0, WebViewHostAssumption
     DEF WebInv, WebTypeOK, ThreadOf, Gens, MaxGenerations
<1>2. /\ slot' = slot /\ made' = made /\ attaches' = attaches /\ stopping' = stopping
      /\ called' = called /\ gen' = gen
  BY HostSame DEF Send
<1>3. /\ gen' = [h \in Gens |-> gen'[h]] /\ \A h \in Gens : Follows(gen[h], gen'[h])
  BY <1>1, <1>2, NoneChanges
<1>4. CASE /\ mail' = [mail EXCEPT ![gen[g].thread] =
                         Append(@, Letter(g, "invoke", t, th[t].op))]
           /\ Goto(t, "sent") /\ job' = job
  <2>1. th[t].op \in 0 .. MaxOps
    BY <1>1 DEF Ops
  <2>2. mail' \in [Threads -> Seq(Message)]
    BY <1>1, <1>4, <2>1, LetterFacts
  <2>3. Fits(t, "sent")
    BY <1>1 DEF Fits, Labels
  <2>4. QED BY <1>2, <1>3, <1>4, <2>2, <2>3, OperationsSame, GotoKeeps
<1>5. CASE Fail(t) /\ mail' = mail
  BY <1>1, <1>2, <1>3, <1>5, FailFacts, FinishKeeps
<1>6. QED BY <1>4, <1>5 DEF Send

\* What comes after the bounded wait for a retirement.
LEMMA ThenFits ==
  ASSUME WebInv, NEW t \in Threads, th[t].pc = "sent", th[t].then # "idle"
  PROVE  th[t].then = "create" /\ Fits(t, th[t].then)
<1>1. th[t].then = "create"
  BY DEF WebInv, ThreadsInv, ThreadOf
<1>2. Making(th[t])
  BY <1>1 DEF Making
<1>3. QED BY <1>1, <1>2 DEF Fits, Labels

\* A call goes on behind its wait, or ends there.
LEMMA GoOnKeeps ==
  ASSUME WebInv, NEW t \in Threads, th[t].pc = "sent", Goto(t, th[t].then),
         slot' = slot, made' = made, attaches' = attaches, stopping' = stopping,
         called' = called, gen' = gen, job' = job, mail' \in [Threads -> Seq(Message)]
  PROVE  WebInv'
<1>1. /\ job' \in [Ops -> Operation] /\ FailedAreCancelled'
      /\ gen' = [h \in Gens |-> gen'[h]] /\ \A h \in Gens : Follows(gen[h], gen'[h])
  BY OperationsSame, NoneChanges DEF WebInv
<1>2. CASE th[t].then # "idle"
  BY <1>1, <1>2, ThenFits, GotoKeeps
<1>3. CASE th[t].then = "idle"
  <2>1. th' = [th EXCEPT ![t] = AtRest] /\ th'[t] = AtRest
    BY <1>3 DEF Goto, Become, WebInv, WebTypeOK
  <2>2. ThreadOf(t)'
    BY <2>1, AtRestFacts DEF ThreadOf
  <2>3. stopping' \in BOOLEAN /\ called' \in 0 .. MaxOps
    BY DEF WebInv, WebTypeOK
  <2>4. QED BY <1>1, <2>1, <2>2, <2>3, AtRestFacts, MoveKeeps
<1>4. QED BY <1>2, <1>3

\* The answer has come.
LEMMA AnsweredKeeps ==
  ASSUME WebInv, NEW t \in Threads, Answered(t)
  PROVE  WebInv'
<1>1. /\ th[t].pc = "sent" /\ WebTypeOK /\ GenerationsInv
  BY DEF Answered, At, WebInv
<1>2. /\ slot' = slot /\ made' = made /\ attaches' = attaches /\ stopping' = stopping
      /\ called' = called /\ gen' = gen /\ mail' = mail
  BY HostSame DEF Answered
<1>3. /\ gen' = [h \in Gens |-> gen'[h]] /\ \A h \in Gens : Follows(gen[h], gen'[h])
      /\ mail' \in [Threads -> Seq(Message)]
  BY <1>1, <1>2, NoneChanges DEF WebTypeOK
<1>4. CASE Goto(t, th[t].then) /\ job' = job
  BY <1>1, <1>2, <1>3, <1>4, GoOnKeeps
<1>5. CASE Finish(t) /\ job' = job
  BY <1>1, <1>2, <1>3, <1>5, OperationsSame, FinishKeeps
<1>6. CASE Fail(t)
  BY <1>1, <1>2, <1>3, <1>6, FailFacts, FinishKeeps
<1>7. QED BY <1>4, <1>5, <1>6 DEF Answered

\* The second is over.
LEMMA TimeOutKeeps ==
  ASSUME WebInv, NEW t \in Threads, TimeOut(t)
  PROVE  WebInv'
<1> DEFINE g == th[t].target
<1>1. /\ th[t].pc = "sent" /\ g \in 1 .. made /\ g \in Gens /\ WebTypeOK /\ GenerationsInv
  BY WebViewHostAssumption
     DEF TimeOut, At, WebInv, WebTypeOK, ThreadsInv, ThreadOf, Gens, MaxGenerations
<1>2. /\ slot' = slot /\ made' = made /\ attaches' = attaches /\ stopping' = stopping
      /\ called' = called /\ gen' = gen
  BY HostSame DEF TimeOut
<1>3. CASE Fail(t) /\ mail' = mail
  <2>1. /\ gen' = [h \in Gens |-> gen'[h]] /\ \A h \in Gens : Follows(gen[h], gen'[h])
    BY <1>1, <1>2, NoneChanges
  <2>2. QED BY <1>1, <1>2, <1>3, <2>1, FailFacts, FinishKeeps
<1>4. CASE /\ Goto(t, th[t].then) /\ job' = job
           /\ mail' = IF gen[g].open
                      THEN [mail EXCEPT ![gen[g].thread] =
                              Append(@, Letter(g, "release", Nobody, 0))]
                      ELSE mail
  <2>1. 0 \in 0 .. MaxOps
    BY WebViewHostAssumption
  <2>2. mail' \in [Threads -> Seq(Message)]
    BY <1>1, <1>4, <2>1, LetterFacts DEF WebTypeOK
  <2>3. QED BY <1>1, <1>2, <1>4, <2>2, GoOnKeeps
<1>5. QED BY <1>3, <1>4 DEF TimeOut

\* detach() and evaluate() of any thread.
LEMMA CallKeeps ==
  ASSUME WebInv, NEW t \in Threads, NEW v \in Views \cup {Nobody}, Call(t, v)
  PROVE  WebInv'
<1> DEFINE o == called + 1
           rec == [AtRest EXCEPT !.pc = "invoke", !.target = slot, !.op = o]
<1>1. /\ th[t].pc = "idle" /\ slot \in 1 .. made /\ o \in Ops /\ o \in 0 .. MaxOps
      /\ slot \in 0 .. MaxGenerations /\ WebTypeOK /\ GenerationsInv
  BY WebViewHostAssumption DEF Call, At, WebInv, WebTypeOK, Ops, MaxGenerations
<1>2. /\ slot' = slot /\ made' = made /\ attaches' = attaches /\ stopping' = stopping
      /\ called' = o /\ gen' = gen /\ mail' = mail
      /\ job' = [job EXCEPT ![o].view = v, ![o].gen = slot]
  BY DEF Call
<1>3. /\ gen' = [h \in Gens |-> gen'[h]] /\ \A h \in Gens : Follows(gen[h], gen'[h])
      /\ mail' \in [Threads -> Seq(Message)] /\ stopping' \in BOOLEAN
  BY <1>1, <1>2, NoneChanges DEF WebTypeOK
<1>4. job' \in [Ops -> Operation] /\ FailedAreCancelled'
  <2>1. job \in [Ops -> Operation] /\ FailedAreCancelled
    BY DEF WebInv, WebTypeOK
  <2>2. ASSUME NEW p \in Ops
        PROVE  job'[p] \in Operation /\ (job'[p].failed => job'[p].cancelled)
    <3>1. job[p] \in Operation /\ (job[p].failed => job[p].cancelled)
      BY <2>1 DEF FailedAreCancelled
    <3>2. job'[p] = IF p = o THEN [job[p] EXCEPT !.view = v, !.gen = slot] ELSE job[p]
      BY <1>1, <1>2, <2>1 DEF Operation
    <3>3. QED BY <1>1, <3>1, <3>2 DEF Operation
  <2>3. job' \in [Ops -> Operation]
    BY <1>2, <2>1, <2>2
  <2>4. QED BY <2>2, <2>3 DEF FailedAreCancelled
<1>5. /\ rec \in Thread /\ rec.pc = "invoke" /\ rec.target = slot /\ rec.op = o
      /\ rec.then = "idle"
  BY <1>1, AtRestFacts DEF Thread, Labels
<1>6. th' = [th EXCEPT ![t] = rec]
  BY DEF Call, Become
<1> HIDE DEF rec
<1>7. th'[t] = rec
  BY <1>1, <1>6 DEF WebTypeOK
<1>8. ThreadOf(t)' /\ ~Making(rec)
  BY <1>1, <1>2, <1>5, <1>7 DEF ThreadOf, Making
<1>9. QED BY <1>1, <1>2, <1>3, <1>4, <1>5, <1>6, <1>8, MoveKeeps

\* terminate().
LEMMA ShutdownKeeps ==
  ASSUME WebInv, NEW t \in Threads, Shutdown(t)
  PROVE  WebInv'
<1> DEFINE rec == [AtRest EXCEPT !.pc = "shut"]
<1>1. th[t].pc = "idle" /\ WebTypeOK /\ GenerationsInv
  BY DEF Shutdown, At, WebInv
<1>2. /\ slot' = slot /\ made' = made /\ attaches' = attaches /\ stopping' = TRUE
      /\ called' = called /\ gen' = gen /\ mail' = mail /\ job' = job
  BY DEF Shutdown
<1>3. /\ gen' = [h \in Gens |-> gen'[h]] /\ \A h \in Gens : Follows(gen[h], gen'[h])
      /\ mail' \in [Threads -> Seq(Message)] /\ stopping' \in BOOLEAN
      /\ called' \in 0 .. MaxOps
      /\ job' \in [Ops -> Operation] /\ FailedAreCancelled'
  BY <1>1, <1>2, NoneChanges, OperationsSame DEF WebTypeOK
<1>4. rec \in Thread /\ rec.pc = "shut" /\ rec.then = "idle"
  BY AtRestFacts DEF Thread, Labels
<1>5. th' = [th EXCEPT ![t] = rec]
  BY DEF Shutdown, Become
<1> HIDE DEF rec
<1>6. th'[t] = rec
  BY <1>1, <1>5 DEF WebTypeOK
<1>7. ThreadOf(t)' /\ ~Making(rec)
  BY <1>4, <1>6 DEF ThreadOf, Making
<1>8. QED BY <1>1, <1>2, <1>3, <1>4, <1>5, <1>7, MoveKeeps

\* A callback of the web view, or the timer, on a generation that is in use.
LEMMA CallbackKeeps ==
  ASSUME WebInv, NEW g \in Gens, ViewReady(g) \/ ViewFails(g) \/ Tick(g)
  PROVE  WebInv'
<1>1. WebTypeOK /\ GenerationsInv /\ gen[g] \in Generation /\ GenerationOf(gen[g])
  BY DEF WebInv, WebTypeOK, GenerationsInv
<1>2. /\ UNCHANGED hostVars /\ UNCHANGED <<job, mail, th>>
      /\ \E r : Follows(gen[g], r) /\ gen' = [gen EXCEPT ![g] = r]
  <2>1. CASE ViewReady(g)
    <3> DEFINE r == [gen[g] EXCEPT !.web = "ready", !.status = "ready",
                                   !.diag = FALSE, !.watch = FALSE]
    <3>1. Follows(gen[g], r)
      BY <1>1 DEF Follows, Generation, GenerationOf
    <3>2. gen' = [gen EXCEPT ![g] = r]
      BY <1>1, <2>1 DEF ViewReady, WebTypeOK, Generation
    <3>3. QED BY <2>1, <3>1, <3>2 DEF ViewReady
  <2>2. CASE ViewFails(g)
    <3> DEFINE d == gen[g].owner # Nobody
               r == [gen[g] EXCEPT !.status = "unavailable", !.watch = FALSE, !.diag = d]
    <3>1. gen[g].web = "starting" /\ d \in BOOLEAN
      BY <2>2 DEF ViewFails
    <3>2. gen' = [gen EXCEPT ![g] = r]
      BY <1>1, <2>2 DEF ViewFails, WebTypeOK, Generation
    <3> HIDE DEF d
    <3>3. Follows(gen[g], r)
      BY <1>1, <3>1 DEF Follows, Generation, GenerationOf
    <3>4. QED BY <2>2, <3>2, <3>3 DEF ViewFails
  <2>3. CASE Tick(g)
    <3>1. PICK late \in BOOLEAN : gen' = [gen EXCEPT ![g] = Ticked(gen[g], late)]
      BY <2>3 DEF Tick
    <3>2. Follows(gen[g], Ticked(gen[g], late))
      BY <1>1, TickedFollows
    <3>3. QED BY <2>3, <3>1, <3>2 DEF Tick
  <2>4. QED BY <2>1, <2>2, <2>3
<1>3. PICK r : Follows(gen[g], r) /\ gen' = [gen EXCEPT ![g] = r]
  BY <1>2
<1>4. /\ gen' = [h \in Gens |-> gen'[h]] /\ \A h \in Gens : Follows(gen[h], gen'[h])
  BY <1>1, <1>3, OneFollows
<1>5. /\ slot' = slot /\ made' = made /\ attaches' = attaches /\ stopping' = stopping
      /\ called' = called /\ mail' = mail /\ job' = job /\ th' = th
  BY <1>2, HostSame
<1>6. /\ job' \in [Ops -> Operation] /\ FailedAreCancelled'
      /\ mail' \in [Threads -> Seq(Message)] /\ th' \in [Threads -> Thread]
      /\ stopping' \in BOOLEAN /\ called' \in 0 .. MaxOps
  BY <1>1, <1>5, OperationsSame DEF WebTypeOK
<1>7. ThreadsInv'
  <2>1. 1 .. made \subseteq Gens
    BY <1>1, WebViewHostAssumption DEF WebTypeOK, Gens, MaxGenerations
  <2>2. \A h \in 1 .. made : gen'[h].thread = gen[h].thread
    BY <1>4, <2>1 DEF Follows
  <2>3. ASSUME NEW t \in Threads PROVE ThreadOf(t)'
    <3>1. ThreadOf(t)
      BY DEF WebInv, ThreadsInv
    <3>2. QED BY <1>5, <2>2, <3>1 DEF ThreadOf
  <2>4. QED BY <2>3 DEF ThreadsInv
<1>8. QED BY <1>4, <1>5, <1>6, <1>7, OrdinaryKeeps DEF Ordinary

\* What a thread is told leaves it where it waits.
Told(a, b) ==
  /\ b \in Thread /\ b.pc = a.pc /\ b.then = a.then /\ b.target = a.target
  /\ b.op = a.op /\ b.batch = a.batch /\ b.message = a.message

LEMMA AnswerFacts ==
  ASSUME NEW f \in [Threads -> Thread], NEW m \in Message, NEW a \in {"done", "refused"}
  PROVE  /\ AnswerTo(f, m, a) \in [Threads -> Thread]
         /\ \A u \in Threads : Told(f[u], AnswerTo(f, m, a)[u])
<1> DEFINE h == AnswerTo(f, m, a)
<1>1. \A u \in Threads : Told(f[u], f[u])
  BY DEF Told
<1>2. \/ h = f
      \/ m.from \in Threads /\ h = [f EXCEPT ![m.from].answer = a]
  BY DEF AnswerTo, Message
<1>3. CASE h = f
  BY <1>1, <1>3
<1>4. CASE m.from \in Threads /\ h = [f EXCEPT ![m.from].answer = a]
  <2> HIDE DEF h
  <2>1. ASSUME NEW u \in Threads PROVE Told(f[u], h[u])
    <3>1. h[u] = IF u = m.from THEN [f[u] EXCEPT !.answer = a] ELSE f[u]
      BY <1>4
    <3>2. QED BY <3>1 DEF Told, Thread
  <2>2. h \in [Threads -> Thread]
    BY <1>4, <2>1 DEF Told
  <2>3. QED BY <2>1, <2>2 DEF h
<1>5. QED BY <1>2, <1>3, <1>4

\* A step of one thread that another thread is told of.
LEMMA TellKeeps ==
  ASSUME WebInv, NEW t \in Threads, th[t].pc \notin {"retire", "publish"},
         th' \in [Threads -> Thread], th'[t].pc = "idle", th'[t].then = "idle",
         \A u \in Threads \ {t} : Told(th[u], th'[u]),
         slot' = slot, made' = made, attaches' = attaches, stopping' \in BOOLEAN,
         called' \in 0 .. MaxOps,
         gen' = [g \in Gens |-> gen'[g]], \A g \in Gens : Follows(gen[g], gen'[g]),
         job' \in [Ops -> Operation], FailedAreCancelled',
         mail' \in [Threads -> Seq(Message)]
  PROVE  WebInv'
<1>1. 1 .. made \subseteq Gens
  BY WebViewHostAssumption DEF WebInv, WebTypeOK, Gens, MaxGenerations
<1>2. ASSUME NEW u \in Threads PROVE ThreadOf(u)'
  <2>1. CASE u = t
    BY <2>1 DEF ThreadOf
  <2>2. CASE u # t
    <3>1. ThreadOf(u) /\ Told(th[u], th'[u])
      BY <2>2 DEF WebInv, ThreadsInv
    <3>2. \A g \in 1 .. made : gen'[g].thread = gen[g].thread
      BY <1>1 DEF Follows
    <3>3. QED BY <3>1, <3>2 DEF ThreadOf, Told
  <2>3. QED BY <2>1, <2>2
<1>3. ThreadsInv'
  BY <1>2 DEF ThreadsInv
<1>4. ASSUME NEW u \in Threads
      PROVE  /\ Making(th'[u]) => Making(th[u])
             /\ th[u].pc \in {"retire", "publish"} =>
                  th'[u].pc = th[u].pc /\ th'[u].target = th[u].target
  <2>1. CASE u = t
    BY <2>1 DEF Making
  <2>2. CASE u # t
    BY <2>2 DEF Making, Told
  <2>3. QED BY <2>1, <2>2
<1>5. Ordinary
  BY <1>3, <1>4 DEF Ordinary
<1>6. QED BY <1>5, OrdinaryKeeps

\* The message loop takes the next message.
LEMMA PumpKeeps ==
  ASSUME WebInv, NEW t \in Threads, Pump(t)
  PROVE  WebInv'
<1> DEFINE queue == mail[t]
           m == Head(queue)
           g == m.gen
<1>1. /\ WebTypeOK /\ GenerationsInv /\ th[t].pc = "idle" /\ th[t].then \in {"idle", "create"}
      /\ queue \in Seq(Message) /\ queue # <<>>
  BY DEF Pump, At, WebInv, WebTypeOK, ThreadsInv, ThreadOf
<1>2. /\ m \in Message /\ Tail(queue) \in Seq(Message)
      /\ mail' = [mail EXCEPT ![t] = Tail(queue)]
  BY <1>1, HeadTailProperties DEF Pump
<1>3. mail' \in [Threads -> Seq(Message)]
  BY <1>1, <1>2 DEF WebTypeOK
<1>4. /\ slot' = slot /\ made' = made /\ attaches' = attaches /\ stopping' = stopping
      /\ called' = called /\ job' = job
      /\ job' \in [Ops -> Operation] /\ FailedAreCancelled'
      /\ stopping' \in BOOLEAN /\ called' \in 0 .. MaxOps
  BY <1>1, HostSame, OperationsSame DEF Pump, WebTypeOK
<1> HIDE DEF m
<1>5. g \in Gens /\ gen[g] \in Generation /\ GenerationOf(gen[g]) /\ th \in [Threads -> Thread]
  BY <1>1, <1>2 DEF Message, WebTypeOK, GenerationsInv
<1>6. ASSUME NEW a \in {"done", "refused"}, th' = AnswerTo(th, m, a),
             gen' = [h \in Gens |-> gen'[h]], \A h \in Gens : Follows(gen[h], gen'[h])
      PROVE  WebInv'
  <2>1. th' \in [Threads -> Thread] /\ \A u \in Threads : Told(th[u], th'[u])
    BY <1>2, <1>5, <1>6, AnswerFacts
  <2>2. ThreadsInv'
    <3>1. 1 .. made \subseteq Gens
      BY <1>1, WebViewHostAssumption DEF WebTypeOK, Gens, MaxGenerations
    <3>2. \A h \in 1 .. made : gen'[h].thread = gen[h].thread
      BY <1>6, <3>1 DEF Follows
    <3>3. ASSUME NEW u \in Threads PROVE ThreadOf(u)'
      <4>1. ThreadOf(u) /\ Told(th[u], th'[u])
        BY <2>1 DEF WebInv, ThreadsInv
      <4>2. QED BY <1>4, <3>2, <4>1 DEF ThreadOf, Told
    <3>4. QED BY <3>3 DEF ThreadsInv
  <2>3. \A u \in Threads : /\ Making(th'[u]) => Making(th[u])
                           /\ th'[u].pc = th[u].pc /\ th'[u].target = th[u].target
    BY <2>1 DEF Making, Told
  <2>4. Ordinary
    BY <1>3, <1>4, <1>6, <2>1, <2>2, <2>3 DEF Ordinary
  <2>5. QED BY <2>4, OrdinaryKeeps
<1>7. CASE th' = AnswerTo(th, m, "refused") /\ gen' = gen
  BY <1>1, <1>6, <1>7, NoneChanges
<1>8. CASE gen' = [gen EXCEPT ![g] = Released(@)] /\ th' = AnswerTo(th, m, "done")
  <2>1. Follows(gen[g], Released(gen[g]))
    BY <1>5, ReleasedFrees DEF Frees
  <2>2. gen' = [gen EXCEPT ![g] = Released(gen[g])]
    BY <1>8
  <2>3. /\ gen' = [h \in Gens |-> gen'[h]]
        /\ \A h \in Gens : Follows(gen[h], gen'[h])
    BY <1>1, <2>1, <2>2, OneFollows
  <2>4. QED BY <1>6, <1>8, <2>3
<1>9. CASE /\ gen' = [gen EXCEPT ![g].ops = <<>>]
            /\ Become(t, [AtRest EXCEPT !.pc = "drain", !.batch = gen[g].ops, !.message = m])
  <2> DEFINE rec == [AtRest EXCEPT !.pc = "drain", !.batch = gen[g].ops, !.message = m]
             r == [gen[g] EXCEPT !.ops = <<>>]
  <2>1. Follows(gen[g], r)
    <3>1. <<>> \in Seq(Ops)
      OBVIOUS
    <3>2. QED BY <1>5, <3>1, QueueFollows
  <2>2. gen' = [gen EXCEPT ![g] = r]
    BY <1>1, <1>5, <1>9 DEF WebTypeOK
  <2> HIDE DEF r
  <2>3. /\ gen' = [h \in Gens |-> gen'[h]]
        /\ \A h \in Gens : Follows(gen[h], gen'[h])
    BY <1>1, <2>1, <2>2, OneFollows
  <2>4. gen[g].ops \in Seq(Ops)
    BY <1>5 DEF Generation
  <2>5. /\ rec \in Thread /\ rec.pc = "drain" /\ rec.message = m /\ rec.then = "idle"
    BY <1>2, <2>4, AtRestFacts DEF Thread, Labels
  <2>6. th' = [th EXCEPT ![t] = rec]
    BY <1>9 DEF Become
  <2> HIDE DEF rec
  <2>7. th'[t] = rec
    BY <1>5, <2>6
  <2>8. ThreadOf(t)' /\ ~Making(rec)
    BY <1>2, <2>5, <2>7 DEF ThreadOf, Making
  <2>9. QED BY <1>1, <1>3, <1>4, <2>3, <2>5, <2>6, <2>8, MoveKeeps
<1>10. QED BY <1>7, <1>8, <1>9 DEF Pump, m

\* The owner thread goes through the operations it has taken.
LEMMA DrainNextKeeps ==
  ASSUME WebInv, NEW t \in Threads, DrainNext(t)
  PROVE  WebInv'
<1> DEFINE b == th[t].batch
<1>1. /\ WebTypeOK /\ GenerationsInv /\ th[t].pc = "drain" /\ th[t] \in Thread
      /\ b \in Seq(Ops) /\ th[t].message \in Message /\ th[t].then \in {"idle", "create"}
  BY DEF DrainNext, At, WebInv, WebTypeOK, ThreadsInv, ThreadOf, Thread
<1>2. /\ slot' = slot /\ made' = made /\ attaches' = attaches /\ stopping' = stopping
      /\ called' = called /\ gen' = gen /\ mail' = mail
  BY HostSame DEF DrainNext
<1>3. /\ gen' = [h \in Gens |-> gen'[h]] /\ \A h \in Gens : Follows(gen[h], gen'[h])
      /\ mail' \in [Threads -> Seq(Message)]
      /\ stopping' \in BOOLEAN /\ called' \in 0 .. MaxOps
  BY <1>1, <1>2, NoneChanges DEF WebTypeOK
<1>4. CASE b = <<>>
  <2> DEFINE f == [th EXCEPT ![t] = AtRest]
  <2>1. f \in [Threads -> Thread] /\ f[t] = AtRest /\ \A u \in Threads \ {t} : f[u] = th[u]
    BY <1>1, AtRestFacts DEF WebTypeOK
  <2>2. job' = job /\ th' = AnswerTo(f, th[t].message, "done")
    BY <1>4 DEF DrainNext
  <2> HIDE DEF f
  <2>3. th' \in [Threads -> Thread] /\ \A u \in Threads : Told(f[u], th'[u])
    BY <1>1, <2>1, <2>2, AnswerFacts
  <2>4. th'[t].pc = "idle" /\ th'[t].then = "idle"
    BY <2>1, <2>3, AtRestFacts DEF Told
  <2>5. \A u \in Threads \ {t} : Told(th[u], th'[u])
    BY <2>1, <2>3
  <2>6. job' \in [Ops -> Operation] /\ FailedAreCancelled'
    BY <2>2, OperationsSame
  <2>7. QED BY <1>1, <1>2, <1>3, <2>3, <2>4, <2>5, <2>6, TellKeeps
<1>5. CASE b # <<>> /\ Skipped(Head(b))
  <2> DEFINE rec == [th[t] EXCEPT !.batch = Tail(b)]
  <2>1. job' \in [Ops -> Operation] /\ FailedAreCancelled'
    BY <1>5, StageFacts DEF DrainNext
  <2>2. Tail(b) \in Seq(Ops)
    BY <1>1, <1>5, HeadTailProperties
  <2>3. /\ rec \in Thread /\ rec.pc = "drain" /\ rec.message = th[t].message
        /\ rec.then = th[t].then
    BY <1>1, <2>2 DEF Thread
  <2>4. th' = [th EXCEPT ![t] = rec]
    BY <1>5 DEF DrainNext, Become
  <2> HIDE DEF rec
  <2>5. th'[t] = rec
    BY <1>1, <2>4 DEF WebTypeOK
  <2>6. ThreadOf(t)' /\ ~Making(rec)
    BY <1>1, <2>3, <2>5 DEF ThreadOf, Making
  <2>7. QED BY <1>1, <1>2, <1>3, <2>1, <2>3, <2>4, <2>6, MoveKeeps
<1>6. CASE b # <<>> /\ ~Skipped(Head(b))
  <2>1. job' \in [Ops -> Operation] /\ FailedAreCancelled' /\ Goto(t, "run")
    BY <1>6, StageFacts DEF DrainNext
  <2>2. Fits(t, "run")
    BY <1>1, <1>6 DEF Fits, Labels
  <2>3. QED BY <1>2, <1>3, <2>1, <2>2, GotoKeeps
<1>7. QED BY <1>4, <1>5, <1>6

LEMMA DrainRunKeeps ==
  ASSUME WebInv, NEW t \in Threads, DrainRun(t)
  PROVE  WebInv'
<1> DEFINE b == th[t].batch
           rec == [th[t] EXCEPT !.pc = "drain", !.batch = Tail(b)]
<1>1. /\ WebTypeOK /\ GenerationsInv /\ th[t].pc = "run" /\ th[t] \in Thread
      /\ b \in Seq(Ops) /\ b # <<>> /\ th[t].message \in Message
      /\ th[t].then \in {"idle", "create"}
  BY DEF DrainRun, At, WebInv, WebTypeOK, ThreadsInv, ThreadOf, Thread
<1>2. /\ slot' = slot /\ made' = made /\ attaches' = attaches /\ stopping' = stopping
      /\ called' = called /\ mail' = mail
      /\ mail' \in [Threads -> Seq(Message)]
      /\ stopping' \in BOOLEAN /\ called' \in 0 .. MaxOps
  BY <1>1, HostSame DEF DrainRun, WebTypeOK
<1>3. Head(b) \in Ops /\ Tail(b) \in Seq(Ops)
  BY <1>1, HeadTailProperties
<1>4. /\ job' \in [Ops -> Operation] /\ FailedAreCancelled'
      /\ gen' = [g \in Gens |-> gen'[g]] /\ \A g \in Gens : Follows(gen[g], gen'[g])
  BY <1>3, ExecuteFacts DEF DrainRun
<1>5. /\ rec \in Thread /\ rec.pc = "drain" /\ rec.message = th[t].message
      /\ rec.then = th[t].then
  BY <1>1, <1>3 DEF Thread, Labels
<1>6. th' = [th EXCEPT ![t] = rec]
  BY DEF DrainRun, Become
<1> HIDE DEF rec
<1>7. th'[t] = rec
  BY <1>1, <1>6 DEF WebTypeOK
<1>8. ThreadOf(t)' /\ ~Making(rec)
  BY <1>1, <1>5, <1>7 DEF ThreadOf, Making
<1>9. QED BY <1>1, <1>2, <1>4, <1>5, <1>6, <1>8, MoveKeeps

\* The slot is emptied by a caller that will retire what was in it.
LEMMA TakenKeeps ==
  ASSUME WebInv, NEW t \in Threads, NEW rec \in Thread, th' = [th EXCEPT ![t] = rec],
         rec.pc = "retire", rec.target = slot, slot \in 1 .. made,
         rec.then \in {"idle", "create"}, Making(rec) => Making(th[t]),
         th[t].pc \in {"take", "shut"}, slot' = 0,
         UNCHANGED <<made, attaches, stopping, called, gen, job, mail>>
  PROVE  WebInv'
<1>1. WebTypeOK /\ GenerationsInv /\ ThreadsInv /\ Accounted /\ Counted
  BY DEF WebInv
<1>2. th'[t] = rec /\ \A u \in Threads \ {t} : th'[u] = th[u]
  BY <1>1 DEF WebTypeOK
<1>3. ThreadOf(t)'
  BY <1>2 DEF ThreadOf
<1>4. made' \in Nat /\ made <= made' /\ 0 \in 0 .. made
  BY <1>1, WebViewHostAssumption DEF WebTypeOK, MaxGenerations
<1>5. ThreadsInv' /\ th' \in [Threads -> Thread]
  BY <1>1, <1>3, <1>4, OneMoves
<1>6. WebTypeOK'
  BY <1>1, <1>4, <1>5 DEF WebTypeOK
<1>7. Counted'
  BY <1>1, <1>2, CountedKeeps
<1>8. ASSUME NEW g \in 1 .. made PROVE AccountedOf(g)'
  <2>1. AccountedOf(g)
    BY <1>1 DEF Accounted
  <2>2. CASE gen[g].retiring
    BY <2>2 DEF AccountedOf
  <2>3. CASE g = slot
    BY <1>2, <2>3 DEF AccountedOf
  <2>4. CASE \E u \in Threads : th[u].pc = "retire" /\ th[u].target = g
    BY <1>2, <2>4 DEF AccountedOf
  <2>5. CASE \E u \in Threads : /\ th[u].pc = "publish" /\ th[u].target = g
                                /\ gen[g].owner = Nobody
    BY <1>2, <2>5 DEF AccountedOf
  <2>6. QED BY <2>1, <2>2, <2>3, <2>4, <2>5 DEF AccountedOf
<1>9. Accounted' /\ GenerationsInv' /\ FailedAreCancelled'
  BY <1>8 DEF Accounted, GenerationsInv, FailedAreCancelled, WebInv
<1>10. QED BY <1>5, <1>6, <1>7, <1>9 DEF WebInv

\* attach() under the lock.
LEMMA TakeGenerationKeeps ==
  ASSUME WebInv, NEW t \in Threads, TakeGeneration(t)
  PROVE  WebInv'
<1>1. /\ WebTypeOK /\ GenerationsInv /\ th[t].pc = "take" /\ th[t] \in Thread
      /\ Making(th[t]) /\ th[t].then \in {"idle", "create"}
      /\ slot \in 0 .. made /\ made \in 0 .. MaxGenerations /\ MaxGenerations \in Nat
  BY WebViewHostAssumption
     DEF TakeGeneration, At, Making, WebInv, WebTypeOK, ThreadsInv, ThreadOf, MaxGenerations
<1>2. UNCHANGED <<stopping, gen, made, job, called, attaches, mail>>
  BY DEF TakeGeneration
<1>3. /\ gen' = [h \in Gens |-> gen'[h]] /\ \A h \in Gens : Follows(gen[h], gen'[h])
      /\ mail' \in [Threads -> Seq(Message)]
      /\ stopping' \in BOOLEAN /\ called' \in 0 .. MaxOps
      /\ job' \in [Ops -> Operation] /\ FailedAreCancelled'
  BY <1>1, <1>2, NoneChanges, OperationsSame DEF WebTypeOK
<1>4. CASE /\ slot # 0 /\ Become(t, [th[t] EXCEPT !.pc = "recheck", !.target = slot])
           /\ slot' = slot
  <2> DEFINE rec == [th[t] EXCEPT !.pc = "recheck", !.target = slot]
  <2>1. slot \in 0 .. MaxGenerations /\ slot \in 1 .. made
    BY <1>1, <1>4
  <2>2. /\ rec \in Thread /\ rec.pc = "recheck" /\ rec.target = slot
        /\ rec.then = th[t].then
    BY <1>1, <2>1 DEF Thread, Labels
  <2>3. th' = [th EXCEPT ![t] = rec]
    BY <1>4 DEF Become
  <2> HIDE DEF rec
  <2>4. th'[t] = rec
    BY <1>1, <2>3 DEF WebTypeOK
  <2>5. ThreadOf(t)' /\ ~Making(rec)
    BY <1>1, <1>2, <2>1, <2>2, <2>4 DEF ThreadOf, Making
  <2>6. QED BY <1>1, <1>2, <1>3, <1>4, <2>2, <2>3, <2>5, MoveKeeps
<1>5. CASE /\ slot # 0 /\ slot' = 0
           /\ Become(t, [th[t] EXCEPT !.pc = "retire", !.target = slot, !.then = "create"])
  <2> DEFINE rec == [th[t] EXCEPT !.pc = "retire", !.target = slot, !.then = "create"]
  <2>1. slot \in 0 .. MaxGenerations /\ slot \in 1 .. made
    BY <1>1, <1>5
  <2>2. /\ rec \in Thread /\ rec.pc = "retire" /\ rec.target = slot /\ rec.then = "create"
    BY <1>1, <2>1 DEF Thread, Labels
  <2>3. th' = [th EXCEPT ![t] = rec]
    BY <1>5 DEF Become
  <2> HIDE DEF rec
  <2>4. QED BY <1>1, <1>2, <1>5, <2>1, <2>2, <2>3, TakenKeeps
<1>6. CASE Goto(t, "create") /\ slot' = slot
  <2>1. Fits(t, "create")
    BY <1>1 DEF Fits, Labels
  <2>2. QED BY <1>2, <1>3, <1>6, <2>1, GotoKeeps
<1>7. QED BY <1>4, <1>5, <1>6 DEF TakeGeneration

\* shutdown() under the lock.
LEMMA ShutdownTakeKeeps ==
  ASSUME WebInv, NEW t \in Threads, ShutdownTake(t)
  PROVE  WebInv'
<1>1. /\ WebTypeOK /\ GenerationsInv /\ th[t].pc = "shut" /\ th[t] \in Thread
      /\ slot \in 0 .. made /\ made \in 0 .. MaxGenerations /\ MaxGenerations \in Nat
  BY WebViewHostAssumption DEF ShutdownTake, At, WebInv, WebTypeOK, MaxGenerations
<1>2. UNCHANGED <<stopping, gen, made, job, called, attaches, mail>> /\ slot' = 0
  BY DEF ShutdownTake
<1>3. /\ gen' = [h \in Gens |-> gen'[h]] /\ \A h \in Gens : Follows(gen[h], gen'[h])
      /\ job' \in [Ops -> Operation] /\ FailedAreCancelled'
  BY <1>1, <1>2, NoneChanges, OperationsSame
<1>4. CASE slot = 0 /\ Finish(t)
  BY <1>1, <1>2, <1>3, <1>4, FinishKeeps
<1>5. CASE /\ slot # 0
           /\ Become(t, [th[t] EXCEPT !.pc = "retire", !.target = slot, !.then = "idle"])
  <2> DEFINE rec == [th[t] EXCEPT !.pc = "retire", !.target = slot, !.then = "idle"]
  <2>1. slot \in 0 .. MaxGenerations /\ slot \in 1 .. made
    BY <1>1, <1>5
  <2>2. /\ rec \in Thread /\ rec.pc = "retire" /\ rec.target = slot /\ rec.then = "idle"
    BY <1>1, <2>1 DEF Thread, Labels
  <2>3. th' = [th EXCEPT ![t] = rec]
    BY <1>5 DEF Become
  <2>4. ~Making(rec)
    BY <2>2 DEF Making
  <2> HIDE DEF rec
  <2>5. QED BY <1>1, <1>2, <1>5, <2>1, <2>2, <2>3, <2>4, TakenKeeps
<1>6. QED BY <1>4, <1>5 DEF ShutdownTake

\* A generation is retired: whoever held it for that lets go of it.
LEMMA RetiredKeeps ==
  ASSUME WebInv, NEW t \in Threads, NEW label \in {"idle", "create", "sent"},
         Goto(t, label), th[t].pc = "retire",
         label \in {"idle", "sent"} \/ th[t].then = label,
         UNCHANGED hostVars,
         gen' = [g \in Gens |-> gen'[g]], \A g \in Gens : Follows(gen[g], gen'[g]),
         gen'[th[t].target].retiring,
         job' \in [Ops -> Operation], FailedAreCancelled',
         mail' \in [Threads -> Seq(Message)]
  PROVE  WebInv'
<1> DEFINE rec == Turned(t, label)
<1>1. /\ WebTypeOK /\ GenerationsInv /\ ThreadsInv /\ Accounted /\ Counted
      /\ th[t].target \in 1 .. made /\ th[t].then \in {"idle", "create"}
      /\ made \in Nat /\ 1 .. made \subseteq Gens
  BY WebViewHostAssumption DEF WebInv, WebTypeOK, ThreadsInv, ThreadOf, Gens, MaxGenerations
<1>2. /\ slot' = slot /\ made' = made /\ attaches' = attaches /\ stopping' = stopping
      /\ called' = called
  BY HostSame
<1>3. label \in Labels
  BY DEF Labels
<1>4. /\ rec \in Thread /\ rec.pc = label /\ th' = [th EXCEPT ![t] = rec]
      /\ label # "idle" => rec.then = th[t].then /\ rec.target = th[t].target
      /\ label = "idle" => rec = AtRest
  BY <1>1, <1>3, TurnedFacts
<1> HIDE DEF rec
<1>5. th'[t] = rec
  BY <1>1, <1>4 DEF WebTypeOK
<1>6. ThreadOf(t)'
  BY <1>1, <1>2, <1>4, <1>5, AtRestFacts DEF ThreadOf
<1>7. /\ \A g \in 1 .. made : gen'[g].thread = gen[g].thread
      /\ made' \in Nat /\ made <= made'
  BY <1>1, <1>2 DEF Follows
<1>8. /\ th' \in [Threads -> Thread] /\ ThreadsInv'
      /\ \A u \in Threads \ {t} : th'[u] = th[u]
  BY <1>1, <1>4, <1>6, <1>7, OneMoves
<1>9. WebTypeOK'
  <2>1. gen' \in [Gens -> Generation]
    BY DEF Follows
  <2>2. QED BY <1>1, <1>2, <1>8, <2>1 DEF WebTypeOK
<1>10. Counted'
  <2>1. Making(rec) => Making(th[t])
    BY <1>4, AtRestFacts DEF Making
  <2>2. \A u \in Threads : Making(th'[u]) => Making(th[u])
    BY <1>5, <1>8, <2>1
  <2>3. QED BY <1>1, <1>2, <2>2, CountedKeeps
<1>11. ASSUME NEW g \in 1 .. made PROVE AccountedOf(g)'
  <2>1. AccountedOf(g) /\ Follows(gen[g], gen'[g])
    BY <1>1 DEF Accounted
  <2>2. CASE gen[g].retiring \/ g = th[t].target
    BY <2>1, <2>2 DEF AccountedOf, Follows
  <2>3. CASE g = slot
    BY <1>2, <2>3 DEF AccountedOf
  <2>4. ASSUME NEW u \in Threads, th[u].pc \in {"retire", "publish"}, th[u].target = g,
               g # th[t].target
        PROVE  th'[u] = th[u]
    BY <1>8, <2>4
  <2>5. CASE /\ g # th[t].target
             /\ \E u \in Threads : th[u].pc = "retire" /\ th[u].target = g
    BY <2>4, <2>5 DEF AccountedOf
  <2>6. CASE /\ g # th[t].target
             /\ \E u \in Threads : /\ th[u].pc = "publish" /\ th[u].target = g
                                   /\ gen[g].owner = Nobody
    BY <2>1, <2>4, <2>6 DEF AccountedOf, Follows
  <2>7. QED BY <2>1, <2>2, <2>3, <2>5, <2>6 DEF AccountedOf
<1>12. Accounted' /\ GenerationsInv'
  BY <1>2, <1>11 DEF Accounted, GenerationsInv, Follows
<1>13. QED BY <1>8, <1>9, <1>10, <1>12 DEF WebInv

\* Cancelling keeps what is known of the operations.
LEMMA CancelFacts ==
  ASSUME WebInv, NEW g, CancelQueued(g)
  PROVE  job' \in [Ops -> Operation] /\ FailedAreCancelled'
<1>1. job \in [Ops -> Operation] /\ FailedAreCancelled
  BY DEF WebInv, WebTypeOK
<1>2. ASSUME NEW o \in Ops
      PROVE  job'[o] \in Operation /\ (job'[o].failed => job'[o].cancelled)
  <2>1. job[o] \in Operation /\ (job[o].failed => job[o].cancelled)
    BY <1>1 DEF FailedAreCancelled
  <2>2. job'[o] \in {job[o], [job[o] EXCEPT !.cancelled = TRUE]}
    BY DEF CancelQueued
  <2>3. QED BY <2>1, <2>2 DEF Operation
<1>3. job' = [o \in Ops |-> job'[o]]
  BY DEF CancelQueued
<1>4. QED BY <1>2, <1>3 DEF FailedAreCancelled

\* retire(): already done, on the owner thread, or from another one.
LEMMA RetireKeeps ==
  ASSUME WebInv, NEW t \in Threads, Retire(t)
  PROVE  WebInv'
<1> DEFINE g == th[t].target
<1>1. /\ WebTypeOK /\ GenerationsInv /\ th[t].pc = "retire" /\ g \in 1 .. made /\ g \in Gens
      /\ th[t].then \in {"idle", "create"} /\ UNCHANGED hostVars
      /\ gen[g] \in Generation /\ GenerationOf(gen[g])
  <2>1. th[t].pc = "retire" /\ ThreadOf(t) /\ UNCHANGED hostVars
    BY DEF Retire, At, WebInv, ThreadsInv
  <2>2. g \in 1 .. made /\ g \in Gens
    BY <2>1, WebViewHostAssumption DEF WebInv, WebTypeOK, ThreadOf, Gens, MaxGenerations
  <2>3. QED BY <2>1, <2>2 DEF ThreadOf, WebInv, WebTypeOK, GenerationsInv
<1>2. CASE gen[g].retiring /\ Goto(t, th[t].then) /\ UNCHANGED <<gen, job, mail>>
  <2>1. /\ gen' = [h \in Gens |-> gen'[h]]
        /\ \A h \in Gens : Follows(gen[h], gen'[h])
    BY <1>1, <1>2, NoneChanges
  <2>2. /\ job' \in [Ops -> Operation] /\ FailedAreCancelled'
        /\ mail' \in [Threads -> Seq(Message)] /\ gen'[g].retiring
    BY <1>1, <1>2, OperationsSame DEF WebTypeOK
  <2>3. QED BY <1>1, <1>2, <2>1, <2>2, RetiredKeeps
<1>3. CASE /\ gen' = [gen EXCEPT ![g] = Released(@)] /\ CancelQueued(g)
           /\ Goto(t, th[t].then) /\ mail' = mail
  <2>1. Frees(gen[g], Released(gen[g]))
    BY <1>1, ReleasedFrees
  <2>2. gen' = [gen EXCEPT ![g] = Released(gen[g])]
    BY <1>3
  <2>3. /\ gen' = [h \in Gens |-> gen'[h]]
        /\ \A h \in Gens : Follows(gen[h], gen'[h])
    BY <1>1, <2>1, <2>2, OneFollows DEF Frees
  <2>4. /\ job' \in [Ops -> Operation] /\ FailedAreCancelled'
        /\ mail' \in [Threads -> Seq(Message)] /\ gen'[g].retiring
    BY <1>1, <1>3, <2>1, <2>2, CancelFacts DEF WebTypeOK, Frees
  <2>5. QED BY <1>1, <1>3, <2>3, <2>4, RetiredKeeps
<1>4. CASE /\ gen' = [gen EXCEPT ![g].retiring = TRUE] /\ CancelQueued(g)
           /\ mail' = [mail EXCEPT ![gen[g].thread] =
                         Append(@, Letter(g, "release", t, 0))]
           /\ Goto(t, "sent")
  <2> DEFINE r == [gen[g] EXCEPT !.retiring = TRUE]
  <2>1. Follows(gen[g], r) /\ r.retiring
    BY <1>1 DEF Follows, Generation, GenerationOf
  <2>2. gen' = [gen EXCEPT ![g] = r]
    BY <1>1, <1>4 DEF WebTypeOK, Generation
  <2> HIDE DEF r
  <2>3. /\ gen' = [h \in Gens |-> gen'[h]]
        /\ \A h \in Gens : Follows(gen[h], gen'[h])
    BY <1>1, <2>1, <2>2, OneFollows
  <2>4. 0 \in 0 .. MaxOps
    BY WebViewHostAssumption
  <2>5. mail' \in [Threads -> Seq(Message)]
    BY <1>1, <1>4, <2>4, LetterFacts
  <2>6. gen'[g].retiring /\ job' \in [Ops -> Operation] /\ FailedAreCancelled'
    BY <1>1, <1>4, <2>1, <2>2, CancelFacts DEF WebTypeOK
  <2>7. QED BY <1>1, <1>4, <2>3, <2>5, <2>6, RetiredKeeps
<1>5. QED BY <1>2, <1>3, <1>4 DEF Retire

\* A call of attach() begins, and is one more that may make a generation.
LEMMA AttachKeeps ==
  ASSUME WebInv, NEW t \in Threads, NEW v \in Views, Attach(t, v)
  PROVE  WebInv'
<1> DEFINE rec == [AtRest EXCEPT !.pc = "take", !.view = v]
<1>1. /\ WebTypeOK /\ GenerationsInv /\ ThreadsInv /\ Accounted /\ Counted
      /\ th[t].pc = "idle" /\ made \in Nat /\ attaches \in Nat
      /\ attaches' = attaches + 1 /\ attaches' \in 0 .. MaxAttaches
  BY WebViewHostAssumption DEF Attach, At, WebInv, WebTypeOK, MaxGenerations
<1>2. UNCHANGED <<slot, stopping, gen, made, job, called, mail>>
  BY DEF Attach
<1>3. rec \in Thread /\ rec.pc = "take" /\ rec.then = "idle"
  BY AtRestFacts DEF Thread, Labels
<1>4. th' = [th EXCEPT ![t] = rec]
  BY DEF Attach, Become
<1> HIDE DEF rec
<1>5. th'[t] = rec /\ \A u \in Threads \ {t} : th'[u] = th[u]
  BY <1>1, <1>4 DEF WebTypeOK
<1>6. ThreadOf(t)'
  BY <1>3, <1>5 DEF ThreadOf
<1>7. ThreadsInv' /\ th' \in [Threads -> Thread]
  <2>1. /\ \A g \in 1 .. made : gen'[g].thread = gen[g].thread
        /\ made' \in Nat /\ made <= made'
    BY <1>1, <1>2
  <2>2. QED BY <1>1, <1>3, <1>4, <1>6, <2>1, OneMoves
<1>8. WebTypeOK'
  BY <1>1, <1>2, <1>7 DEF WebTypeOK
<1>9. Counted'
  <2>1. t \notin Makers /\ Makers' \subseteq Makers \cup {t}
    BY <1>1, <1>5 DEF Makers, Making
  <2>2. IsFiniteSet(Makers \cup {t}) /\ Cardinality(Makers \cup {t}) = Cardinality(Makers) + 1
    BY <1>1, <2>1, FS_AddElement DEF Counted
  <2>3. IsFiniteSet(Makers') /\ Cardinality(Makers') <= Cardinality(Makers) + 1
    BY <2>1, <2>2, FS_Subset
  <2>4. Cardinality(Makers) \in Nat /\ Cardinality(Makers') \in Nat
    BY <1>1, <2>3, FS_CardinalityType DEF Counted
  <2>5. made' + Cardinality(Makers') <= attaches' + 1
    BY <1>1, <1>2, <2>3, <2>4 DEF Counted
  <2>6. Cardinality(Makers)' = Cardinality(Makers')
    OBVIOUS
  <2>7. QED BY <2>3, <2>5 DEF Counted
<1>10. \A u \in Threads : th[u].pc \in {"retire", "publish"} =>
         th'[u].pc = th[u].pc /\ th'[u].target = th[u].target
  BY <1>1, <1>5
<1>11. Accounted'
  BY <1>1, <1>2, <1>10, AccountedKeeps
<1>12. GenerationsInv' /\ FailedAreCancelled'
  BY <1>2 DEF GenerationsInv, FailedAreCancelled, WebInv
<1>13. QED BY <1>7, <1>8, <1>9, <1>11, <1>12 DEF WebInv

\* A generation is made, which nobody sees yet.
LEMMA CreateGenerationKeeps ==
  ASSUME WebInv, NEW t \in Threads, CreateGeneration(t)
  PROVE  WebInv'
<1> DEFINE n == made + 1
           rec == [th[t] EXCEPT !.pc = "publish", !.target = n]
<1>1. /\ WebTypeOK /\ GenerationsInv /\ ThreadsInv /\ Accounted /\ Counted
      /\ th[t].pc = "create" /\ th[t] \in Thread /\ th[t].then \in {"idle", "create"}
      /\ made \in Nat /\ attaches \in 0 .. MaxAttaches /\ MaxAttaches \in Nat
  BY WebViewHostAssumption
     DEF CreateGeneration, At, WebInv, WebTypeOK, ThreadsInv, ThreadOf, MaxGenerations
<1>2. UNCHANGED <<slot, stopping, job, called, attaches, mail>> /\ made' = n
  BY DEF CreateGeneration
<1>3. /\ IsFiniteSet(Makers \ {t}) /\ Cardinality(Makers \ {t}) = Cardinality(Makers) - 1
      /\ Cardinality(Makers) \in Nat /\ Cardinality(Makers \ {t}) \in Nat
  <2>1. t \in Makers
    BY <1>1 DEF Makers, Making
  <2>2. /\ IsFiniteSet(Makers \ {t}) /\ Cardinality(Makers \ {t}) = Cardinality(Makers) - 1
    BY <1>1, <2>1, FS_RemoveElement DEF Counted
  <2>3. QED BY <1>1, <2>2, FS_CardinalityType DEF Counted
<1>4. n \in Gens /\ n \in 0 .. MaxGenerations /\ n + Cardinality(Makers \ {t}) <= attaches + 1
  BY <1>1, <1>3 DEF Counted, Gens, MaxGenerations
<1>5. rec \in Thread /\ rec.pc = "publish" /\ rec.target = n /\ rec.then = th[t].then
  BY <1>1, <1>4 DEF Thread, Labels
<1>6. th' = [th EXCEPT ![t] = rec]
  BY DEF CreateGeneration, Become
<1> HIDE DEF rec
<1>7. PICK starts \in BOOLEAN :
        gen' = [gen EXCEPT ![n] =
                  WithView([NoGeneration EXCEPT !.thread = t, !.open = TRUE], starts)]
  BY DEF CreateGeneration
<1> DEFINE fresh == WithView([NoGeneration EXCEPT !.thread = t, !.open = TRUE], starts)
<1>8. /\ fresh \in Generation /\ GenerationOf(fresh) /\ fresh.thread = t
      /\ fresh.owner = Nobody
  <2>1. <<>> \in Seq(Ops)
    OBVIOUS
  <2>2. QED BY <2>1 DEF WithView, NoGeneration, Generation, GenerationOf
<1> HIDE DEF fresh
<1>9. gen' = [gen EXCEPT ![n] = fresh]
  BY <1>7 DEF fresh
<1>10. gen' \in [Gens -> Generation] /\ gen'[n] = fresh /\ \A g \in Gens \ {n} : gen'[g] = gen[g]
  BY <1>1, <1>4, <1>8, <1>9 DEF WebTypeOK
<1>11. 1 .. made \subseteq Gens \ {n} /\ \A g \in 1 .. n : g \in 1 .. made \/ g = n
  BY <1>1, <1>4 DEF Gens, MaxGenerations
<1>12. th'[t] = rec /\ \A u \in Threads \ {t} : th'[u] = th[u]
  BY <1>1, <1>6 DEF WebTypeOK
<1>13. ThreadOf(t)'
  BY <1>1, <1>2, <1>5, <1>8, <1>10, <1>12 DEF ThreadOf
<1>14. ThreadsInv' /\ th' \in [Threads -> Thread]
  <2>1. /\ \A g \in 1 .. made : gen'[g].thread = gen[g].thread
        /\ made' \in Nat /\ made <= made'
    BY <1>1, <1>2, <1>10, <1>11
  <2>2. QED BY <1>1, <1>5, <1>6, <1>13, <2>1, OneMoves
<1>15. WebTypeOK'
  BY <1>1, <1>2, <1>4, <1>10, <1>14 DEF WebTypeOK
<1>16. Counted'
  <2>1. Makers' \subseteq Makers \ {t}
    BY <1>5, <1>12 DEF Makers, Making
  <2>2. IsFiniteSet(Makers') /\ Cardinality(Makers') <= Cardinality(Makers \ {t})
    BY <1>3, <2>1, FS_Subset
  <2>3. Cardinality(Makers') \in Nat
    BY <2>2, FS_CardinalityType
  <2>4. made' + Cardinality(Makers') <= attaches' + 1
    BY <1>1, <1>2, <1>3, <1>4, <2>2, <2>3
  <2>5. Cardinality(Makers)' = Cardinality(Makers')
    OBVIOUS
  <2>6. QED BY <2>2, <2>4 DEF Counted
<1>17. ASSUME NEW g \in 1 .. made PROVE AccountedOf(g)'
  <2>1. AccountedOf(g) /\ gen'[g] = gen[g]
    BY <1>1, <1>10, <1>11 DEF Accounted
  <2>2. \A u \in Threads : th[u].pc \in {"retire", "publish"} => th'[u] = th[u]
    BY <1>1, <1>12
  <2>3. QED BY <1>2, <2>1, <2>2 DEF AccountedOf
<1>18. ASSUME NEW g, g = n PROVE AccountedOf(g)'
  BY <1>5, <1>8, <1>10, <1>12, <1>18 DEF AccountedOf
<1>19. Accounted'
  BY <1>2, <1>11, <1>17, <1>18 DEF Accounted
<1>20. GenerationsInv'
  BY <1>1, <1>8, <1>10 DEF GenerationsInv
<1>21. FailedAreCancelled'
  BY <1>2 DEF FailedAreCancelled, WebInv
<1>22. QED BY <1>14, <1>15, <1>16, <1>19, <1>20, <1>21 DEF WebInv

\* The generation is published, or dropped again because the slot was filled.
LEMMA PublishGenerationKeeps ==
  ASSUME WebInv, NEW t \in Threads, PublishGeneration(t)
  PROVE  WebInv'
<1> DEFINE n == th[t].target
<1>1. /\ WebTypeOK /\ GenerationsInv /\ ThreadsInv /\ Accounted /\ Counted
      /\ th[t].pc = "publish" /\ th[t] \in Thread /\ ThreadOf(t)
      /\ made \in Nat /\ 1 .. made \subseteq Gens /\ slot \in 0 .. made
      /\ 0 .. made \subseteq 0 .. MaxGenerations
  BY WebViewHostAssumption
     DEF PublishGeneration, At, WebInv, WebTypeOK, ThreadsInv, Gens, MaxGenerations
<1>2. n \in 1 .. made /\ n \in Gens /\ gen[n] \in Generation /\ GenerationOf(gen[n])
  BY <1>1 DEF ThreadOf, WebTypeOK, GenerationsInv
<1>3. UNCHANGED <<stopping, made, job, called, attaches, mail>>
  BY DEF PublishGeneration
<1>4. \E rec \in Thread :
        /\ rec.pc = "recheck" /\ rec.target \in 1 .. made /\ rec.then = th[t].then
        /\ th' = [th EXCEPT ![t] = rec]
        /\ \A h \in Gens : Follows(gen[h], gen'[h])
        /\ gen' = [h \in Gens |-> gen'[h]]
        /\ slot' \in 0 .. made
        /\ gen'[n].retiring \/ slot' = n
        /\ slot # 0 => slot' = slot
  <2>1. CASE slot = 0 /\ slot' = n /\ Goto(t, "recheck") /\ UNCHANGED gen
    <3>1. "recheck" \in Labels
      BY DEF Labels
    <3>2. /\ Turned(t, "recheck") \in Thread /\ Turned(t, "recheck").pc = "recheck"
          /\ Turned(t, "recheck").target = n /\ Turned(t, "recheck").then = th[t].then
          /\ th' = [th EXCEPT ![t] = Turned(t, "recheck")]
      BY <1>1, <2>1, <3>1, TurnedFacts
    <3>3. /\ gen' = [h \in Gens |-> gen'[h]]
          /\ \A h \in Gens : Follows(gen[h], gen'[h])
      BY <1>1, <2>1, NoneChanges
    <3>4. slot' \in 0 .. made
      BY <1>1, <1>2, <2>1
    <3>5. QED BY <1>2, <2>1, <3>2, <3>3, <3>4
  <2>2. CASE /\ slot # 0 /\ slot' = slot
             /\ gen' = [gen EXCEPT ![n] = Released(@)]
             /\ Become(t, [th[t] EXCEPT !.pc = "recheck", !.target = slot])
    <3> DEFINE kept == [th[t] EXCEPT !.pc = "recheck", !.target = slot]
    <3>0. slot \in 1 .. made /\ slot \in 0 .. MaxGenerations
      BY <1>1, <2>2
    <3>1. /\ kept \in Thread /\ kept.pc = "recheck" /\ kept.target \in 1 .. made
          /\ kept.then = th[t].then
      BY <1>1, <3>0 DEF Thread, Labels
    <3>2. th' = [th EXCEPT ![t] = kept]
      BY <2>2 DEF Become
    <3>3. Frees(gen[n], Released(gen[n])) /\ gen' = [gen EXCEPT ![n] = Released(gen[n])]
      BY <1>2, <2>2, ReleasedFrees
    <3>4. /\ gen' = [h \in Gens |-> gen'[h]]
          /\ \A h \in Gens : Follows(gen[h], gen'[h])
      BY <1>1, <3>3, OneFollows DEF Frees
    <3>5. gen'[n].retiring
      BY <1>1, <1>2, <3>3 DEF Frees, WebTypeOK
    <3> HIDE DEF kept
    <3>6. QED BY <1>1, <2>2, <3>1, <3>2, <3>4, <3>5
  <2>3. QED BY <2>1, <2>2 DEF PublishGeneration
<1>5. PICK rec \in Thread :
        /\ rec.pc = "recheck" /\ rec.target \in 1 .. made /\ rec.then = th[t].then
        /\ th' = [th EXCEPT ![t] = rec]
        /\ \A h \in Gens : Follows(gen[h], gen'[h])
        /\ gen' = [h \in Gens |-> gen'[h]]
        /\ slot' \in 0 .. made
        /\ gen'[n].retiring \/ slot' = n
        /\ slot # 0 => slot' = slot
  BY <1>4
<1>6. th'[t] = rec /\ \A u \in Threads \ {t} : th'[u] = th[u]
  BY <1>1, <1>5 DEF WebTypeOK
<1>7. ThreadOf(t)'
  BY <1>1, <1>3, <1>5, <1>6 DEF ThreadOf
<1>8. ThreadsInv' /\ th' \in [Threads -> Thread]
  <2>1. /\ \A g \in 1 .. made : gen'[g].thread = gen[g].thread
        /\ made' \in Nat /\ made <= made'
    BY <1>1, <1>3, <1>5 DEF Follows
  <2>2. QED BY <1>1, <1>5, <1>7, <2>1, OneMoves
<1>9. WebTypeOK'
  <2>1. gen' \in [Gens -> Generation]
    BY <1>5 DEF Follows
  <2>2. QED BY <1>1, <1>3, <1>5, <1>8, <2>1 DEF WebTypeOK
<1>10. Counted'
  <2>1. \A u \in Threads : Making(th'[u]) => Making(th[u])
    BY <1>5, <1>6 DEF Making
  <2>2. QED BY <1>1, <1>3, <2>1, CountedKeeps
<1>11. ASSUME NEW g \in 1 .. made PROVE AccountedOf(g)'
  <2>1. AccountedOf(g) /\ Follows(gen[g], gen'[g])
    BY <1>1, <1>5 DEF Accounted
  <2>2. CASE gen[g].retiring
    BY <2>1, <2>2 DEF AccountedOf, Follows
  <2>3. CASE g = slot
    BY <1>5, <2>3 DEF AccountedOf
  <2>4. CASE g = n
    BY <1>5, <2>4 DEF AccountedOf
  <2>5. CASE \E u \in Threads : th[u].pc = "retire" /\ th[u].target = g
    BY <1>1, <1>6, <2>5 DEF AccountedOf
  <2>6. CASE g # n /\ \E u \in Threads : /\ th[u].pc = "publish" /\ th[u].target = g
                                         /\ gen[g].owner = Nobody
    BY <1>6, <2>1, <2>6 DEF AccountedOf, Follows
  <2>7. QED BY <2>1, <2>2, <2>3, <2>4, <2>5, <2>6 DEF AccountedOf
<1>12. Accounted' /\ GenerationsInv' /\ FailedAreCancelled'
  BY <1>3, <1>5, <1>11
     DEF Accounted, GenerationsInv, FailedAreCancelled, Follows, WebInv
<1>13. QED BY <1>8, <1>9, <1>10, <1>12 DEF WebInv

\* The view is about to be shown, or a retirement is noticed.
LEMMA FinishAttachKeeps ==
  ASSUME WebInv, NEW t \in Threads, FinishAttach(t)
  PROVE  WebInv'
<1>1. /\ th[t].pc = "finish" /\ th[t] \in Thread /\ th[t].target \in 1 .. made
      /\ gen[th[t].target].thread = t
  BY DEF FinishAttach, At, WebInv, WebTypeOK, ThreadsInv, ThreadOf
<1>2. /\ slot' = slot /\ made' = made /\ attaches' = attaches /\ stopping' = stopping
      /\ called' = called /\ gen' = gen /\ mail' = mail /\ job' = job
  BY DEF FinishAttach, hostVars
<1>3. /\ gen' = [g \in Gens |-> gen'[g]] /\ \A g \in Gens : Follows(gen[g], gen'[g])
      /\ job' \in [Ops -> Operation] /\ FailedAreCancelled'
      /\ mail' \in [Threads -> Seq(Message)]
  BY <1>2, NoneChanges, OperationsSame DEF WebInv, WebTypeOK
<1>4. CASE Finish(t)
  BY <1>1, <1>2, <1>3, <1>4, FinishKeeps
<1>5. CASE Goto(t, "show")
  <2>1. Fits(t, "show")
    BY <1>1 DEF Labels, Fits
  <2>2. QED BY <1>1, <1>2, <1>3, <1>5, <2>1, GotoKeeps
<1>6. QED BY <1>4, <1>5 DEF FinishAttach

\* The view is shown.  Nobody else is about to publish this generation: it would be
\* of that thread.
LEMMA ShowAttachedKeeps ==
  ASSUME WebInv, NEW t \in Threads, ShowAttached(t)
  PROVE  WebInv'
<1> DEFINE n == th[t].target
           v == th[t].view
<1>1. /\ WebTypeOK /\ GenerationsInv /\ ThreadsInv /\ Accounted /\ Counted
      /\ th[t].pc = "show" /\ th[t] \in Thread /\ n \in 1 .. made /\ gen[n].thread = t
      /\ made \in Nat /\ 1 .. made \subseteq Gens
  BY WebViewHostAssumption
     DEF ShowAttached, At, WebInv, WebTypeOK, ThreadsInv, ThreadOf, Gens, MaxGenerations
<1>2. n \in Gens /\ gen[n] \in Generation /\ GenerationOf(gen[n])
  BY <1>1 DEF WebTypeOK, GenerationsInv
<1>3. /\ slot' = slot /\ made' = made /\ attaches' = attaches /\ stopping' = stopping
      /\ called' = called /\ mail' = mail /\ job' = job /\ Finish(t)
  BY HostSame DEF ShowAttached
<1>4. \A h \in Gens \ {n} : gen'[h] = gen[h]
  BY <1>1 DEF ShowAttached, WebTypeOK
<1>5. /\ gen' = [h \in Gens |-> gen'[h]]
      /\ gen'[n] \in Generation /\ GenerationOf(gen'[n])
      /\ gen'[n].thread = gen[n].thread /\ gen'[n].retiring = gen[n].retiring
  <2>1. gen' = [h \in Gens |-> gen'[h]] /\ gen'[n] = Shown(gen[n], v)
    BY <1>1, <1>2 DEF ShowAttached, WebTypeOK
  <2>2. v \in Views \cup {Nobody}
    BY <1>1 DEF Thread
  <2>3. QED BY <1>2, <2>1, <2>2, ShownKeeps
<1>6. th' = [th EXCEPT ![t] = AtRest] /\ th'[t] = AtRest
      /\ \A u \in Threads \ {t} : th'[u] = th[u]
  BY <1>1, <1>3 DEF Finish, Become, WebTypeOK
<1>7. ThreadOf(t)'
  BY <1>6, AtRestFacts DEF ThreadOf
<1>8. ThreadsInv' /\ th' \in [Threads -> Thread]
  <2>1. /\ \A g \in 1 .. made : gen'[g].thread = gen[g].thread
        /\ made' \in Nat /\ made <= made'
    BY <1>1, <1>3, <1>4, <1>5
  <2>2. QED BY <1>1, <1>6, <1>7, <2>1, AtRestFacts, OneMoves
<1>9. WebTypeOK'
  <2>1. gen' \in [Gens -> Generation]
    BY <1>1, <1>4, <1>5 DEF WebTypeOK
  <2>2. QED BY <1>1, <1>3, <1>8, <2>1 DEF WebTypeOK
<1>10. Counted'
  <2>1. \A u \in Threads : Making(th'[u]) => Making(th[u])
    BY <1>6, AtRestFacts
  <2>2. QED BY <1>1, <1>3, <2>1, CountedKeeps
<1>11. ASSUME NEW g \in 1 .. made PROVE AccountedOf(g)'
  <2>1. AccountedOf(g) /\ g \in Gens
    BY <1>1 DEF Accounted
  <2>2. CASE gen[g].retiring
    BY <1>4, <1>5, <2>1, <2>2 DEF AccountedOf
  <2>3. CASE g = slot
    BY <1>3, <2>3 DEF AccountedOf
  <2>4. CASE \E u \in Threads : th[u].pc = "retire" /\ th[u].target = g
    BY <1>1, <1>6, <2>4 DEF AccountedOf
  <2>5. CASE \E u \in Threads : /\ th[u].pc = "publish" /\ th[u].target = g
                                /\ gen[g].owner = Nobody
    <3>1. PICK u \in Threads : /\ th[u].pc = "publish" /\ th[u].target = g
                               /\ gen[g].owner = Nobody
      BY <2>5
    <3>2. gen[g].thread = u /\ u # t
      BY <1>1, <3>1 DEF ThreadsInv, ThreadOf
    <3>3. g # n
      BY <1>1, <3>2
    <3>4. QED BY <1>4, <1>6, <2>1, <3>1, <3>2, <3>3 DEF AccountedOf
  <2>6. QED BY <2>1, <2>2, <2>3, <2>4, <2>5 DEF AccountedOf
<1>12. Accounted' /\ FailedAreCancelled'
  BY <1>3, <1>11 DEF Accounted, FailedAreCancelled, WebInv
<1>13. GenerationsInv'
  BY <1>1, <1>4, <1>5 DEF GenerationsInv
<1>14. QED BY <1>8, <1>9, <1>10, <1>12, <1>13 DEF WebInv

\* The host comes up with one generation in the slot and every thread at rest.
LEMMA WebInitInv ==
  ASSUME WebInit
  PROVE  WebInv
<1>1. PICK starts \in BOOLEAN :
        gen = [g \in Gens |->
                 IF g = 1
                 THEN WithView([NoGeneration EXCEPT !.thread = FirstThread, !.open = TRUE],
                               starts)
                 ELSE NoGeneration]
  BY DEF WebInit
<1>2. /\ slot = 1 /\ made = 1 /\ stopping = FALSE /\ called = 0 /\ attaches = 0
      /\ job = [o \in Ops |-> NoOperation] /\ mail = [u \in Threads |-> <<>>]
      /\ th = [u \in Threads |-> AtRest]
  BY DEF WebInit
<1>3. /\ MaxGenerations \in Nat /\ 1 \in 0 .. MaxGenerations /\ 0 \in 0 .. MaxGenerations
      /\ 0 \in 0 .. MaxOps /\ 0 \in 0 .. MaxAttaches /\ <<>> \in Seq(Ops)
      /\ <<>> \in Seq(Message)
  BY WebViewHostAssumption DEF MaxGenerations
<1> DEFINE first == WithView([NoGeneration EXCEPT !.thread = FirstThread, !.open = TRUE],
                             starts)
<1>4. /\ first \in Generation /\ GenerationOf(first)
      /\ NoGeneration \in Generation /\ GenerationOf(NoGeneration)
  BY <1>3, WebViewHostAssumption DEF WithView, NoGeneration, Generation, GenerationOf
<1> HIDE DEF first
<1>5. gen \in [Gens -> Generation] /\ GenerationsInv
  BY <1>1, <1>4 DEF GenerationsInv, first
<1>6. NoOperation \in Operation /\ ~NoOperation.failed
  BY <1>3 DEF NoOperation, Operation
<1>7. WebTypeOK
  <2>1. slot \in 0 .. made /\ made \in 0 .. MaxGenerations
    BY <1>2, <1>3
  <2>2. job \in [Ops -> Operation] /\ mail \in [Threads -> Seq(Message)]
    BY <1>2, <1>3, <1>6
  <2>3. th \in [Threads -> Thread]
    BY <1>2, AtRestFacts
  <2>4. QED BY <1>2, <1>3, <1>5, <2>1, <2>2, <2>3 DEF WebTypeOK
<1>8. ThreadsInv
  <2>1. \A u \in Threads : th[u] = AtRest
    BY <1>2
  <2>2. QED BY <2>1, AtRestFacts DEF ThreadsInv, ThreadOf
<1>9. Accounted
  BY <1>2 DEF Accounted, AccountedOf
<1>10. FailedAreCancelled
  BY <1>2, <1>6 DEF FailedAreCancelled
<1>11. Counted
  <2>1. Makers = {}
    BY <1>2, AtRestFacts DEF Makers
  <2>2. QED BY <1>2, <2>1, FS_EmptySet DEF Counted
<1>12. QED BY <1>5, <1>7, <1>8, <1>9, <1>10, <1>11 DEF WebInv

\* No step of the host loses it.
LEMMA WebNextInv ==
  ASSUME WebInv, [WebNext]_webVars
  PROVE  WebInv'
<1>1. CASE UNCHANGED webVars
  BY <1>1 DEF webVars, WebInv, WebTypeOK, GenerationsInv, ThreadsInv, ThreadOf, Accounted,
              AccountedOf, FailedAreCancelled, Counted, Makers
<1>2. ASSUME NEW t \in Threads, Step(t) PROVE WebInv'
  BY <1>2, TakeGenerationKeeps, CreateGenerationKeeps, PublishGenerationKeeps,
     RecheckKeeps, AttachOnOwnerKeeps, FinishAttachKeeps, ShowAttachedKeeps, RetireKeeps,
     ShutdownTakeKeeps, InvokeKeeps, SendKeeps, AnsweredKeeps, TimeOutKeeps, PumpKeeps,
     DrainNextKeeps, DrainRunKeeps DEF Step
<1>3. ASSUME NEW t \in Threads, Shutdown(t) PROVE WebInv'
  BY <1>3, ShutdownKeeps
<1>4. ASSUME NEW t \in Threads, Evaluate(t) PROVE WebInv'
  BY <1>4, CallKeeps DEF Evaluate
<1>5. ASSUME NEW t \in Threads, NEW v \in Views, Attach(t, v) \/ DetachView(t, v)
      PROVE  WebInv'
  BY <1>5, AttachKeeps, CallKeeps DEF DetachView
<1>6. ASSUME NEW g \in Gens, ViewReady(g) \/ ViewFails(g) \/ Tick(g) PROVE WebInv'
  BY <1>6, CallbackKeeps
<1>7. QED BY <1>1, <1>2, <1>3, <1>4, <1>5, <1>6 DEF WebNext

\* The inductive invariant of the web view host, for any number of threads, views,
\* attachments and operations (webview_host.cpp:1478-1546, 1190-1323).
THEOREM WebInvariance == WebSpec => []WebInv
<1>1. WebInit => WebInv
  BY WebInitInv
<1>2. WebInv /\ [WebNext]_webVars => WebInv'
  BY WebNextInv
<1>3. QED BY <1>1, <1>2, PTL DEF WebSpec

\* Every variable of the host keeps its type; in particular attach() never makes more
\* generations than it is called.
THEOREM WebTypes == WebSpec => []WebTypeOK
<1>1. WebInv => WebTypeOK
  BY DEF WebInv
<1>2. QED BY <1>1, WebInvariance, PTL

\* What the user sees (webview_host.cpp:1506-1546, 973-1024): however attachments from
\* any number of threads, retirements, shutdowns, timeouts and faults of the view
\* interleave, an editor that is alive is in the slot or about to be retired, and no
\* diagnostic stands in front of a page that runs.
THEOREM HonestEditors == WebSpec => []EditorsAreHonest
<1>1. WebInv => EditorsAreHonest
  <2> SUFFICES ASSUME WebInv PROVE EditorsAreHonest
    OBVIOUS
  <2>1. NoStrayEditor
    BY DEF WebInv, Accounted, AccountedOf, NoStrayEditor, At
  <2>2. DiagnosticHonest
    BY DEF WebInv, GenerationsInv, GenerationOf, DiagnosticHonest
  <2>3. QED BY <2>1, <2>2 DEF EditorsAreHonest
<1>2. QED BY <1>1, WebInvariance, PTL

\* An operation whose caller was told that it failed is not begun any more
\* (webview_host.cpp:1202-1224, 409): only the drain begins one, and it passes over
\* what was cancelled.
THEOREM NothingRunsLate == WebSpec => NoLateOperation
<1>1. WebInv /\ [WebNext]_webVars =>
        [\A o \in Ops : job[o].failed =>
            (job'[o].stage = "admitted" => job[o].stage = "admitted")]_webVars
  <2> SUFFICES ASSUME WebInv, WebNext, NEW o \in Ops, job[o].failed,
                      job'[o].stage = "admitted"
               PROVE  job[o].stage = "admitted"
    OBVIOUS
  <2>1. job \in [Ops -> Operation] /\ job[o].cancelled /\ job[o] \in Operation
    BY DEF WebInv, WebTypeOK, FailedAreCancelled
  <2>2. ASSUME NEW g, CancelQueued(g) PROVE job[o].stage = "admitted"
    <3>1. job'[o] \in {job[o], [job[o] EXCEPT !.cancelled = TRUE]}
      BY <2>2 DEF CancelQueued
    <3>2. QED BY <2>1, <3>1 DEF Operation
  <2>3. ASSUME NEW t \in Threads, Fail(t) PROVE job[o].stage = "admitted"
    <3>1. job'[o].stage = job[o].stage
      BY <2>1, <2>3 DEF Fail, Operation
    <3>2. QED BY <3>1
  <2>4. ASSUME NEW p, NEW stage, stage # "admitted", job' = [job EXCEPT ![p].stage = stage]
        PROVE  job[o].stage = "admitted"
    <3>1. job'[o] = IF o = p THEN [job[o] EXCEPT !.stage = stage] ELSE job[o]
      BY <2>1, <2>4
    <3>2. QED BY <2>1, <2>4, <3>1 DEF Operation
  <2>5. ASSUME NEW p, Execute(p) PROVE job[o].stage = "admitted"
    <3>1. PICK stage \in {"ran", "dropped"} : job' = [job EXCEPT ![p].stage = stage]
      BY <2>5 DEF Execute
    <3>2. QED BY <2>4, <3>1
  <2>6. CASE job' = job
    BY <2>6
  <2>7. ASSUME NEW t \in Threads, Step(t) PROVE job[o].stage = "admitted"
    <3>1. CASE TakeGeneration(t) \/ CreateGeneration(t) \/ PublishGeneration(t)
      BY <2>6, <3>1 DEF TakeGeneration, CreateGeneration, PublishGeneration
    <3>2. CASE \/ Recheck(t) \/ AttachOnOwner(t) \/ FinishAttach(t) \/ ShowAttached(t)
               \/ ShutdownTake(t) \/ Pump(t)
      BY <2>6, <3>2
      DEF Recheck, AttachOnOwner, FinishAttach, ShowAttached, ShutdownTake, Pump
    <3>3. CASE Retire(t)
      BY <2>2, <2>6, <3>3 DEF Retire
    <3>4. CASE Invoke(t)
      BY <2>3, <2>4, <2>5, <3>4 DEF Invoke
    <3>5. CASE Send(t) \/ Answered(t) \/ TimeOut(t)
      BY <2>3, <2>6, <3>5 DEF Send, Answered, TimeOut
    <3>6. CASE DrainRun(t)
      BY <2>5, <3>6 DEF DrainRun
    <3>7. CASE DrainNext(t)
      <4> DEFINE b == th[t].batch
      <4>1. CASE b = <<>>
        BY <2>6, <3>7, <4>1 DEF DrainNext
      <4>2. CASE b # <<>> /\ Skipped(Head(b))
        BY <2>4, <3>7, <4>2 DEF DrainNext
      <4>3. CASE b # <<>> /\ ~Skipped(Head(b))
        <5>1. Head(b) # o /\ job' = [job EXCEPT ![Head(b)].stage = "admitted"]
          BY <2>1, <3>7, <4>3 DEF DrainNext, Skipped
        <5>2. job'[o] = job[o]
          BY <2>1, <5>1
        <5>3. QED BY <5>2
      <4>4. QED BY <4>1, <4>2, <4>3
    <3>8. QED BY <2>7, <3>1, <3>2, <3>3, <3>4, <3>5, <3>6, <3>7 DEF Step
  <2>8. ASSUME NEW t \in Threads, NEW v, Call(t, v) PROVE job[o].stage = "admitted"
    <3>1. job'[o].stage = job[o].stage
      BY <2>1, <2>8 DEF Call, Operation
    <3>2. QED BY <3>1
  <2>9. ASSUME NEW t \in Threads, Shutdown(t) \/ \E v \in Views : Attach(t, v)
        PROVE  job[o].stage = "admitted"
    BY <2>6, <2>9 DEF Shutdown, Attach
  <2>10. ASSUME NEW g \in Gens, ViewReady(g) \/ ViewFails(g) \/ Tick(g)
         PROVE  job[o].stage = "admitted"
    BY <2>6, <2>10 DEF ViewReady, ViewFails, Tick
  <2>11. QED BY <2>7, <2>8, <2>9, <2>10 DEF WebNext, Evaluate, DetachView
<1>2. QED BY <1>1, WebInvariance, PTL DEF WebSpec, NoLateOperation
=============================================================================
