---------------------------- MODULE PluginFiles ----------------------------
(***************************************************************************)
(* All files of all plug-in instances: the instrument library and the      *)
(* stores with the backup, joined where a page, an editor or a process     *)
(* ends, which ends the business of that instance in both.  An instance    *)
(* handles one request at a time; only a modal chooser lets others in.     *)
(***************************************************************************)
EXTENDS InstrumentLibrary, FileStores, FiniteSets

CONSTANT MaxOperations   \* bound on the operations of both together

vars == <<libraryVars, storeVars>>

Init == LibraryInit /\ StoresInit

\* A new page, as its handshake announces it.
NewPage(i) == LibraryNewPage(i) /\ StoresNewPage(i)

\* The editor closes: its choosers are void, its export is cancelled, its page
\* and the reads of the page go on.  (Only where that changes anything.)
Detach(i) ==
    /\ \/ \E c \in choosing[i] : ChoiceStands(i, c)
       \/ \E e \in Exports : /\ export[e].page = i /\ Accepted(i, e)
                            /\ export[e].at \in {"choosing", "sending"}
    /\ LibraryDetach(i) /\ StoresDetach(i)

Crash(i) == LibraryCrash(i) /\ StoresCrash(i)

\* One request at a time: the thread that runs one handler runs no other.
UseLibrary(i) == write[i] = NoWrite /\ LibraryStep(i) /\ UNCHANGED storeVars
UseStores(i)  == Free(i) /\ StoresStep(i) /\ UNCHANGED libraryVars
EditFiles     == EditSource /\ UNCHANGED storeVars

\* Requests, edits of the bank file and new pages share one bound, so that a
\* run holds any mix of them.
NewPages == Cardinality({i \in Instances : page[i] > 0})

Used == asked + begun + source.path + source.version[source.path] + NewPages

Next ==
    /\ \/ \E i \in Instances : \/ UseLibrary(i) \/ UseStores(i)
                               \/ NewPage(i) \/ Detach(i) \/ Crash(i)
       \/ EditFiles
    /\ Used' <= MaxOperations

Spec == Init /\ [][Next]_vars

TypeOK == LibraryTypeOK /\ StoresTypeOK
=============================================================================
