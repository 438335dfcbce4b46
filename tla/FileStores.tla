---------------------------- MODULE FileStores ----------------------------
(***************************************************************************)
(* The files an instance of the plug-in writes: the presets and the        *)
(* configuration (preset_store.cpp, config_store.cpp), each written to a   *)
(* temporary file of a fixed name and renamed over the store, which all    *)
(* instances on the machine share; and the backup a page streams into a    *)
(* file the user chooses (backup_export.cpp).  A process may die, a write  *)
(* or a rename may fail, at every step.                                    *)
(*                                                                         *)
(* A document is whoever wrote it.  A rename moves the temporary file with *)
(* the handles that are open on it, as POSIX has it; on Windows it fails   *)
(* instead while another instance has the file open.                       *)
(***************************************************************************)
EXTENDS PluginInstances, Naturals, Sequences

CONSTANTS
    Stores,      \* the stores: presets, configuration
    Exports,     \* the backups that pages ask for
    BackupSize,  \* the number of chunks of a backup
    MaxWrites    \* bound on the writes of stores and the requests for a backup

ASSUME FileStoresAssumption ==
    /\ None \notin Stores /\ None \notin Exports /\ None \notin {"temporary", "store"}
    /\ BackupSize \in Nat \ {0} /\ MaxWrites \in Nat

VARIABLES
    store,       \* [Stores -> the content of the store]
    temporary,   \* [Stores -> the content of its temporary file]
    documented,  \* history: [Stores -> the document whose write was answered last]
    mixed,       \* history: [Stores -> TRUE if two instances wrote it at once]
    write,       \* [Instances -> the write that is going on]
    export,      \* [Exports -> the request of a page for a backup]
    epoch,       \* [Instances -> backupExportGeneration_]
    staging,     \* [Instances -> backupExport_: the file being staged]
    backup,      \* [Exports -> the content of the file chosen for it]
    begun        \* the number of writes and backups so far

storeVars == <<store, temporary, documented, mixed, write, export, epoch, staging,
               backup, begun>>

Absent    == [by |-> None, state |-> "absent"]
Empty     == [by |-> None, state |-> "empty"]
Garbled   == [by |-> None, state |-> "garbled"]
Initial   == [by |-> None, state |-> "whole"]
Part(i)   == [by |-> i, state |-> "part"]
Whole(i)  == [by |-> i, state |-> "whole"]
NoWrite   == [at |-> "idle", store |-> None, file |-> None, alone |-> TRUE]
NoExport  == [at |-> "none", page |-> None, epoch |-> 0, sent |-> 0]
NoStaging == [target |-> None, chunks |-> <<>>]

StoresInit ==
    /\ store = [s \in Stores |-> Initial]
    /\ temporary = [s \in Stores |-> Absent]
    /\ documented = [s \in Stores |-> Initial]
    /\ mixed = [s \in Stores |-> FALSE]
    /\ write = [i \in Instances |-> NoWrite]
    /\ export = [e \in Exports |-> NoExport]
    /\ epoch = [i \in Instances |-> 0]
    /\ staging = [i \in Instances |-> NoStaging]
    /\ backup = [e \in Exports |-> <<>>]
    /\ begun = 0

fileVars   == <<store, temporary, documented, mixed, write>>
backupVars == <<export, epoch, staging, backup>>

---------------------------------------------------------------------------
(* PresetStore::write() and ConfigStore::save() *)

Writing(s) == {i \in Instances : write[i].store = s}

\* Mutant: the store itself is opened and written.
TargetInPlace == "store"

\* The file the content is written to first.
Target == "temporary"

\* The temporary file is created, or the one that is there truncated, whoever
\* has it open.
OpenTemporary(i, s) ==
    /\ write[i] = NoWrite /\ begun < MaxWrites
    /\ begun' = begun + 1
    /\ write' = [j \in Instances |->
          IF j = i THEN [at |-> "opened", store |-> s, file |-> Target,
                         alone |-> Writing(s) = {}]
          ELSE IF j \in Writing(s) THEN [write[j] EXCEPT !.alone = FALSE]
          ELSE write[j]]
    /\ temporary' = IF Target = "temporary" THEN [temporary EXCEPT ![s] = Empty]
                                            ELSE temporary
    /\ store' = IF Target = "temporary" THEN store ELSE [store EXCEPT ![s] = Empty]
    /\ UNCHANGED <<documented, mixed, backupVars>>

\* What a write of instance i leaves of a content: bytes of two writers mix.
Written(i, content) ==
    CASE content = Empty   -> Part(i)
      [] content = Part(i) -> Whole(i)
      [] OTHER             -> Garbled

\* The content goes out in two pieces, to the file the handle is open on.
WritePiece(i) ==
    LET w == write[i] IN
    /\ w.at \in {"opened", "half"}
    /\ write' = [write EXCEPT ![i].at = IF w.at = "opened" THEN "half" ELSE "closed"]
    /\ temporary' = IF w.file = "temporary"
                    THEN [temporary EXCEPT ![w.store] = Written(i, @)] ELSE temporary
    /\ store' = IF w.file = "store"
                THEN [store EXCEPT ![w.store] = Written(i, @)] ELSE store
    /\ UNCHANGED <<documented, mixed, backupVars, begun>>

\* A stream that fails: the answer is an error, the temporary file stays.
WriteFails(i) ==
    /\ write[i].at \in {"opened", "half"}
    /\ write' = [write EXCEPT ![i] = NoWrite]
    /\ UNCHANGED <<store, temporary, documented, mixed, backupVars, begun>>

\* After a rename or a removal of the temporary file, handles on it are
\* handles on `file`, and those on the file that was in its way on none.
Moved(i, s, file) ==
    [j \in Instances |->
       IF j = i THEN NoWrite
       ELSE IF write[j].store # s THEN write[j]
       ELSE [write[j] EXCEPT !.file = IF @ = "temporary" THEN file
                                      ELSE IF file = "store" THEN None ELSE @]]

\* The rename replaces the store in one step, and the write is answered.
Rename(i) ==
    LET s == write[i].store IN
    /\ write[i].at = "closed"
    /\ temporary[s] # Absent
    /\ store' = [store EXCEPT ![s] = temporary[s]]
    /\ temporary' = [temporary EXCEPT ![s] = Absent]
    /\ documented' = [documented EXCEPT ![s] = Whole(i)]
    /\ mixed' = [mixed EXCEPT ![s] = ~write[i].alone]
    /\ write' = Moved(i, s, "store")
    /\ UNCHANGED <<backupVars, begun>>

\* The rename fails (always when another instance has taken the temporary
\* file away): the temporary file is removed and the answer is an error.
RenameFails(i) ==
    LET s == write[i].store IN
    /\ write[i].at = "closed"
    /\ temporary' = [temporary EXCEPT ![s] = Absent]
    /\ write' = Moved(i, s, None)
    /\ UNCHANGED <<store, documented, mixed, backupVars, begun>>

---------------------------------------------------------------------------
(* BackupExport, and the page that feeds it *)

\* BackupExport::cancel(): the staged file is closed and removed.
Cancelled(i) == [staging EXCEPT ![i] = NoStaging]

\* The page has no other request open (backupExportActive).
PageIdle(i) ==
    \A e \in Exports : export[e].page = i => export[e].at \notin {"choosing", "sending"}

\* beginBackupExport: what is under way is cancelled, then a modal chooser
\* pumps events with no lock held.
AskBackup(i, e) ==
    /\ write[i] = NoWrite /\ begun < MaxWrites
    /\ export[e] = NoExport /\ PageIdle(i)
    /\ begun' = begun + 1
    /\ epoch' = [epoch EXCEPT ![i] = @ + 1]
    /\ staging' = Cancelled(i)
    /\ export' = [export EXCEPT ![e] =
                    [at |-> "choosing", page |-> i, epoch |-> epoch[i] + 1, sent |-> 0]]
    /\ UNCHANGED <<fileVars, backup>>

\* Only the request that still owns the generation may stage its file.
Accepted(i, e) == export[e].epoch = epoch[i]

\* The chooser closes.  A page that was replaced meanwhile ("lost") no longer
\* hears of it, but the function that opened the chooser still returns.
ChooseTarget(i, e) ==
    /\ write[i] = NoWrite
    /\ export[e].page = i /\ export[e].at \in {"choosing", "lost"}
    /\ \E selected \in BOOLEAN :
          LET begin == selected /\ Accepted(i, e) IN
          /\ staging' = IF begin THEN [staging EXCEPT ![i] = [target |-> e, chunks |-> <<>>]]
                                 ELSE staging
          /\ export' = [export EXCEPT ![e].at =
                          IF begin /\ @ = "choosing" THEN "sending" ELSE "done"]
    /\ UNCHANGED <<fileVars, epoch, backup, begun>>

\* appendBackupExport: the next chunk of the page, refused unless its offset
\* is where the staged file ends; a refusal cancels the export.
SendChunk(i, e) ==
    LET st == staging[i] IN
    /\ write[i] = NoWrite
    /\ export[e].page = i /\ export[e].at = "sending" /\ export[e].sent < BackupSize
    /\ IF st.target # None /\ Len(st.chunks) = export[e].sent
       THEN /\ staging' = [staging EXCEPT ![i].chunks = Append(@, e)]
            /\ export' = [export EXCEPT ![e].sent = @ + 1]
       ELSE /\ staging' = Cancelled(i)
            /\ export' = [export EXCEPT ![e].at = "done"]
    /\ UNCHANGED <<fileVars, epoch, backup, begun>>

\* commitBackupExport: a staged file of the full length replaces the chosen
\* one, unless the replacement fails; either way nothing stays staged.
CommitBackup(i, e) ==
    LET st == staging[i] IN
    /\ write[i] = NoWrite
    /\ export[e].page = i /\ export[e].at = "sending" /\ export[e].sent = BackupSize
    /\ \/ /\ st.target # None /\ Len(st.chunks) = BackupSize
          /\ backup' = [backup EXCEPT ![st.target] = st.chunks]
       \/ backup' = backup
    /\ staging' = Cancelled(i)
    /\ export' = [export EXCEPT ![e].at = "done"]
    /\ UNCHANGED <<fileVars, epoch, begun>>

\* The user cancels, or a call of the page failed: cancelBackupExport().
CancelBackup(i, e) ==
    /\ write[i] = NoWrite
    /\ export[e].page = i /\ export[e].at = "sending"
    /\ epoch' = [epoch EXCEPT ![i] = @ + 1]
    /\ staging' = Cancelled(i)
    /\ export' = [export EXCEPT ![e].at = "done"]
    /\ UNCHANGED <<fileVars, backup, begun>>

---------------------------------------------------------------------------
(* The end of a page, of an editor and of a process *)

\* A request of a page that is gone is heard of no more; its chooser may stay open.
Lost(i, e) ==
    IF export[e].page # i THEN export[e]
    ELSE [export[e] EXCEPT !.at = IF @ = "choosing" THEN "lost"
                                  ELSE IF @ = "sending" THEN "done" ELSE @]

\* The handshake of a new page cancels the export of the old one.
StoresNewPage(i) ==
    /\ write[i] = NoWrite
    /\ epoch' = [epoch EXCEPT ![i] = @ + 1]
    /\ staging' = Cancelled(i)
    /\ export' = [e \in Exports |-> Lost(i, e)]
    /\ UNCHANGED <<fileVars, backup, begun>>

\* detachEditor() cancels the export; the page goes on, and its next chunk is
\* refused.
StoresDetach(i) ==
    /\ write[i] = NoWrite
    /\ epoch' = [epoch EXCEPT ![i] = @ + 1]
    /\ staging' = Cancelled(i)
    /\ UNCHANGED <<fileVars, export, backup, begun>>

\* The process dies; what it wrote so far stays.
StoresCrash(i) ==
    /\ write' = [write EXCEPT ![i] = NoWrite]
    /\ staging' = Cancelled(i)
    /\ export' = [e \in Exports |->
         IF export[e].page = i THEN [export[e] EXCEPT !.at = "done", !.epoch = 0]
                               ELSE export[e]]
    /\ epoch' = [epoch EXCEPT ![i] = 0]
    /\ UNCHANGED <<store, temporary, documented, mixed, backup, begun>>

StoresStep(i) ==
    \/ \E s \in Stores : OpenTemporary(i, s)
    \/ WritePiece(i) \/ WriteFails(i) \/ Rename(i) \/ RenameFails(i)
    \/ \E e \in Exports : \/ AskBackup(i, e) \/ ChooseTarget(i, e) \/ SendChunk(i, e)
                          \/ CommitBackup(i, e) \/ CancelBackup(i, e)

---------------------------------------------------------------------------

Contents == [by : Instances \union {None},
             state : {"absent", "empty", "part", "whole", "garbled"}]

StoresTypeOK ==
    /\ store \in [Stores -> Contents] /\ temporary \in [Stores -> Contents]
    /\ documented \in [Stores -> Contents] /\ mixed \in [Stores -> BOOLEAN]
    /\ write \in [Instances ->
          [at : {"idle", "opened", "half", "closed"}, store : Stores \union {None},
           file : {"temporary", "store", None}, alone : BOOLEAN]]
    /\ export \in [Exports ->
          [at : {"none", "choosing", "lost", "sending", "done"},
           page : Instances \union {None}, epoch : Nat, sent : 0 .. BackupSize]]
    /\ epoch \in [Instances -> Nat]
    /\ \A i \in Instances : staging[i].target \in Exports \union {None}
    /\ begun \in 0 .. MaxWrites

\* A store holds, whole, the last document whose write was answered, whatever
\* failed and whoever died in between: a write that was not answered leaves it
\* alone.  The one exception is a store that two instances wrote at the same
\* time, which may mix their documents, since they write the same temporary
\* file (preset_store.cpp:128); it lasts until a write that is alone.
StoreIsLastDocument ==
    \A s \in Stores : mixed[s] \/ store[s] = documented[s]

\* The file a user chose for a backup is as it was, or is all of that backup and
\* nothing of another, although a chooser may return into the export of the next
\* page (plugin_processor.cpp:5134).
BackupIsWhole ==
    \A e \in Exports : backup[e] \in {<<>>, [n \in 1 .. BackupSize |-> e]}

\* Whatever fails or dies in between, a file is replaced whole or not at all.
FilesAreWhole == StoreIsLastDocument /\ BackupIsWhole
=============================================================================
