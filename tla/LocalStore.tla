------------------------------ MODULE LocalStore ------------------------------
(***************************************************************************)
(* What a sync leaves behind and the next one starts from: the records of  *)
(* the user's SQLite metadata store (storage/sqlite_store.py, reached      *)
(* through MetadataStoreAdapter) and the files below the user's storage    *)
(* root.                                                                   *)
(*                                                                         *)
(* A document's file is named after its title and its token, so a document *)
(* has one path per folder.  What a file holds is the version of the       *)
(* document it was written from; a modification time stands for a version. *)
(***************************************************************************)
EXTENDS Integers, Sequences, FiniteSets

CONSTANTS
  Docs,             \* tokens of documents
  Folders,          \* tokens of folders
  Below,            \* the folders in the subtree of each folder, itself included
  None,             \* SQL NULL
  ForceOnMissing    \* config.sync.force_download_missing

ASSUME StoreAssumption ==
  /\ Docs \cap Folders = {}
  /\ None \notin Docs \cup Folders \cup (Folders \X Docs)
  /\ Folders \cap (Folders \X Docs) = {}
  /\ Below \in [Folders -> SUBSET Folders]
  /\ ForceOnMissing \in BOOLEAN

VARIABLES
  records,          \* the table sync_metadata
  disk              \* what each path holds

Tokens == Docs \cup Folders
Paths == Folders \X Docs

Absent == 0         \* no file
Partial == -1       \* a file the writer did not finish
Contents == Int     \* otherwise the version that was written

Statuses == {"none", "ok", "missing", "deleted"}    \* none: no row
Sizes == {"unknown", "short", "full"}

Record == [status : Statuses, parent : Folders \cup {None},
           path : Paths \cup Folders \cup {None}, time : Nat, size : Sizes]

NoRecord == [status |-> "none", parent |-> None, path |-> None, time |-> 0, size |-> "unknown"]

StoreTypeOK ==
  /\ records \in [Tokens -> Record]
  /\ disk \in [Paths -> Contents]

StoreInit ==
  /\ records = [t \in Tokens |-> NoRecord]
  /\ disk = [p \in Paths |-> Absent]

Known == {t \in Tokens : records[t].status # "none"}

(* All complete versions may have the same length, a partial one is        *)
(* shorter.                                                                *)
Size(content) ==
  IF content = Absent THEN "unknown" ELSE IF content = Partial THEN "short" ELSE "full"

(* Faulty variant: a download that failed is not tried again.              *)
ForcedUnlessMissing(record, content, incremental) ==
  \/ ~incremental
  \/ record.status \in {"none", "deleted"}
  \/ ForceOnMissing /\ content = Absent

(* The stored path is taken relative to the working directory of the       *)
(* process here and is never found; the expected path is what counts.      *)
Forced(record, content, incremental) ==
  \/ ~incremental
  \/ record.status # "ok"
  \/ ForceOnMissing /\ content = Absent

(* FileStrategy; listings have neither revisions nor checksums for it.     *)
FileChanged(record, content, time, folder) ==
  \/ record.parent # folder
  \/ record.time # time
  \/ content # Absent /\ record.size # "unknown" /\ record.size # Size(content)

(* Faulty variant: an edit does not count.                                 *)
CloudDocMoved(record, time, folder) == record.parent # folder

(* CloudDocStrategy, which does not look at the file.                      *)
CloudDocChanged(record, time, folder) ==
  \/ record.parent # folder
  \/ record.time # time

(* should_download as a synchronizer calls it through the adapter.  The    *)
(* entry of the personal space carries no file type, so its documents are  *)
(* decided by FileStrategy whatever they are.                              *)
MustDownload(doc, time, folder, incremental) ==
  LET content == disk[<<folder, doc>>] IN
  \/ Forced(records[doc], content, incremental)
  \/ FileChanged(records[doc], content, time, folder)

(* The nodes of a wiki carry the type of a cloud document.                 *)
MustDownloadCloudDoc(doc, time, folder, incremental) ==
  \/ Forced(records[doc], disk[<<folder, doc>>], incremental)
  \/ CloudDocChanged(records[doc], time, folder)

(* Faulty variant: an update leaves the parent path as it was.             *)
MarkSyncedOldParent(doc, time, folder) ==
  records' = [records EXCEPT ![doc] =
    [status |-> "ok", parent |-> IF @.status = "none" THEN folder ELSE @.parent,
     path |-> <<folder, doc>>, time |-> time, size |-> Size(disk[<<folder, doc>>])]]

MarkSynced(doc, time, folder) ==
  records' = [records EXCEPT ![doc] =
    [status |-> "ok", parent |-> folder, path |-> <<folder, doc>>, time |-> time,
     size |-> Size(disk[<<folder, doc>>])]]

MarkFolder(folder, parent) ==
  records' = [records EXCEPT ![folder] =
    [status |-> "ok", parent |-> parent, path |-> folder, time |-> 0, size |-> "unknown"]]

(* A document that has others below it, entered as the folder they are in. *)
MarkBranch(doc, time, folder, own) ==
  records' = [records EXCEPT ![doc] =
    [status |-> "ok", parent |-> folder, path |-> own, time |-> time, size |-> "unknown"]]

MarkMissing(doc, time, folder) ==
  records' = [records EXCEPT ![doc].status = "missing", ![doc].parent = folder,
                             ![doc].time = time]

MarkDeleted(token) == records' = [records EXCEPT ![token].status = "deleted"]

Remove(token) == records' = [records EXCEPT ![token] = NoRecord]

(* resolve_path: the recorded path, or else the folder the record names    *)
(* (or else the storage root); the files a removal of it takes along.      *)
Resolved(record) ==
  CASE record.path \in Paths -> {record.path}
    [] record.path \in Folders -> {p \in Paths : p[1] \in Below[record.path]}
    [] record.path = None /\ record.parent \in Folders ->
         {p \in Paths : p[1] \in Below[record.parent]}
    [] OTHER -> Paths

=============================================================================
