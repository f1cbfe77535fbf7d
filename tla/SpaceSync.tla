------------------------------- MODULE SpaceSync -------------------------------
(***************************************************************************)
(* The synchronisation of a user's personal space (core/space_sync.py):    *)
(* a run lists the folders, decides for each document whether it must be   *)
(* downloaded, downloads what it has planned and marks what it did not see *)
(* as deleted.  Users edit, move, delete and restore documents all the     *)
(* while; downloads fail; a run may be aborted by an error of the listing  *)
(* or by the end of the process at any point, and the next one starts from *)
(* what it left in the store and on the disk.                              *)
(*                                                                         *)
(* The order of a listing is that of the server: entries are handled in    *)
(* any order in which a folder comes before what it contains.              *)
(*                                                                         *)
(* Of shortcuts, those that stand for a document are modelled.  One that   *)
(* stands for a folder or a wiki is planned in the same way, and then has  *)
(* its downloader write a whole tree in one call; that, and the record it  *)
(* makes of the folder's token, are left out.                              *)
(***************************************************************************)
EXTENDS LocalStore

CONSTANTS
  Root,             \* the folder the space starts at
  Parent,           \* the folder each other folder is in
  Gone,             \* where a deleted document is
  Links,            \* tokens of shortcuts
  Target,           \* the document each shortcut stands for
  Place,            \* the folder each shortcut is in
  Modes,            \* the ways a run may be configured
  LiveMoves,        \* whether documents are moved or restored during a run
  MaxChanges,       \* bound: what users do to documents and files
  MaxRuns           \* bound: runs

ASSUME SpaceAssumption ==
  /\ Root \in Folders
  /\ Parent \in [Folders \ {Root} -> Folders]
  /\ \A fs \in SUBSET Folders :            \* every folder is below the root
       Root \in fs /\ (\A f \in Folders \ {Root} : Parent[f] \in fs => f \in fs)
         => fs = Folders
  /\ Gone \notin Folders
  /\ Links \cap (Docs \cup Folders) = {}
  /\ Target \in [Links -> Docs]
  /\ Place \in [Links -> Folders]
  /\ Modes \subseteq [incremental : BOOLEAN, limit : Nat, clean : BOOLEAN]
  /\ LiveMoves \in BOOLEAN
  /\ MaxChanges \in Nat
  /\ MaxRuns \in Nat

VARIABLES
  remote,           \* where each document is and its version
  pc,               \* what the run is doing
  mode,             \* incremental or full, the limit (0: none), clean_deleted
  todo,             \* entries that are listed and not handled yet
  visited,          \* _visited
  current,          \* _current_tokens
  truncated,        \* _discovery_truncated
  queue,            \* the planned downloads, in order
  fetched,          \* the version the current download has received
  stale,            \* the tokens still to be marked as deleted
  runs,             \* how many runs there were
  changes,          \* how many changes users have made
  kept,             \* documents that have not been moved or deleted since the
                    \* run began, with their version at that time (history)
  failed            \* documents whose download failed in this run (history)

remoteVars == <<remote, kept>>
runVars == <<pc, mode, todo, visited, current, truncated, queue, fetched, stale, failed>>
counters == <<runs, changes>>
vars == <<records, disk, remoteVars, runVars, counters>>

Items == [token : Docs \cup Folders \cup Links, target : Docs \cup Folders,
          folder : Folders, time : Nat]

(* Those that can be planned for download.                                 *)
Downloads == {i \in Items : i.target \in Docs}

Steps == {"idle", "discover", "download", "open", "written", "cleanup"}

TypeOK ==
  /\ StoreTypeOK
  /\ remote \in [Docs -> [folder : Folders \cup {Gone}, version : Nat]]
  /\ pc \in Steps
  /\ mode \in [incremental : BOOLEAN, limit : Nat, clean : BOOLEAN]
  /\ todo \in SUBSET Items
  /\ visited \in SUBSET (Docs \cup Folders \cup Links)
  /\ current \in SUBSET (Docs \cup Folders \cup Links)
  /\ truncated \in BOOLEAN
  /\ queue \in Seq(Downloads)
  /\ pc \in {"open", "written"} => queue # <<>>
  /\ fetched \in Nat
  /\ stale \in SUBSET Tokens
  /\ runs \in Nat
  /\ changes \in Nat
  /\ kept \in SUBSET [doc : Docs, version : Nat]
  /\ failed \in SUBSET Docs

NoMode == [incremental |-> FALSE, limit |-> 0, clean |-> FALSE]

Init ==
  /\ StoreInit
  /\ remote \in [Docs -> [folder : Folders \cup {Gone}, version : {1}]]
  /\ pc = "idle"
  /\ mode = NoMode
  /\ todo = {} /\ visited = {} /\ current = {} /\ truncated = FALSE
  /\ queue = <<>> /\ fetched = 0 /\ stale = {}
  /\ runs = 0 /\ changes = 0 /\ kept = {} /\ failed = {}

(* The end of a run, wherever it comes.                                    *)
Forget ==
  /\ pc' = "idle"
  /\ mode' = NoMode
  /\ todo' = {} /\ visited' = {} /\ current' = {} /\ truncated' = FALSE
  /\ queue' = <<>> /\ fetched' = 0 /\ stale' = {}
  /\ kept' = {} /\ failed' = {}

-----------------------------------------------------------------------------
(* The user and the server.                                                *)

Change == changes < MaxChanges /\ changes' = changes + 1

Edit(d) ==
  /\ Change
  /\ remote[d].folder # Gone
  /\ remote' = [remote EXCEPT ![d].version = @ + 1]
  /\ UNCHANGED <<records, disk, runVars, runs, kept>>

Move(d, f) ==
  /\ Change
  /\ f # remote[d].folder
  /\ f = Gone \/ pc = "idle" \/ LiveMoves
  /\ remote' = [remote EXCEPT ![d].folder = f]
  /\ kept' = {k \in kept : k.doc # d}
  /\ UNCHANGED <<records, disk, runVars, runs>>

LoseFile(p) ==
  /\ Change
  /\ pc = "idle"
  /\ disk[p] # Absent
  /\ disk' = [disk EXCEPT ![p] = Absent]
  /\ UNCHANGED <<records, remoteVars, runVars, runs>>

-----------------------------------------------------------------------------
(* Discovery.                                                              *)

(* What list_folder_children returns; a shortcut has a time of its own.    *)
Listing(f) ==
  {[token |-> d, target |-> d, folder |-> f, time |-> remote[d].version] :
     d \in {x \in Docs : remote[x].folder = f}}
  \cup {[token |-> g, target |-> g, folder |-> f, time |-> 0] :
          g \in {x \in Folders \ {Root} : Parent[x] = f}}
  \cup {[token |-> s, target |-> Target[s], folder |-> f, time |-> 0] :
          s \in {x \in Links : Place[x] = f}}

Begin ==
  /\ pc = "idle"
  /\ runs < MaxRuns
  /\ runs' = runs + 1
  /\ mode' \in Modes
  /\ MarkFolder(Root, None)
  /\ pc' = "discover"
  /\ todo' = Listing(Root)
  /\ visited' = {Root}
  /\ current' = {Root}
  /\ kept' = {[doc |-> d, version |-> remote[d].version] :
                d \in {x \in Docs : remote[x].folder # Gone}}
  /\ UNCHANGED <<disk, remote, truncated, queue, fetched, stale, failed, changes>>

DiscoverFolder(i) ==
  /\ pc = "discover"
  /\ i.target \in Folders
  /\ MarkFolder(i.target, i.folder)
  /\ todo' = (todo \ {i}) \cup Listing(i.target)
  /\ visited' = visited \cup {i.target}
  /\ current' = current \cup {i.target}
  /\ UNCHANGED <<disk, remoteVars, pc, mode, truncated, queue, fetched, stale, failed, counters>>

Seen(i) ==
  /\ visited' = visited \cup {i.token, i.target}
  /\ current' = current \cup {i.token, i.target}

(* Faulty variant: a skipped token is not counted as seen.                 *)
SkipUncounted(i) ==
  /\ pc = "discover"
  /\ i.target \in Docs
  /\ \/ i.target \in visited
     \/ ~MustDownload(i.target, i.time, i.folder, mode.incremental)
  /\ MarkSynced(i.target, i.time, i.folder)
  /\ visited' = visited \cup {i.token, i.target}
  /\ todo' = todo \ {i}
  /\ UNCHANGED <<disk, remoteVars, pc, mode, current, truncated, queue, fetched, stale, failed, counters>>

(* An entry whose document is planned or recorded already, or has not      *)
(* changed, is recorded as synchronised.                                   *)
Skip(i) ==
  /\ pc = "discover"
  /\ i.target \in Docs
  /\ \/ i.target \in visited
     \/ ~MustDownload(i.target, i.time, i.folder, mode.incremental)
  /\ MarkSynced(i.target, i.time, i.folder)
  /\ Seen(i)
  /\ todo' = todo \ {i}
  /\ UNCHANGED <<disk, remoteVars, pc, mode, truncated, queue, fetched, stale, failed, counters>>

(* Faulty variants: the record is written when the download is planned; a  *)
(* planned document does not count as visited.                             *)
PlanRecords(i) ==
  /\ pc = "discover"
  /\ i.target \in Docs \ visited
  /\ MustDownload(i.target, i.time, i.folder, mode.incremental)
  /\ MarkSynced(i.target, i.time, i.folder)
  /\ queue' = Append(queue, i)
  /\ Seen(i)
  /\ LET full == mode.limit > 0 /\ Len(queue') >= mode.limit IN
       /\ truncated' = full
       /\ todo' = IF full THEN {} ELSE todo \ {i}
  /\ UNCHANGED <<disk, remoteVars, pc, mode, fetched, stale, failed, counters>>

PlanUnvisited(i) ==
  /\ pc = "discover"
  /\ i.target \in Docs \ visited
  /\ MustDownload(i.target, i.time, i.folder, mode.incremental)
  /\ queue' = Append(queue, i)
  /\ current' = current \cup {i.token, i.target}
  /\ LET full == mode.limit > 0 /\ Len(queue') >= mode.limit IN
       /\ truncated' = full
       /\ todo' = IF full THEN {} ELSE todo \ {i}
  /\ UNCHANGED <<records, disk, remoteVars, pc, mode, visited, fetched, stale, failed, counters>>

(* A document to download; the discovery stops at the limit.               *)
Plan(i) ==
  /\ pc = "discover"
  /\ i.target \in Docs \ visited
  /\ MustDownload(i.target, i.time, i.folder, mode.incremental)
  /\ queue' = Append(queue, i)
  /\ Seen(i)
  /\ LET full == mode.limit > 0 /\ Len(queue') >= mode.limit IN
       /\ truncated' = full
       /\ todo' = IF full THEN {} ELSE todo \ {i}
  /\ UNCHANGED <<records, disk, remoteVars, pc, mode, fetched, stale, failed, counters>>

EndDiscovery ==
  /\ pc = "discover"
  /\ todo = {}
  /\ pc' = "download"
  /\ UNCHANGED <<records, disk, remoteVars, mode, todo, visited, current, truncated,
                 queue, fetched, stale, failed, counters>>

-----------------------------------------------------------------------------
(* Downloads, one after the other.                                         *)

Item == Head(queue)
File == <<Item.folder, Item.target>>

(* The document is fetched and its file is opened for writing.             *)
OpenFile ==
  /\ pc = "download"
  /\ queue # <<>>
  /\ remote[Item.target].folder # Gone
  /\ fetched' = remote[Item.target].version
  /\ disk' = [disk EXCEPT ![File] = Partial]
  /\ pc' = "open"
  /\ UNCHANGED <<records, remoteVars, mode, todo, visited, current, truncated,
                 queue, stale, failed, counters>>

WriteFile ==
  /\ pc = "open"
  /\ disk' = [disk EXCEPT ![File] = fetched]
  /\ pc' = "written"
  /\ UNCHANGED <<records, remoteVars, mode, todo, visited, current, truncated,
                 queue, fetched, stale, failed, counters>>

RecordDownload ==
  /\ pc = "written"
  /\ MarkSynced(Item.target, Item.time, Item.folder)
  /\ current' = current \cup {Item.token, Item.target}
  /\ queue' = Tail(queue)
  /\ pc' = "download"
  /\ UNCHANGED <<disk, remoteVars, mode, todo, visited, truncated, fetched, stale, failed, counters>>

(* Faulty variant: the next document is begun in the middle of this one.   *)
FailDownloadInPlace ==
  /\ pc \in {"download", "open"}
  /\ queue # <<>>
  /\ MarkMissing(Item.target, Item.time, Item.folder)
  /\ current' = current \cup {Item.token, Item.target}
  /\ queue' = Tail(queue)
  /\ failed' = failed \cup {Item.target}
  /\ UNCHANGED <<disk, remoteVars, pc, mode, todo, visited, truncated, fetched, stale, counters>>

(* A request or a write raises; the run goes on with the next document.    *)
FailDownload ==
  /\ pc \in {"download", "open"}
  /\ queue # <<>>
  /\ MarkMissing(Item.target, Item.time, Item.folder)
  /\ current' = current \cup {Item.token, Item.target}
  /\ queue' = Tail(queue)
  /\ failed' = failed \cup {Item.target}
  /\ pc' = "download"
  /\ UNCHANGED <<disk, remoteVars, mode, todo, visited, truncated, fetched, stale, counters>>

-----------------------------------------------------------------------------
(* The end of a run.                                                       *)

(* Whatever was recorded once and not seen in this run is stale.           *)
EndDownloads ==
  /\ pc = "download"
  /\ queue = <<>>
  /\ mode.incremental
  /\ stale' = Known \ current
  /\ pc' = "cleanup"
  /\ UNCHANGED <<records, disk, remoteVars, mode, todo, visited, current, truncated,
                 queue, fetched, failed, counters>>

DropStale(t) ==
  /\ pc = "cleanup"
  /\ stale' = stale \ {t}
  /\ \/ /\ ~mode.clean
        /\ MarkDeleted(t)
        /\ UNCHANGED disk
     \/ /\ mode.clean
        /\ disk' = [p \in Paths |-> IF p \in Resolved(records[t]) THEN Absent ELSE disk[p]]
        /\ Remove(t)
  /\ UNCHANGED <<remoteVars, pc, mode, todo, visited, current, truncated, queue,
                 fetched, failed, counters>>

Complete ==
  /\ \/ pc = "cleanup" /\ stale = {}
     \/ pc = "download" /\ queue = <<>> /\ ~mode.incremental
  /\ Forget
  /\ UNCHANGED <<records, disk, remote, counters>>

Abort ==
  /\ pc # "idle"
  /\ Forget
  /\ UNCHANGED <<records, disk, remote, counters>>

Next ==
  \/ \E d \in Docs : Edit(d) \/ \E f \in Folders \cup {Gone} : Move(d, f)
  \/ \E p \in Paths : LoseFile(p)
  \/ Begin
  \/ \E i \in todo : DiscoverFolder(i) \/ Skip(i) \/ Plan(i)
  \/ EndDiscovery
  \/ OpenFile \/ WriteFile \/ RecordDownload \/ FailDownload
  \/ EndDownloads
  \/ \E t \in stale : DropStale(t)
  \/ Complete \/ Abort

Spec == Init /\ [][Next]_vars

-----------------------------------------------------------------------------
(* Properties.  A document a shortcut stands for has records of two        *)
(* entries that overwrite each other; those without are plain.             *)

Plain == Docs \ {Target[s] : s \in Links}

(* What the next incremental run would skip is up to date on the disk,     *)
(* wherever the runs before were aborted and whatever they failed to       *)
(* download: no edit is ever lost.                                         *)
SkippedIsCurrent ==
  \A d \in Plain :
    LET now == remote[d] IN
    now.folder # Gone /\ ~MustDownload(d, now.version, now.folder, TRUE)
      => disk[<<now.folder, d>>] >= now.version

(* However often a document is listed, by itself and by shortcuts, a run   *)
(* downloads it once.                                                      *)
PlannedOnce ==
  \A m, n \in 1..Len(queue) : queue[m].target = queue[n].target => m = n

(* "Mark a document as deleted from remote": never one that was there all  *)
(* through the run, unless the limit cut the discovery short.              *)
DeletedIsGone ==
  [][\A k \in kept :
       ~truncated /\ records[k.doc].status \in {"ok", "missing"}
         => (records[k.doc].status \in {"ok", "missing"})']_vars

(* A run that completes has brought every document that stayed in its      *)
(* place to the version it had at the beginning, or a later one.           *)
MirrorsAtEnd ==
  [][Complete /\ ~truncated /\ ~mode.clean
       => \A k \in kept : k.doc \in Plain \ failed
            => disk[<<remote[k.doc].folder, k.doc>>] >= k.version]_vars

(* And the next run will not download again what has not been edited.      *)
SettledAtEnd ==
  [][Complete /\ ~truncated /\ ~mode.clean
       => \A k \in kept : k.doc \in Plain \ failed /\ remote[k.doc].version = k.version
            => ~MustDownload(k.doc, k.version, remote[k.doc].folder, TRUE)]_vars

(* What the documentation says and the code does not do.                   *)

(* "Entries deleted in the cloud are cleaned or marked, as clean_deleted   *)
(* says": the file of a document that is still there is not removed.       *)
CleansOnlyDeleted ==
  [][\A k \in kept :
       LET p == <<remote[k.doc].folder, k.doc>> IN
       ~truncated /\ disk[p] # Absent => disk'[p] # Absent]_vars

=============================================================================
