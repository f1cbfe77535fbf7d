------------------------------ MODULE JsonStore ------------------------------
(***************************************************************************)
(* What the command line keeps between two of its syncs: a JSON file       *)
(* (storage/metadata_store.py) or a SQLite database, one of which the      *)
(* configuration of each command names, and the import of the first into   *)
(* the second (storage/migration.py).  The JSON store holds its records in *)
(* memory and writes them out at intervals; commands are killed and writes *)
(* fail at any point.  The sync around the store is that of module         *)
(* SpaceSync, with one folder, so that parent paths never change.          *)
(*                                                                         *)
(* A modification time stands for a version, as in module LocalStore.      *)
(***************************************************************************)
EXTENDS Integers, FiniteSets

CONSTANTS
  Files,              \* tokens of the documents
  FlushInterval,      \* flush_interval
  Syncs,              \* the ways a sync may be configured: the store it uses,
                      \* not incremental, clean_deleted
  MaxEvents,          \* bound: edits, removals and restorations, lost files
  MaxCommands,        \* bound: commands
  MaxFaults           \* bound: kills and failed writes

ASSUME JsonAssumption ==
  /\ FlushInterval \in Nat \ {0}
  /\ Syncs \subseteq [name : {"sync"}, backend : {"json", "sqlite"}, full : BOOLEAN, clean : BOOLEAN]
  /\ MaxEvents \in Nat /\ MaxCommands \in Nat /\ MaxFaults \in Nat

VARIABLES
  space,              \* the documents at Feishu
  copies,             \* the local files
  json,               \* the JSON file
  db,                 \* the SQLite database
  data,               \* _data: the records of the open JSON store
  dirty,              \* _dirty
  updates,            \* _updates_since_flush
  command,            \* the command that runs
  step,               \* where it is
  seen,               \* the documents its discovery has met
  queued,             \* the time each planned document was listed with, or 0
  lapsed,             \* the files cut off that a store may not know of (history)
  failing,            \* a write of this command has failed (history)
  spent               \* events, commands and faults so far

jsonStored == <<json, db>>
openStore  == <<data, dirty, updates>>
jsonRun    == <<command, step, seen, queued>>
jsonVars   == <<space, copies, jsonStored, openStore, jsonRun, lapsed, failing, spent>>

Entry ==
  [status : {"none", "ok", "missing", "deleted"}, time : Nat, size : {"unknown", "short", "full"}]
NoEntry == [status |-> "none", time |-> 0, size |-> "unknown"]
Empty   == [f \in Files |-> NoEntry]

(* A file is there or not, holds records, is cut off, or cut off within a  *)
(* character.                                                              *)
Stored == [state : {"none", "torn", "garbled", "good"}, records : [Files -> Entry]]
Without(state) == [state |-> state, records |-> Empty]
Good(records)  == [state |-> "good", records |-> records]

Backends == {"json", "sqlite"}
NoCommand == [name |-> "none", backend |-> "json", full |-> FALSE, clean |-> FALSE]
Migrate == [NoCommand EXCEPT !.name = "migrate", !.backend = "sqlite"]

JsonTypeOK ==
  /\ space \in [Files -> [version : Nat, listed : BOOLEAN]]
  /\ copies \in [Files -> [version : Nat, whole : BOOLEAN]]
  /\ json \in Stored /\ db \in Stored /\ db.state \in {"none", "good"}
  /\ data \in [Files -> Entry]
  /\ dirty \in BOOLEAN
  /\ updates \in 0..(FlushInterval - 1)
  /\ command \in {NoCommand, Migrate} \cup Syncs
  /\ step \in {"idle", "import", "reset", "discover", "download", "write", "mark", "clean"}
  /\ seen \subseteq Files
  /\ queued \in [Files -> Nat]
  /\ lapsed \subseteq Backends \X Files /\ failing \in BOOLEAN
  /\ step = "idle" <=> command = NoCommand
  /\ command.backend = "sqlite" => data = Empty /\ ~dirty /\ updates = 0

NoCopy == [version |-> 0, whole |-> FALSE]

(* Before the first sync, or after a complete one into the JSON file.      *)
JsonInit ==
  /\ space = [f \in Files |-> [version |-> 1, listed |-> TRUE]]
  /\ db = Without("none")
  /\ \/ json = Without("none") /\ copies = [f \in Files |-> NoCopy]
     \/ /\ json = Good([f \in Files |-> [status |-> "ok", time |-> 1, size |-> "unknown"]])
        /\ copies = [f \in Files |-> [version |-> 1, whole |-> TRUE]]
  /\ data = Empty /\ dirty = FALSE /\ updates = 0
  /\ command = NoCommand /\ step = "idle" /\ seen = {} /\ queued = [f \in Files |-> 0]
  /\ lapsed = {} /\ failing = FALSE
  /\ spent = [events |-> 0, commands |-> 0, faults |-> 0]

Count(what, max) == spent[what] < max /\ spent' = [spent EXCEPT ![what] = @ + 1]
Fault == Count("faults", MaxFaults)

-----------------------------------------------------------------------------
(* The user.                                                               *)

Event == Count("events", MaxEvents) /\ UNCHANGED <<jsonStored, openStore, jsonRun, lapsed, failing>>

EditFile(f) ==
  /\ Event
  /\ space' = [space EXCEPT ![f].version = @ + 1]
  /\ UNCHANGED copies

RemoveOrRestore(f) ==
  /\ Event
  /\ space' = [space EXCEPT ![f].listed = ~@]
  /\ UNCHANGED copies

LoseCopy(f) ==
  /\ Event
  /\ step = "idle" /\ copies[f].version # 0
  /\ copies' = [copies EXCEPT ![f] = NoCopy]
  /\ UNCHANGED space

-----------------------------------------------------------------------------
(* The store.                                                              *)

There(f) == copies[f].version # 0
SizeOf(f) == IF ~There(f) THEN "unknown" ELSE IF copies[f].whole THEN "full" ELSE "short"

Records == IF command.backend = "json" THEN data ELSE db.records

(* The end of a command, wherever it comes.                                *)
Over ==
  /\ command' = NoCommand /\ step' = "idle"
  /\ seen' = {} /\ queued' = [f \in Files |-> 0]
  /\ data' = Empty /\ dirty' = FALSE /\ updates' = 0
  /\ failing' = FALSE

(* At the end of a command the other store knows nothing of the files that *)
(* it left cut off, and a store that lost records may not either.          *)
CutOff == {f \in Files : There(f) /\ ~copies[f].whole}
Lapse(stores) == lapsed' = lapsed \cup (stores \X CutOff)

(* _write with the records it is given: by way of a temporary file, or in  *)
(* place where that fails (network file systems), which a full disk cuts   *)
(* short and which nobody is told of.                                      *)
WriteOut(records) ==
  \/ /\ json' = Good(records) /\ dirty' = FALSE
     /\ UNCHANGED <<failing, spent>>
  \/ /\ json' \in {json, Without("torn"), Without("garbled")} /\ dirty' = TRUE
     /\ failing' = TRUE /\ Fault

(* Faulty variant: the mark of a failed download is not counted.           *)
StoreUncounted(f, entry) ==
  LET records == [Records EXCEPT ![f] = entry]
      counted == IF entry.status = "missing" THEN 0 ELSE 1
  IN IF command.backend = "json"
     THEN /\ data' = records
          /\ UNCHANGED db
          /\ IF updates + counted < FlushInterval
             THEN updates' = updates + counted /\ dirty' = TRUE /\ UNCHANGED <<json, failing, spent>>
             ELSE WriteOut(records) /\ updates' = 0
     ELSE db' = Good(records) /\ UNCHANGED <<json, openStore, failing, spent>>

(* A record is stored: at once in the database; in memory in the other     *)
(* store, which is written out when FlushInterval of them have come up.    *)
Store(f, entry) ==
  LET records == [Records EXCEPT ![f] = entry]
  IN IF command.backend = "json"
     THEN /\ data' = records
          /\ UNCHANGED db
          /\ IF updates + 1 < FlushInterval
             THEN updates' = updates + 1 /\ dirty' = TRUE /\ UNCHANGED <<json, failing, spent>>
             ELSE WriteOut(records) /\ updates' = 0
     ELSE db' = Good(records) /\ UNCHANGED <<json, openStore, failing, spent>>

MarkOk(f, time) ==
  Store(f, [status |-> "ok", time |-> time,
            size |-> IF command.backend = "json" THEN "unknown" ELSE SizeOf(f)])
MarkMiss(f, time) == Store(f, [Records[f] EXCEPT !.status = "missing", !.time = time])
MarkGone(f) == Store(f, [Records[f] EXCEPT !.status = "deleted"])

(* remove: not counted.                                                    *)
Drop(f) ==
  /\ \/ command.backend = "json" /\ data' = [data EXCEPT ![f] = NoEntry] /\ dirty' = TRUE /\ UNCHANGED db
     \/ command.backend = "sqlite" /\ db' = [db EXCEPT !.records[f] = NoEntry] /\ UNCHANGED <<dirty, data>>
  /\ UNCHANGED <<json, updates, failing, spent>>

(* Faulty variant: a failed download looks like a record.                  *)
MustLoadUnlessMissing(f) ==
  LET e == Records[f] IN
  \/ command.full
  \/ e.status \in {"none", "deleted"}
  \/ ~There(f)
  \/ e.time # space[f].version
  \/ command.backend = "sqlite" /\ e.size # "unknown" /\ e.size # SizeOf(f)

(* should_download, with force_on_missing.  Only the database has sizes.   *)
MustLoad(f) ==
  LET e == Records[f] IN
  \/ command.full
  \/ e.status # "ok"
  \/ ~There(f)
  \/ e.time # space[f].version
  \/ command.backend = "sqlite" /\ e.size # "unknown" /\ e.size # SizeOf(f)

-----------------------------------------------------------------------------
(* The start of a command.                                                 *)

Begin(c) ==
  /\ step = "idle"
  /\ Count("commands", MaxCommands)
  /\ command' = c
  /\ UNCHANGED <<space, copies, seen, queued, lapsed, failing>>

(* _load: what cannot be parsed is no record; what cannot be decoded raises*)
(* an error no one handles, and the command does not start.                *)
OpenJson(c) ==
  /\ c.backend = "json"
  /\ json.state # "garbled"
  /\ Begin(c)
  /\ step' \in {"reset", "discover"}
  /\ data' = json.records
  /\ UNCHANGED <<jsonStored, dirty, updates>>

(* A sync imports into a database that is not there yet, the command for   *)
(* it into any.                                                            *)
ImportDue(c) == json.state # "none" /\ (db.state = "none" \/ c = Migrate)

(* The database is created first and the import comes after it.            *)
OpenDatabase(c) ==
  /\ c.backend = "sqlite"
  /\ Begin(c)
  /\ IF ImportDue(c)
     THEN step' = "import"
     ELSE c # Migrate /\ step' \in {"reset", "discover"}
  /\ db' = Good(db.records)
  /\ UNCHANGED <<json, openStore>>

(* One transaction of INSERT OR IGNORE.                                    *)
Import ==
  /\ step = "import"
  /\ db' = Good([f \in Files |->
       IF db.records[f] = NoEntry THEN [json.records[f] EXCEPT !.size = "unknown"] ELSE db.records[f]])
  /\ \/ command = Migrate /\ Over
     \/ /\ command # Migrate
        /\ IF json.state = "garbled"
           THEN Over
           ELSE step' \in {"reset", "discover"} /\ UNCHANGED <<command, seen, queued, openStore, failing>>
  /\ lapsed' = lapsed \cup {<<"sqlite", f>> : f \in {g \in Files : <<"json", g>> \in lapsed}}
  /\ UNCHANGED <<space, copies, json, spent>>

(* --reset-metadata: clear before anything else.                           *)
Reset ==
  /\ step = "reset"
  /\ step' = "discover"
  /\ \/ /\ command.backend = "json"
        /\ data' = Empty /\ WriteOut(Empty) /\ updates' = 0
        /\ UNCHANGED db
     \/ /\ command.backend = "sqlite"
        /\ db' = Good(Empty)
        /\ UNCHANGED <<json, openStore, failing, spent>>
  /\ UNCHANGED <<space, copies, command, seen, queued, lapsed>>

-----------------------------------------------------------------------------
(* The sync.                                                               *)

(* The order of the listing and that of the queue are the same.            *)
First(files) == CHOOSE f \in files : TRUE
Unseen == {f \in Files \ seen : space[f].listed}
Listed == First(Unseen)

(* A document is planned, or recorded as it is.                            *)
Plan ==
  /\ step = "discover" /\ Unseen # {}
  /\ MustLoad(Listed)
  /\ seen' = seen \cup {Listed}
  /\ queued' = [queued EXCEPT ![Listed] = space[Listed].version]
  /\ UNCHANGED <<space, copies, jsonStored, openStore, command, step, lapsed, failing, spent>>

Skip ==
  /\ step = "discover" /\ Unseen # {}
  /\ ~MustLoad(Listed)
  /\ seen' = seen \cup {Listed}
  /\ MarkOk(Listed, space[Listed].version)
  /\ UNCHANGED <<space, copies, command, step, queued, lapsed>>

Discovered ==
  /\ step = "discover" /\ Unseen = {}
  /\ step' = "download"
  /\ UNCHANGED <<space, copies, jsonStored, openStore, command, seen, queued, lapsed, failing, spent>>

Busy    == {f \in Files : queued[f] # 0}
Current == First(Busy)

(* The file is opened, which empties it.                                   *)
OpenFile ==
  /\ step = "download" /\ Busy # {}
  /\ copies' = [copies EXCEPT ![Current] = [version |-> space[Current].version, whole |-> FALSE]]
  /\ step' = "write"
  /\ UNCHANGED <<space, jsonStored, openStore, command, seen, queued, lapsed, failing, spent>>

CloseFile ==
  /\ step = "write"
  /\ copies' = [copies EXCEPT ![Current].whole = TRUE]
  /\ step' = "mark"
  /\ UNCHANGED <<space, jsonStored, openStore, command, seen, queued, lapsed, failing, spent>>

MarkFile ==
  /\ step = "mark"
  /\ MarkOk(Current, queued[Current])
  /\ queued' = [queued EXCEPT ![Current] = 0]
  /\ step' = "download"
  /\ lapsed' = lapsed \ (Backends \X {Current})
  /\ UNCHANGED <<space, copies, command, seen>>

(* The request is refused, or the stream breaks.                           *)
DownloadFails ==
  /\ step = "write" \/ (step = "download" /\ Busy # {})
  /\ MarkMiss(Current, queued[Current])
  /\ queued' = [queued EXCEPT ![Current] = 0]
  /\ step' = "download"
  /\ UNCHANGED <<space, copies, command, seen, lapsed>>

Downloaded ==
  /\ step = "download" /\ Busy = {}
  /\ step' = "clean"
  /\ UNCHANGED <<space, copies, jsonStored, openStore, command, seen, queued, lapsed, failing, spent>>

(* _mark_deleted_tokens; a full sync does not come here.                   *)
Strays == {f \in Files \ seen : ~command.full /\ Records[f].status # "none"}

MarkStale ==
  /\ step = "clean" /\ Strays # {}
  /\ LET f == First(Strays) IN
     /\ \/ command.clean /\ Drop(f) /\ copies' = [copies EXCEPT ![f] = NoCopy]
        \/ ~command.clean /\ MarkGone(f) /\ UNCHANGED copies
     /\ seen' = seen \cup {f}
  /\ UNCHANGED <<space, command, step, queued, lapsed>>

(* flush, and the end of the process.                                      *)
Flush ==
  /\ step = "clean" /\ Strays = {}
  /\ \/ ~dirty /\ Lapse(Backends \ {command.backend}) /\ UNCHANGED <<json, spent>>
     \/ dirty /\ json' = Good(data) /\ Lapse(Backends \ {command.backend}) /\ UNCHANGED spent
     \/ /\ dirty /\ Fault
        /\ json' \in {json, Without("torn"), Without("garbled")}
        /\ Lapse(Backends)
  /\ Over
  /\ UNCHANGED <<space, copies, db>>

(* The process is killed, perhaps in the middle of a write in place; or    *)
(* the listing fails and the error ends it without a flush.                *)
Killed ==
  /\ step # "idle"
  /\ Fault
  /\ Over
  /\ Lapse(Backends)
  /\ json' \in {json} \cup (IF dirty THEN {Without("torn"), Without("garbled")} ELSE {})
  /\ UNCHANGED <<space, copies, db>>

Working ==
  \/ Import \/ Reset \/ Plan \/ Skip \/ Discovered
  \/ OpenFile \/ CloseFile \/ MarkFile \/ DownloadFails \/ Downloaded
  \/ MarkStale \/ Flush \/ Killed

JsonNext ==
  \/ Working
  \/ \E c \in Syncs \cup {Migrate} : OpenJson(c) \/ OpenDatabase(c)
  \/ \E f \in Files : EditFile(f) \/ RemoveOrRestore(f) \/ LoseCopy(f)

JsonSpec == JsonInit /\ [][JsonNext]_jsonVars

-----------------------------------------------------------------------------
(* Properties.                                                             *)

(* A document is passed over only when the file holds what Feishu has,     *)
(* whichever of the two stores said so, and whatever kills, failed writes, *)
(* imports, changes of the backend and lost files came before; except for  *)
(* a file cut off by a command whose record of that is lost or elsewhere.  *)
SkippedIsCurrent ==
  step = "discover" /\ Unseen # {} /\ ~MustLoad(Listed) =>
    \/ copies[Listed] = [version |-> space[Listed].version, whole |-> TRUE]
    \/ <<command.backend, Listed>> \in lapsed /\ ~copies[Listed].whole

(* A kill costs fewer than FlushInterval of the records made, counting the *)
(* downloads that failed, as long as the file can be written; removals     *)
(* are not counted, nor is anything once a write has failed.               *)
LossIsBounded ==
  command.backend = "json" /\ ~failing /\ step # "reset" =>
    Cardinality({f \in Files : data[f] \notin {NoEntry, json.records[f]}}) < FlushInterval

=============================================================================
