# LarkSync: models, checks and proofs

TLA+ specifications of LarkSync (`src/larksync`), a Python program that mirrors a
user's Feishu space and wikis to the local disk, from the command line or from a
web server with a scheduler. Every definition is read off the code; `PROJECT.json`
names the lines each one stands for (`map`), the runs of TLC, one seeded bug per
property (`mutants`), the hazards of the code and the theorems.

Everything is run inside this directory:

    tlc -workers 2 -config Space.cfg MCSpaceSync      # one run
    tlapm SpaceSyncProofs.tla                         # the proofs of a module

## 1. The system

| component | state it keeps | operations | talks to |
|---|---|---|---|
| sync scheduler (`web/scheduler.py`, `routes/sync_configs.py`, `routes/sync_runs.py`) | `_running_jobs`, `_queued_jobs`, the `asyncio.Queue`, rows of `sync_runs` and `sync_configs` | trigger, cron job, queue runner, dispatch, cancel, delete, cleanup at start | the token endpoint (awaited), executor threads, the database |
| worker thread (`web/sync_service.py`) | the row of its run, progress counters | start, retry after a refresh, finish, fail, auth required | the same rows as the event loop, a synchronizer |
| space sync (`core/space_sync.py`) | `_visited`, `_current_tokens`, the download queue, `_discovery_truncated` | discover, decide, download, mark deleted | Feishu's listings, the metadata store, the disk |
| wiki sync (`core/wiki_sync.py`) | `_visited`, `_visited_origins`, the recursion, the candidates | the same, depth first, through shortcuts | the same |
| metadata store (`storage/sqlite_store.py`, `strategies/`, `migration.py`) | one record per token | `should_download`, `mark_synced`, `mark_missing`, `mark_deleted`, `remove` | both synchronizers, one file per user |
| rate limiter (`utils/rate_limit.py`) | per key a deque of times and a lock | `acquire` | every thread that calls the API |
| tokens and login (`web/auth.py`, `routes/auth.py`, `deps.py`) | access and rotating refresh token of each user | login, logout, refresh, periodic refresh | scheduler, threads |
| CLI login (`cli_oauth.py`, `web/state.py`, `routes/cli_auth.py`) | sessions with an expiry, a token file | create, poll, callback, refresh | browser, server, token endpoint |
| API client, exports (`core/api_client.py`, `downloaders/export_downloader.py`) | attempts and polls of the request at hand | request with retries, poll an export | rate limiter, Feishu |
| docx downloader (`downloaders/docx_downloader.py`, `structure_downloaders.py`, `reference_cache.py`) | a process-wide cache of paths | download a document, its images and the documents it names | disk, five threads |
| docx parser (`parsers/docx_parser.py`) | lines so far, blocks consumed, whether a list is open | walk the tree of blocks | the docx downloader |
| JSON metadata store (`storage/metadata_store.py`, `bootstrap.py`, `storage/migration.py`) | records in memory, a dirty flag, a counter | batched writes, replace, import into SQLite | disk, the command line |
| CLI output, configuration, front end | none that matters | conversions | |

What makes it hard:

* **Interleaving.** Handlers, cron jobs and the queue runner are coroutines of one
  loop and change places wherever they await; the threads of the jobs run beside
  the loop and write the same rows.
* **State read before an await and used after it** (the flags before a token
  refresh, the status of a run before its dispatch, the clock before a lock).
* **Crashes.** The queue and the flags die with the process, the rows do not; a sync
  leaves half-written files and records that are older or newer than the files.
* **A moving source.** Documents are edited, moved and deleted while a run lists
  and downloads them; what is recorded is the time that was listed, what is
  written is what was fetched later.
* **Two names for one thing.** Shortcuts list a document or a whole subtree a
  second time, and may contain themselves.

The properties that make the components correct: an unfinished run has an owner
and a config at most one of them (but for what a failed set-up leaves), runs are served in order and finished ones stay
finished; no run is left waiting; a document that a later run will skip is up to
date on the disk, whatever happened before; nothing that is still there is
deleted; a run downloads a document once and ends; a window of the rate limiter
is exceeded by one call at most and its lock is released; no refresh token that is still
good is thrown away by another caller, unless two requests of a run write at the same
time; what is shown of an export is the last one that came whole; a link
leads to a file; the text of a document comes out once and in order.

## 2. The plan

| | module | status |
|---|---|---|
| 1 | `SyncScheduler`, with `RunQueue` as its abstract specification, `SyncSchedulerProofs` | written, checked, proved |
| 2 | `RateLimiter`, `RateLimiterProofs` | written, checked, proved |
| 3 | `LocalStore`, `SpaceSync`, `MCSpaceSync`, `SpaceSyncProofs` | written, checked, proved |
| 4 | `WikiSync`, `MCWikiSync`, `WikiSyncProofs` | written, checked, proved |
| 5 | `TokenService` with its users `WebTokens`, `CliTokens`, `CliSessions`; `MCLogin`, `TokenProofs`, `CliSessionsProofs` | written, checked, proved |
| 6 | `ExportTask`, `JsonStore`, `DocReferences`; `MCDownloads`, `DownloadProofs` | written, checked, proved |
| 7 | `DocParser`, `DocParserProofs` | written, checked, proved |

"Proved" means every invariant and action property that a passing run checks of these
modules, and of their compositions `MCLogin` and `MCDownloads`; liveness stays with TLC.

Not planned any more: a composition of `SpaceSync` and `WikiSync` over one store
(the product of their states is out of TLC's reach within minutes, and what a space
run does to the records of a wiki is plain from its code, see section 7), and the
event stream of a run, which only reads.

## 3. The modules

### SyncScheduler (and RunQueue)

Everything a coroutine does between two awaits is one action; what a thread does
between two commits is one action. `Trigger`, `CronFire` and the queue runner
(`RunnerGet`) call `_enqueue_or_execute` / `_execute_sync_job_now`; each splits at
the one await that matters, the token refresh: `ResumeRequest` continues a trigger
or a cron job, `JobRefreshed` / `JobRefreshRefused` a dispatch. `Thread(c)` is the
worker: `ThreadBegin`, `ThreadStart`, `ThreadRetry`, `ThreadFinish`,
`ThreadReturn`, `ThreadFail`, `ThreadAuthRequired` are its status writes in the
order of `UserSyncService.execute`. `ThreadSetupFails` is an error before all of them: the
constructor of the service makes a directory outside the `try` (`scheduler.py:483`),
the error ends the thread, the flags are cleared, and the row stays `pending`;
`stranded` (history) keeps these rows. `JobDone` is the loop after the thread has
returned. `CancelRead` and `CancelWrite` are two actions although the handler does
not await between them, because the thread runs beside it. `DeleteConfig` deletes
rows and leaves queue items, flags and threads. `Restart` clears the memory and
runs `_cleanup_stale_runs`.

A run is its config and its status; statistics, errors and times are left out.
Jobs of cron may fire at any time. `ReuseIds` gives out a deleted highest row id
again (SQLite without `AUTOINCREMENT`); `DbErrors` lets commits fail.

`RunQueue` promises what `force_queue` is for: a line, first come first served,
one at a time, from which runs may be withdrawn. It keeps who waits, who is ahead
of whom and who is served. `SubmissionOrder` is the refinement: those who wait are
the runner's item and the items of the queue, without those whose rows are no
longer `queued`, in the order of the queue behind the runner's item; served are the
runs in a thread.

### RateLimiter

One key with its deque and its lock; `acquire` is cut into looking the lock up (or
creating it under the global lock), taking it, reading the clock, pruning,
deciding, and either granting or sleeping with the lock in hand. `Tick` is time.
`log` (history) keeps the grants, with the clock as the caller read it, which is what the
deque holds, and the clock at the grant. A caller that is delayed between the two is let
through later than its stamp says, so of the calls really let through `Capacity` in an
interval is not kept; `RateIsLimited` says that the excess is one.

### LocalStore

The table of the SQLite store and the disk, with one operator per operation of the
store, shared by the two synchronizers. A file holds the version it was written
from, nothing (`Absent`), or the beginning of a version (`Partial`); a
modification time stands for a version. `MustDownload` and `MustDownloadCloudDoc`
are the decision as each synchronizer reaches it through `should_download_compat`:
the space sync passes no file type, so `FileStrategy` decides (which compares
sizes); the wiki sync passes one, so `CloudDocStrategy` does (which does not). The
stored relative path is looked up from the working directory of the process, which
is not the storage root, so only the expected path counts.

### SpaceSync

`Begin`, then one action per listed entry: `DiscoverFolder`, `Skip` (recorded as
synchronised), `Plan`. A set of entries that are still to be handled replaces the
recursion: a folder comes before its contents, and otherwise the server decides the
order. `OpenFile`, `WriteFile`, `RecordDownload` and `FailDownload` are a download;
`EndDownloads` and `DropStale` are `_mark_deleted_tokens`, one token at a time;
`Abort` is an exception of the listing or the end of the process, anywhere. `Edit`,
`Move` and `LoseFile` are the users. `kept` and `failed` are history for the
properties. `LiveMoves` says whether documents may be moved between folders under
a running discovery; deletions and edits always may. Shortcuts stand for documents;
those to a folder or a wiki are left out (section 7).

### WikiSync

`stack` is the recursion of `_discover_nodes`, one frame per listing with the node
it is of and the entries still to be handled. `Enter` records the folder of a node
and descends, into the origin of a shortcut if it has not been entered in this run
(`LeadsTo`); `Return` comes back to the node and decides about its own document;
`LookAt` handles a node with nothing below it; `PassOver` one that was visited. A
folder is the sequence of nodes that leads to it, because a shortcut can put a node
under several. Nothing is marked missing or deleted, as in the code. Nodes with
children stay in their place (a tree cannot be moved below itself).

### TokenService and its users: WebTokens, CliTokens, CliSessions

`TokenService` is Feishu's endpoint as the code uses it: a pair is the number of
its issue, a refresh token works once, and an answer is in flight (`answer`)
between the action that sends the request and the action that deals with it, so
that everything may happen in between. An answer may get lost after the endpoint
has acted (`lost`). `Redeemable` is the promise that all users share: a token that
is kept is good, or its successor is on the way or was lost.

`WebTokens` has one user's row and everybody who renews it: `JobAsk`/`JobAnswer`
(the periodic job), `Trigger…` and `Dispatch…` (`Ensure`, `Ensured` are
`_ensure_user_access_token`), `RefreshAsk`/`RefreshAnswer` (the route),
`LoginAsk`/`LoginAnswer`, the thread of a run (`ThreadAsk`/`ThreadAnswer`, with
`view` and `loaded` for what its database session holds) and its requests. A session
writes only the columns it changed, and forgets what it read at each commit (`Progress`);
both matter and both are in the model. `Denied` is a request answered with an
authentication error.

A coroutine has a session of its own and does not await between its assignments and
its commit, so it stores a pair in one step (`Store`), or loses it with a commit that
fails (`StoreFails`). The requests of a run are sent by up to five pool threads
(`docx_downloader.py:522`, `600`) that share one session and one user object without
a lock, so each writes in four steps: the access token (`WorkerTakes`), the refresh
token (`WorkerSets`), the flush of whatever is set by then (`WorkerFlushes`), the commit
(`WorkerCommits`). `unsaved` and `flushed` are the columns on the shared object, `broken`
a session whose flush failed (`FlushFails`) and that raises until it is rolled back.
Where two writings overlap, a commit may be refused or raise with or without effect
(`CommitRefused`, `CommitRaises`), and a column set after the flush of another is
forgotten with that one's commit; `lost` and `clashed` (history) keep the pairs this
happened to. A run that could not record its end is `abandoned`: its row says that it is
active until the next start.

`CliTokens` is the cache file of the command line, emptied and then written in its
place, and `authorize_interactive` with its local server; `CommandOf`
says which callers belong to one process. `CliSessions` is a login through the
server: the two tables of the store, `Poll`, the callback in two steps
(`CallbackAsk`, `CallbackAnswer`), expiry found on access, and a restart. An error whose
text is empty is no error to the session.

### ExportTask

The downloads of one sheet, one after the other, over a cache that is never cleared and a
file that each of them opens anew. A download is a sequence of requests (the name,
without which it goes on if Feishu answered; the task; the polls; the stream), each with
its attempts (`tries`) and the three kinds of failure that are repeated; `Retry` is the
end of the loop in `FeishuAPIClient._request`. Feishu may have created a task whose
answer was lost. `known` is the export whose path was registered last, `target` the
export in the file and whether it is whole; `older` tells the tasks of earlier downloads
from this one's. A stream that is answered with 429, 502, 503 or 504 is not repeated:
the error message reads the text of a response that was not read, which raises.

### JsonStore

The two stores a command may use, the import of one into the other, and a sync in
the steps that touch a store or a file. `Store` is the batched write, `WriteOut`
`_write` with its fallback in place. The sync is that of `SpaceSync` over one
folder: what is new here is what lies between memory and disk. `lapsed` is history:
files cut off of which a store may not know, because the record was lost or is in
the other store.

### DocReferences

`stack` is the recursion of `DocxDocumentDownloader.download` through references:
`Fetch` writes the file and registers it, `FindKnown` and `Follow` are the two ways
a reference is resolved, `Finish` rewrites the links. `cache` is the process-wide
`reference_cache`; runs follow each other, files get lost between them, and the
process restarts. `links` are those of each file, as file to file.

### DocParser

The recursion of `_render_block_tree` as a list of calls still to be made, and the
builder's `_lines` and `_in_list`. Initial states are all documents of `BlockCount`
blocks, of nine kinds. The blocks are numbered in the order of the document
(`InDocumentNumbers`: what is below a block follows it at once), so that "above" and
"before" are comparisons of numbers and need no recursion; the code sees only the
order among siblings (`_children_index`). A line shows its blocks in parts: a
paragraph has one, a table one for each of its cells.

## 4. What TLC checks

| run | instance | shows |
|---|---|---|
| `SchedQueue` | 2 configs, 3 runs, cron jobs that wait for the token, a restart, `force_queue`, tokens expire | every unfinished row has an owner or was left by a failed set-up; the shown queue position is the real one; cancelling before the dispatch is effective; finished runs stay finished; refinement of `RunQueue` |
| `SchedFaults` | 2 configs, 3 runs, a restart, commits fail, ids reused, tokens do not expire | flags are backed and execution is serial after every fault, although rows may be of another config |
| `SchedDirect` | 2 configs, 3 runs, a restart, tokens expire, no `force_queue` | no config has two unfinished runs where jobs run in parallel, those left by a failed set-up not counted |
| `SchedLive` | 2 configs, 2 runs, fairness | no run stays queued and no config stays locked for ever |
| `SchedDoubleQueue` | 1 config, 2 runs | **violated**: two triggers while the token is being refreshed queue two runs of one config |
| `SchedReusedIds` | 3 configs, 3 runs, ids reused | **violated**: a stale item or thread acts on a run of another config |
| `Space` | 2 documents, a root and a subfolder, a shortcut, 2 runs in any of 4 modes, 2 changes by users | what is skipped is current; planned once; only what is gone is marked; a completed run mirrors and leaves nothing to do |
| `SpaceClean` | the same without the shortcut, `clean_deleted` on | **violated**: files of documents that still exist are removed |
| `Wiki` | a branch, a leaf, a shortcut to the branch (possibly inside it), 2 runs in 2 modes, 2 changes | what a shortcut repeats is entered once and downloaded once; no record ahead of its file; a completed run brings every leaf up to date |
| `WikiEdits` | a branch and a leaf, incremental runs | **violated**: an edit of a node with children is not downloaded |
| `Login` | 8 callers on the server with one run, 3 pairs; 2 commands, 2 pairs; a session and 2 tabs, 2 pairs; one answer lost in each; fairness | no caller throws away a token that is good or mixes two pairs, but where requests of the run write at the same time or a commit fails, and none is refused without cause; a stale token is renewed; a token request of a command comes back; the page a browser shows and the session agree |
| `Downloads` | a limiter of 3 threads, capacity 2, 4 grants; exports of a sheet with 2 attempts, 2 polls, 3 tasks; 2 files, flush after 2, 2 commands, one change, one fault; 4 documents that cite each other in cycles, 2 runs, 2 mishaps; every document of 4 blocks; fairness | a window is exceeded by one call at most, the lock is released; what is shown of a sheet is the last export that came whole, and a download ends; skipped files are current, losses are bounded; a run fetches a page once, links lead somewhere; the text comes out once and in order |

`Login` and `Downloads` each hold parts that share no state; a behaviour belongs to
one part (`part`) while the others rest, so that their states add up and do not
multiply. Fairness is asked of the part that moves. `LoginTypeOK` and `DownloadsTypeOK`
are the type invariants of the parts together.

The bounds. Conflicts in the scheduler are between two configs, or two runs of one
config; a third run is there to come after, and the reuse of an id needs a third
config. One request that waits for the token is enough for it to be overtaken, a cron job
(`SchedQueue`) or a trigger (`SchedLive`, `SchedDoubleQueue`), and one restart for
everything to be lost once. In `Login` a third pair is what a second renewal gives while the first is still
under way, and two tabs, commands or requests of a run are what it takes to cross; in `Downloads`
three tasks are one of an earlier download and two of a later one whose first answer was
lost, two
commands are one that leaves something behind and one that meets it, the cycles of
references reach one level deeper than `MaxDepth`, and four blocks are the least
for a table with something below one of its cells. In the rate limiter three threads give one who holds
the lock, one who waits for it and one who is yet to look it up, and four grants fill two
windows. Two runs are what it takes for one to leave something behind that the
next finds; two changes allow an edit and a move, or a lost file and an edit;
initial placements are arbitrary in `Space`, and in `Wiki` every place but that of
the deleted. Deeper trees add longer paths and no new way to be visited twice. In
both the state space ends with the last run (`BeforeTheEnd`), and in `Wiki` users
change nothing before the first run, since another initial state is the same.
Deadlock is not checked anywhere: all these systems stop when a bound is reached.
Symmetry is not used.

What TLC found and the code does, each a `finding`:

* `OneActiveRunPerConfig` fails where a trigger awaits a token refresh
  (`scheduler.py:243`): flags are read before the await and set after it.
* `RunExecutesItsConfig` fails where SQLite reuses the ids of deleted runs.
* `CleansOnlyDeleted`: a document whose first download failed has a record without
  a path; when it is deleted from the cloud, `_mark_deleted_tokens` resolves that
  record to the parent folder and removes the whole tree.
* `EditsAreSeen`: `_process_node` stores the folder of a node with children under
  the token of the node, with the new edit time and status `ok`, before it asks the
  store whether the document of the node has changed. It never has.

Where a property is weaker than one would like, the code is the reason:
`DeletedIsGone` leaves out runs cut short by the limit, which mark everything they
did not reach; `SkippedIsCurrent` and `SettledAtEnd` leave out documents with
shortcuts, whose two entries overwrite each other's record; `LeavesMirroredAtEnd`
leaves out files that an aborted run truncated while their record was current,
which `CloudDocStrategy` does not notice; `ActiveRunIsOwned` and `OneActiveRunPerConfig`
leave out the rows a failed set-up has stranded; `RefreshTokenKept` and `TokensArePaired`
leave out pairs lost with an answer or a commit and those that overlapping requests of a
run wrote; `KnownIsLatest` a file that a later download has opened and not brought to its
end; `SuccessIsKept` sessions that expired while their code was exchanged. Each exemption
is a history variable or a condition in the property, so that nothing else may hide
behind it.

## 5. Fairness

Only `SchedLive`, `Login` and `Downloads` assume any. Scheduler, all weak: the event
loop runs what is ready (`RunnerGet`, `JobDone`, `CancelWrite`); the token endpoint
is called with a timeout, so a refresh ends one way or the other
(`ResumeRequest`, and `JobRefreshed` or `JobRefreshRefused`); a thread takes its
next step because requests are bounded in number and time (`api_client.py:132`).
Nothing is assumed of triggers, cron jobs, cancellations, failures or restarts.
Rate limiter: time passes, and the thread that is inside the lock is scheduled;
nothing is assumed of who gets the lock next, and no property promises a turn.
Export: an attempt is answered or times out, and the download takes its next step;
nothing is assumed of Feishu's tasks. Web tokens: weak fairness of the answers, of
the dispatch and of the thread; strong fairness of the periodic job asking and being
granted and stored, because it is called again and again and a failing endpoint or
database recovers; and that requests stop being denied some day, without which runs go round for ever.
Command line: weak fairness of each caller's next step, the time limit of
the login among them. Sessions: none.

## 6. What is proved

All theorems hold for every value of the constants that satisfies the assumptions
of the modules, and without the bounds TLC needs on state constraints.

| theorem | property | extra hypotheses |
|---|---|---|
| `TypeCorrect` | `TypeOK` of `SyncScheduler` | |
| `FlagsAreBacked`, `ExecutionIsSerial` | `FlagsBacked`, `SerialExecution` | |
| `UnfinishedIsOwned` | `ActiveRunIsOwned` (rows left by a failed set-up excepted) | ids are not reused, commits succeed |
| `FinishedIsFinal` | `FinishedIsNotRevived` | the same |
| `CancelBeforeDispatch` | `CancelledIsNotDispatched` | the same |
| `OneActiveRun` | `OneActiveRunPerConfig` (rows left by a failed set-up not counted) | the same, and `force_queue` only if tokens do not expire |
| `PositionIsHonest` | `QueuePositionHonest` | ids are not reused, commits succeed |
| `RunsAreOfTheirConfig` | `RunExecutesItsConfig` | ids are not reused, commits succeed |
| `ServedInOrder` | `SubmissionOrder` (the scheduler implements `RunQueue`) | the same, and `force_queue` |
| `LimiterTypeCorrect`, `RateHolds` | `TypeOK`, `RateIsLimited` of `RateLimiter` | |
| `SpaceTypeCorrect`, `DownloadedOnce`, `NothingThereIsDropped` | `TypeOK`, `PlannedOnce`, `DeletedIsGone` of `SpaceSync` | |
| `NothingIsMissed`, `CompletedRunMirrors`, `CompletedRunSettles` | `SkippedIsCurrent`, `MirrorsAtEnd`, `SettledAtEnd` | no moves under a discovery, `force_download_missing` |
| `OnlyTheNamelessTakeOthers` | `CleansOnlyDeleted` | every record that is dropped has a path (`StaleIsNamed`) |
| `WikiTypeCorrect`, `NodesAreHandledOnce`, `RecordsAreNotAhead` | `TypeOK`, `HandledOnce`, `RecordIsNotAhead` of `WikiSync` | |
| `LeavesAreMirrored` | `LeavesMirroredAtEnd` | `force_download_missing` |
| `WebTypeCorrect`, `RenewalsAreKept`, `RowIsOnePair`, `WebRefusalsHaveCause` | `WebTypeOK`, `RefreshTokenKept`, `TokensArePaired`, `RefusalHasCause` of `WebTokens` | |
| `CliTypeCorrect`, `CachedPairIsKept`, `CliRefusalsHaveCause` | `CliTypeOK`, `CachedTokenKept`, `RefusalHasCause` of `CliTokens` | |
| `SessionTypeCorrect`, `ShownSuccessIsKept`, `TerminalLearnsWhatWasShown` | `SessionTypeOK`, `SuccessIsKept`, `TerminalAgreesWithPage` of `CliSessions` | |
| `LoginTypesCorrect`, `LoginIsSafe` | `LoginTypeOK` and all invariants of the run `Login`, of the specification it checks | |
| `ExportTypeCorrect`, `RegisteredIsLatest` | `ExportTypeOK`, `KnownIsLatest` of `ExportTask` | |
| `DownloadRunsOut` | an export has an attempt left or has ended, and nears its end (`AttemptIsLeft`, `Advances`) | |
| `StoreTypeCorrect`, `PassedOverIsCurrent`, `KillsCostLittle` | `JsonTypeOK`, `SkippedIsCurrent`, `LossIsBounded` of `JsonStore` | |
| `ReferenceTypeCorrect`, `PagesAreFetchedOnce`, `RewrittenLinksLead` | `DocTypeOK`, `FetchedOnce`, `LinksLead` of `DocReferences` | |
| `ParserTypeCorrect`, `TextIsWhole` | `ParserTypeOK`, `TextComesThrough` of `DocParser` | |
| `WalkGoesOn` | each call of the walk is of a later block | |
| `PartsAreApart`, `DownloadTypesCorrect` | the run `Downloads` is a behaviour of each of its parts; `DownloadsTypeOK` | |

The hypotheses are where TLC finds the property false, or where its statement
becomes hollow (with `SchedDoubleQueue` for `OneActiveRun`, `SchedReusedIds` for
`RunsAreOfTheirConfig`, `SpaceClean` for `OnlyTheNamelessTakeOthers`, which says that a
record without a path is the only cause of what that run shows; `EditsAreSeen` of
`WikiEdits` does hold of leaves, which is `LeavesAreMirrored`). Without
`force_queue` several runs are in threads at once, and `RunQueue` is not what
the code promises. Where `force_download_missing` is off, a file that got lost is
not brought back. A document that is moved between a listing and the next may be
seen twice or not at all.

*Scheduler.* `FlagInv` ties the flags, the runner's item and the jobs together:
with `force_queue` the only job is that of the runner's item. `OwnInv` adds the
rows: a row's config exists, ids at hand were given out before, an id that still
has a row has that of the config it was queued for, and each unfinished row is
owned. `ActiveRunIsOwned` alone is not inductive, for a deleted row's id may come
back with another config. `SeatInv` says a config has one seat, in the queue or
with the runner, and its flag is set while it is taken. `LineIsSorted`: with fresh
ids the queue is in the order of the ids, behind the runner's item. Together with
`OwnInv` this makes the line of the refinement that of the rows in the order of
their ids (`LineIsOfRows`), so a step of the scheduler is one of `RunQueue` by what
it does to the rows; and the position that the handler counts from the rows is the
one in the queue, by a bijection between ids and places.

*Rate limiter.* `LockInv`: at most one thread is inside the lock. `WindowInv`: the
deque is the tail of the log, by the readings; what was pruned from it is at least an
interval older than the reading of whoever is inside; and that reading was made behind
the lock, after all earlier grants. So the `Capacity`-th grant after another is an
interval after that one's reading, and the one after it an interval after the grant
itself, since a reading is no earlier than the grant before it (`OrderInv`).

*Space sync.* `SkippedIsCurrent` speaks of the present version of a document and of
records written long ago; its strengthening `Inv` has five parts. `OkIsBacked`: a
record with status `ok` was written over a complete file, and if the file is
complete now it is no older than the record (it may be lost or truncated, and then
the size, or its absence, gives it away). `FetchedIsNewer`: what a download is about to
write is no older than the record there is, or the one to come. `NoneFromTheFuture`:
listed and recorded times do not exceed the version of the document; without it a
file written during a download could be older than the record. `ListedOnce`: the
visited folders hang together, and what is still listed has not been visited; it
is what makes `Skip` unable to record a document that was only planned, which is
exactly what shortcuts and moves under a discovery allow. `IdleIsEmpty`: between
runs nothing is left. One lemma per part shows that every action preserves it.
`ListedOnce` speaks only of folders and of documents no shortcut stands for
(`Once`); those with shortcuts may be beside them and are planned once as well.
`SpaceAssumption` says what a tree is: a set of folders with the root in it and
closed under children holds them all. That is all `DeletedIsGone` needs beside
`Reached`: every folder below a visited one has been visited or is still to be
handled, and so has every document that stayed; when nothing is left to be handled,
everything has been seen. For what a completed run leaves behind, `Fitting` says
that the entries of a document that stays in place are no older than it was
when the run began, and `Served` that such a document, once seen, is settled on the
disk, planned, or failed. For what a cleaning run removes, `Cleaning` says that a document
has no path recorded but one of its own and that what is visited counts as seen; with
`Reached`, what is dropped is neither a folder nor a document that stayed, and its path
is nobody else's. TLC checked each of these invariants on the instances
of `Space` and `SpaceClean` before it was proved.

*Wiki sync.* `Entered`: the listings under way are those of nodes entered in this
run and the folder of a listing is a path through such nodes; it bounds the folders, so
`WikiAssumption` only asks that a folder can be extended by a node it does not yet
contain. `PlannedIsLeft`: what is planned was visited, and no listing of it is
under way that could plan it again (`HandledOnce`). `RecordInv` is `Inv` of the space sync
without the sizes, which `CloudDocStrategy` does not compare. For `LeavesMirroredAtEnd`,
`KeptHangsTogether` says that the nodes above a node that stays have stayed,
`Rooted` that the nodes hang together from the first level down, `Reached` that what
is below a visited node is visited or still ahead in some listing, and `Served` that
a leaf that was visited is up to date, planned or failed, or was left cut short by an
earlier run.

*Tokens.* `ServiceInv` is about answers in flight, for any callers: an answer that
brings a pair brings a usable one, and the token that was sent for it has
been used by that caller (`OnTheWay`); no pair is on its way to two callers
(`OnItsOwnWay`). Whoever stores a pair then holds one nobody else is about to get
(`Held`), so no later answer overwrites a younger pair by an older one. For the requests
of a run, `ComingInv` says that a pair about to be written is nowhere yet, and
`WritersInv` that the shared session is in one of four conditions: broken, clean, in the
hands of a single writer whose columns are those it has set (`WritesAlone`), or of
several, whose pairs are then all counted as lost and clashed (`Clash`). What a commit
brings to the row is therefore one pair, or made of clashed ones. `HeldInv`
adds what the session of a thread shows (`ViewKept`: it can be refreshed, or was by
a caller that does not use that session); `RunsApart` says which of the trigger, the
runner and the thread may wait for the endpoint at each status of the run, and
`Unregistered` that only a login is in flight before there is a user. For the command line, `CacheHeld` says the same of the pair in
the cache. The run `Login` composes three parts of which one moves in
a behaviour. `LoginInv` is the invariant of the part that moves, with the others where
they began; the parts share the endpoint, so while browser tabs use it one has to know
that nobody else has an answer in flight (`OthersAskNothing`), or what is said about
them would not follow from where they began.

*Export.* `PollsLeft` bounds the polls before the last, without which the type of
the counter is not inductive. `FileInv`: the ticket is of this download and, from the
fetch on, of a task that is ready (`TicketIsOwn`); the file holds an export of this or an
earlier download (`FileIsPast`); and what is shown is the one that came whole last
(`ShownIsLast`). `DownloadRunsOut` is what
`ExportEnds` rests on beside the fairness: a request that is not under way has an attempt
left, and each step of a download goes on to a later request, polls once more, fails
once more or sends what was not sent, all of which are bounded.

*Sessions of a login.* `SessionInv`: a tab that waits has its session noted and is
about to get a pair that is good (`InFlight`); what a session holds was shown on a
page, and a session that was never created has left no trace (`Shown`); a success
that was shown is in the session (`SessionHeld`). Without `Shown`, a session could be
created after its success was shown, and come without tokens.

*JSON store.* `SkippedIsCurrent` depends on records that may be in memory, in the
file, in the database, or imported from one to the other. `RecordsAreHonest` is
about all three at once, which is why imports and changes of the backend
preserve it: no record is ahead of Feishu, and the file of one that says `ok` holds
that version or a later one. What it leaves open is a file cut off: `BothKnow` and
`InUseKnows` say that no store takes such a file for current except those in `lapsed`,
between commands and during one. `Held` is the file under way, `CleanIsSaved` that
what is not marked dirty is on the disk. `FewUnsaved` bounds what a kill loses: the
records that differ from the file are no more than the updates since the last write.

*References.* `DownloadsAreOK` is a condition on each frame of the recursion: what
it has fetched is registered in the cache, every document of the run has a path it
knows, every path it knows leads to a file or to one the run will bring, and what it
has not fetched yet nobody has. `FetchedIsKnown` says the same of what is not under
way. `FetchedOnce` follows, since a reference is followed only if no path of it is known,
and `LinksLead`, since links are written to paths that are known. TLC checked both
invariants, and those of the store, on the instance of `Downloads` before they were proved.

*Parser.* `Front` is the block of the next call. `CallsRise` and `CallsAreHanging`: the
calls to come are, in the order of the document, exactly those of the blocks from
`Front` on whose parents lie before it; they replace a statement about the depth
of the recursion, which would need induction. A call of a block that was consumed skips
what is below it, so `Front` may jump: `CallsAreOutside` says that nothing within a
table is called but its cells, which are consumed, and `ConsumedIsPassed` that nothing else ahead
is consumed; hence a jump passes over what is in a table and nothing else. `ShownIsPassed` (what is
shown was passed or is in a table that was) gives the order, since a line that is
added shows blocks from `Front` on; `PassedIsShown` gives that nothing is lost when no
calls are left. That the children of a block come in their order is a lemma about
`InOrder` (`InOrderRises`), by the cardinality of what is smaller. `WalkGoesOn` adds that `Front`
grows with every step, so that the recursion ends. TLC checked the invariant on all documents
of four blocks before it was proved.

Model-checked only: the liveness properties (`QueuedIsServed`, `ConfigIsReleased`,
`LockIsReleased`, `ExportEnds`, `StaleIsRenewed`, `TokenRequestEnds`), which are out
of the prover's reach together with `ENABLED`. Every invariant and every action property
that a passing run checks is a theorem.

## 7. What is not modelled, and what was seen

The components with status `not_modelled` or `partly` in `PROJECT.json` give the
reason one by one. In short: configuration, logging, the front end and the printing
of the command line have no state worth a model; the event stream only reads. Inside
what is modelled, left out are: contents and names of files, pagination of listings
(a listing is one step), entries without a type or of an unknown one, uploaded files
in wikis (their names are not known beforehand), `plan_only`, progress counters, two
changes within one tick of the server's modification times, a rate rule whose
capacity is not positive, images, attachments and sheets within documents, the title of a document, which is a
heading above all lines, and the second call for the root of its blocks, which has been
consumed by then. Shortcuts in a space to a folder or a wiki are left out as well: they
are planned like a document (`space_sync.py:382`), and their downloaders
(`bootstrap.py`, `sync_service.py:108`), which single commands use too, write a whole
tree in one call. So are a sheet that is renamed between two exports, and which of
SQLAlchemy's outcomes for overlapping commits its version has: all of them may happen.

What was noticed while reading and modelling, where no statement in the repository is
contradicted, so that it is neither a run nor a finding:

* A space run marks (or, with `clean_deleted`, removes) the records of the user's
  wikis, which share its store (`sync_service.py:487`).
* A thread that cannot set up its service (the storage directory cannot be made) leaves
  its run `pending`: the trigger route answers 409 for that config until the run is
  cancelled or deleted or the server restarts, while its cron job, which looks at the
  flags alone, starts another run beside it.
* "A capacity within a fixed interval" (`rate_limit.py:14`) may be exceeded by one when a
  caller is delayed between reading the clock and being let through.
* The pool threads of a document write renewed tokens to one session without a lock: where
  two overlap, a pair is lost or the row holds the columns of two
  (`sync_service.py:629`). The user then has to log in again. A commit that fails in the
  thread leaves its run active, and the job of the token refresh blocked, until the
  server restarts.
* A later export of a sheet truncates the file that the cache of paths still shows
  (`reference_cache.py:9`); if its stream breaks, links lead to the rest.
* A login through the server that fails with an error without a text (a timeout) leaves
  the command line polling until the session is too old; one whose session expires
  during the exchange is lost although the page tells of a success (`cli_auth.py:158`).
* A logout while a refresh is under way is undone by the refresh's answer
  (`routes/auth.py:242`, `287`).
* The event stream reports a run only when its status or counters change, so a
  client that waits does not see its queue position move (`sync_runs.py:285`).
* `_unique_path` tests what exists and the write comes later: two of the five
  threads may choose one path for two attachments of one name. Each new run adds
  copies with a number.
* The cache of paths is never cleared: while the server lives a copy below `refer`
  is not refreshed. `_cleanup_stale_refer_copy` looks below the storage root, and
  syncs put `refer` below the entry root, so it removes nothing. A later fetch that
  fails puts a placeholder over an earlier good copy.
* A JSON file cut within a character raises `UnicodeDecodeError` at every later
  start; a fallback write that fails resets the counter, so that `LossIsBounded`
  holds only up to the first failed write.
* A kill during a full run, or while a lost file is written again, leaves a file
  cut off that the JSON store takes for current.
* Images in the cells of a table, and blocks nested below those in a cell, are not
  rendered.
* `structure_downloaders.py` removes the placeholder of a wiki or shortcut after a
  download: if the titles are equal that is the document just written.
