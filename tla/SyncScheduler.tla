---------------------------- MODULE SyncScheduler ----------------------------
(***************************************************************************)
(* The web server's sync scheduler (larksync/web/scheduler.py), the routes *)
(* that drive it (routes/sync_configs.py, routes/sync_runs.py) and the     *)
(* status writes of the worker thread (web/sync_service.py).               *)
(*                                                                         *)
(* Two kinds of actor share the rows of table sync_runs:                   *)
(*   - the asyncio event loop, which runs the HTTP handlers, the cron jobs *)
(*     and the queue runner; a coroutine is interrupted only where it      *)
(*     awaits, so everything between two awaits is one action here;        *)
(*   - the executor threads, one per dispatched job, which run in parallel *)
(*     with the loop, even between two statements of a handler.            *)
(***************************************************************************)
EXTENDS Integers, Sequences, FiniteSets

CONSTANTS
  MaxConfig,     \* bound: ids of sync configs are 1..MaxConfig
  MaxRun,        \* bound: ids of sync runs are 1..MaxRun
  MaxWaiting,    \* bound: manual triggers of one config awaiting a refresh
  MaxRestarts,   \* bound: restarts of the server
  ForceQueue,    \* config.web.scheduler.force_queue
  TokenExpires,  \* TRUE iff the user's access token may expire
  ReuseIds,      \* TRUE for SQLite: a deleted highest rowid is given out again
  DbErrors       \* TRUE iff a commit may fail (database locked, disk full)

ASSUME ConstantsAssumption ==
  /\ MaxConfig \in Nat \ {0}
  /\ MaxRun \in Nat \ {0}
  /\ MaxWaiting \in Nat
  /\ MaxRestarts \in Nat
  /\ ForceQueue \in BOOLEAN
  /\ TokenExpires \in BOOLEAN
  /\ ReuseIds \in BOOLEAN
  /\ DbErrors \in BOOLEAN

ConfigIds == 1..MaxConfig
RunIds    == 1..MaxRun
NoRun     == 0

(* SyncRunStatus, and "absent" for an id that no row has. *)
Active   == {"queued", "pending", "running"}
Terminal == {"completed", "failed", "auth_required", "cancelled"}
Statuses == Active \cup Terminal \cup {"absent"}

Item   == [cfg : ConfigIds, run : RunIds]
NoItem == [cfg |-> 0, run |-> NoRun]

(* Where _execute_sync_job_now and the thread it dispatches are:           *)
(* refresh: awaiting _ensure_user_access_token; dispatched: the row is     *)
(* PENDING and the thread is submitted; loaded .. finished: in the thread; *)
(* ended: the thread has returned and the coroutine has yet to resume.     *)
ThreadPc == {"dispatched", "loaded", "running", "retrying", "finished"}
JobPc    == {"idle", "refresh", "ended"} \cup ThreadPc
Job      == [pc : JobPc, run : RunIds \cup {NoRun}]
Idle     == [pc |-> "idle", run |-> NoRun]

VARIABLES
  configs,      \* the ids of the rows of table sync_configs
  runs,         \* table sync_runs: [RunIds -> [cfg, status]]
  nextRun,      \* the next run id, when ids are not reused
  tokenValid,   \* the user's access token is present and not expired
  waiting,      \* [ConfigIds -> Nat]: triggers awaiting the token refresh
  cronWaiting,  \* configs whose cron job awaits the token refresh
  running,      \* _running_jobs: the configs whose flag is True
  queued,       \* _queued_jobs
  queue,        \* _queue: the asyncio.Queue of _QueueItem
  current,      \* the item _queue_runner is executing, or NoItem
  job,          \* [ConfigIds -> Job]
  cancelling,   \* the run whose cancel handler has read but not yet written
  restarts,     \* how many times the server was restarted
  stranded      \* the rows left PENDING by a thread that ended before it could
                \* write them (history)

memory == <<waiting, cronWaiting, running, queued, queue, current, job, cancelling>>
vars   == <<configs, runs, nextRun, tokenValid, memory, restarts, stranded>>

TypeOK ==
  /\ configs \subseteq ConfigIds
  /\ runs \in [RunIds -> [cfg : ConfigIds, status : Statuses]]
  /\ nextRun \in 1..(MaxRun + 1)
  /\ tokenValid \in BOOLEAN
  /\ waiting \in [ConfigIds -> 0..MaxWaiting]
  /\ cronWaiting \subseteq ConfigIds
  /\ running \subseteq ConfigIds
  /\ queued \subseteq ConfigIds
  /\ queue \in Seq(Item)
  /\ current \in Item \cup {NoItem}
  /\ job \in [ConfigIds -> Job]
  /\ cancelling \in RunIds \cup {NoRun}
  /\ restarts \in 0..MaxRestarts
  /\ stranded \subseteq RunIds

Init ==
  /\ configs = ConfigIds
  /\ runs = [r \in RunIds |-> [cfg |-> 1, status |-> "absent"]]
  /\ nextRun = 1
  /\ tokenValid = TRUE
  /\ waiting = [c \in ConfigIds |-> 0]
  /\ cronWaiting = {}
  /\ running = {}
  /\ queued = {}
  /\ queue = <<>>
  /\ current = NoItem
  /\ job = [c \in ConfigIds |-> Idle]
  /\ cancelling = NoRun
  /\ restarts = 0
  /\ stranded = {}

-----------------------------------------------------------------------------
(* The database.                                                           *)

Exists(r)       == runs[r].status # "absent"
HasRow(r)       == r # NoRun /\ Exists(r)
IsActive(r)     == runs[r].status \in Active
HasActiveRun(c) == \E r \in RunIds : runs[r].cfg = c /\ IsActive(r)

(* The id the next INSERT gets: SQLite gives max(rowid) + 1.               *)
Greatest(ids) == IF ids = {} THEN 0 ELSE CHOOSE m \in ids : \A i \in ids : i <= m

IsNewRun(r) ==
  r = IF ReuseIds THEN 1 + Greatest({q \in RunIds : Exists(q)}) ELSE nextRun

Insert(r, c, status) ==
  /\ IsNewRun(r)
  /\ runs' = [runs EXCEPT ![r] = [cfg |-> c, status |-> status]]
  /\ nextRun' = IF ReuseIds THEN nextRun ELSE nextRun + 1

(* UPDATE sync_runs SET status WHERE id = r: no effect when the row is     *)
(* gone, whoever owns the row when it is there.                            *)
Updated(r, status) ==
  IF Exists(r) THEN [runs EXCEPT ![r] = [cfg |-> @.cfg, status |-> status]] ELSE runs

(* A commit of the thread, which may fail and is then rolled back.         *)
ThreadWrites(r, status) ==
  \/ runs' = Updated(r, status)
  \/ DbErrors /\ UNCHANGED runs

-----------------------------------------------------------------------------
(* Jobs.                                                                   *)

(* The event loop is not inside a handler.                                 *)
LoopFree == cancelling = NoRun

(* Faulty variants: a flag that stays set, a runner that does not return.  *)
EndJobKeepsQueued(c) ==
  /\ running' = running \ {c}
  /\ job' = [job EXCEPT ![c] = Idle]
  /\ current' = IF current.cfg = c THEN NoItem ELSE current
  /\ UNCHANGED queued

EndJobKeepsRunning(c) ==
  /\ job' = [job EXCEPT ![c] = Idle]
  /\ current' = NoItem
  /\ queued' = queued \ {c}
  /\ UNCHANGED running

EndJobRunnerDies(c) ==
  /\ running' = running \ {c}
  /\ job' = [job EXCEPT ![c] = Idle]
  /\ queued' = queued \ {c}
  /\ UNCHANGED current

(* The finally clauses of _execute_sync_job_now and of _queue_runner.      *)
EndJob(c) ==
  /\ running' = running \ {c}
  /\ job' = [job EXCEPT ![c] = Idle]
  /\ IF current.cfg = c
     THEN current' = NoItem /\ queued' = queued \ {c}
     ELSE UNCHANGED <<current, queued>>

(* Faulty variants: an item without its run's id, a last-in-first-out queue *)
EnqueueBeforeCommit(c) ==
  \E r \in RunIds :
    /\ Insert(r, c, "queued")
    /\ queued' = queued \cup {c}
    /\ queue' = Append(queue, [cfg |-> c, run |-> NoRun])

EnqueueLast(c) ==
  \E r \in RunIds :
    /\ Insert(r, c, "queued")
    /\ queued' = queued \cup {c}
    /\ queue' = <<[cfg |-> c, run |-> r]>> \o queue

(* The row is created QUEUED, the flag is set, the item is put.            *)
Enqueue(c) ==
  \E r \in RunIds :
    /\ Insert(r, c, "queued")
    /\ queued' = queued \cup {c}
    /\ queue' = Append(queue, [cfg |-> c, run |-> r])

(* A token that cannot be used leaves an AUTH_REQUIRED row behind.         *)
RecordAuthRequired(c) == \E r \in RunIds : Insert(r, c, "auth_required")

(* _execute_sync_job_now without a run: PENDING row and thread submission. *)
DispatchNew(c) ==
  \E r \in RunIds :
    /\ Insert(r, c, "pending")
    /\ job' = [job EXCEPT ![c] = [pc |-> "dispatched", run |-> r]]

(* Faulty variant: only the flag of running jobs is looked at.             *)
EnqueueRequestIfNotRunning(c, suspend) ==
  /\ ForceQueue
  /\ c \notin running
  /\ tokenValid
  /\ Enqueue(c)
  /\ UNCHANGED <<waiting, cronWaiting, running, job>>

(* _enqueue_or_execute with force_queue, from the check of the two flags   *)
(* to the first suspension.  `suspend` records that the caller waits.      *)
EnqueueRequest(c, suspend) ==
  /\ ForceQueue
  /\ c \notin running \cup queued
  /\ \/ /\ tokenValid
        /\ Enqueue(c)
        /\ UNCHANGED <<waiting, cronWaiting>>
     \/ /\ ~tokenValid
        /\ RecordAuthRequired(c)
        /\ UNCHANGED <<waiting, cronWaiting, queued, queue>>
     \/ /\ ~tokenValid
        /\ suspend
        /\ UNCHANGED <<runs, nextRun, queued, queue>>
  /\ UNCHANGED <<running, job>>

(* Faulty variants: the request executes although it should be queued, or  *)
(* although the config is running.                                         *)
ExecuteRequestUnqueued(c) ==
  /\ c \notin running
  /\ tokenValid
  /\ DispatchNew(c)
  /\ running' = running \cup {c}
  /\ UNCHANGED <<waiting, cronWaiting, queued, queue>>

ExecuteRequestTwice(c) ==
  /\ ~ForceQueue
  /\ tokenValid
  /\ DispatchNew(c)
  /\ running' = running \cup {c}
  /\ UNCHANGED <<waiting, cronWaiting, queued, queue>>

(* _execute_sync_job_now without a run, to its first suspension.           *)
ExecuteRequest(c) ==
  /\ ~ForceQueue
  /\ c \notin running
  /\ \/ /\ tokenValid
        /\ DispatchNew(c)
        /\ running' = running \cup {c}
     \/ /\ ~tokenValid
        /\ RecordAuthRequired(c)
        /\ UNCHANGED <<running, job>>
     \/ /\ ~tokenValid
        /\ job' = [job EXCEPT ![c] = [pc |-> "refresh", run |-> NoRun]]
        /\ running' = running \cup {c}
        /\ UNCHANGED <<runs, nextRun>>
  /\ UNCHANGED <<waiting, cronWaiting, queued, queue>>

(* POST /sync-configs/{c}/run: refused with 409 while the config has an    *)
(* active row, with 500 while one of the scheduler's flags is set.         *)
Trigger(c) ==
  /\ LoopFree
  /\ c \in configs
  /\ ~HasActiveRun(c)
  /\ \/ EnqueueRequest(c, /\ waiting[c] < MaxWaiting
                          /\ waiting' = [waiting EXCEPT ![c] = @ + 1]
                          /\ UNCHANGED cronWaiting)
     \/ ExecuteRequest(c)
  /\ UNCHANGED <<configs, tokenValid, current, cancelling, restarts, stranded>>

(* The cron or interval trigger of c fires; APScheduler runs one instance. *)
CronFire(c) ==
  /\ LoopFree
  /\ c \in configs
  /\ c \notin cronWaiting
  /\ \/ EnqueueRequest(c, /\ cronWaiting' = cronWaiting \cup {c}
                          /\ UNCHANGED waiting)
     \/ ExecuteRequest(c)
  /\ UNCHANGED <<configs, tokenValid, current, cancelling, restarts, stranded>>

(* The refresh awaited by a suspended request of c is answered.  Neither   *)
(* the flags nor the rows are read again; the INSERT fails when the config *)
(* is gone (foreign key), which the caller reports as an error.            *)
ResumeRequest(c) ==
  /\ LoopFree
  /\ \/ /\ waiting[c] > 0
        /\ waiting' = [waiting EXCEPT ![c] = @ - 1]
        /\ UNCHANGED cronWaiting
     \/ /\ c \in cronWaiting
        /\ cronWaiting' = cronWaiting \ {c}
        /\ UNCHANGED waiting
  /\ \/ /\ c \in configs
        /\ tokenValid' = TRUE
        /\ Enqueue(c)
     \/ /\ c \in configs
        /\ RecordAuthRequired(c)
        /\ UNCHANGED <<tokenValid, queued, queue>>
     \/ /\ c \notin configs
        /\ tokenValid' \in {tokenValid, TRUE}
        /\ UNCHANGED <<runs, nextRun, queued, queue>>
  /\ UNCHANGED <<configs, running, current, job, cancelling, restarts, stranded>>

(* Faulty variant: the status of the row is not read again.                *)
DroppedIfGone(item) ==
  \/ item.cfg \notin configs
  \/ tokenValid /\ ~Exists(item.run)

(* The coroutine gives up the item without running it: the config or the   *)
(* row is gone, or the row is no longer QUEUED.                            *)
Dropped(item) ==
  \/ item.cfg \notin configs
  \/ tokenValid /\ runs[item.run].status # "queued"

(* A run whose token is refused becomes AUTH_REQUIRED, whatever status its *)
(* row had; when the row is gone a new one records the refusal.            *)
RefuseItem(item) ==
  IF Exists(item.run)
  THEN runs' = Updated(item.run, "auth_required") /\ UNCHANGED nextRun
  ELSE RecordAuthRequired(item.cfg)

(* _queue_runner takes the head of the queue and runs it to the first      *)
(* suspension of _execute_sync_job_now.                                    *)
RunnerGet ==
  /\ LoopFree
  /\ ForceQueue
  /\ current = NoItem
  /\ queue # <<>>
  /\ queue' = Tail(queue)
  /\ LET item == Head(queue)  c == Head(queue).cfg IN
     \/ /\ Dropped(item)
        /\ queued' = queued \ {c}
        /\ UNCHANGED <<runs, nextRun, running, current, job>>
     \/ /\ ~Dropped(item) /\ ~tokenValid
        /\ RefuseItem(item)
        /\ queued' = queued \ {c}
        /\ UNCHANGED <<running, current, job>>
     \/ /\ ~Dropped(item) /\ ~tokenValid
        /\ current' = item
        /\ running' = running \cup {c}
        /\ job' = [job EXCEPT ![c] = [pc |-> "refresh", run |-> item.run]]
        /\ UNCHANGED <<runs, nextRun, queued>>
     \/ /\ ~Dropped(item) /\ tokenValid
        /\ current' = item
        /\ running' = running \cup {c}
        /\ runs' = Updated(item.run, "pending")
        /\ job' = [job EXCEPT ![c] = [pc |-> "dispatched", run |-> item.run]]
        /\ UNCHANGED <<nextRun, queued>>
  /\ UNCHANGED <<configs, tokenValid, waiting, cronWaiting, cancelling, restarts, stranded>>

(* Faulty variant: the exception leaves the flag set.                      *)
RunnerFailsKeepsFlag ==
  /\ DbErrors
  /\ LoopFree
  /\ ForceQueue
  /\ current = NoItem
  /\ queue # <<>>
  /\ queue' = Tail(queue)
  /\ UNCHANGED <<configs, runs, nextRun, tokenValid, waiting, cronWaiting,
                 running, queued, current, job, cancelling, restarts, stranded>>

(* A commit of _execute_sync_job_now fails: the exception is logged and    *)
(* the item is consumed, its row left as it was.                           *)
RunnerFails ==
  /\ DbErrors
  /\ LoopFree
  /\ ForceQueue
  /\ current = NoItem
  /\ queue # <<>>
  /\ queue' = Tail(queue)
  /\ queued' = queued \ {Head(queue).cfg}
  /\ UNCHANGED <<configs, runs, nextRun, tokenValid, waiting, cronWaiting,
                 running, current, job, cancelling, restarts, stranded>>

(* The refresh awaited by _execute_sync_job_now succeeds.                  *)
JobRefreshed(c) ==
  /\ LoopFree
  /\ job[c].pc = "refresh"
  /\ tokenValid' = TRUE
  /\ LET r == job[c].run IN
     \/ /\ r # NoRun /\ c \in configs /\ runs[r].status = "queued"
        /\ runs' = Updated(r, "pending")
        /\ job' = [job EXCEPT ![c] = [pc |-> "dispatched", run |-> r]]
        /\ UNCHANGED <<nextRun, running, current, queued>>
     \/ /\ r # NoRun /\ (c \notin configs \/ runs[r].status # "queued")
        /\ EndJob(c)
        /\ UNCHANGED <<runs, nextRun>>
     \/ /\ r = NoRun /\ c \in configs
        /\ DispatchNew(c)
        /\ UNCHANGED <<running, current, queued>>
     \/ /\ r = NoRun /\ c \notin configs
        /\ EndJob(c)
        /\ UNCHANGED <<runs, nextRun>>
  /\ UNCHANGED <<configs, waiting, cronWaiting, queue, cancelling, restarts, stranded>>

(* ... or is refused.                                                      *)
JobRefreshRefused(c) ==
  /\ LoopFree
  /\ job[c].pc = "refresh"
  /\ LET r == job[c].run IN
     \/ /\ HasRow(r)
        /\ runs' = Updated(r, "auth_required")
        /\ UNCHANGED nextRun
     \/ /\ ~HasRow(r) /\ c \in configs
        /\ RecordAuthRequired(c)
     \/ /\ ~HasRow(r) /\ c \notin configs
        /\ UNCHANGED <<runs, nextRun>>
  /\ EndJob(c)
  /\ UNCHANGED <<configs, tokenValid, waiting, cronWaiting, queue, cancelling, restarts, stranded>>

(* The executor future completes and the coroutine runs its finally.       *)
JobDone(c) ==
  /\ LoopFree
  /\ job[c].pc = "ended"
  /\ EndJob(c)
  /\ UNCHANGED <<configs, runs, nextRun, tokenValid, waiting, cronWaiting,
                 queue, cancelling, restarts, stranded>>

-----------------------------------------------------------------------------
(* The worker thread.  Its writes never look at the status they replace.   *)

ThreadMoves(c, pc) == job' = [job EXCEPT ![c] = [pc |-> pc, run |-> @.run]]

ThreadFrame == UNCHANGED <<configs, nextRun, tokenValid, waiting, cronWaiting,
                           running, queued, queue, current, cancelling, restarts>>

(* _run_sync_in_thread loads its rows, and returns when one is gone.       *)
ThreadBegin(c) ==
  /\ job[c].pc = "dispatched"
  /\ ThreadMoves(c, IF Exists(job[c].run) /\ c \in configs THEN "loaded" ELSE "ended")
  /\ UNCHANGED <<runs, stranded>>
  /\ ThreadFrame

(* The user's directory cannot be made by the service's constructor, which *)
(* stands outside the try: the error goes to the coroutine, which swallows *)
(* it, and the row stays PENDING.                                          *)
ThreadSetupFails(c) ==
  /\ job[c].pc = "dispatched"
  /\ HasRow(job[c].run) /\ c \in configs
  /\ ThreadMoves(c, "ended")
  /\ stranded' = stranded \cup {job[c].run}
  /\ UNCHANGED runs
  /\ ThreadFrame

(* WebProgressTracker.start                                                *)
ThreadStart(c) ==
  /\ job[c].pc = "loaded"
  /\ ThreadWrites(job[c].run, "running")
  /\ ThreadMoves(c, "running")
  /\ UNCHANGED stranded
  /\ ThreadFrame

(* An authentication error in mid-run, a refreshed token, a second attempt *)
ThreadRetry(c) ==
  /\ job[c].pc = "running"
  /\ ThreadMoves(c, "retrying")
  /\ UNCHANGED <<runs, stranded>>
  /\ ThreadFrame

(* WebProgressTracker.finish, whose failed commit is only logged           *)
ThreadFinish(c) ==
  /\ job[c].pc \in {"running", "retrying"}
  /\ ThreadWrites(job[c].run, "completed")
  /\ ThreadMoves(c, "finished")
  /\ UNCHANGED stranded
  /\ ThreadFrame

(* The commit of last_run_at after finish: it fails when the config is     *)
(* gone, and _mark_failed then writes the run.                             *)
ThreadReturn(c) ==
  /\ job[c].pc = "finished"
  /\ \/ c \in configs /\ UNCHANGED runs
     \/ c \notin configs /\ runs' = Updated(job[c].run, "failed")
     \/ DbErrors /\ runs' = Updated(job[c].run, "failed")
  /\ ThreadMoves(c, "ended")
  /\ UNCHANGED stranded
  /\ ThreadFrame

(* _mark_failed, or the handler of _run_sync_in_thread                     *)
ThreadFail(c) ==
  /\ job[c].pc \in {"loaded", "running", "retrying"}
  /\ ThreadWrites(job[c].run, "failed")
  /\ ThreadMoves(c, "ended")
  /\ UNCHANGED stranded
  /\ ThreadFrame

(* Faulty variants: the refusal is not recorded, or does not end the run.  *)
ThreadAuthRequiredUnrecorded(c) ==
  /\ job[c].pc \in {"loaded", "running", "retrying"}
  /\ ThreadMoves(c, "ended")
  /\ UNCHANGED <<runs, stranded>>
  /\ ThreadFrame

ThreadAuthRequiredContinues(c) ==
  /\ job[c].pc \in {"loaded", "running", "retrying"}
  /\ ThreadWrites(job[c].run, "auth_required")
  /\ ThreadMoves(c, "loaded")
  /\ UNCHANGED stranded
  /\ ThreadFrame

(* No token, or one that cannot be refreshed, before or during the run, or *)
(* a second authentication error after the retry                           *)
ThreadAuthRequired(c) ==
  /\ job[c].pc \in {"loaded", "running", "retrying"}
  /\ ThreadWrites(job[c].run, "auth_required")
  /\ ThreadMoves(c, "ended")
  /\ UNCHANGED stranded
  /\ ThreadFrame

-----------------------------------------------------------------------------
(* The other handlers and the environment.                                 *)

(* POST /sync-runs/{r}/cancel reads the row and checks its status ...      *)
CancelRead(r) ==
  /\ LoopFree
  /\ IsActive(r)
  /\ cancelling' = r
  /\ UNCHANGED <<configs, runs, nextRun, tokenValid, waiting, cronWaiting,
                 running, queued, queue, current, job, restarts, stranded>>

(* ... and writes it; only a thread can have stepped in between.           *)
CancelWrite ==
  /\ cancelling # NoRun
  /\ runs' = Updated(cancelling, "cancelled")
  /\ cancelling' = NoRun
  /\ stranded' = stranded \ {cancelling}
  /\ UNCHANGED <<configs, nextRun, tokenValid, waiting, cronWaiting,
                 running, queued, queue, current, job, restarts>>

(* DELETE /sync-configs/{c}: its runs go with it, the scheduler's queue    *)
(* and flags stay.                                                         *)
DeleteConfig(c) ==
  /\ LoopFree
  /\ c \in configs
  /\ configs' = configs \ {c}
  /\ runs' = [r \in RunIds |->
                [cfg |-> runs[r].cfg,
                 status |-> IF runs[r].cfg = c THEN "absent" ELSE runs[r].status]]
  /\ stranded' = {r \in stranded : runs[r].cfg # c}
  /\ UNCHANGED <<nextRun, tokenValid, memory, restarts>>

(* POST /sync-configs on SQLite, where the new id may be a deleted one     *)
CreateConfig(c) ==
  /\ LoopFree
  /\ ReuseIds
  /\ c = 1 + Greatest(configs)
  /\ configs' = configs \cup {c}
  /\ UNCHANGED <<runs, nextRun, tokenValid, memory, restarts, stranded>>

TokenExpire ==
  /\ TokenExpires
  /\ tokenValid
  /\ tokenValid' = FALSE
  /\ UNCHANGED <<configs, runs, nextRun, memory, restarts, stranded>>

(* A login, or the background refresh job                                  *)
TokenRenew ==
  /\ LoopFree
  /\ ~tokenValid
  /\ tokenValid' = TRUE
  /\ UNCHANGED <<configs, runs, nextRun, memory, restarts, stranded>>

(* The server stops at any point and starts again; _cleanup_stale_runs     *)
(* fails every unfinished run, unless its commit fails, which is logged.   *)
Restart ==
  /\ restarts < MaxRestarts
  /\ restarts' = restarts + 1
  /\ \/ runs' = [r \in RunIds |->
                   [cfg |-> runs[r].cfg,
                    status |-> IF IsActive(r) THEN "failed" ELSE runs[r].status]]
     \/ DbErrors /\ UNCHANGED runs
  /\ waiting' = [c \in ConfigIds |-> 0]
  /\ cronWaiting' = {}
  /\ running' = {}
  /\ queued' = {}
  /\ queue' = <<>>
  /\ current' = NoItem
  /\ job' = [c \in ConfigIds |-> Idle]
  /\ cancelling' = NoRun
  /\ stranded' = {}
  /\ UNCHANGED <<configs, nextRun, tokenValid>>

-----------------------------------------------------------------------------
Thread(c) ==
  \/ ThreadBegin(c)
  \/ ThreadSetupFails(c)
  \/ ThreadStart(c)
  \/ ThreadRetry(c)
  \/ ThreadFinish(c)
  \/ ThreadReturn(c)
  \/ ThreadFail(c)
  \/ ThreadAuthRequired(c)

Next ==
  \/ \E c \in ConfigIds : Trigger(c) \/ CronFire(c) \/ ResumeRequest(c)
  \/ RunnerGet
  \/ RunnerFails
  \/ \E c \in ConfigIds : JobRefreshed(c) \/ JobRefreshRefused(c) \/ JobDone(c)
  \/ \E c \in ConfigIds : Thread(c)
  \/ \E r \in RunIds : CancelRead(r)
  \/ CancelWrite
  \/ \E c \in ConfigIds : DeleteConfig(c) \/ CreateConfig(c)
  \/ TokenExpire
  \/ TokenRenew
  \/ Restart

Spec == Init /\ [][Next]_vars

(* The loop runs every ready coroutine, HTTP calls to the token endpoint   *)
(* time out, and the API calls of a thread are bounded in number and time. *)
Fairness ==
  /\ WF_vars(RunnerGet)
  /\ WF_vars(CancelWrite)
  /\ \A c \in ConfigIds :
       /\ WF_vars(ResumeRequest(c))
       /\ WF_vars(JobRefreshed(c) \/ JobRefreshRefused(c))
       /\ WF_vars(JobDone(c))
       /\ WF_vars(Thread(c))

FairSpec == Spec /\ Fairness

-----------------------------------------------------------------------------
(* Properties.                                                             *)

InThread(r) == \E c \in ConfigIds : job[c].run = r /\ job[c].pc \in ThreadPc

(* An unfinished row has somebody at work on it: a QUEUED row is still in  *)
(* the queue or is the runner's current item, a RUNNING row is that of its *)
(* config's job, and so is a PENDING one, with one exception: after its    *)
(* service could not be set up it is nobody's, until it is cancelled or    *)
(* deleted or the server restarts.  (To a row nobody owns the trigger      *)
(* route answers 409.)                                                     *)
ActiveRunIsOwned ==
  \A r \in RunIds :
    LET c == runs[r].cfg  own == job[runs[r].cfg] IN
    /\ runs[r].status = "queued" =>
         \/ \E i \in 1..Len(queue) : queue[i] = [cfg |-> c, run |-> r]
         \/ current = [cfg |-> c, run |-> r] /\ own = [pc |-> "refresh", run |-> r]
    /\ runs[r].status = "pending" /\ r \notin stranded =>
         own.run = r /\ own.pc \in {"dispatched", "loaded"}
    /\ runs[r].status = "running" => own.run = r /\ own.pc \in {"running", "retrying"}

(* "A sync is already queued or running for this config" is the 409 of the *)
(* trigger route: two unfinished rows of one config never coexist, unless  *)
(* one was left behind by a failed set-up: the cron jobs look at the flags *)
(* alone and start another beside it.                                      *)
OneActiveRunPerConfig ==
  \A q, r \in RunIds \ stranded :
    IsActive(q) /\ IsActive(r) /\ runs[q].cfg = runs[r].cfg => q = r

(* With force_queue at most one job is executing, whichever of the routes, *)
(* the cron jobs and the runner asked for it.                              *)
SerialExecution ==
  ForceQueue => \A c, d \in ConfigIds :
                  job[c].pc # "idle" /\ job[d].pc # "idle" => c = d

(* The flags that make the scheduler refuse a config are always backed by  *)
(* an item or a job whose end will clear them: no config is refused for    *)
(* ever because a flag was left behind.                                    *)
FlagsBacked ==
  \A c \in ConfigIds :
    /\ c \in queued => current.cfg = c \/ \E i \in 1..Len(queue) : queue[i].cfg = c
    /\ c \in running <=> job[c].pc # "idle"

(* queue_position as the routes compute it from the rows ...               *)
ShownPosition(r) ==
  Cardinality({q \in RunIds : q <= r /\ runs[q].status = "queued"})

(* ... is the number of QUEUED runs the runner really serves up to and     *)
(* including that one, although it is computed from ids and not from the   *)
(* asyncio queue.                                                          *)
QueuePositionHonest ==
  \A i \in 1..Len(queue) :
    runs[queue[i].run].status = "queued" =>
      ShownPosition(queue[i].run) =
        Cardinality({j \in 1..i : runs[queue[j].run].status = "queued"})
        + (IF current # NoItem /\ runs[current.run].status = "queued" THEN 1 ELSE 0)

(* A run cancelled before its job was dispatched is never dispatched, even *)
(* when the runner was already awaiting the token refresh for it.          *)
CancelledIsNotDispatched ==
  [][\A r \in RunIds :
       runs[r].status = "cancelled" /\ ~InThread(r) => ~InThread(r)']_vars

(* A run that completed, failed or was refused never becomes unfinished    *)
(* again: no late write of a thread or of the runner revives it.           *)
FinishedIsNotRevived ==
  [][\A r \in RunIds :
       runs[r].status \in {"completed", "failed", "auth_required"} => ~IsActive(r)']_vars

(* The runs in line: those of the runner's item while its token is being   *)
(* refreshed and of the items in the queue, if they are still QUEUED; the  *)
(* runner's is ahead of the queue, which is served from its head.          *)
InLine ==
  {r \in RunIds : /\ runs[r].status = "queued"
                  /\ r = current.run \/ \E i \in 1..Len(queue) : r = queue[i].run}

AheadInLine ==
  {p \in InLine \X InLine :
     \/ p[1] = current.run /\ p[2] # current.run
     \/ \E i, j \in 1..Len(queue) : i < j /\ p[1] = queue[i].run /\ p[2] = queue[j].run}

Order == INSTANCE RunQueue WITH
           Runs <- RunIds, waiting <- InLine, ahead <- AheadInLine,
           serving <- {r \in RunIds : InThread(r)}

(* Runs are served one at a time and in the order of their submission, and *)
(* one that was withdrawn (cancelled, refused, deleted) is never served:   *)
(* the queue, the rows and the runner together implement RunQueue.         *)
SubmissionOrder == Order!Spec

(* A queued run does not stay queued for ever.                             *)
QueuedIsServed == \A r \in RunIds : runs[r].status = "queued" ~> runs[r].status # "queued"

(* A config whose job runs can be triggered again some day.                *)
ConfigIsReleased == \A c \in ConfigIds : c \in running ~> c \notin running

(* What the documentation says and the code does not do.                   *)

(* "Manually trigger a sync for this config": the job that writes a run    *)
(* synchronises the config the run belongs to.                             *)
RunExecutesItsConfig ==
  \A c \in ConfigIds :
    job[c].pc \in {"running", "retrying", "finished"} /\ Exists(job[c].run)
      => runs[job[c].run].cfg = c

=============================================================================
