------------------------------ MODULE WebTokens ------------------------------
(***************************************************************************)
(* The tokens of one user of the web server.  They live in the user's row  *)
(* of table users and are renewed, with one rotating refresh token, by     *)
(*   - the scheduler before it queues and before it dispatches a run       *)
(*     (web/scheduler.py, _ensure_user_access_token),                      *)
(*   - the periodic _refresh_tokens_job,                                   *)
(*   - POST /auth/refresh, and a login (web/routes/auth.py),               *)
(*   - the thread of a run before it starts, after an authentication       *)
(*     error, and from each of its requests (web/sync_service.py).         *)
(* None of them locks the row: each reads it, awaits the endpoint and      *)
(* writes.  A session writes only the columns it has changed, and any      *)
(* commit may fail.  The coroutines have a session each and no await       *)
(* between their assignments and the commit, so they write a pair in one   *)
(* step.  The requests of a run that are sent at the same time, by pool    *)
(* threads, share one session without a lock: each sets one column, sets   *)
(* the other, flushes and commits, in steps of its own.  What SQLAlchemy   *)
(* does when two of them overlap is any of the outcomes it leaves open.    *)
(* The two columns that say when the tokens end follow the access token.   *)
(***************************************************************************)
EXTENDS TokenService

CONSTANTS
  Workers,      \* threads of a run that send requests at the same time
  Allowed,      \* the user is in web.allow_download_user_ids
  MaxRuns,      \* bound: runs of the user
  MaxOpen       \* bound: browsers send no request while so many are open

Coroutines == {"trigger", "runner", "job", "route", "login"}
WebCallers == Coroutines \cup {"thread"} \cup Workers

ASSUME WebAssumption ==
  /\ WebCallers \subseteq Callers
  /\ Coroutines \cap Workers = {} /\ "thread" \notin Workers
  /\ Allowed \in BOOLEAN
  /\ MaxRuns \in Nat
  /\ MaxOpen \in Nat

(* The token columns of a row, by the pairs they come from.                *)
Row      == [access : Grants \cup {NoGrant}, refresh : Grants \cup {NoGrant}]
NoTokens == [access |-> NoGrant, refresh |-> NoGrant]
Pair(g)  == [access |-> g, refresh |-> g]

VARIABLES
  registered,   \* the user has a row
  row,          \* its tokens
  run,          \* status of the user's latest run
  runs,         \* runs so far
  thread,       \* where UserSyncService.execute is
  view,         \* the tokens in the thread's session
  loaded,       \* FALSE after a commit (and view is then NoTokens): the next
                \* access reads the row again
  unsaved,      \* columns that requests have set on its user object
  flushed,      \* columns that are flushed and not yet committed
  broken,       \* a flush has failed and there was no rollback yet
  clashed,      \* pairs written while another request was writing (history)
  client,       \* UserAPIClient._user_token
  worker        \* where each request is

shared   == <<view, loaded, unsaved, flushed, broken, clashed>>
webState == <<registered, row, run, runs, thread, shared, client, worker>>
webVars  == <<serviceVars, webState>>

(* "abandoned" is a run whose row says queued, pending or running though   *)
(* nobody works on it any more, until the server starts again.             *)
RunActive   == {"queued", "pending", "running", "abandoned"}
RunStatus   == {"none", "completed", "failed", "auth_required"} \cup RunActive
ThreadState == {"none", "renewing", "starting", "working", "recovering",
                "restarting", "reworking"}
AtWork      == {"working", "reworking"}
Writing      == {"setting", "set", "committing"}
RequestState == {"idle", "denied", "asking", "renewed", "failed"} \cup Writing

WebTypeOK ==
  /\ ServiceTypeOK
  /\ registered \in BOOLEAN
  /\ row \in Row
  /\ run \in RunStatus
  /\ runs \in 0..MaxRuns
  /\ thread \in ThreadState
  /\ view \in Row
  /\ loaded \in BOOLEAN
  /\ unsaved \in Row /\ flushed \in Row
  /\ broken \in BOOLEAN
  /\ clashed \subseteq Grants
  /\ client \in Grants \cup {NoGrant}
  /\ worker \in [Workers -> RequestState]
  /\ thread # "none" => run \in {"pending", "running"}
  /\ ~registered => row = NoTokens
  /\ \A w \in Workers : Got(w, "taken") <=> worker[w] \in Writing

WebInit ==
  /\ registered = FALSE
  /\ row = NoTokens
  /\ run = "none"
  /\ runs = 0
  /\ thread = "none"
  /\ view = NoTokens
  /\ loaded = FALSE
  /\ unsaved = NoTokens /\ flushed = NoTokens
  /\ broken = FALSE
  /\ clashed = {}
  /\ client = NoGrant
  /\ worker = [w \in Workers |-> "idle"]

(* Faulty variant: the rotated refresh token is not stored.                *)
StoreAccessOnly(c) == row' = [row EXCEPT !.access = answer[c].got] /\ Settle(c)

(* The pair that was granted replaces the token columns.                   *)
Store(c) ==
  /\ row' = Pair(answer[c].got)
  /\ Settle(c)

(* The commit fails, and the pair is lost.                                 *)
StoreFails(c) ==
  /\ Got(c, "granted")
  /\ Forget({c})
  /\ Cardinality(lost') <= MaxLosses

(* Any other answer leaves the row alone.                                  *)
NothingToStore(c) == (Got(c, "refused") \/ Got(c, "failed")) /\ Settle(c)

-----------------------------------------------------------------------------
(* The event loop.                                                         *)

Quiet == Cardinality({c \in WebCallers : ~Free(c)}) < MaxOpen

(* GET /auth/callback: the code is exchanged ...                           *)
LoginAsk ==
  /\ Quiet
  /\ AskWithCode("login")
  /\ UNCHANGED webState

(* ... the user's data is read with the new token, and the row is created  *)
(* or updated; any error on the way is a 500.                              *)
LoginAnswer ==
  /\ \/ /\ Got("login", "granted")
        /\ registered' = TRUE
        /\ Store("login")
     \/ /\ ~Free("login")
        /\ Settle("login")
        /\ UNCHANGED <<registered, row>>
  /\ UNCHANGED <<run, runs, thread, shared, client, worker>>

(* get_current_user: a known user who is on the list of allowed ids.       *)
KnownUser == registered /\ Allowed

Logout ==
  /\ KnownUser
  /\ row' = NoTokens
  /\ UNCHANGED <<serviceVars, registered, run, runs, thread, shared, client,
                 worker>>

(* POST /auth/refresh, refused with 400 without a refresh token.           *)
RefreshAsk ==
  /\ Quiet
  /\ KnownUser
  /\ row.refresh # NoGrant
  /\ Ask("route", row.refresh)
  /\ UNCHANGED webState

RefreshAnswer ==
  /\ \/ Got("route", "granted") /\ Store("route")
     \/ (StoreFails("route") \/ NothingToStore("route")) /\ UNCHANGED row
  /\ UNCHANGED <<registered, run, runs, thread, shared, client, worker>>

(* Faulty variant: a token that is not yet expired is left alone.          *)
JobAskExpired ==
  /\ run \notin RunActive
  /\ row.refresh # NoGrant
  /\ Expired(row.access)
  /\ Ask("job", row.refresh)
  /\ UNCHANGED webState

(* _refresh_tokens_job, unless some run is active: tokens that end within  *)
(* the margin are renewed.                                                 *)
JobAsk ==
  /\ run \notin RunActive
  /\ row.refresh # NoGrant
  /\ Stale(row.access)
  /\ Ask("job", row.refresh)
  /\ UNCHANGED webState

JobAnswer ==
  /\ \/ Got("job", "granted") /\ Store("job")
     \/ (StoreFails("job") \/ NothingToStore("job")) /\ UNCHANGED row
  /\ UNCHANGED <<registered, run, runs, thread, shared, client, worker>>

(* _ensure_user_access_token of coroutine c, which goes on in `next` when  *)
(* the row has a token that has not expired, to the first suspension.      *)
Ensure(c, next) ==
  \/ /\ row.access # NoGrant /\ ~Expired(row.access)
     /\ run' = next
     /\ UNCHANGED serviceVars
  \/ /\ row.access = NoGrant \/ Expired(row.access)
     /\ row.refresh = NoGrant
     /\ run' = "auth_required"
     /\ UNCHANGED serviceVars
  \/ /\ row.access = NoGrant \/ Expired(row.access)
     /\ row.refresh # NoGrant
     /\ Ask(c, row.refresh)
     /\ UNCHANGED run

(* A commit that fails ends the coroutine there: in `stuck`.               *)
Ensured(c, next, stuck) ==
  \/ /\ Got(c, "granted")
     /\ Store(c)
     /\ run' = next
  \/ /\ StoreFails(c)
     /\ run' = stuck
     /\ UNCHANGED row
  \/ /\ NothingToStore(c)
     /\ run' = "auth_required"
     /\ UNCHANGED row

(* _enqueue_or_execute: a run is queued once its token is good.            *)
Trigger ==
  /\ registered
  /\ run \notin RunActive
  /\ runs < MaxRuns
  /\ Free("trigger")
  /\ runs' = runs + 1
  /\ Ensure("trigger", "queued")
  /\ UNCHANGED <<registered, row, thread, shared, client, worker>>

TriggerAnswer ==
  /\ Ensured("trigger", "queued", run)
  /\ UNCHANGED <<registered, runs, thread, shared, client, worker>>

(* _execute_sync_job_now looks at the token again before it dispatches.    *)
Dispatch ==
  /\ run = "queued"
  /\ Free("runner")
  /\ Ensure("runner", "pending")
  /\ UNCHANGED <<registered, row, runs, thread, shared, client, worker>>

DispatchAnswer ==
  /\ Ensured("runner", "pending", "abandoned")
  /\ UNCHANGED <<registered, runs, thread, shared, client, worker>>

-----------------------------------------------------------------------------
(* The thread of a run.  All its requests share one session and one client. *)

WebFrame == UNCHANGED <<registered, runs>>

(* The session forgets what it shows, and with it what was set on the user *)
(* object after the flush.                                                 *)
Forgets == loaded' = FALSE /\ view' = NoTokens /\ unsaved' = NoTokens /\ flushed' = NoTokens

EndThread(status) ==
  /\ thread' = "none"
  /\ run' = status
  /\ client' = NoGrant
  /\ Forgets
  /\ broken' = FALSE
  /\ UNCHANGED clashed

(* The columns that are set in `top` over those of `base`.                 *)
Over(top, base) ==
  [access  |-> IF top.access  # NoGrant THEN top.access  ELSE base.access,
   refresh |-> IF top.refresh # NoGrant THEN top.refresh ELSE base.refresh]

(* The tokens the session shows: as set, as loaded, or else as they are.   *)
Loaded == IF loaded THEN view ELSE row
Seen   == Over(unsaved, Over(flushed, Loaded))
Look   == ~broken /\ view' = Loaded /\ loaded' = TRUE /\ UNCHANGED <<unsaved, flushed, broken, clashed>>

(* execute: no token at all, one to be renewed first, or a good one.       *)
ThreadBegin ==
  /\ run = "pending"
  /\ thread = "none"
  /\ \/ /\ row.access = NoGrant
        /\ EndThread("auth_required")
     \/ /\ row.access # NoGrant
        /\ thread' = IF row.refresh # NoGrant /\ Stale(row.access)
                     THEN "renewing" ELSE "starting"
        /\ Look
        /\ UNCHANGED <<run, client>>
  /\ UNCHANGED <<serviceVars, row, worker>>
  /\ WebFrame

(* _refresh_user_token before the start, or after an authentication error. *)
ThreadAsk ==
  /\ thread \in {"renewing", "recovering"}
  /\ Seen.refresh # NoGrant
  /\ Look
  /\ Ask("thread", Seen.refresh)
  /\ UNCHANGED <<row, run, thread, client, worker>>
  /\ WebFrame

ThreadCannotAsk ==
  /\ thread \in {"renewing", "recovering"}
  /\ Free("thread")
  /\ Seen.refresh = NoGrant
  /\ EndThread("auth_required")
  /\ UNCHANGED <<serviceVars, row, worker>>
  /\ WebFrame

(* Faulty variant: the new pair is only kept in memory.                    *)
ThreadAnswerUnstored ==
  /\ \/ /\ Got("thread", "granted")
        /\ Settle("thread")
        /\ Forgets
        /\ thread' = IF thread = "renewing" THEN "starting" ELSE "restarting"
        /\ UNCHANGED <<row, run, client, broken, clashed>>
     \/ /\ NothingToStore("thread")
        /\ EndThread("auth_required")
        /\ UNCHANGED row
  /\ UNCHANGED worker
  /\ WebFrame

(* The thread is alone on its session.  Where its commit fails, so do the  *)
(* ones that would record the failure of the run.                          *)
ThreadAnswer ==
  /\ \/ /\ Got("thread", "granted")
        /\ Store("thread")
        /\ Forgets
        /\ thread' = IF thread = "renewing" THEN "starting" ELSE "restarting"
        /\ UNCHANGED <<run, client, broken, clashed>>
     \/ /\ StoreFails("thread")
        /\ EndThread("abandoned")
        /\ UNCHANGED row
     \/ /\ NothingToStore("thread")
        /\ EndThread("auth_required")
        /\ UNCHANGED row
  /\ UNCHANGED worker
  /\ WebFrame

(* WebProgressTracker.start or _reset_run_for_retry commits, and a client  *)
(* is built with the token the row has by now.                             *)
ThreadStart ==
  /\ thread \in {"starting", "restarting"}
  /\ run' = "running"
  /\ thread' = IF thread = "starting" THEN "working" ELSE "reworking"
  /\ view' = row
  /\ loaded' = TRUE
  /\ client' = row.access
  /\ UNCHANGED <<serviceVars, row, unsaved, flushed, broken, clashed, worker>>
  /\ WebFrame

AllIdle == \A w \in Workers : worker[w] = "idle"

(* Faulty variant: a commit of the thread writes every column it shows.    *)
ProgressWritesRow ==
  /\ thread \in AtWork
  /\ AllIdle
  /\ loaded
  /\ row' = view
  /\ Forgets
  /\ broken' = FALSE
  /\ UNCHANGED <<serviceVars, run, thread, client, worker, clashed>>
  /\ WebFrame

(* A commit of WebProgressTracker, between the requests of two files:      *)
(* counters only; the session forgets, or rolls back what was broken.      *)
Progress ==
  /\ thread \in AtWork
  /\ AllIdle
  /\ loaded \/ broken
  /\ Forgets
  /\ broken' = FALSE
  /\ UNCHANGED <<serviceVars, row, run, thread, client, worker, clashed>>
  /\ WebFrame

(* A request is answered with an authentication error: its token is too    *)
(* old.  (All other requests change nothing here.)                         *)
Denied(w) ==
  /\ thread \in AtWork
  /\ worker[w] = "idle"
  /\ Expired(client)
  /\ worker' = [worker EXCEPT ![w] = "denied"]
  /\ UNCHANGED <<serviceVars, row, run, thread, shared, client>>
  /\ WebFrame

(* The refresh callback of the client, from inside the request.            *)
WorkerAsk(w) ==
  /\ worker[w] = "denied"
  /\ Look
  /\ \/ /\ Seen.refresh = NoGrant
        /\ worker' = [worker EXCEPT ![w] = "failed"]
        /\ UNCHANGED serviceVars
     \/ /\ Seen.refresh # NoGrant
        /\ Ask(w, Seen.refresh)
        /\ worker' = [worker EXCEPT ![w] = "asking"]
  /\ UNCHANGED <<row, run, thread, client>>
  /\ WebFrame

(* A broken session raises when the callback reads the user's tokens.      *)
CannotRead(w) ==
  /\ worker[w] \in {"denied", "renewed"}
  /\ broken
  /\ worker' = [worker EXCEPT ![w] = "failed"]
  /\ UNCHANGED <<serviceVars, row, run, thread, shared, client>>
  /\ WebFrame

WorkerRefused(w) ==
  /\ worker[w] = "asking"
  /\ NothingToStore(w)
  /\ worker' = [worker EXCEPT ![w] = "failed"]
  /\ UNCHANGED <<row, run, thread, shared, client>>
  /\ WebFrame

Writers    == {w \in Workers : Got(w, "taken")}
Committing == {w \in Workers : worker[w] = "committing"}

(* The first column of the pair is set on the shared object; if another    *)
(* request is writing, none of the pairs being written is sure to be kept. *)
WorkerTakes(w) ==
  /\ worker[w] = "asking"
  /\ Got(w, "granted")
  /\ answer' = [answer EXCEPT ![w].state = "taken"]
  /\ unsaved' = [unsaved EXCEPT !.access = answer[w].got]
  /\ worker' = [worker EXCEPT ![w] = "setting"]
  /\ \/ /\ Writers = {}
        /\ UNCHANGED <<lost, clashed>>
     \/ /\ Writers # {}
        /\ lost' = lost \cup {answer[v].sent : v \in Writers \cup {w}}
        /\ clashed' = clashed \cup {answer[v].got : v \in Writers \cup {w}}
  /\ UNCHANGED <<issued, usable, age, usedBy>>
  /\ UNCHANGED <<row, run, thread, view, loaded, flushed, broken, client>>
  /\ WebFrame

(* The second column.                                                      *)
WorkerSets(w) ==
  /\ worker[w] = "setting"
  /\ unsaved' = [unsaved EXCEPT !.refresh = answer[w].got]
  /\ worker' = [worker EXCEPT ![w] = "set"]
  /\ UNCHANGED <<serviceVars, row, run, thread, view, loaded, flushed, broken, clashed, client>>
  /\ WebFrame

(* commit() flushes the columns that are set by now, by whomever.          *)
WorkerFlushes(w) ==
  /\ worker[w] = "set"
  /\ ~broken
  /\ flushed' = Over(unsaved, flushed)
  /\ unsaved' = NoTokens
  /\ worker' = [worker EXCEPT ![w] = "committing"]
  /\ UNCHANGED <<serviceVars, row, run, thread, view, loaded, broken, clashed, client>>
  /\ WebFrame

(* The flush fails: nothing of it reaches the row, and the session raises  *)
(* until it is rolled back.                                                *)
FlushFails(w) ==
  /\ worker[w] = "set"
  /\ ~broken
  /\ Forget({w})
  /\ Cardinality(lost') <= MaxLosses
  /\ Forgets
  /\ broken' = TRUE
  /\ worker' = [worker EXCEPT ![w] = "failed"]
  /\ UNCHANGED <<row, run, thread, clashed, client>>
  /\ WebFrame

(* commit() raises because another is on, or the session is broken.        *)
CommitRefused(w) ==
  /\ worker[w] = "set"
  /\ broken \/ Committing # {}
  /\ Forget({w})
  /\ worker' = [worker EXCEPT ![w] = "failed"]
  /\ UNCHANGED <<row, run, thread, shared, client>>
  /\ WebFrame

(* The row gets what was flushed, and the session forgets.                 *)
WorkerCommits(w) ==
  /\ worker[w] = "committing"
  /\ ~broken
  /\ row' = Over(flushed, row)
  /\ Settle(w)
  /\ worker' = [worker EXCEPT ![w] = "renewed"]
  /\ Forgets
  /\ UNCHANGED <<run, thread, broken, clashed, client>>
  /\ WebFrame

(* A commit that met another one raises after all, with or without effect. *)
CommitRaises(w) ==
  /\ worker[w] = "committing"
  /\ broken \/ Committing # {w}
  /\ row' \in {row, Over(flushed, row)}
  /\ Forget({w})
  /\ worker' = [worker EXCEPT ![w] = "failed"]
  /\ Forgets
  /\ UNCHANGED <<run, thread, broken, clashed, client>>
  /\ WebFrame

WorkerWrites(w) ==
  \/ WorkerTakes(w) \/ WorkerSets(w) \/ WorkerFlushes(w) \/ FlushFails(w)
  \/ CommitRefused(w) \/ WorkerCommits(w) \/ CommitRaises(w)

(* The callback returns the token of the row as it is now; the request     *)
(* gives up when that is none or the one it already had, and is sent a     *)
(* second and last time otherwise.                                         *)
WorkerRetry(w) ==
  /\ worker[w] = "renewed"
  /\ Look
  /\ \/ /\ Seen.access \in {NoGrant, client}
        /\ worker' = [worker EXCEPT ![w] = "failed"]
        /\ UNCHANGED client
     \/ /\ Seen.access \notin {NoGrant, client}
        /\ client' = Seen.access
        /\ worker' = [worker EXCEPT ![w] = IF Expired(client') THEN "failed" ELSE "idle"]
  /\ UNCHANGED <<serviceVars, row, run, thread>>
  /\ WebFrame

(* The failed request only costs a file ...                                *)
FailureCaught(w) ==
  /\ worker[w] = "failed"
  /\ worker' = [worker EXCEPT ![w] = "idle"]
  /\ UNCHANGED <<serviceVars, row, run, thread, shared, client>>
  /\ WebFrame

(* ... or ends the attempt, after the requests beside it: the first one is *)
(* followed by one more, the second ends the run, and in a broken session  *)
(* neither the tokens can be read nor the end be recorded.                 *)
FailureRaised(w) ==
  /\ worker[w] = "failed"
  /\ \A v \in Workers : worker[v] \in {"idle", "failed"}
  /\ worker' = [v \in Workers |-> "idle"]
  /\ \/ broken /\ thread \in AtWork /\ EndThread("abandoned")
     \/ ~broken /\ thread = "working" /\ thread' = "recovering" /\ UNCHANGED <<run, shared, client>>
     \/ ~broken /\ thread = "reworking" /\ EndThread("auth_required")
  /\ UNCHANGED <<serviceVars, row>>
  /\ WebFrame

(* The attempt ends with its work done, or with some other error; a broken *)
(* session does not record it.                                             *)
ThreadEnd ==
  /\ thread \in AtWork
  /\ AllIdle
  /\ \E status \in IF broken THEN {"abandoned"} ELSE {"completed", "failed"} : EndThread(status)
  /\ UNCHANGED <<serviceVars, row, worker>>
  /\ WebFrame

(* The server stops at any point; the next one fails its unfinished run.   *)
Crash ==
  /\ Forget(WebCallers)
  /\ lost' = lost \/ Cardinality(lost') <= MaxLosses
  /\ EndThread(IF run \in RunActive THEN "failed" ELSE run)
  /\ worker' = [w \in Workers |-> "idle"]
  /\ UNCHANGED <<registered, row, runs>>

(* The clock matters for the pair of the row and that of the client.       *)
Age == (\E g \in {row.access, client} : GrowOld(g)) /\ UNCHANGED webState

Thread ==
  \/ ThreadBegin \/ ThreadAsk \/ ThreadCannotAsk \/ ThreadAnswer \/ ThreadStart
  \/ ThreadEnd
  \/ \E w \in Workers : WorkerAsk(w) \/ CannotRead(w) \/ WorkerRefused(w) \/ WorkerWrites(w)
                        \/ WorkerRetry(w) \/ FailureCaught(w) \/ FailureRaised(w)

WebNext ==
  \/ LoginAsk \/ LoginAnswer \/ Logout
  \/ RefreshAsk \/ RefreshAnswer
  \/ JobAsk \/ JobAnswer
  \/ Trigger \/ TriggerAnswer \/ Dispatch \/ DispatchAnswer
  \/ Thread \/ Progress \/ \E w \in Workers : Denied(w)
  \/ Crash
  \/ Age

WebSpec == ServiceInit /\ WebInit /\ [][WebNext]_webVars

-----------------------------------------------------------------------------
(* Properties.                                                             *)

(* No renewal is thrown away by another: whatever the order in which the   *)
(* refreshes, logins and logouts write, the row holds a refresh token that *)
(* the endpoint accepts, or one whose successor is on its way or being     *)
(* written, or was lost: with an answer, with a commit that failed, or     *)
(* because two requests of a run were writing at the same time.            *)
RefreshTokenKept == row.refresh # NoGrant => Redeemable(row.refresh)

(* The two tokens of a row are of one pair, unless one of them comes from  *)
(* a request that was writing while another was: only those can mix the    *)
(* columns of two refreshes.                                               *)
TokensArePaired == row.access = row.refresh \/ {row.access, row.refresh} \cap clashed # {}

(* Access tokens that end are renewed, without a login, as long as pairs   *)
(* are left to issue and no pair was lost: the job catches up once the     *)
(* runs that hold it back are over.  A run that could not record its end   *)
(* holds it back until the server starts again.                            *)
StaleIsRenewed ==
  Stale(row.access) ~>
    ~Stale(row.access) \/ row.refresh \in lost \/ run = "abandoned" \/ issued = MaxGrants

=============================================================================
