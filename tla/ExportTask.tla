------------------------------ MODULE ExportTask ------------------------------
(***************************************************************************)
(* The downloads of one sheet or base (core/downloaders/                   *)
(* export_downloader.py), one after the other, each a sequence of requests *)
(* of FeishuAPIClient (core/api_client.py): its name is asked for, a task  *)
(* is created, polled until its file is ready, and the file is streamed to *)
(* the disk and registered in the reference cache, which lives as long as  *)
(* the process.  Every request is tried up to max_attempts times, behind   *)
(* the rate limiter (module RateLimiter); the length of the sleeps between *)
(* attempts and polls is left out, and so is a new name of the sheet,      *)
(* which would put it into another file.                                   *)
(***************************************************************************)
EXTENDS Integers, Sequences

CONSTANTS
  MaxAttempts,  \* retry.max_attempts
  MaxPolls,     \* ExportTaskDownloader.max_attempts (30)
  MaxTasks      \* bound: export tasks of the sheet

ASSUME ExportAssumption ==
  /\ MaxAttempts \in Nat \ {0}
  /\ MaxPolls \in Nat
  /\ MaxTasks \in Nat

VARIABLES
  stage,        \* where ExportTaskDownloader.download is
  sent,         \* an attempt of the current request is under way
  tries,        \* attempts of the request that failed and are to be repeated
  polls,        \* polls that found the task still running
  tasks,        \* Feishu's export tasks of the sheet, by their state
  older,        \* how many there were when the download began
  ticket,       \* the one that is polled, 0 for none
  target,       \* the local file: the export in it, and whether it is whole
  known         \* the export whose path was registered last, 0 for none

exportVars == <<stage, sent, tries, polls, tasks, older, ticket, target, known>>

Requesting == {"name", "create", "poll", "fetch"}
Ended      == {"none", "done", "failed"}

ExportTypeOK ==
  /\ stage \in Requesting \cup {"write"} \cup Ended
  /\ sent \in BOOLEAN
  /\ tries \in 0..(MaxAttempts - 1)
  /\ polls \in 0..MaxPolls
  /\ tasks \in Seq({"running", "ready", "broken"}) /\ Len(tasks) <= MaxTasks
  /\ older \in 0..Len(tasks)
  /\ ticket \in 0..Len(tasks)
  /\ target \in [of : 0..Len(tasks), part : {"cut", "whole"}]
  /\ known \in 0..Len(tasks)
  /\ sent => stage \in Requesting
  /\ stage \in {"fetch", "write", "done"} => ticket # 0

ExportInit ==
  /\ stage = "none"
  /\ sent = FALSE
  /\ tries = 0
  /\ polls = 0
  /\ tasks = <<>>
  /\ older = 0
  /\ ticket = 0
  /\ target = [of |-> 0, part |-> "whole"]
  /\ known = 0

(* The sheet is downloaded, for the first time or again.                   *)
StartDownload ==
  /\ stage \in Ended
  /\ stage' = "name"
  /\ tries' = 0
  /\ polls' = 0
  /\ older' = Len(tasks)
  /\ ticket' = 0
  /\ UNCHANGED <<sent, tasks, target, known>>

Send ==
  /\ stage \in Requesting
  /\ ~sent
  /\ sent' = TRUE
  /\ UNCHANGED <<stage, tries, polls, tasks, older, ticket, target, known>>

(* The request fails.  Without the name a download goes on, if it was an   *)
(* answer of Feishu's that told of the error.                              *)
Raise(answered) ==
  /\ stage' = IF stage = "name" /\ answered THEN "create" ELSE "failed"
  /\ tries' = 0

(* The attempt is repeated, or was the last and its error is raised.       *)
Retry(answered) ==
  \/ tries + 1 < MaxAttempts /\ tries' = tries + 1 /\ UNCHANGED stage
  \/ tries + 1 = MaxAttempts /\ Raise(answered)

Unanswered == sent /\ sent' = FALSE /\ UNCHANGED <<polls, older, ticket, target, known>>

(* No answer; the task may have been created all the same.                 *)
TransportError ==
  /\ Unanswered
  /\ \/ UNCHANGED tasks
     \/ /\ stage = "create" /\ Len(tasks) < MaxTasks
        /\ tasks' = Append(tasks, "running")
  /\ Retry(FALSE)

(* 429, 502, 503 or 504.  The text of the answer goes into the error: of a *)
(* stream it has not been read yet, and asking for it raises at once.  Or  *)
(* 400 with code 99991400, for which a stream is read first.               *)
ServerBusy ==
  /\ Unanswered
  /\ \/ Retry(TRUE)
     \/ stage = "fetch" /\ Raise(TRUE)
  /\ UNCHANGED tasks

(* Any other status from 400 on is raised.                                 *)
Refused ==
  /\ Unanswered
  /\ Raise(TRUE)
  /\ UNCHANGED tasks

Answered == sent /\ sent' = FALSE /\ tries' = 0

(* The name, which the name of the file may be made of.                    *)
Named ==
  /\ stage = "name"
  /\ Answered
  /\ stage' = "create"
  /\ UNCHANGED <<polls, tasks, older, ticket, target, known>>

(* An answer of status 200 that tells of an error has no ticket, which is  *)
(* not noticed.                                                            *)
Created ==
  /\ stage = "create"
  /\ Answered
  /\ \/ /\ Len(tasks) < MaxTasks
        /\ tasks' = Append(tasks, "running")
        /\ ticket' = Len(tasks')
     \/ UNCHANGED <<tasks, ticket>>
  /\ stage' = IF MaxPolls = 0 THEN "failed" ELSE "poll"
  /\ UNCHANGED <<polls, older, target, known>>

(* Faulty variant: polls that are not counted.                             *)
PolledUncounted ==
  /\ stage = "poll"
  /\ Answered
  /\ UNCHANGED <<stage, polls, tasks, older, ticket, target, known>>

(* The task still runs, or the answer has no status (an error told with    *)
(* status 200, or no ticket), which is taken for the same.  After the last *)
(* poll: TimeoutError.                                                     *)
PolledRunning ==
  /\ stage = "poll"
  /\ Answered
  /\ polls' = polls + 1
  /\ stage' = IF polls' = MaxPolls THEN "failed" ELSE "poll"
  /\ UNCHANGED <<tasks, older, ticket, target, known>>

PolledEnd ==
  /\ stage = "poll"
  /\ Answered
  /\ ticket # 0
  /\ tasks[ticket] # "running"
  /\ stage' = IF tasks[ticket] = "ready" THEN "fetch" ELSE "failed"
  /\ UNCHANGED <<polls, tasks, older, ticket, target, known>>

(* Faulty variant: the path is registered before the file is written.      *)
FetchedEarly ==
  /\ stage = "fetch"
  /\ Answered
  /\ stage' = "write"
  /\ target' = [of |-> ticket, part |-> "cut"]
  /\ known' = ticket
  /\ UNCHANGED <<polls, tasks, older, ticket>>

(* The headers are there, and the file is opened for writing, which cuts   *)
(* off what it held; or it cannot be opened.                               *)
Fetched ==
  /\ stage = "fetch"
  /\ Answered
  /\ \/ stage' = "write" /\ target' = [of |-> ticket, part |-> "cut"]
     \/ stage' = "failed" /\ UNCHANGED target
  /\ UNCHANGED <<polls, tasks, older, ticket, known>>

(* The stream ends and the path is registered, or it breaks, which no      *)
(* retry covers.                                                           *)
Written ==
  /\ stage = "write"
  /\ \/ /\ target' = [of |-> ticket, part |-> "whole"]
        /\ known' = ticket
        /\ stage' = "done"
     \/ stage' = "failed" /\ UNCHANGED <<target, known>>
  /\ UNCHANGED <<sent, tries, polls, tasks, older, ticket>>

(* Feishu works on its tasks at its own pace.                              *)
TaskEnds ==
  \E k \in DOMAIN tasks, st \in {"ready", "broken"} :
    /\ tasks[k] = "running"
    /\ tasks' = [tasks EXCEPT ![k] = st]
    /\ UNCHANGED <<stage, sent, tries, polls, older, ticket, target, known>>

Download ==
  \/ Send \/ TransportError \/ ServerBusy \/ Refused \/ Named
  \/ Created \/ PolledRunning \/ PolledEnd \/ Fetched \/ Written

ExportNext == StartDownload \/ Download \/ TaskEnds

ExportSpec == ExportInit /\ [][ExportNext]_exportVars

(* Every attempt is answered or times out; nothing is assumed of the tasks.*)
ExportFairSpec == ExportSpec /\ WF_exportVars(Download)

-----------------------------------------------------------------------------
(* Properties.                                                             *)

(* The reference cache leads to the last export that was brought whole,    *)
(* which was that of a task found ready, unless a later download opened    *)
(* the file and has not ended or broke: the cache is never told of that.   *)
(* And a download that ends well has brought an export of its own, not one *)
(* that an earlier download asked for, and it is the one shown.            *)
KnownIsLatest ==
  /\ known # 0 =>
       /\ tasks[known] = "ready"
       /\ target.of >= known
       /\ target.part = "whole" <=> target.of = known
  /\ stage = "done" => ticket > older /\ known = ticket /\ target.part = "whole"

(* A download that has begun ends, even if its task never does.            *)
ExportEnds == sent ~> stage \in Ended

=============================================================================
