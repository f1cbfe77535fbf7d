---------------------------- MODULE DownloadProofs ----------------------------
(***************************************************************************)
(* What TLAPS proves of the parts of a download: the export of a sheet     *)
(* (ExportTask), for any number of attempts, polls and export tasks; the   *)
(* store of the command line (JsonStore), for any files, configurations,   *)
(* kills and failed writes; the references between documents               *)
(* (DocReferences), for any way in which documents refer to each other;    *)
(* and of the parts together, with the two that have proofs of their own   *)
(* (RateLimiterProofs, DocParserProofs).                                   *)
(***************************************************************************)
EXTENDS MCDownloads, RateLimiterProofs, DocParserProofs,
        FiniteSetTheorems, SequenceTheorems, TLAPS

-----------------------------------------------------------------------------
(* The export of a sheet.                                                  *)

(* What the actions do to the sequence of tasks.                           *)
LEMMA EmptySequence ==
  ASSUME NEW S, NEW s, s = <<>>
  PROVE  s \in Seq(S) /\ Len(s) = 0
OBVIOUS

LEMMA LongerSequence ==
  ASSUME NEW S, NEW s \in Seq(S), NEW e \in S
  PROVE  /\ Append(s, e) \in Seq(S)
         /\ Len(Append(s, e)) = Len(s) + 1
         /\ \A i \in DOMAIN s : Append(s, e)[i] = s[i]
OBVIOUS

LEMMA ChangedSequence ==
  ASSUME NEW S, NEW s \in Seq(S), NEW k \in DOMAIN s, NEW e \in S
  PROVE  /\ [s EXCEPT ![k] = e] \in Seq(S)
         /\ Len([s EXCEPT ![k] = e]) = Len(s)
         /\ \A i \in DOMAIN s : i # k => [s EXCEPT ![k] = e][i] = s[i]
OBVIOUS

(* The type invariant is not inductive without the first bound: a download *)
(* that polls has not polled MaxPolls times.                               *)
PollsLeft ==
  /\ stage \in {"name", "create"} => polls = 0
  /\ stage = "poll" => polls < MaxPolls

ExportInv == ExportTypeOK /\ PollsLeft

LEMMA ExportInitial == ASSUME ExportInit PROVE ExportInv
<1>1. tasks \in Seq({"running", "ready", "broken"}) /\ Len(tasks) = 0
  BY EmptySequence DEF ExportInit
<1>2. target \in [of : 0..Len(tasks), part : {"cut", "whole"}]
  BY <1>1 DEF ExportInit
<1>3. sent \in BOOLEAN /\ ~sent
  BY DEF ExportInit
<1>4. QED
  BY <1>1, <1>2, <1>3, ExportAssumption
  DEF ExportInit, ExportInv, PollsLeft, ExportTypeOK, Requesting, Ended

(* No step takes a task away, and one that has ended keeps its state.      *)
TasksGrow ==
  /\ tasks' \in Seq({"running", "ready", "broken"})
  /\ Len(tasks) <= Len(tasks') /\ Len(tasks') <= MaxTasks
  /\ \A k \in 1..Len(tasks) : tasks[k] # "running" => tasks'[k] = tasks[k]

LEMMA TasksStep ==
  ASSUME ExportTypeOK, [ExportNext]_exportVars
  PROVE  TasksGrow
<1>1. tasks \in Seq({"running", "ready", "broken"}) /\ Len(tasks) <= MaxTasks /\ Len(tasks) \in Nat
  BY DEF ExportTypeOK
<1>2. CASE UNCHANGED tasks
  BY <1>1, <1>2 DEF TasksGrow
<1>3. CASE Len(tasks) < MaxTasks /\ tasks' = Append(tasks, "running")
  <2>1. tasks' \in Seq({"running", "ready", "broken"}) /\ Len(tasks') = Len(tasks) + 1
        /\ \A i \in 1..Len(tasks) : tasks'[i] = tasks[i]
    BY <1>1, <1>3, LongerSequence
  <2>2. Len(tasks) <= Len(tasks') /\ Len(tasks') <= MaxTasks
    BY <1>1, <1>3, <2>1, ExportAssumption
  <2>3. QED
    BY <2>1, <2>2 DEF TasksGrow
<1>4. CASE TaskEnds
  <2>1. PICK k \in DOMAIN tasks, st \in {"ready", "broken"} :
          tasks[k] = "running" /\ tasks' = [tasks EXCEPT ![k] = st]
    BY <1>4 DEF TaskEnds
  <2>2. QED
    BY <1>1, <2>1, ChangedSequence DEF TasksGrow
<1>5. QED
  BY <1>2, <1>3, <1>4
  DEF ExportNext, Download, exportVars, StartDownload, Send, TransportError, ServerBusy, Refused,
      Named, Created, PolledRunning, PolledEnd, Fetched, Written

LEMMA RetryTypes ==
  ASSUME ExportTypeOK, NEW answered \in BOOLEAN, Retry(answered) \/ Raise(answered)
  PROVE  /\ tries' \in 0..(MaxAttempts - 1)
         /\ stage' \in {stage, "create", "failed"}
         /\ stage' = "create" => stage \in {"name", "create"}
BY ExportAssumption DEF ExportTypeOK, Retry, Raise

LEMMA BooleanStep ==
  ASSUME ExportTypeOK, [ExportNext]_exportVars
  PROVE  sent' \in BOOLEAN
BY DEF ExportTypeOK, ExportNext, Download, exportVars, StartDownload, Send, TransportError,
       ServerBusy, Refused, Named, Created, PolledRunning, PolledEnd, Fetched, Written,
       TaskEnds, Unanswered, Answered

LEMMA ExportStep ==
  ASSUME ExportInv, [ExportNext]_exportVars
  PROVE  ExportInv'
<1>. sent' \in BOOLEAN
  BY BooleanStep DEF ExportInv
<1>1. TasksGrow
  BY TasksStep DEF ExportInv
<1>2. /\ tasks' \in Seq({"running", "ready", "broken"}) /\ Len(tasks') <= MaxTasks
      /\ Len(tasks) <= Len(tasks') /\ Len(tasks) \in Nat /\ Len(tasks') \in Nat
  BY <1>1 DEF TasksGrow, ExportInv, ExportTypeOK
<1> USE ExportAssumption DEF ExportInv, PollsLeft, ExportTypeOK, Requesting, Ended
<1>3. CASE StartDownload
  BY <1>2, <1>3 DEF StartDownload
<1>4. CASE Send
  BY <1>2, <1>4 DEF Send
<1>5. CASE TransportError \/ ServerBusy \/ Refused
  <2>1. PICK answered \in BOOLEAN : Unanswered /\ (Retry(answered) \/ Raise(answered))
    BY <1>5 DEF TransportError, ServerBusy, Refused
  <2>2. /\ tries' \in 0..(MaxAttempts - 1)
        /\ stage' \in {stage, "create", "failed"}
        /\ stage' = "create" => stage \in {"name", "create"}
    BY <2>1, RetryTypes
  <2>3. ExportTypeOK'
    BY <1>2, <2>1, <2>2 DEF Unanswered
  <2>4. PollsLeft'
    BY <2>1, <2>2 DEF Unanswered
  <2>5. QED
    BY <2>3, <2>4
<1>6. CASE Named
  BY <1>2, <1>6 DEF Named, Answered
<1>7. CASE Created
  <2>1. ticket' \in 0..Len(tasks')
    BY <1>2, <1>7 DEF Created
  <2>2. ExportTypeOK'
    BY <1>2, <1>7, <2>1 DEF Created, Answered
  <2>3. PollsLeft'
    BY <1>7 DEF Created
  <2>4. QED
    BY <2>2, <2>3
<1>8. CASE PolledRunning
  BY <1>2, <1>8 DEF PolledRunning, Answered
<1>9. CASE PolledEnd
  BY <1>2, <1>9 DEF PolledEnd, Answered
<1>10. CASE Fetched
  <2>1. target' \in [of : 0..Len(tasks'), part : {"cut", "whole"}]
    BY <1>2, <1>10 DEF Fetched
  <2>2. QED
    BY <1>2, <1>10, <2>1 DEF Fetched, Answered
<1>11. CASE Written
  <2>1. target' \in [of : 0..Len(tasks'), part : {"cut", "whole"}] /\ known' \in 0..Len(tasks')
    BY <1>2, <1>11 DEF Written
  <2>2. QED
    BY <1>2, <1>11, <2>1 DEF Written
<1>12. CASE TaskEnds
  BY <1>2, <1>12 DEF TaskEnds
<1>13. CASE UNCHANGED exportVars
  BY <1>13 DEF exportVars
<1>14. QED
  BY <1>3, <1>4, <1>5, <1>6, <1>7, <1>8, <1>9, <1>10, <1>11, <1>12, <1>13 DEF ExportNext, Download

(* Type correctness: no request is tried more than MaxAttempts times, no   *)
(* task polled more than MaxPolls times, and nothing is fetched without a  *)
(* ticket.                                                                 *)
THEOREM ExportTypeCorrect == ExportSpec => []ExportTypeOK
<1>1. ExportInv /\ [ExportNext]_exportVars => ExportInv'
  BY ExportStep
<1>2. ExportInv => ExportTypeOK
  BY DEF ExportInv
<1>3. QED
  BY <1>1, <1>2, ExportInitial, PTL DEF ExportSpec

-----------------------------------------------------------------------------
(* A ticket is that of a task created since the download began, and what   *)
(* is fetched is the file of one that was found ready, and stays so.       *)
TicketIsOwn ==
  /\ ticket # 0 => ticket > older
  /\ stage \in {"name", "create"} => ticket = 0
  /\ stage \in {"fetch", "write", "done"} => tasks[ticket] = "ready"

(* What is in the file or in the cache is not of a later download than     *)
(* the last that went so far.                                              *)
FileIsPast ==
  /\ stage # "write" /\ stage # "done" => target.of <= older \/ target.of <= ticket
  /\ stage \in Requesting => target.of <= older
  /\ known <= target.of
  /\ stage = "write" => target = [of |-> ticket, part |-> "cut"] /\ known <= older
  /\ stage = "done" => target = [of |-> ticket, part |-> "whole"] /\ known = ticket

(* The path is registered when the file has been written, and the cache is *)
(* not told when the file is opened again.                                 *)
ShownIsLast ==
  known # 0 => tasks[known] = "ready" /\ (target.part = "whole" <=> target.of = known)

FileInv == TicketIsOwn /\ FileIsPast /\ ShownIsLast

(* A step that leaves the file, the cache and the ticket alone.            *)
GoesOn ==
  \/ stage' = stage
  \/ stage' = "failed" /\ stage # "done"
  \/ stage' = "create" /\ stage = "name"
  \/ stage' = "poll" /\ stage = "create"
  \/ stage' = "fetch" /\ stage = "poll" /\ tasks[ticket] = "ready" /\ ticket # 0

FileFacts ==
  /\ Len(tasks) \in Nat /\ Len(tasks') \in Nat /\ Len(tasks) <= Len(tasks')
  /\ older \in 0..Len(tasks) /\ ticket \in 0..Len(tasks) /\ known \in 0..Len(tasks)
  /\ target \in [of : 0..Len(tasks), part : {"cut", "whole"}]
  /\ target.of \in 0..Len(tasks)
  /\ stage \in {"fetch", "write", "done"} => ticket # 0
  /\ \A k \in 1..Len(tasks) : tasks[k] = "ready" => tasks'[k] = "ready"
  /\ known # 0 => tasks'[known] = "ready"
  /\ stage \in {"fetch", "write", "done"} => tasks'[ticket] = "ready"

LEMMA FileFactsHold ==
  ASSUME ExportTypeOK, FileInv, [ExportNext]_exportVars
  PROVE  FileFacts
<1>1. TasksGrow
  BY TasksStep
<1>2. /\ Len(tasks) \in Nat /\ Len(tasks') \in Nat /\ Len(tasks) <= Len(tasks')
      /\ \A k \in 1..Len(tasks) : tasks[k] = "ready" => tasks'[k] = "ready"
  BY <1>1 DEF TasksGrow, ExportTypeOK
<1>3. /\ older \in 0..Len(tasks) /\ ticket \in 0..Len(tasks) /\ known \in 0..Len(tasks)
      /\ target \in [of : 0..Len(tasks), part : {"cut", "whole"}]
      /\ target.of \in 0..Len(tasks)
      /\ stage \in {"fetch", "write", "done"} => ticket # 0
  BY DEF ExportTypeOK
<1>4. /\ known # 0 => tasks'[known] = "ready"
      /\ stage \in {"fetch", "write", "done"} => tasks'[ticket] = "ready"
  BY <1>2, <1>3 DEF FileInv, TicketIsOwn, ShownIsLast
<1>5. QED
  BY <1>2, <1>3, <1>4 DEF FileFacts

LEMMA FileRests ==
  ASSUME FileFacts, FileInv, GoesOn,
         older' = older, ticket' = ticket, target' = target, known' = known
  PROVE  FileInv'
<1>1. TicketIsOwn'
  BY DEF FileFacts, GoesOn, FileInv, TicketIsOwn
<1>2. FileIsPast'
  BY DEF FileFacts, GoesOn, FileInv, FileIsPast, Requesting
<1>3. ShownIsLast'
  BY DEF FileFacts, FileInv, ShownIsLast
<1>4. QED
  BY <1>1, <1>2, <1>3 DEF FileInv

LEMMA FileStep ==
  ASSUME ExportTypeOK, FileInv, [ExportNext]_exportVars
  PROVE  FileInv'
<1>1. FileFacts
  BY FileFactsHold
<1>2. CASE StartDownload
  <2>1. TicketIsOwn'
    BY <1>2 DEF StartDownload, TicketIsOwn
  <2>2. FileIsPast'
    BY <1>1, <1>2 DEF FileFacts, StartDownload, FileInv, FileIsPast
  <2>3. ShownIsLast'
    BY <1>2 DEF StartDownload, FileInv, ShownIsLast
  <2>4. QED
    BY <2>1, <2>2, <2>3 DEF FileInv
<1>3. CASE Created
  <2>1. CASE ticket' = ticket
    <3>1. GoesOn /\ older' = older /\ target' = target /\ known' = known
      BY <1>3 DEF Created, GoesOn
    <3>2. QED
      BY <1>1, <2>1, <3>1, FileRests
  <2>2. CASE tasks' = Append(tasks, "running") /\ ticket' = Len(tasks')
    <3>1. tasks \in Seq({"running", "ready", "broken"})
      BY DEF ExportTypeOK
    <3>2. Len(tasks') = Len(tasks) + 1
      BY <2>2, <3>1, LongerSequence
    <3>3. ticket' > older /\ ticket' \in Nat
      BY <1>1, <2>2, <3>2 DEF FileFacts
    <3>4. TicketIsOwn'
      BY <1>3, <3>3 DEF Created, TicketIsOwn
    <3>5. FileIsPast'
      BY <1>1, <1>3, <3>3 DEF FileFacts, Created, FileInv, FileIsPast, Requesting
    <3>6. ShownIsLast'
      BY <1>1, <1>3 DEF FileFacts, Created, FileInv, ShownIsLast
    <3>7. QED
      BY <3>4, <3>5, <3>6 DEF FileInv
  <2>3. QED
    BY <1>3, <2>1, <2>2 DEF Created
<1>4. CASE Fetched /\ stage' = "write"
  <2>1. TicketIsOwn'
    BY <1>1, <1>4 DEF FileFacts, Fetched, FileInv, TicketIsOwn
  <2>2. FileIsPast' /\ target.of <= older
    BY <1>1, <1>4 DEF FileFacts, Fetched, FileInv, TicketIsOwn, FileIsPast, Requesting
  <2>3. ShownIsLast'
    BY <1>1, <1>4, <2>2 DEF FileFacts, Fetched, FileInv, TicketIsOwn, FileIsPast, ShownIsLast
  <2>4. QED
    BY <2>1, <2>2, <2>3 DEF FileInv
<1>5. CASE Written /\ stage' = "done"
  <2>1. TicketIsOwn'
    BY <1>1, <1>5 DEF FileFacts, Written, FileInv, TicketIsOwn
  <2>2. FileIsPast'
    BY <1>1, <1>5 DEF FileFacts, Written, FileIsPast, Requesting
  <2>3. ShownIsLast'
    BY <1>1, <1>5 DEF FileFacts, Written, ShownIsLast
  <2>4. QED
    BY <2>1, <2>2, <2>3 DEF FileInv
<1>6. CASE GoesOn /\ older' = older /\ ticket' = ticket /\ target' = target /\ known' = known
  BY <1>1, <1>6, FileRests
<1>7. CASE TransportError \/ ServerBusy \/ Refused
  <2>1. older' = older /\ ticket' = ticket /\ target' = target /\ known' = known
        /\ sent
    BY <1>7 DEF TransportError, ServerBusy, Refused, Unanswered
  <2>2. stage' = stage \/ stage' = "failed" \/ (stage = "name" /\ stage' = "create")
    BY <1>7 DEF TransportError, ServerBusy, Refused, Retry, Raise
  <2>3. GoesOn
    BY <2>1, <2>2 DEF GoesOn, ExportTypeOK, Requesting
  <2>4. QED
    BY <1>6, <2>1, <2>3
<1>8. CASE (Fetched \/ Written) /\ stage' = "failed"
  BY <1>6, <1>8 DEF Fetched, Written, GoesOn
<1>9. CASE Send \/ Named \/ TaskEnds \/ UNCHANGED exportVars
  BY <1>6, <1>9 DEF Send, Named, TaskEnds, exportVars, GoesOn
<1>10. CASE PolledRunning
  BY <1>6, <1>10 DEF PolledRunning, GoesOn
<1>11. CASE PolledEnd
  BY <1>6, <1>11 DEF PolledEnd, GoesOn
<1>12. QED
  BY <1>2, <1>3, <1>4, <1>5, <1>7, <1>8, <1>9, <1>10, <1>11
  DEF ExportNext, Download, Fetched, Written

(* Whatever failed, was repeated or was created twice, in this download or *)
(* in an earlier one: a path in the reference cache is that of the last    *)
(* export that was ready and came whole, or the file has been cut off by a *)
(* later download since; and a download that ends well has brought an      *)
(* export of its own.                                                      *)
THEOREM RegisteredIsLatest == ExportSpec => []KnownIsLatest
<1>1. ExportInit => FileInv
  BY DEF ExportInit, FileInv, TicketIsOwn, FileIsPast, ShownIsLast
<1>2. ExportTypeOK /\ FileInv /\ [ExportNext]_exportVars => FileInv'
  BY FileStep
<1>3. ExportTypeOK /\ FileInv => KnownIsLatest
  <2>1. SUFFICES ASSUME ExportTypeOK, FileInv PROVE KnownIsLatest
    OBVIOUS
  <2>2. ticket \in Nat /\ older \in Nat /\ known \in Nat /\ target.of \in Nat
    BY <2>1 DEF ExportTypeOK
  <2>3. QED
    BY <2>1, <2>2 DEF ExportTypeOK, FileInv, TicketIsOwn, FileIsPast, ShownIsLast, KnownIsLatest
<1>4. QED
  BY <1>1, <1>2, <1>3, ExportTypeCorrect, PTL DEF ExportSpec

-----------------------------------------------------------------------------
(* Why a download ends: every step of it is one towards its end.  It goes  *)
(* on to another request, polls once more, fails once more or sends what   *)
(* was not sent, and of all these the types know a bound.                  *)
Passed(st) ==
  CASE st = "name" -> 0 [] st = "create" -> 1 [] st = "poll" -> 2 [] st = "fetch" -> 3
    [] st = "write" -> 4 [] OTHER -> 5

Advances ==
  \/ Passed(stage') > Passed(stage)
  \/ stage' = stage /\ polls' > polls
  \/ stage' = stage /\ polls' = polls /\ tries' > tries
  \/ stage' = stage /\ polls' = polls /\ tries' = tries /\ sent' /\ ~sent

LEMMA DownloadAdvances == ASSUME ExportTypeOK, Download PROVE Advances
<1>1. polls \in Nat /\ tries \in Nat /\ (sent => stage \in Requesting)
  BY ExportAssumption DEF ExportTypeOK
<1>2. CASE Send
  BY <1>2 DEF Send, Advances
<1>3. CASE TransportError \/ ServerBusy \/ Refused
  <2>1. PICK answered \in BOOLEAN : sent /\ UNCHANGED polls /\ (Retry(answered) \/ Raise(answered))
    BY <1>3 DEF TransportError, ServerBusy, Refused, Unanswered
  <2>2. CASE tries' = tries + 1 /\ UNCHANGED stage
    BY <1>1, <2>1, <2>2 DEF Advances
  <2>3. CASE Raise(answered)
    BY <1>1, <2>1, <2>3 DEF Raise, Advances, Passed, Requesting
  <2>4. QED
    BY <2>1, <2>2, <2>3 DEF Retry
<1>4. CASE Named
  BY <1>4 DEF Named, Advances, Passed
<1>5. CASE Created
  BY <1>5 DEF Created, Advances, Passed
<1>6. CASE PolledRunning
  BY <1>1, <1>6 DEF PolledRunning, Advances, Passed
<1>7. CASE PolledEnd
  BY <1>7 DEF PolledEnd, Advances, Passed
<1>8. CASE Fetched
  BY <1>8 DEF Fetched, Advances, Passed
<1>9. CASE Written
  BY <1>9 DEF Written, Advances, Passed
<1>10. QED
  BY <1>2, <1>3, <1>4, <1>5, <1>6, <1>7, <1>8, <1>9 DEF Download

(* However its requests fail, what a download of a sheet does brings it    *)
(* nearer to its end, of the attempts and polls that are left no more than *)
(* the types allow: of the liveness that the run checks, all but fairness. *)
THEOREM DownloadRunsOut == ExportSpec => []ExportTypeOK /\ [][Download => Advances]_exportVars
<1>1. ExportTypeOK /\ [ExportNext]_exportVars => [Download => Advances]_exportVars
  BY DownloadAdvances
<1>2. QED
  BY <1>1, ExportTypeCorrect, PTL DEF ExportSpec

-----------------------------------------------------------------------------
(* The stores.                                                             *)

(* What the two stores and the open one say of a file: the status and the  *)
(* time of its record.                                                     *)
View(e) == <<e.status, e.time>>
Views(f) == {View(json.records[f]), View(db.records[f]), View(data[f])}

(* No record is ahead of Feishu; the file of one that says "ok" holds the  *)
(* version of the record, or a later one.                                  *)
Honest(v, f) ==
  /\ v[2] <= space[f].version
  /\ v[1] = "ok" /\ There(f) => v[2] <= copies[f].version

RecordsAreHonest == \A f \in Files : \A v \in Views(f) : Honest(v, f)

(* Nor is a file, or what has been listed of it.                           *)
FilesAreNotAhead ==
  \A f \in Files : copies[f].version <= space[f].version /\ queued[f] <= space[f].version

(* The file under way holds what was listed, and all of it once written.   *)
Held ==
  step \in {"write", "mark"} =>
    /\ Busy # {}
    /\ There(Current) /\ queued[Current] <= copies[Current].version
    /\ step = "mark" => copies[Current].whole

(* What is not marked dirty is what the JSON file holds.                   *)
CleanIsSaved ==
  command.backend = "json" /\ step # "idle" /\ ~dirty => json.records = data

(* A store knows of the files that are cut off, except for those in lapsed *)
(* and the one under way: the store in use, and both when none is.         *)
Knows(b, records, f) ==
  f \in CutOff /\ records[f].status = "ok" => <<b, f>> \in lapsed

BothKnow ==
  step \in {"idle", "import"} =>
    \A f \in Files : Knows("json", json.records, f) /\ Knows("sqlite", db.records, f)

InUseKnows ==
  step \notin {"idle", "import"} =>
    \A f \in Files : (step = "write" /\ f = Current) \/ Knows(command.backend, Records, f)

(* Nothing is open before a command; only a database is imported into.     *)
Closed == step = "idle" => data = Empty /\ ~dirty /\ updates = 0 /\ ~failing
Importing == step = "import" => command.backend = "sqlite"

StoreInv ==
  /\ JsonTypeOK
  /\ RecordsAreHonest /\ FilesAreNotAhead
  /\ Held /\ CleanIsSaved /\ BothKnow /\ InUseKnows /\ Closed /\ Importing

(* What of the records of the open store is not in the file.               *)
Unsaved == {f \in Files : data[f] \notin {NoEntry, json.records[f]}}

FewUnsaved ==
  command.backend = "json" /\ ~failing =>
    IsFiniteSet(Unsaved) /\ Cardinality(Unsaved) <= updates

LEMMA Records0 ==
  /\ NoEntry \in Entry /\ Empty \in [Files -> Entry]
  /\ \A s \in {"none", "torn", "garbled", "good"} : Without(s) \in Stored /\ Without(s).records = Empty
  /\ \A r \in [Files -> Entry] : Good(r) \in Stored /\ Good(r).records = r /\ Good(r).state = "good"
BY DEF NoEntry, Entry, Empty, Without, Stored, Good

LEMMA StoreTypes ==
  ASSUME JsonTypeOK
  PROVE  /\ Records \in [Files -> Entry]
         /\ \A f \in Files :
              /\ Records[f] \in Entry /\ data[f] \in Entry
              /\ json.records[f] \in Entry /\ db.records[f] \in Entry
              /\ space[f].version \in Nat /\ copies[f].version \in Nat /\ queued[f] \in Nat
              /\ SizeOf(f) \in {"unknown", "short", "full"}
         /\ json.records \in [Files -> Entry] /\ db.records \in [Files -> Entry]
BY DEF JsonTypeOK, Stored, Records, SizeOf

LEMMA FirstIsOneOf ==
  ASSUME NEW S, S # {}
  PROVE  First(S) \in S
BY DEF First

(* A write reaches the file, or leaves the store dirty and the file as it  *)
(* was or without records.                                                 *)
LEMMA WriteOutDoes ==
  ASSUME JsonTypeOK, NEW r \in [Files -> Entry], WriteOut(r)
  PROVE  /\ json' \in Stored /\ dirty' \in BOOLEAN /\ failing' \in BOOLEAN
         /\ json'.records \in {r, json.records, Empty}
         /\ ~dirty' => json'.records = r
         /\ ~failing' => json'.records = r
BY Records0 DEF WriteOut, JsonTypeOK, Fault, Count

(* What Store does, whichever store is in use: of any file but f each of   *)
(* the stores says what it said, or nothing.                               *)
LEMMA StoreDoes ==
  ASSUME JsonTypeOK, step # "idle", NEW f \in Files, NEW e \in Entry, Store(f, e),
         NEW r, r = [Records EXCEPT ![f] = e]
  PROVE  /\ r \in [Files -> Entry]
         /\ json' \in Stored /\ db' \in Stored /\ db'.state \in {"none", "good"}
         /\ data' \in [Files -> Entry] /\ dirty' \in BOOLEAN /\ failing' \in BOOLEAN
         /\ updates' \in 0..(FlushInterval - 1)
         /\ command.backend = "sqlite" =>
              /\ data' = data /\ dirty' = dirty /\ updates' = updates /\ json' = json
              /\ db'.records = r
         /\ command.backend = "json" =>
              /\ data' = r /\ db' = db
              /\ json'.records \in {json.records, r, Empty}
              /\ ~dirty' => json'.records = r
              /\ ~failing' =>
                   \/ json'.records = r
                   \/ ~failing /\ json'.records = json.records /\ updates' = updates + 1
<1>1. r \in [Files -> Entry]
  BY StoreTypes
<1>2. CASE command.backend = "json"
  <2>1. CASE updates + 1 < FlushInterval
    BY <1>1, <1>2, <2>1, JsonAssumption DEF Store, JsonTypeOK
  <2>2. CASE ~(updates + 1 < FlushInterval)
    <3>1. WriteOut(r) /\ updates' = 0 /\ data' = r /\ db' = db
      BY <1>2, <2>2 DEF Store
    <3>2. 0 \in 0..(FlushInterval - 1)
      BY JsonAssumption
    <3> QED
      BY <1>1, <1>2, <3>1, <3>2, WriteOutDoes DEF JsonTypeOK
  <2> QED
    BY <2>1, <2>2
<1>3. CASE command.backend # "json"
  <2>1. db' = Good(r) /\ UNCHANGED <<json, data, dirty, updates, failing>>
    BY <1>3 DEF Store, openStore
  <2>2. db' \in Stored /\ db'.records = r /\ db'.state = "good"
    BY <1>1, <2>1, Records0
  <2>3. /\ json' \in Stored /\ data' \in [Files -> Entry] /\ updates' \in 0..(FlushInterval - 1)
        /\ dirty' \in BOOLEAN /\ failing' \in BOOLEAN
    BY <2>1 DEF JsonTypeOK
  <2> QED
    BY <1>1, <1>3, <2>1, <2>2, <2>3
<1> QED
  BY <1>1, <1>2, <1>3
LEMMA CommandTypes ==
  ASSUME JsonTypeOK
  PROVE  /\ command.backend \in {"json", "sqlite"}
         /\ NoCommand.backend = "json" /\ Migrate.backend = "sqlite" /\ Migrate # NoCommand
         /\ \A c \in Syncs : c # NoCommand /\ c # Migrate /\ c.backend \in {"json", "sqlite"}
<1>1. \A c \in Syncs : c.name = "sync" /\ c.backend \in {"json", "sqlite"}
  BY JsonAssumption
<1>2. NoCommand.name = "none" /\ NoCommand.backend = "json"
  BY DEF NoCommand
<1>3. Migrate.name = "migrate" /\ Migrate.backend = "sqlite"
  BY DEF Migrate, NoCommand
<1>4. command = NoCommand \/ command = Migrate \/ command \in Syncs
  BY DEF JsonTypeOK
<1>5. "none" # "migrate" /\ "none" # "sync" /\ "migrate" # "sync"
  OBVIOUS
<1> QED
  BY <1>1, <1>2, <1>3, <1>4, <1>5

LEMMA OverDoes ==
  ASSUME JsonTypeOK, Over, json' \in Stored, db' \in Stored, db'.state \in {"none", "good"},
         UNCHANGED <<space, copies>>, lapsed' \subseteq Backends \X Files
  PROVE  /\ JsonTypeOK' /\ Closed' /\ step' = "idle"
         /\ data' = Empty /\ queued' = [f \in Files |-> 0] /\ command' = NoCommand
<1>1. /\ data' \in [Files -> Entry] /\ data' = Empty /\ dirty' = FALSE /\ failing' = FALSE
      /\ updates' = 0 /\ updates' \in 0..(FlushInterval - 1)
      /\ command' = NoCommand /\ step' = "idle" /\ seen' = {}
      /\ queued' = [f \in Files |-> 0]
  BY Records0, JsonAssumption DEF Over
<1>2. queued' \in [Files -> Nat]
  BY <1>1
<1>3. JsonTypeOK'
  BY <1>1, <1>2 DEF JsonTypeOK
<1> QED
  BY <1>1, <1>3 DEF Closed

LEMMA EventTypes ==
  ASSUME JsonTypeOK, NEW f \in Files, EditFile(f) \/ RemoveOrRestore(f) \/ LoseCopy(f)
  PROVE  JsonTypeOK'
<1>1. /\ UNCHANGED <<json, db, data, dirty, updates, command, step, seen, queued, lapsed, failing>>
  BY DEF EditFile, RemoveOrRestore, LoseCopy, Event, jsonStored, openStore, jsonRun
<1>2. /\ space' \in [Files -> [version : Nat, listed : BOOLEAN]]
      /\ copies' \in [Files -> [version : Nat, whole : BOOLEAN]]
  <2>1. space[f] \in [version : Nat, listed : BOOLEAN]
    BY DEF JsonTypeOK
  <2>2. CASE EditFile(f)
    <3>1. [space[f] EXCEPT !.version = @ + 1] \in [version : Nat, listed : BOOLEAN]
      BY <2>1
    <3>2. space' = [space EXCEPT ![f] = [space[f] EXCEPT !.version = @ + 1]] /\ copies' = copies
      BY <2>2 DEF EditFile, JsonTypeOK
    <3> QED
      BY <3>1, <3>2 DEF JsonTypeOK
  <2>3. CASE RemoveOrRestore(f)
    <3>1. [space[f] EXCEPT !.listed = ~@] \in [version : Nat, listed : BOOLEAN]
      BY <2>1
    <3>2. space' = [space EXCEPT ![f] = [space[f] EXCEPT !.listed = ~@]] /\ copies' = copies
      BY <2>3 DEF RemoveOrRestore, JsonTypeOK
    <3> QED
      BY <3>1, <3>2 DEF JsonTypeOK
  <2>4. CASE LoseCopy(f)
    BY <2>4 DEF LoseCopy, JsonTypeOK, NoCopy
  <2> QED
    BY <2>2, <2>3, <2>4
<1> QED
  BY <1>1, <1>2 DEF JsonTypeOK

(* The actions on the store and the copies but the ends of a command, one  *)
(* by one.                                                                 *)
LEMMA BeginTypes ==
  ASSUME JsonTypeOK, Closed, NEW c \in Syncs \cup {Migrate}, OpenJson(c) \/ OpenDatabase(c)
  PROVE  JsonTypeOK' /\ step' \in {"import", "reset", "discover"} /\ command' = c /\ step = "idle"
         /\ (step' = "import" => c.backend = "sqlite")
         /\ ~failing'
<1>1. /\ step = "idle" /\ command' = c
      /\ UNCHANGED <<space, copies, seen, queued, lapsed, failing>>
      /\ data = Empty /\ ~dirty /\ updates = 0 /\ ~failing
  BY DEF OpenJson, OpenDatabase, Begin, Closed
<1>2. c \in {NoCommand, Migrate} \cup Syncs /\ c # NoCommand /\ c.backend \in {"json", "sqlite"}
  BY CommandTypes
<1>3. CASE OpenJson(c)
  <2>1. /\ step' \in {"reset", "discover"} /\ data' = json.records /\ data' \in [Files -> Entry]
        /\ UNCHANGED <<json, db, dirty, updates>> /\ c.backend = "json"
    BY <1>3, StoreTypes DEF OpenJson, jsonStored
  <2> QED
    BY <1>1, <1>2, <2>1 DEF JsonTypeOK
<1>4. CASE OpenDatabase(c)
  <2>1. /\ step' \in {"import", "reset", "discover"} /\ UNCHANGED <<json, data, dirty, updates>>
        /\ c.backend = "sqlite" /\ db' = Good(db.records)
    BY <1>4 DEF OpenDatabase, openStore
  <2>2. db' \in Stored /\ db'.state = "good"
    BY <2>1, StoreTypes, Records0
  <2> QED
    BY <1>1, <1>2, <2>1, <2>2 DEF JsonTypeOK
<1> QED
  BY <1>3, <1>4

LEMMA CurrentIsBusy ==
  ASSUME Busy # {}
  PROVE  Current \in Files /\ queued[Current] # 0
BY FirstIsOneOf DEF Current, Busy

LEMMA ImportTypes ==
  ASSUME JsonTypeOK, Import
  PROVE  /\ JsonTypeOK'
         /\ db'.records = [f \in Files |->
              IF db.records[f] = NoEntry THEN [json.records[f] EXCEPT !.size = "unknown"]
                                         ELSE db.records[f]]
         /\ \/ Over
            \/ step' \in {"reset", "discover"} /\ UNCHANGED <<command, seen, queued, openStore, failing>>
<1> DEFINE r == [f \in Files |->
              IF db.records[f] = NoEntry THEN [json.records[f] EXCEPT !.size = "unknown"]
                                         ELSE db.records[f]]
<1>1. r \in [Files -> Entry]
  <2>1. ASSUME NEW f \in Files PROVE [json.records[f] EXCEPT !.size = "unknown"] \in Entry
    BY SMTT(30), StoreTypes DEF Entry
  <2> QED
    BY <2>1, StoreTypes
<1>2. db' = Good(r) /\ UNCHANGED <<space, copies, json>>
  BY DEF Import
<1>3. lapsed' \subseteq Backends \X Files
  <2>1. {<<"sqlite", f>> : f \in {g \in Files : <<"json", g>> \in lapsed}} \subseteq Backends \X Files
    <3>1. ASSUME NEW f \in Files PROVE <<"sqlite", f>> \in Backends \X Files
      BY DEF Backends
    <3> QED
      BY <3>1
  <2> QED
    BY <2>1 DEF Import, JsonTypeOK
<1>4. Over \/ (step' \in {"reset", "discover"} /\ UNCHANGED <<command, seen, queued, openStore, failing>>)
  BY DEF Import
<1> HIDE DEF r
<1>5. db' \in Stored /\ db'.records = r /\ db'.state = "good"
  BY <1>1, <1>2, Records0
<1>6. ASSUME Over PROVE JsonTypeOK'
  BY <1>2, <1>3, <1>5, <1>6, OverDoes DEF JsonTypeOK
<1>7. ASSUME step' \in {"reset", "discover"}, UNCHANGED <<command, seen, queued, openStore, failing>>
      PROVE  JsonTypeOK'
  <2>1. UNCHANGED <<data, dirty, updates>>
    BY <1>7 DEF openStore
  <2>2. step = "import"
    BY DEF Import
  <2> QED
    BY <1>2, <1>3, <1>5, <1>7, <2>1, <2>2 DEF JsonTypeOK
<1>8. JsonTypeOK'
  BY <1>4, <1>6, <1>7
<1> QED
  BY <1>4, <1>5, <1>8 DEF r

LEMMA ResetTypes ==
  ASSUME JsonTypeOK, Reset
  PROVE  /\ JsonTypeOK'
         /\ command.backend = "json" =>
              /\ data' = Empty /\ db' = db
              /\ json'.records \in {Empty, json.records}
              /\ ~dirty' => json'.records = Empty
         /\ command.backend = "sqlite" =>
              data' = data /\ json' = json /\ dirty' = dirty /\ db'.records = Empty
<1>1. /\ step = "reset" /\ step' = "discover"
      /\ UNCHANGED <<space, copies, command, seen, queued, lapsed>>
  BY DEF Reset
<1>2. 0 \in 0..(FlushInterval - 1)
  BY JsonAssumption
<1>3. CASE command.backend = "json"
  <2>1. data' = Empty /\ WriteOut(Empty) /\ updates' = 0 /\ UNCHANGED db
    BY <1>3 DEF Reset
  <2>2. /\ json' \in Stored /\ dirty' \in BOOLEAN /\ failing' \in BOOLEAN
        /\ json'.records \in {Empty, json.records}
        /\ ~dirty' => json'.records = Empty
    BY <2>1, WriteOutDoes, Records0
  <2>3. data' \in [Files -> Entry]
    BY <2>1, Records0
  <2>4. JsonTypeOK'
    BY <1>1, <1>2, <1>3, <2>1, <2>2, <2>3 DEF JsonTypeOK
  <2> QED
    BY <1>3, <2>1, <2>2, <2>4
<1>4. CASE command.backend = "sqlite"
  <2>1. db' = Good(Empty) /\ UNCHANGED <<json, data, dirty, updates, failing>>
    BY <1>4 DEF Reset, openStore
  <2>2. db' \in Stored /\ db'.state = "good" /\ db'.records = Empty
    BY <2>1, Records0
  <2>3. JsonTypeOK'
    BY <1>1, <1>4, <2>1, <2>2 DEF JsonTypeOK
  <2> QED
    BY <1>4, <2>1, <2>2, <2>3
<1> QED
  BY <1>3, <1>4, CommandTypes

LEMMA StepTypes ==
  ASSUME JsonTypeOK, Held, Plan \/ Discovered \/ OpenFile \/ CloseFile \/ Downloaded
  PROVE  JsonTypeOK'
<1>1. ASSUME Plan PROVE JsonTypeOK'
  <2>1. Listed \in Files
    BY <1>1, FirstIsOneOf DEF Plan, Listed, Unseen
  <2>2. space[Listed].version \in Nat
    BY <2>1, StoreTypes
  <2>3. seen' \subseteq Files /\ queued' \in [Files -> Nat]
    BY <1>1, <2>1, <2>2 DEF Plan, JsonTypeOK
  <2> QED
    BY <1>1, <2>3 DEF Plan, JsonTypeOK, jsonStored, openStore
<1>2. ASSUME Discovered \/ Downloaded PROVE JsonTypeOK'
  <2>1. /\ step \in {"discover", "download"} /\ step' \in {"download", "clean"}
        /\ UNCHANGED <<space, copies, json, db, data, dirty, updates, command, seen, queued, lapsed, failing>>
    BY <1>2 DEF Discovered, Downloaded, jsonStored, openStore
  <2> QED
    BY <2>1 DEF JsonTypeOK
<1>3. ASSUME OpenFile \/ CloseFile PROVE JsonTypeOK'
  <2>1. /\ step \in {"download", "write"} /\ step' \in {"write", "mark"}
        /\ UNCHANGED <<space, json, db, data, dirty, updates, command, seen, queued, lapsed, failing>>
        /\ Busy # {}
    BY <1>3 DEF OpenFile, CloseFile, jsonStored, openStore, Held
  <2>2. Current \in Files
    BY <2>1, CurrentIsBusy
  <2>3. copies' \in [Files -> [version : Nat, whole : BOOLEAN]]
    <3>1. space[Current].version \in Nat /\ copies[Current] \in [version : Nat, whole : BOOLEAN]
      BY <2>2, StoreTypes DEF JsonTypeOK
    <3>2. [version |-> space[Current].version, whole |-> FALSE] \in [version : Nat, whole : BOOLEAN]
      BY <3>1
    <3>3. [copies[Current] EXCEPT !.whole = TRUE] \in [version : Nat, whole : BOOLEAN]
      BY <3>1
    <3>4. \/ copies' = [copies EXCEPT ![Current] = [version |-> space[Current].version, whole |-> FALSE]]
          \/ copies' = [copies EXCEPT ![Current] = [copies[Current] EXCEPT !.whole = TRUE]]
      BY <1>3, <2>2 DEF OpenFile, CloseFile, JsonTypeOK
    <3> QED
      BY <3>2, <3>3, <3>4 DEF JsonTypeOK
  <2> QED
    BY <2>1, <2>3 DEF JsonTypeOK
<1> QED
  BY <1>1, <1>2, <1>3

(* The actions that store a record.                                        *)
LEMMA RecordTypes ==
  ASSUME JsonTypeOK, step # "idle", NEW f \in Files, NEW e \in Entry, Store(f, e),
         UNCHANGED <<space, command>>, copies' \in [Files -> [version : Nat, whole : BOOLEAN]],
         step' \in {"discover", "download", "clean"}, seen' \subseteq Files, queued' \in [Files -> Nat],
         lapsed' \subseteq lapsed
  PROVE  JsonTypeOK'
<1> DEFINE r == [Records EXCEPT ![f] = e]
<1>1. r = [Records EXCEPT ![f] = e]
  OBVIOUS
<1> HIDE DEF r
<1>2. /\ json' \in Stored /\ db' \in Stored /\ db'.state \in {"none", "good"}
      /\ data' \in [Files -> Entry] /\ dirty' \in BOOLEAN /\ failing' \in BOOLEAN
      /\ updates' \in 0..(FlushInterval - 1)
      /\ command.backend = "sqlite" => data' = data /\ dirty' = dirty /\ updates' = updates
  BY <1>1, StoreDoes
<1>3. command' # NoCommand /\ command' \in {NoCommand, Migrate} \cup Syncs /\ lapsed' \subseteq Backends \X Files
  BY DEF JsonTypeOK
<1>4. command'.backend = "sqlite" => data' = Empty /\ ~dirty' /\ updates' = 0
  BY <1>2 DEF JsonTypeOK
<1>5. space' \in [Files -> [version : Nat, listed : BOOLEAN]]
  BY DEF JsonTypeOK
<1> QED
  BY <1>2, <1>3, <1>4, <1>5 DEF JsonTypeOK

LEMMA EntryTypes ==
  ASSUME JsonTypeOK, NEW f \in Files, NEW t \in Nat
  PROVE  /\ [status |-> "ok", time |-> t,
             size |-> IF command.backend = "json" THEN "unknown" ELSE SizeOf(f)] \in Entry
         /\ [Records[f] EXCEPT !.status = "missing", !.time = t] \in Entry
         /\ [Records[f] EXCEPT !.status = "missing", !.time = t].status = "missing"
         /\ [Records[f] EXCEPT !.status = "missing", !.time = t].time = t
         /\ [Records[f] EXCEPT !.status = "deleted"] \in Entry
         /\ [Records[f] EXCEPT !.status = "deleted"].status = "deleted"
         /\ [Records[f] EXCEPT !.status = "deleted"].time = Records[f].time
BY ZenonT(40), StoreTypes DEF Entry

LEMMA ViewTypes ==
  ASSUME JsonTypeOK, NEW f \in Files
  PROVE  /\ \A v \in Views(f) : v[2] \in Nat
         /\ View(NoEntry) = <<"none", 0>>
<1>1. \A e \in Entry : View(e)[2] \in Nat
  BY DEF View, Entry
<1> QED
  BY <1>1, StoreTypes DEF Views, View, NoEntry

(* Records that are honest stay so while Feishu and the files go forward   *)
(* and no record is new but one that is honest.                            *)
LEMMA HonestKept ==
  ASSUME JsonTypeOK, JsonTypeOK', RecordsAreHonest,
         \A f \in Files : space[f].version <= space'[f].version,
         \A f \in Files : copies'[f].version \in {0, copies[f].version, space[f].version},
         \A f \in Files : \A v \in Views(f)' :
           v \in Views(f) \/ v = <<"none", 0>> \/ Honest(v, f)'
  PROVE  RecordsAreHonest'
<1> SUFFICES ASSUME NEW f \in Files, NEW v \in Views(f)'
             PROVE  Honest(v, f)'
  BY DEF RecordsAreHonest
<1>1. space[f].version \in Nat /\ space'[f].version \in Nat
  BY DEF JsonTypeOK
<1>2. copies[f].version \in Nat /\ copies'[f].version \in Nat
  BY DEF JsonTypeOK
<1>3. CASE v = <<"none", 0>>
  BY <1>1, <1>3 DEF Honest
<1>4. CASE v \in Views(f)
  <2>1. Honest(v, f) /\ v[2] \in Nat
    BY <1>4, ViewTypes DEF RecordsAreHonest
  <2>2. v[2] <= space'[f].version
    BY <1>1, <2>1 DEF Honest
  <2>3. v[1] = "ok" /\ copies'[f].version # 0 => v[2] <= copies'[f].version
    BY <1>1, <1>2, <2>1 DEF Honest, There
  <2> QED
    BY <2>2, <2>3 DEF Honest, There
<1> QED
  BY <1>3, <1>4

(* Of the records, that of f alone is new.                                 *)
LEMMA StoreViews ==
  ASSUME JsonTypeOK, step # "idle", NEW f \in Files, NEW e \in Entry, Store(f, e),
         NEW g \in Files, NEW v \in Views(g)'
  PROVE  v \in Views(g) \/ v = <<"none", 0>> \/ (g = f /\ v = View(e))
<1> DEFINE r == [Records EXCEPT ![f] = e]
<1>1. r = [Records EXCEPT ![f] = e]
  OBVIOUS
<1>2. g = f => r[g] = e
  BY StoreTypes
<1>3. g # f => r[g] = Records[g]
  BY StoreTypes
<1> HIDE DEF r
<1>4. Records[g] \in {data[g], db.records[g]}
  BY DEF Records
<1>5. View(r[g]) \in Views(g) \/ (g = f /\ View(r[g]) = View(e))
  BY <1>2, <1>3, <1>4 DEF Views
<1>6. View(Empty[g]) = <<"none", 0>>
  BY DEF Empty, View, NoEntry
<1>7. v \in {View(json'.records[g]), View(db'.records[g]), View(data'[g])}
  BY DEF Views, View
<1>8. CASE command.backend = "json"
  <2>1. data' = r /\ db' = db /\ json'.records \in {json.records, r, Empty}
    BY <1>1, <1>8, StoreDoes
  <2> QED
    BY <1>5, <1>6, <1>7, <2>1 DEF Views
<1>9. CASE command.backend = "sqlite"
  <2>1. data' = data /\ json' = json /\ db'.records = r
    BY <1>1, <1>9, StoreDoes
  <2> QED
    BY <1>5, <1>7, <2>1 DEF Views
<1> QED
  BY <1>8, <1>9, CommandTypes

LEMMA EventKeeps ==
  ASSUME StoreInv, NEW f \in Files, EditFile(f) \/ RemoveOrRestore(f) \/ LoseCopy(f)
  PROVE  StoreInv'
<1> USE DEF StoreInv
<1>1. UNCHANGED <<json, db, data, dirty, updates, command, step, seen, queued, lapsed, failing>>
  BY DEF EditFile, RemoveOrRestore, LoseCopy, Event, jsonStored, openStore, jsonRun
<1>2. JsonTypeOK'
  BY EventTypes
<1>3. \A g \in Files : space[g].version <= space'[g].version
  <2>1. CASE EditFile(f)
    BY <2>1, StoreTypes DEF EditFile, JsonTypeOK
  <2>2. CASE RemoveOrRestore(f)
    BY <2>2, StoreTypes DEF RemoveOrRestore, JsonTypeOK
  <2>3. CASE LoseCopy(f)
    BY <2>3, StoreTypes DEF LoseCopy
  <2> QED
    BY <2>1, <2>2, <2>3
<1>4. \A g \in Files : copies'[g] = copies[g] \/ (step = "idle" /\ copies'[g] = NoCopy)
  BY DEF EditFile, RemoveOrRestore, LoseCopy, JsonTypeOK
<1>5. NoCopy.version = 0
  BY DEF NoCopy
<1>6. RecordsAreHonest'
  <2>1. \A g \in Files : Views(g)' = Views(g)
    BY <1>1 DEF Views, View
  <2>2. \A g \in Files : copies'[g].version \in {0, copies[g].version, space[g].version}
    BY <1>4, <1>5
  <2> QED
    BY <1>2, <1>3, <2>1, <2>2, HonestKept
<1>7. FilesAreNotAhead'
  <2> SUFFICES ASSUME NEW g \in Files
               PROVE  copies'[g].version <= space'[g].version /\ queued'[g] <= space'[g].version
    BY DEF FilesAreNotAhead
  <2>1. copies[g].version <= space[g].version /\ queued[g] <= space[g].version
    BY DEF FilesAreNotAhead
  <2>2. space[g].version \in Nat /\ space'[g].version \in Nat /\ copies[g].version \in Nat /\ queued[g] \in Nat
    BY <1>2, StoreTypes DEF JsonTypeOK
  <2> QED
    BY <1>1, <1>3, <1>4, <1>5, <2>1, <2>2
<1>8. Held'
  <2>1. Busy' = Busy /\ Current' = Current
    BY <1>1 DEF Current, Busy
  <2>2. step \in {"write", "mark"} => Current \in Files /\ copies'[Current] = copies[Current]
    BY <1>4, CurrentIsBusy DEF Held
  <2> QED
    BY <1>1, <2>1, <2>2 DEF Held, There
<1>9. CleanIsSaved' /\ Closed' /\ Importing'
  BY <1>1 DEF CleanIsSaved, Closed, Importing
<1>10. \A g \in Files : g \in CutOff' => g \in CutOff
  BY <1>4, <1>5 DEF CutOff, There
<1>11. BothKnow'
  BY <1>1, <1>10 DEF BothKnow, Knows
<1>12. InUseKnows'
  BY <1>1, <1>10 DEF InUseKnows, Knows, Records, Current, Busy
<1> QED
  BY <1>2, <1>6, <1>7, <1>8, <1>9, <1>11, <1>12

LEMMA BeginKeeps ==
  ASSUME StoreInv, NEW c \in Syncs \cup {Migrate}, OpenJson(c) \/ OpenDatabase(c)
  PROVE  StoreInv'
<1> USE DEF StoreInv
<1>1. /\ JsonTypeOK' /\ step' \in {"import", "reset", "discover"} /\ command' = c /\ step = "idle"
      /\ step' = "import" => c.backend = "sqlite"
  BY BeginTypes
<1>2. UNCHANGED <<space, copies, queued, lapsed>> /\ data = Empty
  BY DEF OpenJson, OpenDatabase, Begin, Closed
<1>3. \/ c.backend = "json" /\ data' = json.records /\ json' = json /\ db' = db /\ dirty' = dirty
      \/ c.backend = "sqlite" /\ data' = data /\ json' = json /\ db'.records = db.records
  BY Records0, StoreTypes DEF OpenJson, OpenDatabase, jsonStored, openStore
<1>4. RecordsAreHonest'
  <2>1. \A g \in Files : Views(g)' \subseteq Views(g)
    BY <1>3 DEF Views, View
  <2> QED
    BY <1>1, <1>2, <2>1, HonestKept, StoreTypes
<1>5. FilesAreNotAhead'
  BY <1>2 DEF FilesAreNotAhead
<1>6. Held' /\ Closed' /\ Importing'
  BY <1>1 DEF Held, Closed, Importing
<1>7. CleanIsSaved'
  BY <1>1, <1>3 DEF CleanIsSaved
<1>8. \A f \in Files : Knows("json", json.records, f) /\ Knows("sqlite", db.records, f)
  BY <1>1 DEF BothKnow
<1>9. BothKnow'
  BY <1>1, <1>2, <1>3, <1>8 DEF BothKnow, Knows, CutOff, There
<1>10. InUseKnows'
  BY <1>1, <1>2, <1>3, <1>8 DEF InUseKnows, Knows, CutOff, There, Records
<1> QED
  BY <1>1, <1>4, <1>5, <1>6, <1>7, <1>9, <1>10

(* The end of a command: what the stores hold is what they held, and each  *)
(* file that is cut off has lapsed from the stores that may not know of it.*)
LEMMA OverKeeps ==
  ASSUME StoreInv, Over, json' \in Stored, db' \in Stored, db'.state \in {"none", "good"},
         UNCHANGED <<space, copies>>, lapsed' \subseteq Backends \X Files,
         \A f \in Files : Views(f)' \subseteq Views(f) \cup {<<"none", 0>>},
         \A f \in Files : Knows("json", json.records, f)' /\ Knows("sqlite", db.records, f)'
  PROVE  StoreInv'
<1> USE DEF StoreInv
<1>1. /\ JsonTypeOK' /\ Closed' /\ step' = "idle"
      /\ queued' = [f \in Files |-> 0] /\ command' = NoCommand
  BY OverDoes
<1>2. RecordsAreHonest'
  BY <1>1, HonestKept, StoreTypes
<1>3. FilesAreNotAhead'
  BY <1>1, StoreTypes DEF FilesAreNotAhead
<1>4. Held' /\ CleanIsSaved' /\ Importing' /\ InUseKnows'
  BY <1>1 DEF Held, CleanIsSaved, Importing, InUseKnows
<1>5. BothKnow'
  BY DEF BothKnow
<1> QED
  BY <1>1, <1>2, <1>3, <1>4, <1>5

LEMMA ImportKeeps ==
  ASSUME StoreInv, Import
  PROVE  StoreInv'
<1> USE DEF StoreInv
<1>1. /\ JsonTypeOK' /\ db' \in Stored /\ db'.state \in {"none", "good"} /\ json' \in Stored
      /\ lapsed' \subseteq Backends \X Files
      /\ UNCHANGED <<space, copies, json>> /\ step = "import" /\ command.backend = "sqlite"
  BY ImportTypes DEF Import, JsonTypeOK, Importing
<1>2. \A f \in Files : View(db'.records[f]) \in {View(db.records[f]), View(json.records[f])}
  <2>1. ASSUME NEW f \in Files
        PROVE  View([json.records[f] EXCEPT !.size = "unknown"]) = View(json.records[f])
    BY StoreTypes DEF View, Entry
  <2> QED
    BY <2>1, ImportTypes
<1>3. \A f \in Files : db'.records[f].status = "ok" =>
        db.records[f].status = "ok" \/ (json.records[f].status = "ok")
  BY <1>2 DEF View
<1>4. /\ lapsed \subseteq lapsed'
      /\ \A f \in Files : <<"json", f>> \in lapsed => <<"sqlite", f>> \in lapsed'
  BY DEF Import
<1>5. \A f \in Files : Knows("json", json.records, f)' /\ Knows("sqlite", db.records, f)'
  <2>1. \A f \in Files : Knows("json", json.records, f) /\ Knows("sqlite", db.records, f)
    BY <1>1 DEF BothKnow
  <2> QED
    BY <1>1, <1>3, <1>4, <2>1 DEF Knows, CutOff, There
<1>6. CASE Over
  <2>1. \A f \in Files : View(data'[f]) = <<"none", 0>>
    BY <1>6 DEF Over, Empty, View, NoEntry
  <2>2. \A f \in Files : Views(f)' \subseteq Views(f) \cup {<<"none", 0>>}
    BY <1>1, <1>2, <2>1 DEF Views, View
  <2> QED
    BY <1>1, <1>5, <1>6, <2>2, OverKeeps
<1>7. CASE step' \in {"reset", "discover"} /\ UNCHANGED <<command, seen, queued, openStore, failing>>
  <2>1. UNCHANGED <<data, dirty, updates, queued, command>>
    BY <1>7 DEF openStore
  <2>2. RecordsAreHonest'
    <3>1. \A f \in Files : Views(f)' \subseteq Views(f)
      BY <1>1, <1>2, <2>1 DEF Views, View
    <3> QED
      BY <1>1, <3>1, HonestKept, StoreTypes
  <2>3. FilesAreNotAhead'
    BY <1>1, <2>1 DEF FilesAreNotAhead
  <2>4. Held' /\ CleanIsSaved' /\ BothKnow' /\ Closed' /\ Importing'
    BY <1>1, <1>7, <2>1 DEF Held, CleanIsSaved, BothKnow, Closed, Importing
  <2>5. InUseKnows'
    BY <1>1, <1>5, <2>1 DEF InUseKnows, Records, Knows
  <2> QED
    BY <1>1, <2>2, <2>3, <2>4, <2>5
<1> QED
  BY <1>6, <1>7, ImportTypes

LEMMA ResetKeeps ==
  ASSUME StoreInv, Reset
  PROVE  StoreInv'
<1> USE DEF StoreInv
<1>1. /\ JsonTypeOK'
      /\ command.backend = "json" =>
              /\ data' = Empty /\ db' = db
              /\ json'.records \in {Empty, json.records}
              /\ ~dirty' => json'.records = Empty
      /\ command.backend = "sqlite" =>
              data' = data /\ json' = json /\ dirty' = dirty /\ db'.records = Empty
  BY ResetTypes
<1>2. /\ step = "reset" /\ step' = "discover"
      /\ UNCHANGED <<space, copies, command, seen, queued, lapsed>>
  BY DEF Reset
<1>3. \A f \in Files : View(Empty[f]) = <<"none", 0>> /\ Empty[f].status = "none"
  BY DEF Empty, View, NoEntry
<1>4. RecordsAreHonest'
  <2>1. \A f \in Files : Views(f)' \subseteq Views(f) \cup {<<"none", 0>>}
    BY <1>1, <1>3, CommandTypes DEF Views, View
  <2> QED
    BY <1>1, <1>2, <2>1, HonestKept, StoreTypes
<1>5. FilesAreNotAhead'
  BY <1>2 DEF FilesAreNotAhead
<1>6. Held' /\ BothKnow' /\ Closed' /\ Importing'
  BY <1>2 DEF Held, BothKnow, Closed, Importing
<1>7. CleanIsSaved'
  BY <1>1, <1>2 DEF CleanIsSaved
<1>8. InUseKnows'
  <2>1. Records' = Empty
    BY <1>1, <1>2, CommandTypes DEF Records
  <2> QED
    BY <1>2, <1>3, <2>1 DEF InUseKnows, Knows
<1> QED
  BY <1>1, <1>4, <1>5, <1>6, <1>7, <1>8

LEMMA PlanKeeps ==
  ASSUME StoreInv, Plan \/ Discovered \/ Downloaded
  PROVE  StoreInv'
<1> USE DEF StoreInv
<1>1. JsonTypeOK'
  BY StepTypes
<1>2. /\ UNCHANGED <<space, copies, json, db, data, dirty, updates, command, lapsed, failing>>
      /\ step \in {"discover", "download"} /\ step' \in {"discover", "download", "clean"}
  BY DEF Plan, Discovered, Downloaded, jsonStored, openStore
<1>3. \A f \in Files : queued'[f] <= space[f].version
  <2>1. CASE Plan
    <3>1. queued' = [queued EXCEPT ![Listed] = space[Listed].version] /\ Listed \in Files
      BY <2>1, FirstIsOneOf DEF Plan, Listed, Unseen
    <3> QED
      BY <3>1, StoreTypes DEF FilesAreNotAhead, JsonTypeOK
  <2>2. CASE ~Plan
    BY <2>2 DEF Discovered, Downloaded, FilesAreNotAhead
  <2> QED
    BY <2>1, <2>2
<1>4. RecordsAreHonest'
  BY <1>1, <1>2, HonestKept, StoreTypes DEF Views, View
<1>5. FilesAreNotAhead'
  BY <1>2, <1>3 DEF FilesAreNotAhead
<1>6. Held' /\ CleanIsSaved' /\ BothKnow' /\ Closed' /\ Importing'
  BY <1>2 DEF Held, CleanIsSaved, BothKnow, Closed, Importing
<1>7. InUseKnows'
  BY <1>2 DEF InUseKnows, Knows, Records, CutOff, There
<1> QED
  BY <1>1, <1>4, <1>5, <1>6, <1>7

LEMMA WriteKeeps ==
  ASSUME StoreInv, OpenFile \/ CloseFile
  PROVE  StoreInv'
<1> USE DEF StoreInv
<1>1. JsonTypeOK'
  BY StepTypes
<1>2. /\ UNCHANGED <<space, json, db, data, dirty, updates, command, queued, lapsed, failing>>
      /\ step \in {"download", "write"} /\ step' \in {"write", "mark"}
      /\ Busy # {}
  BY DEF OpenFile, CloseFile, jsonStored, openStore, Held
<1>3. Current \in Files /\ queued[Current] # 0 /\ Busy' = Busy /\ Current' = Current
  BY <1>2, CurrentIsBusy DEF Current, Busy
<1>4. /\ \A f \in Files \ {Current} : copies'[f] = copies[f]
      /\ \/ step = "download" /\ step' = "write" /\ copies'[Current].version = space[Current].version
            /\ ~copies'[Current].whole
         \/ step = "write" /\ step' = "mark" /\ copies'[Current].version = copies[Current].version
            /\ copies'[Current].whole
  <2>1. copies[Current] \in [version : Nat, whole : BOOLEAN]
    BY <1>3 DEF JsonTypeOK
  <2>2. CASE OpenFile
    BY <1>3, <2>2 DEF OpenFile, JsonTypeOK
  <2>3. CASE CloseFile
    <3>1. copies'[Current] = [copies[Current] EXCEPT !.whole = TRUE]
      BY <1>3, <2>3 DEF CloseFile, JsonTypeOK
    <3>2. copies'[Current].version = copies[Current].version /\ copies'[Current].whole
      BY <2>1, <3>1
    <3>3. \A f \in Files \ {Current} : copies'[f] = copies[f]
      BY <2>3 DEF CloseFile, JsonTypeOK
    <3> QED
      BY <2>3, <3>2, <3>3 DEF CloseFile
  <2> QED
    BY <2>2, <2>3
<1>5. queued[Current] <= space[Current].version /\ copies[Current].version <= space[Current].version
  BY <1>3 DEF FilesAreNotAhead
<1>6. RecordsAreHonest'
  <2>1. \A f \in Files : Views(f)' = Views(f)
    BY <1>2 DEF Views, View
  <2>2. \A f \in Files : copies'[f].version \in {0, copies[f].version, space[f].version}
    BY <1>4
  <2> QED
    BY <1>1, <1>2, <2>1, <2>2, HonestKept, StoreTypes
<1>7. FilesAreNotAhead'
  BY <1>2, <1>4, <1>5, StoreTypes DEF FilesAreNotAhead
<1>8. Held'
  <2>1. space[Current].version # 0
    BY <1>3, <1>5, StoreTypes
  <2>2. copies'[Current].version # 0 /\ queued[Current] <= copies'[Current].version
    BY <1>4, <1>5, <2>1 DEF Held, There
  <2> QED
    BY <1>2, <1>3, <1>4, <2>2 DEF Held, There
<1>9. CleanIsSaved' /\ BothKnow' /\ Closed' /\ Importing'
  BY <1>2 DEF CleanIsSaved, BothKnow, Closed, Importing
<1>10. InUseKnows'
  <2>1. ASSUME NEW f \in Files, ~(step' = "write" /\ f = Current)
        PROVE  Knows(command.backend, Records, f)'
    <3>1. f = Current => f \notin CutOff'
      BY <1>2, <1>4, <2>1 DEF CutOff
    <3>2. f # Current => Knows(command.backend, Records, f)
      BY <1>2 DEF InUseKnows
    <3> QED
      BY <1>2, <1>4, <2>1, <3>1, <3>2 DEF Knows, CutOff, There, Records
  <2> QED
    BY <1>2, <1>3, <2>1 DEF InUseKnows
<1> QED
  BY <1>1, <1>6, <1>7, <1>8, <1>9, <1>10

(* A record is stored that is honest, of a file that is whole, or that the *)
(* store knows of.                                                         *)
LEMMA RecordingKeeps ==
  ASSUME StoreInv, step \notin {"idle", "import"}, NEW f \in Files, NEW e \in Entry, Store(f, e),
         UNCHANGED <<space, copies, command>>,
         step' \in {"discover", "download", "clean"}, seen' \subseteq Files,
         queued' \in [Files -> Nat], \A g \in Files : queued'[g] \in {0, queued[g]},
         lapsed' \subseteq lapsed, \A g \in CutOff : \A b \in Backends : <<b, g>> \in lapsed => <<b, g>> \in lapsed',
         step = "write" => f = Current,
         Honest(View(e), f),
         e.status = "ok" /\ f \in CutOff => <<command.backend, f>> \in lapsed
  PROVE  StoreInv'
<1> USE DEF StoreInv
<1> DEFINE r == [Records EXCEPT ![f] = e]
<1>1. r = [Records EXCEPT ![f] = e]
  OBVIOUS
<1>2. r[f] = e /\ \A g \in Files \ {f} : r[g] = Records[g]
  BY StoreTypes
<1> HIDE DEF r
<1>3. JsonTypeOK'
  <2>1. copies' \in [Files -> [version : Nat, whole : BOOLEAN]]
    BY DEF JsonTypeOK
  <2> QED
    BY <2>1, RecordTypes
<1>4. /\ command.backend = "sqlite" =>
              data' = data /\ dirty' = dirty /\ json' = json /\ db'.records = r
      /\ command.backend = "json" =>
              data' = r /\ db' = db /\ (~dirty' => json'.records = r)
  <2>1. JsonTypeOK /\ step # "idle"
    OBVIOUS
  <2> HIDE DEF StoreInv
  <2>2. CASE command.backend = "json"
    BY ZenonT(40), <1>1, <2>1, <2>2, StoreDoes
  <2>3. CASE command.backend = "sqlite"
    BY ZenonT(40), <1>1, <2>1, <2>3, StoreDoes
  <2> QED
    BY <2>1, <2>2, <2>3, CommandTypes
<1>5. RecordsAreHonest'
  <2>1. ASSUME NEW g \in Files, NEW v \in Views(g)'
        PROVE  v \in Views(g) \/ v = <<"none", 0>> \/ Honest(v, g)'
    <3>1. v \in Views(g) \/ v = <<"none", 0>> \/ (g = f /\ v = View(e))
      BY <2>1, StoreViews
    <3>2. Honest(View(e), f)'
      BY DEF Honest, There, View
    <3> QED
      BY <3>1, <3>2 DEF View
  <2> QED
    BY <1>3, <2>1, HonestKept, StoreTypes
<1>6. FilesAreNotAhead'
  BY StoreTypes DEF FilesAreNotAhead
<1>7. Held' /\ BothKnow' /\ Closed' /\ Importing'
  BY DEF Held, BothKnow, Closed, Importing
<1>8. CleanIsSaved'
  BY <1>4 DEF CleanIsSaved
<1>9. InUseKnows'
  <2>1. Records' = r
    BY <1>4, CommandTypes DEF Records
  <2>2. ASSUME NEW g \in Files, g \in CutOff, r[g].status = "ok"
        PROVE  <<command.backend, g>> \in lapsed'
    <3>1. command.backend \in Backends
      BY CommandTypes DEF Backends
    <3>2. <<command.backend, g>> \in lapsed
      BY <1>2, <2>2 DEF InUseKnows, Knows
    <3> QED
      BY <2>2, <3>1, <3>2
  <2>3. CutOff' = CutOff
    BY DEF CutOff, There
  <2> QED
    BY <2>1, <2>2, <2>3 DEF InUseKnows, Knows
<1> QED
  BY <1>3, <1>5, <1>6, <1>7, <1>8, <1>9

LEMMA SkipKeeps ==
  ASSUME StoreInv, Skip
  PROVE  StoreInv'
<1> USE DEF StoreInv
<1> DEFINE f == Listed
           e == [status |-> "ok", time |-> space[Listed].version,
                 size |-> IF command.backend = "json" THEN "unknown" ELSE SizeOf(Listed)]
<1>1. f \in Files
  BY FirstIsOneOf DEF Skip, Listed, Unseen
<1>2. /\ step = "discover" /\ Store(f, e) /\ UNCHANGED <<space, copies, command, step, queued, lapsed>>
      /\ seen' = seen \cup {f} /\ ~MustLoad(f)
  BY DEF Skip, MarkOk
<1>3. e \in Entry
  BY <1>1, EntryTypes, StoreTypes
<1>4. Records[f].status = "ok" /\ There(f) /\ Records[f].time = space[f].version
  BY <1>2 DEF MustLoad
<1>5. View(Records[f]) \in Views(f)
  BY DEF Views, Records
<1>6. Honest(View(Records[f]), f)
  BY <1>1, <1>5 DEF RecordsAreHonest
<1>7. View(e) = View(Records[f])
  BY <1>4 DEF View
<1>8. f \in CutOff => <<command.backend, f>> \in lapsed
  BY <1>1, <1>2, <1>4 DEF InUseKnows, Knows
<1>9. seen' \subseteq Files /\ queued' \in [Files -> Nat]
  BY <1>1, <1>2 DEF JsonTypeOK
<1> HIDE DEF e, f
<1> QED
  BY <1>1, <1>2, <1>3, <1>6, <1>7, <1>8, <1>9, RecordingKeeps

LEMMA MarkKeeps ==
  ASSUME StoreInv, MarkFile \/ DownloadFails
  PROVE  StoreInv'
<1> USE DEF StoreInv
<1>1. /\ Busy # {} /\ step \in {"download", "write", "mark"}
      /\ step' = "download" /\ queued' = [queued EXCEPT ![Current] = 0]
      /\ UNCHANGED <<space, copies, command, seen>>
  BY DEF MarkFile, DownloadFails, Held
<1>2. Current \in Files /\ queued[Current] \in Nat /\ queued[Current] <= space[Current].version
  BY <1>1, CurrentIsBusy, StoreTypes DEF FilesAreNotAhead
<1>3. /\ queued' \in [Files -> Nat] /\ \A g \in Files : queued'[g] \in {0, queued[g]}
      /\ seen' \subseteq Files
  BY <1>1, <1>2 DEF JsonTypeOK
<1>4. CASE MarkFile
  <2> DEFINE e == [status |-> "ok", time |-> queued[Current],
                   size |-> IF command.backend = "json" THEN "unknown" ELSE SizeOf(Current)]
  <2>1. step = "mark" /\ Store(Current, e) /\ lapsed' = lapsed \ (Backends \X {Current})
    BY <1>4 DEF MarkFile, MarkOk
  <2>2. copies[Current].whole /\ queued[Current] <= copies[Current].version
    BY <2>1 DEF Held
  <2>3. e \in Entry
    BY <1>2, EntryTypes
  <2>4. Honest(View(e), Current)
    BY <1>2, <2>2 DEF Honest, View
  <2>5. Current \notin CutOff
    BY <2>2 DEF CutOff
  <2>6. lapsed' \subseteq lapsed /\ \A g \in CutOff : \A b \in Backends : <<b, g>> \in lapsed => <<b, g>> \in lapsed'
    BY <2>1, <2>5
  <2> HIDE DEF e
  <2> QED
    BY <1>1, <1>2, <1>3, <2>1, <2>3, <2>4, <2>5, <2>6, RecordingKeeps
<1>5. CASE DownloadFails
  <2> DEFINE e == [Records[Current] EXCEPT !.status = "missing", !.time = queued[Current]]
  <2>1. Store(Current, e) /\ lapsed' = lapsed /\ step \in {"write", "download"}
    BY <1>5 DEF DownloadFails, MarkMiss
  <2>2. e \in Entry /\ e.status = "missing" /\ e.time = queued[Current]
    BY <1>2, EntryTypes
  <2> HIDE DEF e
  <2>3. Honest(View(e), Current)
    BY <1>2, <2>2 DEF Honest, View
  <2> QED
    BY <1>1, <1>2, <1>3, <2>1, <2>2, <2>3, RecordingKeeps
<1> QED
  BY <1>4, <1>5

LEMMA StaleIsMarked ==
  ASSUME StoreInv, NEW f \in Files, step = "clean", MarkGone(f),
         UNCHANGED <<space, copies, command, step, queued, lapsed>>, seen' = seen \cup {f}
  PROVE  StoreInv'
<1> USE DEF StoreInv
<1> DEFINE e == [Records[f] EXCEPT !.status = "deleted"]
<1>1. e \in Entry /\ e.status = "deleted" /\ e.time = Records[f].time
  BY EntryTypes
<1>2. Store(f, e)
  BY DEF MarkGone
<1> HIDE DEF e
<1>3. Honest(View(Records[f]), f)
  BY DEF RecordsAreHonest, Views, Records
<1>4. Honest(View(e), f)
  BY <1>1, <1>3 DEF Honest, View
<1>5. seen' \subseteq Files /\ queued' \in [Files -> Nat]
  BY DEF JsonTypeOK
<1> QED
  BY <1>1, <1>2, <1>4, <1>5, RecordingKeeps

LEMMA StaleIsDropped ==
  ASSUME StoreInv, NEW f \in Files, step = "clean", Drop(f), copies' = [copies EXCEPT ![f] = NoCopy],
         UNCHANGED <<space, command, step, queued, lapsed>>, seen' = seen \cup {f}
  PROVE  StoreInv'
<1> USE DEF StoreInv
<1>1. UNCHANGED <<json, updates, failing>>
  BY DEF Drop
<1>2. \/ /\ command.backend = "json" /\ data' = [data EXCEPT ![f] = NoEntry] /\ dirty' = TRUE /\ db' = db
      \/ /\ command.backend = "sqlite" /\ db' = [db EXCEPT !.records[f] = NoEntry]
         /\ dirty' = dirty /\ data' = data
  BY DEF Drop
<1>3. /\ data' \in [Files -> Entry] /\ db' \in Stored /\ db'.state \in {"none", "good"}
      /\ \A g \in Files : data'[g] \in {NoEntry, data[g]} /\ db'.records[g] \in {NoEntry, db.records[g]}
      /\ \A g \in Files : Records'[g] \in {NoEntry, Records[g]}
  <2>1. CASE command.backend = "json" /\ data' = [data EXCEPT ![f] = NoEntry] /\ dirty' = TRUE /\ db' = db
    BY <2>1, Records0 DEF JsonTypeOK, Records
  <2>2. CASE /\ command.backend = "sqlite" /\ db' = [db EXCEPT !.records[f] = NoEntry]
             /\ dirty' = dirty /\ data' = data
    <3>1. db' = [db EXCEPT !.records = [db.records EXCEPT ![f] = NoEntry]]
      BY <2>2, StoreTypes
    <3>2. [db.records EXCEPT ![f] = NoEntry] \in [Files -> Entry]
      BY Records0, StoreTypes
    <3>3. db \in Stored /\ db.state \in {"none", "good"}
      BY DEF JsonTypeOK
    <3>4. db' \in Stored /\ db'.state = db.state /\ db'.records = [db.records EXCEPT ![f] = NoEntry]
      BY <3>1, <3>2, <3>3 DEF Stored
    <3>5. \A g \in Files : db'.records[g] \in {NoEntry, db.records[g]}
      BY <3>4, StoreTypes
    <3>6. Records' = db'.records /\ Records = db.records
      BY <2>2 DEF Records
    <3>7. data' \in [Files -> Entry]
      BY <2>2 DEF JsonTypeOK
    <3> QED
      BY <2>2, <3>3, <3>4, <3>5, <3>6, <3>7
  <2> QED
    BY <1>2, <2>1, <2>2
<1>4. NoEntry.status = "none" /\ View(NoEntry) = <<"none", 0>> /\ NoCopy.version = 0 /\ ~NoCopy.whole
      /\ NoCopy \in [version : Nat, whole : BOOLEAN]
  BY DEF NoEntry, View, NoCopy
<1>5. /\ copies' \in [Files -> [version : Nat, whole : BOOLEAN]]
      /\ \A g \in Files : copies'[g] \in {NoCopy, copies[g]}
  BY <1>4 DEF JsonTypeOK
<1>6. JsonTypeOK'
  <2>1. dirty' \in BOOLEAN
    BY <1>2 DEF JsonTypeOK
  <2>2. command.backend = "sqlite" => data' = Empty /\ ~dirty' /\ updates' = 0
    BY <1>1, <1>2 DEF JsonTypeOK
  <2>3. seen' \subseteq Files
    BY DEF JsonTypeOK
  <2> QED
    BY <1>1, <1>3, <1>5, <2>1, <2>2, <2>3 DEF JsonTypeOK
<1>7. RecordsAreHonest'
  <2>1. \A g \in Files : Views(g)' \subseteq Views(g) \cup {<<"none", 0>>}
    BY <1>1, <1>3, <1>4 DEF Views, View
  <2>2. \A g \in Files : copies'[g].version \in {0, copies[g].version}
    BY <1>4, <1>5
  <2> QED
    BY <1>6, <2>1, <2>2, HonestKept, StoreTypes
<1>8. FilesAreNotAhead'
  BY <1>4, <1>5, StoreTypes DEF FilesAreNotAhead
<1>9. Held' /\ BothKnow' /\ Closed' /\ Importing'
  BY DEF Held, BothKnow, Closed, Importing
<1>10. CleanIsSaved'
  BY <1>1, <1>2 DEF CleanIsSaved
<1>11. InUseKnows'
  <2>1. \A g \in Files : g \in CutOff' => g \in CutOff
    BY <1>4, <1>5 DEF CutOff, There
  <2>2. \A g \in Files : Records'[g].status = "ok" => Records[g].status = "ok"
    BY <1>3, <1>4
  <2> QED
    BY <2>1, <2>2 DEF InUseKnows, Knows
<1> QED
  BY <1>6, <1>7, <1>8, <1>9, <1>10, <1>11

LEMMA StaleKeeps ==
  ASSUME StoreInv, MarkStale
  PROVE  StoreInv'
<1>1. First(Strays) \in Files
  BY FirstIsOneOf DEF MarkStale, Strays
<1>2. step = "clean" /\ UNCHANGED <<space, command, step, queued, lapsed>> /\ seen' = seen \cup {First(Strays)}
  BY DEF MarkStale
<1>3. \/ Drop(First(Strays)) /\ copies' = [copies EXCEPT ![First(Strays)] = NoCopy]
      \/ MarkGone(First(Strays)) /\ UNCHANGED copies
  BY DEF MarkStale
<1> QED
  BY <1>1, <1>2, <1>3, StaleIsMarked, StaleIsDropped

LEMMA EndKeeps ==
  ASSUME StoreInv, Flush \/ Killed
  PROVE  StoreInv'
<1> USE DEF StoreInv
<1>1. Over /\ UNCHANGED <<space, copies, db>>
  BY DEF Flush, Killed
<1>2. \A f \in Files : View(Empty[f]) = <<"none", 0>> /\ Empty[f].status = "none"
  BY DEF Empty, View, NoEntry
<1>3. json' \in Stored /\ json'.records \in {json.records, data, Empty}
  <2>1. json' \in {json, Good(data), Without("torn"), Without("garbled")}
    BY DEF Flush, Killed
  <2> QED
    BY <2>1, Records0 DEF JsonTypeOK
<1>4. \A f \in Files : Views(f)' \subseteq Views(f) \cup {<<"none", 0>>}
  <2>1. data' = Empty
    BY <1>1 DEF Over
  <2> QED
    BY <1>1, <1>2, <1>3, <2>1 DEF Views, View
<1>5. CutOff' = CutOff
  BY <1>1 DEF CutOff, There
<1>6. /\ lapsed \subseteq lapsed' /\ lapsed' \subseteq lapsed \cup (Backends \X CutOff)
      /\ \A b \in Backends \ {command.backend} : \A f \in CutOff : <<b, f>> \in lapsed'
  BY DEF Flush, Killed, Lapse
<1>7. lapsed' \subseteq Backends \X Files
  BY <1>6 DEF JsonTypeOK, CutOff
<1>8. command.backend \in Backends /\ "json" \in Backends /\ "sqlite" \in Backends
  BY CommandTypes DEF Backends
<1>9. \A f \in Files : Knows("json", json.records, f)' /\ Knows("sqlite", db.records, f)'
  <2>1. CASE \A f \in CutOff : <<command.backend, f>> \in lapsed'
    BY <1>5, <1>6, <1>8, <2>1 DEF Knows
  <2>2. CASE ~(\A f \in CutOff : <<command.backend, f>> \in lapsed')
    <3>1. /\ step = "clean"
          /\ (~dirty /\ json' = json) \/ (dirty /\ json' = Good(data))
      BY <1>8, <2>2 DEF Flush, Killed, Lapse
    <3>2. command.backend = "json" => json'.records = data
      BY <3>1, Records0 DEF CleanIsSaved, JsonTypeOK
    <3>3. command.backend = "sqlite" => ~dirty
      BY DEF JsonTypeOK
    <3>4. \A f \in Files : Knows(command.backend, Records, f)
      BY <3>1 DEF InUseKnows
    <3>5. CASE command.backend = "json"
      BY <1>5, <1>6, <1>8, <3>2, <3>4, <3>5 DEF Knows, Records
    <3>6. CASE command.backend = "sqlite"
      BY <1>1, <1>5, <1>6, <1>8, <3>4, <3>6 DEF Knows, Records
    <3> QED
      BY <3>5, <3>6, CommandTypes
  <2> QED
    BY <2>1, <2>2
<1>10. db' \in Stored /\ db'.state \in {"none", "good"}
  BY <1>1 DEF JsonTypeOK
<1> QED
  BY <1>1, <1>3, <1>4, <1>7, <1>9, <1>10, OverKeeps

LEMMA StoreInvInit == JsonInit => StoreInv
<1> SUFFICES ASSUME JsonInit PROVE StoreInv
  OBVIOUS
<1> USE DEF JsonInit
<1>1. /\ \A f \in Files : space[f] = [version |-> 1, listed |-> TRUE]
      /\ space \in [Files -> [version : Nat, listed : BOOLEAN]]
  OBVIOUS
<1>2. /\ db = Without("none") /\ db \in Stored /\ db.state = "none" /\ db.records = Empty
      /\ data = Empty /\ data \in [Files -> Entry]
  BY Records0 DEF Without
<1>3. /\ json \in Stored /\ copies \in [Files -> [version : Nat, whole : BOOLEAN]]
      /\ \A f \in Files : /\ View(json.records[f]) \in {<<"none", 0>>, <<"ok", 1>>}
                          /\ copies[f] = NoCopy \/ copies[f] = [version |-> 1, whole |-> TRUE]
  <2>1. CASE json = Without("none") /\ copies = [f \in Files |-> NoCopy]
    BY <2>1, Records0 DEF Empty, View, NoEntry, NoCopy
  <2>2. CASE /\ json = Good([f \in Files |-> [status |-> "ok", time |-> 1, size |-> "unknown"]])
             /\ copies = [f \in Files |-> [version |-> 1, whole |-> TRUE]]
    <3>1. [f \in Files |-> [status |-> "ok", time |-> 1, size |-> "unknown"]] \in [Files -> Entry]
      BY DEF Entry
    <3> QED
      BY <2>2, <3>1, Records0 DEF View
  <2> QED
    BY <2>1, <2>2
<1>4. NoCommand.backend = "json" /\ step = "idle" /\ command = NoCommand
  BY DEF NoCommand
<1>5. 0 \in 0..(FlushInterval - 1)
  BY JsonAssumption
<1>6. JsonTypeOK
  BY <1>1, <1>2, <1>3, <1>4, <1>5 DEF JsonTypeOK
<1>7. \A f \in Files : View(Empty[f]) = <<"none", 0>>
  BY DEF Empty, View, NoEntry
<1>8. RecordsAreHonest
  <2> SUFFICES ASSUME NEW f \in Files, NEW v \in Views(f) PROVE Honest(v, f)
    BY DEF RecordsAreHonest
  <2>1. v \in {<<"none", 0>>, <<"ok", 1>>}
    BY <1>2, <1>3, <1>7 DEF Views
  <2> QED
    BY <1>1, <1>3, <2>1 DEF Honest, There, NoCopy
<1>9. FilesAreNotAhead
  BY <1>1, <1>3 DEF FilesAreNotAhead, NoCopy
<1>10. Held /\ CleanIsSaved /\ InUseKnows /\ Closed /\ Importing
  BY <1>4 DEF Held, CleanIsSaved, InUseKnows, Closed, Importing
<1>11. BothKnow
  BY <1>3 DEF BothKnow, Knows, CutOff, There, NoCopy
<1> QED
  BY <1>6, <1>8, <1>9, <1>10, <1>11 DEF StoreInv

LEMMA StoreInvStep ==
  ASSUME StoreInv, [JsonNext]_jsonVars
  PROVE  StoreInv'
<1>1. CASE Working
  <2>1. ASSUME Import PROVE StoreInv'
    BY <2>1, ImportKeeps
  <2>2. ASSUME Reset PROVE StoreInv'
    BY <2>2, ResetKeeps
  <2>3. ASSUME Plan \/ Discovered \/ Downloaded PROVE StoreInv'
    BY <2>3, PlanKeeps
  <2>4. ASSUME OpenFile \/ CloseFile PROVE StoreInv'
    BY <2>4, WriteKeeps
  <2>5. ASSUME Skip PROVE StoreInv'
    BY <2>5, SkipKeeps
  <2>6. ASSUME MarkFile \/ DownloadFails PROVE StoreInv'
    BY <2>6, MarkKeeps
  <2>7. ASSUME MarkStale PROVE StoreInv'
    BY <2>7, StaleKeeps
  <2>8. ASSUME Flush \/ Killed PROVE StoreInv'
    BY <2>8, EndKeeps
  <2> QED
    BY <1>1, <2>1, <2>2, <2>3, <2>4, <2>5, <2>6, <2>7, <2>8 DEF Working
<1>2. CASE \E c \in Syncs \cup {Migrate} : OpenJson(c) \/ OpenDatabase(c)
  BY <1>2, BeginKeeps
<1>3. CASE \E f \in Files : EditFile(f) \/ RemoveOrRestore(f) \/ LoseCopy(f)
  BY <1>3, EventKeeps
<1>4. CASE UNCHANGED jsonVars
  <2>1. UNCHANGED <<space, copies, json, db, data, dirty, updates, command, step, seen, queued, lapsed, failing>>
    BY <1>4 DEF jsonVars, jsonStored, openStore, jsonRun
  <2>2. JsonTypeOK'
    BY <2>1 DEF StoreInv, JsonTypeOK
  <2>3. RecordsAreHonest' /\ FilesAreNotAhead'
    BY <2>1 DEF StoreInv, RecordsAreHonest, Views, View, Honest, There, FilesAreNotAhead
  <2>4. Held' /\ CleanIsSaved' /\ Closed' /\ Importing'
    BY <2>1 DEF StoreInv, Held, Busy, Current, There, CleanIsSaved, Closed, Importing
  <2>5. BothKnow' /\ InUseKnows'
    BY <2>1 DEF StoreInv, BothKnow, InUseKnows, Knows, CutOff, There, Records, Current, Busy
  <2> QED
    BY <2>2, <2>3, <2>4, <2>5 DEF StoreInv
<1> QED
  BY <1>1, <1>2, <1>3, <1>4 DEF JsonNext

LEMMA StoreInvariant == JsonSpec => []StoreInv
<1>1. JsonInit => StoreInv
  BY StoreInvInit
<1>2. StoreInv /\ [JsonNext]_jsonVars => StoreInv'
  BY StoreInvStep
<1> QED
  BY <1>1, <1>2, PTL DEF JsonSpec

(* JsonStore: all variables have their types; in particular the count of   *)
(* unwritten updates of metadata_store.py never reaches flush_interval.    *)
THEOREM StoreTypeCorrect == JsonSpec => []JsonTypeOK
<1>1. StoreInv => JsonTypeOK
  BY DEF StoreInv
<1> QED
  BY <1>1, StoreInvariant, PTL

(* JsonStore: should_download passes a document over only when the file    *)
(* holds what Feishu has, with either store and whatever kills, failed     *)
(* writes, imports and changes of the store came before, or when the file  *)
(* was cut off by a command whose record of that is lost or elsewhere.     *)
THEOREM PassedOverIsCurrent == JsonSpec => []SkippedIsCurrent
<1>1. StoreInv => SkippedIsCurrent
  <2> SUFFICES ASSUME StoreInv, step = "discover", Unseen # {}, ~MustLoad(Listed)
               PROVE  \/ copies[Listed] = [version |-> space[Listed].version, whole |-> TRUE]
                      \/ <<command.backend, Listed>> \in lapsed /\ ~copies[Listed].whole
    BY DEF SkippedIsCurrent
  <2> USE DEF StoreInv
  <2>1. Listed \in Files
    BY FirstIsOneOf DEF Listed, Unseen
  <2>2. Records[Listed].status = "ok" /\ There(Listed) /\ Records[Listed].time = space[Listed].version
    BY DEF MustLoad
  <2>3. Honest(View(Records[Listed]), Listed)
    BY <2>1 DEF RecordsAreHonest, Views, Records
  <2>4. copies[Listed].version = space[Listed].version
    BY <2>1, <2>2, <2>3, StoreTypes DEF Honest, View, FilesAreNotAhead
  <2>5. CASE copies[Listed].whole
    <3>1. copies[Listed] \in [version : Nat, whole : BOOLEAN]
      BY <2>1 DEF JsonTypeOK
    <3>2. copies[Listed].whole = TRUE
      BY <2>5, <3>1
    <3> QED
      BY <2>4, <3>1, <3>2
  <2>6. CASE ~copies[Listed].whole
    BY <2>1, <2>2, <2>6 DEF InUseKnows, Knows, CutOff
  <2> QED
    BY <2>5, <2>6
<1> QED
  BY <1>1, StoreInvariant, PTL

(* A record more than was unsaved, or fewer.                               *)
LEMMA UnsavedGrows ==
  ASSUME IsFiniteSet(Unsaved), Cardinality(Unsaved) <= updates, updates \in Nat,
         NEW f, Unsaved' \subseteq Unsaved \cup {f}, updates' = updates + 1
  PROVE  IsFiniteSet(Unsaved)' /\ (Cardinality(Unsaved) <= updates)'
<1>1. IsFiniteSet(Unsaved \cup {f}) /\ Cardinality(Unsaved \cup {f}) \in Nat
      /\ Cardinality(Unsaved \cup {f}) <= Cardinality(Unsaved) + 1 /\ Cardinality(Unsaved) \in Nat
  BY FS_AddElement, FS_CardinalityType
<1>2. IsFiniteSet(Unsaved') /\ Cardinality(Unsaved') <= Cardinality(Unsaved \cup {f})
      /\ Cardinality(Unsaved') \in Nat
  BY <1>1, FS_Subset, FS_CardinalityType
<1> QED
  BY <1>1, <1>2

LEMMA NoneUnsaved ==
  ASSUME Unsaved = {}, updates \in Nat
  PROVE  FewUnsaved
BY FS_EmptySet DEF FewUnsaved

LEMMA StoreUnsaved ==
  ASSUME JsonTypeOK, step # "idle", NEW f \in Files, NEW e \in Entry, Store(f, e),
         FewUnsaved, UNCHANGED command
  PROVE  FewUnsaved'
<1> DEFINE r == [Records EXCEPT ![f] = e]
<1>1. r = [Records EXCEPT ![f] = e]
  OBVIOUS
<1>2. \A g \in Files \ {f} : r[g] = Records[g]
  BY StoreTypes
<1> HIDE DEF r
<1> SUFFICES ASSUME command.backend = "json", ~failing'
             PROVE  IsFiniteSet(Unsaved)' /\ (Cardinality(Unsaved) <= updates)'
  BY DEF FewUnsaved
<1>3. /\ data' = r /\ updates' \in Nat
      /\ \/ json'.records = r
         \/ ~failing /\ json'.records = json.records /\ updates' = updates + 1
  <2>1. data' = r /\ updates' \in 0..(FlushInterval - 1)
    BY <1>1, StoreDoes
  <2>2. \/ json'.records = r
        \/ ~failing /\ json'.records = json.records /\ updates' = updates + 1
    BY <1>1, StoreDoes
  <2> QED
    BY <2>1, <2>2
<1>4. updates \in Nat
  BY DEF JsonTypeOK
<1>5. CASE json'.records = r
  <2>1. Unsaved' = {}
    BY <1>3, <1>5 DEF Unsaved
  <2> QED
    BY <1>3, <2>1, FS_EmptySet
<1>6. CASE ~failing /\ json'.records = json.records /\ updates' = updates + 1
  <2>1. Records = data
    BY DEF Records
  <2>2. Unsaved' \subseteq Unsaved \cup {f}
    BY <1>2, <1>3, <1>6, <2>1 DEF Unsaved
  <2> QED
    BY <1>4, <1>6, <2>2, UnsavedGrows DEF FewUnsaved
<1> QED
  BY <1>3, <1>5, <1>6

LEMMA OverUnsaved ==
  ASSUME Over
  PROVE  FewUnsaved'
<1>1. Unsaved' = {} /\ updates' = 0
  BY DEF Over, Unsaved, Empty
<1> QED
  BY <1>1, FS_EmptySet DEF FewUnsaved

LEMMA FewUnsavedStep ==
  ASSUME StoreInv, FewUnsaved, [JsonNext]_jsonVars
  PROVE  FewUnsaved'
<1> USE DEF StoreInv
<1>1. ASSUME UNCHANGED <<json, data, updates, command, failing>> PROVE FewUnsaved'
  BY <1>1 DEF FewUnsaved, Unsaved
<1>2. CASE \E c \in Syncs \cup {Migrate} : OpenJson(c) \/ OpenDatabase(c)
  <2>1. PICK c \in Syncs \cup {Migrate} : OpenJson(c) \/ OpenDatabase(c)
    BY <1>2
  <2>2. CASE OpenJson(c)
    <3>1. Unsaved' = {} /\ updates' = updates
      BY <2>2 DEF OpenJson, jsonStored, Unsaved
    <3> QED
      BY <3>1, FS_EmptySet DEF FewUnsaved, JsonTypeOK
  <2>3. CASE OpenDatabase(c)
    BY <2>3 DEF OpenDatabase, Begin, FewUnsaved
  <2> QED
    BY <2>1, <2>2, <2>3
<1>3. CASE \E f \in Files : EditFile(f) \/ RemoveOrRestore(f) \/ LoseCopy(f)
  BY <1>1, <1>3 DEF EditFile, RemoveOrRestore, LoseCopy, Event, jsonStored, openStore, jsonRun
<1>4. CASE UNCHANGED jsonVars
  BY <1>1, <1>4 DEF jsonVars, jsonStored, openStore, jsonRun
<1>5. CASE Import
  <2>1. CASE Over
    BY <2>1, OverUnsaved
  <2>2. CASE ~Over
    BY <1>1, <1>5, <2>2 DEF Import, openStore
  <2> QED
    BY <2>1, <2>2
<1>6. CASE Reset
  <2>1. CASE command.backend = "json"
    <3>1. data' = Empty /\ updates' = 0
      BY <1>6, <2>1 DEF Reset
    <3>2. Unsaved' = {}
      BY <3>1 DEF Unsaved, Empty
    <3> QED
      BY <3>1, <3>2, FS_EmptySet DEF FewUnsaved
  <2>2. CASE command.backend # "json"
    BY <1>6, <2>2 DEF Reset, FewUnsaved
  <2> QED
    BY <2>1, <2>2
<1>7. CASE Plan \/ Discovered \/ Downloaded \/ OpenFile \/ CloseFile
  BY <1>1, <1>7 DEF Plan, Discovered, Downloaded, OpenFile, CloseFile, jsonStored, openStore
<1>8. CASE Skip
  <2>1. Listed \in Files
    BY <1>8, FirstIsOneOf DEF Skip, Listed, Unseen
  <2> QED
    BY <1>8, <2>1, StoreTypes, EntryTypes, StoreUnsaved DEF Skip, MarkOk
<1>9. CASE MarkFile \/ DownloadFails
  <2>1. Current \in Files /\ queued[Current] \in Nat
    BY <1>9, CurrentIsBusy, StoreTypes DEF MarkFile, DownloadFails, Held
  <2>2. step # "idle" /\ UNCHANGED command
    BY <1>9 DEF MarkFile, DownloadFails
  <2>3. MarkOk(Current, queued[Current]) \/ MarkMiss(Current, queued[Current])
    BY <1>9 DEF MarkFile, DownloadFails
  <2> QED
    BY <2>1, <2>2, <2>3, EntryTypes, StoreUnsaved DEF MarkOk, MarkMiss
<1>10. CASE MarkStale
  <2>1. First(Strays) \in Files /\ step = "clean" /\ UNCHANGED command
    BY <1>10, FirstIsOneOf DEF MarkStale, Strays
  <2>2. CASE MarkGone(First(Strays))
    BY <2>1, <2>2, EntryTypes, StoreUnsaved DEF MarkGone
  <2>3. CASE Drop(First(Strays))
    <3> SUFFICES ASSUME command.backend = "json", ~failing'
                 PROVE  IsFiniteSet(Unsaved)' /\ (Cardinality(Unsaved) <= updates)'
      BY <2>1 DEF FewUnsaved
    <3>1. data' = [data EXCEPT ![First(Strays)] = NoEntry] /\ UNCHANGED <<json, updates, failing>>
      BY <2>3 DEF Drop
    <3>2. Unsaved' \subseteq Unsaved
      BY <3>1 DEF Unsaved, JsonTypeOK
    <3>3. IsFiniteSet(Unsaved) /\ Cardinality(Unsaved) <= updates /\ updates \in Nat
      BY <2>1, <3>1 DEF FewUnsaved, JsonTypeOK
    <3>4. IsFiniteSet(Unsaved') /\ Cardinality(Unsaved') <= Cardinality(Unsaved)
          /\ Cardinality(Unsaved') \in Nat /\ Cardinality(Unsaved) \in Nat
      BY <3>2, <3>3, FS_Subset, FS_CardinalityType
    <3> QED
      BY <3>1, <3>3, <3>4
  <2> QED
    BY <1>10, <2>1, <2>2, <2>3 DEF MarkStale
<1>11. CASE Flush \/ Killed
  BY <1>11, OverUnsaved DEF Flush, Killed
<1> QED
  BY <1>2, <1>3, <1>4, <1>5, <1>6, <1>7, <1>8, <1>9, <1>10, <1>11 DEF JsonNext, Working

(* JsonStore: as long as the file can be written, a kill costs the JSON    *)
(* store fewer than flush_interval of the records made: those not yet in   *)
(* the file are no more than _updates_since_flush counts.                  *)
THEOREM KillsCostLittle == JsonSpec => []LossIsBounded
<1>1. JsonInit => FewUnsaved
  <2> SUFFICES ASSUME JsonInit PROVE FewUnsaved
    OBVIOUS
  <2>1. Unsaved = {} /\ updates = 0
    BY DEF JsonInit, Unsaved, Empty
  <2> QED
    BY <2>1, NoneUnsaved
<1>2. StoreInv /\ FewUnsaved /\ [JsonNext]_jsonVars => FewUnsaved'
  BY FewUnsavedStep
<1>3. StoreInv /\ FewUnsaved => LossIsBounded
  <2> SUFFICES ASSUME StoreInv, FewUnsaved, command.backend = "json", ~failing
               PROVE  Cardinality(Unsaved) < FlushInterval
    BY DEF LossIsBounded, Unsaved
  <2>1. IsFiniteSet(Unsaved) /\ Cardinality(Unsaved) <= updates /\ updates \in 0..(FlushInterval - 1)
    BY DEF FewUnsaved, StoreInv, JsonTypeOK
  <2>2. Cardinality(Unsaved) \in Nat
    BY <2>1, FS_CardinalityType
  <2> QED
    BY <2>1, <2>2, JsonAssumption
<1> QED
  BY <1>1, <1>2, <1>3, StoreInvariant, PTL DEF JsonSpec

-----------------------------------------------------------------------------
(* The references.                                                         *)

(* A path that holds a file, or whose file the run is still to bring.      *)
Leads(q) == texts[q] # "none" \/ q[1] \in plan

(* A download under way: a task is one of the run, what has references to  *)
(* follow may be nested in, what is fetched is registered, what is planned *)
(* has a path, and what is about to be fetched has not been by this run.   *)
DownloadOK(d) ==
  /\ d.depth = 0 => d.page \in plan
  /\ d.fetched /\ d.todo # <<>> => d.depth < MaxDepth
  /\ d.fetched => Exists(cache[d.page])
  /\ ~d.fetched => fetches[d.page] = 0 /\ d.page \notin agenda
  /\ \A t \in plan : d.known[t] # NoPath
  /\ \A t \in Pages : d.known[t] # NoPath => Leads(d.known[t])
  /\ \A q \in d.found : Leads(q)

DownloadsAreOK == \A i \in DOMAIN stack : DownloadOK(stack[i])

(* What a run has fetched is not planned any more, or registered.          *)
FetchedIsKnown ==
  \A t \in Pages :
    /\ fetches[t] <= 1
    /\ fetches[t] = 1 /\ t \in plan => t \notin agenda
    /\ fetches[t] = 1 /\ plan # {} /\ t \notin plan => Exists(cache[t])

NoRunNoTask == plan = {} => stack = <<>>

DocInv == DocTypeOK /\ DownloadsAreOK /\ FetchedIsKnown /\ NoRunNoTask /\ LinksLead

LEMMA PathTypes ==
  /\ NoPath \notin Paths
  /\ \A t \in Pages : OwnPath(t) \in Paths /\ ReferPath(t) \in Paths /\ OwnPath(t)[1] = t
  /\ \A q \in Paths : q[1] \in Pages
BY DEF NoPath, Paths, OwnPath, ReferPath

LEMMA TopIsUnderWay ==
  ASSUME stack \in Seq(Downloads), stack # <<>>
  PROVE  /\ Len(stack) \in Nat \ {0} /\ Len(stack) \in DOMAIN stack /\ DOMAIN stack = 1..Len(stack)
         /\ Top \in Downloads /\ Top = stack[Len(stack)]
BY DEF Top

LEMMA ReplaceDoes ==
  ASSUME stack \in Seq(Downloads), stack # <<>>, NEW d \in Downloads
  PROVE  /\ Replace(d) \in Seq(Downloads) /\ Len(Replace(d)) = Len(stack) /\ Replace(d) # <<>>
         /\ Replace(d)[Len(stack)] = d
         /\ \A i \in 1..Len(stack) : i # Len(stack) => Replace(d)[i] = stack[i]
<1>1. Len(stack) \in 1..Len(stack)
  BY TopIsUnderWay
<1>2. /\ Replace(d) \in Seq(Downloads) /\ Len(Replace(d)) = Len(stack)
      /\ \A j \in 1..Len(stack) : Replace(d)[j] = IF j = Len(stack) THEN d ELSE stack[j]
  BY <1>1, ExceptSeq DEF Replace
<1> QED
  BY <1>1, <1>2

(* What the caller makes of the path it asked for.                         *)
Resumed(caller, path) ==
  [caller EXCEPT !.todo = Tail(@), !.found = @ \cup {path}, !.known[Head(caller.todo)] = path]

LEMMA ResumedTypes ==
  ASSUME NEW d \in Downloads, d.todo # <<>>, NEW p \in Paths
  PROVE  LET r == Resumed(d, p) IN
         /\ r \in Downloads /\ r.page = d.page /\ r.depth = d.depth /\ r.fetched = d.fetched
         /\ r.found = d.found \cup {p} /\ r.todo = Tail(d.todo)
         /\ r.known = [d.known EXCEPT ![Head(d.todo)] = p]
<1>1. Head(d.todo) \in Pages /\ Tail(d.todo) \in Seq(Pages)
  BY HeadTailProperties DEF Downloads
<1> QED
  BY <1>1 DEF Resumed, Downloads

LEMMA GoOnDoes ==
  ASSUME DocTypeOK, stack # <<>>, NEW path \in Paths, GoOn(path)
  PROVE  /\ stack' \in Seq(Downloads) /\ Len(stack') = Len(stack) - 1
         /\ \A i \in 1..Len(stack') : i # Len(stack') => stack'[i] = stack[i]
         /\ Len(stack) # 1 =>
              /\ Len(stack') \in 1..Len(stack) /\ Len(stack') < Len(stack)
              /\ stack[Len(stack')] \in Downloads /\ stack[Len(stack')].todo # <<>>
              /\ stack[Len(stack')].fetched
              /\ stack'[Len(stack')] = Resumed(stack[Len(stack')], path)
<1>1. stack \in Seq(Downloads) /\ Len(stack) \in Nat \ {0} /\ DOMAIN stack = 1..Len(stack)
  BY TopIsUnderWay DEF DocTypeOK
<1>2. CASE Len(stack) = 1
  <2>1. stack' = <<>>
    BY <1>2 DEF GoOn
  <2> QED
    BY <1>2, <2>1
<1>3. CASE Len(stack) # 1
  <2> DEFINE n == Len(stack) - 1
             caller == stack[n]
  <2>1. n \in 1..Len(stack) /\ n < Len(stack) /\ n \in Nat
    BY <1>1, <1>3
  <2>2. /\ Callers \in Seq(Downloads) /\ Len(Callers) = n
        /\ \A i \in 1..n : Callers[i] = stack[i]
    <3>1. \A i \in 1..n : stack[i] \in Downloads
      BY <1>1, <2>1, ElementOfSeq
    <3>2. Callers = SubSeq(stack, 1, n)
      BY DEF Callers
    <3> QED
      BY <2>1, <3>1, <3>2, SubSeqProperties
  <2>3. caller \in Downloads /\ caller.todo # <<>> /\ caller.fetched
    BY <1>1, <2>1 DEF DocTypeOK
  <2>4. stack' = [Callers EXCEPT ![n] = Resumed(caller, path)]
    <3>1. stack' = [Callers EXCEPT ![Len(Callers)] = Resumed(Callers[Len(Callers)], path)]
      BY <1>3 DEF GoOn, Resumed
    <3>2. Callers[Len(Callers)] = caller
      BY <2>1, <2>2
    <3> QED
      BY <2>2, <3>1, <3>2
  <2>5. Resumed(caller, path) \in Downloads
    BY <2>3, ResumedTypes
  <2>6. n \in 1..Len(Callers)
    BY <2>1, <2>2
  <2> HIDE DEF n, caller
  <2>7. /\ stack' \in Seq(Downloads) /\ Len(stack') = Len(Callers)
        /\ \A j \in 1..Len(Callers) : stack'[j] = IF j = n THEN Resumed(caller, path) ELSE Callers[j]
    BY <2>2, <2>4, <2>5, <2>6, ExceptSeq
  <2> USE DEF n, caller
  <2> QED
    BY <1>3, <2>1, <2>2, <2>3, <2>7
<1> QED
  BY <1>2, <1>3

(* What a step of a run may do without harm to the downloads under way:    *)
(* bring files and register them.                                          *)
Brings ==
  /\ plan' = plan /\ agenda' = agenda
  /\ texts' \in [Paths -> {"none", "page", "placeholder"}]
  /\ links' \in [Paths -> SUBSET Paths]
  /\ cache' \in [Pages -> Paths \cup {NoPath}]
  /\ fetches' \in [Pages -> Nat] /\ excused' \subseteq Paths \X Paths
  /\ \A q \in Paths : texts[q] # "none" => texts'[q] # "none"
  /\ \A t \in Pages : Exists(cache[t]) => Exists(cache[t])'

LEMMA DownloadKept ==
  ASSUME NEW d \in Downloads, DownloadOK(d), d.fetched, Brings
  PROVE  DownloadOK(d)'
<1>1. d.page \in Pages /\ d.known \in [Pages -> Paths \cup {NoPath}] /\ d.found \subseteq Paths
  BY DEF Downloads
<1>2. \A q \in Paths : Leads(q) => Leads(q)'
  BY DEF Leads, Brings
<1>3. \A t \in Pages : d.known[t] # NoPath => Leads(d.known[t])'
  <2>1. \A t \in Pages : d.known[t] # NoPath => d.known[t] \in Paths /\ Leads(d.known[t])
    BY <1>1 DEF DownloadOK
  <2> QED
    BY <1>2, <2>1
<1>4. \A q \in d.found : Leads(q)'
  BY <1>1, <1>2 DEF DownloadOK
<1>5. Exists(cache[d.page])'
  BY <1>1 DEF DownloadOK, Brings
<1> QED
  BY <1>3, <1>4, <1>5 DEF DownloadOK, Brings

LEMMA StackFacts ==
  ASSUME DocInv, stack # <<>>
  PROVE  /\ stack \in Seq(Downloads) /\ Len(stack) \in Nat \ {0} /\ DOMAIN stack = 1..Len(stack)
         /\ Top \in Downloads /\ DownloadOK(Top) /\ Top.depth = Len(stack) - 1 /\ Top.depth <= MaxDepth
         /\ \A i \in 1..Len(stack) : stack[i] \in Downloads /\ DownloadOK(stack[i])
         /\ \A i \in 1..Len(stack) : stack[i].depth = i - 1 /\ i - 1 <= MaxDepth
         /\ \A i \in 1..Len(stack) : i < Len(stack) => stack[i].fetched /\ stack[i].todo # <<>>
         /\ plan # {}
<1>1. stack \in Seq(Downloads)
  BY DEF DocInv, DocTypeOK
<1>2. /\ Len(stack) \in Nat \ {0} /\ DOMAIN stack = 1..Len(stack) /\ Top \in Downloads
      /\ Top = stack[Len(stack)]
  BY <1>1, TopIsUnderWay
<1>3. \A i \in 1..Len(stack) : stack[i] \in Downloads
  BY <1>1, ElementOfSeq
<1>4. \A i \in 1..Len(stack) : DownloadOK(stack[i])
  BY <1>2 DEF DocInv, DownloadsAreOK
<1>5. /\ \A i \in 1..Len(stack) : stack[i].depth = i - 1 /\ i - 1 <= MaxDepth
      /\ \A i \in 1..Len(stack) : i < Len(stack) => stack[i].fetched /\ stack[i].todo # <<>>
  BY <1>2 DEF DocInv, DocTypeOK
<1>6. plan # {}
  BY DEF DocInv, NoRunNoTask
<1>7. Top.depth = Len(stack) - 1 /\ Top.depth <= MaxDepth
  BY <1>2, <1>5
<1> QED
  BY <1>1, <1>2, <1>3, <1>4, <1>5, <1>6, <1>7

LEMMA ReplaceKeeps ==
  ASSUME DocInv, stack # <<>>, NEW d \in Downloads, stack' = Replace(d), d.depth = Top.depth,
         Brings, DownloadOK(d)'
  PROVE  DocTypeOK' /\ DownloadsAreOK' /\ NoRunNoTask'
<1>1. /\ stack' \in Seq(Downloads) /\ Len(stack') = Len(stack)
      /\ stack'[Len(stack)] = d
      /\ \A i \in 1..Len(stack) : i # Len(stack) => stack'[i] = stack[i]
  BY StackFacts, ReplaceDoes
<1>2. DOMAIN stack' = 1..Len(stack)
  BY <1>1
<1>3. DownloadsAreOK'
  <2>1. ASSUME NEW e \in Downloads, e = d \/ (DownloadOK(e) /\ e.fetched)
        PROVE  DownloadOK(e)'
    BY <2>1, DownloadKept DEF DownloadOK
  <2>2. \A i \in 1..Len(stack) :
          /\ stack'[i] \in Downloads
          /\ stack'[i] = d \/ (DownloadOK(stack[i]) /\ stack[i].fetched /\ stack'[i] = stack[i])
    BY <1>1, StackFacts
  <2> QED
    BY <1>2, <2>1, <2>2 DEF DownloadsAreOK, DownloadOK, Leads, Exists
<1>4. DocTypeOK'
  <2>1. \A i \in 1..Len(stack) : stack'[i].depth = i - 1 /\ i - 1 <= MaxDepth
    BY <1>1, StackFacts
  <2>2. \A i \in 1..Len(stack) : i < Len(stack) => stack'[i].fetched /\ stack'[i].todo # <<>>
    BY SMTT(30), <1>1, StackFacts
  <2>3. /\ \A i \in DOMAIN stack' : stack'[i].depth = i - 1 /\ i - 1 <= MaxDepth
        /\ \A i \in DOMAIN stack' : i < Len(stack') => stack'[i].fetched /\ stack'[i].todo # <<>>
    BY <1>1, <1>2, <2>1, <2>2
  <2>4. plan' \subseteq Tree /\ agenda' \subseteq plan'
    BY DEF DocInv, DocTypeOK, Brings
  <2> QED
    BY <1>1, <2>3, <2>4 DEF DocTypeOK, Brings
<1> QED
  BY <1>3, <1>4, StackFacts DEF NoRunNoTask, Brings

(* The caller goes on with a path that leads somewhere.                    *)
LEMMA GoOnKeeps ==
  ASSUME DocInv, stack # <<>>, NEW path \in Paths, GoOn(path), Brings, Leads(path)'
  PROVE  DocTypeOK' /\ DownloadsAreOK' /\ NoRunNoTask'
<1> DEFINE n == Len(stack')
<1>1. /\ stack' \in Seq(Downloads) /\ n = Len(stack) - 1 /\ n \in Nat /\ DOMAIN stack' = 1..n
      /\ \A i \in 1..n : i # n => stack'[i] = stack[i]
      /\ \A i \in 1..n : i \in 1..Len(stack) /\ i < Len(stack)
      /\ n # 0 => /\ stack[n] \in Downloads /\ stack[n].todo # <<>>
                  /\ stack'[n] = Resumed(stack[n], path)
  <2>1. DocTypeOK
    BY DEF DocInv
  <2>2. /\ stack' \in Seq(Downloads) /\ n = Len(stack) - 1
        /\ \A i \in 1..n : i # n => stack'[i] = stack[i]
        /\ Len(stack) # 1 =>
             /\ stack[n] \in Downloads /\ stack[n].todo # <<>>
             /\ stack'[n] = Resumed(stack[n], path)
    BY <2>1, GoOnDoes
  <2>3. Len(stack) \in Nat \ {0} /\ n \in Nat /\ DOMAIN stack' = 1..n
    BY <2>2, StackFacts
  <2> HIDE DEF n
  <2> QED
    BY <2>2, <2>3
<1> HIDE DEF n
<1>2. ASSUME n # 0
      PROVE  LET r == Resumed(stack[n], path) IN
             /\ r \in Downloads /\ r.page = stack[n].page /\ r.depth = stack[n].depth
             /\ r.fetched = stack[n].fetched
             /\ r.found = stack[n].found \cup {path}
             /\ r.known = [stack[n].known EXCEPT ![Head(stack[n].todo)] = path]
  BY <1>1, <1>2, ResumedTypes
<1>3. \A i \in 1..n : stack[i] \in Downloads /\ stack[i].fetched /\ DownloadOK(stack[i])
                      /\ stack[i].depth = i - 1 /\ i - 1 <= MaxDepth /\ stack[i].todo # <<>>
  BY <1>1, StackFacts
<1>4. ASSUME NEW e \in Downloads, DownloadOK(e), e.fetched
      PROVE  DownloadOK(e)'
  BY <1>4, DownloadKept
<1>5. ASSUME NEW e \in Downloads, NEW r, e.todo # <<>>, DownloadOK(e), e.fetched, r = Resumed(e, path)
      PROVE  DownloadOK(r)'
  <2>1. /\ r \in Downloads /\ r.page = e.page /\ r.depth = e.depth /\ r.fetched = e.fetched
        /\ r.found = e.found \cup {path}
        /\ r.known = [e.known EXCEPT ![Head(e.todo)] = path]
    BY <1>5, ResumedTypes
  <2>2. DownloadOK(e)'
    BY <1>4, <1>5
  <2>3. e.known \in [Pages -> Paths \cup {NoPath}] /\ path # NoPath
    BY PathTypes DEF Downloads
  <2>4. \A t \in Pages : r.known[t] = e.known[t] \/ r.known[t] = path
    BY <2>1, <2>3
  <2>5. r.fetched /\ e.depth < MaxDepth
    BY <1>5, <2>1 DEF DownloadOK
  <2>6. Tree \subseteq Pages /\ plan' \subseteq Tree
    BY ReferenceAssumption DEF Brings, DocInv, DocTypeOK
  <2>7. \A t \in plan' : r.known[t] # NoPath
    BY <2>2, <2>3, <2>4, <2>6 DEF DownloadOK
  <2>8. \A t \in Pages : r.known[t] # NoPath => Leads(r.known[t])'
    BY <2>2, <2>4 DEF DownloadOK
  <2>9. \A q \in r.found : Leads(q)'
    BY <2>1, <2>2 DEF DownloadOK
  <2>10. Exists(cache[e.page])'
    BY <1>5, <2>2 DEF DownloadOK
  <2>11. r.depth = 0 => r.page \in plan'
    BY <2>1, <2>2 DEF DownloadOK
  <2> QED
    BY <2>1, <2>5, <2>7, <2>8, <2>9, <2>10, <2>11 DEF DownloadOK
<1>6. DownloadsAreOK'
  <2>1. ASSUME NEW i \in 1..n, NEW e, e = stack'[i]
        PROVE  DownloadOK(e)'
    <3>1. stack[i] \in Downloads /\ stack[i].fetched /\ DownloadOK(stack[i]) /\ stack[i].todo # <<>>
      BY <1>3
    <3>2. CASE i = n
      <4>1. n # 0
        BY <1>1, <3>2
      <4>2. e = Resumed(stack[i], path)
        BY <1>1, <2>1, <3>2, <4>1
      <4> QED
        BY <1>5, <3>1, <4>2
    <3>3. CASE i # n
      BY <1>1, <1>4, <2>1, <3>1, <3>3
    <3> QED
      BY <3>2, <3>3
  <2> QED
    BY <1>1, <2>1 DEF DownloadsAreOK, DownloadOK, Leads, Exists
<1>7. DocTypeOK'
  <2>1. \A i \in 1..n : stack'[i].depth = i - 1 /\ i - 1 <= MaxDepth /\ stack'[i].fetched
    <3> SUFFICES ASSUME NEW i \in 1..n
                 PROVE  stack'[i].depth = i - 1 /\ i - 1 <= MaxDepth /\ stack'[i].fetched
      OBVIOUS
    <3>1. stack[i].depth = i - 1 /\ i - 1 <= MaxDepth /\ stack[i].fetched
      BY <1>3
    <3>2. stack'[i].depth = stack[i].depth /\ stack'[i].fetched = stack[i].fetched
      BY SMTT(30), <1>1, <1>2
    <3> QED
      BY <3>1, <3>2
  <2>2. \A i \in 1..n : i < n => stack'[i].todo # <<>>
    <3> SUFFICES ASSUME NEW i \in 1..n, i < n PROVE stack'[i].todo # <<>>
      OBVIOUS
    <3>1. i # n
      BY <1>1
    <3>2. stack'[i] = stack[i]
      BY <1>1, <3>1
    <3> QED
      BY <1>3, <3>2
  <2>3. /\ \A i \in DOMAIN stack' : stack'[i].depth = i - 1 /\ i - 1 <= MaxDepth
        /\ \A i \in DOMAIN stack' : i < Len(stack') => stack'[i].fetched /\ stack'[i].todo # <<>>
    BY <1>1, <2>1, <2>2 DEF n
  <2>4. plan' \subseteq Tree /\ agenda' \subseteq plan'
    BY DEF DocInv, DocTypeOK, Brings
  <2> QED
    BY <1>1, <2>3, <2>4 DEF DocTypeOK, Brings
<1> QED
  BY <1>6, <1>7, StackFacts DEF NoRunNoTask, Brings

(* A file is put at the path of the innermost download and registered, the *)
(* page counted as fetched.                                                *)
LEMMA ArrivalBrings ==
  ASSUME DocInv, stack # <<>>, ~Top.fetched, NEW what \in {"page", "placeholder"},
         Asked, texts' = [texts EXCEPT ![Top.path] = what],
         links' = [links EXCEPT ![Top.path] = {}],
         excused' = {e \in excused : e[1] # Top.path},
         cache' = [cache EXCEPT ![Top.page] = Top.path],
         UNCHANGED <<plan, agenda>>
  PROVE  /\ Brings /\ FetchedIsKnown' /\ LinksLead'
         /\ texts'[Top.path] # "none" /\ cache'[Top.page] = Top.path
<1>1. /\ Top \in Downloads /\ Top.page \in Pages /\ Top.path \in Paths /\ DownloadOK(Top)
      /\ fetches[Top.page] = 0 /\ Top.page \notin agenda /\ plan # {}
  BY StackFacts DEF Downloads, DownloadOK
<1>2. DocTypeOK /\ FetchedIsKnown /\ LinksLead
  BY DEF DocInv
<1>3. /\ texts' \in [Paths -> {"none", "page", "placeholder"}]
      /\ cache' \in [Pages -> Paths \cup {NoPath}]
      /\ links' \in [Paths -> SUBSET Paths]
      /\ fetches' \in [Pages -> Nat] /\ fetches'[Top.page] = 1
      /\ \A t \in Pages : t # Top.page => fetches'[t] = fetches[t]
  BY <1>1, <1>2 DEF DocTypeOK, Asked
<1>4. /\ texts'[Top.path] # "none" /\ cache'[Top.page] = Top.path
      /\ \A q \in Paths : texts[q] # "none" => texts'[q] # "none"
      /\ \A t \in Pages : t # Top.page => cache'[t] = cache[t]
  BY <1>1, <1>2 DEF DocTypeOK
<1>5. \A t \in Pages : Exists(cache[t]) => Exists(cache[t])'
  BY <1>1, <1>2, <1>4, PathTypes DEF Exists, DocTypeOK
<1>6. \A t \in Pages : t = Top.page => Exists(cache[t])'
  BY <1>1, <1>4, PathTypes DEF Exists
<1>7. Brings
  BY <1>2, <1>3, <1>4, <1>5 DEF Brings, DocTypeOK
<1>8. FetchedIsKnown'
  <2> SUFFICES ASSUME NEW t \in Pages
               PROVE  /\ fetches'[t] <= 1
                      /\ fetches'[t] = 1 /\ t \in plan => t \notin agenda
                      /\ fetches'[t] = 1 /\ plan # {} /\ t \notin plan => Exists(cache[t])'
    BY DEF FetchedIsKnown
  <2>1. CASE t = Top.page
    BY <1>1, <1>3, <1>6, <2>1
  <2>2. CASE t # Top.page
    BY <1>2, <1>3, <1>5, <2>2 DEF FetchedIsKnown
  <2> QED
    BY <2>1, <2>2
<1>9. LinksLead'
  <2> SUFFICES ASSUME NEW p \in Paths, texts'[p] # "none", NEW q \in links'[p]
               PROVE  texts'[q] # "none" \/ <<p, q>> \in excused'
    BY DEF LinksLead
  <2>1. p # Top.path /\ q \in links[p] /\ q \in Paths /\ texts[p] # "none"
    BY <1>1, <1>2 DEF DocTypeOK
  <2>2. texts[q] # "none" \/ <<p, q>> \in excused
    BY <1>2, <2>1 DEF LinksLead
  <2> QED
    BY <1>4, <2>1, <2>2
<1> QED
  BY <1>4, <1>7, <1>8, <1>9

LEMMA FetchKeeps ==
  ASSUME DocInv, Fetch
  PROVE  DocInv'
<1> DEFINE d == [Top EXCEPT !.fetched = TRUE,
                            !.history = @ \cup {Top.page},
                            !.known[Top.page] = IF @ = NoPath THEN Top.path ELSE @,
                            !.todo = Followed(Top.page, Top.depth)]
<1>1. /\ stack # <<>> /\ ~Top.fetched /\ Asked /\ UNCHANGED <<plan, agenda>>
      /\ texts' = [texts EXCEPT ![Top.path] = "page"] /\ links' = [links EXCEPT ![Top.path] = {}]
      /\ excused' = {e \in excused : e[1] # Top.path}
      /\ cache' = [cache EXCEPT ![Top.page] = Top.path]
      /\ stack' = Replace(d)
  BY DEF Fetch
<1>2. /\ Brings /\ FetchedIsKnown' /\ LinksLead'
      /\ texts'[Top.path] # "none" /\ cache'[Top.page] = Top.path
  BY <1>1, ArrivalBrings
<1>3. /\ Top \in Downloads /\ DownloadOK(Top) /\ Top.page \in Pages /\ Top.path \in Paths
      /\ Top.found \subseteq Paths /\ Top.known \in [Pages -> Paths \cup {NoPath}]
  BY <1>1, StackFacts DEF Downloads
<1>4. Followed(Top.page, Top.depth) \in Seq(Pages)
  BY <1>3, ReferenceAssumption DEF Followed
<1>5. /\ d \in Downloads
      /\ d.page = Top.page /\ d.depth = Top.depth /\ d.found = Top.found /\ d.fetched
      /\ d.todo = Followed(Top.page, Top.depth)
      /\ d.known = [Top.known EXCEPT ![Top.page] = IF @ = NoPath THEN Top.path ELSE @]
  BY <1>3, <1>4 DEF Downloads
<1> HIDE DEF d
<1>6. ASSUME NEW e, NEW page \in Pages, NEW path \in Paths, e = d, page = Top.page, path = Top.path
      PROVE  DownloadOK(e)'
  <2>1. e.page = page /\ e.found = Top.found /\ e.fetched
    BY <1>5, <1>6
  <2>2. \A t \in Pages : e.known[t] = Top.known[t] \/ (t = page /\ e.known[t] = path)
    BY <1>3, <1>5, <1>6
  <2>3. \A t \in Pages : Top.known[t] # NoPath => e.known[t] = Top.known[t]
    BY <1>3, <1>5, <1>6
  <2>4. e.todo # <<>> => e.depth < MaxDepth
    BY <1>5, <1>6 DEF Followed
  <2>5. \A q \in Paths : Leads(q) => Leads(q)'
    BY <1>2 DEF Leads, Brings
  <2>6. Leads(path)' /\ Exists(cache[page])'
    BY <1>2, <1>6, PathTypes DEF Leads, Exists
  <2>7. plan' = plan /\ plan \subseteq Pages
    BY <1>1, ReferenceAssumption DEF DocInv, DocTypeOK
  <2>8. \A t \in plan' : e.known[t] # NoPath
    BY <1>3, <2>3, <2>7 DEF DownloadOK
  <2>9. \A t \in Pages : e.known[t] # NoPath => Leads(e.known[t])'
    <3> SUFFICES ASSUME NEW t \in Pages, NEW q, q = e.known[t], q # NoPath PROVE Leads(q)'
      OBVIOUS
    <3>1. CASE q = path
      BY <2>6, <3>1
    <3>2. CASE q # path
      <4>1. q = Top.known[t] /\ q \in Paths
        BY <1>3, <2>2, <3>2
      <4>2. Leads(q)
        BY <1>3, <4>1 DEF DownloadOK
      <4> QED
        BY <2>5, <4>1, <4>2
    <3> QED
      BY <3>1, <3>2
  <2>10. \A q \in e.found : Leads(q)'
    BY <1>3, <2>1, <2>5 DEF DownloadOK
  <2>11. e.depth = 0 => e.page \in plan'
    BY <1>3, <1>5, <1>6, <2>1, <2>7 DEF DownloadOK
  <2> QED
    BY <1>6, <2>1, <2>4, <2>6, <2>8, <2>9, <2>10, <2>11 DEF DownloadOK
<1>7. DocTypeOK' /\ DownloadsAreOK' /\ NoRunNoTask'
  BY <1>1, <1>2, <1>3, <1>5, <1>6, ReplaceKeeps
<1> QED
  BY <1>2, <1>7 DEF DocInv

LEMMA FetchFailsKeeps ==
  ASSUME DocInv, FetchFails
  PROVE  DocInv'
<1>1. stack # <<>> /\ ~Top.fetched /\ Asked /\ GoOn(Top.path) /\ UNCHANGED <<plan, agenda>>
  BY DEF FetchFails
<1>2. /\ Top \in Downloads /\ DownloadOK(Top) /\ Top.page \in Pages /\ Top.path \in Paths
      /\ Top.depth = Len(stack) - 1 /\ Len(stack) \in Nat \ {0} /\ plan # {}
  BY <1>1, StackFacts DEF Downloads
<1>3. CASE Len(stack) = 1
  <2>1. stack' = <<>> /\ UNCHANGED <<texts, links, cache, excused>>
    BY <1>1, <1>3 DEF FetchFails, GoOn
  <2>2. Top.page \in plan /\ Top.page \notin agenda /\ fetches[Top.page] = 0
    BY <1>1, <1>2, <1>3 DEF DownloadOK
  <2>3. fetches' = [fetches EXCEPT ![Top.page] = 1]
    BY <1>1, <2>2 DEF Asked
  <2>4. DocTypeOK'
    BY <1>1, <1>2, <2>1, <2>3 DEF DocInv, DocTypeOK
  <2>5. FetchedIsKnown'
    BY <1>1, <1>2, <2>1, <2>2, <2>3 DEF DocInv, DocTypeOK, FetchedIsKnown, Exists
  <2>6. DownloadsAreOK' /\ NoRunNoTask' /\ LinksLead'
    BY <2>1 DEF DownloadsAreOK, NoRunNoTask, LinksLead, DocInv
  <2> QED
    BY <2>4, <2>5, <2>6 DEF DocInv
<1>4. CASE Len(stack) # 1
  <2>1. /\ texts' = [texts EXCEPT ![Top.path] = "placeholder"]
        /\ links' = [links EXCEPT ![Top.path] = {}]
        /\ excused' = {e \in excused : e[1] # Top.path}
        /\ cache' = [cache EXCEPT ![Top.page] = Top.path]
    BY <1>4 DEF FetchFails
  <2>2. Brings /\ FetchedIsKnown' /\ LinksLead' /\ texts'[Top.path] # "none"
    BY <1>1, <2>1, ArrivalBrings
  <2>3. ASSUME NEW p \in Paths, p = Top.path
        PROVE  DocTypeOK' /\ DownloadsAreOK' /\ NoRunNoTask'
    <3>1. GoOn(p) /\ Leads(p)'
      BY <1>1, <2>2, <2>3 DEF Leads
    <3> QED
      BY <1>1, <2>2, <3>1, GoOnKeeps
  <2> QED
    BY <1>2, <2>2, <2>3 DEF DocInv
<1> QED
  BY <1>3, <1>4

(* What is known when a reference is looked up.                            *)
LEMMA KnownPathsLead ==
  ASSUME DocInv, Citing, NEW t, t = Head(Top.todo), NEW paths, paths = KnownPaths(t)
  PROVE  /\ t \in Pages /\ Tail(Top.todo) \in Seq(Pages)
         /\ paths \in [Pages -> Paths \cup {NoPath}]
         /\ \A u \in plan : paths[u] # NoPath
         /\ \A u \in Pages : paths[u] # NoPath => Leads(paths[u])
         /\ paths[t] = NoPath => t \notin plan /\ t \notin agenda /\ fetches[t] = 0
<1>1. /\ stack # <<>> /\ Top.fetched /\ Top.todo # <<>> /\ Top \in Downloads /\ DownloadOK(Top)
      /\ Top.todo \in Seq(Pages) /\ Top.known \in [Pages -> Paths \cup {NoPath}]
      /\ plan # {}
  BY StackFacts DEF Citing, Downloads
<1>2. t \in Pages /\ Tail(Top.todo) \in Seq(Pages)
  BY <1>1, HeadTailProperties
<1>3. /\ cache \in [Pages -> Paths \cup {NoPath}] /\ plan \subseteq Pages /\ agenda \subseteq plan
      /\ fetches \in [Pages -> Nat]
  BY ReferenceAssumption DEF DocInv, DocTypeOK
<1>4. CASE Exists(cache[t])
  <2>1. paths = [Top.known EXCEPT ![t] = cache[t]]
    BY <1>4 DEF KnownPaths
  <2>2. /\ paths \in [Pages -> Paths \cup {NoPath}] /\ paths[t] = cache[t]
        /\ \A u \in Pages : u # t => paths[u] = Top.known[u]
    BY <1>1, <1>2, <1>3, <2>1
  <2>3. paths[t] # NoPath /\ Leads(paths[t])
    BY <1>4, <2>2 DEF Exists, Leads
  <2> QED
    BY <1>1, <1>2, <1>3, <2>2, <2>3 DEF DownloadOK
<1>5. CASE ~Exists(cache[t])
  <2>1. paths = Top.known
    BY <1>5 DEF KnownPaths
  <2>2. paths[t] = NoPath => t \notin plan
    BY <1>1, <1>2, <2>1 DEF DownloadOK
  <2>3. t \notin plan => fetches[t] = 0 /\ t \notin agenda
    BY <1>1, <1>2, <1>3, <1>5 DEF DocInv, FetchedIsKnown
  <2> QED
    BY <1>1, <1>2, <2>1, <2>2, <2>3 DEF DownloadOK
<1> QED
  BY <1>4, <1>5

LEMMA RestBrings ==
  ASSUME DocInv, UNCHANGED <<texts, links, cache, plan, agenda, fetches, excused>>
  PROVE  Brings /\ FetchedIsKnown' /\ LinksLead'
BY DEF DocInv, DocTypeOK, Brings, Exists, FetchedIsKnown, LinksLead

LEMMA FindKnownKeeps ==
  ASSUME DocInv, FindKnown
  PROVE  DocInv'
<1>1. Citing /\ stack # <<>> /\ UNCHANGED <<texts, links, cache, plan, agenda, fetches, excused>>
  BY DEF FindKnown, Citing
<1>2. PICK t, paths :
        /\ t = Head(Top.todo) /\ paths = KnownPaths(t)
        /\ stack' = Replace([Top EXCEPT !.todo = Tail(@), !.known = paths,
                                        !.found = @ \cup ({paths[t]} \ {NoPath})])
  BY DEF FindKnown
<1>3. PICK d : d = [Top EXCEPT !.todo = Tail(@), !.known = paths,
                               !.found = @ \cup ({paths[t]} \ {NoPath})]
  OBVIOUS
<1>4. /\ t \in Pages /\ Tail(Top.todo) \in Seq(Pages)
      /\ paths \in [Pages -> Paths \cup {NoPath}]
      /\ \A u \in plan : paths[u] # NoPath
      /\ \A u \in Pages : paths[u] # NoPath => Leads(paths[u])
  BY <1>1, <1>2, KnownPathsLead
<1>5. Top \in Downloads /\ DownloadOK(Top) /\ Top.fetched /\ Top.todo # <<>>
  BY <1>1, StackFacts DEF Citing
<1>6. /\ d \in Downloads /\ d.page = Top.page /\ d.depth = Top.depth /\ d.fetched
      /\ d.known = paths /\ d.found = Top.found \cup ({paths[t]} \ {NoPath})
  <2>1. {paths[t]} \ {NoPath} \subseteq Paths
    BY <1>4
  <2> QED
    BY <1>3, <1>4, <1>5, <2>1 DEF Downloads
<1>7. DownloadOK(d)
  BY <1>4, <1>5, <1>6 DEF DownloadOK
<1>8. Brings /\ FetchedIsKnown' /\ LinksLead'
  BY <1>1, RestBrings
<1>9. DownloadOK(d)'
  BY <1>6, <1>7, <1>8, DownloadKept
<1>10. DocTypeOK' /\ DownloadsAreOK' /\ NoRunNoTask'
  BY <1>1, <1>2, <1>3, <1>6, <1>8, <1>9, ReplaceKeeps
<1> QED
  BY <1>8, <1>10 DEF DocInv

LEMMA FollowKeeps ==
  ASSUME DocInv, Follow
  PROVE  DocInv'
<1>1. Citing /\ stack # <<>> /\ UNCHANGED <<texts, links, cache, plan, agenda, fetches, excused>>
  BY DEF Follow, Citing
<1>2. PICK t, paths :
        /\ t = Head(Top.todo) /\ paths = KnownPaths(t) /\ paths[t] = NoPath
        /\ stack' = Append(Replace([Top EXCEPT !.known = paths]),
             NewDownload(t, ReferPath(t), Top.depth + 1, Top.history, paths))
  BY DEF Follow
<1>3. PICK d, new : /\ d = [Top EXCEPT !.known = paths]
                    /\ new = NewDownload(t, ReferPath(t), Top.depth + 1, Top.history, paths)
  OBVIOUS
<1>4. /\ t \in Pages
      /\ paths \in [Pages -> Paths \cup {NoPath}]
      /\ \A u \in plan : paths[u] # NoPath
      /\ \A u \in Pages : paths[u] # NoPath => Leads(paths[u])
      /\ fetches[t] = 0 /\ t \notin agenda
  BY <1>1, <1>2, KnownPathsLead
<1>5. /\ Top \in Downloads /\ DownloadOK(Top) /\ Top.fetched /\ Top.todo # <<>>
      /\ Top.depth = Len(stack) - 1 /\ Len(stack) \in Nat \ {0} /\ Top.depth < MaxDepth
  BY <1>1, StackFacts DEF Citing, DownloadOK
<1>6. /\ d \in Downloads /\ d.page = Top.page /\ d.depth = Top.depth /\ d.fetched
      /\ d.known = paths /\ d.found = Top.found /\ d.todo = Top.todo
  BY <1>3, <1>4, <1>5 DEF Downloads
<1>7. /\ new \in Downloads /\ new.page = t /\ new.depth = Top.depth + 1 /\ ~new.fetched
      /\ new.known = paths /\ new.found = {}
  <2>1. ReferPath(t) \in Paths /\ Top.history \in SUBSET Pages /\ Top.depth + 1 \in Nat
    BY <1>4, <1>5, PathTypes DEF Downloads
  <2>2. <<>> \in Seq(Pages)
    OBVIOUS
  <2> QED
    BY <1>3, <1>4, <2>1, <2>2 DEF Downloads, NewDownload
<1>8. DownloadOK(d) /\ DownloadOK(new)
  BY <1>4, <1>5, <1>6, <1>7 DEF DownloadOK
<1>9. Brings /\ FetchedIsKnown' /\ LinksLead'
  BY <1>1, RestBrings
<1>10. DownloadOK(d)'
  BY <1>6, <1>8, <1>9, DownloadKept
<1>11. DownloadOK(new)'
  BY <1>1, <1>8 DEF DownloadOK, Leads, Exists
<1> DEFINE n == Len(stack)
<1>12. /\ stack' \in Seq(Downloads) /\ Len(stack') = n + 1 /\ DOMAIN stack' = 1..(n + 1)
       /\ stack'[n + 1] = new /\ stack'[n] = d
       /\ \A i \in 1..n : i # n => stack'[i] = stack[i]
  <2>1. /\ Replace(d) \in Seq(Downloads) /\ Len(Replace(d)) = n
        /\ Replace(d)[n] = d
        /\ \A i \in 1..n : i # n => Replace(d)[i] = stack[i]
    BY <1>1, <1>6, StackFacts, ReplaceDoes
  <2>2. /\ Append(Replace(d), new) \in Seq(Downloads)
        /\ Len(Append(Replace(d), new)) = n + 1
        /\ Append(Replace(d), new)[n + 1] = new
        /\ \A i \in 1..n : Append(Replace(d), new)[i] = Replace(d)[i]
    BY <1>7, <2>1, AppendProperties
  <2>3. stack' = Append(Replace(d), new)
    BY <1>2, <1>3
  <2>4. n \in 1..n
    BY <1>5
  <2>5. DOMAIN stack' = 1..(n + 1)
    BY <2>2, <2>3
  <2> HIDE DEF n
  <2> QED
    BY SMTT(30), <2>1, <2>2, <2>3, <2>4, <2>5
<1>13. \A i \in 1..n : stack[i] \in Downloads /\ DownloadOK(stack[i]) /\ stack[i].depth = i - 1 /\ i - 1 <= MaxDepth
                       /\ (i < n => stack[i].fetched /\ stack[i].todo # <<>>)
  BY <1>1, StackFacts
<1>14. n \in Nat \ {0}
  BY <1>5
<1>15. Top.depth = n - 1 /\ Top.depth \in Nat
  BY <1>5 DEF Downloads
<1> HIDE DEF n
<1>16. DownloadsAreOK'
  <2>1. ASSUME NEW i \in 1..(n + 1), NEW e, e = stack'[i]
        PROVE  DownloadOK(e)'
    <3>1. CASE i = n + 1
      BY <1>11, <1>12, <2>1, <3>1
    <3>2. CASE i = n
      BY <1>10, <1>12, <2>1, <3>2
    <3>3. CASE i < n
      <4>1. i \in 1..n /\ e = stack[i] /\ e.fetched /\ DownloadOK(e) /\ e \in Downloads
        BY <1>12, <1>13, <1>14, <2>1, <3>3
      <4> QED
        BY <1>9, <4>1, DownloadKept
    <3> QED
      BY <1>14, <3>1, <3>2, <3>3
  <2> QED
    BY <1>12, <2>1 DEF DownloadsAreOK, DownloadOK, Leads, Exists
<1>17. DocTypeOK'
  <2>1. \A i \in 1..(n + 1) : stack'[i].depth = i - 1 /\ i - 1 <= MaxDepth
    <3> SUFFICES ASSUME NEW i \in 1..(n + 1) PROVE stack'[i].depth = i - 1 /\ i - 1 <= MaxDepth
      OBVIOUS
    <3>1. CASE i = n + 1
      BY <1>5, <1>7, <1>12, <1>14, <1>15, <3>1, ReferenceAssumption
    <3>2. CASE i = n
      BY <1>5, <1>6, <1>12, <1>14, <1>15, <3>2, ReferenceAssumption
    <3>3. CASE i < n
      BY SMTT(30), <1>12, <1>13, <1>14, <3>3
    <3> QED
      BY <1>14, <3>1, <3>2, <3>3
  <2>2. \A i \in 1..(n + 1) : i < n + 1 => stack'[i].fetched /\ stack'[i].todo # <<>>
    <3> SUFFICES ASSUME NEW i \in 1..n PROVE stack'[i].fetched /\ stack'[i].todo # <<>>
      BY <1>14
    <3>1. CASE i = n
      BY <1>5, <1>6, <1>12, <3>1
    <3>2. CASE i # n
      BY <1>12, <1>13, <1>14, <3>2
    <3> QED
      BY <3>1, <3>2
  <2>3. /\ \A i \in DOMAIN stack' : stack'[i].depth = i - 1 /\ i - 1 <= MaxDepth
        /\ \A i \in DOMAIN stack' : i < Len(stack') => stack'[i].fetched /\ stack'[i].todo # <<>>
    BY <1>12, <2>1, <2>2
  <2>4. plan' \subseteq Tree /\ agenda' \subseteq plan'
    BY <1>1 DEF DocInv, DocTypeOK
  <2> QED
    BY <1>9, <1>12, <2>3, <2>4 DEF DocTypeOK, Brings
<1>18. NoRunNoTask'
  BY <1>1, StackFacts DEF NoRunNoTask
<1> QED
  BY <1>9, <1>16, <1>17, <1>18 DEF DocInv

LEMMA FinishKeeps ==
  ASSUME DocInv, Finish
  PROVE  DocInv'
<1>1. /\ stack # <<>> /\ Top.fetched
      /\ links' = [links EXCEPT ![Top.path] = Top.found]
      /\ excused' = excused \cup {<<Top.path, p>> : p \in {q \in Top.found : q[1] \in plan /\ texts[q] = "none"}}
      /\ GoOn(cache[Top.page])
      /\ UNCHANGED <<texts, cache, plan, agenda, fetches>>
  BY DEF Finish
<1>2. /\ Top \in Downloads /\ DownloadOK(Top) /\ Top.page \in Pages /\ Top.path \in Paths
      /\ Top.found \subseteq Paths
  BY <1>1, StackFacts DEF Downloads
<1>3. DocTypeOK /\ FetchedIsKnown /\ LinksLead
  BY DEF DocInv
<1>4. Exists(cache[Top.page]) /\ cache[Top.page] \in Paths
  BY <1>1, <1>2, <1>3 DEF DownloadOK, DocTypeOK, Exists
<1>5. Brings
  <2>1. excused' \subseteq Paths \X Paths
    BY <1>1, <1>2, <1>3 DEF DocTypeOK
  <2>2. links' \in [Paths -> SUBSET Paths]
    BY <1>1, <1>2, <1>3 DEF DocTypeOK
  <2> QED
    BY <1>1, <1>3, <2>1, <2>2 DEF Brings, DocTypeOK, Exists
<1>6. FetchedIsKnown'
  BY <1>1, <1>3 DEF FetchedIsKnown, Exists
<1>7. LinksLead'
  <2> SUFFICES ASSUME NEW p \in Paths, texts[p] # "none", NEW q \in links'[p]
               PROVE  texts[q] # "none" \/ <<p, q>> \in excused'
    BY <1>1 DEF LinksLead
  <2>1. CASE p = Top.path
    <3>1. q \in Top.found
      BY <1>1, <1>2, <1>3, <2>1 DEF DocTypeOK
    <3>2. texts[q] # "none" \/ q[1] \in plan
      BY <1>2, <3>1 DEF DownloadOK, Leads
    <3> QED
      BY <1>1, <2>1, <3>1, <3>2
  <2>2. CASE p # Top.path
    <3>1. q \in links[p]
      BY <1>1, <1>2, <1>3, <2>2 DEF DocTypeOK
    <3> QED
      BY <1>1, <1>3, <3>1 DEF LinksLead
  <2> QED
    BY <2>1, <2>2
<1>8. ASSUME NEW p \in Paths, p = cache[Top.page]
      PROVE  DocTypeOK' /\ DownloadsAreOK' /\ NoRunNoTask'
  <2>1. GoOn(p) /\ Leads(p)'
    BY <1>1, <1>4, <1>8 DEF Leads, Exists
  <2> QED
    BY <1>1, <1>5, <2>1, GoOnKeeps
<1> QED
  BY <1>4, <1>6, <1>7, <1>8 DEF DocInv

LEMMA StartTaskKeeps ==
  ASSUME DocInv, StartTask
  PROVE  DocInv'
<1>1. PICK t \in agenda : /\ agenda' = agenda \ {t}
                          /\ stack' = <<NewDownload(t, OwnPath(t), 0, {}, Planned)>>
  BY DEF StartTask
<1>2. UNCHANGED <<texts, links, cache, plan, fetches, excused>>
  BY DEF StartTask
<1>3. DocTypeOK /\ FetchedIsKnown /\ LinksLead
  BY DEF DocInv
<1>4. /\ t \in Pages /\ t \in plan /\ agenda \subseteq plan /\ plan \subseteq Pages /\ plan \subseteq Tree
      /\ fetches[t] \in Nat
  BY <1>3, ReferenceAssumption DEF DocTypeOK
<1>5. PICK new, paths : new = NewDownload(t, OwnPath(t), 0, {}, paths) /\ paths = Planned
  OBVIOUS
<1>6. /\ paths \in [Pages -> Paths \cup {NoPath}]
      /\ \A u \in Pages : paths[u] = IF u \in plan THEN OwnPath(u) ELSE NoPath
  BY <1>5, PathTypes DEF Planned
<1>7. /\ new \in Downloads /\ new.page = t /\ new.depth = 0 /\ ~new.fetched /\ new.known = paths
      /\ new.found = {}
  <2>1. OwnPath(t) \in Paths /\ <<>> \in Seq(Pages)
    BY <1>4, PathTypes
  <2> QED
    BY <1>4, <1>5, <1>6, <2>1 DEF Downloads, NewDownload
<1>8. fetches[t] = 0
  BY <1>3, <1>4 DEF FetchedIsKnown
<1>9. DownloadOK(new)'
  <2>1. \A u \in plan' : paths[u] # NoPath
    BY <1>2, <1>4, <1>6, PathTypes
  <2>2. \A u \in Pages : paths[u] # NoPath => Leads(paths[u])'
    BY <1>2, <1>4, <1>6, PathTypes DEF Leads
  <2>3. new.page \in plan' /\ new.page \notin agenda' /\ fetches'[new.page] = 0
    BY <1>1, <1>2, <1>4, <1>7, <1>8
  <2> QED
    BY <1>7, <2>1, <2>2, <2>3 DEF DownloadOK
<1>10. stack' = <<new>>
  BY <1>1, <1>5
<1>11. /\ stack' \in Seq(Downloads) /\ Len(stack') = 1 /\ DOMAIN stack' = 1..1 /\ stack'[1] = new
  BY <1>7, <1>10
<1>12. DownloadsAreOK'
  <2>1. ASSUME NEW i \in 1..1, NEW e, e = stack'[i] PROVE DownloadOK(e)'
    BY <1>9, <1>11, <2>1
  <2> QED
    BY <1>11, <2>1 DEF DownloadsAreOK, DownloadOK, Leads, Exists
<1>13. DocTypeOK'
  <2>1. /\ \A i \in DOMAIN stack' : stack'[i].depth = i - 1 /\ i - 1 <= MaxDepth
        /\ \A i \in DOMAIN stack' : i < Len(stack') => stack'[i].fetched /\ stack'[i].todo # <<>>
    BY <1>7, <1>11, ReferenceAssumption
  <2> QED
    BY <1>1, <1>2, <1>3, <1>4, <1>11, <2>1 DEF DocTypeOK
<1>14. FetchedIsKnown' /\ LinksLead' /\ NoRunNoTask'
  BY <1>1, <1>2, <1>3, <1>4 DEF FetchedIsKnown, LinksLead, NoRunNoTask, Exists
<1> QED
  BY <1>12, <1>13, <1>14 DEF DocInv

(* What happens to the cache and the files where no download is under way. *)
LEMMA IdleKeeps ==
  ASSUME DocInv, StartTrip \/ EndTrip \/ RestartProcess \/ (\E p \in Paths : Lose(p))
  PROVE  DocInv'
<1>1. stack' = <<>> /\ DOMAIN stack' = {} /\ stack' \in Seq(Downloads)
  <2>1. stack' = <<>>
    BY DEF StartTrip, EndTrip, RestartProcess, Lose, DocInv, NoRunNoTask
  <2> QED
    BY <2>1
<1>2. DocTypeOK /\ FetchedIsKnown /\ LinksLead
  BY DEF DocInv
<1>3. DownloadsAreOK' /\ NoRunNoTask'
  BY <1>1 DEF DownloadsAreOK, NoRunNoTask
<1>4. CASE StartTrip
  <2>1. /\ plan' \subseteq Tree /\ agenda' = plan' /\ fetches' = [t \in Pages |-> 0]
        /\ UNCHANGED <<texts, links, cache, excused>>
    BY <1>4 DEF StartTrip
  <2>2. DocTypeOK'
    BY <1>1, <1>2, <2>1 DEF DocTypeOK
  <2>3. FetchedIsKnown' /\ LinksLead'
    BY <1>2, <2>1 DEF FetchedIsKnown, LinksLead
  <2> QED
    BY <1>3, <2>2, <2>3 DEF DocInv
<1>5. CASE EndTrip \/ RestartProcess
  <2>1. /\ plan' = {} /\ agenda' = {} /\ fetches' = fetches
        /\ UNCHANGED <<texts, links, excused>>
        /\ cache' \in [Pages -> Paths \cup {NoPath}]
    BY <1>2, <1>5 DEF EndTrip, RestartProcess, DocTypeOK
  <2>2. DocTypeOK'
    BY <1>1, <1>2, <2>1 DEF DocTypeOK
  <2>3. FetchedIsKnown' /\ LinksLead'
    BY <1>2, <2>1 DEF FetchedIsKnown, LinksLead
  <2> QED
    BY <1>3, <2>2, <2>3 DEF DocInv
<1>6. CASE \E p \in Paths : Lose(p)
  <2>1. PICK p \in Paths : Lose(p)
    BY <1>6
  <2>2. /\ plan = {} /\ texts' = [texts EXCEPT ![p] = "none"]
        /\ excused' = excused \cup (Paths \X {p})
        /\ UNCHANGED <<links, cache, plan, agenda, fetches>>
    BY <2>1 DEF Lose
  <2>3. excused' \subseteq Paths \X Paths
    BY <1>2, <2>2 DEF DocTypeOK
  <2>4. DocTypeOK'
    BY <1>1, <1>2, <2>2, <2>3 DEF DocTypeOK
  <2>5. FetchedIsKnown'
    BY <1>2, <2>2 DEF FetchedIsKnown
  <2>6. LinksLead'
    BY <1>2, <2>2 DEF LinksLead, DocTypeOK
  <2> QED
    BY <1>3, <2>4, <2>5, <2>6 DEF DocInv
<1> QED
  BY <1>4, <1>5, <1>6

LEMMA DocInvariant == DocSpec => []DocInv
<1>1. DocInit => DocInv
  <2> SUFFICES ASSUME DocInit PROVE DocInv
    OBVIOUS
  <2> USE DEF DocInit
  <2>1. stack \in Seq(Downloads) /\ DOMAIN stack = {}
    OBVIOUS
  <2>2. DocTypeOK
    BY <2>1 DEF DocTypeOK
  <2>3. DownloadsAreOK /\ FetchedIsKnown /\ NoRunNoTask /\ LinksLead
    BY <2>1 DEF DownloadsAreOK, FetchedIsKnown, NoRunNoTask, LinksLead
  <2> QED
    BY <2>2, <2>3 DEF DocInv
<1>2. DocInv /\ [DocNext]_docState => DocInv'
  <2> SUFFICES ASSUME DocInv, [DocNext]_docState PROVE DocInv'
    OBVIOUS
  <2>1. CASE StartTrip \/ EndTrip \/ RestartProcess \/ (\E p \in Paths : Lose(p))
    BY <2>1, IdleKeeps
  <2>2. CASE StartTask
    BY <2>2, StartTaskKeeps
  <2>3. CASE Fetch
    BY <2>3, FetchKeeps
  <2>4. CASE FetchFails
    BY <2>4, FetchFailsKeeps
  <2>5. CASE FindKnown
    BY <2>5, FindKnownKeeps
  <2>6. CASE Follow
    BY <2>6, FollowKeeps
  <2>7. CASE Finish
    BY <2>7, FinishKeeps
  <2>8. CASE UNCHANGED docState
    <3>1. UNCHANGED <<texts, links, cache, plan, agenda, stack, fetches, excused>>
      BY <2>8 DEF docState
    <3>2. DocTypeOK'
      BY <3>1 DEF DocInv, DocTypeOK
    <3>3. DownloadsAreOK'
      BY <3>1 DEF DocInv, DownloadsAreOK, DownloadOK, Leads, Exists
    <3>4. FetchedIsKnown' /\ NoRunNoTask' /\ LinksLead'
      BY <3>1 DEF DocInv, FetchedIsKnown, NoRunNoTask, LinksLead, Exists
    <3> QED
      BY <3>2, <3>3, <3>4 DEF DocInv
  <2> QED
    BY <2>1, <2>2, <2>3, <2>4, <2>5, <2>6, <2>7, <2>8 DEF DocNext
<1> QED
  BY <1>1, <1>2, PTL DEF DocSpec

(* DocReferences: all variables have their types; in particular downloads  *)
(* nest no deeper than max_nested_depth.                                   *)
THEOREM ReferenceTypeCorrect == DocSpec => []DocTypeOK
<1>1. DocInv => DocTypeOK
  BY DEF DocInv
<1> QED
  BY <1>1, DocInvariant, PTL

(* DocReferences: a run asks Feishu for a page once, in whatever way the   *)
(* documents refer to each other and whatever requests fail, since         *)
(* _ensure_reference finds what is planned or registered.                  *)
THEOREM PagesAreFetchedOnce == DocSpec => []FetchedOnce
<1>1. DocInv => FetchedOnce
  BY DEF DocInv, FetchedIsKnown, FetchedOnce
<1> QED
  BY <1>1, DocInvariant, PTL

(* DocReferences: a link that was rewritten leads to a file, unless the    *)
(* file was lost later or its own task of the same run had still to come.  *)
THEOREM RewrittenLinksLead == DocSpec => []LinksLead
<1>1. DocInv => LinksLead
  BY DEF DocInv
<1> QED
  BY <1>1, DocInvariant, PTL

-----------------------------------------------------------------------------
(* The parts together.                                                     *)

LEMMA PartsStart ==
  DownloadsInit => Init /\ ExportInit /\ JsonInit /\ DocInit /\ ParserInit
BY DEF DownloadsInit

LEMMA PartsStep ==
  ASSUME [DownloadsNext]_downloadVars
  PROVE  /\ [Next]_vars /\ [ExportNext]_exportVars /\ [JsonNext]_jsonVars
         /\ [DocNext]_docState /\ [ParserNext]_parserState
<1>1. CASE DownloadsNext
  BY <1>1 DEF DownloadsNext, RateRests, ExportRests, StoreRests, DocRests, ParserRests
<1>2. CASE UNCHANGED downloadVars
  BY <1>2 DEF downloadVars
<1>3. QED
  BY <1>1, <1>2

(* The parts of a download share nothing: what runs them in turn is a      *)
(* behaviour of each of them, and keeps what is proved of each.            *)
THEOREM PartsAreApart ==
  DownloadsSpec => Spec /\ ExportSpec /\ JsonSpec /\ DocSpec /\ ParserSpec
<1>1. [DownloadsNext]_downloadVars =>
        /\ [Next]_vars /\ [ExportNext]_exportVars /\ [JsonNext]_jsonVars
        /\ [DocNext]_docState /\ [ParserNext]_parserState
  BY PartsStep
<1>2. QED
  BY PartsStart, <1>1, PTL DEF DownloadsSpec, Spec, ExportSpec, JsonSpec, DocSpec, ParserSpec

(* Whichever part of a download runs, the variables of all have their      *)
(* types.                                                                  *)
THEOREM DownloadTypesCorrect == DownloadsSpec => []DownloadsTypeOK
<1>1. TypeOK /\ ExportTypeOK /\ JsonTypeOK /\ DocTypeOK /\ ParserTypeOK => DownloadsTypeOK
  BY DEF DownloadsTypeOK
<1>2. QED
  BY <1>1, PartsAreApart, LimiterTypeCorrect, ExportTypeCorrect, StoreTypeCorrect,
     ReferenceTypeCorrect, ParserTypeCorrect, PTL

=============================================================================
