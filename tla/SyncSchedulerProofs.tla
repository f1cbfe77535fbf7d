------------------------- MODULE SyncSchedulerProofs -------------------------
(***************************************************************************)
(* Theorems about SyncScheduler, for any number of configs, runs, waiting  *)
(* requests and restarts.                                                  *)
(***************************************************************************)
EXTENDS SyncScheduler, FiniteSetTheorems, TLAPS

-----------------------------------------------------------------------------
(* Type correctness.                                                       *)

LEMMA RowStatus ==
  ASSUME TypeOK, NEW r \in RunIds
  PROVE  runs[r].cfg \in ConfigIds /\ runs[r].status \in Statuses
BY DEF TypeOK

LEMMA UpdatedType ==
  ASSUME TypeOK, NEW r, NEW s \in Statuses
  PROVE  Updated(r, s) \in [RunIds -> [cfg : ConfigIds, status : Statuses]]
BY DEF TypeOK, Updated

LEMMA InsertType ==
  ASSUME TypeOK, NEW r \in RunIds, NEW c \in ConfigIds, NEW s \in Statuses,
         Insert(r, c, s)
  PROVE  /\ runs' \in [RunIds -> [cfg : ConfigIds, status : Statuses]]
         /\ nextRun' \in 1..(MaxRun + 1)
<1>1. runs' \in [RunIds -> [cfg : ConfigIds, status : Statuses]]
  BY DEF TypeOK, Insert
<1>2. nextRun' \in 1..(MaxRun + 1)
  BY ConstantsAssumption DEF TypeOK, Insert, IsNewRun, RunIds
<1>. QED  BY <1>1, <1>2

LEMMA EnqueueType ==
  ASSUME TypeOK, NEW c \in ConfigIds, Enqueue(c)
  PROVE  /\ runs' \in [RunIds -> [cfg : ConfigIds, status : Statuses]]
         /\ nextRun' \in 1..(MaxRun + 1)
         /\ queued' \subseteq ConfigIds
         /\ queue' \in Seq(Item)
<1>1. PICK r \in RunIds : /\ Insert(r, c, "queued")
                          /\ queue' = Append(queue, [cfg |-> c, run |-> r])
                          /\ queued' = queued \cup {c}
  BY DEF Enqueue
<1>2. "queued" \in Statuses  BY DEF Statuses, Active
<1>3. [cfg |-> c, run |-> r] \in Item  BY DEF Item
<1>. QED  BY <1>1, <1>2, <1>3, InsertType DEF TypeOK

LEMMA RecordAuthRequiredType ==
  ASSUME TypeOK, NEW c \in ConfigIds, RecordAuthRequired(c)
  PROVE  /\ runs' \in [RunIds -> [cfg : ConfigIds, status : Statuses]]
         /\ nextRun' \in 1..(MaxRun + 1)
<1>1. "auth_required" \in Statuses  BY DEF Statuses, Terminal
<1>. QED  BY <1>1, InsertType DEF RecordAuthRequired

LEMMA DispatchNewType ==
  ASSUME TypeOK, NEW c \in ConfigIds, DispatchNew(c)
  PROVE  /\ runs' \in [RunIds -> [cfg : ConfigIds, status : Statuses]]
         /\ nextRun' \in 1..(MaxRun + 1)
         /\ job' \in [ConfigIds -> Job]
<1>1. "pending" \in Statuses  BY DEF Statuses, Active
<1>2. PICK r \in RunIds : /\ Insert(r, c, "pending")
                          /\ job' = [job EXCEPT ![c] = [pc |-> "dispatched", run |-> r]]
  BY DEF DispatchNew
<1>3. [pc |-> "dispatched", run |-> r] \in Job  BY DEF Job, JobPc, ThreadPc
<1>. QED  BY <1>1, <1>2, <1>3, InsertType DEF TypeOK

LEMMA EndJobType ==
  ASSUME TypeOK, NEW c \in ConfigIds, EndJob(c)
  PROVE  /\ running' \subseteq ConfigIds
         /\ queued' \subseteq ConfigIds
         /\ current' \in Item \cup {NoItem}
         /\ job' \in [ConfigIds -> Job]
<1>1. Idle \in Job  BY DEF Idle, Job, JobPc
<1>2. job' \in [ConfigIds -> Job]  BY <1>1 DEF EndJob, TypeOK
<1>. QED  BY <1>2 DEF EndJob, TypeOK

LEMMA ThreadMovesType ==
  ASSUME TypeOK, NEW c \in ConfigIds, NEW pc \in JobPc, ThreadMoves(c, pc)
  PROVE  job' \in [ConfigIds -> Job]
BY DEF TypeOK, ThreadMoves, Job

LEMMA ThreadWritesType ==
  ASSUME TypeOK, NEW r, NEW s \in Statuses, ThreadWrites(r, s)
  PROVE  runs' \in [RunIds -> [cfg : ConfigIds, status : Statuses]]
BY UpdatedType DEF ThreadWrites, TypeOK

(* The frame of a thread action and of the two parts of a request.         *)
LEMMA ThreadStepType ==
  ASSUME TypeOK, NEW c \in ConfigIds, NEW pc \in JobPc,
         ThreadMoves(c, pc), ThreadFrame, stranded' \subseteq RunIds,
         runs' \in [RunIds -> [cfg : ConfigIds, status : Statuses]]
  PROVE  TypeOK'
<1>1. job' \in [ConfigIds -> Job]  BY ThreadMovesType
<1>. QED  BY <1>1 DEF TypeOK, ThreadFrame

LEMMA ExecuteRequestType ==
  ASSUME TypeOK, NEW c \in ConfigIds, ExecuteRequest(c),
         UNCHANGED <<configs, tokenValid, current, cancelling, restarts, stranded>>
  PROVE  TypeOK'
<1>. USE DEF ExecuteRequest
<1>1. CASE DispatchNew(c) /\ running' = running \cup {c}
  BY <1>1, DispatchNewType DEF TypeOK
<1>2. CASE RecordAuthRequired(c) /\ UNCHANGED <<running, job>>
  BY <1>2, RecordAuthRequiredType DEF TypeOK
<1>3. CASE /\ job' = [job EXCEPT ![c] = [pc |-> "refresh", run |-> NoRun]]
           /\ running' = running \cup {c}
           /\ UNCHANGED <<runs, nextRun>>
  <2>1. [pc |-> "refresh", run |-> NoRun] \in Job  BY DEF Job, JobPc
  <2>2. job' \in [ConfigIds -> Job]  BY <1>3, <2>1 DEF TypeOK
  <2>. QED  BY <1>3, <2>2 DEF TypeOK
<1>. QED  BY <1>1, <1>2, <1>3

LEMMA EnqueueRequestType ==
  ASSUME TypeOK, NEW c \in ConfigIds, NEW suspend, EnqueueRequest(c, suspend),
         suspend => /\ waiting' \in [ConfigIds -> 0..MaxWaiting]
                    /\ cronWaiting' \subseteq ConfigIds,
         UNCHANGED <<configs, tokenValid, current, cancelling, restarts, stranded>>
  PROVE  TypeOK'
<1>. USE DEF EnqueueRequest
<1>1. CASE Enqueue(c) /\ UNCHANGED <<waiting, cronWaiting>>
  BY <1>1, EnqueueType DEF TypeOK
<1>2. CASE RecordAuthRequired(c) /\ UNCHANGED <<waiting, cronWaiting, queued, queue>>
  BY <1>2, RecordAuthRequiredType DEF TypeOK
<1>3. CASE suspend /\ UNCHANGED <<runs, nextRun, queued, queue>>
  BY <1>3 DEF TypeOK
<1>. QED  BY <1>1, <1>2, <1>3

(* Every action preserves TypeOK.                                          *)
LEMMA TypeStep == TypeOK /\ [Next]_vars => TypeOK'
<1>. SUFFICES ASSUME TypeOK, [Next]_vars PROVE TypeOK'
  OBVIOUS
<1>. USE ConstantsAssumption
<1>s. {"queued", "pending", "running", "completed", "failed", "auth_required",
       "cancelled", "absent"} \subseteq Statuses
  BY DEF Statuses, Active, Terminal
<1>j. {"idle", "refresh", "dispatched", "loaded", "running", "retrying",
       "finished", "ended"} \subseteq JobPc
  BY DEF JobPc, ThreadPc
<1>1. ASSUME NEW c \in ConfigIds, Trigger(c) PROVE TypeOK'
  <2>1. CASE ExecuteRequest(c)
    BY <1>1, <2>1, ExecuteRequestType DEF Trigger
  <2>2. CASE EnqueueRequest(c, /\ waiting[c] < MaxWaiting
                               /\ waiting' = [waiting EXCEPT ![c] = @ + 1]
                               /\ UNCHANGED cronWaiting)
    <3>1. ASSUME waiting[c] < MaxWaiting, waiting' = [waiting EXCEPT ![c] = @ + 1]
          PROVE  waiting' \in [ConfigIds -> 0..MaxWaiting]
      BY <3>1 DEF TypeOK
    <3>. QED  BY <1>1, <2>2, <3>1, EnqueueRequestType DEF Trigger, TypeOK
  <2>. QED  BY <1>1, <2>1, <2>2 DEF Trigger
<1>2. ASSUME NEW c \in ConfigIds, CronFire(c) PROVE TypeOK'
  <2>1. CASE ExecuteRequest(c)
    BY <1>2, <2>1, ExecuteRequestType DEF CronFire
  <2>2. CASE EnqueueRequest(c, cronWaiting' = cronWaiting \cup {c} /\ UNCHANGED waiting)
    BY <1>2, <2>2, EnqueueRequestType DEF CronFire, TypeOK
  <2>. QED  BY <1>2, <2>1, <2>2 DEF CronFire
<1>3. ASSUME NEW c \in ConfigIds, ResumeRequest(c) PROVE TypeOK'
  <2>1. waiting' \in [ConfigIds -> 0..MaxWaiting] /\ cronWaiting' \subseteq ConfigIds
    BY <1>3 DEF ResumeRequest, TypeOK
  <2>2. CASE tokenValid' = TRUE /\ Enqueue(c)
    BY <1>3, <2>1, <2>2, EnqueueType DEF ResumeRequest, TypeOK
  <2>3. CASE RecordAuthRequired(c) /\ UNCHANGED <<tokenValid, queued, queue>>
    BY <1>3, <2>1, <2>3, RecordAuthRequiredType DEF ResumeRequest, TypeOK
  <2>4. CASE tokenValid' \in {tokenValid, TRUE} /\ UNCHANGED <<runs, nextRun, queued, queue>>
    BY <1>3, <2>1, <2>4 DEF ResumeRequest, TypeOK
  <2>. QED  BY <1>3, <2>2, <2>3, <2>4 DEF ResumeRequest
<1>4. CASE RunnerGet
  <2>. DEFINE item == Head(queue)
              c    == Head(queue).cfg
  <2>1. item \in Item /\ queue' \in Seq(Item)
    BY <1>4 DEF RunnerGet, TypeOK
  <2>2. c \in ConfigIds /\ item.run \in RunIds
    BY <2>1 DEF Item
  <2>3. ASSUME NEW pc \in JobPc, job' = [job EXCEPT ![c] = [pc |-> pc, run |-> item.run]]
        PROVE  job' \in [ConfigIds -> Job]
    BY <2>2, <2>3 DEF TypeOK, Job
  <2>4. CASE queued' = queued \ {c} /\ UNCHANGED <<runs, nextRun, running, current, job>>
    BY <1>4, <2>1, <2>4 DEF RunnerGet, TypeOK
  <2>5. CASE RefuseItem(item) /\ queued' = queued \ {c} /\ UNCHANGED <<running, current, job>>
    <3>1. /\ runs' \in [RunIds -> [cfg : ConfigIds, status : Statuses]]
          /\ nextRun' \in 1..(MaxRun + 1)
      BY <1>s, <2>2, <2>5, UpdatedType, RecordAuthRequiredType DEF RefuseItem, TypeOK
    <3>. QED  BY <1>4, <2>1, <2>5, <3>1 DEF RunnerGet, TypeOK
  <2>6. CASE /\ current' = item
             /\ running' = running \cup {c}
             /\ job' = [job EXCEPT ![c] = [pc |-> "refresh", run |-> item.run]]
             /\ UNCHANGED <<runs, nextRun, queued>>
    <3>1. job' \in [ConfigIds -> Job]  BY <1>j, <2>3, <2>6
    <3>. QED  BY <1>4, <2>1, <2>2, <2>6, <3>1 DEF RunnerGet, TypeOK
  <2>7. CASE /\ current' = item
             /\ running' = running \cup {c}
             /\ runs' = Updated(item.run, "pending")
             /\ job' = [job EXCEPT ![c] = [pc |-> "dispatched", run |-> item.run]]
             /\ UNCHANGED <<nextRun, queued>>
    <3>1. job' \in [ConfigIds -> Job]  BY <1>j, <2>3, <2>7
    <3>2. runs' \in [RunIds -> [cfg : ConfigIds, status : Statuses]]
      BY <1>s, <2>7, UpdatedType
    <3>. QED  BY <1>4, <2>1, <2>2, <2>7, <3>1, <3>2 DEF RunnerGet, TypeOK
  <2>. QED  BY <1>4, <2>4, <2>5, <2>6, <2>7 DEF RunnerGet
<1>5. CASE RunnerFails
  <2>1. queue' \in Seq(Item)  BY <1>5 DEF RunnerFails, TypeOK
  <2>. QED  BY <1>5, <2>1 DEF RunnerFails, TypeOK
<1>6. ASSUME NEW c \in ConfigIds, JobRefreshed(c) PROVE TypeOK'
  <2>. DEFINE r == job[c].run
  <2>1. CASE /\ r # NoRun
             /\ runs' = Updated(r, "pending")
             /\ job' = [job EXCEPT ![c] = [pc |-> "dispatched", run |-> r]]
             /\ UNCHANGED <<nextRun, running, current, queued>>
    <3>1. runs' \in [RunIds -> [cfg : ConfigIds, status : Statuses]]
      BY <1>s, <2>1, UpdatedType
    <3>2. job' \in [ConfigIds -> Job]
      BY <1>j, <2>1 DEF TypeOK, Job
    <3>. QED  BY <1>6, <2>1, <3>1, <3>2 DEF JobRefreshed, TypeOK
  <2>2. CASE EndJob(c) /\ UNCHANGED <<runs, nextRun>>
    BY <1>6, <2>2, EndJobType DEF JobRefreshed, TypeOK
  <2>3. CASE DispatchNew(c) /\ UNCHANGED <<running, current, queued>>
    BY <1>6, <2>3, DispatchNewType DEF JobRefreshed, TypeOK
  <2>. QED  BY <1>6, <2>1, <2>2, <2>3 DEF JobRefreshed
<1>7. ASSUME NEW c \in ConfigIds, JobRefreshRefused(c) PROVE TypeOK'
  <2>1. /\ runs' \in [RunIds -> [cfg : ConfigIds, status : Statuses]]
        /\ nextRun' \in 1..(MaxRun + 1)
    BY <1>7, <1>s, UpdatedType, RecordAuthRequiredType DEF JobRefreshRefused, TypeOK
  <2>. QED  BY <1>7, <2>1, EndJobType DEF JobRefreshRefused, TypeOK
<1>8. ASSUME NEW c \in ConfigIds, JobDone(c) PROVE TypeOK'
  BY <1>8, EndJobType DEF JobDone, TypeOK
<1>9. ASSUME NEW c \in ConfigIds, Thread(c) PROVE TypeOK'
  <2>1. PICK pc \in JobPc : ThreadMoves(c, pc)
    BY <1>9, <1>j DEF Thread, ThreadBegin, ThreadSetupFails, ThreadStart, ThreadRetry, ThreadFinish,
                      ThreadReturn, ThreadFail, ThreadAuthRequired
  <2>2. ThreadFrame
    BY <1>9 DEF Thread, ThreadBegin, ThreadSetupFails, ThreadStart, ThreadRetry, ThreadFinish,
                ThreadReturn, ThreadFail, ThreadAuthRequired
  <2>3. runs' \in [RunIds -> [cfg : ConfigIds, status : Statuses]]
    BY <1>9, <1>s, ThreadWritesType, UpdatedType
       DEF Thread, ThreadBegin, ThreadSetupFails, ThreadStart, ThreadRetry, ThreadFinish,
           ThreadReturn, ThreadFail, ThreadAuthRequired, TypeOK
  <2>4. stranded' \subseteq RunIds
    <3>1. CASE ThreadSetupFails(c)
      <4>1. job[c].run \in RunIds
        BY <3>1 DEF ThreadSetupFails, TypeOK, Job, HasRow
      <4>. QED  BY <3>1, <4>1 DEF ThreadSetupFails, TypeOK
    <3>2. CASE ~ThreadSetupFails(c)
      BY <1>9, <3>2 DEF Thread, ThreadBegin, ThreadStart, ThreadRetry, ThreadFinish,
                        ThreadReturn, ThreadFail, ThreadAuthRequired, TypeOK
    <3>. QED  BY <3>1, <3>2
  <2>. QED  BY <2>1, <2>2, <2>3, <2>4, ThreadStepType
<1>10. ASSUME NEW r \in RunIds, CancelRead(r) PROVE TypeOK'
  BY <1>10 DEF CancelRead, TypeOK
<1>11. CASE CancelWrite
  <2>1. runs' \in [RunIds -> [cfg : ConfigIds, status : Statuses]]
    BY <1>11, <1>s, UpdatedType DEF CancelWrite
  <2>. QED  BY <1>11, <2>1 DEF CancelWrite, TypeOK
<1>12. ASSUME NEW c \in ConfigIds, DeleteConfig(c) PROVE TypeOK'
  <2>1. runs' \in [RunIds -> [cfg : ConfigIds, status : Statuses]]
    BY <1>12, <1>s, RowStatus DEF DeleteConfig
  <2>. QED  BY <1>12, <2>1 DEF DeleteConfig, TypeOK, memory
<1>13. ASSUME NEW c \in ConfigIds, CreateConfig(c) PROVE TypeOK'
  BY <1>13 DEF CreateConfig, TypeOK, memory
<1>14. CASE TokenExpire
  BY <1>14 DEF TokenExpire, TypeOK, memory
<1>15. CASE TokenRenew
  BY <1>15 DEF TokenRenew, TypeOK, memory
<1>16. CASE Restart
  <2>1. runs' \in [RunIds -> [cfg : ConfigIds, status : Statuses]]
    <3>1. CASE UNCHANGED runs  BY <3>1 DEF TypeOK
    <3>2. CASE runs' = [r \in RunIds |->
                          [cfg |-> runs[r].cfg,
                           status |-> IF IsActive(r) THEN "failed" ELSE runs[r].status]]
      BY <3>2, <1>s, RowStatus
    <3>. QED  BY <1>16, <3>1, <3>2 DEF Restart
  <2>2. Idle \in Job  BY <1>j DEF Idle, Job
  <2>. QED  BY <1>16, <2>1, <2>2 DEF Restart, TypeOK
<1>17. CASE UNCHANGED vars
  BY <1>17 DEF TypeOK, vars, memory
<1>. QED
  BY <1>1, <1>2, <1>3, <1>4, <1>5, <1>6, <1>7, <1>8, <1>9, <1>10, <1>11, <1>12,
     <1>13, <1>14, <1>15, <1>16, <1>17 DEF Next

(* The variables of the scheduler always have their types.                 *)
THEOREM TypeCorrect == Spec => []TypeOK
<1>1. Init => TypeOK
  <2>1. Idle \in Job  BY DEF Idle, Job, JobPc
  <2>2. "absent" \in Statuses  BY DEF Statuses
  <2>3. 1 \in ConfigIds /\ 1 \in 1..(MaxRun + 1) /\ 0 \in 0..MaxWaiting /\ 0 \in 0..MaxRestarts
    BY ConstantsAssumption DEF ConfigIds
  <2>. QED  BY <2>1, <2>2, <2>3 DEF Init, TypeOK
<1>. QED  BY <1>1, TypeStep, PTL DEF Spec

-----------------------------------------------------------------------------
(* The queue as a set of items.                                            *)

QueueItems == {queue[i] : i \in 1..Len(queue)}

LEMMA QueueItemsAppend ==
  ASSUME queue \in Seq(Item), NEW e \in Item, queue' = Append(queue, e)
  PROVE  QueueItems' = QueueItems \cup {e}
<1>1. /\ Len(queue') = Len(queue) + 1
      /\ \A i \in 1..Len(queue) : queue'[i] = queue[i]
      /\ queue'[Len(queue) + 1] = e
      /\ Len(queue) \in Nat
  OBVIOUS
<1>. QED  BY <1>1 DEF QueueItems

LEMMA QueueItemsTail ==
  ASSUME queue \in Seq(Item), queue # <<>>, queue' = Tail(queue)
  PROVE  /\ Head(queue) \in Item
         /\ Head(queue) \in QueueItems
         /\ QueueItems' \subseteq QueueItems
         /\ QueueItems \subseteq QueueItems' \cup {Head(queue)}
<1>1. /\ Len(queue) \in Nat
      /\ Len(queue) >= 1
      /\ Head(queue) = queue[1]
      /\ Head(queue) \in Item
      /\ Len(queue') = Len(queue) - 1
      /\ \A i \in 1..Len(queue') : queue'[i] = queue[i + 1]
  OBVIOUS
<1>2. Head(queue) \in QueueItems  BY <1>1 DEF QueueItems
<1>3. QueueItems' \subseteq QueueItems  BY <1>1 DEF QueueItems
<1>4. ASSUME NEW x \in QueueItems, x # Head(queue) PROVE x \in QueueItems'
  <2>1. PICK i \in 1..Len(queue) : x = queue[i]  BY DEF QueueItems
  <2>2. i - 1 \in 1..Len(queue') /\ queue'[i - 1] = x  BY <1>1, <1>4, <2>1
  <2>. QED  BY <2>2 DEF QueueItems
<1>. QED  BY <1>1, <1>2, <1>3, <1>4

LEMMA QueueItemsType == TypeOK => QueueItems \subseteq Item
BY DEF TypeOK, QueueItems

-----------------------------------------------------------------------------
(* The flags, the runner and the jobs.  With force_queue the only job is   *)
(* that of the runner's item; a flag is backed by what will clear it.      *)

RunningIsJob == \A c \in ConfigIds : c \in running <=> job[c].pc # "idle"

RunnerOwnsJob ==
  ForceQueue => \A c \in ConfigIds :
                  job[c].pc # "idle" => current = [cfg |-> c, run |-> job[c].run]

QueuedIsBacked ==
  \A c \in ConfigIds :
    c \in queued => current.cfg = c \/ \E x \in QueueItems : x.cfg = c

FlagInv == RunningIsJob /\ RunnerOwnsJob /\ QueuedIsBacked

(* With force_queue nothing runs while the runner awaits the next item.    *)
LEMMA IdleRunner ==
  ASSUME FlagInv, ForceQueue, current = NoItem, NEW c \in ConfigIds
  PROVE  job[c].pc = "idle"
<1>1. current.cfg = 0 /\ c # 0
  BY ConstantsAssumption DEF NoItem, ConfigIds
<1>. QED  BY <1>1 DEF FlagInv, RunnerOwnsJob

LEMMA EndJobFlags ==
  ASSUME TypeOK, FlagInv, NEW c \in ConfigIds, EndJob(c), UNCHANGED queue,
         job[c].pc # "idle"
  PROVE  FlagInv'
<1>1. RunningIsJob'  BY DEF FlagInv, RunningIsJob, EndJob, Idle, TypeOK
<1>2. RunnerOwnsJob'  BY DEF FlagInv, RunnerOwnsJob, EndJob, Idle, TypeOK
<1>3. QueuedIsBacked'  BY DEF FlagInv, QueuedIsBacked, QueueItems, EndJob, TypeOK
<1>. QED  BY <1>1, <1>2, <1>3 DEF FlagInv

LEMMA EnqueueFlags ==
  ASSUME TypeOK, FlagInv, NEW c \in ConfigIds, Enqueue(c),
         UNCHANGED <<running, current, job>>
  PROVE  FlagInv'
<1>1. PICK r \in RunIds : /\ queued' = queued \cup {c}
                          /\ queue' = Append(queue, [cfg |-> c, run |-> r])
  BY DEF Enqueue
<1>2. QueueItems' = QueueItems \cup {[cfg |-> c, run |-> r]}
  BY <1>1, QueueItemsAppend DEF TypeOK, Item
<1>3. QueuedIsBacked'  BY <1>1, <1>2 DEF FlagInv, QueuedIsBacked
<1>. QED  BY <1>3 DEF FlagInv, RunningIsJob, RunnerOwnsJob

LEMMA SameFlags ==
  ASSUME FlagInv, UNCHANGED <<running, queued, queue, current, job>>
  PROVE  FlagInv'
BY DEF FlagInv, RunningIsJob, RunnerOwnsJob, QueuedIsBacked, QueueItems

(* A job that only moves on keeps the flags as they are.                   *)
LEMMA MoveFlags ==
  ASSUME TypeOK, FlagInv, NEW c \in ConfigIds, NEW pc \in JobPc \ {"idle"},
         job[c].pc # "idle",
         job' = [job EXCEPT ![c] = [pc |-> pc, run |-> job[c].run]],
         UNCHANGED <<running, queued, queue, current>>
  PROVE  FlagInv'
<1>1. RunningIsJob'  BY DEF FlagInv, RunningIsJob, TypeOK
<1>2. RunnerOwnsJob'  BY DEF FlagInv, RunnerOwnsJob, TypeOK
<1>3. QueuedIsBacked'  BY DEF FlagInv, QueuedIsBacked, QueueItems
<1>. QED  BY <1>1, <1>2, <1>3 DEF FlagInv

LEMMA ExecuteRequestFlags ==
  ASSUME TypeOK, FlagInv, NEW c \in ConfigIds, ExecuteRequest(c), UNCHANGED current
  PROVE  FlagInv'
<1>1. RunnerOwnsJob'  BY DEF ExecuteRequest, RunnerOwnsJob
<1>2. QueuedIsBacked'
  BY DEF ExecuteRequest, FlagInv, QueuedIsBacked, QueueItems
<1>3. RunningIsJob'
  <2>1. ASSUME NEW j, j.pc # "idle", job' = [job EXCEPT ![c] = j], running' = running \cup {c}
        PROVE  RunningIsJob'
    BY <2>1 DEF FlagInv, RunningIsJob, TypeOK
  <2>2. CASE DispatchNew(c) /\ running' = running \cup {c}
    BY <2>1, <2>2 DEF DispatchNew
  <2>3. CASE UNCHANGED <<running, job>>
    BY <2>3 DEF FlagInv, RunningIsJob
  <2>. QED  BY <2>1, <2>2, <2>3 DEF ExecuteRequest
<1>. QED  BY <1>1, <1>2, <1>3 DEF FlagInv

LEMMA EnqueueRequestFlags ==
  ASSUME TypeOK, FlagInv, NEW c \in ConfigIds, NEW suspend,
         EnqueueRequest(c, suspend), UNCHANGED current
  PROVE  FlagInv'
BY EnqueueFlags, SameFlags DEF EnqueueRequest

LEMMA FlagStep == TypeOK /\ FlagInv /\ [Next]_vars => FlagInv'
<1>. SUFFICES ASSUME TypeOK, FlagInv, [Next]_vars PROVE FlagInv'
  OBVIOUS
<1>1. ASSUME NEW c \in ConfigIds, Trigger(c) PROVE FlagInv'
  BY <1>1, ExecuteRequestFlags, EnqueueRequestFlags DEF Trigger
<1>2. ASSUME NEW c \in ConfigIds, CronFire(c) PROVE FlagInv'
  BY <1>2, ExecuteRequestFlags, EnqueueRequestFlags DEF CronFire
<1>3. ASSUME NEW c \in ConfigIds, ResumeRequest(c) PROVE FlagInv'
  BY <1>3, EnqueueFlags, SameFlags DEF ResumeRequest
<1>4. CASE RunnerGet
  <2>. DEFINE item == Head(queue)
              c    == Head(queue).cfg
  <2>1. /\ item \in Item
        /\ QueueItems \subseteq QueueItems' \cup {item}
    BY <1>4, QueueItemsTail DEF RunnerGet, TypeOK
  <2>2. c \in ConfigIds  BY <2>1 DEF Item
  <2>3. \A d \in ConfigIds : job[d].pc = "idle"
    BY <1>4, IdleRunner DEF RunnerGet
  <2>4. CASE queued' = queued \ {c} /\ UNCHANGED <<running, current, job>>
    <3>1. QueuedIsBacked'
      BY <1>4, <2>1, <2>4 DEF RunnerGet, FlagInv, QueuedIsBacked, NoItem
    <3>. QED  BY <2>4, <3>1 DEF FlagInv, RunningIsJob, RunnerOwnsJob
  <2>5. ASSUME NEW pc \in JobPc \ {"idle"},
               current' = item, running' = running \cup {c},
               job' = [job EXCEPT ![c] = [pc |-> pc, run |-> item.run]],
               UNCHANGED queued
        PROVE  FlagInv'
    <3>1. RunningIsJob'
      BY <2>2, <2>3, <2>5 DEF FlagInv, RunningIsJob, TypeOK
    <3>2. RunnerOwnsJob'
      BY <2>1, <2>2, <2>3, <2>5 DEF RunnerOwnsJob, TypeOK, Item
    <3>3. QueuedIsBacked'
      BY <1>4, <2>1, <2>5 DEF RunnerGet, FlagInv, QueuedIsBacked, NoItem, ConfigIds
    <3>. QED  BY <3>1, <3>2, <3>3 DEF FlagInv
  <2>6. "refresh" \in JobPc \ {"idle"} /\ "dispatched" \in JobPc \ {"idle"}
    BY DEF JobPc, ThreadPc
  <2>. QED  BY <1>4, <2>4, <2>5, <2>6 DEF RunnerGet
<1>5. CASE RunnerFails
  <2>1. QueueItems \subseteq QueueItems' \cup {Head(queue)}
    BY <1>5, QueueItemsTail DEF RunnerFails, TypeOK
  <2>2. QueuedIsBacked'
    BY <1>5, <2>1 DEF RunnerFails, FlagInv, QueuedIsBacked
  <2>. QED  BY <1>5, <2>2 DEF RunnerFails, FlagInv, RunningIsJob, RunnerOwnsJob
<1>6. ASSUME NEW c \in ConfigIds, JobRefreshed(c) PROVE FlagInv'
  <2>1. job[c].pc # "idle" /\ UNCHANGED queue  BY <1>6 DEF JobRefreshed
  <2>2. CASE EndJob(c)  BY <2>1, <2>2, EndJobFlags
  <2>3. CASE /\ job' = [job EXCEPT ![c] = [pc |-> "dispatched", run |-> job[c].run]]
             /\ UNCHANGED <<running, current, queued>>
    <3>1. "dispatched" \in JobPc \ {"idle"}  BY DEF JobPc, ThreadPc
    <3>. QED  BY <2>1, <2>3, <3>1, MoveFlags
  <2>4. CASE job[c].run = NoRun /\ DispatchNew(c) /\ UNCHANGED <<running, current, queued>>
    <3>1. ~ForceQueue
      BY <2>1, <2>4, ConstantsAssumption
         DEF FlagInv, RunnerOwnsJob, TypeOK, Item, NoItem, NoRun, RunIds, ConfigIds
    <3>2. RunningIsJob'  BY <2>1, <2>4 DEF DispatchNew, FlagInv, RunningIsJob, TypeOK
    <3>3. QueuedIsBacked'  BY <2>1, <2>4 DEF FlagInv, QueuedIsBacked, QueueItems
    <3>. QED  BY <3>1, <3>2, <3>3 DEF FlagInv, RunnerOwnsJob
  <2>. QED  BY <1>6, <2>2, <2>3, <2>4 DEF JobRefreshed
<1>7. ASSUME NEW c \in ConfigIds, JobRefreshRefused(c) PROVE FlagInv'
  BY <1>7, EndJobFlags DEF JobRefreshRefused
<1>8. ASSUME NEW c \in ConfigIds, JobDone(c) PROVE FlagInv'
  BY <1>8, EndJobFlags DEF JobDone
<1>9. ASSUME NEW c \in ConfigIds, Thread(c) PROVE FlagInv'
  <2>1. {"loaded", "running", "retrying", "finished", "ended"} \subseteq JobPc \ {"idle"}
    BY DEF JobPc, ThreadPc
  <2>2. /\ job[c].pc # "idle"
        /\ \E pc \in JobPc \ {"idle"} : ThreadMoves(c, pc)
        /\ ThreadFrame
    BY <1>9, <2>1 DEF Thread, ThreadBegin, ThreadSetupFails, ThreadStart, ThreadRetry, ThreadFinish,
                      ThreadReturn, ThreadFail, ThreadAuthRequired
  <2>. QED  BY <2>2, MoveFlags DEF ThreadMoves, ThreadFrame
<1>10. ASSUME NEW r \in RunIds, CancelRead(r) PROVE FlagInv'
  BY <1>10, SameFlags DEF CancelRead
<1>11. CASE CancelWrite
  BY <1>11, SameFlags DEF CancelWrite
<1>12. ASSUME NEW c \in ConfigIds, DeleteConfig(c) \/ CreateConfig(c) PROVE FlagInv'
  BY <1>12, SameFlags DEF DeleteConfig, CreateConfig, memory
<1>13. CASE TokenExpire \/ TokenRenew
  BY <1>13, SameFlags DEF TokenExpire, TokenRenew, memory
<1>14. CASE Restart
  BY <1>14 DEF Restart, FlagInv, RunningIsJob, RunnerOwnsJob, QueuedIsBacked, Idle
<1>15. CASE UNCHANGED vars
  BY <1>15, SameFlags DEF vars, memory
<1>. QED
  BY <1>1, <1>2, <1>3, <1>4, <1>5, <1>6, <1>7, <1>8, <1>9, <1>10, <1>11, <1>12,
     <1>13, <1>14, <1>15 DEF Next

LEMMA FlagInvariant == Spec => []FlagInv
<1>1. Init => FlagInv
  BY DEF Init, FlagInv, RunningIsJob, RunnerOwnsJob, QueuedIsBacked, Idle
<1>. QED  BY <1>1, FlagStep, TypeCorrect, PTL DEF Spec

(* No flag is left behind: a config is refused only while an item or a job *)
(* exists whose end clears the flag, even when commits fail, configs are   *)
(* deleted and row ids are reused.                                         *)
THEOREM FlagsAreBacked == Spec => []FlagsBacked
<1>1. FlagInv => FlagsBacked
  BY DEF FlagInv, FlagsBacked, RunningIsJob, QueuedIsBacked, QueueItems
<1>. QED  BY <1>1, FlagInvariant, PTL

(* force_queue serialises every sync of the server.                        *)
THEOREM ExecutionIsSerial == Spec => []SerialExecution
<1>1. FlagInv => SerialExecution
  BY DEF FlagInv, SerialExecution, RunnerOwnsJob
<1>. QED  BY <1>1, FlagInvariant, PTL

-----------------------------------------------------------------------------
(* Every unfinished run has an owner.  This needs the facts that relate    *)
(* the rows to the ids the scheduler keeps: a row's config exists (foreign *)
(* key), ids at hand were given out before, and an id that still has a row *)
(* has that of the config it was queued for.                               *)

RowsHaveConfig == \A r \in RunIds : Exists(r) => runs[r].cfg \in configs
RowsAreOld     == \A r \in RunIds : Exists(r) => r < nextRun

ItemsMatchRows ==
  \A x \in QueueItems : /\ x.run < nextRun
                        /\ Exists(x.run) => runs[x.run].cfg = x.cfg

JobsMatchRows ==
  \A c \in ConfigIds :
    /\ job[c].pc \in ThreadPc \cup {"ended"} => job[c].run # NoRun
    /\ job[c].run # NoRun => /\ job[c].run < nextRun
                             /\ HasRow(job[c].run) => runs[job[c].run].cfg = c

QueuedIsOwned(r) ==
  runs[r].status = "queued" =>
    \/ [cfg |-> runs[r].cfg, run |-> r] \in QueueItems
    \/ /\ current = [cfg |-> runs[r].cfg, run |-> r]
       /\ job[runs[r].cfg] = [pc |-> "refresh", run |-> r]

StartedIsOwned(r) ==
  LET own == job[runs[r].cfg] IN
    /\ runs[r].status = "pending" /\ r \notin stranded =>
         own.run = r /\ own.pc \in {"dispatched", "loaded"}
    /\ runs[r].status = "running" => own.run = r /\ own.pc \in {"running", "retrying"}

(* An unfinished row that was not left behind.                             *)
InHand(r) ==
  \/ runs[r].status \in {"queued", "running"}
  \/ runs[r].status = "pending" /\ r \notin stranded

Owned == \A r \in RunIds : QueuedIsOwned(r) /\ StartedIsOwned(r)

OwnInv == RowsHaveConfig /\ RowsAreOld /\ ItemsMatchRows /\ JobsMatchRows /\ Owned

LEMMA OwnedIsProperty == Owned <=> ActiveRunIsOwned
BY DEF Owned, ActiveRunIsOwned, QueuedIsOwned, StartedIsOwned, QueueItems

(* A new row and nothing else.                                             *)
LEMMA InsertRows ==
  ASSUME TypeOK, RowsAreOld, ~ReuseIds,
         NEW n \in RunIds, NEW c \in ConfigIds, NEW s \in Statuses, Insert(n, c, s)
  PROVE  /\ ~Exists(n)
         /\ n = nextRun
         /\ nextRun' = nextRun + 1
         /\ runs'[n].cfg = c /\ runs'[n].status = s
         /\ \A r \in RunIds : r # n => runs'[r] = runs[r]
BY ConstantsAssumption DEF Insert, IsNewRun, RowsAreOld, TypeOK, RunIds

(* What an update of one row leaves in the table.                          *)
LEMMA UpdatedRows ==
  ASSUME TypeOK, NEW n \in RunIds, NEW s \in Statuses, runs' = Updated(n, s)
  PROVE  /\ \A r \in RunIds : runs'[r].cfg = runs[r].cfg
         /\ \A r \in RunIds : r # n => runs'[r].status = runs[r].status
         /\ runs'[n].status = IF Exists(n) THEN s ELSE "absent"
BY DEF TypeOK, Updated, Exists

(* Rows keep their config; only rows that existed exist.                   *)
KeepsRows ==
  \A r \in RunIds : runs'[r].cfg = runs[r].cfg /\ (Exists(r)' => Exists(r))

LEMMA KeepsRowFacts ==
  ASSUME TypeOK, TypeOK', RowsHaveConfig, RowsAreOld, KeepsRows,
         UNCHANGED <<configs, nextRun>>
  PROVE  RowsHaveConfig' /\ RowsAreOld'
BY DEF RowsHaveConfig, RowsAreOld, KeepsRows

LEMMA KeepsItemFacts ==
  ASSUME TypeOK, ItemsMatchRows, KeepsRows, UNCHANGED nextRun,
         QueueItems' \subseteq QueueItems
  PROVE  ItemsMatchRows'
<1>1. ASSUME NEW x \in QueueItems' PROVE x \in QueueItems /\ x.run \in RunIds
  BY <1>1, QueueItemsType DEF Item
<1>. QED  BY <1>1 DEF ItemsMatchRows, KeepsRows

LEMMA KeepsJobFacts ==
  ASSUME TypeOK, TypeOK', JobsMatchRows, KeepsRows, UNCHANGED nextRun,
         \A d \in ConfigIds :
           /\ job'[d].run \in {job[d].run, NoRun}
           /\ job'[d].pc \in ThreadPc \cup {"ended"} => job'[d].run # NoRun
  PROVE  JobsMatchRows'
BY DEF JobsMatchRows, KeepsRows, HasRow, TypeOK, Job

LEMMA InsertRowFacts ==
  ASSUME TypeOK, RowsHaveConfig, RowsAreOld, ~ReuseIds,
         NEW n \in RunIds, NEW c \in configs, NEW s \in Statuses, Insert(n, c, s),
         UNCHANGED configs
  PROVE  RowsHaveConfig' /\ RowsAreOld'
<1>1. c \in ConfigIds  BY DEF TypeOK
<1>2. /\ n = nextRun
      /\ nextRun' = nextRun + 1
      /\ runs'[n].cfg = c
      /\ \A r \in RunIds : r # n => runs'[r] = runs[r]
  BY <1>1, InsertRows
<1>3. nextRun \in Int /\ \A r \in RunIds : r \in Int
  BY DEF TypeOK, RunIds
<1>. QED  BY <1>2, <1>3 DEF RowsHaveConfig, RowsAreOld, Exists

LEMMA InsertItemFacts ==
  ASSUME TypeOK, ItemsMatchRows, RowsAreOld, ~ReuseIds,
         NEW n \in RunIds, NEW c \in ConfigIds, NEW s \in Statuses, Insert(n, c, s),
         QueueItems' \subseteq QueueItems \cup {[cfg |-> c, run |-> n]}
  PROVE  ItemsMatchRows'
<1>1. /\ n = nextRun
      /\ nextRun' = nextRun + 1
      /\ runs'[n].cfg = c
      /\ \A r \in RunIds : r # n => runs'[r] = runs[r]
  BY InsertRows
<1>2. ASSUME NEW x \in QueueItems
      PROVE  x.run < nextRun' /\ (Exists(x.run)' => runs'[x.run].cfg = x.cfg)
  <2>1. x.run \in RunIds /\ x.run \in Int /\ nextRun \in Int
    BY QueueItemsType DEF Item, RunIds, TypeOK
  <2>2. x.run < nextRun  BY DEF ItemsMatchRows
  <2>3. runs'[x.run] = runs[x.run]  BY <1>1, <2>1, <2>2
  <2>. QED  BY <1>1, <2>1, <2>2, <2>3 DEF ItemsMatchRows, Exists
<1>3. nextRun < nextRun'  BY <1>1 DEF TypeOK
<1>. QED  BY <1>1, <1>2, <1>3 DEF ItemsMatchRows

LEMMA InsertJobFacts ==
  ASSUME TypeOK, TypeOK', JobsMatchRows, RowsAreOld, ~ReuseIds,
         NEW n \in RunIds, NEW c \in ConfigIds, NEW s \in Statuses, Insert(n, c, s),
         \A d \in ConfigIds :
           /\ job'[d].run \in {job[d].run, NoRun} \/ (d = c /\ job'[d].run = n)
           /\ job'[d].pc \in ThreadPc \cup {"ended"} => job'[d].run # NoRun
  PROVE  JobsMatchRows'
<1>1. /\ n = nextRun
      /\ nextRun' = nextRun + 1
      /\ runs'[n].cfg = c
      /\ \A r \in RunIds : r # n => runs'[r] = runs[r]
  BY InsertRows
<1>2. ASSUME NEW d \in ConfigIds, NEW k, k = job'[d].run, k # NoRun
      PROVE  k < nextRun' /\ (runs'[k].status # "absent" => runs'[k].cfg = d)
  <2>1. CASE k = job[d].run
    <3>1. k \in RunIds /\ k \in Int /\ nextRun \in Int
      BY <1>2, <2>1 DEF TypeOK, Job, RunIds
    <3>2. k < nextRun  BY <1>2, <2>1 DEF JobsMatchRows
    <3>3. runs'[k] = runs[k]  BY <1>1, <3>1, <3>2
    <3>4. runs[k].status # "absent" => runs[k].cfg = d
      BY <1>2, <2>1 DEF JobsMatchRows, HasRow, Exists
    <3>. QED  BY <1>1, <3>1, <3>2, <3>3, <3>4
  <2>2. CASE d = c /\ k = n
    BY <1>1, <2>2 DEF TypeOK
  <2>. QED  BY <1>2, <2>1, <2>2
<1>. QED  BY <1>2 DEF JobsMatchRows, HasRow, Exists

(* A refused request leaves an AUTH_REQUIRED row and owns nothing.         *)
LEMMA RecordAuthRequiredOwn ==
  ASSUME TypeOK, TypeOK', OwnInv, ~ReuseIds,
         NEW c \in configs, RecordAuthRequired(c),
         UNCHANGED <<configs, queue, current, job, stranded>>
  PROVE  OwnInv'
<1>. USE DEF OwnInv
<1>1. c \in ConfigIds /\ "auth_required" \in Statuses
  BY DEF TypeOK, Statuses, Terminal
<1>2. PICK n \in RunIds : Insert(n, c, "auth_required")  BY DEF RecordAuthRequired
<1>3. RowsHaveConfig' /\ RowsAreOld'  BY <1>1, <1>2, InsertRowFacts
<1>4. ItemsMatchRows'
  BY <1>1, <1>2, InsertItemFacts DEF QueueItems
<1>5. JobsMatchRows'
  BY <1>1, <1>2, InsertJobFacts DEF JobsMatchRows
<1>6. Owned'
  <2>1. ASSUME NEW r \in RunIds, r # n PROVE QueuedIsOwned(r)' /\ StartedIsOwned(r)'
    <3>1. runs'[r] = runs[r]  BY <1>1, <1>2, <2>1, InsertRows
    <3>. QED  BY <3>1 DEF Owned, QueuedIsOwned, StartedIsOwned, QueueItems
  <2>2. QueuedIsOwned(n)' /\ StartedIsOwned(n)'
    <3>1. runs'[n].status = "auth_required"  BY <1>1, <1>2, InsertRows
    <3>. QED  BY <3>1 DEF QueuedIsOwned, StartedIsOwned
  <2>. QED  BY <2>1, <2>2 DEF Owned
<1>. QED  BY <1>3, <1>4, <1>5, <1>6

LEMMA EnqueueOwn ==
  ASSUME TypeOK, TypeOK', OwnInv, ~ReuseIds, NEW c \in configs, Enqueue(c),
         UNCHANGED <<configs, current, job, stranded>>
  PROVE  OwnInv'
<1>. USE DEF OwnInv
<1>1. c \in ConfigIds /\ "queued" \in Statuses
  BY DEF TypeOK, Statuses, Active
<1>2. PICK n \in RunIds : /\ Insert(n, c, "queued")
                          /\ queue' = Append(queue, [cfg |-> c, run |-> n])
  BY DEF Enqueue
<1>3. QueueItems' = QueueItems \cup {[cfg |-> c, run |-> n]}
  BY <1>1, <1>2, QueueItemsAppend DEF TypeOK, Item
<1>4. RowsHaveConfig' /\ RowsAreOld'  BY <1>1, <1>2, InsertRowFacts
<1>5. ItemsMatchRows'  BY <1>1, <1>2, <1>3, InsertItemFacts
<1>6. JobsMatchRows'  BY <1>1, <1>2, InsertJobFacts DEF JobsMatchRows
<1>7. Owned'
  <2>1. ASSUME NEW r \in RunIds, r # n PROVE QueuedIsOwned(r)' /\ StartedIsOwned(r)'
    <3>1. runs'[r] = runs[r]  BY <1>1, <1>2, <2>1, InsertRows
    <3>. QED  BY <1>3, <3>1 DEF Owned, QueuedIsOwned, StartedIsOwned
  <2>2. QueuedIsOwned(n)' /\ StartedIsOwned(n)'
    <3>1. runs'[n].status = "queued" /\ runs'[n].cfg = c  BY <1>1, <1>2, InsertRows
    <3>. QED  BY <1>3, <3>1 DEF QueuedIsOwned, StartedIsOwned
  <2>. QED  BY <2>1, <2>2 DEF Owned
<1>. QED  BY <1>4, <1>5, <1>6, <1>7

(* A job started without a queued run (force_queue is off).                *)
LEMMA DispatchNewOwn ==
  ASSUME TypeOK, TypeOK', OwnInv, ~ReuseIds, NEW c \in configs, DispatchNew(c),
         job[c].pc = "idle" \/ job[c] = [pc |-> "refresh", run |-> NoRun],
         UNCHANGED <<configs, queue, current, stranded>>
  PROVE  OwnInv'
<1>. USE DEF OwnInv
<1>1. c \in ConfigIds /\ "pending" \in Statuses
  BY DEF TypeOK, Statuses, Active
<1>2. PICK n \in RunIds : /\ Insert(n, c, "pending")
                          /\ job' = [job EXCEPT ![c] = [pc |-> "dispatched", run |-> n]]
  BY DEF DispatchNew
<1>3. RowsHaveConfig' /\ RowsAreOld'  BY <1>1, <1>2, InsertRowFacts
<1>4. ItemsMatchRows'  BY <1>1, <1>2, InsertItemFacts DEF QueueItems
<1>n. n # NoRun  BY DEF RunIds, NoRun
<1>5. JobsMatchRows'
  <2>1. ASSUME NEW d \in ConfigIds, d # c PROVE job'[d] = job[d]
    BY <1>2, <2>1 DEF TypeOK
  <2>2. job'[c].run = n  BY <1>1, <1>2 DEF TypeOK
  <2>. QED  BY <1>1, <1>2, <1>n, <2>1, <2>2, InsertJobFacts DEF JobsMatchRows
<1>6. Owned'
  <2>1. ASSUME NEW r \in RunIds, r # n PROVE QueuedIsOwned(r)' /\ StartedIsOwned(r)'
    <3>1. runs'[r] = runs[r]  BY <1>1, <1>2, <2>1, InsertRows
    <3>2. CASE runs[r].cfg # c
      <4>1. job'[runs[r].cfg] = job[runs[r].cfg]  BY <1>2, <3>2, RowStatus DEF TypeOK
      <4>. QED  BY <3>1, <4>1 DEF Owned, QueuedIsOwned, StartedIsOwned, QueueItems
    <3>3. CASE runs[r].cfg = c
      <4>1. job[c] # [pc |-> "refresh", run |-> r]
        BY DEF RunIds, NoRun
      <4>. QED  BY <3>1, <3>3, <4>1 DEF Owned, QueuedIsOwned, StartedIsOwned, QueueItems
    <3>. QED  BY <3>2, <3>3
  <2>2. QueuedIsOwned(n)' /\ StartedIsOwned(n)'
    <3>1. runs'[n].status = "pending" /\ runs'[n].cfg = c  BY <1>1, <1>2, InsertRows
    <3>2. job'[c].pc = "dispatched" /\ job'[c].run = n  BY <1>1, <1>2 DEF TypeOK
    <3>. QED  BY <3>1, <3>2 DEF QueuedIsOwned, StartedIsOwned
  <2>. QED  BY <2>1, <2>2 DEF Owned
<1>. QED  BY <1>3, <1>4, <1>5, <1>6

LEMMA UpdatedKeepsRows ==
  ASSUME TypeOK, NEW n \in RunIds, NEW s \in Statuses, runs' = Updated(n, s)
  PROVE  KeepsRows
BY UpdatedRows DEF KeepsRows, Exists

(* The end of a job whose run is not left unfinished by it.                *)
LEMMA EndJobOwn ==
  ASSUME TypeOK, TypeOK', OwnInv, NEW c \in ConfigIds, EndJob(c), KeepsRows,
         UNCHANGED <<configs, nextRun, queue, stranded>>,
         \A r \in RunIds : r # job[c].run => runs'[r] = runs[r],
         \A r \in RunIds : r = job[c].run /\ InHand(r)' =>
           /\ runs'[r].status = "queued"
           /\ runs'[r] = runs[r]
           /\ job[c].pc # "refresh"
  PROVE  OwnInv'
<1>. USE DEF OwnInv
<1>1. /\ job'[c] = Idle
      /\ \A d \in ConfigIds : d # c => job'[d] = job[d]
  BY DEF EndJob, TypeOK
<1>2. RowsHaveConfig' /\ RowsAreOld'  BY KeepsRowFacts
<1>3. ItemsMatchRows'  BY KeepsItemFacts DEF QueueItems
<1>4. JobsMatchRows'
  <2>1. \A d \in ConfigIds :
          /\ job'[d].run \in {job[d].run, NoRun}
          /\ job'[d].pc \in ThreadPc \cup {"ended"} => job'[d].run # NoRun
    BY <1>1 DEF Idle, JobsMatchRows, ThreadPc
  <2>. QED  BY <2>1, KeepsJobFacts
<1>5. ASSUME NEW r \in RunIds PROVE QueuedIsOwned(r)' /\ StartedIsOwned(r)'
  <2>1. CASE r = job[c].run
    <3>1. r # NoRun  BY DEF RunIds, NoRun
    <3>2. CASE ~InHand(r)'
      BY <3>2 DEF QueuedIsOwned, StartedIsOwned, InHand
    <3>3. CASE InHand(r)'
      <4>1. /\ runs'[r].status = "queued"
            /\ runs'[r] = runs[r]
            /\ job[c].pc # "refresh"
        BY <2>1, <3>1, <3>3
      <4>2. runs[r].cfg = c
        BY <2>1, <3>1, <4>1 DEF JobsMatchRows, HasRow, Exists
      <4>3. job[c] # [pc |-> "refresh", run |-> r]  BY <4>1
      <4>. QED  BY <4>1, <4>2, <4>3 DEF Owned, QueuedIsOwned, StartedIsOwned, QueueItems
    <3>. QED  BY <3>2, <3>3
  <2>2. CASE r # job[c].run
    <3>1. runs'[r] = runs[r] /\ runs[r].cfg \in ConfigIds  BY <2>2, RowStatus
    <3>2. CASE runs[r].cfg = c
      BY <1>1, <2>2, <3>1, <3>2 DEF Owned, QueuedIsOwned, StartedIsOwned, QueueItems
    <3>3. CASE runs[r].cfg # c
      <4>1. job'[runs[r].cfg] = job[runs[r].cfg]  BY <1>1, <3>1, <3>3
      <4>2. current = [cfg |-> runs[r].cfg, run |-> r] => current' = current
        BY <3>3 DEF EndJob
      <4>. QED  BY <3>1, <4>1, <4>2 DEF Owned, QueuedIsOwned, StartedIsOwned, QueueItems
    <3>. QED  BY <3>2, <3>3
  <2>. QED  BY <2>1, <2>2
<1>. QED  BY <1>2, <1>3, <1>4, <1>5 DEF Owned

(* A job that moves on, with its row (and no other) in step.               *)
LEMMA MoveOwn ==
  ASSUME TypeOK, TypeOK', OwnInv, NEW c \in ConfigIds, NEW pc \in JobPc,
         job[c].run # NoRun,
         job' = [job EXCEPT ![c] = [pc |-> pc, run |-> job[c].run]],
         KeepsRows, UNCHANGED <<configs, nextRun, queue, current>>,
         stranded \subseteq stranded',
         \A r \in RunIds : r # job[c].run => runs'[r] = runs[r],
         runs'[job[c].run].status = "queued" =>
           runs'[job[c].run] = runs[job[c].run] /\ job[c].pc # "refresh",
         runs'[job[c].run].status = "pending" =>
           pc \in {"dispatched", "loaded"} \/ job[c].run \in stranded',
         runs'[job[c].run].status = "running" => pc \in {"running", "retrying"}
  PROVE  OwnInv'
<1>. USE DEF OwnInv
<1>1. /\ job'[c].pc = pc
      /\ job'[c].run = job[c].run
      /\ \A d \in ConfigIds : d # c => job'[d] = job[d]
      /\ job[c].run \in RunIds
  BY DEF TypeOK, Job, JobsMatchRows
<1>2. RowsHaveConfig' /\ RowsAreOld'  BY KeepsRowFacts
<1>3. ItemsMatchRows'  BY KeepsItemFacts DEF QueueItems
<1>4. JobsMatchRows'
  <2>1. \A d \in ConfigIds :
          /\ job'[d].run \in {job[d].run, NoRun}
          /\ job'[d].pc \in ThreadPc \cup {"ended"} => job'[d].run # NoRun
    BY <1>1 DEF JobsMatchRows
  <2>. QED  BY <2>1, KeepsJobFacts
<1>5. ASSUME NEW r \in RunIds PROVE QueuedIsOwned(r)' /\ StartedIsOwned(r)'
  <2>1. CASE r = job[c].run
    <3>1. runs'[r].status # "absent" => runs'[r].cfg = c
      BY <1>1, <2>1 DEF KeepsRows, JobsMatchRows, HasRow, Exists
    <3>2. StartedIsOwned(r)'  BY <1>1, <2>1, <3>1 DEF StartedIsOwned
    <3>3. ASSUME runs'[r].status = "queued" PROVE QueuedIsOwned(r)'
      <4>1. runs'[r] = runs[r] /\ runs[r].cfg = c /\ job[c].pc # "refresh"
        BY <2>1, <3>1, <3>3
      <4>2. job[c] # [pc |-> "refresh", run |-> r]  BY <4>1
      <4>. QED  BY <3>3, <4>1, <4>2 DEF Owned, QueuedIsOwned, QueueItems
    <3>. QED  BY <3>2, <3>3 DEF QueuedIsOwned
  <2>2. CASE r # job[c].run
    <3>1. runs'[r] = runs[r] /\ runs[r].cfg \in ConfigIds  BY <2>2, RowStatus
    <3>2. CASE runs[r].cfg = c
      <4>1. job[c] # [pc |-> "refresh", run |-> r]  BY <2>2
      <4>. QED
        BY <1>1, <2>2, <3>1, <3>2, <4>1 DEF Owned, QueuedIsOwned, StartedIsOwned, QueueItems
    <3>3. CASE runs[r].cfg # c
      <4>1. job'[runs[r].cfg] = job[runs[r].cfg]  BY <1>1, <3>1, <3>3
      <4>. QED  BY <3>1, <4>1 DEF Owned, QueuedIsOwned, StartedIsOwned, QueueItems
    <3>. QED  BY <3>2, <3>3
  <2>. QED  BY <2>1, <2>2
<1>. QED  BY <1>2, <1>3, <1>4, <1>5 DEF Owned

(* Rows of other runs and jobs untouched, one row no longer unfinished     *)
LEMMA RetireOwn ==
  ASSUME TypeOK, TypeOK', OwnInv, KeepsRows,
         UNCHANGED <<configs, nextRun, current, job>>,
         QueueItems' \subseteq QueueItems,
         \A r \in RunIds : InHand(r)' =>
           /\ runs'[r] = runs[r]
           /\ InHand(r)
           /\ runs[r].status = "queued" /\ [cfg |-> runs[r].cfg, run |-> r] \in QueueItems =>
                [cfg |-> runs[r].cfg, run |-> r] \in QueueItems'
  PROVE  OwnInv'
<1>. USE DEF OwnInv
<1>1. RowsHaveConfig' /\ RowsAreOld'  BY KeepsRowFacts
<1>2. ItemsMatchRows'  BY KeepsItemFacts
<1>3. JobsMatchRows'  BY KeepsJobFacts DEF JobsMatchRows
<1>4. ASSUME NEW r \in RunIds PROVE QueuedIsOwned(r)' /\ StartedIsOwned(r)'
  <2>1. CASE InHand(r)'
    <3>1. runs'[r] = runs[r] /\ InHand(r) /\ QueuedIsOwned(r) /\ StartedIsOwned(r)
      BY <2>1 DEF Owned
    <3>2. QueuedIsOwned(r)'
      BY <2>1, <3>1 DEF QueuedIsOwned
    <3>3. StartedIsOwned(r)'
      BY <3>1 DEF StartedIsOwned, InHand
    <3>. QED  BY <3>2, <3>3
  <2>2. CASE ~InHand(r)'
    BY <2>2 DEF QueuedIsOwned, StartedIsOwned, InHand
  <2>. QED  BY <2>1, <2>2
<1>. QED  BY <1>1, <1>2, <1>3, <1>4 DEF Owned

LEMMA SameOwn ==
  ASSUME OwnInv, UNCHANGED <<configs, runs, nextRun, queue, current, job, stranded>>
  PROVE  OwnInv'
BY DEF OwnInv, RowsHaveConfig, RowsAreOld, ItemsMatchRows, JobsMatchRows, Owned,
       QueuedIsOwned, StartedIsOwned, QueueItems, Exists, HasRow

LEMMA ExecuteRequestOwn ==
  ASSUME TypeOK, TypeOK', FlagInv, OwnInv, ~ReuseIds,
         NEW c \in configs, ExecuteRequest(c), UNCHANGED <<configs, current, stranded>>
  PROVE  OwnInv'
<1>0. c \in ConfigIds /\ job[c].pc = "idle"
  BY DEF ExecuteRequest, FlagInv, RunningIsJob, TypeOK
<1>1. CASE DispatchNew(c)
  BY <1>0, <1>1, DispatchNewOwn DEF ExecuteRequest
<1>2. CASE RecordAuthRequired(c) /\ UNCHANGED job
  BY <1>2, RecordAuthRequiredOwn DEF ExecuteRequest
<1>3. CASE /\ job' = [job EXCEPT ![c] = [pc |-> "refresh", run |-> NoRun]]
           /\ UNCHANGED <<runs, nextRun>>
  <2>. USE DEF OwnInv
  <2>1. UNCHANGED queue  BY DEF ExecuteRequest
  <2>2. KeepsRows  BY <1>3 DEF KeepsRows, Exists
  <2>3. /\ job'[c] = [pc |-> "refresh", run |-> NoRun]
        /\ \A d \in ConfigIds : d # c => job'[d] = job[d]
    BY <1>0, <1>3 DEF TypeOK
  <2>4. RowsHaveConfig' /\ RowsAreOld'  BY <1>3, <2>2, KeepsRowFacts
  <2>5. ItemsMatchRows'  BY <1>3, <2>1, <2>2, KeepsItemFacts DEF QueueItems
  <2>6. JobsMatchRows'
    <3>1. \A d \in ConfigIds :
            /\ job'[d].run \in {job[d].run, NoRun}
            /\ job'[d].pc \in ThreadPc \cup {"ended"} => job'[d].run # NoRun
      BY <2>3 DEF JobsMatchRows, ThreadPc
    <3>. QED  BY <1>3, <2>2, <3>1, KeepsJobFacts
  <2>7. ASSUME NEW r \in RunIds PROVE QueuedIsOwned(r)' /\ StartedIsOwned(r)'
    <3>1. runs'[r] = runs[r] /\ runs[r].cfg \in ConfigIds  BY <1>3, RowStatus
    <3>2. CASE runs[r].cfg = c
      BY <1>0, <2>1, <3>1, <3>2 DEF Owned, QueuedIsOwned, StartedIsOwned, QueueItems
    <3>3. CASE runs[r].cfg # c
      <4>1. job'[runs[r].cfg] = job[runs[r].cfg]  BY <2>3, <3>1, <3>3
      <4>. QED  BY <2>1, <3>1, <4>1 DEF Owned, QueuedIsOwned, StartedIsOwned, QueueItems
    <3>. QED  BY <3>2, <3>3
  <2>. QED  BY <2>4, <2>5, <2>6, <2>7 DEF Owned
<1>. QED  BY <1>1, <1>2, <1>3 DEF ExecuteRequest

LEMMA EnqueueRequestOwn ==
  ASSUME TypeOK, TypeOK', OwnInv, ~ReuseIds,
         NEW c \in configs, NEW suspend, EnqueueRequest(c, suspend),
         UNCHANGED <<configs, current, stranded>>
  PROVE  OwnInv'
<1>1. CASE Enqueue(c)
  BY <1>1, EnqueueOwn DEF EnqueueRequest
<1>2. CASE RecordAuthRequired(c) /\ UNCHANGED <<queued, queue>>
  BY <1>2, RecordAuthRequiredOwn DEF EnqueueRequest
<1>3. CASE UNCHANGED <<runs, nextRun, queued, queue>>
  BY <1>3, SameOwn DEF EnqueueRequest
<1>. QED  BY <1>1, <1>2, <1>3 DEF EnqueueRequest

(* The runner's item is refused and its row is gone: a new row, one item   *)
(* less, which no unfinished row needs.                                    *)
LEMMA RefusedNewOwn ==
  ASSUME TypeOK, TypeOK', OwnInv, ~ReuseIds,
         NEW c \in configs, RecordAuthRequired(c),
         UNCHANGED <<configs, current, job, stranded>>,
         QueueItems' \subseteq QueueItems,
         \A r \in RunIds : runs[r].status = "queued" =>
           [cfg |-> runs[r].cfg, run |-> r] \in QueueItems'
  PROVE  OwnInv'
<1>. USE DEF OwnInv
<1>1. c \in ConfigIds /\ "auth_required" \in Statuses
  BY DEF TypeOK, Statuses, Terminal
<1>2. PICK n \in RunIds : Insert(n, c, "auth_required")  BY DEF RecordAuthRequired
<1>3. RowsHaveConfig' /\ RowsAreOld'  BY <1>1, <1>2, InsertRowFacts
<1>4. ItemsMatchRows'  BY <1>1, <1>2, InsertItemFacts
<1>5. JobsMatchRows'  BY <1>1, <1>2, InsertJobFacts DEF JobsMatchRows
<1>6. ASSUME NEW r \in RunIds PROVE QueuedIsOwned(r)' /\ StartedIsOwned(r)'
  <2>1. CASE r = n
    <3>1. runs'[n].status = "auth_required"  BY <1>1, <1>2, InsertRows
    <3>. QED  BY <2>1, <3>1 DEF QueuedIsOwned, StartedIsOwned
  <2>2. CASE r # n
    <3>1. runs'[r] = runs[r]  BY <1>1, <1>2, <2>2, InsertRows
    <3>. QED  BY <3>1 DEF Owned, QueuedIsOwned, StartedIsOwned
  <2>. QED  BY <2>1, <2>2
<1>. QED  BY <1>3, <1>4, <1>5, <1>6 DEF Owned

(* The runner takes an item: its row stays where the item is, or leaves    *)
(* the unfinished ones.                                                    *)
LEMMA RunnerGetOwn ==
  ASSUME TypeOK, TypeOK', FlagInv, OwnInv, ~ReuseIds, RunnerGet
  PROVE  OwnInv'
<1>. USE DEF OwnInv
<1>. DEFINE item == Head(queue)
            c    == Head(queue).cfg
            n    == Head(queue).run
<1>1. /\ item \in Item
      /\ item \in QueueItems
      /\ QueueItems' \subseteq QueueItems
      /\ QueueItems \subseteq QueueItems' \cup {item}
  BY QueueItemsTail DEF RunnerGet, TypeOK
<1>2. /\ c \in ConfigIds /\ n \in RunIds /\ n # NoRun
      /\ item = [cfg |-> c, run |-> n]
      /\ n < nextRun
      /\ Exists(n) => runs[n].cfg = c
  BY <1>1 DEF Item, RunIds, NoRun, ItemsMatchRows
<1>3. /\ UNCHANGED <<configs, stranded>>
      /\ current = NoItem
      /\ \A d \in ConfigIds : job[d].pc = "idle"
  BY IdleRunner DEF RunnerGet
<1>4. ASSUME NEW r \in RunIds, InHand(r)
      PROVE  /\ runs[r].status = "queued"
             /\ [cfg |-> runs[r].cfg, run |-> r] \in QueueItems
             /\ r # n => [cfg |-> runs[r].cfg, run |-> r] \in QueueItems'
  <2>1. runs[r].cfg \in ConfigIds  BY RowStatus
  <2>2. job[runs[r].cfg].pc = "idle"  BY <1>3, <2>1
  <2>o. QueuedIsOwned(r) /\ StartedIsOwned(r)  BY DEF Owned
  <2>s. runs[r].status = "queued"  BY <1>4, <2>2, <2>o DEF InHand, StartedIsOwned
  <2>j. job[runs[r].cfg] # [pc |-> "refresh", run |-> r]  BY <2>2
  <2>3. runs[r].status = "queued" /\ [cfg |-> runs[r].cfg, run |-> r] \in QueueItems
    BY <2>o, <2>s, <2>j DEF QueuedIsOwned
  <2>4. r # n => [cfg |-> runs[r].cfg, run |-> r] # item  BY <1>2
  <2>. QED  BY <1>1, <2>3, <2>4
<1>5. CASE Dropped(item) /\ UNCHANGED <<runs, nextRun, current, job>>
  <2>1. KeepsRows  BY <1>5 DEF KeepsRows, Exists
  <2>2. ~InHand(n)
    BY <1>2, <1>4, <1>5 DEF Dropped, RowsHaveConfig, Exists, InHand
  <2>3. \A r \in RunIds : InHand(r)' => r # n /\ runs'[r] = runs[r] /\ InHand(r)
    BY <1>3, <1>5, <2>2 DEF InHand
  <2>. QED  BY <1>3, <1>4, <1>1, <1>5, <2>1, <2>3, RetireOwn
<1>6. CASE ~Dropped(item) /\ RefuseItem(item) /\ UNCHANGED <<current, job>>
  <2>1. CASE Exists(n)
    <3>1. /\ runs' = Updated(n, "auth_required")
          /\ UNCHANGED nextRun
          /\ "auth_required" \in Statuses
      BY <1>6, <2>1 DEF RefuseItem, Statuses, Terminal
    <3>2. KeepsRows  BY <1>2, <3>1, UpdatedKeepsRows
    <3>3. \A r \in RunIds : InHand(r)' => r # n /\ runs'[r] = runs[r] /\ InHand(r)
      BY <1>2, <1>3, <3>1 DEF Updated, TypeOK, InHand, Exists
    <3>. QED  BY <1>1, <1>3, <1>4, <1>6, <3>1, <3>2, <3>3, RetireOwn
  <2>2. CASE ~Exists(n)
    <3>1. RecordAuthRequired(c) /\ c \in configs
      BY <1>6, <2>2 DEF RefuseItem, Dropped
    <3>2. \A r \in RunIds : runs[r].status = "queued" =>
            [cfg |-> runs[r].cfg, run |-> r] \in QueueItems'
      BY <1>4, <2>2 DEF Exists, InHand
    <3>. QED  BY <1>1, <1>3, <1>6, <3>1, <3>2, RefusedNewOwn
  <2>. QED  BY <2>1, <2>2
<1>7. ASSUME NEW pc \in JobPc,
             ~Dropped(item), current' = item, UNCHANGED nextRun, KeepsRows,
             job' = [job EXCEPT ![c] = [pc |-> pc, run |-> n]],
             \A r \in RunIds : r # n => runs'[r] = runs[r],
             runs'[n].status # "running",
             runs'[n].status = "queued" => pc = "refresh",
             runs'[n].status = "pending" => pc = "dispatched" \/ n \in stranded
      PROVE  OwnInv'
  <2>1. job'[c] = [pc |-> pc, run |-> n] /\ \A d \in ConfigIds : d # c => job'[d] = job[d]
    BY <1>2, <1>7 DEF TypeOK
  <2>2. RowsHaveConfig' /\ RowsAreOld'  BY <1>3, <1>7, KeepsRowFacts
  <2>3. ItemsMatchRows'  BY <1>1, <1>7, KeepsItemFacts
  <2>4. JobsMatchRows'
    <3>1. ASSUME NEW d \in ConfigIds, d # c
          PROVE  /\ job'[d].pc \in ThreadPc \cup {"ended"} => job'[d].run # NoRun
                 /\ job'[d].run # NoRun =>
                      /\ job'[d].run < nextRun'
                      /\ runs'[job'[d].run].status # "absent" => runs'[job'[d].run].cfg = d
      BY <1>7, <2>1, <3>1 DEF JobsMatchRows, KeepsRows, HasRow, Exists, TypeOK, Job
    <3>2. runs'[n].status # "absent" => runs'[n].cfg = c
      BY <1>2, <1>7 DEF KeepsRows, Exists
    <3>. QED  BY <1>2, <1>7, <2>1, <3>1, <3>2 DEF JobsMatchRows, HasRow, Exists
  <2>5. ASSUME NEW r \in RunIds PROVE QueuedIsOwned(r)' /\ StartedIsOwned(r)'
    <3>1. CASE r = n
      <4>1. runs'[n].status # "absent" => runs'[n].cfg = c
        BY <1>2, <1>7 DEF KeepsRows, Exists
      <4>2. runs'[r].status \in Active => runs'[r].cfg = c /\ job'[runs'[r].cfg] = [pc |-> pc, run |-> r]
        BY <2>1, <3>1, <4>1 DEF Active
      <4>3. runs'[r].status = "queued" =>
              /\ pc = "refresh" /\ current' = [cfg |-> runs'[r].cfg, run |-> r]
              /\ job'[runs'[r].cfg] = [pc |-> "refresh", run |-> r]
        BY <1>2, <1>7, <3>1, <4>2 DEF Active
      <4>4. runs'[r].status = "pending" =>
              r \in stranded' \/ job'[runs'[r].cfg] = [pc |-> "dispatched", run |-> r]
        BY <1>3, <1>7, <3>1, <4>2 DEF Active
      <4>5. runs'[r].status # "running"
        BY <1>7, <3>1 DEF Active
      <4>6. QueuedIsOwned(r)'
        BY <4>3 DEF QueuedIsOwned
      <4>7. StartedIsOwned(r)'
        BY <4>4, <4>5 DEF StartedIsOwned
      <4>. QED  BY <4>6, <4>7
    <3>2. CASE r # n
      <4>1. runs'[r] = runs[r]  BY <1>7, <3>2
      <4>. QED  BY <1>3, <1>4, <3>2, <4>1 DEF QueuedIsOwned, StartedIsOwned, InHand
    <3>. QED  BY <3>1, <3>2
  <2>. QED  BY <2>2, <2>3, <2>4, <2>5 DEF Owned
<1>8. CASE /\ ~Dropped(item)
           /\ current' = item
           /\ job' = [job EXCEPT ![c] = [pc |-> "refresh", run |-> n]]
           /\ UNCHANGED <<runs, nextRun>>
  <2>1. KeepsRows  BY <1>8 DEF KeepsRows, Exists
  <2>2. /\ runs[n].status # "running"
        /\ runs[n].status = "pending" => n \in stranded
    BY <1>2, <1>4 DEF InHand
  <2>3. "refresh" \in JobPc  BY DEF JobPc
  <2>. QED  BY <1>7, <1>8, <2>1, <2>2, <2>3
<1>9. CASE /\ ~Dropped(item) /\ tokenValid
           /\ current' = item
           /\ runs' = Updated(n, "pending")
           /\ job' = [job EXCEPT ![c] = [pc |-> "dispatched", run |-> n]]
           /\ UNCHANGED nextRun
  <2>1. "pending" \in Statuses /\ "dispatched" \in JobPc
    BY DEF Statuses, Active, JobPc, ThreadPc
  <2>2. KeepsRows  BY <1>2, <1>9, <2>1, UpdatedKeepsRows
  <2>3. runs'[n].status = "pending" /\ \A r \in RunIds : r # n => runs'[r] = runs[r]
    BY <1>2, <1>9 DEF Dropped, Updated, Exists, TypeOK
  <2>. QED  BY <1>7, <1>9, <2>1, <2>2, <2>3
<1>. QED  BY <1>5, <1>6, <1>8, <1>9 DEF RunnerGet

(* A thread's step writes its own row or none, and moves on with it.       *)
LEMMA ThreadOwn ==
  ASSUME TypeOK, TypeOK', OwnInv, ~DbErrors, NEW c \in ConfigIds, Thread(c)
  PROVE  OwnInv'
<1>. USE DEF OwnInv
<1>. DEFINE r == job[c].run
<1>1. /\ job[c].pc \in ThreadPc
      /\ UNCHANGED <<configs, nextRun, queue, current>>
      /\ stranded \subseteq stranded'
  BY DEF Thread, ThreadBegin, ThreadSetupFails, ThreadStart, ThreadRetry, ThreadFinish, ThreadReturn,
         ThreadFail, ThreadAuthRequired, ThreadFrame, ThreadPc
<1>2. /\ r \in RunIds /\ r # NoRun
      /\ job[c].pc # "refresh"
      /\ runs[r].status # "absent" => runs[r].cfg = c
  BY <1>1 DEF JobsMatchRows, TypeOK, Job, HasRow, Exists, ThreadPc
<1>3. /\ runs[r].status = "pending" => job[c].pc \in {"dispatched", "loaded"} \/ r \in stranded'
      /\ runs[r].status = "running" => job[c].pc \in {"running", "retrying"}
  BY <1>1, <1>2 DEF Owned, StartedIsOwned
<1>4. ASSUME NEW s \in Statuses, NEW pc \in JobPc, runs' = Updated(r, s), ThreadMoves(c, pc),
             s # "queued",
             s = "pending" => pc \in {"dispatched", "loaded"},
             s = "running" => pc \in {"running", "retrying"}
      PROVE  OwnInv'
  <2>1. KeepsRows  BY <1>2, <1>4, UpdatedKeepsRows
  <2>2. /\ runs'[r].status \in {s, "absent"}
        /\ \A q \in RunIds : q # r => runs'[q] = runs[q]
    BY <1>2, <1>4 DEF Updated, Exists, TypeOK
  <2>. QED  BY <1>1, <1>2, <1>4, <2>1, <2>2, MoveOwn DEF ThreadMoves
<1>5. ASSUME NEW pc \in JobPc, UNCHANGED runs, ThreadMoves(c, pc),
             runs[r].status = "pending" => pc \in {"dispatched", "loaded"} \/ r \in stranded',
             runs[r].status = "running" => pc \in {"running", "retrying"}
      PROVE  OwnInv'
  <2>1. KeepsRows  BY <1>5 DEF KeepsRows, Exists
  <2>. QED  BY <1>1, <1>2, <1>5, <2>1, MoveOwn DEF ThreadMoves
<1>s. {"pending", "running", "completed", "failed", "auth_required"} \subseteq Statuses
  BY DEF Statuses, Active, Terminal
<1>j. {"loaded", "running", "retrying", "finished", "ended"} \subseteq JobPc
  BY DEF JobPc, ThreadPc
<1>6. CASE ThreadBegin(c)
  <2>1. CASE Exists(r) /\ c \in configs
    BY <1>3, <1>5, <1>6, <1>j, <2>1 DEF ThreadBegin, Active
  <2>2. CASE ~(Exists(r) /\ c \in configs)
    <3>1. runs[r].status = "absent"  BY <1>2, <2>2 DEF Exists, RowsHaveConfig
    <3>. QED  BY <1>5, <1>6, <1>j, <2>2, <3>1 DEF ThreadBegin
  <2>. QED  BY <2>1, <2>2
<1>13. CASE ThreadSetupFails(c)
  <2>1. r \in stranded' /\ ThreadMoves(c, "ended") /\ UNCHANGED runs /\ runs[r].status # "running"
    BY <1>3, <1>13 DEF ThreadSetupFails
  <2>. QED  BY <1>5, <1>j, <2>1
<1>7. CASE ThreadStart(c)
  BY <1>4, <1>7, <1>s, <1>j DEF ThreadStart, ThreadWrites
<1>8. CASE ThreadRetry(c)
  BY <1>3, <1>5, <1>8, <1>j DEF ThreadRetry, Active
<1>9. CASE ThreadFinish(c)
  BY <1>4, <1>9, <1>s, <1>j DEF ThreadFinish, ThreadWrites
<1>10. CASE ThreadReturn(c)
  BY <1>3, <1>4, <1>5, <1>10, <1>s, <1>j DEF ThreadReturn, Active
<1>11. CASE ThreadFail(c)
  BY <1>4, <1>11, <1>s, <1>j DEF ThreadFail, ThreadWrites
<1>12. CASE ThreadAuthRequired(c)
  BY <1>4, <1>12, <1>s, <1>j DEF ThreadAuthRequired, ThreadWrites
<1>. QED  BY <1>6, <1>7, <1>8, <1>9, <1>10, <1>11, <1>12, <1>13 DEF Thread

(* The end of a refused job whose row is gone: a new row records it.       *)
LEMMA EndJobRefusedOwn ==
  ASSUME TypeOK, TypeOK', OwnInv, ~ReuseIds, NEW c \in configs,
         EndJob(c), RecordAuthRequired(c), ~HasRow(job[c].run),
         UNCHANGED <<configs, queue, stranded>>
  PROVE  OwnInv'
<1>. USE DEF OwnInv
<1>1. c \in ConfigIds /\ "auth_required" \in Statuses
  BY DEF TypeOK, Statuses, Terminal
<1>2. PICK n \in RunIds : Insert(n, c, "auth_required")  BY DEF RecordAuthRequired
<1>3. RowsHaveConfig' /\ RowsAreOld'  BY <1>1, <1>2, InsertRowFacts
<1>4. ItemsMatchRows'
  BY <1>1, <1>2, InsertItemFacts DEF QueueItems
<1>5. /\ job'[c] = Idle
      /\ \A d \in ConfigIds : d # c => job'[d] = job[d]
  BY <1>1 DEF EndJob, TypeOK
<1>6. JobsMatchRows'
  <2>1. \A d \in ConfigIds :
          /\ job'[d].run \in {job[d].run, NoRun}
          /\ job'[d].pc \in ThreadPc \cup {"ended"} => job'[d].run # NoRun
    BY <1>5 DEF Idle, JobsMatchRows, ThreadPc
  <2>. QED  BY <1>1, <1>2, <2>1, InsertJobFacts
<1>7. ASSUME NEW r \in RunIds PROVE QueuedIsOwned(r)' /\ StartedIsOwned(r)'
  <2>1. CASE r = n
    <3>1. runs'[n].status = "auth_required"  BY <1>1, <1>2, InsertRows
    <3>. QED  BY <2>1, <3>1 DEF QueuedIsOwned, StartedIsOwned
  <2>2. CASE r # n /\ runs[r].cfg = c
    <3>1. runs'[r] = runs[r]  BY <1>1, <1>2, <2>2, InsertRows
    <3>2. runs[r].status # "absent" => job[c].run # r
      BY DEF HasRow, Exists, RunIds, NoRun
    <3>3. job[c] # [pc |-> "refresh", run |-> r] \/ runs[r].status = "absent"
      BY <3>2
    <3>. QED
      BY <2>2, <3>1, <3>2, <3>3 DEF Owned, QueuedIsOwned, StartedIsOwned, QueueItems
  <2>3. CASE r # n /\ runs[r].cfg # c
    <3>1. runs'[r] = runs[r]  BY <1>1, <1>2, <2>3, InsertRows
    <3>2. job'[runs[r].cfg] = job[runs[r].cfg]  BY <1>5, <2>3, RowStatus
    <3>3. current = [cfg |-> runs[r].cfg, run |-> r] => current' = current
      BY <2>3 DEF EndJob
    <3>. QED  BY <3>1, <3>2, <3>3 DEF Owned, QueuedIsOwned, StartedIsOwned, QueueItems
  <2>. QED  BY <2>1, <2>2, <2>3
<1>. QED  BY <1>3, <1>4, <1>6, <1>7 DEF Owned

LEMMA JobRefreshedOwn ==
  ASSUME TypeOK, TypeOK', OwnInv, ~ReuseIds, NEW c \in ConfigIds, JobRefreshed(c)
  PROVE  OwnInv'
<1>. DEFINE r == job[c].run
<1>1. job[c].pc = "refresh" /\ UNCHANGED <<configs, queue, stranded>> /\ r \in RunIds \cup {NoRun}
  BY DEF JobRefreshed, TypeOK, Job
<1>2. CASE /\ r # NoRun /\ runs[r].status = "queued"
           /\ runs' = Updated(r, "pending")
           /\ job' = [job EXCEPT ![c] = [pc |-> "dispatched", run |-> r]]
           /\ UNCHANGED <<nextRun, current>>
  <2>1. r \in RunIds /\ "pending" \in Statuses /\ "dispatched" \in JobPc
    BY <1>1, <1>2 DEF Statuses, Active, JobPc, ThreadPc
  <2>2. KeepsRows  BY <1>2, <2>1, UpdatedKeepsRows
  <2>3. runs'[r].status = "pending" /\ \A q \in RunIds : q # r => runs'[q] = runs[q]
    BY <1>2, <2>1 DEF Updated, Exists, TypeOK
  <2>. QED  BY <1>1, <1>2, <2>1, <2>2, <2>3, MoveOwn
<1>3. CASE /\ r # NoRun => c \notin configs \/ runs[r].status # "queued"
           /\ EndJob(c)
           /\ UNCHANGED <<runs, nextRun>>
  <2>1. KeepsRows  BY <1>3 DEF KeepsRows, Exists
  <2>2. \A k \in RunIds : k = r => ~InHand(k)'
    <3>1. ASSUME r \in RunIds, InHand(r) PROVE FALSE
      <4>1. r \in RunIds /\ Exists(r)  BY <1>1, <3>1 DEF Exists, InHand
      <4>2. runs[r].cfg = c /\ c \in configs /\ r # NoRun
        BY <3>1, <4>1 DEF OwnInv, JobsMatchRows, HasRow, RowsHaveConfig, RunIds, NoRun
      <4>3. StartedIsOwned(r)  BY <4>1 DEF OwnInv, Owned
      <4>. QED  BY <1>1, <1>3, <3>1, <4>2, <4>3 DEF StartedIsOwned, InHand
    <3>. QED  BY <1>1, <1>3, <3>1 DEF InHand
  <2>. QED  BY <1>1, <1>3, <2>1, <2>2, EndJobOwn
<1>4. CASE r = NoRun /\ c \in configs /\ DispatchNew(c) /\ UNCHANGED current
  <2>1. job[c] = [pc |-> "refresh", run |-> NoRun]
    BY <1>1, <1>4 DEF TypeOK, Job
  <2>. QED  BY <1>1, <1>4, <2>1, DispatchNewOwn
<1>. QED  BY <1>2, <1>3, <1>4 DEF JobRefreshed

LEMMA JobRefreshRefusedOwn ==
  ASSUME TypeOK, TypeOK', OwnInv, ~ReuseIds, NEW c \in ConfigIds, JobRefreshRefused(c)
  PROVE  OwnInv'
<1>. DEFINE r == job[c].run
<1>1. EndJob(c) /\ UNCHANGED <<configs, queue, stranded>> /\ r \in RunIds \cup {NoRun}
  BY DEF JobRefreshRefused, TypeOK, Job
<1>2. CASE HasRow(r) /\ runs' = Updated(r, "auth_required") /\ UNCHANGED nextRun
  <2>1. r \in RunIds /\ "auth_required" \in Statuses
    BY <1>1, <1>2 DEF HasRow, Statuses, Terminal
  <2>2. KeepsRows  BY <1>2, <2>1, UpdatedKeepsRows
  <2>3. /\ runs'[r].status = "auth_required"
        /\ \A q \in RunIds : q # r => runs'[q] = runs[q]
    BY <1>2, <2>1 DEF Updated, HasRow, TypeOK
  <2>. QED  BY <1>1, <1>2, <2>2, <2>3, EndJobOwn DEF InHand
<1>3. CASE ~HasRow(r) /\ c \in configs /\ RecordAuthRequired(c)
  BY <1>1, <1>3, EndJobRefusedOwn
<1>4. CASE ~HasRow(r) /\ UNCHANGED <<runs, nextRun>>
  <2>1. KeepsRows  BY <1>4 DEF KeepsRows, Exists
  <2>2. \A q \in RunIds : q = r => ~InHand(q)'
    BY <1>4 DEF HasRow, Exists, InHand, RunIds, NoRun
  <2>3. \A q \in RunIds : runs'[q] = runs[q]  BY <1>4
  <2>4. /\ \A q \in RunIds : q # job[c].run => runs'[q] = runs[q]
        /\ \A q \in RunIds : q = job[c].run /\ InHand(q)' =>
              /\ runs'[q].status = "queued"
              /\ runs'[q] = runs[q]
              /\ job[c].pc # "refresh"
    BY <2>2, <2>3
  <2>5. EndJob(c) /\ UNCHANGED <<configs, nextRun, queue, stranded>>
    BY <1>1, <1>4
  <2>. QED  BY <2>1, <2>4, <2>5, EndJobOwn
<1>. QED  BY <1>2, <1>3, <1>4 DEF JobRefreshRefused

LEMMA OwnStep ==
  ASSUME TypeOK, TypeOK', FlagInv, OwnInv, ~ReuseIds, ~DbErrors, [Next]_vars
  PROVE  OwnInv'
<1>1. ASSUME NEW c \in ConfigIds, Trigger(c) PROVE OwnInv'
  BY <1>1, ExecuteRequestOwn, EnqueueRequestOwn DEF Trigger
<1>2. ASSUME NEW c \in ConfigIds, CronFire(c) PROVE OwnInv'
  BY <1>2, ExecuteRequestOwn, EnqueueRequestOwn DEF CronFire
<1>3. ASSUME NEW c \in ConfigIds, ResumeRequest(c) PROVE OwnInv'
  BY <1>3, EnqueueOwn, RecordAuthRequiredOwn, SameOwn DEF ResumeRequest
<1>4. CASE RunnerGet  BY <1>4, RunnerGetOwn
<1>5. CASE RunnerFails  BY <1>5 DEF RunnerFails
<1>6. ASSUME NEW c \in ConfigIds, JobRefreshed(c) PROVE OwnInv'
  BY <1>6, JobRefreshedOwn
<1>7. ASSUME NEW c \in ConfigIds, JobRefreshRefused(c) PROVE OwnInv'
  BY <1>7, JobRefreshRefusedOwn
<1>8. ASSUME NEW c \in ConfigIds, JobDone(c) PROVE OwnInv'
  <2>1. KeepsRows  BY <1>8 DEF JobDone, KeepsRows, Exists
  <2>2. /\ job[c].pc = "ended" /\ job[c].run \in RunIds
        /\ UNCHANGED <<configs, runs, nextRun, queue, stranded>> /\ EndJob(c)
    BY <1>8 DEF JobDone, TypeOK, Job, OwnInv, JobsMatchRows
  <2>3. \A k \in RunIds : k = job[c].run /\ InHand(k)' => runs[k].status = "queued"
    <3>1. StartedIsOwned(job[c].run)  BY <2>2 DEF OwnInv, Owned
    <3>2. runs[job[c].run].status # "absent" => runs[job[c].run].cfg = c
      BY <2>2 DEF OwnInv, JobsMatchRows, HasRow, Exists
    <3>. QED  BY <2>2, <3>1, <3>2 DEF StartedIsOwned, InHand
  <2>. QED  BY <2>1, <2>2, <2>3, EndJobOwn
<1>9. ASSUME NEW c \in ConfigIds, Thread(c) PROVE OwnInv'
  BY <1>9, ThreadOwn
<1>10. ASSUME NEW r \in RunIds, CancelRead(r) PROVE OwnInv'
  BY <1>10, SameOwn DEF CancelRead
<1>11. CASE CancelWrite
  <2>1. cancelling \in RunIds /\ "cancelled" \in Statuses
    BY <1>11 DEF CancelWrite, TypeOK, Statuses, Terminal
  <2>2. KeepsRows  BY <1>11, <2>1, UpdatedKeepsRows DEF CancelWrite
  <2>3. \A r \in RunIds : InHand(r)' => runs'[r] = runs[r] /\ InHand(r)
    BY <1>11, <2>1 DEF CancelWrite, Updated, Exists, InHand, TypeOK
  <2>. QED  BY <1>11, <2>2, <2>3, RetireOwn DEF CancelWrite, QueueItems
<1>12. ASSUME NEW c \in ConfigIds, DeleteConfig(c) PROVE OwnInv'
  <2>1. \A r \in RunIds : /\ runs'[r].cfg = runs[r].cfg
                          /\ runs'[r].status = IF runs[r].cfg = c THEN "absent" ELSE runs[r].status
    BY <1>12 DEF DeleteConfig
  <2>. USE DEF OwnInv
  <2>2. KeepsRows  BY <2>1 DEF KeepsRows, Exists
  <2>3. /\ UNCHANGED <<nextRun, queue, current, job>>
        /\ configs' = configs \ {c}
    BY <1>12 DEF DeleteConfig, memory
  <2>4. RowsHaveConfig' /\ RowsAreOld'
    BY <2>1, <2>3 DEF RowsHaveConfig, RowsAreOld, Exists
  <2>5. ItemsMatchRows'  BY <2>2, <2>3, KeepsItemFacts DEF QueueItems
  <2>6. JobsMatchRows'  BY <2>2, <2>3, KeepsJobFacts DEF JobsMatchRows
  <2>7. ASSUME NEW r \in RunIds PROVE QueuedIsOwned(r)' /\ StartedIsOwned(r)'
    <3>1. \/ runs'[r].status = "absent"
          \/ /\ runs'[r].status = runs[r].status /\ runs'[r].cfg = runs[r].cfg
             /\ r \in stranded => r \in stranded'
      BY <1>12, <2>1 DEF DeleteConfig
    <3>. QED  BY <2>3, <3>1 DEF Owned, QueuedIsOwned, StartedIsOwned, QueueItems
  <2>. QED  BY <2>4, <2>5, <2>6, <2>7 DEF Owned
<1>13. ASSUME NEW c \in ConfigIds, CreateConfig(c) PROVE OwnInv'
  BY <1>13 DEF CreateConfig
<1>14. CASE TokenExpire \/ TokenRenew
  BY <1>14, SameOwn DEF TokenExpire, TokenRenew, memory
<1>15. CASE Restart
  <2>1. \A r \in RunIds : /\ runs'[r].cfg = runs[r].cfg
                          /\ runs'[r].status \notin Active
                          /\ Exists(r)' => Exists(r)
    BY <1>15, RowStatus DEF Restart, IsActive, Active, Exists
  <2>2. QueueItems' = {} /\ UNCHANGED <<configs, nextRun>>
        /\ \A d \in ConfigIds : job'[d] = Idle
    BY <1>15 DEF Restart, QueueItems
  <2>. USE DEF OwnInv
  <2>3. RowsHaveConfig' /\ RowsAreOld'
    BY <2>1, <2>2 DEF RowsHaveConfig, RowsAreOld
  <2>4. ItemsMatchRows'  BY <2>2 DEF ItemsMatchRows
  <2>5. JobsMatchRows'  BY <2>2 DEF JobsMatchRows, Idle, ThreadPc
  <2>6. Owned'  BY <2>1 DEF Owned, QueuedIsOwned, StartedIsOwned, Active
  <2>. QED  BY <2>3, <2>4, <2>5, <2>6
<1>16. CASE UNCHANGED vars
  BY <1>16, SameOwn DEF vars, memory
<1>. QED
  BY <1>1, <1>2, <1>3, <1>4, <1>5, <1>6, <1>7, <1>8, <1>9, <1>10, <1>11, <1>12,
     <1>13, <1>14, <1>15, <1>16 DEF Next

LEMMA OwnInvariant ==
  ASSUME ~ReuseIds, ~DbErrors
  PROVE  Spec => []OwnInv
<1>1. Init => OwnInv
  BY DEF Init, OwnInv, RowsHaveConfig, RowsAreOld, ItemsMatchRows, JobsMatchRows, Owned,
         QueuedIsOwned, StartedIsOwned, QueueItems, Exists, Idle, ThreadPc
<1>2. TypeOK /\ TypeOK' /\ FlagInv /\ OwnInv /\ [Next]_vars => OwnInv'
  BY OwnStep
<1>. QED  BY <1>1, <1>2, TypeCorrect, FlagInvariant, PTL DEF Spec

(* On a database that does not give ids out again and whose commits do not *)
(* fail, every unfinished run is in the hands of the queue, the runner or  *)
(* its config's job.  The one run a config can be blocked by for ever is   *)
(* that of a thread whose service could not be set up (ThreadSetupFails),  *)
(* until it is cancelled or deleted or the server restarts.                *)
THEOREM UnfinishedIsOwned ==
  ASSUME ~ReuseIds, ~DbErrors
  PROVE  Spec => []ActiveRunIsOwned
<1>1. OwnInv => ActiveRunIsOwned  BY OwnedIsProperty DEF OwnInv
<1>. QED  BY <1>1, OwnInvariant, PTL

(* On such a database the job that writes a run synchronises the config    *)
(* the run belongs to, as it does not where ids are given out again.       *)
THEOREM RunsAreOfTheirConfig ==
  ASSUME ~ReuseIds, ~DbErrors
  PROVE  Spec => []RunExecutesItsConfig
<1>1. OwnInv => RunExecutesItsConfig
  BY DEF OwnInv, JobsMatchRows, RunExecutesItsConfig, HasRow, ThreadPc, Exists
<1>. QED  BY <1>1, OwnInvariant, PTL

-----------------------------------------------------------------------------
(* What may become of a row: the one action property a step has to respect *)
(* for each run, and the invariant behind it: a thread that has not yet    *)
(* marked its run RUNNING finds it in no finished state.                   *)

Finished == {"completed", "failed", "auth_required"}

FreshIsUnfinished ==
  \A c \in ConfigIds :
    job[c].pc \in {"dispatched", "loaded"} => runs[job[c].run].status \notin Finished

(* No job works on another config's run, as far as the rows tell.          *)
LEMMA DistinctRuns ==
  ASSUME TypeOK, OwnInv, NEW c \in ConfigIds, NEW d \in ConfigIds, c # d,
         HasRow(job[c].run)
  PROVE  job[d].run # job[c].run
BY DEF OwnInv, JobsMatchRows, HasRow

NoRevival == \A r \in RunIds : runs'[r].status \in Active => runs[r].status \notin Finished

(* The two ways a step may write: rows that change, and fresh jobs.        *)
LEMMA WriteKeeps ==
  ASSUME TypeOK, TypeOK', FreshIsUnfinished, NEW n \in RunIds, NEW s \in Statuses,
         runs' = Updated(n, s),
         s \in Active => runs[n].status \notin Finished,
         \A d \in ConfigIds : job'[d].pc \in {"dispatched", "loaded"} =>
           /\ \/ job'[d].run = job[d].run /\ job[d].pc \in {"dispatched", "loaded"}
              \/ runs[job'[d].run].status \notin Finished
           /\ s \in Finished /\ Exists(n) => job'[d].run # n
  PROVE  NoRevival /\ FreshIsUnfinished'
<1>1. /\ \A r \in RunIds : r # n => runs'[r].status = runs[r].status
      /\ runs'[n].status = IF Exists(n) THEN s ELSE "absent"
  BY UpdatedRows
<1>2. NoRevival  BY <1>1 DEF NoRevival, Active, Finished
<1>3. ASSUME NEW d \in ConfigIds, job'[d].pc \in {"dispatched", "loaded"}
      PROVE  runs'[job'[d].run].status \notin Finished
  <2>1. runs[job'[d].run].status \notin Finished  BY <1>3 DEF FreshIsUnfinished
  <2>2. CASE job'[d].run = n
    BY <1>1, <1>3, <2>2 DEF Finished
  <2>3. CASE job'[d].run # n
    BY <1>1, <2>1, <2>3 DEF Updated, TypeOK
  <2>. QED  BY <2>2, <2>3
<1>. QED  BY <1>2, <1>3 DEF FreshIsUnfinished

LEMMA SameRowsKeep ==
  ASSUME FreshIsUnfinished, UNCHANGED runs,
         \A d \in ConfigIds : job'[d].pc \in {"dispatched", "loaded"} =>
           job'[d].run = job[d].run /\ job[d].pc \in {"dispatched", "loaded"}
  PROVE  NoRevival /\ FreshIsUnfinished'
BY DEF NoRevival, FreshIsUnfinished, Active, Finished

LEMMA InsertKeeps ==
  ASSUME TypeOK, TypeOK', OwnInv, ~ReuseIds, FreshIsUnfinished,
         NEW n \in RunIds, NEW c \in ConfigIds, NEW s \in Statuses, Insert(n, c, s),
         \A d \in ConfigIds : job'[d].pc \in {"dispatched", "loaded"} =>
           \/ job'[d].run = job[d].run /\ job[d].pc \in {"dispatched", "loaded"}
           \/ job'[d].run = n /\ s \notin Finished
  PROVE  NoRevival /\ FreshIsUnfinished'
<1>1. /\ ~Exists(n)
      /\ n = nextRun
      /\ runs'[n].status = s
      /\ \A r \in RunIds : r # n => runs'[r] = runs[r]
  BY InsertRows DEF OwnInv
<1>2. NoRevival  BY <1>1 DEF NoRevival, Exists, Active, Finished
<1>3. ASSUME NEW d \in ConfigIds, job'[d].pc \in {"dispatched", "loaded"}
      PROVE  runs'[job'[d].run].status \notin Finished
  <2>1. CASE job'[d].run = n /\ s \notin Finished  BY <1>1, <2>1
  <2>2. CASE job'[d].run = job[d].run /\ job[d].pc \in {"dispatched", "loaded"}
    <3>1. /\ job[d].run \in RunIds
          /\ job[d].run < nextRun
      BY <2>2 DEF OwnInv, JobsMatchRows, ThreadPc, TypeOK, Job
    <3>2. runs'[job[d].run] = runs[job[d].run]
      BY <1>1, <3>1 DEF RunIds, TypeOK
    <3>. QED  BY <2>2, <3>2 DEF FreshIsUnfinished
  <2>. QED  BY <1>3, <2>1, <2>2
<1>. QED  BY <1>2, <1>3 DEF FreshIsUnfinished

LEMMA RequestKeeps ==
  ASSUME TypeOK, TypeOK', OwnInv, ~ReuseIds, FreshIsUnfinished, NEW c \in ConfigIds,
         \/ Enqueue(c) /\ UNCHANGED job
         \/ RecordAuthRequired(c) /\ (UNCHANGED job \/ EndJob(c))
         \/ DispatchNew(c)
  PROVE  NoRevival /\ FreshIsUnfinished'
<1>s. {"queued", "auth_required", "pending"} \subseteq Statuses
  BY DEF Statuses, Active, Terminal
<1>1. CASE Enqueue(c) /\ UNCHANGED job
  BY <1>1, <1>s, InsertKeeps DEF Enqueue
<1>2. CASE RecordAuthRequired(c) /\ UNCHANGED job
  BY <1>2, <1>s, InsertKeeps DEF RecordAuthRequired
<1>3. CASE RecordAuthRequired(c) /\ EndJob(c)
  <2>1. \A d \in ConfigIds : job'[d].pc \in {"dispatched", "loaded"} => job'[d] = job[d]
    BY <1>3 DEF EndJob, TypeOK, Idle
  <2>. QED  BY <1>3, <1>s, <2>1, InsertKeeps DEF RecordAuthRequired
<1>4. CASE DispatchNew(c)
  <2>1. PICK n \in RunIds : /\ Insert(n, c, "pending")
                            /\ job' = [job EXCEPT ![c] = [pc |-> "dispatched", run |-> n]]
    BY <1>4 DEF DispatchNew
  <2>2. \A d \in ConfigIds : IF d = c THEN job'[d].run = n ELSE job'[d] = job[d]
    BY <2>1 DEF TypeOK
  <2>. QED  BY <1>s, <2>1, <2>2, InsertKeeps DEF Finished
<1>. QED  BY <1>1, <1>2, <1>3, <1>4

LEMMA EndJobKeeps ==
  ASSUME TypeOK, FreshIsUnfinished, NEW c \in ConfigIds, EndJob(c), UNCHANGED runs
  PROVE  NoRevival /\ FreshIsUnfinished'
<1>1. \A d \in ConfigIds : job'[d].pc \in {"dispatched", "loaded"} => job'[d] = job[d]
  BY DEF EndJob, TypeOK, Idle
<1>. QED  BY <1>1, SameRowsKeep

LEMMA ThreadKeeps ==
  ASSUME TypeOK, TypeOK', OwnInv, FreshIsUnfinished, NEW c \in ConfigIds, Thread(c)
  PROVE  NoRevival /\ FreshIsUnfinished'
<1>. DEFINE r == job[c].run
<1>1. r \in RunIds /\ job[c].pc \in ThreadPc
  BY DEF Thread, ThreadBegin, ThreadSetupFails, ThreadStart, ThreadRetry, ThreadFinish, ThreadReturn,
         ThreadFail, ThreadAuthRequired, ThreadPc, OwnInv, JobsMatchRows, TypeOK, Job
<1>2. \A d \in ConfigIds : d # c /\ Exists(r) => job[d].run # r
  BY <1>1, DistinctRuns DEF HasRow, RunIds, NoRun
<1>3. ASSUME NEW pc \in JobPc, UNCHANGED runs, ThreadMoves(c, pc),
             pc \in {"dispatched", "loaded"} => job[c].pc \in {"dispatched", "loaded"}
      PROVE  NoRevival /\ FreshIsUnfinished'
  <2>1. \A d \in ConfigIds : IF d = c THEN job'[d] = [pc |-> pc, run |-> r] ELSE job'[d] = job[d]
    BY <1>3 DEF ThreadMoves, TypeOK
  <2>. QED  BY <1>3, <2>1, SameRowsKeep
<1>4. ASSUME NEW pc \in JobPc \ {"dispatched", "loaded"}, NEW s \in Statuses,
             runs' = Updated(r, s), ThreadMoves(c, pc),
             s \in Active => runs[r].status \notin Finished
      PROVE  NoRevival /\ FreshIsUnfinished'
  <2>1. \A d \in ConfigIds : IF d = c THEN job'[d] = [pc |-> pc, run |-> r] ELSE job'[d] = job[d]
    BY <1>4 DEF ThreadMoves, TypeOK
  <2>. QED  BY <1>1, <1>2, <1>4, <2>1, WriteKeeps
<1>s. {"running", "completed", "failed", "auth_required"} \subseteq Statuses
  BY DEF Statuses, Active, Terminal
<1>j. {"loaded", "running", "retrying", "finished", "ended"} \subseteq JobPc
  BY DEF JobPc, ThreadPc
<1>a. "completed" \notin Active /\ "failed" \notin Active /\ "auth_required" \notin Active
  BY DEF Active
<1>5. CASE ThreadBegin(c)  BY <1>3, <1>5, <1>j DEF ThreadBegin
<1>12. CASE ThreadSetupFails(c)  BY <1>3, <1>12, <1>j DEF ThreadSetupFails
<1>6. CASE ThreadStart(c)
  <2>1. runs[r].status \notin Finished  BY <1>6 DEF ThreadStart, FreshIsUnfinished
  <2>. QED  BY <1>3, <1>4, <1>6, <1>s, <1>j, <2>1 DEF ThreadStart, ThreadWrites
<1>7. CASE ThreadRetry(c)  BY <1>3, <1>7, <1>j DEF ThreadRetry
<1>8. CASE ThreadFinish(c)
  BY <1>3, <1>4, <1>8, <1>s, <1>j, <1>a DEF ThreadFinish, ThreadWrites
<1>9. CASE ThreadReturn(c)
  BY <1>3, <1>4, <1>9, <1>s, <1>j, <1>a DEF ThreadReturn
<1>10. CASE ThreadFail(c)
  BY <1>3, <1>4, <1>10, <1>s, <1>j, <1>a DEF ThreadFail, ThreadWrites
<1>11. CASE ThreadAuthRequired(c)
  BY <1>3, <1>4, <1>11, <1>s, <1>j, <1>a DEF ThreadAuthRequired, ThreadWrites
<1>. QED  BY <1>5, <1>6, <1>7, <1>8, <1>9, <1>10, <1>11, <1>12 DEF Thread

LEMMA RunnerGetKeeps ==
  ASSUME TypeOK, TypeOK', FlagInv, OwnInv, ~ReuseIds, FreshIsUnfinished, RunnerGet
  PROVE  NoRevival /\ FreshIsUnfinished'
<1>. DEFINE item == Head(queue)
            c    == Head(queue).cfg
            n    == Head(queue).run
<1>1. c \in ConfigIds /\ n \in RunIds
  BY QueueItemsTail DEF RunnerGet, TypeOK, Item
<1>2. \A d \in ConfigIds : job[d].pc = "idle"
  BY IdleRunner DEF RunnerGet
<1>3. CASE UNCHANGED <<runs, job>>  BY <1>3, SameRowsKeep
<1>4. CASE RefuseItem(item) /\ UNCHANGED job
  <2>1. CASE runs' = Updated(n, "auth_required")
    <3>1. "auth_required" \in Statuses /\ "auth_required" \notin Active
      BY DEF Statuses, Terminal, Active
    <3>2. \A d \in ConfigIds : job'[d].pc = "idle"  BY <1>2, <1>4
    <3>. QED  BY <1>1, <2>1, <3>1, <3>2, WriteKeeps
  <2>2. CASE RecordAuthRequired(c)  BY <1>1, <1>4, <2>2, RequestKeeps
  <2>. QED  BY <1>4, <2>1, <2>2 DEF RefuseItem
<1>5. CASE job' = [job EXCEPT ![c] = [pc |-> "refresh", run |-> n]] /\ UNCHANGED runs
  <2>1. \A d \in ConfigIds : job'[d].pc \in {"idle", "refresh"}
    BY <1>1, <1>2, <1>5 DEF TypeOK
  <2>. QED  BY <1>5, <2>1, SameRowsKeep
<1>6. CASE /\ ~Dropped(item) /\ tokenValid
           /\ runs' = Updated(n, "pending")
           /\ job' = [job EXCEPT ![c] = [pc |-> "dispatched", run |-> n]]
  <2>1. runs[n].status \notin Finished  BY <1>6 DEF Dropped, Finished
  <2>2. \A d \in ConfigIds : IF d = c THEN job'[d].run = n ELSE job'[d].pc = "idle"
    BY <1>1, <1>2, <1>6 DEF TypeOK
  <2>3. "pending" \in Statuses /\ "pending" \notin Finished
    BY DEF Statuses, Active, Finished
  <2>. QED  BY <1>1, <1>6, <2>1, <2>2, <2>3, WriteKeeps
<1>. QED  BY <1>3, <1>4, <1>5, <1>6 DEF RunnerGet

LEMMA RevivalStep ==
  ASSUME TypeOK, TypeOK', FlagInv, OwnInv, ~ReuseIds, FreshIsUnfinished, [Next]_vars
  PROVE  NoRevival /\ FreshIsUnfinished'
<1>1. ASSUME NEW c \in ConfigIds, Trigger(c) \/ CronFire(c) PROVE NoRevival /\ FreshIsUnfinished'
  <2>1. CASE ExecuteRequest(c)
    <3>1. CASE UNCHANGED runs /\ job' = [job EXCEPT ![c] = [pc |-> "refresh", run |-> NoRun]]
      <4>1. \A d \in ConfigIds : IF d = c THEN job'[d].pc = "refresh" ELSE job'[d] = job[d]
        BY <3>1 DEF TypeOK
      <4>. QED  BY <3>1, <4>1, SameRowsKeep
    <3>. QED  BY <2>1, <3>1, RequestKeeps DEF ExecuteRequest
  <2>2. CASE UNCHANGED <<runs, job>>  BY <2>2, SameRowsKeep
  <2>3. CASE UNCHANGED job /\ (Enqueue(c) \/ RecordAuthRequired(c))
    BY <2>3, RequestKeeps
  <2>. QED  BY <1>1, <2>1, <2>2, <2>3 DEF Trigger, CronFire, EnqueueRequest
<1>2. ASSUME NEW c \in ConfigIds, ResumeRequest(c) PROVE NoRevival /\ FreshIsUnfinished'
  BY <1>2, RequestKeeps, SameRowsKeep DEF ResumeRequest
<1>3. CASE RunnerGet  BY <1>3, RunnerGetKeeps
<1>4. ASSUME NEW c \in ConfigIds, JobRefreshed(c) PROVE NoRevival /\ FreshIsUnfinished'
  <2>. DEFINE r == job[c].run
  <2>1. CASE /\ r # NoRun /\ runs[r].status = "queued"
             /\ runs' = Updated(r, "pending")
             /\ job' = [job EXCEPT ![c] = [pc |-> "dispatched", run |-> r]]
    <3>1. r \in RunIds /\ "pending" \in Statuses /\ "pending" \notin Finished
      BY <2>1 DEF TypeOK, Job, Statuses, Active, Finished
    <3>2. \A d \in ConfigIds : IF d = c THEN job'[d].run = r ELSE job'[d] = job[d]
      BY <2>1 DEF TypeOK
    <3>. QED  BY <2>1, <3>1, <3>2, WriteKeeps DEF Finished
  <2>. QED  BY <1>4, <2>1, EndJobKeeps, RequestKeeps DEF JobRefreshed
<1>5. ASSUME NEW c \in ConfigIds, JobRefreshRefused(c) PROVE NoRevival /\ FreshIsUnfinished'
  <2>. DEFINE r == job[c].run
  <2>1. CASE HasRow(r) /\ runs' = Updated(r, "auth_required")
    <3>1. /\ r \in RunIds
          /\ "auth_required" \in Statuses /\ "auth_required" \notin Active
      BY <2>1 DEF HasRow, TypeOK, Job, Statuses, Terminal, Active
    <3>2. \A d \in ConfigIds :
            job'[d].pc \in {"dispatched", "loaded"} => d # c /\ job'[d] = job[d]
      BY <1>5 DEF JobRefreshRefused, EndJob, TypeOK, Idle
    <3>. QED  BY <2>1, <3>1, <3>2, DistinctRuns, WriteKeeps
  <2>. QED  BY <1>5, <2>1, EndJobKeeps, RequestKeeps DEF JobRefreshRefused
<1>6. ASSUME NEW c \in ConfigIds, JobDone(c) PROVE NoRevival /\ FreshIsUnfinished'
  BY <1>6, EndJobKeeps DEF JobDone
<1>7. ASSUME NEW c \in ConfigIds, Thread(c) PROVE NoRevival /\ FreshIsUnfinished'
  BY <1>7, ThreadKeeps
<1>8. CASE CancelWrite
  <2>1. /\ cancelling \in RunIds
        /\ "cancelled" \in Statuses \ (Active \cup Finished)
    BY <1>8 DEF CancelWrite, TypeOK, Statuses, Terminal, Active, Finished
  <2>. QED  BY <1>8, <2>1, WriteKeeps DEF CancelWrite
<1>9. ASSUME NEW c \in ConfigIds, DeleteConfig(c) PROVE NoRevival /\ FreshIsUnfinished'
  <2>1. /\ \A r \in RunIds : runs'[r].status \in {runs[r].status, "absent"}
        /\ UNCHANGED job
    BY <1>9 DEF DeleteConfig, memory
  <2>2. NoRevival  BY <2>1 DEF NoRevival, Active, Finished
  <2>3. ASSUME NEW d \in ConfigIds, job[d].pc \in {"dispatched", "loaded"}
        PROVE  runs'[job[d].run].status \notin Finished
    <3>1. job[d].run \in RunIds
      BY <2>3 DEF OwnInv, JobsMatchRows, ThreadPc, TypeOK, Job
    <3>2. runs[job[d].run].status \notin Finished  BY <2>3 DEF FreshIsUnfinished
    <3>. QED  BY <2>1, <3>1, <3>2 DEF Finished
  <2>. QED  BY <2>1, <2>2, <2>3 DEF FreshIsUnfinished
<1>10. CASE Restart
  <2>1. NoRevival
    <3>1. \A r \in RunIds : runs'[r].status \in Active => runs'[r].status = runs[r].status
      BY <1>10, RowStatus DEF Restart, IsActive, Active
    <3>. QED  BY <3>1 DEF NoRevival, Active, Finished
  <2>2. FreshIsUnfinished'  BY <1>10 DEF Restart, FreshIsUnfinished, Idle
  <2>. QED  BY <2>1, <2>2
<1>11. CASE UNCHANGED <<runs, job>>  BY <1>11, SameRowsKeep
<1>12. ASSUME NEW r \in RunIds, CancelRead(r) PROVE UNCHANGED <<runs, job>>
  BY <1>12 DEF CancelRead
<1>13. ASSUME NEW c \in ConfigIds, CreateConfig(c) PROVE UNCHANGED <<runs, job>>
  BY <1>13 DEF CreateConfig, memory
<1>14. RunnerFails \/ TokenExpire \/ TokenRenew \/ UNCHANGED vars => UNCHANGED <<runs, job>>
  BY DEF RunnerFails, TokenExpire, TokenRenew, vars, memory
<1>. QED
  BY <1>1, <1>2, <1>3, <1>4, <1>5, <1>6, <1>7, <1>8, <1>9, <1>10, <1>11, <1>12,
     <1>13, <1>14 DEF Next

(* A run that has completed, failed or been refused is never taken up      *)
(* again by a late writer: neither by a thread that starts late nor by the *)
(* runner.                                                                 *)
THEOREM FinishedIsFinal ==
  ASSUME ~ReuseIds, ~DbErrors
  PROVE  Spec => FinishedIsNotRevived
<1>1. Init => FreshIsUnfinished  BY DEF Init, FreshIsUnfinished, Idle
<1>2. TypeOK /\ TypeOK' /\ FlagInv /\ OwnInv /\ FreshIsUnfinished /\ [Next]_vars
        => FreshIsUnfinished'
  BY RevivalStep
<1>3. Spec => []FreshIsUnfinished
  BY <1>1, <1>2, TypeCorrect, FlagInvariant, OwnInvariant, PTL DEF Spec
<1>4. TypeOK /\ TypeOK' /\ FlagInv /\ OwnInv /\ FreshIsUnfinished /\ [Next]_vars
        => [\A r \in RunIds :
             runs[r].status \in {"completed", "failed", "auth_required"} => ~IsActive(r)']_vars
  BY RevivalStep DEF NoRevival, Finished, IsActive
<1>. QED
  BY <1>3, <1>4, TypeCorrect, FlagInvariant, OwnInvariant, PTL DEF Spec, FinishedIsNotRevived

-----------------------------------------------------------------------------
(* Who enters a thread was not cancelled.                                  *)

Entering(d) ==
  job'[d].pc \in ThreadPc =>
    \/ job[d].pc \in ThreadPc /\ job'[d].run = job[d].run
    \/ job'[d].run # NoRun /\ runs[job'[d].run].status # "cancelled"

LEMMA DispatchNewEnters ==
  ASSUME TypeOK, OwnInv, ~ReuseIds, NEW c \in ConfigIds, DispatchNew(c)
  PROVE  \A d \in ConfigIds : Entering(d)
<1>1. PICK n \in RunIds : /\ Insert(n, c, "pending")
                          /\ job' = [job EXCEPT ![c] = [pc |-> "dispatched", run |-> n]]
  BY DEF DispatchNew
<1>2. "pending" \in Statuses  BY DEF Statuses, Active
<1>3. ~Exists(n) /\ n # NoRun
  BY <1>1, <1>2, InsertRows DEF OwnInv, RunIds, NoRun
<1>4. \A d \in ConfigIds : IF d = c THEN job'[d].run = n ELSE job'[d] = job[d]
  BY <1>1 DEF TypeOK
<1>. QED  BY <1>3, <1>4 DEF Entering, Exists

LEMMA EnteringStep ==
  ASSUME TypeOK, OwnInv, ~ReuseIds, [Next]_vars, NEW d \in ConfigIds
  PROVE  Entering(d)
<1>1. ASSUME NEW c \in ConfigIds, Trigger(c) \/ CronFire(c) PROVE Entering(d)
  <2>1. CASE ExecuteRequest(c)
    <3>1. CASE job' = [job EXCEPT ![c] = [pc |-> "refresh", run |-> NoRun]]
      BY <3>1 DEF Entering, ThreadPc, TypeOK
    <3>. QED  BY <2>1, <3>1, DispatchNewEnters DEF ExecuteRequest, Entering
  <2>2. CASE UNCHANGED job  BY <2>2 DEF Entering
  <2>. QED  BY <1>1, <2>1, <2>2 DEF Trigger, CronFire, EnqueueRequest
<1>2. CASE RunnerGet
  <2>. DEFINE c == Head(queue).cfg
              n == Head(queue).run
  <2>1. c \in ConfigIds /\ n \in RunIds /\ n # NoRun
    BY <1>2, QueueItemsTail DEF RunnerGet, TypeOK, Item, RunIds, NoRun
  <2>2. CASE UNCHANGED job  BY <2>2 DEF Entering
  <2>3. CASE job' = [job EXCEPT ![c] = [pc |-> "refresh", run |-> n]]
    BY <2>3 DEF Entering, ThreadPc, TypeOK
  <2>4. CASE /\ runs[n].status = "queued"
             /\ job' = [job EXCEPT ![c] = [pc |-> "dispatched", run |-> n]]
    BY <2>1, <2>4 DEF Entering, TypeOK
  <2>. QED  BY <1>2, <2>2, <2>3, <2>4 DEF RunnerGet, Dropped
<1>3. ASSUME NEW c \in ConfigIds, EndJob(c) PROVE Entering(d)
  BY <1>3 DEF EndJob, Idle, Entering, ThreadPc, TypeOK
<1>4. ASSUME NEW c \in ConfigIds, JobRefreshed(c) PROVE Entering(d)
  <2>1. CASE /\ job[c].run # NoRun /\ runs[job[c].run].status = "queued"
             /\ job' = [job EXCEPT ![c] = [pc |-> "dispatched", run |-> job[c].run]]
    BY <2>1 DEF Entering, TypeOK
  <2>. QED  BY <1>3, <1>4, <2>1, DispatchNewEnters DEF JobRefreshed
<1>5. ASSUME NEW c \in ConfigIds, Thread(c) PROVE Entering(d)
  <2>1. job[c].pc \in ThreadPc /\ \E pc \in JobPc : ThreadMoves(c, pc)
    BY <1>5 DEF Thread, ThreadBegin, ThreadSetupFails, ThreadStart, ThreadRetry, ThreadFinish,
                ThreadReturn, ThreadFail, ThreadAuthRequired, ThreadPc, JobPc
  <2>. QED  BY <2>1 DEF ThreadMoves, Entering, TypeOK
<1>6. CASE Restart  BY <1>6 DEF Restart, Idle, Entering, ThreadPc
<1>7. CASE UNCHANGED job  BY <1>7 DEF Entering
<1>8. ASSUME NEW c \in ConfigIds,
             ResumeRequest(c) \/ DeleteConfig(c) \/ CreateConfig(c)
      PROVE  UNCHANGED job
  BY <1>8 DEF ResumeRequest, DeleteConfig, CreateConfig, memory
<1>9. ASSUME NEW r \in RunIds, CancelRead(r) PROVE UNCHANGED job
  BY <1>9 DEF CancelRead
<1>10. RunnerFails \/ CancelWrite \/ TokenExpire \/ TokenRenew \/ UNCHANGED vars
         => UNCHANGED job
  BY DEF RunnerFails, CancelWrite, TokenExpire, TokenRenew, vars, memory
<1>. QED
  BY <1>1, <1>2, <1>3, <1>4, <1>5, <1>6, <1>7, <1>8, <1>9, <1>10
     DEF Next, JobRefreshRefused, JobDone

(* Cancelling a run that has not been dispatched is effective: it never    *)
(* reaches a thread, whatever the runner was awaiting meanwhile.           *)
THEOREM CancelBeforeDispatch ==
  ASSUME ~ReuseIds, ~DbErrors
  PROVE  Spec => CancelledIsNotDispatched
<1>1. TypeOK /\ OwnInv /\ [Next]_vars
        => [\A r \in RunIds :
             runs[r].status = "cancelled" /\ ~InThread(r) => ~InThread(r)']_vars
  <2>. SUFFICES ASSUME TypeOK, OwnInv, [Next]_vars, NEW r \in RunIds,
                       runs[r].status = "cancelled", ~InThread(r), InThread(r)'
                PROVE  FALSE
    OBVIOUS
  <2>1. PICK d \in ConfigIds : job'[d].run = r /\ job'[d].pc \in ThreadPc
    BY DEF InThread
  <2>2. Entering(d)  BY EnteringStep
  <2>. QED  BY <2>1, <2>2 DEF Entering, InThread
<1>. QED  BY <1>1, TypeCorrect, OwnInvariant, PTL DEF Spec, CancelledIsNotDispatched

-----------------------------------------------------------------------------
(* One unfinished run per config, in the deployments where no request has  *)
(* to wait for a token refresh between the check of the flags and the      *)
(* creation of the row: then a config has one seat, in the queue or with   *)
(* the runner, and its flag is set while it is taken.                      *)

NoWaiter == (\A c \in ConfigIds : waiting[c] = 0) /\ cronWaiting = {}

TokenStays == ForceQueue => tokenValid

ItemsDiffer ==
  \A i, j \in 1..Len(queue) : queue[i].cfg = queue[j].cfg => i = j

SeatsAreFlagged ==
  /\ \A x \in QueueItems : x.cfg \in queued
  /\ current # NoItem => /\ current.cfg \in queued
                         /\ \A x \in QueueItems : x.cfg # current.cfg

NoQueueIfDirect == ~ForceQueue => queue = <<>> /\ current = NoItem

SeatInv == NoWaiter /\ TokenStays /\ ItemsDiffer /\ SeatsAreFlagged /\ NoQueueIfDirect

LEMMA SameSeats ==
  ASSUME SeatInv, UNCHANGED <<waiting, cronWaiting, tokenValid, queued, queue, current>>
  PROVE  SeatInv'
BY DEF SeatInv, NoWaiter, TokenStays, ItemsDiffer, SeatsAreFlagged, NoQueueIfDirect, QueueItems

LEMMA EnqueueSeats ==
  ASSUME TypeOK, SeatInv, ForceQueue, NEW c \in ConfigIds, c \notin queued, Enqueue(c),
         UNCHANGED <<waiting, cronWaiting, tokenValid, current>>
  PROVE  SeatInv'
<1>. USE DEF SeatInv
<1>1. PICK r \in RunIds : /\ queued' = queued \cup {c}
                          /\ queue' = Append(queue, [cfg |-> c, run |-> r])
  BY DEF Enqueue
<1>. DEFINE e == [cfg |-> c, run |-> r]
<1>2. QueueItems' = QueueItems \cup {e}
  BY <1>1, QueueItemsAppend DEF TypeOK, Item
<1>3. \A x \in QueueItems : x.cfg # c  BY DEF SeatsAreFlagged
<1>4. ItemsDiffer'
  <2>1. /\ Len(queue') = Len(queue) + 1
        /\ \A i \in 1..Len(queue) : queue'[i] = queue[i]
        /\ queue'[Len(queue) + 1] = e
        /\ Len(queue) \in Nat
    BY <1>1 DEF TypeOK, Item
  <2>2. \A i \in 1..Len(queue) : queue'[i].cfg # c
    BY <1>3, <2>1 DEF QueueItems
  <2>3. e.cfg = c  OBVIOUS
  <2>4. ASSUME NEW i \in 1..Len(queue'), NEW j \in 1..Len(queue'),
               queue'[i].cfg = queue'[j].cfg
        PROVE  i = j
    <3>1. CASE i \in 1..Len(queue) /\ j \in 1..Len(queue)
      BY <2>1, <2>4, <3>1 DEF ItemsDiffer
    <3>2. CASE i \notin 1..Len(queue)
      <4>1. i = Len(queue) + 1  BY <2>1, <3>2
      <4>. QED  BY <2>1, <2>2, <2>3, <2>4, <4>1
    <3>3. CASE j \notin 1..Len(queue)
      <4>1. j = Len(queue) + 1  BY <2>1, <3>3
      <4>. QED  BY <2>1, <2>2, <2>3, <2>4, <4>1
    <3>. QED  BY <3>1, <3>2, <3>3
  <2>. QED  BY <2>4 DEF ItemsDiffer
<1>5. SeatsAreFlagged'
  BY <1>1, <1>2, <1>3 DEF SeatsAreFlagged
<1>. QED  BY <1>4, <1>5 DEF NoWaiter, TokenStays, NoQueueIfDirect

LEMMA EndJobSeats ==
  ASSUME TypeOK, SeatInv, NEW c \in ConfigIds, EndJob(c),
         UNCHANGED <<waiting, cronWaiting, queue>>, TokenStays'
  PROVE  SeatInv'
<1>. USE DEF SeatInv
<1>1. SeatsAreFlagged'
  <2>1. current.cfg = c => current # NoItem
    BY ConstantsAssumption DEF NoItem, ConfigIds
  <2>. QED  BY <2>1 DEF EndJob, SeatsAreFlagged, QueueItems
<1>. QED  BY <1>1 DEF EndJob, NoWaiter, ItemsDiffer, NoQueueIfDirect

LEMMA RunnerGetSeats ==
  ASSUME TypeOK, SeatInv, RunnerGet
  PROVE  SeatInv'
<1>. USE DEF SeatInv
<1>. DEFINE item == Head(queue)
            c    == Head(queue).cfg
<1>1. /\ item \in QueueItems
      /\ QueueItems' \subseteq QueueItems
  BY QueueItemsTail DEF RunnerGet, TypeOK
<1>2. /\ Len(queue) \in Nat /\ Len(queue) >= 1
      /\ item = queue[1]
      /\ Len(queue') = Len(queue) - 1
      /\ \A i \in 1..Len(queue') : queue'[i] = queue[i + 1]
  BY DEF RunnerGet, TypeOK
<1>3. ItemsDiffer'
  <2>1. ASSUME NEW i \in 1..Len(queue'), NEW j \in 1..Len(queue'),
               queue'[i].cfg = queue'[j].cfg
        PROVE  i = j
    <3>1. i + 1 \in 1..Len(queue) /\ j + 1 \in 1..Len(queue)  BY <1>2
    <3>2. i + 1 = j + 1  BY <1>2, <2>1, <3>1 DEF ItemsDiffer
    <3>. QED  BY <3>2
  <2>. QED  BY <2>1 DEF ItemsDiffer
<1>4. \A x \in QueueItems' : x.cfg # c
  <2>1. ASSUME NEW i \in 1..Len(queue') PROVE queue'[i].cfg # c
    <3>1. i + 1 \in 1..Len(queue) /\ 1 \in 1..Len(queue) /\ i + 1 # 1  BY <1>2
    <3>. QED  BY <1>2, <3>1 DEF ItemsDiffer
  <2>. QED  BY <2>1 DEF QueueItems
<1>5. c \in queued /\ current = NoItem /\ ForceQueue
  BY <1>1 DEF SeatsAreFlagged, RunnerGet
<1>6. CASE queued' = queued \ {c} /\ UNCHANGED current
  <2>1. SeatsAreFlagged'  BY <1>1, <1>4, <1>5, <1>6 DEF SeatsAreFlagged
  <2>. QED  BY <1>3, <1>5, <2>1 DEF RunnerGet, NoWaiter, TokenStays, NoQueueIfDirect
<1>7. CASE current' = item /\ UNCHANGED queued
  <2>1. SeatsAreFlagged'  BY <1>1, <1>4, <1>5, <1>7 DEF SeatsAreFlagged
  <2>. QED  BY <1>3, <1>5, <2>1 DEF RunnerGet, NoWaiter, TokenStays, NoQueueIfDirect
<1>. QED  BY <1>6, <1>7 DEF RunnerGet

LEMMA SeatStep ==
  ASSUME TypeOK, SeatInv, ~DbErrors, ForceQueue => ~TokenExpires, [Next]_vars
  PROVE  SeatInv'
<1>t. ForceQueue => tokenValid  BY DEF SeatInv, TokenStays
<1>1. ASSUME NEW c \in ConfigIds, Trigger(c) \/ CronFire(c) PROVE SeatInv'
  <2>1. CASE ExecuteRequest(c)
    BY <1>1, <2>1, SameSeats DEF Trigger, CronFire, ExecuteRequest
  <2>2. CASE ForceQueue /\ c \notin queued /\ Enqueue(c) /\ UNCHANGED <<waiting, cronWaiting>>
    BY <1>1, <2>2, EnqueueSeats DEF Trigger, CronFire
  <2>. QED  BY <1>t, <1>1, <2>1, <2>2 DEF Trigger, CronFire, EnqueueRequest
<1>2. ASSUME NEW c \in ConfigIds, ResumeRequest(c) PROVE FALSE
  BY <1>2 DEF ResumeRequest, SeatInv, NoWaiter
<1>3. CASE RunnerGet  BY <1>3, RunnerGetSeats
<1>4. ASSUME NEW c \in ConfigIds, JobRefreshed(c) PROVE SeatInv'
  <2>1. TokenStays' /\ UNCHANGED <<waiting, cronWaiting, queue>>
    BY <1>4 DEF JobRefreshed, TokenStays
  <2>2. CASE UNCHANGED <<current, queued>>
    BY <2>1, <2>2 DEF SeatInv, NoWaiter, ItemsDiffer, SeatsAreFlagged, NoQueueIfDirect, QueueItems
  <2>. QED  BY <1>4, <2>1, <2>2, EndJobSeats DEF JobRefreshed
<1>5. ASSUME NEW c \in ConfigIds, JobRefreshRefused(c) \/ JobDone(c) PROVE SeatInv'
  BY <1>5, EndJobSeats DEF JobRefreshRefused, JobDone, SeatInv, TokenStays
<1>6. ASSUME NEW c \in ConfigIds, Thread(c) PROVE SeatInv'
  <2>1. ThreadFrame
    BY <1>6 DEF Thread, ThreadBegin, ThreadSetupFails, ThreadStart, ThreadRetry, ThreadFinish,
                ThreadReturn, ThreadFail, ThreadAuthRequired
  <2>. QED  BY <2>1, SameSeats DEF ThreadFrame
<1>7. ASSUME NEW r \in RunIds, CancelRead(r) PROVE SeatInv'
  BY <1>7, SameSeats DEF CancelRead
<1>8. ASSUME NEW c \in ConfigIds, DeleteConfig(c) \/ CreateConfig(c) PROVE SeatInv'
  BY <1>8, SameSeats DEF DeleteConfig, CreateConfig, memory
<1>9. CASE TokenExpire \/ TokenRenew
  <2>1. UNCHANGED memory /\ TokenStays'
    BY <1>9 DEF TokenExpire, TokenRenew, TokenStays
  <2>. QED
    BY <2>1 DEF memory, SeatInv, NoWaiter, ItemsDiffer, SeatsAreFlagged, NoQueueIfDirect, QueueItems
<1>10. CASE Restart
  BY <1>10 DEF Restart, SeatInv, NoWaiter, TokenStays, ItemsDiffer, SeatsAreFlagged,
               NoQueueIfDirect, QueueItems
<1>11. CASE CancelWrite \/ UNCHANGED vars
  BY <1>11, SameSeats DEF CancelWrite, vars, memory
<1>. QED
  BY <1>1, <1>2, <1>3, <1>4, <1>5, <1>6, <1>7, <1>8, <1>9, <1>10, <1>11
     DEF Next, RunnerFails

(* Whoever holds an unfinished run of c holds the one seat of c.           *)
LEMMA SeatsAreSingle ==
  ASSUME TypeOK, FlagInv, OwnInv, SeatInv
  PROVE  OneActiveRunPerConfig
<1>. SUFFICES ASSUME NEW q \in RunIds \ stranded, NEW r \in RunIds \ stranded,
                     IsActive(q), IsActive(r),
                     runs[q].cfg = runs[r].cfg
              PROVE  q = r
  BY DEF OneActiveRunPerConfig
<1>. DEFINE c == runs[q].cfg
            seat(k) == [cfg |-> c, run |-> k]
<1>1. c \in ConfigIds /\ seat(q).cfg = c /\ seat(r).cfg = c  BY RowStatus
<1>2. ASSUME NEW k \in {q, r}
      PROVE  \/ seat(k) \in QueueItems
             \/ current = seat(k)
             \/ ~ForceQueue /\ job[c].run = k
  <2>1. QueuedIsOwned(k) /\ StartedIsOwned(k) /\ runs[k].cfg = c
        /\ runs[k].status \in Active
    BY <1>2 DEF OwnInv, Owned, IsActive
  <2>2. CASE runs[k].status = "queued"  BY <2>1, <2>2 DEF QueuedIsOwned
  <2>3. CASE runs[k].status # "queued"
    <3>1. job[c].run = k /\ job[c].pc # "idle"
      BY <2>1, <2>3 DEF StartedIsOwned, Active
    <3>. QED  BY <1>1, <3>1 DEF FlagInv, RunnerOwnsJob
  <2>. QED  BY <2>2, <2>3
<1>3. ASSUME seat(q) \in QueueItems, seat(r) \in QueueItems PROVE q = r
  <2>1. PICK i \in 1..Len(queue), j \in 1..Len(queue) : queue[i] = seat(q) /\ queue[j] = seat(r)
    BY <1>3 DEF QueueItems
  <2>2. i = j  BY <1>1, <2>1 DEF SeatInv, ItemsDiffer
  <2>. QED  BY <2>1, <2>2
<1>4. ASSUME NEW k \in {q, r}, NEW l \in {q, r}, current = seat(k), seat(l) \in QueueItems
      PROVE  FALSE
  <2>1. current # NoItem  BY <1>1, <1>4, ConstantsAssumption DEF NoItem, ConfigIds
  <2>. QED  BY <1>1, <1>4, <2>1 DEF SeatInv, SeatsAreFlagged
<1>5. ASSUME ~ForceQueue, NEW k \in {q, r}
      PROVE  seat(k) \notin QueueItems /\ current # seat(k)
  BY <1>1, <1>5, ConstantsAssumption
     DEF SeatInv, NoQueueIfDirect, QueueItems, NoItem, ConfigIds
<1>. QED  BY <1>2, <1>3, <1>4, <1>5

(* Where force_queue is off, or tokens do not expire, two unfinished runs  *)
(* of one config never coexist, whichever requests, cron jobs,             *)
(* cancellations, deletions and restarts there are; a run whose thread     *)
(* ended in setting up its service (ThreadSetupFails) does not count, for  *)
(* beside it the cron job does start another.                              *)
THEOREM OneActiveRun ==
  ASSUME ~ReuseIds, ~DbErrors, ForceQueue => ~TokenExpires
  PROVE  Spec => []OneActiveRunPerConfig
<1>1. Init => SeatInv
  BY DEF Init, SeatInv, NoWaiter, TokenStays, ItemsDiffer, SeatsAreFlagged,
         NoQueueIfDirect, QueueItems
<1>2. TypeOK /\ SeatInv /\ [Next]_vars => SeatInv'
  BY SeatStep
<1>3. TypeOK /\ FlagInv /\ OwnInv /\ SeatInv => OneActiveRunPerConfig
  BY SeatsAreSingle
<1>. QED
  BY <1>1, <1>2, <1>3, TypeCorrect, FlagInvariant, OwnInvariant, PTL DEF Spec
-----------------------------------------------------------------------------
(* The order of the line.  With fresh ids the queue is in the order of the *)
(* ids, behind the run of the item the runner has taken.                   *)

LineIsSorted ==
  /\ \A i, j \in 1..Len(queue) : i < j => queue[i].run < queue[j].run
  /\ current # NoItem => /\ current.run < nextRun
                         /\ \A x \in QueueItems : current.run < x.run

LEMMA SameLine ==
  ASSUME TypeOK, LineIsSorted, UNCHANGED queue, current' = current \/ current' = NoItem,
         nextRun <= nextRun', nextRun' \in Int
  PROVE  LineIsSorted'
<1>1. current # NoItem => current.run \in Int
  BY DEF TypeOK, Item, RunIds
<1>. QED  BY SMTT(30), <1>1 DEF LineIsSorted, QueueItems, TypeOK

LEMMA EnqueueLine ==
  ASSUME TypeOK, OwnInv, LineIsSorted, ~ReuseIds, NEW c \in ConfigIds, Enqueue(c),
         UNCHANGED current
  PROVE  LineIsSorted'
<1>1. PICK r \in RunIds : Insert(r, c, "queued") /\ queue' = Append(queue, [cfg |-> c, run |-> r])
  BY DEF Enqueue
<1>. DEFINE e == [cfg |-> c, run |-> r]
<1>2. r = nextRun /\ nextRun' = nextRun + 1 /\ r \in Int /\ e \in Item /\ e.run = r
  BY <1>1 DEF Insert, IsNewRun, RunIds, Item
<1>3. QueueItems' = QueueItems \cup {e}
  BY <1>1, <1>2, QueueItemsAppend DEF TypeOK
<1>4. \A x \in QueueItems : x.run < r /\ x.run \in Int
  BY <1>2, QueueItemsType DEF OwnInv, ItemsMatchRows, Item, RunIds
<1>5. /\ Len(queue') = Len(queue) + 1 /\ Len(queue) \in Nat
      /\ \A i \in 1..Len(queue) : queue'[i] = queue[i] /\ queue[i] \in QueueItems
      /\ queue'[Len(queue) + 1] = e
  BY <1>1, <1>2 DEF TypeOK, QueueItems
<1>6. ASSUME NEW i \in 1..Len(queue'), NEW j \in 1..Len(queue'), i < j
      PROVE  queue'[i].run < queue'[j].run
  <2>1. i \in 1..Len(queue)  BY <1>5, <1>6
  <2>2. CASE j \in 1..Len(queue)  BY <1>5, <1>6, <2>1, <2>2 DEF LineIsSorted
  <2>3. CASE j \notin 1..Len(queue)
    <3>1. j = Len(queue) + 1  BY <1>5, <2>3
    <3>. QED  BY <1>2, <1>4, <1>5, <2>1, <3>1
  <2>. QED  BY <2>2, <2>3
<1>7. current # NoItem => current.run \in Int
  BY DEF TypeOK, Item, RunIds
<1>8. current' # NoItem => /\ current'.run < nextRun'
                           /\ \A x \in QueueItems' : current'.run < x.run
  BY <1>2, <1>3, <1>7 DEF LineIsSorted
<1>. QED  BY <1>6, <1>8 DEF LineIsSorted

LEMMA TailLine ==
  ASSUME TypeOK, OwnInv, LineIsSorted, queue # <<>>, queue' = Tail(queue),
         current = NoItem, current' \in {NoItem, Head(queue)},
         nextRun <= nextRun', nextRun' \in Int
  PROVE  LineIsSorted'
<1>1. /\ Len(queue) \in Nat /\ Len(queue) >= 1
      /\ Head(queue) = queue[1] /\ Head(queue) \in Item
      /\ Len(queue') = Len(queue) - 1
      /\ \A i \in 1..Len(queue') : queue'[i] = queue[i + 1]
  BY DEF TypeOK
<1>2. ASSUME NEW i \in 1..Len(queue'), NEW j \in 1..Len(queue'), i < j
      PROVE  queue'[i].run < queue'[j].run
  <2>1. i + 1 \in 1..Len(queue) /\ j + 1 \in 1..Len(queue) /\ i + 1 < j + 1
    BY <1>1, <1>2
  <2>. QED  BY <1>1, <2>1 DEF LineIsSorted
<1>3. \A x \in QueueItems' : Head(queue).run < x.run
  <2>1. ASSUME NEW i \in 1..Len(queue') PROVE Head(queue).run < queue'[i].run
    <3>1. 1 \in 1..Len(queue) /\ i + 1 \in 1..Len(queue) /\ 1 < i + 1  BY <1>1
    <3>. QED  BY <1>1, <3>1 DEF LineIsSorted
  <2>. QED  BY <2>1 DEF QueueItems
<1>4. Head(queue).run < nextRun'
  <2>1. Head(queue).run < nextRun /\ Head(queue).run \in Int /\ nextRun \in Int
    BY <1>1, QueueItemsTail DEF OwnInv, ItemsMatchRows, Item, RunIds, TypeOK
  <2>. QED  BY <2>1
<1>. QED  BY <1>2, <1>3, <1>4 DEF LineIsSorted

LEMMA LineStep ==
  ASSUME TypeOK, TypeOK', OwnInv, LineIsSorted, ~ReuseIds, [Next]_vars
  PROVE  LineIsSorted'
<1>n. nextRun \in Int /\ nextRun' \in Int  BY DEF TypeOK
<1>g. ASSUME NEW c \in ConfigIds, RecordAuthRequired(c) PROVE nextRun <= nextRun'
  BY <1>g, <1>n DEF RecordAuthRequired, Insert
<1>h. ASSUME NEW c \in ConfigIds, DispatchNew(c) PROVE nextRun <= nextRun'
  BY <1>h, <1>n DEF DispatchNew, Insert
<1>1. ASSUME NEW c \in ConfigIds, Trigger(c) \/ CronFire(c) PROVE LineIsSorted'
  <2>1. CASE ExecuteRequest(c)
    <3>1. UNCHANGED <<queue, current>>  BY <1>1, <2>1 DEF ExecuteRequest, Trigger, CronFire
    <3>2. DispatchNew(c) \/ RecordAuthRequired(c) \/ UNCHANGED nextRun
      BY <2>1 DEF ExecuteRequest
    <3>3. nextRun <= nextRun'  BY <1>n, <1>g, <1>h, <3>2
    <3>. QED  BY <3>1, <3>3, <1>n, SameLine
  <2>2. CASE Enqueue(c)
    BY <1>1, <2>2, EnqueueLine DEF Trigger, CronFire
  <2>3. CASE UNCHANGED queue /\ nextRun <= nextRun' /\ UNCHANGED current
    BY <1>n, <2>3, SameLine
  <2>. QED  BY <1>1, <1>n, <1>g, <2>1, <2>2, <2>3 DEF Trigger, CronFire, EnqueueRequest
<1>2. ASSUME NEW c \in ConfigIds, ResumeRequest(c) PROVE LineIsSorted'
  <2>1. CASE Enqueue(c)  BY <1>2, <2>1, EnqueueLine DEF ResumeRequest
  <2>2. CASE UNCHANGED queue /\ nextRun <= nextRun'
    BY <1>2, <1>n, <2>2, SameLine DEF ResumeRequest
  <2>3. \/ Enqueue(c)
        \/ UNCHANGED queue /\ (RecordAuthRequired(c) \/ UNCHANGED nextRun)
    BY <1>2 DEF ResumeRequest
  <2>. QED  BY <1>n, <1>g, <2>1, <2>2, <2>3
<1>3. CASE RunnerGet
  <2>1. Head(queue).cfg \in ConfigIds  BY <1>3, QueueItemsTail DEF RunnerGet, TypeOK, Item
  <2>2. nextRun <= nextRun'  BY <1>3, <1>n, <1>g, <2>1 DEF RunnerGet, RefuseItem
  <2>3. current' \in {NoItem, Head(queue)}  BY <1>3 DEF RunnerGet
  <2>. QED  BY <1>3, <1>n, <2>2, <2>3, TailLine DEF RunnerGet
<1>4. CASE RunnerFails
  BY <1>4, <1>n, TailLine DEF RunnerFails
<1>5. ASSUME NEW c \in ConfigIds, JobRefreshed(c) \/ JobRefreshRefused(c) \/ JobDone(c)
      PROVE  LineIsSorted'
  <2>1. UNCHANGED queue /\ (current' = current \/ current' = NoItem)
    BY <1>5 DEF JobRefreshed, JobRefreshRefused, JobDone, EndJob
  <2>2. nextRun <= nextRun'
    BY <1>5, <1>n, <1>g, <1>h DEF JobRefreshed, JobRefreshRefused, JobDone
  <2>. QED  BY <1>n, <2>1, <2>2, SameLine
<1>6. ASSUME NEW c \in ConfigIds, Thread(c) PROVE UNCHANGED <<queue, current, nextRun>>
  BY <1>6 DEF Thread, ThreadBegin, ThreadSetupFails, ThreadStart, ThreadRetry, ThreadFinish,
              ThreadReturn, ThreadFail, ThreadAuthRequired, ThreadFrame
<1>7. ASSUME NEW r \in RunIds, CancelRead(r) PROVE UNCHANGED <<queue, current, nextRun>>
  BY <1>7 DEF CancelRead
<1>8. ASSUME NEW c \in ConfigIds, DeleteConfig(c) \/ CreateConfig(c)
      PROVE  UNCHANGED <<queue, current, nextRun>>
  BY <1>8 DEF DeleteConfig, CreateConfig, memory
<1>9. CancelWrite \/ TokenExpire \/ TokenRenew \/ UNCHANGED vars
        => UNCHANGED <<queue, current, nextRun>>
  BY DEF CancelWrite, TokenExpire, TokenRenew, vars, memory
<1>10. CASE Restart
  BY <1>10 DEF Restart, LineIsSorted
<1>11. UNCHANGED <<queue, current, nextRun>> => LineIsSorted'
  BY <1>n, SameLine
<1>. QED
  BY <1>1, <1>2, <1>3, <1>4, <1>5, <1>6, <1>7, <1>8, <1>9, <1>10, <1>11 DEF Next

LEMMA LineInvariant ==
  ASSUME ~ReuseIds, ~DbErrors
  PROVE  Spec => []LineIsSorted
<1>1. Init => LineIsSorted  BY DEF Init, LineIsSorted, QueueItems
<1>2. TypeOK /\ TypeOK' /\ OwnInv /\ LineIsSorted /\ [Next]_vars => LineIsSorted'
  BY LineStep
<1>. QED  BY <1>1, <1>2, TypeCorrect, OwnInvariant, PTL DEF Spec

-----------------------------------------------------------------------------
(* The refinement of RunQueue: the line is that of the rows, in the order  *)
(* of their ids.                                                           *)

Line == {r \in RunIds : runs[r].status = "queued"}
Serving == {r \in RunIds : InThread(r)}
Older(S) == {p \in S \X S : p[1] < p[2]}

LineIsOfRows == InLine = Line /\ AheadInLine = Older(Line)

LEMMA LineView ==
  ASSUME TypeOK, OwnInv, LineIsSorted
  PROVE  LineIsOfRows
<1>1. \A r \in RunIds : r = current.run => current # NoItem
  BY DEF NoItem, NoRun, RunIds
<1>2. ASSUME NEW r \in Line PROVE r = current.run \/ \E i \in 1..Len(queue) : r = queue[i].run
  <2>1. QueuedIsOwned(r) /\ runs[r].status = "queued" /\ r \in RunIds
    BY <1>2 DEF OwnInv, Owned, Line
  <2>. QED  BY <2>1 DEF QueuedIsOwned, QueueItems
<1>3. InLine = Line  BY <1>2 DEF InLine, Line
<1>4. \A i \in 1..Len(queue) : queue[i] \in QueueItems  BY DEF QueueItems
<1>5. ASSUME NEW q \in InLine, NEW r \in InLine
      PROVE  /\ q = current.run /\ r # current.run => q < r
             /\ \A i, j \in 1..Len(queue) : i < j /\ q = queue[i].run /\ r = queue[j].run => q < r
  BY <1>1, <1>4 DEF LineIsSorted, InLine
<1>6. ASSUME NEW q \in InLine, NEW r \in InLine, q < r
      PROVE  \/ q = current.run /\ r # current.run
             \/ \E i, j \in 1..Len(queue) : i < j /\ q = queue[i].run /\ r = queue[j].run
  <2>1. q \in Int /\ r \in Int /\ q \in RunIds /\ r \in RunIds  BY DEF InLine, RunIds
  <2>2. CASE q = current.run  BY <1>6, <2>1, <2>2
  <2>3. CASE q # current.run
    <3>1. PICK i \in 1..Len(queue) : q = queue[i].run  BY <2>3 DEF InLine
    <3>2. r # current.run
      BY <1>1, <1>4, <1>6, <2>1, <3>1 DEF LineIsSorted
    <3>3. PICK j \in 1..Len(queue) : r = queue[j].run  BY <3>2 DEF InLine
    <3>4. i < j
      <4>1. i \in Int /\ j \in Int  BY DEF TypeOK
      <4>2. i # j /\ ~(j < i)  BY <1>6, <2>1, <3>1, <3>3 DEF LineIsSorted
      <4>. QED  BY <4>1, <4>2
    <3>. QED  BY <3>1, <3>3, <3>4
  <2>. QED  BY <2>2, <2>3
<1>7. AheadInLine = Older(InLine)
  BY <1>5, <1>6 DEF AheadInLine, Older
<1>. QED  BY <1>3, <1>7 DEF LineIsOfRows

LEMMA Withdrawing ==
  ASSUME LineIsOfRows, LineIsOfRows', Line' \subseteq Line, Serving' = Serving
  PROVE  Order!Next
<1>1. Line \ Line' \in SUBSET RunIds  BY DEF Line
<1>2. Line' = Line \ (Line \ Line')  OBVIOUS
<1>3. Older(Line)' = Older(Line) \cap (Line' \X Line')  BY DEF Older
<1>4. Order!Withdraw(Line \ Line')
  BY <1>2, <1>3 DEF LineIsOfRows, Order!Withdraw, Order!Leave, Serving
<1>. QED  BY <1>1, <1>4 DEF Order!Next

LEMMA Submitting ==
  ASSUME LineIsOfRows, LineIsOfRows', NEW n \in RunIds, n \notin Line, \A q \in Line : q < n,
         Line' = Line \cup {n}, Serving' = Serving
  PROVE  Order!Next
<1>0. \A q \in Line : q \in Int /\ ~(n < q)
  BY DEF Line, RunIds
<1>1. Older(Line)' = Older(Line) \cup (Line \X {n})
  BY <1>0 DEF Older, RunIds
<1>2. Order!Submit(n)
  BY <1>1 DEF LineIsOfRows, Order!Submit, Serving
<1>. QED  BY <1>2 DEF Order!Next

LEMMA Serving1 ==
  ASSUME LineIsOfRows, LineIsOfRows', NEW n \in Line, \A q \in Line : n <= q,
         Line' = Line \ {n}, Serving = {}, Serving' = {n}
  PROVE  Order!Next
<1>0. n \in RunIds /\ \A q \in Line : q \in Int /\ n \in Int
  BY DEF Line, RunIds
<1>1. Older(Line)' = Older(Line) \cap (Line' \X Line')  BY DEF Older
<1>2. \A q \in Line : <<q, n>> \notin Older(Line)  BY <1>0 DEF Older
<1>3. Order!Serve(n)
  BY <1>1, <1>2 DEF LineIsOfRows, Order!Serve, Order!Leave, Serving
<1>. QED  BY <1>0, <1>3 DEF Order!Next

LEMMA Finishing ==
  ASSUME LineIsOfRows, LineIsOfRows', Line' = Line, Serving' = {}
  PROVE  Order!Next
<1>1. CASE Serving = {}  BY <1>1, Withdrawing
<1>2. CASE Serving # {}
  <2>1. Older(Line)' = Older(Line)  BY DEF Older
  <2>2. Order!Finish  BY <1>2, <2>1 DEF LineIsOfRows, Order!Finish, Serving
  <2>. QED  BY <2>2 DEF Order!Next
<1>. QED  BY <1>1, <1>2

(* Who is served: with force_queue, the run of the only job there is.      *)
LEMMA OnlyJob ==
  ASSUME TypeOK, FlagInv, ForceQueue, NEW c \in ConfigIds, job[c].pc # "idle"
  PROVE  /\ current = [cfg |-> c, run |-> job[c].run]
         /\ job[c].run \in RunIds
         /\ \A d \in ConfigIds : d # c => job[d].pc = "idle"
         /\ Serving = {r \in RunIds : r = job[c].run /\ job[c].pc \in ThreadPc}
<1>1. \A d \in ConfigIds : job[d].pc # "idle" => current = [cfg |-> d, run |-> job[d].run]
  BY DEF FlagInv, RunnerOwnsJob
<1>2. current = [cfg |-> c, run |-> job[c].run]  BY <1>1
<1>3. ASSUME NEW d \in ConfigIds, d # c PROVE job[d].pc = "idle"
  <2>1. [cfg |-> d, run |-> job[d].run] # [cfg |-> c, run |-> job[c].run]
    <3>1. [cfg |-> d, run |-> job[d].run].cfg # [cfg |-> c, run |-> job[c].run].cfg
      BY <1>3
    <3>. QED  BY <3>1
  <2>. QED  BY <1>1, <1>2, <2>1
<1>4. job[c].run \in RunIds
  <2>1. current.cfg = c /\ current.run = job[c].run /\ c # 0
    BY <1>2 DEF ConfigIds
  <2>. QED  BY <2>1 DEF TypeOK, Item, NoItem
<1>5. Serving = {r \in RunIds : r = job[c].run /\ job[c].pc \in ThreadPc}
  BY <1>3 DEF Serving, InThread, ThreadPc
<1>. QED  BY <1>2, <1>3, <1>4, <1>5

LEMMA NoJob ==
  ASSUME \A d \in ConfigIds : job[d].pc \notin ThreadPc
  PROVE  Serving = {}
BY DEF Serving, InThread

LEMMA ServingAfter ==
  ASSUME TypeOK, NEW c \in ConfigIds, NEW j \in Job, job' = [job EXCEPT ![c] = j],
         \A d \in ConfigIds : d # c => job[d].pc = "idle"
  PROVE  Serving' = {r \in RunIds : r = j.run /\ j.pc \in ThreadPc}
<1>1. job'[c] = j /\ \A d \in ConfigIds : d # c => job'[d] = job[d]
  BY DEF TypeOK
<1>2. "idle" \notin ThreadPc  BY DEF ThreadPc
<1>. QED  BY <1>1, <1>2 DEF Serving, InThread

(* A run whose job has been dispatched is not in line any more.            *)
LEMMA ServedHasLeft ==
  ASSUME TypeOK, FlagInv, OwnInv, LineIsSorted, ForceQueue,
         NEW c \in ConfigIds, job[c].pc \notin {"idle", "refresh"}
  PROVE  job[c].run \notin Line
<1>. SUFFICES ASSUME job[c].run \in Line PROVE FALSE
  OBVIOUS
<1>. DEFINE r == job[c].run
<1>1. current = [cfg |-> c, run |-> r] /\ r \in RunIds  BY OnlyJob
<1>2. QueuedIsOwned(r) /\ runs[r].status = "queued"  BY <1>1 DEF OwnInv, Owned, Line
<1>3. current.cfg = c /\ current.run = r /\ current # NoItem
  BY <1>1 DEF NoItem, ConfigIds
<1>4. \A x \in QueueItems : x.run # r
  BY <1>1, <1>3 DEF LineIsSorted, RunIds
<1>5. current = [cfg |-> runs[r].cfg, run |-> r] /\ job[runs[r].cfg].pc = "refresh"
  BY <1>2, <1>4 DEF QueuedIsOwned
<1>6. runs[r].cfg = c  BY <1>3, <1>5
<1>. QED  BY <1>5, <1>6

(* What writes to the rows do to the line.                                 *)
LEMMA RecordLine ==
  ASSUME TypeOK, OwnInv, ~ReuseIds, NEW c \in ConfigIds, RecordAuthRequired(c)
  PROVE  Line' = Line
<1>1. PICK n \in RunIds : Insert(n, c, "auth_required")  BY DEF RecordAuthRequired
<1>2. "auth_required" \in Statuses  BY DEF Statuses, Terminal
<1>3. /\ ~Exists(n) /\ runs'[n].status = "auth_required"
      /\ \A r \in RunIds : r # n => runs'[r] = runs[r]
  BY <1>1, <1>2, InsertRows DEF OwnInv
<1>. QED  BY <1>3 DEF Line, Exists

LEMMA UpdatedLine ==
  ASSUME TypeOK, NEW n \in RunIds, NEW s \in Statuses \ {"queued"}, runs' = Updated(n, s)
  PROVE  Line' = Line \ {n}
<1>1. /\ \A r \in RunIds : r # n => runs'[r].status = runs[r].status
      /\ runs'[n].status # "queued"
  BY UpdatedRows
<1>. QED  BY <1>1 DEF Line

LEMMA EnqueueOrder ==
  ASSUME TypeOK, OwnInv, LineIsOfRows, LineIsOfRows', ~ReuseIds,
         NEW c \in ConfigIds, Enqueue(c), UNCHANGED job
  PROVE  Order!Next
<1>1. PICK n \in RunIds : Insert(n, c, "queued")  BY DEF Enqueue
<1>2. "queued" \in Statuses  BY DEF Statuses, Active
<1>3. /\ ~Exists(n) /\ n = nextRun /\ runs'[n].status = "queued"
      /\ \A r \in RunIds : r # n => runs'[r] = runs[r]
  BY <1>1, <1>2, InsertRows DEF OwnInv
<1>4. Line' = Line \cup {n} /\ n \notin Line  BY <1>3 DEF Line, Exists
<1>5. \A q \in Line : q < n  BY <1>3 DEF Line, Exists, OwnInv, RowsAreOld
<1>6. Serving' = Serving  BY DEF Serving, InThread
<1>. QED  BY <1>4, <1>5, <1>6, Submitting

(* The two ways into a thread: the head of the queue, and the run whose    *)
(* token has been refreshed; nobody in line is older.                      *)
LEMMA RunnerGetOrder ==
  ASSUME TypeOK, FlagInv, OwnInv, LineIsSorted, LineIsOfRows, LineIsOfRows', ~ReuseIds, RunnerGet
  PROVE  Order!Next
<1>. DEFINE c == Head(queue).cfg
            n == Head(queue).run
<1>1. /\ c \in ConfigIds /\ n \in RunIds /\ Len(queue) \in Nat /\ Len(queue) >= 1
      /\ Head(queue) = queue[1] /\ ForceQueue /\ current = NoItem
  <2>1. queue \in Seq(Item) /\ queue # <<>> /\ ForceQueue /\ current = NoItem
    BY DEF RunnerGet, TypeOK
  <2>2. /\ Head(queue) \in Item /\ Head(queue) = queue[1]
        /\ Len(queue) \in Nat /\ Len(queue) >= 1
    BY <2>1
  <2>. QED  BY <2>1, <2>2 DEF Item
<1>2. \A d \in ConfigIds : job[d].pc = "idle"  BY <1>1, IdleRunner
<1>3. Serving = {}  BY <1>2, NoJob DEF ThreadPc
<1>4. CASE UNCHANGED job
  <2>1. Serving' = Serving  BY <1>4 DEF Serving, InThread
  <2>2. CASE UNCHANGED runs
    <3>1. Line' = Line  BY <2>2 DEF Line
    <3>. QED  BY <2>1, <3>1, Withdrawing
  <2>3. CASE runs' = Updated(n, "auth_required")
    <3>1. Line' = Line \ {n}  BY <1>1, <2>3, UpdatedLine DEF Statuses, Terminal
    <3>. QED  BY <2>1, <3>1, Withdrawing
  <2>4. CASE RecordAuthRequired(c)
    <3>1. Line' = Line  BY <1>1, <2>4, RecordLine
    <3>. QED  BY <2>1, <3>1, Withdrawing
  <2>. QED
    BY <1>1, <1>2, <1>4, <2>2, <2>3, <2>4 DEF RunnerGet, RefuseItem, TypeOK
<1>5. CASE job' = [job EXCEPT ![c] = [pc |-> "refresh", run |-> n]] /\ UNCHANGED runs
  <2>1. [pc |-> "refresh", run |-> n] \in Job  BY <1>1 DEF Job, JobPc
  <2>2. Serving' = {}
    <3>1. "refresh" \notin ThreadPc  BY DEF ThreadPc
    <3>2. Serving' = {r \in RunIds : r = [pc |-> "refresh", run |-> n].run
                                     /\ [pc |-> "refresh", run |-> n].pc \in ThreadPc}
      BY <1>1, <1>2, <1>5, <2>1, ServingAfter
    <3>. QED  BY <3>1, <3>2
  <2>3. Line' = Line  BY <1>5 DEF Line
  <2>. QED  BY <1>3, <2>2, <2>3, Withdrawing
<1>6. CASE /\ ~Dropped(Head(queue)) /\ tokenValid /\ runs' = Updated(n, "pending")
           /\ job' = [job EXCEPT ![c] = [pc |-> "dispatched", run |-> n]]
  <2>1. [pc |-> "dispatched", run |-> n] \in Job /\ "dispatched" \in ThreadPc
    BY <1>1 DEF Job, JobPc, ThreadPc
  <2>2. Serving' = {n}
    <3>1. Serving' = {r \in RunIds : r = [pc |-> "dispatched", run |-> n].run
                                     /\ [pc |-> "dispatched", run |-> n].pc \in ThreadPc}
      BY <1>1, <1>2, <1>6, <2>1, ServingAfter
    <3>. QED  BY <1>1, <2>1, <3>1
  <2>3. Line' = Line \ {n}  BY <1>1, <1>6, UpdatedLine DEF Statuses, Active
  <2>4. n \in Line  BY <1>1, <1>6 DEF Dropped, Line
  <2>5. ASSUME NEW q \in Line PROVE n <= q
    <3>1. QueuedIsOwned(q) /\ runs[q].status = "queued" /\ q \in RunIds
      BY <2>5 DEF OwnInv, Owned, Line
    <3>2. current # [cfg |-> runs[q].cfg, run |-> q]
      BY <1>1, <3>1 DEF NoItem, NoRun, RunIds
    <3>3. PICK i \in 1..Len(queue) : queue[i].run = q
      BY <3>1, <3>2 DEF QueuedIsOwned, QueueItems
    <3>4. i = 1 \/ 1 < i  BY <1>1
    <3>5. 1 \in 1..Len(queue)  BY <1>1
    <3>. QED  BY <1>1, <3>1, <3>3, <3>4, <3>5 DEF LineIsSorted, RunIds
  <2>. QED  BY <1>3, <2>2, <2>3, <2>4, <2>5, Serving1
<1>. QED  BY <1>4, <1>5, <1>6 DEF RunnerGet

LEMMA JobRefreshedOrder ==
  ASSUME TypeOK, FlagInv, OwnInv, LineIsSorted, LineIsOfRows, LineIsOfRows', ~ReuseIds,
         ForceQueue, NEW c \in ConfigIds, JobRefreshed(c)
  PROVE  Order!Next
<1>. DEFINE n == job[c].run
<1>1. job[c].pc = "refresh" /\ "refresh" # "idle" /\ "refresh" \notin ThreadPc
  BY DEF JobRefreshed, ThreadPc
<1>2. /\ current = [cfg |-> c, run |-> n] /\ n \in RunIds /\ n # NoRun
      /\ \A d \in ConfigIds : d # c => job[d].pc = "idle"
      /\ Serving = {}
  BY <1>1, OnlyJob DEF RunIds, NoRun
<1>3. CASE /\ runs[n].status = "queued" /\ runs' = Updated(n, "pending")
           /\ job' = [job EXCEPT ![c] = [pc |-> "dispatched", run |-> n]]
  <2>1. [pc |-> "dispatched", run |-> n] \in Job /\ "dispatched" \in ThreadPc
    BY <1>2 DEF Job, JobPc, ThreadPc
  <2>2. Serving' = {n}
    <3>1. Serving' = {r \in RunIds : r = [pc |-> "dispatched", run |-> n].run
                                     /\ [pc |-> "dispatched", run |-> n].pc \in ThreadPc}
      BY <1>2, <1>3, <2>1, ServingAfter
    <3>. QED  BY <1>2, <2>1, <3>1
  <2>3. Line' = Line \ {n}  BY <1>2, <1>3, UpdatedLine DEF Statuses, Active
  <2>4. n \in Line  BY <1>2, <1>3 DEF Line
  <2>5. current # NoItem /\ current.run = n
    BY <1>2 DEF NoItem, ConfigIds
  <2>6. ASSUME NEW q \in Line PROVE n <= q
    <3>1. QueuedIsOwned(q) /\ runs[q].status = "queued" /\ q \in RunIds
      BY <2>6 DEF OwnInv, Owned, Line
    <3>2. q = n \/ \E x \in QueueItems : x.run = q
      BY <2>5, <3>1 DEF QueuedIsOwned
    <3>. QED  BY <1>2, <2>5, <3>1, <3>2 DEF LineIsSorted, RunIds
  <2>. QED  BY <1>2, <2>2, <2>3, <2>4, <2>6, Serving1
<1>4. CASE EndJob(c) /\ UNCHANGED runs
  <2>1. Idle \in Job /\ "idle" \notin ThreadPc
    BY DEF Idle, Job, JobPc, ThreadPc
  <2>2. Serving' = {r \in RunIds : r = Idle.run /\ Idle.pc \in ThreadPc}
    BY <1>2, <1>4, <2>1, ServingAfter DEF EndJob
  <2>3. Serving' = {}  BY <2>1, <2>2 DEF Idle
  <2>4. Line' = Line  BY <1>4 DEF Line
  <2>. QED  BY <2>3, <2>4, Finishing
<1>. QED  BY <1>2, <1>3, <1>4 DEF JobRefreshed

LEMMA EndJobOrder ==
  ASSUME TypeOK, FlagInv, LineIsOfRows, LineIsOfRows', ForceQueue, NEW c \in ConfigIds,
         job[c].pc \in {"refresh", "ended"}, EndJob(c), Line' \subseteq Line
  PROVE  Order!Next
<1>1. /\ \A d \in ConfigIds : d # c => job[d].pc = "idle"
      /\ Serving = {}
  BY OnlyJob DEF ThreadPc
<1>2. Idle \in Job /\ "idle" \notin ThreadPc
  BY DEF Idle, Job, JobPc, ThreadPc
<1>3. Serving' = {r \in RunIds : r = Idle.run /\ Idle.pc \in ThreadPc}
  BY <1>1, <1>2, ServingAfter DEF EndJob
<1>. QED  BY <1>1, <1>2, <1>3, Withdrawing DEF Idle

LEMMA ThreadOrder ==
  ASSUME TypeOK, FlagInv, OwnInv, LineIsSorted, LineIsOfRows, LineIsOfRows', ~DbErrors,
         ForceQueue, NEW c \in ConfigIds, Thread(c)
  PROVE  Order!Next
<1>. DEFINE n == job[c].run
<1>1. job[c].pc \in ThreadPc /\ job[c].pc \notin {"idle", "refresh"}
  BY DEF Thread, ThreadBegin, ThreadSetupFails, ThreadStart, ThreadRetry, ThreadFinish,
         ThreadReturn, ThreadFail, ThreadAuthRequired, ThreadPc
<1>2. /\ n \in RunIds /\ n \notin Line
      /\ \A d \in ConfigIds : d # c => job[d].pc = "idle"
      /\ Serving = {n}
  <2>1. Serving = {r \in RunIds : r = n /\ job[c].pc \in ThreadPc} /\ n \in RunIds
    BY <1>1, OnlyJob
  <2>. QED  BY <1>1, <2>1, OnlyJob, ServedHasLeft
<1>3. UNCHANGED runs \/ \E s \in Statuses \ {"queued"} : runs' = Updated(n, s)
  BY DEF Thread, ThreadBegin, ThreadSetupFails, ThreadStart, ThreadRetry, ThreadFinish, ThreadReturn, ThreadFail,
         ThreadAuthRequired, ThreadWrites, Statuses, Active, Terminal
<1>4. Line' = Line
  <2>1. CASE UNCHANGED runs  BY <2>1 DEF Line
  <2>2. ASSUME NEW s \in Statuses \ {"queued"}, runs' = Updated(n, s) PROVE Line' = Line
    BY <1>2, <2>2, UpdatedLine
  <2>. QED  BY <1>3, <2>1, <2>2
<1>5. PICK pc \in ThreadPc \cup {"ended"} : job' = [job EXCEPT ![c] = [pc |-> pc, run |-> n]]
  <2>1. \E pc \in ThreadPc \cup {"ended"} : ThreadMoves(c, pc)
    BY DEF Thread, ThreadBegin, ThreadSetupFails, ThreadStart, ThreadRetry, ThreadFinish, ThreadReturn, ThreadFail,
           ThreadAuthRequired, ThreadPc
  <2>. QED  BY <2>1 DEF ThreadMoves, TypeOK
<1>6. [pc |-> pc, run |-> n] \in Job  BY <1>2 DEF Job, JobPc
<1>7. Serving' = {r \in RunIds : r = [pc |-> pc, run |-> n].run
                                 /\ [pc |-> pc, run |-> n].pc \in ThreadPc}
  BY <1>2, <1>5, <1>6, ServingAfter
<1>8. CASE pc \in ThreadPc
  <2>1. Serving' = {n}  BY <1>2, <1>7, <1>8
  <2>. QED  BY <1>2, <1>4, <2>1, Withdrawing
<1>9. CASE pc \notin ThreadPc
  <2>1. Serving' = {}  BY <1>7, <1>9
  <2>. QED  BY <1>4, <2>1, Finishing
<1>. QED  BY <1>8, <1>9

LEMMA OrderStep ==
  ASSUME TypeOK, FlagInv, OwnInv, LineIsSorted, LineIsOfRows, LineIsOfRows',
         ForceQueue, ~ReuseIds, ~DbErrors, [Next]_vars
  PROVE  Order!Next
<1>1. ASSUME UNCHANGED job, Line' \subseteq Line PROVE Order!Next
  <2>1. Serving' = Serving  BY <1>1 DEF Serving, InThread
  <2>. QED  BY <1>1, <2>1, Withdrawing
<1>2. ASSUME UNCHANGED runs PROVE Line' = Line
  BY <1>2 DEF Line
<1>3. ASSUME NEW c \in ConfigIds, RecordAuthRequired(c) PROVE Line' = Line
  BY <1>3, RecordLine
<1>4. ASSUME NEW c \in ConfigIds, Enqueue(c), UNCHANGED job PROVE Order!Next
  BY <1>4, EnqueueOrder
<1>5. ASSUME NEW c \in ConfigIds, Trigger(c) \/ CronFire(c) \/ ResumeRequest(c)
      PROVE  Order!Next
  <2>1. /\ UNCHANGED job
        /\ Enqueue(c) \/ RecordAuthRequired(c) \/ UNCHANGED runs
    BY <1>5 DEF Trigger, CronFire, ResumeRequest, EnqueueRequest, ExecuteRequest
  <2>. QED  BY <1>1, <1>2, <1>3, <1>4, <2>1
<1>6. CASE RunnerGet  BY <1>6, RunnerGetOrder
<1>7. ASSUME NEW c \in ConfigIds, JobRefreshed(c) PROVE Order!Next
  BY <1>7, JobRefreshedOrder
<1>8. ASSUME NEW c \in ConfigIds, JobRefreshRefused(c) PROVE Order!Next
  <2>1. CASE runs' = Updated(job[c].run, "auth_required") /\ HasRow(job[c].run)
    <3>1. job[c].run \in RunIds  BY <2>1 DEF HasRow, TypeOK, Job
    <3>2. Line' = Line \ {job[c].run}
      BY <2>1, <3>1, UpdatedLine DEF Statuses, Terminal
    <3>. QED  BY <1>8, <3>2, EndJobOrder DEF JobRefreshRefused
  <2>2. CASE RecordAuthRequired(c) \/ UNCHANGED runs
    BY <1>2, <1>3, <1>8, <2>2, EndJobOrder DEF JobRefreshRefused
  <2>. QED  BY <1>8, <2>1, <2>2 DEF JobRefreshRefused
<1>9. ASSUME NEW c \in ConfigIds, JobDone(c) PROVE Order!Next
  BY <1>2, <1>9, EndJobOrder DEF JobDone
<1>10. ASSUME NEW c \in ConfigIds, Thread(c) PROVE Order!Next
  BY <1>10, ThreadOrder
<1>11. ASSUME NEW r \in RunIds, CancelRead(r) PROVE Order!Next
  BY <1>1, <1>2, <1>11 DEF CancelRead
<1>12. CASE CancelWrite
  <2>1. Line' = Line \ {cancelling}
    BY <1>12, UpdatedLine DEF CancelWrite, TypeOK, Statuses, Terminal
  <2>. QED  BY <1>1, <1>12, <2>1 DEF CancelWrite
<1>13. ASSUME NEW c \in ConfigIds, DeleteConfig(c) PROVE Order!Next
  <2>1. Line' \subseteq Line  BY <1>13 DEF DeleteConfig, Line
  <2>. QED  BY <1>1, <1>13, <2>1 DEF DeleteConfig, memory
<1>14. CASE TokenExpire \/ TokenRenew \/ UNCHANGED vars
  BY <1>1, <1>2, <1>14 DEF TokenExpire, TokenRenew, vars, memory
<1>15. CASE Restart
  <2>1. Line' = {} /\ Serving' = {}
    BY <1>15 DEF Restart, Line, IsActive, Active, Serving, InThread, Idle, ThreadPc
  <2>2. Order!Reset  BY <2>1 DEF LineIsOfRows, Older, Serving, Order!Reset
  <2>. QED  BY <2>2 DEF Order!Next
<1>. QED
  BY <1>5, <1>6, <1>7, <1>8, <1>9, <1>10, <1>11, <1>12, <1>13, <1>14, <1>15
     DEF Next, RunnerFails, CreateConfig

(* With force_queue the rows, the queue and the runner together implement  *)
(* RunQueue: one run at a time, first come first served, and what was      *)
(* cancelled, refused or deleted while it waited is never served, however  *)
(* requests, refreshes, cancellations, threads and restarts interleave.    *)
THEOREM ServedInOrder ==
  ASSUME ForceQueue, ~ReuseIds, ~DbErrors
  PROVE  Spec => SubmissionOrder
<1>1. Init => Order!Init
  BY DEF Init, Order!Init, InLine, AheadInLine, InThread, Idle, ThreadPc
<1>2. TypeOK /\ OwnInv /\ LineIsSorted => LineIsOfRows
  BY LineView
<1>3. TypeOK /\ FlagInv /\ OwnInv /\ LineIsSorted /\ LineIsOfRows /\ LineIsOfRows' /\ [Next]_vars
        => [Order!Next]_(Order!vars)
  BY OrderStep
<1>. QED
  BY <1>1, <1>2, <1>3, TypeCorrect, FlagInvariant, OwnInvariant, LineInvariant, PTL
     DEF Spec, SubmissionOrder, Order!Spec

-----------------------------------------------------------------------------
(* The queue position: the rows counted by their ids are the items counted *)
(* by their places, and the runner's item.                                 *)

LEMMA PositionInLine ==
  ASSUME TypeOK, OwnInv, LineIsSorted
  PROVE  QueuePositionHonest
<1>. SUFFICES ASSUME NEW i \in 1..Len(queue), runs[queue[i].run].status = "queued"
              PROVE  ShownPosition(queue[i].run) =
                       Cardinality({j \in 1..i : runs[queue[j].run].status = "queued"})
                       + (IF current # NoItem /\ runs[current.run].status = "queued" THEN 1 ELSE 0)
  BY DEF QueuePositionHonest
<1>. DEFINE r == queue[i].run
            Places == {j \in 1..i : runs[queue[j].run].status = "queued"}
            Rows == {q \in RunIds : q <= r /\ runs[q].status = "queued"}
            InQueue == {q \in Rows : q # current.run}
            f == [j \in Places |-> queue[j].run]
<1>1. /\ Len(queue) \in Nat /\ i \in Int /\ 1..i \subseteq 1..Len(queue)
      /\ \A j \in 1..Len(queue) : queue[j] \in Item /\ queue[j] \in QueueItems
                                  /\ queue[j].run \in RunIds /\ queue[j].run \in Int
  <2>1. Len(queue) \in Nat /\ \A j \in 1..Len(queue) : queue[j] \in Item
    BY DEF TypeOK
  <2>2. \A x \in Item : x.run \in RunIds /\ x.run \in Int
    BY DEF Item, RunIds
  <2>3. i \in Int /\ 1..i \subseteq 1..Len(queue)
    BY <2>1
  <2>. QED  BY <2>1, <2>2, <2>3 DEF QueueItems
<1>2. \A j \in 1..Len(queue) : queue[j].run # current.run
  BY <1>1 DEF LineIsSorted, NoItem, NoRun, RunIds
<1>3. \A j \in 1..i : j # i => queue[j].run < r
  BY <1>1 DEF LineIsSorted
<1>4. IsFiniteSet(Places)
  <2>1. IsFiniteSet(1..i)  BY <1>1, FS_Interval
  <2>. QED  BY <2>1, FS_Subset
<1>5. \A j \in Places : j \in 1..Len(queue) /\ queue[j].run \in InQueue
  BY <1>1, <1>2, <1>3
<1>6. ASSUME NEW q \in InQueue PROVE \E j \in Places : queue[j].run = q
  <2>1. q \in RunIds /\ q \in Int /\ q <= r /\ runs[q].status = "queued" /\ q # current.run
    BY DEF RunIds
  <2>2. QueuedIsOwned(q)  BY <2>1 DEF OwnInv, Owned
  <2>3. PICK j \in 1..Len(queue) : queue[j].run = q
    BY <2>1, <2>2 DEF QueuedIsOwned, QueueItems
  <2>4. ~(i < j)  BY <1>1, <2>1, <2>3 DEF LineIsSorted
  <2>5. j \in 1..i  BY <1>1, <2>4
  <2>. QED  BY <2>1, <2>3, <2>5
<1>7. ASSUME NEW j \in Places, NEW k \in Places, queue[j].run = queue[k].run PROVE j = k
  <2>1. ~(j < k) /\ ~(k < j) /\ j \in Int /\ k \in Int
    BY <1>1, <1>5, <1>7 DEF LineIsSorted
  <2>. QED  BY <2>1
<1>8. IsFiniteSet(InQueue) /\ Cardinality(InQueue) = Cardinality(Places)
  <2>1. f \in [Places -> InQueue]  BY <1>5
  <2>2. \A j, k \in Places : f[j] = f[k] => j = k  BY <1>7
  <2>3. \A q \in InQueue : \E j \in Places : f[j] = q  BY <1>6
  <2>4. DOMAIN f = Places  OBVIOUS
  <2>. HIDE DEF f
  <2>5. f \in Bijection(Places, InQueue)
    BY <2>1, <2>2, <2>3, <2>4 DEF Bijection, Injection, Surjection, IsInjective
  <2>6. ExistsBijection(Places, InQueue)  BY <2>5 DEF ExistsBijection
  <2>. QED  BY <1>4, <2>6, FS_Bijection
<1>9. Cardinality(Places) \in Nat  BY <1>4, FS_CardinalityType
<1>10. CASE current # NoItem /\ runs[current.run].status = "queued"
  <2>1. current.run \in RunIds /\ current.run < r
    BY <1>1, <1>10 DEF TypeOK, Item, LineIsSorted
  <2>2. Rows = InQueue \cup {current.run} /\ current.run \notin InQueue
    BY <1>1, <1>10, <2>1 DEF RunIds
  <2>3. Cardinality(Rows) = Cardinality(InQueue) + 1  BY <1>8, <2>2, FS_AddElement
  <2>. QED  BY <1>8, <1>10, <2>3 DEF ShownPosition
<1>11. CASE ~(current # NoItem /\ runs[current.run].status = "queued")
  <2>1. Rows = InQueue
    BY <1>11 DEF NoItem, NoRun, RunIds
  <2>2. ShownPosition(r) = Cardinality(Places)  BY <1>8, <2>1 DEF ShownPosition
  <2>. QED  BY <1>9, <1>11, <2>2
<1>. QED  BY <1>10, <1>11

(* The position a user is shown is that of the run in the line: computed   *)
(* from the rows alone, it agrees with the queue the runner serves.        *)
THEOREM PositionIsHonest ==
  ASSUME ~ReuseIds, ~DbErrors
  PROVE  Spec => []QueuePositionHonest
<1>1. TypeOK /\ OwnInv /\ LineIsSorted => QueuePositionHonest
  BY PositionInLine
<1>. QED  BY <1>1, TypeCorrect, OwnInvariant, LineInvariant, PTL

=============================================================================
