------------------------------ MODULE RateLimiter ------------------------------
(***************************************************************************)
(* One bucket of the rate limiter (larksync/utils/rate_limit.py) that every *)
(* API call passes before each attempt, under the threads of several jobs  *)
(* and of the image downloads.  The buckets of different keys share        *)
(* nothing but the short critical section that creates their locks.        *)
(*                                                                         *)
(* The sliding window is a deque of the times of recent grants; a caller   *)
(* reads the clock, prunes the deque and appends to it in separate steps,  *)
(* and sleeps while it holds the bucket's lock.                            *)
(***************************************************************************)
EXTENDS Integers, Sequences, FiniteSets

CONSTANTS
  Threads,      \* the threads that call acquire
  NoThread,     \* stands for no thread
  Capacity,     \* rule.capacity; acquire returns at once if it is not positive
  Interval,     \* rule.interval, in ticks of the clock
  MaxClock,     \* bound: the clock stops here unless somebody sleeps
  MaxGrants     \* bound: calls that are let through

ASSUME LimiterAssumption ==
  /\ NoThread \notin Threads
  /\ Capacity \in Nat \ {0}
  /\ Interval \in Nat
  /\ MaxClock \in Nat
  /\ MaxGrants \in Nat

VARIABLES
  clock,        \* time.monotonic()
  lock,         \* _locks[key], named after the thread that created it
  mine,         \* the lock a thread has found in _locks
  holder,       \* who holds each lock
  pc,           \* where a thread is in acquire
  now,          \* the clock as a thread last read it
  wake,         \* when a sleeping thread wakes up
  bucket,       \* _timestamps[key]
  log           \* all grants in order (history): the clock as it was read,
                \* and as it is when the call is let through

vars == <<clock, lock, mine, holder, pc, now, wake, bucket, log>>

Inside == {"reading", "pruning", "granted", "sleeping"}

TypeOK ==
  /\ clock \in Nat
  /\ lock \in Threads \cup {NoThread}
  /\ mine \in [Threads -> Threads \cup {NoThread}]
  /\ holder \in [Threads -> Threads \cup {NoThread}]
  /\ pc \in [Threads -> {"idle", "locking"} \cup Inside]
  /\ now \in [Threads -> Nat]
  /\ wake \in [Threads -> Nat]
  /\ bucket \in Seq(Nat)
  /\ Len(bucket) <= Capacity
  /\ log \in Seq([read : Nat, at : Nat])

Init ==
  /\ clock = 0
  /\ lock = NoThread
  /\ mine = [t \in Threads |-> NoThread]
  /\ holder = [t \in Threads |-> NoThread]
  /\ pc = [t \in Threads |-> "idle"]
  /\ now = [t \in Threads |-> 0]
  /\ wake = [t \in Threads |-> 0]
  /\ bucket = <<>>
  /\ log = <<>>

Moves(t, to) == pc' = [pc EXCEPT ![t] = to]

(* Faulty variant: without _locks_guard a thread may miss the other's lock *)
FindLockUnguarded(t) ==
  /\ pc[t] = "idle"
  /\ Len(log) < MaxGrants
  /\ lock' \in {lock, t}
  /\ lock' # NoThread
  /\ mine' = [mine EXCEPT ![t] = lock']
  /\ Moves(t, "locking")
  /\ UNCHANGED <<clock, holder, now, wake, bucket, log>>

(* Under _locks_guard: the bucket's lock, created by the first who asks.   *)
FindLock(t) ==
  /\ pc[t] = "idle"
  /\ Len(log) < MaxGrants
  /\ lock' = IF lock = NoThread THEN t ELSE lock
  /\ mine' = [mine EXCEPT ![t] = lock']
  /\ Moves(t, "locking")
  /\ UNCHANGED <<clock, holder, now, wake, bucket, log>>

Lock(t) ==
  /\ pc[t] = "locking"
  /\ holder[mine[t]] = NoThread
  /\ holder' = [holder EXCEPT ![mine[t]] = t]
  /\ Moves(t, "reading")
  /\ UNCHANGED <<clock, lock, mine, now, wake, bucket, log>>

(* An iteration of the loop starts with the clock.                         *)
ReadClock(t) ==
  /\ pc[t] = "reading"
  /\ now' = [now EXCEPT ![t] = clock]
  /\ Moves(t, "pruning")
  /\ UNCHANGED <<clock, lock, mine, holder, wake, bucket, log>>

Stale(t) == bucket # <<>> /\ Head(bucket) < now[t] - Interval

Prune(t) ==
  /\ pc[t] = "pruning"
  /\ Stale(t)
  /\ bucket' = Tail(bucket)
  /\ UNCHANGED <<clock, lock, mine, holder, pc, now, wake, log>>

(* Faulty variant: one grant too many.                                      *)
DecideOneMore(t) ==
  /\ pc[t] = "pruning"
  /\ ~Stale(t)
  /\ Len(bucket) <= Capacity
  /\ Moves(t, "granted")
  /\ UNCHANGED <<clock, lock, mine, holder, now, wake, bucket, log>>

(* What is left of the bucket decides: room, a wait, or one that has       *)
(* reached the age of Interval just now.                                   *)
Decide(t) ==
  /\ pc[t] = "pruning"
  /\ ~Stale(t)
  /\ \/ /\ Len(bucket) < Capacity
        /\ Moves(t, "granted")
        /\ UNCHANGED <<wake, bucket>>
     \/ /\ Len(bucket) >= Capacity
        /\ Head(bucket) + Interval > now[t]
        /\ Moves(t, "sleeping")
        /\ wake' = [wake EXCEPT ![t] = Head(bucket) + Interval]
        /\ UNCHANGED bucket
     \/ /\ Len(bucket) >= Capacity
        /\ Head(bucket) + Interval <= now[t]
        /\ bucket' = Tail(bucket)
        /\ Moves(t, "reading")
        /\ UNCHANGED wake
  /\ UNCHANGED <<clock, lock, mine, holder, now, log>>

(* bucket.append(now), return, release: the time that is noted is the one  *)
(* that was read, however long ago.                                        *)
Grant(t) ==
  /\ pc[t] = "granted"
  /\ bucket' = Append(bucket, now[t])
  /\ log' = Append(log, [read |-> now[t], at |-> clock])
  /\ holder' = [holder EXCEPT ![mine[t]] = NoThread]
  /\ Moves(t, "idle")
  /\ UNCHANGED <<clock, lock, mine, now, wake>>

(* Faulty variant: the clock is not read again after the sleep.            *)
WakeUpStale(t) ==
  /\ pc[t] = "sleeping"
  /\ clock >= wake[t]
  /\ Moves(t, "pruning")
  /\ UNCHANGED <<clock, lock, mine, holder, now, wake, bucket, log>>

WakeUp(t) ==
  /\ pc[t] = "sleeping"
  /\ clock >= wake[t]
  /\ Moves(t, "reading")
  /\ UNCHANGED <<clock, lock, mine, holder, now, wake, bucket, log>>

Tick ==
  /\ clock < MaxClock \/ \E t \in Threads : pc[t] = "sleeping" /\ clock < wake[t]
  /\ clock' = clock + 1
  /\ UNCHANGED <<lock, mine, holder, pc, now, wake, bucket, log>>

Next ==
  \/ \E t \in Threads :
       \/ FindLock(t) \/ Lock(t) \/ ReadClock(t) \/ Prune(t)
       \/ Decide(t) \/ Grant(t) \/ WakeUp(t)
  \/ Tick

Spec == Init /\ [][Next]_vars

(* Time passes, and the thread that holds the lock runs.                   *)
HolderRuns ==
  \A t \in Threads :
    /\ WF_vars(ReadClock(t))
    /\ WF_vars(Prune(t) \/ Decide(t))
    /\ WF_vars(Grant(t))
    /\ WF_vars(WakeUp(t))

FairSpec == Spec /\ WF_vars(Tick) /\ HolderRuns

-----------------------------------------------------------------------------
(* The window, by the clock at which the lock is released to let a call     *)
(* through (what the caller's thread does then is its own).  A caller is   *)
(* judged by a clock it read earlier, so Capacity calls in an Interval is  *)
(* not kept: one that is let through late may be followed too soon.  But   *)
(* the next is read behind the lock, after it, so the excess is one call:  *)
(* an Interval passes between a grant and the (Capacity + 1)-th after it,  *)
(* and between a caller's reading and the Capacity-th grant after its own. *)
RateIsLimited ==
  \A i, j \in DOMAIN log :
    /\ j = i + Capacity => log[j].at >= log[i].read + Interval
    /\ j = i + Capacity + 1 => log[j].at >= log[i].at + Interval

(* The holder of the lock does not sleep for ever: the lock is released.   *)
LockIsReleased ==
  \A t \in Threads : pc[t] \in Inside ~> pc[t] = "idle"

=============================================================================
