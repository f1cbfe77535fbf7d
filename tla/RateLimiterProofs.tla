-------------------------- MODULE RateLimiterProofs --------------------------
(***************************************************************************)
(* What the rate limiter keeps of its window holds for any number of        *)
(* threads, any capacity and any interval.                                 *)
(***************************************************************************)
EXTENDS RateLimiter, TLAPS

-----------------------------------------------------------------------------
(* Mutual exclusion: there is one lock, and who is inside holds it.        *)

LockInv ==
  /\ \A t \in Threads : pc[t] # "idle" => mine[t] = lock /\ lock # NoThread
  /\ \A t \in Threads : pc[t] \in Inside => holder[lock] = t

(* The bucket is the recent end of the log; what was pruned is old enough  *)
(* for whoever has read the clock; who is granted found room.              *)
Pruned == Len(log) - Len(bucket)

WindowInv ==
  /\ Len(bucket) <= Len(log)
  /\ \A i \in 1..Len(bucket) : bucket[i] = log[Pruned + i].read
  /\ \A i \in 1..Len(log) : log[i].read <= log[i].at /\ log[i].at <= clock
  /\ \A i \in 1..Pruned : log[i].read + Interval <= clock
  /\ \A t \in Threads : now[t] <= clock
  /\ \A t \in Threads : pc[t] \in {"pruning", "granted"} =>
       /\ \A i \in 1..Pruned : log[i].read + Interval <= now[t]
       /\ \A i \in 1..Len(log) : log[i].at <= now[t]
  /\ \A t \in Threads : pc[t] = "granted" => Len(bucket) < Capacity

(* Nobody reads the clock before the grant in front of it is through.      *)
OrderInv ==
  \A i, j \in 1..Len(log) : i < j => log[i].at <= log[j].read

Stamp == [read : Nat, at : Nat]

(* What the deque's two operations do.                                     *)
LEMMA TailOf ==
  ASSUME NEW s \in Seq(Nat), s # <<>>
  PROVE  /\ Tail(s) \in Seq(Nat)
         /\ Len(s) \in Nat \ {0}
         /\ Len(Tail(s)) = Len(s) - 1
         /\ Head(s) = s[1]
         /\ Head(s) \in Nat
         /\ \A i \in 1..(Len(s) - 1) : Tail(s)[i] = s[i + 1]
<1>1. Len(s) \in Nat \ {0}  OBVIOUS
<1>2. Tail(s) \in Seq(Nat) /\ Len(Tail(s)) = Len(s) - 1  BY <1>1
<1>3. Head(s) = s[1] /\ Head(s) \in Nat  BY <1>1
<1>4. \A i \in 1..(Len(s) - 1) : Tail(s)[i] = s[i + 1]  BY <1>1
<1>. QED  BY <1>1, <1>2, <1>3, <1>4

LEMMA TimesOf ==
  ASSUME NEW s \in Seq(Stamp)
  PROVE  /\ Len(s) \in Nat
         /\ \A i \in 1..Len(s) : s[i] \in Stamp /\ s[i].read \in Nat /\ s[i].at \in Nat
<1>1. Len(s) \in Nat /\ \A i \in 1..Len(s) : s[i] \in Stamp  OBVIOUS
<1>2. \A e \in Stamp : e.read \in Nat /\ e.at \in Nat  BY DEF Stamp
<1>. QED  BY <1>1, <1>2

LEMMA AppendOf ==
  ASSUME NEW s \in Seq(Nat), NEW n \in Nat
  PROVE  /\ Append(s, n) \in Seq(Nat)
         /\ Len(s) \in Nat
         /\ Len(Append(s, n)) = Len(s) + 1
         /\ \A i \in 1..Len(s) : Append(s, n)[i] = s[i]
         /\ Append(s, n)[Len(s) + 1] = n
OBVIOUS

LEMMA LogOf ==
  ASSUME NEW s \in Seq(Stamp), NEW n \in Nat, NEW c \in Nat
  PROVE  LET more == Append(s, [read |-> n, at |-> c])
         IN  /\ more \in Seq(Stamp)
             /\ Len(s) \in Nat
             /\ Len(more) = Len(s) + 1
             /\ \A i \in 1..Len(s) : more[i] = s[i]
             /\ more[Len(s) + 1].read = n
             /\ more[Len(s) + 1].at = c
BY DEF Stamp

LEMMA TypeStep == TypeOK /\ LockInv /\ WindowInv /\ [Next]_vars => TypeOK'
<1>. SUFFICES ASSUME TypeOK, LockInv, WindowInv, [Next]_vars PROVE TypeOK'
  OBVIOUS
<1>. USE LimiterAssumption DEF TypeOK, Inside, Moves, Stamp
<1>1. ASSUME NEW t \in Threads, FindLock(t) PROVE TypeOK'
  BY <1>1 DEF FindLock
<1>2. ASSUME NEW t \in Threads, Lock(t) PROVE TypeOK'
  BY <1>2 DEF Lock
<1>3. ASSUME NEW t \in Threads, ReadClock(t) PROVE TypeOK'
  BY <1>3 DEF ReadClock
<1>4. ASSUME NEW t \in Threads, Prune(t) PROVE TypeOK'
  <2>1. bucket \in Seq(Nat) /\ bucket # <<>> /\ bucket' = Tail(bucket)
    BY <1>4 DEF Prune, Stale
  <2>2. bucket' \in Seq(Nat) /\ Len(bucket') <= Capacity
    BY <2>1, TailOf
  <2>. QED  BY <1>4, <2>2 DEF Prune
<1>5. ASSUME NEW t \in Threads, Decide(t) PROVE TypeOK'
  <2>1. CASE UNCHANGED <<wake, bucket>>
    BY <1>5, <2>1 DEF Decide
  <2>2. CASE /\ Len(bucket) >= Capacity
             /\ wake' = [wake EXCEPT ![t] = Head(bucket) + Interval]
             /\ UNCHANGED bucket
    <3>1. bucket \in Seq(Nat) /\ bucket # <<>>  BY <2>2
    <3>2. Head(bucket) + Interval \in Nat  BY <3>1, TailOf
    <3>3. wake' \in [Threads -> Nat]  BY <2>2, <3>2
    <3>. QED  BY <1>5, <2>2, <3>3 DEF Decide
  <2>3. CASE Len(bucket) >= Capacity /\ bucket' = Tail(bucket) /\ UNCHANGED wake
    <3>1. bucket \in Seq(Nat) /\ bucket # <<>>  BY <2>3
    <3>2. bucket' \in Seq(Nat) /\ Len(bucket') <= Capacity
      BY <2>3, <3>1, TailOf
    <3>. QED  BY <1>5, <2>3, <3>2 DEF Decide
  <2>. QED  BY <1>5, <2>1, <2>2, <2>3 DEF Decide
<1>6. ASSUME NEW t \in Threads, Grant(t) PROVE TypeOK'
  <2>1. Len(bucket) < Capacity  BY <1>6 DEF Grant, WindowInv
  <2>2. bucket \in Seq(Nat) /\ log \in Seq(Stamp) /\ now[t] \in Nat /\ clock \in Nat
    OBVIOUS
  <2>3. bucket' = Append(bucket, now[t]) /\ log' = Append(log, [read |-> now[t], at |-> clock])
    BY <1>6 DEF Grant
  <2>4. bucket' \in Seq(Nat) /\ Len(bucket') <= Capacity
    BY <2>1, <2>2, <2>3, AppendOf
  <2>5. log' \in Seq(Stamp)
    BY <2>2, <2>3, LogOf
  <2>. QED  BY <1>6, <2>4, <2>5 DEF Grant
<1>7. ASSUME NEW t \in Threads, WakeUp(t) PROVE TypeOK'
  BY <1>7 DEF WakeUp
<1>8. CASE Tick  BY <1>8 DEF Tick
<1>9. CASE UNCHANGED vars  BY <1>9 DEF vars
<1>. QED  BY <1>1, <1>2, <1>3, <1>4, <1>5, <1>6, <1>7, <1>8, <1>9 DEF Next

LEMMA LockStep == TypeOK /\ LockInv /\ [Next]_vars => LockInv'
<1>. SUFFICES ASSUME TypeOK, LockInv, [Next]_vars PROVE LockInv'
  OBVIOUS
<1>. USE LimiterAssumption DEF TypeOK, LockInv, Inside, Moves
<1>1. ASSUME NEW t \in Threads, FindLock(t) PROVE LockInv'
  BY <1>1 DEF FindLock
<1>2. ASSUME NEW t \in Threads, Lock(t) PROVE LockInv'
  BY <1>2 DEF Lock
<1>3. ASSUME NEW t \in Threads, ReadClock(t) PROVE LockInv'
  BY <1>3 DEF ReadClock
<1>4. ASSUME NEW t \in Threads, Prune(t) PROVE LockInv'
  BY <1>4 DEF Prune
<1>5. ASSUME NEW t \in Threads, Decide(t) PROVE LockInv'
  BY <1>5 DEF Decide
<1>6. ASSUME NEW t \in Threads, Grant(t) PROVE LockInv'
  <2>1. \A u \in Threads : pc[u] \in Inside => u = t  BY <1>6 DEF Grant
  <2>. QED  BY <1>6, <2>1 DEF Grant
<1>7. ASSUME NEW t \in Threads, WakeUp(t) PROVE LockInv'
  BY <1>7 DEF WakeUp
<1>8. CASE Tick \/ UNCHANGED vars
  BY <1>8 DEF Tick, vars
<1>. QED  BY <1>1, <1>2, <1>3, <1>4, <1>5, <1>6, <1>7, <1>8 DEF Next

LEMMA OneInside ==
  ASSUME LockInv, NEW t \in Threads, NEW u \in Threads, pc[t] \in Inside, pc[u] \in Inside
  PROVE  t = u
BY DEF LockInv

(* A step that drops the head of the bucket, which is old enough.          *)
LEMMA DropHead ==
  ASSUME TypeOK, LockInv, WindowInv, NEW t \in Threads, pc[t] = "pruning",
         bucket # <<>>, Head(bucket) + Interval <= now[t], bucket' = Tail(bucket),
         UNCHANGED <<clock, now, log>>,
         \A u \in Threads : pc'[u] \in {"pruning", "granted"} => u = t,
         pc'[t] # "granted"
  PROVE  WindowInv'
<1>1. /\ Capacity \in Nat /\ Interval \in Nat /\ clock \in Nat /\ now[t] \in Nat
      /\ bucket \in Seq(Nat) /\ Len(log) \in Nat
      /\ \A i \in 1..Len(log) : log[i].read \in Nat /\ log[i].at \in Nat
  BY LimiterAssumption, TimesOf DEF TypeOK, Stamp
<1>2. /\ Len(bucket) \in Nat \ {0} /\ Len(bucket') = Len(bucket) - 1
      /\ Head(bucket) = bucket[1]
      /\ \A i \in 1..(Len(bucket) - 1) : bucket'[i] = bucket[i + 1]
  BY <1>1, TailOf
<1>3. /\ Pruned \in Nat /\ Pruned' = Pruned + 1 /\ Pruned' <= Len(log)
      /\ Len(bucket') <= Len(log)
  BY <1>1, <1>2 DEF Pruned, WindowInv
<1>4. bucket[1] = log[Pruned + 1].read
  BY <1>2 DEF WindowInv
<1>5. ASSUME NEW i \in 1..Len(bucket') PROVE bucket'[i] = log[Pruned' + i].read
  <2>1. i \in 1..(Len(bucket) - 1) /\ i + 1 \in 1..Len(bucket)
    BY <1>2
  <2>2. bucket'[i] = log[Pruned + (i + 1)].read
    BY <1>2, <2>1 DEF WindowInv
  <2>. QED  BY <1>3, <2>1, <2>2
<1>6. ASSUME NEW i \in 1..Pruned' PROVE log[i].read + Interval <= now[t] /\ log[i].read + Interval <= clock
  <2>1. log[i].read + Interval <= now[t]
    <3>1. CASE i \in 1..Pruned  BY <3>1 DEF WindowInv
    <3>2. CASE i = Pruned + 1  BY <1>2, <1>4, <3>2
    <3>. QED  BY <1>3, <3>1, <3>2
  <2>2. now[t] <= clock  BY DEF WindowInv
  <2>3. log[i].read \in Nat  BY <1>1, <1>3
  <2>. QED  BY SMTT(30), <1>1, <2>1, <2>2, <2>3
<1>7. \A i \in 1..Len(log) : log[i].read <= log[i].at /\ log[i].at <= clock /\ log[i].at <= now[t]
  BY DEF WindowInv
<1>8. \A u \in Threads : now'[u] <= clock'
  BY DEF WindowInv
<1>. QED  BY <1>3, <1>5, <1>6, <1>7, <1>8 DEF WindowInv

LEMMA WindowStep == TypeOK /\ LockInv /\ WindowInv /\ [Next]_vars => WindowInv'
<1>. SUFFICES ASSUME TypeOK, LockInv, WindowInv, [Next]_vars PROVE WindowInv'
  OBVIOUS
<1>t. /\ Capacity \in Nat /\ Interval \in Nat /\ clock \in Nat
      /\ now \in [Threads -> Nat] /\ DOMAIN pc = Threads
      /\ bucket \in Seq(Nat) /\ Len(bucket) \in Nat
      /\ log \in Seq(Stamp) /\ Len(log) \in Nat
      /\ \A i \in 1..Len(log) : log[i].read \in Nat /\ log[i].at \in Nat
  BY LimiterAssumption, TimesOf DEF TypeOK, Stamp
<1>. USE <1>t DEF Moves
<1>s. ASSUME UNCHANGED <<clock, now, bucket, log>>,
             \A u \in Threads : pc'[u] \in {"pruning", "granted"} => pc'[u] = pc[u]
      PROVE  WindowInv'
  BY <1>s DEF WindowInv, Pruned
<1>1. ASSUME NEW t \in Threads, FindLock(t) \/ Lock(t) \/ WakeUp(t) PROVE WindowInv'
  BY <1>1, <1>s DEF FindLock, Lock, WakeUp
<1>2. ASSUME NEW t \in Threads, ReadClock(t) PROVE WindowInv'
  <2>1. now'[t] = clock /\ \A u \in Threads : u # t => now'[u] = now[u] /\ pc'[u] = pc[u]
    BY <1>2 DEF ReadClock
  <2>2. UNCHANGED <<clock, bucket, log>> /\ Pruned' = Pruned /\ pc'[t] # "granted"
    BY <1>2 DEF ReadClock, Pruned
  <2>3. \A u \in Threads : now'[u] <= clock
    <3>1. \A u \in Threads : now[u] <= clock  BY DEF WindowInv
    <3>2. clock <= clock  OBVIOUS
    <3>. QED  BY <2>1, <3>1, <3>2, Zenon
  <2>4. ASSUME NEW u \in Threads, pc'[u] \in {"pruning", "granted"}
        PROVE  /\ \A i \in 1..Pruned : log[i].read + Interval <= now'[u]
               /\ \A i \in 1..Len(log) : log[i].at <= now'[u]
    BY <2>1, <2>4 DEF WindowInv
  <2>5. \A u \in Threads : pc'[u] = "granted" => Len(bucket) < Capacity
    BY <2>1, <2>2 DEF WindowInv
  <2>. QED  BY <2>2, <2>3, <2>4, <2>5 DEF WindowInv
<1>3. ASSUME NEW t \in Threads, Prune(t) PROVE WindowInv'
  <2>1. Head(bucket) + Interval <= now[t]
    <3>1. bucket # <<>> /\ now[t] \in Nat
      BY <1>3 DEF Prune, Stale
    <3>2. Head(bucket) \in Nat  BY <3>1, TailOf
    <3>3. Head(bucket) < now[t] - Interval  BY <1>3 DEF Prune, Stale
    <3>. QED  BY <3>1, <3>2, <3>3
  <2>2. \A u \in Threads : pc'[u] \in {"pruning", "granted"} => u = t
    BY <1>3, OneInside DEF Prune, Inside
  <2>. QED  BY <1>3, <2>1, <2>2, DropHead DEF Prune, Stale
<1>4. ASSUME NEW t \in Threads, Decide(t) PROVE WindowInv'
  <2>1. CASE Len(bucket) < Capacity /\ Moves(t, "granted") /\ UNCHANGED bucket
    <3>1. \A u \in Threads : IF u = t THEN pc'[u] = "granted" ELSE pc'[u] = pc[u]
      BY <2>1
    <3>. QED  BY <1>4, <2>1, <3>1 DEF Decide, WindowInv, Pruned
  <2>2. CASE Moves(t, "sleeping") /\ UNCHANGED bucket
    BY <1>4, <2>2, <1>s DEF Decide
  <2>3. CASE /\ Len(bucket) >= Capacity
             /\ Head(bucket) + Interval <= now[t]
             /\ bucket' = Tail(bucket)
             /\ Moves(t, "reading")
    <3>0. Capacity >= 1  BY LimiterAssumption
    <3>1. bucket # <<>>  BY <2>3, <3>0
    <3>2. \A u \in Threads : pc'[u] \in {"pruning", "granted"} => u = t
      BY <1>4, <2>3, OneInside DEF Decide, Inside
    <3>. QED  BY <1>4, <2>3, <3>1, <3>2, DropHead DEF Decide
  <2>. QED  BY <1>4, <2>1, <2>2, <2>3 DEF Decide
<1>5. ASSUME NEW t \in Threads, Grant(t) PROVE WindowInv'
  <2>1. /\ Len(bucket) \in Nat /\ Len(log) \in Nat /\ now[t] \in Nat
        /\ Len(bucket') = Len(bucket) + 1
        /\ \A i \in 1..Len(bucket) : bucket'[i] = bucket[i]
        /\ bucket'[Len(bucket) + 1] = now[t]
    BY <1>5, AppendOf DEF Grant
  <2>0. /\ Len(log') = Len(log) + 1
        /\ \A i \in 1..Len(log) : log'[i] = log[i]
        /\ log'[Len(log) + 1].read = now[t]
        /\ log'[Len(log) + 1].at = clock
    BY <1>5, LogOf DEF Grant
  <2>2. Pruned' = Pruned /\ Pruned \in Nat
    BY <2>0, <2>1 DEF Pruned, WindowInv
  <2>3. \A i \in 1..Len(bucket') : bucket'[i] = log'[Pruned' + i].read
    <3>1. ASSUME NEW i \in 1..Len(bucket) PROVE bucket'[i] = log'[Pruned' + i].read
      <4>1. Pruned + i \in 1..Len(log)  BY <2>0, <2>1 DEF Pruned, WindowInv
      <4>. QED  BY <2>0, <2>1, <2>2, <4>1 DEF WindowInv
    <3>2. Pruned' + (Len(bucket) + 1) = Len(log) + 1  BY <2>0, <2>1, <2>2 DEF Pruned
    <3>3. \A i \in 1..Len(bucket') : i \in 1..Len(bucket) \/ i = Len(bucket) + 1
      BY <2>0, <2>1
    <3>. QED  BY <2>0, <2>1, <3>1, <3>2, <3>3
  <2>4. \A u \in Threads : pc'[u] \notin {"pruning", "granted"}
    BY <1>5, OneInside DEF Grant, Inside
  <2>5. now[t] <= clock /\ UNCHANGED <<clock, now>>
    BY <1>5 DEF Grant, WindowInv
  <2>6. \A i \in 1..Len(log') : log'[i].read <= log'[i].at /\ log'[i].at <= clock
    <3>. SUFFICES ASSUME NEW i \in 1..Len(log')
                  PROVE  log'[i].read <= log'[i].at /\ log'[i].at <= clock
      OBVIOUS
    <3>1. CASE i \in 1..Len(log)
      <4>1. log[i].read <= log[i].at /\ log[i].at <= clock  BY <3>1 DEF WindowInv
      <4>. QED  BY <2>0, <3>1, <4>1
    <3>2. CASE i = Len(log) + 1  BY <2>0, <2>5, <3>2
    <3>3. i \in 1..Len(log) \/ i = Len(log) + 1  BY <2>0, <2>1
    <3>. QED  BY <3>1, <3>2, <3>3
  <2>7. \A i \in 1..Pruned' : log'[i].read + Interval <= clock
    <3>1. \A i \in 1..Pruned : i \in 1..Len(log)  BY <2>0, <2>1 DEF Pruned
    <3>2. \A i \in 1..Pruned : log[i].read + Interval <= clock  BY DEF WindowInv
    <3>. QED  BY <2>0, <2>1, <2>2, <3>1, <3>2
  <2>8. Len(bucket') <= Len(log') /\ \A u \in Threads : now'[u] <= clock'
    BY <2>0, <2>1, <2>5 DEF WindowInv
  <2>. QED  BY <2>3, <2>4, <2>5, <2>6, <2>7, <2>8 DEF WindowInv
<1>6. CASE Tick
  <2>1. clock' = clock + 1 /\ UNCHANGED <<pc, now, bucket, log>>
    BY <1>6 DEF Tick
  <2>2. Pruned' = Pruned /\ \A i \in 1..Pruned : i \in 1..Len(log)
    BY <2>1 DEF Pruned
  <2>3. \A i \in 1..Len(log) : log[i].read <= log[i].at /\ log[i].at <= clock'
    BY <2>1 DEF WindowInv
  <2>4. \A i \in 1..Pruned : log[i].read + Interval <= clock'
    BY <2>1, <2>2 DEF WindowInv
  <2>5. \A u \in Threads : now[u] <= clock'
    BY <2>1 DEF WindowInv
  <2>. QED  BY <2>1, <2>2, <2>3, <2>4, <2>5 DEF WindowInv
<1>7. CASE UNCHANGED vars  BY <1>7, <1>s DEF vars
<1>. QED  BY <1>1, <1>2, <1>3, <1>4, <1>5, <1>6, <1>7 DEF Next

(* What a grant's reading is later than, by the window and by the lock.    *)
LEMMA OrderStep ==
  TypeOK /\ LockInv /\ WindowInv /\ OrderInv /\ [Next]_vars => OrderInv'
<1>. SUFFICES ASSUME TypeOK, LockInv, WindowInv, OrderInv, [Next]_vars
              PROVE  OrderInv'
  OBVIOUS
<1>1. ASSUME NEW t \in Threads, Grant(t) PROVE OrderInv'
  <2>1. log \in Seq(Stamp) /\ now[t] \in Nat /\ clock \in Nat
    BY DEF TypeOK, Stamp
  <2>2. /\ Len(log) \in Nat /\ Len(log') = Len(log) + 1
        /\ \A i \in 1..Len(log) : log'[i] = log[i]
        /\ log'[Len(log) + 1].read = now[t]
    BY <1>1, <2>1, LogOf DEF Grant
  <2>3. \A i \in 1..Len(log) : log[i].at <= now[t]
    BY <1>1 DEF Grant, WindowInv
  <2>4. ASSUME NEW i \in 1..Len(log'), NEW j \in 1..Len(log'), i < j
        PROVE  log'[i].at <= log'[j].read
    <3>1. i \in 1..Len(log)  BY <2>2, <2>4
    <3>2. CASE j \in 1..Len(log)
      <4>1. log[i].at <= log[j].read  BY <2>4, <3>1, <3>2 DEF OrderInv
      <4>. QED  BY <2>2, <3>1, <3>2, <4>1
    <3>3. CASE j = Len(log) + 1  BY <2>2, <2>3, <3>1, <3>3
    <3>4. j \in 1..Len(log) \/ j = Len(log) + 1  BY <2>2
    <3>. QED  BY <3>2, <3>3, <3>4
  <2>. QED  BY <2>4 DEF OrderInv
<1>2. CASE UNCHANGED log  BY <1>2 DEF OrderInv
<1>3. ASSUME NEW t \in Threads,
             \/ FindLock(t) \/ Lock(t) \/ ReadClock(t) \/ Prune(t) \/ Decide(t) \/ WakeUp(t)
      PROVE  UNCHANGED log
  BY <1>3 DEF FindLock, Lock, ReadClock, Prune, Decide, WakeUp
<1>4. Tick \/ UNCHANGED vars => UNCHANGED log  BY DEF Tick, vars
<1>. QED  BY <1>1, <1>2, <1>3, <1>4 DEF Next

(* A grant finds the Capacity-th before it among the pruned ones; the one  *)
(* before that was through when the pruned one read the clock.             *)
LEMMA RateStep ==
  TypeOK /\ LockInv /\ WindowInv /\ OrderInv /\ RateIsLimited /\ [Next]_vars => RateIsLimited'
<1>. SUFFICES ASSUME TypeOK, LockInv, WindowInv, OrderInv, RateIsLimited, [Next]_vars
              PROVE  RateIsLimited'
  OBVIOUS
<1>t. /\ Capacity \in Nat \ {0} /\ Interval \in Nat /\ now \in [Threads -> Nat]
      /\ clock \in Nat /\ bucket \in Seq(Nat) /\ Len(bucket) \in Nat
      /\ log \in Seq(Stamp) /\ Len(log) \in Nat /\ DOMAIN log = 1..Len(log)
      /\ \A i \in 1..Len(log) : log[i].read \in Nat /\ log[i].at \in Nat
  BY LimiterAssumption, TimesOf DEF TypeOK, Stamp
<1>. USE <1>t
<1>1. ASSUME NEW t \in Threads, Grant(t) PROVE RateIsLimited'
  <2>1. /\ log' \in Seq(Stamp) /\ Len(log') = Len(log) + 1
        /\ \A i \in 1..Len(log) : log'[i] = log[i]
        /\ log'[Len(log) + 1].at = clock
    BY <1>1, LogOf DEF Grant
  <2>2. Len(bucket) < Capacity /\ \A i \in 1..Pruned : log[i].read + Interval <= now[t]
    BY <1>1 DEF Grant, WindowInv
  <2>3. now[t] \in Nat /\ now[t] <= clock  BY DEF WindowInv
  <2>4. DOMAIN log' = 1..(Len(log) + 1)  BY <2>1
  <2>5. ASSUME NEW i \in 1..Len(log), i + Capacity <= Len(log) + 1
        PROVE  log[i].read + Interval <= clock
    <3>1. i \in 1..Pruned  BY <2>2, <2>5 DEF Pruned
    <3>2. log[i].read + Interval <= now[t] /\ log[i].read + Interval \in Int
      BY <2>2, <3>1
    <3>. QED  BY <2>3, <3>2
  <2>6. ASSUME NEW i \in DOMAIN log', NEW j \in DOMAIN log', j = i + Capacity
        PROVE  log'[j].at >= log'[i].read + Interval
    <3>1. i \in 1..Len(log) /\ log'[i] = log[i]  BY <2>1, <2>4, <2>6
    <3>2. CASE j \in 1..Len(log)
      <4>1. log[j].at >= log[i].read + Interval  BY <2>6, <3>1, <3>2 DEF RateIsLimited
      <4>. QED  BY <2>1, <3>1, <3>2, <4>1
    <3>3. CASE j = Len(log) + 1
      <4>1. log[i].read + Interval <= clock  BY <2>5, <2>6, <3>1, <3>3
      <4>. QED  BY <2>1, <3>1, <3>3, <4>1
    <3>4. j \in 1..Len(log) \/ j = Len(log) + 1  BY <2>4
    <3>. QED  BY <3>2, <3>3, <3>4
  <2>7. ASSUME NEW i \in DOMAIN log', NEW j \in DOMAIN log', j = i + Capacity + 1
        PROVE  log'[j].at >= log'[i].at + Interval
    <3>1. i \in 1..Len(log) /\ i + 1 \in 1..Len(log) /\ log'[i] = log[i]
      BY <2>1, <2>4, <2>7
    <3>2. CASE j \in 1..Len(log)
      <4>1. log[j].at >= log[i].at + Interval  BY <2>7, <3>1, <3>2 DEF RateIsLimited
      <4>. QED  BY <2>1, <3>1, <3>2, <4>1
    <3>3. CASE j = Len(log) + 1
      <4>1. log[i].at <= log[i + 1].read  BY <3>1 DEF OrderInv
      <4>2. log[i + 1].read + Interval <= clock  BY <2>5, <2>7, <3>1, <3>3
      <4>3. log[i].at \in Nat /\ log[i + 1].read \in Nat  BY <3>1
      <4>4. log[i].at + Interval <= clock  BY SMTT(30), <4>1, <4>2, <4>3
      <4>. QED  BY <2>1, <3>1, <3>3, <4>4
    <3>4. j \in 1..Len(log) \/ j = Len(log) + 1  BY <2>4
    <3>. QED  BY <3>2, <3>3, <3>4
  <2>. QED  BY <2>6, <2>7 DEF RateIsLimited
<1>2. CASE UNCHANGED log  BY <1>2 DEF RateIsLimited
<1>3. ASSUME NEW t \in Threads,
             \/ FindLock(t) \/ Lock(t) \/ ReadClock(t) \/ Prune(t) \/ Decide(t) \/ WakeUp(t)
      PROVE  UNCHANGED log
  BY <1>3 DEF FindLock, Lock, ReadClock, Prune, Decide, WakeUp
<1>4. Tick \/ UNCHANGED vars => UNCHANGED log  BY DEF Tick, vars
<1>. QED  BY <1>1, <1>2, <1>3, <1>4 DEF Next

(* By the clock at which calls are let through, no Interval sees more than *)
(* Capacity calls of a key and one that was held up behind its reading,    *)
(* however many threads call, whenever they read the clock.                *)
THEOREM RateHolds == Spec => []RateIsLimited
<1>. USE LimiterAssumption
<1>1. Init => TypeOK /\ LockInv /\ WindowInv /\ OrderInv /\ RateIsLimited
  BY DEF Init, TypeOK, LockInv, WindowInv, OrderInv, RateIsLimited, Pruned, Inside
<1>2. TypeOK /\ LockInv /\ WindowInv /\ OrderInv /\ RateIsLimited /\ [Next]_vars
        => (TypeOK /\ LockInv /\ WindowInv /\ OrderInv /\ RateIsLimited)'
  BY TypeStep, LockStep, WindowStep, OrderStep, RateStep
<1>. QED  BY <1>1, <1>2, PTL DEF Spec

(* The limiter's variables always have their types; the bucket never holds *)
(* more than Capacity times.                                               *)
THEOREM LimiterTypeCorrect == Spec => []TypeOK
<1>. USE LimiterAssumption
<1>1. Init => TypeOK /\ LockInv /\ WindowInv
  BY DEF Init, TypeOK, LockInv, WindowInv, Pruned, Inside
<1>2. TypeOK /\ LockInv /\ WindowInv /\ [Next]_vars => (TypeOK /\ LockInv /\ WindowInv)'
  BY TypeStep, LockStep, WindowStep
<1>. QED  BY <1>1, <1>2, PTL DEF Spec

=============================================================================
