--------------------------- MODULE SchedulerProofs --------------------------
(***************************************************************************)
(* The safety of Scheduler, for every number of threads and functions and  *)
(* every delay.                                                            *)
(***************************************************************************)
EXTENDS Scheduler, FiniteSetTheorems, SequenceTheorems, TLAPS

IsTimer(t) == pc[t] \in {"task_cv", "task_woken"}

(* A thread has an entry while it runs its function.                       *)
RunsEntry == \A t \in Threads : pc[t] = "run" <=> running[t] # NoEntry

(* OneTimer, thread by thread.                                             *)
Timers ==
    /\ \A t \in Threads : IsTimer(t) => task
    /\ task => \E t \in Threads : IsTimer(t)
    /\ \A t, s \in Threads : IsTimer(t) /\ IsTimer(s) => t = s

(* A function is in one place at a time, and only after it was scheduled.  *)
InOnePlace ==
    /\ \A t \in Threads : running[t] # NoEntry => running[t].job \in scheduled
    /\ \A i \in 1 .. Len(tasks) : tasks[i].job \in scheduled
    /\ \A t, s \in Threads :
          running[t] # NoEntry /\ running[s] # NoEntry /\ running[t].job = running[s].job => t = s
    /\ \A i, k \in 1 .. Len(tasks) : tasks[i].job = tasks[k].job => i = k
    /\ \A t \in Threads, i \in 1 .. Len(tasks) :
          running[t] # NoEntry => running[t].job # tasks[i].job

(* NoStrandedTask needs to know that the flag `task' is never up without a *)
(* thread that waits: with it a thread may go to sleep on queue_cv.        *)
IInv == TypeOK /\ RunsEntry /\ Timers /\ InOnePlace /\ NoStrandedTask

-----------------------------------------------------------------------------
(* emplace adds one entry and keeps the others in their order.             *)
LEMMA EmplaceAdds ==
    ASSUME NEW q \in Seq(Entry), NEW e \in Entry, NEW r \in Emplace(q, e)
    PROVE  /\ r \in Seq(Entry) /\ Len(r) = Len(q) + 1
           /\ \E n \in 0 .. Len(q) :
                /\ r[n + 1] = e
                /\ \A i \in 1 .. n : r[i] = q[i]
                /\ \A i \in (n + 1) .. Len(q) : r[i + 1] = q[i]
<1>1. PICK n \in 0 .. Len(q) : r = SubSeq(q, 1, n) \o <<e>> \o SubSeq(q, n + 1, Len(q))
  BY DEF Emplace
<1> DEFINE front == SubSeq(q, 1, n)
           back == SubSeq(q, n + 1, Len(q))
<1>2. /\ front \in Seq(Entry) /\ Len(front) = n
      /\ \A i \in 1 .. n : front[i] = q[i]
  BY SubSeqProperties
<1>3. /\ back \in Seq(Entry) /\ Len(back) = Len(q) - n
      /\ \A i \in 1 .. (Len(q) - n) : back[i] = q[n + i]
  BY SubSeqProperties
<1> HIDE DEF front, back
<1> DEFINE most == front \o <<e>>
<1>4. /\ most \in Seq(Entry) /\ Len(most) = n + 1
      /\ \A i \in 1 .. n : most[i] = front[i]
      /\ most[n + 1] = e
  BY <1>2, ConcatProperties
<1> HIDE DEF most
<1> DEFINE all == most \o back
<1>5. /\ all \in Seq(Entry) /\ Len(all) = Len(most) + Len(back)
      /\ \A i \in 1 .. Len(most) + Len(back) : all[i] = IF i <= Len(most) THEN most[i] ELSE back[i - Len(most)]
  BY <1>3, <1>4, ConcatProperties
<1>6. r = all
  BY <1>1 DEF most, front, back
<1> HIDE DEF all
<1>7. n \in Nat /\ Len(q) \in Nat /\ n <= Len(q) /\ Len(most) + Len(back) = Len(q) + 1
  BY <1>3, <1>4
<1>8. \A i \in 1 .. (Len(q) + 1) : all[i] = IF i <= n + 1 THEN most[i] ELSE back[i - (n + 1)]
  BY <1>4, <1>5, <1>7
<1>9. \A i \in 1 .. n : all[i] = q[i]
  BY <1>2, <1>4, <1>7, <1>8
<1>10. all[n + 1] = e
  BY <1>4, <1>7, <1>8
<1>11. ASSUME NEW i \in (n + 1) .. Len(q)  PROVE all[i + 1] = q[i]
  <2>1. i \in Nat /\ i + 1 \in 1 .. (Len(q) + 1) /\ ~ (i + 1 <= n + 1)
        /\ (i + 1) - (n + 1) = i - n /\ i - n \in 1 .. (Len(q) - n) /\ n + (i - n) = i
    BY <1>7
  <2>2. all[i + 1] = back[(i + 1) - (n + 1)]
    BY <1>8, <2>1
  <2> QED
    BY <1>3, <2>1, <2>2
<1> QED
  BY <1>5, <1>6, <1>7, <1>9, <1>10, <1>11

(* notify_one of queue_cv wakes a thread if there is one to wake ...       *)
LEMMA NotifyQueueWakes ==
    ASSUME NEW p \in [Threads -> PC], NEW r \in NotifyQueue(p)
    PROVE  /\ r \in [Threads -> PC]
           /\ \A t \in Threads : r[t] # p[t] => p[t] = "queue_cv" /\ r[t] = "lock"
           /\ (\E t \in Threads : p[t] = "queue_cv") => \E t \in Threads : r[t] = "lock"
  BY DEF NotifyQueue, NotifyOne, Waiting, PC

(* ... and that of task_cv does so.                                        *)
LEMMA NotifyTaskWakes ==
    ASSUME NEW p \in [Threads -> PC], NEW r \in NotifyTask(p)
    PROVE  /\ r \in [Threads -> PC]
           /\ \A t \in Threads : r[t] # p[t] => p[t] = "task_cv" /\ r[t] = "task_woken"
  BY DEF NotifyTask, NotifyOne, Waiting, PC

(* What wait_until waits for is a delay.                                   *)
LEMMA HeadDelay ==
    ASSUME TypeOK, tasks # << >>
    PROVE  tasks[1] \in Entry /\ tasks[1].delay \in 0 .. MaxDelay
<1>1. tasks \in Seq(Entry) /\ 1 \in 1 .. Len(tasks)
  BY DEF TypeOK
<1>2. tasks[1] \in Entry
  BY <1>1
<1> QED
  BY <1>2 DEF Entry

(* Nobody else runs the function or has it queued.                         *)
Free(j) ==
    /\ \A t \in Threads : running'[t] # NoEntry => running'[t] = running[t] /\ running[t].job # j
    /\ \A i \in 1 .. Len(tasks) : tasks[i].job # j

(* Entries put into the queue by whoever holds the job they are for.       *)
LEMMA EmplaceKeeps ==
    ASSUME TypeOK, InOnePlace, NEW e \in Entry, tasks' \in Emplace(tasks, e),
           scheduled' = scheduled \cup {e.job},
           running' \in [Threads -> Entry \cup {NoEntry}], Free(e.job)
    PROVE  tasks' \in Seq(Entry) /\ tasks' # << >> /\ InOnePlace'
<1>1. tasks \in Seq(Entry)
  BY DEF TypeOK
<1>2. tasks' \in Seq(Entry) /\ Len(tasks') = Len(tasks) + 1
  BY <1>1, EmplaceAdds
<1>3. PICK n \in 0 .. Len(tasks) :
         /\ tasks'[n + 1] = e
         /\ \A i \in 1 .. n : tasks'[i] = tasks[i]
         /\ \A i \in (n + 1) .. Len(tasks) : tasks'[i + 1] = tasks[i]
  BY <1>1, EmplaceAdds
<1>4. Len(tasks) \in Nat /\ n \in Nat /\ n <= Len(tasks)
  BY <1>1
<1> DEFINE Old(i) == IF i <= n THEN i ELSE i - 1
<1>5. \A i \in 1 .. Len(tasks') : i # n + 1 => Old(i) \in 1 .. Len(tasks) /\ tasks'[i] = tasks[Old(i)]
  <2> SUFFICES ASSUME NEW i \in 1 .. Len(tasks'), i # n + 1
               PROVE  Old(i) \in 1 .. Len(tasks) /\ tasks'[i] = tasks[Old(i)]
    OBVIOUS
  <2>1. CASE i <= n
    BY <1>2, <1>3, <1>4, <2>1
  <2>2. CASE i > n + 1
    <3>1. i - 1 \in (n + 1) .. Len(tasks) /\ (i - 1) + 1 = i /\ ~(i <= n)
      BY <1>2, <1>4, <2>2
    <3> QED
      BY <1>3, <1>4, <3>1
  <2> QED
    BY <1>2, <1>4, <2>1, <2>2
<1>6. \A i, k \in 1 .. Len(tasks') : i # n + 1 /\ k # n + 1 /\ Old(i) = Old(k) => i = k
  BY <1>2, <1>4
<1> HIDE DEF Old
<1>7. \A i, k \in 1 .. Len(tasks') : tasks'[i].job = tasks'[k].job => i = k
  <2> SUFFICES ASSUME NEW i \in 1 .. Len(tasks'), NEW k \in 1 .. Len(tasks'),
                      tasks'[i].job = tasks'[k].job
               PROVE  i = k
    OBVIOUS
  <2>1. CASE i # n + 1 /\ k # n + 1
    <3>1. Old(i) = Old(k)
      BY <1>5, <2>1 DEF InOnePlace
    <3> QED
      BY <1>6, <2>1, <3>1
  <2>2. CASE i = n + 1 /\ k # n + 1
    BY <1>3, <1>5, <2>2 DEF Free
  <2>3. CASE i # n + 1 /\ k = n + 1
    BY <1>3, <1>5, <2>3 DEF Free
  <2> QED
    BY <2>1, <2>2, <2>3
<1>8. \A i \in 1 .. Len(tasks') : tasks'[i].job \in scheduled'
  BY <1>3, <1>5 DEF InOnePlace
<1>9. \A t \in Threads, i \in 1 .. Len(tasks') : running'[t] # NoEntry => running'[t].job # tasks'[i].job
  <2> SUFFICES ASSUME NEW t \in Threads, NEW i \in 1 .. Len(tasks'), running'[t] # NoEntry
               PROVE  running'[t].job # tasks'[i].job
    OBVIOUS
  <2>1. running'[t] = running[t] /\ running[t].job # e.job
    BY DEF Free
  <2>2. CASE i = n + 1
    BY <1>3, <2>1, <2>2
  <2>3. CASE i # n + 1
    <3>1. Old(i) \in 1 .. Len(tasks) /\ tasks'[i] = tasks[Old(i)]
      BY <1>5, <2>3
    <3>2. running[t].job # tasks[Old(i)].job
      BY <2>1, <3>1 DEF InOnePlace
    <3> QED  BY <2>1, <3>1, <3>2
  <2> QED  BY <2>2, <2>3
<1>10. tasks' # << >>
  BY <1>2, <1>4
<1> QED
  BY <1>2, <1>7, <1>8, <1>9, <1>10 DEF InOnePlace, Free

-----------------------------------------------------------------------------
(* schedule(): the queue grows and somebody is notified.                   *)
LEMMA ScheduleKeeps ==
    ASSUME IInv, NEW j \in Jobs, NEW d \in 0 .. MaxDelay,
           ScheduleAt(j, d) \/ (ScheduleEvery(j, d) /\ d # 0)
    PROVE  IInv'
<1>1. PICK e \in Entry :
         /\ e.job = j /\ j \notin scheduled /\ scheduled' = scheduled \cup {j}
         /\ tasks' \in Emplace(tasks, e) /\ pc' \in NotifyQueue(pc)
         /\ UNCHANGED <<task, stop, deadline, running>>
  BY DEF ScheduleAt, ScheduleEvery, schedule_intern, Entry
<1>2. interval' \in [Jobs -> 0 .. MaxDelay]
  BY DEF ScheduleAt, ScheduleEvery, IInv, TypeOK
<1>3. tasks' \in Seq(Entry) /\ tasks' # << >> /\ InOnePlace'
  <2>1. \A t \in Threads : running'[t] # NoEntry => running'[t] = running[t] /\ running[t].job # j
    BY <1>1 DEF IInv, InOnePlace
  <2>2. \A i \in 1 .. Len(tasks) : tasks[i].job # j
    BY <1>1 DEF IInv, InOnePlace
  <2>3. running' \in [Threads -> Entry \cup {NoEntry}]
    BY <1>1 DEF IInv, TypeOK
  <2>4. /\ TypeOK /\ InOnePlace /\ e \in Entry /\ e.job = j
        /\ tasks' \in Emplace(tasks, e) /\ scheduled' = scheduled \cup {e.job}
    BY <1>1 DEF IInv
  <2>5. Free(e.job)
    BY <2>1, <2>2, <2>4 DEF Free
  <2> QED
    BY ONLY <2>3, <2>4, <2>5, EmplaceKeeps
<1>4. /\ pc' \in [Threads -> PC]
      /\ \A t \in Threads : pc'[t] # pc[t] => pc[t] = "queue_cv" /\ pc'[t] = "lock"
      /\ (\E t \in Threads : pc[t] = "queue_cv") => \E t \in Threads : pc'[t] = "lock"
  <2>1. pc \in [Threads -> PC] /\ pc' \in NotifyQueue(pc)
    BY <1>1 DEF IInv, TypeOK
  <2> QED  BY ONLY <2>1, NotifyQueueWakes
<1>5. TypeOK'
  BY <1>1, <1>2, <1>3, <1>4 DEF IInv, TypeOK
<1>6. RunsEntry'
  BY <1>1, <1>4 DEF IInv, RunsEntry
<1>7. Timers'
  BY <1>1, <1>4 DEF IInv, Timers, IsTimer
<1>8. NoStrandedTask'
  BY <1>1, <1>4 DEF NoStrandedTask, Waiting
<1> QED
  BY <1>3, <1>5, <1>6, <1>7, <1>8 DEF IInv

(* shutdown(): the timer, if there is one, is notified, and all the idle.  *)
LEMMA ShutdownKeeps ==
    ASSUME IInv, Shutdown
    PROVE  IInv'
<1> DEFINE woken == [t \in Threads |-> IF pc[t] = "queue_cv" THEN "lock" ELSE pc[t]]
<1>1. woken \in [Threads -> PC]
  BY DEF IInv, TypeOK, PC
<1>2. /\ pc' \in [Threads -> PC]
      /\ \A t \in Threads : pc'[t] # woken[t] => woken[t] = "task_cv" /\ pc'[t] = "task_woken"
  <2> HIDE DEF woken
  <2> QED  BY <1>1, NotifyTaskWakes DEF Shutdown, woken
<1>3. \A t \in Threads : (pc'[t] = "run" <=> pc[t] = "run") /\ (IsTimer(t)' <=> IsTimer(t))
  BY <1>2 DEF IsTimer
<1>4. TypeOK' /\ NoStrandedTask'
  BY <1>2 DEF Shutdown, IInv, TypeOK, NoStrandedTask
<1>5. RunsEntry'
  BY <1>3 DEF Shutdown, IInv, RunsEntry
<1>6. Timers'
  BY <1>3 DEF Shutdown, IInv, Timers
<1>7. InOnePlace'
  BY DEF Shutdown, IInv, InOnePlace
<1> QED
  BY <1>4, <1>5, <1>6, <1>7 DEF IInv

(* An iteration of loop(), by a thread that is about to take the mutex     *)
(* and finds the flag up only if another thread is the timer.              *)
LEMMA IterateKeeps ==
    ASSUME IInv, NEW t \in Threads, NEW flag \in BOOLEAN, Iterate(t, flag),
           \/ pc[t] = "lock" /\ flag = task
           \/ pc[t] = "task_woken" /\ flag = FALSE
    PROVE  IInv'
<1> DEFINE Others == Threads \ {t}
<1>1. /\ running[t] = NoEntry
      /\ \A s \in Others : IsTimer(s) => flag
      /\ flag => \E s \in Others : IsTimer(s)
  BY DEF IInv, RunsEntry, Timers, IsTimer
<1>2. CASE RunHead(t, flag)
  <2> DEFINE pcs == [pc EXCEPT ![t] = "run"]
  <2>1. pcs \in [Threads -> PC] /\ pcs[t] = "run" /\ \A s \in Others : pcs[s] = pc[s]
    BY DEF IInv, TypeOK, PC
  <2>2. /\ ~stop /\ tasks # << >> /\ task' = flag
        /\ running' = [running EXCEPT ![t] = Head(tasks)] /\ tasks' = Tail(tasks)
        /\ UNCHANGED <<stop, deadline, scheduled, interval>>
        /\ pc' \in IF flag THEN NotifyTask(pcs) ELSE NotifyQueue(pcs)
    BY <1>2 DEF RunHead, is_runnable, Iterate
  <2> HIDE DEF pcs
  <2>3. /\ pc' \in [Threads -> PC] /\ pc'[t] = "run"
        /\ \A s \in Others : (pc'[s] = "run" <=> pc[s] = "run") /\ (IsTimer(s)' <=> IsTimer(s))
        /\ flag \/ (\E s \in Others : pc[s] = "queue_cv") => \E s \in Others : pc'[s] = "lock" \/ IsTimer(s)'
        /\ \A s \in Others : pc'[s] = "queue_cv" => pc[s] = "queue_cv"
    <3>1. CASE flag
      <4>1. /\ pc' \in [Threads -> PC]
            /\ \A s \in Threads : pc'[s] # pcs[s] => pcs[s] = "task_cv" /\ pc'[s] = "task_woken"
        BY <2>1, <2>2, <3>1, NotifyTaskWakes
      <4> QED
        BY <1>1, <2>1, <3>1, <4>1 DEF IsTimer
    <3>2. CASE ~flag
      <4>1. /\ pc' \in [Threads -> PC]
            /\ \A s \in Threads : pc'[s] # pcs[s] => pcs[s] = "queue_cv" /\ pc'[s] = "lock"
            /\ (\E s \in Threads : pcs[s] = "queue_cv") => \E s \in Threads : pc'[s] = "lock"
        BY <2>1, <2>2, <3>2, NotifyQueueWakes
      <4> QED
        BY <2>1, <3>2, <4>1 DEF IsTimer
    <3> QED
      BY <3>1, <3>2
  <2>4. /\ tasks \in Seq(Entry) /\ Len(tasks) \in Nat /\ Len(tasks) >= 1
        /\ Head(tasks) = tasks[1] /\ tasks[1] \in Entry
        /\ tasks' \in Seq(Entry) /\ Len(tasks') = Len(tasks) - 1
        /\ \A i \in 1 .. Len(tasks') : tasks'[i] = tasks[i + 1]
    BY <2>2, HeadTailProperties DEF IInv, TypeOK
  <2>5. /\ running'[t] = tasks[1] /\ \A s \in Others : running'[s] = running[s]
        /\ running' \in [Threads -> Entry \cup {NoEntry}] /\ tasks[1] # NoEntry
    BY <2>2, <2>4, SchedulerAssumption DEF IInv, TypeOK
  <2>6. TypeOK'
    BY <2>2, <2>3, <2>4, <2>5 DEF IInv, TypeOK
  <2>7. RunsEntry'
    BY <2>3, <2>5 DEF IInv, RunsEntry
  <2>8. Timers'
    BY <1>1, <2>2, <2>3 DEF IInv, Timers, IsTimer
  <2>9. InOnePlace'
    <3>1. \A i \in 1 .. Len(tasks') : i + 1 \in 1 .. Len(tasks) /\ i + 1 # 1
      BY <2>4
    <3>2. 1 \in 1 .. Len(tasks)
      BY <2>4
    <3>3. /\ \A s \in Threads : running'[s] # NoEntry => running'[s].job \in scheduled'
          /\ \A i \in 1 .. Len(tasks') : tasks'[i].job \in scheduled'
      BY <2>2, <2>4, <2>5, <3>1, <3>2 DEF IInv, InOnePlace
    <3>4. \A i, k \in 1 .. Len(tasks') : tasks'[i].job = tasks'[k].job => i = k
      <4> SUFFICES ASSUME NEW i \in 1 .. Len(tasks'), NEW k \in 1 .. Len(tasks'),
                          tasks'[i].job = tasks'[k].job
                   PROVE  i = k
        OBVIOUS
      <4>1. i + 1 = k + 1
        BY <2>4, <3>1 DEF IInv, InOnePlace
      <4> QED
        BY <2>4, <4>1
    <3>5. \A s \in Threads, i \in 1 .. Len(tasks') : running'[s] # NoEntry => running'[s].job # tasks'[i].job
      BY <2>4, <2>5, <3>1, <3>2 DEF IInv, InOnePlace
    <3>6. \A r, s \in Threads : running'[r] # NoEntry /\ running'[s] # NoEntry
                               /\ running'[r].job = running'[s].job => r = s
      BY <2>5, <3>2 DEF IInv, InOnePlace
    <3> QED
      BY <3>3, <3>4, <3>5, <3>6 DEF InOnePlace
  <2>10. NoStrandedTask'
    BY <2>3 DEF NoStrandedTask, Waiting, IsTimer
  <2> QED
    BY <2>6, <2>7, <2>8, <2>9, <2>10 DEF IInv
<1>3. CASE WaitForHead(t, flag)
  <2>1. /\ UNCHANGED <<tasks, running, stop, scheduled, interval>>
        /\ ~flag /\ task' = TRUE /\ tasks # << >>
        /\ deadline' = [deadline EXCEPT ![t] = tasks[1].delay]
        /\ pc' = [pc EXCEPT ![t] = "task_cv"]
    BY <1>3 DEF WaitForHead, Iterate
  <2>2. tasks[1].delay \in 0 .. MaxDelay
    BY <2>1, HeadDelay DEF IInv
  <2>3. TypeOK'
    BY <2>1, <2>2 DEF IInv, TypeOK, PC
  <2>4. RunsEntry' /\ InOnePlace'
    BY <1>1, <2>1 DEF IInv, TypeOK, RunsEntry, InOnePlace
  <2>5. Timers'
    BY <1>1, <2>1 DEF IInv, TypeOK, Timers, IsTimer
  <2>6. NoStrandedTask'
    <3>1. pc'[t] = "task_cv"
      BY <2>1 DEF IInv, TypeOK
    <3> QED
      BY <3>1 DEF NoStrandedTask
  <2> QED
    BY <2>3, <2>4, <2>5, <2>6 DEF IInv
<1>4. CASE WaitForWork(t, flag)
  <2>1. /\ UNCHANGED <<tasks, running, deadline, stop, scheduled, interval>>
        /\ tasks = << >> \/ flag
        /\ task' = flag /\ pc' = [pc EXCEPT ![t] = "queue_cv"]
    BY <1>4 DEF WaitForWork, Iterate
  <2>2. TypeOK'
    BY <2>1 DEF IInv, TypeOK, PC
  <2>3. RunsEntry' /\ InOnePlace'
    BY <1>1, <2>1 DEF IInv, TypeOK, RunsEntry, InOnePlace
  <2>4. Timers'
    BY <1>1, <2>1 DEF IInv, TypeOK, Timers, IsTimer
  <2>5. NoStrandedTask'
    BY <1>1, <2>1 DEF IInv, TypeOK, NoStrandedTask, IsTimer
  <2> QED
    BY <2>2, <2>3, <2>4, <2>5 DEF IInv
<1>5. CASE Leave(t, flag)
  <2>1. /\ UNCHANGED <<tasks, running, deadline, stop, scheduled, interval>>
        /\ stop /\ task' = flag /\ pc' = [pc EXCEPT ![t] = "done"]
    BY <1>5 DEF Leave, Iterate
  <2>2. TypeOK'
    BY <2>1 DEF IInv, TypeOK, PC
  <2>3. RunsEntry' /\ InOnePlace' /\ NoStrandedTask'
    BY <1>1, <2>1 DEF IInv, TypeOK, RunsEntry, InOnePlace, NoStrandedTask
  <2>4. Timers'
    BY <1>1, <2>1 DEF IInv, TypeOK, Timers, IsTimer
  <2> QED
    BY <2>2, <2>3, <2>4 DEF IInv
<1> QED
  BY <1>2, <1>3, <1>4, <1>5 DEF Iterate

(* Waking up and waiting again.                                            *)
LEMMA WaitKeeps ==
    ASSUME IInv, NEW t \in Threads, WaitAgain(t) \/ Timeout(t) \/ Spurious(t)
    PROVE  IInv'
<1>1. /\ UNCHANGED <<tasks, task, stop, running, scheduled, interval>>
      /\ \/ pc[t] \in {"task_cv", "task_woken"} /\ pc' = [pc EXCEPT ![t] = "task_woken"]
         \/ pc[t] \in {"task_cv", "task_woken"} /\ pc' = [pc EXCEPT ![t] = "task_cv"]
         \/ pc[t] = "queue_cv" /\ pc' = [pc EXCEPT ![t] = "lock"]
  BY DEF WaitAgain, Timeout, Spurious
<1>2. deadline' \in [Threads -> 0 .. MaxDelay]
  <2>1. CASE WaitAgain(t)
    <3>1. tasks[1].delay \in 0 .. MaxDelay
      BY <2>1, HeadDelay DEF WaitAgain, IInv
    <3> QED
      BY <2>1, <3>1 DEF WaitAgain, IInv, TypeOK
  <2>2. CASE Timeout(t) \/ Spurious(t)
    BY <2>2 DEF Timeout, Spurious, IInv, TypeOK
  <2> QED
    BY <2>1, <2>2
<1>3. TypeOK'
  BY <1>1, <1>2 DEF IInv, TypeOK, PC
<1>4. RunsEntry' /\ InOnePlace'
  BY <1>1 DEF IInv, TypeOK, RunsEntry, InOnePlace
<1>5. Timers'
  BY <1>1 DEF IInv, TypeOK, Timers, IsTimer
<1>6. NoStrandedTask'
  BY <1>1 DEF IInv, TypeOK, NoStrandedTask
<1> QED
  BY <1>3, <1>4, <1>5, <1>6 DEF IInv

(* A function returns, and a wrapper schedules it again.                   *)
LEMMA FinishKeeps ==
    ASSUME IInv, NEW t \in Threads, Finish(t)
    PROVE  IInv'
<1> DEFINE e == running[t]
           pcs == [pc EXCEPT ![t] = "lock"]
<1>1. pcs \in [Threads -> PC] /\ pcs[t] = "lock" /\ \A s \in Threads \ {t} : pcs[s] = pc[s]
  BY DEF IInv, TypeOK, PC
<1>2. /\ e \in Entry /\ pc[t] = "run" /\ running' = [running EXCEPT ![t] = NoEntry]
      /\ UNCHANGED <<task, stop, deadline, scheduled, interval>>
  BY DEF Finish, IInv, TypeOK, RunsEntry
<1>3. /\ running' \in [Threads -> Entry \cup {NoEntry}] /\ running'[t] = NoEntry
      /\ \A s \in Threads \ {t} : running'[s] = running[s]
  BY <1>2 DEF IInv, TypeOK
<1>4. /\ pc' \in [Threads -> PC] /\ pc'[t] = "lock"
      /\ \A s \in Threads \ {t} : pc'[s] # pc[s] => pc[s] = "queue_cv" /\ pc'[s] = "lock"
  <2> HIDE DEF pcs
  <2>1. CASE e.wrapper
    <3>1. pc' \in NotifyQueue(pcs)
      BY <2>1 DEF Finish, schedule_intern, pcs
    <3> QED
      BY <1>1, <3>1, NotifyQueueWakes
  <2>2. CASE ~e.wrapper
    BY <1>1, <2>2 DEF Finish, pcs
  <2> QED
    BY <2>1, <2>2
<1>5. tasks' \in Seq(Entry) /\ InOnePlace'
  <2>1. CASE e.wrapper
    <3> DEFINE n == Reschedule(e)
    <3>1. n \in Entry /\ n.job = e.job /\ tasks' \in Emplace(tasks, n)
      BY <1>2, <2>1 DEF Finish, schedule_intern, Reschedule, Entry, IInv, TypeOK
    <3>2. e.job \in scheduled /\ \A i \in 1 .. Len(tasks) : tasks[i].job # e.job
      BY <1>2, SchedulerAssumption DEF IInv, InOnePlace
    <3>3. \A s \in Threads : running'[s] # NoEntry =>
             running'[s] = running[s] /\ running[s].job # e.job
      BY <1>2, <1>3, SchedulerAssumption DEF IInv, InOnePlace
    <3>4. scheduled' = scheduled \cup {e.job}
      BY <1>2, <3>2
    <3>5. Free(n.job)
      BY <3>1, <3>2, <3>3 DEF Free
    <3>6. TypeOK /\ InOnePlace /\ scheduled' = scheduled \cup {n.job}
      BY <3>1, <3>4 DEF IInv
    <3> HIDE DEF n
    <3> QED
      BY <1>3, <3>1, <3>5, <3>6, EmplaceKeeps
  <2>2. CASE ~e.wrapper
    <3>1. tasks' = tasks
      BY <2>2 DEF Finish
    <3> QED
      BY <1>2, <1>3, <3>1 DEF IInv, TypeOK, InOnePlace
  <2> QED
    BY <2>1, <2>2
<1>6. TypeOK'
  BY <1>2, <1>3, <1>4, <1>5 DEF IInv, TypeOK
<1>7. RunsEntry'
  BY <1>3, <1>4 DEF IInv, RunsEntry
<1>8. Timers'
  BY <1>2, <1>4 DEF IInv, Timers, IsTimer
<1>9. NoStrandedTask'
  BY <1>4 DEF NoStrandedTask
<1> QED
  BY <1>5, <1>6, <1>7, <1>8, <1>9 DEF IInv

(* Time takes delays down and changes nothing else.                        *)
LEMMA TickKeeps ==
    ASSUME IInv, Tick
    PROVE  IInv'
<1>1. /\ UNCHANGED <<task, stop, pc, running, scheduled, interval>>
      /\ tasks' = [i \in 1 .. Len(tasks) |-> [tasks[i] EXCEPT !.delay = Less(@)]]
      /\ deadline' = [t \in Threads |-> Less(deadline[t])]
  BY DEF Tick
<1>2. \A d \in 0 .. MaxDelay : Less(d) \in 0 .. MaxDelay
  BY SchedulerAssumption DEF Less
<1>3. Len(tasks) \in Nat /\ \A i \in 1 .. Len(tasks) : tasks[i] \in Entry
  BY DEF IInv, TypeOK
<1>4. \A i \in 1 .. Len(tasks) : tasks'[i] \in Entry /\ tasks'[i].job = tasks[i].job
  BY <1>1, <1>2, <1>3 DEF Entry
<1>5. tasks' \in Seq(Entry) /\ Len(tasks') = Len(tasks)
  <2>1. tasks' \in [1 .. Len(tasks) -> Entry]
    BY <1>1, <1>4
  <2> QED
    BY <1>3, <2>1, SeqDef, LenProperties
<1>6. TypeOK'
  BY <1>1, <1>2, <1>5 DEF IInv, TypeOK
<1>7. RunsEntry' /\ Timers'
  BY <1>1 DEF IInv, RunsEntry, Timers, IsTimer
<1>8. InOnePlace'
  BY <1>1, <1>4, <1>5 DEF IInv, InOnePlace
<1>9. NoStrandedTask'
  BY <1>1, <1>3, <1>5 DEF IInv, NoStrandedTask, Waiting
<1> QED
  BY <1>6, <1>7, <1>8, <1>9 DEF IInv

-----------------------------------------------------------------------------
(* The inductive invariant holds in every state.                           *)
THEOREM Invariance == Spec => []IInv
<1>1. Init => IInv
  <2> SUFFICES ASSUME Init  PROVE IInv
    OBVIOUS
  <2>1. TypeOK
    <3>1. << >> \in Seq(Entry) /\ 0 \in 0 .. MaxDelay
      BY SchedulerAssumption
    <3>2. "lock" \in PC
      BY DEF PC
    <3> QED
      BY <3>1, <3>2 DEF Init, TypeOK
  <2>2. RunsEntry /\ Timers /\ InOnePlace /\ NoStrandedTask
    BY DEF Init, RunsEntry, Timers, IsTimer, InOnePlace, NoStrandedTask
  <2> QED
    BY <2>1, <2>2 DEF IInv
<1>2. IInv /\ [Next]_vars => IInv'
  <2> SUFFICES ASSUME IInv, [Next]_vars  PROVE IInv'
    OBVIOUS
  <2>1. ASSUME NEW j \in Jobs, NEW d \in 0 .. MaxDelay, ScheduleAt(j, d)  PROVE IInv'
    BY <2>1, ScheduleKeeps
  <2>2. ASSUME NEW j \in Jobs, NEW d \in 1 .. MaxDelay, ScheduleEvery(j, d)  PROVE IInv'
    <3>1. d \in 0 .. MaxDelay /\ d # 0
      BY SchedulerAssumption
    <3> QED
      BY <2>2, <3>1, ScheduleKeeps
  <2>3. CASE Shutdown
    BY <2>3, ShutdownKeeps
  <2>4. ASSUME NEW t \in Threads, Thread(t) \/ Spurious(t)  PROVE IInv'
    <3>1. CASE Loop(t)
      <4>1. task \in BOOLEAN
        BY DEF IInv, TypeOK
      <4> QED
        BY <3>1, <4>1, IterateKeeps DEF Loop
    <3>2. CASE LeaveWait(t)
      BY <3>2, IterateKeeps DEF LeaveWait
    <3> QED
      BY <2>4, <3>1, <3>2, WaitKeeps, FinishKeeps DEF Thread
  <2>5. CASE Tick
    BY <2>5, TickKeeps
  <2>6. CASE UNCHANGED vars
    BY <2>6 DEF vars, IInv, TypeOK, RunsEntry, Timers, IsTimer, InOnePlace, NoStrandedTask, Waiting
  <2> QED
    BY <2>1, <2>2, <2>3, <2>4, <2>5, <2>6 DEF Next, Terminated
<1> QED
  BY <1>1, <1>2, PTL DEF Spec

(* Threads are where loop() can be, and delays stay within what was asked. *)
THEOREM TypeCorrect == Spec => []TypeOK
<1>1. IInv => TypeOK
  BY DEF IInv
<1> QED
  BY <1>1, Invariance, PTL

(* No lost wake-up, for any number of threads.                             *)
THEOREM NoStrandedTaskHolds == Spec => []NoStrandedTask
<1>1. IInv => NoStrandedTask
  BY DEF IInv
<1> QED
  BY <1>1, Invariance, PTL

(* One thread waits for the head of the queue, and the flag tells of it:   *)
(* the one notification of shutdown() reaches it.                          *)
THEOREM OneTimerHolds == Spec => []OneTimer
<1>1. IInv => OneTimer
  <2> SUFFICES ASSUME IInv  PROVE OneTimer
    OBVIOUS
  <2> DEFINE timers == {t \in Threads : pc[t] \in {"task_cv", "task_woken"}}
  <2>1. task \in BOOLEAN
    BY DEF IInv, TypeOK
  <2>2. CASE task
    <3>1. PICK t \in Threads : timers = {t}
      BY <2>2 DEF IInv, Timers, IsTimer
    <3> QED
      BY <2>2, <3>1, FS_Singleton DEF OneTimer
  <2>3. CASE ~task
    <3>1. timers = {}
      BY <2>3 DEF IInv, Timers, IsTimer
    <3> QED
      BY <2>3, <3>1, FS_EmptySet DEF OneTimer
  <2> QED
    BY <2>1, <2>2, <2>3
<1> QED
  BY <1>1, Invariance, PTL

(* A function is never run by two threads, nor queued while it runs.       *)
THEOREM NoOverlapHolds == Spec => []NoOverlap
<1>1. ASSUME NEW S, \A x, y \in S : x = y  PROVE Cardinality(S) \in {0, 1} /\ (Cardinality(S) = 1 => S # {})
  <2>1. CASE S = {}
    BY <2>1, FS_EmptySet
  <2>2. CASE S # {}
    <3>1. PICK x : S = {x}
      BY <1>1, <2>2
    <3> QED
      BY <3>1, FS_Singleton
  <2> QED
    BY <2>1, <2>2
<1>2. IInv => NoOverlap
  <2> SUFFICES ASSUME IInv, NEW j \in Jobs
               PROVE  Cardinality({t \in Threads : Runs(t, j)}) +
                      Cardinality({i \in 1 .. Len(tasks) : tasks[i].job = j}) <= 1
    BY DEF NoOverlap
  <2> DEFINE R == {t \in Threads : Runs(t, j)}
             Q == {i \in 1 .. Len(tasks) : tasks[i].job = j}
  <2>1. /\ \A x, y \in R : x = y
        /\ \A x, y \in Q : x = y
        /\ R = {} \/ Q = {}
    BY DEF IInv, InOnePlace, Runs
  <2> HIDE DEF R, Q
  <2>2. /\ Cardinality(R) \in {0, 1} /\ (Cardinality(R) = 1 => R # {})
        /\ Cardinality(Q) \in {0, 1} /\ (Cardinality(Q) = 1 => Q # {})
    BY <1>1, <2>1
  <2>3. Cardinality(R) + Cardinality(Q) <= 1
    BY <2>1, <2>2
  <2> QED
    BY <2>3 DEF R, Q
<1> QED
  BY <1>2, Invariance, PTL
=============================================================================
