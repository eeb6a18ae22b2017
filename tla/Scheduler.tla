------------------------------ MODULE Scheduler ------------------------------
(***************************************************************************)
(* chord::Scheduler (chord.scheduler.h): a pool of threads that share one  *)
(* mutex, a queue of functions ordered by time, a condition variable for   *)
(* the thread that waits for the head of the queue to become due (task_cv, *)
(* guarded by the flag `task') and one for the others (queue_cv).          *)
(*                                                                         *)
(* Time is relative: an entry and a timed wait carry the delay that is     *)
(* left, which Tick takes down to 0 (due).  A thread that holds the mutex  *)
(* runs without interruption to the point where it waits or unlocks, so    *)
(* one iteration of loop() is one action.                                  *)
(*                                                                         *)
(* A definition marked Mutant is what a slip would make of the one below   *)
(* it; nothing uses it but the runs that show a property notices.          *)
(***************************************************************************)
EXTENDS Naturals, Sequences, FiniteSets

CONSTANTS Threads,     \* the thread pool
          Jobs,        \* the functions handed to schedule()
          MaxDelay,    \* bound on a delay or an interval
          NoEntry

(* A wrapper entry is the closure of schedule_intern(duration): it runs the *)
(* function and schedules it again.                                        *)
Entry == [job : Jobs, delay : 0 .. MaxDelay, wrapper : BOOLEAN]

ASSUME SchedulerAssumption ==
    IsFiniteSet(Threads) /\ Threads # {} /\ MaxDelay \in Nat /\ NoEntry \notin Entry

VARIABLES tasks,       \* the queue: entries in the order of their time
          task,        \* some thread waits on task_cv
          stop,
          pc,          \* where each thread is, see PC
          deadline,    \* delay left of the thread's timed wait
          running,     \* the entry whose function the thread runs
          scheduled,   \* the jobs handed to schedule() so far
          interval     \* the interval captured with each of them, 0 for a single run

vars == <<tasks, task, stop, pc, deadline, running, scheduled, interval>>

PC == {"lock",        \* at the top of the loop, about to take the mutex
       "task_cv",     \* in task_cv.wait_until
       "task_woken",  \* notified or timed out there, about to take the mutex
       "queue_cv",    \* in queue_cv.wait
       "run",         \* in func(), without the mutex
       "done"}

Init ==
    /\ tasks = << >>
    /\ task = FALSE
    /\ stop = FALSE
    /\ pc = [t \in Threads |-> "lock"]
    /\ deadline = [t \in Threads |-> 0]
    /\ running = [t \in Threads |-> NoEntry]
    /\ scheduled = {}
    /\ interval = [j \in Jobs |-> 0]

-----------------------------------------------------------------------------
(* condition_variable::notify_one of queue_cv and of task_cv.              *)
Waiting(pcs, cv) == {t \in Threads : pcs[t] = cv}

NotifyOne(pcs, cv, woken) ==
    IF Waiting(pcs, cv) = {} THEN {pcs}
    ELSE {[pcs EXCEPT ![t] = woken] : t \in Waiting(pcs, cv)}

NotifyQueue(pcs) == NotifyOne(pcs, "queue_cv", "lock")
NotifyTask(pcs) == NotifyOne(pcs, "task_cv", "task_woken")

(* priority_queue::emplace: entries with equal times come out in any order. *)
Emplace(q, e) ==
    {SubSeq(q, 1, k) \o <<e>> \o SubSeq(q, k + 1, Len(q)) :
        k \in {n \in 0 .. Len(q) : /\ \A i \in 1 .. n : q[i].delay <= e.delay
                                   /\ \A i \in (n + 1) .. Len(q) : e.delay <= q[i].delay}}

(* Mutant: nobody is notified of the new entry.                            *)
schedule_silently(e, pcs) ==
    /\ tasks' \in Emplace(tasks, e)
    /\ pc' = pcs

(* schedule_intern: add an entry and notify a thread that waits for work.  *)
schedule_intern(e, pcs) ==
    /\ tasks' \in Emplace(tasks, e)
    /\ pc' \in NotifyQueue(pcs)

(* Scheduler::schedule: at a point in time (one run) or every d.           *)
ScheduleAt(j, d) ==
    /\ j \notin scheduled
    /\ scheduled' = scheduled \cup {j}
    /\ schedule_intern([job |-> j, delay |-> d, wrapper |-> FALSE], pc)
    /\ UNCHANGED <<task, stop, deadline, running, interval>>

ScheduleEvery(j, d) ==
    /\ j \notin scheduled
    /\ scheduled' = scheduled \cup {j}
    /\ schedule_intern([job |-> j, delay |-> d, wrapper |-> TRUE], pc)
    /\ interval' = [interval EXCEPT ![j] = d]
    /\ UNCHANGED <<task, stop, deadline, running>>

(* Mutant: one of the idle threads is notified instead of all.             *)
ShutdownOne ==
    /\ ~stop
    /\ stop' = TRUE
    /\ \E pcs \in NotifyQueue(pc) : pc' \in NotifyTask(pcs)
    /\ UNCHANGED <<tasks, task, deadline, running, scheduled, interval>>

(* Scheduler::shutdown.                                                    *)
Shutdown ==
    /\ ~stop
    /\ stop' = TRUE
    /\ pc' \in NotifyTask([t \in Threads |-> IF pc[t] = "queue_cv" THEN "lock" ELSE pc[t]])
    /\ UNCHANGED <<tasks, task, deadline, running, scheduled, interval>>

-----------------------------------------------------------------------------
(* One pass through the body of loop(), with the mutex held and the flag   *)
(* `task' equal to flag.                                                   *)
is_runnable == stop \/ (tasks # << >> /\ tasks[1].delay = 0)

(* Mutant: no other thread is woken to watch the rest of the queue.        *)
RunHeadAlone(t, flag) ==
    /\ ~stop
    /\ is_runnable
    /\ running' = [running EXCEPT ![t] = Head(tasks)]
    /\ tasks' = Tail(tasks)
    /\ pc' = [pc EXCEPT ![t] = "run"]
    /\ task' = flag
    /\ UNCHANGED deadline

(* Mutant: the entry stays in the queue while it runs.                     *)
RunHeadUnpopped(t, flag) ==
    /\ ~stop
    /\ is_runnable
    /\ running' = [running EXCEPT ![t] = Head(tasks)]
    /\ LET pcs == [pc EXCEPT ![t] = "run"]
       IN  pc' \in IF flag THEN NotifyTask(pcs) ELSE NotifyQueue(pcs)
    /\ task' = flag
    /\ UNCHANGED <<tasks, deadline>>

RunHead(t, flag) ==
    /\ ~stop
    /\ is_runnable
    /\ running' = [running EXCEPT ![t] = Head(tasks)]
    /\ tasks' = Tail(tasks)
    /\ LET pcs == [pc EXCEPT ![t] = "run"]
       IN  pc' \in IF flag THEN NotifyTask(pcs) ELSE NotifyQueue(pcs)
    /\ task' = flag
    /\ UNCHANGED deadline

(* Mutant: the flag is not looked at.                                      *)
WaitForHeadToo(t, flag) ==
    /\ ~is_runnable
    /\ tasks # << >>
    /\ task' = TRUE
    /\ deadline' = [deadline EXCEPT ![t] = tasks[1].delay]
    /\ pc' = [pc EXCEPT ![t] = "task_cv"]
    /\ UNCHANGED <<tasks, running>>

WaitForHead(t, flag) ==
    /\ ~is_runnable
    /\ tasks # << >> /\ ~flag
    /\ task' = TRUE
    /\ deadline' = [deadline EXCEPT ![t] = tasks[1].delay]
    /\ pc' = [pc EXCEPT ![t] = "task_cv"]
    /\ UNCHANGED <<tasks, running>>

WaitForWork(t, flag) ==
    /\ ~is_runnable
    /\ tasks = << >> \/ flag
    /\ task' = flag
    /\ pc' = [pc EXCEPT ![t] = "queue_cv"]
    /\ UNCHANGED <<tasks, deadline, running>>

Leave(t, flag) ==
    /\ stop
    /\ task' = flag
    /\ pc' = [pc EXCEPT ![t] = "done"]
    /\ UNCHANGED <<tasks, deadline, running>>

Iterate(t, flag) ==
    /\ \/ RunHead(t, flag)
       \/ WaitForHead(t, flag)
       \/ WaitForWork(t, flag)
       \/ Leave(t, flag)
    /\ UNCHANGED <<stop, scheduled, interval>>

Loop(t) == pc[t] = "lock" /\ Iterate(t, task)

(* The thread in task_cv.wait_until takes the mutex.  The time it waits    *)
(* for is a reference to the head of the queue: it leaves when the head is *)
(* due, when the pool stops, and when the queue has been emptied (the      *)
(* reference then shows the time of the entry that ran); otherwise it      *)
(* waits on, now for the present head.                                     *)
LeaveWait(t) ==
    /\ pc[t] = "task_woken"
    /\ is_runnable \/ tasks = << >>
    /\ Iterate(t, FALSE)

WaitAgain(t) ==
    /\ pc[t] = "task_woken"
    /\ ~is_runnable /\ tasks # << >>
    /\ deadline' = [deadline EXCEPT ![t] = tasks[1].delay]
    /\ pc' = [pc EXCEPT ![t] = "task_cv"]
    /\ UNCHANGED <<tasks, task, stop, running, scheduled, interval>>

Timeout(t) ==
    /\ pc[t] = "task_cv" /\ deadline[t] = 0
    /\ pc' = [pc EXCEPT ![t] = "task_woken"]
    /\ UNCHANGED <<tasks, task, stop, deadline, running, scheduled, interval>>

(* Condition variables may wake up for no reason.                          *)
Spurious(t) ==
    /\ pc[t] \in {"task_cv", "queue_cv"}
    /\ pc' = [pc EXCEPT ![t] = IF pc[t] = "task_cv" THEN "task_woken" ELSE "lock"]
    /\ UNCHANGED <<tasks, task, stop, deadline, running, scheduled, interval>>

(* Mutant: the interval is added twice.                                    *)
RescheduleLate(e) == [job |-> e.job, delay |-> 2 * interval[e.job], wrapper |-> FALSE]

(* func() returns.  The wrapper of a periodic function then schedules the  *)
(* function itself through the overload for a point in time.               *)
Reschedule(e) == [job |-> e.job, delay |-> interval[e.job], wrapper |-> FALSE]

Finish(t) ==
    /\ pc[t] = "run"
    /\ LET e == running[t]
           pcs == [pc EXCEPT ![t] = "lock"]
       IN  IF e.wrapper
           THEN schedule_intern(Reschedule(e), pcs)
           ELSE pc' = pcs /\ UNCHANGED tasks
    /\ running' = [running EXCEPT ![t] = NoEntry]
    /\ UNCHANGED <<task, stop, deadline, scheduled, interval>>

(* Time passes.                                                            *)
Less(d) == IF d = 0 THEN 0 ELSE d - 1

Tick ==
    /\ \/ \E i \in 1 .. Len(tasks) : tasks[i].delay > 0
       \/ \E t \in Threads : deadline[t] > 0
    /\ tasks' = [i \in 1 .. Len(tasks) |-> [tasks[i] EXCEPT !.delay = Less(@)]]
    /\ deadline' = [t \in Threads |-> Less(deadline[t])]
    /\ UNCHANGED <<task, stop, pc, running, scheduled, interval>>

Terminated ==
    /\ \A t \in Threads : pc[t] = "done"
    /\ UNCHANGED vars

Thread(t) == Loop(t) \/ LeaveWait(t) \/ WaitAgain(t) \/ Timeout(t) \/ Finish(t)

Next ==
    \/ \E j \in Jobs, d \in 0 .. MaxDelay : ScheduleAt(j, d)
    \/ \E j \in Jobs, d \in 1 .. MaxDelay : ScheduleEvery(j, d)
    \/ Shutdown
    \/ \E t \in Threads : Thread(t) \/ Spurious(t)
    \/ Tick
    \/ Terminated

(* Threads get the processor and the mutex, the functions return and time  *)
(* passes; nobody has to schedule or to shut down.                         *)
Fairness == WF_vars(Tick) /\ \A t \in Threads : WF_vars(Thread(t))

Spec == Init /\ [][Next]_vars /\ Fairness

-----------------------------------------------------------------------------
Pending(j) == \E i \in 1 .. Len(tasks) : tasks[i].job = j
Runs(t, j) == running[t] # NoEntry /\ running[t].job = j
Running(j) == \E t \in Threads : Runs(t, j)

(* Delays stay within the longest one asked for, and threads are where     *)
(* loop() can be.                                                          *)
TypeOK ==
    /\ tasks \in Seq(Entry)
    /\ task \in BOOLEAN /\ stop \in BOOLEAN
    /\ pc \in [Threads -> PC]
    /\ deadline \in [Threads -> 0 .. MaxDelay]
    /\ running \in [Threads -> Entry \cup {NoEntry}]
    /\ scheduled \subseteq Jobs
    /\ interval \in [Jobs -> 0 .. MaxDelay]

(* The flag `task' is up exactly while one thread waits for the head of    *)
(* the queue, and never two do: shutdown(), which notifies one, misses     *)
(* none.                                                                   *)
OneTimer ==
    LET timers == {t \in Threads : pc[t] \in {"task_cv", "task_woken"}}
    IN  Cardinality(timers) = IF task THEN 1 ELSE 0

(* No lost wake-up: while functions wait in the queue and a thread is idle *)
(* in queue_cv.wait, some thread watches the queue, even if all the others *)
(* are inside functions that take long.                                    *)
NoStrandedTask ==
    ~stop /\ tasks # << >> /\ Waiting(pc, "queue_cv") # {} =>
        \E t \in Threads : pc[t] \in {"lock", "task_cv", "task_woken"}

(* A function never runs on two threads at once, nor is it queued while it *)
(* runs: the periodic tasks of ChordFacade need no lock of their own.      *)
NoOverlap ==
    \A j \in Jobs :
        /\ Cardinality({t \in Threads : Runs(t, j)}) +
           Cardinality({i \in 1 .. Len(tasks) : tasks[i].job = j}) <= 1

(* Every function that is scheduled is run, unless the pool is shut down.  *)
ScheduledTaskRuns ==
    \A j \in Jobs : Pending(j) ~> (Running(j) \/ stop)

(* shutdown() ends every thread: ~Scheduler, which joins them, returns.    *)
ShutdownCompletes == stop ~> (\A t \in Threads : pc[t] = "done")

(* config/node0.yml says of stabilize_ms "stabilize the ring every (ms)":  *)
(* a function scheduled with an interval runs again and again.             *)
PeriodicTaskRepeats ==
    \A j \in Jobs : (interval[j] > 0) ~> (Running(j) \/ stop)
=============================================================================
