---------------------------- MODULE TaskManager ----------------------------
(***************************************************************************)
(* The task manager of pico-os1: kernel/task_manager.c, the timer          *)
(* interrupt kernel/systimer.c and the context switch kernel/dispatch.s.   *)
(*                                                                         *)
(* Three actors share the kernel's variables on one core: the current      *)
(* task, which calls the sk_ functions with interrupts disabled (so that   *)
(* each call is one step); the SysTick interrupt, which no other handler   *)
(* can preempt; and PendSV, which does the context switch.  SysTick has    *)
(* priority 0 and PendSV priority 3 (boot/reset_handler.c:193), so a tick  *)
(* may still come between the system call that raises PendSV and the       *)
(* dispatch_entry that serves it: then it finds curr_task blocked.         *)
(*                                                                         *)
(* The queues of task control blocks are sequences of task identifiers.    *)
(* Calls that fail leave the state alone and are stuttering steps.         *)
(***************************************************************************)
EXTENDS Integers, SequencesExt

CONSTANTS
    MAX_TASKS,      \* number of task control blocks
    MAX_TASK_PRI,   \* number of ready queues
    TIMER_PERIOD,   \* milliseconds between two ticks
    RELTIME_MOD,    \* RELTIME is an unsigned word: arithmetic modulo 2^32
    task_pri,       \* priority given to the i-th task that is created
    DelayTimes,     \* arguments of sk_delay_task
    Timeouts,       \* arguments of sk_sleep_task
    MaxWakeups      \* bound: largest wakeup_count explored

TaskId == 1 .. MAX_TASKS
NULL == 0
Priorities == 0 .. (MAX_TASK_PRI - 1)
TMO_FEVR == -1

(* RELTIME arithmetic: UW values wrap around, and (RELTIME)TMO_FEVR is the *)
(* largest of them.                                                        *)
Reltime(ms) == ms % RELTIME_MOD
Forever == RELTIME_MOD - 1

(* A control block is never freed, so that identifiers are handed out in   *)
(* increasing order and task_pri[i] is an input of the i-th sk_create_task.*)
ASSUME TaskManagerAssumption ==
    /\ MAX_TASKS \in Nat \ {0}
    /\ MAX_TASK_PRI \in Nat \ {0}
    /\ TIMER_PERIOD \in Nat \ {0}
    /\ RELTIME_MOD \in Nat
    /\ RELTIME_MOD > TIMER_PERIOD + 1
    /\ task_pri \in [TaskId -> 1 .. (MAX_TASK_PRI - 1)]
    /\ DelayTimes \subseteq 1 .. (RELTIME_MOD - 1)
    /\ Timeouts \subseteq Int
    /\ MaxWakeups \in Nat

VARIABLES
    state, wait_factor, wait_time, wait_err, wakeup_count,  \* tcb_table[t]
    ready_queue,        \* per priority, the tasks that are ready
    wait_queue,         \* the tasks that wait, for whatever they wait
    curr_task,          \* the task whose context is loaded
    scheduled_task,     \* the task the next dispatch loads
    dispatch_running,   \* dispatch_entry waits, with ticks, for a ready task
    pendsv,             \* the PendSV exception is pending
    tick_served,        \* a dispatch is due and the tick of this period is over
    promised            \* history: what is left of the time a task asked for

tcbVars == <<state, wait_factor, wait_time, wait_err, wakeup_count>>
cpuVars == <<curr_task, dispatch_running, tick_served>>
vars == <<tcbVars, ready_queue, wait_queue, cpuVars, scheduled_task, pendsv,
          promised>>

-----------------------------------------------------------------------------
(* Task queues.                                                            *)

task_queue_add_entry(queue, t) == Append(queue, t)

task_queue_remove_top(queue) == IF queue = <<>> THEN queue ELSE Tail(queue)

task_queue_remove_entry(queue, t) ==
    IF \E i \in DOMAIN queue : queue[i] = t
    THEN RemoveAt(queue, CHOOSE i \in DOMAIN queue : queue[i] = t)
    ELSE queue

AddReady(queues, t) ==
    [queues EXCEPT ![task_pri[t]] = task_queue_add_entry(@, t)]

RemoveTopReady(queues, t) ==
    [queues EXCEPT ![task_pri[t]] = task_queue_remove_top(@)]

(* The head of the first ready queue that is not empty. *)
IsTop(queues, t) ==
    \E p \in Priorities : /\ queues[p] # <<>>
                          /\ Head(queues[p]) = t
                          /\ \A q \in 0 .. (p - 1) : queues[q] = <<>>

(* Mutant of Top: the search stops one queue too early. *)
TopButLast(queues) ==
    IF \E p \in 0 .. (MAX_TASK_PRI - 2) : queues[p] # <<>>
    THEN CHOOSE t \in TaskId : IsTop(queues, t)
    ELSE NULL

Top(queues) == IF \E p \in Priorities : queues[p] # <<>>
               THEN CHOOSE t \in TaskId : IsTop(queues, t)
               ELSE NULL

(* Mutant of scheduler: a task that can go on is never interrupted.        *)
SchedulerNotPreemptive ==
    /\ scheduled_task' = Top(ready_queue')
    /\ pendsv' = \/ pendsv
                 \/ /\ scheduled_task' # curr_task /\ ~dispatch_running
                    /\ curr_task # NULL => state'[curr_task] # "READY"

(* scheduler() runs at the end of every call that changes a ready queue.   *)
scheduler ==
    /\ scheduled_task' = Top(ready_queue')
    /\ pendsv' = (pendsv \/ (scheduled_task' # curr_task /\ ~dispatch_running))

-----------------------------------------------------------------------------
(* What the system calls of this module and of the event module share.     *)

(* The current task executes: no exception is pending and its context is   *)
(* the one loaded.                                                         *)
Running == curr_task # NULL /\ ~pendsv /\ ~dispatch_running

(* Mutant of WaitTime: the period is not added. *)
WaitTimeWithoutMargin(timeout) == Reltime(timeout)

(* The wait_time of a call that may be asked to wait forever. *)
WaitTime(timeout) == IF timeout = TMO_FEVR THEN Reltime(timeout)
                     ELSE Reltime(timeout + TIMER_PERIOD)

(* The current task waits for factor.  promise is the time it asks for.    *)
Block(factor, time, promise) ==
    /\ ready_queue' = RemoveTopReady(ready_queue, curr_task)
    /\ state' = [state EXCEPT ![curr_task] = "WAIT"]
    /\ wait_factor' = [wait_factor EXCEPT ![curr_task] = factor]
    /\ wait_time' = [wait_time EXCEPT ![curr_task] = time]
    /\ wait_err' = [wait_err EXCEPT ![curr_task] = "E_OK"]
    /\ wait_queue' = task_queue_add_entry(wait_queue, curr_task)
    /\ promised' = [promised EXCEPT ![curr_task] = promise]
    /\ scheduler
    /\ UNCHANGED <<wakeup_count, cpuVars>>

(* Mutants of Release: one leaves t in wait_queue, the other does not run  *)
(* the scheduler.                                                          *)
ReleaseQueued(t) ==
    /\ state' = [state EXCEPT ![t] = "READY"]
    /\ wait_factor' = [wait_factor EXCEPT ![t] = "NON"]
    /\ ready_queue' = AddReady(ready_queue, t)
    /\ promised' = [promised EXCEPT ![t] = 0]
    /\ scheduler
    /\ UNCHANGED <<wait_queue, wait_time, wait_err, wakeup_count, cpuVars>>

ReleaseUnscheduled(t) ==
    /\ wait_queue' = task_queue_remove_entry(wait_queue, t)
    /\ state' = [state EXCEPT ![t] = "READY"]
    /\ wait_factor' = [wait_factor EXCEPT ![t] = "NON"]
    /\ ready_queue' = AddReady(ready_queue, t)
    /\ promised' = [promised EXCEPT ![t] = 0]
    /\ UNCHANGED <<wait_time, wait_err, wakeup_count, cpuVars, scheduled_task,
                   pendsv>>

(* The wait of t ends with what it waited for. *)
Release(t) ==
    /\ wait_queue' = task_queue_remove_entry(wait_queue, t)
    /\ state' = [state EXCEPT ![t] = "READY"]
    /\ wait_factor' = [wait_factor EXCEPT ![t] = "NON"]
    /\ ready_queue' = AddReady(ready_queue, t)
    /\ promised' = [promised EXCEPT ![t] = 0]
    /\ scheduler
    /\ UNCHANGED <<wait_time, wait_err, wakeup_count, cpuVars>>

-----------------------------------------------------------------------------
(* System calls of the current task.                                       *)

(* The first unused control block is taken; with none left the call        *)
(* returns E_LIMIT.                                                        *)
sk_create_task ==
    /\ Running
    /\ \E t \in TaskId : /\ state[t] = "NONEXIST"
                         /\ \A u \in 1 .. (t - 1) : state[u] # "NONEXIST"
                         /\ state' = [state EXCEPT ![t] = "DORMANT"]
    /\ UNCHANGED <<wait_factor, wait_time, wait_err, wakeup_count, ready_queue,
                   wait_queue, cpuVars, scheduled_task, pendsv, promised>>

(* Mutant of sk_start_task: a task that was started is started again. *)
StartAgain(t) ==
    /\ Running
    /\ state[t] # "NONEXIST"
    /\ state' = [state EXCEPT ![t] = "READY"]
    /\ ready_queue' = AddReady(ready_queue, t)
    /\ scheduler
    /\ UNCHANGED <<wait_factor, wait_time, wait_err, wakeup_count, wait_queue,
                   cpuVars, promised>>

(* wakeup_count keeps the value it had when the task exited. *)
sk_start_task(t) ==
    /\ Running
    /\ state[t] = "DORMANT"
    /\ state' = [state EXCEPT ![t] = "READY"]
    /\ ready_queue' = AddReady(ready_queue, t)
    /\ scheduler
    /\ UNCHANGED <<wait_factor, wait_time, wait_err, wakeup_count, wait_queue,
                   cpuVars, promised>>

sk_exit_task ==
    /\ Running
    /\ state' = [state EXCEPT ![curr_task] = "DORMANT"]
    /\ ready_queue' = RemoveTopReady(ready_queue, curr_task)
    /\ scheduler
    /\ UNCHANGED <<wait_factor, wait_time, wait_err, wakeup_count, wait_queue,
                   cpuVars, promised>>

(* A delay of zero returns at once. *)
sk_delay_task(delay_time) ==
    /\ Running
    /\ delay_time > 0
    /\ Block("DLY", Reltime(delay_time + TIMER_PERIOD), delay_time)

(* Mutant of sk_sleep_task: a wakeup that came before is not seen. *)
SleepRegardless(timeout) ==
    /\ Running
    /\ Block("SLP", WaitTime(timeout), timeout)

sk_sleep_task(timeout) ==
    /\ Running
    /\ \/ /\ wakeup_count[curr_task] > 0
          /\ wakeup_count' = [wakeup_count EXCEPT ![curr_task] = @ - 1]
          /\ UNCHANGED <<state, wait_factor, wait_time, wait_err, ready_queue,
                         wait_queue, cpuVars, scheduled_task, pendsv, promised>>
       \/ /\ wakeup_count[curr_task] <= 0
          /\ Block("SLP", WaitTime(timeout), timeout)

sk_wakeup_task(t) ==
    /\ Running
    /\ \/ /\ state[t] = "WAIT"
          /\ wait_factor[t] = "SLP"
          /\ Release(t)
       \/ /\ \/ state[t] = "READY"
             \/ state[t] = "WAIT" /\ wait_factor[t] # "SLP"
          /\ wakeup_count[t] < MaxWakeups
          /\ wakeup_count' = [wakeup_count EXCEPT ![t] = @ + 1]
          /\ UNCHANGED <<state, wait_factor, wait_time, wait_err, ready_queue,
                         wait_queue, cpuVars, scheduled_task, pendsv, promised>>

-----------------------------------------------------------------------------
(* The timer interrupt.                                                    *)

(* Mutant of Expired: the time left is compared with zero. *)
ExpiredAtZero(t) == wait_time[t] = 0

Expired(t) == wait_time[t] # Forever /\ wait_time[t] <= TIMER_PERIOD

(* Where the walk over wait_queue ends: moving a task to its ready queue   *)
(* clears the next pointer the loop would go on with, so that the first    *)
(* task that has expired is the last one visited.                          *)
WalkEnd ==
    IF \E i \in DOMAIN wait_queue : Expired(wait_queue[i])
    THEN CHOOSE i \in DOMAIN wait_queue :
            /\ Expired(wait_queue[i])
            /\ \A j \in 1 .. (i - 1) : ~Expired(wait_queue[j])
    ELSE Len(wait_queue) + 1

(* Mutant of Counted: the walk ends at a task that waits forever. *)
CountedToForever ==
    {wait_queue[i] : i \in {j \in DOMAIN wait_queue :
        j < WalkEnd /\ \A k \in 1 .. j : wait_time[wait_queue[k]] # Forever}}

(* The tasks the walk counts down, and the one (if any) whose time is out. *)
Counted == {wait_queue[i] : i \in {j \in DOMAIN wait_queue : j < WalkEnd}}
TimedOut == {wait_queue[i] : i \in {j \in DOMAIN wait_queue : j = WalkEnd}}

(* The ready queues after the walk. *)
WalkedReady ==
    [p \in Priorities |->
        IF \E t \in TimedOut : task_pri[t] = p
        THEN task_queue_add_entry(ready_queue[p], wait_queue[WalkEnd])
        ELSE ready_queue[p]]

(* Mutants of Rotated: one rotates a queue with a single task too, the     *)
(* other never does.                                                       *)
RotatedAlways(queues) ==
    IF ~dispatch_running
    THEN AddReady(RemoveTopReady(queues, curr_task), curr_task)
    ELSE queues

RotatedNever(queues) == queues

(* Forced context switch: the top of the current task's queue is removed,  *)
(* whichever task it is, and curr_task is added at the tail.               *)
Rotated(queues) ==
    IF ~dispatch_running /\ Len(queues[task_pri[curr_task]]) > 1
    THEN AddReady(RemoveTopReady(queues, curr_task), curr_task)
    ELSE queues

systimer_handler ==
    /\ ~tick_served
    /\ wait_queue' = IF TimedOut = {} THEN wait_queue
                     ELSE RemoveAt(wait_queue, WalkEnd)
    /\ wait_time' = [t \in TaskId |->
                       IF t \in Counted /\ wait_time[t] # Forever
                       THEN wait_time[t] - TIMER_PERIOD ELSE wait_time[t]]
    /\ wait_err' = [t \in TaskId |->
                      IF t \notin TimedOut THEN wait_err[t]
                      ELSE IF wait_factor[t] = "DLY" THEN "E_OK" ELSE "E_TMOUT"]
    /\ state' = [t \in TaskId |-> IF t \in TimedOut THEN "READY" ELSE state[t]]
    /\ wait_factor' = [t \in TaskId |->
                         IF t \in TimedOut THEN "NON" ELSE wait_factor[t]]
    /\ promised' = [t \in TaskId |->
                      IF t \in TimedOut THEN 0
                      ELSE IF promised[t] <= 0 THEN promised[t]
                      ELSE IF promised[t] <= TIMER_PERIOD THEN 0
                      ELSE promised[t] - TIMER_PERIOD]
    /\ ready_queue' = Rotated(WalkedReady)
    /\ scheduler
    /\ tick_served' = (pendsv' \/ scheduled_task' # curr_task)
    /\ UNCHANGED <<wakeup_count, curr_task, dispatch_running>>

-----------------------------------------------------------------------------
(* The context switch.                                                     *)

(* dispatch_entry masks interrupts until it has loaded a task; without a   *)
(* task to load it enters the loop disp_020, where ticks are served.       *)
dispatch_entry ==
    /\ pendsv
    /\ pendsv' = FALSE
    /\ curr_task' = scheduled_task
    /\ dispatch_running' = (scheduled_task = NULL)
    /\ tick_served' = FALSE
    /\ UNCHANGED <<tcbVars, ready_queue, wait_queue, scheduled_task, promised>>

(* The loop disp_020 sees a scheduled task and loads it. *)
dispatch_loop_exit ==
    /\ dispatch_running
    /\ scheduled_task # NULL
    /\ curr_task' = scheduled_task
    /\ dispatch_running' = FALSE
    /\ tick_served' = FALSE
    /\ UNCHANGED <<tcbVars, ready_queue, wait_queue, scheduled_task, pendsv,
                   promised>>

-----------------------------------------------------------------------------
Init ==
    /\ state = [t \in TaskId |-> "NONEXIST"]
    /\ wait_factor = [t \in TaskId |-> "NON"]
    /\ wait_time = [t \in TaskId |-> 0]
    /\ wait_err = [t \in TaskId |-> "E_OK"]
    /\ wakeup_count = [t \in TaskId |-> 0]
    /\ ready_queue = [p \in Priorities |-> <<>>]
    /\ wait_queue = <<>>
    /\ curr_task = NULL
    /\ scheduled_task = NULL
    /\ dispatch_running = FALSE
    /\ pendsv = FALSE
    /\ tick_served = TRUE
    /\ promised = [t \in TaskId |-> 0]

(* main() creates and starts the first task.  It runs within the first     *)
(* period after reset, so that no tick comes before its dispatch.          *)
main ==
    /\ \A t \in TaskId : state[t] = "NONEXIST"
    /\ state' = [state EXCEPT ![1] = "READY"]
    /\ ready_queue' = AddReady(ready_queue, 1)
    /\ scheduler
    /\ UNCHANGED <<wait_factor, wait_time, wait_err, wakeup_count, wait_queue,
                   cpuVars, promised>>

SystemCall ==
    \/ sk_create_task
    \/ sk_exit_task
    \/ \E t \in TaskId : sk_start_task(t) \/ sk_wakeup_task(t)
    \/ \E d \in DelayTimes : sk_delay_task(d)
    \/ \E d \in Timeouts : sk_sleep_task(d)

Next == main \/ SystemCall \/ systimer_handler \/ dispatch_entry
             \/ dispatch_loop_exit

Spec == Init /\ [][Next]_vars

(* The hardware keeps ticking and serves a pending exception; nothing is   *)
(* assumed of the tasks.                                                   *)
Fairness == /\ WF_vars(main)
            /\ WF_vars(systimer_handler)
            /\ WF_vars(dispatch_entry)
            /\ WF_vars(dispatch_loop_exit)

FairSpec == Spec /\ Fairness

-----------------------------------------------------------------------------
(* Properties.                                                             *)

(* Every variable has its type; the queues hold task identifiers. *)
TypeOK ==
    /\ state \in [TaskId -> {"NONEXIST", "DORMANT", "READY", "WAIT"}]
    /\ wait_factor \in [TaskId -> {"NON", "DLY", "SLP", "FLG", "SEM"}]
    /\ wait_time \in [TaskId -> 0 .. Forever]
    /\ wait_err \in [TaskId -> {"E_OK", "E_TMOUT"}]
    /\ wakeup_count \in [TaskId -> Nat]
    /\ ready_queue \in [Priorities -> Seq(TaskId)]
    /\ wait_queue \in Seq(TaskId)
    /\ curr_task \in TaskId \cup {NULL}
    /\ scheduled_task \in TaskId \cup {NULL}
    /\ dispatch_running \in BOOLEAN
    /\ pendsv \in BOOLEAN
    /\ tick_served \in BOOLEAN
    /\ promised \in [TaskId -> Int]

(* Under these conditions on the application the timer interrupt cannot    *)
(* corrupt a ready queue: at most two tasks share a priority, and no wait  *)
(* is so short, or so long that it wraps, that it ends at the tick that    *)
(* comes between a blocking call and its dispatch.                         *)
AtMostTwoPerPriority ==
    \A t, u, v \in TaskId :
        (task_pri[t] = task_pri[u] /\ task_pri[u] = task_pri[v])
            => (t = u \/ u = v \/ t = v)

TimesInRange ==
    /\ \A d \in DelayTimes : d + TIMER_PERIOD < Forever
    /\ \A d \in Timeouts : d # TMO_FEVR
                             => (0 < d /\ d + TIMER_PERIOD < Forever)

(* Each task is once in the queue its state and priority name, and in no   *)
(* other: the moves between queues made by system calls, by ticks in       *)
(* between them and by the forced rotation never lose or duplicate a task. *)
ReadyQueuesHoldReadyTasks ==
    \A p \in Priorities :
        /\ IsInjective(ready_queue[p])
        /\ ToSet(ready_queue[p]) =
              {t \in TaskId : state[t] = "READY" /\ task_pri[t] = p}

WaitQueueHoldsWaitingTasks ==
    /\ IsInjective(wait_queue)
    /\ ToSet(wait_queue) = {t \in TaskId : state[t] = "WAIT"}

QueuesMatchStates == ReadyQueuesHoldReadyTasks /\ WaitQueueHoldsWaitingTasks

(* Whenever a task executes it is ready, at the top of its ready queue,    *)
(* and no task of a higher priority (a smaller number) is ready.           *)
RunningIsHighest ==
    Running => /\ state[curr_task] = "READY"
               /\ ready_queue[task_pri[curr_task]] # <<>>
               /\ Head(ready_queue[task_pri[curr_task]]) = curr_task
               /\ \A t \in TaskId : state[t] = "READY"
                                      => task_pri[curr_task] <= task_pri[t]

(* The processor idles in disp_020 with no task scheduled only when no     *)
(* task is ready.                                                          *)
IdleMeansNobodyReady ==
    (dispatch_running /\ scheduled_task = NULL)
        => \A t \in TaskId : state[t] # "READY"

(* No wakeup is lost: a task never sleeps while a wakeup is recorded for   *)
(* it, whatever the order of sleeps, wakeups and timeouts.                 *)
NoSleeperHasWakeup ==
    \A t \in TaskId : (state[t] = "WAIT" /\ wait_factor[t] = "SLP")
                        => wakeup_count[t] = 0

(* The tick ends a wait only when the whole time asked for has passed, and *)
(* never a wait without a timeout: TIMER_PERIOD is added to every time     *)
(* because the first tick may come at once.                                *)
NoEarlyTimeout ==
    [][systimer_handler =>
         \A t \in TaskId : (state[t] = "WAIT" /\ state'[t] = "READY")
                              => promised[t] = 0]_vars

(* What keeps a timed wait from ending: its own time, and one tick for     *)
(* each task before it in wait_queue, whose end hides it from the walk.    *)
Position(queue, t) == CHOOSE i \in DOMAIN queue : queue[i] = t
Remaining(t) == wait_time[t] + TIMER_PERIOD * (Position(wait_queue, t) - 1)

(* Although the walk over wait_queue stops at the first task that has      *)
(* expired, every tick brings every timed wait closer to its end.          *)
TickMakesProgress ==
    [][systimer_handler =>
         \A t \in TaskId :
            (state[t] = "WAIT" /\ wait_time[t] # Forever) =>
                \/ state'[t] = "READY"
                \/ Remaining(t)' <= Remaining(t) - TIMER_PERIOD]_vars

(* A tick takes no task out of the ready queues: README.md says that the   *)
(* handler "removes the current task from the top of ready_queue and add   *)
(* it to the tail".                                                        *)
TickKeepsReadyTasks ==
    [][systimer_handler =>
         \A p \in Priorities :
            ToSet(ready_queue[p]) \subseteq ToSet(ready_queue'[p])]_vars

(* README.md: the handler "checks tasks in wait_queue and move them into   *)
(* ready_queue if the task's wait_time already passed".                    *)
TickReleasesAllExpired ==
    [][systimer_handler =>
         \A t \in TaskId : (state[t] = "WAIT" /\ Expired(t))
                              => state'[t] = "READY"]_vars

(* A timed wait always ends. *)
TimedWaitEnds ==
    \A t \in TaskId : (state[t] = "WAIT" /\ wait_time[t] # Forever)
                        ~> (state[t] # "WAIT")

(* Time slicing: a task that stays ready, with no task of a higher         *)
(* priority ready, gets the processor again and again, even when the tasks *)
(* it shares its priority with never call the kernel.                      *)
HighestReady(t) ==
    /\ state[t] = "READY"
    /\ \A u \in TaskId : state[u] = "READY" => task_pri[t] <= task_pri[u]

TimeSlicing ==
    \A t \in TaskId : <>[]HighestReady(t) => []<>(Running /\ curr_task = t)

(* Whatever calls, ticks and exceptions come between, the tasks see a      *)
(* priority scheduler: no step makes a ready task disappear but its own    *)
(* call, none keeps the processor from a more urgent task, and while a     *)
(* task is ready a dispatch follows.                                       *)
Promise == INSTANCE PriorityScheduler WITH
    Task <- TaskId, pri <- task_pri, NoTask <- NULL,
    ready <- {t \in TaskId : state[t] = "READY"},
    running <- IF Running THEN curr_task ELSE NULL

ImplementsPriorityScheduler == Promise!Spec
=============================================================================
