------------------------- MODULE TaskManagerProofs -------------------------
(***************************************************************************)
(* Proofs about the task manager, for any number of tasks, priorities and  *)
(* arguments.                                                              *)
(*                                                                         *)
(* The first part is about its operators, typing, and the waits, of which  *)
(* none loses a wakeup and none ends before its time; it holds also where  *)
(* the timer interrupt corrupts a ready queue.  The second part is about   *)
(* the inductive invariant Inv and what follows from it, up to the steps   *)
(* of the abstract PriorityScheduler.  Its theorems assume                 *)
(* AtMostTwoPerPriority and TimesInRange: without the first a tick between *)
(* a blocking call and its dispatch takes a ready task out of its queue,   *)
(* and without the second it may wake the very task that blocks.           *)
(***************************************************************************)
EXTENDS TaskManager, QueueLemmas

ReadyQueues == [Priorities -> Seq(TaskId)]

(* The part of an initial segment of the priorities that matters. *)
LEMMA PriorityOf ==
    /\ \A t \in TaskId : task_pri[t] \in Priorities
    /\ NULL \notin TaskId
    /\ Priorities \subseteq Nat
    /\ TaskId \subseteq Nat
BY TaskManagerAssumption DEF TaskId, NULL, Priorities

-----------------------------------------------------------------------------
(* The ready queues.                                                       *)

(* The queues hold exactly the tasks that st calls ready. *)
Holds(queues, st) ==
    \A p \in Priorities :
        /\ IsInjective(queues[p])
        /\ ToSet(queues[p]) = {t \in TaskId : st[t] = "READY" /\ task_pri[t] = p}

(* A task that was not ready is added. *)
LEMMA AddReadyHolds ==
    ASSUME NEW queues \in ReadyQueues, NEW st, Holds(queues, st),
           NEW t \in TaskId, st[t] # "READY",
           NEW st2, \A u \in TaskId : st2[u] = IF u = t THEN "READY" ELSE st[u]
    PROVE  /\ AddReady(queues, t) \in ReadyQueues
           /\ Holds(AddReady(queues, t), st2)
           /\ \A p \in Priorities :
                 queues[p] # <<>> => /\ AddReady(queues, t)[p] # <<>>
                                     /\ Head(AddReady(queues, t)[p]) = Head(queues[p])
<1> DEFINE q == queues[task_pri[t]]
           new == AddReady(queues, t)
<1>1. task_pri[t] \in Priorities /\ q \in Seq(TaskId)
  BY PriorityOf DEF ReadyQueues
<1>2. /\ new[task_pri[t]] = Append(q, t)
      /\ \A p \in Priorities \ {task_pri[t]} : new[p] = queues[p]
      /\ new \in ReadyQueues
  BY <1>1 DEF AddReady, task_queue_add_entry, ReadyQueues
<1>3. IsInjective(q) /\ t \notin ToSet(q)
  BY <1>1 DEF Holds
<1>4. /\ IsInjective(Append(q, t))
      /\ ToSet(Append(q, t)) = ToSet(q) \cup {t}
  BY <1>1, <1>3, AppendDistinct
<1>5. Holds(new, st2)
  <2> SUFFICES ASSUME NEW p \in Priorities
               PROVE  /\ IsInjective(new[p])
                      /\ ToSet(new[p]) = {u \in TaskId : st2[u] = "READY"
                                                         /\ task_pri[u] = p}
    BY DEF Holds
  <2>1. CASE p = task_pri[t]
    BY <1>1, <1>2, <1>4, <2>1 DEF Holds
  <2>2. CASE p # task_pri[t]
    BY <1>2, <2>2 DEF Holds
  <2> QED BY <2>1, <2>2
<1>6. ASSUME NEW p \in Priorities, queues[p] # <<>>
      PROVE  new[p] # <<>> /\ Head(new[p]) = Head(queues[p])
  <2>1. CASE p = task_pri[t]
    <3>1. new[p] = Append(queues[p], t) /\ queues[p] \in Seq(TaskId)
      BY <1>1, <1>2, <2>1
    <3> QED BY <1>6, <3>1
  <2>2. CASE p # task_pri[t]
    BY <1>2, <1>6, <2>2
  <2> QED BY <2>1, <2>2
<1> QED BY <1>2, <1>5, <1>6

(* The task at the top of its queue stops being ready. *)
LEMMA RemoveTopReadyHolds ==
    ASSUME NEW queues \in ReadyQueues, NEW st, Holds(queues, st),
           NEW t \in TaskId,
           queues[task_pri[t]] # <<>>, Head(queues[task_pri[t]]) = t,
           NEW st2, st2[t] # "READY",
           \A u \in TaskId \ {t} : st2[u] = st[u]
    PROVE  /\ RemoveTopReady(queues, t) \in ReadyQueues
           /\ Holds(RemoveTopReady(queues, t), st2)
<1> DEFINE q == queues[task_pri[t]]
           new == RemoveTopReady(queues, t)
<1>1. task_pri[t] \in Priorities /\ q \in Seq(TaskId) /\ IsInjective(q)
  BY PriorityOf DEF ReadyQueues, Holds
<1>2. /\ Tail(q) \in Seq(TaskId)
      /\ IsInjective(Tail(q))
      /\ ToSet(Tail(q)) = ToSet(q) \ {t}
  BY <1>1, TailDistinct
<1>3. /\ new[task_pri[t]] = Tail(q)
      /\ \A p \in Priorities \ {task_pri[t]} : new[p] = queues[p]
      /\ new \in ReadyQueues
  BY <1>1, <1>2 DEF RemoveTopReady, task_queue_remove_top, ReadyQueues
<1>4. Holds(new, st2)
  <2> SUFFICES ASSUME NEW p \in Priorities
               PROVE  /\ IsInjective(new[p])
                      /\ ToSet(new[p]) = {u \in TaskId : st2[u] = "READY"
                                                         /\ task_pri[u] = p}
    BY DEF Holds
  <2>1. CASE p = task_pri[t]
    <3>1. ToSet(q) = {u \in TaskId : st[u] = "READY" /\ task_pri[u] = p}
      BY <1>1, <2>1 DEF Holds
    <3> QED BY <1>2, <1>3, <2>1, <3>1
  <2>2. CASE p # task_pri[t]
    <3>1. ToSet(new[p]) = {u \in TaskId : st[u] = "READY" /\ task_pri[u] = p}
      BY <1>3, <2>2 DEF Holds
    <3>2. IsInjective(new[p])
      BY <1>3, <2>2 DEF Holds
    <3> QED BY <2>2, <3>1, <3>2
  <2> QED BY <2>1, <2>2
<1> QED BY <1>3, <1>4

(* What Top returns. *)
LEMMA TopIsTop ==
    ASSUME NEW queues \in ReadyQueues
    PROVE  \/ /\ Top(queues) = NULL
              /\ \A p \in Priorities : queues[p] = <<>>
           \/ Top(queues) \in TaskId /\ IsTop(queues, Top(queues))
<1>1. CASE \A p \in Priorities : queues[p] = <<>>
  BY <1>1 DEF Top
<1>2. CASE \E p \in Priorities : queues[p] # <<>>
  <2> DEFINE S == {p \in Priorities : queues[p] # <<>>}
  <2>1. S \subseteq Nat /\ S # {}
    BY <1>2, PriorityOf
  <2>2. PICK p \in S : \A q \in S : p <= q
    BY <2>1, SmallestExists
  <2>3. \A q \in 0 .. (p - 1) : queues[q] = <<>>
    <3> SUFFICES ASSUME NEW q \in 0 .. (p - 1), queues[q] # <<>> PROVE FALSE
      OBVIOUS
    <3>1. p \in 0 .. (MAX_TASK_PRI - 1)
      BY DEF Priorities
    <3>2. q \in Priorities /\ q < p
      BY <3>1, TaskManagerAssumption DEF Priorities
    <3>3. q \in S
      BY <3>2
    <3> QED BY <2>1, <2>2, <3>2, <3>3
  <2>4. queues[p] \in Seq(TaskId) /\ queues[p] # <<>>
    BY DEF ReadyQueues
  <2>5. Head(queues[p]) \in TaskId
    BY <2>4
  <2>6. IsTop(queues, Head(queues[p]))
    BY <2>3, <2>4 DEF IsTop
  <2>7. Top(queues) = CHOOSE t \in TaskId : IsTop(queues, t)
    BY <1>2 DEF Top
  <2> QED BY <2>5, <2>6, <2>7
<1> QED BY <1>1, <1>2

-----------------------------------------------------------------------------
(* Typing.                                                                 *)

(* RELTIME values, and those that do not wrap. *)
LEMMA ReltimeType ==
    ASSUME NEW ms \in Int
    PROVE  /\ Reltime(ms) \in 0 .. Forever
           /\ ms \in 0 .. Forever => Reltime(ms) = ms
           /\ Reltime(TMO_FEVR) = Forever
<1>1. RELTIME_MOD \in Nat /\ RELTIME_MOD > 1
  BY TaskManagerAssumption
<1>2. ms % RELTIME_MOD \in 0 .. (RELTIME_MOD - 1)
  BY <1>1
<1>3. ms \in 0 .. (RELTIME_MOD - 1) => ms % RELTIME_MOD = ms
  BY <1>1
<1>4. (-1) % RELTIME_MOD = RELTIME_MOD - 1
  BY <1>1
<1> QED BY <1>2, <1>3, <1>4 DEF Reltime, Forever, TMO_FEVR

(* The walk over wait_queue moves no task, or the first that has expired;  *)
(* the tasks it counts down have not expired.                              *)
LEMMA WalkCases ==
    ASSUME TypeOK
    PROVE  /\ Counted \subseteq {t \in TaskId : ~Expired(t)}
           /\ \/ /\ WalkEnd = Len(wait_queue) + 1
                 /\ TimedOut = {}
                 /\ WalkedReady = ready_queue
              \/ \E k \in DOMAIN wait_queue :
                    /\ WalkEnd = k
                    /\ wait_queue[k] \in TaskId
                    /\ TimedOut = {wait_queue[k]}
                    /\ Expired(wait_queue[k])
                    /\ WalkedReady = AddReady(ready_queue, wait_queue[k])
<1> DEFINE wq == wait_queue
           E == {i \in DOMAIN wq : Expired(wq[i])}
<1>1. /\ wq \in Seq(TaskId) /\ Len(wq) \in Nat /\ DOMAIN wq = 1 .. Len(wq)
      /\ \A i \in DOMAIN wq : wq[i] \in TaskId
      /\ ready_queue \in ReadyQueues
  BY DEF TypeOK, ReadyQueues
<1>2. CASE E = {}
  <2>1. WalkEnd = Len(wq) + 1
    BY <1>2 DEF WalkEnd
  <2>2. TimedOut = {}
    BY <1>1, <2>1 DEF TimedOut
  <2>3. WalkedReady = ready_queue
    BY <1>1, <2>2 DEF WalkedReady, ReadyQueues
  <2>4. Counted \subseteq {t \in TaskId : ~Expired(t)}
    BY <1>1, <1>2 DEF Counted
  <2> QED BY <2>1, <2>2, <2>3, <2>4
<1>3. CASE E # {}
  <2> DEFINE first(i) == /\ Expired(wq[i])
                         /\ \A j \in 1 .. (i - 1) : ~Expired(wq[j])
  <2>1. E \subseteq Nat
    BY <1>1
  <2>2. PICK m \in E : \A n \in E : m <= n
    BY <1>3, <2>1, SmallestExists
  <2>3. m \in DOMAIN wq /\ first(m)
    <3>1. \A j \in 1 .. (m - 1) : j \in DOMAIN wq /\ ~(m <= j)
      BY <1>1
    <3> QED BY <2>2, <3>1
  <2>4. WalkEnd = CHOOSE i \in DOMAIN wq : first(i)
    BY <1>3 DEF WalkEnd
  <2>5. WalkEnd \in DOMAIN wq /\ first(WalkEnd)
    BY <2>3, <2>4
  <2>6. TimedOut = {wq[WalkEnd]}
    BY <2>5 DEF TimedOut
  <2>7. Counted \subseteq {t \in TaskId : ~Expired(t)}
    <3>1. \A j \in DOMAIN wq : j < WalkEnd => j \in 1 .. (WalkEnd - 1)
      BY <1>1, <2>5
    <3> QED BY <1>1, <2>5, <3>1 DEF Counted
  <2>8. WalkedReady = AddReady(ready_queue, wq[WalkEnd])
    <3>1. \A p \in Priorities : (\E t \in TimedOut : task_pri[t] = p)
                                  <=> task_pri[wq[WalkEnd]] = p
      BY <2>6
    <3> QED BY <1>1, <3>1 DEF WalkedReady, AddReady, ReadyQueues
  <2> QED BY <1>1, <2>5, <2>6, <2>7, <2>8
<1> QED BY <1>2, <1>3

(* Outside the idle loop a tick finds a current task. *)
TickHasTask == (~dispatch_running /\ ~tick_served) => curr_task # NULL

Typed == TypeOK /\ TickHasTask

Factors == {"NON", "DLY", "SLP", "FLG", "SEM"}

(* A task is added at the tail of its ready queue. *)
LEMMA AddReadyType ==
    ASSUME NEW queues \in ReadyQueues, NEW t \in TaskId
    PROVE  AddReady(queues, t) \in ReadyQueues
<1>1. task_pri[t] \in Priorities /\ queues[task_pri[t]] \in Seq(TaskId)
  BY PriorityOf DEF ReadyQueues
<1>2. Append(queues[task_pri[t]], t) \in Seq(TaskId)
  BY <1>1
<1> QED BY <1>1, <1>2 DEF AddReady, task_queue_add_entry, ReadyQueues

(* What scheduler() assigns has its type. *)
LEMMA SchedulerType ==
    ASSUME TypeOK, scheduler, ready_queue' \in ReadyQueues
    PROVE  scheduled_task' \in TaskId \cup {NULL} /\ pendsv' \in BOOLEAN
<1>1. Top(ready_queue') \in TaskId \cup {NULL}
  BY TopIsTop
<1> QED BY <1>1 DEF scheduler, TypeOK

(* A task that blocks. *)
LEMMA BlockType ==
    ASSUME TypeOK, Running, NEW factor \in Factors, NEW time \in 0 .. Forever,
           NEW promise \in Int, Block(factor, time, promise)
    PROVE  TypeOK'
<1>1. curr_task \in TaskId /\ task_pri[curr_task] \in Priorities
  BY PriorityOf DEF TypeOK, Running
<1>2. ready_queue' \in ReadyQueues
  <2>1. \A q \in Seq(TaskId) : task_queue_remove_top(q) \in Seq(TaskId)
    BY DEF task_queue_remove_top
  <2> QED BY <1>1, <2>1 DEF Block, RemoveTopReady, TypeOK, ReadyQueues
<1>3. scheduled_task' \in TaskId \cup {NULL} /\ pendsv' \in BOOLEAN
  BY <1>2, SchedulerType DEF Block
<1>4. wait_queue' \in Seq(TaskId)
  BY <1>1 DEF Block, task_queue_add_entry, TypeOK
<1>5. /\ state' \in [TaskId -> {"NONEXIST", "DORMANT", "READY", "WAIT"}]
      /\ wait_factor' \in [TaskId -> Factors]
      /\ wait_time' \in [TaskId -> 0 .. Forever]
      /\ wait_err' \in [TaskId -> {"E_OK", "E_TMOUT"}]
      /\ promised' \in [TaskId -> Int]
  BY DEF Block, TypeOK, Factors
<1> QED BY <1>2, <1>3, <1>4, <1>5
        DEF Block, TypeOK, cpuVars, ReadyQueues, Factors

(* A wait that ends. *)
LEMMA ReleaseType ==
    ASSUME TypeOK, NEW t \in TaskId, Release(t)
    PROVE  TypeOK'
<1>1. task_pri[t] \in Priorities
  BY PriorityOf
<1>2. ready_queue' \in ReadyQueues
  BY AddReadyType DEF Release, TypeOK, ReadyQueues
<1>3. scheduled_task' \in TaskId \cup {NULL} /\ pendsv' \in BOOLEAN
  BY <1>2, SchedulerType DEF Release
<1>4. wait_queue' \in Seq(TaskId)
  <2>1. ASSUME NEW k \in DOMAIN wait_queue
        PROVE  RemoveAt(wait_queue, k) \in Seq(TaskId)
    BY RemoveAtDistinct DEF TypeOK
  <2> QED BY <2>1 DEF Release, task_queue_remove_entry, TypeOK
<1>5. /\ state' \in [TaskId -> {"NONEXIST", "DORMANT", "READY", "WAIT"}]
      /\ wait_factor' \in [TaskId -> Factors]
      /\ promised' \in [TaskId -> Int]
  BY DEF Release, TypeOK, Factors
<1> QED BY <1>2, <1>3, <1>4, <1>5
        DEF Release, TypeOK, cpuVars, ReadyQueues, Factors

(* A tick. *)
LEMMA TickType ==
    ASSUME Typed, systimer_handler
    PROVE  TypeOK'
<1> USE DEF Typed
<1>1. /\ Counted \subseteq {t \in TaskId : ~Expired(t)}
      /\ \/ TimedOut = {} /\ WalkedReady = ready_queue
         \/ \E k \in DOMAIN wait_queue :
               /\ WalkEnd = k
               /\ wait_queue[k] \in TaskId
               /\ WalkedReady = AddReady(ready_queue, wait_queue[k])
               /\ TimedOut = {wait_queue[k]}
  BY WalkCases
<1>2. WalkedReady \in ReadyQueues
  <2>1. ASSUME NEW t \in TaskId PROVE AddReady(ready_queue, t) \in ReadyQueues
    BY AddReadyType DEF TypeOK, ReadyQueues
  <2> QED BY <1>1, <2>1 DEF TypeOK, ReadyQueues
<1>3. ready_queue' \in ReadyQueues
  <2>1. CASE dispatch_running
    BY <1>2, <2>1 DEF systimer_handler, Rotated
  <2>2. CASE ~dispatch_running
    <3>1. curr_task \in TaskId /\ task_pri[curr_task] \in Priorities
      BY <2>2, PriorityOf DEF systimer_handler, TickHasTask, TypeOK
    <3>2. \A q \in Seq(TaskId) : task_queue_remove_top(q) \in Seq(TaskId)
      BY DEF task_queue_remove_top
    <3>3. RemoveTopReady(WalkedReady, curr_task) \in ReadyQueues
      BY <1>2, <3>1, <3>2 DEF RemoveTopReady, ReadyQueues
    <3>4. AddReady(RemoveTopReady(WalkedReady, curr_task), curr_task) \in ReadyQueues
      BY <3>1, <3>3, AddReadyType
    <3> QED BY <1>2, <3>4 DEF systimer_handler, Rotated
  <2> QED BY <2>1, <2>2
<1>4. scheduled_task' \in TaskId \cup {NULL} /\ pendsv' \in BOOLEAN
  BY <1>3, SchedulerType DEF systimer_handler
<1>5. wait_queue' \in Seq(TaskId)
  <2>1. ASSUME NEW k \in DOMAIN wait_queue
        PROVE  RemoveAt(wait_queue, k) \in Seq(TaskId)
    BY RemoveAtDistinct DEF TypeOK
  <2> QED BY <1>1, <2>1 DEF systimer_handler, TypeOK
<1>6. wait_time' \in [TaskId -> 0 .. Forever]
  <2> SUFFICES ASSUME NEW t \in TaskId, t \in Counted, wait_time[t] # Forever
               PROVE  wait_time[t] - TIMER_PERIOD \in 0 .. Forever
    BY DEF systimer_handler, TypeOK
  <2>1. ~Expired(t)
    BY <1>1
  <2>2. wait_time[t] \in 0 .. Forever
    BY DEF TypeOK
  <2>3. TIMER_PERIOD \in Nat /\ Forever \in Nat
    BY TaskManagerAssumption DEF Forever
  <2> HIDE DEF Forever
  <2>4. wait_time[t] > TIMER_PERIOD
    BY <2>1, <2>2, <2>3 DEF Expired
  <2> QED BY <2>2, <2>3, <2>4
<1>7. promised' \in [TaskId -> Int]
  BY TaskManagerAssumption DEF systimer_handler, TypeOK
<1>8. /\ state' \in [TaskId -> {"NONEXIST", "DORMANT", "READY", "WAIT"}]
      /\ wait_factor' \in [TaskId -> Factors]
      /\ wait_err' \in [TaskId -> {"E_OK", "E_TMOUT"}]
      /\ tick_served' \in BOOLEAN
  BY <1>4 DEF systimer_handler, TypeOK, Factors
<1> QED BY <1>3, <1>4, <1>5, <1>6, <1>7, <1>8
        DEF systimer_handler, TypeOK, ReadyQueues, Factors

(* The calls that queue or dequeue the current task or a started one. *)
LEMMA StartType ==
    ASSUME TypeOK, NEW t \in TaskId,
           state' = [state EXCEPT ![t] = "READY"],
           ready_queue' = AddReady(ready_queue, t),
           scheduler,
           UNCHANGED <<wait_factor, wait_time, wait_err, wakeup_count,
                       wait_queue, cpuVars, promised>>
    PROVE  TypeOK'
<1>1. ready_queue' \in ReadyQueues
  BY AddReadyType DEF TypeOK, ReadyQueues
<1>2. scheduled_task' \in TaskId \cup {NULL} /\ pendsv' \in BOOLEAN
  BY <1>1, SchedulerType
<1> QED BY <1>1, <1>2 DEF TypeOK, cpuVars, ReadyQueues

(* Every step of a system call is typed. *)
LEMMA CallType ==
    ASSUME TypeOK, SystemCall
    PROVE  TypeOK'
<1>1. CASE sk_create_task
  BY <1>1 DEF sk_create_task, TypeOK, cpuVars
<1>2. CASE sk_exit_task
  <2>1. curr_task \in TaskId /\ task_pri[curr_task] \in Priorities
    BY <1>2, PriorityOf DEF sk_exit_task, TypeOK, Running
  <2>2. \A q \in Seq(TaskId) : task_queue_remove_top(q) \in Seq(TaskId)
    BY DEF task_queue_remove_top
  <2>3. ready_queue' \in ReadyQueues
    BY <1>2, <2>1, <2>2 DEF sk_exit_task, RemoveTopReady, TypeOK, ReadyQueues
  <2>4. scheduled_task' \in TaskId \cup {NULL} /\ pendsv' \in BOOLEAN
    BY <1>2, <2>3, SchedulerType DEF sk_exit_task
  <2> QED BY <1>2, <2>3, <2>4 DEF sk_exit_task, TypeOK, cpuVars, ReadyQueues
<1>3. ASSUME NEW t \in TaskId, sk_start_task(t) PROVE TypeOK'
  BY <1>3, StartType DEF sk_start_task
<1>4. ASSUME NEW t \in TaskId, sk_wakeup_task(t) PROVE TypeOK'
  <2>1. CASE Release(t)
    BY <2>1, ReleaseType
  <2>2. CASE ~Release(t)
    BY <1>4, <2>2 DEF sk_wakeup_task, TypeOK, cpuVars
  <2> QED BY <2>1, <2>2
<1>5. ASSUME NEW d \in DelayTimes, sk_delay_task(d) PROVE TypeOK'
  <2>1. d \in Int /\ d + TIMER_PERIOD \in Int
    BY TaskManagerAssumption
  <2>2. Reltime(d + TIMER_PERIOD) \in 0 .. Forever
    BY <2>1, ReltimeType
  <2> QED BY <1>5, <2>1, <2>2, BlockType DEF sk_delay_task, Factors
<1>6. ASSUME NEW d \in Timeouts, sk_sleep_task(d) PROVE TypeOK'
  <2>1. d \in Int /\ d + TIMER_PERIOD \in Int
    BY TaskManagerAssumption
  <2>2. WaitTime(d) \in 0 .. Forever
    BY <2>1, ReltimeType DEF WaitTime
  <2>3. CASE Block("SLP", WaitTime(d), d)
    BY <1>6, <2>1, <2>2, <2>3, BlockType DEF sk_sleep_task, Factors
  <2>4. CASE wakeup_count[curr_task] > 0 /\ ~Block("SLP", WaitTime(d), d)
    <3>1. curr_task \in TaskId
      BY <1>6 DEF sk_sleep_task, Running, TypeOK
    <3>2. wakeup_count' = [wakeup_count EXCEPT ![curr_task] = @ - 1]
      BY <1>6, <2>4 DEF sk_sleep_task
    <3>3. wakeup_count' \in [TaskId -> Nat]
      BY <2>4, <3>1, <3>2 DEF TypeOK
    <3> QED BY <1>6, <2>4, <3>3 DEF sk_sleep_task, TypeOK, cpuVars
  <2> QED BY <1>6, <2>3, <2>4 DEF sk_sleep_task
<1> QED BY <1>1, <1>2, <1>3, <1>4, <1>5, <1>6 DEF SystemCall

(* The initial state is typed. *)
LEMMA InitTyped == Init => Typed
<1> SUFFICES ASSUME Init PROVE Typed
  OBVIOUS
<1>1. 0 \in 0 .. Forever
  BY TaskManagerAssumption DEF Forever
<1>2. ready_queue \in [Priorities -> Seq(TaskId)]
  BY DEF Init
<1>3. wait_time \in [TaskId -> 0 .. Forever]
  BY <1>1 DEF Init
<1>4. wait_queue \in Seq(TaskId)
  BY DEF Init
<1>5. TypeOK
  <2>1. /\ state \in [TaskId -> {"NONEXIST", "DORMANT", "READY", "WAIT"}]
        /\ wait_factor \in [TaskId -> Factors]
        /\ wait_err \in [TaskId -> {"E_OK", "E_TMOUT"}]
        /\ wakeup_count \in [TaskId -> Nat]
        /\ promised \in [TaskId -> Int]
    BY DEF Init, Factors
  <2>2. /\ curr_task \in TaskId \cup {NULL}
        /\ scheduled_task \in TaskId \cup {NULL}
        /\ dispatch_running \in BOOLEAN
        /\ pendsv \in BOOLEAN
        /\ tick_served \in BOOLEAN
    BY DEF Init
  <2> QED BY <1>2, <1>3, <1>4, <2>1, <2>2 DEF TypeOK, Factors
<1>6. TickHasTask
  BY DEF Init, TickHasTask
<1> QED BY <1>5, <1>6 DEF Typed

(* Every step is typed. *)
LEMMA TypedStep == Typed /\ [Next]_vars => Typed'
<1> SUFFICES ASSUME Typed, [Next]_vars PROVE Typed'
  OBVIOUS
<1> USE DEF Typed
<1>1. CASE main
  <2>1. 1 \in TaskId
    BY TaskManagerAssumption DEF TaskId
  <2> QED BY <1>1, <2>1, StartType DEF main, TickHasTask, cpuVars
<1>2. CASE SystemCall
  <2>1. UNCHANGED cpuVars
    BY <1>2 DEF SystemCall, sk_create_task, sk_exit_task, sk_start_task,
                sk_wakeup_task, sk_delay_task, sk_sleep_task, Block, Release
  <2> QED BY <1>2, <2>1, CallType DEF TickHasTask, cpuVars
<1>3. CASE systimer_handler
  BY <1>3, TickType DEF systimer_handler, TickHasTask
<1>4. CASE dispatch_entry
  BY <1>4 DEF dispatch_entry, TypeOK, TickHasTask, tcbVars
<1>5. CASE dispatch_loop_exit
  BY <1>5 DEF dispatch_loop_exit, TypeOK, TickHasTask, tcbVars
<1>6. CASE UNCHANGED vars
  BY <1>6 DEF vars, tcbVars, cpuVars, TypeOK, TickHasTask
<1> QED BY <1>1, <1>2, <1>3, <1>4, <1>5, <1>6 DEF Next

(* The variables keep their types whatever the application does: no        *)
(* condition on priorities or times is needed.                             *)
THEOREM TypeCorrect == Spec => []TypeOK
<1>1. Init => Typed
  BY InitTyped
<1>2. Typed /\ [Next]_vars => Typed'
  BY TypedStep
<1>3. Typed => TypeOK
  BY DEF Typed
<1> QED BY <1>1, <1>2, <1>3, PTL DEF Spec

-----------------------------------------------------------------------------
(* What a step of each kind does to the waits. *)
LEMMA TickWaits ==
    ASSUME Typed, systimer_handler
    PROVE  /\ Counted \subseteq {t \in TaskId : ~Expired(t)}
           /\ \A t \in TimedOut : Expired(t)
           /\ \A t \in TaskId \ TimedOut : /\ state'[t] = state[t]
                                           /\ wait_factor'[t] = wait_factor[t]
           /\ \A t \in TimedOut : state'[t] = "READY"
<1>1. /\ Counted \subseteq {t \in TaskId : ~Expired(t)}
      /\ \/ TimedOut = {}
         \/ \E k \in DOMAIN wait_queue : /\ wait_queue[k] \in TaskId
                                         /\ TimedOut = {wait_queue[k]}
                                         /\ Expired(wait_queue[k])
  BY WalkCases DEF Typed
<1> QED BY <1>1 DEF systimer_handler

-----------------------------------------------------------------------------
(* Wakeups.                                                                *)

LEMMA CallKeepsWakeups ==
    ASSUME Typed, NoSleeperHasWakeup, SystemCall
    PROVE  NoSleeperHasWakeup'
<1>0. TypeOK
  BY DEF Typed
<1>1. CASE sk_create_task
  BY <1>0, <1>1 DEF sk_create_task, NoSleeperHasWakeup, TypeOK
<1>2. CASE sk_exit_task
  BY <1>0, <1>2 DEF sk_exit_task, NoSleeperHasWakeup, TypeOK
<1>3. ASSUME NEW t \in TaskId, sk_start_task(t) PROVE NoSleeperHasWakeup'
  BY <1>0, <1>3 DEF sk_start_task, NoSleeperHasWakeup, TypeOK
<1>4. ASSUME NEW t \in TaskId, sk_wakeup_task(t) PROVE NoSleeperHasWakeup'
  <2>1. CASE Release(t)
    BY <1>0, <2>1 DEF Release, NoSleeperHasWakeup, TypeOK
  <2>2. CASE ~Release(t)
    BY <1>0, <1>4, <2>2 DEF sk_wakeup_task, NoSleeperHasWakeup, TypeOK
  <2> QED BY <2>1, <2>2
<1>5. ASSUME NEW d \in DelayTimes, sk_delay_task(d) PROVE NoSleeperHasWakeup'
  BY <1>0, <1>5 DEF sk_delay_task, Block, NoSleeperHasWakeup, TypeOK
<1>6. ASSUME NEW d \in Timeouts, sk_sleep_task(d) PROVE NoSleeperHasWakeup'
  <2>1. curr_task \in TaskId /\ wakeup_count[curr_task] \in Nat
    BY <1>0, <1>6 DEF sk_sleep_task, Running, TypeOK
  <2>2. CASE wakeup_count[curr_task] > 0
    BY <1>0, <1>6, <2>1, <2>2 DEF sk_sleep_task, NoSleeperHasWakeup, TypeOK
  <2>3. CASE wakeup_count[curr_task] <= 0
    BY <1>0, <1>6, <2>1, <2>3
       DEF sk_sleep_task, Block, NoSleeperHasWakeup, TypeOK
  <2> QED BY <2>1, <2>2, <2>3
<1> QED BY <1>1, <1>2, <1>3, <1>4, <1>5, <1>6 DEF SystemCall

(* No wakeup is lost: no task sleeps with a wakeup recorded for it, for    *)
(* any number of tasks and any order of sleeps, wakeups and timeouts.      *)
THEOREM NoLostWakeup == Spec => []NoSleeperHasWakeup
<1> DEFINE I == Typed /\ NoSleeperHasWakeup
<1>1. Init => I
  BY InitTyped DEF Init, NoSleeperHasWakeup
<1>2. I /\ [Next]_vars => I'
  <2> SUFFICES ASSUME I, [Next]_vars PROVE NoSleeperHasWakeup'
    BY TypedStep
  <2>1. CASE main
    BY <2>1 DEF main, NoSleeperHasWakeup, Typed, TypeOK
  <2>2. CASE SystemCall
    BY <2>2, CallKeepsWakeups
  <2>3. CASE systimer_handler
    BY <2>3, TickWaits DEF systimer_handler, NoSleeperHasWakeup
  <2>4. CASE dispatch_entry \/ dispatch_loop_exit \/ UNCHANGED vars
    BY <2>4 DEF dispatch_entry, dispatch_loop_exit, vars, tcbVars,
                NoSleeperHasWakeup
  <2> QED BY <2>1, <2>2, <2>3, <2>4 DEF Next
<1>3. I => NoSleeperHasWakeup
  OBVIOUS
<1> QED BY <1>1, <1>2, <1>3, PTL DEF Spec

-----------------------------------------------------------------------------
(* Timeouts.                                                               *)

(* What is left of the time asked for is at least a period less than what  *)
(* the control block counts down.                                          *)
PromiseOf(t) ==
    (state[t] = "WAIT" /\ wait_time[t] # Forever) =>
        /\ promised[t] >= 0
        /\ promised[t] = 0 \/ promised[t] <= wait_time[t] - TIMER_PERIOD

PromiseKept == \A t \in TaskId : PromiseOf(t)

LEMMA BlockPromise ==
    ASSUME Typed, Running, PromiseKept, NEW factor, NEW time \in 0 .. Forever,
           NEW promise \in Int, Block(factor, time, promise),
           time # Forever => promise >= 0 /\ promise + TIMER_PERIOD <= time
    PROVE  PromiseKept'
<1>1. TypeOK /\ curr_task \in TaskId /\ TIMER_PERIOD \in Nat
  BY TaskManagerAssumption DEF Typed, TypeOK, Running
<1>2. Forever' = Forever
  BY DEF Forever
<1> SUFFICES ASSUME NEW t \in TaskId PROVE PromiseOf(t)'
  BY DEF PromiseKept
<1>3. CASE t # curr_task
  <2>1. /\ state'[t] = state[t] /\ wait_time'[t] = wait_time[t]
        /\ promised'[t] = promised[t]
    BY <1>1, <1>3 DEF Block, TypeOK
  <2> QED BY <1>2, <2>1 DEF PromiseKept, PromiseOf
<1>4. CASE t = curr_task
  <2>1. wait_time'[t] = time /\ promised'[t] = promise
    BY <1>1, <1>4 DEF Block, TypeOK
  <2>2. time \in Int /\ (time # Forever => promise <= time - TIMER_PERIOD)
    BY <1>1, TaskManagerAssumption DEF Forever
  <2> QED BY <1>2, <2>1, <2>2 DEF PromiseOf
<1> QED BY <1>3, <1>4

LEMMA TickPromise ==
    ASSUME Typed, PromiseKept, systimer_handler
    PROVE  PromiseKept'
<1>1. TIMER_PERIOD \in Nat /\ Forever \in Nat /\ Forever' = Forever
  BY TaskManagerAssumption DEF Forever
<1> SUFFICES ASSUME NEW t \in TaskId, state'[t] = "WAIT", wait_time'[t] # Forever
             PROVE  /\ promised'[t] >= 0
                    /\ \/ promised'[t] = 0
                       \/ promised'[t] <= wait_time'[t] - TIMER_PERIOD
  BY <1>1 DEF PromiseKept, PromiseOf
<1>2. t \notin TimedOut /\ state[t] = "WAIT"
  BY TickWaits
<1>3. wait_time[t] \in 0 .. Forever /\ promised[t] \in Int
  BY DEF Typed, TypeOK
<1>4. wait_time'[t] = IF t \in Counted /\ wait_time[t] # Forever
                      THEN wait_time[t] - TIMER_PERIOD ELSE wait_time[t]
  BY DEF systimer_handler
<1>5. wait_time[t] # Forever
  BY <1>4
<1>6. promised[t] >= 0 /\ (promised[t] = 0 \/ promised[t] <= wait_time[t] - TIMER_PERIOD)
  BY <1>2, <1>5 DEF PromiseKept, PromiseOf
<1>7. promised'[t] = IF promised[t] <= 0 THEN promised[t]
                     ELSE IF promised[t] <= TIMER_PERIOD THEN 0
                     ELSE promised[t] - TIMER_PERIOD
  BY <1>2 DEF systimer_handler
<1> HIDE DEF Forever
<1> QED BY <1>1, <1>3, <1>4, <1>6, <1>7

LEMMA CallPromise ==
    ASSUME TimesInRange, Typed, PromiseKept, SystemCall
    PROVE  PromiseKept'
<1>0. TypeOK /\ Forever' = Forever
  BY DEF Typed, Forever
<1>a. TIMER_PERIOD \in Nat /\ Forever \in Nat
  BY TaskManagerAssumption DEF Forever
<1>1. CASE sk_create_task
  BY <1>0, <1>1 DEF sk_create_task, PromiseKept, PromiseOf, TypeOK
<1>2. CASE sk_exit_task
  BY <1>0, <1>2 DEF sk_exit_task, PromiseKept, PromiseOf, TypeOK
<1>3. ASSUME NEW t \in TaskId, sk_start_task(t) PROVE PromiseKept'
  BY <1>0, <1>3 DEF sk_start_task, PromiseKept, PromiseOf, TypeOK
<1>4. ASSUME NEW t \in TaskId, sk_wakeup_task(t) PROVE PromiseKept'
  <2>1. CASE Release(t)
    BY <1>0, <2>1 DEF Release, PromiseKept, PromiseOf, TypeOK
  <2>2. CASE ~Release(t)
    BY <1>0, <1>4, <2>2 DEF sk_wakeup_task, PromiseKept, PromiseOf
  <2> QED BY <2>1, <2>2
<1>5. ASSUME NEW d \in DelayTimes, sk_delay_task(d) PROVE PromiseKept'
  <2>1. d \in Nat /\ d + TIMER_PERIOD < Forever
    BY TaskManagerAssumption DEF TimesInRange
  <2>2. Reltime(d + TIMER_PERIOD) = d + TIMER_PERIOD
    BY <1>a, <2>1, ReltimeType
  <2>3. d + TIMER_PERIOD \in 0 .. Forever
    BY <1>a, <2>1
  <2> QED BY <1>5, <1>a, <2>1, <2>2, <2>3, BlockPromise DEF sk_delay_task
<1>6. ASSUME NEW d \in Timeouts, sk_sleep_task(d) PROVE PromiseKept'
  <2>1. CASE ~Block("SLP", WaitTime(d), d)
    BY <1>0, <1>6, <2>1 DEF sk_sleep_task, PromiseKept, PromiseOf
  <2>2. CASE Block("SLP", WaitTime(d), d)
    <3>1. d \in Int
      BY TaskManagerAssumption
    <3>2. CASE d = TMO_FEVR
      <4>1. WaitTime(d) = Forever /\ WaitTime(d) \in 0 .. Forever
        BY <1>a, <3>2, ReltimeType DEF WaitTime, TMO_FEVR
      <4> QED BY <1>6, <2>2, <3>1, <4>1, BlockPromise DEF sk_sleep_task
    <3>3. CASE d # TMO_FEVR
      <4>1. 0 < d /\ d + TIMER_PERIOD < Forever
        BY <3>3 DEF TimesInRange
      <4>2. d + TIMER_PERIOD \in 0 .. Forever
        BY <1>a, <3>1, <4>1
      <4>3. WaitTime(d) = d + TIMER_PERIOD
        BY <3>3, <4>2, ReltimeType DEF WaitTime
      <4> QED BY <1>6, <1>a, <2>2, <3>1, <4>1, <4>2, <4>3, BlockPromise
              DEF sk_sleep_task
    <3> QED BY <3>2, <3>3
  <2> QED BY <2>1, <2>2
<1> QED BY <1>1, <1>2, <1>3, <1>4, <1>5, <1>6 DEF SystemCall

LEMMA PromiseStep ==
    ASSUME TimesInRange, Typed, PromiseKept, [Next]_vars
    PROVE  PromiseKept'
<1>1. CASE main
  BY <1>1 DEF main, PromiseKept, PromiseOf, Typed, TypeOK, Forever
<1>2. CASE SystemCall
  BY <1>2, CallPromise
<1>3. CASE systimer_handler
  BY <1>3, TickPromise
<1>4. CASE dispatch_entry \/ dispatch_loop_exit \/ UNCHANGED vars
  BY <1>4 DEF dispatch_entry, dispatch_loop_exit, vars, tcbVars,
              PromiseKept, PromiseOf, Forever
<1> QED BY <1>1, <1>2, <1>3, <1>4 DEF Next

LEMMA PromiseAtTick ==
    ASSUME Typed, PromiseKept, systimer_handler, NEW t \in TaskId,
           state[t] = "WAIT", state'[t] = "READY"
    PROVE  promised[t] = 0
<1>1. Expired(t)
  BY TickWaits
<1>2. wait_time[t] # Forever /\ wait_time[t] <= TIMER_PERIOD
  BY <1>1 DEF Expired
<1>3. promised[t] >= 0 /\ (promised[t] = 0 \/ promised[t] <= wait_time[t] - TIMER_PERIOD)
  BY <1>2 DEF PromiseKept, PromiseOf
<1>4. wait_time[t] \in Int /\ promised[t] \in Int /\ TIMER_PERIOD \in Nat
  BY TaskManagerAssumption DEF Typed, TypeOK, Forever
<1> QED BY <1>2, <1>3, <1>4

(* The tick ends a wait only when the whole time asked for has passed, for *)
(* any times that do not wrap.                                             *)
THEOREM TimeoutsNotEarly ==
    ASSUME TimesInRange
    PROVE  Spec => NoEarlyTimeout
<1> DEFINE I == Typed /\ PromiseKept
<1>1. Init => I
  BY InitTyped DEF Init, PromiseKept, PromiseOf
<1>2. I /\ [Next]_vars => I'
  BY TypedStep, PromiseStep
<1>3. I /\ [Next]_vars =>
        [systimer_handler =>
           \A t \in TaskId : (state[t] = "WAIT" /\ state'[t] = "READY")
                                => promised[t] = 0]_vars
  BY PromiseAtTick
<1> HIDE DEF I
<1> QED BY <1>1, <1>2, <1>3, PTL DEF Spec, NoEarlyTimeout

-----------------------------------------------------------------------------
(* The inductive invariant.                                                *)

ScheduledIsTop == scheduled_task = Top(ready_queue)

(* A task executes only if it is the scheduled one; nothing runs before    *)
(* the first task exists.                                                  *)
Phases ==
    /\ Running => scheduled_task = curr_task
    /\ state[1] = "NONEXIST" => /\ curr_task = NULL
                                /\ ~dispatch_running
                                /\ ~pendsv
                                /\ tick_served

(* What a tick may find: the current task at the top of its queue, or      *)
(* blocked by a call after which it is not dispatched yet, with a time     *)
(* that this tick does not end.                                            *)
CurrAtTick ==
    (~tick_served /\ curr_task # NULL) =>
        /\ state[curr_task] = "READY" =>
              /\ ready_queue[task_pri[curr_task]] # <<>>
              /\ Head(ready_queue[task_pri[curr_task]]) = curr_task
        /\ state[curr_task] = "WAIT" => ~Expired(curr_task)

Inv == /\ Typed
       /\ QueuesMatchStates
       /\ ScheduledIsTop
       /\ Phases
       /\ CurrAtTick

(* The same facts for any queues. *)
WaitHolds(queue, st) ==
    IsInjective(queue) /\ ToSet(queue) = {t \in TaskId : st[t] = "WAIT"}

LEMMA QueuesHold ==
    QueuesMatchStates <=> Holds(ready_queue, state) /\ WaitHolds(wait_queue, state)
BY DEF QueuesMatchStates, ReadyQueuesHoldReadyTasks, WaitQueueHoldsWaitingTasks,
       Holds, WaitHolds

-----------------------------------------------------------------------------
(* The task at the top is ready and no ready task has a higher priority. *)
LEMMA TopIsReady ==
    ASSUME NEW queues \in ReadyQueues, NEW st, Holds(queues, st),
           NEW t, t = Top(queues), t # NULL
    PROVE  /\ t \in TaskId
           /\ st[t] = "READY"
           /\ queues[task_pri[t]] # <<>>
           /\ Head(queues[task_pri[t]]) = t
           /\ \A u \in TaskId : st[u] = "READY" => task_pri[t] <= task_pri[u]
<1>1. t \in TaskId /\ IsTop(queues, t)
  BY TopIsTop
<1>2. PICK p \in Priorities : /\ queues[p] # <<>>
                              /\ Head(queues[p]) = t
                              /\ \A q \in 0 .. (p - 1) : queues[q] = <<>>
  BY <1>1 DEF IsTop
<1>3. queues[p] \in Seq(TaskId)
  BY DEF ReadyQueues
<1>4. t \in ToSet(queues[p])
  BY <1>2, <1>3 DEF ToSet
<1>5. st[t] = "READY" /\ task_pri[t] = p
  BY <1>4 DEF Holds
<1>6. ASSUME NEW u \in TaskId, st[u] = "READY" PROVE p <= task_pri[u]
  <2>1. task_pri[u] \in Priorities
    BY PriorityOf
  <2>2. u \in ToSet(queues[task_pri[u]])
    BY <1>6, <2>1 DEF Holds
  <2>3. queues[task_pri[u]] # <<>>
    BY <2>2 DEF ToSet
  <2>4. task_pri[u] \notin 0 .. (p - 1)
    BY <1>2, <2>3
  <2> QED BY <2>1, <2>4, TaskManagerAssumption DEF Priorities
<1> QED BY <1>1, <1>2, <1>5, <1>6

(* If no task is at the top, none is ready. *)
LEMMA NoTopNoneReady ==
    ASSUME NEW queues \in ReadyQueues, NEW st, Holds(queues, st),
           Top(queues) = NULL
    PROVE  \A u \in TaskId : st[u] # "READY"
<1>1. \A p \in Priorities : queues[p] = <<>>
  BY TopIsTop, PriorityOf
<1> SUFFICES ASSUME NEW u \in TaskId, st[u] = "READY" PROVE FALSE
  OBVIOUS
<1>2. u \in ToSet(queues[task_pri[u]]) /\ task_pri[u] \in Priorities
  BY PriorityOf DEF Holds
<1> QED BY <1>1, <1>2 DEF ToSet

(* A running task is ready and at the top of its queue. *)
LEMMA RunningIsTop ==
    ASSUME Inv, Running
    PROVE  /\ curr_task \in TaskId
           /\ state[curr_task] = "READY"
           /\ ready_queue[task_pri[curr_task]] # <<>>
           /\ Head(ready_queue[task_pri[curr_task]]) = curr_task
           /\ \A u \in TaskId : state[u] = "READY"
                                  => task_pri[curr_task] <= task_pri[u]
<1>1. ready_queue \in ReadyQueues /\ Holds(ready_queue, state)
  BY QueuesHold DEF Inv, Typed, TypeOK, ReadyQueues
<1>2. curr_task = Top(ready_queue) /\ curr_task # NULL
  BY DEF Inv, ScheduledIsTop, Phases, Running
<1> QED BY <1>1, <1>2, TopIsReady

(* What the scheduler's run at the end of a system call establishes. *)
LEMMA AfterScheduler ==
    ASSUME scheduler, UNCHANGED cpuVars
    PROVE  /\ ScheduledIsTop'
           /\ Running' => scheduled_task' = curr_task'
BY DEF scheduler, cpuVars, ScheduledIsTop, Running

-----------------------------------------------------------------------------
(* The steps of the running task.                                          *)

LEMMA BlockInv ==
    ASSUME Inv, Running, NEW factor \in Factors, NEW time \in 0 .. Forever,
           NEW promise \in Int, time = Forever \/ time > TIMER_PERIOD,
           Block(factor, time, promise)
    PROVE  Inv'
<1>1. /\ curr_task \in TaskId
      /\ state[curr_task] = "READY"
      /\ ready_queue[task_pri[curr_task]] # <<>>
      /\ Head(ready_queue[task_pri[curr_task]]) = curr_task
  BY RunningIsTop
<1>2. TypeOK /\ ready_queue \in ReadyQueues
  BY DEF Inv, Typed, TypeOK, ReadyQueues
<1>3. /\ state' = [state EXCEPT ![curr_task] = "WAIT"]
      /\ wait_time' = [wait_time EXCEPT ![curr_task] = time]
      /\ scheduler /\ UNCHANGED cpuVars
  BY DEF Block
<1>4. Typed'
  BY <1>2, <1>3, BlockType DEF Inv, Typed, TickHasTask, cpuVars
<1>5. /\ state'[curr_task] = "WAIT"
      /\ \A u \in TaskId \ {curr_task} : state'[u] = state[u]
  BY <1>1, <1>2, <1>3 DEF TypeOK
<1>6. Holds(ready_queue', state')
  <2>1. Holds(ready_queue, state)
    BY QueuesHold DEF Inv
  <2>2. ready_queue' = RemoveTopReady(ready_queue, curr_task)
    BY DEF Block
  <2>3. state'[curr_task] # "READY"
    BY <1>5
  <2> QED BY <1>1, <1>2, <1>5, <2>1, <2>2, <2>3, RemoveTopReadyHolds
<1>7. WaitHolds(wait_queue', state')
  <2>1. WaitHolds(wait_queue, state) /\ wait_queue \in Seq(TaskId)
    BY QueuesHold DEF Inv, Typed, TypeOK
  <2>2. curr_task \notin ToSet(wait_queue)
    BY <1>1, <2>1 DEF WaitHolds
  <2>3. wait_queue' = Append(wait_queue, curr_task)
    BY DEF Block, task_queue_add_entry
  <2>4. /\ IsInjective(wait_queue')
        /\ ToSet(wait_queue') = ToSet(wait_queue) \cup {curr_task}
    BY <1>1, <2>1, <2>2, <2>3, AppendDistinct DEF WaitHolds
  <2> QED BY <1>1, <1>5, <2>1, <2>4 DEF WaitHolds
<1>8. QueuesMatchStates'
  BY <1>6, <1>7 DEF QueuesMatchStates, ReadyQueuesHoldReadyTasks,
                    WaitQueueHoldsWaitingTasks, Holds, WaitHolds
<1>9. ScheduledIsTop' /\ Phases'
  <2>1. state[1] # "NONEXIST"
    BY DEF Inv, Phases, Running
  <2>2. state'[1] # "NONEXIST"
    BY <1>2, <1>3, <2>1 DEF TypeOK
  <2> QED BY <1>3, <2>2, AfterScheduler DEF Phases
<1>10. CurrAtTick'
  <2>1. curr_task' = curr_task /\ state'[curr_task] = "WAIT"
    BY <1>3, <1>5 DEF cpuVars
  <2>2. wait_time'[curr_task] = time
    BY <1>1, <1>2, <1>3 DEF TypeOK
  <2>3. time # Forever => ~(time <= TIMER_PERIOD)
    BY TaskManagerAssumption DEF Forever
  <2> QED BY <2>1, <2>2, <2>3 DEF CurrAtTick, Expired
<1> QED BY <1>4, <1>8, <1>9, <1>10 DEF Inv

(* A waiting task is removed from the wait queue, wherever it is in it. *)
LEMMA RemoveEntryHolds ==
    ASSUME NEW queue \in Seq(TaskId), NEW st, WaitHolds(queue, st),
           NEW t \in TaskId, NEW k \in DOMAIN queue, queue[k] = t,
           NEW st2, st2[t] # "WAIT",
           \A u \in TaskId \ {t} : st2[u] = st[u]
    PROVE  WaitHolds(RemoveAt(queue, k), st2)
<1>1. /\ IsInjective(RemoveAt(queue, k))
      /\ ToSet(RemoveAt(queue, k)) = ToSet(queue) \ {t}
  BY RemoveAtDistinct DEF WaitHolds
<1>2. ToSet(queue) = {u \in TaskId : st[u] = "WAIT"}
  BY DEF WaitHolds
<1> QED BY <1>1, <1>2 DEF WaitHolds

LEMMA ReleaseInv ==
    ASSUME Inv, Running, NEW t \in TaskId, state[t] = "WAIT", Release(t)
    PROVE  Inv'
<1>1. /\ curr_task \in TaskId
      /\ state[curr_task] = "READY"
      /\ ready_queue[task_pri[curr_task]] # <<>>
      /\ Head(ready_queue[task_pri[curr_task]]) = curr_task
  BY RunningIsTop
<1>2. TypeOK /\ ready_queue \in ReadyQueues
  BY DEF Inv, Typed, TypeOK, ReadyQueues
<1>3. /\ state' = [state EXCEPT ![t] = "READY"]
      /\ ready_queue' = AddReady(ready_queue, t)
      /\ scheduler /\ UNCHANGED cpuVars
  BY DEF Release
<1>4. Typed'
  BY <1>2, <1>3, ReleaseType DEF Inv, Typed, TickHasTask, cpuVars
<1>5. \A u \in TaskId : state'[u] = IF u = t THEN "READY" ELSE state[u]
  BY <1>2, <1>3 DEF TypeOK
<1>6. /\ Holds(ready_queue', state')
      /\ \A p \in Priorities :
            ready_queue[p] # <<>> =>
                /\ ready_queue'[p] # <<>>
                /\ Head(ready_queue'[p]) = Head(ready_queue[p])
  <2>1. Holds(ready_queue, state)
    BY QueuesHold DEF Inv
  <2>2. state[t] # "READY"
    OBVIOUS
  <2>3. /\ Holds(AddReady(ready_queue, t), state')
        /\ \A p \in Priorities :
              ready_queue[p] # <<>> =>
                /\ AddReady(ready_queue, t)[p] # <<>>
                /\ Head(AddReady(ready_queue, t)[p]) = Head(ready_queue[p])
    BY <1>2, <1>5, <2>1, <2>2, AddReadyHolds
  <2> QED BY <1>3, <2>3
<1>7. WaitHolds(wait_queue', state')
  <2>1. WaitHolds(wait_queue, state) /\ wait_queue \in Seq(TaskId)
    BY QueuesHold DEF Inv, Typed, TypeOK
  <2>2. t \in ToSet(wait_queue)
    BY <2>1 DEF WaitHolds
  <2>3. PICK k \in DOMAIN wait_queue :
            wait_queue[k] = t /\ wait_queue' = RemoveAt(wait_queue, k)
    BY <2>2 DEF Release, task_queue_remove_entry, ToSet
  <2>4. state'[t] # "WAIT"
    BY <1>5
  <2> QED BY <1>5, <2>1, <2>3, <2>4, RemoveEntryHolds
<1>8. QueuesMatchStates'
  BY <1>6, <1>7 DEF QueuesMatchStates, ReadyQueuesHoldReadyTasks,
                    WaitQueueHoldsWaitingTasks, Holds, WaitHolds
<1>9. ScheduledIsTop' /\ Phases'
  <2>1. state[1] # "NONEXIST"
    BY DEF Inv, Phases, Running
  <2>2. state'[1] # "NONEXIST"
    BY <1>2, <1>3, <2>1 DEF TypeOK
  <2> QED BY <1>3, <2>2, AfterScheduler DEF Phases
<1>10. CurrAtTick'
  <2>1. curr_task' = curr_task /\ state'[curr_task] = "READY"
    BY <1>1, <1>3, <1>5 DEF cpuVars
  <2> QED BY <1>1, <1>6, <2>1, PriorityOf DEF CurrAtTick
<1> QED BY <1>4, <1>8, <1>9, <1>10 DEF Inv

LEMMA StartInv ==
    ASSUME Inv, NEW t \in TaskId, sk_start_task(t)
    PROVE  Inv'
<1>1. /\ curr_task \in TaskId
      /\ state[curr_task] = "READY"
      /\ ready_queue[task_pri[curr_task]] # <<>>
      /\ Head(ready_queue[task_pri[curr_task]]) = curr_task
  BY RunningIsTop DEF sk_start_task
<1>2. TypeOK /\ ready_queue \in ReadyQueues
  BY DEF Inv, Typed, TypeOK, ReadyQueues
<1>3. /\ state[t] = "DORMANT" /\ Running
      /\ state' = [state EXCEPT ![t] = "READY"]
      /\ ready_queue' = AddReady(ready_queue, t)
      /\ wait_queue' = wait_queue
      /\ scheduler /\ UNCHANGED cpuVars
  BY DEF sk_start_task
<1>4. Typed'
  <2>1. TypeOK'
    BY <1>2, StartType DEF sk_start_task
  <2> QED BY <1>3, <2>1 DEF Inv, Typed, TickHasTask, cpuVars
<1>5. \A u \in TaskId : state'[u] = IF u = t THEN "READY" ELSE state[u]
  BY <1>2, <1>3 DEF TypeOK
<1>6. /\ Holds(ready_queue', state')
      /\ \A p \in Priorities :
            ready_queue[p] # <<>> =>
                /\ ready_queue'[p] # <<>>
                /\ Head(ready_queue'[p]) = Head(ready_queue[p])
  <2>1. Holds(ready_queue, state) /\ state[t] # "READY"
    BY <1>3, QueuesHold DEF Inv
  <2>3. /\ Holds(AddReady(ready_queue, t), state')
        /\ \A p \in Priorities :
              ready_queue[p] # <<>> =>
                /\ AddReady(ready_queue, t)[p] # <<>>
                /\ Head(AddReady(ready_queue, t)[p]) = Head(ready_queue[p])
    BY <1>2, <1>5, <2>1, AddReadyHolds
  <2> QED BY <1>3, <2>3
<1>7. WaitHolds(wait_queue', state')
  <2>1. WaitHolds(wait_queue, state)
    BY QueuesHold DEF Inv
  <2> QED BY <1>3, <1>5, <2>1 DEF WaitHolds
<1>8. QueuesMatchStates'
  BY <1>6, <1>7 DEF QueuesMatchStates, ReadyQueuesHoldReadyTasks,
                    WaitQueueHoldsWaitingTasks, Holds, WaitHolds
<1>9. ScheduledIsTop' /\ Phases'
  <2>1. state[1] # "NONEXIST"
    BY <1>3 DEF Inv, Phases, Running
  <2>2. state'[1] # "NONEXIST"
    BY <1>2, <1>3, <2>1 DEF TypeOK
  <2> QED BY <1>3, <2>2, AfterScheduler DEF Phases
<1>10. CurrAtTick'
  <2>1. curr_task' = curr_task /\ state'[curr_task] = "READY"
    BY <1>1, <1>3, <1>5 DEF cpuVars
  <2> QED BY <1>1, <1>6, <2>1, PriorityOf DEF CurrAtTick
<1> QED BY <1>4, <1>8, <1>9, <1>10 DEF Inv

LEMMA ExitInv ==
    ASSUME Inv, sk_exit_task
    PROVE  Inv'
<1>1. /\ curr_task \in TaskId
      /\ state[curr_task] = "READY"
      /\ ready_queue[task_pri[curr_task]] # <<>>
      /\ Head(ready_queue[task_pri[curr_task]]) = curr_task
  BY RunningIsTop DEF sk_exit_task
<1>2. TypeOK /\ ready_queue \in ReadyQueues
  BY DEF Inv, Typed, TypeOK, ReadyQueues
<1>3. /\ Running
      /\ state' = [state EXCEPT ![curr_task] = "DORMANT"]
      /\ ready_queue' = RemoveTopReady(ready_queue, curr_task)
      /\ wait_queue' = wait_queue
      /\ scheduler /\ UNCHANGED cpuVars
  BY DEF sk_exit_task
<1>4. Typed'
  BY <1>2, <1>3, CallType DEF SystemCall, Inv, Typed, TickHasTask, cpuVars
<1>5. /\ state'[curr_task] = "DORMANT"
      /\ \A u \in TaskId \ {curr_task} : state'[u] = state[u]
  BY <1>1, <1>2, <1>3 DEF TypeOK
<1>6. Holds(ready_queue', state')
  <2>1. Holds(ready_queue, state)
    BY QueuesHold DEF Inv
  <2>2. state'[curr_task] # "READY"
    BY <1>5
  <2> QED BY <1>1, <1>2, <1>3, <1>5, <2>1, <2>2, RemoveTopReadyHolds
<1>7. WaitHolds(wait_queue', state')
  <2>1. WaitHolds(wait_queue, state)
    BY QueuesHold DEF Inv
  <2> QED BY <1>1, <1>3, <1>5, <2>1 DEF WaitHolds
<1>8. QueuesMatchStates'
  BY <1>6, <1>7 DEF QueuesMatchStates, ReadyQueuesHoldReadyTasks,
                    WaitQueueHoldsWaitingTasks, Holds, WaitHolds
<1>9. ScheduledIsTop' /\ Phases'
  <2>1. state[1] # "NONEXIST"
    BY <1>3 DEF Inv, Phases, Running
  <2>2. state'[1] # "NONEXIST"
    BY <1>2, <1>3, <2>1 DEF TypeOK
  <2> QED BY <1>3, <2>2, AfterScheduler DEF Phases
<1>10. CurrAtTick'
  <2>1. curr_task' = curr_task /\ state'[curr_task] = "DORMANT"
    BY <1>3, <1>5 DEF cpuVars
  <2> QED BY <2>1 DEF CurrAtTick
<1> QED BY <1>4, <1>8, <1>9, <1>10 DEF Inv

(* A new control block is in no queue. *)
LEMMA CreateInv ==
    ASSUME Inv, sk_create_task
    PROVE  Inv'
<1>1. Running /\ curr_task \in TaskId /\ state[curr_task] = "READY"
  BY RunningIsTop DEF sk_create_task
<1>2. PICK t \in TaskId : /\ state[t] = "NONEXIST"
                          /\ state' = [state EXCEPT ![t] = "DORMANT"]
  BY DEF sk_create_task
<1>3. /\ UNCHANGED <<wait_time, ready_queue, wait_queue, cpuVars,
                     scheduled_task, pendsv>>
  BY DEF sk_create_task
<1>4. Typed'
  BY <1>3, CallType DEF SystemCall, Inv, Typed, TickHasTask, cpuVars
<1>5. \A u \in TaskId : \/ state'[u] = state[u]
                        \/ state[u] = "NONEXIST" /\ state'[u] = "DORMANT"
  BY <1>2 DEF Inv, Typed, TypeOK
<1>6. QueuesMatchStates'
  <2>1. \A u \in TaskId : /\ state'[u] = "READY" <=> state[u] = "READY"
                          /\ state'[u] = "WAIT" <=> state[u] = "WAIT"
    BY <1>5
  <2> QED BY <1>3, <2>1 DEF Inv, QueuesMatchStates, ReadyQueuesHoldReadyTasks,
                            WaitQueueHoldsWaitingTasks
<1>7. ScheduledIsTop' /\ Phases'
  <2>1. state[1] # "NONEXIST"
    BY <1>1 DEF Inv, Phases, Running
  <2>2. state'[1] # "NONEXIST"
    <3>1. 1 \in TaskId
      BY TaskManagerAssumption DEF TaskId
    <3> QED BY <1>5, <2>1, <3>1
  <2> QED BY <1>3, <2>2 DEF Inv, ScheduledIsTop, Phases, Running, cpuVars
<1>8. CurrAtTick'
  <2>1. curr_task' = curr_task /\ tick_served' = tick_served
        /\ state'[curr_task] = "READY"
    BY <1>1, <1>3, <1>5 DEF cpuVars
  <2> QED BY <1>1, <1>3, <2>1 DEF Inv, CurrAtTick
<1> QED BY <1>4, <1>6, <1>7, <1>8 DEF Inv

(* Steps that change no queue, no state and no task of the processor. *)
LEMMA FrameInv ==
    ASSUME Inv, TypeOK',
           UNCHANGED <<state, wait_time, ready_queue, wait_queue, cpuVars,
                       scheduled_task, pendsv>>
    PROVE  Inv'
BY DEF Inv, Typed, TickHasTask, QueuesMatchStates, ReadyQueuesHoldReadyTasks,
       WaitQueueHoldsWaitingTasks, ScheduledIsTop, Phases, Running, CurrAtTick,
       Expired, cpuVars

(* Every system call preserves the invariant. *)
LEMMA CallInv ==
    ASSUME TimesInRange, Inv, SystemCall
    PROVE  Inv'
<1>0. TypeOK'
  BY CallType DEF Inv, Typed
<1>1. CASE sk_create_task
  BY <1>1, CreateInv
<1>2. CASE sk_exit_task
  BY <1>2, ExitInv
<1>3. ASSUME NEW t \in TaskId, sk_start_task(t) PROVE Inv'
  BY <1>3, StartInv
<1>4. ASSUME NEW t \in TaskId, sk_wakeup_task(t) PROVE Inv'
  <2>1. CASE state[t] = "WAIT" /\ Release(t)
    BY <1>4, <2>1, ReleaseInv DEF sk_wakeup_task
  <2>2. CASE ~(state[t] = "WAIT" /\ Release(t))
    BY <1>0, <1>4, <2>2, FrameInv DEF sk_wakeup_task
  <2> QED BY <2>1, <2>2
<1>5. ASSUME NEW d \in DelayTimes, sk_delay_task(d) PROVE Inv'
  <2>1. /\ d \in Int /\ 0 < d /\ d + TIMER_PERIOD < Forever
        /\ TIMER_PERIOD \in Nat
    BY <1>5, TaskManagerAssumption DEF TimesInRange, sk_delay_task
  <2>2. d + TIMER_PERIOD \in 0 .. Forever
    BY <2>1, TaskManagerAssumption DEF Forever
  <2>3. Reltime(d + TIMER_PERIOD) = d + TIMER_PERIOD
    BY <2>2, ReltimeType
  <2>4. d + TIMER_PERIOD > TIMER_PERIOD
    BY <2>1
  <2> QED BY <1>5, <2>1, <2>2, <2>3, <2>4, BlockInv DEF sk_delay_task, Factors
<1>6. ASSUME NEW d \in Timeouts, sk_sleep_task(d) PROVE Inv'
  <2>1. CASE Block("SLP", WaitTime(d), d)
    <3>1. d \in Int /\ TIMER_PERIOD \in Nat
      BY TaskManagerAssumption
    <3>2. /\ WaitTime(d) \in 0 .. Forever
          /\ WaitTime(d) = Forever \/ WaitTime(d) > TIMER_PERIOD
      <4>1. CASE d = TMO_FEVR
        BY <3>1, <4>1, ReltimeType DEF WaitTime
      <4>2. CASE d # TMO_FEVR
        <5>1. 0 < d /\ d + TIMER_PERIOD < Forever
          BY <4>2 DEF TimesInRange
        <5>2. d + TIMER_PERIOD \in 0 .. Forever
          BY <3>1, <5>1, TaskManagerAssumption DEF Forever
        <5>3. WaitTime(d) = d + TIMER_PERIOD
          BY <4>2, <5>2, ReltimeType DEF WaitTime
        <5> QED BY <3>1, <5>1, <5>2, <5>3
      <4> QED BY <4>1, <4>2
    <3> QED BY <1>6, <2>1, <3>1, <3>2, BlockInv DEF sk_sleep_task, Factors
  <2>2. CASE ~Block("SLP", WaitTime(d), d)
    BY <1>0, <1>6, <2>2, FrameInv DEF sk_sleep_task
  <2> QED BY <2>1, <2>2
<1> QED BY <1>1, <1>2, <1>3, <1>4, <1>5, <1>6 DEF SystemCall

-----------------------------------------------------------------------------
(* The interrupts.                                                         *)

(* The walk over wait_queue keeps the queues matched with the states. *)
LEMMA WalkHolds ==
    ASSUME Inv, systimer_handler
    PROVE  /\ WalkedReady \in ReadyQueues
           /\ Holds(WalkedReady, state')
           /\ WaitHolds(wait_queue', state')
           /\ \A p \in Priorities :
                 ready_queue[p] # <<>> =>
                     /\ WalkedReady[p] # <<>>
                     /\ Head(WalkedReady[p]) = Head(ready_queue[p])
           /\ \A u \in TaskId :
                 state'[u] = state[u] \/ (/\ state[u] = "WAIT" /\ Expired(u)
                                         /\ state'[u] = "READY")
<1>1. /\ TypeOK /\ ready_queue \in ReadyQueues /\ wait_queue \in Seq(TaskId)
      /\ Holds(ready_queue, state) /\ WaitHolds(wait_queue, state)
  BY QueuesHold DEF Inv, Typed, TypeOK, ReadyQueues
<1>2. /\ \A u \in TaskId :
            state'[u] = IF u \in TimedOut THEN "READY" ELSE state[u]
      /\ wait_queue' = IF TimedOut = {} THEN wait_queue
                       ELSE RemoveAt(wait_queue, WalkEnd)
  BY DEF systimer_handler
<1>3. CASE TimedOut = {} /\ WalkedReady = ready_queue
  <2>1. \A u \in TaskId : state'[u] = state[u]
    BY <1>2, <1>3
  <2>2. Holds(ready_queue, state')
    BY <1>1, <2>1 DEF Holds
  <2>3. WaitHolds(wait_queue, state')
    BY <1>1, <2>1 DEF WaitHolds
  <2> QED BY <1>1, <1>2, <1>3, <2>1, <2>2, <2>3
<1>4. CASE \E k \in DOMAIN wait_queue :
              /\ WalkEnd = k
              /\ wait_queue[k] \in TaskId
              /\ TimedOut = {wait_queue[k]}
              /\ Expired(wait_queue[k])
              /\ WalkedReady = AddReady(ready_queue, wait_queue[k])
  <2>1. PICK k \in DOMAIN wait_queue :
              /\ WalkEnd = k
              /\ wait_queue[k] \in TaskId
              /\ TimedOut = {wait_queue[k]}
              /\ Expired(wait_queue[k])
              /\ WalkedReady = AddReady(ready_queue, wait_queue[k])
    BY <1>4
  <2> DEFINE t == wait_queue[k]
  <2>2. t \in ToSet(wait_queue)
    BY DEF ToSet
  <2>3. t \in TaskId /\ state[t] = "WAIT"
    BY <1>1, <2>2 DEF WaitHolds
  <2>4. \A u \in TaskId : state'[u] = IF u = t THEN "READY" ELSE state[u]
    BY <1>2, <2>1
  <2>5. /\ WalkedReady \in ReadyQueues
        /\ Holds(WalkedReady, state')
        /\ \A p \in Priorities :
              ready_queue[p] # <<>> =>
                  /\ WalkedReady[p] # <<>>
                  /\ Head(WalkedReady[p]) = Head(ready_queue[p])
    <3> HIDE DEF t
    <3>1. state[t] # "READY"
      BY <2>3
    <3>2. /\ AddReady(ready_queue, t) \in ReadyQueues
          /\ Holds(AddReady(ready_queue, t), state')
          /\ \A p \in Priorities :
                ready_queue[p] # <<>> =>
                  /\ AddReady(ready_queue, t)[p] # <<>>
                  /\ Head(AddReady(ready_queue, t)[p]) = Head(ready_queue[p])
      BY <1>1, <2>3, <2>4, <3>1, AddReadyHolds
    <3>3. WalkedReady = AddReady(ready_queue, t)
      BY <2>1 DEF t
    <3> QED BY <3>2, <3>3
  <2>6. WaitHolds(wait_queue', state')
    <3>1. wait_queue' = RemoveAt(wait_queue, k)
      BY <1>2, <2>1
    <3>2. state'[t] # "WAIT" /\ \A u \in TaskId \ {t} : state'[u] = state[u]
      BY <2>3, <2>4
    <3> QED BY <1>1, <2>3, <3>1, <3>2, RemoveEntryHolds
  <2> QED BY <2>1, <2>3, <2>4, <2>5, <2>6
<1> QED BY <1>1, <1>3, <1>4, WalkCases

(* The forced rotation finds the current task at the top: had it blocked,  *)
(* its queue could hold at most one other task and would not be rotated.   *)
LEMMA RotationHolds ==
    ASSUME AtMostTwoPerPriority, Inv, systimer_handler
    PROVE  ready_queue' \in ReadyQueues /\ Holds(ready_queue', state')
<1> DEFINE wr == WalkedReady
           q == wr[task_pri[curr_task]]
<1>1. /\ wr \in ReadyQueues
      /\ Holds(wr, state')
      /\ \A p \in Priorities :
            ready_queue[p] # <<>> =>
                wr[p] # <<>> /\ Head(wr[p]) = Head(ready_queue[p])
      /\ \A u \in TaskId :
            state'[u] = state[u] \/ (/\ state[u] = "WAIT" /\ Expired(u)
                                    /\ state'[u] = "READY")
  BY WalkHolds
<1>2. ready_queue' = Rotated(wr)
  BY DEF systimer_handler
<1>3. CASE dispatch_running \/ ~(Len(q) > 1)
  BY <1>1, <1>2, <1>3 DEF Rotated
<1>4. CASE ~dispatch_running /\ Len(q) > 1
  <2>1. /\ ~tick_served
        /\ curr_task \in TaskId
        /\ task_pri[curr_task] \in Priorities
    BY <1>4, PriorityOf DEF systimer_handler, Inv, Typed, TypeOK, TickHasTask
  <2>2. q \in Seq(TaskId) /\ q # <<>> /\ IsInjective(q)
        /\ ToSet(q) = {u \in TaskId : state'[u] = "READY"
                                        /\ task_pri[u] = task_pri[curr_task]}
    BY <1>1, <1>4, <2>1 DEF ReadyQueues, Holds
  <2>3. state[curr_task] = "READY"
    <3> SUFFICES ASSUME state[curr_task] # "READY" PROVE FALSE
      OBVIOUS
    <3>1. state'[curr_task] # "READY"
      BY <1>1, <2>1, PriorityOf DEF Inv, CurrAtTick
    <3>2. q[1] \in ToSet(q) /\ q[2] \in ToSet(q) /\ q[1] # q[2]
      <4> HIDE DEF q
      <4>1. 1 \in DOMAIN q /\ 2 \in DOMAIN q
        BY <1>4, <2>2
      <4> QED BY <4>1, <2>2 DEF ToSet, IsInjective
    <3>3. /\ q[1] \in TaskId /\ q[1] # curr_task
          /\ task_pri[q[1]] = task_pri[curr_task]
          /\ q[2] \in TaskId /\ q[2] # curr_task
          /\ task_pri[q[2]] = task_pri[curr_task]
      BY <2>2, <3>1, <3>2
    <3> QED BY <2>1, <3>2, <3>3 DEF AtMostTwoPerPriority
  <2>4. q # <<>> /\ Head(q) = curr_task /\ state'[curr_task] = "READY"
    BY <1>1, <2>1, <2>3, PriorityOf DEF Inv, CurrAtTick
  <2> DEFINE st2 == [u \in TaskId |-> IF u = curr_task THEN "DORMANT"
                                     ELSE state'[u]]
             rest == RemoveTopReady(wr, curr_task)
  <2>5. rest \in ReadyQueues /\ Holds(rest, st2)
    <3>1. st2[curr_task] # "READY" /\ \A u \in TaskId \ {curr_task} :
                                         st2[u] = state'[u]
      BY <2>1
    <3> HIDE DEF st2, wr
    <3> QED BY <1>1, <2>1, <2>4, <3>1, RemoveTopReadyHolds DEF q
  <2>6. /\ AddReady(rest, curr_task) \in ReadyQueues
        /\ Holds(AddReady(rest, curr_task), state')
    <3>1. /\ st2[curr_task] # "READY"
          /\ \A u \in TaskId :
                state'[u] = IF u = curr_task THEN "READY" ELSE st2[u]
      BY <2>1, <2>4
    <3> HIDE DEF st2, rest
    <3> QED BY <2>1, <2>5, <3>1, AddReadyHolds
  <2>7. ready_queue' = AddReady(rest, curr_task)
    BY <1>2, <1>4 DEF Rotated
  <2> QED BY <2>6, <2>7
<1> QED BY <1>3, <1>4

LEMMA TickInv ==
    ASSUME AtMostTwoPerPriority, Inv, systimer_handler
    PROVE  Inv'
<1>1. /\ ~tick_served /\ scheduler
      /\ UNCHANGED <<curr_task, dispatch_running>>
      /\ tick_served' = (pendsv' \/ scheduled_task' # curr_task)
  BY DEF systimer_handler
<1>2. TypeOK'
  BY TickType DEF Inv
<1>3. Typed'
  BY <1>1, <1>2 DEF Inv, Typed, TickHasTask
<1>4. ready_queue' \in ReadyQueues /\ Holds(ready_queue', state')
  BY RotationHolds
<1>5. WaitHolds(wait_queue', state')
  BY WalkHolds
<1>6. QueuesMatchStates'
  BY <1>4, <1>5 DEF QueuesMatchStates, ReadyQueuesHoldReadyTasks,
                    WaitQueueHoldsWaitingTasks, Holds, WaitHolds
<1>7. ScheduledIsTop'
  BY <1>1 DEF scheduler, ScheduledIsTop
<1>8. Phases'
  <2>1. state[1] # "NONEXIST"
    BY <1>1 DEF Inv, Phases
  <2>2. state'[1] # "NONEXIST"
    <3>1. 1 \in TaskId
      BY TaskManagerAssumption DEF TaskId
    <3> QED BY <2>1, <3>1, WalkHolds
  <2>3. Running' => scheduled_task' = curr_task'
    BY <1>1 DEF scheduler, Running
  <2> QED BY <2>2, <2>3 DEF Phases
<1>9. CurrAtTick'
  <2> SUFFICES ASSUME ~tick_served', curr_task # NULL
               PROVE  /\ state'[curr_task] = "READY"
                      /\ ready_queue'[task_pri[curr_task]] # <<>>
                      /\ Head(ready_queue'[task_pri[curr_task]]) = curr_task
    BY <1>1 DEF CurrAtTick
  <2>1. curr_task = Top(ready_queue')
    BY <1>1 DEF scheduler
  <2> QED BY <1>4, <2>1, TopIsReady
<1> QED BY <1>3, <1>6, <1>7, <1>8, <1>9 DEF Inv

LEMMA DispatchInv ==
    ASSUME Inv, dispatch_entry \/ dispatch_loop_exit
    PROVE  Inv'
<1>1. /\ curr_task' = scheduled_task
      /\ UNCHANGED <<tcbVars, ready_queue, wait_queue, scheduled_task, promised>>
      /\ pendsv' \in BOOLEAN
      /\ dispatch_running' = (scheduled_task = NULL)
      /\ tick_served' = FALSE
  BY DEF dispatch_entry, dispatch_loop_exit, Inv, Typed, TypeOK
<1>2. Typed'
  BY <1>1 DEF Inv, Typed, TypeOK, TickHasTask, tcbVars
<1>3. QueuesMatchStates' /\ ScheduledIsTop'
  BY <1>1 DEF Inv, QueuesMatchStates, ReadyQueuesHoldReadyTasks,
              WaitQueueHoldsWaitingTasks, ScheduledIsTop, tcbVars
<1>4. state[1] # "NONEXIST"
  BY DEF Inv, Phases, dispatch_entry, dispatch_loop_exit
<1>5. Phases'
  BY <1>1, <1>4 DEF Phases, tcbVars
<1>6. CurrAtTick'
  <2>1. ready_queue \in ReadyQueues /\ Holds(ready_queue, state)
    BY QueuesHold DEF Inv, Typed, TypeOK, ReadyQueues
  <2>2. scheduled_task = Top(ready_queue)
    BY DEF Inv, ScheduledIsTop
  <2>3. scheduled_task # NULL =>
          /\ state[scheduled_task] = "READY"
          /\ ready_queue[task_pri[scheduled_task]] # <<>>
          /\ Head(ready_queue[task_pri[scheduled_task]]) = scheduled_task
    BY <2>1, <2>2, TopIsReady
  <2> QED BY <1>1, <2>3 DEF CurrAtTick, tcbVars
<1> QED BY <1>2, <1>3, <1>5, <1>6 DEF Inv

LEMMA MainInv ==
    ASSUME Inv, main
    PROVE  Inv'
<1>1. 1 \in TaskId
  BY TaskManagerAssumption DEF TaskId
<1>2. /\ state[1] = "NONEXIST"
      /\ state' = [state EXCEPT ![1] = "READY"]
      /\ ready_queue' = AddReady(ready_queue, 1)
      /\ wait_queue' = wait_queue
      /\ scheduler /\ UNCHANGED cpuVars
  BY <1>1 DEF main
<1>3. TypeOK /\ ready_queue \in ReadyQueues
  BY DEF Inv, Typed, TypeOK, ReadyQueues
<1>4. Typed'
  <2>1. TypeOK'
    BY <1>1, <1>3, StartType DEF main
  <2> QED BY <1>2, <2>1 DEF Inv, Typed, TickHasTask, cpuVars
<1>5. \A u \in TaskId : state'[u] = IF u = 1 THEN "READY" ELSE state[u]
  BY <1>2, <1>3 DEF TypeOK
<1>6. Holds(ready_queue', state')
  <2>1. Holds(ready_queue, state) /\ state[1] # "READY"
    BY <1>2, QueuesHold DEF Inv
  <2>2. Holds(AddReady(ready_queue, 1), state')
    BY <1>1, <1>3, <1>5, <2>1, AddReadyHolds
  <2> QED BY <1>2, <2>2
<1>7. WaitHolds(wait_queue', state')
  <2>1. WaitHolds(wait_queue, state)
    BY QueuesHold DEF Inv
  <2> QED BY <1>2, <1>5, <2>1 DEF WaitHolds
<1>8. QueuesMatchStates'
  BY <1>6, <1>7 DEF QueuesMatchStates, ReadyQueuesHoldReadyTasks,
                    WaitQueueHoldsWaitingTasks, Holds, WaitHolds
<1>9. curr_task' = NULL /\ state'[1] # "NONEXIST"
  BY <1>1, <1>2, <1>5 DEF Inv, Phases, cpuVars
<1>10. ScheduledIsTop' /\ Phases' /\ CurrAtTick'
  BY <1>2, <1>9, AfterScheduler DEF Phases, CurrAtTick
<1> QED BY <1>4, <1>8, <1>10 DEF Inv

LEMMA InitInv == Init => Inv
<1> SUFFICES ASSUME Init PROVE Inv
  OBVIOUS
<1>1. Typed
  BY InitTyped
<1>2. \A u \in TaskId : state[u] = "NONEXIST"
  BY DEF Init
<1>3. ToSet(<<>>) = {} /\ IsInjective(<<>>)
  BY DEF ToSet, IsInjective
<1>4. \A p \in Priorities : ready_queue[p] = <<>>
  BY DEF Init
<1>5. QueuesMatchStates
  <2>1. wait_queue = <<>>
    BY DEF Init
  <2> QED BY <1>2, <1>3, <1>4, <2>1
          DEF QueuesMatchStates, ReadyQueuesHoldReadyTasks,
              WaitQueueHoldsWaitingTasks
<1>6. ScheduledIsTop
  BY <1>4 DEF Init, ScheduledIsTop, Top
<1>7. Phases /\ CurrAtTick
  BY DEF Init, Phases, CurrAtTick, Running
<1> QED BY <1>1, <1>5, <1>6, <1>7 DEF Inv

(* Inv is inductive. *)
LEMMA InvStep ==
    ASSUME AtMostTwoPerPriority, TimesInRange, Inv, [Next]_vars
    PROVE  Inv'
<1>1. CASE main
  BY <1>1, MainInv
<1>2. CASE SystemCall
  BY <1>2, CallInv
<1>3. CASE systimer_handler
  BY <1>3, TickInv
<1>4. CASE dispatch_entry \/ dispatch_loop_exit
  BY <1>4, DispatchInv
<1>5. CASE UNCHANGED vars
  <2>1. TypeOK'
    BY <1>5 DEF Inv, Typed, TypeOK, vars, tcbVars, cpuVars
  <2> QED BY <1>5, <2>1, FrameInv DEF vars, tcbVars
<1> QED BY <1>1, <1>2, <1>3, <1>4, <1>5 DEF Next

-----------------------------------------------------------------------------
(* Each task is in the one queue its state names, for any number of tasks: *)
(* neither calls nor ticks in between them lose or duplicate a task.       *)
THEOREM QueuesCorrect ==
    ASSUME AtMostTwoPerPriority, TimesInRange
    PROVE  Spec => []QueuesMatchStates
<1>1. Init => Inv
  BY InitInv
<1>2. Inv /\ [Next]_vars => Inv'
  BY InvStep
<1>3. Inv => QueuesMatchStates
  BY DEF Inv
<1> QED BY <1>1, <1>2, <1>3, PTL DEF Spec

(* Priority scheduling: whoever executes is ready, at the top of its queue *)
(* and of the highest priority that is ready.                              *)
THEOREM PriorityScheduling ==
    ASSUME AtMostTwoPerPriority, TimesInRange
    PROVE  Spec => []RunningIsHighest
<1>1. Init => Inv
  BY InitInv
<1>2. Inv /\ [Next]_vars => Inv'
  BY InvStep
<1>3. Inv => RunningIsHighest
  BY RunningIsTop DEF RunningIsHighest
<1> QED BY <1>1, <1>2, <1>3, PTL DEF Spec

(* The processor idles only when no task is ready. *)
THEOREM IdleSound ==
    ASSUME AtMostTwoPerPriority, TimesInRange
    PROVE  Spec => []IdleMeansNobodyReady
<1>1. Init => Inv
  BY InitInv
<1>2. Inv /\ [Next]_vars => Inv'
  BY InvStep
<1>3. Inv => IdleMeansNobodyReady
  <2> SUFFICES ASSUME Inv, scheduled_task = NULL
               PROVE  \A t \in TaskId : state[t] # "READY"
    BY DEF IdleMeansNobodyReady
  <2>1. /\ ready_queue \in ReadyQueues /\ Holds(ready_queue, state)
        /\ Top(ready_queue) = NULL
    BY QueuesHold DEF Inv, Typed, TypeOK, ReadyQueues, ScheduledIsTop
  <2> QED BY <2>1, NoTopNoneReady
<1> QED BY <1>1, <1>2, <1>3, PTL DEF Spec

(* A tick takes no ready task out of its queue: the entry that the forced  *)
(* rotation removes from the top is the one it adds at the tail.           *)
THEOREM RotationSound ==
    ASSUME AtMostTwoPerPriority, TimesInRange
    PROVE  Spec => TickKeepsReadyTasks
<1>1. Init => Inv
  BY InitInv
<1>2. Inv /\ [Next]_vars => Inv'
  BY InvStep
<1>3. Inv /\ [Next]_vars =>
        [systimer_handler =>
           \A p \in Priorities :
              ToSet(ready_queue[p]) \subseteq ToSet(ready_queue'[p])]_vars
  <2> SUFFICES ASSUME Inv, systimer_handler, NEW p \in Priorities
               PROVE  ToSet(ready_queue[p]) \subseteq ToSet(ready_queue'[p])
    OBVIOUS
  <2>1. ToSet(ready_queue[p]) =
          {t \in TaskId : state[t] = "READY" /\ task_pri[t] = p}
    BY DEF Inv, QueuesMatchStates, ReadyQueuesHoldReadyTasks
  <2>2. ToSet(ready_queue'[p]) =
          {t \in TaskId : state'[t] = "READY" /\ task_pri[t] = p}
    BY RotationHolds DEF Holds
  <2>3. \A t \in TaskId : state[t] = "READY" => state'[t] = "READY"
    BY WalkHolds
  <2> QED BY <2>1, <2>2, <2>3
<1> QED BY <1>1, <1>2, <1>3, PTL DEF Spec, TickKeepsReadyTasks

-----------------------------------------------------------------------------
(* The waits that a tick does not end.                                     *)

(* In a queue without repetition an entry has one position. *)
LEMMA PositionIs ==
    ASSUME NEW queue \in Seq(TaskId), IsInjective(queue),
           NEW k \in DOMAIN queue
    PROVE  Position(queue, queue[k]) = k
BY DEF Position, IsInjective

(* Where a waiting task stands after the tick, and whether it was counted. *)
LEMMA WalkPositions ==
    ASSUME Inv, systimer_handler, NEW i \in DOMAIN wait_queue,
           state'[wait_queue[i]] # "READY"
    PROVE  \/ /\ wait_queue[i] \in Counted
              /\ Position(wait_queue', wait_queue[i]) = i
           \/ /\ wait_queue[i] \notin Counted
              /\ Position(wait_queue', wait_queue[i]) = i - 1
<1> DEFINE wq == wait_queue
           t == wq[i]
<1>1. /\ wq \in Seq(TaskId) /\ IsInjective(wq) /\ DOMAIN wq = 1 .. Len(wq)
      /\ Len(wq) \in Nat /\ t \in TaskId /\ i \in 1 .. Len(wq)
  <2>1. wq \in Seq(TaskId) /\ IsInjective(wq)
    BY DEF Inv, Typed, TypeOK, QueuesMatchStates, WaitQueueHoldsWaitingTasks
  <2> QED BY <2>1
<1>2. t \notin TimedOut
  BY <1>1 DEF systimer_handler
<1>3. wait_queue' = IF TimedOut = {} THEN wq ELSE RemoveAt(wq, WalkEnd)
  BY DEF systimer_handler
<1>4. t \in Counted <=> i < WalkEnd
  BY <1>1 DEF Counted, IsInjective
<1>5. CASE WalkEnd = Len(wq) + 1 /\ TimedOut = {}
  BY <1>1, <1>3, <1>4, <1>5, PositionIs
<1>6. CASE \E k \in DOMAIN wq : WalkEnd = k /\ TimedOut = {wq[k]}
  <2>1. PICK k \in DOMAIN wq : WalkEnd = k /\ TimedOut = {wq[k]}
    BY <1>6
  <2> DEFINE new == RemoveAt(wq, k)
  <2>2. /\ new \in Seq(TaskId) /\ IsInjective(new)
        /\ DOMAIN new = 1 .. Len(wq) - 1
        /\ \A j \in 1 .. Len(wq) - 1 :
              new[j] = IF j < k THEN wq[j] ELSE wq[j + 1]
    <3>1. /\ new \in Seq(TaskId) /\ IsInjective(new)
          /\ Len(new) = Len(wq) - 1
          /\ \A j \in 1 .. Len(wq) - 1 :
                new[j] = IF j < k THEN wq[j] ELSE wq[j + 1]
      BY <1>1, RemoveAtDistinct
    <3> HIDE DEF new
    <3> QED BY <3>1
  <2>3. i # k /\ wait_queue' = new
    BY <1>2, <1>3, <2>1
  <2> HIDE DEF new
  <2>4. CASE i < k
    <3>1. i \in DOMAIN new /\ new[i] = t
      BY <1>1, <2>2, <2>4
    <3> QED BY <1>4, <2>1, <2>2, <2>3, <2>4, <3>1, PositionIs
  <2>5. CASE i > k
    <3>1. i - 1 \in DOMAIN new /\ new[i - 1] = t
      BY <1>1, <2>2, <2>5
    <3>2. Position(new, t) = i - 1
      BY <2>2, <3>1, PositionIs
    <3>3. ~(i < WalkEnd)
      BY <1>1, <2>1, <2>5
    <3> QED BY <1>4, <2>3, <3>2, <3>3
  <2> QED BY <1>1, <2>3, <2>4, <2>5
<1> QED BY <1>5, <1>6, WalkCases DEF Inv, Typed

(* Every tick brings every timed wait closer to its end, for any number of *)
(* waits: what a task still waits for is its own time and one period for   *)
(* each task before it in wait_queue, and that shrinks by a period, though *)
(* the walk ends at the first task that has expired.                       *)
THEOREM EveryTickHelps ==
    ASSUME AtMostTwoPerPriority, TimesInRange
    PROVE  Spec => TickMakesProgress
<1>1. Init => Inv
  BY InitInv
<1>2. Inv /\ [Next]_vars => Inv'
  BY InvStep
<1>3. Inv /\ [Next]_vars =>
        [systimer_handler =>
           \A t \in TaskId :
              (state[t] = "WAIT" /\ wait_time[t] # Forever) =>
                  \/ state'[t] = "READY"
                  \/ Remaining(t)' <= Remaining(t) - TIMER_PERIOD]_vars
  <2> SUFFICES ASSUME Inv, systimer_handler, NEW t \in TaskId,
                      state[t] = "WAIT", wait_time[t] # Forever,
                      state'[t] # "READY"
               PROVE  Remaining(t)' <= Remaining(t) - TIMER_PERIOD
    OBVIOUS
  <2>1. PICK i \in DOMAIN wait_queue : wait_queue[i] = t
    BY DEF Inv, QueuesMatchStates, WaitQueueHoldsWaitingTasks, ToSet
  <2>2. /\ wait_queue \in Seq(TaskId) /\ IsInjective(wait_queue)
        /\ i \in Nat /\ wait_time[t] \in Int /\ TIMER_PERIOD \in Nat
    <3>1. /\ wait_queue \in Seq(TaskId) /\ IsInjective(wait_queue)
          /\ wait_time[t] \in 0 .. Forever
      BY DEF Inv, Typed, TypeOK, QueuesMatchStates, WaitQueueHoldsWaitingTasks
    <3> QED BY <3>1, TaskManagerAssumption DEF Forever
  <2>3. Position(wait_queue, t) = i
    BY <2>1, <2>2, PositionIs
  <2>4. wait_time'[t] = IF t \in Counted THEN wait_time[t] - TIMER_PERIOD
                        ELSE wait_time[t]
    BY DEF systimer_handler
  <2>5. TIMER_PERIOD * ((i - 1) - 1) = TIMER_PERIOD * (i - 1) - TIMER_PERIOD
    BY <2>2
  <2>6. Remaining(t) = wait_time[t] + TIMER_PERIOD * (i - 1)
    BY <2>3 DEF Remaining
  <2>7. Remaining(t)' = wait_time'[t]
                          + TIMER_PERIOD * (Position(wait_queue', t) - 1)
    BY DEF Remaining
  <2>8. TIMER_PERIOD * (i - 1) \in Int
    BY <2>2
  <2>9. CASE t \in Counted /\ Position(wait_queue', t) = i
    BY <2>2, <2>4, <2>6, <2>7, <2>8, <2>9
  <2>10. CASE t \notin Counted /\ Position(wait_queue', t) = i - 1
    BY <2>2, <2>4, <2>5, <2>6, <2>7, <2>8, <2>10
  <2> QED BY <2>1, <2>9, <2>10, WalkPositions
<1> QED BY <1>1, <1>2, <1>3, PTL DEF Spec, TickMakesProgress

-----------------------------------------------------------------------------
(* Refinement: every step of a task, of the timer or of the exception is a *)
(* step of the abstract scheduler, or changes nothing its tasks see.       *)

ReadySet == {t \in TaskId : state[t] = "READY"}
RunningTask == IF Running THEN curr_task ELSE NULL

LEMMA PriorityInt == \A t \in TaskId : task_pri[t] \in Int
BY TaskManagerAssumption

(* A task at the head of its queue with no more urgent task ready is the   *)
(* top of the queues.                                                      *)
LEMMA HeadIsTop ==
    ASSUME NEW queues \in ReadyQueues, NEW st, Holds(queues, st),
           NEW t \in TaskId, st[t] = "READY",
           queues[task_pri[t]] # <<>>, Head(queues[task_pri[t]]) = t,
           \A u \in TaskId : st[u] = "READY" => task_pri[t] <= task_pri[u]
    PROVE  Top(queues) = t
<1> DEFINE x == Top(queues)
<1>1. task_pri[t] \in Priorities /\ Priorities \subseteq Nat
  BY PriorityOf
<1>2. x # NULL
  BY <1>1, TopIsTop, PriorityOf
<1>3. /\ x \in TaskId /\ st[x] = "READY"
      /\ Head(queues[task_pri[x]]) = x
      /\ task_pri[x] <= task_pri[t]
  BY <1>2, TopIsReady
<1>4. task_pri[x] = task_pri[t]
  <2>1. task_pri[t] <= task_pri[x] /\ task_pri[t] \in Int /\ task_pri[x] \in Int
    BY <1>3, PriorityInt
  <2> QED BY <1>3, <2>1
<1> QED BY <1>3, <1>4

(* After the scheduler has run, the current task goes on only if it was    *)
(* running and is at the top.                                              *)
LEMMA GoesOn ==
    ASSUME scheduler, UNCHANGED <<curr_task, dispatch_running>>
    PROVE  RunningTask' = IF Running /\ Top(ready_queue') = curr_task
                          THEN curr_task ELSE NULL
BY DEF scheduler, RunningTask, Running

LEMMA WakeRefines ==
    ASSUME Inv, scheduler, UNCHANGED <<curr_task, dispatch_running>>,
           NEW t \in TaskId, state[t] # "READY",
           \A u \in TaskId : state'[u] = IF u = t THEN "READY" ELSE state[u],
           ready_queue' = AddReady(ready_queue, t)
    PROVE  Promise!Wake(t)
<1>1. /\ ready_queue \in ReadyQueues /\ Holds(ready_queue, state)
      /\ \A u \in TaskId : state'[u] = IF u = t THEN "READY" ELSE state[u]
  BY QueuesHold DEF Inv, Typed, TypeOK, ReadyQueues
<1>2. /\ ready_queue' \in ReadyQueues /\ Holds(ready_queue', state')
      /\ \A p \in Priorities :
            ready_queue[p] # <<>> =>
                ready_queue'[p] # <<>> /\ Head(ready_queue'[p]) = Head(ready_queue[p])
  <2> DEFINE new == AddReady(ready_queue, t)
  <2>1. state[t] # "READY" /\ ready_queue' = new
    OBVIOUS
  <2>2. /\ new \in ReadyQueues
        /\ Holds(new, state')
        /\ \A p \in Priorities :
              ready_queue[p] # <<>> =>
                 new[p] # <<>> /\ Head(new[p]) = Head(ready_queue[p])
    BY <1>1, <2>1, AddReadyHolds
  <2> HIDE DEF new
  <2> QED BY <2>1, <2>2
<1>3. ReadySet' = ReadySet \cup {t} /\ t \notin ReadySet
  BY <1>1 DEF ReadySet
<1>4. RunningTask' = IF RunningTask # NULL /\ task_pri[t] < task_pri[RunningTask]
                     THEN NULL ELSE RunningTask
  <2>1. CASE ~Running
    BY <2>1, GoesOn DEF RunningTask
  <2>2. CASE Running
    <3>1. /\ curr_task \in TaskId /\ state[curr_task] = "READY"
          /\ ready_queue[task_pri[curr_task]] # <<>>
          /\ Head(ready_queue[task_pri[curr_task]]) = curr_task
          /\ \A u \in TaskId : state[u] = "READY"
                                 => task_pri[curr_task] <= task_pri[u]
      BY <2>2, RunningIsTop
    <3>2. /\ task_pri[curr_task] \in Priorities /\ curr_task # NULL
          /\ task_pri[curr_task] \in Int /\ task_pri[t] \in Int
      BY <3>1, PriorityOf, PriorityInt
    <3>3. CASE task_pri[t] < task_pri[curr_task]
      <4>1. Top(ready_queue') # curr_task
        <5> SUFFICES ASSUME Top(ready_queue') = curr_task PROVE FALSE
          OBVIOUS
        <5>1. state'[t] = "READY"
          BY <1>1
        <5>2. task_pri[curr_task] <= task_pri[t]
          BY <1>2, <3>2, <5>1, TopIsReady
        <5> QED BY <3>2, <3>3, <5>2
      <4> QED BY <2>2, <3>2, <3>3, <4>1, GoesOn DEF RunningTask
    <3>4. CASE ~(task_pri[t] < task_pri[curr_task])
      <4>1. \A u \in TaskId : state'[u] = "READY"
                                => task_pri[curr_task] <= task_pri[u]
        <5> SUFFICES ASSUME NEW u \in TaskId, state'[u] = "READY"
                     PROVE  task_pri[curr_task] <= task_pri[u]
          OBVIOUS
        <5>1. CASE u = t
          BY <3>2, <3>4, <5>1
        <5>2. CASE u # t
          BY <1>1, <3>1, <5>2
        <5> QED BY <5>1, <5>2
      <4>2. state'[curr_task] = "READY"
        BY <1>1, <3>1
      <4>3. /\ ready_queue'[task_pri[curr_task]] # <<>>
            /\ Head(ready_queue'[task_pri[curr_task]]) = curr_task
        BY <1>2, <3>1, <3>2
      <4>4. Top(ready_queue') = curr_task
        BY <1>2, <3>1, <4>1, <4>2, <4>3, HeadIsTop
      <4> QED BY <2>2, <3>2, <3>4, <4>4, GoesOn DEF RunningTask
    <3> QED BY <3>3, <3>4
  <2> QED BY <2>1, <2>2
<1> QED BY <1>3, <1>4 DEF Promise!Wake, ReadySet, RunningTask

LEMMA LeaveRefines ==
    ASSUME Inv, Inv', Running, scheduler, UNCHANGED <<curr_task, dispatch_running>>,
           NEW s, s # "READY", state' = [state EXCEPT ![curr_task] = s]
    PROVE  Promise!Leave
<1>1. curr_task \in TaskId /\ state[curr_task] = "READY" /\ curr_task # NULL
  BY RunningIsTop, PriorityOf
<1>2. \A u \in TaskId : state'[u] = IF u = curr_task THEN s ELSE state[u]
  BY DEF Inv, Typed, TypeOK
<1>3. ready_queue' \in ReadyQueues /\ Holds(ready_queue', state')
  BY DEF Inv, Typed, TypeOK, ReadyQueues, QueuesMatchStates,
         ReadyQueuesHoldReadyTasks, Holds
<1>4. Top(ready_queue') # curr_task
  BY <1>1, <1>2, <1>3, TopIsReady
<1>5. RunningTask' = NULL /\ RunningTask = curr_task
  BY <1>4, GoesOn DEF RunningTask
<1>6. ReadySet' = ReadySet \ {curr_task}
  BY <1>1, <1>2 DEF ReadySet
<1> QED BY <1>1, <1>5, <1>6 DEF Promise!Leave, ReadySet, RunningTask

LEMMA StutterRefines ==
    ASSUME UNCHANGED <<curr_task, dispatch_running, pendsv>>,
           \A t \in TaskId : state'[t] = "READY" <=> state[t] = "READY"
    PROVE  UNCHANGED Promise!schedulerVars
BY DEF Promise!schedulerVars, Running

LEMMA CallRefines ==
    ASSUME TimesInRange, Inv, SystemCall
    PROVE  Promise!Next \/ UNCHANGED Promise!schedulerVars
<1>0. Inv' /\ TypeOK
  BY CallInv DEF Inv, Typed
<1>1. CASE sk_create_task
  BY <1>0, <1>1, StutterRefines DEF sk_create_task, cpuVars, TypeOK
<1>2. CASE sk_exit_task
  <2>1. Promise!Leave
    BY <1>0, <1>2, LeaveRefines DEF sk_exit_task, cpuVars
  <2> QED BY <2>1 DEF Promise!Next
<1>3. ASSUME NEW t \in TaskId, sk_start_task(t) PROVE Promise!Next
  <2>1. Promise!Wake(t)
    BY <1>0, <1>3, WakeRefines DEF sk_start_task, cpuVars, TypeOK
  <2> QED BY <2>1 DEF Promise!Next
<1>4. ASSUME NEW t \in TaskId, sk_wakeup_task(t)
      PROVE  Promise!Next \/ UNCHANGED Promise!schedulerVars
  <2>1. CASE state[t] = "WAIT" /\ Release(t)
    <3>1. Promise!Wake(t)
      BY <1>0, <2>1, WakeRefines DEF Release, cpuVars, TypeOK
    <3> QED BY <3>1 DEF Promise!Next
  <2>2. CASE UNCHANGED <<state, cpuVars, pendsv>>
    BY <2>2, StutterRefines DEF cpuVars
  <2> QED BY <1>4, <2>1, <2>2 DEF sk_wakeup_task
<1>5. ASSUME NEW factor, NEW time, NEW promise, Running, Block(factor, time, promise)
      PROVE  Promise!Next
  <2>1. Promise!Leave
    BY <1>0, <1>5, LeaveRefines DEF Block, cpuVars
  <2> QED BY <2>1 DEF Promise!Next
<1>6. ASSUME NEW d \in DelayTimes, sk_delay_task(d) PROVE Promise!Next
  BY <1>5, <1>6 DEF sk_delay_task
<1>7. ASSUME NEW d \in Timeouts, sk_sleep_task(d)
      PROVE  Promise!Next \/ UNCHANGED Promise!schedulerVars
  <2>1. CASE Running /\ Block("SLP", WaitTime(d), d)
    BY <1>5, <2>1
  <2>2. CASE UNCHANGED <<state, cpuVars, pendsv>>
    BY <2>2, StutterRefines DEF cpuVars
  <2> QED BY <1>7, <2>1, <2>2 DEF sk_sleep_task
<1> QED BY <1>1, <1>2, <1>3, <1>4, <1>6, <1>7 DEF SystemCall

(* A tick takes the processor away exactly if a task that is not less      *)
(* urgent is ready after it.                                               *)
LEMMA TickSwitches ==
    ASSUME AtMostTwoPerPriority, Inv, systimer_handler, Running
    PROVE  Top(ready_queue') = curr_task <=> ~Promise!Rival(ReadySet', curr_task)
<1>1. /\ curr_task \in TaskId /\ state[curr_task] = "READY"
      /\ ready_queue[task_pri[curr_task]] # <<>>
      /\ Head(ready_queue[task_pri[curr_task]]) = curr_task
  BY RunningIsTop
<1>2. /\ WalkedReady \in ReadyQueues /\ Holds(WalkedReady, state')
      /\ WalkedReady[task_pri[curr_task]] # <<>>
      /\ Head(WalkedReady[task_pri[curr_task]]) = curr_task
      /\ state'[curr_task] = "READY"
  BY <1>1, WalkHolds, PriorityOf
<1>3. /\ ready_queue' \in ReadyQueues /\ Holds(ready_queue', state')
      /\ ready_queue' = Rotated(WalkedReady)
  BY RotationHolds DEF systimer_handler
<1>4. /\ task_pri[curr_task] \in Priorities
      /\ \A u \in TaskId : task_pri[u] \in Int
      /\ curr_task # NULL /\ ~dispatch_running
  BY <1>1, PriorityOf, PriorityInt DEF Running
<1> DEFINE q == WalkedReady[task_pri[curr_task]]
<1>5. /\ q \in Seq(TaskId) /\ q # <<>> /\ q[1] = curr_task /\ IsInjective(q)
      /\ ToSet(q) = {u \in TaskId : state'[u] = "READY"
                                      /\ task_pri[u] = task_pri[curr_task]}
  BY <1>2, <1>4 DEF ReadyQueues, Holds
<1>6. CASE Len(q) > 1
  <2>1. /\ 1 \in DOMAIN q /\ 2 \in DOMAIN q
        /\ q[2] \in ToSet(q) /\ q[2] # q[1]
    <3> HIDE DEF q
    <3> QED BY <1>5, <1>6 DEF ToSet, IsInjective
  <2>2. Promise!Rival(ReadySet', curr_task)
    <3>1. q[2] \in ReadySet' \ {curr_task} /\ task_pri[q[2]] <= task_pri[curr_task]
      <4> HIDE DEF q
      <4> QED BY <1>4, <1>5, <2>1 DEF ReadySet
    <3> QED BY <3>1 DEF Promise!Rival
  <2>3. ready_queue'[task_pri[curr_task]] = Append(Tail(q), curr_task)
    BY <1>3, <1>4, <1>5, <1>6, <1>2
       DEF Rotated, AddReady, RemoveTopReady, task_queue_add_entry,
           task_queue_remove_top, ReadyQueues
  <2>4. Head(Append(Tail(q), curr_task)) = q[2]
    <3> HIDE DEF q
    <3> QED BY <1>1, <1>5, <1>6
  <2>5. Top(ready_queue') # curr_task
    BY <1>3, <1>4, <1>5, <2>1, <2>3, <2>4, TopIsReady
  <2> QED BY <2>2, <2>5
<1>7. CASE ~(Len(q) > 1)
  <2>1. ready_queue' = WalkedReady
    BY <1>3, <1>7 DEF Rotated
  <2>2. ToSet(q) = {curr_task}
    <3> HIDE DEF q
    <3> QED BY <1>5, <1>7 DEF ToSet
  <2>3. \A u \in ReadySet' \ {curr_task} : task_pri[u] # task_pri[curr_task]
    <3> HIDE DEF q
    <3> QED BY <1>5, <2>2 DEF ReadySet
  <2>4. ASSUME Top(ready_queue') = curr_task PROVE ~Promise!Rival(ReadySet', curr_task)
    <3>1. \A u \in TaskId : state'[u] = "READY" => task_pri[curr_task] <= task_pri[u]
      BY <1>3, <1>4, <2>4, TopIsReady
    <3>2. ASSUME NEW u \in ReadySet' \ {curr_task}
          PROVE  ~(task_pri[u] <= task_pri[curr_task])
      <4>1. u \in TaskId /\ state'[u] = "READY"
        BY DEF ReadySet
      <4>2. /\ task_pri[u] # task_pri[curr_task]
            /\ task_pri[curr_task] <= task_pri[u]
            /\ task_pri[u] \in Int /\ task_pri[curr_task] \in Int
        BY <1>1, <1>4, <2>3, <3>1, <4>1
      <4> QED BY <4>2
    <3> QED BY <3>2 DEF Promise!Rival
  <2>5. ASSUME ~Promise!Rival(ReadySet', curr_task) PROVE Top(ready_queue') = curr_task
    <3>1. \A u \in ReadySet' \ {curr_task} : ~(task_pri[u] <= task_pri[curr_task])
      BY <2>5 DEF Promise!Rival
    <3>2. ASSUME NEW u \in TaskId, state'[u] = "READY"
          PROVE  task_pri[curr_task] <= task_pri[u]
      <4>1. u \in ReadySet'
        BY <3>2 DEF ReadySet
      <4>2. task_pri[u] \in Int /\ task_pri[curr_task] \in Int
        BY <1>1, <1>4
      <4> QED BY <3>1, <4>1, <4>2
    <3> QED BY <1>1, <1>2, <1>3, <2>1, <3>2, HeadIsTop
  <2> QED BY <2>4, <2>5
<1> QED BY <1>6, <1>7

LEMMA TickRefines ==
    ASSUME AtMostTwoPerPriority, Inv, systimer_handler
    PROVE  Promise!Tick
<1>1. \/ ReadySet' = ReadySet
      \/ \E t \in TaskId \ ReadySet : ReadySet' = ReadySet \cup {t}
  <2>1. \/ TimedOut = {}
        \/ \E k \in DOMAIN wait_queue : /\ wait_queue[k] \in TaskId
                                        /\ TimedOut = {wait_queue[k]}
    BY WalkCases DEF Inv, Typed
  <2>2. \A u \in TaskId : state'[u] = IF u \in TimedOut THEN "READY" ELSE state[u]
    BY DEF systimer_handler
  <2> QED BY <2>1, <2>2 DEF ReadySet
<1>2. RunningTask' = IF RunningTask # NULL /\ Promise!Rival(ReadySet', RunningTask)
                     THEN NULL ELSE RunningTask
  <2>1. scheduler /\ UNCHANGED <<curr_task, dispatch_running>>
    BY DEF systimer_handler
  <2>2. CASE ~Running
    BY <2>1, <2>2, GoesOn DEF RunningTask
  <2>3. CASE Running
    BY <2>1, <2>3, GoesOn, TickSwitches DEF RunningTask, Running
  <2> QED BY <2>2, <2>3
<1> QED BY <1>1, <1>2 DEF Promise!Tick, ReadySet, RunningTask

LEMMA DispatchRefines ==
    ASSUME Inv, dispatch_entry \/ dispatch_loop_exit
    PROVE  Promise!Dispatch \/ UNCHANGED Promise!schedulerVars
<1>1. /\ curr_task' = scheduled_task /\ state' = state
      /\ dispatch_running' = (scheduled_task = NULL)
      /\ RunningTask = NULL
  BY DEF dispatch_entry, dispatch_loop_exit, tcbVars, RunningTask, Running
<1>2. ReadySet' = ReadySet
  BY <1>1 DEF ReadySet
<1>3. CASE RunningTask' = NULL
  BY <1>1, <1>2, <1>3 DEF Promise!schedulerVars, ReadySet, RunningTask
<1>4. CASE RunningTask' # NULL
  <2>1. RunningTask' = scheduled_task /\ scheduled_task # NULL
    BY <1>1, <1>4 DEF RunningTask, Running
  <2>2. ready_queue \in ReadyQueues /\ Holds(ready_queue, state)
    BY QueuesHold DEF Inv, Typed, TypeOK, ReadyQueues
  <2>3. /\ scheduled_task \in ReadySet
        /\ \A u \in ReadySet : task_pri[scheduled_task] <= task_pri[u]
    BY <2>1, <2>2, TopIsReady DEF Inv, ScheduledIsTop, ReadySet
  <2> QED BY <1>1, <1>2, <2>1, <2>3 DEF Promise!Dispatch, ReadySet, RunningTask
<1> QED BY <1>3, <1>4

LEMMA MainRefines ==
    ASSUME Inv, main
    PROVE  Promise!Wake(1)
<1>1. 1 \in TaskId
  BY TaskManagerAssumption DEF TaskId
<1> QED BY <1>1, WakeRefines DEF main, cpuVars, Inv, Typed, TypeOK

(* Safety of the refinement: whatever the number of tasks, the priorities  *)
(* and the times, every behaviour of the task manager is one that the      *)
(* abstract priority scheduler allows.  (That a dispatch follows while a   *)
(* task is ready is checked by TLC.)                                       *)
THEOREM SchedulerImplemented ==
    ASSUME AtMostTwoPerPriority, TimesInRange
    PROVE  Spec => Promise!Init /\ [][Promise!Next]_(Promise!schedulerVars)
<1>1. Init => Inv /\ Promise!Init
  <2>1. Init => Promise!Init
    BY DEF Init, Promise!Init, Running
  <2> QED BY <2>1, InitInv
<1>2. Inv /\ [Next]_vars => Inv'
  BY InvStep
<1>3. Inv /\ [Next]_vars => [Promise!Next]_(Promise!schedulerVars)
  <2> SUFFICES ASSUME Inv, [Next]_vars
               PROVE  Promise!Next \/ UNCHANGED Promise!schedulerVars
    OBVIOUS
  <2>1. CASE main
    <3>1. 1 \in TaskId
      BY TaskManagerAssumption DEF TaskId
    <3> QED BY <2>1, <3>1, MainRefines DEF Promise!Next
  <2>2. CASE SystemCall
    BY <2>2, CallRefines
  <2>3. CASE systimer_handler
    BY <2>3, TickRefines DEF Promise!Next
  <2>4. CASE dispatch_entry \/ dispatch_loop_exit
    BY <2>4, DispatchRefines DEF Promise!Next
  <2>5. CASE UNCHANGED vars
    BY <2>5, StutterRefines DEF vars, tcbVars, cpuVars
  <2> QED BY <2>1, <2>2, <2>3, <2>4, <2>5 DEF Next
<1> QED BY <1>1, <1>2, <1>3, PTL DEF Spec
=============================================================================
