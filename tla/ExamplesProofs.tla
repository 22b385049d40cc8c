--------------------------- MODULE ExamplesProofs ---------------------------
(***************************************************************************)
(* Proofs about the example applications and the shell.  They are clients  *)
(* of the kernel, so that what is proved of its tasks, semaphores and      *)
(* flags holds of them too; the semaphore keeps the lines of the first     *)
(* example whole; and the shell's echo prints what was typed.              *)
(***************************************************************************)
EXTENDS Examples, EventProofs

-----------------------------------------------------------------------------
(* The programs.                                                           *)

MainCalls == {"print", "create_semaphore", "create_flag", "create_task",
              "start_t1", "start_t2", "start_t3", "exit",
              "prompt", "gets", "command"}

LEMMA UsermainFirst ==
    ASSUME NEW rest \in Seq(MainCalls)
    PROVE  /\ Len(usermain \o rest) = 2 + Len(rest)
           /\ (usermain \o rest)[1] = "print"
           /\ (usermain \o rest)[2] = "create_semaphore"
           /\ \A i \in 1 .. Len(rest) : (usermain \o rest)[i + 2] = rest[i]
<1>1. usermain \in Seq(MainCalls)
  BY DEF usermain, MainCalls
<1>2. /\ Len(usermain) = 2 /\ Len(rest) \in Nat
      /\ usermain[1] = "print" /\ usermain[2] = "create_semaphore"
  BY DEF usermain
<1> HIDE DEF usermain, MainCalls
<1>3. /\ Len(usermain \o rest) = Len(usermain) + Len(rest)
      /\ \A i \in 1 .. Len(usermain) + Len(rest) : (usermain \o rest)[i] =
            IF i <= Len(usermain) THEN usermain[i] ELSE rest[i - Len(usermain)]
  BY <1>1, ConcatProperties
<1> QED BY <1>2, <1>3

(* The call with which the main task makes the first task of an example. *)
FirstMade(e) == IF e = "events" THEN 4 ELSE 3

(* The main task makes the others one by one before it starts them.        *)
MainCall(e, calls, k) ==
    /\ calls[k] \in MainCalls \ {"print", "create_semaphore"}
    /\ calls[k] = "create_task" => k - FirstMade(e) \in 0 .. Len(Tasks[e]) - 2
    /\ calls[k] \in {"start_t1", "start_t2"} => Len(Tasks[e]) >= 3
    /\ calls[k] = "start_t3" => Len(Tasks[e]) >= 4
    /\ calls[k] = "create_flag" => e = "events"
    /\ calls[k] \in {"prompt", "gets", "command"} => e = "shell"
    /\ e # "shell" => (calls[k] = "exit" <=> k = Len(calls))

MainProgram(e, calls) ==
    /\ calls[1] = "print" /\ calls[2] = "create_semaphore" /\ Len(calls) \in 3 .. 10
    /\ e = "shell" => Len(calls) = 5
    /\ \A k \in 3 .. Len(calls) : MainCall(e, calls, k)

LEMMA MainPrograms ==
    /\ DOMAIN Tasks = {"preemptive", "sleep_wake", "events", "shell"}
    /\ \A e \in DOMAIN Tasks : MainProgram(e, Tasks[e][1])
    /\ Tasks["shell"][1][3] = "prompt"
    /\ Tasks["shell"][1][4] = "gets"
    /\ Tasks["shell"][1][5] = "command"
<1>1. ASSUME NEW e \in {"preemptive", "sleep_wake"}
      PROVE  MainProgram(e, Tasks[e][1])
  <2> DEFINE calls == Tasks[e][1]
  <2>1. /\ preemptive_multi_tasking \in Seq(MainCalls)
        /\ Len(preemptive_multi_tasking) = 5
    BY DEF preemptive_multi_tasking, MainCalls
  <2>2. calls = usermain \o preemptive_multi_tasking /\ Len(Tasks[e]) = 3
    <3> DEFINE first == usermain \o preemptive_multi_tasking
    <3>1. /\ Tasks["preemptive"] = <<first, task_1, task_1>>
          /\ Tasks["sleep_wake"] = <<first, task_waker, task_sleeper>>
      BY DEF Tasks
    <3> HIDE DEF first
    <3>2. \A a, b : Len(<<first, a, b>>) = 3 /\ <<first, a, b>>[1] = first
      OBVIOUS
    <3> QED BY <3>1, <3>2 DEF first
  <2> HIDE DEF calls
  <2>3. /\ Len(calls) = 7 /\ calls[1] = "print" /\ calls[2] = "create_semaphore"
        /\ \A i \in 1 .. 5 : calls[i + 2] = preemptive_multi_tasking[i]
    <3>1. /\ Len(usermain \o preemptive_multi_tasking) = 2 + Len(preemptive_multi_tasking)
          /\ (usermain \o preemptive_multi_tasking)[1] = "print"
          /\ (usermain \o preemptive_multi_tasking)[2] = "create_semaphore"
          /\ \A i \in 1 .. Len(preemptive_multi_tasking) :
                (usermain \o preemptive_multi_tasking)[i + 2] = preemptive_multi_tasking[i]
      BY <2>1, UsermainFirst
    <3> QED BY <2>1, <2>2, <3>1
  <2>4. /\ calls[3] = "create_task" /\ calls[4] = "create_task"
        /\ calls[5] = "start_t1" /\ calls[6] = "start_t2" /\ calls[7] = "exit"
    BY <2>3 DEF preemptive_multi_tasking
  <2>5. MainProgram(e, calls)
    <3>1. \A k \in 3 .. Len(calls) : k \in {3, 4, 5, 6, 7}
      BY <2>3
    <3>2. FirstMade(e) = 3 /\ e # "shell" /\ Len(calls) = 7
      BY <2>3 DEF FirstMade
    <3>3. MainCall(e, calls, 3) /\ MainCall(e, calls, 4)
      BY <2>2, <2>4, <3>2 DEF MainCall, MainCalls
    <3>4. MainCall(e, calls, 5) /\ MainCall(e, calls, 6)
      BY <2>2, <2>4, <3>2 DEF MainCall, MainCalls
    <3>5. MainCall(e, calls, 7)
      BY <2>4, <3>2 DEF MainCall, MainCalls
    <3> QED BY <2>3, <3>1, <3>2, <3>3, <3>4, <3>5 DEF MainProgram
  <2> QED BY <2>5 DEF calls
<1>2. MainProgram("events", Tasks["events"][1])
  <2> DEFINE calls == Tasks["events"][1]
             rest == events
  <2>0. rest \in Seq(MainCalls) /\ Len(rest) = 8
    BY DEF events, MainCalls
  <2>1. /\ rest[1] = "create_flag" /\ rest[2] = "create_task"
        /\ rest[3] = "create_task" /\ rest[4] = "create_task"
        /\ rest[5] = "start_t1" /\ rest[6] = "start_t2"
        /\ rest[7] = "start_t3" /\ rest[8] = "exit"
    BY DEF events
  <2>2. calls = usermain \o rest /\ Len(Tasks["events"]) = 4
    BY DEF Tasks
  <2> HIDE DEF calls, rest
  <2>3. /\ Len(calls) = 10 /\ calls[1] = "print" /\ calls[2] = "create_semaphore"
        /\ \A i \in 1 .. 8 : calls[i + 2] = rest[i]
    <3> DEFINE both == usermain \o rest
    <3>1. /\ Len(both) = 2 + Len(rest)
          /\ both[1] = "print" /\ both[2] = "create_semaphore"
          /\ \A i \in 1 .. Len(rest) : both[i + 2] = rest[i]
      BY <2>0, UsermainFirst
    <3>2. calls = both /\ Len(rest) = 8
      BY <2>0, <2>2
    <3> HIDE DEF both
    <3> QED BY <3>1, <3>2
  <2>4. /\ calls[3] = "create_flag" /\ calls[4] = "create_task"
        /\ calls[5] = "create_task" /\ calls[6] = "create_task"
        /\ calls[7] = "start_t1" /\ calls[8] = "start_t2"
        /\ calls[9] = "start_t3" /\ calls[10] = "exit"
    BY <2>1, <2>3
  <2>5. MainProgram("events", calls)
    <3>1. \A k \in 3 .. Len(calls) : k \in {3, 4, 5, 6, 7, 8, 9, 10}
      BY <2>3
    <3>2. FirstMade("events") = 4 /\ Len(calls) = 10
      BY <2>3 DEF FirstMade
    <3>3. MainCall("events", calls, 3) /\ MainCall("events", calls, 10)
      BY <2>4, <3>2 DEF MainCall, MainCalls
    <3>4. MainCall("events", calls, 4) /\ MainCall("events", calls, 5)
      BY <2>2, <2>4, <3>2 DEF MainCall, MainCalls
    <3>5. MainCall("events", calls, 6) /\ MainCall("events", calls, 7)
      BY <2>2, <2>4, <3>2 DEF MainCall, MainCalls
    <3>6. MainCall("events", calls, 8) /\ MainCall("events", calls, 9)
      BY <2>2, <2>4, <3>2 DEF MainCall, MainCalls
    <3> QED BY <2>3, <3>1, <3>3, <3>4, <3>5, <3>6 DEF MainProgram
  <2> QED BY <2>5 DEF calls
<1>3. /\ MainProgram("shell", Tasks["shell"][1])
      /\ Tasks["shell"][1][3] = "prompt"
      /\ Tasks["shell"][1][4] = "gets"
      /\ Tasks["shell"][1][5] = "command"
  <2> DEFINE calls == Tasks["shell"][1]
  <2>1. run_shell \in Seq(MainCalls) /\ Len(run_shell) = 3
    BY DEF run_shell, MainCalls
  <2>2. calls = usermain \o run_shell /\ Len(Tasks["shell"]) = 1
    BY DEF Tasks
  <2>3. calls = Tasks["shell"][1]
    OBVIOUS
  <2> HIDE DEF calls
  <2>4. /\ Len(calls) = 5 /\ calls[1] = "print" /\ calls[2] = "create_semaphore"
        /\ \A i \in 1 .. 3 : calls[i + 2] = run_shell[i]
    <3>1. /\ Len(usermain \o run_shell) = 2 + Len(run_shell)
          /\ (usermain \o run_shell)[1] = "print"
          /\ (usermain \o run_shell)[2] = "create_semaphore"
          /\ \A i \in 1 .. Len(run_shell) :
                (usermain \o run_shell)[i + 2] = run_shell[i]
      BY <2>1, UsermainFirst
    <3> QED BY <2>1, <2>2, <3>1
  <2>5. calls[3] = "prompt" /\ calls[4] = "gets" /\ calls[5] = "command"
    BY <2>4 DEF run_shell
  <2>6. MainProgram("shell", calls)
    <3>1. \A k \in 3 .. Len(calls) : k \in {3, 4, 5}
      BY <2>4
    <3>2. MainCall("shell", calls, 3) /\ MainCall("shell", calls, 4)
      BY <2>4, <2>5 DEF MainCall, MainCalls
    <3>3. MainCall("shell", calls, 5)
      BY <2>4, <2>5 DEF MainCall, MainCalls
    <3> QED BY <2>4, <3>1, <3>2, <3>3 DEF MainProgram
  <2> QED BY <2>5, <2>6 DEF calls
<1>4. DOMAIN Tasks = {"preemptive", "sleep_wake", "events", "shell"}
  BY DEF Tasks
<1> QED BY <1>1, <1>2, <1>3, <1>4

(* The calls of the tasks that the main task makes. *)
TaskCalls == {"print", "wait", "signal", "delay", "half_delay", "wakeup",
              "sleep", "set_1", "set_2", "wait_1", "wait_2"}

TaskProgram(e, t, calls) ==
    /\ Len(calls) \in 2 .. 6
    /\ \A k \in 1 .. Len(calls) :
          /\ calls[k] \in TaskCalls
          /\ calls[k] = "wakeup" => Len(Tasks[e]) >= 3
          /\ calls[k] \in {"set_1", "set_2"} => e = "events"
          /\ calls[k] \in {"wait_1", "wait_2"} => e = "events" /\ t \in {t2, t3}

LEMMA TaskPrograms ==
    \A e \in DOMAIN Tasks :
        /\ Len(Tasks[e]) \in 1 .. 4
        /\ DOMAIN Tasks[e] = 1 .. Len(Tasks[e])
        /\ e = "shell" => Len(Tasks[e]) = 1
        /\ \A t \in 2 .. Len(Tasks[e]) : TaskProgram(e, t, Tasks[e][t])
<1>1. \A e, t : TaskProgram(e, t, task_1)
  BY DEF TaskProgram, TaskCalls, task_1
<1>2. \A t : TaskProgram("sleep_wake", t, task_waker)
  BY DEF TaskProgram, TaskCalls, task_waker, Tasks
<1>3. \A e, t : TaskProgram(e, t, task_sleeper)
  BY DEF TaskProgram, TaskCalls, task_sleeper
<1>4. \A t : TaskProgram("events", t, task_button)
  BY DEF TaskProgram, TaskCalls, task_button
<1>5. TaskProgram("events", t2, task_led1)
  BY DEF TaskProgram, TaskCalls, task_led1
<1>6. TaskProgram("events", t3, task_led2)
  BY DEF TaskProgram, TaskCalls, task_led2
<1> HIDE DEF TaskProgram, task_1, task_waker, task_sleeper, task_button,
             task_led1, task_led2
<1>7. /\ Len(Tasks["preemptive"]) = 3 /\ DOMAIN Tasks["preemptive"] = 1 .. 3
      /\ Tasks["preemptive"][2] = task_1 /\ Tasks["preemptive"][3] = task_1
  BY DEF Tasks
<1>8. /\ Len(Tasks["sleep_wake"]) = 3 /\ DOMAIN Tasks["sleep_wake"] = 1 .. 3
      /\ Tasks["sleep_wake"][2] = task_waker /\ Tasks["sleep_wake"][3] = task_sleeper
  BY DEF Tasks
<1>9. /\ Len(Tasks["events"]) = 4 /\ DOMAIN Tasks["events"] = 1 .. 4
      /\ Tasks["events"][2] = task_button /\ Tasks["events"][3] = task_led1
      /\ Tasks["events"][4] = task_led2
  BY DEF Tasks
<1>10. Len(Tasks["shell"]) = 1 /\ DOMAIN Tasks["shell"] = 1 .. 1
  BY DEF Tasks
<1> DEFINE Goal(e) == /\ Len(Tasks[e]) \in 1 .. 4
                      /\ DOMAIN Tasks[e] = 1 .. Len(Tasks[e])
                      /\ e = "shell" => Len(Tasks[e]) = 1
                      /\ \A t \in 2 .. Len(Tasks[e]) : TaskProgram(e, t, Tasks[e][t])
<1>11. Goal("preemptive")
  <2>1. \A t \in 2 .. Len(Tasks["preemptive"]) : t \in {2, 3}
    BY <1>7
  <2> QED BY <1>1, <1>7, <2>1
<1>12. Goal("sleep_wake")
  <2>1. \A t \in 2 .. Len(Tasks["sleep_wake"]) : t \in {2, 3}
    BY <1>8
  <2> QED BY <1>2, <1>3, <1>8, <2>1
<1>13. Goal("events")
  <2>1. \A t \in 2 .. Len(Tasks["events"]) : t \in {2, 3, 4}
    BY <1>9
  <2> QED BY <1>4, <1>5, <1>6, <1>9, <2>1 DEF t2, t3
<1>14. Goal("shell")
  BY <1>10
<1> HIDE DEF Goal
<1>15. \A e \in DOMAIN Tasks : Goal(e)
  BY <1>11, <1>12, <1>13, <1>14, MainPrograms
<1> QED BY <1>15 DEF Goal

-----------------------------------------------------------------------------
(* The tasks that exist: only they are in the queues and run.              *)

MadeTasks == {t \in TaskId : state[t] # "NONEXIST"}

Within(S, queues, waiting, current, scheduled) ==
    /\ queues \in [Priorities -> Seq(S)]
    /\ waiting \in Seq(S)
    /\ {current, scheduled} \subseteq S \cup {NULL}

Existing == Within(MadeTasks, ready_queue, wait_queue, curr_task, scheduled_task)

LEMMA AddReadyWithin ==
    ASSUME NEW S, S \subseteq TaskId, NEW queues \in [Priorities -> Seq(S)],
           NEW t \in S
    PROVE  AddReady(queues, t) \in [Priorities -> Seq(S)]
<1>1. task_pri[t] \in Priorities /\ queues[task_pri[t]] \in Seq(S)
  BY PriorityOf
<1>2. Append(queues[task_pri[t]], t) \in Seq(S)
  BY <1>1
<1> QED BY <1>1, <1>2 DEF AddReady, task_queue_add_entry

LEMMA RemoveTopWithin ==
    ASSUME NEW S, NEW queues \in [Priorities -> Seq(S)], NEW t
    PROVE  RemoveTopReady(queues, t) \in [Priorities -> Seq(S)]
<1>1. \A q \in Seq(S) : task_queue_remove_top(q) \in Seq(S)
  BY DEF task_queue_remove_top
<1> QED BY <1>1 DEF RemoveTopReady

LEMMA TopWithin ==
    ASSUME NEW S, S \subseteq TaskId, NEW queues \in [Priorities -> Seq(S)]
    PROVE  Top(queues) \in S \cup {NULL}
<1>1. queues \in ReadyQueues
  <2>1. \A q \in Seq(S) : q \in Seq(TaskId)
    OBVIOUS
  <2> QED BY <2>1 DEF ReadyQueues
<1>2. Top(queues) = NULL \/ IsTop(queues, Top(queues))
  BY <1>1, TopIsTop
<1>3. ASSUME NEW p \in Priorities, queues[p] # <<>> PROVE Head(queues[p]) \in S
  <2>1. queues[p] \in Seq(S)
    OBVIOUS
  <2> QED BY <1>3, <2>1
<1> QED BY <1>2, <1>3 DEF IsTop

LEMMA RemoveEntryWithin ==
    ASSUME NEW S, NEW queue \in Seq(S), NEW t
    PROVE  task_queue_remove_entry(queue, t) \in Seq(S)
<1>1. ASSUME NEW k \in DOMAIN queue PROVE RemoveAt(queue, k) \in Seq(S)
  BY RemoveAtDistinct
<1> QED BY <1>1 DEF task_queue_remove_entry

(* After scheduler(): S holds what the calls before it moved. *)
LEMMA SchedulerWithin ==
    ASSUME NEW S, S \subseteq TaskId, ready_queue' \in [Priorities -> Seq(S)],
           wait_queue' \in Seq(S), curr_task' \in S \cup {NULL}, scheduler
    PROVE  Within(S, ready_queue', wait_queue', curr_task', scheduled_task')
BY TopWithin DEF scheduler, Within

LEMMA StaysMade ==
    ASSUME TypeOK, NEW t, t \in MadeTasks \/ t \notin TaskId,
           NEW s, s # "NONEXIST", state' = [state EXCEPT ![t] = s]
    PROVE  MadeTasks' = MadeTasks
BY DEF TypeOK, MadeTasks

LEMMA BlockExisting ==
    ASSUME TypeOK, Existing, Running, NEW factor, NEW time, NEW promise,
           Block(factor, time, promise)
    PROVE  MadeTasks' = MadeTasks /\ Existing'
<1>1. curr_task \in MadeTasks /\ MadeTasks \subseteq TaskId
  BY DEF Existing, Within, Running, MadeTasks
<1>2. MadeTasks' = MadeTasks
  BY <1>1, StaysMade DEF Block
<1>3. ready_queue' \in [Priorities -> Seq(MadeTasks)]
  BY RemoveTopWithin DEF Block, Existing, Within
<1>4. wait_queue' \in Seq(MadeTasks)
  BY <1>1 DEF Block, Existing, Within, task_queue_add_entry
<1> QED BY <1>1, <1>2, <1>3, <1>4, SchedulerWithin DEF Block, Existing, cpuVars

LEMMA ReleaseExisting ==
    ASSUME TypeOK, Existing, NEW t \in MadeTasks, Release(t)
    PROVE  MadeTasks' = MadeTasks /\ Existing'
<1>1. MadeTasks \subseteq TaskId
  BY DEF MadeTasks
<1>2. MadeTasks' = MadeTasks
  BY StaysMade DEF Release
<1>3. ready_queue' \in [Priorities -> Seq(MadeTasks)]
  BY <1>1, AddReadyWithin DEF Release, Existing, Within
<1>4. wait_queue' \in Seq(MadeTasks)
  BY RemoveEntryWithin DEF Release, Existing, Within
<1>5. curr_task' \in MadeTasks \cup {NULL}
  BY DEF Release, Existing, Within, cpuVars
<1> QED BY <1>1, <1>2, <1>3, <1>4, <1>5, SchedulerWithin DEF Release, Existing

LEMMA CallExisting ==
    ASSUME TypeOK, Existing, SystemCall
    PROVE  (MadeTasks' = MadeTasks \/ sk_create_task) /\ Existing'
<1> DEFINE Goal == (MadeTasks' = MadeTasks \/ sk_create_task) /\ Existing'
<1>1. MadeTasks \subseteq TaskId /\ (Running => curr_task \in MadeTasks)
  BY DEF Existing, Within, Running, MadeTasks
<1>2. ASSUME UNCHANGED <<state, ready_queue, wait_queue, cpuVars, scheduled_task>>
      PROVE  Goal
  BY <1>2 DEF MadeTasks, Existing, cpuVars
<1>3. ASSUME sk_create_task PROVE Goal
  <2>1. PICK t \in TaskId : state' = [state EXCEPT ![t] = "DORMANT"]
    BY <1>3 DEF sk_create_task
  <2>2. MadeTasks \subseteq MadeTasks'
    BY <2>1 DEF TypeOK, MadeTasks
  <2>3. \A q \in Seq(MadeTasks) : q \in Seq(MadeTasks')
    BY <2>2
  <2>4. UNCHANGED <<ready_queue, wait_queue, curr_task, scheduled_task>>
    BY <1>3 DEF sk_create_task, cpuVars
  <2> QED BY <1>3, <2>2, <2>3, <2>4 DEF Existing, Within
<1>4. ASSUME NEW t \in TaskId, sk_start_task(t) PROVE Goal
  <2>1. t \in MadeTasks
    BY <1>4 DEF sk_start_task, MadeTasks
  <2>2. MadeTasks' = MadeTasks
    BY <1>4, <2>1, StaysMade DEF sk_start_task
  <2>3. ready_queue' \in [Priorities -> Seq(MadeTasks)]
    BY <1>1, <1>4, <2>1, AddReadyWithin DEF sk_start_task, Existing, Within
  <2>4. wait_queue' \in Seq(MadeTasks) /\ curr_task' \in MadeTasks \cup {NULL}
    BY <1>4 DEF sk_start_task, Existing, Within, cpuVars
  <2> QED BY <1>1, <1>4, <2>2, <2>3, <2>4, SchedulerWithin DEF sk_start_task, Existing
<1>5. ASSUME sk_exit_task PROVE Goal
  <2>1. MadeTasks' = MadeTasks
    BY <1>1, <1>5, StaysMade DEF sk_exit_task
  <2>2. ready_queue' \in [Priorities -> Seq(MadeTasks)]
    BY <1>5, RemoveTopWithin DEF sk_exit_task, Existing, Within
  <2>3. wait_queue' \in Seq(MadeTasks) /\ curr_task' \in MadeTasks \cup {NULL}
    BY <1>5 DEF sk_exit_task, Existing, Within, cpuVars
  <2> QED BY <1>1, <1>5, <2>1, <2>2, <2>3, SchedulerWithin DEF sk_exit_task, Existing
<1>6. ASSUME NEW d, sk_delay_task(d) PROVE Goal
  BY <1>6, BlockExisting DEF sk_delay_task
<1>7. ASSUME NEW d, sk_sleep_task(d) PROVE Goal
  BY <1>2, <1>7, BlockExisting DEF sk_sleep_task
<1>8. ASSUME NEW t \in TaskId, sk_wakeup_task(t) PROVE Goal
  <2>1. state[t] = "WAIT" => t \in MadeTasks
    BY DEF MadeTasks
  <2> QED BY <1>2, <1>8, <2>1, ReleaseExisting DEF sk_wakeup_task
<1> HIDE DEF Goal
<1>9. Goal
  BY <1>3, <1>4, <1>5, <1>6, <1>7, <1>8 DEF SystemCall
<1> QED BY <1>9 DEF Goal

LEMMA TickExisting ==
    ASSUME Typed, Existing, systimer_handler
    PROVE  MadeTasks' = MadeTasks /\ Existing'
<1>1. /\ MadeTasks \subseteq TaskId
      /\ ready_queue \in [Priorities -> Seq(MadeTasks)]
      /\ wait_queue \in Seq(MadeTasks)
  BY DEF Existing, Within, MadeTasks
<1>2. \/ TimedOut = {} /\ WalkedReady = ready_queue
      \/ \E k \in DOMAIN wait_queue :
            /\ WalkEnd = k
            /\ TimedOut = {wait_queue[k]}
            /\ WalkedReady = AddReady(ready_queue, wait_queue[k])
  BY WalkCases DEF Typed
<1>3. TimedOut \subseteq MadeTasks
  BY <1>1, <1>2
<1>4. MadeTasks' = MadeTasks
  <2>1. \A t \in TaskId : state'[t] = IF t \in TimedOut THEN "READY" ELSE state[t]
    BY DEF systimer_handler
  <2> QED BY <1>3, <2>1 DEF MadeTasks
<1>5. WalkedReady \in [Priorities -> Seq(MadeTasks)]
  <2>1. ASSUME NEW k \in DOMAIN wait_queue
        PROVE  AddReady(ready_queue, wait_queue[k]) \in [Priorities -> Seq(MadeTasks)]
    BY <1>1, AddReadyWithin
  <2> QED BY <1>1, <1>2, <2>1
<1>6. ready_queue' \in [Priorities -> Seq(MadeTasks)]
  <2>1. CASE dispatch_running
    BY <1>5, <2>1 DEF systimer_handler, Rotated
  <2>2. CASE ~dispatch_running
    <3>1. curr_task \in MadeTasks
      BY <2>2 DEF Typed, TickHasTask, systimer_handler, Existing, Within
    <3>2. RemoveTopReady(WalkedReady, curr_task) \in [Priorities -> Seq(MadeTasks)]
      BY <1>5, RemoveTopWithin
    <3>3. AddReady(RemoveTopReady(WalkedReady, curr_task), curr_task)
            \in [Priorities -> Seq(MadeTasks)]
      BY <1>1, <3>1, <3>2, AddReadyWithin
    <3> QED BY <1>5, <3>3 DEF systimer_handler, Rotated
  <2> QED BY <2>1, <2>2
<1>7. wait_queue' \in Seq(MadeTasks)
  <2>1. ASSUME NEW k \in DOMAIN wait_queue
        PROVE  RemoveAt(wait_queue, k) \in Seq(MadeTasks)
    BY <1>1, RemoveAtDistinct
  <2> QED BY <1>1, <1>2, <2>1 DEF systimer_handler
<1>8. curr_task' \in MadeTasks \cup {NULL}
  BY DEF systimer_handler, Existing, Within
<1> QED BY <1>1, <1>4, <1>6, <1>7, <1>8, SchedulerWithin
        DEF systimer_handler, Existing

LEMMA MainExisting ==
    ASSUME TypeOK, Existing, main
    PROVE  MadeTasks' = {1} /\ Existing'
<1>1. 1 \in TaskId /\ MadeTasks = {}
  BY TaskManagerAssumption DEF TaskId, main, MadeTasks
<1>2. MadeTasks' = {1}
  BY <1>1 DEF main, MadeTasks, TypeOK
<1>3. ready_queue \in [Priorities -> Seq({1})]
  <2>1. \A q \in Seq({}) : q \in Seq({1})
    OBVIOUS
  <2> QED BY <1>1, <2>1 DEF Existing, Within
<1>4. ready_queue' \in [Priorities -> Seq({1})]
  BY <1>1, <1>3, AddReadyWithin DEF main
<1>5. wait_queue' \in Seq({1}) /\ curr_task' \in {1, NULL}
  BY <1>1 DEF main, Existing, Within, cpuVars
<1> QED BY <1>1, <1>2, <1>4, <1>5, SchedulerWithin DEF main, Existing

LEMMA DispatchExisting ==
    ASSUME Existing, dispatch_entry \/ dispatch_loop_exit
    PROVE  MadeTasks' = MadeTasks /\ Existing'
BY DEF dispatch_entry, dispatch_loop_exit, tcbVars, MadeTasks, Existing, Within

-----------------------------------------------------------------------------
(* The examples are clients of the kernel.                                 *)

(* Where the programs are.  A task exists once the main task has passed    *)
(* the call that makes it.                                                 *)
Programmed ==
    /\ example \in Enabled
    /\ pc \in [TaskId -> Nat]
    /\ \A t \in 1 .. Len(Tasks[example]) : pc[t] \in 1 .. Len(Program(t))
    /\ pc[1] > 2 => scb_table[1].state = "EXIST"
    /\ \A t \in MadeTasks :
          /\ t <= Len(Tasks[example])
          /\ \/ t = 1
             \/ pc[1] <= 2 /\ scb_table[1].state = "EXIST"
             \/ t + FirstMade(example) <= pc[1] + 1

Client == EventTyped /\ Existing /\ Programmed

LEMMA ExampleFacts ==
    ASSUME Programmed
    PROVE  /\ example \in DOMAIN Tasks
           /\ Len(Tasks[example]) \in 1 .. 4
           /\ 1 .. Len(Tasks[example]) \subseteq TaskId
           /\ example = "shell" => Len(Tasks[example]) = 1
           /\ MainProgram(example, Program(1))
           /\ \A t \in 2 .. Len(Tasks[example]) : TaskProgram(example, t, Program(t))
           /\ SemaphoreId = {1}
           /\ example = "events" => FlagId = {1}
<1>1. /\ example \in Enabled /\ example \in DOMAIN Tasks
      /\ MAX_TASKS >= Len(Tasks[example])
      /\ MAX_SEMAPHORES = 1
      /\ example = "events" => MAX_FLAGS = 1
  BY ExamplesAssumption DEF Programmed
<1>2. Len(Tasks[example]) \in 1 .. 4 /\ (example = "shell" => Len(Tasks[example]) = 1)
  BY <1>1, TaskPrograms
<1>3. 1 .. Len(Tasks[example]) \subseteq TaskId
  BY <1>1, <1>2, TaskManagerAssumption DEF TaskId
<1>4. \A t \in 2 .. Len(Tasks[example]) : TaskProgram(example, t, Program(t))
  BY <1>1, TaskPrograms DEF Program
<1>5. MainProgram(example, Program(1))
  BY <1>1, MainPrograms DEF Program
<1> QED BY <1>1, <1>2, <1>3, <1>4, <1>5 DEF SemaphoreId, FlagId

(* The task that does a step, and its call. *)
LEMMA StepCall ==
    ASSUME Client, NEW t \in TaskId, Step(t)
    PROVE  /\ curr_task = t /\ t \in MadeTasks
           /\ t \in 1 .. Len(Tasks[example])
           /\ pc[t] \in 1 .. Len(Program(t))
           /\ NextCall(t) \in MainCalls \cup TaskCalls
           /\ t = 1 => \/ pc[1] = 1 /\ NextCall(1) = "print"
                       \/ pc[1] = 2 /\ NextCall(1) = "create_semaphore"
                       \/ pc[1] > 2 /\ MainCall(example, Program(1), pc[1])
           /\ t # 1 => /\ NextCall(t) \in TaskCalls
                       /\ NextCall(t) = "wakeup" => Len(Tasks[example]) >= 3
                       /\ NextCall(t) \in {"set_1", "set_2"} => example = "events"
                       /\ NextCall(t) \in {"wait_1", "wait_2"} =>
                             example = "events" /\ t \in {t2, t3}
<1>1. curr_task = t /\ t \in MadeTasks
  BY PriorityOf DEF Step, Client, Existing, Within
<1>2. t \in 1 .. Len(Tasks[example]) /\ pc[t] \in 1 .. Len(Program(t))
  BY <1>1, ExampleFacts, PriorityOf DEF Client, Programmed
<1>3. CASE t = 1
  <2>1. MainProgram(example, Program(1)) /\ pc[1] \in 1 .. Len(Program(1))
    BY <1>2, <1>3, ExampleFacts DEF Client
  <2>2. \/ pc[1] = 1 /\ NextCall(1) = "print"
        \/ pc[1] = 2 /\ NextCall(1) = "create_semaphore"
        \/ /\ pc[1] > 2 /\ MainCall(example, Program(1), pc[1])
           /\ NextCall(1) \in MainCalls
    <3>1. CASE pc[1] = 1
      BY <2>1, <3>1 DEF MainProgram, NextCall
    <3>2. CASE pc[1] = 2
      BY <2>1, <3>2 DEF MainProgram, NextCall
    <3>3. CASE pc[1] \in 3 .. Len(Program(1))
      <4>1. MainCall(example, Program(1), pc[1])
        BY <2>1, <3>3 DEF MainProgram
      <4> QED BY <3>3, <4>1 DEF MainCall, NextCall
    <3>4. Len(Program(1)) \in 3 .. 10
      BY <2>1 DEF MainProgram
    <3> QED BY <2>1, <3>1, <3>2, <3>3, <3>4
  <2>3. NextCall(1) \in MainCalls
    BY <2>2 DEF MainCalls
  <2>4. NextCall(t) \in MainCalls \cup TaskCalls
    BY <1>3, <2>3
  <2>5. \/ pc[1] = 1 /\ NextCall(1) = "print"
        \/ pc[1] = 2 /\ NextCall(1) = "create_semaphore"
        \/ pc[1] > 2 /\ MainCall(example, Program(1), pc[1])
    BY <2>2
  <2>6. t = 1 => \/ pc[1] = 1 /\ NextCall(1) = "print"
                 \/ pc[1] = 2 /\ NextCall(1) = "create_semaphore"
                 \/ pc[1] > 2 /\ MainCall(example, Program(1), pc[1])
    BY <2>5
  <2> QED BY <1>1, <1>2, <1>3, <2>4, <2>6
<1>4. CASE t # 1
  <2>1. t \in 2 .. Len(Tasks[example])
    BY <1>2, <1>4, ExampleFacts DEF Client
  <2>2. TaskProgram(example, t, Program(t))
    BY <2>1, ExampleFacts DEF Client
  <2> QED BY <1>1, <1>2, <1>4, <2>2 DEF TaskProgram, NextCall
<1> QED BY <1>3, <1>4

LEMMA EventCallIsClient ==
    ASSUME Client, NEW t \in TaskId, Step(t), EventCall(NextCall(t))
    PROVE  EventNext
<1>1. example \in Enabled /\ SemaphoreId = {1} /\ (example = "events" => FlagId = {1})
  BY ExampleFacts DEF Client, Programmed
<1>2. /\ OneUnit \in SemaphoreInfos /\ 1 \in Counts /\ TMO_FEVR \in EventTimeouts
      /\ sid \in SemaphoreId
  BY <1>1, ExampleCalls DEF sid
<1>3. SemaphoreCall \/ FlagCall
  <2>1. NextCall(t) \in {"set_1", "set_2", "create_flag", "wait_1", "wait_2"}
          => example = "events"
    BY StepCall DEF MainCall, MainCalls, TaskCalls, NextCall
  <2>2. NextCall(t) \in {"wait_1", "wait_2"} => curr_task \in {t2, t3}
    BY StepCall DEF MainCall, MainCalls, TaskCalls, NextCall
  <2>3. example = "events" =>
          /\ {} \in FlagInfos /\ {1} \in FlagSets /\ {2} \in FlagSets
          /\ <<{1}, {"BITCLR"}>> \in FlagWaits /\ <<{2}, {"BITCLR"}>> \in FlagWaits
          /\ t2 \in FlagWaiters /\ t3 \in FlagWaiters
          /\ fid \in FlagId
    BY <1>1, ExampleCalls DEF fid
  <2>4. ASSUME sk_create_semaphore(OneUnit) PROVE SemaphoreCall
    BY <1>2, <2>4 DEF SemaphoreCall
  <2>5. ASSUME sk_wait_semaphore(sid, 1, TMO_FEVR) PROVE SemaphoreCall
    BY <1>2, <2>5 DEF SemaphoreCall
  <2>6. ASSUME sk_signal_semaphore(sid, 1) PROVE SemaphoreCall
    BY <1>2, <2>6 DEF SemaphoreCall
  <2>7. ASSUME example = "events", sk_create_flag({}) PROVE FlagCall
    BY <2>3, <2>7 DEF FlagCall
  <2>8. ASSUME example = "events", NEW p \in FlagSets, sk_set_flag(fid, p)
        PROVE  FlagCall
    BY <2>3, <2>8 DEF FlagCall
  <2>9. ASSUME example = "events", curr_task \in {t2, t3}, NEW p,
               <<p, {"BITCLR"}>> \in FlagWaits, sk_wait_flag(fid, p, {"BITCLR"}, TMO_FEVR)
        PROVE  FlagCall
    BY <1>2, <2>3, <2>9 DEF FlagCall
  <2> QED BY <2>1, <2>2, <2>3, <2>4, <2>5, <2>6, <2>7, <2>8, <2>9 DEF EventCall
<1> QED BY <1>3 DEF EventNext

LEMMA TaskCallIsClient ==
    ASSUME Client, NEW t \in TaskId, Step(t), TaskCall(NextCall(t))
    PROVE  SystemCall
<1>1. /\ NextCall(t) \in {"start_t1", "start_t2", "wakeup"} => Len(Tasks[example]) >= 3
      /\ NextCall(t) = "start_t3" => Len(Tasks[example]) >= 4
  BY StepCall DEF MainCall, MainCalls, TaskCalls, NextCall
<1>2. /\ NextCall(t) \in {"start_t1", "start_t2", "wakeup"} =>
            t1 \in TaskId /\ t2 \in TaskId
      /\ NextCall(t) = "start_t3" => t3 \in TaskId
  BY <1>1, ExampleFacts DEF Client, t1, t2, t3
<1>3. Second \in DelayTimes /\ HalfSecond \in DelayTimes /\ TMO_FEVR \in Timeouts
  BY ExampleCalls
<1> QED BY <1>2, <1>3 DEF TaskCall, SystemCall

LEMMA ExamplesAreClients ==
    ASSUME Client, [ExamplesNext]_exampleVars
    PROVE  [EventNext]_allVars
<1>1. CASE UNCHANGED exampleVars
  BY <1>1 DEF exampleVars
<1>2. CASE Kernel
  BY <1>2 DEF Kernel, EventNext, Next
<1>3. ASSUME NEW t \in TaskId, Step(t) PROVE [EventNext]_allVars
  <2>1. CASE printf(t)
    BY <2>1 DEF printf
  <2>2. CASE EventCall(NextCall(t))
    BY <1>3, <2>2, EventCallIsClient
  <2>3. CASE TaskCall(NextCall(t)) /\ UNCHANGED eventVars
    BY <1>3, <2>3, TaskCallIsClient DEF EventNext, Next
  <2>4. CASE ShellCall(t)
    <3>1. 1 \in DelayTimes
      BY ExampleCalls
    <3>2. ASSUME sk_delay_task(1), UNCHANGED eventVars PROVE EventNext
      BY <3>1, <3>2 DEF EventNext, Next, SystemCall
    <3> QED BY <2>4, <3>2 DEF ShellCall
  <2> QED BY <1>3, <2>1, <2>2, <2>3, <2>4 DEF Step
<1> QED BY <1>1, <1>2, <1>3 DEF ExamplesNext

(* What a step makes: the main task's calls, one task each. *)
LEMMA StepMakes ==
    ASSUME Client, NEW t \in TaskId, Step(t), NextCall(t) # "create_task"
    PROVE  MadeTasks' = MadeTasks
<1> DEFINE Goal == MadeTasks' = MadeTasks
<1>1. TypeOK /\ Existing /\ curr_task \in MadeTasks /\ MadeTasks \subseteq TaskId
  BY StepCall DEF Client, EventTyped, Typed, MadeTasks
<1>2. ASSUME state' = state PROVE Goal
  BY <1>2 DEF MadeTasks
<1>3. ASSUME NEW u \in TaskId, sk_start_task(u) PROVE Goal
  <2>1. u \in MadeTasks
    BY <1>3 DEF sk_start_task, MadeTasks
  <2> QED BY <1>1, <1>3, <2>1, StaysMade DEF sk_start_task
<1>4. ASSUME sk_exit_task PROVE Goal
  BY <1>1, <1>4, StaysMade DEF sk_exit_task
<1>5. ASSUME NEW factor, NEW time, NEW promise, Running, Block(factor, time, promise)
      PROVE  Goal
  BY <1>1, <1>5, BlockExisting
<1>6. ASSUME NEW i \in DOMAIN wait_queue, Release(wait_queue[i]) PROVE Goal
  <2>1. wait_queue[i] \in MadeTasks
    BY <1>1 DEF Existing, Within
  <2> QED BY <1>1, <1>6, <2>1, ReleaseExisting
<1>7. ASSUME NEW u \in TaskId, sk_wakeup_task(u) PROVE Goal
  <2>1. state[u] = "WAIT" => u \in MadeTasks
    BY DEF MadeTasks
  <2> QED BY <1>1, <1>2, <1>7, <2>1, ReleaseExisting DEF sk_wakeup_task
<1> HIDE DEF Goal
<1>8. UNCHANGED allVars => Goal
  BY <1>2 DEF allVars, vars, tcbVars
<1>9. printf(t) => Goal
  BY <1>8 DEF printf
<1>10. ASSUME EventCall(NextCall(t)) PROVE Goal
  <2>1. UNCHANGED vars => Goal
    BY <1>2 DEF vars, tcbVars
  <2>2. ASSUME NEW f, NEW p, sk_set_flag(f, p) PROVE Goal
    BY <1>6, <2>1, <2>2 DEF sk_set_flag, FlagMatches
  <2>3. ASSUME NEW f, NEW p, NEW m, NEW d, sk_wait_flag(f, p, m, d) PROVE Goal
    BY <1>5, <2>1, <2>3 DEF sk_wait_flag
  <2>4. ASSUME NEW s, NEW c, sk_signal_semaphore(s, c) PROVE Goal
    BY <1>6, <2>1, <2>4 DEF sk_signal_semaphore, GiveUnits, KeepUnits, SemaphoreWaiters
  <2>5. ASSUME NEW s, NEW c, NEW d, sk_wait_semaphore(s, c, d) PROVE Goal
    BY <1>5, <2>1, <2>5 DEF sk_wait_semaphore
  <2>6. ASSUME NEW info, sk_create_semaphore(info) PROVE Goal
    BY <2>1, <2>6 DEF sk_create_semaphore
  <2>7. ASSUME NEW p, sk_create_flag(p) PROVE Goal
    BY <2>1, <2>7 DEF sk_create_flag
  <2> QED BY <1>10, <2>2, <2>3, <2>4, <2>5, <2>6, <2>7 DEF EventCall
<1>11. ASSUME TaskCall(NextCall(t)) PROVE Goal
  <2>1. SystemCall
    BY <1>11, TaskCallIsClient
  <2>2. \/ \E u \in TaskId : sk_start_task(u) \/ sk_wakeup_task(u)
        \/ sk_exit_task
        \/ \E d : sk_delay_task(d) \/ sk_sleep_task(d)
    <3>1. /\ NextCall(t) \in {"start_t1", "start_t2", "wakeup"} =>
                Len(Tasks[example]) >= 3
          /\ NextCall(t) = "start_t3" => Len(Tasks[example]) >= 4
      BY StepCall DEF MainCall, MainCalls, TaskCalls, NextCall
    <3>2. /\ NextCall(t) \in {"start_t1", "start_t2", "wakeup"} =>
                t1 \in TaskId /\ t2 \in TaskId
          /\ NextCall(t) = "start_t3" => t3 \in TaskId
      BY <3>1, ExampleFacts DEF Client, t1, t2, t3
    <3> QED BY <1>11, <3>2 DEF TaskCall
  <2>3. ASSUME NEW d, sk_delay_task(d) PROVE Goal
    BY <1>5, <2>3 DEF sk_delay_task
  <2>4. ASSUME NEW d, sk_sleep_task(d) PROVE Goal
    BY <1>2, <1>5, <2>4 DEF sk_sleep_task
  <2> QED BY <1>3, <1>4, <1>7, <2>2, <2>3, <2>4
<1>12. ASSUME ShellCall(t) PROVE Goal
  <2>1. sk_delay_task(1) \/ UNCHANGED allVars
    BY <1>12 DEF ShellCall
  <2>2. sk_delay_task(1) => Goal
    BY <1>5 DEF sk_delay_task
  <2> QED BY <1>8, <2>1, <2>2
<1>13. Goal
  BY <1>10, <1>11, <1>12, <1>9 DEF Step
<1> QED BY <1>13 DEF Goal

(* The first semaphore stays once it is made. *)
LEMMA SemaphoreStays ==
    ASSUME Client, [EventNext]_allVars, scb_table[1].state = "EXIST"
    PROVE  scb_table'[1].state = "EXIST"
<1>1. 1 \in SemaphoreId
  BY ExampleFacts DEF Client
<1>2. CASE SemaphoreCall
  BY <1>1, <1>2, SemaphoresStay DEF Client
<1>3. CASE FlagCall
  BY <1>3, FlagCallKeepsSemaphores DEF Client
<1> QED BY <1>2, <1>3 DEF EventNext, allVars, eventVars

LEMMA StepGoesOn ==
    ASSUME NEW t, Step(t)
    PROVE  /\ pc' = pc \/ GoOn(t)
           /\ NextCall(t) \notin {"print", "gets"} => GoOn(t)
           /\ example' = example
BY DEF Step, printf, ShellCall

LEMMA ProgrammedStep ==
    ASSUME Client, NEW t \in TaskId, Step(t)
    PROVE  Programmed'
<1>1. [EventNext]_allVars
  BY ExamplesAreClients DEF ExamplesNext
<1>2. /\ t \in MadeTasks /\ t \in 1 .. Len(Tasks[example])
      /\ pc[t] \in 1 .. Len(Program(t))
      /\ example' = example /\ example \in Enabled
      /\ pc \in [TaskId -> Nat]
      /\ Len(Tasks[example]) \in 1 .. 4
      /\ 1 .. Len(Tasks[example]) \subseteq TaskId
      /\ 1 \in TaskId
      /\ example = "shell" => Len(Tasks[example]) = 1
      /\ MainProgram(example, Program(1))
  BY StepCall, StepGoesOn, ExampleFacts DEF Client, Programmed
<1>3. Len(Program(1)) \in 3 .. 10 /\ (example = "shell" => Len(Program(1)) = 5)
  BY <1>2 DEF MainProgram
<1>4. Len(usermain) = 2
  BY DEF usermain
(* Where the program goes. *)
<1> DEFINE next == IF pc[t] < Len(Program(t)) THEN pc[t] + 1
                   ELSE IF example = "shell" THEN 3 ELSE 1
<1>5. pc' = pc \/ pc' = [pc EXCEPT ![t] = next]
  BY <1>2, <1>4, StepGoesOn DEF GoOn
<1>6. Len(Program(t)) \in Nat
  <2>1. t # 1 => TaskProgram(example, t, Program(t))
    BY <1>2, ExampleFacts DEF Client
  <2> QED BY <1>3, <2>1 DEF TaskProgram
<1>7. /\ next \in 1 .. Len(Program(t)) /\ next \in Nat /\ pc[t] \in Nat
      /\ t = 1 /\ pc[1] = 1 => next = 2
  <2>1. example = "shell" => Len(Program(t)) = 5
    <3> DEFINE n == Len(Tasks[example])
               size == Len(Program(t))
    <3>1. t \in 1 .. n /\ n \in 1 .. 4 /\ (example = "shell" => n = 1)
      BY <1>2
    <3>2. t = 1 => size = Len(Program(1))
      OBVIOUS
    <3> HIDE DEF n, size
    <3>3. example = "shell" => t = 1
      BY <3>1
    <3>4. example = "shell" => size = 5
      BY <1>3, <3>2, <3>3
    <3> QED BY <3>4 DEF size
  <2>2. pc[t] \in 1 .. Len(Program(t))
    BY <1>2
  <2> DEFINE size == Len(Program(t))
             here == pc[t]
  <2>3. size \in Nat /\ here \in 1 .. size /\ (example = "shell" => size = 5)
    BY <1>6, <2>1, <2>2
  <2>4. next = IF here < size THEN here + 1 ELSE IF example = "shell" THEN 3 ELSE 1
    OBVIOUS
  <2>5. /\ here = pc[t] /\ size = Len(Program(t))
        /\ t = 1 /\ pc[1] = 1 => here = 1
        /\ t = 1 => size = Len(Program(1))
    OBVIOUS
  <2> HIDE DEF next, here, size
  <2>6. ASSUME t = 1 PROVE size >= 3
    <3>1. size = Len(Program(1))
      BY <2>5, <2>6
    <3>2. size \in 3 .. 10
      BY <1>3, <3>1
    <3> QED BY <3>2
  <2>7. next \in 1 .. size /\ next \in Nat /\ here \in Nat
    BY <2>3, <2>4
  <2>8. t = 1 /\ here = 1 => next = 2
    BY <2>3, <2>4, <2>6
  <2> QED BY <2>5, <2>7, <2>8
<1>8. /\ pc' \in [TaskId -> Nat]
      /\ \A u \in TaskId \ {t} : pc'[u] = pc[u]
      /\ pc'[t] = pc[t] \/ pc'[t] = next
  BY <1>2, <1>5, <1>7
<1>9. \A u \in 1 .. Len(Tasks[example]) : pc'[u] \in 1 .. Len(Program(u))
  BY <1>2, <1>7, <1>8 DEF Client, Programmed
<1>10. scb_table[1].state = "EXIST" => scb_table'[1].state = "EXIST"
  BY <1>1, SemaphoreStays
<1>11. pc'[1] > 2 => scb_table'[1].state = "EXIST"
  <2>1. CASE pc[1] > 2
    BY <1>10, <2>1 DEF Client, Programmed
  <2>2. CASE t = 1 /\ pc[1] = 2 /\ NextCall(1) = "create_semaphore"
    <3>1. sk_create_semaphore(OneUnit)
      BY <2>2 DEF Step, printf, EventCall, TaskCall, ShellCall
    <3>2. PICK s \in SemaphoreId :
             scb_table' = [scb_table EXCEPT ![s] = [state |-> "EXIST",
                             value |-> OneUnit.initial_value,
                             max_value |-> OneUnit.max_value]]
      BY <3>1 DEF sk_create_semaphore
    <3>3. s = 1
      BY ExampleFacts DEF Client
    <3>4. scb_table \in [SemaphoreId -> [state : {"NONEXIST", "EXIST"},
                                        value : Int, max_value : Int]]
      BY SemaphoresTyped DEF Client, EventTyped, EventTypeOK
    <3> QED BY <3>2, <3>3, <3>4
  <2>3. CASE pc[1] <= 2 /\ ~(t = 1 /\ pc[1] = 2)
    <3>1. CASE t # 1
      BY <1>2, <1>8, <2>3, <3>1
    <3>2. CASE t = 1 /\ pc[1] = 1
      <4>1. next = 2
        BY <1>7, <3>2
      <4> QED BY <1>8, <3>2, <4>1
    <3>3. pc[1] \in Nat /\ (t = 1 => pc[1] \in 1 .. Len(Program(1)))
      BY <1>2
    <3> QED BY <1>3, <2>3, <3>1, <3>2, <3>3
  <2>4. t = 1 /\ pc[1] = 2 => NextCall(1) = "create_semaphore"
    BY StepCall
  <2> QED BY <1>2, <2>1, <2>2, <2>3, <2>4
<1>12. ASSUME NEW u \in MadeTasks'
       PROVE  /\ u <= Len(Tasks[example])
              /\ \/ u = 1
                 \/ pc'[1] <= 2 /\ scb_table'[1].state = "EXIST"
                 \/ u + FirstMade(example) <= pc'[1] + 1
  <2>1. u \in TaskId /\ u \in Nat /\ FirstMade(example) \in {3, 4}
    BY PriorityOf DEF MadeTasks, FirstMade
  <2>2. CASE u \in MadeTasks
    <3>1. /\ u <= Len(Tasks[example])
          /\ \/ u = 1
             \/ pc[1] <= 2 /\ scb_table[1].state = "EXIST"
             \/ u + FirstMade(example) <= pc[1] + 1
      BY <2>2 DEF Client, Programmed
    <3>2. CASE u = 1 \/ t # 1
      BY <1>2, <1>8, <1>10, <3>1, <3>2
    <3>3. CASE t = 1 /\ u # 1 /\ pc[1] <= 2 /\ scb_table[1].state = "EXIST"
      <4>1. pc[1] # 2
        <5> SUFFICES ASSUME pc[1] = 2 PROVE FALSE
          OBVIOUS
        <5>1. NextCall(1) = "create_semaphore"
          BY <3>3, StepCall
        <5>2. sk_create_semaphore(OneUnit)
          BY <3>3, <5>1 DEF Step, printf, EventCall, TaskCall, ShellCall
        <5> QED BY <3>3, <5>2, ExampleFacts DEF Client, sk_create_semaphore, IsFree
      <4>2. pc[1] = 1
        <5>1. pc[1] \in 1 .. Len(Program(1))
          BY <1>2, <3>3
        <5> QED BY <1>3, <3>3, <4>1, <5>1
      <4>3. next = 2
        BY <1>7, <3>3, <4>2
      <4>4. pc'[1] <= 2
        BY <1>8, <3>3, <4>2, <4>3
      <4> QED BY <1>10, <3>1, <3>3, <4>4
    <3>4. CASE /\ t = 1 /\ u # 1 /\ pc[1] > 2
               /\ u + FirstMade(example) <= pc[1] + 1
      <4>1. scb_table'[1].state = "EXIST"
        BY <1>10, <3>4 DEF Client, Programmed
      <4>2. example # "shell"
        <5> DEFINE n == Len(Tasks[example])
        <5>1. (example = "shell" => n = 1) /\ n \in Nat /\ u <= n /\ u # 1
          BY <1>2, <3>1, <3>4
        <5>2. u \in Nat /\ u > 0
          BY <2>1, TaskManagerAssumption DEF TaskId
        <5> HIDE DEF n
        <5> QED BY <5>1, <5>2
      <4>3. pc[t] < Len(Program(t)) => next = pc[1] + 1
        BY <3>4
      <4>4. ~(pc[t] < Len(Program(t))) => next = 1
        BY <4>2
      <4>5. pc[1] \in Nat /\ (pc'[1] = pc[1] \/ pc'[1] = next)
        BY <1>2, <1>8, <3>4
      <4> HIDE DEF next
      <4> QED BY <2>1, <3>1, <3>4, <4>1, <4>3, <4>4, <4>5
    <3>5. CASE /\ t = 1 /\ u # 1 /\ pc[1] <= 2
               /\ u + FirstMade(example) <= pc[1] + 1
      <4>1. u \in Nat /\ u > 1 /\ pc[1] \in Nat
        BY <1>2, <2>1, <3>5, TaskManagerAssumption DEF TaskId
      <4> QED BY <2>1, <3>5, <4>1
    <3> QED BY <1>2, <3>1, <3>2, <3>3, <3>4, <3>5
  <2>3. CASE u \notin MadeTasks
    <3>1. NextCall(t) = "create_task"
      BY <2>3, StepMakes
    <3>2. t = 1 /\ pc[1] > 2 /\ MainCall(example, Program(1), pc[1])
      BY <3>1, StepCall DEF TaskCalls
    <3>3. pc[1] - FirstMade(example) \in 0 .. Len(Tasks[example]) - 2
      BY <3>1, <3>2 DEF MainCall, NextCall
    <3>4. sk_create_task /\ GoOn(1)
      BY <3>1, <3>2, StepGoesOn
         DEF Step, printf, EventCall, TaskCall, ShellCall
    <3>5. PICK v \in TaskId : /\ \A w \in 1 .. (v - 1) : state[w] # "NONEXIST"
                              /\ state' = [state EXCEPT ![v] = "DORMANT"]
      BY <3>4 DEF sk_create_task
    <3>6. u = v
      BY <2>1, <2>3, <3>5 DEF MadeTasks, Client, EventTyped, Typed, TypeOK
    (* The task before it was made before. *)
    <3>7. u <= 2 \/ u - 1 + FirstMade(example) <= pc[1] + 1
      <4>1. CASE u > 2
        <5>1. u - 1 \in TaskId /\ u - 1 \in 1 .. (u - 1)
          BY <2>1, <4>1, TaskManagerAssumption DEF TaskId
        <5>2. u - 1 \in MadeTasks
          BY <3>5, <3>6, <5>1 DEF MadeTasks
        <5> QED BY <2>1, <3>2, <4>1, <5>2 DEF Client, Programmed
      <4> QED BY <2>1, <4>1
    <3>8. u <= Len(Tasks[example])
      <4> DEFINE n == Len(Tasks[example])
      <4>1. n \in Nat /\ pc[1] \in Nat /\ FirstMade(example) \in Nat
        BY <1>2, <2>1
      <4>2. pc[1] - FirstMade(example) \in 0 .. n - 2
        BY <3>3
      <4> HIDE DEF n
      <4>3. n >= 2 /\ pc[1] - FirstMade(example) <= n - 2
        BY <4>1, <4>2
      <4>4. u <= n
        BY <2>1, <3>7, <4>1, <4>3
      <4> QED BY <4>4 DEF n
    <3>9. scb_table'[1].state = "EXIST"
      BY <1>10, <3>2 DEF Client, Programmed
    <3>10. example # "shell"
      <4>1. example = "shell" => pc[1] - FirstMade(example) \in 0 .. (1 - 2)
        BY <1>2, <3>3
      <4> QED BY <4>1
    <3>11. pc'[1] = next
      BY <1>2, <1>4, <3>2, <3>4 DEF GoOn
    <3>12. pc[1] < Len(Program(1))
      <4>1. MainCall(example, Program(1), pc[1]) /\ Program(1)[pc[1]] = "create_task"
        BY <3>1, <3>2 DEF NextCall
      <4>2. pc[1] # Len(Program(1))
        BY <3>10, <4>1 DEF MainCall
      <4>3. pc[1] \in 1 .. Len(Program(1))
        BY <1>2, <3>2
      <4> QED BY <1>3, <4>2, <4>3
    <3>13. pc'[1] = pc[1] + 1 /\ pc[1] \in Nat
      BY <1>2, <3>2, <3>11, <3>12
    <3>14. u + FirstMade(example) <= pc'[1] + 1
      <4>1. pc[1] - FirstMade(example) >= 0
        BY <3>3
      <4> QED BY <2>1, <3>7, <3>13, <4>1
    <3> QED BY <3>8, <3>14
  <2> QED BY <2>2, <2>3
<1> QED BY <1>2, <1>8, <1>9, <1>11, <1>12 DEF Programmed, Program

LEMMA ClientInit == ExamplesInit => Client
<1> SUFFICES ASSUME ExamplesInit PROVE Existing /\ Programmed
  BY EventTypedInit DEF ExamplesInit, Client
<1>1. Existing
  BY DEF ExamplesInit, EventInit, Init, Existing, Within
<1>2. MadeTasks = {}
  BY DEF ExamplesInit, EventInit, Init, MadeTasks
<1>3. /\ example \in Enabled /\ example \in DOMAIN Tasks
      /\ pc = [t \in TaskId |-> 1]
      /\ MAX_TASKS >= Len(Tasks[example])
  BY ExamplesAssumption DEF ExamplesInit
<1>4. Len(Tasks[example]) \in 1 .. 4
  BY <1>3, TaskPrograms
<1>5. 1 .. Len(Tasks[example]) \subseteq TaskId /\ 1 \in TaskId
  BY <1>3, <1>4, TaskManagerAssumption DEF TaskId
<1>6. ASSUME NEW t \in 1 .. Len(Tasks[example]) PROVE 1 \in 1 .. Len(Program(t))
  <2>1. CASE t = 1
    BY <1>3, <2>1, MainPrograms DEF MainProgram, Program
  <2>2. CASE t # 1
    <3>1. t \in 2 .. Len(Tasks[example])
      BY <1>4, <2>2
    <3>2. TaskProgram(example, t, Program(t))
      BY <1>3, <3>1, TaskPrograms DEF Program
    <3> QED BY <3>2 DEF TaskProgram
  <2> QED BY <2>1, <2>2
<1>7. \A t \in 1 .. Len(Tasks[example]) : pc[t] \in 1 .. Len(Program(t))
  BY <1>3, <1>5, <1>6
<1> QED BY <1>1, <1>2, <1>3, <1>5, <1>7 DEF Programmed

LEMMA ClientStep ==
    ASSUME Client, [ExamplesNext]_exampleVars
    PROVE  Client'
<1>1. [EventNext]_allVars /\ EventTyped'
  BY ExamplesAreClients, EventTypedStep DEF Client
<1>2. KernelStep
  BY <1>1, EventKernelStep DEF Client, EventTyped, Typed
<1>3. Existing'
  <2>1. TypeOK /\ Typed /\ Existing
    BY DEF Client, EventTyped, Typed
  <2>2. CASE BlockStep
    BY <2>1, <2>2, BlockExisting DEF BlockStep
  <2>3. CASE ReleaseStep
    <3>1. PICK t \in TaskId : t \in ToSet(wait_queue) /\ Release(t)
      BY <2>3 DEF ReleaseStep
    <3>2. t \in MadeTasks
      BY <2>1, <3>1 DEF ToSet, Existing, Within
    <3> QED BY <2>1, <3>1, <3>2, ReleaseExisting
  <2>4. CASE Next
    BY <2>1, <2>4, CallExisting, TickExisting, MainExisting, DispatchExisting DEF Next
  <2>5. CASE UNCHANGED vars
    BY <2>1, <2>5 DEF vars, tcbVars, cpuVars, Existing, MadeTasks
  <2> QED BY <1>2, <2>2, <2>3, <2>4, <2>5 DEF KernelStep
<1>4. Programmed'
  <2>1. CASE UNCHANGED exampleVars
    BY <2>1 DEF exampleVars, programVars, allVars, vars, tcbVars, eventVars, Client,
                Programmed, Program, MadeTasks
  <2>2. CASE Kernel
    <3>1. MadeTasks' \subseteq MadeTasks \cup {1}
      BY <2>2, TickExisting, MainExisting, DispatchExisting
         DEF Kernel, Client, EventTyped, Typed
    <3>2. UNCHANGED <<example, pc, scb_table>>
      BY <2>2 DEF Kernel, programVars, eventVars
    <3> DEFINE n == Len(Tasks[example])
    <3>3. n \in 1 .. 4
      BY ExampleFacts DEF Client
    <3> HIDE DEF n
    <3>4. 1 <= n
      BY <3>3
    <3> QED BY <3>1, <3>2, <3>4 DEF n, Client, Programmed, Program
  <2>3. CASE \E t \in TaskId : Step(t)
    BY <2>3, ProgrammedStep
  <2> QED BY <2>1, <2>2, <2>3 DEF ExamplesNext
<1> QED BY <1>1, <1>3, <1>4 DEF Client

(* The examples and the shell are clients of the kernel: every behaviour   *)
(* of theirs is one of the task manager with the event module, so that the *)
(* theorems about EventSpec hold of them.                                  *)
THEOREM ExamplesUseKernel == ExamplesSpec => EventSpec
<1>1. ExamplesInit => EventInit
  BY DEF ExamplesInit
<1>2. Client /\ [ExamplesNext]_exampleVars => Client'
  BY ClientStep
<1>3. Client /\ [ExamplesNext]_exampleVars => [EventNext]_allVars
  BY ExamplesAreClients
<1> QED BY <1>1, <1>2, <1>3, ClientInit, PTL DEF ExamplesSpec, EventSpec

-----------------------------------------------------------------------------
(* The printing tasks of the first example.                                *)

LEMMA GoesTo ==
    ASSUME NEW t, GoOn(t), example # "shell",
           Len(Program(t)) \in Nat, pc[t] \in 1 .. Len(Program(t))
    PROVE  /\ pc[t] < Len(Program(t)) => pc' = [pc EXCEPT ![t] = pc[t] + 1]
           /\ pc[t] = Len(Program(t)) => pc' = [pc EXCEPT ![t] = 1]
<1> DEFINE size == Len(Program(t))
           here == pc[t]
           next == IF here < size THEN here + 1 ELSE 1
<1>1. pc' = [pc EXCEPT ![t] = next]
  BY DEF GoOn
<1>2. size \in Nat /\ here \in 1 .. size
  OBVIOUS
<1> HIDE DEF size, here
<1>3. /\ here < size => next = here + 1
      /\ here = size => next = 1
  BY <1>2
<1> HIDE DEF next
<1>4. /\ here < size => pc' = [pc EXCEPT ![t] = here + 1]
      /\ here = size => pc' = [pc EXCEPT ![t] = 1]
  BY <1>1, <1>3
<1> QED BY <1>4 DEF size, here

Printers == {t1, t2}

(* The tasks between their wait and their signal. *)
Using == {t \in Printers : pc[t] \in {2, 3} /\ state[t] # "WAIT"}

PrinterWaits ==
    \A t \in TaskId : (state[t] = "WAIT" \/ wait_factor[t] = "SEM") =>
        /\ t \in Printers /\ pc[t] = 2
        /\ state[t] = "WAIT" /\ wait_factor[t] = "SEM"
        /\ wait_semaphore[t] = 1 /\ wait_time[t] = Forever

Available == scb_table[1].state = "EXIST"

(* A task begins with its first call, and the main task ends. *)
Beginnings ==
    /\ \A t \in Printers : state[t] \in {"NONEXIST", "DORMANT"} => pc[t] = 1
    /\ (pc[1] <= 2 /\ Available) => state[1] = "DORMANT"

Held ==
    /\ ~Available => Using = {}
    /\ Available => /\ scb_table[1].max_value = 1
               /\ \/ scb_table[1].value = 1 /\ Using = {}
                  \/ scb_table[1].value = 0 /\ \E t \in Printers : Using = {t}

Printing(t) == \/ t = 1 /\ pc[1] = 1 /\ ~Available
               \/ t \in Using /\ pc[t] = 2

ConsoleTypeOK ==
    /\ next_char \in [TaskId -> {1, 2}]
    /\ returned \in [TaskId -> BOOLEAN]

Idle(t) == next_char[t] = 1 /\ ~returned[t]

NoLine == wire = <<>> \/ \E w : wire = << <<w, "text">>, <<w, "\r">>, <<w, "\n">> >>

MidLine(t) ==
    /\ next_char[t] = 2
    /\ write_prev_char = "text"
    /\ wire = IF returned[t] THEN << <<t, "text">>, <<t, "\r">> >>
              ELSE << <<t, "text">> >>

Lines ==
    \/ NoLine /\ \A t \in TaskId : Idle(t)
    \/ \E t \in TaskId : /\ Printing(t) /\ MidLine(t)
                         /\ \A u \in TaskId \ {t} : Idle(u)

LEMMA AppendToOne == \A x, y : Append(<<x>>, y) = <<x, y>>
<1> SUFFICES ASSUME NEW x, NEW y PROVE Append(<<x>>, y) = <<x, y>>
  OBVIOUS
<1> DEFINE a == Append(<<x>>, y)
           b == <<x, y>>
<1>1. a \in Seq({x, y}) /\ Len(a) = 2 /\ a[1] = x /\ a[2] = y
  OBVIOUS
<1>2. b \in Seq({x, y}) /\ Len(b) = 2 /\ b[1] = x /\ b[2] = y
  OBVIOUS
<1> HIDE DEF a, b
<1>3. Len(a) = Len(b) /\ \A i \in 1 .. Len(a) : a[i] = b[i]
  BY <1>1, <1>2
<1>4. a = b
  BY <1>1, <1>2, <1>3, SeqEqual
<1> QED BY <1>4 DEF a, b

LEMMA AppendToTwo == \A x, y, z : Append(<<x, y>>, z) = <<x, y, z>>
<1> SUFFICES ASSUME NEW x, NEW y, NEW z PROVE Append(<<x, y>>, z) = <<x, y, z>>
  OBVIOUS
<1> DEFINE a == Append(<<x, y>>, z)
           b == <<x, y, z>>
<1>1. a \in Seq({x, y, z}) /\ Len(a) = 3 /\ a[1] = x /\ a[2] = y /\ a[3] = z
  OBVIOUS
<1>2. b \in Seq({x, y, z}) /\ Len(b) = 3 /\ b[1] = x /\ b[2] = y /\ b[3] = z
  OBVIOUS
<1> HIDE DEF a, b
<1>3. Len(a) = Len(b) /\ \A i \in 1 .. Len(a) : a[i] = b[i]
  BY <1>1, <1>2
<1>4. a = b
  BY <1>1, <1>2, <1>3, SeqEqual
<1> QED BY <1>4 DEF a, b

LEMMA WireFacts ==
    ASSUME NEW t, NEW c, sk_uart0_putc(t, c)
    PROVE  /\ NoLine => wire' = << <<t, c>> >>
           /\ wire = << <<t, "text">> >> => wire' = << <<t, "text">>, <<t, c>> >>
           /\ wire = << <<t, "text">>, <<t, "\r">> >> =>
                 wire' = << <<t, "text">>, <<t, "\r">>, <<t, c>> >>
<1>1. ASSUME wire = <<>> PROVE wire' = << <<t, c>> >>
  <2>1. wire' = Append(<<>>, <<t, c>>)
    BY <1>1 DEF sk_uart0_putc
  <2>2. \A x : Append(<<>>, x) = <<x>>
    OBVIOUS
  <2> QED BY <2>1, <2>2
<1>2. ASSUME NEW w, wire = << <<w, "text">>, <<w, "\r">>, <<w, "\n">> >>
      PROVE  wire' = << <<t, c>> >>
  <2>1. wire # <<>> /\ Last(wire) = <<w, "\n">>
    BY <1>2 DEF Last
  <2> QED BY <2>1 DEF sk_uart0_putc
<1>3. ASSUME wire = << <<t, "text">> >>
      PROVE  wire' = << <<t, "text">>, <<t, c>> >>
  <2>1. Last(wire) = <<t, "text">>
    BY <1>3 DEF Last
  <2>2. wire' = Append(<< <<t, "text">> >>, <<t, c>>)
    BY <1>3, <2>1 DEF sk_uart0_putc
  <2> QED BY <2>2, AppendToOne
<1>4. ASSUME wire = << <<t, "text">>, <<t, "\r">> >>
      PROVE  wire' = << <<t, "text">>, <<t, "\r">>, <<t, c>> >>
  <2>1. Last(wire) = <<t, "\r">>
    BY <1>4 DEF Last
  <2>2. wire' = Append(<< <<t, "text">>, <<t, "\r">> >>, <<t, c>>)
    BY <1>4, <2>1 DEF sk_uart0_putc
  <2> QED BY <2>2, AppendToTwo
<1> QED BY <1>1, <1>2, <1>3, <1>4 DEF NoLine

(* One character of the task that prints, when no other is in a line. *)
LEMMA PrintStep ==
    ASSUME ConsoleTypeOK, NEW t \in TaskId, printf(t),
           \A u \in TaskId \ {t} : Idle(u),
           (Idle(t) /\ NoLine) \/ MidLine(t)
    PROVE  /\ ConsoleTypeOK'
           /\ \A u \in TaskId \ {t} : Idle(u)'
           /\ \/ MidLine(t)' /\ UNCHANGED pc
              \/ NoLine' /\ Idle(t)' /\ GoOn(t)
<1>1. Line[1] = "text" /\ Line[2] = "\n" /\ Len(Line) = 2
  BY DEF Line
<1>2. CASE Return(t)
  <2>1. /\ next_char[t] = 2 /\ ~returned[t] /\ sk_uart0_putc(t, "\r")
        /\ returned' = [returned EXCEPT ![t] = TRUE]
        /\ UNCHANGED <<write_prev_char, next_char>>
    BY <1>1, <1>2 DEF Return, ConsoleTypeOK
  <2>2. MidLine(t) /\ wire = << <<t, "text">> >>
    BY <2>1 DEF Idle, MidLine
  <2>3. wire' = << <<t, "text">>, <<t, "\r">> >>
    BY <2>1, <2>2, WireFacts
  <2>4. returned'[t] /\ \A u \in TaskId \ {t} : returned'[u] = returned[u]
    BY <2>1 DEF ConsoleTypeOK
  <2>5. ConsoleTypeOK'
    BY <2>1 DEF ConsoleTypeOK
  <2>6. ~Character(t)
    BY <1>1, <2>1, <2>2 DEF Character, MidLine
  <2> QED BY <2>1, <2>2, <2>3, <2>4, <2>5, <2>6 DEF MidLine, Idle, printf
<1>3. CASE Character(t)
  <2>1. /\ Line[next_char[t]] = "\n" => returned[t] \/ write_prev_char = "\r"
        /\ sk_uart0_putc(t, Line[next_char[t]])
        /\ write_prev_char' = Line[next_char[t]]
        /\ next_char' = [next_char EXCEPT ![t] = (@ % Len(Line)) + 1]
        /\ returned' = [returned EXCEPT ![t] = FALSE]
    BY <1>3 DEF Character
  <2>2. /\ ~returned'[t] /\ next_char'[t] = (next_char[t] % 2) + 1
        /\ \A u \in TaskId \ {t} : /\ returned'[u] = returned[u]
                                   /\ next_char'[u] = next_char[u]
    BY <1>1, <2>1 DEF ConsoleTypeOK
  <2>3. next_char[t] \in {1, 2}
    BY DEF ConsoleTypeOK
  <2>4. ConsoleTypeOK'
    <3>1. (next_char[t] % 2) + 1 \in {1, 2}
      BY <2>3
    <3> QED BY <1>1, <2>1, <3>1 DEF ConsoleTypeOK
  <2>5. \A u \in TaskId \ {t} : Idle(u)'
    BY <2>2 DEF Idle
  <2>6. CASE Idle(t) /\ NoLine
    <3>1. next_char[t] = 1 /\ next_char'[t] = 2 /\ write_prev_char' = "text"
      BY <1>1, <2>1, <2>2, <2>6 DEF Idle
    <3>2. wire' = << <<t, "text">> >>
      BY <1>1, <2>1, <2>6, <3>1, WireFacts
    <3>3. ~AtEnd(t) /\ ~Return(t)
      BY <1>1, <3>1 DEF AtEnd, Return
    <3>4. UNCHANGED pc
      BY <3>3 DEF printf
    <3> QED BY <2>2, <2>4, <2>5, <3>1, <3>2, <3>4 DEF MidLine
  <2>7. CASE MidLine(t)
    <3>1. /\ next_char[t] = 2 /\ next_char'[t] = 1 /\ returned[t]
          /\ wire = << <<t, "text">>, <<t, "\r">> >>
      BY <1>1, <2>1, <2>2, <2>7 DEF MidLine
    <3>2. wire' = << <<t, "text">>, <<t, "\r">>, <<t, "\n">> >>
      BY <1>1, <2>1, <3>1, WireFacts
    <3>3. AtEnd(t) /\ ~Return(t)
      BY <1>1, <3>1 DEF AtEnd, Return
    <3>4. GoOn(t)
      BY <3>3 DEF printf
    <3> QED BY <2>2, <2>4, <2>5, <3>1, <3>2, <3>4 DEF NoLine, Idle
  <2> QED BY <2>6, <2>7
<1> QED BY <1>2, <1>3 DEF printf

PrintInv == PrinterWaits /\ Beginnings /\ Held /\ ConsoleTypeOK /\ Lines

LineInv == Client /\ Inv /\ (example = "preemptive" => PrintInv)

LEMMA PreemptiveFacts ==
    ASSUME Client, example = "preemptive"
    PROVE  /\ 1 \in TaskId /\ Printers \subseteq TaskId /\ Printers = {2, 3}
           /\ Len(Tasks[example]) = 3
           /\ \A t \in Printers : Program(t) = task_1
           /\ Len(task_1) = 3
           /\ task_1[1] = "wait" /\ task_1[2] = "print" /\ task_1[3] = "signal"
           /\ SemaphoreId = {1} /\ sid = 1
<1>1. Len(task_1) = 3 /\ task_1[1] = "wait" /\ task_1[2] = "print" /\ task_1[3] = "signal"
  BY DEF task_1
<1> HIDE DEF task_1
<1>2. /\ Len(Tasks["preemptive"]) = 3
      /\ Tasks["preemptive"][2] = task_1 /\ Tasks["preemptive"][3] = task_1
  BY DEF Tasks
<1>3. Printers = {2, 3}
  BY DEF Printers, t1, t2
<1>4. 1 \in TaskId /\ Printers \subseteq TaskId /\ SemaphoreId = {1}
  <2>1. 1 .. 3 \subseteq TaskId /\ SemaphoreId = {1}
    BY <1>2, ExampleFacts DEF Client
  <2> QED BY <1>3, <2>1
<1> QED BY <1>1, <1>2, <1>3, <1>4 DEF Program, sid

LEMMA OnePrints ==
    ASSUME Held, NEW t, NEW u, Printing(t), Printing(u)
    PROVE  t = u
BY DEF Held, Printing

(* Steps that print nothing. *)
LEMMA SilentStep ==
    ASSUME ConsoleTypeOK, Lines, UNCHANGED consoleVars,
           \A t \in TaskId : Printing(t) => Printing(t)'
    PROVE  ConsoleTypeOK' /\ Lines'
<1>1. UNCHANGED <<wire, write_prev_char, next_char, returned>>
  BY DEF consoleVars
<1>2. NoLine' = NoLine /\ \A t : Idle(t)' = Idle(t) /\ MidLine(t)' = MidLine(t)
  BY <1>1 DEF NoLine, Idle, MidLine
<1> QED BY <1>1, <1>2 DEF ConsoleTypeOK, Lines

(* The kernel by itself starts the main task and changes no other state:   *)
(* no tick ends a wait for the semaphore.                                  *)
LEMMA KernelStates ==
    ASSUME LineInv, example = "preemptive", Kernel
    PROVE  \A t \in TaskId :
              /\ \/ state'[t] = state[t]
                 \/ t = 1 /\ state[t] = "NONEXIST" /\ state'[t] = "READY"
              /\ wait_factor'[t] = wait_factor[t]
              /\ wait_time[t] = Forever => wait_time'[t] = Forever
<1>1. CASE main
  BY <1>1 DEF main, LineInv, Inv, Typed, TypeOK
<1>2. CASE dispatch_entry \/ dispatch_loop_exit
  BY <1>2 DEF dispatch_entry, dispatch_loop_exit, tcbVars
<1>3. CASE systimer_handler
  <2>1. TimedOut = {}
    <3>1. \A t \in TimedOut : t \in TaskId /\ state[t] = "WAIT"
      BY DEF TimedOut, LineInv, Inv, Typed, TypeOK, QueuesMatchStates,
             WaitQueueHoldsWaitingTasks, ToSet
    <3>2. \A t \in TimedOut : Expired(t)
      BY <1>3, TickWaits DEF LineInv, Inv
    <3> QED BY <3>1, <3>2 DEF Expired, LineInv, PrintInv, PrinterWaits
  <2> QED BY <1>3, <2>1 DEF systimer_handler
<1> QED BY <1>1, <1>2, <1>3 DEF Kernel

LEMMA KernelPrints ==
    ASSUME LineInv, example = "preemptive", Kernel
    PROVE  PrintInv'
<1>1. UNCHANGED <<pc, scb_table, wait_semaphore>> /\ UNCHANGED consoleVars
  BY DEF Kernel, eventVars, eventTcbVars, programVars
<1>2. \A t \in TaskId :
         /\ \/ state'[t] = state[t]
            \/ t = 1 /\ state[t] = "NONEXIST" /\ state'[t] = "READY"
         /\ wait_factor'[t] = wait_factor[t]
         /\ wait_time[t] = Forever => wait_time'[t] = Forever
  BY KernelStates
<1>3. 1 \notin Printers /\ 1 \in TaskId /\ Printers \subseteq TaskId
  BY PreemptiveFacts DEF LineInv
<1>4. PrinterWaits'
  BY <1>1, <1>2 DEF LineInv, PrintInv, PrinterWaits, Forever
<1>5. Beginnings'
  BY <1>1, <1>2, <1>3 DEF LineInv, PrintInv, Beginnings, Available
<1>6. Using' = Using
  BY <1>1, <1>2, <1>3 DEF Using
<1>7. Held'
  BY <1>1, <1>6 DEF LineInv, PrintInv, Held, Available
<1>8. \A t \in TaskId : Printing(t) => Printing(t)'
  BY <1>1, <1>6 DEF Printing, Available
<1> QED BY <1>1, <1>4, <1>5, <1>7, <1>8, SilentStep DEF LineInv, PrintInv

(* The calls of the main task. *)
LEMMA MainCalled ==
    ASSUME LineInv, example = "preemptive", Step(1)
    PROVE  \/ pc[1] = 1 /\ printf(1)
           \/ /\ pc[1] = 2 /\ sk_create_semaphore(OneUnit)
              /\ pc' = [pc EXCEPT ![1] = 3]
              /\ UNCHANGED consoleVars
           \/ /\ pc[1] > 2 /\ UNCHANGED eventVars /\ UNCHANGED consoleVars
              /\ \/ /\ \/ sk_create_task
                       \/ \E t \in Printers : sk_start_task(t)
                    /\ pc' = [pc EXCEPT ![1] = pc[1] + 1]
                 \/ sk_exit_task /\ pc' = [pc EXCEPT ![1] = 1]
<1>1. /\ pc[1] \in 1 .. Len(Program(1))
      /\ \/ pc[1] = 1 /\ NextCall(1) = "print"
         \/ pc[1] = 2 /\ NextCall(1) = "create_semaphore"
         \/ pc[1] > 2 /\ MainCall(example, Program(1), pc[1])
  BY PreemptiveFacts, StepCall DEF LineInv
<1>2. Len(Program(1)) \in 3 .. 10
  BY ExampleFacts DEF LineInv, Client, MainProgram
<1>3. CASE pc[1] = 1 /\ NextCall(1) = "print"
  BY <1>3 DEF Step, EventCall, TaskCall, ShellCall
<1>4. CASE pc[1] = 2 /\ NextCall(1) = "create_semaphore"
  <2>1. sk_create_semaphore(OneUnit) /\ GoOn(1) /\ UNCHANGED consoleVars
    BY <1>4 DEF Step, printf, EventCall, TaskCall, ShellCall
  <2>2. pc' = [pc EXCEPT ![1] = 3]
    <3>1. /\ Len(Program(1)) \in Nat /\ pc[1] \in 1 .. Len(Program(1))
          /\ pc[1] < Len(Program(1))
      <4> DEFINE size == Len(Program(1))
      <4>1. size \in 3 .. 10
        BY <1>2
      <4> HIDE DEF size
      <4>2. size \in Nat /\ pc[1] \in 1 .. size /\ pc[1] < size
        BY <1>4, <4>1
      <4> QED BY <4>2 DEF size
    <3>2. pc' = [pc EXCEPT ![1] = pc[1] + 1]
      BY <2>1, <3>1, GoesTo
    <3> QED BY <1>4, <3>2
  <2> QED BY <1>4, <2>1, <2>2
<1>5. CASE pc[1] > 2 /\ MainCall(example, Program(1), pc[1])
  <2>1. /\ NextCall(1) \in {"create_task", "start_t1", "start_t2", "exit"}
        /\ NextCall(1) = "exit" <=> pc[1] = Len(Program(1))
    <3>1. Len(Tasks[example]) = 3
      BY PreemptiveFacts DEF LineInv
    <3> QED BY <1>5, <3>1 DEF MainCall, MainCalls, NextCall
  <2>2. /\ TaskCall(NextCall(1)) /\ GoOn(1)
        /\ UNCHANGED eventVars /\ UNCHANGED consoleVars
    BY <2>1 DEF Step, printf, EventCall, ShellCall
  <2>3. \/ sk_create_task \/ \E t \in Printers : sk_start_task(t)
        \/ sk_exit_task /\ NextCall(1) = "exit"
    BY <2>1, <2>2 DEF TaskCall, Printers
  <2>4. pc' = [pc EXCEPT ![1] = IF NextCall(1) = "exit" THEN 1 ELSE pc[1] + 1]
    <3>1. Len(Program(1)) \in Nat /\ pc[1] \in 1 .. Len(Program(1))
      BY <1>1, <1>2
    <3>2. /\ pc[1] < Len(Program(1)) => pc' = [pc EXCEPT ![1] = pc[1] + 1]
          /\ pc[1] = Len(Program(1)) => pc' = [pc EXCEPT ![1] = 1]
      BY <2>2, <3>1, GoesTo
    <3>3. pc[1] < Len(Program(1)) \/ pc[1] = Len(Program(1))
      BY <3>1
    <3> QED BY <2>1, <3>1, <3>2, <3>3
  <2>5. NextCall(1) = "exit" => sk_exit_task
    BY <2>2 DEF TaskCall
  <2> QED BY <1>5, <2>2, <2>3, <2>4, <2>5
<1> QED BY <1>1, <1>3, <1>4, <1>5

LEMMA PrinterCalled ==
    ASSUME LineInv, example = "preemptive", NEW t \in Printers, Step(t)
    PROVE  \/ pc[t] = 2 /\ printf(t)
           \/ /\ pc[t] = 1 /\ sk_wait_semaphore(1, 1, TMO_FEVR)
              /\ pc' = [pc EXCEPT ![t] = 2]
              /\ UNCHANGED consoleVars
           \/ /\ pc[t] = 3 /\ sk_signal_semaphore(1, 1)
              /\ pc' = [pc EXCEPT ![t] = 1]
              /\ UNCHANGED consoleVars
<1>1. /\ t \in TaskId /\ Program(t) = task_1 /\ Len(task_1) = 3 /\ sid = 1
      /\ task_1[1] = "wait" /\ task_1[2] = "print" /\ task_1[3] = "signal"
  BY PreemptiveFacts DEF LineInv
<1>2. pc[t] \in {1, 2, 3} /\ Len(Program(t)) = 3
  <2>1. pc[t] \in 1 .. Len(Program(t)) /\ Len(Program(t)) = 3
    BY <1>1, StepCall DEF LineInv
  <2>2. pc[t] \in 1 .. 3
    BY <2>1
  <2> QED BY <2>1, <2>2
<1>3. CASE pc[t] = 2
  <2>1. NextCall(t) = "print"
    BY <1>1, <1>3 DEF NextCall
  <2> QED BY <1>3, <2>1 DEF Step, EventCall, TaskCall, ShellCall
<1>4. CASE pc[t] = 1
  <2>1. NextCall(t) = "wait"
    BY <1>1, <1>4 DEF NextCall
  <2>2. sk_wait_semaphore(1, 1, TMO_FEVR) /\ GoOn(t) /\ UNCHANGED consoleVars
    BY <1>1, <2>1 DEF Step, printf, EventCall, TaskCall, ShellCall
  <2>3. Len(Program(t)) \in Nat /\ pc[t] \in 1 .. Len(Program(t))
    BY <1>2
  <2>4. pc' = [pc EXCEPT ![t] = pc[t] + 1]
    <3>1. pc[t] < Len(Program(t)) /\ example # "shell"
      BY <1>2, <1>4
    <3> QED BY <2>2, <2>3, <3>1, GoesTo
  <2> QED BY <1>4, <2>2, <2>4
<1>5. CASE pc[t] = 3
  <2>1. NextCall(t) = "signal"
    BY <1>1, <1>5 DEF NextCall
  <2>2. sk_signal_semaphore(1, 1) /\ GoOn(t) /\ UNCHANGED consoleVars
    BY <1>1, <2>1 DEF Step, printf, EventCall, TaskCall, ShellCall
  <2>3. Len(Program(t)) \in Nat /\ pc[t] \in 1 .. Len(Program(t))
    BY <1>2
  <2>4. pc' = [pc EXCEPT ![t] = 1]
    BY <1>2, <1>5, <2>2, <2>3, GoesTo
  <2> QED BY <1>5, <2>2, <2>4
<1> QED BY <1>2, <1>3, <1>4, <1>5

LEMMA LinePrinted ==
    ASSUME LineInv, example = "preemptive", NEW t \in TaskId, Printing(t), printf(t)
    PROVE  /\ ConsoleTypeOK'
           /\ \A u \in TaskId \ {t} : Idle(u)'
           /\ \/ MidLine(t)' /\ UNCHANGED pc
              \/ NoLine' /\ Idle(t)' /\ GoOn(t)
           /\ UNCHANGED <<state, wait_factor, wait_time, wait_semaphore, scb_table>>
<1>1. /\ \A u \in TaskId \ {t} : Idle(u)
      /\ (Idle(t) /\ NoLine) \/ MidLine(t)
  BY OnePrints DEF LineInv, PrintInv, Lines
<1>2. UNCHANGED <<state, wait_factor, wait_time, wait_semaphore, scb_table>>
  BY DEF printf, allVars, vars, tcbVars, eventVars, eventTcbVars
<1> QED BY <1>1, <1>2, PrintStep DEF LineInv, PrintInv

LEMMA MainPrints ==
    ASSUME LineInv, example = "preemptive", Step(1)
    PROVE  PrintInv'
<1>1. /\ 1 \in TaskId /\ 1 \notin Printers /\ Printers \subseteq TaskId
      /\ Printers = {2, 3}
      /\ pc \in [TaskId -> Nat] /\ curr_task = 1 /\ 1 \in MadeTasks
      /\ state \in [TaskId -> {"NONEXIST", "DORMANT", "READY", "WAIT"}]
      /\ SemaphoreId = {1}
      /\ scb_table \in [SemaphoreId -> [state : {"NONEXIST", "EXIST"},
                                        value : Int, max_value : Int]]
  BY SemaphoresTyped, PreemptiveFacts, StepCall
     DEF LineInv, Client, Programmed, Inv, Typed, TypeOK, EventTyped, EventTypeOK
<1>2. PrinterWaits /\ Beginnings /\ Held /\ ConsoleTypeOK /\ Lines
  BY DEF LineInv, PrintInv
<1>3. CASE pc[1] = 1 /\ printf(1)
  <2>1. state[1] = "READY" /\ ~Available
    <3>1. state[1] = "READY"
      BY <1>1, <1>3, RunningIsTop DEF printf, LineInv
    <3> QED BY <1>2, <1>3, <3>1 DEF Beginnings
  <2>2. Printing(1)
    BY <1>3, <2>1 DEF Printing
  <2>3. /\ ConsoleTypeOK'
        /\ \A u \in TaskId \ {1} : Idle(u)'
        /\ \/ MidLine(1)' /\ UNCHANGED pc
           \/ NoLine' /\ Idle(1)' /\ GoOn(1)
        /\ UNCHANGED <<state, wait_factor, wait_time, wait_semaphore, scb_table>>
    BY <1>1, <1>3, <2>2, LinePrinted
  <2>4. /\ \A u \in TaskId \ {1} : pc'[u] = pc[u]
        /\ pc' = pc \/ (NoLine' /\ Idle(1)')
    <3>1. GoOn(1) => \A u \in TaskId \ {1} : pc'[u] = pc[u]
      BY <1>1 DEF GoOn
    <3>2. \/ MidLine(1)' /\ UNCHANGED pc
          \/ NoLine' /\ Idle(1)' /\ GoOn(1)
      BY <2>3
    <3>3. CASE UNCHANGED pc
      BY <1>1, <3>3
    <3> QED BY <3>1, <3>2, <3>3
  <2>5. Using' = Using /\ Available' = Available
    BY <1>1, <2>3, <2>4 DEF Using, Available
  <2>6. PrinterWaits' /\ Beginnings' /\ Held'
    <3>1. PrinterWaits'
      BY <1>1, <1>2, <2>3, <2>4 DEF PrinterWaits, Forever
    <3>2. Beginnings'
      BY <1>1, <1>2, <2>1, <2>3, <2>4, <2>5 DEF Beginnings
    <3>3. Held'
      BY <1>2, <2>3, <2>5 DEF Held
    <3> QED BY <3>1, <3>2, <3>3
  <2>7. Lines'
    <3>1. CASE pc' = pc /\ MidLine(1)'
      <4>1. Printing(1)'
        BY <2>2, <2>5, <3>1 DEF Printing
      <4> QED BY <1>1, <2>3, <3>1, <4>1 DEF Lines
    <3>2. CASE NoLine' /\ Idle(1)'
      BY <2>3, <3>2 DEF Lines
    <3> QED BY <2>3, <3>1, <3>2
  <2> QED BY <2>3, <2>6, <2>7 DEF PrintInv
<1>4. ASSUME pc[1] = 2, sk_create_semaphore(OneUnit),
             pc' = [pc EXCEPT ![1] = 3], UNCHANGED consoleVars
      PROVE  PrintInv'
  <2>1. ~Available
    BY <1>1, <1>4 DEF sk_create_semaphore, IsFree, Available
  <2>2. scb_table' = [scb_table EXCEPT ![1] = [state |-> "EXIST", value |-> 1,
                                               max_value |-> 1]]
    BY <1>1, <1>4 DEF sk_create_semaphore, OneUnit
  <2>3. /\ scb_table'[1].state = "EXIST" /\ scb_table'[1].value = 1
        /\ scb_table'[1].max_value = 1
    BY <1>1, <2>2
  <2>4. UNCHANGED <<state, wait_factor, wait_time, wait_semaphore>>
    BY <1>4 DEF sk_create_semaphore, vars, tcbVars, eventTcbVars
  <2>5. pc'[1] = 3 /\ \A u \in TaskId \ {1} : pc'[u] = pc[u]
    BY <1>1, <1>4
  <2>6. Using' = Using /\ Using = {}
    BY <1>1, <1>2, <2>1, <2>4, <2>5 DEF Using, Held
  <2>7. PrinterWaits'
    BY <1>1, <1>2, <2>4, <2>5 DEF PrinterWaits, Forever
  <2>8. Beginnings' /\ Held'
    BY <1>1, <1>2, <2>3, <2>4, <2>5, <2>6 DEF Beginnings, Held, Available
  <2>9. \A t \in TaskId : ~Printing(t)
    BY <1>4, <2>6 DEF Printing
  <2> QED BY <1>2, <1>4, <2>7, <2>8, <2>9, SilentStep DEF PrintInv
<1>5. ASSUME pc[1] > 2, UNCHANGED eventVars, UNCHANGED consoleVars,
             NEW k \in Nat, pc' = [pc EXCEPT ![1] = k], k = 1 \/ k > 2,
             k = 1 => state'[1] = "DORMANT",
             state'[1] # "WAIT",
             \A t \in Printers : \/ state'[t] = state[t]
                                 \/ /\ state[t] \in {"NONEXIST", "DORMANT"}
                                    /\ state'[t] \in {"DORMANT", "READY"},
             \A t \in TaskId : state'[t] = "WAIT" => state[t] = "WAIT",
             UNCHANGED <<wait_factor, wait_time>>
      PROVE  PrintInv'
  <2>1. UNCHANGED <<scb_table, wait_semaphore>>
    BY <1>5 DEF eventVars, eventTcbVars
  <2>2. pc'[1] = k /\ \A u \in TaskId \ {1} : pc'[u] = pc[u]
    BY <1>1, <1>5
  <2>3. \A t \in Printers : state'[t] # state[t] => pc[t] = 1
    BY <1>2, <1>5 DEF Beginnings
  <2>4. Using' = Using
    <3>1. \A t \in Printers : pc'[t] = pc[t]
      BY <1>1, <2>2
    <3> QED BY <2>3, <3>1 DEF Using
  <2>5. Available' = Available
    BY <2>1 DEF Available
  <2>6. PrinterWaits'
    <3> SUFFICES ASSUME NEW t \in TaskId, state'[t] = "WAIT" \/ wait_factor'[t] = "SEM"
                 PROVE  /\ t \in Printers /\ pc'[t] = 2
                        /\ state'[t] = "WAIT" /\ wait_factor'[t] = "SEM"
                        /\ wait_semaphore'[t] = 1 /\ wait_time'[t] = Forever
      BY DEF PrinterWaits, Forever
    <3>1. state[t] = "WAIT" \/ wait_factor[t] = "SEM"
      BY <1>5
    <3>2. /\ t \in Printers /\ pc[t] = 2
          /\ state[t] = "WAIT" /\ wait_factor[t] = "SEM"
          /\ wait_semaphore[t] = 1 /\ wait_time[t] = Forever
      BY <1>2, <3>1 DEF PrinterWaits
    <3>3. state'[t] = state[t] /\ t # 1
      BY <1>1, <2>3, <3>2
    <3> QED BY <1>5, <2>1, <2>2, <3>2, <3>3
  <2>7. Beginnings'
    <3>1. \A t \in Printers : state'[t] \in {"NONEXIST", "DORMANT"} => pc'[t] = 1
      BY <1>1, <1>2, <1>5, <2>2, <2>3 DEF Beginnings
    <3> QED BY <1>5, <2>2, <3>1 DEF Beginnings
  <2>8. Held'
    BY <1>2, <2>1, <2>4, <2>5 DEF Held
  <2>9. \A t \in TaskId : Printing(t) => Printing(t)'
    <3>1. \A t \in Using : t # 1 /\ t \in TaskId
      BY <1>1 DEF Using
    <3> QED BY <1>5, <2>2, <2>4, <3>1 DEF Printing
  <2> QED BY <1>2, <1>5, <2>6, <2>7, <2>8, <2>9, SilentStep DEF PrintInv
<1>6. CASE /\ pc[1] > 2 /\ UNCHANGED eventVars /\ UNCHANGED consoleVars
           /\ pc' = [pc EXCEPT ![1] = pc[1] + 1]
           /\ sk_create_task \/ \E t \in Printers : sk_start_task(t)
  <2>1. /\ state[1] = "READY"
        /\ pc[1] + 1 > 2 /\ pc[1] + 1 \in Nat /\ pc[1] + 1 # 1
    BY <1>1, <1>6, RunningIsTop DEF sk_create_task, sk_start_task, LineInv
  <2>2. CASE sk_create_task
    <3>1. PICK u \in TaskId : state[u] = "NONEXIST"
                              /\ state' = [state EXCEPT ![u] = "DORMANT"]
      BY <2>2 DEF sk_create_task
    <3>2. \A t \in TaskId : state'[t] = IF t = u THEN "DORMANT" ELSE state[t]
      BY <1>1, <3>1
    <3>3. UNCHANGED <<wait_factor, wait_time>>
      BY <2>2 DEF sk_create_task
    <3>4. /\ state'[1] # "WAIT"
          /\ \A t \in Printers : \/ state'[t] = state[t]
                                 \/ /\ state[t] \in {"NONEXIST", "DORMANT"}
                                    /\ state'[t] \in {"DORMANT", "READY"}
          /\ \A t \in TaskId : state'[t] = "WAIT" => state[t] = "WAIT"
      BY <1>1, <2>1, <3>1, <3>2
    <3> QED BY <1>5, <1>6, <2>1, <3>3, <3>4
  <2>3. ASSUME NEW u \in Printers, sk_start_task(u) PROVE PrintInv'
    <3>1. /\ state[u] = "DORMANT" /\ state' = [state EXCEPT ![u] = "READY"]
          /\ UNCHANGED <<wait_factor, wait_time>>
      BY <2>3 DEF sk_start_task
    <3>2. \A t \in TaskId : state'[t] = IF t = u THEN "READY" ELSE state[t]
      BY <1>1, <3>1
    <3>3. /\ state'[1] # "WAIT"
          /\ \A t \in Printers : \/ state'[t] = state[t]
                                 \/ /\ state[t] \in {"NONEXIST", "DORMANT"}
                                    /\ state'[t] \in {"DORMANT", "READY"}
          /\ \A t \in TaskId : state'[t] = "WAIT" => state[t] = "WAIT"
      BY <1>1, <2>1, <3>1, <3>2
    <3> QED BY <1>5, <1>6, <2>1, <3>1, <3>3
  <2> QED BY <1>6, <2>2, <2>3
<1>7. CASE /\ pc[1] > 2 /\ UNCHANGED eventVars /\ UNCHANGED consoleVars
           /\ pc' = [pc EXCEPT ![1] = 1]
           /\ sk_exit_task
  <2>1. /\ state' = [state EXCEPT ![1] = "DORMANT"]
        /\ UNCHANGED <<wait_factor, wait_time>>
    BY <1>1, <1>7 DEF sk_exit_task
  <2>2. \A t \in TaskId : state'[t] = IF t = 1 THEN "DORMANT" ELSE state[t]
    BY <1>1, <2>1
  <2> QED BY <1>1, <1>5, <1>7, <2>1, <2>2
<1> QED BY <1>3, <1>4, <1>6, <1>7, MainCalled

LEMMA PrinterPrints ==
    ASSUME LineInv, example = "preemptive", NEW t \in Printers, Step(t)
    PROVE  PrintInv'
<1>1. /\ 1 \in TaskId /\ 1 \notin Printers /\ Printers \subseteq TaskId
      /\ t \in TaskId /\ t # 1
      /\ pc \in [TaskId -> Nat] /\ curr_task = t /\ TypeOK
      /\ state \in [TaskId -> {"NONEXIST", "DORMANT", "READY", "WAIT"}]
      /\ wait_factor \in [TaskId -> {"NON", "DLY", "SLP", "FLG", "SEM"}]
      /\ wait_time \in [TaskId -> 0 .. Forever]
      /\ wait_semaphore \in [TaskId -> Int]
      /\ 1 \in SemaphoreId
      /\ scb_table \in [SemaphoreId -> [state : {"NONEXIST", "EXIST"},
                                        value : Int, max_value : Int]]
  <2>1. /\ 1 \in TaskId /\ 1 \notin Printers /\ Printers \subseteq TaskId
        /\ t \in TaskId /\ t # 1 /\ 1 \in SemaphoreId
    BY PreemptiveFacts DEF LineInv
  <2>2. curr_task = t
    BY DEF Step
  <2>3. TypeOK /\ EventTypeOK
    BY DEF LineInv, Client, EventTyped, Typed
  <2>4. pc \in [TaskId -> Nat]
    BY DEF LineInv, Client, Programmed
  <2> QED BY <2>1, <2>2, <2>3, <2>4, SemaphoresTyped DEF TypeOK, EventTypeOK
<1>2. PrinterWaits /\ Beginnings /\ Held /\ ConsoleTypeOK /\ Lines
  BY DEF LineInv, PrintInv
<1>3. Running => state[t] = "READY"
  BY <1>1, RunningIsTop DEF LineInv
<1>4. CASE pc[t] = 2 /\ printf(t)
  <2>1. t \in Using /\ Printing(t)
    BY <1>3, <1>4 DEF printf, Using, Printing
  <2>2. /\ ConsoleTypeOK'
        /\ \A u \in TaskId \ {t} : Idle(u)'
        /\ \/ MidLine(t)' /\ UNCHANGED pc
           \/ NoLine' /\ Idle(t)' /\ GoOn(t)
        /\ UNCHANGED <<state, wait_factor, wait_time, wait_semaphore, scb_table>>
    BY <1>1, <1>4, <2>1, LinePrinted
  <2>3. \/ pc'[t] = 2 /\ pc' = pc
        \/ pc'[t] = 3 /\ NoLine' /\ Idle(t)'
    <3>1. Program(t) = task_1 /\ Len(task_1) = 3
      BY PreemptiveFacts DEF LineInv
    <3>2. Len(Program(t)) \in Nat /\ pc[t] \in 1 .. Len(Program(t))
      BY <1>4, <3>1
    <3>3. ASSUME GoOn(t) PROVE pc'[t] = 3
      <4>1. pc' = [pc EXCEPT ![t] = pc[t] + 1]
        <5>1. pc[t] < Len(Program(t)) /\ example # "shell"
          BY <1>4, <3>1
        <5> QED BY <3>2, <3>3, <5>1, GoesTo
      <4> QED BY <1>1, <1>4, <4>1
    <3>4. \/ MidLine(t)' /\ UNCHANGED pc
          \/ NoLine' /\ Idle(t)' /\ GoOn(t)
      BY <2>2
    <3>5. UNCHANGED pc => pc'[t] = 2 /\ pc' = pc
      BY <1>4
    <3> QED BY <3>3, <3>4, <3>5
  <2>4. \A u \in TaskId \ {t} : pc'[u] = pc[u]
    BY <1>1, <2>2 DEF GoOn
  <2>5. Using' = Using /\ Available' = Available
    BY <1>1, <1>4, <2>2, <2>3, <2>4 DEF Using, Available
  <2>6. state[t] = "READY"
    BY <1>3, <1>4 DEF printf
  <2>7. PrinterWaits'
    BY <1>1, <1>2, <2>2, <2>4, <2>6 DEF PrinterWaits, Forever
  <2>8. Beginnings'
    BY <1>1, <1>2, <2>2, <2>4, <2>5, <2>6 DEF Beginnings
  <2>9. Held'
    BY <1>2, <2>2, <2>5 DEF Held
  <2>10. Lines'
    <3>1. CASE pc' = pc /\ pc'[t] = 2 /\ MidLine(t)'
      <4>1. Printing(t)'
        BY <2>1, <2>5, <3>1 DEF Printing
      <4> QED BY <1>1, <2>2, <3>1, <4>1 DEF Lines
    <3>2. CASE NoLine' /\ Idle(t)'
      BY <2>2, <3>2 DEF Lines
    <3> QED BY <2>2, <2>3, <3>1, <3>2
  <2> QED BY <2>2, <2>7, <2>8, <2>9, <2>10 DEF PrintInv
<1>5. ASSUME pc[t] = 1, sk_wait_semaphore(1, 1, TMO_FEVR),
             pc' = [pc EXCEPT ![t] = 2], UNCHANGED consoleVars
      PROVE  PrintInv'
  <2>1. pc'[t] = 2 /\ \A u \in TaskId \ {t} : pc'[u] = pc[u]
    BY <1>1, <1>5
  <2>2. /\ Available /\ state[t] = "READY" /\ Running
        /\ scb_table[1].max_value = 1
        /\ \/ scb_table[1].value = 1 /\ Using = {}
           \/ scb_table[1].value = 0 /\ \E u \in Printers : Using = {u}
    BY <1>2, <1>3, <1>5 DEF sk_wait_semaphore, Available, Held
  <2>3. CASE HasUnits(1, 1) /\ UNCHANGED <<vars, wait_semaphore>>
             /\ scb_table' = [scb_table EXCEPT ![1].value = @ - 1]
    <3>1. scb_table[1].value = 1 /\ Using = {}
      BY <2>2, <2>3 DEF HasUnits
    <3>2. /\ scb_table'[1].value = 0 /\ scb_table'[1].max_value = 1
          /\ scb_table'[1].state = "EXIST"
      BY <1>1, <2>2, <2>3, <3>1 DEF Available
    <3>3. UNCHANGED <<state, wait_factor, wait_time, wait_semaphore>>
      BY <2>3 DEF vars, tcbVars
    <3>4. Using' = {t}
      BY <1>1, <2>1, <2>2, <3>1, <3>3 DEF Using
    <3>5. PrinterWaits'
      BY <1>1, <1>2, <2>1, <2>2, <3>3 DEF PrinterWaits, Forever
    <3>6. Beginnings' /\ Held'
      BY <1>1, <1>2, <2>1, <2>2, <3>2, <3>3, <3>4 DEF Beginnings, Held, Available
    <3>7. \A u \in TaskId : ~Printing(u)
      BY <2>2, <3>1 DEF Printing
    <3> QED BY <1>2, <1>5, <3>5, <3>6, <3>7, SilentStep DEF PrintInv
  <2>4. CASE /\ ~HasUnits(1, 1) /\ UNCHANGED scb_table
             /\ wait_semaphore' = [wait_semaphore EXCEPT ![t] = 1]
             /\ Block("SEM", WaitTime(TMO_FEVR), TMO_FEVR)
    <3>1. WaitTime(TMO_FEVR) = Forever
      BY ReltimeType DEF WaitTime, TMO_FEVR
    <3>2. /\ state' = [state EXCEPT ![t] = "WAIT"]
          /\ wait_factor' = [wait_factor EXCEPT ![t] = "SEM"]
          /\ wait_time' = [wait_time EXCEPT ![t] = Forever]
      BY <1>1, <2>4, <3>1 DEF Block
    <3>3. /\ state'[t] = "WAIT" /\ wait_factor'[t] = "SEM"
          /\ wait_time'[t] = Forever /\ wait_semaphore'[t] = 1
          /\ \A u \in TaskId \ {t} :
                /\ state'[u] = state[u] /\ wait_factor'[u] = wait_factor[u]
                /\ wait_time'[u] = wait_time[u] /\ wait_semaphore'[u] = wait_semaphore[u]
      BY <1>1, <2>4, <3>2
    <3>4. Using' = Using
      BY <1>1, <1>5, <2>1, <3>3 DEF Using
    <3>5. PrinterWaits'
      BY <1>1, <1>2, <2>1, <3>3 DEF PrinterWaits, Forever
    <3>6. Beginnings' /\ Held'
      BY <1>1, <1>2, <2>1, <2>4, <3>3, <3>4 DEF Beginnings, Held, Available
    <3>7. \A u \in TaskId : Printing(u) => Printing(u)'
      <4>1. t \notin Using
        BY <1>5 DEF Using
      <4> QED BY <1>1, <2>1, <2>4, <3>4, <4>1 DEF Printing, Available
    <3> QED BY <1>2, <1>5, <3>5, <3>6, <3>7, SilentStep DEF PrintInv
  <2> QED BY <1>1, <1>5, <2>3, <2>4 DEF sk_wait_semaphore
<1>6. ASSUME pc[t] = 3, sk_signal_semaphore(1, 1),
             pc' = [pc EXCEPT ![t] = 1], UNCHANGED consoleVars
      PROVE  PrintInv'
  <2>1. pc'[t] = 1 /\ \A u \in TaskId \ {t} : pc'[u] = pc[u]
    BY <1>1, <1>6
  <2>2. /\ Available /\ state[t] = "READY" /\ wait_semaphore' = wait_semaphore
        /\ \/ \E i \in SemaphoreWaiters : GiveUnits(i, 1, 1)
           \/ KeepUnits(1, 1)
    BY <1>3, <1>6 DEF sk_signal_semaphore, Available
  <2>3. t \in Using
    BY <1>6, <2>2 DEF Using
  <2>4. scb_table[1].value = 0 /\ Using = {t} /\ scb_table[1].max_value = 1
    BY <1>2, <2>2, <2>3 DEF Held
  <2>5. \A u \in TaskId : ~Printing(u)
    BY <1>6, <2>2, <2>4 DEF Printing
  <2>6. CASE KeepUnits(1, 1)
    <3>1. UNCHANGED <<state, wait_factor, wait_time>>
      BY <2>6 DEF KeepUnits, vars, tcbVars
    <3>2. /\ scb_table'[1].value = 1 /\ scb_table'[1].max_value = 1
          /\ scb_table'[1].state = "EXIST"
      BY <1>1, <2>2, <2>4, <2>6 DEF KeepUnits, Available
    <3>3. Using' = {}
      BY <1>1, <2>1, <2>4, <3>1 DEF Using
    <3>4. PrinterWaits'
      BY <1>1, <1>2, <2>1, <2>2, <3>1 DEF PrinterWaits, Forever
    <3>5. Beginnings' /\ Held'
      BY <1>1, <1>2, <2>1, <2>2, <3>1, <3>2, <3>3 DEF Beginnings, Held, Available
    <3> QED BY <1>2, <1>6, <2>5, <3>4, <3>5, SilentStep DEF PrintInv
  <2>7. ASSUME NEW i \in SemaphoreWaiters, GiveUnits(i, 1, 1)
        PROVE  PrintInv'
    <3> DEFINE u == wait_queue[i]
    <3>1. u \in TaskId /\ wait_factor[u] = "SEM"
      BY <1>1 DEF SemaphoreWaiters, TypeOK
    <3>2. /\ u \in Printers /\ pc[u] = 2 /\ state[u] = "WAIT"
          /\ wait_semaphore[u] = 1 /\ u # t
      BY <1>2, <2>2, <3>1 DEF PrinterWaits
    <3>3. Release(u) /\ scb_table' = [scb_table EXCEPT ![1].value = 0]
      BY <2>4, <2>7, <3>2 DEF GiveUnits
    <3> HIDE DEF u
    <3>4. \A v \in TaskId : /\ state'[v] = IF v = u THEN "READY" ELSE state[v]
                            /\ wait_factor'[v] = IF v = u THEN "NON" ELSE wait_factor[v]
                            /\ wait_time'[v] = wait_time[v]
      BY <1>1, <3>1, <3>3, ReleaseWaits DEF Release
    <3>5. /\ scb_table'[1].value = 0 /\ scb_table'[1].max_value = 1
          /\ scb_table'[1].state = "EXIST"
      BY <1>1, <2>2, <2>4, <3>3 DEF Available
    <3>6. Using' = {u}
      <4>1. u \in Using'
        BY <2>1, <3>1, <3>2, <3>4 DEF Using
      <4>2. ASSUME NEW v \in Printers, v # u PROVE v \notin Using'
        <5>1. CASE v = t
          BY <2>1, <5>1 DEF Using
        <5>2. CASE v # t
          <6>1. v \in TaskId /\ v \notin Using
            BY <1>1, <2>4, <5>2
          <6>2. pc'[v] = pc[v] /\ state'[v] = state[v]
            BY <2>1, <3>4, <4>2, <5>2, <6>1
          <6> QED BY <6>1, <6>2 DEF Using
        <5> QED BY <5>1, <5>2
      <4>3. Using' \subseteq Printers
        BY DEF Using, Printers
      <4> QED BY <4>1, <4>2, <4>3
    <3>7. PrinterWaits'
      BY <1>1, <1>2, <2>1, <2>2, <3>2, <3>4 DEF PrinterWaits, Forever
    <3>8. Beginnings' /\ Held'
      <4>1. Held'
        BY <3>2, <3>5, <3>6 DEF Held, Available
      <4>2. Beginnings'
        BY <1>1, <1>2, <2>1, <2>2, <3>2, <3>4 DEF Beginnings, Available
      <4> QED BY <4>1, <4>2
    <3> QED BY <1>2, <1>6, <2>5, <3>7, <3>8, SilentStep DEF PrintInv
  <2> QED BY <2>2, <2>6, <2>7
<1> QED BY <1>4, <1>5, <1>6, PrinterCalled

LEMMA LineInit == ExamplesInit => LineInv
<1> SUFFICES ASSUME ExamplesInit, example = "preemptive" PROVE PrintInv
  BY ClientInit, InitInv DEF ExamplesInit, EventInit, LineInv
<1>1. /\ state = [t \in TaskId |-> "NONEXIST"]
      /\ wait_factor = [t \in TaskId |-> "NON"]
      /\ pc = [t \in TaskId |-> 1]
      /\ next_char = [t \in TaskId |-> 1] /\ returned = [t \in TaskId |-> FALSE]
      /\ wire = <<>>
      /\ ~Available
  <2>1. 1 \in SemaphoreId
    BY ClientInit, ExampleFacts DEF Client
  <2>2. Writers = TaskId
    BY ExamplesAssumption
  <2> QED BY <2>1, <2>2 DEF ExamplesInit, EventInit, Init, ConsoleInit, Available
<1>2. PrinterWaits
  BY <1>1 DEF PrinterWaits
<1>3. Printers \subseteq TaskId
  BY ClientInit, PreemptiveFacts
<1>4. Using = {}
  BY <1>1, <1>3 DEF Using
<1>5. Lines /\ ConsoleTypeOK
  BY <1>1 DEF Lines, NoLine, Idle, ConsoleTypeOK
<1>6. Beginnings /\ Held
  BY <1>1, <1>3, <1>4 DEF Beginnings, Held
<1> QED BY <1>2, <1>5, <1>6 DEF PrintInv

LEMMA LineStep ==
    ASSUME AtMostTwoPerPriority, TimesInRange, EventTimesInRange,
           LineInv, [ExamplesNext]_exampleVars
    PROVE  LineInv'
<1>1. Client'
  BY ClientStep DEF LineInv
<1>2. Inv'
  <2>1. KernelStep
    BY ExamplesAreClients, EventKernelStep DEF LineInv, Client, EventTyped, Typed
  <2> QED BY <2>1, KernelInv DEF LineInv
<1>3. ASSUME example = "preemptive" PROVE PrintInv'
  <2>1. CASE UNCHANGED exampleVars
    BY <1>3, <2>1
       DEF LineInv, PrintInv, PrinterWaits, Beginnings, Held, Using, Available,
           ConsoleTypeOK, Lines, NoLine, Idle, MidLine, Printing, Forever, exampleVars,
           programVars, consoleVars, allVars, vars, tcbVars, eventVars, eventTcbVars
  <2>2. CASE Kernel
    BY <1>3, <2>2, KernelPrints
  <2>3. ASSUME NEW t \in TaskId, Step(t) PROVE PrintInv'
    <3>1. t \in 1 .. Len(Tasks[example])
      BY <2>3, StepCall DEF LineInv
    <3>2. t \in {1} \cup Printers
      BY <1>3, <3>1, PreemptiveFacts DEF LineInv
    <3> QED BY <1>3, <2>3, <3>2, MainPrints, PrinterPrints
  <2> QED BY <2>1, <2>2, <2>3 DEF ExamplesNext
<1>4. example' = example
  BY StepGoesOn DEF ExamplesNext, Kernel, exampleVars, programVars
<1> QED BY <1>1, <1>2, <1>3, <1>4 DEF LineInv

(* The semaphore keeps the lines of the printing tasks whole, wherever     *)
(* they are preempted: what is on the wire between two newlines is the     *)
(* beginning of one task's line, with a carriage return at its end.        *)
THEOREM LinesWhole ==
    ASSUME AtMostTwoPerPriority, TimesInRange, EventTimesInRange
    PROVE  ExamplesSpec => []LinesStayWhole
<1>1. LineInv /\ [ExamplesNext]_exampleVars => LineInv'
  BY LineStep
<1>2. LineInv => LinesStayWhole
  <2> SUFFICES ASSUME Lines PROVE WholeLine
    BY DEF LineInv, PrintInv, LinesStayWhole
  <2> DEFINE whole == <<"text", "\r", "\n">>
  <2>1. CASE wire = <<>>
    BY <2>1 DEF WholeLine, Code, IsPrefix
  <2>2. ASSUME NEW w, wire = << <<w, "text">> >> PROVE WholeLine
    <3>1. Code(wire) = <<"text">>
      BY <2>2 DEF Code
    <3>2. IsPrefix(<<"text">>, whole)
      BY DEF IsPrefix
    <3> QED BY <2>2, <3>1, <3>2 DEF WholeLine
  <2>3. ASSUME NEW w, wire = << <<w, "text">>, <<w, "\r">> >> PROVE WholeLine
    <3>1. Code(wire) = <<"text", "\r">>
      BY <2>3 DEF Code
    <3>2. IsPrefix(<<"text", "\r">>, whole)
      BY DEF IsPrefix
    <3> QED BY <2>3, <3>1, <3>2 DEF WholeLine
  <2>4. ASSUME NEW w, wire = << <<w, "text">>, <<w, "\r">>, <<w, "\n">> >>
        PROVE  WholeLine
    <3>1. Code(wire) = whole
      BY <2>4 DEF Code
    <3>2. IsPrefix(whole, whole)
      BY DEF IsPrefix
    <3> QED BY <2>4, <3>1, <3>2 DEF WholeLine
  <2> QED BY <2>1, <2>2, <2>3, <2>4 DEF Lines, NoLine, MidLine
<1> QED BY <1>1, <1>2, LineInit, PTL DEF ExamplesSpec
-----------------------------------------------------------------------------
(* The shell's command line.                                               *)

Letters == Keys \cup {NUL, Unwritten}

(* The array begins with the characters that were typed. *)
Filled == \A i \in 1 .. Len(typed) : line[i - 1] = typed[i]

AtGets == example = "shell" /\ pc[1] = 4
AtCommand == example = "shell" /\ pc[1] = 5

ShellInv ==
    /\ line \in [0 .. LINE_LEN - 1 -> Letters]
    /\ typed \in Seq(Keys)
    /\ AtGets => /\ said = Silence /\ Filled
                 /\ at = Len(typed) /\ at < LINE_LEN - 1
    /\ ~AtGets => at = 0
    /\ AtCommand => /\ said = Silence /\ Filled
                    /\ Len(typed) \in 0 .. LINE_LEN - 1 /\ line[Len(typed)] = NUL
    /\ EchoShowsArgument

(* A string ends at the first NUL behind its beginning. *)
LEMMA StringIs ==
    ASSUME NEW l, NEW from \in Nat, NEW end \in from .. LINE_LEN - 1, l[end] = NUL,
           \A i \in from .. end - 1 : l[i] # NUL
    PROVE  String(l, from) = [k \in 1 .. end - from |-> l[from + k - 1]]
<1> DEFINE ends == {i \in from .. LINE_LEN - 1 : l[i] = NUL} \cup {LINE_LEN}
<1>1. LINE_LEN \in Nat /\ end \in Nat /\ end < LINE_LEN
  BY ShellAssumption
<1>2. ends \subseteq Int /\ end \in ends
  BY <1>1
<1>3. ASSUME NEW n \in ends PROVE end <= n
  <2>1. CASE n = LINE_LEN
    BY <1>1, <2>1
  <2>2. CASE n \in from .. LINE_LEN - 1 /\ l[n] = NUL
    BY <1>1, <2>2
  <2> QED BY <2>1, <2>2
<1> HIDE DEF ends
<1>4. Min(ends) = end
  BY <1>2, <1>3, MinIs
<1> QED BY <1>4 DEF String, ends

LEMMA FirstOfIs ==
    ASSUME NEW S, S \subseteq Int, NEW m \in S, \A n \in S : m <= n
    PROVE  FirstOf(S) = m
BY MinIs DEF FirstOf

(* echo and a space, with what was typed behind them. *)
LEMMA EchoSaid ==
    ASSUME ShellInv, AtCommand, process_command,
           Len(typed) >= 2, SubSeq(typed, 1, 2) = <<"e", Space>>
    PROVE  said' = [of |-> "echo", text |-> SubSeq(typed, 3, Len(typed))]
<1> DEFINE n == Len(typed)
           cut == [line EXCEPT ![1] = NUL]
<1>1. /\ LINE_LEN \in Nat /\ n \in 2 .. LINE_LEN - 1 /\ line[n] = NUL
      /\ \A i \in 1 .. n : line[i - 1] = typed[i] /\ typed[i] \in Keys
      /\ line \in [0 .. LINE_LEN - 1 -> Letters]
  BY ShellAssumption DEF ShellInv, Filled
<1>2. typed[1] = "e" /\ typed[2] = Space
  <2>1. SubSeq(typed, 1, 2)[1] = typed[1] /\ SubSeq(typed, 1, 2)[2] = typed[2]
    BY <1>1 DEF ShellInv
  <2>2. <<"e", Space>>[1] = "e" /\ <<"e", Space>>[2] = Space
    OBVIOUS
  <2> QED BY <2>1, <2>2
<1>3. \A c \in Keys : c # NUL
  BY ShellAssumption
<1>4. line[0] = "e" /\ line[1] = Space /\ \A i \in 0 .. n - 1 : line[i] # NUL
  <2>1. ASSUME NEW i \in 0 .. n - 1 PROVE line[i] = typed[i + 1] /\ line[i] # NUL
    <3>1. i + 1 \in 1 .. n /\ i + 1 - 1 = i
      BY <1>1
    <3> QED BY <1>1, <1>3, <3>1
  <2>2. 0 \in 0 .. n - 1 /\ 1 \in 0 .. n - 1
    BY <1>1
  <2> QED BY <1>2, <2>1, <2>2
<1> HIDE DEF n
<1>5. strtok(line) = cut
  <2> DEFINE words == {i \in DOMAIN line : line[i] # Space}
             ends == {i \in DOMAIN line : i > 0 /\ line[i] \in {Space, NUL}}
  <2>1. words \subseteq Int /\ 0 \in words /\ \A i \in words : 0 <= i
    <3>1. DOMAIN line = 0 .. LINE_LEN - 1 /\ 0 \in 0 .. LINE_LEN - 1
      BY <1>1
    <3>2. line[0] # Space
      BY <1>4 DEF Space
    <3> QED BY <1>1, <3>1, <3>2
  <2>2. ends \subseteq Int /\ 1 \in ends /\ \A i \in ends : 1 <= i
    BY <1>1, <1>4
  <2> HIDE DEF words, ends
  <2>3. FirstOf(words) = 0 /\ FirstOf(ends) = 1
    BY <2>1, <2>2, FirstOfIs
  <2>4. LINE_LEN # 0 /\ LINE_LEN # 1 /\ line[0] # NUL
    BY <1>1, <1>4 DEF NUL
  <2> QED BY <2>3, <2>4 DEF strtok, words, ends
<1>6. /\ cut[0] = "e" /\ cut[1] = NUL /\ cut[n] = NUL
      /\ \A i \in 2 .. n - 1 : cut[i] = line[i] /\ cut[i] # NUL
  BY <1>1, <1>4
<1> HIDE DEF cut
<1>7. String(cut, 0) = <<"e">>
  <2> DEFINE from == 0
             end == 1
             first == [k \in 1 .. end - from |-> cut[from + k - 1]]
  <2>1. /\ from \in Nat /\ end \in from .. LINE_LEN - 1 /\ cut[end] = NUL
        /\ \A i \in from .. end - 1 : cut[i] # NUL
    BY <1>1, <1>6 DEF NUL
  <2>2. first = [k \in {1} |-> cut[0]]
    OBVIOUS
  <2>3. String(cut, 0) = String(cut, from)
    OBVIOUS
  <2> HIDE DEF from, end
  <2>4. String(cut, from) = first
    BY <2>1, StringIs
  <2>5. <<"e">> = [k \in {1} |-> "e"]
    OBVIOUS
  <2> QED BY <1>6, <2>2, <2>3, <2>4, <2>5
<1>8. String(cut, 2) = SubSeq(typed, 3, n)
  <2>1. String(cut, 2) = [k \in 1 .. n - 2 |-> cut[2 + k - 1]]
    BY <1>1, <1>6, StringIs
  <2>2. SubSeq(typed, 3, n) = [k \in 1 .. n - 2 |-> typed[k + 2]]
    BY <1>1 DEF ShellInv
  <2>3. ASSUME NEW k \in 1 .. n - 2 PROVE cut[2 + k - 1] = typed[k + 2]
    <3>1. 2 + k - 1 = k + 1 /\ k + 2 \in 1 .. n /\ k + 2 - 1 = k + 1
      BY <1>1
    <3>2. CASE k + 1 \in 2 .. n - 1
      BY <1>1, <1>6, <3>1, <3>2
    <3> QED BY <1>1, <3>2
  <2> QED BY <2>1, <2>2, <2>3
<1> QED BY <1>5, <1>7, <1>8 DEF process_command, n
(* The calls of the shell: usermain's, then its loop. *)
LEMMA ShellCalled ==
    ASSUME Client, example = "shell", NEW t \in TaskId, Step(t)
    PROVE  /\ t = 1 /\ pc[1] \in 1 .. 5 /\ Len(Program(1)) = 5
           /\ pc[1] <= 2 => NextCall(1) \in {"print", "create_semaphore"}
           /\ pc[1] = 3 => NextCall(1) = "prompt"
           /\ pc[1] = 4 => NextCall(1) = "gets"
           /\ pc[1] = 5 => NextCall(1) = "command"
<1>1. t \in 1 .. Len(Tasks[example]) /\ Len(Tasks[example]) = 1
  BY StepCall, ExampleFacts DEF Client
<1>2. t = 1
  <2>1. t \in 1 .. 1
    BY <1>1
  <2> QED BY <2>1
<1>3. MainProgram("shell", Program(1)) /\ Len(Program(1)) = 5
  BY ExampleFacts DEF Client, MainProgram
<1>4. pc[1] \in 1 .. 5
  <2>1. pc[1] \in 1 .. Len(Program(1))
    BY <1>2, StepCall
  <2> QED BY <1>3, <2>1
<1>5. /\ Program(1)[1] = "print" /\ Program(1)[2] = "create_semaphore"
      /\ Program(1)[3] = "prompt" /\ Program(1)[4] = "gets"
      /\ Program(1)[5] = "command"
  BY <1>3, MainPrograms DEF MainProgram, Program
<1> QED BY <1>2, <1>3, <1>4, <1>5 DEF NextCall

(* Where a step of the shell leads; its loop goes back to the prompt. *)
LEMMA ShellGoesOn ==
    ASSUME Client, example = "shell", NEW t \in TaskId, Step(t), GoOn(t)
    PROVE  pc'[1] = IF pc[1] < 5 THEN pc[1] + 1 ELSE 3
<1>1. t = 1 /\ pc[1] \in 1 .. 5 /\ Len(Program(1)) = 5
  BY ShellCalled
<1>2. 1 \in TaskId /\ pc \in [TaskId -> Nat]
  BY <1>1 DEF Client, Programmed
<1>3. Len(usermain) = 2
  BY DEF usermain
<1>4. pc' = [pc EXCEPT ![1] = IF pc[1] < Len(Program(1)) THEN pc[1] + 1 ELSE 3]
  BY <1>1, <1>3 DEF GoOn
<1> QED BY <1>1, <1>2, <1>4

(* A character fills the next place of the array, or completes the line. *)
LEMMA GetsFills ==
    ASSUME ShellInv, AtGets, NEW c \in Keys \cup {Enter}, sk_uart0_gets_s(c)
    PROVE  /\ line' \in [0 .. LINE_LEN - 1 -> Letters]
           /\ typed' \in Seq(Keys) /\ said' = Silence /\ Filled'
           /\ IF IsLast(c)
              THEN /\ at' = 0
                   /\ Len(typed') \in 0 .. LINE_LEN - 1 /\ line'[Len(typed')] = NUL
              ELSE at' = Len(typed') /\ at' < LINE_LEN - 1
<1> DEFINE n == Len(typed)
<1>1. /\ LINE_LEN \in Nat /\ n \in Nat /\ at = n /\ n < LINE_LEN - 1
      /\ \A i \in 1 .. n : line[i - 1] = typed[i]
      /\ line \in [0 .. LINE_LEN - 1 -> Letters] /\ typed \in Seq(Keys)
      /\ said' = Silence
  BY ShellAssumption DEF ShellInv, Filled, sk_uart0_gets_s
<1>2. CASE c = Enter
  <2>1. line' = [line EXCEPT ![n] = NUL] /\ typed' = typed /\ at' = 0 /\ IsLast(c)
    BY <1>1, <1>2 DEF sk_uart0_gets_s, Ended, IsLast
  <2>2. line' \in [0 .. LINE_LEN - 1 -> Letters] /\ line'[n] = NUL
    BY <1>1, <2>1 DEF Letters
  <2>3. \A i \in 1 .. n : line'[i - 1] = typed[i]
    <3>1. ASSUME NEW i \in 1 .. n PROVE i - 1 \in 0 .. LINE_LEN - 1 /\ i - 1 # n
      BY <1>1
    <3> QED BY <1>1, <2>1, <3>1
  <2>4. n \in 0 .. LINE_LEN - 1
    BY <1>1
  <2> QED BY <1>1, <2>1, <2>2, <2>3, <2>4 DEF Filled
<1>3. CASE c # Enter
  <2>1. /\ c \in Keys /\ typed' = Append(typed, c)
        /\ IsLast(c) <=> n + 1 = LINE_LEN - 1
        /\ at' = IF IsLast(c) THEN 0 ELSE n + 1
        /\ line' = IF IsLast(c) THEN [[line EXCEPT ![n] = c] EXCEPT ![n + 1] = NUL]
                   ELSE [line EXCEPT ![n] = c]
    BY <1>1, <1>3 DEF sk_uart0_gets_s, Ended, IsLast
  <2>2. /\ typed' \in Seq(Keys) /\ Len(typed') = n + 1
        /\ typed'[n + 1] = c /\ \A i \in 1 .. n : typed'[i] = typed[i]
    BY <1>1, <2>1, AppendProperties
  <2>3. /\ line' \in [0 .. LINE_LEN - 1 -> Letters]
        /\ line'[n] = c /\ \A i \in 0 .. n - 1 : line'[i] = line[i]
        /\ IsLast(c) => line'[n + 1] = NUL
    BY <1>1, <2>1 DEF Letters
  <2>4. ASSUME NEW i \in 1 .. n + 1 PROVE line'[i - 1] = typed'[i]
    <3>1. CASE i = n + 1
      BY <1>1, <2>2, <2>3, <3>1
    <3>2. CASE i \in 1 .. n
      <4>1. i - 1 \in 0 .. n - 1
        BY <1>1, <3>2
      <4> QED BY <1>1, <2>2, <2>3, <3>2, <4>1
    <3> QED BY <1>1, <3>1, <3>2
  <2>5. n + 1 \in 0 .. LINE_LEN - 1 /\ (~IsLast(c) => n + 1 < LINE_LEN - 1)
    BY <1>1, <2>1
  <2> QED BY <1>1, <2>1, <2>2, <2>3, <2>4, <2>5 DEF Filled
<1> QED BY <1>2, <1>3

(* Steps that leave the shell alone. *)
LEMMA ShellRests ==
    ASSUME ShellInv, UNCHANGED <<shellVars, example>>,
           example = "shell" => \/ pc'[1] = pc[1]
                                \/ ~AtGets /\ pc'[1] \in {1, 2, 3}
    PROVE  ShellInv'
<1>1. UNCHANGED <<line, at, typed, said, example>>
  BY DEF shellVars
<1>2. \/ AtGets' = AtGets /\ AtCommand' = AtCommand
      \/ ~AtGets /\ ~AtGets' /\ ~AtCommand'
  BY <1>1 DEF AtGets, AtCommand
<1> QED BY <1>1, <1>2 DEF ShellInv, Filled, EchoShowsArgument

(* The steps of the shell. *)
LEMMA ShellSteps ==
    ASSUME Client, ShellInv, example = "shell", NEW t \in TaskId, Step(t)
    PROVE  ShellInv'
<1>1. /\ t = 1 /\ pc[1] \in 1 .. 5
      /\ pc[1] <= 2 => NextCall(1) \in {"print", "create_semaphore"}
      /\ pc[1] = 3 => NextCall(1) = "prompt"
      /\ pc[1] = 4 => NextCall(1) = "gets"
      /\ pc[1] = 5 => NextCall(1) = "command"
  BY ShellCalled
<1>2. /\ pc' = pc \/ GoOn(t)
      /\ example' = example
      /\ GoOn(t) => pc'[1] = IF pc[1] < 5 THEN pc[1] + 1 ELSE 3
  BY StepGoesOn, ShellGoesOn
<1>3. CASE pc[1] <= 2
  <2>1. UNCHANGED shellVars
    BY <1>1, <1>3 DEF Step, printf, ShellCall
  <2>2. pc'[1] = pc[1] \/ (~AtGets /\ pc'[1] \in {1, 2, 3})
    BY <1>1, <1>2, <1>3 DEF AtGets
  <2> QED BY <1>2, <2>1, <2>2, ShellRests
<1>4. CASE pc[1] = 3
  <2>1. Prompt /\ GoOn(t)
    BY <1>1, <1>4 DEF Step, printf, EventCall, TaskCall, ShellCall
  <2>2. pc'[1] = 4 /\ example' = "shell"
    BY <1>2, <1>4, <2>1
  <2>3. ~AtGets /\ at = 0
    BY <1>4 DEF AtGets, ShellInv
  <2>4. typed' = <<>> /\ said' = Silence /\ line' = line /\ at' = 0
    BY <2>1, <2>3 DEF Prompt
  <2>5. Len(typed') = 0 /\ Filled' /\ 0 < LINE_LEN - 1
    BY <2>4, ShellAssumption DEF Filled
  <2>6. AtGets' /\ ~AtCommand'
    BY <2>2 DEF AtGets, AtCommand
  <2> QED BY <2>4, <2>5, <2>6 DEF ShellInv, EchoShowsArgument
<1>5. CASE pc[1] = 4
  <2>1. \/ UNCHANGED <<shellVars, pc>>
        \/ \E c \in Keys \cup {Enter} :
              sk_uart0_gets_s(c) /\ IF IsLast(c) THEN GoOn(t) ELSE UNCHANGED pc
    BY <1>1, <1>5 DEF Step, printf, EventCall, TaskCall, ShellCall
  <2>2. CASE UNCHANGED <<shellVars, pc>>
    BY <1>2, <2>2, ShellRests
  <2>3. ASSUME NEW c \in Keys \cup {Enter}, sk_uart0_gets_s(c),
               IF IsLast(c) THEN GoOn(t) ELSE UNCHANGED pc
        PROVE  ShellInv'
    <3>1. AtGets
      BY <1>5 DEF AtGets
    <3>2. /\ line' \in [0 .. LINE_LEN - 1 -> Letters]
          /\ typed' \in Seq(Keys) /\ said' = Silence /\ Filled'
          /\ IF IsLast(c)
             THEN /\ at' = 0
                  /\ Len(typed') \in 0 .. LINE_LEN - 1 /\ line'[Len(typed')] = NUL
             ELSE at' = Len(typed') /\ at' < LINE_LEN - 1
      BY <2>3, <3>1, GetsFills
    <3>3. EchoShowsArgument'
      BY <3>2 DEF EchoShowsArgument
    <3>4. CASE IsLast(c)
      <4>1. ~AtGets' /\ AtCommand'
        BY <1>2, <1>5, <2>3, <3>4 DEF AtGets, AtCommand
      <4> QED BY <3>2, <3>3, <3>4, <4>1 DEF ShellInv
    <3>5. CASE ~IsLast(c)
      <4>1. AtGets' /\ ~AtCommand'
        BY <1>2, <1>5, <2>3, <3>5 DEF AtGets, AtCommand
      <4> QED BY <3>2, <3>3, <3>5, <4>1 DEF ShellInv
    <3> QED BY <3>4, <3>5
  <2> QED BY <2>1, <2>2, <2>3
<1>6. CASE pc[1] = 5
  <2>1. process_command /\ GoOn(t)
    BY <1>1, <1>6 DEF Step, printf, EventCall, TaskCall, ShellCall
  <2>2. AtCommand /\ ~AtGets /\ ~AtCommand' /\ ~AtGets'
    BY <1>2, <1>6, <2>1 DEF AtGets, AtCommand
  <2>3. at' = 0 /\ typed' = typed
    BY <2>1, <2>2 DEF process_command, ShellInv
  <2>4. line' \in [0 .. LINE_LEN - 1 -> Letters]
    <3>1. strtok(line) = line \/ \E end : strtok(line) = [line EXCEPT ![end] = NUL]
      BY DEF strtok
    <3> QED BY <2>1, <3>1 DEF process_command, ShellInv, Letters
  <2>5. EchoShowsArgument'
    BY <2>1, <2>2, <2>3, EchoSaid DEF EchoShowsArgument
  <2> QED BY <2>2, <2>3, <2>4, <2>5 DEF ShellInv
<1> QED BY <1>1, <1>3, <1>4, <1>5, <1>6

LEMMA ShellStep ==
    ASSUME Client, ShellInv, [ExamplesNext]_exampleVars
    PROVE  ShellInv'
<1>1. CASE UNCHANGED exampleVars \/ Kernel
  <2>1. UNCHANGED <<shellVars, example, pc>>
    BY <1>1 DEF exampleVars, programVars, Kernel
  <2> QED BY <2>1, ShellRests
<1>2. ASSUME NEW t \in TaskId, Step(t), example # "shell" PROVE ShellInv'
  <2>1. NextCall(t) \notin {"prompt", "gets", "command"}
    BY <1>2, StepCall DEF MainCall, TaskCalls, NextCall
  <2>2. UNCHANGED <<shellVars, example>>
    BY <1>2, <2>1 DEF Step, printf, ShellCall
  <2> QED BY <1>2, <2>2, ShellRests
<1> QED BY <1>1, <1>2, ShellSteps DEF ExamplesNext

LEMMA ShellInitially == ExamplesInit => ShellInv
<1> SUFFICES ASSUME ExamplesInit PROVE ShellInv
  OBVIOUS
<1>1. /\ line = [i \in 0 .. LINE_LEN - 1 |-> Unwritten]
      /\ at = 0 /\ typed = <<>> /\ said = Silence
  BY DEF ExamplesInit, ShellInit
<1>2. ~AtGets /\ ~AtCommand
  <2>1. 1 \in TaskId
    BY TaskManagerAssumption DEF TaskId
  <2> QED BY <2>1 DEF ExamplesInit, AtGets, AtCommand
<1> QED BY <1>1, <1>2 DEF ShellInv, Letters, EchoShowsArgument

(* echo prints what was typed behind it, and nothing that an earlier and   *)
(* longer line left in the array, also when the line is cut because the    *)
(* array is full, whatever the keys and the size of the array are.         *)
THEOREM EchoRepeats == ExamplesSpec => []EchoShowsArgument
<1>1. Client /\ ShellInv /\ [ExamplesNext]_exampleVars => Client' /\ ShellInv'
  BY ClientStep, ShellStep
<1>2. ExamplesInit => Client /\ ShellInv
  BY ClientInit, ShellInitially
<1>3. ShellInv => EchoShowsArgument
  BY DEF ShellInv
<1> QED BY <1>1, <1>2, <1>3, PTL DEF ExamplesSpec
=============================================================================
