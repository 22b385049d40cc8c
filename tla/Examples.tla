------------------------------ MODULE Examples ------------------------------
(***************************************************************************)
(* The example applications of pico-os1 (application/examples.c), whole:   *)
(* the first task makes the tasks of one example and ends; each of them    *)
(* repeats its calls for ever.  usermain.c enables one example at a time,  *)
(* or the shell, which it runs itself.                                     *)
(***************************************************************************)
EXTENDS Event, Console, Shell

CONSTANTS
    Enabled,        \* the examples that may be enabled
    Second,         \* the delays of the examples, 1000 and 500 ms in the code
    HalfSecond

VARIABLES
    example,    \* the example that is enabled
    pc          \* per task, the call it does next

programVars == <<example, pc>>
exampleVars == <<allVars, programVars, consoleVars, shellVars>>

sid == 1
fid == 1
t1 == 2
t2 == 3
t3 == 4

(* The calls of each task; task_1 and task_2 are alike. *)
task_1 == <<"wait", "print", "signal">>
task_waker == <<"print", "delay", "print", "wakeup">>
task_sleeper == <<"print", "sleep", "print">>
task_button == <<"print", "set_1", "half_delay", "print", "set_2", "delay">>
task_led1 == <<"wait_1", "print">>
task_led2 == <<"wait_2", "print">>

usermain == <<"print", "create_semaphore">>
preemptive_multi_tasking ==
    <<"create_task", "create_task", "start_t1", "start_t2", "exit">>
events == <<"create_flag", "create_task", "create_task", "create_task",
            "start_t1", "start_t2", "start_t3", "exit">>

(* The shell looks for a key every millisecond, which is a tick at most.   *)
run_shell == <<"prompt", "gets", "command">>

(* sleep_wake makes the same calls as preemptive_multi_tasking. *)
Tasks == [preemptive |-> <<usermain \o preemptive_multi_tasking, task_1, task_1>>,
          sleep_wake |-> <<usermain \o preemptive_multi_tasking,
                           task_waker, task_sleeper>>,
          events |-> <<usermain \o events, task_button, task_led1, task_led2>>,
          shell |-> <<usermain \o run_shell>>]

ASSUME ExamplesAssumption ==
    /\ Enabled \subseteq DOMAIN Tasks
    /\ \A e \in Enabled : MAX_TASKS >= Len(Tasks[e])
    /\ MAX_SEMAPHORES = 1
    /\ Writers = TaskId
    /\ "events" \in Enabled => MAX_FLAGS = 1

(* The calls of the examples are among those the kernel is given. *)
OneUnit == [initial_value |-> 1, max_value |-> 1]

ASSUME ExampleCalls ==
    /\ {1, Second, HalfSecond} \subseteq DelayTimes
    /\ TMO_FEVR \in Timeouts \cap EventTimeouts
    /\ OneUnit \in SemaphoreInfos
    /\ 1 \in Counts
    /\ "events" \in Enabled =>
          /\ {} \in FlagInfos
          /\ {{1}, {2}} \subseteq FlagSets
          /\ {<<{1}, {"BITCLR"}>>, <<{2}, {"BITCLR"}>>} \subseteq FlagWaits
          /\ {t2, t3} \subseteq FlagWaiters

Program(t) == Tasks[example][t]
NextCall(t) == Program(t)[pc[t]]

TaskCall(name) ==
    \/ name = "create_task" /\ sk_create_task
    \/ name = "start_t1" /\ sk_start_task(t1)
    \/ name = "start_t2" /\ sk_start_task(t2)
    \/ name = "start_t3" /\ sk_start_task(t3)
    \/ name = "exit" /\ sk_exit_task
    \/ name = "delay" /\ sk_delay_task(Second)
    \/ name = "half_delay" /\ sk_delay_task(HalfSecond)
    \/ name = "wakeup" /\ sk_wakeup_task(t2)
    \/ name = "sleep" /\ sk_sleep_task(TMO_FEVR)

EventCall(name) ==
    \/ /\ name = "create_semaphore"
       /\ sk_create_semaphore(OneUnit)
    \/ name = "wait" /\ sk_wait_semaphore(sid, 1, TMO_FEVR)
    \/ name = "signal" /\ sk_signal_semaphore(sid, 1)
    \/ name = "create_flag" /\ sk_create_flag({})
    \/ name = "set_1" /\ sk_set_flag(fid, {1})
    \/ name = "set_2" /\ sk_set_flag(fid, {2})
    \/ name = "wait_1" /\ sk_wait_flag(fid, {1}, {"BITCLR"}, TMO_FEVR)
    \/ name = "wait_2" /\ sk_wait_flag(fid, {2}, {"BITCLR"}, TMO_FEVR)

(* The shell's loop begins after usermain's own calls. *)
GoOn(t) ==
    pc' = [pc EXCEPT ![t] = IF @ < Len(Program(t)) THEN @ + 1
                            ELSE IF example = "shell" THEN Len(usermain) + 1
                            ELSE 1]

(* A call of printf ends with the character that ends its line. *)
printf(t) ==
    /\ NextCall(t) = "print"
    /\ Running
    /\ \/ Return(t) /\ UNCHANGED pc
       \/ /\ Character(t)
          /\ IF AtEnd(t) THEN GoOn(t) ELSE UNCHANGED pc
    /\ UNCHANGED <<allVars, shellVars>>

(* The shell waits for a key, or takes it from the receive FIFO. *)
ShellCall(t) ==
    \/ /\ NextCall(t) = "prompt"
       /\ sk_delay_task(1)
       /\ Prompt
       /\ GoOn(t)
       /\ UNCHANGED eventVars
    \/ /\ NextCall(t) = "gets"
       /\ sk_delay_task(1)
       /\ UNCHANGED <<eventVars, shellVars, pc>>
    \/ /\ NextCall(t) = "gets"
       /\ Running
       /\ \E c \in Keys \cup {Enter} :
             /\ sk_uart0_gets_s(c)
             /\ IF IsLast(c) THEN GoOn(t) ELSE UNCHANGED pc
       /\ UNCHANGED allVars
    \/ /\ NextCall(t) = "command"
       /\ Running
       /\ process_command
       /\ GoOn(t)
       /\ UNCHANGED allVars

(* The running task t does its next call. *)
Step(t) ==
    /\ curr_task = t
    /\ \/ printf(t)
       \/ /\ \/ EventCall(NextCall(t))
             \/ TaskCall(NextCall(t)) /\ UNCHANGED eventVars
          /\ GoOn(t)
          /\ UNCHANGED <<consoleVars, shellVars>>
       \/ ShellCall(t) /\ UNCHANGED consoleVars
    /\ UNCHANGED example

ExamplesInit ==
    /\ EventInit
    /\ ConsoleInit
    /\ ShellInit
    /\ example \in Enabled
    /\ pc = [t \in TaskId |-> 1]

Kernel ==
    /\ main \/ systimer_handler \/ dispatch_entry \/ dispatch_loop_exit
    /\ UNCHANGED <<eventVars, programVars, consoleVars, shellVars>>

ExamplesNext == Kernel \/ \E t \in TaskId : Step(t)

(* The timer and the dispatcher are fair, and a task that is given the     *)
(* processor time and again does its call: a call takes much less than the *)
(* period of 10 ms between two ticks.                                      *)
ExamplesSpec ==
    /\ ExamplesInit
    /\ [][ExamplesNext]_exampleVars
    /\ WF_exampleVars(main /\ Kernel)
    /\ WF_exampleVars(systimer_handler /\ Kernel)
    /\ WF_exampleVars(dispatch_entry /\ Kernel)
    /\ WF_exampleVars(dispatch_loop_exit /\ Kernel)
    /\ \A t \in TaskId : SF_exampleVars(Step(t))

-----------------------------------------------------------------------------
(* Properties.                                                             *)

(* A semaphore keeps the lines of the printing tasks whole, although ticks *)
(* preempt them between any two characters; each newline is sent after a   *)
(* carriage return of the same line.                                       *)
LinesStayWhole == example = "preemptive" => WholeLine

(* A semaphore that is signalled goes to the task that waits for it, so    *)
(* that neither task of the first example keeps the other from printing.   *)
Prints(t) == Running /\ curr_task = t /\ NextCall(t) = "print"

BothPrint ==
    [](example = "preemptive") => \A t \in {t1, t2} : []<>Prints(t)

(* A sleep without a timeout always ends: the waker's delays end, and its  *)
(* wakeups reach the sleeper whether they come before the sleep or after.  *)
SleepEnds ==
    [](example = "sleep_wake")
        => (state[t2] = "WAIT" ~> Running /\ curr_task = t2)
=============================================================================
