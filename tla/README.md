# Verification of the pico-os1 kernel

TLA+ models of pico-os1, a small preemptive operating system for the RP2040
(one core, in the style of T-Kernel), checked with TLC and, for the task
queues, the task manager, flags and semaphores, the I2C driver, the example
tasks, the shell's line, the FAT12 reader, the display, the memory layout and the
clock, proved with TLAPS.

## 1. The system

| component | source | state | operations | made correct by |
|---|---|---|---|---|
| task queues | `kernel/task_manager.c` 36-78 | `prev`, `next` of each TCB, queue heads | add at the tail, remove the head, remove any entry, walks by `next` | heads, forward and back links describe one sequence per queue |
| task manager | `kernel/task_manager.c` | `tcb_table`, `ready_queue[]`, `wait_queue`, `curr_task`, `scheduled_task` | `sk_create/start/exit/delay/sleep/wakeup_task`, `scheduler`, `main` | each task in the one queue its state names; the running task is the highest ready one; no lost wakeup |
| system timer | `kernel/systimer.c` | `wait_time`, the clock | `systimer_handler` each 10 ms: ends waits, rotates the current priority, schedules | waits end, not early; rotation loses nobody; equal tasks share the processor |
| context switch | `kernel/dispatch.s`, `kernel/context.c` | `curr_task`, `dispatch_running`, stacks | PendSV `dispatch_entry` and its idle loop | the scheduled task is loaded; the processor idles only if nobody is ready |
| events | `kernel/event.c` | `fcb_table`, `scb_table`, the wait fields of the TCB | create, set, clear, wait for a flag; create, signal, wait for a semaphore | values in range, no unit and no wakeup lost |
| device manager | `device/device.c` | `device_table` (open count and mode) | open, synchronous read and write | a descriptor names the opened device; access follows the mode |
| I2C driver | `device/i2c_rp2040.c` | `ll_devcb[unit]` | open, read, write, the transfer loop | one transfer per unit at a time |
| SSD1306 | `device/ssd1306.c` | page buffer | init, show, draw, power | drawing stays in the buffer; a line reaches both ends |
| FAT12 reader | `kernel/fat.c` | none (reads flash) | list, find, read a file | every live entry is found, a chain of clusters ends |
| UART, C library stubs | `kernel/uart.c`, `kernel/syscalls.c` | `_write_prev_char`, `heap_end`, `prev_heap_end` | polled get and put, `_write`, `_sbrk`, `_gettimeofday` | a line is printed whole; the heap stays off the stacks; the clock is right |
| shell, examples | `application/*.c` | the shell's line, `sid`, `fid`, the LCD's state | commands, the LCD task, example tasks | one LCD task at a time; the semaphore comes back; a command sees only what was typed |
| boot, stacks | `boot/*.c`, `include/kerneldef.h`, `kernel/context.c` | stack areas | reset, clocks, SysTick, `make_context` | stacks of live tasks do not overlap |

How they interact: applications call the `sk_` functions, which change the
kernel's variables with interrupts masked (`DI`/`EI`) and end with
`scheduler()`; that raises the PendSV exception. SysTick runs
`systimer_handler` on the same variables. Events block and release tasks
through the task manager's queues. The device manager calls the I2C driver,
which waits for a semaphore and then polls the controller.

What is hard: three actors share the queues (tasks, SysTick, PendSV), and
SysTick outranks PendSV (`boot/reset_handler.c:193`), so that a tick may come
between a system call that blocks the current task and the dispatch that
replaces it. Loops over `wait_queue` move the very entry they stand at. One
wait queue serves delays, sleeps, every flag and every semaphore. Times are
unsigned and one value means forever. `PROJECT.json` lists each hazard at its
line.

## 2. Modules

| module | models | notes |
|---|---|---|
| `TaskManager` | `task_manager.c`, `systimer.c`, the steps of `dispatch.s` | queues as sequences |
| `MCTaskManager` | constants for TLC | three tasks |
| `Event` | `event.c`, extending `TaskManager` | uses `Block` and `Release` of it |
| `MCEvent` | constants for TLC | |
| `I2c` | `device.c`, `i2c_rp2040.c`, extending `Event` | a transfer byte by byte |
| `Lcd` | the shell's lcd command, `device()`, `example_lcd.c`, extending `I2c` | programs as places |
| `Console` | `_write` and `sk_uart0_putc`, character by character | no kernel in it |
| `Shell` | `sk_uart0_gets_s`, the cutting of a line into words, echo | no kernel in it |
| `Examples` | `preemptive_multi_tasking()`, `sleep_wake()`, `events()` and `run_shell()` with `usermain`, extending `Event`, `Console` and `Shell` | whole programs, with fairness |
| `MCI2c`, `MCLcd`, `MCExamples` | constants for TLC | |
| `Fat` | `fat.c` and the commands ls and cat of `shell.c` | independent of the kernel |
| `MCFat` | the images for TLC | |
| `Display` | `ssd1306.c` and the drawing of `example_lcd.c`, with the controller behind it | independent of the kernel |
| `MCDisplay` | a font, an image, lines and boxes for TLC | |
| `Memory` | `kerneldef.h`, `make_context`, `_sbrk` | proved, not run: its addresses are the real ones |
| `Clock` | the counters of `systimer_handler`, `_gettimeofday` | proved, not run: its counter wraps after 2^32 ticks |
| `PriorityScheduler` | what the kernel promises to tasks: who is ready and who runs | abstract |
| `TaskQueueSpec` | what a queue promises: a sequence, and a walk that ends where it moves an entry | abstract |
| `TaskQueue` | the links pointer by pointer | refines `TaskQueueSpec` |
| `QueueLemmas` | facts about `Append`, `Tail`, `RemoveAt` on sequences without duplicates, and about least elements | proofs |
| `TaskQueueProofs` | the links represent sequences; `TaskQueue` implements `TaskQueueSpec` | proofs |
| `TaskManagerProofs` | operators of `TaskManager`, type correctness, wakeups, timeouts; the inductive invariant and the safety theorems; that `TaskManager` implements the steps of `PriorityScheduler` | proofs |
| `EventProofs` | flags and semaphores, on top of the task manager's lemmas | proofs |
| `I2cProofs` | the driver is a client of the semaphores; transfers exclude each other | proofs |
| `ExamplesProofs` | the examples and the shell are clients of the kernel; lines are printed whole; echo repeats its argument | proofs |
| `FatProofs` | the layout of the disk, the packed table, and that ls and cat show what a path names | proofs |
| `StandaloneProofs` | the theorems about `Display`, `Memory` and `Clock` | proofs |

### How state and actions correspond to the code

* A task is its identifier `1 .. MAX_TASKS`, the index in `tcb_table` plus one;
  `NULL` is 0. The fields of the TCB are functions of the task. `wait_err` is
  the value the pointer refers to, `flag_pattern` the word `p_flag_pattern`
  refers to.
* `task_pri[t]` is a constant: control blocks are taken in increasing order and
  never freed, so it is the argument of the `t`-th `sk_create_task`. It lies
  between 1 and `MAX_TASK_PRI - 1`. The code also accepts `MAX_TASK_PRI`
  (`task_manager.c:123`), for which `ready_queue` has no entry; what happens
  then is not modelled.
* A system call is one action, because it runs from `DI` to `EI`. It is enabled
  when its task executes (`Running`): its context is loaded and no exception is
  pending. A call that fails (`E_ID`, `E_OBJ`, `E_NOEXS`, `E_LIMIT`, `TMO_POL`
  that is not satisfied) changes nothing and is a stuttering step.
* `scheduler` is a conjunct of every action whose code calls it, over the
  primed queues. `pendsv` is the pending bit; a second request changes nothing.
* `systimer_handler` is one action: no other handler preempts it. The walk over
  `wait_queue` stops at the first expired task, because `task_queue_add_entry`
  has set that task's `next` to NULL (`task_manager.c:50`); `TaskQueue` derives
  this from the pointers. The rotation removes the top of the queue without
  looking who it is, as the code does.
* `dispatch_entry` is PendSV up to the load of a task, or up to its idle loop if
  there is none to load; in this loop interrupts are open and `dispatch_running`
  holds; `dispatch_loop_exit` leaves it. The final part of the handler has
  interrupts masked and belongs to the step that loads the task.
* `tick_served` bounds time: once a tick has been served while a dispatch is
  due, no second one is before it, as a period of 10 ms is far longer than the
  latency of PendSV. `main` runs within the first period after reset, so no tick
  precedes the first dispatch (it would read `curr_task->task_pri` through NULL).
* `promised` and `waits_on` are history variables: what is left of the time a task
  asked for, and the object it waits for (the code does not record it). No guard
  reads them.

* `I2c`: `phase[t]` is where task `t` is in `i2c_trans`, `request[t]` the arguments
  of its call, `ll_devcb` the block all tasks share. Only kernel calls mask
  interrupts, so every byte is a step of its own and a tick may come between
  any two. The controller takes each byte sent and answers each byte asked for
  or aborts. A call that `device.c` refuses (`E_ID`, `E_OACV`) is a stuttering step.
* `Lcd` and `Examples`: `pc[t]` is the next call of task `t`. In `Lcd` the number
  of transfers per picture and of pictures is open; in `Examples` the programs
  are complete sequences of calls that repeat. A call of `printf` is one call of
  `_write` with one line; each character is a step, and a tick may come between
  any two, also between the carriage return that `_write` adds and its newline.
* `Shell`: the array `line` keeps what earlier lines left; `strtok` writes into it
  as the C library's does. The model is the same for any length of the array, so
  that 5 stands for 32, and `e` for the word echo.
* `PriorityScheduler`: `ready` is the set of tasks in state `READY`, `running` the
  current task if no exception is pending, else nobody. A system call that makes
  a more urgent task ready, and a tick that finds a rival of the same priority,
  take the processor away at once; `Dispatch` gives it to one of the most urgent
  tasks.
* `Display`: a byte of the buffer is the set of its bits. `plane` is the picture the
  calls describe without any screen, from the geometry of their arguments and not
  from the loops of the driver: the points that are drawn for sure, and those that
  may be. The row of a line's point is a float cast to an unsigned word: it is cut
  toward zero, so that a row between -1 and 0 is row 0, and the cast of -1 and less is
  undefined, for which the model has row 0 and a row beyond the screen. Where the
  slope is no exact float the result may lie one below the exact row when that is an
  integer, and the model has both outcomes; `plane` leaves these points open, and row 0
  of the columns in which a line is above the screen.
  The controller has a window of columns and pages and a place in it that moves on
  with each byte of data (external, from its data sheet). The driver ignores what
  every transfer answers. Each byte of a command is a transfer of its own, and any
  number of them may be lost: if all are, the controller stays as it was; if some
  are, it is `Confused`, and the model leaves open what it shows from then on. The
  transfer of the buffer may end after any number of bytes.
* `Memory`: addresses are integers and the sizes those of the header. `_sbrk` is two
  steps, the test and the growth, because nothing masks interrupts in between.
* `Clock`: the two counters only; no other variable depends on them.
* `Fat`: one step per directory entry looked at and per cluster; `phase` is the
  function that runs, `cluster` and `index` are its local variables. The image is
  given by its chains and directories; `fatp`, `Table` and `Entries` are the FAT12
  format, external to the code. A byte of a file is known by its cluster and its place
  there. cat prints pieces of `BUFFER_SIZE` bytes (1024 in the code), one from each
  cluster whatever `CLUSTER_SIZE` is, each with `"%s"`, which stops at a zero byte
  (`zeros`). `NoArgument` is a command without an argument and `<<>>` the argument `/`,
  which has no names and ends with "cluster not found".

Definitions commented as mutants are changed forms of the definition that
follows them, used only to see that a property notices the change.

## 3. Model checking

| run | instance | shows |
|---|---|---|
| `taskmanager` | 3 tasks, priorities 1, 2, 2; delays of 5 and 15 ms, sleeps of 5 ms or forever, at most 1 recorded wakeup, under `FairSpec`; 150,765 states | `TypeOK`, `QueuesMatchStates`, `RunningIsHighest`, `IdleMeansNobodyReady`, `NoSleeperHasWakeup`, `NoEarlyTimeout`, `TickMakesProgress`, `TickKeepsReadyTasks`, `TimedWaitEnds`, `TimeSlicing`, and that it implements `PriorityScheduler`, with its liveness (`ImplementsPriorityScheduler`) |
| `event` | 3 tasks, one flag whose waiter is task 2 (AND with bit clear, OR with clear), one semaphore of two units, 0 to 2 at the start, used one by one; timeouts of 5 ms or none; 1,372,312 states | `EventTypeOK`, `SemaphoreInRange`, `NoMissedFlag`, `FlagWaitIsSatisfied`, `NoIdleUnits`, and again the queues, the schedule and `NoEarlyTimeout` |
| `examples` | two examples with main at priority 1 and two tasks of another one, the waker's delay being 25 ms; or the shell with lines of up to 4 characters out of three; 24,706 states | `LinesStayWhole`, `BothPrint`, `SleepEnds`, `EchoShowsArgument` |
| `i2c` | 3 tasks, one device; reads and writes of 0 or 2 bytes and one of a byte each way; 209,185 states | `OneTransfer`, `TransferIsOwn`, `UnitComesBack` |
| `fat` | 978 images, some with a zero byte in the file, with two layouts of the boot sector; names of 2 and 1 characters, 2 bytes and 2 entries per cluster, pieces of 2 bytes; 244,968 states | `CatPrintsFile`, `LsListsDirectory`, `ShownNameIsFound`, `FatUnpacked`, `RegionsDisjoint`, `CommandEnds` |
| `display` | a glass as wide as the controller's memory (12 columns) and one of 8, 16 rows; each of the drawing calls below, and any that clear; 0, 1 or all bytes of a command lost, buffer transfers whole or cut after 5 bytes; 274,037 states | `CroppedPlane`, `PictureShown`, `LineReachesBothEnds` |
| `taskqueue` | 4 control blocks, 2 queues; 58,512 states | `WellLinked`, `ImplementsSequences` |
| `tick_race` | the example `events()`: three tasks of one priority | `TickKeepsReadyTasks` fails |
| `late_timeout` | 2 tasks | `TickReleasesAllExpired` fails |
| `lcd_twice` | the shell and 2 LCD tasks | `OneLcdTask` fails |
| `missed_flag` | 1 flag, several waiters | `NoMissedFlag` fails |
| `line_leftwards` | a line from right to left | `LineReachesBothEnds` fails |

Bounds. Two priorities are enough for preemption, two tasks of one priority for
rotation, three tasks for a wait queue with an entry at the head, in the middle
and at the end. A delay below the period and one above it give waits that
expire at the first, second and third tick, so that several wait at once and
expire in and out of the order in which they were queued. `RELTIME_MOD` is 256:
the values in use do not come near it except `TMO_FEVR`, which is its largest
value as in the code. `MaxWakeups` is a guard of `sk_wakeup_task`: the code has
no limit.

In `i2c` one task is of higher priority and two share another, so that a
transfer is preempted by priority and by rotation; 0 bytes is the refused
transfer, 2 leave a first and a last byte. In `fat` four clusters allow a
directory and a file of two clusters each, in every order, beside and between
each other: both parities of a table entry, a chain that runs backwards, a last
cluster that is full or not, an empty file, a deleted entry before or after a
live one. A file whose first piece ends at a zero byte shows that `CatPrintsFile` is
about text files.

In `display` the calls are six lines: a level one over both edges, a steep one, one
that falls, an upright one over the lower edge, and two that cross the top edge, one
of them with a slope that is no exact float; a box inside, one in the corner and one
that begins above the top edge, each filled, empty and cleared; a text within and one
of scale 2 with a character the font lacks; an image over two pages and, on the narrow
glass, over the edge, in both colours. One call draws and any number clear: a call that
draws only adds bits, and what two of them draw is what each draws. Transfers
of any kind come before and after it, of an empty, a drawn and a partly cleared picture;
the cut leaves the controller's place within the first page. The narrow glass begins at
`NARROW_OFFSET`, as that of 64 columns does at 32. In `examples` a line
of 5 can be shorter than, as long as and longer than what was typed, and a long line
before a short one leaves something behind it.

Fairness. `FairSpec` assumes that `main` runs, that the timer keeps ticking,
that a pending PendSV is served and that the idle loop sees a task it may load.
SysTick is a hardware timer with the highest priority and PendSV is served as
soon as interrupts are open, which every `DI`/`EI` section guarantees. Nothing is
assumed of the tasks: they may compute for ever without a call. `ExamplesSpec`
assumes in addition that a task which is given the processor again and again
does its next call or prints its next character (strong fairness of its step):
that takes much less than the 10 ms that rotation gives it each time. In
`PriorityScheduler` the dispatch is weakly fair, which `TaskManager` implements with
the fairness of the two dispatch actions and of the tick. `Fat!Spec` assumes that the shell's code runs on, not that anyone types.

What the failing runs show:

* `tick_race`. Three tasks of one priority; the current one blocks, SysTick
  comes before PendSV, and the rotation takes the ready task at the top out of
  its queue and puts the blocked one in. The ready task is never scheduled
  again. README.md says that the handler "removes the current task from the
  top". `application/examples.c` has three tasks of one priority in `events()`.
  With two tasks per priority the queue is too short to be rotated then, and
  the property is a theorem (section 4).
  `TickRace.cfg` runs that example call by call.
* `late_timeout`. A tick ends one wait only and counts down nothing behind it.
  `TickMakesProgress` and `TimedWaitEnds` show that the waits behind it still
  end, one tick later for each wait that ends before them.
* `lcd_twice`. A signal looks for any task that waits for a semaphore. The
  second LCD task waits for `sid`; the first ends an I2C transfer, and the signal
  of the unit's semaphore ends that wait with `E_OK`. Both tasks draw, and the
  I2C semaphore has lost its only unit, so that the next transfer of either
  waits for ever. With one semaphore (`event`, `i2c`, `examples`) the code is
  right.
* `missed_flag`. A call that sets a flag wakes one task at most, so that one of
  two tasks that wait for a bit keeps waiting while the bit is set.
* `line_leftwards`. `swap` in `ssd1306.c` copies the second value over the first and
  back over itself, so that a line from right to left is the point at its left end.
  `ssd1306.h` speaks of a starting point and an end point, in no order.

Two more disagreements with `ssd1306.h` have no run, because they are seen in one call. The
sides of an empty square reach `x + width` and `y + height` (`ssd1306.c:159`), one
column and one row beyond the width and the height that the header documents with the
words of `ssd1306_draw_square`, which draws width by height: `OutlineDescribed` is the
outline the code draws, and `CroppedPlane` says of it only that it is cut at the edges.
The header says that any argument but 0 inverts (`ssd1306.h:122`); the driver looks at the
last bit only (`ssd1306.c:102`), so that 2 does not invert, and `PictureShown` is about
the picture, inverted or not.

The passing run `event` keeps to what the code can do right: one waiter per
flag, one semaphore, single units. With requests of different sizes a unit may
lie idle behind a waiter that asks for more; that is the FIFO order of the code,
and `NoIdleUnits` does not hold then. That the value stays in range with any counts
is the theorem `SemaphoreRange`.

## 4. Proofs

TLAPS checks the eight modules that hold theorems or lemmas to the last leaf, for
any number of tasks, priorities, queues, flags, semaphores and devices and for any
times, counts and patterns, as far as no assumption below and none on the constants
says otherwise. A theorem names each assumption it needs:

| assumption | stated in | why it is needed |
|---|---|---|
| `AtMostTwoPerPriority` | `TaskManager` | with three tasks of a priority a tick takes a ready one out of its queue (run `tick_race`) |
| `TimesInRange`, `EventTimesInRange` | `TaskManager`, `EventProofs` | no timeout of zero and none that wraps: such a task could be woken by the tick that comes before it is dispatched |
| `UnitsInOrder` | `Event` | `event.c` tests neither the initial value of a semaphore nor the counts: a value above the maximum, a count of none or less, or a sum that overflows an int leaves the range |
| `OneDevice` | `I2cProofs` | a signal takes a waiter of any semaphore (run `lcd_twice`) |
| `SingleUnits` | `EventProofs` | a waiter that asks for more than there is keeps those behind it from what there is |
| `OneFlag` | `EventProofs` | setting a flag takes a waiter of any flag |
| `OneFlagWaiter` | `EventProofs` | setting a flag ends one wait only (run `missed_flag`) |
| `WholePieces` | `Fat` | the shell takes 1024 bytes from each cluster, whatever its size |
| `LinesForward` | `Display` | a line to the left, or up in one column, is drawn as a point (run `line_leftwards`) |

The assumptions on the constants themselves stand beside their declarations, and TLC
evaluates them in every run. Some of them say more than what the constants are.
`DriverCalls` (`I2c`) and `ExampleCalls` (`Examples`) say that the calls which the
programs make are among those the module of the kernel is given. `FatAssumption` and
`PathAssumption` (`Fat`) say what an image and a path are, and `DisplayAssumption`
(`Display`) what a font and a bitmap file are; the sections on the reader and the display
explain them.

The runs `taskmanager`, `event`, `i2c`, `examples`, `fat` and `display` are instances
that satisfy what the theorems about their properties assume.

### Task queues

* `QueuesWellLinked`: `QueueSpec => []WellLinked`, and `SequencesImplemented`: the
  pointers implement `TaskQueueSpec`, for any finite set of control blocks. The
  invariant is `QueueInv`: the links represent the sequences of `Content`
  (`Represents`: head, next and prev of every entry, and no entry in two queues), and a
  walk stands at an entry of its queue. `FollowingIs` says that the entries found along
  the pointers are that sequence; the function it is about is defined recursively, and
  `FromExists` shows that there is one. Then `AddRepresents`, `RemoveTopRepresents` and
  `RemoveEntryRepresents` treat the three operations on the links, and a lemma per
  action the steps.

### Task manager

* `TypeCorrect`: `Spec => []TypeOK`, from `TaskManagerAssumption` alone. It needs
  `TickHasTask` beside the types: when a tick is possible and the idle loop is
  not running, `curr_task` is not NULL.
* `QueuesCorrect`, `PriorityScheduling`, `IdleSound`, `RotationSound` and
  `EveryTickHelps`, from `AtMostTwoPerPriority` and `TimesInRange`.
* `NoLostWakeup`: `Spec => []NoSleeperHasWakeup`, from the types alone, so that it
  holds also where a tick corrupts a ready queue.
* `TimeoutsNotEarly`: `Spec => NoEarlyTimeout` if `TimesInRange`. The invariant is
  `PromiseKept`: what is left of the time a task asked for is at least a period less
  than what its control block counts down.
* `SchedulerImplemented`: if `AtMostTwoPerPriority` and `TimesInRange`, `Spec` implies
  the initial condition and the next-state relation of `PriorityScheduler` under the
  mapping of `Promise`. Each kind of step has its lemma: `WakeRefines`, `LeaveRefines`,
  `TickRefines`, `DispatchRefines`, `StutterRefines`. The hard one is the tick
  (`TickSwitches`): it takes the processor away exactly if a task that is not less
  urgent is ready after it, because the rotation puts the current task behind any
  other of its priority. That a dispatch follows is checked by TLC.

The invariant `Inv` of `TaskManagerProofs` is inductive. `QueuesMatchStates` is
not inductive alone: the rotation preserves it only if the entry it removes is
`curr_task`. `CurrAtTick` says so for every state in which a tick may come: a
ready `curr_task` is at the top of its queue, and a waiting one is not about to
expire. In the second case, and when `curr_task` has exited, the queue holds at
most one other task of the same priority and is not rotated.
`ScheduledIsTop` says that `scheduled_task` is the top of the ready queues in
every state, because every change of them is followed by `scheduler`, and
`Phases` that a task executes only if it is the scheduled one. With
`QueuesMatchStates` this gives `RunningIsHighest` and `IdleMeansNobodyReady`.
`EveryTickHelps` adds that positions in `wait_queue` do not grow: what the walk hides
behind the first expired task moves up by one.

### Flags and semaphores

* `EventQueuesCorrect`, `EventPriorityScheduling` and `EventTimeoutsNotEarly`: what was
  proved of the task manager holds of `EventSpec`. Every step of `Event` is one
  of the kernel's kinds of step (`EventKernelStep`), a block, a release or a step of
  `TaskManager`, so that `BlockInv` and `ReleaseInv` are used again.
* `EventTypeCorrect`, from no assumption on the application: the value of a semaphore is
  an integer, of which nothing more is said.
* `SemaphoreRange`, if `UnitsInOrder`: a semaphore keeps between none and `max_value`
  units whatever tasks signal, wait for and time out from.
* `UnitsNotIdle`, if `SingleUnits`: a free unit and a waiter exclude each other
  (`NoneFree`); the loop of `sk_signal_semaphore` ends with the first waiter it serves, and
  the next signal serves the next.
* `FlagsNotMissed`, if `OneFlagWaiter`, by the invariant `Unsatisfied`; and
  `FlagWaitsSatisfied`, if `OneFlag`: a wait that ends with `E_OK` was satisfied by the
  pattern it reports, and the flag is cleared as its mode asks.

### I2C driver

* `DriverUsesSemaphores`: `I2cSpec => EventSpec`. The driver only uses a semaphore that
  exists, with counts and timeouts the event module knows (`DriverCalls`), so that
  every theorem about `EventSpec` holds of it.
* `TransfersExclude`, `UnitsComeBack` and `TransfersOwnCounts`, if `OneDevice` and the
  assumptions of the task manager. The invariant `DriverInv` adds to `Inv` and the types
  that the unit's semaphore has the value one if no task uses the unit and zero if
  one does (`Exclusion`, `UnitHeld`), and that a task that waits for a semaphore is at the
  beginning of its transfer (`WaitsForUnit`). A wait has no timeout, so that it ends
  only by a signal that hands the unit over.

### Examples and shell

* `ExamplesUseKernel`: `ExamplesSpec => EventSpec`, for each of the examples. A program
  never passes an identifier that was not created, because the main task creates flag
  or semaphore and tasks in the order of its calls (`Existing`, `Programmed`).
* `LinesWhole`: `ExamplesSpec => []LinesStayWhole`, if `AtMostTwoPerPriority`,
  `TimesInRange` and `EventTimesInRange`. The invariant `LineInv` joins `Inv` of the task
  manager and the types to `PrintInv`: the semaphore's value is one if no task is between
  its wait and its signal and zero if one is (`Held`), a printer that waits has no timeout
  and waits for this semaphore (`PrinterWaits`), and only the task that holds it, or
  the main task before there is a semaphore, may be inside of `_write` (`Lines`). That
  the main task prints without the semaphore is harmless because it has not started
  the others; `Beginnings` says so.
* `EchoRepeats`: `ExamplesSpec => []EchoShowsArgument`, from no assumption but that a key
  is neither Enter nor one of the two marks of the model. The invariant `ShellInv` says that
  the array begins with what was typed (`Filled`) and that an end mark follows it when
  the command runs. What lies behind the mark is arbitrary; that `strtok` and the search
  for the end never look there is the lemma `StringIs` and what follows from it.

### FAT reader

The theorems hold for any number of images, directories and paths, any sizes of
clusters and names, and any lengths of chains; `CatPrints` for clusters as large as the
shell's buffer (`WholePieces`) and files without zero bytes (`IsText`). An image is one `mtools` makes
(`WellFormed`): chains share no cluster and visit none twice, a directory fills the clusters
of its chain, the size of a file fits the number of its clusters, names are written in
capitals with blanks at the end of each part, and no two live entries of a directory
have the same name. The code relies on all of this and tests none of it.
`PathAssumption` excludes paths that take a file with contents for a directory: the code
would read the file's bytes as entries.

* `RegionsApart`: `Spec => []RegionsDisjoint`, for every boot sector with sectors that are
  not empty. It is the lemma `RoundedUp` on the quotient in `fat_init`.
* `TableUnpacked`: `Spec => []FatUnpacked`. Two entries of twelve bits share three bytes;
  the lemma `Unpacked` takes them apart for an even and an odd cluster and any neighbour.
* `LsLists`, `CatPrints`: `LsListsDirectory` and `CatPrintsFile`. The invariant `FatInv`
  has a part per function of the code. `AtPath`: after `n` names of the path, the entry and the
  cluster are those of the only live entry that these names denote (`Answers`; `Ways` are the
  sequences of directories along a path). `AtFind`: the reader stands in a cluster whose entries
  are those of one directory from `skip` on (`Stands`), and has found the name if
  it is among those before (`Finding`). `AtList`: what is printed are the entries before
  that place (`Listing`). `AtRead`: the first `k` pieces are printed, the cluster is the
  next one of the chain and `left` what the pieces leave (`Reading`, `Piece`). `AtPrompt`:
  what was shown is complete. A walk goes on beyond a deleted entry only with the next
  cluster, which is why a directory is listed whole only if it is `Compact`.
* `ShownNamesWork`: `ShownNameIsFound`, by the same invariant and the lemma `NameAgain`: if
  a name is padded with blanks and has no dot, its two parts are found again
  around the dot that `fat_get_entry_name` puts between them.

### Display

The theorems hold for any glass that fits the controller's memory and has whole pages,
for any number of calls, for any texts and images, on the screen or beyond it, and for
lines and squares whose coordinates are within 1000 of the corner. With these the error
of the float is below 2^-24 * (2 * |y2 - y1| + 1000), which is less than the distance
1 / (x2 - x1) of two values that the exact row can have, so that it changes no row but
where the exact one is an integer (`Low`). `DisplayAssumption` says how a font
keeps what its characters look like (`FontFormat`, after the comment in `font.h`) and how a
bitmap file keeps its picture (`ImageFormat`). Both are stated from the side of the files;
that the driver's own arithmetic arrives at the same bytes is what the lemmas `FontByteIs`
and `StrideIs` show.

* `DrawnAsDescribed`: `Spec => []CroppedPlane`, if `LinesForward`. A point on the screen has
  a bit of its own in the buffer (`PlaceOfPoint`, `PlaceIsOne`), so that a call sets the
  bits of its points on the screen and no others (`BitIs`). Each kind of drawing then
  agrees with what it describes (`Agrees`): `LineAgrees` compares the cut quotient with
  the inequality that says which rows a line crosses in a column, `OutlineAgrees` the
  four sides of an empty square with the outline of width + 1 by height + 1 that the
  code draws, `CharacterIs` and `TextIs` text of any scale, `ImageIs` a
  bitmap. A line or square above the top edge may leave points in row 0 and in no
  other. The invariant `Buffered` says beside `CroppedPlane` what the bytes are and that
  nothing is drawn before `ssd1306_init`.
* `ShownAsDrawn`: `Spec => []PictureShown`, if `LinesForward`. What a transfer of `n` bytes
  leaves in the controller is defined byte by byte; `ReceivedIs` shows that it is
  `PanelAfter`, which says of each cell whether it was among the `n` bytes, by `PanelMoves`
  for one more byte and a least counterexample. A transfer of the whole buffer
  fills the window, wherever an earlier one stopped, because `Window` sets the place
  anew (`WindowIs`). The invariant `Holding` says that the memory behind the glass holds
  the picture of the last complete transfer, and that the controller is not confused
  then; it does not depend on the panel being on or inverted.
* `LinesReachEnds`: `Spec => LineReachesBothEnds`, if `LinesForward`, by the lemma `LineEnds`.
  The quotient is cut off, and where it is exact the float may come out lower by
  one row; both are within the one row that the property allows.

### Memory and clock

* `StacksSeparate`, `MainStackNotSeparate`, `HeapKeepsOff` about `Memory`, for any
  `MAX_TASKS` above 3, any end of the program's variables below the stacks and any
  requests. The stacks that the kernel chooses are apart. The one of the main task is
  not: it is `TASK_STACK_BASE_N(3)` with a size of 5 KB (`task_manager.c:19`), which
  covers the areas of the tasks with index 2 and 3 and half of that of index 1. The
  main task runs the shell, whose lcd command starts tasks of index 1 and 2: the
  frame of the second is written into the middle of the main task's stack. The heap
  keeps off the stacks if one task at a time is in `_sbrk` (`OneCaller`); the test and
  the growth are not one step, so that the assumption is needed.
* `SecondsCounted` and `TimeNeverBack` about `Clock`: until the tick counter wraps after
  2^32 ticks the clock shows the seconds that have passed; 2^32 is not a multiple of
  100, so that it is four ticks ahead after that. `time()` never goes back.

### How the proofs are laid out, and what is left to TLC

`QueueLemmas` has facts about sequences without duplicates, used by `TaskQueueProofs`,
by `FatProofs` and by `TaskManagerProofs`, which lifts them to the ready queues
(`AddReadyHolds`, `RemoveTopReadyHolds`, `TopIsTop`, `WalkCases`) and has one lemma per
kind of step (`BlockInv`, `ReleaseInv`, `StartInv`, `ExitInv`, `CreateInv`, `TickInv`,
`DispatchInv`, `MainInv`). `EventProofs` extends it; `I2cProofs` and `ExamplesProofs`
extend `EventProofs` with the programs of their tasks. Each inductive invariant was
checked by TLC on the instance of its run, or on a smaller one, before it was proved.

Only model-checked:

* The liveness properties (`TimedWaitEnds`, `TimeSlicing`, `BothPrint`, `SleepEnds`,
  `CommandEnds`, and the fairness of the refinement of `PriorityScheduler`), which are out
  of the prover's reach.

Every invariant and action property of a passing run is stated by a theorem.

## 5. Not modelled

* The registers that a context switch saves and loads; boot up to `main`, which
  writes hardware registers in a fixed order; how deep a task's stack is in use.
* The create calls on a full table of flags or semaphores (their search runs past
  its end) and a priority of `MAX_TASK_PRI`.
* The search of a device by name, the registers of the I2C controller, and slave
  addresses.
* In `Fat`: `fat_print_*`, a file taken for a directory (its bytes would be read as
  entries), cat without an argument, names longer than their fields, damaged
  images. A file with zero bytes, a disk whose clusters are not of 1024 bytes and the
  argument `/` are modelled as the code has them; what cat ought to print of the first
  two nothing in the repository says. `fat_get_entry_name` shows a directory without its extension, so that a
  directory that has one cannot be found by the name ls shows; `ShownNameIsFound` speaks
  of the names that are shown whole. A missing directory in a path is modelled as the code has it (the
  search goes on in the root); no property says what ought to happen.
* In `Display`: the contrast, the values of the other registers set at
  initialisation, images whose lines are stored from the top down, coordinates that
  wrap around at 2^32, and what a controller shows that was sent a part of a command.
* In `Shell`: the commands that only print (help, whoami, version, fat, pwd, cd,
  uptime, memread). echo without an argument prints what an earlier line left in the
  array; the model does so, and `EchoShowsArgument` speaks of echo with one.
* The C library calls that return constants; `sk_uart0_puts`, which never advances and
  which nothing calls.
* Sums of units that overflow an int. A semaphore that starts above its maximum and
  counts of none or less are in the model, and `EventTypeCorrect` holds for them.
* Two flags at once: a waiter would be released by the wrong flag, as `lcd_twice`
  shows for semaphores, and no document says otherwise for flags.

## 6. Plan

The components and the proofs planned for them are done, as far as sections 4 and 5 say.
Should the code change, the definitions named in `PROJECT.json` for the changed lines come
first, then the runs, then the lemmas of the steps that changed.
