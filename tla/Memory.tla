------------------------------- MODULE Memory -------------------------------
(***************************************************************************)
(* Where pico-os1 puts the stacks of its tasks, the first context of a     *)
(* task and the heap of the C library: include/kerneldef.h, sk_create_task *)
(* (kernel/task_manager.c), make_context (kernel/context.c) and _sbrk      *)
(* (kernel/syscalls.c).  Tasks are named by their index in tcb_table.      *)
(*                                                                         *)
(* The stack_addr of a task is the lowest address of its stack: the kernel *)
(* adds stack_size before it pushes the first frame.                       *)
(***************************************************************************)
EXTENDS Integers

CONSTANTS
    MAX_TASKS,      \* number of task control blocks
    bss_end,        \* where the linker ends the variables of the program
    Callers,        \* the tasks that call _sbrk
    Increments      \* what they ask for

INITIAL_STACK_BASE == 536870912 + 262144       \* SRAM_BASE + SRAM_SIZE
INITIAL_STACK_SIZE == 256
MAIN_TASK_STACK_SIZE == 5 * 1024
MAIN_TASK_STACK_BASE == INITIAL_STACK_BASE - INITIAL_STACK_SIZE
TASK_STACK_SIZE == 2 * 1024
TASK_STACK_BASE == MAIN_TASK_STACK_BASE - MAIN_TASK_STACK_SIZE
TASK_STACK_UPPER_LIMIT == TASK_STACK_BASE - TASK_STACK_SIZE * MAX_TASKS
TASK_STACK_BASE_N(x) == TASK_STACK_BASE - TASK_STACK_SIZE * x

FRAME == 16 * 4     \* sizeof(StackFrame): sixteen words

TaskIndex == 0 .. (MAX_TASKS - 1)

(* What the theorems assume: the stacks leave room below them. *)
Layout == /\ MAX_TASKS \in Nat /\ MAX_TASKS > 3
          /\ bss_end \in Nat /\ bss_end <= TASK_STACK_UPPER_LIMIT
          /\ Increments \subseteq Int

VARIABLES
    stack_addr, stack_size,         \* tcb_table[i], zero before its creation
    context,                        \* tcb_table[i]
    heap_end, prev_heap_end,        \* shared by all that call _sbrk
    pc, asked                       \* a caller that is inside of _sbrk

taskVars == <<stack_addr, stack_size, context>>
heapVars == <<heap_end, prev_heap_end, pc, asked>>
memoryVars == <<taskVars, heapVars>>

Created == {i \in TaskIndex : stack_size[i] > 0}

(* The first control block that is not in use takes the stack. *)
Place(i, addr, size) ==
    /\ i \notin Created
    /\ \A j \in 0 .. (i - 1) : j \in Created
    /\ stack_addr' = [stack_addr EXCEPT ![i] = addr]
    /\ stack_size' = [stack_size EXCEPT ![i] = size]
    /\ UNCHANGED <<context, heapVars>>

(* main() creates the main task, with a stack of its own choice. *)
main == /\ Created = {}
        /\ Place(0, TASK_STACK_BASE_N(3), MAIN_TASK_STACK_SIZE)

(* Every other task gets the stack of its index. *)
sk_create_task ==
    /\ 0 \in Created
    /\ \E i \in TaskIndex : Place(i, TASK_STACK_BASE_N(i), TASK_STACK_SIZE)

(* The first frame of a task is at the top of its stack.  That only a      *)
(* dormant task is started is left to TaskManager: a task that is started  *)
(* again has its frame at the same place.                                  *)
make_context(sp, ssize) == sp + ssize - FRAME

sk_start_task(i) ==
    /\ i \in Created
    /\ context' = [context EXCEPT ![i] = make_context(stack_addr[i], stack_size[i])]
    /\ UNCHANGED <<stack_addr, stack_size, heapVars>>

(* _sbrk up to its test, and the rest: nothing masks interrupts between.   *)
_sbrk(c, incr) ==
    /\ pc[c] = "out"
    /\ prev_heap_end' = heap_end
    /\ IF heap_end + incr > TASK_STACK_UPPER_LIMIT
       THEN UNCHANGED <<pc, asked>>
       ELSE /\ pc' = [pc EXCEPT ![c] = "tested"]
            /\ asked' = [asked EXCEPT ![c] = incr]
    /\ UNCHANGED <<taskVars, heap_end>>

_sbrk_grow(c) ==
    /\ pc[c] = "tested"
    /\ heap_end' = heap_end + asked[c]
    /\ pc' = [pc EXCEPT ![c] = "out"]
    /\ UNCHANGED <<taskVars, prev_heap_end, asked>>

MemoryInit ==
    /\ stack_addr = [i \in TaskIndex |-> 0]
    /\ stack_size = [i \in TaskIndex |-> 0]
    /\ context = [i \in TaskIndex |-> 0]
    /\ heap_end = bss_end
    /\ prev_heap_end = 0
    /\ pc = [c \in Callers |-> "out"]
    /\ asked = [c \in Callers |-> 0]

MemoryNext ==
    \/ main
    \/ sk_create_task
    \/ \E i \in TaskIndex : sk_start_task(i)
    \/ \E c \in Callers : \E incr \in Increments : _sbrk(c, incr)
    \/ \E c \in Callers : _sbrk_grow(c)

MemorySpec == MemoryInit /\ [][MemoryNext]_memoryVars

-----------------------------------------------------------------------------
Apart(i, j) == \/ stack_addr[i] + stack_size[i] <= stack_addr[j]
               \/ stack_addr[j] + stack_size[j] <= stack_addr[i]

(* The stacks that the kernel chooses do not meet each other, whatever is  *)
(* created, and the first frame of a task is inside of its stack.          *)
StacksApart == \A i, j \in Created \ {0} : i # j => Apart(i, j)

FramesInStacks ==
    \A i \in Created : context[i] # 0 =>
        /\ stack_addr[i] <= context[i]
        /\ context[i] + FRAME = stack_addr[i] + stack_size[i]

(* The stack of the main task, which runs the shell, does meet those of    *)
(* the first tasks that the shell creates: starting the second of them     *)
(* writes its frame into the middle of the main task's stack.              *)
MainStackShared ==
    /\ \A i \in {1, 2, 3} : {0, i} \subseteq Created => ~Apart(0, i)
    /\ ({0, 2} \subseteq Created /\ context[2] # 0) =>
          /\ stack_addr[0] < context[2]
          /\ context[2] + FRAME < stack_addr[0] + stack_size[0]

(* The heap stays below the limit of the stacks, and they above it.        *)
HeapBelowStacks ==
    /\ heap_end <= TASK_STACK_UPPER_LIMIT
    /\ \A i \in Created : TASK_STACK_UPPER_LIMIT <= stack_addr[i]
=============================================================================
