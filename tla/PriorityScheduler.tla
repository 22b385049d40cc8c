-------------------------- MODULE PriorityScheduler --------------------------
(***************************************************************************)
(* What the kernel of pico-os1 promises to its tasks: of the tasks that    *)
(* are ready one of the highest priority (the smallest number) runs, a     *)
(* ready task leaves only by its own call, and the processor is given up   *)
(* exactly when there is a reason to: the task leaves, a more urgent one   *)
(* becomes ready, or a tick finds another task that is as urgent.          *)
(*                                                                         *)
(* Queues, exceptions and waits are not seen here: TaskManager implements  *)
(* this specification.                                                     *)
(***************************************************************************)
EXTENDS Integers

CONSTANTS
    Task,       \* identifiers of the tasks
    pri,        \* their priorities
    NoTask      \* no task runs: a switch is due, or the processor is idle

VARIABLES
    ready,      \* the tasks that could run
    running     \* the task that runs

schedulerVars == <<ready, running>>

(* A task of set that is not less urgent than t. *)
Rival(set, t) == \E u \in set \ {t} : pri[u] <= pri[t]

Init == ready = {} /\ running = NoTask

(* Somebody makes t ready: the running task, or main before any runs. *)
Wake(t) ==
    /\ t \notin ready
    /\ ready' = ready \cup {t}
    /\ running' = IF running # NoTask /\ pri[t] < pri[running]
                  THEN NoTask ELSE running

(* The running task waits or ends. *)
Leave ==
    /\ running # NoTask
    /\ ready' = ready \ {running}
    /\ running' = NoTask

(* A tick ends at most one wait, and takes turns among equals. *)
Tick ==
    /\ \/ ready' = ready
       \/ \E t \in Task \ ready : ready' = ready \cup {t}
    /\ running' = IF running # NoTask /\ Rival(ready', running)
                  THEN NoTask ELSE running

Dispatch ==
    /\ running = NoTask
    /\ \E t \in ready : /\ \A u \in ready : pri[t] <= pri[u]
                        /\ running' = t
    /\ UNCHANGED ready

Next == (\E t \in Task : Wake(t)) \/ Leave \/ Tick \/ Dispatch

(* While a task is ready the processor is given to one. *)
Spec == Init /\ [][Next]_schedulerVars /\ WF_schedulerVars(Dispatch)
=============================================================================
