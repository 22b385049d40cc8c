---------------------------- MODULE MCTaskManager ----------------------------
(* The task manager with a handful of tasks.  RELTIME is eight bits wide,  *)
(* so that a value that wraps is within reach.                             *)
EXTENDS TaskManager

(* The first task has a priority of its own, the others share the next. *)
OneAndPairs == [t \in TaskId |-> IF t = 1 THEN 1 ELSE 2]
Delays == {5, 15}
SleepTimes == {TMO_FEVR, 5}
NoTimes == {}
OneDelay == {5}
=============================================================================
