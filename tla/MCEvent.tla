------------------------------- MODULE MCEvent -------------------------------
(* Three tasks, the last two of the same priority, that share flags and    *)
(* semaphores.                                                             *)
EXTENDS Event

OneAndPairs == [t \in TaskId |-> IF t = 1 THEN 1 ELSE 2]
NoTimes == {}
Waits == {TMO_FEVR, 5}

NoBits == {{}}
TwoBits == {{1}, {2}}
BitWaits == {<<{1, 2}, {"BITCLR"}>>, <<{1, 2}, {"ORW", "CLR"}>>}
LedWaits == {<<{1}, {}>>}
OneTask == {2}
AllTasks == TaskId
NoTask == {}

Pools == {[initial_value |-> v, max_value |-> 2] : v \in 0 .. 2}
One == {1}
=============================================================================
