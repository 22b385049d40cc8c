----------------------------- MODULE MCExamples -----------------------------
(* The main task has priority 1 and the tasks of an example share another. *)
EXTENDS Examples

Priority == [t \in TaskId |-> IF t = 1 THEN 1 ELSE 2]
Unused == {}
Delays == {1, Second, HalfSecond}
WithoutTimeout == {TMO_FEVR}
Units == {OneUnit}
Everybody == TaskId
TwoTasksOrShell == {"preemptive", "sleep_wake", "shell"}
Typed == {"e", " ", "a"}
NoBits == {{}}
ButtonBits == {{1}, {2}}
LedWaits == {<<b, {"BITCLR"}>> : b \in ButtonBits}
OnlyEvents == {"events"}
=============================================================================
