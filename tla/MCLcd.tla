------------------------------- MODULE MCLcd -------------------------------
(* The shell with priority 1 and LCD tasks of another one. *)
EXTENDS Lcd

Priority == [t \in TaskId |-> IF t = shell THEN 1 ELSE 2]
Unused == {}
BothUnits == {iica, iicb}
TwoBytes == {2}
UnitInfos == {UnitSemaphore}
SingleUnit == {1}
NoTimeout == {TMO_FEVR}
=============================================================================
