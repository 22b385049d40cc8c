------------------------------- MODULE MCI2c -------------------------------
(* Three tasks, the last two of the same priority, that use one device. *)
EXTENDS I2c

OneAndPairs == [t \in TaskId |-> IF t = 1 THEN 1 ELSE 2]
Unused == {}
OneDelay == {5}
Iica == {0}
BothModes == {{"READ", "WRITE"}}
Few == {0, 2}
UnitInfos == {UnitSemaphore}
SingleUnit == {1}
NoTimeout == {TMO_FEVR}
=============================================================================
