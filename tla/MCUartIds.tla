------------------------------ MODULE MCUartIds ------------------------------
(***************************************************************************)
(* Instances of UartIds: three devices, d1 has an alias.                   *)
(***************************************************************************)
EXTENDS UartIds

CONSTANTS d1, d2, d3

ThreeDevices == {d1, d2, d3}

\* serial1 names d1; serial2 names a device that is never plugged.
Alias3 == [d \in ThreeDevices |-> IF d = d1 THEN 1 ELSE NoId]
AliasIds3 == {1, 2}
=============================================================================
