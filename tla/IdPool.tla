------------------------------- MODULE IdPool -------------------------------
(***************************************************************************)
(* What the line-number allocator of the UART driver promises: a device    *)
(* holds at most one number, no two devices hold the same one, and the     *)
(* numbers reserved for the aliases of the device tree go only to the      *)
(* devices they are reserved for.  UartIds implements it.                  *)
(***************************************************************************)
CONSTANTS Devices,      \* the platform devices
          Ids,          \* the line numbers
          Reserved,     \* the numbers no device may pick for itself
          Own,          \* Own[d]: the number d must get, or NoId
          NoId

VARIABLE holder         \* holder[d]: the number d holds, or NoId

Init == holder = [d \in Devices |-> NoId]

\* A number is handed out only if nobody holds it, and a reserved one only to
\* the device it is reserved for.
Acquire(d, i) ==
  /\ holder[d] = NoId
  /\ \A e \in Devices : holder[e] # i
  /\ Own[d] # NoId => i = Own[d]
  /\ Own[d] = NoId => i \notin Reserved
  /\ holder' = [holder EXCEPT ![d] = i]

Release(d) ==
  /\ holder[d] # NoId
  /\ holder' = [holder EXCEPT ![d] = NoId]

Next == \E d \in Devices : Release(d) \/ \E i \in Ids : Acquire(d, i)

Spec == Init /\ [][Next]_holder
=============================================================================
