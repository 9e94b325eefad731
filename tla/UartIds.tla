------------------------------- MODULE UartIds -------------------------------
(***************************************************************************)
(* Probe and remove of the byu_uartlite driver (byu_uartlite.c): the       *)
(* bitmap of line numbers, the registration of one uart_driver per device  *)
(* and the global console_port.                                            *)
(*                                                                         *)
(* Each device is probed and removed by some kernel thread; probes of      *)
(* different devices interleave.  Only ulite_get_id and the clear_bit      *)
(* sections run under bitmap_lock, each of them one step here.             *)
(***************************************************************************)
EXTENDS Naturals, FiniteSets

CONSTANTS Devices,      \* platform devices that match the driver
          MaxId,        \* MAX_UART_INSTANCES
          Alias,        \* Alias[d]: serialN alias of d in the tree, or NoId
          AliasIds,     \* alias_bitmap: the numbers of all serial aliases
          Requested,    \* Requested[d]: "port-number" or pdev->id, or NoId
          ConsoleId,    \* the N of console=ttyULN, or NoId
          Threads,      \* how many devices are probed or removed at a time
          NoId, Null, Freed

Ids == 0 .. MaxId - 1

ASSUME MaxIdAssumption == MaxId \in Nat
ASSUME NoIdAssumption == NoId \notin Nat
ASSUME PortAssumption == Null \notin Devices /\ Freed \notin Devices /\ Null # Freed
ASSUME AliasAssumption ==
  /\ AliasIds \subseteq Ids
  /\ Alias \in [Devices -> AliasIds \cup {NoId}]
  /\ \A d, e \in Devices : Alias[d] = Alias[e] /\ d # e => Alias[d] = NoId
ASSUME RequestedAssumption == Requested \in [Devices -> Ids \cup {NoId}]
ASSUME ConsoleIdAssumption == ConsoleId \in Ids \cup {NoId}
ASSUME ThreadsAssumption == Threads \in Nat

VARIABLES
  bitmap,       \* numbers marked as taken, alias numbers included
  pc,           \* pc[d]: how far the probe or the removal of d has come
  id,           \* id[d]: pdata->id, NoId when d has no pdata
  minors,       \* char-device minors held by registered uart_drivers
  console_port, \* the global console_port: Null, a device's port, or Freed
  enabled       \* devices whose console is enabled (CON_ENABLED)

vars == <<bitmap, pc, id, minors, console_port, enabled>>

(***************************************************************************)
(* "named"      ulite_get_id returned, driver not yet registered           *)
(* "registered" uart_register_driver succeeded                             *)
(* "claim"      console_port was read as NULL, about to be written         *)
(* "adding"     in uart_add_one_port, register_console still to come       *)
(* "added"      uart_add_one_port returned 0                               *)
(* "unclaim"    console_port was found to be ours, about to be cleared     *)
(* "addFailed"  at err_out_clk_disable     "failing"  at err_out_id        *)
(* "releasing"  ulite_remove entered       "released" port removed         *)
(* "cleared"    bit cleared                "dropped"  console_port checked *)
(* "oops"       the thread died on a NULL pointer                          *)
(***************************************************************************)
Probed == {"registered", "claim", "adding", "added", "unclaim", "addFailed",
           "oops", "bound", "releasing", "released"}
Holding == Probed \cup {"named", "failing"}     \* the number is still d's
HasMinor == Probed \cup {"cleared", "dropped"}  \* its uart_driver is registered
Pcs == Holding \cup HasMinor \cup {"unbound"}
Resting == {"unbound", "bound", "oops"}         \* no thread is at work
Unmapped == {"addFailed", "failing",            \* port->mapbase was zeroed
             "released", "cleared", "dropped"}

TypeOK ==
  /\ bitmap \subseteq Ids
  /\ pc \in [Devices -> Pcs]
  /\ id \in [Devices -> Ids \cup {NoId}]
  /\ minors \subseteq Ids
  /\ console_port \in Devices \cup {Null, Freed}
  /\ enabled \subseteq Devices

Init ==
  /\ bitmap = {}
  /\ pc = [d \in Devices |-> "unbound"]
  /\ id = [d \in Devices |-> NoId]
  /\ minors = {}
  /\ console_port = Null
  /\ enabled = {}

Goto(d, label) == pc' = [pc EXCEPT ![d] = label]

FreeThread == Cardinality({d \in Devices : pc[d] \notin Resting}) < Threads

Held == {id[d] : d \in {e \in Devices : pc[e] \in Holding}}

(***************************************************************************)
(* ulite_get_id, one step under bitmap_lock.  A requested number is used   *)
(* as it is, before any alias, and is not marked in the bitmap.            *)
(***************************************************************************)
Wanted(d) == IF Requested[d] # NoId THEN Requested[d] ELSE Alias[d]

MarkedWithoutAliases == bitmap                  \* mutant

Marked == bitmap \cup AliasIds

FirstFree(i) == i \in Ids \ Marked /\ \A j \in Ids \ Marked : i <= j

GetIdPastEnd(d) ==                              \* mutant: no "No free ID" test
  /\ pc[d] = "unbound" /\ FreeThread
  /\ \E i \in 0 .. MaxId : /\ i \notin Marked /\ \A j \in 0 .. i : j = i \/ j \in Marked
                           /\ id' = [id EXCEPT ![d] = i] /\ bitmap' = Marked \cup {i}
  /\ Goto(d, "named")
  /\ UNCHANGED <<minors, console_port, enabled>>

GetId(d) ==
  /\ pc[d] = "unbound"
  /\ FreeThread
  /\ \/ /\ Wanted(d) # NoId
        /\ id' = [id EXCEPT ![d] = Wanted(d)]
        /\ bitmap' = Marked
        /\ Goto(d, "named")
     \/ /\ Wanted(d) = NoId
        /\ \E i \in Ids : /\ FirstFree(i)
                          /\ id' = [id EXCEPT ![d] = i]
                          /\ bitmap' = Marked \cup {i}
        /\ Goto(d, "named")
     \/ /\ Wanted(d) = NoId                 \* "No free ID"
        /\ Ids \subseteq Marked
        /\ bitmap' = Marked
        /\ UNCHANGED <<id, pc>>
  /\ UNCHANGED <<minors, console_port, enabled>>

(***************************************************************************)
(* uart_register_driver.  The kernel refuses a second driver for the same  *)
(* major and minor; it, or an allocation before it, may also fail on its   *)
(* own.                                                                    *)
(***************************************************************************)
RegisterDriver(d) ==
  /\ pc[d] = "named"
  /\ \/ id[d] \notin minors /\ minors' = minors \cup {id[d]} /\ Goto(d, "registered")
     \/ Goto(d, "failing") /\ UNCHANGED minors
  /\ UNCHANGED <<bitmap, id, console_port, enabled>>

(***************************************************************************)
(* The rest of ulite_probe up to ulite_assign.  When the memory, the       *)
(* interrupt or the clock is missing, uart_unregister_driver is called on  *)
(* pdata->ulite_uart_driver, which is only assigned just before            *)
(* ulite_assign: the thread dies on NULL with the driver registered.       *)
(***************************************************************************)
GetResources(d) ==
  /\ pc[d] = "registered"
  /\ \/ Goto(d, "oops")
     \/ Goto(d, "addFailed")       \* ulite_assign: no memory for the port
     \/ Goto(d, IF console_port = Null THEN "claim" ELSE "adding")
  /\ UNCHANGED <<bitmap, id, minors, console_port, enabled>>

ClaimConsole(d) ==
  /\ pc[d] = "claim"
  /\ console_port' = d
  /\ Goto(d, "adding")
  /\ UNCHANGED <<bitmap, id, minors, enabled>>

(***************************************************************************)
(* uart_add_one_port (external).  It registers the console of the device;  *)
(* if that is the console of the command line, ulite_console_setup runs    *)
(* and uses whatever console_port holds.  ulite_request_port and           *)
(* uart_set_options, which it calls, may fail on their own.                *)
(***************************************************************************)
SetupOutcomes ==
  CASE console_port = Null  -> {"oops"}
    [] console_port = Freed -> {"oops", "ENODEV", "ok"}
    [] OTHER -> IF pc[console_port] \in Unmapped THEN {"ENODEV"} ELSE {"ENODEV", "ok"}

AddPort(d) ==
  /\ pc[d] = "adding"
  /\ \/ id[d] # ConsoleId /\ Goto(d, "added") /\ UNCHANGED enabled
     \/ /\ id[d] = ConsoleId
        /\ \E r \in SetupOutcomes :
             /\ Goto(d, IF r = "oops" THEN "oops" ELSE "added")
             /\ enabled' = IF r = "ok" THEN enabled \cup {d} ELSE enabled
     \/ Goto(d, "addFailed") /\ UNCHANGED enabled
  /\ UNCHANGED <<bitmap, id, minors, console_port>>

\* The end of ulite_assign: clean up console_port unless d became the console.
CheckConsole(d) ==
  /\ pc[d] = "added"
  /\ Goto(d, IF console_port = d /\ d \notin enabled THEN "unclaim" ELSE "bound")
  /\ UNCHANGED <<bitmap, id, minors, console_port, enabled>>

Unclaim(d) ==
  /\ pc[d] = "unclaim"
  /\ console_port' = Null
  /\ Goto(d, "bound")
  /\ UNCHANGED <<bitmap, id, minors, enabled>>

SkipUnregister(d) ==                            \* mutant
  /\ pc[d] = "addFailed"
  /\ Goto(d, "failing")
  /\ UNCHANGED <<bitmap, id, minors, console_port, enabled>>

\* err_out_clk_disable and err_out_unregister_driver after ulite_assign failed.
Unregister(d) ==
  /\ pc[d] = "addFailed"
  /\ minors' = minors \ {id[d]}
  /\ Goto(d, "failing")
  /\ UNCHANGED <<bitmap, id, console_port, enabled>>

FailWithoutClear(d) ==                          \* mutant
  /\ pc[d] = "failing"
  /\ id' = [id EXCEPT ![d] = NoId]
  /\ console_port' = IF console_port = d THEN Freed ELSE console_port
  /\ Goto(d, "unbound")
  /\ UNCHANGED <<bitmap, minors, enabled>>

\* err_out_id; when ulite_probe returns its error, devres frees pdata and port.
FailProbe(d) ==
  /\ pc[d] = "failing"
  /\ bitmap' = bitmap \ {id[d]}
  /\ id' = [id EXCEPT ![d] = NoId]
  /\ console_port' = IF console_port = d THEN Freed ELSE console_port
  /\ Goto(d, "unbound")
  /\ UNCHANGED <<minors, enabled>>

(***************************************************************************)
(* ulite_remove, in its order: the port is released, the number given      *)
(* back, console_port dropped, and only then the driver unregistered.      *)
(***************************************************************************)
Remove(d) ==
  /\ pc[d] = "bound"
  /\ FreeThread
  /\ Goto(d, "releasing")
  /\ UNCHANGED <<bitmap, id, minors, console_port, enabled>>

ClearBeforeRelease(d) ==                        \* mutant
  /\ pc[d] = "releasing"
  /\ enabled' = enabled \ {d}
  /\ bitmap' = bitmap \ {id[d]}
  /\ Goto(d, "released")
  /\ UNCHANGED <<id, minors, console_port>>

Release(d) ==                       \* uart_remove_one_port
  /\ pc[d] = "releasing"
  /\ enabled' = enabled \ {d}
  /\ Goto(d, "released")
  /\ UNCHANGED <<bitmap, id, minors, console_port>>

ClearId(d) ==
  /\ pc[d] = "released"
  /\ bitmap' = bitmap \ {id[d]}
  /\ Goto(d, "cleared")
  /\ UNCHANGED <<id, minors, console_port, enabled>>

DropConsole(d) ==
  /\ pc[d] = "cleared"
  /\ console_port' = IF console_port = d THEN Null ELSE console_port
  /\ Goto(d, "dropped")
  /\ UNCHANGED <<bitmap, id, minors, enabled>>

FinishRemove(d) ==                  \* uart_unregister_driver, then devres
  /\ pc[d] = "dropped"
  /\ minors' = minors \ {id[d]}
  /\ id' = [id EXCEPT ![d] = NoId]
  /\ Goto(d, "unbound")
  /\ UNCHANGED <<bitmap, console_port, enabled>>

Step(d) ==
  \/ GetId(d) \/ RegisterDriver(d) \/ GetResources(d) \/ ClaimConsole(d)
  \/ AddPort(d) \/ CheckConsole(d) \/ Unclaim(d) \/ Unregister(d)
  \/ FailProbe(d) \/ Remove(d) \/ Release(d) \/ ClearId(d)
  \/ DropConsole(d) \/ FinishRemove(d)

Next == \E d \in Devices : Step(d)

Spec == Init /\ [][Next]_vars
-----------------------------------------------------------------------------
(***************************************************************************)
(* The tree either requests no number for a device, or the number of its   *)
(* own alias.                                                              *)
(***************************************************************************)
RequestsAreAliases == \A d \in Devices : Requested[d] \in {NoId, Alias[d]}

(***************************************************************************)
(* Two devices that hold a number hold different ones: the purpose the     *)
(* source gives bitmap_lock ("Protect bitmap operations to have unique     *)
(* IDs").  It needs RequestsAreAliases: ulite_get_id neither checks nor    *)
(* marks a requested number.                                               *)
(***************************************************************************)
UniqueIds == \A d, e \in Devices :
  pc[d] \in Holding /\ pc[e] \in Holding /\ id[d] = id[e] => d = e

(***************************************************************************)
(* No number leaks: a marked number is an alias or is held by a device, so *)
(* a probe is told "No free ID" only when there is none, however many      *)
(* probes failed and devices were removed before it.                       *)
(***************************************************************************)
NoLeakedIds == bitmap \subseteq AliasIds \cup Held

(***************************************************************************)
(* A device that holds a number is refused its uart_driver for a duplicate *)
(* minor in one case only: ulite_remove of the previous owner gave the     *)
(* number back before it unregistered its driver.                          *)
(***************************************************************************)
ConflictOnlyInRemove == \A d \in Devices :
  pc[d] = "named" /\ id[d] \in minors =>
    \E e \in Devices \ {d} : pc[e] \in {"cleared", "dropped"} /\ id[e] = id[d]

\* Seen from outside, d holds id[d] from the return of ulite_get_id to clear_bit.
Holder == [d \in Devices |-> IF pc[d] \in Holding THEN id[d] ELSE NoId]

Pool == INSTANCE IdPool WITH
  Reserved <- AliasIds,
  Own <- Alias,
  holder <- Holder

(***************************************************************************)
(* Every step of probe and remove is, for the numbers, an allocation or a  *)
(* release that IdPool allows, or no step at all.                          *)
(***************************************************************************)
ImplementsIdPool == Pool!Spec
=============================================================================
