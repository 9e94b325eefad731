------------------------------- MODULE XGpioPm -------------------------------
(***************************************************************************)
(* Life of a GPIO device (gpio-byu.c): xgpio_of_probe with every call that *)
(* may fail, consumers that request and free pins as soon as a chip is     *)
(* registered, runtime power management, and xgpio_remove.                 *)
(*                                                                         *)
(* The runtime PM core is external: pm_runtime_get_sync counts a user,     *)
(* cancels a pending request and resumes; pm_runtime_put asks for an idle  *)
(* check when the count reaches 0; the check, later and in a worker,       *)
(* suspends unless the count is above 0; the driver core asks for one      *)
(* after a probe, and gets and puts the device around its removal.         *)
(***************************************************************************)
EXTENDS Integers, FiniteSets

CONSTANTS Pins,       \* of each channel
          MayFail,    \* calls of the probe may fail
          MaxProbes   \* bound: times the driver is bound to the device

ASSUME PmAssumption == MayFail \in BOOLEAN /\ MaxProbes \in Nat \ {0}

VARIABLES
  dual,                   \* "xlnx,is-dual" of the device
  pc, probes, failed,     \* the probe, its runs so far, whether one failed
  chip,                   \* the channel that the local chip of the probe points to
  chips, requested,       \* registered gpiochips; pins in use
  usage, rpm, enabled, pending,  \* power.usage_count, runtime_status, and so on
  clk_on, clk_prepared    \* enable and prepare count of s_axi_aclk

pm == <<usage, rpm, enabled, pending>>
clock == <<clk_on, clk_prepared>>
binding == <<dual, probes, failed>>
vars == <<pc, binding, chip, chips, requested, pm, clock>>

All == IF dual THEN {1, 2} ELSE {1}

TypeOK ==
  /\ pc \in {"none", "pm", "add1", "irq1", "alloc2", "irq2", "add2", "put", "core", "bound",
             "clkoff", "err_pm_put", "err_unprepare_clk", "unbind"}
  /\ probes \in 0 .. MaxProbes /\ {failed, dual} \subseteq BOOLEAN
  /\ chip \in All /\ chips \subseteq All /\ requested \subseteq All \X Pins
  /\ usage \in -MaxProbes .. Cardinality(requested) /\ rpm \in {"active", "suspended"}
  /\ enabled \in BOOLEAN /\ pending \in BOOLEAN
  /\ clk_on \in Int /\ clk_prepared \in Int

Init ==
  /\ dual \in BOOLEAN
  /\ pc = "none" /\ probes = 0 /\ failed = FALSE
  /\ chip = 1 /\ chips = {} /\ requested = {}
  /\ usage = 0 /\ rpm = "suspended" /\ enabled = FALSE /\ pending = FALSE
  /\ clk_on = 0 /\ clk_prepared = 0

\* pm_runtime_put: only a count that reaches 0 asks for the idle check.
Put == /\ usage' = usage - 1
       /\ pending' = (pending \/ (usage' = 0 /\ enabled))

At(l, l2) == pc = l /\ pc' = l2
Fails(l, l2) == MayFail /\ At(l, l2)
(***************************************************************************)
(* xgpio_of_probe.  A return of an error ends at "none".  A device whose   *)
(* chips were not all removed is not probed again.                         *)
(***************************************************************************)
Probe ==
  /\ probes < MaxProbes /\ chips = {} /\ probes' = probes + 1
  /\ \/ /\ At("none", "pm")
        /\ clk_on' = clk_on + 1 /\ clk_prepared' = clk_prepared + 1
        /\ UNCHANGED failed
     \/ /\ Fails("none", "none")
        /\ failed' = TRUE /\ UNCHANGED clock
  /\ UNCHANGED <<dual, chip, chips, requested, pm>>

EnablePm ==
  /\ At("pm", "add1")
  /\ rpm' = "active" /\ enabled' = TRUE
  /\ UNCHANGED <<binding, chip, chips, requested, usage, pending, clock>>

AddChip(c, l, next, err) ==
  /\ \/ At(l, next) /\ chips' = chips \cup {c}
     \/ Fails(l, err) /\ UNCHANGED chips
  /\ UNCHANGED <<binding, chip, requested, pm, clock>>

SetupIrq(l, next) ==
  /\ At(l, next) \/ Fails(l, "err_pm_put")
  /\ UNCHANGED <<binding, chip, chips, requested, pm, clock>>

\* Without memory for the second channel the probe returns at once, with
\* runtime PM enabled and the clock on.
AllocSecond ==
  /\ \/ At("alloc2", "irq2") /\ chip' = 2 /\ UNCHANGED failed
     \/ Fails("alloc2", "unbind") /\ failed' = TRUE /\ UNCHANGED chip
  /\ UNCHANGED <<dual, probes, chips, requested, pm, clock>>

FinishProbe ==
  /\ At("put", "core")
  /\ Put /\ chip' = 1
  /\ UNCHANGED <<binding, chips, requested, rpm, enabled, clock>>

ErrPmPut ==
  /\ At("err_pm_put", "err_unprepare_clk")
  /\ Put
  /\ UNCHANGED <<binding, chip, chips, requested, rpm, enabled, clock>>

\* Only the first channel has the clock; clk of the second one is NULL.  Unlike
\* xgpio_remove it does not ask whether runtime PM has turned the clock off.
ErrUnprepareClk ==
  /\ At("err_unprepare_clk", "none")
  /\ enabled' = FALSE /\ pending' = FALSE /\ failed' = TRUE
  /\ chip' = 1
  /\ \/ chip = 2 /\ UNCHANGED clock
     \/ chip = 1 /\ clk_on' = clk_on - 1 /\ clk_prepared' = clk_prepared - 1
  /\ UNCHANGED <<dual, probes, chips, requested, usage, rpm>>

ProbeSteps ==
  \/ EnablePm
  \/ AddChip(1, "add1", "irq1", "err_unprepare_clk")
  \/ SetupIrq("irq1", IF dual THEN "alloc2" ELSE "put")
  \/ AllocSecond
  \/ SetupIrq("irq2", "add2")
  \/ AddChip(2, "add2", "put", "err_pm_put")
  \/ FinishProbe \/ ErrPmPut \/ ErrUnprepareClk
(***************************************************************************)
(* Consumers, who let go of the device once the driver is about to leave   *)
(* it, and the worker of the runtime PM core.                              *)
(***************************************************************************)
Driven == pc \notin {"none", "clkoff", "unbind"}

RequestUnclocked(c, p) ==                       \* mutant: resume without clk_enable
  /\ Driven /\ c \in chips /\ <<c, p>> \notin requested
  /\ enabled
  /\ requested' = requested \cup {<<c, p>>}
  /\ usage' = usage + 1 /\ pending' = FALSE /\ rpm' = "active"
  /\ UNCHANGED <<pc, binding, chip, chips, enabled, clock>>

Request(c, p) ==
  /\ Driven /\ c \in chips /\ <<c, p>> \notin requested
  /\ enabled
  /\ requested' = requested \cup {<<c, p>>}
  /\ usage' = usage + 1 /\ pending' = FALSE /\ rpm' = "active"
  /\ clk_on' = IF rpm = "active" THEN clk_on ELSE clk_on + 1
  /\ UNCHANGED <<pc, binding, chip, chips, enabled, clk_prepared>>

FreeWithoutPut(c, p) ==                         \* mutant: no pm_runtime_put
  /\ Driven /\ <<c, p>> \in requested
  /\ requested' = requested \ {<<c, p>>}
  /\ UNCHANGED <<pc, binding, chip, chips, pm, clock>>

\* xgpio_free
Free(c, p) ==
  /\ Driven /\ <<c, p>> \in requested
  /\ requested' = requested \ {<<c, p>>}
  /\ Put
  /\ UNCHANGED <<pc, binding, chip, chips, rpm, enabled, clock>>

\* The driver core's pm_request_idle after a probe; one that has failed has
\* lost its driver before.
RequestIdle ==
  /\ At("core", "bound") \/ At("unbind", "none")
  /\ pending' = (pending \/ (usage <= 0 /\ rpm = "active"))
  /\ UNCHANGED <<binding, chip, chips, requested, usage, rpm, enabled, clock>>

\* The idle check, and xgpio_runtime_suspend.  A device without a driver is
\* suspended without a call; while the driver is taken away its chip is freed,
\* and the call, if it is made, may find the clock or not.
Idle ==
  /\ pending /\ enabled /\ pending' = FALSE
  /\ \/ /\ usage <= 0 /\ rpm = "active"
        /\ rpm' = "suspended"
        /\ \/ pc # "none" /\ clk_on' = clk_on - 1
           \/ pc \in {"none", "unbind"} /\ UNCHANGED clk_on
     \/ /\ usage > 0 \/ rpm = "suspended"
        /\ UNCHANGED <<rpm, clk_on>>
  /\ UNCHANGED <<pc, binding, chip, chips, requested, usage, enabled, clk_prepared>>
(***************************************************************************)
(* Removal: the driver core resumes the device and puts it again, which    *)
(* suspends it if the count is back at 0; consumers have let go of the pins*)
(* by then.  platform_get_drvdata yields the first channel.                *)
(***************************************************************************)
Remove ==
  /\ At("bound", "clkoff")
  /\ requested = {}
  /\ chips' = chips \ {1}
  /\ pending' = FALSE
  /\ rpm' = IF usage = 0 THEN "suspended" ELSE "active"
  /\ clk_on' = clk_on + (IF rpm = "suspended" THEN 1 ELSE 0)
                      - (IF usage = 0 THEN 1 ELSE 0)
  /\ UNCHANGED <<binding, chip, requested, usage, enabled, clk_prepared>>

RemoveKeepingClock ==                           \* mutant: no clk_disable
  /\ At("clkoff", "none")
  /\ clk_prepared' = clk_prepared - 1
  /\ enabled' = FALSE /\ pending' = FALSE
  /\ UNCHANGED <<binding, chip, chips, requested, usage, rpm, clk_on>>

RemoveClock ==
  /\ At("clkoff", "none")
  /\ clk_on' = IF rpm = "suspended" THEN clk_on ELSE clk_on - 1
  /\ clk_prepared' = clk_prepared - 1
  /\ enabled' = FALSE /\ pending' = FALSE
  /\ UNCHANGED <<binding, chip, chips, requested, usage, rpm>>

Next == Probe \/ ProbeSteps \/ RequestIdle \/ Idle \/ Remove \/ RemoveClock
        \/ \E c \in All, p \in Pins : Request(c, p) \/ Free(c, p)

Spec == Init /\ [][Next]_vars
-----------------------------------------------------------------------------
(***************************************************************************)
(* A device that is not bound holds no clock, as long as no probe failed   *)
(* or those that failed left no chip behind: what xgpio_of_probe turned on,*)
(* runtime PM, its own exits and xgpio_remove turn off exactly once between*)
(* them, however they came.                                                *)
(***************************************************************************)
ClockBalanced ==
  pc = "none" /\ (~failed \/ chips = {}) => clk_on = 0 /\ clk_prepared = 0

(***************************************************************************)
(* From pm_runtime_enable on until the driver leaves the device, the clock *)
(* is on exactly when runtime PM takes the device for active, in every     *)
(* exit of a probe too, up to its pm_runtime_disable: no suspend turns off *)
(* what is off, and no resume leaves a device without its clock.           *)
(***************************************************************************)
ClockFollowsStatus ==
  enabled /\ pc \notin {"none", "unbind"} => clk_on = (IF rpm = "active" THEN 1 ELSE 0)
=============================================================================
