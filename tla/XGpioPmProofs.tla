----------------------------- MODULE XGpioPmProofs -----------------------------
(***************************************************************************)
(* Proofs about XGpioPm, for any pins and any number of bindings: the      *)
(* clock follows runtime PM as long as the driver has the device, and a    *)
(* device that is not bound holds no clock unless a failed probe left a    *)
(* chip behind.                                                            *)
(***************************************************************************)
EXTENDS XGpioPm, FiniteSetTheorems, TLAPS

\* Where the probe has counted itself and not yet put the device.
Holding == {"pm", "add1", "irq1", "alloc2", "irq2", "add2", "put", "err_pm_put"}

\* Every put but those of the probes belongs to a pin.
UsageInv ==
  /\ IsFiniteSet(requested)
  /\ Cardinality(requested) - usage \in 0 .. (probes - (IF pc \in Holding THEN 1 ELSE 0))

\* The chips that are registered, and the local chip, at each place of the probe.
ChipsInv ==
  /\ requested \subseteq chips \X Pins
  /\ pc = "alloc2" => dual
  /\ pc \in {"pm", "add1"} => chips = {} /\ chip = 1
  /\ pc \in {"irq1", "alloc2"} => chips = {1} /\ chip = 1
  /\ pc \in {"irq2", "add2"} => chips = {1} /\ dual
  /\ pc \in {"put", "core", "bound"} => chips = All
  /\ pc = "clkoff" => chips = All \ {1}
  /\ pc \in {"core", "bound", "clkoff", "none"} => chip = 1
  /\ pc = "unbind" => chips = {1} /\ chip = 1 /\ failed
  /\ pc = "err_pm_put" => 1 \in chips
  /\ pc = "err_unprepare_clk" => 1 \in chips \/ chip = 1

\* Without a chip nobody has touched what the probe turned on.
Untouched == pc \in {"add1", "err_unprepare_clk"} /\ chips = {} => ~pending /\ rpm = "active"

ClockInv ==
  /\ pc = "none" /\ (chips = {} \/ ~failed) => clk_on = 0 /\ clk_prepared = 0 /\ ~enabled /\ ~pending
  /\ pc = "pm" => clk_on = 1 /\ ~enabled /\ ~pending
  /\ pc \notin {"none", "pm"} => enabled
  /\ pc # "none" => clk_prepared = 1
  /\ Untouched

IInv == TypeOK /\ UsageInv /\ ChipsInv /\ ClockInv /\ ClockFollowsStatus

LEMMA InitInv == Init => IInv
<1> SUFFICES ASSUME Init PROVE IInv
  OBVIOUS
<1>1. IsFiniteSet(requested) /\ Cardinality(requested) = 0
  BY FS_EmptySet DEF Init
<1>a. {failed, dual} \subseteq BOOLEAN
  BY DEF Init
<1>b. usage \in -MaxProbes .. Cardinality(requested) /\ probes \in 0 .. MaxProbes
  BY <1>1, PmAssumption DEF Init
<1>c. chip \in All /\ chips \subseteq All /\ requested \subseteq All \X Pins
  BY DEF Init, All
<1>d. clk_on \in Int /\ clk_prepared \in Int
  BY DEF Init
<1>2. TypeOK
  BY <1>a, <1>b, <1>c, <1>d DEF Init, TypeOK
<1>3. UsageInv
  BY <1>1 DEF Init, UsageInv, Holding
<1> QED BY <1>2, <1>3 DEF Init, IInv, ChipsInv, ClockInv, Untouched, ClockFollowsStatus

\* What the steps that leave the pins alone do to the count of users.
LEMMA UsageKept ==
  ASSUME IInv, UNCHANGED <<requested, usage, probes>>,
         pc \in Holding <=> pc' \in Holding
  PROVE  UsageInv'
BY DEF IInv, UsageInv

\* A device whose probe leaves Holding without a put.
LEMMA UsageLeft ==
  ASSUME IInv, UNCHANGED <<requested, usage, probes>>, pc' \notin Holding
  PROVE  UsageInv'
<1>1. probes \in Nat /\ usage \in Int
  BY PmAssumption DEF IInv, TypeOK
<1>2. Cardinality(requested) \in Nat
  BY FS_CardinalityType DEF IInv, UsageInv
<1> QED BY <1>1, <1>2 DEF IInv, UsageInv

\* The put of the probe is the one that it was allowed.
LEMMA UsagePut ==
  ASSUME IInv, Put, UNCHANGED <<requested, probes>>, pc \in Holding, pc' \notin Holding
  PROVE  UsageInv'
<1>1. probes \in Nat /\ usage \in Int
  BY PmAssumption DEF IInv, TypeOK
<1>2. Cardinality(requested) \in Nat
  BY FS_CardinalityType DEF IInv, UsageInv
<1> QED BY <1>1, <1>2 DEF IInv, UsageInv, Put

\* With the count of users in its bounds, so is usage.
LEMMA UsageBounds ==
  ASSUME UsageInv, probes \in 0 .. MaxProbes, usage \in Int
  PROVE  usage \in -MaxProbes .. Cardinality(requested)
<1>1. Cardinality(requested) \in Nat
  BY FS_CardinalityType DEF UsageInv
<1> QED BY <1>1, PmAssumption DEF UsageInv

\* The rest of TypeOK, which no step disturbs together with the count.
Places ==
  /\ pc \in {"none", "pm", "add1", "irq1", "alloc2", "irq2", "add2", "put", "core", "bound",
             "clkoff", "err_pm_put", "err_unprepare_clk", "unbind"}
  /\ chip \in All /\ chips \subseteq All /\ requested \subseteq All \X Pins
Counts == probes \in 0 .. MaxProbes /\ usage \in Int /\ clk_on \in Int /\ clk_prepared \in Int
Flags ==
  /\ failed \in BOOLEAN /\ dual \in BOOLEAN /\ enabled \in BOOLEAN /\ pending \in BOOLEAN
  /\ rpm \in {"active", "suspended"}
Types == Places /\ Counts /\ Flags

LEMMA TypesOfInv == IInv => Types
BY PmAssumption DEF IInv, TypeOK, Types, Places, Counts, Flags

LEMMA TypesAreEnough == Types /\ UsageInv => TypeOK
BY UsageBounds DEF Types, TypeOK, Places, Counts, Flags

\* A request and a free change the pins and the count together.
LEMMA RequestUsage ==
  ASSUME IInv, NEW c \in All, NEW p \in Pins, Request(c, p)
  PROVE  UsageInv'
<1>1. IsFiniteSet(requested') /\ Cardinality(requested') = Cardinality(requested) + 1
  BY FS_AddElement DEF IInv, UsageInv, Request
<1>2. Cardinality(requested) \in Nat /\ probes \in Nat /\ usage \in Int
  BY FS_CardinalityType, PmAssumption DEF IInv, UsageInv, TypeOK
<1> QED BY <1>1, <1>2 DEF IInv, UsageInv, Request, Driven, binding

LEMMA FreeUsage ==
  ASSUME IInv, NEW c \in All, NEW p \in Pins, Free(c, p)
  PROVE  UsageInv'
<1>1. IsFiniteSet(requested') /\ Cardinality(requested') = Cardinality(requested) - 1
  BY FS_RemoveElement DEF IInv, UsageInv, Free
<1>2. Cardinality(requested) \in Nat /\ probes \in Nat /\ usage \in Int
  BY FS_CardinalityType, PmAssumption DEF IInv, UsageInv, TypeOK
<1> QED BY <1>1, <1>2 DEF IInv, UsageInv, Free, Driven, binding, Put

\* Every step keeps the invariant.
LEMMA NextInv == IInv /\ [Next]_vars => IInv'
<1> SUFFICES ASSUME IInv, [Next]_vars PROVE IInv'
  OBVIOUS
<1> DEFINE Rest == Types /\ ChipsInv /\ ClockInv /\ ClockFollowsStatus
<1>0. Types
  BY TypesOfInv
<1>a. (Types /\ UsageInv => TypeOK)'
  BY TypesAreEnough, PTL
<1>b. SUFFICES UsageInv' /\ Rest'
  BY <1>a DEF IInv
<1> USE <1>0 DEF IInv, vars, binding, pm, clock
<1>1. CASE UNCHANGED vars
  <2>1. UsageInv'
    BY <1>1, UsageKept
  <2> QED BY <1>1, <2>1 DEF Types, Places, Counts, Flags, ChipsInv, ClockInv, Untouched, ClockFollowsStatus, All
<1>2. CASE Probe
  <2>1. probes + 1 \in 0 .. MaxProbes
    BY <1>2, PmAssumption DEF Probe, Types, Counts
  <2>2. Cardinality(requested) \in Nat
    BY FS_CardinalityType DEF UsageInv
  <2>3. UsageInv'
    BY <1>2, <2>1, <2>2 DEF Probe, UsageInv, At, Fails, Holding, Types, Counts
  <2>p. Places'
    BY <1>2, <2>1, <2>3 DEF Probe, At, Fails, Types, Places, All
  <2>n. Counts'
    BY <1>2, <2>1, <2>3 DEF Probe, At, Fails, Types, Counts, Flags
  <2>b. Flags'
    BY <1>2, <2>1, <2>3 DEF Probe, At, Fails, Types, Flags
  <2>t. Types'
    BY <2>p, <2>n, <2>b DEF Types
  <2>c. ChipsInv'
    BY <1>2, <2>1, <2>3 DEF Probe, At, Fails, Types, Places, Flags, ChipsInv, All
  <2>k. ClockInv'
    BY <1>2, <2>1, <2>3 DEF Probe, At, Fails, Types, Places, Counts, Flags, ChipsInv, ClockInv, Untouched, ClockFollowsStatus, All
  <2>f. ClockFollowsStatus'
    BY <1>2, <2>1, <2>3 DEF Probe, At, Fails, Types, Places, Counts, Flags, ClockInv, ClockFollowsStatus
  <2> QED BY <2>3, <2>t, <2>c, <2>k, <2>f
<1>3. CASE EnablePm
  <2>1. UsageInv'
    BY <1>3, UsageKept DEF EnablePm, At, Holding
  <2>p. Places'
    BY <1>3, <2>1 DEF EnablePm, At, Types, Places, All
  <2>n. Counts'
    BY <1>3, <2>1 DEF EnablePm, At, Types, Counts, Flags
  <2>b. Flags'
    BY <1>3, <2>1 DEF EnablePm, At, Types, Flags
  <2>t. Types'
    BY <2>p, <2>n, <2>b DEF Types
  <2>c. ChipsInv'
    BY <1>3, <2>1 DEF EnablePm, At, Types, Places, Flags, ChipsInv, All
  <2>k. ClockInv'
    BY <1>3, <2>1 DEF EnablePm, At, Types, Places, Counts, Flags, ChipsInv, ClockInv, Untouched, ClockFollowsStatus, All
  <2>f. ClockFollowsStatus'
    BY <1>3, <2>1 DEF EnablePm, At, Types, Places, Counts, Flags, ClockInv, ClockFollowsStatus
  <2> QED BY <2>1, <2>t, <2>c, <2>k, <2>f
<1>4. CASE AddChip(1, "add1", "irq1", "err_unprepare_clk")
  <2>1. UsageInv'
    BY <1>4, UsageKept, UsageLeft DEF AddChip, At, Fails, Holding
  <2>p. Places'
    BY <1>4, <2>1 DEF AddChip, At, Fails, Types, Places, All
  <2>n. Counts'
    BY <1>4, <2>1 DEF AddChip, At, Fails, Types, Counts, Flags
  <2>b. Flags'
    BY <1>4, <2>1 DEF AddChip, At, Fails, Types, Flags
  <2>t. Types'
    BY <2>p, <2>n, <2>b DEF Types
  <2>c. ChipsInv'
    BY <1>4, <2>1 DEF AddChip, At, Fails, Types, Places, Flags, ChipsInv, All
  <2>k. ClockInv'
    BY <1>4, <2>1 DEF AddChip, At, Fails, Types, Places, Counts, Flags, ChipsInv, ClockInv, Untouched, ClockFollowsStatus, All
  <2>f. ClockFollowsStatus'
    BY <1>4, <2>1 DEF AddChip, At, Fails, Types, Places, Counts, Flags, ClockInv, ClockFollowsStatus
  <2> QED BY <2>1, <2>t, <2>c, <2>k, <2>f
<1>5. CASE SetupIrq("irq1", IF dual THEN "alloc2" ELSE "put")
  <2>1. UsageInv'
    BY <1>5, UsageKept DEF SetupIrq, At, Fails, Holding
  <2>p. Places'
    BY <1>5, <2>1 DEF SetupIrq, At, Fails, Types, Places, All
  <2>n. Counts'
    BY <1>5, <2>1 DEF SetupIrq, At, Fails, Types, Counts, Flags
  <2>b. Flags'
    BY <1>5, <2>1 DEF SetupIrq, At, Fails, Types, Flags
  <2>t. Types'
    BY <2>p, <2>n, <2>b DEF Types
  <2>c. ChipsInv'
    BY <1>5, <2>1 DEF SetupIrq, At, Fails, Types, Places, Flags, ChipsInv, All
  <2>k. ClockInv'
    BY <1>5, <2>1 DEF SetupIrq, At, Fails, Types, Places, Counts, Flags, ChipsInv, ClockInv, Untouched, ClockFollowsStatus, All
  <2>f. ClockFollowsStatus'
    BY <1>5, <2>1 DEF SetupIrq, At, Fails, Types, Places, Counts, Flags, ClockInv, ClockFollowsStatus
  <2> QED BY <2>1, <2>t, <2>c, <2>k, <2>f
<1>6. CASE AllocSecond
  <2>1. UsageInv'
    BY <1>6, UsageKept, UsageLeft DEF AllocSecond, At, Fails, Holding
  <2>2. dual
    BY <1>6 DEF AllocSecond, At, Fails, ChipsInv
  <2>p. Places'
    BY <1>6, <2>1, <2>2 DEF AllocSecond, At, Fails, Types, Places, All
  <2>n. Counts'
    BY <1>6, <2>1, <2>2 DEF AllocSecond, At, Fails, Types, Counts, Flags
  <2>b. Flags'
    BY <1>6, <2>1, <2>2 DEF AllocSecond, At, Fails, Types, Flags
  <2>t. Types'
    BY <2>p, <2>n, <2>b DEF Types
  <2>c. ChipsInv'
    BY <1>6, <2>1, <2>2 DEF AllocSecond, At, Fails, Types, Places, Flags, ChipsInv, All
  <2>k. ClockInv'
    BY <1>6, <2>1, <2>2 DEF AllocSecond, At, Fails, Types, Places, Counts, Flags, ChipsInv, ClockInv, Untouched, ClockFollowsStatus, All
  <2>f. ClockFollowsStatus'
    BY <1>6, <2>1, <2>2 DEF AllocSecond, At, Fails, Types, Places, Counts, Flags, ClockInv, ClockFollowsStatus
  <2> QED BY <2>1, <2>t, <2>c, <2>k, <2>f
<1>7. CASE SetupIrq("irq2", "add2")
  <2>1. UsageInv'
    BY <1>7, UsageKept DEF SetupIrq, At, Fails, Holding
  <2>p. Places'
    BY <1>7, <2>1 DEF SetupIrq, At, Fails, Types, Places, All
  <2>n. Counts'
    BY <1>7, <2>1 DEF SetupIrq, At, Fails, Types, Counts, Flags
  <2>b. Flags'
    BY <1>7, <2>1 DEF SetupIrq, At, Fails, Types, Flags
  <2>t. Types'
    BY <2>p, <2>n, <2>b DEF Types
  <2>c. ChipsInv'
    BY <1>7, <2>1 DEF SetupIrq, At, Fails, Types, Places, Flags, ChipsInv, All
  <2>k. ClockInv'
    BY <1>7, <2>1 DEF SetupIrq, At, Fails, Types, Places, Counts, Flags, ChipsInv, ClockInv, Untouched, ClockFollowsStatus, All
  <2>f. ClockFollowsStatus'
    BY <1>7, <2>1 DEF SetupIrq, At, Fails, Types, Places, Counts, Flags, ClockInv, ClockFollowsStatus
  <2> QED BY <2>1, <2>t, <2>c, <2>k, <2>f
<1>8. CASE AddChip(2, "add2", "put", "err_pm_put")
  <2>1. UsageInv'
    BY <1>8, UsageKept DEF AddChip, At, Fails, Holding
  <2>p. Places'
    BY <1>8, <2>1 DEF AddChip, At, Fails, Types, Places, ChipsInv, All
  <2>n. Counts'
    BY <1>8, <2>1 DEF AddChip, At, Fails, Types, Counts, Flags
  <2>b. Flags'
    BY <1>8, <2>1 DEF AddChip, At, Fails, Types, Flags
  <2>t. Types'
    BY <2>p, <2>n, <2>b DEF Types
  <2>c. ChipsInv'
    BY <1>8, <2>1 DEF AddChip, At, Fails, Types, Places, Flags, ChipsInv, All
  <2>k. ClockInv'
    BY <1>8, <2>1 DEF AddChip, At, Fails, Types, Places, Counts, Flags, ChipsInv, ClockInv, Untouched, ClockFollowsStatus, All
  <2>f. ClockFollowsStatus'
    BY <1>8, <2>1 DEF AddChip, At, Fails, Types, Places, Counts, Flags, ClockInv, ClockFollowsStatus
  <2> QED BY <2>1, <2>t, <2>c, <2>k, <2>f
<1>9. CASE FinishProbe
  <2>1. UsageInv'
    BY <1>9, UsagePut DEF FinishProbe, At, Holding
  <2>p. Places'
    BY <1>9, <2>1 DEF FinishProbe, At, Put, Types, Places, All
  <2>n. Counts'
    BY <1>9, <2>1 DEF FinishProbe, At, Put, Types, Counts, Flags
  <2>b. Flags'
    BY <1>9, <2>1 DEF FinishProbe, At, Put, Types, Flags
  <2>t. Types'
    BY <2>p, <2>n, <2>b DEF Types
  <2>c. ChipsInv'
    BY <1>9, <2>1 DEF FinishProbe, At, Put, Types, Places, Flags, ChipsInv, All
  <2>k. ClockInv'
    BY <1>9, <2>1 DEF FinishProbe, At, Put, Types, Places, Counts, Flags, ChipsInv, ClockInv, Untouched, ClockFollowsStatus, All
  <2>f. ClockFollowsStatus'
    BY <1>9, <2>1 DEF FinishProbe, At, Put, Types, Places, Counts, Flags, ClockInv, ClockFollowsStatus
  <2> QED BY <2>1, <2>t, <2>c, <2>k, <2>f
<1>10. CASE ErrPmPut
  <2>1. UsageInv'
    BY <1>10, UsagePut DEF ErrPmPut, At, Holding
  <2>p. Places'
    BY <1>10, <2>1 DEF ErrPmPut, At, Put, Types, Places, All
  <2>n. Counts'
    BY <1>10, <2>1 DEF ErrPmPut, At, Put, Types, Counts, Flags
  <2>b. Flags'
    BY <1>10, <2>1 DEF ErrPmPut, At, Put, Types, Flags
  <2>t. Types'
    BY <2>p, <2>n, <2>b DEF Types
  <2>c. ChipsInv'
    BY <1>10, <2>1 DEF ErrPmPut, At, Put, Types, Places, Flags, ChipsInv, All
  <2>k. ClockInv'
    BY <1>10, <2>1 DEF ErrPmPut, At, Put, Types, Places, Counts, Flags, ChipsInv, ClockInv, Untouched, ClockFollowsStatus, All
  <2>f. ClockFollowsStatus'
    BY <1>10, <2>1 DEF ErrPmPut, At, Put, Types, Places, Counts, Flags, ClockInv, ClockFollowsStatus
  <2> QED BY <2>1, <2>t, <2>c, <2>k, <2>f
<1>11. CASE ErrUnprepareClk
  <2>1. UsageInv'
    BY <1>11, UsageKept DEF ErrUnprepareClk, At, Holding
  <2>p. Places'
    BY <1>11, <2>1 DEF ErrUnprepareClk, At, Types, Places, All
  <2>n. Counts'
    BY <1>11, <2>1 DEF ErrUnprepareClk, At, Types, Counts, Flags
  <2>b. Flags'
    BY <1>11, <2>1 DEF ErrUnprepareClk, At, Types, Flags
  <2>t. Types'
    BY <2>p, <2>n, <2>b DEF Types
  <2>c. ChipsInv'
    BY <1>11, <2>1 DEF ErrUnprepareClk, At, Types, Places, Flags, ChipsInv, All
  <2>k. ClockInv'
    BY <1>11, <2>1 DEF ErrUnprepareClk, At, Types, Places, Counts, Flags, ChipsInv, ClockInv, Untouched, ClockFollowsStatus, All
  <2>f. ClockFollowsStatus'
    BY <1>11, <2>1 DEF ErrUnprepareClk, At, Types, Places, Counts, Flags, ClockInv, ClockFollowsStatus
  <2> QED BY <2>1, <2>t, <2>c, <2>k, <2>f
<1>12. CASE RequestIdle
  <2>1. UsageInv'
    BY <1>12, UsageKept DEF RequestIdle, At, Holding
  <2>p. Places'
    BY <1>12, <2>1 DEF RequestIdle, At, Types, Places, All
  <2>n. Counts'
    BY <1>12, <2>1 DEF RequestIdle, At, Types, Counts, Flags
  <2>b. Flags'
    BY <1>12, <2>1 DEF RequestIdle, At, Types, Flags
  <2>t. Types'
    BY <2>p, <2>n, <2>b DEF Types
  <2>c. ChipsInv'
    BY <1>12, <2>1 DEF RequestIdle, At, Types, Places, Flags, ChipsInv, All
  <2>k. ClockInv'
    BY <1>12, <2>1 DEF RequestIdle, At, Types, Places, Counts, Flags, ChipsInv, ClockInv, Untouched, ClockFollowsStatus, All
  <2>f. ClockFollowsStatus'
    BY <1>12, <2>1 DEF RequestIdle, At, Types, Places, Counts, Flags, ClockInv, ClockFollowsStatus
  <2> QED BY <2>1, <2>t, <2>c, <2>k, <2>f
<1>13. CASE Idle
  <2>1. UsageInv'
    BY <1>13, UsageKept DEF Idle
  <2>p. Places'
    BY <1>13, <2>1 DEF Idle, Types, Places, All
  <2>n. Counts'
    BY <1>13, <2>1 DEF Idle, Types, Counts, Flags
  <2>b. Flags'
    BY <1>13, <2>1 DEF Idle, Types, Flags
  <2>t. Types'
    BY <2>p, <2>n, <2>b DEF Types
  <2>c. ChipsInv'
    BY <1>13, <2>1 DEF Idle, Types, Places, Flags, ChipsInv, All
  <2>k. ClockInv'
    BY <1>13, <2>1 DEF Idle, Types, Places, Counts, Flags, ChipsInv, ClockInv, Untouched, ClockFollowsStatus, All
  <2>f. ClockFollowsStatus'
    BY <1>13, <2>1 DEF Idle, Types, Places, Counts, Flags, ClockInv, ClockFollowsStatus
  <2> QED BY <2>1, <2>t, <2>c, <2>k, <2>f
<1>14. CASE Remove
  <2>1. UsageInv'
    BY <1>14, UsageKept DEF Remove, At, Holding
  <2>p. Places'
    BY <1>14, <2>1 DEF Remove, At, Types, Places, All
  <2>n. Counts'
    BY <1>14, <2>1 DEF Remove, At, Types, Counts, Flags
  <2>b. Flags'
    BY <1>14, <2>1 DEF Remove, At, Types, Flags
  <2>t. Types'
    BY <2>p, <2>n, <2>b DEF Types
  <2>c. ChipsInv'
    BY <1>14, <2>1 DEF Remove, At, Types, Places, Flags, ChipsInv, All
  <2>k. ClockInv'
    BY <1>14, <2>1 DEF Remove, At, Types, Places, Counts, Flags, ChipsInv, ClockInv, Untouched, ClockFollowsStatus, All
  <2>f. ClockFollowsStatus'
    BY <1>14, <2>1 DEF Remove, At, Types, Places, Counts, Flags, ClockInv, ClockFollowsStatus
  <2> QED BY <2>1, <2>t, <2>c, <2>k, <2>f
<1>15. CASE RemoveClock
  <2>1. UsageInv'
    BY <1>15, UsageKept DEF RemoveClock, At, Holding
  <2>p. Places'
    BY <1>15, <2>1 DEF RemoveClock, At, Types, Places, All
  <2>n. Counts'
    BY <1>15, <2>1 DEF RemoveClock, At, Types, Counts, Flags
  <2>b. Flags'
    BY <1>15, <2>1 DEF RemoveClock, At, Types, Flags
  <2>t. Types'
    BY <2>p, <2>n, <2>b DEF Types
  <2>c. ChipsInv'
    BY <1>15, <2>1 DEF RemoveClock, At, Types, Places, Flags, ChipsInv, All
  <2>k. ClockInv'
    BY <1>15, <2>1 DEF RemoveClock, At, Types, Places, Counts, Flags, ChipsInv, ClockInv, Untouched, ClockFollowsStatus, All
  <2>f. ClockFollowsStatus'
    BY <1>15, <2>1 DEF RemoveClock, At, Types, Places, Counts, Flags, ClockInv, ClockFollowsStatus
  <2> QED BY <2>1, <2>t, <2>c, <2>k, <2>f
<1>16. ASSUME NEW c \in All, NEW p \in Pins, Request(c, p) PROVE UsageInv' /\ Rest'
  <2>1. UsageInv'
    BY <1>16, RequestUsage
  <2>p. Places'
    BY <1>16, <2>1 DEF Request, Driven, Types, Places, All
  <2>n. Counts'
    BY <1>16, <2>1 DEF Request, Driven, Types, Counts, Flags
  <2>b. Flags'
    BY <1>16, <2>1 DEF Request, Driven, Types, Flags
  <2>t. Types'
    BY <2>p, <2>n, <2>b DEF Types
  <2>c. ChipsInv'
    BY <1>16, <2>1 DEF Request, Driven, Types, Places, Flags, ChipsInv, All
  <2>k. ClockInv'
    BY <1>16, <2>1 DEF Request, Driven, Types, Places, Counts, Flags, ChipsInv, ClockInv, Untouched, ClockFollowsStatus, All
  <2>f. ClockFollowsStatus'
    BY <1>16, <2>1 DEF Request, Driven, Types, Places, Counts, Flags, ClockInv, ClockFollowsStatus
  <2> QED BY <2>1, <2>t, <2>c, <2>k, <2>f
<1>17. ASSUME NEW c \in All, NEW p \in Pins, Free(c, p) PROVE UsageInv' /\ Rest'
  <2>1. UsageInv'
    BY <1>17, FreeUsage
  <2>2. chips # {}
    BY <1>17 DEF Free, Driven, ChipsInv
  <2>p. Places'
    BY <1>17, <2>1, <2>2 DEF Free, Driven, Put, Types, Places, All
  <2>n. Counts'
    BY <1>17, <2>1, <2>2 DEF Free, Driven, Put, Types, Counts, Flags
  <2>b. Flags'
    BY <1>17, <2>1, <2>2 DEF Free, Driven, Put, Types, Flags
  <2>t. Types'
    BY <2>p, <2>n, <2>b DEF Types
  <2>c. ChipsInv'
    BY <1>17, <2>1, <2>2 DEF Free, Driven, Put, Types, Places, Flags, ChipsInv, All
  <2>k. ClockInv'
    BY <1>17, <2>1, <2>2 DEF Free, Driven, Put, Types, Places, Counts, Flags, ChipsInv, ClockInv, Untouched, ClockFollowsStatus, All
  <2>f. ClockFollowsStatus'
    BY <1>17, <2>1, <2>2 DEF Free, Driven, Put, Types, Places, Counts, Flags, ClockInv, ClockFollowsStatus
  <2> QED BY <2>1, <2>t, <2>c, <2>k, <2>f
<1> QED BY <1>1, <1>2, <1>3, <1>4, <1>5, <1>6, <1>7, <1>8, <1>9, <1>10, <1>11, <1>12, <1>13,
           <1>14, <1>15, <1>16, <1>17 DEF Next, ProbeSteps

\* The invariant in every state.
THEOREM Invariance == Spec => []IInv
<1>1. Init => IInv
  BY InitInv
<1>2. IInv /\ [Next]_vars => IInv'
  BY NextInv
<1> QED BY <1>1, <1>2, PTL DEF Spec

\* The counts, states and sets are what they should be; runtime PM counts as
\* many users as there are pins in use, less one for each put of a probe.
THEOREM TypeCorrect == Spec => []TypeOK
<1>1. IInv => TypeOK
  BY DEF IInv
<1> QED BY <1>1, Invariance, PTL

\* ClockFollowsStatus for every device: while xgpio_of_probe runs, whichever of
\* its exits it takes, and while the driver is bound, no suspend turns off a
\* clock that is off and no resume leaves it off.
THEOREM ClockFollows == Spec => []ClockFollowsStatus
<1>1. IInv => ClockFollowsStatus
  BY DEF IInv
<1> QED BY <1>1, Invariance, PTL

\* ClockBalanced for every device: probes that succeed or register no chip, and
\* xgpio_remove, leave no clock on and turn none off twice.
THEOREM ClockIsBalanced == Spec => []ClockBalanced
<1>1. IInv => ClockBalanced
  BY DEF IInv, ClockInv, ClockBalanced
<1> QED BY <1>1, Invariance, PTL
=============================================================================
