--------------------------- MODULE UartIdsProofs ---------------------------
(***************************************************************************)
(* Theorems about UartIds, for every set of devices, number of line        *)
(* numbers and assignment of aliases.                                      *)
(***************************************************************************)
EXTENDS UartIds, TLAPS

\* No number is the value that stands for "no number".
LEMMA IdsAreNumbers == NoId \notin Ids /\ Ids \subseteq Nat
  BY NoIdAssumption, MaxIdAssumption DEF Ids

\* What a device asks for is a number, or nothing.
LEMMA WantedType ==
  ASSUME NEW d \in Devices PROVE Wanted(d) \in Ids \cup {NoId}
  BY AliasAssumption, RequestedAssumption DEF Wanted

\* A device on which a thread has been at work has a number in its pdata.
IdKnown == \A d \in Devices : pc[d] # "unbound" => id[d] # NoId

(***************************************************************************)
(* Every variable keeps its type, whatever the tree requests.              *)
(***************************************************************************)
LEMMA InitType == Init => TypeOK /\ IdKnown
  BY DEF Init, TypeOK, IdKnown, Pcs

LEMMA NextType == TypeOK /\ IdKnown /\ [Next]_vars => TypeOK' /\ IdKnown'
<1> SUFFICES ASSUME TypeOK, IdKnown, [Next]_vars PROVE TypeOK' /\ IdKnown'
  OBVIOUS
<1> USE DEF TypeOK, IdKnown, Goto, Pcs, Holding, HasMinor, Probed
<1>1. CASE UNCHANGED vars
  BY <1>1 DEF vars
<1>2. ASSUME NEW d \in Devices, GetId(d) PROVE TypeOK' /\ IdKnown'
  <2>1. Marked \subseteq Ids
    BY AliasAssumption DEF Marked
  <2>2. CASE Wanted(d) # NoId /\ id' = [id EXCEPT ![d] = Wanted(d)]
    BY <1>2, <2>1, <2>2, WantedType DEF GetId
  <2>3. CASE \E i \in Ids : id' = [id EXCEPT ![d] = i] /\ bitmap' = Marked \cup {i}
                            /\ pc' = [pc EXCEPT ![d] = "named"]
    BY <1>2, <2>1, <2>3, IdsAreNumbers DEF GetId
  <2>4. CASE UNCHANGED <<id, pc>>
    BY <1>2, <2>1, <2>4 DEF GetId
  <2> QED BY <1>2, <2>2, <2>3, <2>4 DEF GetId
<1>3. ASSUME NEW d \in Devices, RegisterDriver(d) PROVE TypeOK' /\ IdKnown'
  BY <1>3 DEF RegisterDriver
<1>4. ASSUME NEW d \in Devices, GetResources(d) PROVE TypeOK' /\ IdKnown'
  BY <1>4 DEF GetResources
<1>5. ASSUME NEW d \in Devices, ClaimConsole(d) PROVE TypeOK' /\ IdKnown'
  BY <1>5 DEF ClaimConsole
<1>6. ASSUME NEW d \in Devices, AddPort(d) PROVE TypeOK' /\ IdKnown'
  BY <1>6 DEF AddPort
<1>7. ASSUME NEW d \in Devices, CheckConsole(d) PROVE TypeOK' /\ IdKnown'
  BY <1>7 DEF CheckConsole
<1>8. ASSUME NEW d \in Devices, Unclaim(d) PROVE TypeOK' /\ IdKnown'
  BY <1>8 DEF Unclaim
<1>9. ASSUME NEW d \in Devices, Unregister(d) PROVE TypeOK' /\ IdKnown'
  BY <1>9 DEF Unregister
<1>10. ASSUME NEW d \in Devices, FailProbe(d) PROVE TypeOK' /\ IdKnown'
  BY <1>10 DEF FailProbe
<1>11. ASSUME NEW d \in Devices, Remove(d) PROVE TypeOK' /\ IdKnown'
  BY <1>11 DEF Remove
<1>12. ASSUME NEW d \in Devices, Release(d) PROVE TypeOK' /\ IdKnown'
  BY <1>12 DEF Release
<1>13. ASSUME NEW d \in Devices, ClearId(d) PROVE TypeOK' /\ IdKnown'
  BY <1>13 DEF ClearId
<1>14. ASSUME NEW d \in Devices, DropConsole(d) PROVE TypeOK' /\ IdKnown'
  BY <1>14 DEF DropConsole
<1>15. ASSUME NEW d \in Devices, FinishRemove(d) PROVE TypeOK' /\ IdKnown'
  BY <1>15 DEF FinishRemove
<1> QED
  BY <1>1, <1>2, <1>3, <1>4, <1>5, <1>6, <1>7, <1>8, <1>9, <1>10, <1>11, <1>12,
     <1>13, <1>14, <1>15 DEF Next, Step

LEMMA TypeAndIds == Spec => [](TypeOK /\ IdKnown)
  BY InitType, NextType, PTL DEF Spec

\* TypeOK, for the reader of the runs.
THEOREM TypeCorrect == Spec => []TypeOK
  BY TypeAndIds, PTL
-----------------------------------------------------------------------------
(***************************************************************************)
(* What a step does to the numbers held and to the bitmap: nothing, give d *)
(* the number it asked for, give d a number that is not marked, or take    *)
(* back the number of d and clear its bit.                                 *)
(***************************************************************************)
Same == Holder' = Holder /\ bitmap' \in {bitmap, Marked}
Take(d, i, marks) == /\ Holder[d] = NoId
                     /\ Holder' = [Holder EXCEPT ![d] = i]
                     /\ bitmap' = Marked \cup marks
GiveBack(d) == /\ Holder[d] # NoId
               /\ Holder' = [Holder EXCEPT ![d] = NoId]
               /\ bitmap' = bitmap \ {Holder[d]}

HolderStep ==
  \/ Same
  \/ \E d \in Devices :
       \/ Wanted(d) \in Ids /\ Take(d, Wanted(d), {})
       \/ Wanted(d) = NoId /\ \E i \in Ids \ Marked : Take(d, i, {i})
       \/ GiveBack(d)

LEMMA StepOfHolder ==
  ASSUME TypeOK, IdKnown, [Next]_vars PROVE HolderStep
<1> USE DEF TypeOK, IdKnown, Goto, Pcs, Holding, HasMinor, Probed, Holder
<1>1. CASE UNCHANGED vars
  BY <1>1 DEF vars, HolderStep, Same
<1>2. ASSUME NEW d \in Devices, GetId(d) PROVE HolderStep
  <2>1. CASE Wanted(d) # NoId /\ id' = [id EXCEPT ![d] = Wanted(d)]
             /\ bitmap' = Marked /\ pc' = [pc EXCEPT ![d] = "named"]
    <3>1. Wanted(d) \in Ids
      BY <2>1, WantedType
    <3>2. Take(d, Wanted(d), {})
      BY <1>2, <2>1, <3>1 DEF GetId, Take
    <3> QED BY <3>1, <3>2 DEF HolderStep
  <2>2. CASE Wanted(d) = NoId /\ \E i \in Ids : FirstFree(i) /\ id' = [id EXCEPT ![d] = i]
             /\ bitmap' = Marked \cup {i} /\ pc' = [pc EXCEPT ![d] = "named"]
    <3>1. PICK i \in Ids : FirstFree(i) /\ id' = [id EXCEPT ![d] = i]
             /\ bitmap' = Marked \cup {i} /\ pc' = [pc EXCEPT ![d] = "named"]
      BY <2>2
    <3>2. i \in Ids \ Marked
      BY <3>1 DEF FirstFree
    <3>3. Take(d, i, {i})
      BY <1>2, <3>1 DEF GetId, Take
    <3> QED BY <2>2, <3>2, <3>3 DEF HolderStep
  <2>3. CASE bitmap' = Marked /\ UNCHANGED <<id, pc>>
    BY <2>3 DEF HolderStep, Same
  <2> QED BY <1>2, <2>1, <2>2, <2>3 DEF GetId
<1>3. ASSUME NEW d \in Devices, RegisterDriver(d) PROVE HolderStep
  <2>1. Same
    BY <1>3 DEF RegisterDriver, Same
  <2> QED BY <2>1 DEF HolderStep
<1>4. ASSUME NEW d \in Devices, GetResources(d) PROVE HolderStep
  <2>1. Same
    BY <1>4 DEF GetResources, Same
  <2> QED BY <2>1 DEF HolderStep
<1>5. ASSUME NEW d \in Devices, ClaimConsole(d) PROVE HolderStep
  <2>1. Same
    BY <1>5 DEF ClaimConsole, Same
  <2> QED BY <2>1 DEF HolderStep
<1>6. ASSUME NEW d \in Devices, AddPort(d) PROVE HolderStep
  <2>1. Same
    BY <1>6 DEF AddPort, Same
  <2> QED BY <2>1 DEF HolderStep
<1>7. ASSUME NEW d \in Devices, CheckConsole(d) PROVE HolderStep
  <2>1. Same
    BY <1>7 DEF CheckConsole, Same
  <2> QED BY <2>1 DEF HolderStep
<1>8. ASSUME NEW d \in Devices, Unclaim(d) \/ Unregister(d) PROVE HolderStep
  <2>1. Same
    BY <1>8 DEF Unclaim, Unregister, Same
  <2> QED BY <2>1 DEF HolderStep
<1>9. ASSUME NEW d \in Devices, FailProbe(d) PROVE HolderStep
  <2>1. GiveBack(d)
    BY <1>9 DEF FailProbe, GiveBack
  <2> QED BY <2>1 DEF HolderStep
<1>10. ASSUME NEW d \in Devices, Remove(d) \/ Release(d) PROVE HolderStep
  <2>1. Same
    BY <1>10 DEF Remove, Release, Same
  <2> QED BY <2>1 DEF HolderStep
<1>11. ASSUME NEW d \in Devices, ClearId(d) PROVE HolderStep
  <2>1. GiveBack(d)
    BY <1>11 DEF ClearId, GiveBack
  <2> QED BY <2>1 DEF HolderStep
<1>12. ASSUME NEW d \in Devices, DropConsole(d) \/ FinishRemove(d) PROVE HolderStep
  <2>1. Same
    BY <1>12 DEF DropConsole, FinishRemove, Same
  <2> QED BY <2>1 DEF HolderStep
<1> QED
  BY <1>1, <1>2, <1>3, <1>4, <1>5, <1>6, <1>7, <1>8, <1>9, <1>10, <1>11, <1>12
     DEF Next, Step
-----------------------------------------------------------------------------
(***************************************************************************)
(* The inductive invariant behind the uniqueness of numbers: a number that *)
(* is held is marked, so the search for a free one passes over it; a       *)
(* number that is an alias is held by the device of the alias only.        *)
(***************************************************************************)
HeldIsMarked == \A d \in Devices : Holder[d] # NoId => Holder[d] \in Marked
AliasIsOwn == \A d \in Devices : Holder[d] \in AliasIds => Holder[d] = Alias[d]
HolderUnique == \A d, e \in Devices : Holder[d] # NoId /\ Holder[d] = Holder[e] => d = e
PoolInv == HeldIsMarked /\ AliasIsOwn /\ HolderUnique

LEMMA HolderType ==
  ASSUME TypeOK, IdKnown
  PROVE /\ Holder \in [Devices -> Ids \cup {NoId}]
        /\ \A d \in Devices : pc[d] \in Holding <=> Holder[d] # NoId
        /\ \A d \in Devices : pc[d] \in Holding => Holder[d] = id[d]
  BY DEF TypeOK, IdKnown, Holder, Holding, Probed

LEMMA PoolInvInit == Init => PoolInv
  BY NoIdAssumption, IdsAreNumbers, AliasAssumption
     DEF Init, PoolInv, HeldIsMarked, AliasIsOwn, HolderUnique, Holder, Holding, Probed

LEMMA PoolInvNext ==
  ASSUME RequestsAreAliases, TypeOK, IdKnown, PoolInv, HolderStep
  PROVE PoolInv'
<1> USE HolderType DEF PoolInv, HeldIsMarked, AliasIsOwn, HolderUnique
<1>1. CASE Same
  BY <1>1 DEF Same, Marked
<1>2. ASSUME NEW d \in Devices, Wanted(d) \in Ids, Take(d, Wanted(d), {})
      PROVE PoolInv'
  <2>1. Wanted(d) = Alias[d] /\ Alias[d] \in AliasIds
    BY <1>2, IdsAreNumbers, AliasAssumption DEF RequestsAreAliases, Wanted
  <2>2. \A e \in Devices : Holder[e] # Alias[d]
    BY <1>2, <2>1, IdsAreNumbers, AliasAssumption DEF Take
  <2> QED BY <1>2, <2>1, <2>2, AliasAssumption DEF Take, Marked
<1>3. ASSUME NEW d \in Devices, NEW i \in Ids \ Marked, Take(d, i, {i})
      PROVE PoolInv'
  BY <1>3, IdsAreNumbers, AliasAssumption DEF Take, Marked
<1>4. ASSUME NEW d \in Devices, GiveBack(d) PROVE PoolInv'
  BY <1>4, IdsAreNumbers, AliasAssumption DEF GiveBack, Marked
<1> QED BY <1>1, <1>2, <1>3, <1>4 DEF HolderStep

LEMMA PoolInvariant == RequestsAreAliases /\ Spec => [](TypeOK /\ IdKnown /\ PoolInv)
<1>1. RequestsAreAliases /\ TypeOK /\ IdKnown /\ PoolInv /\ [Next]_vars => PoolInv'
  BY StepOfHolder, PoolInvNext
<1>2. RequestsAreAliases => RequestsAreAliases'
  BY DEF RequestsAreAliases
<1> QED BY <1>1, <1>2, PoolInvInit, InitType, NextType, PTL DEF Spec

(***************************************************************************)
(* Numbers are unique whenever the tree requests for a device nothing but  *)
(* the number of its own alias.                                            *)
(***************************************************************************)
THEOREM UniqueIdsHolds == RequestsAreAliases /\ Spec => []UniqueIds
<1>1. TypeOK /\ IdKnown /\ PoolInv => UniqueIds
  BY HolderType DEF PoolInv, HolderUnique, UniqueIds
<1> QED BY <1>1, PoolInvariant, PTL
-----------------------------------------------------------------------------
\* NoLeakedIds, said of the numbers held; true whatever the tree requests.
NoLeak == \A i \in bitmap : i \in AliasIds \/ \E d \in Devices : Holder[d] = i

LEMMA NoLeakNext ==
  ASSUME TypeOK, IdKnown, NoLeak, HolderStep PROVE NoLeak'
<1> USE HolderType DEF NoLeak
<1>1. CASE Same
  BY <1>1 DEF Same, Marked
<1>2. ASSUME NEW d \in Devices, NEW i \in Ids, NEW m \in SUBSET {i}, Take(d, i, m)
      PROVE NoLeak'
  <2>1. \A e \in Devices : Holder[e] # NoId => Holder'[e] = Holder[e]
    BY <1>2 DEF Take
  <2>2. Holder'[d] = i
    BY <1>2 DEF Take
  <2> QED BY <1>2, <2>1, <2>2, IdsAreNumbers DEF Take, Marked, TypeOK
<1>3. ASSUME NEW d \in Devices, GiveBack(d) PROVE NoLeak'
  BY <1>3 DEF GiveBack
<1> QED BY <1>1, <1>2, <1>3 DEF HolderStep

(***************************************************************************)
(* No failed probe and no removal leaves a number marked behind, whatever  *)
(* the tree requests.                                                      *)
(***************************************************************************)
THEOREM NoLeakedIdsHolds == Spec => []NoLeakedIds
<1>1. Init => NoLeak
  BY DEF Init, NoLeak
<1>2. TypeOK /\ IdKnown /\ NoLeak /\ [Next]_vars => NoLeak'
  BY StepOfHolder, NoLeakNext
<1>3. TypeOK /\ IdKnown /\ NoLeak => NoLeakedIds
  BY HolderType, IdsAreNumbers DEF NoLeak, NoLeakedIds, Held, TypeOK
<1> QED BY <1>1, <1>2, <1>3, InitType, NextType, PTL DEF Spec
-----------------------------------------------------------------------------
(***************************************************************************)
(* The refinement: Init maps to Pool!Init, every step to a Pool step or to *)
(* a stutter.                                                              *)
(***************************************************************************)
LEMMA PoolStep ==
  ASSUME RequestsAreAliases, TypeOK, IdKnown, PoolInv, HolderStep
  PROVE [Pool!Next]_Holder
<1> USE HolderType DEF PoolInv, HeldIsMarked, AliasIsOwn, HolderUnique
<1>1. CASE Same
  BY <1>1 DEF Same
<1>2. ASSUME NEW d \in Devices, Wanted(d) \in Ids, Take(d, Wanted(d), {})
      PROVE Pool!Acquire(d, Wanted(d))
  <2>1. Wanted(d) = Alias[d] /\ Alias[d] \in AliasIds /\ Alias[d] # NoId
    BY <1>2, IdsAreNumbers, AliasAssumption DEF RequestsAreAliases, Wanted
  <2>2. \A e \in Devices : Holder[e] # Alias[d]
    BY <1>2, <2>1, IdsAreNumbers, AliasAssumption DEF Take
  <2> QED BY <1>2, <2>1, <2>2 DEF Take, Pool!Acquire
<1>3. ASSUME NEW d \in Devices, Wanted(d) = NoId, NEW i \in Ids \ Marked, Take(d, i, {i})
      PROVE Pool!Acquire(d, i)
  <2>1. Alias[d] = NoId /\ i \notin AliasIds
    BY <1>3, AliasAssumption DEF Wanted, Marked, RequestsAreAliases
  <2>2. \A e \in Devices : Holder[e] # i
    BY <1>3, IdsAreNumbers
  <2> QED BY <1>3, <2>1, <2>2 DEF Take, Pool!Acquire
<1>4. ASSUME NEW d \in Devices, GiveBack(d) PROVE Pool!Release(d)
  BY <1>4 DEF GiveBack, Pool!Release
<1> QED BY <1>1, <1>2, <1>3, <1>4 DEF HolderStep, Pool!Next

(***************************************************************************)
(* The driver's allocator implements the abstract pool of numbers.         *)
(***************************************************************************)
THEOREM PoolRefinement == RequestsAreAliases /\ Spec => ImplementsIdPool
<1>1. Init => Pool!Init
  BY DEF Init, Pool!Init, Holder, Holding, Probed
<1>2. RequestsAreAliases /\ TypeOK /\ IdKnown /\ PoolInv /\ [Next]_vars => [Pool!Next]_Holder
  BY StepOfHolder, PoolStep
<1>3. RequestsAreAliases => RequestsAreAliases'
  BY DEF RequestsAreAliases
<1> QED BY <1>1, <1>2, <1>3, PoolInvariant, PTL DEF Spec, ImplementsIdPool, Pool!Spec
-----------------------------------------------------------------------------
(***************************************************************************)
(* The minors the kernel holds are those of the registered drivers, each   *)
(* of one driver only.                                                     *)
(***************************************************************************)
MinorInv ==
  /\ \A d \in Devices : pc[d] \in HasMinor => id[d] \in minors
  /\ \A m \in minors : \E d \in Devices : pc[d] \in HasMinor /\ id[d] = m
  /\ \A d, e \in Devices :
       pc[d] \in HasMinor /\ pc[e] \in HasMinor /\ id[d] = id[e] => d = e

LEMMA MinorInvNext ==
  ASSUME TypeOK, IdKnown, MinorInv, [Next]_vars PROVE MinorInv'
<1> USE DEF TypeOK, IdKnown, MinorInv, Goto, Pcs, Holding, HasMinor, Probed
<1>1. CASE UNCHANGED vars
  BY <1>1 DEF vars
<1>2. ASSUME NEW d \in Devices, GetId(d) PROVE MinorInv'
  <2>1. UNCHANGED minors /\ pc[d] = "unbound"
    BY <1>2 DEF GetId
  <2>2. \A e \in Devices : e # d => id'[e] = id[e] /\ pc'[e] = pc[e]
    BY <1>2 DEF GetId
  <2>3. pc'[d] \notin HasMinor
    BY <1>2 DEF GetId
  <2> QED BY <2>1, <2>2, <2>3
<1>3. ASSUME NEW d \in Devices, RegisterDriver(d) PROVE MinorInv'
  BY <1>3 DEF RegisterDriver
<1>4. ASSUME NEW d \in Devices,
             \/ GetResources(d) \/ ClaimConsole(d) \/ CheckConsole(d) \/ Unclaim(d)
             \/ Remove(d) \/ Release(d) \/ ClearId(d) \/ DropConsole(d)
      PROVE MinorInv'
  <2>1. UNCHANGED <<id, minors>>
    BY <1>4 DEF GetResources, ClaimConsole, CheckConsole, Unclaim, Remove, Release,
                ClearId, DropConsole
  <2>2. \A e \in Devices : pc'[e] \in HasMinor <=> pc[e] \in HasMinor
    BY <1>4 DEF GetResources, ClaimConsole, CheckConsole, Unclaim, Remove, Release,
                ClearId, DropConsole
  <2> QED BY <2>1, <2>2
<1>5. ASSUME NEW d \in Devices, AddPort(d) PROVE MinorInv'
  BY <1>5 DEF AddPort
<1>6. ASSUME NEW d \in Devices, Unregister(d) PROVE MinorInv'
  BY <1>6 DEF Unregister
<1>7. ASSUME NEW d \in Devices, FailProbe(d) PROVE MinorInv'
  BY <1>7 DEF FailProbe
<1>8. ASSUME NEW d \in Devices, FinishRemove(d) PROVE MinorInv'
  BY <1>8 DEF FinishRemove
<1> QED BY <1>1, <1>2, <1>3, <1>4, <1>5, <1>6, <1>7, <1>8 DEF Next, Step

(***************************************************************************)
(* The one window in which a rightful holder is refused its driver is the  *)
(* one ulite_remove opens by clearing the bit before it unregisters.       *)
(***************************************************************************)
THEOREM ConflictOnlyInRemoveHolds ==
  RequestsAreAliases /\ Spec => []ConflictOnlyInRemove
<1>1. Init => MinorInv
  BY DEF Init, MinorInv, HasMinor, Probed
<1>2. TypeOK /\ IdKnown /\ PoolInv /\ MinorInv => ConflictOnlyInRemove
  <2> SUFFICES ASSUME TypeOK, IdKnown, PoolInv, MinorInv, NEW d \in Devices,
                      pc[d] = "named", id[d] \in minors
               PROVE \E e \in Devices \ {d} : pc[e] \in {"cleared", "dropped"}
                                              /\ id[e] = id[d]
    BY DEF ConflictOnlyInRemove
  <2>1. PICK e \in Devices : pc[e] \in HasMinor /\ id[e] = id[d]
    BY DEF MinorInv
  <2>2. e # d
    BY <2>1 DEF HasMinor, Probed
  <2>3. pc[e] \notin Holding
    BY <2>1, <2>2, HolderType DEF PoolInv, HolderUnique, Holding
  <2> QED BY <2>1, <2>2, <2>3 DEF HasMinor, Holding
<1> QED BY <1>1, <1>2, MinorInvNext, InitType, NextType, PoolInvariant, PTL DEF Spec
=============================================================================
