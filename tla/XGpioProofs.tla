----------------------------- MODULE XGpioProofs -----------------------------
(***************************************************************************)
(* Proofs about XGpio, for any pins and any number of threads: its type    *)
(* invariant, and that the gpio_lock of a channel keeps the writes of      *)
(* different threads from undoing each other.                              *)
(***************************************************************************)
EXTENDS XGpio, TLAPS

\* Where a thread holds the lock of its channel.
Critical == {"wdata", "wtri", "or", "gier", "and", "check", "off"}

LockHeld == \A t \in Threads : pc[t] \in Critical => lock[C(t)] = t

\* What is about to be written is what the shadow register says now, changed
\* as the thread was asked.
Pending == \A t \in Threads :
  /\ pc[t] = "wdata" => temp[t] = Outputs(t, gpio_state[C(t)])
  /\ pc[t] = "wtri" => temp[t] = Directions(t, gpio_dir[C(t)])
  /\ pc[t] = "or" => temp[t] \subseteq Channels

IInv == TypeOK /\ LockHeld /\ Pending /\ NoLostWrites

\* TypeOK without its membership of a set of functions.
LEMMA Types ==
  ASSUME TypeOK
  PROVE  /\ gpio_state \in [Channels -> SUBSET Pins]
         /\ gpio_dir \in [Channels -> SUBSET Pins]
         /\ irq_enable \in [Channels -> SUBSET Pins]
         /\ DATA \in [Channels -> SUBSET Pins] /\ TRI \in [Channels -> SUBSET Pins]
         /\ level \in [Channels -> SUBSET Pins] /\ risen \in [Channels -> SUBSET Pins]
         /\ asked \in [Channels -> SUBSET Pins] /\ inputs \in [Channels -> SUBSET Pins]
BY DEF TypeOK

LEMMA ChannelFacts == 1 \in Channels /\ Handled \in Channels
<1>1. CASE Channels = {1}
  BY <1>1 DEF Handled, Max
<1>2. CASE Channels = {1, 2}
  <2>1. \E x \in Channels : \A y \in Channels : x >= y
    BY <1>2
  <2> QED BY <1>2, <2>1 DEF Handled, Max
<1> QED BY <1>1, <1>2, ChannelsAssumption

LEMMA JobFacts ==
  ASSUME NEW j \in Jobs \cup {NoJob}
  PROVE  j.c \in Channels /\ j.on \subseteq Pins /\ j.off \subseteq Pins
BY ChannelFacts DEF Jobs, NoJob, Job

\* The invariant holds at the start.
LEMMA InitInv == Init => IInv
<1> SUFFICES ASSUME Init PROVE IInv
  OBVIOUS
<1>1. TypeOK
  BY DEF Init, TypeOK
<1> QED BY <1>1 DEF Init, IInv, LockHeld, Pending, Critical, NoLostWrites

\* What a thread writes are pins.
LEMMA PinsOnly ==
  ASSUME TypeOK, NEW t \in Threads, NEW s \in SUBSET Pins
  PROVE  /\ C(t) \in Channels
         /\ Outputs(t, s) \in SUBSET Pins /\ Directions(t, s) \in SUBSET Pins
BY JobFacts DEF TypeOK, C, On, Off, Outputs, Directions

\* Every step keeps the types.
LEMMA NextType == IInv /\ [Next]_vars => TypeOK'
<1> SUFFICES ASSUME IInv, [Next]_vars PROVE TypeOK'
  OBVIOUS
<1> USE DEF IInv
<1>1. CASE UNCHANGED vars
  BY <1>1 DEF TypeOK, vars, chip, handler, ports, pins, history
<1>2. ASSUME NEW t \in Threads, NEW j \in Requests, Begin(t, j) PROVE TypeOK'
  BY <1>2, RequestsAssumption DEF Begin, TypeOK, Goto, chip, handler, ports, pins, history
<1>3. ASSUME NEW t \in Threads, ReadState(t) PROVE TypeOK'
  <2>1. C(t) \in Channels /\ Outputs(t, gpio_state[C(t)]) \in SUBSET Pins
    BY PinsOnly, Types
  <2> QED BY <1>3, <2>1 DEF ReadState, TypeOK, Goto, Keep, Lock, chip, handler, ports,
                            pins, history
<1>4. ASSUME NEW t \in Threads, WriteData(t) PROVE TypeOK'
  <2>1. /\ C(t) \in Channels /\ Outputs(t, gpio_state[C(t)]) \in SUBSET Pins
        /\ Directions(t, gpio_dir[C(t)]) \in SUBSET Pins
        /\ Outputs(t, asked[C(t)]) \in SUBSET Pins
    BY PinsOnly, Types
  <2>2. temp[t] \in SUBSET Pins
    BY <1>4, <2>1 DEF WriteData, Pending
  <2>3. /\ gpio_state' \in [Channels -> SUBSET Pins]
        /\ DATA' \in [Channels -> SUBSET Pins]
        /\ asked' \in [Channels -> SUBSET Pins]
    BY <1>4, <2>1, <2>2, Types DEF WriteData
  <2>4. /\ lock' \in [Channels -> Threads \cup {NoOne}]
        /\ job' \in [Threads -> Jobs \cup {NoJob}]
        /\ temp' \in [Threads -> SUBSET (Pins \cup Channels)]
    BY <1>4, <2>1 DEF WriteData, TypeOK, Goto, Keep, Unlock, Done
  <2>5. pc' = [pc EXCEPT ![t] = "idle"] \/ pc' = [pc EXCEPT ![t] = "wtri"]
    BY <1>4 DEF WriteData, Done, Goto
  <2> QED BY <1>4, <2>3, <2>4, <2>5 DEF WriteData, TypeOK, handler, pins
<1>5. ASSUME NEW t \in Threads, ReadDir(t) PROVE TypeOK'
  <2>1. C(t) \in Channels /\ Directions(t, gpio_dir[C(t)]) \in SUBSET Pins
    BY PinsOnly, Types
  <2> QED BY <1>5, <2>1 DEF ReadDir, TypeOK, Goto, Keep, Lock, chip, handler, ports,
                            pins, history
<1>6. ASSUME NEW t \in Threads, WriteTri(t) PROVE TypeOK'
  <2>1. /\ C(t) \in Channels /\ Directions(t, gpio_dir[C(t)]) \in SUBSET Pins
        /\ Directions(t, inputs[C(t)]) \in SUBSET Pins
    BY PinsOnly, Types
  <2>2. temp[t] \in SUBSET Pins
    BY <1>6, <2>1 DEF WriteTri, Pending
  <2>3. /\ gpio_dir' \in [Channels -> SUBSET Pins]
        /\ TRI' \in [Channels -> SUBSET Pins]
        /\ inputs' \in [Channels -> SUBSET Pins]
    BY <1>6, <2>1, <2>2, Types DEF WriteTri
  <2>4. /\ lock' \in [Channels -> Threads \cup {NoOne}]
        /\ job' \in [Threads -> Jobs \cup {NoJob}]
        /\ temp' \in [Threads -> SUBSET (Pins \cup Channels)]
    BY <1>6, <2>1 DEF WriteTri, TypeOK, Goto, Keep, Unlock, Done
  <2>5. pc' = [pc EXCEPT ![t] = "idle"] \/ pc' = [pc EXCEPT ![t] = "unmask"]
    BY <1>6 DEF WriteTri, Done, Goto
  <2> QED BY <1>6, <2>3, <2>4, <2>5 DEF WriteTri, TypeOK, handler, pins
<1>7. ASSUME NEW t \in Threads, Unmask(t) PROVE TypeOK'
  <2>1. C(t) \in Channels /\ On(t) \subseteq Pins
    BY JobFacts DEF TypeOK, C, On
  <2> QED BY <1>7, <2>1 DEF Unmask, TypeOK, Goto, Keep, Lock, handler, ports, pins, history
<1>8. ASSUME NEW t \in Threads, Mask(t) PROVE TypeOK'
  <2>1. C(t) \in Channels
    BY JobFacts DEF TypeOK, C
  <2>2. /\ irq_enable' \in [Channels -> SUBSET Pins]
        /\ risen' \in [Channels -> SUBSET Pins]
    BY <1>8, Types DEF Mask
  <2>3. /\ lock' \in [Channels -> Threads \cup {NoOne}]
        /\ job' \in [Threads -> Jobs \cup {NoJob}]
        /\ temp' \in [Threads -> SUBSET (Pins \cup Channels)]
    BY <1>8, <2>1 DEF Mask, TypeOK, Goto, Keep, Lock, Done
  <2>4. pc' = [pc EXCEPT ![t] = "idle"] \/ pc' = [pc EXCEPT ![t] = "and"]
    BY <1>8 DEF Mask, Done, Goto
  <2> QED BY <1>8, <2>2, <2>3, <2>4 DEF Mask, TypeOK, handler, ports, pins, history
<1>9. ASSUME NEW t \in Threads,
             EnableChannel(t) \/ EnableGlobal(t) \/ DisableChannel(t) \/ CheckChannels(t)
             \/ DisableGlobal(t)
      PROVE TypeOK'
  <2>1. C(t) \in Channels
    BY JobFacts DEF TypeOK, C
  <2>2. /\ lock' \in [Channels -> Threads \cup {NoOne}]
        /\ job' \in [Threads -> Jobs \cup {NoJob}]
        /\ temp' \in [Threads -> SUBSET (Pins \cup Channels)]
    BY <1>9, <2>1 DEF EnableChannel, EnableGlobal, DisableChannel, CheckChannels,
                      DisableGlobal, TypeOK, Goto, Keep, Unlock, Done
  <2>3. \E l \in {"gier", "check", "off", "idle"} : pc' = [pc EXCEPT ![t] = l]
    BY <1>9 DEF EnableChannel, EnableGlobal, DisableChannel, CheckChannels,
                DisableGlobal, Goto, Done
  <2>4. IPIER' \subseteq Channels /\ GIER' \in BOOLEAN
    BY <1>9, <2>1 DEF EnableChannel, EnableGlobal, DisableChannel, CheckChannels,
                      DisableGlobal, TypeOK, Pending
  <2>5. UNCHANGED <<chip, handler, ports, pins, history>>
    BY <1>9 DEF EnableChannel, EnableGlobal, DisableChannel, CheckChannels, DisableGlobal
  <2> QED BY <2>2, <2>3, <2>4, <2>5 DEF TypeOK, chip, handler, ports, pins, history
<1>10. CASE Handler
  <2>1. UNCHANGED <<chip, lock, pc, job, temp, ports, IPIER, GIER, history, level, moved>>
    BY <1>10 DEF Handler, Enter, ReadPins, Dispatch, Ack, pins
  <2>2. hpc' \in {"off", "read", "dispatch", "ack"} /\ val' \subseteq Pins
    BY <1>10, Types, ChannelFacts DEF Handler, Enter, ReadPins, Dispatch, Ack, TypeOK
  <2>3. IPISR' \subseteq Channels /\ risen' \in [Channels -> SUBSET Pins]
    BY <1>10, Types, ChannelFacts DEF Handler, Enter, ReadPins, Dispatch, Ack, TypeOK,
                                      SymDiff, pins
  <2> QED BY <2>1, <2>2, <2>3 DEF TypeOK, chip, ports, history
<1>11. ASSUME NEW c \in Channels, NEW p \in Pins, Rise(c, p) \/ Fall(c, p) PROVE TypeOK'
  <2>1. IPISR' \subseteq Channels /\ level' \in [Channels -> SUBSET Pins]
        /\ risen' \in [Channels -> SUBSET Pins]
    BY <1>11, Types DEF Rise, Fall, TypeOK
  <2>2. UNCHANGED <<chip, lock, pc, job, temp, handler, ports, IPIER, GIER, history>>
    BY <1>11 DEF Rise, Fall
  <2>3. moved' \in BOOLEAN
    BY <1>11 DEF Rise, Fall
  <2> QED BY <2>1, <2>2, <2>3 DEF TypeOK, chip, handler, ports, history
<1> QED BY <1>1, <1>2, <1>3, <1>4, <1>5, <1>6, <1>7, <1>8, <1>9, <1>10, <1>11
        DEF Next, Thread

\* A step of thread t leaves the state of the other threads alone.
LEMMA Others ==
  ASSUME TypeOK, NEW t \in Threads, Thread(t) \/ \E j \in Requests : Begin(t, j)
  PROVE  \A u \in Threads \ {t} :
           pc'[u] = pc[u] /\ job'[u] = job[u] /\ temp'[u] = temp[u]
BY DEF Thread, Begin, ReadState, WriteData, ReadDir, WriteTri, Unmask, EnableChannel,
       EnableGlobal, Mask, DisableChannel, CheckChannels, DisableGlobal, Goto, Keep, Done,
       TypeOK

\* A thread in a critical section of a channel is the only one there, and no
\* other takes the lock, releases it or writes the registers of the channel.
LEMMA LockNext == IInv /\ [Next]_vars => LockHeld'
<1> SUFFICES ASSUME IInv, [Next]_vars PROVE LockHeld'
  OBVIOUS
<1> USE DEF IInv
<1>1. CASE UNCHANGED <<pc, job, lock>>
  BY <1>1 DEF LockHeld, C
<1>2. ASSUME NEW t \in Threads, Thread(t) \/ \E j \in Requests : Begin(t, j)
      PROVE LockHeld'
  <2> SUFFICES ASSUME NEW u \in Threads, pc'[u] \in Critical
               PROVE lock'[C(u)'] = u
    BY DEF LockHeld
  <2>1. C(t) \in Channels /\ C(u) \in Channels
    BY JobFacts DEF TypeOK, C
  <2>2. CASE u = t
    <3>1. pc[t] # "idle" /\ job'[t] = job[t]
      BY <1>2, <2>2 DEF Thread, Begin, ReadState, WriteData, ReadDir, WriteTri, Unmask,
         EnableChannel, EnableGlobal, Mask, DisableChannel, CheckChannels, DisableGlobal,
         Goto, Done, TypeOK, Critical
    <3>2. lock'[C(t)] = t
      BY <1>2, <2>1, <2>2, <3>1 DEF Thread, Begin, ReadState, WriteData, ReadDir, WriteTri,
         Unmask, EnableChannel, EnableGlobal, Mask, DisableChannel, CheckChannels,
         DisableGlobal, Goto, Done, TypeOK, Critical, LockHeld, Lock
    <3> QED BY <2>2, <3>1, <3>2 DEF C
  <2>3. CASE u # t
    <3>1. pc[u] \in Critical /\ C(u)' = C(u) /\ lock[C(u)] = u /\ u # NoOne
      BY <1>2, <2>3, Others, ThreadsAssumption DEF LockHeld, C
    <3>2. \/ UNCHANGED lock
          \/ lock[C(t)] = NoOne /\ Lock(t)
          \/ lock[C(t)] = t /\ Unlock(t)
      BY <1>2 DEF Thread, Begin, ReadState, WriteData, ReadDir, WriteTri, Unmask,
         EnableChannel, EnableGlobal, Mask, DisableChannel, CheckChannels, DisableGlobal,
         LockHeld, Critical, Lock, Free
    <3> QED BY <2>1, <2>3, <3>1, <3>2 DEF Lock, Unlock, TypeOK
  <2> QED BY <2>2, <2>3
<1>3. ASSUME ~UNCHANGED <<pc, job, lock>>
      PROVE \E t \in Threads : Thread(t) \/ \E j \in Requests : Begin(t, j)
  BY <1>3 DEF Next, vars, Handler, Enter, ReadPins, Dispatch, Ack, Rise, Fall
<1> QED BY <1>1, <1>2, <1>3

\* The registers and shadows of a channel are written by the holder of its
\* lock only, so a value made from them stays current until it is written.
LEMMA PendingNext == IInv /\ [Next]_vars => Pending'
<1> SUFFICES ASSUME IInv, [Next]_vars PROVE Pending'
  OBVIOUS
<1> USE DEF IInv
<1>1. CASE UNCHANGED <<pc, job, temp, gpio_state, gpio_dir>>
  BY <1>1 DEF Pending, Outputs, Directions, C, On, Off
<1>2. ASSUME NEW t \in Threads, Thread(t) \/ \E j \in Requests : Begin(t, j)
      PROVE Pending'
  <2> SUFFICES ASSUME NEW u \in Threads
               PROVE  /\ pc'[u] = "wdata" =>
                           temp'[u] = Outputs(u, gpio_state[C(u)])'
                      /\ pc'[u] = "wtri" =>
                           temp'[u] = Directions(u, gpio_dir[C(u)])'
                      /\ pc'[u] = "or" => temp'[u] \subseteq Channels
    BY DEF Pending
  <2>1. C(t) \in Channels /\ C(u) \in Channels
    BY JobFacts DEF TypeOK, C
  <2>2. CASE u = t
    <3>1. pc'[t] \in {"wdata", "wtri", "or"} => job'[t] = job[t]
      BY <1>2 DEF Thread, Begin, ReadState, WriteData, ReadDir, WriteTri, Unmask,
         EnableChannel, EnableGlobal, Mask, DisableChannel, CheckChannels, DisableGlobal,
         Goto, Done, TypeOK
    <3>2. pc'[t] = "wdata" => /\ temp'[t] = Outputs(t, gpio_state[C(t)])
                              /\ gpio_state' = gpio_state
      BY <1>2 DEF Thread, Begin, ReadState, WriteData, ReadDir, WriteTri, Unmask,
         EnableChannel, EnableGlobal, Mask, DisableChannel, CheckChannels, DisableGlobal,
         Goto, Keep, Done, TypeOK, chip
    <3>3. pc'[t] = "wtri" => /\ temp'[t] = Directions(t, gpio_dir[C(t)])
                             /\ gpio_dir' = gpio_dir
      BY <1>2 DEF Thread, Begin, ReadState, WriteData, ReadDir, WriteTri, Unmask,
         EnableChannel, EnableGlobal, Mask, DisableChannel, CheckChannels, DisableGlobal,
         Goto, Keep, Done, TypeOK, chip
    <3>4. pc'[t] = "or" => temp'[t] \subseteq Channels
      BY <1>2 DEF Thread, Begin, ReadState, WriteData, ReadDir, WriteTri, Unmask,
         EnableChannel, EnableGlobal, Mask, DisableChannel, CheckChannels, DisableGlobal,
         Goto, Keep, Done, TypeOK
    <3> QED BY <2>2, <3>1, <3>2, <3>3, <3>4 DEF Outputs, Directions, C, On, Off
  <2>3. CASE u # t
    <3>1. pc'[u] = pc[u] /\ job'[u] = job[u] /\ temp'[u] = temp[u]
      BY <1>2, <2>3, Others
    <3>2. CASE pc[u] \in {"wdata", "wtri"}
      <4>1. lock[C(u)] = u
        BY <3>2 DEF LockHeld, Critical
      <4>2. \/ UNCHANGED <<gpio_state, gpio_dir>>
            \/ /\ lock[C(t)] = t
               /\ \A c \in Channels \ {C(t)} : gpio_state'[c] = gpio_state[c]
                                              /\ gpio_dir'[c] = gpio_dir[c]
        BY <1>2, <2>1, Types DEF Thread, Begin, ReadState, WriteData, ReadDir, WriteTri,
           Unmask, EnableChannel, EnableGlobal, Mask, DisableChannel, CheckChannels,
           DisableGlobal, LockHeld, Critical, chip
      <4>3. gpio_state'[C(u)] = gpio_state[C(u)] /\ gpio_dir'[C(u)] = gpio_dir[C(u)]
        BY <2>1, <2>3, <4>1, <4>2
      <4> QED BY ZenonT(80), <3>1, <4>3 DEF Pending, Outputs, Directions, C, On, Off
    <3>3. CASE pc[u] \notin {"wdata", "wtri"}
      BY <3>1, <3>3 DEF Pending
    <3> QED BY <3>2, <3>3
  <2> QED BY <2>2, <2>3
<1>3. ASSUME ~UNCHANGED <<pc, job, temp, gpio_state, gpio_dir>>
      PROVE \E t \in Threads : Thread(t) \/ \E j \in Requests : Begin(t, j)
  BY <1>3 DEF Next, vars, chip, Handler, Enter, ReadPins, Dispatch, Ack, Rise, Fall
<1> QED BY <1>1, <1>2, <1>3

LEMMA WritesNext == IInv /\ [Next]_vars => NoLostWrites'
<1> SUFFICES ASSUME IInv, [Next]_vars PROVE NoLostWrites'
  OBVIOUS
<1> USE DEF IInv
<1>1. CASE UNCHANGED <<gpio_state, gpio_dir, ports, history>>
  BY <1>1 DEF NoLostWrites, ports, history
<1>2. ASSUME NEW t \in Threads, WriteData(t) PROVE NoLostWrites'
  <2>1. C(t) \in Channels
    BY JobFacts DEF TypeOK, C
  <2>2. temp[t] = Outputs(t, asked[C(t)])
    BY <1>2, <2>1 DEF WriteData, Pending, NoLostWrites
  <2> QED BY <1>2, <2>1, <2>2, Types DEF WriteData, NoLostWrites
<1>3. ASSUME NEW t \in Threads, WriteTri(t) PROVE NoLostWrites'
  <2>1. C(t) \in Channels
    BY JobFacts DEF TypeOK, C
  <2>2. temp[t] = Directions(t, inputs[C(t)])
    BY <1>3, <2>1 DEF WriteTri, Pending, NoLostWrites
  <2> QED BY <1>3, <2>1, <2>2, Types DEF WriteTri, NoLostWrites
<1>4. ASSUME ~UNCHANGED <<gpio_state, gpio_dir, ports, history>>
      PROVE \E t \in Threads : WriteData(t) \/ WriteTri(t)
  BY <1>4 DEF Next, Thread, Begin, ReadState, ReadDir, Unmask, EnableChannel, EnableGlobal,
     Mask, DisableChannel, CheckChannels, DisableGlobal, Handler, Enter, ReadPins,
     Dispatch, Ack, Rise, Fall, vars, chip
<1> QED BY <1>1, <1>2, <1>3, <1>4

LEMMA Invariant == Spec => []IInv
<1>1. IInv /\ [Next]_vars => IInv'
  BY NextType, LockNext, PendingNext, WritesNext DEF IInv
<1> QED BY InitInv, <1>1, PTL DEF Spec

(***************************************************************************)
(* The state of the driver, of its callers and of the block stays in its   *)
(* types.                                                                  *)
(***************************************************************************)
THEOREM TypeCorrect == Spec => []TypeOK
BY Invariant, PTL DEF IInv

(***************************************************************************)
(* gpio_lock makes xgpio_set, xgpio_set_multiple, xgpio_dir_in and         *)
(* xgpio_dir_out of any threads take effect one after the other.           *)
(***************************************************************************)
THEOREM NoLostWritesHolds == Spec => []NoLostWrites
BY Invariant, PTL DEF IInv

=============================================================================
