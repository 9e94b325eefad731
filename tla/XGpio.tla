-------------------------------- MODULE XGpio --------------------------------
(***************************************************************************)
(* The AXI GPIO driver (gpio-byu.c) at run time: one struct xgpio_instance *)
(* per channel of the block, each with its own gpio_lock, over registers   *)
(* of which the interrupt ones are shared by the channels, and the chained *)
(* interrupt handler, which takes no lock.                                 *)
(*                                                                         *)
(* A register or bit field is the set of its pins; the bit of channel c in *)
(* IPIER and IPISR, chip->offset / XGPIO_CHANNEL_OFFSET + 1, is c.         *)
(*                                                                         *)
(* The block is external: a change of an input sets the status bit of its  *)
(* channel, and writing a 1 to a status bit toggles it.                    *)
(***************************************************************************)
EXTENDS Integers, FiniteSetsExt

CONSTANTS Channels,   \* {1}, or {1, 2} with "xlnx,is-dual"
          Pins,       \* numbers of the pins of a channel
          Threads,    \* callers, each on its CPU
          Requests,   \* operations the callers ask for
          Edges       \* what the inputs may do: "rise", "fall"

NoOne == "no one"

ASSUME ChannelsAssumption == Channels \in {{1}, {1, 2}}
ASSUME EdgesAssumption == Edges \subseteq {"rise", "fall"}
ASSUME ThreadsAssumption == NoOne \notin Threads

\* What a thread is asked to do: set the pins on and clear the pins off
\* (xgpio_set, xgpio_set_multiple; "out" is xgpio_dir_out), or act on pin on.
Job(k, c, on, off) == [k |-> k, c |-> c, on |-> on, off |-> off]
NoJob == Job("none", 1, {}, {})
Jobs ==
  {Job("set", c, on, off) : c \in Channels, on \in SUBSET Pins, off \in SUBSET Pins} \cup
  {Job("out", c, {p}, {}) : c \in Channels, p \in Pins} \cup
  {Job("out", c, {}, {p}) : c \in Channels, p \in Pins} \cup
  {Job(k, c, {p}, {}) : k \in {"in", "unmask", "mask"}, c \in Channels, p \in Pins}
ASSUME RequestsAssumption == Requests \subseteq Jobs

VARIABLES
  gpio_state, gpio_dir, irq_enable, lock,  \* struct xgpio_instance, by channel
  pc, job, temp,                           \* the threads
  hpc, val,                                \* xgpio_irqhandler
  DATA, TRI, IPIER, GIER, IPISR, level,    \* the block and its pins
  asked, inputs,        \* history: pins as last asked for
  risen, moved          \* history: rises of unmasked pins owed, see EdgeServed

chip == <<gpio_state, gpio_dir, irq_enable>>
handler == <<hpc, val>>
ports == <<DATA, TRI>>
pins == <<IPISR, level, risen, moved>>
history == <<asked, inputs>>
vars == <<chip, lock, pc, job, temp, handler, ports, IPIER, GIER, pins, history>>

TypeOK ==
  /\ {gpio_state, gpio_dir, irq_enable, DATA, TRI, level, asked, inputs, risen}
       \subseteq [Channels -> SUBSET Pins]
  /\ lock \in [Channels -> Threads \cup {NoOne}]
  /\ pc \in [Threads -> {"idle", "data", "wdata", "dir", "wtri", "unmask", "or",
                         "gier", "mask", "and", "check", "off"}]
  /\ job \in [Threads -> Jobs \cup {NoJob}]
  /\ temp \in [Threads -> SUBSET (Pins \cup Channels)]
  /\ hpc \in {"off", "read", "dispatch", "ack"} /\ val \subseteq Pins
  /\ IPIER \subseteq Channels /\ IPISR \subseteq Channels
  /\ GIER \in BOOLEAN /\ moved \in BOOLEAN

\* After xgpio_of_probe of a device without defaults: all pins are inputs.
Init ==
  /\ gpio_state = [c \in Channels |-> {}] /\ DATA = gpio_state
  /\ gpio_dir = [c \in Channels |-> Pins] /\ TRI = gpio_dir
  /\ irq_enable = [c \in Channels |-> {}]
  /\ lock = [c \in Channels |-> NoOne]
  /\ pc = [t \in Threads |-> "idle"]
  /\ job = [t \in Threads |-> NoJob] /\ temp = [t \in Threads |-> {}]
  /\ hpc = "off" /\ val = {}
  /\ IPIER = {} /\ GIER = FALSE /\ IPISR = {} /\ moved = FALSE
  /\ level = [c \in Channels |-> {}] /\ risen = level /\ asked = level /\ inputs = TRI

C(t) == job[t].c
On(t) == job[t].on
Off(t) == job[t].off
Goto(t, l) == pc' = [pc EXCEPT ![t] = l]
Keep(t, x) == temp' = [temp EXCEPT ![t] = x]

NoLock(t) == TRUE                               \* mutant: the lock is not taken

Free(t) == lock[C(t)] = NoOne
Lock(t) == Free(t) /\ lock' = [lock EXCEPT ![C(t)] = t]
Unlock(t) == lock' = [lock EXCEPT ![C(t)] = NoOne]
Done(t) == /\ Goto(t, "idle") /\ Keep(t, {})
           /\ job' = [job EXCEPT ![t] = NoJob]
(***************************************************************************)
(* The operations.  The interrupt core masks an unmasked pin, unmasks a    *)
(* masked one, and works on one pin from one thread at a time.             *)
(***************************************************************************)
SamePin(i, j) == i.c = j.c /\ i.on = j.on /\ {i.k, j.k} \subseteq {"unmask", "mask"}

Begin(t, j) ==
  /\ pc[t] = "idle"
  /\ j.k = "unmask" => j.on \cap irq_enable[j.c] = {}
  /\ j.k = "mask" => j.on \subseteq irq_enable[j.c]
  /\ \A u \in Threads : ~SamePin(job[u], j)
  /\ job' = [job EXCEPT ![t] = j]
  /\ Goto(t, IF j.k \in {"set", "out"} THEN "data"
             ELSE IF j.k = "mask" THEN "mask" ELSE "dir")
  /\ UNCHANGED <<chip, lock, temp, handler, ports, IPIER, GIER, pins, history>>

Outputs(t, s) == (s \cup On(t)) \ Off(t)
Directions(t, s) == IF job[t].k = "out" THEN s \ (On(t) \cup Off(t)) ELSE s \cup On(t)

ReadState(t) ==
  /\ pc[t] = "data" /\ Lock(t)
  /\ Keep(t, Outputs(t, gpio_state[C(t)]))
  /\ Goto(t, "wdata")
  /\ UNCHANGED <<chip, job, handler, ports, IPIER, GIER, pins, history>>

WriteData(t) ==
  /\ pc[t] = "wdata"
  /\ gpio_state' = [gpio_state EXCEPT ![C(t)] = temp[t]]
  /\ DATA' = [DATA EXCEPT ![C(t)] = temp[t]]
  /\ asked' = [asked EXCEPT ![C(t)] = Outputs(t, @)]
  /\ \/ job[t].k = "set" /\ Unlock(t) /\ Done(t)
     \/ /\ job[t].k = "out"
        /\ Keep(t, Directions(t, gpio_dir[C(t)]))
        /\ Goto(t, "wtri") /\ UNCHANGED <<lock, job>>
  /\ UNCHANGED <<gpio_dir, irq_enable, handler, TRI, IPIER, GIER, pins, inputs>>

\* xgpio_dir_in, by itself or as the start of xgpio_irq_unmask.
ReadDir(t) ==
  /\ pc[t] = "dir" /\ Lock(t)
  /\ Keep(t, Directions(t, gpio_dir[C(t)]))
  /\ Goto(t, "wtri")
  /\ UNCHANGED <<chip, job, handler, ports, IPIER, GIER, pins, history>>

WriteTri(t) ==
  /\ pc[t] = "wtri"
  /\ gpio_dir' = [gpio_dir EXCEPT ![C(t)] = temp[t]]
  /\ TRI' = [TRI EXCEPT ![C(t)] = temp[t]]
  /\ inputs' = [inputs EXCEPT ![C(t)] = Directions(t, @)]
  /\ Unlock(t)
  /\ \/ job[t].k = "unmask" /\ Goto(t, "unmask") /\ Keep(t, {}) /\ UNCHANGED job
     \/ job[t].k # "unmask" /\ Done(t)
  /\ UNCHANGED <<gpio_state, irq_enable, handler, DATA, IPIER, GIER, pins, asked>>

Unmask(t) ==
  /\ pc[t] = "unmask" /\ Lock(t)
  /\ irq_enable' = [irq_enable EXCEPT ![C(t)] = @ \cup On(t)]
  /\ Keep(t, IPIER) /\ Goto(t, "or")
  /\ UNCHANGED <<gpio_state, gpio_dir, job, handler, ports, IPIER, GIER, pins, history>>

EnableChannel(t) ==
  /\ pc[t] = "or"
  /\ IPIER' = temp[t] \cup {C(t)} /\ Goto(t, "gier")
  /\ UNCHANGED <<chip, lock, job, temp, handler, ports, GIER, pins, history>>

EnableGlobal(t) ==
  /\ pc[t] = "gier"
  /\ GIER' = TRUE /\ Unlock(t) /\ Done(t)
  /\ UNCHANGED <<chip, handler, ports, IPIER, pins, history>>

Mask(t) ==
  /\ pc[t] = "mask" /\ Free(t)
  /\ irq_enable' = [irq_enable EXCEPT ![C(t)] = @ \ On(t)]
  /\ risen' = [risen EXCEPT ![C(t)] = @ \ On(t)]
  /\ \/ irq_enable'[C(t)] # {} /\ Done(t) /\ UNCHANGED lock
     \/ irq_enable'[C(t)] = {} /\ Lock(t) /\ Keep(t, IPIER) /\ Goto(t, "and")
                               /\ UNCHANGED job
  /\ UNCHANGED <<gpio_state, gpio_dir, handler, ports, IPIER, GIER, IPISR, level, moved,
                 history>>

\* The mask written keeps the bit of this channel and clears the other one.
DisableChannel(t) ==
  /\ pc[t] = "and"
  /\ IPIER' = temp[t] \cap {C(t)} /\ Goto(t, "check")
  /\ UNCHANGED <<chip, lock, job, temp, handler, ports, GIER, pins, history>>

CheckChannels(t) ==
  /\ pc[t] = "check"
  /\ \/ IPIER # {} /\ Unlock(t) /\ Done(t)
     \/ IPIER = {} /\ Goto(t, "off") /\ UNCHANGED <<lock, job, temp>>
  /\ UNCHANGED <<chip, handler, ports, IPIER, GIER, pins, history>>

DisableGlobal(t) ==
  /\ pc[t] = "off"
  /\ GIER' = FALSE /\ Unlock(t) /\ Done(t)
  /\ UNCHANGED <<chip, handler, ports, IPIER, pins, history>>

Thread(t) ==
  ReadState(t) \/ WriteData(t) \/ ReadDir(t) \/ WriteTri(t) \/ Unmask(t)
  \/ EnableChannel(t) \/ EnableGlobal(t) \/ Mask(t) \/ DisableChannel(t)
  \/ CheckChannels(t) \/ DisableGlobal(t)
(***************************************************************************)
(* xgpio_irqhandler.  xgpio_irq_setup of the second channel replaces the   *)
(* handler data of the one interrupt line, so the channel handled is the   *)
(* last one set up.                                                        *)
(***************************************************************************)
Handled == Max(Channels)
Line == GIER /\ IPIER \cap IPISR # {}

Enter ==
  /\ hpc = "off" /\ Line
  /\ hpc' = "read"
  /\ UNCHANGED <<chip, lock, pc, job, temp, val, ports, IPIER, GIER, pins, history>>

ReadPins ==
  /\ hpc = "read"
  /\ val' = level[Handled] \cap irq_enable[Handled]
  /\ hpc' = "dispatch"
  /\ UNCHANGED <<chip, lock, pc, job, temp, ports, IPIER, GIER, pins, history>>

DispatchLowest ==                               \* mutant: the loop stops at the first pin
  /\ hpc = "dispatch" /\ hpc' = "ack"
  /\ risen' = [risen EXCEPT ![Handled] = IF val = {} THEN @ ELSE @ \ {Min(val)}]
  /\ UNCHANGED <<chip, lock, pc, job, temp, val, ports, IPIER, GIER, IPISR, level, moved, history>>

Dispatch ==
  /\ hpc = "dispatch" /\ hpc' = "ack"
  /\ risen' = [risen EXCEPT ![Handled] = @ \ val]
  /\ UNCHANGED <<chip, lock, pc, job, temp, val, ports, IPIER, GIER, IPISR, level, moved, history>>

AckOffByOne ==                                  \* mutant: offset / 8, without + 1
  /\ hpc = "ack" /\ hpc' = "off" /\ val' = {}
  /\ IPISR' = SymDiff(IPISR, {Handled - 1} \cap Channels)
  /\ UNCHANGED <<chip, lock, pc, job, temp, ports, IPIER, GIER, level, risen, moved, history>>

Ack ==
  /\ hpc = "ack" /\ hpc' = "off" /\ val' = {}
  /\ IPISR' = SymDiff(IPISR, {Handled})
  /\ UNCHANGED <<chip, lock, pc, job, temp, ports, IPIER, GIER, level, risen, moved, history>>

Handler == Enter \/ ReadPins \/ Dispatch \/ Ack
(***************************************************************************)
(* The inputs (external).                                                  *)
(***************************************************************************)
Rise(c, p) ==
  /\ "rise" \in Edges /\ p \in TRI[c] \ level[c]
  /\ level' = [level EXCEPT ![c] = @ \cup {p}]
  /\ risen' = [risen EXCEPT ![c] = @ \cup ({p} \cap irq_enable[c])]
  /\ IPISR' = IPISR \cup {c} /\ moved' = (moved \/ hpc # "off")
  /\ UNCHANGED <<chip, lock, pc, job, temp, handler, ports, IPIER, GIER, history>>

Fall(c, p) ==
  /\ "fall" \in Edges /\ p \in TRI[c] \cap level[c]
  /\ level' = [level EXCEPT ![c] = @ \ {p}]
  /\ IPISR' = IPISR \cup {c} /\ moved' = (moved \/ hpc # "off")
  /\ UNCHANGED <<chip, lock, pc, job, temp, handler, ports, IPIER, GIER, risen, history>>

Next == \/ \E t \in Threads : Thread(t) \/ \E j \in Requests : Begin(t, j)
        \/ Handler
        \/ \E c \in Channels, p \in Pins : Rise(c, p) \/ Fall(c, p)

Spec == Init /\ [][Next]_vars

\* An operation that was begun goes on, and an interrupt is served.
FairSpec == Spec /\ WF_vars(Handler) /\ \A t \in Threads : SF_vars(Thread(t))
-----------------------------------------------------------------------------
(***************************************************************************)
(* Outputs and directions of different pins, set by different threads,     *)
(* never undo each other: the registers and their shadows hold what was    *)
(* last asked of each pin.                                                 *)
(***************************************************************************)
NoLostWrites == \A c \in Channels :
  /\ DATA[c] = asked[c] /\ gpio_state[c] = asked[c]
  /\ TRI[c] = inputs[c] /\ gpio_dir[c] = inputs[c]

(***************************************************************************)
(* An interrupt that xgpio_irq_unmask enabled ("Enable per channel         *)
(* interrupt", gpio-byu.c:343) can reach the CPU until it is masked,       *)
(* whatever is masked on the other channel of the block.  The code breaks  *)
(* this: xgpio_irq_mask (:306) clears the bit of the other channel.        *)
(***************************************************************************)
UnmaskedFires == \A c \in Channels :
  lock[c] = NoOne /\ irq_enable[c] # {} => c \in IPIER /\ GIER

(***************************************************************************)
(* The interrupt line does not stay up for ever: its handler makes it go   *)
(* down.                                                                   *)
(***************************************************************************)
LineDrops == Line ~> ~Line

(***************************************************************************)
(* A rise of an unmasked pin reaches the handler of the pin, unless the pin*)
(* is masked or falls first, as long as no input ever moves while          *)
(* xgpio_irqhandler runs: what moves between its reading of the pins and   *)
(* its acknowledgement is acknowledged unseen.                             *)
(***************************************************************************)
EdgeServed == \A c \in Channels, p \in Pins :
  p \in risen[c] \cap level[c] ~> p \notin risen[c] \cap level[c] \/ moved
=============================================================================
