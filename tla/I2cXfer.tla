------------------------------- MODULE I2cXfer -------------------------------
(***************************************************************************)
(* Transfers of the AXI IIC driver (i2c-byu.c; i2c-xiic.c is the vendor    *)
(* file it was copied from): xiic_xfer in the caller's thread, the hard    *)
(* interrupt xiic_isr, the threaded handler xiic_process, and the          *)
(* controller in dynamic mode.                                             *)
(*                                                                         *)
(* i2c->lock is held by xiic_start_xfer and by xiic_process only; the      *)
(* caller also reads state and stores tx_msg, rx_msg and nmsgs without it, *)
(* before the transfer and when it gives up.  The I2C core lets one caller *)
(* at a time into xiic_xfer.                                               *)
(*                                                                         *)
(* The controller is external: its registers behave as the driver uses     *)
(* them.  The status bits are events that stay set until the driver clears *)
(* them.                                                                   *)
(***************************************************************************)
EXTENDS Integers, SequencesExt

CONSTANTS Transfers,     \* what callers send: sequences of messages
          Depth,         \* IIC_TX_FIFO_DEPTH = IIC_RX_FIFO_DEPTH
          Byte,          \* values of a u8
          ToggleOnWrite, \* writing a 1 to a clear bit of the status sets it
          FastBus,       \* the bus may move while the driver runs its code
          MayNack,       \* a slave may refuse an address or a byte
          MayTimeOut     \* the caller may give up waiting

ASSUME DepthAssumption == Depth \in Nat /\ Depth > 2 /\ Byte \in Nat /\ Byte > Depth
ASSUME TransfersAssumption == Transfers \subseteq Seq([rd : BOOLEAN, len : Nat]) \ {<<>>}
ASSUME SwitchesAssumption == {ToggleOnWrite, FastBus, MayNack, MayTimeOut} \subseteq BOOLEAN

VARIABLES
  \* struct xiic_i2c; a message pointer is an index into cur, 0 for NULL
  tx_msg, rx_msg, nmsgs, tx_pos, rx_pos, state,
  \* the caller: where it is, its messages, what xiic_xfer returned; history:
  \* the handler ran while the caller stored without the lock
  cpc, cur, result, raced,
  \* xiic_process: where it is, its locals isr, pend and clr
  hpc, snap, pend, clr,
  \* __xiic_start_xfer: where it is, its local first, the local msg of xiic_start_recv
  spc, first, msg,
  \* the controller: TX and RX FIFO, RX watermark, IER, IISR, bus, read in progress
  fifo, rxq, rfd, ier, isr, bus, rd,
  \* history of the transfer: what went over the bus, where bytes were stored,
  \* whether the bus failed
  wire, buf, fault

driver == <<tx_msg, rx_msg, nmsgs, tx_pos, rx_pos, state>>
caller == <<cpc, cur, result, raced>>
handler == <<hpc, snap, pend, clr>>
starter == <<spc, first, msg>>
line == <<fifo, rxq, rfd, bus, rd>>
history == <<wire, buf, fault>>
vars == <<driver, caller, handler, starter, line, ier, isr, history>>

NULL == 0
NoMsg == [m |-> NULL, len |-> 0]
Bits == {"ARB", "TXERR", "TXEMPTY", "RXFULL", "BNB", "TXHALF"}

\* An entry of the TX FIFO: an address with the dynamic start bit ("W", "R"), the
\* n-th data byte ("D"), the length n of a read ("L") or what is none ("?"); the
\* message it belongs to.
Entry(k, m, n, stop) == [k |-> k, m |-> m, n |-> n, stop |-> stop]

TypeOK ==
  /\ tx_msg \in Nat /\ rx_msg \in Nat /\ nmsgs \in Nat
  /\ tx_pos \in Nat /\ rx_pos \in Nat
  /\ state \in {"DONE", "ERROR", "START"}
  /\ cpc \in {"idle", "busy", "setnum", "start", "starting", "wait", "droptx", "droprx",
              "dropnum"}
  /\ raced \in BOOLEAN
  /\ cur \in Transfers \cup {<<>>}
  /\ result \in {"none", "num", "EIO", "EBUSY", "ETIMEDOUT"}
  /\ hpc \in {"off", "woken", "error", "rx", "read", "bnb", "finish", "tx",
              "fill", "out", "oops"}
  /\ snap \subseteq Bits /\ pend \subseteq snap /\ clr \subseteq Bits
  /\ spc \in {"none", "loop", "recvlen", "recvarm", "sendarm", "tail"}
  /\ first \in BOOLEAN /\ msg \in [m : Nat, len : Nat]
  /\ fifo \in Seq([k : {"W", "R", "D", "L", "?"}, m : Nat, n : Nat, stop : BOOLEAN])
  /\ rxq \in Seq(Nat \X Nat)
  /\ Len(rxq) <= Depth /\ rfd \in 0 .. Byte - 1
  /\ ier \subseteq Bits /\ isr \subseteq Bits
  /\ bus \in {"idle", "tx", "rxlen", "rx", "held", "stopping", "nacked", "dead"}
  /\ rd \in [m : Nat, got : Nat, len : Nat, stop : BOOLEAN]
  /\ wire \in Seq({"W", "R", "D", "B"} \X Nat \X Nat)
  /\ buf \in Seq(Seq(Nat \X Nat)) /\ fault \in BOOLEAN

Init ==
  /\ tx_msg = NULL /\ rx_msg = NULL /\ nmsgs = 0 /\ tx_pos = 0 /\ rx_pos = 0
  /\ state = "DONE"
  /\ cpc = "idle" /\ cur = <<>> /\ result = "none" /\ raced = FALSE
  /\ hpc = "off" /\ snap = {} /\ pend = {} /\ clr = {}
  /\ spc = "none" /\ first = TRUE /\ msg = NoMsg
  /\ fifo = <<>> /\ rxq = <<>> /\ rfd = Depth - 1 /\ ier = {"ARB"} /\ isr = {}
  /\ bus = "idle" /\ rd = [m |-> 0, got |-> 0, len |-> 0, stop |-> FALSE]
  /\ wire = <<>> /\ buf = <<>> /\ fault = FALSE

(***************************************************************************)
(* Registers and accessors of the driver.                                  *)
(***************************************************************************)
LockFree == cpc # "starting" /\ hpc \in {"off", "woken"}

\* The critical section of the handler, and the time from the first to the last
\* of the stores that the caller makes without the lock.
Inside == hpc \notin {"off", "woken"}
Storing == cpc \in {"setnum", "start", "droprx", "dropnum"}

SpaceOneBased(f) == IF f = <<>> THEN Depth ELSE Depth - Len(f) + 1   \* mutant

Space(f) == IF f = <<>> THEN Depth - 1 ELSE Depth - Len(f)  \* xiic_tx_fifo_space
Bad(p) == p \notin DOMAIN cur                   \* dereferencing p is a fault
TxSpace == cur[tx_msg].len - tx_pos
LastMsg == nmsgs = 1

WriteIisr(s, mask) == IF ToggleOnWrite THEN (s \ mask) \cup (mask \ s) ELSE s \ mask
ClrEn(mask) == isr' = WriteIisr(isr, isr \cap mask) /\ ier' = ier \cup mask

FilledStopEarly(f, m, p) ==                     \* mutant: STOP one byte too soon
  LET n == IF cur[m].len - p > Space(f) THEN Space(f) ELSE cur[m].len - p
  IN  [fifo |-> f \o [i \in 1 .. n |->
                       Entry("D", m, p + i, LastMsg /\ p + i + 1 = cur[m].len)],
       pos |-> p + n]

Minus1Signed(n) == n - 1                        \* mutant: no u8

\* n - 1 in a u8, and the watermark that the controller makes of RFD: its low bits.
Minus1(n) == IF n = 0 THEN Byte - 1 ELSE n - 1
Watermark(r) == IF r < Depth THEN r ELSE Depth - 1

\* xiic_fill_tx_fifo: as many bytes of message m, from position p, as fit.
Filled(f, m, p) ==
  LET n == IF cur[m].len - p > Space(f) THEN Space(f) ELSE cur[m].len - p
  IN  [fifo |-> f \o [i \in 1 .. n |->
                       Entry("D", m, p + i, LastMsg /\ p + i = cur[m].len)],
       pos |-> p + n]

ReinitKeepingRx ==                              \* mutant: RX FIFO not emptied
  /\ fifo' = <<>> /\ rfd' = Depth - 1
  /\ isr' = {} /\ ier' = {"ARB"}
  /\ bus' = "idle" /\ UNCHANGED <<rxq, rd>>

\* xiic_reinit: the reset empties the controller and lets go of the bus.
Reinit ==
  /\ fifo' = <<>> /\ rxq' = <<>> /\ rfd' = Depth - 1
  /\ isr' = {} /\ ier' = {"ARB"}
  /\ bus' = "idle" /\ UNCHANGED rd

Wakeup(code) == tx_msg' = NULL /\ rx_msg' = NULL /\ nmsgs' = 0 /\ state' = code
(***************************************************************************)
(* __xiic_start_xfer, called with the lock by the caller or the handler.   *)
(* Its loop takes one message at a time; between the writes to the FIFO    *)
(* and the writes to the interrupt registers a fast bus may move.          *)
(***************************************************************************)
Enter == spc' = "loop" /\ first' = TRUE /\ state' = "START" /\ rx_pos' = 0
         /\ UNCHANGED msg

Fault == hpc' = "oops" /\ spc' = "none" /\ msg' = NoMsg

LoopMsg == IF first THEN tx_msg ELSE tx_msg + 1
LoopNum == IF first THEN nmsgs ELSE nmsgs - 1
InLoop == Space(fifo) >= 2 /\ (first \/ nmsgs > 1)

\* tx_msg is followed after the caller has cleared it, or past the last message.
StartFault ==
  /\ spc \in {"loop", "sendarm", "tail"}
  /\ Bad(tx_msg) \/ (spc = "loop" /\ InLoop /\ Bad(LoopMsg))
  /\ Fault
  /\ UNCHANGED <<driver, caller, snap, pend, clr, first, line, ier, isr, history>>

\* xiic_start_recv: watermark, of the length as a u8, and address.
StartRecv ==
  /\ spc = "loop" /\ ~Bad(tx_msg) /\ InLoop /\ ~Bad(LoopMsg)
  /\ cur[LoopMsg].rd
  /\ tx_msg' = LoopMsg /\ rx_msg' = LoopMsg /\ nmsgs' = LoopNum
  /\ tx_pos' = IF first THEN tx_pos ELSE 0
  /\ LET mark == cur[LoopMsg].len % Byte
     IN  rfd' = IF mark > Depth THEN Depth - 1 ELSE Minus1(mark)
  /\ ier' = ier \cup {"RXFULL", "TXERR"}
  /\ LET left == WriteIisr(isr, isr \cap {"RXFULL", "TXERR"})
     IN  isr' = IF Len(rxq) > Watermark(rfd') THEN left \cup {"RXFULL"} ELSE left
  /\ fifo' = Append(fifo, Entry("R", LoopMsg, 0, FALSE))
  /\ spc' = "recvlen" /\ msg' = [m |-> LoopMsg, len |-> cur[LoopMsg].len]
  /\ UNCHANGED <<rx_pos, state, caller, handler, first, rxq, bus, rd, history>>

\* The length goes to bits 0 to 7; a longer one sets bit 8, START, and bit 9, STOP.
Length(m, len) ==
  IF len % Byte = 0 \/ (len \div Byte) % 2 = 1
  THEN Entry("?", m, 0, FALSE)
  ELSE Entry("L", m, len % Byte, LastMsg \/ (len \div (2 * Byte)) % 2 = 1)

RecvLength ==
  /\ spc = "recvlen"
  /\ ClrEn({"BNB"})
  /\ fifo' = Append(fifo, Length(msg.m, msg.len))
  /\ spc' = "recvarm"
  /\ UNCHANGED <<driver, caller, handler, first, msg, rxq, rfd, bus, rd, history>>

\* Return from __xiic_start_xfer; the caller also drops the lock.
Leave == /\ spc' = "none" /\ msg' = NoMsg
         /\ cpc' = IF cpc = "starting" THEN "wait" ELSE cpc

RecvArm ==
  /\ spc = "recvarm"
  /\ IF LastMsg THEN ClrEn({"BNB"}) ELSE UNCHANGED <<ier, isr>>
  /\ tx_pos' = msg.len
  /\ Leave
  /\ UNCHANGED <<tx_msg, rx_msg, nmsgs, rx_pos, state, cur, result, raced, handler, first,
                 line, history>>

\* xiic_start_send: address and as much of the message as fits.
StartSend ==
  /\ spc = "loop" /\ ~Bad(tx_msg) /\ InLoop /\ ~Bad(LoopMsg)
  /\ ~cur[LoopMsg].rd
  /\ tx_msg' = LoopMsg /\ nmsgs' = LoopNum
  /\ LET len == cur[LoopMsg].len
         addr == Entry("W", LoopMsg, 0, LoopNum = 1 /\ len = 0)
         pos == IF first THEN tx_pos ELSE 0
         n == IF len - pos > Space(fifo \o <<addr>>) THEN Space(fifo \o <<addr>>)
              ELSE len - pos
     IN  /\ fifo' = fifo \o <<addr>> \o
                      [i \in 1 .. n |-> Entry("D", LoopMsg, pos + i, LoopNum = 1 /\ pos + i = len)]
         /\ tx_pos' = pos + n
  /\ isr' = WriteIisr(isr, isr \cap {"TXERR"})
  /\ spc' = "sendarm"
  /\ UNCHANGED <<rx_msg, rx_pos, state, caller, handler, first, msg, rxq, rfd, bus, rd,
                 ier, history>>

SendArmNoBnb ==                                 \* mutant: BNB not enabled
  /\ spc = "sendarm" /\ ~Bad(tx_msg)
  /\ ClrEn({"TXEMPTY", "TXERR"})
  /\ first' = FALSE
  /\ spc' = IF TxSpace # 0 THEN "tail" ELSE "loop"
  /\ UNCHANGED <<driver, caller, handler, msg, line, history>>

SendArm ==
  /\ spc = "sendarm" /\ ~Bad(tx_msg)
  /\ ClrEn({"TXEMPTY", "TXERR", "BNB"})
  /\ first' = FALSE
  /\ spc' = IF TxSpace # 0 THEN "tail" ELSE "loop"
  /\ UNCHANGED <<driver, caller, handler, msg, line, history>>

\* The end: more to send, so ask for the half-empty interrupt.
StartTail ==
  /\ spc = "tail" \/ (spc = "loop" /\ ~InLoop)
  /\ ~Bad(tx_msg)
  /\ IF nmsgs > 1 \/ TxSpace # 0 THEN ClrEn({"TXHALF"}) ELSE UNCHANGED <<ier, isr>>
  /\ Leave
  /\ UNCHANGED <<driver, cur, result, raced, handler, first, line, history>>

StartXfer == StartFault \/ StartRecv \/ RecvLength \/ RecvArm \/ StartSend \/ SendArm
             \/ StartTail

(***************************************************************************)
(* xiic_xfer, in the thread of the caller.                                 *)
(***************************************************************************)
Call(t) ==
  /\ cpc = "idle"
  /\ cur' = t /\ cpc' = "busy" /\ result' = "none"
  /\ UNCHANGED <<raced, driver, handler, starter, line, ier, isr, history>>

BusBusy == bus \notin {"idle", "dead"}

\* A store that the caller makes without the lock, and where it goes from there.
Unlocked(label) == raced' = (raced \/ Inside) /\ cpc' = label

\* xiic_busy: the bus is polled a few times before the caller gives up.
Busy ==
  /\ cpc = "busy"
  /\ \/ /\ tx_msg # NULL \/ BusBusy
        /\ cpc' = "idle" /\ result' = "EBUSY"
        /\ UNCHANGED <<tx_msg, raced>>
     \/ /\ tx_msg = NULL /\ ~BusBusy
        /\ tx_msg' = 1
        /\ Unlocked("setnum") /\ UNCHANGED result
  /\ UNCHANGED <<rx_msg, nmsgs, tx_pos, rx_pos, state, cur, handler, starter, line,
                 ier, isr, history>>

SetNum ==
  /\ cpc = "setnum"
  /\ nmsgs' = Len(cur) /\ Unlocked("start")
  /\ UNCHANGED <<tx_msg, rx_msg, tx_pos, rx_pos, state, cur, result, handler, starter,
                 line, ier, isr, history>>

\* xiic_start_xfer up to the loop: nothing is started when tx_msg is NULL.
Start ==
  /\ cpc = "start" /\ LockFree
  /\ Reinit
  /\ \/ /\ tx_msg = NULL
        /\ cpc' = "wait"
        /\ UNCHANGED <<driver, starter>>
     \/ /\ tx_msg # NULL
        /\ cpc' = "starting"
        /\ Enter /\ tx_pos' = 0
        /\ UNCHANGED <<tx_msg, rx_msg, nmsgs>>
  /\ wire' = <<>> /\ buf' = [m \in DOMAIN cur |-> <<>>] /\ fault' = FALSE
  /\ UNCHANGED <<cur, result, raced, handler>>

Return ==
  /\ cpc = "wait" /\ state \in {"ERROR", "DONE"}
  /\ cpc' = "idle" /\ result' = IF state = "DONE" THEN "num" ELSE "EIO"
  /\ UNCHANGED <<raced, driver, cur, handler, starter, line, ier, isr, history>>

\* wait_event_timeout gave up; then the pointers are cleared one by one.
TimeOut ==
  /\ MayTimeOut
  /\ cpc = "wait" /\ state = "START"
  /\ cpc' = "droptx"
  /\ UNCHANGED <<cur, result, raced, driver, handler, starter, line, ier, isr, history>>

DropTx ==
  /\ cpc = "droptx"
  /\ tx_msg' = NULL /\ Unlocked("droprx")
  /\ UNCHANGED <<rx_msg, nmsgs, tx_pos, rx_pos, state, cur, result, handler, starter,
                 line, ier, isr, history>>

DropRx ==
  /\ cpc = "droprx"
  /\ rx_msg' = NULL /\ Unlocked("dropnum")
  /\ UNCHANGED <<tx_msg, nmsgs, tx_pos, rx_pos, state, cur, result, handler, starter,
                 line, ier, isr, history>>

DropNum ==
  /\ cpc = "dropnum"
  /\ nmsgs' = 0 /\ Unlocked("idle") /\ result' = "ETIMEDOUT"
  /\ UNCHANGED <<tx_msg, rx_msg, tx_pos, rx_pos, state, cur, handler, starter,
                 line, ier, isr, history>>

Caller == Busy \/ SetNum \/ Start \/ Return \/ DropTx \/ DropRx \/ DropNum

(***************************************************************************)
(* xiic_isr, then xiic_process branch by branch.  IRQF_ONESHOT keeps the   *)
(* interrupt masked until the handler is done.                             *)
(***************************************************************************)
Isr ==
  /\ hpc = "off" /\ isr \cap ier # {}
  /\ hpc' = "woken"
  /\ UNCHANGED <<driver, caller, snap, pend, clr, starter, line, ier, isr, history>>

LockAnyTxError ==                               \* mutant: RX_FULL not considered
  /\ hpc = "woken" /\ LockFree
  /\ snap' = isr /\ pend' = isr \cap ier /\ clr' = {}
  /\ hpc' = IF pend' \cap {"ARB", "TXERR"} # {} THEN "error" ELSE "rx"
  /\ raced' = (raced \/ Storing)
  /\ UNCHANGED <<driver, cpc, cur, result, starter, line, ier, isr, history>>

Lock ==
  /\ hpc = "woken" /\ LockFree
  /\ snap' = isr /\ pend' = isr \cap ier /\ clr' = {}
  /\ hpc' = IF "ARB" \in pend' \/ ("TXERR" \in pend' /\ "RXFULL" \notin pend')
            THEN "error" ELSE "rx"
  /\ raced' = (raced \/ Storing)
  /\ UNCHANGED <<driver, cpc, cur, result, starter, line, ier, isr, history>>

ErrorBranch ==
  /\ hpc = "error"
  /\ Reinit
  /\ \/ tx_msg = NULL /\ rx_msg = NULL /\ UNCHANGED <<tx_msg, rx_msg, nmsgs, state>>
     \/ (tx_msg # NULL \/ rx_msg # NULL) /\ Wakeup("ERROR")
  /\ hpc' = "rx"
  /\ UNCHANGED <<tx_pos, rx_pos, caller, snap, pend, clr, starter, history>>

\* RX_FULL: with no message to receive into, drain the FIFO and leave.
RxBranch ==
  /\ hpc = "rx"
  /\ \/ "RXFULL" \notin pend /\ hpc' = "bnb" /\ UNCHANGED <<clr, rxq>>
     \/ /\ "RXFULL" \in pend
        /\ clr' = clr \cup {"RXFULL"}
        /\ \/ rx_msg = NULL /\ rxq' = <<>> /\ hpc' = "out"
           \/ rx_msg # NULL /\ UNCHANGED rxq /\ hpc' = "read"
  /\ UNCHANGED <<driver, caller, snap, pend, starter, fifo, rfd, bus, rd, ier, isr,
                 history>>

\* xiic_read_rx.  The occupancy register reads 0 both for one byte and for none,
\* so an empty FIFO yields one byte that nobody sent.
Received ==
  LET occ == IF rxq = <<>> THEN <<<<0, 0>>>> ELSE rxq
  IN  SubSeq(occ, 1, IF Len(occ) > cur[rx_msg].len - rx_pos
                     THEN cur[rx_msg].len - rx_pos ELSE Len(occ))

\* With the rx_pos of another message xiic_rx_space wraps.
BadRead == IF Bad(rx_msg) THEN TRUE ELSE rx_pos > cur[rx_msg].len

ReadRx ==
  /\ hpc = "read" /\ spc = "none"
  /\ ~BadRead
  /\ LET bytes == Received
         left == cur[rx_msg].len - rx_pos - Len(bytes)
         level == IF left > Depth THEN Depth - 1 ELSE Minus1(left)
         rest == IF rxq = <<>> THEN rxq ELSE SubSeq(rxq, Len(bytes) + 1, Len(rxq))
     IN  /\ buf' = [buf EXCEPT ![rx_msg] = @ \o bytes]
         /\ rxq' = rest /\ rfd' = level
         /\ isr' = IF Len(rest) > Watermark(level) THEN isr \cup {"RXFULL"} ELSE isr
         /\ rx_msg' = IF left = 0 THEN NULL ELSE rx_msg
         /\ clr' = IF left = 0 THEN clr \cup (snap \cap {"TXERR"}) ELSE clr
         /\ \/ /\ left = 0 /\ nmsgs > 1
               /\ tx_msg' = tx_msg + 1 /\ nmsgs' = nmsgs - 1
               /\ Enter /\ tx_pos' = 0
            \/ /\ left # 0 \/ nmsgs <= 1
               /\ rx_pos' = rx_pos + Len(bytes)
               /\ UNCHANGED <<tx_msg, nmsgs, tx_pos, state, starter>>
  /\ hpc' = "bnb"
  /\ UNCHANGED <<caller, snap, pend, fifo, bus, rd, ier, wire, fault>>

ReadFault ==
  /\ hpc = "read" /\ BadRead
  /\ Fault
  /\ UNCHANGED <<driver, caller, snap, pend, clr, first, line, ier, isr, history>>

\* BNB: the bus went free.
BnbBranch ==
  /\ hpc = "bnb" /\ spc = "none"
  /\ \/ "BNB" \notin pend /\ hpc' = "tx" /\ UNCHANGED <<clr, ier>>
     \/ /\ "BNB" \in pend
        /\ clr' = clr \cup {"BNB"} /\ ier' = ier \ {"BNB"}
        /\ hpc' = IF tx_msg = NULL THEN "out" ELSE "finish"
  /\ UNCHANGED <<driver, caller, snap, pend, starter, line, isr, history>>

Finish ==
  /\ hpc = "finish"
  /\ \/ LastMsg /\ rx_msg = NULL /\ Bad(tx_msg) /\ Fault /\ UNCHANGED driver
     \/ /\ ~(LastMsg /\ rx_msg = NULL /\ Bad(tx_msg))
        /\ Wakeup(IF LastMsg /\ rx_msg = NULL /\ TxSpace = 0 THEN "DONE" ELSE "ERROR")
        /\ hpc' = "tx"
        /\ UNCHANGED <<tx_pos, rx_pos, spc, msg>>
  /\ UNCHANGED <<caller, snap, pend, clr, first, line, ier, isr, history>>

TxBits == {"TXEMPTY", "TXHALF"}

TxBranchAlways ==                               \* mutant: tx_msg not considered
  /\ hpc = "tx"
  /\ clr' = clr \cup (pend \cap TxBits)
  /\ hpc' = IF pend \cap TxBits = {} THEN "out" ELSE "fill"
  /\ UNCHANGED <<driver, caller, snap, pend, starter, line, ier, isr, history>>

\* TX_EMPTY or TX_HALF: there is room in the TX FIFO.
TxBranch ==
  /\ hpc = "tx"
  /\ clr' = clr \cup (pend \cap TxBits)
  /\ hpc' = IF pend \cap TxBits = {} \/ tx_msg = NULL THEN "out" ELSE "fill"
  /\ UNCHANGED <<driver, caller, snap, pend, starter, line, ier, isr, history>>

\* With the tx_pos of an earlier, longer message xiic_tx_space wraps and
\* xiic_fill_tx_fifo runs past the buffer.
BadFill == IF Bad(tx_msg) THEN TRUE ELSE tx_pos > cur[tx_msg].len

Fill ==
  /\ hpc = "fill" /\ ~BadFill
  /\ LET f == Filled(fifo, tx_msg, tx_pos)
         sent == f.pos = cur[tx_msg].len
     IN  /\ fifo' = f.fifo
         /\ \/ /\ sent /\ Space(f.fifo) >= 2 /\ nmsgs > 1
               /\ tx_msg' = tx_msg + 1 /\ nmsgs' = nmsgs - 1
               /\ Enter /\ tx_pos' = 0
               /\ UNCHANGED ier
            \/ /\ ~(sent /\ Space(f.fifo) >= 2 /\ nmsgs > 1)
               /\ tx_pos' = f.pos
               /\ ier' = IF sent /\ (Space(f.fifo) >= 2 \/ LastMsg)
                         THEN ier \ {"TXHALF"} ELSE ier
               /\ UNCHANGED <<tx_msg, nmsgs, rx_pos, state, starter>>
  /\ hpc' = "out"
  /\ UNCHANGED <<rx_msg, caller, snap, pend, clr, rxq, rfd, bus, rd, isr, history>>

FillFault ==
  /\ hpc = "fill" /\ BadFill
  /\ Fault
  /\ UNCHANGED <<driver, caller, snap, pend, clr, first, line, ier, isr, history>>

Out ==
  /\ hpc = "out" /\ spc = "none"
  /\ isr' = WriteIisr(isr, clr)
  /\ hpc' = "off"
  /\ UNCHANGED <<driver, caller, snap, pend, clr, starter, line, ier, history>>

Handler == Lock \/ ErrorBranch \/ RxBranch \/ ReadRx \/ ReadFault \/ BnbBranch
           \/ Finish \/ TxBranch \/ Fill \/ FillFault \/ Out

(***************************************************************************)
(* The controller and the bus (external).                                  *)
(***************************************************************************)
Moves == FastBus \/ LockFree

Pop == /\ fifo' = Tail(fifo)
       /\ UNCHANGED <<driver, caller, handler, starter, rfd, ier, buf>>
PopEvents == (IF Len(fifo) = 1 THEN {"TXEMPTY"} ELSE {}) \cup
             (IF Len(fifo) = Depth \div 2 + 1 THEN {"TXHALF"} ELSE {})

Nack ==
  /\ MayNack /\ fault' = TRUE
  /\ bus' = "nacked" /\ isr' = isr \cup PopEvents \cup {"TXERR"}
  /\ UNCHANGED <<rd, rxq, wire>>

\* An address or a byte goes out and is acknowledged, or is not.
HwSend ==
  /\ Moves /\ fifo # <<>>
  /\ LET e == Head(fifo)
     IN  /\ \/ bus \in {"idle", "tx", "held"} /\ e.k \in {"W", "R"}
            \/ bus = "tx" /\ e.k = "D"
         /\ \/ /\ wire' = Append(wire, <<e.k, e.m, e.n>>)
               /\ bus' = IF e.k = "R" THEN "rxlen" ELSE IF e.stop THEN "stopping" ELSE "tx"
               /\ isr' = isr \cup PopEvents
               /\ UNCHANGED <<rd, rxq, fault>>
            \/ Nack
  /\ Pop

\* What it does with a length that is none, the driver does not say.
HwLengths(e) ==
  IF e.k = "L" THEN {[m |-> e.m, got |-> 0, len |-> e.n, stop |-> e.stop]}
  ELSE [m : {e.m}, got : {0}, len : 0 .. Byte, stop : BOOLEAN]

HwLength ==
  /\ Moves /\ fifo # <<>> /\ bus = "rxlen" /\ Head(fifo).k \in {"L", "?"}
  /\ rd' \in HwLengths(Head(fifo))
  /\ bus' = IF rd'.len > 0 THEN "rx" ELSE IF rd'.stop THEN "stopping" ELSE "held"
  /\ isr' = isr \cup PopEvents
  /\ UNCHANGED <<rxq, wire, fault>>
  /\ Pop

\* A byte arrives; the receiver waits while the FIFO is at its watermark.  The
\* last byte is not acknowledged, which also shows as a TX error.
HwRead ==
  /\ Moves /\ bus = "rx" /\ Len(rxq) <= Watermark(rfd)
  /\ LET n == rd.got + 1
     IN  /\ rxq' = Append(rxq, <<rd.m, n>>)
         /\ wire' = Append(wire, <<"B", rd.m, n>>)
         /\ rd' = [rd EXCEPT !.got = n]
         /\ isr' = isr \cup (IF Len(rxq) = Watermark(rfd) THEN {"RXFULL"} ELSE {})
                       \cup (IF n = rd.len THEN {"TXERR"} ELSE {})
         /\ bus' = IF n < rd.len THEN "rx" ELSE IF rd.stop THEN "stopping" ELSE "held"
  /\ UNCHANGED <<driver, caller, handler, starter, fifo, rfd, ier, buf, fault>>

HwStop ==
  /\ Moves /\ bus \in {"stopping", "nacked"}
  /\ bus' = IF bus = "stopping" THEN "idle" ELSE "dead"
  /\ isr' = isr \cup {"BNB"}
  /\ UNCHANGED <<driver, caller, handler, starter, fifo, rxq, rfd, rd, ier, history>>

HwArbLost ==
  /\ Moves /\ MayNack /\ bus = "tx"
  /\ bus' = "dead" /\ isr' = isr \cup {"ARB"} /\ fault' = TRUE
  /\ UNCHANGED <<driver, caller, handler, starter, fifo, rxq, rfd, rd, ier, wire, buf>>

Hardware == HwSend \/ HwLength \/ HwRead \/ HwStop

Next == (\E t \in Transfers : Call(t)) \/ Caller \/ TimeOut \/ StartXfer \/ Isr
        \/ Handler \/ Hardware \/ HwArbLost

\* The threads run, the interrupt is delivered, the bus makes progress.
Fairness == WF_vars(Caller) /\ WF_vars(StartXfer) /\ WF_vars(Isr)
            /\ WF_vars(Handler) /\ WF_vars(Hardware)

Spec == Init /\ [][Next]_vars
FairSpec == Spec /\ Fairness
-----------------------------------------------------------------------------
\* Byte n of message m of transfer t as the bus sees it; byte 0 is the address.
Item(t, m, n) == <<IF t[m].rd THEN (IF n = 0 THEN "R" ELSE "B")
                   ELSE (IF n = 0 THEN "W" ELSE "D"), m, n>>
Items(t) == UNION {{Item(t, m, n) : n \in 0 .. t[m].len} : m \in DOMAIN t}
Before(a, b) == a[2] < b[2] \/ (a[2] = b[2] /\ a[3] < b[3])

\* What the properties of a transfer suppose: the handler did not run between two
\* stores of the caller, and every read has a length the length register holds.
Undisturbed == ~raced /\ \A m \in DOMAIN cur : cur[m].rd => cur[m].len \in 1 .. Byte - 1
ReadsLast == \A m \in DOMAIN cur : cur[m].rd => m = Len(cur)

(***************************************************************************)
(* xiic_xfer returns success only if the whole transfer went over the bus: *)
(* every message with every byte, each once and in order, whatever an      *)
(* earlier transfer that was given up left behind.  (Where a message       *)
(* follows a read, its refused address may be taken for the end of the     *)
(* read.)                                                                  *)
(***************************************************************************)
DoneMeansSent == Undisturbed /\ ReadsLast /\ result = "num" =>
  /\ ToSet(wire) = Items(cur)
  /\ \A i, j \in DOMAIN wire : i < j => Before(wire[i], wire[j])

(***************************************************************************)
(* On success, every read message holds exactly the bytes its slave sent,  *)
(* in order.                                                               *)
(***************************************************************************)
DoneMeansRead == Undisturbed /\ result = "num" =>
  \A m \in DOMAIN cur :
    buf[m] = [i \in 1 .. (IF cur[m].rd THEN cur[m].len ELSE 0) |-> <<m, i>>]

(***************************************************************************)
(* A transfer in which nothing follows a read fails only because the bus   *)
(* failed.                                                                 *)
(***************************************************************************)
ErrorMeansFault == Undisturbed /\ ReadsLast /\ result = "EIO" => fault

(***************************************************************************)
(* i2c->lock is the "Mutual exclusion" (i2c-byu.c:62) of the handler.  It  *)
(* follows a message pointer that was taken away, or uses a position in    *)
(* another message, only if it ran while the caller stored without the     *)
(* lock; no timeout before or after, late interrupt or length does it.     *)
(***************************************************************************)
NoBadAccess == hpc = "oops" => raced

(***************************************************************************)
(* Whatever the caller does without the lock, however fast the bus is and  *)
(* however long the messages are, the driver never writes to a full TX     *)
(* FIFO.                                                                   *)
(***************************************************************************)
FifoFits == Len(fifo) <= Depth

(***************************************************************************)
(* Every transfer comes to an end on its own, without its timeout.         *)
(***************************************************************************)
TransferEnds == cpc = "wait" ~> cpc = "idle" \/ ~Undisturbed
=============================================================================
