------------------------------- MODULE UartPort -------------------------------
(***************************************************************************)
(* One port of the UART driver (byu_uartlite.c) at work: the interrupt     *)
(* handler ulite_isr, the calls of the serial core, the kernel console on  *)
(* the same port, and the UART Lite.  port->lock is held by the handler,   *)
(* by start_tx, set_termios and tx_empty and by the console, which in an   *)
(* oops writes without it when another has it; startup and shutdown do not *)
(* take it.                                                                *)
(*                                                                         *)
(* The UART Lite is external.  Its interrupt is enable and (something to   *)
(* receive, or a pulse when the TX FIFO runs empty); the kernel latches    *)
(* the rising edges.  The error bits of the status are left out.           *)
(***************************************************************************)
EXTENDS Integers, SequencesExt

CONSTANTS Depth,       \* of the two FIFOs
          TtyChars,    \* bound: characters the user writes
          RxChars,     \* bound: characters that arrive
          Lines,       \* bound: writes of the console, of LineLen characters
          LineLen,
          MayOops,     \* oops_in_progress may be set when the console writes
          UserCalls    \* calls the user makes besides uart_write

AllCalls == {"xchar", "flow", "termios", "stoprx", "close"}

ASSUME SizeAssumption == Depth \in Nat \ {0} /\ LineLen \in Nat \ {0}
ASSUME BoundsAssumption == {TtyChars, RxChars, Lines} \subseteq Nat
ASSUME CallsAssumption == UserCalls \subseteq AllCalls /\ MayOops \in BOOLEAN

VARIABLES
  open,                        \* request_irq done, free_irq not yet
  xmit, x_char, stopped,       \* state->xmit, port->x_char, uart_tx_stopped
  ignore,                      \* RXVALID is in port->ignore_status_mask
  lock,                        \* holder of port->lock
  isr, stat, busy,             \* ulite_isr: where it is, its locals
  user, ustat,                 \* the serial core on behalf of the user
  con, saved, locked,          \* ulite_console_write: where, ier, locked
  left, lines,                 \* its characters to write, its calls so far
  txf, rxf, ie, irq,           \* the UART: FIFOs, enable, edge latched
  wire, tty, written, arrived, \* history: sent (without X), received, given
  dropped,                     \* history: arrivals overrun, ignored or reset
  lockless                     \* history: the console wrote without the lock

port == <<open, xmit, x_char, stopped, ignore>>
console == <<con, saved, locked, left, lines, lockless>>
rx == <<rxf, tty, arrived, dropped>>
vars == <<port, lock, isr, stat, busy, user, ustat, console, txf, rx, ie, irq,
          wire, written>>

Tty(n) == <<"tty", n>>
Con(n) == <<"con", n>>
X == <<"x", 0>>
Chars == {"tty", "con", "x"} \X Nat
Stats == [rx : BOOLEAN, full : BOOLEAN]

TypeOK ==
  /\ open \in BOOLEAN /\ x_char \in BOOLEAN /\ stopped \in BOOLEAN /\ ignore \in BOOLEAN
  /\ locked \in BOOLEAN /\ lockless \in BOOLEAN
  /\ busy \in BOOLEAN /\ saved \in BOOLEAN /\ ie \in BOOLEAN /\ irq \in BOOLEAN
  /\ lock \in {"free", "isr", "user", "con"}
  /\ isr \in {"off", "stat", "rx", "tx"} /\ stat \in Stats /\ ustat \in Stats
  /\ user \in {"idle", "start", "tx", "reset", "enable", "free_irq"}
  /\ con \in {"idle", "save", "off", "wait", "put", "restore"}
  /\ xmit \in Seq(Chars) /\ txf \in Seq(Chars) /\ wire \in Seq(Chars)
  /\ tty \in Seq(Nat) /\ rxf \in Seq(1 .. arrived)
  /\ Len(txf) <= Depth /\ Len(rxf) <= Depth
  /\ left \in 0 .. LineLen /\ lines \in 0 .. Lines
  /\ written \in 0 .. TtyChars /\ arrived \in 0 .. RxChars
  /\ dropped \subseteq 0 .. arrived

NoStat == [rx |-> FALSE, full |-> FALSE]

Init ==
  /\ open = TRUE /\ xmit = <<>> /\ x_char = FALSE /\ stopped = FALSE
  /\ ignore = FALSE
  /\ lock = "free"
  /\ isr = "off" /\ stat = NoStat /\ busy = FALSE
  /\ user = "idle" /\ ustat = NoStat
  /\ con = "idle" /\ saved = FALSE /\ locked = FALSE /\ lockless = FALSE
  /\ left = 0 /\ lines = 0
  /\ txf = <<>> /\ rxf = <<>> /\ ie = TRUE /\ irq = FALSE
  /\ wire = <<>> /\ tty = <<>> /\ written = 0 /\ arrived = 0 /\ dropped = {}
(***************************************************************************)
(* Registers.                                                              *)
(***************************************************************************)
Status == [rx |-> rxf # <<>>, full |-> Len(txf) = Depth]

\* ULITE_CONTROL: with interrupts on again, something to receive is an edge.
Control(on) == ie' = on /\ irq' = (irq \/ (on /\ ~ie /\ rxf # <<>>))

\* ULITE_TX: a character for a full FIFO is lost.
Put(s) == txf' = IF Len(txf) + Len(s) <= Depth THEN txf \o s ELSE txf

Lock(who) == lock = "free" /\ lock' = who
Unlock == lock' = "free"
(***************************************************************************)
(* ulite_isr; the edge that started it is acknowledged before it runs.     *)
(***************************************************************************)
IsrEnter ==
  /\ open /\ irq /\ isr = "off"
  /\ isr' = "stat" /\ irq' = FALSE
  /\ UNCHANGED <<port, lock, stat, busy, user, ustat, console, txf, rx, ie, wire, written>>

IsrStat ==
  /\ isr = "stat" /\ Lock("isr")
  /\ stat' = Status
  /\ isr' = "rx"
  /\ UNCHANGED <<port, busy, user, ustat, console, txf, rx, ie, irq, wire, written>>

\* What ulite_receive hands to the tty of the character c.
Accepted(c) ==
  /\ tty' = IF ignore THEN tty ELSE Append(tty, c)
  /\ dropped' = IF ignore THEN dropped \cup {c} ELSE dropped

\* ULITE_RX: reading an empty FIFO yields a character that never arrived.
Oldest == IF rxf = <<>> THEN 0 ELSE Head(rxf)
Popped == IF rxf = <<>> THEN rxf ELSE Tail(rxf)

ReceiveBehind ==                                \* mutant: the FIFO is not popped
  /\ isr = "rx" /\ isr' = "tx"
  /\ \/ ~stat.rx /\ busy' = FALSE /\ UNCHANGED <<rxf, tty, dropped>>
     \/ /\ stat.rx
        /\ busy' = FALSE
        /\ UNCHANGED rxf
        /\ Accepted(Oldest)
  /\ UNCHANGED <<port, lock, stat, user, ustat, console, txf, arrived, ie, irq,
                 wire, written>>

Receive ==
  /\ isr = "rx" /\ isr' = "tx"
  /\ \/ ~stat.rx /\ busy' = FALSE /\ UNCHANGED <<rxf, tty, dropped>>
     \/ /\ stat.rx
        /\ busy' = TRUE
        /\ rxf' = Popped
        /\ Accepted(Oldest)
  /\ UNCHANGED <<port, lock, stat, user, ustat, console, txf, arrived, ie, irq,
                 wire, written>>

\* ulite_transmit: at most one character, the XON or XOFF first.
OutputUnchecked(s) ==                           \* mutant: TXFULL is not tested
  IF x_char THEN <<X>> ELSE IF xmit = <<>> \/ stopped THEN <<>> ELSE <<Head(xmit)>>

Output(s) ==
  IF s.full THEN <<>> ELSE IF x_char THEN <<X>>
  ELSE IF xmit = <<>> \/ stopped THEN <<>> ELSE <<Head(xmit)>>

Transmit(s) ==
  /\ Put(Output(s))
  /\ x_char' = (x_char /\ Output(s) = <<>>)
  /\ xmit' = IF Output(s) = <<>> \/ x_char THEN xmit ELSE Tail(xmit)
  /\ UNCHANGED <<open, stopped, ignore>>

IsrTransmitOnce ==                              \* mutant: no second round
  /\ isr = "tx" /\ Transmit(stat) /\ Unlock
  /\ isr' = "off" /\ busy' = FALSE /\ stat' = NoStat
  /\ UNCHANGED <<user, ustat, console, rx, ie, irq, wire, written>>

IsrTransmit ==
  /\ isr = "tx" /\ Transmit(stat) /\ Unlock
  /\ isr' = IF busy \/ Output(stat) # <<>> THEN "stat" ELSE "off"
  /\ busy' = FALSE /\ stat' = NoStat
  /\ UNCHANGED <<user, ustat, console, rx, ie, irq, wire, written>>

Isr == IsrEnter \/ IsrStat \/ Receive \/ IsrTransmit
(***************************************************************************)
(* The serial core for the user of the tty (external), into the driver.    *)
(***************************************************************************)
Idle == user = "idle"

\* uart_write, uart_send_xchar, uart_start: a change, then ulite_start_tx
\* unless the output is stopped, all under the lock.
Write ==
  /\ Idle /\ open /\ written < TtyChars
  /\ written' = written + 1 /\ xmit' = Append(xmit, Tty(written'))
  /\ \/ stopped /\ lock = "free" /\ UNCHANGED <<lock, user>>
     \/ ~stopped /\ Lock("user") /\ user' = "start"
  /\ UNCHANGED <<open, x_char, stopped, ignore, isr, stat, busy, ustat,
                 console, txf, rx, ie, irq, wire>>

SendXchar ==
  /\ Idle /\ open /\ "xchar" \in UserCalls /\ ~x_char
  /\ Lock("user") /\ x_char' = TRUE /\ user' = "start"
  /\ UNCHANGED <<open, xmit, stopped, ignore, isr, stat, busy, ustat,
                 console, txf, rx, ie, irq, wire, written>>

Flow ==
  /\ Idle /\ open /\ "flow" \in UserCalls
  /\ stopped' = ~stopped
  /\ \/ ~stopped /\ lock = "free" /\ UNCHANGED <<lock, user>>
     \/ stopped /\ Lock("user") /\ user' = "start"
  /\ UNCHANGED <<open, xmit, x_char, ignore, isr, stat, busy, ustat,
                 console, txf, rx, ie, irq, wire, written>>

StartTx ==
  /\ user = "start" /\ user' = "tx"
  /\ ustat' = Status
  /\ UNCHANGED <<port, lock, isr, stat, busy, console, txf, rx, ie, irq, wire, written>>

UserTransmit ==
  /\ user = "tx" /\ user' = "idle" /\ ustat' = NoStat
  /\ Transmit(ustat) /\ Unlock
  /\ UNCHANGED <<isr, stat, busy, console, rx, ie, irq, wire, written>>

\* ulite_set_termios: without CREAD, what is received is ignored.
SetTermios(cread) ==
  /\ Idle /\ open /\ "termios" \in UserCalls /\ lock = "free"
  /\ ignore' = ~cread
  /\ UNCHANGED <<open, xmit, x_char, stopped, lock, isr, stat, busy, user, ustat, console,
                 txf, rx, ie, irq, wire, written>>

StopRx ==
  /\ Idle /\ open /\ "stoprx" \in UserCalls /\ lock = "free"
  /\ ignore' = TRUE
  /\ UNCHANGED <<open, xmit, x_char, stopped, lock, isr, stat, busy, user,
                 ustat, console, txf, rx, ie, irq, wire, written>>

\* ulite_startup after request_irq: reset both FIFOs, then enable interrupts.
Startup ==
  /\ Idle /\ ~open
  /\ open' = TRUE /\ user' = "reset"
  /\ UNCHANGED <<xmit, x_char, stopped, ignore, lock, isr, stat, busy,
                 ustat, console, txf, rx, ie, irq, wire, written>>

Reset ==
  /\ user = "reset" /\ user' = "enable"
  /\ txf' = <<>> /\ rxf' = <<>> /\ dropped' = dropped \cup ToSet(rxf)
  /\ Control(FALSE)
  /\ UNCHANGED <<port, lock, isr, stat, busy, ustat, console, tty, arrived, wire,
                 written>>

EnableNothing ==                                \* mutant: IE is not set
  /\ user = "enable" /\ user' = "idle"
  /\ Control(FALSE)
  /\ UNCHANGED <<port, lock, isr, stat, busy, ustat, console, txf, rx, wire, written>>

Enable ==
  /\ user = "enable" /\ user' = "idle"
  /\ Control(TRUE)
  /\ UNCHANGED <<port, lock, isr, stat, busy, ustat, console, txf, rx, wire, written>>

\* ulite_shutdown, when all was sent; free_irq waits for the handler.
Shutdown ==
  /\ Idle /\ open /\ "close" \in UserCalls
  /\ xmit = <<>> /\ txf = <<>> /\ ~x_char
  /\ user' = "free_irq" /\ Control(FALSE)
  /\ UNCHANGED <<port, lock, isr, stat, busy, ustat, console, txf, rx, wire, written>>

FreeIrq ==
  /\ user = "free_irq" /\ isr = "off"
  /\ user' = "idle" /\ open' = FALSE /\ irq' = FALSE
  /\ UNCHANGED <<xmit, x_char, stopped, ignore, lock, isr, stat, busy,
                 ustat, console, txf, rx, ie, wire, written>>

User == StartTx \/ UserTransmit \/ Reset \/ Enable \/ FreeIrq
(***************************************************************************)
(* ulite_console_write.  In an oops it only tries the lock.                *)
(***************************************************************************)
ConsoleWrite ==
  /\ con = "idle" /\ lines < Lines /\ con' = "save"
  /\ \/ Lock("con") /\ locked' = TRUE /\ UNCHANGED lockless
     \/ /\ MayOops /\ lock # "free"
        /\ locked' = FALSE /\ lockless' = TRUE /\ UNCHANGED lock
  /\ lines' = lines + 1 /\ left' = LineLen
  /\ UNCHANGED <<port, isr, stat, busy, user, ustat, saved, txf, rx, ie, irq, wire,
                 written>>

Save ==
  /\ con = "save" /\ con' = "off"
  /\ saved' = ie
  /\ UNCHANGED <<port, lock, isr, stat, busy, user, ustat, locked, left, lines, lockless,
                 txf, rx, ie, irq, wire, written>>

DisableIrq ==
  /\ con = "off" /\ con' = "wait"
  /\ Control(FALSE)
  /\ UNCHANGED <<port, lock, isr, stat, busy, user, ustat, saved, locked, left, lines,
                 lockless, txf, rx, wire, written>>

\* ulite_console_wait_tx; in a second the UART sends what it holds.
WaitPastEnd ==                                  \* mutant: one character too many
  /\ con = "wait" /\ Len(txf) < Depth
  /\ con' = IF left >= 0 THEN "put" ELSE "restore"
  /\ UNCHANGED <<port, lock, isr, stat, busy, user, ustat, saved, locked, left, lines,
                 lockless, txf, rx, ie, irq, wire, written>>

WaitTx ==
  /\ con = "wait" /\ Len(txf) < Depth
  /\ con' = IF left > 0 THEN "put" ELSE "restore"
  /\ UNCHANGED <<port, lock, isr, stat, busy, user, ustat, saved, locked, left, lines,
                 lockless, txf, rx, ie, irq, wire, written>>

PutChar ==
  /\ con = "put" /\ con' = "wait"
  /\ Put(<<Con(lines * LineLen - left + 1)>>)
  /\ left' = left - 1
  /\ UNCHANGED <<port, lock, isr, stat, busy, user, ustat, saved, locked, lines, lockless,
                 rx, ie, irq, wire, written>>

Restore ==
  /\ con = "restore" /\ con' = "idle" /\ saved' = FALSE /\ locked' = FALSE
  /\ \/ locked /\ Unlock
     \/ ~locked /\ UNCHANGED lock
  /\ \/ saved /\ Control(TRUE)
     \/ ~saved /\ UNCHANGED <<ie, irq>>
  /\ UNCHANGED <<port, isr, stat, busy, user, ustat, left, lines, lockless, txf, rx,
                 wire, written>>

Console == Save \/ DisableIrq \/ WaitTx \/ PutChar \/ Restore
(***************************************************************************)
(* The UART Lite (external).                                               *)
(***************************************************************************)
Shift ==
  /\ txf # <<>>
  /\ txf' = Tail(txf)
  /\ wire' = IF Head(txf) = X THEN wire ELSE Append(wire, Head(txf))
  /\ irq' = (irq \/ (ie /\ Len(txf) = 1 /\ rxf = <<>>))
  /\ UNCHANGED <<port, lock, isr, stat, busy, user, ustat, console, rx, ie, written>>

\* A character arrives; a full FIFO loses it.
Arrive ==
  /\ arrived < RxChars /\ arrived' = arrived + 1
  /\ \/ Len(rxf) < Depth /\ rxf' = Append(rxf, arrived') /\ UNCHANGED dropped
     \/ Len(rxf) = Depth /\ dropped' = dropped \cup {arrived'} /\ UNCHANGED rxf
  /\ irq' = (irq \/ (ie /\ rxf = <<>>))
  /\ UNCHANGED <<port, lock, isr, stat, busy, user, ustat, console, txf, tty, ie, wire,
                 written>>

Next ==
  \/ Isr \/ User \/ Console \/ ConsoleWrite \/ Shift
  \/ Write \/ SendXchar \/ Flow \/ StopRx \/ Startup \/ Shutdown
  \/ Arrive \/ \E cread \in BOOLEAN : SetTermios(cread)

Spec == Init /\ [][Next]_vars

\* Edges are served, calls go on, the UART sends; a spin lock is fair.
FairSpec == /\ Spec /\ SF_vars(Isr) /\ WF_vars(User) /\ WF_vars(Console) /\ WF_vars(Shift)
-----------------------------------------------------------------------------
\* The characters of this kind in s are among those from 1 to n, none twice and
\* in order.
InOrder(kind, s, n) ==
  /\ \A i \in DOMAIN s : s[i][1] = kind => s[i][2] \in 1 .. n
  /\ \A i, j \in DOMAIN s : i < j /\ s[i][1] = kind /\ s[j][1] = kind => s[i][2] < s[j][2]

\* None of them is missing.
Complete(kind, s, n) == \A k \in 1 .. n : \E i \in DOMAIN s : s[i] = <<kind, k>>

(***************************************************************************)
(* What the user and the console write goes out in order and none twice,   *)
(* although the handler, start_tx and the console fill the same FIFO, also *)
(* when the console writes without the lock; and none is lost, unless it   *)
(* does (then a TXFULL that the holder of the lock has read is stale), or  *)
(* an open resets the FIFO under the console.                              *)
(***************************************************************************)
NoTxLoss ==
  LET sent == wire \o txf
      ttys == written - Len(xmit)
      cons == lines * LineLen - left
  IN  /\ ttys >= 0 /\ \A i \in DOMAIN xmit : xmit[i] = Tty(ttys + i)
      /\ InOrder("tty", sent, ttys) /\ InOrder("con", sent, cons)
      /\ ~lockless => Complete("tty", sent, ttys) /\ Complete("con", sent, cons)

(***************************************************************************)
(* The tty gets every character that arrived once and in order, except for *)
(* those that found the FIFO full, were ignored or were reset: no reading  *)
(* of ULITE_RX is wasted on an empty FIFO or forgotten on a full one.      *)
(***************************************************************************)
RxInOrder ==
  LET given == tty \o rxf
  IN  /\ ToSet(given) = (1 .. arrived) \ dropped
      /\ \A i, j \in DOMAIN given : i < j => given[i] < given[j]

(***************************************************************************)
(* What was written is sent without a further call: start_tx sends only    *)
(* one character and leaves the rest to the interrupt of the empty FIFO.   *)
(* It fails when the console writes meanwhile: ulite_console_write turns   *)
(* the interrupts off, the FIFO runs empty, and the interrupt state that   *)
(* it restores ("restore interrupt state", byu_uartlite.c:503) is without  *)
(* the edge.                                                               *)
(***************************************************************************)
TxDrains == xmit # <<>> ~> xmit = <<>> \/ stopped

(***************************************************************************)
(* What arrived is read, however its edge fell between two readings of the *)
(* status.                                                                 *)
(***************************************************************************)
RxDrains == rxf # <<>> ~> rxf = <<>> \/ ~open
=============================================================================
