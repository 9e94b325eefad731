---------------------------- MODULE I2cXferProofs ----------------------------
(***************************************************************************)
(* Proofs about I2cXfer.  First, for every value of the constants and      *)
(* however the caller, its timeout, the handler and the bus interleave:    *)
(* the driver never writes to a full FIFO.                                 *)
(***************************************************************************)
EXTENDS I2cXfer, SequenceTheorems, TLAPS

Message == [rd : BOOLEAN, len : Nat]
Token == [k : {"W", "R", "D", "L", "?"}, m : Nat, n : Nat, stop : BOOLEAN]

Messages == cur \in Seq(Message) /\ (cpc # "idle" => cur # <<>>)

Numbers ==
  /\ tx_msg \in Nat /\ rx_msg \in Nat /\ nmsgs \in Nat /\ tx_pos \in Nat /\ rx_pos \in Nat
  /\ msg \in [m : Nat, len : Nat] /\ first \in BOOLEAN
  /\ rd \in [m : Nat, got : Nat, len : Nat, stop : BOOLEAN]

\* Who may be where: the lock, and what __xiic_start_xfer has set when it begins.
Locked ==
  /\ spc # "none" => state = "START" /\ rx_pos = 0
  /\ spc # "none" => IF cpc = "starting" THEN hpc \in {"off", "woken"}
                     ELSE hpc \in {"bnb", "out"}
  /\ cpc = "starting" => hpc \in {"off", "woken", "oops"}
  /\ spc = "loop" /\ first => tx_pos = 0

Queues ==
  /\ fifo \in Seq(Token) /\ rxq \in Seq(Nat \X Nat) /\ rfd \in 0 .. Byte - 1
  /\ Len(fifo) <= Depth
  /\ spc = "recvlen" => Len(fifo) < Depth

IInv == Messages /\ Numbers /\ Locked /\ Queues

LEMMA InitInv == Init => IInv
<1> SUFFICES ASSUME Init PROVE IInv
  OBVIOUS
<1>1. Queues
  BY DepthAssumption DEF Init, Queues
<1>2. Messages /\ Numbers
  BY DEF Init, Messages, Numbers, NoMsg, NULL
<1> QED BY <1>1, <1>2 DEF Init, IInv, Locked

LEMMA MessageType ==
  ASSUME Messages, NEW i \in DOMAIN cur
  PROVE  i \in 1 .. Len(cur) /\ i \in Nat /\ i # NULL /\ cur[i].len \in Nat
<1>1. i \in 1 .. Len(cur)
  BY DEF Messages
<1>2. cur[i] \in Message
  BY <1>1, ElementOfSeq DEF Messages
<1> QED BY <1>1, <1>2 DEF Message, NULL

\* Bytes that fit leave a FIFO that is not too full.
LEMMA Added ==
  ASSUME NEW f \in Seq(Token), Len(f) <= Depth, NEW n \in Int, n <= Space(f),
         NEW s \in [1 .. n -> Token]
  PROVE  f \o s \in Seq(Token) /\ Len(f \o s) <= Depth
<1> DEFINE k == IF n < 0 THEN 0 ELSE n
<1>1. k \in Nat /\ 1 .. n = 1 .. k
  OBVIOUS
<1>2. s \in Seq(Token) /\ Len(s) = k
  BY <1>1, IsASeq
<1>3. Len(f) \in Nat /\ Len(f) + k <= Depth
  BY DepthAssumption DEF Space
<1> QED BY <1>2, <1>3, ConcatProperties

\* What xiic_fill_tx_fifo writes fits, and it stops inside the message.
LEMMA FillFits ==
  ASSUME IInv, NEW m \in DOMAIN cur, NEW p \in Nat, p <= cur[m].len
  PROVE  /\ Filled(fifo, m, p).fifo \in Seq(Token) /\ Len(Filled(fifo, m, p).fifo) <= Depth
         /\ Filled(fifo, m, p).pos \in p .. cur[m].len
<1> DEFINE n == IF cur[m].len - p > Space(fifo) THEN Space(fifo) ELSE cur[m].len - p
           s == [i \in 1 .. n |-> Entry("D", m, p + i, LastMsg /\ p + i = cur[m].len)]
<1>1. cur[m].len \in Nat /\ m \in Nat
  BY MessageType DEF IInv
<1>2. Space(fifo) \in Nat
  BY DepthAssumption DEF IInv, Queues, Space
<1>3. n \in Nat /\ n <= Space(fifo) /\ n <= cur[m].len - p
  BY <1>1, <1>2
<1>4. s \in [1 .. n -> Token]
  BY <1>1 DEF Entry, Token
<1>5. fifo \o s \in Seq(Token) /\ Len(fifo \o s) <= Depth
  <2>1. fifo \in Seq(Token) /\ Len(fifo) <= Depth /\ n \in Int
    BY <1>3 DEF IInv, Queues
  <2> HIDE DEF n, s
  <2> QED BY <1>3, <1>4, <2>1, Added
<1>6. Filled(fifo, m, p) = [fifo |-> fifo \o s, pos |-> p + n]
  BY DEF Filled
<1>7. p + n \in p .. cur[m].len
  BY <1>1, <1>3
<1> HIDE DEF n, s
<1> QED BY <1>5, <1>6, <1>7

\* The message that the loop of __xiic_start_xfer takes.
LEMMA NextMessage ==
  ASSUME IInv, spc = "loop", ~Bad(LoopMsg), InLoop
  PROVE  /\ LoopMsg \in DOMAIN cur /\ LoopMsg \in Nat /\ LoopMsg # NULL /\ LoopNum \in Nat
         /\ cur[LoopMsg].len \in Nat
<1>1. LoopMsg \in DOMAIN cur
  BY DEF Bad
<1>2. LoopNum \in Nat
  BY DEF IInv, Numbers, LoopNum, InLoop
<1> QED BY <1>1, <1>2, MessageType DEF IInv

\* The watermark and the entry of a length, whatever the length.
LEMMA MarkType ==
  ASSUME NEW n \in Nat
  PROVE  (IF n % Byte > Depth THEN Depth - 1 ELSE Minus1(n % Byte)) \in 0 .. Byte - 1
<1>1. n % Byte \in 0 .. Byte - 1
  BY DepthAssumption
<1> QED BY <1>1, DepthAssumption DEF Minus1

LEMMA LengthType ==
  ASSUME NEW m \in Nat, NEW n \in Nat
  PROVE  Length(m, n) \in Token
<1>1. n % Byte \in Nat
  BY DepthAssumption
<1>2. (LastMsg \/ (n \div (2 * Byte)) % 2 = 1) \in BOOLEAN
  BY DEF LastMsg
<1> HIDE DEF LastMsg
<1> QED BY <1>1, <1>2 DEF Length, Entry, Token

\* What is left of the message after a read, and the part of the FIFO taken.
LEMMA TakenType ==
  ASSUME IInv, ~BadRead
  PROVE  /\ rx_msg \in DOMAIN cur /\ rx_msg # NULL /\ rx_msg \in Nat /\ cur[rx_msg].len \in Nat
         /\ Received \in Seq(Nat \X Nat) /\ Len(Received) \in Nat
         /\ Len(Received) <= cur[rx_msg].len - rx_pos
         /\ rxq # <<>> => Len(Received) <= Len(rxq)
<1> DEFINE occ == IF rxq = <<>> THEN <<<<0, 0>>>> ELSE rxq
           room == cur[rx_msg].len - rx_pos
           k == IF Len(occ) > room THEN room ELSE Len(occ)
<1>1. <<<<0, 0>>>> \in Seq(Nat \X Nat) /\ rxq \in Seq(Nat \X Nat)
  <2>1. <<0, 0>> \in Nat \X Nat
    OBVIOUS
  <2> QED BY <2>1 DEF IInv, Queues
<1>2. occ \in Seq(Nat \X Nat) /\ Len(occ) \in Nat
  BY <1>1
<1>3. rx_msg \in DOMAIN cur /\ ~(rx_pos > cur[rx_msg].len)
  BY DEF BadRead, Bad
<1>4. rx_msg # NULL /\ cur[rx_msg].len \in Nat /\ rx_msg \in Nat
  BY <1>3, MessageType DEF IInv
<1>5. room \in Nat
  BY <1>3, <1>4 DEF IInv, Numbers
<1>6. k \in 0 .. Len(occ) /\ k <= room
  BY <1>2, <1>5
<1>7. Received = SubSeq(occ, 1, k)
  BY DEF Received
<1>8. Received \in Seq(Nat \X Nat) /\ Len(Received) = k
  <2> HIDE DEF occ, k
  <2> QED BY <1>2, <1>6, <1>7, SubSeqProperties
<1> QED BY <1>3, <1>4, <1>6, <1>8

\* Every step keeps the invariant.
LEMMA NextInv == IInv /\ [Next]_vars => IInv'
<1> SUFFICES ASSUME IInv, [Next]_vars PROVE IInv'
  OBVIOUS
<1> USE DepthAssumption DEF IInv, driver, caller, handler, starter, line, history, NULL
<1>0. CASE UNCHANGED vars
  BY SMTT(40), <1>0 DEF vars, Messages, Numbers, Locked, Queues
<1>1. ASSUME NEW t \in Transfers, Call(t) PROVE IInv'
  <2>1. Messages'
    BY <1>1, TransfersAssumption DEF Call, Messages, Message
  <2> QED BY <1>1, <2>1 DEF Call, Numbers, Locked, Queues
<1>2. CASE StartFault
  BY <1>2 DEF StartFault, Fault, NoMsg, Messages, Numbers, Locked, Queues
<1>3. CASE StartRecv
  <2>1. LoopMsg \in Nat /\ LoopNum \in Nat /\ cur[LoopMsg].len \in Nat
    BY <1>3, NextMessage DEF StartRecv
  <2>2. Entry("R", LoopMsg, 0, FALSE) \in Token
    BY <2>1 DEF Entry, Token
  <2>3. Len(fifo) + 1 < Depth
    BY <1>3 DEF StartRecv, InLoop, Space, Queues
  <2>4. fifo' \in Seq(Token) /\ Len(fifo') = Len(fifo) + 1
    BY <1>3, <2>2, AppendProperties DEF StartRecv, Queues
  <2>5. rfd' \in 0 .. Byte - 1
    BY <1>3, <2>1, MarkType DEF StartRecv
  <2>6. Queues'
    <3>1. rxq' \in Seq(Nat \X Nat)
      BY <1>3 DEF StartRecv, Queues
    <3>2. Len(fifo') < Depth /\ Len(fifo') <= Depth
      BY <2>3, <2>4 DEF Queues
    <3> QED BY <2>4, <2>5, <3>1, <3>2 DEF Queues
  <2>7. Numbers'
    BY <1>3, <2>1 DEF StartRecv, Numbers
  <2> QED BY <1>3, <2>6, <2>7 DEF StartRecv, Messages, Locked
<1>4. CASE RecvLength
  <2>1. Length(msg.m, msg.len) \in Token
    BY LengthType DEF Numbers
  <2>2. fifo' \in Seq(Token) /\ Len(fifo') = Len(fifo) + 1
    BY <1>4, <2>1, AppendProperties DEF RecvLength, Queues
  <2>3. Queues'
    BY <1>4, <2>2 DEF RecvLength, Queues
  <2> QED BY <1>4, <2>3 DEF RecvLength, Messages, Numbers, Locked
<1>5. CASE RecvArm
  BY <1>5 DEF RecvArm, ClrEn, Leave, LastMsg, NoMsg, Messages, Numbers, Locked, Queues
<1>6. CASE StartSend
  <2> DEFINE len == cur[LoopMsg].len
             addr == Entry("W", LoopMsg, 0, LoopNum = 1 /\ len = 0)
             g == fifo \o <<addr>>
             pos == IF first THEN tx_pos ELSE 0
             n == IF len - pos > Space(g) THEN Space(g) ELSE len - pos
             s == [i \in 1 .. n |-> Entry("D", LoopMsg, pos + i, LoopNum = 1 /\ pos + i = len)]
  <2>1. LoopMsg \in Nat /\ LoopNum \in Nat /\ len \in Nat
    BY <1>6, NextMessage DEF StartSend
  <2>3. <<addr>> \in Seq(Token) /\ Len(<<addr>>) = 1
    BY <2>1 DEF Entry, Token
  <2>4. g \in Seq(Token) /\ Len(g) = Len(fifo) + 1
    BY <2>3, ConcatProperties DEF Queues
  <2>5. Len(g) \in Nat /\ Len(g) <= Depth
    BY <1>6, <2>4 DEF StartSend, InLoop, Space, Queues
  <2>6. pos = 0 /\ Space(g) \in Nat
    BY <1>6, <2>4, <2>5 DEF StartSend, Locked, Space
  <2>7. n \in Nat /\ n <= Space(g)
    BY <2>1, <2>6
  <2>8. s \in [1 .. n -> Token]
    <3>1. pos \in Nat
      BY <2>6
    <3> HIDE DEF n, pos
    <3> QED BY <2>1, <3>1 DEF Entry, Token
  <2>9. g \o s \in Seq(Token) /\ Len(g \o s) <= Depth
    <3> HIDE DEF g, n, s
    <3> QED BY <2>4, <2>5, <2>7, <2>8, Added
  <2>10. fifo' = g \o s /\ tx_pos' = pos + n
    BY <1>6 DEF StartSend
  <2>11. Queues'
    BY <1>6, <2>9, <2>10 DEF StartSend, Queues
  <2>12. Numbers'
    BY <1>6, <2>1, <2>6, <2>7, <2>10 DEF StartSend, Numbers
  <2> QED BY <1>6, <2>11, <2>12 DEF StartSend, Messages, Locked
<1>7. CASE SendArm
  BY <1>7 DEF SendArm, ClrEn, Messages, Numbers, Locked, Queues
<1>8. CASE StartTail
  BY <1>8 DEF StartTail, Leave, ClrEn, NoMsg, Messages, Numbers, Locked, Queues
<1>9. CASE Busy
  BY <1>9 DEF Busy, Unlocked, Messages, Numbers, Locked, Queues
<1>10. CASE SetNum
  <2>1. Len(cur) \in Nat
    BY DEF Messages
  <2> QED BY <1>10, <2>1 DEF SetNum, Unlocked, Messages, Numbers, Locked, Queues
<1>12. CASE Return
  BY <1>12 DEF Return, Messages, Numbers, Locked, Queues
<1>13. CASE TimeOut
  BY <1>13 DEF TimeOut, Messages, Numbers, Locked, Queues
<1>31. CASE DropTx
  BY <1>31 DEF DropTx, Unlocked, Messages, Numbers, Locked, Queues
<1>32. CASE DropRx
  BY <1>32 DEF DropRx, Unlocked, Messages, Numbers, Locked, Queues
<1>33. CASE DropNum
  BY <1>33 DEF DropNum, Unlocked, Messages, Numbers, Locked, Queues
<1>11. CASE Start
  <2>1. fifo' = <<>> /\ rxq' = <<>> /\ rfd' = Depth - 1
    BY <1>11 DEF Start, Reinit
  <2>2. CASE tx_msg = NULL
    BY <1>11, <2>1, <2>2 DEF Start, Reinit, LockFree, Messages, Numbers, Queues, Locked
  <2>3. CASE tx_msg # NULL
    <3>1. tx_pos' = 0 /\ rx_pos' = 0 /\ first' = TRUE /\ UNCHANGED <<tx_msg, rx_msg, nmsgs, msg, rd>>
          /\ spc' = "loop" /\ state' = "START"
      BY <1>11, <2>3 DEF Start, Reinit, Enter
    <3>2. Numbers'
      BY <3>1 DEF Numbers
    <3>3. Queues'
      BY <2>1, <3>1, EmptySeq DEF Queues
    <3> QED BY <1>11, <2>3, <3>1, <3>2, <3>3 DEF Start, LockFree, Messages, Locked
  <2> QED BY <2>2, <2>3
<1>14. CASE Isr
  BY <1>14 DEF Isr, Messages, Numbers, Locked, Queues
<1>15. CASE Lock
  BY <1>15 DEF Lock, LockFree, Messages, Numbers, Locked, Queues
<1>16. CASE ErrorBranch
  BY <1>16 DEF ErrorBranch, Reinit, Wakeup, Messages, Numbers, Locked, Queues
<1>17. CASE RxBranch
  <2>1. Queues'
    <3>1. rxq' = <<>> \/ rxq' = rxq
      BY <1>17 DEF RxBranch
    <3>2. rxq' \in Seq(Nat \X Nat)
      BY <3>1, EmptySeq DEF Queues
    <3> QED BY <1>17, <3>2 DEF RxBranch, Queues
  <2> QED BY <1>17, <2>1 DEF RxBranch, Messages, Numbers, Locked
<1>18. CASE ReadRx
  <2> DEFINE left == cur[rx_msg].len - rx_pos - Len(Received)
  <2>1. /\ rx_msg \in Nat /\ cur[rx_msg].len \in Nat /\ Len(Received) \in Nat
        /\ Len(Received) <= cur[rx_msg].len - rx_pos
        /\ rxq # <<>> => Len(Received) <= Len(rxq)
    BY <1>18, TakenType DEF ReadRx
  <2>2. left \in Nat /\ rx_pos + Len(Received) \in Nat
    BY <2>1 DEF Numbers
  <2>3. rfd' \in 0 .. Byte - 1
    <3>1. rfd' = IF left > Depth THEN Depth - 1 ELSE Minus1(left)
      BY <1>18 DEF ReadRx
    <3> HIDE DEF left
    <3> QED BY <2>2, <3>1 DEF Minus1
  <2>4. rxq' \in Seq(Nat \X Nat)
    <3>1. CASE rxq = <<>>
      BY <1>18, <3>1 DEF ReadRx
    <3>2. CASE rxq # <<>>
      <4>1. Len(Received) + 1 \in 1 .. Len(rxq) + 1 /\ Len(rxq) \in Nat
        BY <2>1, <3>2 DEF Queues
      <4>2. SubSeq(rxq, Len(Received) + 1, Len(rxq)) \in Seq(Nat \X Nat)
        BY <4>1, SubSeqProperties DEF Queues
      <4> QED BY <1>18, <3>2, <4>2 DEF ReadRx
    <3> QED BY <3>1, <3>2
  <2>5. Queues'
    BY <1>18, <2>3, <2>4 DEF ReadRx, Queues, Locked, Enter
  <2>6. CASE nmsgs > 1 /\ rx_pos' = 0 /\ tx_msg' = tx_msg + 1 /\ nmsgs' = nmsgs - 1
             /\ Enter /\ tx_pos' = 0
    <3>1. Numbers'
      BY <1>18, <2>6 DEF ReadRx, Enter, Numbers
    <3> QED BY <1>18, <2>5, <2>6, <3>1 DEF ReadRx, Enter, Messages, Locked
  <2>7. CASE rx_pos' = rx_pos + Len(Received) /\ UNCHANGED <<tx_msg, nmsgs, tx_pos, state,
     starter>>
    <3>1. Numbers'
      BY <1>18, <2>2, <2>7 DEF ReadRx, Numbers
    <3> QED BY <1>18, <2>5, <2>7, <3>1 DEF ReadRx, Messages, Locked
  <2> QED BY <1>18, <2>6, <2>7 DEF ReadRx, Enter
<1>19. CASE ReadFault
  BY <1>19 DEF ReadFault, Fault, NoMsg, Messages, Numbers, Locked, Queues
<1>20. CASE BnbBranch
  BY <1>20 DEF BnbBranch, Messages, Numbers, Locked, Queues
<1>21. CASE Finish
  <2>1. CASE Fault /\ UNCHANGED driver
    BY <1>21, <2>1 DEF Finish, Fault, NoMsg, Messages, Numbers, Locked, Queues
  <2>2. CASE \E code \in {"DONE", "ERROR"} : Wakeup(code) /\ hpc' = "tx" /\ UNCHANGED <<tx_pos, rx_pos, spc, msg>>
    BY <1>21, <2>2 DEF Finish, Wakeup, Messages, Numbers, Locked, Queues
  <2> QED BY <1>21, <2>1, <2>2 DEF Finish
<1>22. CASE TxBranch
  BY <1>22 DEF TxBranch, TxBits, Messages, Numbers, Locked, Queues
<1>23. CASE Fill
  <2> DEFINE f == Filled(fifo, tx_msg, tx_pos)
             sent == f.pos = cur[tx_msg].len
  <2>1. tx_msg \in DOMAIN cur /\ cur[tx_msg].len \in Nat
    BY <1>23, MessageType DEF Fill, BadFill, Bad
  <2>2. tx_pos \in Nat /\ tx_pos <= cur[tx_msg].len
    BY <1>23, <2>1 DEF Fill, BadFill, Numbers
  <2>3. f.fifo \in Seq(Token) /\ Len(f.fifo) <= Depth /\ f.pos \in Nat
    BY <2>1, <2>2, FillFits
  <2>4. Queues'
    BY <1>23, <2>3 DEF Fill, Enter, Queues, Locked
  <2>5. CASE nmsgs > 1 /\ tx_msg' = tx_msg + 1 /\ nmsgs' = nmsgs - 1 /\ Enter /\ tx_pos' = 0
    <3>1. Numbers'
      BY <1>23, <2>5 DEF Fill, Enter, Numbers
    <3> QED BY <1>23, <2>4, <2>5, <3>1 DEF Fill, Enter, Messages, Locked
  <2>6. CASE tx_pos' = f.pos /\ UNCHANGED <<tx_msg, nmsgs, rx_pos, state, starter>>
    <3>1. Numbers'
      BY <1>23, <2>3, <2>6 DEF Fill, Numbers
    <3> QED BY <1>23, <2>4, <2>6, <3>1 DEF Fill, Messages, Locked
  <2> QED BY <1>23, <2>5, <2>6 DEF Fill
<1>24. CASE FillFault
  BY <1>24 DEF FillFault, Fault, NoMsg, Messages, Numbers, Locked, Queues
<1>25. CASE Out
  BY <1>25 DEF Out, Messages, Numbers, Locked, Queues
<1>26. CASE HwSend
  BY <1>26 DEF HwSend, Pop, Nack, Messages, Numbers, Locked, Queues
<1>27. CASE HwLength
  <2>1. Head(fifo) \in Token /\ fifo' \in Seq(Token) /\ Len(fifo') < Len(fifo)
    BY <1>27, HeadTailProperties DEF HwLength, Pop, Queues
  <2>2. rd' \in [m : Nat, got : Nat, len : Nat, stop : BOOLEAN]
    BY <1>27, <2>1 DEF HwLength, HwLengths, Token
  <2> QED BY <1>27, <2>1, <2>2 DEF HwLength, Pop, Messages, Numbers, Locked, Queues
<1>28. CASE HwRead
  <2>1. rd.m \in Nat /\ rd' \in [m : Nat, got : Nat, len : Nat, stop : BOOLEAN]
    <3>1. rd.m \in Nat /\ rd.got + 1 \in Nat
      BY DEF Numbers
    <3>2. rd' = [rd EXCEPT !.got = rd.got + 1]
      BY <1>28 DEF HwRead
    <3> QED BY <3>1, <3>2 DEF Numbers
  <2>2. rxq' \in Seq(Nat \X Nat)
    BY <1>28, <2>1, AppendProperties DEF HwRead, Queues
  <2> QED BY <1>28, <2>1, <2>2 DEF HwRead, Messages, Numbers, Locked, Queues
<1>29. CASE HwStop
  BY <1>29 DEF HwStop, Messages, Numbers, Locked, Queues
<1>30. CASE HwArbLost
  BY <1>30 DEF HwArbLost, Messages, Numbers, Locked, Queues
<1> QED BY <1>0, <1>1, <1>2, <1>3, <1>4, <1>5, <1>6, <1>7, <1>8, <1>9, <1>10, <1>11, <1>12, <1>13,
   <1>14, <1>15, <1>16, <1>17, <1>18, <1>19, <1>20, <1>21, <1>22, <1>23, <1>24, <1>25, <1>26,
      <1>27, <1>28, <1>29, <1>30, <1>31, <1>32, <1>33 DEF Next, Caller, StartXfer, Handler, Hardware

-----------------------------------------------------------------------------
\* The rest of TypeOK.
Places ==
  /\ state \in {"DONE", "ERROR", "START"}
  /\ cpc \in {"idle", "busy", "setnum", "start", "starting", "wait", "droptx", "droprx",
              "dropnum"}
  /\ raced \in BOOLEAN
  /\ result \in {"none", "num", "EIO", "EBUSY", "ETIMEDOUT"}
  /\ hpc \in {"off", "woken", "error", "rx", "read", "bnb", "finish", "tx",
              "fill", "out", "oops"}
  /\ spc \in {"none", "loop", "recvlen", "recvarm", "sendarm", "tail"}
  /\ bus \in {"idle", "tx", "rxlen", "rx", "held", "stopping", "nacked", "dead"}
  /\ cur \in Transfers \cup {<<>>} /\ fault \in BOOLEAN
Registers == snap \subseteq Bits /\ pend \subseteq snap /\ clr \subseteq Bits
             /\ ier \subseteq Bits /\ isr \subseteq Bits
History == /\ wire \in Seq({"W", "R", "D", "B"} \X Nat \X Nat) /\ buf \in Seq(Seq(Nat \X Nat))
           /\ Len(rxq) <= Depth

LEMMA PlacesNext ==
  ASSUME Places, [Next]_vars
  PROVE  Places'
<1> USE DEF driver, caller, handler, starter, line, history, Places
<1>1. CASE UNCHANGED vars
  BY <1>1 DEF vars
<1>2. CASE (\E t \in Transfers : Call(t)) \/ Start \/ Return \/ TimeOut \/ Isr
  BY <1>2 DEF Call, Start, Reinit, Enter, Return, TimeOut, Isr
<1>9. CASE Busy \/ SetNum \/ DropTx \/ DropRx \/ DropNum
  <2>1. raced' \in BOOLEAN
    BY <1>9 DEF Busy, SetNum, DropTx, DropRx, DropNum, Unlocked, Inside
  <2> QED BY <1>9, <2>1 DEF Busy, SetNum, DropTx, DropRx, DropNum, Unlocked
<1>3. CASE StartXfer
  BY <1>3 DEF StartXfer, StartFault, Fault, StartRecv, RecvLength, RecvArm, Leave, StartSend,
     SendArm, StartTail
<1>4. CASE ErrorBranch \/ RxBranch \/ ReadRx \/ ReadFault
  BY <1>4 DEF ErrorBranch, Reinit, Wakeup, RxBranch, ReadRx, Enter, ReadFault, Fault
<1>10. CASE Lock
  <2>1. raced' \in BOOLEAN
    BY <1>10 DEF Lock, Storing
  <2> QED BY <1>10, <2>1 DEF Lock
<1>5. CASE BnbBranch \/ Finish \/ TxBranch \/ Fill \/ FillFault \/ Out
  BY <1>5 DEF BnbBranch, Finish, Wakeup, TxBranch, Fill, Enter, FillFault, Fault, Out
<1>6. CASE HwSend
  <2>1. fault' = fault \/ fault' = TRUE
    BY <1>6 DEF HwSend, Nack
  <2>2. bus' \in {"rxlen", "stopping", "tx", "nacked"}
    BY <1>6 DEF HwSend, Nack
  <2>3. fault' \in BOOLEAN
    BY <2>1
  <2>4. UNCHANGED <<state, cpc, result, raced, hpc, spc, cur>>
    BY <1>6 DEF HwSend, Pop
  <2> QED BY <2>2, <2>3, <2>4
<1>7. CASE HwLength \/ HwRead \/ HwStop
  BY <1>7 DEF Pop, HwLength, HwRead, HwStop
<1>8. CASE HwArbLost
  <2>1. fault' = TRUE /\ bus' = "dead" /\ UNCHANGED <<state, cpc, result, raced, hpc, spc, cur>>
    BY <1>8 DEF HwArbLost
  <2> QED BY <2>1
<1> QED BY <1>1, <1>2, <1>3, <1>4, <1>5, <1>6, <1>7, <1>8, <1>9, <1>10 DEF Next, Caller, Handler,
   Hardware

LEMMA RegistersNext ==
  ASSUME Registers, [Next]_vars
  PROVE  Registers'
<1> USE DEF driver, caller, handler, starter, line, history, Registers
<1>1. ASSUME NEW mask \in SUBSET Bits PROVE WriteIisr(isr, mask) \subseteq Bits
  BY DEF WriteIisr
<1>2. ASSUME NEW mask \in SUBSET Bits, ClrEn(mask) PROVE isr' \subseteq Bits /\ ier' \subseteq Bits
  BY <1>2 DEF ClrEn, WriteIisr
<1>3. CASE UNCHANGED vars
  BY <1>3 DEF vars
<1>4. CASE (\E t \in Transfers : Call(t)) \/ Caller \/ TimeOut \/ Isr
  BY <1>4 DEF Call, Caller, Busy, SetNum, Start, Reinit, Return, TimeOut, DropTx, DropRx, DropNum,
     Isr, Bits
<1>5. CASE StartFault \/ StartRecv \/ RecvLength \/ RecvArm
  <2>1. {"RXFULL", "TXERR"} \in SUBSET Bits /\ {"BNB"} \in SUBSET Bits
    BY DEF Bits
  <2>2. CASE StartFault \/ RecvLength \/ RecvArm
    BY <1>2, <2>1, <2>2 DEF StartFault, RecvLength, RecvArm
  <2>3. CASE StartRecv
    <3>1. WriteIisr(isr, isr \cap {"RXFULL", "TXERR"}) \subseteq Bits /\ "RXFULL" \in Bits
      BY <1>1, <2>1 DEF Bits
    <3>2. ier' = ier \cup {"RXFULL", "TXERR"} /\ (isr' = WriteIisr(isr, isr \cap {"RXFULL", "TXERR"})
             \/ isr' = WriteIisr(isr, isr \cap {"RXFULL", "TXERR"}) \cup {"RXFULL"})
      BY <2>3 DEF StartRecv
    <3>3. UNCHANGED handler
      BY <2>3 DEF StartRecv
    <3> QED BY <2>1, <3>1, <3>2, <3>3
  <2> QED BY <1>5, <2>2, <2>3
<1>6. CASE StartSend \/ SendArm \/ StartTail
  <2>1. {"TXEMPTY", "TXERR", "BNB"} \in SUBSET Bits /\ {"TXHALF"} \in SUBSET Bits
        /\ isr \cap {"TXERR"} \in SUBSET Bits
    BY DEF Bits
  <2>2. isr' \subseteq Bits /\ ier' \subseteq Bits
    BY <1>1, <1>2, <1>6, <2>1 DEF StartSend, SendArm, StartTail
  <2> QED BY <1>6, <2>2 DEF StartSend, SendArm, StartTail
<1>7. CASE Lock \/ ErrorBranch \/ RxBranch \/ ReadRx \/ ReadFault
  BY <1>7 DEF Lock, ErrorBranch, Reinit, RxBranch, ReadRx, ReadFault, Bits
<1>8. CASE BnbBranch \/ Finish \/ TxBranch \/ Fill \/ FillFault \/ Out
  BY <1>1, <1>8 DEF BnbBranch, Finish, TxBranch, Fill, FillFault, Out, Bits, TxBits
<1>9. CASE Hardware \/ HwArbLost
  BY <1>9 DEF Hardware, HwSend, Nack, Pop, PopEvents, HwLength, HwRead, HwStop, HwArbLost, Bits
<1> QED BY <1>3, <1>4, <1>5, <1>6, <1>7, <1>8, <1>9 DEF Next, Handler, StartXfer

LEMMA HistoryNext ==
  ASSUME IInv, History, [Next]_vars
  PROVE  History'
<1> USE DEF driver, caller, handler, starter, line, history
<1>1. CASE UNCHANGED <<wire, buf, rxq>>
  BY <1>1 DEF History
<1>2. CASE Start
  <2>1. wire' = <<>> /\ buf' = [m \in DOMAIN cur |-> <<>>] /\ rxq' = <<>>
    BY <1>2 DEF Start, Reinit
  <2>2. Len(cur) \in Nat /\ DOMAIN cur = 1 .. Len(cur)
    BY DEF IInv, Messages
  <2>3. buf' \in Seq(Seq(Nat \X Nat))
    BY <2>1, <2>2, IsASeq
  <2> QED BY <2>1, <2>3, DepthAssumption DEF History
<1>3. CASE ErrorBranch \/ RxBranch
  <2>1. rxq' = <<>> \/ rxq' = rxq
    BY <1>3 DEF ErrorBranch, Reinit, RxBranch
  <2>2. Len(rxq') <= Depth
    BY <2>1, DepthAssumption DEF History
  <2> QED BY <1>3, <2>2 DEF ErrorBranch, Reinit, RxBranch, History
<1>4. CASE ReadRx
  <2> DEFINE rest == IF rxq = <<>> THEN rxq ELSE SubSeq(rxq, Len(Received) + 1, Len(rxq))
  <2>1. rxq' = rest /\ wire' = wire /\ buf' = [buf EXCEPT ![rx_msg] = buf[rx_msg] \o Received]
    BY <1>4 DEF ReadRx
  <2>2. Received \in Seq(Nat \X Nat)
    BY <1>4, TakenType DEF ReadRx
  <2>3. Len(rest) <= Depth
    <3>1. Len(Received) \in Nat /\ rxq \in Seq(Nat \X Nat) /\ Len(rxq) \in Nat
      BY <2>2 DEF IInv, Queues
    <3>2. Len(SubSeq(rxq, Len(Received) + 1, Len(rxq))) =
            IF Len(Received) + 1 <= Len(rxq) THEN Len(rxq) - Len(Received) ELSE 0
      BY <3>1
    <3> QED BY <3>1, <3>2, DepthAssumption DEF History
  <2>4. buf' \in Seq(Seq(Nat \X Nat))
    <3>1. buf \in Seq(Seq(Nat \X Nat)) /\ DOMAIN buf = 1 .. Len(buf) /\ Len(buf) \in Nat
      BY DEF History
    <3>2. \A m \in DOMAIN buf : buf[m] \in Seq(Nat \X Nat)
      BY <3>1, ElementOfSeq
    <3>3. CASE rx_msg \in 1 .. Len(buf)
      <4>1. buf[rx_msg] \o Received \in Seq(Nat \X Nat)
        BY <2>2, <3>1, <3>2, <3>3, ConcatProperties
      <4> QED BY <2>1, <3>1, <3>3, <4>1, ExceptSeq
    <3>4. CASE rx_msg \notin 1 .. Len(buf)
      <4>1. buf' = buf
        BY <2>1, <3>1, <3>4
      <4> QED BY <3>1, <4>1
    <3> QED BY <3>3, <3>4
  <2> QED BY <2>1, <2>3, <2>4 DEF History
<1>5. CASE HwSend
  <2>1. CASE wire' = wire
    BY <1>5, <2>1 DEF HwSend, Pop, Nack, History
  <2>2. CASE rxq' = rxq /\ wire' = Append(wire, <<Head(fifo).k, Head(fifo).m, Head(fifo).n>>)
    <3>1. Head(fifo) \in Token /\ Head(fifo).k \in {"W", "R", "D"}
      BY <1>5, HeadTailProperties DEF HwSend, IInv, Queues
    <3>2. <<Head(fifo).k, Head(fifo).m, Head(fifo).n>> \in {"W", "R", "D", "B"} \X Nat \X Nat
      BY <3>1 DEF Token
    <3>3. wire' \in Seq({"W", "R", "D", "B"} \X Nat \X Nat)
      BY <2>2, <3>2, AppendProperties DEF History
    <3> QED BY <1>5, <2>2, <3>3 DEF HwSend, Pop, History
  <2> QED BY <1>5, <2>1, <2>2 DEF HwSend, Nack
<1>6. CASE HwRead
  <2>1. <<rd.m, rd.got + 1>> \in Nat \X Nat /\ <<"B", rd.m, rd.got + 1>> \in {"W", "R", "D", "B"} \X Nat \X Nat
    BY DEF IInv, Numbers
  <2>2. wire' \in Seq({"W", "R", "D", "B"} \X Nat \X Nat)
    BY <1>6, <2>1, AppendProperties DEF HwRead, History
  <2>3. rxq' = Append(rxq, <<rd.m, rd.got + 1>>) /\ Len(rxq) <= Watermark(rfd)
    BY <1>6 DEF HwRead
  <2>4. Watermark(rfd) < Depth /\ Watermark(rfd) \in Nat
    BY DepthAssumption DEF Watermark, IInv, Queues
  <2>5. Len(rxq') = Len(rxq) + 1 /\ Len(rxq) \in Nat
    BY <2>1, <2>3, AppendProperties DEF IInv, Queues
  <2> QED BY <1>6, <2>2, <2>3, <2>4, <2>5, DepthAssumption DEF HwRead, History
<1>7. CASE (\E t \in Transfers : Call(t)) \/ Busy \/ SetNum \/ Return \/ TimeOut \/ DropTx
             \/ DropRx \/ DropNum \/ Isr \/ StartXfer
  BY <1>1, <1>7 DEF Call, Busy, SetNum, Return, TimeOut, DropTx, DropRx, DropNum, Isr, StartXfer, StartFault, StartRecv,
     RecvLength, RecvArm, StartSend, SendArm, StartTail
<1>8. CASE Lock \/ ReadFault \/ BnbBranch \/ Finish \/ TxBranch \/ Fill \/ FillFault \/ Out
  BY <1>1, <1>8 DEF Lock, ReadFault, BnbBranch, Finish, TxBranch, Fill, FillFault, Out
<1>9. CASE HwLength \/ HwStop \/ HwArbLost \/ UNCHANGED vars
  BY <1>1, <1>9 DEF HwLength, Pop, HwStop, HwArbLost, vars
<1> QED BY <1>2, <1>3, <1>4, <1>5, <1>6, <1>7, <1>8, <1>9 DEF Next, Caller, Handler, Hardware
-----------------------------------------------------------------------------
Types == Places /\ Registers /\ History

LEMMA InitTypes == Init => Types
<1> SUFFICES ASSUME Init PROVE Types
  OBVIOUS
<1>1. Places
  BY DEF Init, Places
<1>2. Registers
  BY DEF Init, Registers, Bits
<1>3. History
  BY DepthAssumption DEF Init, History
<1> QED BY <1>1, <1>2, <1>3 DEF Types

THEOREM Invariance == Spec => [](IInv /\ Types)
<1>1. Init => IInv /\ Types
  BY InitInv, InitTypes
<1>2. IInv /\ Types /\ [Next]_vars => IInv' /\ Types'
  BY NextInv, PlacesNext, RegistersNext, HistoryNext DEF Types
<1> QED BY <1>1, <1>2, PTL DEF Spec

\* TypeOK for FIFOs and transfers of any length: among other things no watermark
\* leaves its u8, and the RX FIFO never overflows, whatever a timeout of i2c-byu.c
\* takes away and however late its handler runs.
THEOREM TypeCorrect == Spec => []TypeOK
<1>1. IInv /\ Types => TypeOK
  <2> SUFFICES ASSUME IInv, Types PROVE TypeOK
    OBVIOUS
  <2>1. fifo \in Seq([k : {"W", "R", "D", "L", "?"}, m : Nat, n : Nat, stop : BOOLEAN])
    BY DEF IInv, Queues, Token
  <2>2. rxq \in Seq(Nat \X Nat) /\ rfd \in 0 .. Byte - 1
    BY DEF IInv, Queues
  <2>3. tx_msg \in Nat /\ rx_msg \in Nat /\ nmsgs \in Nat /\ tx_pos \in Nat /\ rx_pos \in Nat
        /\ first \in BOOLEAN /\ msg \in [m : Nat, len : Nat]
        /\ rd \in [m : Nat, got : Nat, len : Nat, stop : BOOLEAN]
    BY DEF IInv, Numbers
  <2>4. Places /\ Registers /\ History
    BY DEF Types
  <2> QED BY <2>1, <2>2, <2>3, <2>4 DEF TypeOK, Places, Registers, History
<1> QED BY <1>1, Invariance, PTL

\* FifoFits for any depth and any transfers, with any timeout, on any number of
\* CPUs and on a bus of any speed: i2c-byu.c never writes to a full TX FIFO.
THEOREM FifoFitsHolds == Spec => []FifoFits
<1>1. IInv => FifoFits
  BY DEF IInv, Queues, FifoFits
<1> QED BY <1>1, Invariance, PTL
-----------------------------------------------------------------------------
(***************************************************************************)
(* Then that no pointer is followed that was taken away, unless the        *)
(* handler ran while the caller stored without the lock.  What the pointers*)
(* are follows from where the caller is: NULL between transfers, inside    *)
(* the transfer from the start to the first store of a timeout.            *)
(***************************************************************************)
Working == cpc \in {"starting", "wait", "droptx"}

AtRest ==
  /\ cpc \in {"idle", "busy"} => tx_msg = NULL /\ rx_msg = NULL /\ nmsgs = 0
  /\ cpc = "setnum" => tx_msg = 1 /\ rx_msg = NULL
  /\ cpc = "start" => tx_msg = 1 /\ rx_msg = NULL /\ nmsgs = Len(cur)
  /\ cpc = "droprx" => tx_msg = NULL
  /\ cpc = "dropnum" => tx_msg = NULL /\ rx_msg = NULL
  /\ Storing => ~Inside /\ spc = "none"

AtWork == Working =>
  \/ tx_msg = NULL /\ rx_msg = NULL /\ nmsgs = 0 /\ state # "START"
  \/ /\ tx_msg \in DOMAIN cur /\ tx_msg + nmsgs = Len(cur) + 1 /\ state = "START"
     /\ tx_pos <= cur[tx_msg].len
     /\ rx_msg # NULL => rx_msg \in DOMAIN cur /\ rx_pos <= cur[rx_msg].len

Following ==
  /\ hpc # "oops"
  /\ hpc = "read" => rx_msg # NULL
  /\ hpc \in {"finish", "fill"} => tx_msg # NULL
  /\ spc # "none" => Working /\ tx_msg # NULL
  /\ spc \in {"recvlen", "recvarm"} => msg = [m |-> tx_msg, len |-> cur[tx_msg].len]
  /\ cpc = "starting" => tx_msg # NULL

Safe == AtRest /\ AtWork /\ Following
PInv == ~raced => Safe

LEMMA InitPointers == Init => PInv
  BY DEF Init, PInv, Safe, AtRest, AtWork, Following, Working, Storing, NULL

\* A pointer that is in use is one of the transfer.
LEMMA InUse ==
  ASSUME IInv, Places, Safe, tx_msg # NULL, Inside \/ spc # "none"
  PROVE  /\ Working /\ tx_msg \in DOMAIN cur /\ tx_msg \in 1 .. Len(cur) /\ Len(cur) \in Nat
         /\ cur[tx_msg].len \in Nat
         /\ tx_msg + nmsgs = Len(cur) + 1 /\ nmsgs \in Nat /\ nmsgs > 0 /\ state = "START"
         /\ tx_pos \in Nat /\ tx_pos <= cur[tx_msg].len /\ ~Bad(tx_msg)
<1>1. cpc \in {"idle", "busy", "setnum", "start", "starting", "wait", "droptx", "droprx", "dropnum"} =>
        Working
  BY DEF Safe, AtRest, Following, Working, Storing, Inside
<1>2. CASE Working
  <2>1. /\ tx_msg \in DOMAIN cur /\ tx_msg + nmsgs = Len(cur) + 1 /\ state = "START"
        /\ tx_pos <= cur[tx_msg].len
    BY <1>2 DEF Safe, AtWork
  <2>2. tx_msg \in 1 .. Len(cur) /\ Len(cur) \in Nat /\ cur[tx_msg].len \in Nat
    BY <2>1, MessageType DEF IInv, Messages
  <2> QED BY <1>2, <2>1, <2>2 DEF IInv, Numbers, Bad
<1> QED BY <1>1, <1>2 DEF Places

LEMMA InUseRx ==
  ASSUME IInv, Places, Safe, rx_msg # NULL, Inside
  PROVE  tx_msg # NULL /\ rx_msg \in DOMAIN cur /\ rx_pos <= cur[rx_msg].len /\ ~BadRead
<1>1. Working
  BY DEF Places, Safe, AtRest, Following, Working, Storing, Inside
<1>2. tx_msg \in DOMAIN cur /\ rx_msg \in DOMAIN cur /\ rx_pos <= cur[rx_msg].len
  BY <1>1 DEF Safe, AtWork
<1>3. tx_msg # NULL /\ cur[rx_msg].len \in Nat
  BY <1>2, MessageType DEF IInv
<1> QED BY <1>2, <1>3 DEF BadRead, Bad, IInv, Numbers

\* The next message of the loop is one of the transfer.
LEMMA InLoopUse ==
  ASSUME IInv, Places, Safe, spc = "loop", InLoop
  PROVE  /\ LoopMsg \in DOMAIN cur /\ LoopMsg # NULL /\ LoopMsg + LoopNum = Len(cur) + 1
         /\ ~Bad(LoopMsg) /\ LoopNum \in Nat /\ LoopMsg \in Nat
<1>1. /\ tx_msg \in 1 .. Len(cur) /\ tx_msg + nmsgs = Len(cur) + 1 /\ nmsgs \in Nat /\ nmsgs > 0
      /\ Len(cur) \in Nat
  BY InUse DEF Safe, Following
<1>2. LoopMsg \in 1 .. Len(cur) /\ LoopMsg + LoopNum = Len(cur) + 1 /\ LoopNum \in Nat
  BY <1>1 DEF LoopMsg, LoopNum, InLoop
<1> QED BY <1>2 DEF IInv, Messages, Bad, NULL

LEMMA PointersNext ==
  ASSUME IInv, Places, PInv, [Next]_vars
  PROVE  PInv'
<1> SUFFICES ASSUME ~raced' PROVE Safe'
  BY DEF PInv
<1> USE DEF driver, caller, handler, starter, line, history
<1>0. CASE UNCHANGED vars
  BY <1>0 DEF vars, PInv, Safe, AtRest, AtWork, Following, Working, Storing, Inside, NULL
<1>a. raced \in BOOLEAN
  BY DEF Places
<1>1. ASSUME NEW t \in Transfers, Call(t) PROVE Safe'
  BY <1>1 DEF Call, PInv, Safe, AtRest, AtWork, Following, Working, Storing, Inside
<1>2. CASE StartFault
  <2>1. Safe /\ spc # "none" /\ (Bad(tx_msg) \/ (spc = "loop" /\ InLoop /\ Bad(LoopMsg)))
    BY <1>2 DEF StartFault, PInv
  <2>2. ~Bad(tx_msg)
    BY <2>1, InUse DEF Safe, Following
  <2> QED BY <2>1, <2>2, InLoopUse
<1>3. CASE StartRecv
  <2>1. Safe
    BY <1>3 DEF StartRecv, PInv
  <2>2. LoopMsg \in DOMAIN cur /\ LoopMsg # NULL /\ LoopMsg + LoopNum = Len(cur) + 1
    BY <1>3, <2>1, InLoopUse DEF StartRecv
  <2>3. cur[LoopMsg].len \in Nat /\ rx_pos = 0 /\ state = "START" /\ (first => tx_pos = 0)
    BY <1>3, <2>2, MessageType DEF StartRecv, IInv, Locked
  <2>4. tx_pos' = 0 /\ tx_msg' = LoopMsg /\ rx_msg' = LoopMsg /\ nmsgs' = LoopNum /\ rx_pos' = 0
        /\ state' = "START" /\ cur' = cur /\ UNCHANGED <<cpc, hpc, raced>> /\ spc' = "recvlen"
        /\ msg' = [m |-> LoopMsg, len |-> cur[LoopMsg].len]
    BY <1>3, <2>3 DEF StartRecv
  <2>5. Working /\ hpc \in {"off", "woken", "bnb", "out"} /\ (hpc # "off" /\ hpc # "woken" => cpc # "starting")
    BY <1>3, <2>1 DEF StartRecv, Safe, Following, IInv, Locked
  <2> QED BY <2>2, <2>3, <2>4, <2>5 DEF Safe, AtRest, AtWork, Following, Working, Storing, Inside
<1>4. CASE RecvLength
  BY <1>4 DEF RecvLength, PInv, Safe, AtRest, AtWork, Following, Working, Storing, Inside
<1>5. CASE RecvArm
  <2>1. Safe /\ spc = "recvarm" /\ UNCHANGED <<tx_msg, rx_msg, nmsgs, rx_pos, state, hpc, cur, raced>>
        /\ spc' = "none" /\ cpc' = (IF cpc = "starting" THEN "wait" ELSE cpc) /\ tx_pos' = msg.len
    BY <1>5 DEF RecvArm, Leave, PInv
  <2>2. msg.len = cur[tx_msg].len /\ Working /\ tx_msg # NULL
    BY <2>1 DEF Safe, Following
  <2>3. tx_pos' <= cur[tx_msg].len
    BY <2>1, <2>2, InUse
  <2> QED BY <2>1, <2>2, <2>3 DEF Safe, AtRest, AtWork, Following, Working, Storing, Inside
<1>6. CASE StartSend
  <2> DEFINE len == cur[LoopMsg].len
             g == fifo \o <<Entry("W", LoopMsg, 0, LoopNum = 1 /\ len = 0)>>
             pos == IF first THEN tx_pos ELSE 0
             n == IF len - pos > Space(g) THEN Space(g) ELSE len - pos
  <2>1. Safe
    BY <1>6 DEF StartSend, PInv
  <2>2. LoopMsg \in DOMAIN cur /\ LoopMsg # NULL /\ LoopMsg + LoopNum = Len(cur) + 1
    BY <1>6, <2>1, InLoopUse DEF StartSend
  <2>3. len \in Nat /\ rx_pos = 0 /\ state = "START" /\ pos = 0
    BY <1>6, <2>2, MessageType DEF StartSend, IInv, Locked
  <2>4. tx_pos' = pos + n /\ tx_msg' = LoopMsg /\ nmsgs' = LoopNum
        /\ UNCHANGED <<rx_msg, rx_pos, state, cur, cpc, hpc, raced>> /\ spc' = "sendarm"
    BY <1>6 DEF StartSend
  <2>5. Working /\ hpc \in {"off", "woken", "bnb", "out"} /\ (hpc # "off" /\ hpc # "woken" => cpc # "starting")
    BY <1>6, <2>1 DEF StartSend, Safe, Following, IInv, Locked
  <2>6. tx_pos' <= len
    <3>1. Len(g) \in Nat
      <4>1. fifo \in Seq(Token) /\ Entry("W", LoopMsg, 0, LoopNum = 1 /\ len = 0) \in Token
        BY <2>2, MessageType DEF IInv, Queues, Entry, Token
      <4> QED BY <4>1
    <3>2. Space(g) \in Int
      BY <3>1, DepthAssumption DEF Space
    <3> HIDE DEF g, len, pos
    <3> QED BY <2>3, <2>4, <3>2
  <2>7. rx_msg # NULL => rx_msg \in DOMAIN cur /\ rx_pos <= cur[rx_msg].len
    BY <2>1, <2>3, <2>5, MessageType DEF Safe, AtWork, IInv
  <2> HIDE DEF n, pos, g
  <2> QED BY <2>2, <2>3, <2>4, <2>5, <2>6, <2>7 DEF Safe, AtRest, AtWork, Following, Working, Storing,
     Inside
<1>7. CASE SendArm
  BY <1>7 DEF SendArm, ClrEn, PInv, Safe, AtRest, AtWork, Following, Working, Storing, Inside
<1>8. CASE StartTail
  <2>1. Safe /\ spc # "none" /\ UNCHANGED <<driver, hpc, cur, raced>>
        /\ spc' = "none" /\ cpc' = (IF cpc = "starting" THEN "wait" ELSE cpc)
    BY <1>8 DEF StartTail, Leave, PInv
  <2> QED BY <2>1 DEF Safe, AtRest, AtWork, Following, Working, Storing, Inside
<1>9. CASE Busy
  BY <1>9, <1>a DEF Busy, Unlocked, PInv, Safe, AtRest, AtWork, Following, Working, Storing, Inside, NULL
<1>10. CASE SetNum
  BY <1>10, <1>a DEF SetNum, Unlocked, PInv, Safe, AtRest, AtWork, Following, Working, Storing, Inside, NULL
<1>11. CASE Start
  <2>1. Safe /\ cpc = "start" /\ LockFree /\ UNCHANGED <<tx_msg, rx_msg, nmsgs, cur, raced, hpc>>
    BY <1>11 DEF Start, Enter, PInv
  <2>2. tx_msg = 1 /\ rx_msg = NULL /\ nmsgs = Len(cur)
    BY <2>1 DEF Safe, AtRest
  <2>3. cpc' = "starting" /\ tx_pos' = 0 /\ state' = "START" /\ spc' = "loop"
    BY <1>11, <2>2 DEF Start, Enter, NULL
  <2>4. 1 \in DOMAIN cur /\ cur[1].len \in Nat /\ Len(cur) \in Nat
    <3>1. 1 \in DOMAIN cur /\ Len(cur) \in Nat
      BY <2>1 DEF IInv, Messages
    <3> QED BY <3>1, MessageType DEF IInv
  <2> QED BY <2>1, <2>2, <2>3, <2>4 DEF LockFree, Safe, AtRest, AtWork, Following, Working, Storing,
     Inside, NULL
<1>12. CASE Return
  BY <1>12 DEF Return, PInv, Safe, AtRest, AtWork, Following, Working, Storing, Inside
<1>13. CASE TimeOut
  BY <1>13 DEF TimeOut, PInv, Safe, AtRest, AtWork, Following, Working, Storing, Inside
<1>31. CASE DropTx
  BY <1>31, <1>a DEF DropTx, Unlocked, PInv, Safe, AtRest, AtWork, Following, Working, Storing, Inside,
     IInv, Locked
<1>32. CASE DropRx
  BY <1>32, <1>a DEF DropRx, Unlocked, PInv, Safe, AtRest, AtWork, Following, Working, Storing, Inside
<1>33. CASE DropNum
  BY <1>33, <1>a DEF DropNum, Unlocked, PInv, Safe, AtRest, AtWork, Following, Working, Storing, Inside
<1>14. CASE Isr
  BY <1>14 DEF Isr, PInv, Safe, AtRest, AtWork, Following, Working, Storing, Inside
<1>15. CASE Lock
  <2>1. ~raced /\ ~Storing /\ hpc = "woken" /\ hpc' \in {"error", "rx"} /\ cpc # "starting"
        /\ UNCHANGED <<driver, starter, cpc, cur>>
    BY <1>15, <1>a DEF Lock, LockFree
  <2>2. Safe
    BY <2>1 DEF PInv
  <2> QED BY <2>1, <2>2 DEF Safe, AtRest, AtWork, Following, Working, Storing, Inside
<1>16. CASE ErrorBranch
  BY <1>16 DEF ErrorBranch, Reinit, Wakeup, PInv, Safe, AtRest, AtWork, Following, Working, Storing,
     Inside, IInv, Locked
<1>17. CASE RxBranch
  BY <1>17 DEF RxBranch, PInv, Safe, AtRest, AtWork, Following, Working, Storing, Inside
<1>18. CASE ReadRx
  <2> DEFINE left == cur[rx_msg].len - rx_pos - Len(Received)
  <2>1. Safe /\ Inside /\ hpc = "read" /\ hpc' = "bnb" /\ rx_msg # NULL /\ spc = "none"
    BY <1>18 DEF ReadRx, PInv, Safe, Following, Inside
  <2>2. /\ Working /\ tx_msg \in 1 .. Len(cur) /\ Len(cur) \in Nat /\ cpc # "starting"
        /\ tx_msg + nmsgs = Len(cur) + 1 /\ nmsgs \in Nat /\ state = "START" /\ tx_pos <= cur[tx_msg].len
        /\ rx_msg \in DOMAIN cur
    BY <2>1, InUse, InUseRx DEF IInv, Locked
  <2>3. /\ cur[rx_msg].len \in Nat /\ Len(Received) \in Nat
        /\ Len(Received) <= cur[rx_msg].len - rx_pos
    BY <1>18, TakenType DEF ReadRx
  <2>4. UNCHANGED <<cur, cpc, raced>>
    BY <1>18 DEF ReadRx
  <2>5. rx_msg' = NULL \/ rx_msg' = rx_msg
    BY <1>18 DEF ReadRx
  <2>6. CASE /\ rx_pos' = 0 /\ tx_msg' = tx_msg + 1 /\ nmsgs' = nmsgs - 1 /\ nmsgs > 1
             /\ tx_pos' = 0 /\ spc' = "loop" /\ state' = "START"
    <3>1. tx_msg' \in DOMAIN cur /\ tx_msg' # NULL /\ cur[tx_msg + 1].len \in Nat
      <4>1. tx_msg + 1 \in DOMAIN cur
        BY <2>2, <2>6 DEF IInv, Messages
      <4> QED BY <2>2, <2>6, <4>1, MessageType DEF IInv, NULL
    <3> QED BY <2>1, <2>2, <2>3, <2>4, <2>5, <2>6, <3>1 DEF Safe, AtRest, AtWork, Following, Working,
       Storing, Inside
  <2>7. CASE rx_pos' = rx_pos + Len(Received) /\ UNCHANGED <<tx_msg, nmsgs, tx_pos, state, spc>>
    <3>1. rx_pos' <= cur[rx_msg].len
      BY <2>3, <2>7 DEF IInv, Numbers
    <3>2. tx_msg \in DOMAIN cur /\ tx_msg # NULL
      BY <2>2 DEF IInv, Messages, NULL
    <3> QED BY <2>1, <2>2, <2>4, <2>5, <2>7, <3>1, <3>2 DEF Safe, AtRest, AtWork, Following, Working,
       Storing, Inside
  <2>8. \/ /\ rx_pos' = 0 /\ tx_msg' = tx_msg + 1 /\ nmsgs' = nmsgs - 1 /\ nmsgs > 1
           /\ tx_pos' = 0 /\ spc' = "loop" /\ state' = "START"
        \/ rx_pos' = rx_pos + Len(Received) /\ UNCHANGED <<tx_msg, nmsgs, tx_pos, state, spc>>
    BY <1>18 DEF ReadRx, Enter
  <2> QED BY <2>6, <2>7, <2>8
<1>19. CASE ReadFault
  <2>1. Safe /\ rx_msg # NULL /\ Inside /\ BadRead
    BY <1>19 DEF ReadFault, PInv, Safe, Following, Inside
  <2> QED BY <2>1, InUseRx
<1>20. CASE BnbBranch
  BY <1>20 DEF BnbBranch, PInv, Safe, AtRest, AtWork, Following, Working, Storing, Inside
<1>21. CASE Finish
  <2>1. Safe /\ tx_msg # NULL /\ Inside /\ hpc = "finish"
    BY <1>21 DEF Finish, PInv, Safe, Following, Inside
  <2>2. Working /\ ~Bad(tx_msg) /\ cpc # "starting"
    BY <2>1, InUse DEF IInv, Locked
  <2>3. tx_msg' = NULL /\ rx_msg' = NULL /\ nmsgs' = 0 /\ state' # "START" /\ hpc' = "tx"
        /\ UNCHANGED <<cpc, cur, raced, spc>>
    BY <1>21, <2>2 DEF Finish, Wakeup
  <2>4. spc = "none"
    BY <2>1, <2>2 DEF IInv, Locked
  <2> QED BY <2>2, <2>3, <2>4 DEF Safe, AtRest, AtWork, Following, Working, Storing, Inside
<1>22. CASE TxBranch
  BY <1>22 DEF TxBranch, PInv, Safe, AtRest, AtWork, Following, Working, Storing, Inside
<1>23. CASE Fill
  <2> DEFINE f == Filled(fifo, tx_msg, tx_pos)
  <2>1. Safe /\ tx_msg # NULL /\ Inside /\ hpc = "fill" /\ hpc' = "out"
    BY <1>23 DEF Fill, PInv, Safe, Following, Inside
  <2>2. /\ Working /\ tx_msg \in DOMAIN cur /\ tx_msg \in 1 .. Len(cur) /\ Len(cur) \in Nat
        /\ tx_msg + nmsgs = Len(cur) + 1 /\ nmsgs \in Nat /\ state = "START" /\ tx_pos \in Nat
        /\ tx_pos <= cur[tx_msg].len
    BY <2>1, InUse
  <2>3. cpc # "starting" /\ spc = "none"
    BY <2>1 DEF IInv, Locked
  <2>4. UNCHANGED <<cur, cpc, raced, rx_msg>>
    BY <1>23 DEF Fill
  <2>5. f.pos \in 0 .. cur[tx_msg].len
    BY <2>2, FillFits, MessageType DEF IInv
  <2>6. rx_msg # NULL => rx_msg \in DOMAIN cur /\ rx_pos <= cur[rx_msg].len /\ 0 <= cur[rx_msg].len
    BY <2>1, <2>2, MessageType DEF Safe, AtWork, IInv
  <2>7. CASE /\ tx_msg' = tx_msg + 1 /\ nmsgs' = nmsgs - 1 /\ nmsgs > 1 /\ rx_pos' = 0
             /\ tx_pos' = 0 /\ spc' = "loop" /\ state' = "START"
    <3>1. tx_msg' \in DOMAIN cur /\ tx_msg' # NULL /\ cur[tx_msg + 1].len \in Nat
      <4>1. tx_msg + 1 \in DOMAIN cur
        BY <2>2, <2>7 DEF IInv, Messages
      <4> QED BY <2>2, <2>7, <4>1, MessageType DEF IInv, NULL
    <3> QED BY <2>1, <2>2, <2>3, <2>4, <2>6, <2>7, <3>1 DEF Safe, AtRest, AtWork, Following, Working,
       Storing, Inside
  <2>8. CASE tx_pos' = f.pos /\ UNCHANGED <<tx_msg, nmsgs, rx_pos, state, spc>>
    <3>1. tx_pos' <= cur[tx_msg].len
      BY <2>5, <2>8
    <3> QED BY <2>1, <2>2, <2>3, <2>4, <2>6, <2>8, <3>1 DEF Safe, AtRest, AtWork, Following, Working,
       Storing, Inside
  <2>9. \/ /\ tx_msg' = tx_msg + 1 /\ nmsgs' = nmsgs - 1 /\ nmsgs > 1 /\ rx_pos' = 0
           /\ tx_pos' = 0 /\ spc' = "loop" /\ state' = "START"
        \/ tx_pos' = f.pos /\ UNCHANGED <<tx_msg, nmsgs, rx_pos, state, spc>>
    BY <1>23 DEF Fill, Enter
  <2> QED BY <2>7, <2>8, <2>9
<1>24. CASE FillFault
  <2>1. Safe /\ tx_msg # NULL /\ Inside /\ BadFill
    BY <1>24 DEF FillFault, PInv, Safe, Following, Inside
  <2> QED BY <2>1, InUse DEF BadFill
<1>25. CASE Out
  BY <1>25 DEF Out, PInv, Safe, AtRest, AtWork, Following, Working, Storing, Inside
<1>26. CASE HwSend \/ HwLength \/ HwRead \/ HwStop \/ HwArbLost
  BY <1>26 DEF HwSend, Nack, HwLength, Pop, HwRead, HwStop, HwArbLost, PInv, Safe, AtRest, AtWork,
     Following, Working, Storing, Inside
<1> QED BY <1>0, <1>1, <1>2, <1>3, <1>4, <1>5, <1>6, <1>7, <1>8, <1>9, <1>10, <1>11, <1>12, <1>13,
   <1>31, <1>32, <1>33, <1>14, <1>15, <1>16, <1>17, <1>18, <1>19, <1>20, <1>21, <1>22, <1>23, <1>24,
   <1>25, <1>26 DEF Next, Caller, StartXfer, Handler, Hardware

THEOREM PointersHold == Spec => []PInv
<1>1. Init => PInv
  BY InitPointers
<1>2. IInv /\ Types /\ PInv /\ [Next]_vars => PInv'
  BY PointersNext DEF Types
<1> QED BY <1>1, <1>2, Invariance, PTL DEF Spec

\* NoBadAccess for FIFOs of any depth, any transfers and any lengths, with any
\* timeout, on any number of CPUs and on a bus of any speed: the unlocked stores of
\* i2c-byu.c:695-696 and :705-707 are the only way to a pointer that is gone.
THEOREM NoBadAccessHolds == Spec => []NoBadAccess
<1>1. PInv /\ Types => NoBadAccess
  BY DEF PInv, Safe, Following, NoBadAccess, Types, Places
<1> QED BY <1>1, PointersHold, Invariance, PTL
-----------------------------------------------------------------------------
-----------------------------------------------------------------------------
(***************************************************************************)
(* Then what xiic_xfer promises, for FIFOs of any depth and transfers of   *)
(* any length: success means that the transfer went over the bus and that  *)
(* the buffers hold what was read, failure that the bus failed.            *)
(*                                                                         *)
(* All that holds for callers and handlers on any CPUs, with timeouts, as  *)
(* long as the bus stands still while the driver runs (~FastBus) and in    *)
(* states where the properties say something (Plain).  The argument        *)
(* follows one byte from the message through the TX FIFO to the bus, or    *)
(* from the bus through the RX FIFO to the buffer: what is on the wire and *)
(* what waits in the FIFO, one behind the other, is the transfer up to     *)
(* where the driver is.  Of a transfer that was given up nothing is said,  *)
(* but that the next one begins with a reset.                              *)
(***************************************************************************)

Plain == Undisturbed /\ ReadsLast

\* w is transfer t up to byte n of message m.
Ordered(w) == \A i, j \in DOMAIN w : i < j => Before(w[i], w[j])
Upto(t, w, m, n) ==
  ToSet(w) = {x \in Items(t) : x[2] < m \/ (x[2] = m /\ x[3] <= n)} /\ Ordered(w)
Whole(t, w) == Upto(t, w, Len(t), t[Len(t)].len)

\* The first k entries of a TX FIFO, and what they are in transfer t.
Triples(f, k) == [i \in 1 .. k |-> <<f[i].k, f[i].m, f[i].n>>]
PartOf(t, f, k) ==
  \A i \in 1 .. k :
    /\ f[i].m \in DOMAIN t /\ f[i].n \in 0 .. t[f[i].m].len
    /\ <<f[i].k, f[i].m, f[i].n>> = Item(t, f[i].m, f[i].n)
    /\ f[i].k # "R" => (f[i].stop <=> f[i].m = Len(t) /\ f[i].n = t[Len(t)].len)

\* The first k bytes of message m as they are read; the bytes of the RX FIFO
\* from byte p on; buffers b of transfer t with k bytes of its last message, and
\* with all that it reads.
BytesOf(m, k) == [i \in 1 .. k |-> <<m, i>>]
Run(q, m, p) == \A i \in DOMAIN q : q[i] = <<m, p + i>>
Stored(t, b, k) == DOMAIN b = DOMAIN t /\ \A m \in DOMAIN t : b[m] = BytesOf(m, IF m = Len(t) THEN k ELSE 0)
Filed(t, b) == \A m \in DOMAIN t : b[m] = BytesOf(m, IF t[m].rd THEN t[m].len ELSE 0)

\* A transfer is under way; its next message is still to be begun; its message
\* is a read that was begun; the length of the read waits in the FIFO; the bytes
\* of the read are on their way.
Active == Working /\ tx_msg # NULL
Ahead == spc = "loop" /\ first
Reading == cur[tx_msg].rd /\ spc # "loop"
Asking == Reading /\ spc # "recvlen" /\ fifo # <<>>
Coming == Reading /\ spc # "recvlen" /\ fifo = <<>>

\* How many bytes wait in the FIFO, and the last one that was put there.
Count == IF Asking THEN Len(fifo) - 1 ELSE Len(fifo)
PutMsg == IF Ahead THEN tx_msg - 1 ELSE tx_msg
PutPos == IF Ahead THEN (IF tx_msg = 1 THEN 0 ELSE cur[tx_msg - 1].len)
          ELSE IF Reading THEN (IF Coming THEN rd.got ELSE 0) ELSE tx_pos
LastLen == cur[Len(cur)].len

\* Where __xiic_start_xfer is called, and what its caller has just reset.
Calls ==
  /\ spc # "none" => cpc = "starting" \/ hpc = "out"
  /\ cpc = "starting" => spc # "none" /\ isr = {}

\* What xiic_xfer returned, or is about to.
Results ==
  /\ cpc = "wait" /\ state = "ERROR" => fault
  /\ result = "EIO" => fault /\ cpc = "idle"
  /\ result = "num" => cpc = "idle" /\ cur # <<>>
  /\ result = "num" \/ (cpc = "wait" /\ state = "DONE") =>
       Whole(cur, wire) /\ Filed(cur, buf) /\ fifo = <<>> /\ bus = "idle"

\* The bus failed: the handler has still to see it.
Failed ==
  Active /\ fault =>
    /\ cpc \in {"wait", "droptx"} /\ spc = "none" /\ hpc \in {"off", "woken", "error"}
    /\ bus \in {"nacked", "dead"}
    /\ isr \cap {"ARB", "TXERR"} # {} /\ "RXFULL" \notin isr /\ "TXERR" \in ier
    /\ hpc = "error" => clr = {}

Armed ==
  Active =>
    /\ "ARB" \in ier
    /\ ~(spc \in {"loop", "sendarm"} /\ first) => "TXERR" \in ier
    /\ Reading => "RXFULL" \in ier

\* How far the driver is in the transfer.
Progress ==
  Active =>
    /\ tx_msg \in DOMAIN cur /\ nmsgs = Len(cur) - tx_msg + 1
    /\ Ahead => Space(fifo) >= 2
    /\ spc \in {"sendarm", "tail"} => ~cur[tx_msg].rd
    /\ spc = "loop" /\ ~first => ~cur[tx_msg].rd /\ tx_pos = cur[tx_msg].len
    /\ ~Ahead /\ ~Reading => tx_pos <= cur[tx_msg].len
    /\ spc \in {"recvlen", "recvarm"} =>
         cur[tx_msg].rd /\ msg = [m |-> tx_msg, len |-> cur[tx_msg].len]
    /\ spc = "recvarm" => fifo # <<>>
    /\ Reading => tx_msg = Len(cur)
    /\ Reading /\ spc = "none" => tx_pos = cur[tx_msg].len

\* What is in the FIFO, and how it continues what is on the wire.
Entries ==
  Active /\ ~fault =>
    /\ PartOf(cur, fifo, Count)
    /\ Asking => fifo[Len(fifo)] = Entry("L", Len(cur), LastLen, TRUE)
Sent == Active /\ ~fault => Upto(cur, wire \o Triples(fifo, Count), PutMsg, PutPos)

\* The bus and what it reports.
OnBus ==
  Active /\ ~fault =>
    /\ bus \in {"idle", "tx", "rxlen", "rx", "stopping"}
    /\ "ARB" \notin isr
    /\ bus = "rxlen" => Asking /\ Len(fifo) = 1
    /\ bus = "rx" => Coming /\ rd.got < rd.len
    /\ bus = "stopping" => fifo = <<>> /\ Whole(cur, wire)
    /\ "BNB" \in isr => bus = "idle" /\ fifo = <<>> /\ Whole(cur, wire)
    /\ Coming => /\ rd.m = Len(cur) /\ rd.len = LastLen /\ rd.stop = TRUE /\ rd.got <= rd.len
                 /\ bus \in {"rx", "stopping", "idle"}
                 /\ bus # "rx" => rd.got = rd.len

\* The read: what has arrived is in the RX FIFO or in the buffer.
Level(n) == IF n > Depth THEN Depth - 1 ELSE Minus1(n)
Arrived ==
  Active /\ ~fault =>
    /\ rx_msg # NULL => Reading /\ rx_msg = Len(cur)
    /\ Reading => /\ rx_pos <= LastLen /\ (rx_msg = NULL <=> rx_pos = LastLen)
                  /\ rx_pos + Len(rxq) = PutPos
                  /\ Run(rxq, Len(cur), rx_pos)
    /\ Reading /\ rx_msg # NULL => rfd = Level(LastLen - rx_pos)
    /\ ~Reading => rxq = <<>>
    /\ Stored(cur, buf, IF Reading THEN rx_pos ELSE 0)

\* The interrupts of the read, before and after xiic_read_rx.
ToRead == hpc \in {"off", "woken", "error", "rx", "read"}
Signals ==
  Active /\ ~fault =>
    /\ ToRead => /\ "RXFULL" \in isr => Reading /\ rxq # <<>>
                 /\ "TXERR" \in isr => "RXFULL" \in isr /\ Coming /\ rd.got = rd.len
                 /\ Coming /\ rd.got = rd.len /\ rx_msg # NULL => "RXFULL" \in isr
    /\ ~ToRead => /\ isr \cap {"RXFULL", "TXERR"} \subseteq clr
                  /\ clr \ TxBits \subseteq isr
                  /\ ~Reading => clr \cap {"RXFULL", "TXERR"} = {}
                  /\ Coming /\ rx_msg # NULL => rd.got < rd.len
    /\ hpc # "error"
    /\ hpc = "rx" => clr = {} /\ snap = isr /\ pend = isr \cap ier
    /\ hpc = "read" => clr = {"RXFULL"} /\ snap = isr /\ pend = isr \cap ier
    /\ hpc = "read" => rx_msg # NULL /\ "RXFULL" \in isr
    /\ hpc = "bnb" => pend = isr \cap ier /\ clr \subseteq isr \cap {"RXFULL", "TXERR"}
    /\ hpc = "finish" => "BNB" \in isr
    /\ hpc \in {"bnb", "tx", "fill", "out"} => "BNB" \notin clr
    /\ spc # "none" /\ hpc = "out" => clr \subseteq TxBits

OInv == /\ Calls /\ Results /\ Failed /\ Armed /\ Progress /\ Entries /\ Sent /\ OnBus
        /\ Arrived /\ Signals
-----------------------------------------------------------------------------
(***************************************************************************)
(* Bytes of a transfer in order.                                           *)
(***************************************************************************)
LEMMA ItemPlace ==
  ASSUME NEW t, NEW m, NEW n
  PROVE  Item(t, m, n)[2] = m /\ Item(t, m, n)[3] = n
BY DEF Item

LEMMA ItemIn ==
  ASSUME NEW t, NEW m \in DOMAIN t, NEW n \in 0 .. t[m].len
  PROVE  Item(t, m, n) \in Items(t)
BY DEF Items

LEMMA ItemOf ==
  ASSUME NEW t, NEW x \in Items(t)
  PROVE  /\ x[2] \in DOMAIN t /\ x[3] \in 0 .. t[x[2]].len
         /\ x = Item(t, x[2], x[3])
<1>1. PICK m \in DOMAIN t : \E n \in 0 .. t[m].len : x = Item(t, m, n)
  BY DEF Items
<1>2. PICK n \in 0 .. t[m].len : x = Item(t, m, n)
  BY <1>1
<1>3. x[2] = m /\ x[3] = n
  BY <1>2, ItemPlace
<1> QED BY <1>2, <1>3

LEMMA MessageOf ==
  ASSUME NEW t \in Seq(Message), NEW m \in DOMAIN t
  PROVE  m \in 1 .. Len(t) /\ m \in Nat /\ t[m] \in Message /\ t[m].len \in Nat
<1>1. m \in 1 .. Len(t) /\ m \in Nat
  OBVIOUS
<1>2. t[m] \in Message
  BY <1>1, ElementOfSeq
<1> QED BY <1>1, <1>2 DEF Message

LEMMA InSeq ==
  ASSUME NEW S, NEW w \in Seq(S)
  PROVE  /\ Len(w) \in Nat /\ DOMAIN w = 1 .. Len(w)
         /\ \A x : x \in ToSet(w) <=> \E i \in 1 .. Len(w) : x = w[i]
BY DEF ToSet

\* The same prefix, named by the byte before the next one to come.
LEMMA UptoNext ==
  ASSUME NEW t \in Seq(Message), NEW w, NEW m \in Nat, NEW n \in Nat, Upto(t, w, m, n),
         m = 0 \/ (m \in DOMAIN t /\ n = t[m].len)
  PROVE  Upto(t, w, m + 1, -1)
<1>1. ASSUME NEW x \in Items(t)
      PROVE  (x[2] < m \/ (x[2] = m /\ x[3] <= n)) <=> (x[2] < m + 1 \/ (x[2] = m + 1 /\ x[3] <= -1))
  <2>1. x[2] \in DOMAIN t /\ x[3] \in 0 .. t[x[2]].len
    BY <1>1, ItemOf
  <2>2. DOMAIN t = 1 .. Len(t) /\ Len(t) \in Nat /\ x[2] \in 1 .. Len(t) /\ x[3] \in Int
        /\ x[3] >= 0 /\ x[3] <= t[x[2]].len
    BY <2>1
  <2> QED BY <2>2
<1>2. {x \in Items(t) : x[2] < m \/ (x[2] = m /\ x[3] <= n)}
      = {x \in Items(t) : x[2] < m + 1 \/ (x[2] = m + 1 /\ x[3] <= -1)}
  BY <1>1
<1> QED BY <1>2 DEF Upto

\* The next k bytes of message m behind a prefix.
LEMMA UptoMore ==
  ASSUME NEW t \in Seq(Message), NEW S, NEW w \in Seq(S), NEW s \in Seq(S),
         NEW m \in DOMAIN t, NEW p \in Int, p >= -1, p + Len(s) <= t[m].len,
         \A i \in 1 .. Len(s) : s[i] = Item(t, m, p + i),
         Upto(t, w, m, p)
  PROVE  Upto(t, w \o s, m, p + Len(s))
<1> DEFINE k == Len(s)
           v == w \o s
           Within(x, q) == x[2] < m \/ (x[2] = m /\ x[3] <= q)
<1>1. k \in Nat /\ Len(w) \in Nat /\ m \in Nat /\ t[m].len \in Nat
  <2>1. t[m] \in Message /\ m \in Nat /\ t[m].len \in Nat
    BY MessageOf
  <2> QED BY <2>1
<1>2. v \in Seq(S) /\ Len(v) = Len(w) + k /\ DOMAIN v = 1 .. Len(w) + k
      /\ \A i \in 1 .. Len(w) + k : v[i] = IF i <= Len(w) THEN w[i] ELSE s[i - Len(w)]
  BY ConcatProperties
<1>3. \A i \in 1 .. Len(w) : w[i] \in Items(t) /\ Within(w[i], p)
  BY InSeq DEF Upto
<1>4. \A i \in 1 .. k : /\ s[i] \in Items(t) /\ s[i][2] = m /\ s[i][3] = p + i
                        /\ Within(s[i], p + k)
  <2> TAKE i \in 1 .. k
  <2>1. s[i] = Item(t, m, p + i) /\ p + i \in 0 .. t[m].len
    BY <1>1
  <2>2. s[i][2] = m /\ s[i][3] = p + i /\ s[i] \in Items(t)
    BY <2>1, ItemPlace, ItemIn
  <2> QED BY <1>1, <2>2
<1>5. \A x \in Items(t) : x[2] \in Int /\ x[3] \in Int /\ x = Item(t, x[2], x[3])
  <2> TAKE x \in Items(t)
  <2>1. x[2] \in DOMAIN t /\ x[3] \in 0 .. t[x[2]].len /\ x = Item(t, x[2], x[3])
    BY ItemOf
  <2> QED BY <2>1
<1>6. \A x \in Items(t) : Within(x, p + k) <=>
        Within(x, p) \/ (x[2] = m /\ \E i \in 1 .. k : x[3] = p + i)
  <2> TAKE x \in Items(t)
  <2>1. x[2] \in Int /\ x[3] \in Int
    BY <1>5
  <2>2. ASSUME x[2] = m, x[3] <= p + k, ~(x[3] <= p) PROVE \E i \in 1 .. k : x[3] = p + i
    <3> DEFINE y == x[3]
    <3>1. y \in Int /\ y <= p + k /\ ~(y <= p)
      BY <2>1, <2>2
    <3> HIDE DEF k, y
    <3>2. y - p \in 1 .. k /\ y = p + (y - p)
      BY <1>1, <3>1
    <3>3. \E i \in 1 .. k : y = p + i
      BY <3>2
    <3> QED BY <3>3 DEF y
  <2> QED BY <1>1, <2>1, <2>2
<1>7. ToSet(v) = {x \in Items(t) : Within(x, p + k)}
  <2>1. ASSUME NEW x \in ToSet(v) PROVE x \in Items(t) /\ Within(x, p + k)
    <3>1. PICK i \in 1 .. Len(w) + k : x = v[i]
      BY <1>2, <2>1 DEF ToSet
    <3>2. CASE i <= Len(w)
      BY <1>1, <1>2, <1>3, <1>6, <3>1, <3>2
    <3>3. CASE i > Len(w)
      <4>1. i - Len(w) \in 1 .. k /\ x = s[i - Len(w)]
        BY <1>1, <1>2, <3>1, <3>3
      <4> QED BY <1>4, <4>1
    <3> QED BY <1>1, <3>2, <3>3
  <2>2. ASSUME NEW x \in Items(t), Within(x, p + k) PROVE x \in ToSet(v)
    <3>1. CASE Within(x, p)
      <4>1. x \in ToSet(w)
        BY <2>2, <3>1 DEF Upto
      <4>2. PICK i \in 1 .. Len(w) : x = w[i]
        BY <4>1, InSeq
      <4>3. i \in DOMAIN v /\ v[i] = x
        BY <1>1, <1>2, <4>2
      <4> QED BY <4>3 DEF ToSet
    <3>2. CASE x[2] = m /\ \E i \in 1 .. k : x[3] = p + i
      <4>1. PICK i \in 1 .. k : x[3] = p + i
        BY <3>2
      <4>2. x = s[i]
        BY <1>5, <2>2, <3>2, <4>1
      <4>3. Len(w) + i \in DOMAIN v /\ v[Len(w) + i] = x
        BY <1>1, <1>2, <4>1, <4>2
      <4> QED BY <4>3 DEF ToSet
    <3> QED BY <1>6, <2>2, <3>1, <3>2
  <2> HIDE DEF Within, v
  <2> QED BY <2>1, <2>2
<1>8. Ordered(v)
  <2> SUFFICES ASSUME NEW i \in 1 .. Len(w) + k, NEW j \in 1 .. Len(w) + k, i < j
               PROVE  Before(v[i], v[j])
    BY <1>2 DEF Ordered
  <2>1. CASE j <= Len(w)
    BY <1>1, <1>2, <2>1 DEF Upto, Ordered
  <2>2. CASE i <= Len(w) /\ j > Len(w)
    <3>1. v[i] = w[i] /\ w[i] \in Items(t) /\ Within(w[i], p)
      BY <1>1, <1>2, <1>3, <2>2
    <3>2. v[j] = s[j - Len(w)] /\ j - Len(w) \in 1 .. k
      BY <1>1, <1>2, <2>2
    <3>3. v[j][2] = m /\ v[j][3] > p
      BY SMTT(40), <1>1, <1>4, <3>2
    <3>4. v[i][2] \in Int /\ v[i][3] \in Int /\ v[j][3] \in Int
      BY <1>1, <1>4, <1>5, <3>1, <3>2
    <3>5. v[i][2] < m \/ (v[i][2] = m /\ v[i][3] <= p)
      BY <3>1
    <3> HIDE DEF v
    <3> QED BY <1>1, <3>3, <3>4, <3>5 DEF Before
  <2>3. CASE i > Len(w)
    <3>1. v[i] = s[i - Len(w)] /\ i - Len(w) \in 1 .. k
      BY <1>1, <1>2, <2>3
    <3>2. v[j] = s[j - Len(w)] /\ j - Len(w) \in 1 .. k
      BY <1>1, <1>2, <2>3
    <3>3. v[i][2] = m /\ v[i][3] = p + (i - Len(w)) /\ v[j][2] = m /\ v[j][3] = p + (j - Len(w))
      BY <1>4, <3>1, <3>2
    <3> HIDE DEF v
    <3> QED BY <1>1, <3>3 DEF Before
  <2> QED BY <1>1, <2>1, <2>2, <2>3
<1> QED BY <1>7, <1>8 DEF Upto

\* Nothing comes behind the last byte of a prefix.
LEMMA UptoLast ==
  ASSUME NEW t \in Seq(Message), NEW S, NEW w \in Seq(S), NEW s \in Seq(S),
         NEW m \in Nat, NEW n \in Nat, Upto(t, w \o s, m, n), s # <<>>,
         s[1][2] \in Nat, s[1][3] \in Nat,
         \A x \in Items(t) : (x[2] < m \/ (x[2] = m /\ x[3] <= n)) => ~Before(s[1], x)
  PROVE  Len(s) = 1
<1>1. Len(w) \in Nat /\ Len(s) \in Nat /\ Len(s) >= 1
  BY EmptySeq
<1> SUFFICES ASSUME Len(s) # 1 PROVE FALSE
  OBVIOUS
<1>0. Len(s) > 1
  <2> DEFINE l == Len(s)
  <2>1. l \in Nat /\ l >= 1 /\ l # 1
    BY <1>1
  <2> HIDE DEF l
  <2>2. l > 1
    BY <2>1
  <2> QED BY <2>2 DEF l
<1>2. (w \o s)[Len(w) + 1] = s[1] /\ (w \o s)[Len(w) + 2] = s[2]
      /\ DOMAIN (w \o s) = 1 .. Len(w) + Len(s)
  BY <1>0, <1>1, ConcatProperties
<1> DEFINE v == w \o s
<1>3. v[Len(w) + 1] = s[1] /\ v[Len(w) + 2] = s[2] /\ DOMAIN v = 1 .. Len(w) + Len(s) /\ Upto(t, v, m, n)
  BY <1>2
<1> HIDE DEF v
<1>4. Before(s[1], s[2])
  <2>1. Len(w) + 1 \in DOMAIN v /\ Len(w) + 2 \in DOMAIN v /\ Len(w) + 1 < Len(w) + 2
    BY <1>0, <1>1, <1>3
  <2> QED BY <1>3, <2>1 DEF Upto, Ordered
<1>5. s[2] \in ToSet(v)
  <2>1. Len(w) + 2 \in DOMAIN v
    BY <1>0, <1>1, <1>3
  <2> QED BY <1>3, <2>1 DEF ToSet
<1> QED BY <1>3, <1>4, <1>5 DEF Upto

\* A prefix that has the last byte of the transfer is the transfer.
LEMMA WholeIfLast ==
  ASSUME NEW t \in Seq(Message), t # <<>>, NEW w, NEW m \in Nat, NEW n \in Int, Upto(t, w, m, n),
         Item(t, Len(t), t[Len(t)].len) \in ToSet(w)
  PROVE  Whole(t, w)
<1>1. Len(t) \in Nat /\ DOMAIN t = 1 .. Len(t) /\ Len(t) \in DOMAIN t
  BY EmptySeq
<1>2. t[Len(t)].len \in Nat
  BY <1>1, MessageOf
<1> DEFINE last == Item(t, Len(t), t[Len(t)].len)
<1>3. last[2] = Len(t) /\ last[3] = t[Len(t)].len
  BY ItemPlace
<1>4. last[2] < m \/ (last[2] = m /\ last[3] <= n)
  BY DEF Upto
<1>5. ASSUME NEW x \in Items(t)
      PROVE  (x[2] < m \/ (x[2] = m /\ x[3] <= n))
             <=> (x[2] < Len(t) \/ (x[2] = Len(t) /\ x[3] <= t[Len(t)].len))
  <2>1. x[2] \in DOMAIN t /\ x[3] \in 0 .. t[x[2]].len
    BY <1>5, ItemOf
  <2>2. x[2] \in 1 .. Len(t) /\ x[3] \in Int /\ (x[2] = Len(t) => x[3] <= t[Len(t)].len)
    BY <1>1, <1>2, <2>1
  <2>3. Len(t) < m \/ (Len(t) = m /\ t[Len(t)].len <= n)
    BY <1>3, <1>4
  <2>4. x[2] < Len(t) \/ (x[2] = Len(t) /\ x[3] <= t[Len(t)].len)
    BY <1>1, <2>2
  <2>5. x[2] < m \/ (x[2] = m /\ x[3] <= n)
    <3> DEFINE a == x[2]
               b == x[3]
               l == Len(t)
               z == t[Len(t)].len
    <3>1. a \in 1 .. l /\ b \in Int /\ (a = l => b <= z) /\ l \in Nat /\ z \in Nat
          /\ (l < m \/ (l = m /\ z <= n))
      BY <1>1, <1>2, <2>2, <2>3
    <3> HIDE DEF a, b, l, z
    <3>2. a < m \/ (a = m /\ b <= n)
      BY <3>1
    <3> QED BY <3>2 DEF a, b
  <2> QED BY <2>4, <2>5
<1>6. {x \in Items(t) : x[2] < m \/ (x[2] = m /\ x[3] <= n)}
      = {x \in Items(t) : x[2] < Len(t) \/ (x[2] = Len(t) /\ x[3] <= t[Len(t)].len)}
  BY <1>5
<1> QED BY <1>6 DEF Upto, Whole

\* The transfer as a prefix ends with its last byte.
LEMMA LastIfWhole ==
  ASSUME NEW t \in Seq(Message), t # <<>>, NEW w, NEW m \in Nat, NEW n \in Int, Upto(t, w, m, n),
         Whole(t, w)
  PROVE  Len(t) < m \/ (Len(t) = m /\ t[Len(t)].len <= n)
<1>1. Len(t) \in Nat /\ Len(t) \in DOMAIN t
  BY EmptySeq
<1>2. t[Len(t)].len \in Nat
  BY <1>1, MessageOf
<1> DEFINE last == Item(t, Len(t), t[Len(t)].len)
<1>3. last[2] = Len(t) /\ last[3] = t[Len(t)].len
  BY ItemPlace
<1>4. last \in Items(t)
  BY <1>1, <1>2, ItemIn
<1>5. last \in ToSet(w)
  BY <1>1, <1>2, <1>3, <1>4 DEF Whole, Upto
<1> HIDE DEF last
<1> QED BY <1>3, <1>5 DEF Upto

LEMMA WholeMeans ==
  ASSUME NEW t \in Seq(Message), t # <<>>, NEW w, Whole(t, w)
  PROVE  ToSet(w) = Items(t) /\ Ordered(w)
<1>1. ASSUME NEW x \in Items(t) PROVE x[2] < Len(t) \/ (x[2] = Len(t) /\ x[3] <= t[Len(t)].len)
  <2>1. x[2] \in DOMAIN t /\ x[3] \in 0 .. t[x[2]].len
    BY <1>1, ItemOf
  <2>2. t[x[2]].len \in Nat /\ x[2] \in 1 .. Len(t)
    BY <2>1, MessageOf
  <2> QED BY <2>1, <2>2
<1> QED BY <1>1 DEF Whole, Upto

(***************************************************************************)
(* The TX FIFO behind the wire.                                            *)
(***************************************************************************)
Link == {"W", "R", "D", "B", "L", "?"} \X Nat \X Nat

LEMMA TriplesType ==
  ASSUME NEW f \in Seq(Token), NEW k \in 0 .. Len(f)
  PROVE  /\ Triples(f, k) \in Seq(Link) /\ Len(Triples(f, k)) = k
         /\ \A i \in 1 .. k : Triples(f, k)[i] = <<f[i].k, f[i].m, f[i].n>>
<1>1. \A i \in 1 .. k : <<f[i].k, f[i].m, f[i].n>> \in Link
  <2> TAKE i \in 1 .. k
  <2>1. f[i] \in Token
    BY ElementOfSeq
  <2> QED BY <2>1 DEF Token, Link
<1>2. k \in Nat
  OBVIOUS
<1>3. Triples(f, k) \in [1 .. k -> Link]
  BY <1>1 DEF Triples
<1>4. Triples(f, k) \in Seq(Link) /\ Len(Triples(f, k)) = k
  BY <1>2, <1>3, IsASeq
<1> QED BY <1>4 DEF Triples

LEMMA Chained ==
  ASSUME NEW S, NEW a \in Seq(S), NEW b \in Seq(S)
  PROVE  /\ a \o b \in Seq(S) /\ Len(a \o b) = Len(a) + Len(b)
         /\ \A i \in 1 .. Len(a) + Len(b) : (a \o b)[i] = IF i <= Len(a) THEN a[i] ELSE b[i - Len(a)]
         /\ \A w \in Seq(S) : (w \o a) \o b = w \o (a \o b)
BY ConcatProperties, ConcatAssociative

\* What is added to the FIFO comes behind what waits there.
LEMMA TriplesMore ==
  ASSUME NEW w \in Seq(Link), NEW f \in Seq(Token), NEW u \in Seq(Token)
  PROVE  w \o Triples(f \o u, Len(f \o u)) = (w \o Triples(f, Len(f))) \o Triples(u, Len(u))
<1>1. Len(w) \in Nat /\ Len(f) \in Nat /\ Len(u) \in Nat /\ Len(f \o u) = Len(f) + Len(u)
      /\ f \o u \in Seq(Token)
  BY ConcatProperties
<1> DEFINE a == Triples(f, Len(f))
           b == Triples(u, Len(u))
           c == Triples(f \o u, Len(f \o u))
<1>2. a \in Seq(Link) /\ Len(a) = Len(f) /\ \A i \in 1 .. Len(f) : a[i] = <<f[i].k, f[i].m, f[i].n>>
  BY SMTT(40), <1>1, TriplesType
<1>3. b \in Seq(Link) /\ Len(b) = Len(u) /\ \A i \in 1 .. Len(u) : b[i] = <<u[i].k, u[i].m, u[i].n>>
  BY SMTT(40), <1>1, TriplesType
<1>4. c \in Seq(Link) /\ Len(c) = Len(f) + Len(u)
      /\ \A i \in 1 .. Len(f) + Len(u) :
           c[i] = <<(f \o u)[i].k, (f \o u)[i].m, (f \o u)[i].n>>
  <2> DEFINE g == f \o u
  <2>1. g \in Seq(Token) /\ Len(g) \in 0 .. Len(g) /\ Len(g) = Len(f) + Len(u)
    BY <1>1
  <2> HIDE DEF g
  <2>2. Triples(g, Len(g)) \in Seq(Link) /\ Len(Triples(g, Len(g))) = Len(g)
        /\ \A i \in 1 .. Len(g) : Triples(g, Len(g))[i] = <<g[i].k, g[i].m, g[i].n>>
    BY <2>1, TriplesType
  <2> QED BY <2>1, <2>2 DEF g
<1>5. \A i \in 1 .. Len(f) + Len(u) : (f \o u)[i] = IF i <= Len(f) THEN f[i] ELSE u[i - Len(f)]
  BY <1>1, ConcatProperties
<1> HIDE DEF a, b, c
<1>6. a \o b \in Seq(Link) /\ Len(a \o b) = Len(f) + Len(u)
      /\ \A i \in 1 .. Len(f) + Len(u) : (a \o b)[i] = IF i <= Len(f) THEN a[i] ELSE b[i - Len(f)]
  <2> DEFINE d == a \o b
  <2>1. d \in Seq(Link) /\ Len(d) = Len(a) + Len(b)
        /\ \A i \in 1 .. Len(a) + Len(b) : d[i] = IF i <= Len(a) THEN a[i] ELSE b[i - Len(a)]
    <3>1. a \in Seq(Link) /\ b \in Seq(Link)
      BY <1>2, <1>3
    <3> QED BY <3>1, Chained
  <2> HIDE DEF d
  <2>2. d \in Seq(Link) /\ Len(d) = Len(f) + Len(u)
        /\ \A i \in 1 .. Len(f) + Len(u) : d[i] = IF i <= Len(f) THEN a[i] ELSE b[i - Len(f)]
    BY <1>2, <1>3, <2>1
  <2> QED BY <2>2 DEF d
<1>7. \A i \in 1 .. Len(f) + Len(u) : (a \o b)[i] = c[i]
  <2> TAKE i \in 1 .. Len(f) + Len(u)
  <2>1. ASSUME i <= Len(f) PROVE (a \o b)[i] = c[i]
    <3>1. i \in 1 .. Len(f) /\ (a \o b)[i] = a[i] /\ (f \o u)[i] = f[i]
      BY <1>1, <1>5, <1>6, <2>1
    <3> QED BY <1>2, <1>4, <3>1
  <2>2. ASSUME i > Len(f) PROVE (a \o b)[i] = c[i]
    <3>1. i - Len(f) \in 1 .. Len(u) /\ (a \o b)[i] = b[i - Len(f)] /\ (f \o u)[i] = u[i - Len(f)]
      BY <1>1, <1>5, <1>6, <2>2
    <3> QED BY <1>3, <1>4, <3>1
  <2>3. i \in Nat /\ (i <= Len(f) \/ i > Len(f))
    BY <1>1
  <2> QED BY <2>1, <2>2, <2>3
<1>8. c = a \o b
  BY <1>1, <1>4, <1>6, <1>7, SeqEqual
<1>9. w \o (a \o b) = (w \o a) \o b
  <2>1. a \in Seq(Link) /\ b \in Seq(Link)
    BY <1>2, <1>3
  <2>2. (w \o a) \o b = w \o (a \o b)
    BY <2>1, Chained
  <2> QED BY <2>2, Zenon
<1> QED BY <1>8, <1>9 DEF a, b, c

\* What leaves the FIFO for the wire stays in its place.
LEMMA TriplesMove ==
  ASSUME NEW w \in Seq(Link), NEW f \in Seq(Token), NEW k \in 1 .. Len(f)
  PROVE  Append(w, <<Head(f).k, Head(f).m, Head(f).n>>) \o Triples(Tail(f), k - 1) = w \o Triples(f, k)
<1> DEFINE a == Triples(f, k)
           b == Triples(Tail(f), k - 1)
           e == <<Head(f).k, Head(f).m, Head(f).n>>
<1>1. f # <<>> /\ Len(f) \in Nat /\ k \in Nat /\ k - 1 \in 0 .. Len(f) - 1
  OBVIOUS
<1>2. Head(f) = f[1] /\ Tail(f) \in Seq(Token) /\ Len(Tail(f)) = Len(f) - 1
      /\ \A i \in 1 .. Len(f) - 1 : Tail(f)[i] = f[i + 1]
  BY <1>1, HeadTailProperties
<1>3. a \in Seq(Link) /\ Len(a) = k /\ \A i \in 1 .. k : a[i] = <<f[i].k, f[i].m, f[i].n>>
  BY <1>1, TriplesType
<1>4. b \in Seq(Link) /\ Len(b) = k - 1
      /\ \A i \in 1 .. k - 1 : b[i] = <<Tail(f)[i].k, Tail(f)[i].m, Tail(f)[i].n>>
  BY <1>1, <1>2, TriplesType
<1>5. e = a[1] /\ e \in Link
  <2>1. e = a[1]
    BY <1>1, <1>2, <1>3
  <2>2. a[1] \in Link
    BY <1>1, <1>3, ElementOfSeq
  <2> QED BY <2>1, <2>2
<1>6. \A i \in 1 .. k - 1 : b[i] = a[i + 1]
  <2> TAKE i \in 1 .. k - 1
  <2>1. i \in 1 .. Len(f) - 1 /\ i + 1 \in 1 .. k
    BY <1>1
  <2> QED BY <1>2, <1>3, <1>4, <2>1
<1> HIDE DEF a, b, e
<1>7. Append(w, e) \in Seq(Link) /\ Len(Append(w, e)) = Len(w) + 1
      /\ \A i \in 1 .. Len(w) + 1 : Append(w, e)[i] = IF i <= Len(w) THEN w[i] ELSE e
  BY <1>5, AppendProperties
<1>8. Append(w, e) \o b \in Seq(Link) /\ Len(Append(w, e) \o b) = Len(w) + k
      /\ \A i \in 1 .. Len(w) + k :
           (Append(w, e) \o b)[i] = IF i <= Len(w) + 1 THEN Append(w, e)[i] ELSE b[i - (Len(w) + 1)]
  <2> DEFINE g == Append(w, e)
             d == g \o b
  <2>1. g \in Seq(Link) /\ Len(g) = Len(w) + 1
    BY <1>7
  <2>2. d \in Seq(Link) /\ Len(d) = Len(g) + Len(b)
        /\ \A i \in 1 .. Len(g) + Len(b) : d[i] = IF i <= Len(g) THEN g[i] ELSE b[i - Len(g)]
    <3> HIDE DEF g
    <3> QED BY <1>4, <2>1, ConcatProperties
  <2>3. Len(g) + Len(b) = Len(w) + k
    BY <1>1, <1>4, <2>1
  <2> HIDE DEF g, d
  <2>4. d \in Seq(Link) /\ Len(d) = Len(w) + k
        /\ \A i \in 1 .. Len(w) + k : d[i] = IF i <= Len(w) + 1 THEN g[i] ELSE b[i - (Len(w) + 1)]
    BY <2>1, <2>2, <2>3
  <2> QED BY <2>4 DEF g, d
<1>9. w \o a \in Seq(Link) /\ Len(w \o a) = Len(w) + k
      /\ \A i \in 1 .. Len(w) + k : (w \o a)[i] = IF i <= Len(w) THEN w[i] ELSE a[i - Len(w)]
  BY <1>3, ConcatProperties
<1>10. \A i \in 1 .. Len(w) + k : (Append(w, e) \o b)[i] = (w \o a)[i]
  <2> TAKE i \in 1 .. Len(w) + k
  <2>0. Len(w) \in Nat
    OBVIOUS
  <2>1. CASE i <= Len(w)
    BY <1>7, <1>8, <1>9, <2>0, <2>1
  <2>2. CASE i = Len(w) + 1
    BY <1>5, <1>7, <1>8, <1>9, <2>0, <2>2
  <2>3. CASE i > Len(w) + 1
    <3>1. i - (Len(w) + 1) \in 1 .. k - 1 /\ i - (Len(w) + 1) + 1 = i - Len(w)
      BY <1>1, <2>0, <2>3
    <3>2. (Append(w, e) \o b)[i] = b[i - (Len(w) + 1)] /\ (w \o a)[i] = a[i - Len(w)]
      BY <1>8, <1>9, <2>0, <2>3
    <3> QED BY <1>6, <3>1, <3>2
  <2>4. i \in Nat /\ (i <= Len(w) \/ i = Len(w) + 1 \/ i > Len(w) + 1)
    BY <2>0
  <2> QED BY <2>1, <2>2, <2>3, <2>4
<1>11. Append(w, e) \o b = w \o a
  BY <1>8, <1>9, <1>10, SeqEqual
<1> QED BY <1>11 DEF a, b, e
LEMMA UptoNone ==
  ASSUME NEW t \in Seq(Message)
  PROVE  Upto(t, <<>> \o Triples(<<>>, 0), 0, 0)
<1>1. <<>> \in Seq(Token) /\ Len(<<>>) = 0
  OBVIOUS
<1>2. Triples(<<>>, 0) = <<>>
  BY DEF Triples
<1>3. <<>> \o Triples(<<>>, 0) = <<>>
  BY <1>2
<1>4. {x \in Items(t) : x[2] < 0 \/ (x[2] = 0 /\ x[3] <= 0)} = {}
  <2>1. ASSUME NEW x \in Items(t) PROVE ~(x[2] < 0 \/ (x[2] = 0 /\ x[3] <= 0))
    <3>1. x[2] \in 1 .. Len(t) /\ x[2] \in Nat
      BY ItemOf, MessageOf
    <3> QED BY <3>1
  <2> QED BY <2>1
<1>5. ToSet(<<>>) = {} /\ Ordered(<<>>)
  BY DEF ToSet, Ordered
<1> QED BY <1>3, <1>4, <1>5 DEF Upto
-----------------------------------------------------------------------------
(***************************************************************************)
(* What every step may rely on.                                            *)
(***************************************************************************)
LEMMA Current ==
  ASSUME IInv, Plain
  PROVE  /\ cur \in Seq(Message) /\ Len(cur) \in Nat /\ DOMAIN cur = 1 .. Len(cur)
         /\ \A i \in 1 .. Len(cur) :
              /\ cur[i].len \in Nat /\ cur[i].rd \in BOOLEAN
              /\ cur[i].rd => cur[i].len > 0 /\ cur[i].len < Byte /\ i = Len(cur)
<1>1. cur \in Seq(Message) /\ Len(cur) \in Nat /\ DOMAIN cur = 1 .. Len(cur)
  BY DEF IInv, Messages
<1> SUFFICES ASSUME NEW i \in 1 .. Len(cur)
             PROVE  /\ cur[i].len \in Nat /\ cur[i].rd \in BOOLEAN
                    /\ cur[i].rd => cur[i].len > 0 /\ cur[i].len < Byte /\ i = Len(cur)
  BY <1>1
<1>2. cur[i] \in Message
  BY <1>1, ElementOfSeq
<1>3. cur[i].rd => cur[i].len \in 1 .. Byte - 1 /\ i = Len(cur)
  BY <1>1 DEF Plain, Undisturbed, ReadsLast
<1> QED BY <1>2, <1>3, DepthAssumption DEF Message

\* A transfer that is under way is at one of its messages; while it is being
\* started the bus has not failed.
LEMMA UnderWay ==
  ASSUME IInv, Safe, OInv, Plain, Active
  PROVE  /\ tx_msg \in 1 .. Len(cur) /\ tx_msg \in Nat /\ cur # <<>>
         /\ LastLen \in Nat /\ Len(cur) \in DOMAIN cur
         /\ cur[tx_msg].len \in Nat /\ cur[tx_msg].rd \in BOOLEAN
         /\ cur[tx_msg].rd => cur[tx_msg].len > 0 /\ tx_msg = Len(cur)
         /\ nmsgs = Len(cur) - tx_msg + 1 /\ state = "START"
         /\ spc # "none" => ~fault
         /\ hpc \notin {"off", "woken", "error"} => ~fault
         /\ result \notin {"num", "EIO"}
<1>1. tx_msg \in 1 .. Len(cur) /\ state = "START"
  BY Current DEF Safe, AtWork, Active
<1>2. cur # <<>>
  BY <1>1
<1>3. Len(cur) \in 1 .. Len(cur)
  <2> DEFINE l == Len(cur)
  <2>1. l \in Nat /\ tx_msg \in 1 .. l
    BY <1>1, Current
  <2> HIDE DEF l
  <2>2. l \in 1 .. l
    BY <2>1
  <2> QED BY <2>2 DEF l
<1>4. LastLen \in Nat /\ cur[tx_msg].len \in Nat /\ cur[tx_msg].rd \in BOOLEAN
      /\ (cur[tx_msg].rd => cur[tx_msg].len > 0 /\ tx_msg = Len(cur))
  BY <1>1, <1>3, Current DEF LastLen
<1>5. nmsgs = Len(cur) - tx_msg + 1 /\ tx_msg \in Nat
  BY <1>1 DEF OInv, Progress
<1>6. (spc # "none" => ~fault) /\ (hpc \notin {"off", "woken", "error"} => ~fault)
  BY DEF OInv, Failed
<1>7. Len(cur) \in DOMAIN cur
  BY <1>3, Current
<1>8. result \notin {"num", "EIO"}
  BY DEF OInv, Results, Active, Working
<1> QED BY <1>1, <1>2, <1>4, <1>5, <1>6, <1>7, <1>8

\* The bus stands still while the driver runs.
LEMMA Standing ==
  ASSUME IInv, Safe, OInv, ~FastBus, Moves
  PROVE  spc = "none" /\ cpc # "starting" /\ hpc \in {"off", "woken"}
BY DEF Moves, LockFree, OInv, Calls

\* Where the handler runs for a transfer.
LEMMA Handling ==
  ASSUME IInv, Safe, OInv, Plain, Active, Inside
  PROVE  /\ cpc \in {"wait", "droptx"} /\ state = "START" /\ result \notin {"num", "EIO"}
         /\ hpc # "out" => spc = "none"
         /\ hpc # "error" => ~fault
<1>1. hpc \notin {"off", "woken", "oops"}
  BY DEF Inside, Safe, Following
<1>2. cpc # "starting"
  BY <1>1 DEF IInv, Locked
<1>3. hpc # "out" => spc = "none"
  BY <1>2 DEF OInv, Calls
<1> QED BY <1>1, <1>2, <1>3, UnderWay DEF Active, Working

\* Where no transfer is under way, most of the invariant says nothing.
LEMMA Aside ==
  ASSUME Safe, ~Active, Results
  PROVE  OInv
<1>1. Calls
  BY DEF Calls, Safe, Following, Active, Working
<1>2. Failed /\ Armed /\ Progress /\ Entries /\ Sent /\ OnBus /\ Arrived /\ Signals
  BY DEF Failed, Armed, Progress, Entries, Sent, OnBus, Arrived, Signals
<1> QED BY <1>1, <1>2 DEF OInv

LEMMA Aside1 ==
  ASSUME Safe', ~Active', Results'
  PROVE  OInv'
<1>1. Calls'
  BY DEF Calls, Safe, Following, Active, Working
<1>2. Failed' /\ Armed' /\ Progress' /\ Entries' /\ Sent' /\ OnBus' /\ Arrived' /\ Signals'
  BY DEF Failed, Armed, Progress, Entries, Sent, OnBus, Arrived, Signals
<1> QED BY <1>1, <1>2 DEF OInv

LEMMA InitOrder == Init => OInv
<1> SUFFICES ASSUME Init PROVE OInv
  OBVIOUS
<1>1. Safe
  BY InitPointers DEF Init, PInv
<1>2. ~Active /\ Results
  BY DEF Init, Active, Working, Results
<1> QED BY <1>1, <1>2, Aside
-----------------------------------------------------------------------------
(***************************************************************************)
(* The caller, and what handler and bus do when no transfer is under way.  *)
(***************************************************************************)
LEMMA CallOrder ==
  ASSUME Safe', NEW t \in Transfers, Call(t)
  PROVE  OInv'
<1>1. ~Active' /\ Results'
  BY DEF Call, Active, Working, Results
<1> QED BY <1>1, Aside1

LEMMA CallerOrder ==
  ASSUME IInv, Safe, OInv, Safe', Busy \/ SetNum \/ Return \/ DropTx \/ DropRx \/ DropNum
  PROVE  OInv'
<1> USE DEF driver, caller, handler, starter, line, history
<1>1. ~Active'
  <2>1. cpc' \in {"idle", "setnum", "start", "droprx", "dropnum"}
    BY DEF Busy, SetNum, Return, DropTx, DropRx, DropNum, Unlocked
  <2> QED BY <2>1 DEF Active, Working
<1>2. CASE Busy
  BY <1>2, <1>1, Aside1 DEF Busy, Unlocked, OInv, Results
<1>3. CASE SetNum
  BY <1>3, <1>1, Aside1 DEF SetNum, Unlocked, OInv, Results
<1>4. CASE Return
  <2>1. cur # <<>>
    BY <1>4 DEF Return, IInv, Messages
  <2> QED BY <1>4, <2>1, <1>1, Aside1 DEF Return, OInv, Results
<1>5. CASE DropTx
  BY <1>5, <1>1, Aside1 DEF DropTx, Unlocked, OInv, Results
<1>6. CASE DropRx
  BY <1>6, <1>1, Aside1 DEF DropRx, Unlocked, OInv, Results
<1>7. CASE DropNum
  BY <1>7, <1>1, Aside1 DEF DropNum, Unlocked, OInv, Results
<1> QED BY <1>2, <1>3, <1>4, <1>5, <1>6, <1>7

LEMMA AtRestOnly ==
  ASSUME IInv, Safe, ~Active
  PROVE  Working => tx_msg = NULL /\ rx_msg = NULL /\ nmsgs = 0 /\ state # "START"
<1>1. tx_msg \in DOMAIN cur => tx_msg # NULL
  BY MessageType DEF IInv
<1> QED BY <1>1 DEF Safe, AtWork, Active

LEMMA RestOrder ==
  ASSUME IInv, Types, Safe, OInv, Safe', ~Active, ~FastBus,
         Isr \/ Handler \/ Hardware \/ HwArbLost \/ TimeOut \/ StartXfer
  PROVE  OInv'
<1> USE DEF driver, caller, handler, starter, line, history
<1>0. ~StartXfer
  <2>1. spc = "none"
    BY DEF Active, Safe, Following
  <2> QED BY <2>1 DEF StartXfer, StartFault, StartRecv, RecvLength, RecvArm, StartSend, SendArm, StartTail
<1>1. CASE Isr \/ Lock \/ RxBranch \/ BnbBranch \/ TxBranch \/ Out
  <2>1. UNCHANGED <<tx_msg, cpc, cur, result, state, wire, buf, fault, fifo, bus>>
    BY <1>1 DEF Isr, Lock, RxBranch, BnbBranch, TxBranch, Out
  <2>2. ~Active'
    BY <2>1 DEF Active, Working
  <2>3. Results'
    BY <2>1 DEF OInv, Results
  <2> QED BY <2>2, <2>3, Aside1
<1>2. CASE ErrorBranch
  <2>1. UNCHANGED <<cpc, cur, result, wire, buf, fault>> /\ fifo' = <<>> /\ bus' = "idle"
    BY <1>2 DEF ErrorBranch, Reinit
  <2>2. cpc = "wait" => state' = state
    BY <1>2, AtRestOnly DEF ErrorBranch, Working
  <2>3. ~Active'
    BY <1>2, <2>1 DEF ErrorBranch, Wakeup, Active, Working
  <2>4. Results'
    BY <2>1, <2>2 DEF OInv, Results
  <2> QED BY <2>3, <2>4, Aside1
<1>3. CASE ReadRx \/ ReadFault \/ Finish \/ Fill \/ FillFault
  <2>1. hpc \in {"read", "finish", "fill"}
    BY <1>3 DEF ReadRx, ReadFault, Finish, Fill, FillFault
  <2>2. tx_msg # NULL \/ rx_msg # NULL
    BY <2>1 DEF Safe, Following
  <2>3. cpc \notin {"idle", "busy", "setnum", "start", "droprx", "dropnum"}
    BY <2>1, <2>2 DEF Safe, AtRest, Storing, Inside
  <2>4. Working
    BY <2>3 DEF Working, Types, Places
  <2> QED BY <2>2, <2>4, AtRestOnly
<1>4. CASE Hardware \/ HwArbLost
  <2>1. UNCHANGED <<tx_msg, cpc, cur, result, state, buf>> /\ (fault => fault')
    BY <1>4 DEF Hardware, HwSend, HwLength, HwRead, HwStop, HwArbLost, Pop, Nack
  <2>2. ~Active'
    BY <2>1 DEF Active, Working
  <2>3. fifo # <<>> \/ bus # "idle"
    BY <1>4 DEF Hardware, HwSend, HwLength, HwRead, HwStop, HwArbLost
  <2>4. Results'
    BY <2>1, <2>3 DEF OInv, Results
  <2> QED BY <2>2, <2>4, Aside1
<1>5. CASE TimeOut
  <2>1. UNCHANGED <<tx_msg, cur, result, state, buf, wire, fault, fifo, bus>> /\ cpc' = "droptx" /\ cpc = "wait"
    BY <1>5 DEF TimeOut
  <2>2. ~Active'
    BY <2>1 DEF Active, Working
  <2>3. Results'
    BY <2>1 DEF OInv, Results
  <2> QED BY <2>2, <2>3, Aside1
<1> QED BY <1>0, <1>1, <1>2, <1>3, <1>4, <1>5 DEF Handler

LEMMA StartOrder ==
  ASSUME IInv, Safe, OInv, Safe', Plain, Start
  PROVE  OInv'
<1> USE DEF driver, caller, handler, starter, line, history
<1>1. tx_msg = 1 /\ rx_msg = NULL /\ nmsgs = Len(cur) /\ hpc \in {"off", "woken"}
  BY DEF Start, Safe, AtRest, LockFree
<1>2. /\ cpc' = "starting" /\ spc' = "loop" /\ first' = TRUE /\ state' = "START" /\ rx_pos' = 0
      /\ tx_pos' = 0 /\ UNCHANGED <<tx_msg, rx_msg, nmsgs, cur, result, hpc, snap, pend, clr>>
      /\ fifo' = <<>> /\ rxq' = <<>> /\ rfd' = Depth - 1 /\ isr' = {} /\ ier' = {"ARB"}
      /\ bus' = "idle" /\ rd' = rd /\ wire' = <<>> /\ buf' = [m \in DOMAIN cur |-> <<>>]
      /\ fault' = FALSE
  BY <1>1 DEF Start, Reinit, Enter, NULL
<1>3. Active' /\ Ahead' /\ ~Reading' /\ ~Asking' /\ ~Coming'
  BY <1>1, <1>2 DEF Active, Working, Ahead, Reading, Asking, Coming, NULL
<1>4. cur \in Seq(Message) /\ Len(cur) \in Nat /\ 1 \in DOMAIN cur /\ DOMAIN cur = 1 .. Len(cur)
  <2>1. cur # <<>>
    BY DEF IInv, Messages, Start
  <2>2. cur \in Seq(Message) /\ Len(cur) \in Nat /\ DOMAIN cur = 1 .. Len(cur)
    BY Current
  <2> QED BY <2>1, <2>2, EmptySeq
<1>5. Count' = 0 /\ PutMsg' = 0 /\ PutPos' = 0
  BY <1>1, <1>2, <1>3 DEF Count, PutMsg, PutPos
<1>6. result \notin {"num", "EIO"}
  BY DEF Start, OInv, Results
<1>7. Calls'
  BY <1>1, <1>2, <1>3 DEF Calls, NULL
<1>8. Results'
  BY <1>2, <1>6 DEF Results
<1>9. Failed'
  BY <1>2, <1>3 DEF Failed
<1>10. Armed'
  BY <1>2, <1>3 DEF Armed
<1>11. Progress'
  <2>1. tx_msg' \in DOMAIN cur' /\ nmsgs' = Len(cur') - tx_msg' + 1
    BY <1>1, <1>2, <1>4
  <2>2. Space(fifo') >= 2
    BY <1>2, DepthAssumption DEF Space
  <2> QED BY <1>2, <1>3, <2>1, <2>2 DEF Progress
<1>12. Entries' /\ Sent'
  <2>1. PartOf(cur, <<>>, 0)
    BY DEF PartOf
  <2>2. Upto(cur, <<>> \o Triples(<<>>, 0), 0, 0)
    BY <1>4, UptoNone
  <2> QED BY <1>2, <1>3, <1>5, <2>1, <2>2 DEF Entries, Sent
<1>13. OnBus'
  BY <1>2, <1>3 DEF OnBus
<1>14. Arrived'
  <2>1. \A m \in DOMAIN cur : buf'[m] = BytesOf(m, IF m = Len(cur) THEN 0 ELSE 0)
    BY <1>2 DEF BytesOf
  <2>2. Stored(cur', buf', 0)
    BY <1>2, <2>1 DEF Stored
  <2> QED BY <1>1, <1>2, <1>3, <2>2 DEF Arrived
<1>15. Signals'
  BY <1>1, <1>2, <1>3 DEF Signals, ToRead
<1> QED BY <1>7, <1>8, <1>9, <1>10, <1>11, <1>12, <1>13, <1>14, <1>15 DEF OInv

-----------------------------------------------------------------------------
(***************************************************************************)
(* The handler, where it leaves the FIFOs and the place in the transfer    *)
(* alone.                                                                  *)
(***************************************************************************)
Kept == UNCHANGED <<tx_msg, rx_msg, nmsgs, tx_pos, rx_pos, state, cur, result, spc, first, msg,
                    fifo, rxq, rfd, bus, rd, wire, buf, fault>>

LEMMA KeptOrder ==
  ASSUME OInv, Active, state = "START", Kept, cpc' = cpc \/ cpc' = "droptx"
  PROVE  /\ Results' /\ Progress' /\ Entries' /\ Sent' /\ Arrived'
         /\ Active'
         /\ Reading' <=> Reading
         /\ Coming' <=> Coming
         /\ Asking' <=> Asking
<1> USE DEF Kept
<1>1. Active' /\ (Reading' <=> Reading) /\ (Coming' <=> Coming) /\ (Asking' <=> Asking)
      /\ (Ahead' <=> Ahead)
  BY DEF Active, Working, Reading, Coming, Asking, Ahead
<1>2. Count' = Count /\ PutMsg' = PutMsg /\ PutPos' = PutPos /\ LastLen' = LastLen
  BY <1>1 DEF Count, PutMsg, PutPos, LastLen
<1>3. Results'
  BY DEF OInv, Results, Active, Working
<1>4. Progress'
  BY <1>1 DEF OInv, Progress
<1>5. Entries' /\ Sent'
  BY <1>1, <1>2 DEF OInv, Entries, Sent
<1>6. Arrived'
  BY <1>1, <1>2 DEF OInv, Arrived
<1> QED BY <1>1, <1>3, <1>4, <1>5, <1>6

\* The timeout only takes the caller to where it clears the pointers.
LEMMA TimeOutOrder ==
  ASSUME IInv, Safe, OInv, Plain, Active, TimeOut
  PROVE  OInv'
<1> USE DEF driver, caller, handler, starter, line, history
<1>1. state = "START" /\ cpc = "wait" /\ cpc' = "droptx" /\ Kept
      /\ UNCHANGED <<hpc, isr, ier, snap, pend, clr>>
  BY DEF TimeOut, Kept
<1>2. Active' /\ (Reading' <=> Reading) /\ (Coming' <=> Coming) /\ (Asking' <=> Asking)
  BY <1>1, KeptOrder
<1>3. Calls' /\ Failed' /\ Armed'
  BY <1>1, <1>2 DEF OInv, Calls, Failed, Armed, Kept
<1>4. OnBus' /\ Signals'
  BY <1>1, <1>2 DEF OInv, OnBus, Signals, ToRead, Kept, LastLen
<1> QED BY <1>1, <1>3, <1>4, KeptOrder DEF OInv

LEMMA IsrOrder ==
  ASSUME IInv, Safe, OInv, Plain, Active, Isr
  PROVE  OInv'
<1> USE DEF driver, caller, handler, starter, line, history
<1>1. state = "START" /\ hpc = "off" /\ hpc' = "woken" /\ (cpc = "starting" => spc # "none")
  BY UnderWay DEF Isr, OInv, Calls
<1>2. Kept /\ UNCHANGED <<isr, ier, snap, pend, clr, cpc>>
  BY DEF Isr, Kept
<1>3. Active' /\ (Reading' <=> Reading) /\ (Coming' <=> Coming) /\ (Asking' <=> Asking)
  BY <1>1, <1>2, KeptOrder
<1>4. Calls' /\ Failed' /\ Armed'
  BY <1>1, <1>2, <1>3 DEF OInv, Calls, Failed, Armed, Kept
<1>5. OnBus' /\ Signals'
  BY <1>1, <1>2, <1>3 DEF OInv, OnBus, Signals, ToRead, Kept, LastLen
<1> QED BY <1>1, <1>2, <1>4, <1>5, KeptOrder DEF OInv

LEMMA LockOrder ==
  ASSUME IInv, Safe, OInv, Plain, Active, Lock
  PROVE  OInv'
<1> USE DEF driver, caller, handler, starter, line, history
<1>1. state = "START" /\ cpc \in {"wait", "droptx"} /\ spc = "none" /\ hpc = "woken"
  BY UnderWay DEF Lock, LockFree, OInv, Calls, Active, Working
<1>2. Kept /\ UNCHANGED <<isr, ier, cpc>> /\ snap' = isr /\ pend' = isr \cap ier /\ clr' = {}
  BY DEF Lock, Kept
<1>3. Active' /\ (Reading' <=> Reading) /\ (Coming' <=> Coming) /\ (Asking' <=> Asking)
  BY <1>1, <1>2, KeptOrder
<1>4. hpc' = IF fault THEN "error" ELSE "rx"
  <2>1. fault => ("ARB" \in pend' \/ ("TXERR" \in pend' /\ "RXFULL" \notin pend'))
    BY <1>1, <1>2 DEF OInv, Failed, Armed
  <2>2. ~fault => "ARB" \notin pend' /\ ("TXERR" \in pend' => "RXFULL" \in pend')
    BY <1>1, <1>2 DEF OInv, OnBus, Signals, ToRead, Armed
  <2> QED BY <2>1, <2>2 DEF Lock
<1>5. Calls' /\ Failed' /\ Armed'
  BY <1>1, <1>2, <1>3, <1>4 DEF OInv, Calls, Failed, Armed, Kept
<1>6. OnBus' /\ Signals'
  BY <1>1, <1>2, <1>3, <1>4 DEF OInv, OnBus, Signals, ToRead, Kept, LastLen
<1> QED BY <1>1, <1>2, <1>5, <1>6, KeptOrder DEF OInv

LEMMA ErrorOrder ==
  ASSUME IInv, Safe, OInv, Safe', Plain, Active, ErrorBranch
  PROVE  OInv'
<1> USE DEF driver, caller, handler, starter, line, history
<1>1. fault /\ tx_msg # NULL
  <2>1. Inside /\ hpc = "error"
    BY DEF ErrorBranch, Inside
  <2> QED BY <2>1 DEF OInv, Signals, Active
<1>2. Wakeup("ERROR") /\ UNCHANGED <<cpc, cur, result, fault>>
  BY <1>1 DEF ErrorBranch
<1>3. ~Active'
  BY <1>2 DEF Active, Wakeup
<1>4. Results'
  BY <1>1, <1>2, UnderWay DEF Results, Wakeup
<1> QED BY <1>3, <1>4, Aside1

\* The RX FIFO is empty when nothing is left to receive.
LEMMA NothingToDrain ==
  ASSUME IInv, Safe, OInv, Plain, Active, ~fault, Reading, rx_msg = NULL
  PROVE  rxq = <<>>
<1>1. rx_pos = LastLen /\ rx_pos + Len(rxq) = PutPos /\ LastLen \in Nat
  BY UnderWay DEF OInv, Arrived
<1>2. PutPos <= LastLen
  <2>1. CASE Coming
    <3>1. PutPos = rd.got
      BY <2>1 DEF PutPos, Reading, Ahead
    <3>2. rd.got <= rd.len /\ rd.len = LastLen
      BY <2>1 DEF OInv, OnBus
    <3> QED BY <3>1, <3>2
  <2>2. CASE ~Coming
    <3>1. PutPos = 0
      BY <2>2 DEF PutPos, Reading, Ahead
    <3> QED BY <1>1, <3>1
  <2> QED BY <2>1, <2>2
<1>3. rxq \in Seq(Nat \X Nat) /\ Len(rxq) \in Nat
  BY DEF IInv, Queues
<1>4. Len(rxq) = 0
  <2> DEFINE q == Len(rxq)
  <2>1. q \in Nat /\ LastLen + q = PutPos
    BY <1>1, <1>3
  <2> HIDE DEF q
  <2>2. q = 0
    BY <1>1, <1>2, <2>1
  <2> QED BY <2>2 DEF q
<1> QED BY <1>3, <1>4, EmptySeq

LEMMA RxOrder ==
  ASSUME IInv, Safe, OInv, Plain, Active, RxBranch
  PROVE  OInv'
<1> USE DEF driver, caller, handler, starter, line, history
<1>1. hpc = "rx" /\ Inside
  BY DEF RxBranch, Inside
<1>2. cpc \in {"wait", "droptx"} /\ state = "START" /\ spc = "none" /\ ~fault
  BY <1>1, Handling
<1>3. UNCHANGED <<tx_msg, rx_msg, nmsgs, tx_pos, rx_pos, state, cpc, cur, result, spc, first, msg,
                  fifo, rfd, bus, rd, wire, buf, fault, isr, ier, snap, pend>>
  BY DEF RxBranch
<1>4. clr = {} /\ snap = isr /\ pend = isr \cap ier
  BY <1>1, <1>2 DEF OInv, Signals
<1>5. ("RXFULL" \in isr => Reading /\ rxq # <<>> /\ "RXFULL" \in pend) /\ ("TXERR" \in isr => "RXFULL" \in isr)
  BY <1>1, <1>2, <1>4 DEF OInv, Signals, ToRead, Armed
<1>6. IF "RXFULL" \in pend THEN hpc' = "read" /\ clr' = {"RXFULL"} /\ rxq' = rxq /\ rx_msg # NULL
      ELSE hpc' = "bnb" /\ clr' = {} /\ rxq' = rxq
  BY <1>2, <1>4, <1>5, NothingToDrain DEF RxBranch
<1>7. Kept
  BY <1>3, <1>6 DEF Kept
<1>8. Active' /\ (Reading' <=> Reading) /\ (Coming' <=> Coming) /\ (Asking' <=> Asking)
  BY <1>2, <1>3, <1>7, KeptOrder
<1>9. Calls' /\ Armed' /\ Failed'
  BY <1>2, <1>3, <1>8 DEF OInv, Calls, Armed, Failed
<1>10. OnBus'
  BY <1>2, <1>3, <1>8 DEF OInv, OnBus, LastLen
<1>11. Signals'
  <2>1. CASE "RXFULL" \in pend
    BY <1>1, <1>2, <1>3, <1>4, <1>6, <1>8, <2>1 DEF OInv, Signals, ToRead, Kept
  <2>2. CASE "RXFULL" \notin pend
    <3>1. Coming /\ rx_msg # NULL => rd.got < rd.len
      <4>1. Coming /\ rx_msg # NULL => rd.got # rd.len
        BY <1>1, <1>2, <1>4, <1>5, <2>2 DEF OInv, Signals, ToRead
      <4>2. Coming => rd.got <= rd.len /\ rd.got \in Nat /\ rd.len \in Nat
        BY <1>2 DEF OInv, OnBus, IInv, Numbers
      <4> QED BY <4>1, <4>2
    <3> QED BY <1>1, <1>2, <1>3, <1>4, <1>5, <1>6, <1>8, <2>2, <3>1 DEF Signals, ToRead, Kept
  <2> QED BY <2>1, <2>2
<1> QED BY <1>2, <1>3, <1>7, <1>9, <1>10, <1>11, KeptOrder DEF OInv

LEMMA BnbOrder ==
  ASSUME IInv, Safe, OInv, Plain, Active, BnbBranch
  PROVE  OInv'
<1> USE DEF driver, caller, handler, starter, line, history
<1>1. hpc = "bnb" /\ Inside
  BY DEF BnbBranch, Inside
<1>2. cpc \in {"wait", "droptx"} /\ state = "START" /\ spc = "none" /\ ~fault /\ tx_msg # NULL
  BY <1>1, Handling DEF Active
<1>3. Kept /\ UNCHANGED <<isr, snap, pend, cpc>>
  BY DEF BnbBranch, Kept
<1>4. Active' /\ (Reading' <=> Reading) /\ (Coming' <=> Coming) /\ (Asking' <=> Asking)
  BY <1>2, <1>3, KeptOrder
<1>5. \/ hpc' = "tx" /\ "BNB" \notin pend /\ UNCHANGED <<clr, ier>>
      \/ /\ "BNB" \in pend /\ clr' = clr \cup {"BNB"} /\ ier' = ier \ {"BNB"}
         /\ hpc' = "finish"
  BY <1>2 DEF BnbBranch
<1>6. Calls' /\ Armed' /\ Failed'
  BY <1>1, <1>2, <1>3, <1>4, <1>5 DEF OInv, Calls, Armed, Failed, Kept
<1>7. OnBus'
  BY <1>2, <1>3, <1>4 DEF OInv, OnBus, LastLen, Kept
<1>8. pend = isr \cap ier /\ clr \subseteq isr \cap {"RXFULL", "TXERR"}
  BY <1>1, <1>2 DEF OInv, Signals
<1>9. Signals'
  BY <1>1, <1>2, <1>3, <1>4, <1>5, <1>8 DEF OInv, Signals, ToRead, Kept
<1> QED BY <1>2, <1>3, <1>6, <1>7, <1>9, KeptOrder DEF OInv

LEMMA TxOrder ==
  ASSUME IInv, Safe, OInv, Plain, Active, TxBranch
  PROVE  OInv'
<1> USE DEF driver, caller, handler, starter, line, history
<1>1. hpc = "tx" /\ Inside
  BY DEF TxBranch, Inside
<1>2. cpc \in {"wait", "droptx"} /\ state = "START" /\ spc = "none" /\ ~fault
  BY <1>1, Handling
<1>3. Kept /\ UNCHANGED <<isr, ier, snap, pend, cpc>> /\ clr' = clr \cup (pend \cap TxBits)
      /\ hpc' = (IF pend \cap TxBits = {} \/ tx_msg = NULL THEN "out" ELSE "fill")
  BY DEF TxBranch, Kept
<1>4. Active' /\ (Reading' <=> Reading) /\ (Coming' <=> Coming) /\ (Asking' <=> Asking)
  BY <1>2, <1>3, KeptOrder
<1>5. Calls' /\ Armed' /\ Failed'
  BY <1>1, <1>2, <1>3, <1>4 DEF OInv, Calls, Armed, Failed, Kept
<1>6. OnBus'
  BY <1>2, <1>3, <1>4 DEF OInv, OnBus, LastLen, Kept
<1>7. Signals'
  BY <1>1, <1>2, <1>3, <1>4 DEF OInv, Signals, ToRead, Kept, TxBits
<1> QED BY <1>2, <1>3, <1>5, <1>6, <1>7, KeptOrder DEF OInv

LEMMA OutOrder ==
  ASSUME IInv, Safe, OInv, Plain, Active, Out
  PROVE  OInv'
<1> USE DEF driver, caller, handler, starter, line, history
<1>1. hpc = "out" /\ spc = "none" /\ hpc' = "off" /\ Inside
  BY DEF Out, Inside
<1>2. cpc \in {"wait", "droptx"} /\ state = "START" /\ ~fault
  BY <1>1, Handling
<1>3. Kept /\ UNCHANGED <<ier, snap, pend, clr, cpc>>
  BY DEF Out, Kept
<1>4. isr' = (isr \ clr) \/ isr' = (isr \ clr) \cup (clr \ isr)
  BY DEF Out, WriteIisr
<1>5. Active' /\ (Reading' <=> Reading) /\ (Coming' <=> Coming) /\ (Asking' <=> Asking)
  BY <1>2, <1>3, KeptOrder
<1>6. Calls' /\ Armed' /\ Failed'
  BY <1>1, <1>2, <1>3, <1>5 DEF OInv, Calls, Armed, Failed, Kept
<1>7. isr \cap {"RXFULL", "TXERR"} \subseteq clr /\ clr \ TxBits \subseteq isr /\ "BNB" \notin clr
      /\ "ARB" \notin isr
  BY <1>1, <1>2 DEF OInv, Signals, ToRead, OnBus
<1>8. "RXFULL" \notin isr' /\ "TXERR" \notin isr' /\ "ARB" \notin isr' /\ ("BNB" \in isr' => "BNB" \in isr)
  BY <1>4, <1>7 DEF TxBits
<1>9. OnBus'
  BY <1>2, <1>3, <1>5, <1>8 DEF OInv, OnBus, LastLen, Kept
<1>10. Coming /\ rx_msg # NULL => rd.got # rd.len
  BY <1>1, <1>2 DEF OInv, Signals, ToRead, IInv, Numbers
<1>11. Signals'
  BY <1>1, <1>3, <1>5, <1>8, <1>10 DEF Signals, ToRead, Kept
<1> QED BY <1>2, <1>3, <1>6, <1>9, <1>11, KeptOrder DEF OInv

LEMMA SentAll ==
  ASSUME IInv, Types, Safe, OInv, Plain, Active, ~fault, fifo = <<>>
  PROVE  Upto(cur, wire, PutMsg, PutPos)
<1>1. Count = 0
  BY DEF Count, Asking
<1>2. wire \o Triples(<<>>, 0) = wire
  <2>1. Triples(<<>>, 0) = <<>>
    BY DEF Triples
  <2> QED BY <2>1, ConcatEmptySeq DEF Types, History
<1> QED BY <1>1, <1>2 DEF OInv, Sent

LEMMA FinishOrder ==
  ASSUME IInv, Types, Safe, OInv, Safe', Plain, Active, Finish
  PROVE  OInv'
<1> USE DEF driver, caller, handler, starter, line, history
<1>1. cpc \in {"wait", "droptx"} /\ spc = "none" /\ hpc = "finish" /\ ~fault /\ ~Ahead
  <2>1. Inside /\ hpc = "finish"
    BY DEF Finish, Inside
  <2> QED BY <2>1, Handling DEF Ahead
<1>2. "BNB" \in isr
  BY <1>1 DEF OInv, Signals
<1>3. bus = "idle" /\ fifo = <<>> /\ Whole(cur, wire)
  BY <1>1, <1>2 DEF OInv, OnBus
<1>4. PutMsg = tx_msg /\ tx_msg \in 1 .. Len(cur) /\ cur # <<>> /\ cur \in Seq(Message) /\ Len(cur) \in Nat
  BY <1>1, UnderWay, Current DEF PutMsg
<1>5. PutPos = IF Reading THEN rd.got ELSE tx_pos
  BY <1>1, <1>3 DEF PutPos, Coming
<1>6. tx_msg = Len(cur) /\ LastLen <= PutPos
  <2>1. PutPos \in Int /\ PutMsg \in Nat
    BY <1>4, <1>5 DEF IInv, Numbers
  <2>2. Len(cur) < PutMsg \/ (Len(cur) = PutMsg /\ LastLen <= PutPos)
    BY <1>1, <1>3, <1>4, <2>1, SentAll, LastIfWhole DEF LastLen
  <2> QED BY <1>4, <2>2
<1>7. rx_msg = NULL /\ tx_pos = LastLen /\ (Reading => rx_pos = LastLen)
  <2>1. LastLen \in Nat /\ tx_pos \in Nat /\ rd.got \in Nat
    BY <1>1, UnderWay DEF IInv, Numbers
  <2>2. cur[tx_msg].len = LastLen
    BY <1>6 DEF LastLen
  <2>3. CASE Reading
    <3>1. Coming
      BY <1>1, <1>3, <2>3 DEF Coming
    <3>2. rd.len = LastLen /\ LastLen <= rd.got
      BY <1>1, <1>5, <1>6, <2>3, <3>1 DEF OInv, OnBus
    <3>3. rx_msg = NULL
      BY <1>1, <2>1, <3>1, <3>2 DEF OInv, Signals, ToRead
    <3>4. tx_pos = LastLen /\ rx_pos = LastLen
      BY <1>1, <2>2, <2>3, <3>3 DEF OInv, Progress, Arrived
    <3> QED BY <3>3, <3>4
  <2>4. CASE ~Reading
    <3>1. rx_msg = NULL
      BY <1>1, <2>4 DEF OInv, Arrived
    <3>2. tx_pos <= LastLen
      BY <1>1, <2>2, <2>4 DEF OInv, Progress
    <3> QED BY <1>5, <1>6, <2>1, <2>4, <3>1, <3>2
  <2> QED BY <2>3, <2>4
<1>8. Filed(cur, buf)
  <2>1. Stored(cur, buf, IF Reading THEN rx_pos ELSE 0)
    BY <1>1 DEF OInv, Arrived
  <2> SUFFICES ASSUME NEW m \in DOMAIN cur
               PROVE  buf[m] = BytesOf(m, IF cur[m].rd THEN cur[m].len ELSE 0)
    BY DEF Filed
  <2>2. buf[m] = BytesOf(m, IF m = Len(cur) THEN (IF Reading THEN rx_pos ELSE 0) ELSE 0)
    BY <2>1 DEF Stored
  <2>3. CASE m = Len(cur)
    <3>1. Reading <=> cur[m].rd
      BY <1>1, <1>6, <2>3 DEF Reading
    <3>2. Reading => rx_pos = cur[m].len
      BY <1>7, <2>3 DEF LastLen
    <3> QED BY <2>2, <2>3, <3>1, <3>2
  <2>4. CASE m # Len(cur)
    <3>1. ~cur[m].rd
      BY <2>4, Current
    <3> QED BY <2>2, <2>4, <3>1
  <2> QED BY <2>3, <2>4
<1>9. LastMsg /\ TxSpace = 0 /\ ~Bad(tx_msg)
  <2>1. nmsgs = 1
    BY <1>1, <1>4, <1>6, UnderWay
  <2>2. cur[tx_msg].len = LastLen /\ LastLen \in Nat
    BY <1>1, <1>6, UnderWay DEF LastLen
  <2>3. ~Bad(tx_msg)
    BY <1>4, Current DEF Bad
  <2> QED BY <1>7, <2>1, <2>2, <2>3 DEF LastMsg, TxSpace
<1>10. Wakeup("DONE") /\ hpc' = "tx"
       /\ UNCHANGED <<cpc, cur, result, snap, pend, clr, spc, fifo, rxq, rfd, bus, rd, ier, isr, wire, buf, fault>>
  BY <1>7, <1>9 DEF Finish
<1>11. ~Active'
  BY <1>10 DEF Active, Wakeup
<1>12. Results'
  <2>1. result' \notin {"num", "EIO"}
    BY <1>10, UnderWay
  <2> QED BY <1>3, <1>8, <1>10, <2>1 DEF Results, Wakeup
<1> QED BY <1>11, <1>12, Aside1

-----------------------------------------------------------------------------
(***************************************************************************)
(* The bus.                                                                *)
(***************************************************************************)
LEMMA StopOrder ==
  ASSUME IInv, Types, Safe, OInv, Plain, ~FastBus, Active, HwStop
  PROVE  OInv'
<1> USE DEF driver, caller, handler, starter, line, history
<1>1. spc = "none" /\ cpc # "starting" /\ hpc \in {"off", "woken"}
  BY Standing DEF HwStop
<1>2. cpc \in {"wait", "droptx"} /\ state = "START" /\ result \notin {"num", "EIO"}
  BY <1>1, UnderWay DEF Active, Working
<1>3. /\ isr' = isr \cup {"BNB"} /\ bus' = (IF bus = "stopping" THEN "idle" ELSE "dead")
      /\ bus \in {"stopping", "nacked"}
      /\ UNCHANGED <<tx_msg, rx_msg, nmsgs, tx_pos, rx_pos, state, cpc, cur, result, hpc, snap, pend, clr,
                     spc, first, msg, fifo, rxq, rfd, rd, ier, wire, buf, fault>>
  BY DEF HwStop
<1>4. (Active' <=> Active) /\ (Reading' <=> Reading) /\ (Coming' <=> Coming) /\ (Asking' <=> Asking)
      /\ (Ahead' <=> Ahead)
  BY <1>3 DEF Active, Working, Reading, Coming, Asking, Ahead
<1>5. Count' = Count /\ PutMsg' = PutMsg /\ PutPos' = PutPos /\ LastLen' = LastLen
  BY <1>3, <1>4 DEF Count, PutMsg, PutPos, LastLen
<1>6. Calls' /\ Results' /\ Progress' /\ Armed'
  <2>1. Results'
    BY <1>2, <1>3 DEF Results
  <2>2. Calls' /\ Progress' /\ Armed'
    BY <1>1, <1>3, <1>4 DEF OInv, Calls, Progress, Armed
  <2> QED BY <2>1, <2>2
<1>7. Entries' /\ Sent'
  BY <1>3, <1>4, <1>5 DEF OInv, Entries, Sent
<1>8. Arrived'
  BY <1>3, <1>4, <1>5 DEF OInv, Arrived
<1>10. Failed'
  BY <1>2, <1>3, <1>4 DEF OInv, Failed
<1>11. OnBus'
  BY <1>2, <1>3, <1>4, <1>5 DEF OInv, OnBus
<1>12. Signals'
  BY <1>1, <1>3, <1>4 DEF OInv, Signals, ToRead
<1> QED BY <1>6, <1>7, <1>8, <1>10, <1>11, <1>12 DEF OInv

LEMMA LostOrder ==
  ASSUME IInv, Types, Safe, OInv, Plain, ~FastBus, Active, HwArbLost
  PROVE  OInv'
<1> USE DEF driver, caller, handler, starter, line, history
<1>1. spc = "none" /\ cpc # "starting" /\ hpc \in {"off", "woken"}
  BY Standing DEF HwArbLost
<1>2. cpc \in {"wait", "droptx"} /\ state = "START" /\ result \notin {"num", "EIO"}
  BY <1>1, UnderWay DEF Active, Working
<1>3. /\ isr' = isr \cup {"ARB"} /\ bus' = "dead" /\ bus = "tx" /\ (fault' <=> TRUE)
      /\ UNCHANGED <<tx_msg, rx_msg, nmsgs, tx_pos, rx_pos, state, cpc, cur, result, hpc, snap, pend, clr,
                     spc, first, msg, fifo, rxq, rfd, rd, ier, wire, buf>>
  BY DEF HwArbLost
<1>4. (Active' <=> Active) /\ (Reading' <=> Reading)
  BY <1>3 DEF Active, Working, Reading
<1>5. ~fault
  BY <1>2, <1>3 DEF OInv, Failed
<1>6. Calls' /\ Results' /\ Progress' /\ Armed'
  <2>1. Ahead' <=> Ahead
    BY <1>3 DEF Ahead
  <2>2. Calls' /\ Armed'
    BY <1>1, <1>3, <1>4 DEF OInv, Calls, Armed
  <2>3. Progress'
    BY <1>3, <1>4, <2>1 DEF OInv, Progress
  <2>4. Results'
    BY <1>2, <1>3 DEF Results
  <2> QED BY <2>2, <2>3, <2>4
<1>8. "RXFULL" \notin isr /\ "TXERR" \in ier
  <2>1. "RXFULL" \notin isr
    <3>1. "RXFULL" \in isr => Reading /\ rxq # <<>>
      BY <1>1, <1>2, <1>5 DEF OInv, Signals, ToRead
    <3>2. Reading => ~Coming
      BY <1>2, <1>3, <1>5 DEF OInv, OnBus
    <3>3. Reading => rxq = <<>>
      <4> SUFFICES ASSUME Reading PROVE rxq = <<>>
        OBVIOUS
      <4>1. PutPos = 0
        BY <1>1, <3>2 DEF PutPos, Ahead
      <4>2. rx_pos + Len(rxq) = 0 /\ rx_pos \in Nat
        BY <1>2, <1>5, <4>1 DEF OInv, Arrived, IInv, Numbers
      <4>3. rxq \in Seq(Nat \X Nat)
        BY DEF IInv, Queues
      <4>4. rxq # <<>> => Len(rxq) \in Nat \ {0}
        BY <4>3, EmptySeq
      <4> QED BY <4>2, <4>4
    <3> QED BY <3>1, <3>3
  <2>2. "TXERR" \in ier
    BY <1>1, <1>2 DEF OInv, Armed
  <2> QED BY <2>1, <2>2
<1>9. Failed'
  BY <1>1, <1>2, <1>3, <1>4, <1>8 DEF OInv, Failed
<1>10. Entries' /\ Sent' /\ OnBus' /\ Arrived' /\ Signals'
  BY <1>3 DEF Entries, Sent, OnBus, Arrived, Signals
<1> QED BY <1>6, <1>9, <1>10 DEF OInv

\* Before the first byte of a read arrives nothing is reported of it.
LEMMA NothingRead ==
  ASSUME IInv, Types, Safe, OInv, Plain, Active, ~fault, spc = "none", hpc \in {"off", "woken"}, ~Coming
  PROVE  "RXFULL" \notin isr /\ "TXERR" \notin isr /\ "TXERR" \in ier
<1>1. "RXFULL" \in isr => Reading /\ rxq # <<>>
  BY DEF OInv, Signals, ToRead
<1>2. Reading => rxq = <<>>
  <2> SUFFICES ASSUME Reading PROVE rxq = <<>>
    OBVIOUS
  <2>1. PutPos = 0
    BY DEF PutPos, Ahead
  <2>2. rx_pos + Len(rxq) = 0 /\ rx_pos \in Nat
    BY <2>1 DEF OInv, Arrived, IInv, Numbers
  <2>3. rxq \in Seq(Nat \X Nat)
    BY DEF IInv, Queues
  <2>4. rxq # <<>> => Len(rxq) \in Nat \ {0}
    BY <2>3, EmptySeq
  <2> QED BY <2>2, <2>4
<1>3. "TXERR" \notin isr
  BY DEF OInv, Signals, ToRead
<1>4. "TXERR" \in ier
  BY DEF OInv, Armed
<1> QED BY <1>1, <1>2, <1>3, <1>4

\* The first entry of the FIFO is the next byte of the transfer: the address of
\* a read only with nothing but the length behind it, a STOP only at the end.
LEMMA HeadIsNext ==
  ASSUME IInv, Types, Safe, OInv, Plain, Active, ~fault, spc = "none", fifo # <<>>,
         NEW e, e = Head(fifo), e.k \in {"W", "R", "D"}
  PROVE  /\ Count \in 1 .. Len(fifo)
         /\ PartOf(cur, Tail(fifo), Count - 1)
         /\ Upto(cur, Append(wire, <<e.k, e.m, e.n>>) \o Triples(Tail(fifo), Count - 1), PutMsg, PutPos)
         /\ e.k = "R" => Asking /\ Len(fifo) = 2
         /\ e.k # "R" /\ e.stop => Tail(fifo) = <<>> /\ Whole(cur, Append(wire, <<e.k, e.m, e.n>>))
<1> DEFINE l == Len(fifo)
           x == <<e.k, e.m, e.n>>
           s == Triples(fifo, Count)
<1>1. fifo \in Seq(Token) /\ l \in Nat /\ l >= 1 /\ e = fifo[1]
  <2>1. fifo \in Seq(Token)
    BY DEF IInv, Queues
  <2> QED BY <2>1, EmptySeq, HeadTailProperties
<1>2. wire \in Seq(Link)
  <2>1. wire \in Seq({"W", "R", "D", "B"} \X Nat \X Nat)
    BY DEF Types, History
  <2>2. {"W", "R", "D", "B"} \X Nat \X Nat \subseteq Link
    BY DEF Link
  <2> QED BY <2>1, <2>2, SeqMonotonic
<1>3. Count = (IF Asking THEN l - 1 ELSE l) /\ (Asking => fifo[l] = Entry("L", Len(cur), LastLen, TRUE))
  BY DEF Count, OInv, Entries
<1>4. Count \in 1 .. l
  <2>1. Asking => l # 1
    BY <1>1, <1>3 DEF Entry
  <2> HIDE DEF l
  <2> QED BY <1>1, <1>3, <2>1
<1>5. PartOf(cur, fifo, Count)
  BY DEF OInv, Entries
<1>6. e.m \in DOMAIN cur /\ e.n \in 0 .. cur[e.m].len /\ x = Item(cur, e.m, e.n)
      /\ (e.k # "R" => (e.stop <=> e.m = Len(cur) /\ e.n = cur[Len(cur)].len))
  <2>1. 1 \in 1 .. Count
    BY <1>4
  <2> QED BY <1>1, <1>5, <2>1 DEF PartOf
<1>7. Tail(fifo) \in Seq(Token) /\ Len(Tail(fifo)) = l - 1 /\ \A i \in 1 .. l - 1 : Tail(fifo)[i] = fifo[i + 1]
  BY <1>1, HeadTailProperties
<1>8. PartOf(cur, Tail(fifo), Count - 1)
  <2> SUFFICES ASSUME NEW i \in 1 .. Count - 1
               PROVE  /\ Tail(fifo)[i] = fifo[i + 1]
                      /\ i + 1 \in 1 .. Count
    BY ZenonT(80), <1>5 DEF PartOf
  <2> HIDE DEF l
  <2> QED BY <1>1, <1>4, <1>7
<1>9. Upto(cur, wire \o s, PutMsg, PutPos)
  BY DEF OInv, Sent
<1>10. Append(wire, x) \o Triples(Tail(fifo), Count - 1) = wire \o s
  BY <1>1, <1>2, <1>4, TriplesMove
<1>11. s \in Seq(Link) /\ Len(s) = Count /\ s[1] = x
  <2>1. Count \in 0 .. Len(fifo) /\ 1 \in 1 .. Count
    BY <1>1, <1>4
  <2> QED BY <1>1, <2>1, TriplesType
<1>12. x[2] = e.m /\ x[3] = e.n /\ e.m \in Nat /\ e.n \in Nat /\ cur[e.m].len \in Nat /\ e.m \in 1 .. Len(cur)
  <2>1. e.m \in DOMAIN cur /\ e.n \in 0 .. cur[e.m].len
    BY <1>6
  <2>2. cur \in Seq(Message)
    BY Current
  <2>3. e.m \in 1 .. Len(cur) /\ e.m \in Nat /\ cur[e.m].len \in Nat
    BY <2>1, <2>2, MessageOf
  <2> QED BY <2>1, <2>3
<1>13. PutMsg = tx_msg /\ tx_msg \in 1 .. Len(cur) /\ Len(cur) \in Nat /\ PutPos \in Nat
       /\ cur \in Seq(Message) /\ cur # <<>>
  BY UnderWay, Current DEF PutMsg, PutPos, Ahead, IInv, Numbers
<1>14. s # <<>>
  <2>1. Len(s) # 0
    BY <1>4, <1>11
  <2> HIDE DEF s
  <2> QED BY <2>1
<1>15. ASSUME e.k = "R" PROVE Asking /\ Len(fifo) = 2
  <2>1. cur[e.m].rd /\ e.n = 0
    BY <1>6, <1>15 DEF Item
  <2>2. e.m = Len(cur)
    BY <1>12, <2>1, Current
  <2>3. x \in ToSet(wire \o s)
    <3>1. wire \o s \in Seq(Link) /\ Len(wire \o s) = Len(wire) + Len(s) /\ Len(wire) \in Nat
          /\ \A i \in 1 .. Len(wire) + Len(s) : (wire \o s)[i] = IF i <= Len(wire) THEN wire[i] ELSE s[i - Len(wire)]
      <4>1. s \in Seq(Link) /\ wire \in Seq(Link)
        BY <1>2, <1>11
      <4> HIDE DEF s
      <4> QED BY <4>1, Chained
    <3>2. Len(wire) + 1 \in 1 .. Len(wire) + Len(s) /\ (wire \o s)[Len(wire) + 1] = x
      <4> HIDE DEF s, l
      <4> QED BY <1>1, <1>4, <1>11, <3>1
    <3> HIDE DEF s, x
    <3>3. Len(wire) + 1 \in DOMAIN (wire \o s)
      BY <3>1, <3>2
    <3> QED BY <3>2, <3>3 DEF ToSet
  <2>4. e.m < PutMsg \/ (e.m = PutMsg /\ e.n <= PutPos)
    BY <1>9, <1>12, <2>3 DEF Upto
  <2>5. tx_msg = e.m
    BY <1>13, <2>2, <2>4
  <2>6. Asking
    BY <2>1, <2>5 DEF Asking, Reading
  <2>7. PutPos = 0
    BY <2>6 DEF PutPos, Asking, Coming, Ahead
  <2>8. ASSUME NEW y \in Items(cur), y[2] < PutMsg \/ (y[2] = PutMsg /\ y[3] <= PutPos)
        PROVE  ~Before(s[1], y)
    <3>1. y[2] \in Nat /\ y[3] \in Int
      <4>1. y[2] \in DOMAIN cur /\ y[3] \in 0 .. cur[y[2]].len
        BY ItemOf
      <4>2. y[2] \in Nat
        BY <1>13, <4>1, MessageOf
      <4> QED BY <4>1, <4>2
    <3>2. s[1][2] = PutMsg /\ s[1][3] = 0
      BY <1>11, <1>12, <1>13, <2>1, <2>5
    <3> HIDE DEF s
    <3> QED BY <1>13, <2>7, <2>8, <3>1, <3>2 DEF Before
  <2>9. s[1][2] \in Nat /\ s[1][3] \in Nat /\ PutMsg \in Nat
    BY <1>11, <1>12, <1>13
  <2>10. Len(s) = 1
    <3>1. \A y \in Items(cur) : (y[2] < PutMsg \/ (y[2] = PutMsg /\ y[3] <= PutPos)) => ~Before(s[1], y)
      BY <2>8
    <3>2. s \in Seq(Link) /\ s # <<>> /\ Upto(cur, wire \o s, PutMsg, PutPos)
      BY <1>9, <1>11, <1>14
    <3> HIDE DEF s
    <3> QED BY <1>2, <1>13, <2>9, <3>1, <3>2, UptoLast
  <2>11. Count = 1 /\ Count = l - 1
    BY <1>3, <1>11, <2>6, <2>10
  <2> HIDE DEF l
  <2>12. l = 2
    BY <1>1, <2>11
  <2> QED BY <2>6, <2>12 DEF l
<1>16. ASSUME e.k # "R", e.stop PROVE Tail(fifo) = <<>> /\ Whole(cur, Append(wire, x))
  <2>1. e.m = Len(cur) /\ e.n = cur[Len(cur)].len
    BY <1>6, <1>16
  <2>2. ~Asking
    <3> SUFFICES ASSUME Asking PROVE FALSE
      OBVIOUS
    <3>1. cur[Len(cur)].rd
      BY <1>13, Current DEF Asking, Reading
    <3>2. e.k \in {"R", "B"}
      BY <1>6, <2>1, <3>1 DEF Item
    <3> QED BY <1>16, <3>2
  <2>3. ASSUME NEW y \in Items(cur)
        PROVE  ~Before(s[1], y)
    <3>1. y[2] \in 1 .. Len(cur) /\ y[2] \in Nat /\ y[3] \in Int /\ (y[2] = Len(cur) => y[3] <= cur[Len(cur)].len)
      <4>1. y[2] \in DOMAIN cur /\ y[3] \in 0 .. cur[y[2]].len
        BY ItemOf
      <4>2. y[2] \in 1 .. Len(cur) /\ cur[y[2]].len \in Nat
        BY <4>1, Current
      <4> QED BY <4>1, <4>2
    <3>2. s[1][2] = Len(cur) /\ s[1][3] = cur[Len(cur)].len /\ cur[Len(cur)].len \in Nat
      BY <1>11, <1>12, <2>1
    <3> HIDE DEF s
    <3> QED BY <1>13, <3>1, <3>2 DEF Before
  <2>4. s[1][2] \in Nat /\ s[1][3] \in Nat /\ PutMsg \in Nat
    BY <1>11, <1>12, <1>13
  <2>5. Len(s) = 1
    <3> HIDE DEF s
    <3> QED BY <1>2, <1>9, <1>11, <1>13, <1>14, <2>3, <2>4, UptoLast
  <2>6. Count = 1 /\ l = 1
    <3> HIDE DEF s, l
    <3> QED BY <1>3, <1>11, <2>2, <2>5
  <2>7. Tail(fifo) = <<>>
    <3>1. Len(Tail(fifo)) = 0
      BY <1>7, <2>6
    <3> QED BY <1>7, <3>1, EmptySeq
  <2>8. x \in Link
    BY <1>12 DEF Link
  <2>9. Append(wire, x) \in Seq(Link) /\ Len(Append(wire, x)) = Len(wire) + 1 /\ Append(wire, x)[Len(wire) + 1] = x
    <3> HIDE DEF x
    <3> QED BY <1>2, <2>8, AppendProperties
  <2>10. Append(wire, x) \o Triples(<<>>, 0) = Append(wire, x)
    <3>1. Triples(<<>>, 0) = <<>>
      BY DEF Triples
    <3> HIDE DEF x
    <3> QED BY <2>9, <3>1, ConcatEmptySeq
  <2>11. Upto(cur, Append(wire, x), PutMsg, PutPos)
    <3>1. Count - 1 = 0
      BY <2>6
    <3> HIDE DEF x, s
    <3> QED BY <1>9, <1>10, <2>7, <2>10, <3>1
  <2>12. Item(cur, Len(cur), cur[Len(cur)].len) \in ToSet(Append(wire, x))
    <3>1. x = Item(cur, Len(cur), cur[Len(cur)].len)
      BY <1>6, <2>1
    <3>2. Len(wire) + 1 \in DOMAIN Append(wire, x) /\ Append(wire, x)[Len(wire) + 1] = x
      <4> HIDE DEF x
      <4>1. Len(wire) \in Nat
        BY <1>2
      <4> QED BY <2>9, <4>1
    <3> HIDE DEF x
    <3> QED BY <3>1, <3>2 DEF ToSet
  <2> HIDE DEF x
  <2> QED BY <1>13, <2>4, <2>7, <2>11, <2>12, WholeIfLast
<1>17. Upto(cur, Append(wire, x) \o Triples(Tail(fifo), Count - 1), PutMsg, PutPos)
  <2> HIDE DEF x, s
  <2> QED BY <1>9, <1>10
<1> QED BY <1>4, <1>8, <1>15, <1>16, <1>17

LEMMA SendOrder ==
  ASSUME IInv, Types, Safe, OInv, Plain, ~FastBus, Active, HwSend
  PROVE  OInv'
<1> USE DEF driver, caller, handler, starter, line, history
<1> DEFINE e == Head(fifo)
           x == <<e.k, e.m, e.n>>
<1>1. spc = "none" /\ cpc # "starting" /\ hpc \in {"off", "woken"} /\ fifo # <<>>
  BY Standing DEF HwSend
<1>2. cpc \in {"wait", "droptx"} /\ state = "START" /\ result \notin {"num", "EIO"}
  BY <1>1, UnderWay DEF Active, Working
<1>3. bus \in {"idle", "tx", "held"} /\ e.k \in {"W", "R", "D"}
  BY DEF HwSend
<1>4. ~fault
  BY <1>2, <1>3 DEF OInv, Failed
<1>5. /\ fifo' = Tail(fifo)
      /\ UNCHANGED <<tx_msg, rx_msg, nmsgs, tx_pos, rx_pos, state, cpc, cur, result, hpc, snap, pend, clr,
                     spc, first, msg, rxq, rfd, rd, ier, buf>>
  BY DEF HwSend, Pop, Nack
<1>6. ~Coming /\ ~Coming' /\ ~Ahead /\ ~Ahead'
  <2>1. ~Coming
    BY <1>1 DEF Coming
  <2>2. Asking' \/ ~Reading'
    <3>1. Reading => Asking
      BY <1>1 DEF Asking, Reading
    <3>2. Asking => fifo' # <<>>
      <4> SUFFICES ASSUME Asking PROVE fifo' # <<>>
        OBVIOUS
      <4>1. Count \in 1 .. Len(fifo) /\ Count = Len(fifo) - 1
        BY <1>1, <1>2, <1>3, <1>4, HeadIsNext DEF Count
      <4>2. fifo \in Seq(Token)
        BY DEF IInv, Queues
      <4>3. Len(Tail(fifo)) = Len(fifo) - 1 /\ Len(fifo) \in Nat
        BY <1>1, <4>2, HeadTailProperties
      <4>4. Len(Tail(fifo)) # 0
        BY <4>1, <4>3
      <4>5. Len(<<>>) = 0
        OBVIOUS
      <4>6. Tail(fifo) # <<>>
        BY <4>4, <4>5, Zenon
      <4> QED BY <1>5, <4>6
    <3> QED BY <1>1, <1>5, <3>1, <3>2 DEF Asking, Reading
  <2> QED BY <1>1, <1>5, <2>1, <2>2 DEF Coming, Asking, Ahead
<1>7. (Active' <=> Active) /\ (Reading' <=> Reading) /\ (Asking' <=> Asking)
  <2>1. (Active' <=> Active) /\ (Reading' <=> Reading)
    BY <1>5 DEF Active, Working, Reading
  <2>2. Asking <=> Reading
    BY <1>1 DEF Asking, Reading
  <2>3. Asking' <=> Reading'
    BY <1>5, <1>6, <1>1 DEF Asking, Coming, Reading
  <2> QED BY <2>1, <2>2, <2>3
<1>8. PutMsg' = PutMsg /\ PutPos' = PutPos /\ LastLen' = LastLen
  BY <1>5, <1>6, <1>7 DEF PutMsg, PutPos, LastLen
<1>9. Count' = Count - 1 /\ fifo \in Seq(Token) /\ Len(Tail(fifo)) = Len(fifo) - 1
      /\ \A i \in 1 .. Len(fifo) - 1 : Tail(fifo)[i] = fifo[i + 1]
  <2>1. fifo \in Seq(Token)
    BY DEF IInv, Queues
  <2>2. Len(Tail(fifo)) = Len(fifo) - 1 /\ \A i \in 1 .. Len(fifo) - 1 : Tail(fifo)[i] = fifo[i + 1]
    BY <1>1, <2>1, HeadTailProperties
  <2>3. Len(fifo') = Len(fifo) - 1 /\ Len(fifo) \in Int
    BY <1>5, <2>1, <2>2
  <2>4. Count = (IF Asking THEN Len(fifo) - 1 ELSE Len(fifo))
        /\ Count' = (IF Asking THEN Len(fifo') - 1 ELSE Len(fifo'))
    BY <1>7 DEF Count
  <2> QED BY <2>1, <2>2, <2>3, <2>4
<1>10. /\ PartOf(cur, Tail(fifo), Count - 1)
       /\ Upto(cur, Append(wire, x) \o Triples(Tail(fifo), Count - 1), PutMsg, PutPos)
       /\ e.k = "R" => Asking /\ Len(fifo) = 2
       /\ e.k # "R" /\ e.stop => Tail(fifo) = <<>> /\ Whole(cur, Append(wire, x))
       /\ Count \in 1 .. Len(fifo)
  BY <1>1, <1>2, <1>3, <1>4, HeadIsNext
<1> HIDE DEF x, e
<1>11. "RXFULL" \notin isr /\ "TXERR" \notin isr /\ "TXERR" \in ier
  BY <1>1, <1>2, <1>4, <1>6, NothingRead
<1>12. Calls' /\ Progress' /\ Armed'
  <2>1. Calls' /\ Armed'
    BY <1>1, <1>2, <1>5, <1>7 DEF OInv, Calls, Armed
  <2>2. Progress'
    BY <1>1, <1>5, <1>6, <1>7 DEF OInv, Progress
  <2> QED BY <2>1, <2>2
<1>14. Results'
  BY <1>2, <1>5 DEF Results
<1>15. PopEvents \subseteq TxBits
  BY DEF PopEvents, TxBits
<1>16. CASE /\ wire' = Append(wire, x)
            /\ bus' = (IF e.k = "R" THEN "rxlen" ELSE IF e.stop THEN "stopping" ELSE "tx")
            /\ isr' = isr \cup PopEvents /\ fault' = fault
  <2>1. Failed' /\ ~fault'
    BY <1>4, <1>16 DEF Failed
  <2>2. Entries'
    <3>1. PartOf(cur', fifo', Count')
      BY <1>5, <1>9, <1>10
    <3>2. Asking' => fifo'[Len(fifo')] = Entry("L", Len(cur'), LastLen', TRUE)
      <4> SUFFICES ASSUME Asking PROVE Tail(fifo)[Len(fifo) - 1] = fifo[Len(fifo)] /\ Len(fifo') = Len(fifo) - 1
                                       /\ fifo[Len(fifo)] = Entry("L", Len(cur), LastLen, TRUE)
        BY <1>5, <1>7, <1>8
      <4>1. Len(fifo) \in Nat /\ Count = Len(fifo) - 1 /\ Count >= 1
        BY <1>9, <1>10 DEF Count
      <4>2. Len(fifo) - 1 \in 1 .. Len(fifo) - 1 /\ Len(fifo) - 1 + 1 = Len(fifo)
        BY <4>1
      <4> QED BY <1>2, <1>4, <1>5, <1>9, <4>2 DEF OInv, Entries
    <3> QED BY <3>1, <3>2 DEF Entries
  <2>3. Sent'
    BY <1>5, <1>8, <1>9, <1>10, <1>16 DEF Sent
  <2>4. OnBus'
    <3>1. "ARB" \notin isr' /\ "BNB" \notin isr'
      <4>1. "ARB" \notin isr /\ "BNB" \notin isr
        BY <1>1, <1>2, <1>4 DEF OInv, OnBus
      <4> QED BY <1>15, <1>16, <4>1 DEF TxBits
    <3>2. bus' = "rxlen" => Asking' /\ Len(fifo') = 1
      BY <1>5, <1>7, <1>9, <1>10, <1>16
    <3>3. bus' = "stopping" => fifo' = <<>> /\ Whole(cur', wire')
      BY <1>5, <1>10, <1>16
    <3>4. bus' \in {"rxlen", "stopping", "tx"}
      BY <1>16
    <3> QED BY <1>6, <3>1, <3>2, <3>3, <3>4 DEF OnBus
  <2>5. Arrived'
    BY <1>2, <1>4, <1>5, <1>7, <1>8 DEF OInv, Arrived
  <2>6. Signals'
    <3>1. "RXFULL" \notin isr' /\ "TXERR" \notin isr'
      BY <1>11, <1>15, <1>16 DEF TxBits
    <3> QED BY <1>1, <1>5, <1>6, <3>1 DEF Signals, ToRead
  <2> QED BY <1>12, <1>14, <2>1, <2>2, <2>3, <2>4, <2>5, <2>6 DEF OInv
<1>17. CASE (fault' <=> TRUE) /\ bus' = "nacked" /\ isr' = isr \cup PopEvents \cup {"TXERR"}
  <2>1. Entries' /\ Sent' /\ OnBus' /\ Arrived' /\ Signals'
    BY <1>17 DEF Entries, Sent, OnBus, Arrived, Signals
  <2>2. "RXFULL" \notin isr' /\ "TXERR" \in isr'
    BY <1>11, <1>15, <1>17 DEF TxBits
  <2>3. Failed'
    BY <1>1, <1>2, <1>5, <1>11, <1>17, <2>2 DEF Failed
  <2> QED BY <1>12, <1>14, <2>1, <2>3 DEF OInv
<1> QED BY <1>16, <1>17 DEF HwSend, Nack, e, x

LEMMA LengthOrder ==
  ASSUME IInv, Types, Safe, OInv, Plain, ~FastBus, Active, HwLength
  PROVE  OInv'
<1> USE DEF driver, caller, handler, starter, line, history
<1>1. spc = "none" /\ cpc # "starting" /\ hpc \in {"off", "woken"} /\ fifo # <<>> /\ bus = "rxlen"
  BY Standing DEF HwLength
<1>2. ~fault /\ cpc \in {"wait", "droptx"} /\ state = "START" /\ result \notin {"num", "EIO"}
  BY <1>1, UnderWay DEF OInv, Failed, Active, Working
<1>3. Asking /\ Len(fifo) = 1 /\ ~Coming /\ ~Ahead
  BY <1>1, <1>2 DEF OInv, OnBus, Coming, Ahead
<1>4. fifo \in Seq(Token) /\ Head(fifo) = Entry("L", Len(cur), LastLen, TRUE) /\ Tail(fifo) = <<>>
  <2>1. fifo \in Seq(Token)
    BY DEF IInv, Queues
  <2>2. Head(fifo) = fifo[1] /\ Tail(fifo) \in Seq(Token) /\ Len(Tail(fifo)) = 0
    BY <1>1, <1>3, <2>1, HeadTailProperties
  <2>3. fifo[1] = Entry("L", Len(cur), LastLen, TRUE)
    BY <1>2, <1>3 DEF OInv, Entries
  <2> QED BY <2>1, <2>2, <2>3, EmptySeq
<1>5. /\ fifo' = <<>> /\ bus' = "rx" /\ isr' = isr \cup PopEvents
      /\ rd' = [m |-> Len(cur), got |-> 0, len |-> LastLen, stop |-> TRUE]
      /\ UNCHANGED <<tx_msg, rx_msg, nmsgs, tx_pos, rx_pos, state, cpc, cur, result, hpc, snap, pend, clr,
                     spc, first, msg, rxq, rfd, ier, wire, buf, fault>>
  <2>1. Head(fifo).m = Len(cur) /\ Head(fifo).n = LastLen /\ Head(fifo).stop = TRUE
    BY <1>4 DEF Entry
  <2>2. HwLengths(Head(fifo)) = {[m |-> Len(cur), got |-> 0, len |-> LastLen, stop |-> TRUE]}
    <3>1. Head(fifo).k = "L"
      BY <1>4 DEF Entry
    <3> DEFINE e == Head(fifo)
    <3>2. e.k = "L" /\ e.m = Len(cur) /\ e.n = LastLen /\ e.stop = TRUE
      BY <2>1, <3>1
    <3> HIDE DEF e
    <3>3. HwLengths(e) = {[m |-> e.m, got |-> 0, len |-> e.n, stop |-> e.stop]}
      BY <3>2 DEF HwLengths
    <3>4. HwLengths(e) = {[m |-> Len(cur), got |-> 0, len |-> LastLen, stop |-> TRUE]}
      BY <3>2, <3>3
    <3> QED BY <3>4 DEF e
  <2>3. rd' \in HwLengths(Head(fifo)) /\ Pop /\ isr' = isr \cup PopEvents
        /\ bus' = (IF rd'.len > 0 THEN "rx" ELSE IF rd'.stop THEN "stopping" ELSE "held")
        /\ UNCHANGED <<rxq, wire, fault>>
    BY DEF HwLength
  <2>4. rd' = [m |-> Len(cur), got |-> 0, len |-> LastLen, stop |-> TRUE]
    BY <2>2, <2>3
  <2>5. LastLen \in Nat /\ LastLen > 0
    <3>1. cur[tx_msg].rd
      BY <1>3 DEF Asking, Reading
    <3> QED BY <3>1, UnderWay DEF LastLen
  <2>6. bus' = "rx"
    BY <2>3, <2>4, <2>5
  <2> QED BY <1>4, <2>3, <2>4, <2>6 DEF Pop
<1>6. Active' /\ Reading /\ Reading' /\ Coming' /\ ~Asking' /\ ~Ahead'
  BY <1>1, <1>2, <1>3, <1>5 DEF Active, Working, Reading, Coming, Asking, Ahead
<1>7. PutMsg' = PutMsg /\ PutPos = 0 /\ PutPos' = 0 /\ LastLen' = LastLen /\ Count = 0 /\ Count' = 0
  BY <1>3, <1>5, <1>6 DEF PutMsg, PutPos, LastLen, Count
<1>8. "RXFULL" \notin isr /\ "TXERR" \notin isr /\ "TXERR" \in ier
  BY <1>1, <1>2, <1>3, NothingRead
<1>9. PopEvents \subseteq TxBits
  BY DEF PopEvents, TxBits
<1>10. Calls' /\ Armed' /\ Failed'
  BY <1>1, <1>2, <1>3, <1>5, <1>6, <1>8 DEF OInv, Calls, Armed, Failed
<1>11. Progress'
  BY <1>1, <1>2, <1>5, <1>6 DEF OInv, Progress
<1>12. Results'
  BY <1>2, <1>5 DEF Results
<1>13. Entries' /\ Sent'
  <2>1. PartOf(cur', fifo', Count')
    BY <1>7 DEF PartOf
  <2>2. Triples(fifo, 0) = Triples(<<>>, 0)
    BY DEF Triples
  <2>3. Upto(cur, wire \o Triples(fifo, 0), PutMsg, PutPos)
    BY <1>2, <1>7 DEF OInv, Sent
  <2> QED BY <1>5, <1>6, <1>7, <2>1, <2>2, <2>3 DEF Entries, Sent
<1>14. OnBus'
  <2>1. "ARB" \notin isr' /\ "BNB" \notin isr'
    <3>1. "ARB" \notin isr /\ "BNB" \notin isr
      BY <1>1, <1>2 DEF OInv, OnBus
    <3> QED BY <1>5, <1>9, <3>1 DEF TxBits
  <2>2. LastLen \in Nat /\ LastLen > 0
    <3>1. cur[tx_msg].rd
      BY <1>6 DEF Reading
    <3> QED BY <1>2, <3>1, UnderWay DEF LastLen
  <2> QED BY <1>5, <1>6, <1>7, <2>1, <2>2 DEF OnBus
<1>15. Arrived'
  BY <1>2, <1>5, <1>6, <1>7 DEF OInv, Arrived
<1>16. Signals'
  <2>1. "RXFULL" \notin isr' /\ "TXERR" \notin isr'
    BY <1>5, <1>8, <1>9 DEF TxBits
  <2>2. rd'.got # rd'.len
    <3>1. LastLen # 0
      BY <1>2, <1>6, UnderWay DEF LastLen, Reading
    <3> QED BY <1>5, <3>1
  <2> QED BY <1>1, <1>5, <2>1, <2>2 DEF Signals, ToRead
<1> QED BY <1>10, <1>11, <1>12, <1>13, <1>14, <1>15, <1>16 DEF OInv

\* A byte arrives.
LEMMA ReadOrder ==
  ASSUME IInv, Types, Safe, OInv, Plain, ~FastBus, Active, HwRead
  PROVE  OInv'
<1> USE DEF driver, caller, handler, starter, line, history
<1> DEFINE n == rd.got + 1
<1>1. spc = "none" /\ cpc # "starting" /\ hpc \in {"off", "woken"} /\ bus = "rx" /\ Len(rxq) <= Watermark(rfd)
  BY Standing DEF HwRead
<1>2. ~fault /\ cpc \in {"wait", "droptx"} /\ state = "START" /\ result \notin {"num", "EIO"}
  BY <1>1, UnderWay DEF OInv, Failed, Active, Working
<1>3. Coming /\ fifo = <<>> /\ Reading /\ ~Asking /\ ~Ahead
  <2>1. Coming
    BY <1>1, <1>2 DEF OInv, OnBus
  <2> QED BY <1>1, <2>1 DEF Coming, Asking, Ahead
<1>4. rd.m = Len(cur) /\ rd.len = LastLen /\ rd.stop = TRUE /\ rd.got < rd.len /\ rd.got \in Nat /\ rd.len \in Nat
      /\ n \in Nat /\ n <= LastLen /\ LastLen \in Nat
  <2>1. rd.m = Len(cur) /\ rd.len = LastLen /\ rd.stop = TRUE /\ rd.got < rd.len
    BY <1>1, <1>2, <1>3 DEF OInv, OnBus
  <2>2. rd.got \in Nat /\ rd.len \in Nat
    BY DEF IInv, Numbers
  <2> QED BY <2>1, <2>2
<1>5. /\ rxq' = Append(rxq, <<Len(cur), n>>)
      /\ wire' = Append(wire, <<"B", Len(cur), n>>)
      /\ rd' = [rd EXCEPT !.got = n]
      /\ isr' = isr \cup (IF Len(rxq) = Watermark(rfd) THEN {"RXFULL"} ELSE {})
                    \cup (IF n = LastLen THEN {"TXERR"} ELSE {})
      /\ bus' = (IF n < LastLen THEN "rx" ELSE "stopping")
      /\ UNCHANGED <<tx_msg, rx_msg, nmsgs, tx_pos, rx_pos, state, cpc, cur, result, hpc, snap, pend, clr,
                     spc, first, msg, fifo, rfd, ier, buf, fault>>
  BY <1>4 DEF HwRead
<1>6. rd'.m = Len(cur) /\ rd'.len = LastLen /\ rd'.stop = TRUE /\ rd'.got = n
  <2>1. rd \in [m : Nat, got : Nat, len : Nat, stop : BOOLEAN]
    BY DEF IInv, Numbers
  <2> HIDE DEF n
  <2> QED BY <1>4, <1>5, <2>1
<1>7. Active' /\ Reading' /\ Coming' /\ ~Asking' /\ ~Ahead'
  BY <1>1, <1>2, <1>3, <1>5 DEF Active, Working, Reading, Coming, Asking, Ahead
<1>8. PutMsg = tx_msg /\ PutMsg' = tx_msg /\ PutPos = rd.got /\ PutPos' = n /\ LastLen' = LastLen
      /\ Count = 0 /\ Count' = 0
  <2>1. PutMsg = tx_msg /\ PutMsg' = tx_msg /\ LastLen' = LastLen
    BY <1>3, <1>5, <1>7 DEF PutMsg, LastLen
  <2>2. PutPos = rd.got /\ PutPos' = rd'.got
    BY <1>3, <1>7 DEF PutPos
  <2>3. Count = 0 /\ Count' = 0
    BY <1>3, <1>5, <1>7 DEF Count
  <2> QED BY <1>6, <2>1, <2>2, <2>3
<1>9. tx_msg = Len(cur) /\ cur[Len(cur)].rd /\ cur \in Seq(Message) /\ cur # <<>> /\ Len(cur) \in DOMAIN cur
      /\ cur[Len(cur)].len = LastLen /\ Len(cur) \in Nat
  BY <1>2, <1>3, UnderWay, Current DEF Reading, LastLen
<1>10. rxq \in Seq(Nat \X Nat) /\ Len(rxq) \in Nat /\ rxq' \in Seq(Nat \X Nat) /\ Len(rxq') = Len(rxq) + 1
       /\ \A i \in 1 .. Len(rxq) + 1 : rxq'[i] = IF i <= Len(rxq) THEN rxq[i] ELSE <<Len(cur), n>>
  <2>1. <<Len(cur), n>> \in Nat \X Nat
    BY <1>4, <1>9
  <2>2. rxq \in Seq(Nat \X Nat)
    BY DEF IInv, Queues
  <2> HIDE DEF n
  <2> QED BY <1>5, <2>1, <2>2, AppendProperties
<1>11. /\ rx_pos <= LastLen /\ (rx_msg = NULL <=> rx_pos = LastLen)
       /\ rx_pos + Len(rxq) = rd.got /\ Run(rxq, Len(cur), rx_pos)
       /\ (rx_msg # NULL => rx_msg = Len(cur) /\ rfd = Level(LastLen - rx_pos))
       /\ rx_pos \in Nat /\ rfd \in Nat
       /\ Stored(cur, buf, rx_pos)
  BY <1>2, <1>3, <1>8 DEF OInv, Arrived, IInv, Numbers, Queues
<1>12. rx_msg # NULL /\ rx_pos + Len(rxq') = n
  <2> HIDE DEF n
  <2>1. rx_pos + Len(rxq) < LastLen
    BY <1>4, <1>11
  <2>2. rx_pos # LastLen
    BY <1>4, <1>10, <1>11, <2>1
  <2> QED BY <1>4, <1>10, <1>11, <2>2 DEF n
<1>13. "BNB" \notin isr /\ "TXERR" \notin isr /\ "ARB" \notin isr
  <2>1. "ARB" \notin isr /\ "BNB" \notin isr
    BY <1>1, <1>2 DEF OInv, OnBus
  <2>2. rd.got # rd.len
    BY <1>4
  <2>3. "TXERR" \notin isr
    BY <1>1, <1>2, <2>2 DEF OInv, Signals, ToRead
  <2> QED BY <2>1, <2>3
<1>14. Upto(cur, wire', Len(cur), n)
  <2>1. Upto(cur, wire, Len(cur), rd.got)
    BY <1>2, <1>3, <1>8, <1>9, SentAll
  <2>2. wire \in Seq(Link) /\ <<"B", Len(cur), n>> \in Link
    <3>1. wire \in Seq({"W", "R", "D", "B"} \X Nat \X Nat)
      BY DEF Types, History
    <3>2. {"W", "R", "D", "B"} \X Nat \X Nat \subseteq Link
      BY DEF Link
    <3>3. wire \in Seq(Link)
      BY <3>1, <3>2, SeqMonotonic
    <3> QED BY <1>4, <1>9, <3>3 DEF Link
  <2> DEFINE x == <<"B", Len(cur), n>>
             s == <<x>>
  <2>3. x = Item(cur, Len(cur), rd.got + 1)
    BY <1>4, <1>9 DEF Item
  <2>4. s \in Seq(Link) /\ Len(s) = 1 /\ s[1] = x
    <3> HIDE DEF n
    <3> QED BY <2>2
  <2>5. \A i \in 1 .. Len(s) : s[i] = Item(cur, Len(cur), rd.got + i)
    BY <2>3, <2>4
  <2>6. rd.got \in Int /\ rd.got >= -1 /\ rd.got + Len(s) <= cur[Len(cur)].len /\ rd.got + Len(s) = n
    BY <1>4, <1>9, <2>4
  <2>7. Upto(cur, wire \o s, Len(cur), rd.got + Len(s))
    <3> HIDE DEF s, n
    <3> QED BY <1>9, <2>1, <2>2, <2>4, <2>5, <2>6, UptoMore
  <2>8. wire' = wire \o s
    <3> HIDE DEF n
    <3> QED BY <1>5, <2>2, AppendIsConcat
  <2> QED BY <2>6, <2>7, <2>8
<1> HIDE DEF n
<1>15. wire' \in Seq(Link) /\ wire' \o Triples(<<>>, 0) = wire'
  <2>1. wire' \in Seq({"W", "R", "D", "B"} \X Nat \X Nat)
    <3>1. <<"B", Len(cur), n>> \in {"W", "R", "D", "B"} \X Nat \X Nat
      BY <1>4, <1>9
    <3>2. wire \in Seq({"W", "R", "D", "B"} \X Nat \X Nat)
      BY DEF Types, History
    <3> QED BY <1>5, <3>1, <3>2, AppendProperties
  <2>2. {"W", "R", "D", "B"} \X Nat \X Nat \subseteq Link
    BY DEF Link
  <2>3. wire' \in Seq(Link)
    BY <2>1, <2>2, SeqMonotonic
  <2>4. Triples(<<>>, 0) = <<>>
    BY DEF Triples
  <2> QED BY <2>3, <2>4, ConcatEmptySeq
<1>16. Calls' /\ Failed'
  BY <1>1, <1>2, <1>5, <1>7 DEF OInv, Calls, Failed
<1>17. Armed' /\ Progress'
  <2>1. Armed'
    BY <1>1, <1>2, <1>3, <1>5, <1>7 DEF OInv, Armed
  <2>2. Progress'
    BY <1>1, <1>2, <1>3, <1>5, <1>7 DEF OInv, Progress
  <2> QED BY <2>1, <2>2
<1>18. Results'
  BY <1>2, <1>5 DEF Results
<1>19. Entries' /\ Sent'
  <2>1. PartOf(cur', fifo', Count')
    BY <1>8 DEF PartOf
  <2>2. Upto(cur', wire' \o Triples(fifo', Count'), PutMsg', PutPos')
    BY <1>3, <1>5, <1>8, <1>9, <1>14, <1>15
  <2> QED BY <1>7, <2>1, <2>2 DEF Entries, Sent
<1>20. OnBus'
  <2>1. bus' = "stopping" => Whole(cur', wire')
    <3>1. bus' = "stopping" => n = LastLen
      BY <1>4, <1>5
    <3> QED BY <1>5, <1>14, <3>1 DEF Whole, LastLen
  <2>2. bus' = "rx" => n < LastLen
    BY <1>5
  <2>3. bus' = "stopping" => n = LastLen
    BY <1>4, <1>5
  <2>4. "ARB" \notin isr' /\ "BNB" \notin isr' /\ bus' \in {"rx", "stopping"}
    BY <1>5, <1>13
  <2> QED BY <1>3, <1>4, <1>5, <1>6, <1>7, <1>8, <2>1, <2>2, <2>3, <2>4 DEF OnBus
<1>21. Arrived'
  <2>1. Run(rxq', Len(cur), rx_pos)
    <3> SUFFICES ASSUME NEW i \in 1 .. Len(rxq) + 1 PROVE rxq'[i] = <<Len(cur), rx_pos + i>>
      BY <1>10 DEF Run
    <3>1. CASE i <= Len(rxq)
      <4>1. i \in DOMAIN rxq
        BY <1>10, <3>1
      <4> QED BY <1>10, <1>11, <3>1, <4>1 DEF Run
    <3>2. CASE i > Len(rxq)
      <4>1. i = Len(rxq) + 1 /\ rx_pos + i = n
        BY <1>10, <1>12, <3>2
      <4>2. rxq'[i] = <<Len(cur), n>>
        BY <1>10, <3>2
      <4> QED BY <4>1, <4>2
    <3> QED BY <1>10, <3>1, <3>2
  <2> QED BY <1>5, <1>7, <1>8, <1>11, <1>12, <2>1 DEF Arrived
<1>22. Signals'
  <2>1. n = LastLen => Len(rxq) = Watermark(rfd)
    <3> DEFINE q == Len(rxq)
               r == LastLen - rx_pos
    <3>1. q \in Nat /\ rx_pos + q + 1 = n /\ q <= Watermark(Level(r)) /\ rfd = Level(r)
      BY <1>1, <1>10, <1>11, <1>12
    <3>2. r \in Nat /\ r # 0
      BY <1>4, <1>11, <1>12
    <3> HIDE DEF q
    <3>3. n = LastLen => r = q + 1
      BY <1>4, <1>11, <3>1
    <3> HIDE DEF r
    <3>4. n = LastLen => q = Watermark(Level(r))
      BY <3>1, <3>2, <3>3, DepthAssumption DEF Level, Watermark, Minus1
    <3> QED BY <3>1, <3>4 DEF q
  <2>2. "TXERR" \in isr' => "RXFULL" \in isr' /\ n = LastLen
    BY <1>5, <1>13, <2>1
  <2>3. n = LastLen => "RXFULL" \in isr'
    BY <1>5, <2>1
  <2>4. rxq' # <<>>
    BY <1>10
  <2> QED BY <1>1, <1>5, <1>6, <1>7, <2>2, <2>3, <2>4 DEF Signals, ToRead
<1> QED BY <1>16, <1>17, <1>18, <1>19, <1>20, <1>21, <1>22 DEF OInv

-----------------------------------------------------------------------------
(***************************************************************************)
(* xiic_read_rx and xiic_fill_tx_fifo.                                     *)
(***************************************************************************)
-----------------------------------------------------------------------------
(***************************************************************************)
(* xiic_read_rx and xiic_fill_tx_fifo.                                     *)
(***************************************************************************)
LEMMA BytesMore ==
  ASSUME NEW m \in Nat, NEW p \in Nat, NEW q \in Seq(Nat \X Nat), Run(q, m, p)
  PROVE  BytesOf(m, p) \o q = BytesOf(m, p + Len(q))
<1> DEFINE a == BytesOf(m, p)
           k == Len(q)
           b == BytesOf(m, p + k)
<1>1. k \in Nat /\ p + k \in Nat
  OBVIOUS
<1>2. \A j \in Nat : BytesOf(m, j) \in Seq(Nat \X Nat) /\ Len(BytesOf(m, j)) = j
                     /\ \A i \in 1 .. j : BytesOf(m, j)[i] = <<m, i>>
  <2> TAKE j \in Nat
  <2>1. \A i \in 1 .. j : <<m, i>> \in Nat \X Nat
    OBVIOUS
  <2>2. BytesOf(m, j) \in [1 .. j -> Nat \X Nat]
    BY <2>1 DEF BytesOf
  <2>3. BytesOf(m, j) \in Seq(Nat \X Nat) /\ Len(BytesOf(m, j)) = j
    BY <2>2, IsASeq
  <2> QED BY <2>3 DEF BytesOf
<1>3. a \in Seq(Nat \X Nat) /\ Len(a) = p /\ \A i \in 1 .. p : a[i] = <<m, i>>
  BY <1>2
<1>4. b \in Seq(Nat \X Nat) /\ Len(b) = p + k /\ \A i \in 1 .. p + k : b[i] = <<m, i>>
  BY <1>1, <1>2
<1>5. \A i \in 1 .. k : q[i] = <<m, p + i>>
  BY <1>1 DEF Run
<1> HIDE DEF a, b
<1>6. a \o q \in Seq(Nat \X Nat) /\ Len(a \o q) = Len(a) + Len(q)
      /\ \A i \in 1 .. Len(a) + Len(q) : (a \o q)[i] = IF i <= Len(a) THEN a[i] ELSE q[i - Len(a)]
  <2>1. a \in Seq(Nat \X Nat)
    BY <1>3
  <2> QED BY <2>1, Chained
<1>7. \A i \in 1 .. p + k : (a \o q)[i] = b[i]
  <2> TAKE i \in 1 .. p + k
  <2>1. (a \o q)[i] = IF i <= p THEN a[i] ELSE q[i - p]
    BY <1>3, <1>6
  <2>0. i \in Nat
    BY <1>1
  <2>2. CASE i <= p
    <3>1. i \in 1 .. p
      BY <2>0, <2>2
    <3> QED BY <1>3, <1>4, <2>1, <2>2, <3>1
  <2>3. CASE i > p
    <3>1. i - p \in 1 .. k /\ p + (i - p) = i
      BY <1>1, <2>3
    <3>2. q[i - p] = <<m, i>>
      BY <1>5, <3>1
    <3>3. ~(i <= p)
      BY <2>0, <2>3
    <3> QED BY <1>4, <2>1, <3>2, <3>3
  <2>4. i <= p \/ i > p
    BY <2>0
  <2> QED BY <2>2, <2>3, <2>4
<1>8. a \o q = b
  BY <1>1, <1>3, <1>4, <1>6, <1>7, SeqEqual
<1> QED BY <1>8 DEF a, b

LEMMA ReadRxOrder ==
  ASSUME IInv, Types, Safe, OInv, Plain, Active, ReadRx
  PROVE  OInv'
<1> USE DEF driver, caller, handler, starter, line, history
<1> DEFINE q == Len(rxq)
           left == LastLen - rx_pos - q
<1>1. cpc \in {"wait", "droptx"} /\ spc = "none" /\ hpc = "read" /\ hpc' = "bnb" /\ ~fault /\ ~Ahead
      /\ state = "START" /\ result \notin {"num", "EIO"}
  <2>1. Inside /\ hpc = "read" /\ hpc' = "bnb"
    BY DEF ReadRx, Inside
  <2> QED BY <2>1, Handling DEF Ahead
<1>2. clr = {"RXFULL"} /\ snap = isr /\ pend = isr \cap ier /\ rx_msg # NULL /\ "RXFULL" \in isr
      /\ Reading /\ rxq # <<>>
  BY <1>1 DEF OInv, Signals, ToRead
<1>3. rx_msg = Len(cur) /\ tx_msg = Len(cur) /\ nmsgs = 1 /\ cur[Len(cur)].len = LastLen /\ LastLen \in Nat
      /\ Len(cur) \in DOMAIN cur /\ Len(cur) \in Nat
  <2>1. rx_msg = Len(cur)
    BY <1>1, <1>2 DEF OInv, Arrived
  <2>2. tx_msg = Len(cur) /\ Len(cur) \in Nat
    BY <1>1, <1>2, UnderWay, Current DEF Reading
  <2>3. nmsgs = 1 /\ LastLen \in Nat /\ Len(cur) \in DOMAIN cur
    BY <1>1, <2>2, UnderWay
  <2> QED BY <2>1, <2>2, <2>3 DEF LastLen
<1>4. rxq \in Seq(Nat \X Nat) /\ q \in Nat /\ q >= 1
  <2>1. rxq \in Seq(Nat \X Nat)
    BY DEF IInv, Queues
  <2> QED BY <1>2, <2>1, EmptySeq
<1>5. rx_pos \in Nat /\ rx_pos <= LastLen /\ rx_pos + q = PutPos /\ Run(rxq, Len(cur), rx_pos)
      /\ Stored(cur, buf, rx_pos)
  BY <1>1, <1>2 DEF OInv, Arrived, IInv, Numbers
<1>6. Coming /\ PutPos = rd.got /\ rd.got <= LastLen /\ rd.len = LastLen /\ rd.got \in Nat
  <2> HIDE DEF q
  <2>1. Coming
    <3> SUFFICES ASSUME ~Coming PROVE FALSE
      OBVIOUS
    <3>1. PutPos = 0
      BY <1>1, <1>2 DEF PutPos
    <3> QED BY <1>4, <1>5, <3>1
  <2>2. PutPos = rd.got
    BY <1>1, <1>2, <2>1 DEF PutPos
  <2>3. rd.len = LastLen /\ rd.got <= rd.len
    BY <1>1, <2>1 DEF OInv, OnBus
  <2>4. rd.got \in Nat
    BY DEF IInv, Numbers
  <2> QED BY <2>1, <2>2, <2>3, <2>4
<1>7. left \in Nat /\ ~(q > LastLen - rx_pos)
  <2> HIDE DEF q
  <2> QED BY <1>3, <1>4, <1>5, <1>6
<1>8. Received = rxq
  <2>1. Received = SubSeq(rxq, 1, q)
    BY <1>2, <1>3, <1>7 DEF Received
  <2> QED BY <1>4, <2>1, SubSeqFull
<1>9. SubSeq(rxq, Len(rxq) + 1, Len(rxq)) = <<>>
  BY <1>4, SubSeqEmpty
<1>10. cur[rx_msg].len - rx_pos - Len(Received) = left
  BY <1>3, <1>8
<1> HIDE DEF left
<1>11. rxq' = <<>> /\ rfd' = (IF left > Depth THEN Depth - 1 ELSE Minus1(left))
       /\ rx_msg' = (IF left = 0 THEN NULL ELSE rx_msg)
       /\ clr' = (IF left = 0 THEN clr \cup (snap \cap {"TXERR"}) ELSE clr)
       /\ rx_pos' = rx_pos + q
       /\ UNCHANGED <<tx_msg, nmsgs, tx_pos, state, spc, first, msg, cpc, cur, result, snap, pend, fifo, bus, rd,
                      ier, isr, wire, fault>>
  <2>1. rxq' = <<>>
    BY <1>2, <1>8, <1>9, <1>4 DEF ReadRx
  <2>2. rfd' = (IF left > Depth THEN Depth - 1 ELSE Minus1(left))
    BY <1>10 DEF ReadRx
  <2>3. rx_msg' = (IF left = 0 THEN NULL ELSE rx_msg) /\ clr' = (IF left = 0 THEN clr \cup (snap \cap {"TXERR"}) ELSE clr)
    BY <1>10 DEF ReadRx
  <2>4. rx_pos' = rx_pos + q /\ UNCHANGED <<tx_msg, nmsgs, tx_pos, state, spc, first, msg>>
    BY <1>3, <1>8 DEF ReadRx
  <2>5. isr' = isr
    <3>1. isr' = IF Len(rxq') > Watermark(rfd') THEN isr \cup {"RXFULL"} ELSE isr
      BY DEF ReadRx
    <3>2. Len(rxq') = 0
      BY <2>1
    <3>3. Watermark(rfd') \in Nat
      BY <1>7, <2>2, DepthAssumption DEF Minus1, Watermark
    <3> DEFINE k == Len(rxq')
    <3>4. k = 0 /\ isr' = IF k > Watermark(rfd') THEN isr \cup {"RXFULL"} ELSE isr
      BY <3>1, <3>2
    <3> HIDE DEF k
    <3> QED BY <3>3, <3>4
  <2>6. UNCHANGED <<cpc, cur, result, snap, pend, fifo, bus, rd, ier, wire, fault>>
    BY DEF ReadRx
  <2> HIDE DEF q
  <2> QED BY <2>1, <2>2, <2>3, <2>4, <2>5, <2>6
<1>12. buf' = [buf EXCEPT ![Len(cur)] = buf[Len(cur)] \o rxq]
  BY <1>3, <1>8 DEF ReadRx
<1> HIDE DEF q
<1>13. Active' /\ Reading' /\ Coming' /\ ~Asking' /\ ~Asking /\ ~Ahead' /\ PutMsg' = PutMsg /\ PutPos' = PutPos
       /\ Count' = Count /\ LastLen' = LastLen
  <2>1. Active' /\ Reading' /\ Coming' /\ ~Asking' /\ ~Asking /\ ~Ahead'
    BY <1>1, <1>2, <1>6, <1>11 DEF Active, Working, Reading, Coming, Asking, Ahead
  <2>2. PutMsg' = PutMsg /\ PutPos' = PutPos /\ Count' = Count /\ LastLen' = LastLen
    BY <1>1, <1>2, <1>6, <1>11, <2>1 DEF PutMsg, PutPos, Count, LastLen
  <2> QED BY <2>1, <2>2
<1>14. Calls' /\ Results' /\ Failed'
  <2>1. Calls' /\ Failed'
    BY <1>1, <1>11, <1>13 DEF OInv, Calls, Failed
  <2>2. Results'
    BY <1>1, <1>11 DEF Results
  <2> QED BY <2>1, <2>2
<1>15. Armed' /\ Progress'
  BY <1>1, <1>2, <1>11, <1>13 DEF OInv, Armed, Progress
<1>16. Entries' /\ Sent' /\ OnBus'
  <2>1. Entries' /\ Sent'
    BY <1>1, <1>11, <1>13 DEF OInv, Entries, Sent
  <2>2. OnBus'
    BY <1>1, <1>6, <1>11, <1>13 DEF OInv, OnBus
  <2> QED BY <2>1, <2>2
<1>17. Arrived'
  <2>1. Stored(cur', buf', rx_pos')
    <3>1. DOMAIN buf = DOMAIN cur /\ \A m \in DOMAIN cur : buf[m] = BytesOf(m, IF m = Len(cur) THEN rx_pos ELSE 0)
      BY <1>5 DEF Stored
    <3>2. buf[Len(cur)] = BytesOf(Len(cur), rx_pos)
      BY <1>3, <3>1
    <3>3. buf[Len(cur)] \o rxq = BytesOf(Len(cur), rx_pos + q)
      <4>1. BytesOf(Len(cur), rx_pos) \o rxq = BytesOf(Len(cur), rx_pos + q)
        BY <1>3, <1>4, <1>5, BytesMore DEF q
      <4> QED BY <3>2, <4>1
    <3>4. DOMAIN buf' = DOMAIN cur /\ buf'[Len(cur)] = BytesOf(Len(cur), rx_pos + q)
          /\ \A m \in DOMAIN cur : m # Len(cur) => buf'[m] = buf[m]
      <4>1. buf \in Seq(Seq(Nat \X Nat))
        BY DEF Types, History
      <4> QED BY <1>3, <1>12, <3>1, <3>3, <4>1
    <3> QED BY <1>11, <3>1, <3>4 DEF Stored
  <2>2. rx_pos' <= LastLen /\ (rx_msg' = NULL <=> rx_pos' = LastLen) /\ LastLen - rx_pos' = left /\ rx_pos' \in Nat
    <3> QED BY <1>2, <1>3, <1>4, <1>5, <1>7, <1>11 DEF left
  <2>3. rx_pos' + Len(rxq') = PutPos
    <3>1. Len(rxq') = 0
      BY <1>11
    <3> QED BY <1>4, <1>5, <1>11, <3>1
  <2>4. Run(rxq', Len(cur), rx_pos')
    BY <1>11 DEF Run
  <2>5. rx_msg' # NULL => rfd' = Level(LastLen - rx_pos') /\ rx_msg' = Len(cur)
    BY <1>3, <1>7, <1>11, <2>2 DEF Level
  <2> QED BY <1>11, <1>13, <2>1, <2>2, <2>3, <2>4, <2>5 DEF Arrived
<1>18. Signals'
  <2>1. "TXERR" \in isr => left = 0
    <3>1. "TXERR" \in isr => rd.got = rd.len
      BY <1>1 DEF OInv, Signals, ToRead
    <3> QED BY <1>3, <1>4, <1>5, <1>6, <3>1 DEF left
  <2>2. rx_msg' # NULL => rd.got < rd.len
    <3> QED BY <1>3, <1>4, <1>5, <1>6, <1>7, <1>11 DEF left
  <2>3. clr' \subseteq isr \cap {"RXFULL", "TXERR"} /\ isr \cap {"RXFULL", "TXERR"} \subseteq clr' /\ "BNB" \notin clr'
    BY <1>2, <1>11, <2>1
  <2> QED BY <1>1, <1>2, <1>11, <1>13, <2>2, <2>3 DEF Signals, ToRead
<1> QED BY <1>14, <1>15, <1>16, <1>17, <1>18 DEF OInv

\* Before the last byte was put into the FIFO the bus has not stopped.
LEMMA NotYetWhole ==
  ASSUME IInv, Types, Safe, OInv, Plain, Active, ~fault, PutMsg \in Nat, PutPos \in Nat,
         PutMsg < Len(cur) \/ (PutMsg = Len(cur) /\ PutPos < LastLen)
  PROVE  bus # "stopping" /\ "BNB" \notin isr
<1> SUFFICES ASSUME fifo = <<>> /\ Whole(cur, wire) PROVE FALSE
  BY DEF OInv, OnBus
<1>1. cur \in Seq(Message) /\ cur # <<>> /\ Len(cur) \in Nat /\ LastLen \in Nat
  BY UnderWay, Current
<1>2. Len(cur) < PutMsg \/ (Len(cur) = PutMsg /\ LastLen <= PutPos)
  BY <1>1, SentAll, LastIfWhole DEF LastLen
<1> DEFINE l == Len(cur)
<1>3. l \in Nat /\ (l < PutMsg \/ (l = PutMsg /\ LastLen <= PutPos))
      /\ (PutMsg < l \/ (PutMsg = l /\ PutPos < LastLen))
  BY <1>1, <1>2
<1> HIDE DEF l
<1> QED BY <1>1, <1>3

\* What xiic_fill_tx_fifo, xiic_start_send or xiic_start_recv puts into the FIFO.
LEMMA PutMore ==
  ASSUME IInv, Types, Plain, NEW m \in DOMAIN cur, NEW p \in Int, p >= -1,
         NEW u \in Seq(Token), p + Len(u) <= cur[m].len,
         \A i \in 1 .. Len(u) :
           /\ <<u[i].k, u[i].m, u[i].n>> = Item(cur, m, p + i)
           /\ u[i].k # "R" => (u[i].stop <=> m = Len(cur) /\ p + i = cur[m].len),
         PartOf(cur, fifo, Len(fifo)), Upto(cur, wire \o Triples(fifo, Len(fifo)), m, p)
  PROVE  /\ PartOf(cur, fifo \o u, Len(fifo \o u))
         /\ Upto(cur, wire \o Triples(fifo \o u, Len(fifo \o u)), m, p + Len(u))
<1>1. cur \in Seq(Message) /\ m \in 1 .. Len(cur) /\ m \in Nat /\ cur[m].len \in Nat /\ Len(cur) \in Nat
  BY Current, MessageOf
<1>2. fifo \in Seq(Token) /\ Len(fifo) \in Nat /\ Len(u) \in Nat
  BY DEF IInv, Queues
<1>3. \A i \in 1 .. Len(u) : p + i \in 0 .. cur[m].len /\ u[i].m = m /\ u[i].n = p + i
  <2> TAKE i \in 1 .. Len(u)
  <2> DEFINE k == Len(u)
  <2>1. k \in Nat /\ i \in 1 .. k /\ p + k <= cur[m].len
    BY <1>2
  <2> HIDE DEF k
  <2>2. p + i \in 0 .. cur[m].len
    BY <1>1, <2>1
  <2>3. <<u[i].k, u[i].m, u[i].n>> = Item(cur, m, p + i)
    OBVIOUS
  <2>4. Item(cur, m, p + i)[2] = m /\ Item(cur, m, p + i)[3] = p + i
    BY ItemPlace
  <2> QED BY <2>2, <2>3, <2>4
<1> DEFINE g == fifo \o u
<1>4. g \in Seq(Token) /\ Len(g) = Len(fifo) + Len(u)
      /\ \A i \in 1 .. Len(fifo) + Len(u) : g[i] = IF i <= Len(fifo) THEN fifo[i] ELSE u[i - Len(fifo)]
  BY <1>2, Chained
<1>5. PartOf(cur, g, Len(g))
  <2> DEFINE Good(e) == /\ e.m \in DOMAIN cur /\ e.n \in 0 .. cur[e.m].len
                        /\ <<e.k, e.m, e.n>> = Item(cur, e.m, e.n)
                        /\ e.k # "R" => (e.stop <=> e.m = Len(cur) /\ e.n = cur[Len(cur)].len)
  <2>1. ASSUME NEW i \in 1 .. Len(u) PROVE Good(u[i])
    <3>1. p + i \in 0 .. cur[m].len /\ u[i].m = m /\ u[i].n = p + i
      BY <1>3
    <3>2. /\ <<u[i].k, u[i].m, u[i].n>> = Item(cur, m, p + i)
          /\ u[i].k # "R" => (u[i].stop <=> m = Len(cur) /\ p + i = cur[m].len)
      OBVIOUS
    <3>3. u[i].k # "R" => (u[i].stop <=> u[i].m = Len(cur) /\ u[i].n = cur[Len(cur)].len)
      BY <3>1, <3>2
    <3>4. u[i].m \in DOMAIN cur /\ u[i].n \in 0 .. cur[u[i].m].len
      BY <3>1, <3>2
    <3>5. <<u[i].k, u[i].m, u[i].n>> = Item(cur, u[i].m, u[i].n)
      BY <3>1, <3>2
    <3> QED BY <3>3, <3>4, <3>5
  <2>2. ASSUME NEW i \in 1 .. Len(fifo) PROVE Good(fifo[i])
    BY DEF PartOf
  <2> HIDE DEF Good, g
  <2>3. ASSUME NEW i \in 1 .. Len(fifo) + Len(u) PROVE Good(g[i])
    <3>1. CASE i <= Len(fifo)
      <4>1. i \in 1 .. Len(fifo) /\ g[i] = fifo[i]
        BY <1>2, <1>4, <3>1
      <4> QED BY <2>2, <4>1
    <3>2. CASE i > Len(fifo)
      <4>1. i - Len(fifo) \in 1 .. Len(u) /\ g[i] = u[i - Len(fifo)]
        BY <1>2, <1>4, <3>2
      <4> QED BY <2>1, <4>1
    <3>3. i <= Len(fifo) \/ i > Len(fifo)
      BY <1>2
    <3> QED BY <3>1, <3>2, <3>3
  <2> QED BY <1>4, <2>3 DEF PartOf, Good
<1>6. Upto(cur, wire \o Triples(g, Len(g)), m, p + Len(u))
  <2>1. wire \in Seq(Link)
    <3>1. wire \in Seq({"W", "R", "D", "B"} \X Nat \X Nat)
      BY DEF Types, History
    <3>2. {"W", "R", "D", "B"} \X Nat \X Nat \subseteq Link
      BY DEF Link
    <3> QED BY <3>1, <3>2, SeqMonotonic
  <2> DEFINE a == Triples(fifo, Len(fifo))
             s == Triples(u, Len(u))
  <2>2. a \in Seq(Link)
    BY <1>2, TriplesType
  <2>3. s \in Seq(Link) /\ Len(s) = Len(u) /\ \A i \in 1 .. Len(u) : s[i] = <<u[i].k, u[i].m, u[i].n>>
    <3>1. Len(u) \in 0 .. Len(u)
      BY <1>2
    <3> QED BY <3>1, TriplesType
  <2>4. wire \o Triples(g, Len(g)) = (wire \o a) \o s
    BY <1>2, <2>1, TriplesMore
  <2> HIDE DEF a, s, g
  <2>5. wire \o a \in Seq(Link)
    BY <2>1, <2>2, ConcatProperties
  <2>6. \A i \in 1 .. Len(s) : s[i] = Item(cur, m, p + i)
    BY <2>3
  <2>7. Upto(cur, wire \o a, m, p)
    BY DEF a
  <2>8. s \in Seq(Link) /\ p + Len(s) <= cur[m].len /\ p + Len(s) = p + Len(u)
    BY <2>3
  <2>9. Upto(cur, (wire \o a) \o s, m, p + Len(s))
    BY <1>1, <2>5, <2>6, <2>7, <2>8, UptoMore
  <2> QED BY <2>4, <2>8, <2>9
<1> QED BY <1>5, <1>6

LEMMA FillOrder ==
  ASSUME IInv, Types, Safe, OInv, Plain, Active, Fill
  PROVE  OInv'
<1> USE DEF driver, caller, handler, starter, line, history
<1> DEFINE p == tx_pos
           len == cur[tx_msg].len
           room == Space(fifo)
           n == IF len - p > room THEN room ELSE len - p
           s == [i \in 1 .. n |-> Entry("D", tx_msg, p + i, LastMsg /\ p + i = len)]
           f == Filled(fifo, tx_msg, tx_pos)
<1>1. cpc \in {"wait", "droptx"} /\ spc = "none" /\ hpc = "fill" /\ hpc' = "out" /\ ~fault /\ ~Ahead
      /\ state = "START" /\ result \notin {"num", "EIO"}
  <2>1. Inside /\ hpc = "fill" /\ hpc' = "out"
    BY DEF Fill, Inside
  <2> QED BY <2>1, Handling DEF Ahead
<1>2. tx_msg \in DOMAIN cur /\ tx_msg \in 1 .. Len(cur) /\ tx_msg \in Nat /\ len \in Nat /\ Len(cur) \in Nat
      /\ nmsgs = Len(cur) - tx_msg + 1 /\ cur \in Seq(Message)
  BY <1>1, UnderWay, Current
<1>3. p \in Nat /\ p <= len
  BY <1>2 DEF Fill, BadFill, IInv, Numbers
<1>4. fifo \in Seq(Token) /\ room \in Nat
  BY DepthAssumption DEF IInv, Queues, Space
<1>5. n \in Nat /\ p + n <= len
  BY <1>2, <1>3, <1>4
<1>6. f = [fifo |-> fifo \o s, pos |-> p + n]
  BY DEF Filled
<1>7. s \in Seq(Token) /\ Len(s) = n
      /\ \A i \in 1 .. n : s[i] = Entry("D", tx_msg, p + i, LastMsg /\ p + i = len)
  <2>1. s \in [1 .. n -> Token]
    <3> HIDE DEF n
    <3> QED BY <1>2, <1>3 DEF Entry, Token
  <2> HIDE DEF n
  <2>2. s \in Seq(Token) /\ Len(s) = n
    <3> HIDE DEF s
    <3> QED BY <1>5, <2>1, IsASeq
  <2> QED BY <2>2
<1>8. /\ fifo' = fifo \o s
      /\ UNCHANGED <<rx_msg, cpc, cur, result, snap, pend, clr, rxq, rfd, bus, rd, isr, wire, buf, fault>>
  <2>1. f.fifo = fifo \o s
    <3> DEFINE g == fifo \o s
               q == p + n
    <3>1. f = [fifo |-> g, pos |-> q]
      BY <1>6
    <3> HIDE DEF f, g, q
    <3>2. f.fifo = g
      BY <3>1
    <3> QED BY <3>2 DEF g
  <2> HIDE DEF s, n
  <2> QED BY <2>1 DEF Fill
<1> HIDE DEF s
<1>9. \/ /\ p + n = len /\ Space(fifo') >= 2 /\ nmsgs > 1
         /\ tx_msg' = tx_msg + 1 /\ nmsgs' = nmsgs - 1
         /\ spc' = "loop" /\ first' = TRUE /\ state' = "START" /\ rx_pos' = 0 /\ msg' = msg
         /\ tx_pos' = 0 /\ ier' = ier
      \/ /\ tx_pos' = p + n /\ ier' \in {ier, ier \ {"TXHALF"}}
         /\ UNCHANGED <<tx_msg, nmsgs, rx_pos, state, spc, first, msg>>
  <2> HIDE DEF n
  <2> QED BY <1>6, <1>8 DEF Fill, Enter
<1>10. state = "START" /\ result \notin {"num", "EIO"}
  BY <1>1
<1>11. state' = "START"
  <2> HIDE DEF n
  <2> QED BY <1>9, <1>10
<1>12. Active' /\ ~fault'
  <2> HIDE DEF n
  <2>1. tx_msg' # NULL
    BY <1>1, <1>2, <1>9 DEF NULL
  <2> QED BY <1>1, <1>8, <2>1 DEF Active, Working
<1>13. Calls' /\ Results' /\ Failed'
  <2> HIDE DEF n
  <2>1. Calls'
    BY <1>1, <1>8 DEF Calls
  <2>2. Results' /\ Failed'
    BY <1>8, <1>10, <1>11, <1>12 DEF Results, Failed
  <2> QED BY <2>1, <2>2
<1>14. "ARB" \in ier' /\ ("TXERR" \in ier => "TXERR" \in ier') /\ ("RXFULL" \in ier => "RXFULL" \in ier')
  <2> HIDE DEF n
  <2> QED BY <1>9 DEF OInv, Armed
<1>15. CASE Reading
  <2>1. p = len /\ tx_msg = Len(cur)
    BY <1>1, <1>15 DEF OInv, Progress
  <2>2. n = 0 /\ nmsgs = 1
    BY <1>2, <1>4, <2>1
  <2>3. fifo' = fifo
    <3>1. s = <<>>
      BY <1>7, <2>2, EmptySeq
    <3> QED BY <1>4, <1>8, <3>1, ConcatEmptySeq
  <2> HIDE DEF n
  <2>4. UNCHANGED <<tx_msg, nmsgs, tx_pos, rx_pos, state, spc, first, msg>>
    BY <1>3, <1>9, <2>2
  <2>5. (Reading' <=> Reading) /\ (Coming' <=> Coming) /\ (Asking' <=> Asking) /\ (Ahead' <=> Ahead) /\ (Active' <=> Active)
    BY <1>8, <2>3, <2>4 DEF Active, Working, Reading, Coming, Asking, Ahead
  <2>6. Count' = Count /\ PutMsg' = PutMsg /\ PutPos' = PutPos /\ LastLen' = LastLen
    BY <1>8, <2>3, <2>4, <2>5 DEF Count, PutMsg, PutPos, LastLen
  <2>7. Armed' /\ Progress'
    BY <1>1, <1>8, <1>14, <2>3, <2>4, <2>5 DEF OInv, Armed, Progress
  <2>8. Entries' /\ Sent' /\ OnBus' /\ Arrived'
    <3>1. Entries' /\ Sent'
      BY <1>1, <1>8, <2>3, <2>5, <2>6 DEF OInv, Entries, Sent
    <3>2. OnBus'
      BY <1>1, <1>8, <2>3, <2>5, <2>6 DEF OInv, OnBus
    <3>3. Arrived'
      BY <1>1, <1>8, <2>3, <2>4, <2>5, <2>6 DEF OInv, Arrived
    <3> QED BY <3>1, <3>2, <3>3
  <2>9. Signals'
    BY <1>1, <1>8, <2>3, <2>4, <2>5 DEF OInv, Signals, ToRead
  <2> QED BY <1>13, <2>7, <2>8, <2>9 DEF OInv
<1>16. CASE ~Reading
  <2>1. ~cur[tx_msg].rd /\ ~Asking /\ ~Coming /\ Count = Len(fifo) /\ PutMsg = tx_msg /\ PutPos = p
    BY <1>1, <1>16 DEF Reading, Asking, Coming, Count, PutMsg, PutPos
  <2>2. PartOf(cur, fifo, Len(fifo)) /\ Upto(cur, wire \o Triples(fifo, Len(fifo)), tx_msg, p)
    BY <1>1, <2>1 DEF OInv, Entries, Sent
  <2> HIDE DEF n
  <2>3. /\ PartOf(cur, fifo \o s, Len(fifo \o s))
        /\ Upto(cur, wire \o Triples(fifo \o s, Len(fifo \o s)), tx_msg, p + n)
    <3>1. ASSUME NEW i \in 1 .. Len(s)
          PROVE  /\ <<s[i].k, s[i].m, s[i].n>> = Item(cur, tx_msg, p + i)
                 /\ s[i].k # "R" => (s[i].stop <=> tx_msg = Len(cur) /\ p + i = cur[tx_msg].len)
      <4>1. s[i] = Entry("D", tx_msg, p + i, LastMsg /\ p + i = len) /\ i >= 1 /\ i \in Nat
        BY <1>5, <1>7
      <4>2. LastMsg <=> tx_msg = Len(cur)
        BY <1>2 DEF LastMsg
      <4>3. p + i # 0
        BY <1>3, <4>1
      <4>4. s[i].stop <=> LastMsg /\ p + i = len
        <5> DEFINE b == LastMsg /\ p + i = len
        <5>1. b \in BOOLEAN /\ s[i] = Entry("D", tx_msg, p + i, b)
          BY <4>1 DEF LastMsg
        <5> HIDE DEF b
        <5>2. s[i].stop = b
          BY <5>1 DEF Entry
        <5> QED BY <5>2 DEF b
      <4>5. s[i].k = "D" /\ s[i].m = tx_msg /\ s[i].n = p + i
        BY <4>1 DEF Entry
      <4>6. Item(cur, tx_msg, p + i) = <<"D", tx_msg, p + i>>
        BY <2>1, <4>3 DEF Item
      <4> QED BY <4>2, <4>4, <4>5, <4>6
    <3>2. s \in Seq(Token) /\ p \in Int /\ p >= -1 /\ p + Len(s) <= cur[tx_msg].len /\ p + Len(s) = p + n
      BY <1>3, <1>5, <1>7
    <3> HIDE DEF p, len
    <3> QED BY <1>2, <2>2, <3>1, <3>2, PutMore
  <2>4. rx_msg = NULL /\ rxq = <<>> /\ Stored(cur, buf, 0)
    BY <1>1, <1>16 DEF OInv, Arrived
  <2>5. ~Reading' /\ ~Asking' /\ ~Coming' /\ Count' = Len(fifo')
    <3>1. ~Reading'
      BY <1>1, <1>8, <1>9, <2>1 DEF Reading
    <3> QED BY <3>1 DEF Asking, Coming, Count
  <2>6. PutMsg' = tx_msg /\ PutPos' = p + n
    <3>1. CASE spc' = "none"
      <4>1. tx_msg' = tx_msg /\ tx_pos' = p + n /\ ~Ahead'
        BY <1>9, <3>1 DEF Ahead
      <4> QED BY <2>5, <4>1 DEF PutMsg, PutPos
    <3>2. CASE spc' = "loop"
      <4>1. tx_msg' = tx_msg + 1 /\ p + n = len /\ Ahead' /\ cur' = cur
        BY <1>1, <1>8, <1>9, <3>2 DEF Ahead
      <4>2. tx_msg' # 1 /\ tx_msg' - 1 = tx_msg
        BY <1>2, <4>1
      <4>3. PutMsg' = tx_msg' - 1 /\ PutPos' = cur'[tx_msg' - 1].len
        BY <4>1, <4>2 DEF PutMsg, PutPos
      <4> QED BY <4>1, <4>2, <4>3
    <3> QED BY <1>1, <1>9, <3>1, <3>2
  <2>7. Entries' /\ Sent'
    BY <1>8, <2>3, <2>5, <2>6 DEF Entries, Sent
  <2>8. bus' \in {"idle", "tx", "stopping"} /\ "ARB" \notin isr'
        /\ (bus' = "stopping" => fifo' = <<>> /\ Whole(cur', wire'))
        /\ ("BNB" \in isr' => bus' = "idle" /\ fifo' = <<>> /\ Whole(cur', wire'))
    <3>1. bus \in {"idle", "tx", "stopping"} /\ "ARB" \notin isr
          /\ (bus = "stopping" => fifo = <<>> /\ Whole(cur, wire))
          /\ ("BNB" \in isr => bus = "idle" /\ fifo = <<>> /\ Whole(cur, wire))
      BY <1>1, <2>1 DEF OInv, OnBus
    <3>2. bus = "stopping" \/ "BNB" \in isr => fifo' = fifo
      <4> SUFFICES ASSUME bus = "stopping" \/ "BNB" \in isr PROVE fifo' = fifo
        OBVIOUS
      <4>1. ~(tx_msg < Len(cur) \/ (tx_msg = Len(cur) /\ p < LastLen))
        BY <1>1, <1>2, <1>3, <2>1, NotYetWhole
      <4>2. tx_msg = Len(cur) /\ ~(p < len)
        <5> DEFINE l == Len(cur)
        <5>1. l \in Nat /\ tx_msg \in 1 .. l /\ ~(tx_msg < l \/ (tx_msg = l /\ p < LastLen))
          BY <1>2, <4>1
        <5>2. LastLen = cur[l].len
          BY DEF LastLen
        <5> HIDE DEF l
        <5>3. tx_msg = l
          BY <5>1
        <5> QED BY <5>1, <5>2, <5>3 DEF l
      <4>3. n = 0
        BY <1>2, <1>3, <1>5, <4>2
      <4>4. s = <<>>
        BY <1>7, <4>3, EmptySeq
      <4> QED BY <1>4, <1>8, <4>4, ConcatEmptySeq
    <3> QED BY <1>8, <3>1, <3>2
  <2>9. OnBus'
    BY <2>5, <2>8 DEF OnBus
  <2>10. Arrived'
    BY <1>8, <2>4, <2>5 DEF Arrived
  <2>11. Armed'
    <3>1. "TXERR" \in ier
      BY <1>1 DEF OInv, Armed
    <3> QED BY <1>14, <2>5, <3>1 DEF Armed
  <2>12. Progress'
    <3>1. CASE spc' = "none"
      <4>1. tx_msg' = tx_msg /\ nmsgs' = nmsgs /\ tx_pos' = p + n /\ ~Ahead'
        BY <1>9, <3>1 DEF Ahead
      <4> QED BY <1>2, <1>5, <1>8, <2>5, <3>1, <4>1 DEF Progress
    <3>2. CASE spc' = "loop"
      <4>1. tx_msg' = tx_msg + 1 /\ nmsgs' = nmsgs - 1 /\ nmsgs > 1 /\ Ahead' /\ cur' = cur /\ Space(fifo') >= 2
            /\ first' = TRUE
        BY <1>1, <1>8, <1>9, <3>2 DEF Ahead
      <4>2. tx_msg' \in DOMAIN cur /\ nmsgs' = Len(cur) - tx_msg' + 1
        BY <1>2, <4>1
      <4> QED BY <2>5, <3>2, <4>1, <4>2 DEF Progress
    <3> QED BY <1>1, <1>9, <3>1, <3>2
  <2>13. Signals'
    <3>1. isr \cap {"RXFULL", "TXERR"} \subseteq clr /\ clr \ TxBits \subseteq isr
          /\ clr \cap {"RXFULL", "TXERR"} = {} /\ "BNB" \notin clr /\ "ARB" \notin isr
      BY <1>1, <1>16 DEF OInv, Signals, ToRead, OnBus
    <3>2. clr \subseteq TxBits
      <4>1. clr \subseteq Bits
        BY DEF Types, Registers
      <4> QED BY <3>1, <4>1 DEF Bits, TxBits
    <3> QED BY <1>1, <1>8, <2>5, <3>1, <3>2 DEF Signals, ToRead
  <2> QED BY <1>13, <2>7, <2>9, <2>10, <2>11, <2>12, <2>13 DEF OInv
<1> QED BY <1>15, <1>16

\* What a step of __xiic_start_xfer finds.
LEMMA Starting ==
  ASSUME IInv, Safe, OInv, Plain, spc # "none"
  PROVE  /\ Active /\ ~fault /\ (cpc = "starting" \/ (cpc \in {"wait", "droptx"} /\ hpc = "out"))
         /\ state = "START" /\ rx_pos = 0 /\ result \notin {"num", "EIO"}
         /\ cpc = "starting" => hpc \in {"off", "woken"} /\ isr = {}
         /\ isr \cap {"ARB", "RXFULL", "TXERR"} = {}
         /\ hpc = "out" => clr \subseteq TxBits
<1>1. Active /\ (cpc = "starting" \/ hpc = "out") /\ (cpc = "starting" => isr = {})
  BY DEF OInv, Calls, Safe, Following, Active
<1>2. ~fault /\ result \notin {"num", "EIO"}
  BY <1>1, UnderWay
<1>3. (cpc = "starting" => hpc \in {"off", "woken"}) /\ state = "START" /\ rx_pos = 0
  BY DEF IInv, Locked
<1>4. cpc = "starting" \/ (cpc \in {"wait", "droptx"} /\ hpc = "out")
  BY <1>1 DEF Active, Working
<1>5. hpc = "out" => clr \subseteq TxBits /\ isr \cap {"RXFULL", "TXERR"} = {}
  BY <1>1, <1>2 DEF OInv, Signals, ToRead, TxBits
<1>6. "ARB" \notin isr
  BY <1>1, <1>2 DEF OInv, OnBus
<1> QED BY <1>1, <1>2, <1>3, <1>4, <1>5, <1>6

\* Writing back the bits that are pending clears them, whatever the register does.
LEMMA Cleared ==
  ASSUME NEW s, NEW mask
  PROVE  WriteIisr(s, s \cap mask) = s \ mask
BY DEF WriteIisr

\* What every such step keeps.
LEMMA StartFrame ==
  ASSUME IInv, Safe, OInv, Plain, spc # "none", tx_msg' # NULL, isr' \subseteq isr,
         UNCHANGED <<cur, result, state, hpc, snap, pend, clr, fault>>,
         \/ spc' # "none" /\ cpc' = cpc
         \/ spc' = "none" /\ cpc' = (IF cpc = "starting" THEN "wait" ELSE cpc),
         ~Coming'
  PROVE  /\ Active' /\ ~fault' /\ Calls' /\ Results' /\ Failed' /\ Signals'
         /\ "ARB" \notin isr'
<1>1. Active' /\ ~fault'
  BY Starting DEF Active, Working
<1>2. Calls'
  BY Starting DEF Calls
<1>3. Results'
  <2>1. state' = "START" /\ result' \notin {"num", "EIO"}
    BY Starting
  <2> QED BY <2>1 DEF Results
<1>4. Failed'
  BY <1>1 DEF Failed
<1>5. "ARB" \notin isr' /\ isr' \cap {"RXFULL", "TXERR"} = {}
  BY Starting
<1>6. Signals'
  <2>1. hpc' \in {"off", "woken"} \/ (hpc' = "out" /\ clr' \subseteq TxBits)
    BY Starting
  <2> QED BY <1>5, <2>1 DEF Signals, ToRead, TxBits
<1> QED BY <1>1, <1>2, <1>3, <1>4, <1>5, <1>6

\* Where the loop of __xiic_start_xfer is.
LEMMA LoopPlace ==
  ASSUME IInv, Types, Safe, OInv, Plain, spc = "loop", InLoop
  PROVE  /\ LoopMsg \in 1 .. Len(cur) /\ LoopMsg \in Nat /\ LoopNum = Len(cur) - LoopMsg + 1
         /\ cur[LoopMsg].len \in Nat /\ (cur[LoopMsg].rd => LoopMsg = Len(cur) /\ cur[LoopMsg].len > 0)
         /\ PartOf(cur, fifo, Len(fifo)) /\ Upto(cur, wire \o Triples(fifo, Len(fifo)), LoopMsg, -1)
         /\ bus \in {"idle", "tx"} /\ "BNB" \notin isr
         /\ rx_msg = NULL /\ rxq = <<>> /\ Stored(cur, buf, 0) /\ Space(fifo) >= 2
<1>1. Active /\ ~fault /\ ~Reading /\ ~Asking /\ ~Coming /\ Count = Len(fifo)
  BY Starting DEF Reading, Asking, Coming, Count
<1>2. tx_msg \in 1 .. Len(cur) /\ tx_msg \in Nat /\ nmsgs = Len(cur) - tx_msg + 1 /\ cur # <<>>
      /\ Len(cur) \in Nat /\ cur \in Seq(Message)
  BY <1>1, UnderWay, Current
<1>3. Space(fifo) >= 2 /\ (first \/ nmsgs > 1) /\ first \in BOOLEAN
  BY DEF InLoop, IInv, Numbers
<1>4. LoopMsg \in 1 .. Len(cur) /\ LoopMsg \in Nat /\ LoopNum = Len(cur) - LoopMsg + 1
  <2> DEFINE l == Len(cur)
  <2>1. l \in Nat /\ tx_msg \in 1 .. l /\ nmsgs = l - tx_msg + 1
    BY <1>2
  <2> HIDE DEF l
  <2>2. LoopMsg \in 1 .. l /\ LoopMsg \in Nat /\ LoopNum = l - LoopMsg + 1
    BY <1>3, <2>1 DEF LoopMsg, LoopNum
  <2> QED BY <2>2 DEF l
<1>5. cur[LoopMsg].len \in Nat /\ (cur[LoopMsg].rd => LoopMsg = Len(cur) /\ cur[LoopMsg].len > 0)
  BY <1>4, Current
<1>6. PutMsg = LoopMsg - 1 /\ PutMsg \in Nat
  BY <1>2, <1>3 DEF PutMsg, Ahead, LoopMsg
<1>7. PutPos \in Nat /\ (PutMsg = 0 \/ (PutMsg \in DOMAIN cur /\ PutPos = cur[PutMsg].len))
  <2>1. CASE first
    <3>1. Ahead /\ PutMsg = tx_msg - 1
      BY <2>1 DEF Ahead, PutMsg
    <3>2. CASE tx_msg = 1
      BY <3>1, <3>2 DEF PutPos
    <3>3. CASE tx_msg # 1
      <4>1. PutMsg \in 1 .. Len(cur) /\ PutPos = cur[PutMsg].len
        BY <1>2, <3>1, <3>3 DEF PutPos
      <4> QED BY <1>2, <4>1, Current
    <3> QED BY <3>2, <3>3
  <2>2. CASE ~first
    <3>1. ~Ahead /\ PutMsg = tx_msg /\ PutPos = tx_pos
      BY <1>1, <2>2 DEF Ahead, PutMsg, PutPos
    <3>2. tx_pos = cur[tx_msg].len
      BY <1>1, <2>2 DEF OInv, Progress
    <3> QED BY <1>2, <3>1, <3>2, Current
  <2> QED BY <2>1, <2>2
<1>8. PartOf(cur, fifo, Len(fifo)) /\ Upto(cur, wire \o Triples(fifo, Len(fifo)), PutMsg, PutPos)
  BY <1>1 DEF OInv, Entries, Sent
<1>9. Upto(cur, wire \o Triples(fifo, Len(fifo)), LoopMsg, -1)
  <2> DEFINE w == wire \o Triples(fifo, Len(fifo))
             m == PutMsg
             n == PutPos
  <2>1. Upto(cur, w, m, n) /\ m \in Nat /\ n \in Nat /\ (m = 0 \/ (m \in DOMAIN cur /\ n = cur[m].len))
    BY <1>6, <1>7, <1>8
  <2>2. LoopMsg = m + 1
    BY <1>4, <1>6
  <2> HIDE DEF w, m, n
  <2>3. Upto(cur, w, m + 1, -1)
    BY <1>2, <2>1, UptoNext
  <2> QED BY <2>2, <2>3 DEF w
<1>10. bus \in {"idle", "tx"} /\ "BNB" \notin isr
  <2>1. PutMsg < Len(cur)
    <3> DEFINE l == Len(cur)
    <3>1. l \in Nat /\ LoopMsg \in 1 .. l
      BY <1>2, <1>4
    <3> HIDE DEF l
    <3>2. PutMsg < l
      BY <1>6, <3>1
    <3> QED BY <3>2 DEF l
  <2>2. bus # "stopping" /\ "BNB" \notin isr
    BY <1>1, <1>6, <1>7, <2>1, NotYetWhole
  <2> QED BY <1>1, <2>2 DEF OInv, OnBus
<1>11. rx_msg = NULL /\ rxq = <<>> /\ Stored(cur, buf, 0)
  BY <1>1 DEF OInv, Arrived
<1> QED BY <1>3, <1>4, <1>5, <1>8, <1>9, <1>10, <1>11

LEMMA SendArmOrder ==
  ASSUME IInv, Types, Safe, OInv, Plain, SendArm \/ StartTail
  PROVE  OInv'
<1> USE DEF driver, caller, handler, starter, line, history
<1>1. Active /\ ~fault /\ spc # "none" /\ spc \in {"sendarm", "tail", "loop"}
  BY Starting DEF SendArm, StartTail
<1>2. tx_msg \in DOMAIN cur /\ cur[tx_msg].len \in Nat /\ tx_pos \in Nat
  BY <1>1, UnderWay, Current DEF IInv, Numbers
<1>3. spc = "loop" => ~first
  BY <1>1 DEF OInv, Progress, Ahead, SendArm, StartTail, InLoop
<1>4. ~cur[tx_msg].rd /\ ~Reading /\ ~Ahead /\ ~Asking /\ ~Coming
  BY <1>1, <1>3 DEF OInv, Progress, Reading, Ahead, Asking, Coming
<1>5. UNCHANGED <<driver, hpc, snap, pend, clr, line, history, cur, result>>
      /\ \/ spc' # "none" /\ cpc' = cpc
         \/ spc' = "none" /\ cpc' = (IF cpc = "starting" THEN "wait" ELSE cpc)
      /\ isr' \subseteq isr /\ ier \subseteq ier' /\ (spc = "sendarm" => "TXERR" \in ier')
      /\ (spc' = "loop" => first' = FALSE /\ tx_pos = cur[tx_msg].len)
      /\ spc' \in {"none", "tail", "loop"}
  <2>1. CASE SendArm
    <3>1. isr' = isr \ {"TXEMPTY", "TXERR", "BNB"} /\ ier' = ier \cup {"TXEMPTY", "TXERR", "BNB"}
      BY <2>1, Cleared DEF SendArm, ClrEn
    <3>2. spc' = "loop" => tx_pos = cur[tx_msg].len
      BY <1>2, <2>1 DEF SendArm, TxSpace
    <3>3. first' = FALSE /\ spc' \in {"tail", "loop"} /\ UNCHANGED <<driver, caller, handler, line, history>>
      BY <2>1 DEF SendArm
    <3> QED BY <3>1, <3>2, <3>3
  <2>2. CASE StartTail
    <3>1. isr' \subseteq isr /\ ier \subseteq ier'
      <4>1. (isr' = isr \ {"TXHALF"} /\ ier' = ier \cup {"TXHALF"}) \/ UNCHANGED <<ier, isr>>
        BY <2>2, Cleared DEF StartTail, ClrEn
      <4> QED BY <4>1
    <3>2. spc' = "none" /\ cpc' = (IF cpc = "starting" THEN "wait" ELSE cpc) /\ spc # "sendarm"
      BY <2>2, Starting, <1>1 DEF StartTail, Leave
    <3> QED BY <2>2, <3>1, <3>2 DEF StartTail
  <2> QED BY <2>1, <2>2
<1>6. ~Reading' /\ ~Ahead' /\ ~Asking' /\ ~Coming'
  BY <1>4, <1>5 DEF Reading, Ahead, Asking, Coming
<1>7. tx_msg' # NULL
  BY <1>1, <1>5 DEF Active
<1>8. Active' /\ ~fault' /\ Calls' /\ Results' /\ Failed' /\ Signals' /\ "ARB" \notin isr'
  BY <1>1, <1>5, <1>6, <1>7, StartFrame
<1>9. Count' = Count /\ PutMsg' = PutMsg /\ PutPos' = PutPos
  BY <1>4, <1>5, <1>6 DEF Count, PutMsg, PutPos
<1>10. Entries' /\ Sent' /\ OnBus' /\ Arrived'
  <2>1. Entries' /\ Sent'
    BY <1>1, <1>5, <1>6, <1>9 DEF OInv, Entries, Sent
  <2>2. OnBus'
    BY <1>1, <1>4, <1>5, <1>6 DEF OInv, OnBus
  <2>3. Arrived'
    BY <1>1, <1>4, <1>5, <1>6 DEF OInv, Arrived
  <2> QED BY <2>1, <2>2, <2>3
<1>11. Armed'
  <2>1. "ARB" \in ier' /\ "TXERR" \in ier'
    BY <1>1, <1>3, <1>5 DEF OInv, Armed
  <2> QED BY <1>6, <2>1 DEF Armed
<1>12. Progress'
  <2>1. tx_msg \in DOMAIN cur /\ nmsgs = Len(cur) - tx_msg + 1 /\ tx_pos <= cur[tx_msg].len
    BY <1>1, <1>4 DEF OInv, Progress
  <2> QED BY <1>4, <1>5, <1>6, <2>1 DEF Progress
<1> QED BY <1>8, <1>10, <1>11, <1>12 DEF OInv

LEMMA RecvArmOrder ==
  ASSUME IInv, Types, Safe, OInv, Plain, RecvArm
  PROVE  OInv'
<1> USE DEF driver, caller, handler, starter, line, history
<1>1. spc = "recvarm" /\ Active /\ ~fault
  BY Starting DEF RecvArm
<1>2. cur[tx_msg].rd /\ msg.len = cur[tx_msg].len /\ fifo # <<>> /\ tx_msg \in DOMAIN cur
      /\ nmsgs = Len(cur) - tx_msg + 1
  BY <1>1 DEF OInv, Progress
<1>3. Reading /\ Asking /\ ~Coming /\ ~Ahead
  BY <1>1, <1>2 DEF Reading, Asking, Coming, Ahead
<1>4. UNCHANGED <<tx_msg, rx_msg, nmsgs, rx_pos, state, cur, result, handler, first, line, history>>
      /\ spc' = "none" /\ cpc' = (IF cpc = "starting" THEN "wait" ELSE cpc) /\ tx_pos' = msg.len
  BY <1>1, Starting DEF RecvArm, Leave
<1>5. isr' \subseteq isr /\ ier \subseteq ier'
  <2>1. (isr' = isr \ {"BNB"} /\ ier' = ier \cup {"BNB"}) \/ UNCHANGED <<ier, isr>>
    BY Cleared DEF RecvArm, ClrEn
  <2> QED BY <2>1
<1>6. Reading' /\ Asking' /\ ~Coming' /\ ~Ahead'
  BY <1>2, <1>4 DEF Reading, Asking, Coming, Ahead
<1>7. tx_msg' # NULL
  BY <1>1, <1>4 DEF Active
<1>8. Active' /\ ~fault' /\ Calls' /\ Results' /\ Failed' /\ Signals' /\ "ARB" \notin isr'
  BY <1>1, <1>4, <1>5, <1>6, <1>7, StartFrame
<1>9. Count' = Count /\ PutMsg' = PutMsg /\ PutPos' = PutPos /\ LastLen' = LastLen
  BY <1>3, <1>4, <1>6 DEF Count, PutMsg, PutPos, LastLen
<1>10. Entries' /\ Sent' /\ OnBus' /\ Arrived'
  <2>1. Entries' /\ Sent'
    BY <1>1, <1>3, <1>4, <1>6, <1>9 DEF OInv, Entries, Sent
  <2>2. OnBus'
    BY <1>1, <1>3, <1>4, <1>5, <1>6 DEF OInv, OnBus
  <2>3. Arrived'
    BY <1>1, <1>3, <1>4, <1>6, <1>9 DEF OInv, Arrived
  <2> QED BY <2>1, <2>2, <2>3
<1>11. Armed'
  BY <1>1, <1>3, <1>5 DEF OInv, Armed
<1>12. Progress'
  <2>1. tx_msg = Len(cur)
    BY <1>1, <1>3 DEF OInv, Progress
  <2> QED BY <1>2, <1>4, <1>6, <2>1 DEF Progress
<1> QED BY <1>8, <1>10, <1>11, <1>12 DEF OInv

\* A length below 256 goes into the register as it is.
LEMMA Short ==
  ASSUME NEW m, NEW n \in Nat, n > 0, n < Byte, LastMsg
  PROVE  n % Byte = n /\ Length(m, n) = Entry("L", m, n, TRUE)
<1>1. Byte \in Nat /\ Byte > 0
  BY DepthAssumption
<1>2. n % Byte = n
  BY <1>1
<1>3. n \div Byte = 0
  BY <1>1
<1>4. (n \div Byte) % 2 # 1
  BY <1>3
<1>5. Length(m, n) = Entry("L", m, n % Byte, LastMsg \/ (n \div (2 * Byte)) % 2 = 1)
  <2>1. ~(n % Byte = 0 \/ (n \div Byte) % 2 = 1)
    BY <1>2, <1>4
  <2> QED BY <2>1, Zenon DEF Length
<1>6. (LastMsg \/ (n \div (2 * Byte)) % 2 = 1) = TRUE
  BY DEF LastMsg
<1> QED BY <1>2, <1>5, <1>6

LEMMA RecvLengthOrder ==
  ASSUME IInv, Types, Safe, OInv, Plain, RecvLength
  PROVE  OInv'
<1> USE DEF driver, caller, handler, starter, line, history
<1>1. spc = "recvlen" /\ Active /\ ~fault
  BY Starting DEF RecvLength
<1>2. cur[tx_msg].rd /\ msg = [m |-> tx_msg, len |-> cur[tx_msg].len] /\ tx_msg \in DOMAIN cur
      /\ nmsgs = Len(cur) - tx_msg + 1
  BY <1>1 DEF OInv, Progress
<1>3. Reading /\ ~Asking /\ ~Coming /\ ~Ahead
  BY <1>1, <1>2 DEF Reading, Asking, Coming, Ahead
<1>4. tx_msg = Len(cur) /\ Len(cur) \in Nat /\ LastLen \in Nat /\ LastLen > 0
  <2>1. tx_msg = Len(cur) /\ cur[tx_msg].len > 0 /\ Len(cur) \in Nat
    BY <1>1, <1>2, UnderWay, Current
  <2> QED BY <1>1, <2>1, UnderWay DEF LastLen
<1>5. nmsgs = 1
  <2> DEFINE l == Len(cur)
  <2>1. l \in Nat /\ tx_msg = l /\ nmsgs = l - tx_msg + 1
    BY <1>2, <1>4
  <2> HIDE DEF l
  <2> QED BY <2>1
<1> DEFINE e == Entry("L", Len(cur), LastLen, TRUE)
<1>6. fifo' = Append(fifo, e)
  <2>1. LastMsg = TRUE
    BY <1>5 DEF LastMsg
  <2>2. msg.m = Len(cur) /\ msg.len = LastLen
    BY <1>2, <1>4 DEF LastLen
  <2>3. LastLen < Byte
    BY <1>2, <1>4, Current DEF LastLen
  <2>4. Length(Len(cur), LastLen) = e
    BY <1>4, <2>1, <2>3, Short
  <2> QED BY <2>2, <2>4 DEF RecvLength
<1>7. UNCHANGED <<driver, caller, handler, first, msg, rxq, rfd, bus, rd, history>> /\ spc' = "recvarm"
      /\ isr' = isr \ {"BNB"} /\ ier' = ier \cup {"BNB"}
  BY Cleared DEF RecvLength, ClrEn
<1>8. e \in Token /\ fifo \in Seq(Token)
  BY <1>4 DEF Entry, Token, IInv, Queues
<1> HIDE DEF e
<1>9. Len(fifo') = Len(fifo) + 1 /\ fifo'[Len(fifo')] = e /\ fifo' # <<>> /\ Len(fifo) \in Nat
      /\ \A i \in 1 .. Len(fifo) : fifo'[i] = fifo[i]
  BY <1>6, <1>8
<1>10. Reading' /\ Asking' /\ ~Coming' /\ ~Ahead'
  BY <1>2, <1>7, <1>9 DEF Reading, Asking, Coming, Ahead
<1>11. tx_msg' # NULL
  BY <1>1, <1>7 DEF Active
<1>12. Active' /\ ~fault' /\ Calls' /\ Results' /\ Failed' /\ Signals' /\ "ARB" \notin isr'
  BY <1>1, <1>7, <1>10, <1>11, StartFrame
<1>13. Count = Len(fifo) /\ Count' = Len(fifo) /\ PutMsg = tx_msg /\ PutMsg' = tx_msg
       /\ PutPos = 0 /\ PutPos' = 0 /\ LastLen' = LastLen
  <2>1. Count = Len(fifo) /\ PutMsg = tx_msg /\ PutPos = 0
    BY <1>3 DEF Count, PutMsg, PutPos
  <2>2. Count' = Len(fifo)
    BY <1>9, <1>10 DEF Count
  <2> QED BY <1>7, <1>10, <2>1, <2>2 DEF PutMsg, PutPos, LastLen
<1>14. Entries'
  <2>1. PartOf(cur, fifo, Len(fifo))
    BY <1>1, <1>13 DEF OInv, Entries
  <2>2. PartOf(cur, fifo', Len(fifo))
    BY <1>9, <2>1 DEF PartOf
  <2>3. fifo'[Len(fifo')] = Entry("L", Len(cur'), LastLen', TRUE)
    BY <1>7, <1>9, <1>13 DEF e
  <2> QED BY <1>7, <1>13, <2>2, <2>3 DEF Entries
<1>15. Sent'
  <2>1. Triples(fifo', Len(fifo)) = Triples(fifo, Len(fifo))
    BY <1>9 DEF Triples
  <2>2. Upto(cur, wire \o Triples(fifo, Len(fifo)), tx_msg, 0)
    BY <1>1, <1>13 DEF OInv, Sent
  <2> QED BY <1>7, <1>13, <2>1, <2>2 DEF Sent
<1>16. OnBus'
  <2>1. bus # "stopping" /\ "BNB" \notin isr
    BY <1>1, <1>2, <1>4, <1>13, NotYetWhole
  <2>2. bus \in {"idle", "tx"}
    BY <1>1, <1>3, <2>1 DEF OInv, OnBus
  <2> QED BY <1>7, <1>10, <1>12, <2>1, <2>2 DEF OnBus
<1>17. Arrived'
  BY <1>1, <1>3, <1>7, <1>10, <1>13 DEF OInv, Arrived
<1>18. Armed'
  BY <1>1, <1>3, <1>7 DEF OInv, Armed
<1>19. Progress'
  BY <1>2, <1>4, <1>7, <1>9, <1>10 DEF Progress
<1> QED BY <1>12, <1>14, <1>15, <1>16, <1>17, <1>18, <1>19 DEF OInv

LEMMA StartRecvOrder ==
  ASSUME IInv, Types, Safe, OInv, Plain, StartRecv
  PROVE  OInv'
<1> USE DEF driver, caller, handler, starter, line, history
<1> DEFINE m == LoopMsg
           e == Entry("R", LoopMsg, 0, FALSE)
           u == <<e>>
<1>1. spc = "loop" /\ InLoop /\ cur[m].rd /\ Active /\ ~fault /\ rx_pos = 0
  BY Starting DEF StartRecv
<1>2. /\ m \in 1 .. Len(cur) /\ m \in Nat /\ LoopNum = Len(cur) - m + 1
      /\ cur[m].len \in Nat /\ m = Len(cur) /\ cur[m].len > 0
      /\ PartOf(cur, fifo, Len(fifo)) /\ Upto(cur, wire \o Triples(fifo, Len(fifo)), m, -1)
      /\ bus \in {"idle", "tx"} /\ "BNB" \notin isr
      /\ rx_msg = NULL /\ rxq = <<>> /\ Stored(cur, buf, 0)
  BY <1>1, LoopPlace
<1>3. m \in DOMAIN cur /\ Len(cur) \in Nat
  BY <1>2, Current
<1>4. /\ tx_msg' = m /\ rx_msg' = m /\ nmsgs' = LoopNum
      /\ rfd' = (IF cur[m].len % Byte > Depth THEN Depth - 1 ELSE Minus1(cur[m].len % Byte))
      /\ fifo' = Append(fifo, e) /\ spc' = "recvlen" /\ msg' = [m |-> m, len |-> cur[m].len]
      /\ UNCHANGED <<rx_pos, state, caller, handler, first, rxq, bus, rd, history>>
  BY DEF StartRecv
<1>5. isr' = isr \ {"RXFULL", "TXERR"} /\ ier' = ier \cup {"RXFULL", "TXERR"} /\ rfd' = Level(cur[m].len)
  <2>1. cur[m].len % Byte = cur[m].len
    <3>1. cur[m].len < Byte
      BY <1>1, <1>2, <1>3, Current
    <3> HIDE DEF m
    <3> QED BY <1>2, <3>1, DepthAssumption
  <2>2. rfd' = Level(cur[m].len)
    <3> HIDE DEF m, e, u
    <3> QED BY <1>4, <2>1 DEF Level
  <2>3. Watermark(rfd') \in Nat
    <3> HIDE DEF m, e, u
    <3> QED BY <1>2, <2>2, DepthAssumption DEF Level, Watermark, Minus1
  <2>4. Len(rxq) = 0
    BY <1>2
  <2>5. isr' = IF Len(rxq) > Watermark(rfd') THEN WriteIisr(isr, isr \cap {"RXFULL", "TXERR"}) \cup {"RXFULL"}
               ELSE WriteIisr(isr, isr \cap {"RXFULL", "TXERR"})
    BY DEF StartRecv
  <2>6. ~(Len(rxq) > Watermark(rfd'))
    <3> DEFINE k == Len(rxq)
               w == Watermark(rfd')
    <3>1. k = 0 /\ w \in Nat
      BY <2>3, <2>4
    <3> HIDE DEF k, w
    <3>2. ~(k > w)
      BY <3>1
    <3> QED BY <3>2 DEF k, w
  <2>7. ier' = ier \cup {"RXFULL", "TXERR"}
    BY DEF StartRecv
  <2>8. isr' = WriteIisr(isr, isr \cap {"RXFULL", "TXERR"})
    BY <2>5, <2>6
  <2> QED BY <2>2, <2>7, <2>8, Cleared
<1>6. e \in Token /\ fifo \in Seq(Token) /\ e.k = "R" /\ e.m = m /\ e.n = 0
  BY <1>2 DEF Entry, Token, IInv, Queues
<1>7. Item(cur, m, 0) = <<"R", m, 0>>
  BY <1>1 DEF Item
<1> HIDE DEF m, e
<1>8. u \in Seq(Token) /\ Len(u) = 1 /\ u[1] = e /\ fifo \o u = Append(fifo, e)
  BY <1>6
<1>9. PartOf(cur, fifo \o u, Len(fifo \o u)) /\ Upto(cur, wire \o Triples(fifo \o u, Len(fifo \o u)), m, 0)
  <2> HIDE DEF u
  <2> DEFINE p == -1
  <2>1. p \in Int /\ p >= -1 /\ p + Len(u) <= cur[m].len /\ p + Len(u) = 0
    BY <1>2, <1>8
  <2>2. ASSUME NEW i \in 1 .. Len(u)
        PROVE  /\ <<u[i].k, u[i].m, u[i].n>> = Item(cur, m, p + i)
               /\ u[i].k # "R" => (u[i].stop <=> m = Len(cur) /\ p + i = cur[m].len)
    <3>1. i = 1 /\ p + i = 0
      BY <1>8, <2>2
    <3> QED BY <1>6, <1>7, <1>8, <3>1
  <2>3. Upto(cur, wire \o Triples(fifo, Len(fifo)), m, p)
    BY <1>2
  <2>4. u \in Seq(Token)
    BY <1>8
  <2> HIDE DEF p
  <2>5. PartOf(cur, fifo \o u, Len(fifo \o u)) /\ Upto(cur, wire \o Triples(fifo \o u, Len(fifo \o u)), m, p + Len(u))
    BY <1>2, <1>3, <2>1, <2>2, <2>3, <2>4, PutMore
  <2> QED BY <2>1, <2>5
<1>10. PartOf(cur, fifo', Len(fifo')) /\ Upto(cur, wire \o Triples(fifo', Len(fifo')), m, 0)
  <2> HIDE DEF u
  <2> QED BY <1>4, <1>8, <1>9
<1>11. Reading' /\ ~Asking' /\ ~Coming' /\ ~Ahead'
  BY <1>1, <1>4 DEF Reading, Asking, Coming, Ahead
<1>12. tx_msg' # NULL
  BY <1>2, <1>4 DEF NULL
<1>13. Active' /\ ~fault' /\ Calls' /\ Results' /\ Failed' /\ Signals' /\ "ARB" \notin isr'
  <2>1. isr' \subseteq isr
    BY <1>5
  <2> QED BY <1>1, <1>4, <1>11, <1>12, <2>1, StartFrame
<1>14. Count' = Len(fifo') /\ PutMsg' = m /\ PutPos' = 0 /\ LastLen' = cur[m].len
  BY <1>2, <1>4, <1>11 DEF Count, PutMsg, PutPos, LastLen
<1>15. Entries' /\ Sent'
  BY <1>4, <1>10, <1>11, <1>14 DEF Entries, Sent
<1>16. OnBus'
  BY <1>2, <1>4, <1>5, <1>11, <1>13 DEF OnBus
<1>17. Arrived'
  <2>1. rx_pos' = 0 /\ rx_msg' = Len(cur') /\ rx_msg' # NULL /\ LastLen' \in Nat /\ LastLen' > 0
    BY <1>1, <1>2, <1>4, <1>12, <1>14
  <2>2. rxq' = <<>> /\ Len(rxq') = 0 /\ Run(rxq', Len(cur'), rx_pos')
    BY <1>2, <1>4 DEF Run
  <2>3. rfd' = Level(LastLen' - 0)
    BY <1>2, <1>5, <1>14
  <2>4. Stored(cur', buf', 0)
    BY <1>2, <1>4
  <2> QED BY <1>11, <1>14, <2>1, <2>2, <2>3, <2>4 DEF Arrived
<1>18. Armed'
  <2>1. "ARB" \in ier
    BY <1>1 DEF OInv, Armed
  <2> QED BY <1>5, <2>1 DEF Armed
<1>19. Progress'
  BY <1>1, <1>2, <1>3, <1>4, <1>11 DEF Progress
<1> QED BY <1>13, <1>15, <1>16, <1>17, <1>18, <1>19 DEF OInv

LEMMA StartSendOrder ==
  ASSUME IInv, Types, Safe, OInv, Plain, StartSend
  PROVE  OInv'
<1> USE DEF driver, caller, handler, starter, line, history
<1> DEFINE m == LoopMsg
           len == cur[m].len
           last == LoopNum = 1
           end == last /\ len = 0
           addr == Entry("W", m, 0, end)
           room == Space(fifo \o <<addr>>)
           n == IF len > room THEN room ELSE len
           s == [i \in 1 .. n |-> Entry("D", m, i, last /\ i = len)]
           u == <<addr>> \o s
<1>1. spc = "loop" /\ InLoop /\ ~cur[m].rd /\ Active /\ ~fault
  BY Starting DEF StartSend
<1>2. /\ m \in 1 .. Len(cur) /\ m \in Nat /\ LoopNum = Len(cur) - m + 1 /\ len \in Nat
      /\ PartOf(cur, fifo, Len(fifo)) /\ Upto(cur, wire \o Triples(fifo, Len(fifo)), m, -1)
      /\ bus \in {"idle", "tx"} /\ "BNB" \notin isr
      /\ rx_msg = NULL /\ rxq = <<>> /\ Stored(cur, buf, 0) /\ Space(fifo) >= 2
  BY <1>1, LoopPlace
<1>3. m \in DOMAIN cur /\ Len(cur) \in Nat
  BY <1>2, Current
<1>4. last <=> m = Len(cur)
  <2> DEFINE l == Len(cur)
  <2>1. l \in Nat /\ m \in 1 .. l /\ LoopNum = l - m + 1
    BY <1>2, <1>3
  <2> HIDE DEF l, m
  <2> QED BY <2>1 DEF l
<1>5. (IF first THEN tx_pos ELSE 0) = 0
  BY <1>1 DEF IInv, Locked
<1>6. /\ tx_msg' = m /\ nmsgs' = LoopNum /\ spc' = "sendarm"
      /\ UNCHANGED <<rx_msg, rx_pos, state, caller, handler, first, msg, rxq, rfd, bus, rd, ier, history>>
  BY DEF StartSend
<1>7. isr' = isr \ {"TXERR"}
  BY Cleared DEF StartSend
<1>8. end \in BOOLEAN /\ last \in BOOLEAN
  OBVIOUS
<1>9. addr \in Token /\ addr.k = "W" /\ addr.m = m /\ addr.n = 0 /\ (addr.stop <=> end)
  <2>1. addr = [k |-> "W", m |-> m, n |-> 0, stop |-> end]
    BY DEF Entry
  <2> HIDE DEF end, m
  <2>2. addr.stop = end /\ addr \in Token
    BY <1>2, <1>8, <2>1 DEF Token
  <2> QED BY <2>1, <2>2
<1>10. fifo \in Seq(Token) /\ Len(fifo) \in Nat
  BY DEF IInv, Queues
<1>11. room \in Nat
  <2> HIDE DEF addr
  <2>1. fifo \o <<addr>> # <<>> /\ Len(fifo \o <<addr>>) = Len(fifo) + 1
    BY <1>9, <1>10
  <2>2. Depth - Len(fifo) >= 1
    <3> DEFINE l == Len(fifo)
    <3>1. l \in Nat /\ Space(fifo) >= 2 /\ (fifo = <<>> => l = 0)
      BY <1>2, <1>10
    <3>2. Space(fifo) = IF fifo = <<>> THEN Depth - 1 ELSE Depth - l
      BY DEF Space
    <3> HIDE DEF l
    <3> QED BY <3>1, <3>2, DepthAssumption DEF l
  <2>3. room = Depth - (Len(fifo) + 1)
    BY <2>1 DEF Space
  <2> HIDE DEF room
  <2> QED BY <1>10, <2>2, <2>3, DepthAssumption
<1>12. n \in Nat /\ n <= len
  <2> HIDE DEF room, len
  <2> QED BY <1>2, <1>11
<1>13. /\ s \in Seq(Token) /\ Len(s) = n
       /\ \A i \in 1 .. n : s[i] = Entry("D", m, i, last /\ i = len)
  <2>1. s \in [1 .. n -> Token]
    <3> SUFFICES ASSUME NEW i \in 1 .. n PROVE Entry("D", m, i, last /\ i = len) \in Token
      OBVIOUS
    <3> HIDE DEF n
    <3> DEFINE b == last /\ i = len
    <3>1. b \in BOOLEAN /\ i \in Nat
      BY <1>12
    <3> HIDE DEF b, m
    <3> QED BY <1>2, <3>1 DEF Entry, Token
  <2> HIDE DEF n
  <2>2. s \in Seq(Token) /\ Len(s) = n
    <3> HIDE DEF s
    <3> QED BY <1>12, <2>1, IsASeq
  <2> QED BY <2>2
<1>14. fifo' = fifo \o <<addr>> \o s /\ tx_pos' = n
  <2>1. \A i \in 1 .. n : 0 + i = i
    OBVIOUS
  <2>2. /\ fifo' = fifo \o <<addr>> \o [i \in 1 .. (IF len - 0 > room THEN room ELSE len - 0) |->
                                          Entry("D", m, 0 + i, last /\ 0 + i = len)]
        /\ tx_pos' = 0 + (IF len - 0 > room THEN room ELSE len - 0)
    BY <1>5 DEF StartSend
  <2>3. (IF len - 0 > room THEN room ELSE len - 0) = n
    <3> HIDE DEF len, room
    <3> QED BY <1>2, <1>11
  <2>4. fifo' = fifo \o <<addr>> \o [i \in 1 .. n |-> Entry("D", m, 0 + i, last /\ 0 + i = len)] /\ tx_pos' = 0 + n
    BY <2>2, <2>3
  <2>5. [i \in 1 .. n |-> Entry("D", m, 0 + i, last /\ 0 + i = len)] = s
    <3> HIDE DEF n, last, len, m
    <3>1. \A i \in 1 .. n : 0 + i = i
      BY <1>12
    <3> QED BY <3>1
  <2> HIDE DEF n, s, addr
  <2> QED BY <1>12, <2>4, <2>5
<1> HIDE DEF s, addr, n, room
<1>15. <<addr>> \in Seq(Token) /\ Len(<<addr>>) = 1
  BY <1>9
<1>16. /\ u \in Seq(Token) /\ Len(u) = 1 + n
       /\ \A i \in 1 .. 1 + n : u[i] = IF i = 1 THEN addr ELSE s[i - 1]
       /\ fifo' = fifo \o u
  <2> DEFINE a == <<addr>>
  <2>1. a \in Seq(Token) /\ Len(a) = 1 /\ a[1] = addr
    BY <1>15
  <2>2. fifo' = (fifo \o a) \o s
    BY <1>14
  <2>3. u = a \o s
    OBVIOUS
  <2> HIDE DEF a, u
  <2>4. /\ u \in Seq(Token) /\ Len(u) = Len(a) + Len(s) /\ fifo' = fifo \o u
        /\ \A i \in 1 .. Len(a) + Len(s) : u[i] = IF i <= Len(a) THEN a[i] ELSE s[i - Len(a)]
    <3>1. s \in Seq(Token)
      BY <1>13
    <3>2. /\ a \o s \in Seq(Token) /\ Len(a \o s) = Len(a) + Len(s)
          /\ \A i \in 1 .. Len(a) + Len(s) : (a \o s)[i] = IF i <= Len(a) THEN a[i] ELSE s[i - Len(a)]
          /\ (fifo \o a) \o s = fifo \o (a \o s)
      <4>1. fifo \in Seq(Token) /\ a \in Seq(Token)
        BY <1>10, <2>1
      <4> QED BY <3>1, <4>1, Chained
    <3> QED BY <2>2, <2>3, <3>2
  <2>5. Len(u) = 1 + n /\ \A i \in 1 .. 1 + n : u[i] = IF i <= 1 THEN a[i] ELSE s[i - 1]
    BY <1>13, <2>1, <2>4
  <2>6. \A i \in 1 .. 1 + n : u[i] = IF i = 1 THEN addr ELSE s[i - 1]
    BY <1>12, <2>1, <2>5
  <2> QED BY <2>4, <2>5, <2>6
<1> HIDE DEF u
<1>17. PartOf(cur, fifo', Len(fifo')) /\ Upto(cur, wire \o Triples(fifo', Len(fifo')), m, n)
  <2> DEFINE p == -1
  <2>1. p \in Int /\ p >= -1 /\ p + Len(u) <= len /\ p + Len(u) = n
    <3> HIDE DEF len
    <3> QED BY <1>12, <1>16
  <2>2. ASSUME NEW i \in 1 .. Len(u)
        PROVE  /\ <<u[i].k, u[i].m, u[i].n>> = Item(cur, m, p + i)
               /\ u[i].k # "R" => (u[i].stop <=> m = Len(cur) /\ p + i = len)
    <3>1. i \in 1 .. 1 + n
      BY <1>16, <2>2
    <3> HIDE DEF m
    <3>2. CASE i = 1
      <4>1. u[i] = addr /\ p + i = 0
        BY <1>16, <3>1, <3>2
      <4>2. Item(cur, m, p + i) = <<"W", m, 0>>
        BY <1>1, <4>1 DEF Item
      <4>3. u[i].stop <=> m = Len(cur) /\ p + i = len
        <5> HIDE DEF p, len, last
        <5> QED BY <1>4, <1>9, <4>1 DEF end
      <4> QED BY <1>9, <4>1, <4>2, <4>3
    <3>3. CASE i # 1
      <4> DEFINE j == i - 1
                 b == last /\ j = len
      <4>1. j \in 1 .. n /\ p + i = j /\ j # 0 /\ u[i] = s[j]
        BY <1>12, <1>16, <3>1, <3>3
      <4>2. u[i] = [k |-> "D", m |-> m, n |-> j, stop |-> b]
        <5> HIDE DEF j, p, last, len
        <5> QED BY <1>13, <4>1 DEF Entry, b
      <4> HIDE DEF j, p, b, len, last
      <4>3. u[i].stop = b /\ u[i].k = "D" /\ u[i].m = m /\ u[i].n = j
        BY <4>2
      <4>4. Item(cur, m, p + i) = <<"D", m, j>>
        BY <1>1, <4>1 DEF Item
      <4>5. u[i].stop <=> m = Len(cur) /\ p + i = len
        BY <1>4, <4>1, <4>3 DEF b
      <4> QED BY <4>3, <4>4, <4>5
    <3> QED BY <3>2, <3>3
  <2>3. Upto(cur, wire \o Triples(fifo, Len(fifo)), m, p)
    BY <1>2
  <2> HIDE DEF p, m
  <2>4. PartOf(cur, fifo \o u, Len(fifo \o u)) /\ Upto(cur, wire \o Triples(fifo \o u, Len(fifo \o u)), m, p + Len(u))
    BY <1>2, <1>3, <1>16, <2>1, <2>2, <2>3, PutMore
  <2> QED BY <1>16, <2>1, <2>4
<1> HIDE DEF m
<1>18. ~Reading' /\ ~Asking' /\ ~Coming' /\ ~Ahead'
  BY <1>1, <1>6 DEF Reading, Asking, Coming, Ahead
<1>19. tx_msg' # NULL
  BY <1>2, <1>6 DEF NULL
<1>20. Active' /\ ~fault' /\ Calls' /\ Results' /\ Failed' /\ Signals' /\ "ARB" \notin isr'
  <2>1. isr' \subseteq isr
    BY <1>7
  <2> QED BY <1>1, <1>6, <1>18, <1>19, <2>1, StartFrame
<1>21. Count' = Len(fifo') /\ PutMsg' = m /\ PutPos' = n
  BY <1>6, <1>14, <1>18 DEF Count, PutMsg, PutPos
<1>22. Entries' /\ Sent'
  BY <1>6, <1>17, <1>18, <1>21 DEF Entries, Sent
<1>23. OnBus'
  BY <1>2, <1>6, <1>7, <1>18, <1>20 DEF OnBus
<1>24. Arrived'
  BY <1>2, <1>6, <1>18 DEF Arrived
<1>25. Armed'
  <2>1. spc' = "sendarm" /\ first' = first /\ ier' = ier
    BY <1>6
  <2>2. "ARB" \in ier /\ (~first => "TXERR" \in ier)
    BY <1>1 DEF OInv, Armed
  <2> QED BY <1>18, <2>1, <2>2 DEF Armed
<1>26. Progress'
  BY <1>1, <1>2, <1>3, <1>6, <1>12, <1>14, <1>18 DEF Progress
<1> QED BY <1>20, <1>22, <1>23, <1>24, <1>25, <1>26 DEF OInv

-----------------------------------------------------------------------------
(***************************************************************************)
(* Every step of a transfer of which the properties speak.                 *)
(***************************************************************************)
LEMMA StillOrder ==
  ASSUME OInv, UNCHANGED vars
  PROVE  OInv'
<1>1. UNCHANGED <<tx_msg, rx_msg, nmsgs, tx_pos, rx_pos, state, cpc, cur, result, hpc, snap, pend, clr>>
      /\ UNCHANGED <<spc, first, msg, fifo, rxq, rfd, ier, isr, bus, rd, wire, buf, fault>>
  BY DEF vars, driver, caller, handler, starter, line, history
<1>2. /\ Active' = Active /\ Reading' = Reading /\ Ahead' = Ahead /\ Asking' = Asking
      /\ Coming' = Coming /\ ToRead' = ToRead /\ LastLen' = LastLen
  BY <1>1 DEF Active, Working, Reading, Ahead, Asking, Coming, ToRead, LastLen
<1>3. Count' = Count /\ PutMsg' = PutMsg /\ PutPos' = PutPos
  BY <1>1, <1>2 DEF Count, PutMsg, PutPos
<1>4. /\ Calls /\ Results /\ Failed /\ Armed /\ Progress /\ Entries /\ Sent /\ OnBus
      /\ Arrived /\ Signals
  BY DEF OInv
<1>5. Calls' /\ Results' /\ Failed' /\ Armed'
  BY SMTT(40), <1>1, <1>2, <1>4 DEF Calls, Results, Failed, Armed
<1>6. Progress'
  BY SMTT(40), <1>1, <1>2, <1>4 DEF Progress
<1>7. Entries'
  BY ZenonT(80), <1>1, <1>2, <1>3, <1>4 DEF Entries
<1>8. Sent'
  BY SMTT(40), <1>1, <1>2, <1>3, <1>4 DEF Sent
<1>9. OnBus'
  BY SMTT(40), <1>1, <1>2, <1>3, <1>4 DEF OnBus
<1>10. Arrived' /\ Signals'
  BY SMTT(40), <1>1, <1>2, <1>3, <1>4 DEF Arrived, Signals
<1> QED BY <1>5, <1>6, <1>7, <1>8, <1>9, <1>10 DEF OInv

LEMMA OrderNext ==
  ASSUME IInv, Types, Safe, Safe', OInv, Plain, ~FastBus, [Next]_vars
  PROVE  OInv'
<1>1. CASE \E t \in Transfers : Call(t)
  BY <1>1, CallOrder
<1>2. CASE Caller
  BY <1>2, CallerOrder, StartOrder DEF Caller
<1>3. CASE Isr \/ Handler \/ Hardware \/ HwArbLost \/ TimeOut \/ StartXfer
  <2>1. CASE ~Active
    BY <1>3, <2>1, RestOrder
  <2>2. CASE Active /\ StartXfer
    <3>1. ~StartFault
      BY DEF StartFault, Fault, Safe, Following
    <3> QED BY <2>2, <3>1, StartRecvOrder, RecvLengthOrder, RecvArmOrder, StartSendOrder, SendArmOrder
            DEF StartXfer
  <2>3. CASE Active /\ Handler
    <3>1. ~ReadFault /\ ~FillFault
      BY DEF ReadFault, FillFault, Fault, Safe, Following
    <3> QED BY <2>3, <3>1, LockOrder, ErrorOrder, RxOrder, ReadRxOrder, BnbOrder, FinishOrder, TxOrder,
               FillOrder, OutOrder DEF Handler
  <2>4. CASE Active /\ Hardware
    BY <2>4, SendOrder, LengthOrder, ReadOrder, StopOrder DEF Hardware
  <2>5. CASE Active /\ (HwArbLost \/ TimeOut \/ Isr)
    BY <2>5, LostOrder, TimeOutOrder, IsrOrder
  <2> QED BY <1>3, <2>1, <2>2, <2>3, <2>4, <2>5
<1>4. CASE UNCHANGED vars
  BY <1>4, StillOrder
<1> QED BY <1>1, <1>2, <1>3, <1>4 DEF Next

\* The properties speak of a state only if they spoke of the one before it, unless
\* the step is a new call of xiic_xfer.
LEMMA SpokeBefore ==
  ASSUME Types, Plain', [Next]_vars
  PROVE  Plain \/ \E t \in Transfers : Call(t)
<1> USE DEF driver, caller, handler, starter, line, history
<1> SUFFICES ASSUME ~\E t \in Transfers : Call(t) PROVE Plain
  OBVIOUS
<1>1. cur' = cur /\ (raced => raced')
  <2>0. raced \in BOOLEAN
    BY DEF Types, Places
  <2>1. CASE Caller
    BY <2>0, <2>1 DEF Caller, Busy, SetNum, Start, Return, DropTx, DropRx, DropNum, Unlocked
  <2>2. CASE TimeOut \/ Isr
    BY <2>2 DEF TimeOut, Isr
  <2>3. CASE StartXfer
    <3>1. CASE StartFault
      BY <3>1 DEF StartFault
    <3>2. CASE StartRecv
      BY <3>2 DEF StartRecv
    <3>4. CASE RecvLength
      BY <3>4 DEF RecvLength
    <3>5. CASE StartSend
      BY <3>5, Zenon DEF StartSend
    <3>6. CASE SendArm
      BY <3>6 DEF SendArm
    <3>3. CASE RecvArm \/ StartTail
      BY <3>3 DEF RecvArm, StartTail
    <3> QED BY <2>3, <3>1, <3>2, <3>3, <3>4, <3>5, <3>6 DEF StartXfer
  <2>4. CASE Handler
    <3>1. CASE Lock
      BY <2>0, <3>1 DEF Lock
    <3>2. CASE ErrorBranch \/ RxBranch \/ BnbBranch \/ TxBranch \/ Out
      BY <3>2 DEF ErrorBranch, RxBranch, BnbBranch, TxBranch, Out
    <3>3. CASE ReadRx \/ ReadFault \/ Finish \/ Fill \/ FillFault
      BY <3>3 DEF ReadRx, ReadFault, Finish, Fill, FillFault
    <3> QED BY <2>4, <3>1, <3>2, <3>3 DEF Handler
  <2>5. CASE Hardware \/ HwArbLost
    BY <2>5 DEF Hardware, HwSend, HwLength, HwRead, HwStop, HwArbLost, Pop, Nack
  <2>6. CASE UNCHANGED vars
    BY <2>6 DEF vars
  <2> QED BY <2>1, <2>2, <2>3, <2>4, <2>5, <2>6 DEF Next
<1> QED BY <1>1 DEF Plain, Undisturbed, ReadsLast

(***************************************************************************)
(* The transfer is followed byte for byte, for FIFOs of any depth, any     *)
(* transfers, any number of CPUs and with timeouts: OInv holds in every    *)
(* state in which the handler has not run between two stores of the caller *)
(* and the transfer has at most one read, of up to 255 bytes, at its end.  *)
(***************************************************************************)
THEOREM ByteForByte == ~FastBus => (Spec => [](Plain => OInv))
<1> SUFFICES ASSUME ~FastBus PROVE Spec => [](Plain => OInv)
  OBVIOUS
<1>1. Init => (Plain => OInv)
  BY InitOrder
<1>2. IInv /\ Types /\ PInv /\ PInv' /\ (Plain => OInv) /\ [Next]_vars => (Plain => OInv)'
  <2> SUFFICES ASSUME IInv, Types, PInv, PInv', Plain => OInv, [Next]_vars, Plain' PROVE OInv'
    OBVIOUS
  <2>1. Safe'
    BY DEF PInv, Plain, Undisturbed
  <2>2. CASE \E t \in Transfers : Call(t)
    BY <2>1, <2>2, CallOrder
  <2>3. CASE Plain
    <3>1. Safe /\ OInv
      BY <2>3 DEF PInv, Plain, Undisturbed
    <3> QED BY <2>1, <2>3, <3>1, OrderNext
  <2> QED BY <2>2, <2>3, SpokeBefore
<1> QED BY <1>1, <1>2, Invariance, PointersHold, PTL DEF Spec

(***************************************************************************)
(* DoneMeansSent for FIFOs of any depth, any transfers, any number of CPUs *)
(* and with timeouts: xiic_xfer returns success only if every byte of an   *)
(* undisturbed transfer went over the bus, each once and in order.         *)
(***************************************************************************)
THEOREM DoneMeansSentHolds == ~FastBus => (Spec => []DoneMeansSent)
<1> SUFFICES ASSUME ~FastBus PROVE Spec => []DoneMeansSent
  OBVIOUS
<1>1. IInv /\ (Plain => OInv) => DoneMeansSent
  <2> SUFFICES ASSUME IInv, OInv, result = "num"
               PROVE  ToSet(wire) = Items(cur) /\ Ordered(wire)
    BY DEF DoneMeansSent, Ordered, Plain
  <2>1. Whole(cur, wire) /\ cur # <<>> /\ cur \in Seq(Message)
    BY DEF OInv, Results, IInv, Messages
  <2> QED BY <2>1, WholeMeans
<1>2. Spec => [](IInv /\ Types) /\ [](Plain => OInv)
  BY Invariance, ByteForByte
<1> QED BY <1>1, <1>2, PTL

(***************************************************************************)
(* DoneMeansRead likewise, for transfers in which nothing follows a read:  *)
(* on success the buffer of a read holds exactly the bytes its slave sent, *)
(* in order, and no other buffer was written.                              *)
(***************************************************************************)
THEOREM DoneMeansReadHolds == ~FastBus => (Spec => [](ReadsLast => DoneMeansRead))
<1> SUFFICES ASSUME ~FastBus PROVE Spec => [](ReadsLast => DoneMeansRead)
  OBVIOUS
<1>1. (Plain => OInv) => (ReadsLast => DoneMeansRead)
  BY DEF OInv, Results, Filed, BytesOf, DoneMeansRead, Plain
<1>2. Spec => [](Plain => OInv)
  BY ByteForByte
<1> QED BY <1>1, <1>2, PTL

(***************************************************************************)
(* ErrorMeansFault likewise: xiic_xfer returns EIO only if the bus refused *)
(* a byte or was lost, never because of a read that came to its end.       *)
(***************************************************************************)
THEOREM ErrorMeansFaultHolds == ~FastBus => (Spec => []ErrorMeansFault)
<1> SUFFICES ASSUME ~FastBus PROVE Spec => []ErrorMeansFault
  OBVIOUS
<1>1. (Plain => OInv) => ErrorMeansFault
  BY DEF OInv, Results, ErrorMeansFault, Plain
<1>2. Spec => [](Plain => OInv)
  BY ByteForByte
<1> QED BY <1>1, <1>2, PTL
=============================================================================
