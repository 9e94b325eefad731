---------------------------- MODULE UartPortProofs ----------------------------
(***************************************************************************)
(* Proofs about UartPort, for FIFOs of any depth and any number of         *)
(* characters and console lines.                                           *)
(*                                                                         *)
(* That no character is lost rests on port->lock: whoever has read the     *)
(* status is the only one to write to the TX FIFO until it has used what   *)
(* it read, unless the console wrote without the lock in an oops           *)
(* (lockless); the order of the characters does not even then depend on    *)
(* it.  startup resets the FIFOs without the lock, which is harmless only  *)
(* while the interrupt cannot be on: as long as no console line, in        *)
(* progress across a close, turns it on again (NoReset).                   *)
(***************************************************************************)
EXTENDS UartPort, SequenceTheorems, TLAPS

\* No open resets the FIFOs under a console line.
NoReset == Lines = 0 \/ "close" \notin UserCalls

\* TypeOK in four parts.
Flags ==
  /\ open \in BOOLEAN /\ x_char \in BOOLEAN /\ stopped \in BOOLEAN /\ ignore \in BOOLEAN
  /\ busy \in BOOLEAN /\ saved \in BOOLEAN /\ ie \in BOOLEAN /\ irq \in BOOLEAN
  /\ locked \in BOOLEAN /\ lockless \in BOOLEAN
  /\ stat \in Stats /\ ustat \in Stats
Places ==
  /\ lock \in {"free", "isr", "user", "con"} /\ isr \in {"off", "stat", "rx", "tx"}
  /\ user \in {"idle", "start", "tx", "reset", "enable", "free_irq"}
  /\ con \in {"idle", "save", "off", "wait", "put", "restore"}
Queues ==
  /\ xmit \in Seq(Chars) /\ txf \in Seq(Chars) /\ wire \in Seq(Chars) /\ Len(txf) <= Depth
  /\ left \in 0 .. LineLen /\ lines \in 0 .. Lines /\ written \in 0 .. TtyChars
Input ==
  /\ arrived \in 0 .. RxChars /\ dropped \subseteq 0 .. arrived
  /\ tty \in Seq(Nat) /\ rxf \in Seq(1 .. arrived) /\ Len(rxf) <= Depth

\* port->lock and its holders.
Locked ==
  /\ isr \in {"rx", "tx"} <=> lock = "isr"
  /\ user \in {"start", "tx"} <=> lock = "user"
  /\ locked <=> lock = "con"
  /\ locked => con # "idle"
  /\ con # "idle" /\ ~locked => lockless

\* What was read of the status still holds if the console always had the lock,
\* and where the console is in its line.
Seen ==
  /\ ~lockless => /\ lock = "isr" /\ ~stat.full => Len(txf) < Depth
                  /\ user = "tx" /\ ~ustat.full => Len(txf) < Depth
                  /\ con = "put" => Len(txf) < Depth
  /\ con = "put" => left > 0
  /\ con \in {"idle", "restore"} => left = 0
  /\ con # "idle" => lines > 0

\* While the port is being closed, is closed or is being opened.
Closed ==
  /\ "close" \notin UserCalls => open /\ user \notin {"free_irq", "reset", "enable"}
  /\ user \in {"free_irq", "reset", "enable"} \/ ~open =>
       con = "idle" /\ xmit = <<>> /\ ~x_char /\ txf = <<>> /\ ~ie
  /\ user \in {"reset", "enable"} \/ ~open => isr = "off" /\ ~irq
  /\ ~open => user = "idle"

\* A handler that saw something to receive still finds it.
Received == isr = "rx" /\ stat.rx => rxf # <<>>

Safe == Flags /\ Places /\ Queues /\ Input /\ Locked /\ Seen

\* The characters of a kind in s: in order, and all of them if none may be lost.
Kept(kind, s, n, lossy) == InOrder(kind, s, n) /\ (lossy = FALSE => Complete(kind, s, n))

\* NoTxLoss.
TxKept ==
  /\ Len(xmit) <= written /\ \A i \in DOMAIN xmit : xmit[i] = Tty(written - Len(xmit) + i)
  /\ Kept("tty", wire \o txf, written - Len(xmit), lockless)
  /\ Kept("con", wire \o txf, lines * LineLen - left, lockless)

IInv == Safe /\ (NoReset => Closed /\ Received /\ TxKept /\ RxInOrder)
-----------------------------------------------------------------------------
(***************************************************************************)
(* The order of characters in a sequence, under the three things that      *)
(* happen to it.                                                           *)
(***************************************************************************)
LEMMA OrderNext ==
  ASSUME NEW kind \in {"tty", "con"}, NEW n \in Nat, NEW s \in Seq(Chars), NEW lossy,
         Kept(kind, s, n, lossy)
  PROVE  Kept(kind, s \o <<<<kind, n + 1>>>>, n + 1, lossy)
<1> DEFINE c == <<kind, n + 1>>
           t == s \o <<c>>
<1>1. c \in Chars /\ <<c>> \in Seq(Chars) /\ Len(<<c>>) = 1 /\ <<c>>[1] = c
  BY DEF Chars
<1>2. Len(s) \in Nat /\ DOMAIN s = 1 .. Len(s)
  OBVIOUS
<1>3. /\ DOMAIN t = 1 .. Len(s) + 1
      /\ \A i \in 1 .. Len(s) : t[i] = s[i]
      /\ t[Len(s) + 1] = c
  BY <1>1, <1>2, ConcatProperties
<1> HIDE DEF t
<1>4. \A i \in DOMAIN t : t[i][1] = kind => t[i][2] \in 1 .. n + 1
  BY <1>2, <1>3 DEF Kept, InOrder
<1>5. ASSUME lossy = FALSE PROVE Complete(kind, t, n + 1)
  <2> SUFFICES ASSUME NEW k \in 1 .. n + 1 PROVE \E i \in DOMAIN t : t[i] = <<kind, k>>
    BY DEF Complete
  <2>1. CASE k = n + 1
    BY <1>2, <1>3, <2>1
  <2>2. CASE k \in 1 .. n
    <3>1. PICK i \in DOMAIN s : s[i] = <<kind, k>>
      BY <1>5, <2>2 DEF Kept, Complete
    <3> QED BY <1>2, <1>3, <3>1
  <2> QED BY <2>1, <2>2
<1>6. ASSUME NEW i \in DOMAIN t, NEW j \in DOMAIN t, i < j, t[i][1] = kind, t[j][1] = kind
      PROVE  t[i][2] < t[j][2]
  BY <1>2, <1>3, <1>6 DEF Kept, InOrder
<1>7. InOrder(kind, t, n + 1)
  BY <1>4, <1>6 DEF InOrder
<1> QED BY <1>5, <1>7 DEF Kept, t

\* The next one is lost.
LEMMA OrderLost ==
  ASSUME NEW kind, NEW n \in Int, NEW s, NEW lossy, Kept(kind, s, n, lossy)
  PROVE  InOrder(kind, s, n + 1) /\ InOrder(kind, s, n)
<1>1. 1 .. n \subseteq 1 .. n + 1
  OBVIOUS
<1>2. InOrder(kind, s, n)
  BY DEF Kept
<1>3. InOrder(kind, s, n + 1)
  BY <1>1, <1>2 DEF InOrder
<1> QED BY <1>2, <1>3

LEMMA OrderOther ==
  ASSUME NEW kind, NEW n \in Int, NEW s \in Seq(Chars), NEW lossy, Kept(kind, s, n, lossy),
         NEW c \in Chars, c[1] # kind
  PROVE  Kept(kind, s \o <<c>>, n, lossy)
<1> DEFINE t == s \o <<c>>
<1>1. Len(s) \in Nat /\ DOMAIN s = 1 .. Len(s)
  OBVIOUS
<1>2. /\ DOMAIN t = 1 .. Len(s) + 1
      /\ \A i \in 1 .. Len(s) : t[i] = s[i]
      /\ t[Len(s) + 1] = c
  BY <1>1, ConcatProperties
<1> HIDE DEF t
<1>3. \A i \in DOMAIN t : t[i][1] = kind => i \in DOMAIN s /\ t[i] = s[i]
  BY <1>1, <1>2
<1>4. \A i \in DOMAIN s : i \in DOMAIN t /\ t[i] = s[i]
  BY <1>1, <1>2
<1>5. InOrder(kind, t, n)
  BY <1>3 DEF Kept, InOrder
<1>6. lossy = FALSE => Complete(kind, t, n)
  BY <1>4 DEF Kept, Complete
<1> QED BY <1>5, <1>6 DEF Kept, t

\* The last of w and the first of f change places with respect to the end of w.
LEMMA Shifted ==
  ASSUME NEW S, NEW w \in Seq(S), NEW f \in Seq(S), f # <<>>
  PROVE  Append(w, Head(f)) \o Tail(f) = w \o f
<1>1. Head(f) \in S /\ Tail(f) \in Seq(S) /\ Append(w, Head(f)) = w \o <<Head(f)>>
  BY HeadTailProperties, AppendIsConcat
<1>2. <<Head(f)>> \in Seq(S) /\ <<Head(f)>> \o Tail(f) = f
  <2>1. <<Head(f)>> \in Seq(S)
    BY <1>1
  <2>2. <<Head(f)>> \o Tail(f) = f
    <3> DEFINE g == <<Head(f)>> \o Tail(f)
    <3>1. Len(f) \in Nat \ {0} /\ Len(Tail(f)) = Len(f) - 1
          /\ \A i \in 1 .. Len(Tail(f)) : Tail(f)[i] = f[i + 1]
      BY HeadTailProperties, EmptySeq
    <3>2. Len(<<Head(f)>>) = 1 /\ <<Head(f)>>[1] = Head(f) /\ Head(f) = f[1]
      OBVIOUS
    <3>3. g \in Seq(S) /\ Len(g) = Len(f)
          /\ \A i \in 1 .. Len(f) : g[i] = IF i <= 1 THEN <<Head(f)>>[i] ELSE Tail(f)[i - 1]
      BY <1>1, <2>1, <3>1, <3>2, ConcatProperties
    <3>4. \A i \in 1 .. Len(f) : g[i] = f[i]
      BY <3>1, <3>2, <3>3
    <3> HIDE DEF g
    <3>5. g = f
      BY <3>3, <3>4, SeqEqual
    <3> QED BY <3>5 DEF g
  <2> QED BY <2>1, <2>2
<1> QED BY <1>1, <1>2, ConcatAssociative

\* w \o f with and without the first of f.
LEMMA Without ==
  ASSUME NEW S, NEW w \in Seq(S), NEW f \in Seq(S), f # <<>>
  PROVE  LET s == w \o f
             t == w \o Tail(f)
             n == Len(w)
         IN  /\ s \in Seq(S) /\ t \in Seq(S) /\ n \in Nat /\ Len(t) \in Nat
             /\ DOMAIN s = 1 .. Len(t) + 1 /\ DOMAIN t = 1 .. Len(t) /\ n <= Len(t)
             /\ \A i \in 1 .. n : t[i] = s[i]
             /\ s[n + 1] = Head(f)
             /\ \A i \in n + 1 .. Len(t) : t[i] = s[i + 1]
<1>1. /\ Tail(f) \in Seq(S) /\ Len(f) \in Nat \ {0} /\ Len(Tail(f)) = Len(f) - 1
      /\ \A i \in 1 .. Len(Tail(f)) : Tail(f)[i] = f[i + 1]
  BY HeadTailProperties, EmptySeq
<1>2. Head(f) = f[1]
  OBVIOUS
<1>3. /\ w \o f \in Seq(S) /\ Len(w \o f) = Len(w) + Len(f)
      /\ \A i \in 1 .. Len(w) + Len(f) : (w \o f)[i] = IF i <= Len(w) THEN w[i] ELSE f[i - Len(w)]
  BY ConcatProperties
<1>4. /\ w \o Tail(f) \in Seq(S) /\ Len(w \o Tail(f)) = Len(w) + Len(f) - 1
      /\ \A i \in 1 .. Len(w) + Len(f) - 1 :
           (w \o Tail(f))[i] = IF i <= Len(w) THEN w[i] ELSE Tail(f)[i - Len(w)]
  BY <1>1, ConcatProperties
<1>5. Len(w) \in Nat
  OBVIOUS
<1> DEFINE s == w \o f
           t == w \o Tail(f)
<1>6. DOMAIN s = 1 .. Len(s) /\ DOMAIN t = 1 .. Len(t)
  BY <1>3, <1>4
<1> HIDE DEF s, t
<1>7. \A i \in Len(w) + 1 .. Len(t) : t[i] = s[i + 1]
  BY <1>1, <1>3, <1>4, <1>5 DEF s, t
<1>8. s[Len(w) + 1] = Head(f) /\ \A i \in 1 .. Len(w) : t[i] = s[i]
  BY <1>1, <1>2, <1>3, <1>4, <1>5 DEF s, t
<1> QED BY <1>1, <1>3, <1>4, <1>5, <1>6, <1>7, <1>8 DEF s, t

LEMMA OrderWithout ==
  ASSUME NEW kind, NEW n \in Int, NEW w \in Seq(Chars), NEW f \in Seq(Chars), f # <<>>,
         Head(f)[1] # kind, NEW lossy, Kept(kind, w \o f, n, lossy)
  PROVE  Kept(kind, w \o Tail(f), n, lossy)
<1> DEFINE s == w \o f
           t == w \o Tail(f)
           m == Len(w)
           At(i) == IF i <= m THEN i ELSE i + 1
<1>1. /\ m \in Nat /\ Len(t) \in Nat /\ DOMAIN s = 1 .. Len(t) + 1 /\ DOMAIN t = 1 .. Len(t)
      /\ m <= Len(t)
      /\ \A i \in 1 .. m : t[i] = s[i]
      /\ s[m + 1] = Head(f)
      /\ \A i \in m + 1 .. Len(t) : t[i] = s[i + 1]
  BY Without
<1> HIDE DEF s, t, m
<1>2. \A i \in DOMAIN t : At(i) \in DOMAIN s /\ t[i] = s[At(i)]
  BY <1>1
<1>3. \A i, j \in DOMAIN t : i < j => At(i) < At(j)
  BY <1>1
<1>4. ASSUME lossy = FALSE PROVE Complete(kind, t, n)
  <2> SUFFICES ASSUME NEW k \in 1 .. n PROVE \E i \in DOMAIN t : t[i] = <<kind, k>>
    BY DEF Complete
  <2>1. PICK i \in DOMAIN s : s[i] = <<kind, k>>
    BY <1>4 DEF Kept, Complete, s
  <2>2. i # m + 1
    BY <1>1, <2>1
  <2>3. CASE i <= m
    BY <1>1, <2>1, <2>3
  <2>4. CASE i > m + 1
    <3> DEFINE j == i - 1
    <3>1. j \in m + 1 .. Len(t) /\ j + 1 = i
      BY <1>1, <2>4
    <3>2. t[j] = s[i] /\ j \in DOMAIN t
      BY <1>1, <3>1
    <3> HIDE DEF j
    <3> QED BY <2>1, <3>2
  <2> QED BY <1>1, <2>2, <2>3, <2>4
<1> HIDE DEF At
<1>5. \A i \in DOMAIN t : t[i][1] = kind => t[i][2] \in 1 .. n
  BY <1>2 DEF Kept, InOrder, s
<1>6. \A i, j \in DOMAIN t : i < j /\ t[i][1] = kind /\ t[j][1] = kind => t[i][2] < t[j][2]
  BY <1>2, <1>3 DEF Kept, InOrder, s
<1>7. InOrder(kind, t, n)
  BY <1>5, <1>6 DEF InOrder
<1> QED BY <1>4, <1>7 DEF Kept, t

\* The first of f goes out: it joins w, or is left out of it.
LEMMA OrderSent ==
  ASSUME NEW kind, NEW n \in Int, NEW w \in Seq(Chars), NEW f \in Seq(Chars), f # <<>>,
         NEW lossy, Kept(kind, w \o f, n, lossy)
  PROVE  /\ Kept(kind, Append(w, Head(f)) \o Tail(f), n, lossy)
         /\ Head(f)[1] # kind => Kept(kind, w \o Tail(f), n, lossy)
BY Shifted, OrderWithout

(***************************************************************************)
(* The same for the characters that arrive, which are their numbers.       *)
(***************************************************************************)
Increasing(s) == \A i, j \in DOMAIN s : i < j => s[i] < s[j]

LEMMA RangeAsSet ==
  ASSUME NEW S, NEW s \in Seq(S)
  PROVE  ToSet(s) = {s[i] : i \in 1 .. Len(s)} /\ ToSet(s) \subseteq S
BY DEF ToSet

LEMMA IncreasingNext ==
  ASSUME NEW s \in Seq(Nat), Increasing(s), NEW n \in Nat, \A x \in ToSet(s) : x < n
  PROVE  /\ s \o <<n>> \in Seq(Nat) /\ Increasing(s \o <<n>>)
         /\ ToSet(s \o <<n>>) = ToSet(s) \cup {n}
<1> DEFINE t == s \o <<n>>
<1>1. Len(s) \in Nat /\ DOMAIN s = 1 .. Len(s)
  OBVIOUS
<1>2. /\ t \in Seq(Nat) /\ Len(t) = Len(s) + 1 /\ DOMAIN t = 1 .. Len(s) + 1
      /\ \A i \in 1 .. Len(s) : t[i] = s[i]
      /\ t[Len(s) + 1] = n
  BY <1>1, ConcatProperties
<1> HIDE DEF t
<1>3. \A i \in 1 .. Len(s) : s[i] < n
  BY <1>1 DEF ToSet
<1>4. Increasing(t)
  <2> SUFFICES ASSUME NEW i \in DOMAIN t, NEW j \in DOMAIN t, i < j PROVE t[i] < t[j]
    BY DEF Increasing
  <2>1. i \in 1 .. Len(s) /\ t[i] = s[i]
    BY <1>1, <1>2
  <2>2. CASE j = Len(s) + 1
    BY <1>2, <1>3, <2>1, <2>2
  <2>3. CASE j \in 1 .. Len(s)
    BY <1>1, <1>2, <2>1, <2>3 DEF Increasing
  <2> QED BY <1>1, <1>2, <2>2, <2>3
<1>5. ToSet(t) = ToSet(s) \cup {n}
  BY <1>1, <1>2 DEF ToSet
<1> QED BY <1>2, <1>4, <1>5 DEF t

LEMMA IncreasingWithout ==
  ASSUME NEW w \in Seq(Nat), NEW f \in Seq(Nat), f # <<>>, Increasing(w \o f)
  PROVE  /\ Increasing(w \o Tail(f))
         /\ ToSet(w \o Tail(f)) = ToSet(w \o f) \ {Head(f)}
<1> DEFINE s == w \o f
           t == w \o Tail(f)
           m == Len(w)
           At(i) == IF i <= m THEN i ELSE i + 1
<1>1. /\ s \in Seq(Nat)
      /\ m \in Nat /\ Len(t) \in Nat /\ DOMAIN s = 1 .. Len(t) + 1 /\ DOMAIN t = 1 .. Len(t)
      /\ m <= Len(t)
      /\ \A i \in 1 .. m : t[i] = s[i]
      /\ s[m + 1] = Head(f)
      /\ \A i \in m + 1 .. Len(t) : t[i] = s[i + 1]
  BY Without
<1> HIDE DEF s, t, m
<1>0. m \in Nat /\ Len(t) \in Nat /\ m <= Len(t) /\ DOMAIN t = 1 .. Len(t)
      /\ DOMAIN s = 1 .. Len(t) + 1
  BY <1>1
<1>2. \A i \in DOMAIN t : At(i) \in DOMAIN s /\ At(i) # m + 1 /\ t[i] = s[At(i)]
  BY SMTT(40), <1>1
<1>3. \A i, j \in DOMAIN t : i < j => At(i) < At(j)
  BY <1>0
<1>4. \A i \in DOMAIN s : i # m + 1 => \E j \in DOMAIN t : i = At(j)
  <2> SUFFICES ASSUME NEW i \in DOMAIN s, i # m + 1 PROVE \E j \in DOMAIN t : i = At(j)
    OBVIOUS
  <2>1. CASE i <= m
    BY <1>1, <2>1
  <2>2. CASE i > m
    <3>1. i - 1 \in DOMAIN t /\ At(i - 1) = i
      BY <1>0, <2>2
    <3> QED BY <3>1
  <2> QED BY <1>1, <2>1, <2>2
<1> HIDE DEF At
<1>5. Increasing(s)
  BY DEF s
<1>6. Increasing(t)
  BY <1>2, <1>3, <1>5 DEF Increasing
<1>7. \A i \in DOMAIN s : i # m + 1 => s[i] # Head(f)
  <2> SUFFICES ASSUME NEW i \in DOMAIN s, i # m + 1 PROVE s[i] # s[m + 1]
    BY <1>1
  <2>1. m + 1 \in DOMAIN s /\ i \in Nat /\ s[i] \in Nat /\ s[m + 1] \in Nat
    BY <1>1
  <2>2. i < m + 1 \/ m + 1 < i
    BY <1>0, <2>1
  <2>3. s[i] < s[m + 1] \/ s[m + 1] < s[i]
    BY <1>5, <2>1, <2>2 DEF Increasing
  <2> QED BY <2>1, <2>3
<1>8. ToSet(t) = ToSet(s) \ {Head(f)}
  <2>1. \A x \in ToSet(t) : x \in ToSet(s) /\ x # Head(f)
    BY <1>2, <1>7 DEF ToSet
  <2>2. ASSUME NEW x \in ToSet(s), x # Head(f) PROVE x \in ToSet(t)
    <3>1. PICK i \in DOMAIN s : x = s[i]
      BY DEF ToSet
    <3>2. PICK j \in DOMAIN t : i = At(j)
      BY <1>1, <1>4, <2>2, <3>1
    <3> QED BY <1>2, <3>1, <3>2 DEF ToSet
  <2> QED BY <2>1, <2>2
<1> QED BY <1>6, <1>8 DEF s, t
-----------------------------------------------------------------------------
(***************************************************************************)
(* Types, the lock and what it protects: for any calls and any console.    *)
(***************************************************************************)
LEMMA InitSafe == Init => Safe
<1> SUFFICES ASSUME Init PROVE Safe
  OBVIOUS
<1> USE SizeAssumption, BoundsAssumption DEF Init
<1>1. Flags /\ Places
  BY DEF Flags, Places, Stats, NoStat
<1>2. Queues
  BY EmptySeq DEF Queues
<1>3. Input
  BY EmptySeq DEF Input
<1>4. Locked /\ Seen
  BY DEF Locked, Seen
<1> QED BY <1>1, <1>2, <1>3, <1>4 DEF Safe

\* A character that is to go into the FIFO, and the FIFO after it.
LEMMA PutType ==
  ASSUME Queues, NEW s \in Seq(Chars), Put(s)
  PROVE  txf' \in Seq(Chars) /\ Len(txf') <= Depth
<1>1. txf \in Seq(Chars) /\ Len(txf) <= Depth
  BY DEF Queues
<1>2. txf \o s \in Seq(Chars) /\ Len(txf \o s) = Len(txf) + Len(s)
  BY <1>1, ConcatProperties
<1> QED BY <1>1, <1>2 DEF Put

\* What ulite_transmit writes.
LEMMA OutputType ==
  ASSUME Queues, NEW s
  PROVE  /\ Output(s) \in Seq(Chars) /\ Len(Output(s)) \in {0, 1}
         /\ Output(s) # <<>> => ~s.full /\ Output(s) = <<IF x_char THEN X ELSE Head(xmit)>>
         /\ Output(s) # <<>> => x_char \/ xmit # <<>>
<1>1. xmit \in Seq(Chars) /\ X \in Chars
  BY DEF Queues, X, Chars
<1>2. xmit # <<>> => Head(xmit) \in Chars
  BY <1>1, HeadTailProperties
<1> HIDE DEF X
<1>3. /\ \A c \in Chars : <<c>> \in Seq(Chars) /\ Len(<<c>>) = 1 /\ <<c>> # <<>>
      /\ <<>> \in Seq(Chars) /\ Len(<<>>) = 0
  BY EmptySeq
<1> QED BY <1>1, <1>2, <1>3 DEF Output

LEMMA TransmitType ==
  ASSUME Queues, NEW s, Transmit(s)
  PROVE  /\ txf' \in Seq(Chars) /\ Len(txf') <= Depth
         /\ xmit' \in Seq(Chars) /\ UNCHANGED <<open, stopped, ignore>>
<1>1. xmit \in Seq(Chars)
  BY DEF Queues
<1>2. txf' \in Seq(Chars) /\ Len(txf') <= Depth
  BY OutputType, PutType DEF Transmit
<1>3. xmit' \in Seq(Chars)
  <2>1. CASE xmit' = xmit
    BY <1>1, <2>1
  <2>2. CASE Output(s) # <<>> /\ ~x_char
    BY <1>1, <2>2, OutputType, HeadTailProperties DEF Transmit
  <2> QED BY <2>1, <2>2 DEF Transmit
<1> QED BY <1>2, <1>3 DEF Transmit

\* What the status says of the TX FIFO.
LEMMA StatusFull ==
  ASSUME Queues
  PROVE  ~Status.full => Len(txf) < Depth
<1>1. Status.full <=> Len(txf) = Depth
  BY DEF Status
<1>2. Len(txf) \in Nat /\ Len(txf) <= Depth
  BY DEF Queues
<1> QED BY <1>1, <1>2, SizeAssumption

LEMMA AtLeast ==
  ASSUME NEW m \in Nat, NEW n \in Nat, m > 0
  PROVE  m * n \in Nat /\ m * n >= n
<1>1. (m - 1) * n \in Nat /\ m * n = (m - 1) * n + n
  OBVIOUS
<1> QED BY <1>1

LEMMA SafeNext == Safe /\ [Next]_vars => Safe'
<1> SUFFICES ASSUME Safe, [Next]_vars PROVE Safe'
  OBVIOUS
<1> USE SizeAssumption, BoundsAssumption DEF Safe, port, console, rx
<1>0. CASE UNCHANGED vars
  BY <1>0 DEF vars, Flags, Places, Queues, Input, Locked, Seen
<1>1. CASE IsrEnter
  <2>1. Flags' /\ Places'
    BY ZenonT(80), <1>1 DEF IsrEnter, Flags, Places
  <2>2. Queues'
    BY <1>1 DEF IsrEnter, Queues
  <2>3. Input'
    BY <1>1 DEF IsrEnter, Input
  <2>4. Locked'
    BY <1>1 DEF IsrEnter, Places, Locked
  <2>5. Seen'
    BY <1>1 DEF IsrEnter, Places, Locked, Seen
  <2> QED BY <2>1, <2>2, <2>3, <2>4, <2>5
<1>2. CASE IsrStat
  <2>1. Status \in Stats
    BY DEF Status, Stats
  <2>2. ~stat'.full => Len(txf) < Depth
    BY <1>2, StatusFull DEF IsrStat
  <2>3. Flags' /\ Places'
    BY <1>2, <2>1 DEF IsrStat, Lock, Flags, Places
  <2>4. Queues'
    BY <1>2 DEF IsrStat, Lock, Queues
  <2>5. Input'
    BY <1>2 DEF IsrStat, Lock, Input
  <2>6. Locked'
    BY <1>2 DEF IsrStat, Lock, Places, Locked
  <2>7. Seen'
    BY <1>2, <2>2 DEF IsrStat, Lock, Places, Locked, Seen
  <2> QED BY <2>3, <2>4, <2>5, <2>6, <2>7
<1>3. CASE Receive
  <2>1. Oldest \in 0 .. arrived /\ Popped \in Seq(1 .. arrived) /\ Len(Popped) <= Depth
    <3>1. arrived \in Nat /\ rxf \in Seq(1 .. arrived) /\ Len(rxf) <= Depth
      BY DEF Input
    <3>2. CASE rxf = <<>>
      BY <3>1, <3>2 DEF Oldest, Popped
    <3>3. CASE rxf # <<>>
      <4>1. Head(rxf) \in 1 .. arrived /\ Tail(rxf) \in Seq(1 .. arrived) /\ Len(Tail(rxf)) = Len(rxf) - 1
        BY <3>1, <3>3, HeadTailProperties
      <4> QED BY <3>1, <3>3, <4>1 DEF Oldest, Popped
    <3> QED BY <3>2, <3>3
  <2>2. tty' \in Seq(Nat)
    <3>1. Oldest \in Nat /\ tty \in Seq(Nat)
      BY <2>1 DEF Input
    <3>2. Append(tty, Oldest) \in Seq(Nat)
      BY <3>1, AppendProperties
    <3>3. tty' = tty \/ tty' = Append(tty, Oldest)
      BY <1>3 DEF Receive, Accepted
    <3> QED BY <3>1, <3>2, <3>3
  <2>3. dropped' \subseteq 0 .. arrived
    BY <1>3, <2>1 DEF Receive, Accepted, Input
  <2>4. Flags' /\ Places'
    <3>1. busy' \in BOOLEAN
      BY <1>3 DEF Receive
    <3> QED BY <1>3, <3>1 DEF Receive, Flags, Places
  <2>5. Queues'
    BY <1>3 DEF Receive, Queues
  <2>6. Input'
    BY <1>3, <2>1, <2>2, <2>3 DEF Receive, Input, Accepted
  <2>7. Locked'
    BY <1>3 DEF Receive, Places, Locked
  <2>8. Seen'
    BY <1>3 DEF Receive, Places, Locked, Seen
  <2> QED BY <2>4, <2>5, <2>6, <2>7, <2>8
<1>4. CASE IsrTransmit
  <2>1. txf' \in Seq(Chars) /\ Len(txf') <= Depth /\ xmit' \in Seq(Chars)
    BY <1>4, TransmitType DEF IsrTransmit
  <2>2. Flags' /\ Places'
    <3>1. x_char' \in BOOLEAN
      BY <1>4 DEF IsrTransmit, Transmit, Flags
    <3>2. UNCHANGED <<open, stopped, ignore, saved, locked, lockless, ie, irq, user, ustat, con>>
          /\ lock' = "free"
      BY <1>4 DEF IsrTransmit, Unlock, Transmit
    <3>3. isr' \in {"stat", "off"} /\ busy' = FALSE /\ stat' = NoStat /\ NoStat \in Stats
      BY <1>4 DEF IsrTransmit, NoStat, Stats
    <3> QED BY ZenonT(80), <3>1, <3>2, <3>3 DEF Flags, Places
  <2>3. Queues'
    BY <1>4, <2>1 DEF IsrTransmit, Unlock, Queues
  <2>4. Input'
    BY <1>4 DEF IsrTransmit, Unlock, Input, Transmit
  <2>5. Locked'
    BY <1>4 DEF IsrTransmit, Unlock, Places, Locked
  <2>6. Seen'
    BY <1>4 DEF IsrTransmit, Unlock, Places, Locked, Seen, Transmit
  <2> QED BY <2>2, <2>3, <2>4, <2>5, <2>6
<1>5. CASE StartTx
  <2>1. Status \in Stats
    BY DEF Status, Stats
  <2>2. ~ustat'.full => Len(txf) < Depth
    BY <1>5, StatusFull DEF StartTx
  <2>3. Flags' /\ Places'
    BY <1>5, <2>1 DEF StartTx, Flags, Places
  <2>4. Queues'
    BY <1>5 DEF StartTx, Queues
  <2>5. Input'
    BY <1>5 DEF StartTx, Input
  <2>6. Locked'
    BY <1>5 DEF StartTx, Places, Locked
  <2>7. Seen'
    BY <1>5, <2>2 DEF StartTx, Places, Locked, Seen
  <2> QED BY <2>3, <2>4, <2>5, <2>6, <2>7
<1>6. CASE UserTransmit
  <2>1. txf' \in Seq(Chars) /\ Len(txf') <= Depth /\ xmit' \in Seq(Chars)
    BY <1>6, TransmitType DEF UserTransmit
  <2>2. Flags' /\ Places'
    BY <1>6, <2>1 DEF UserTransmit, Unlock, Flags, Places, NoStat, Stats, Transmit
  <2>3. Queues'
    BY <1>6, <2>1 DEF UserTransmit, Unlock, Queues
  <2>4. Input'
    BY <1>6 DEF UserTransmit, Unlock, Input, Transmit
  <2>5. Locked'
    BY <1>6 DEF UserTransmit, Unlock, Places, Locked
  <2>6. Seen'
    BY <1>6 DEF UserTransmit, Unlock, Places, Locked, Seen, Transmit
  <2> QED BY <2>2, <2>3, <2>4, <2>5, <2>6
<1>7. CASE Reset
  <2>1. \A T : <<>> \in Seq(T) /\ Len(<<>>) = 0
    OBVIOUS
  <2>2. ToSet(rxf) \subseteq 1 .. arrived
    BY RangeAsSet DEF Input
  <2>3. Flags' /\ Places'
    BY ZenonT(80), <1>7 DEF Reset, Control, Flags, Places
  <2>4. Queues'
    BY <1>7, <2>1 DEF Reset, Control, Queues
  <2>5. Input'
    <3>1. rxf' \in Seq(1 .. arrived') /\ Len(rxf') <= Depth
      BY <1>7, <2>1 DEF Reset
    <3>2. dropped' \subseteq 0 .. arrived
      <4>1. 1 .. arrived \subseteq 0 .. arrived /\ dropped \subseteq 0 .. arrived
        BY DEF Input
      <4>2. dropped' = dropped \cup ToSet(rxf)
        BY <1>7 DEF Reset
      <4> QED BY <2>2, <4>1, <4>2
    <3> QED BY <1>7, <3>1, <3>2 DEF Reset, Input
  <2>6. Locked'
    BY <1>7 DEF Reset, Control, Places, Locked
  <2>7. Seen'
    BY <1>7, <2>1 DEF Reset, Control, Places, Locked, Seen, Queues
  <2> QED BY <2>3, <2>4, <2>5, <2>6, <2>7
<1>8. CASE Enable
  BY <1>8 DEF Enable, Control, Flags, Places, Queues, Input, Locked, Seen
<1>9. CASE FreeIrq
  BY ZenonT(80), <1>9 DEF FreeIrq, Flags, Places, Queues, Input, Locked, Seen
<1>10. CASE Save
  BY <1>10 DEF Save, Flags, Places, Queues, Input, Locked, Seen
<1>11. CASE DisableIrq
  BY ZenonT(80), <1>11 DEF DisableIrq, Control, Flags, Places, Queues, Input, Locked, Seen
<1>12. CASE WaitTx
  BY <1>12 DEF WaitTx, Flags, Places, Queues, Input, Locked, Seen
<1>13. CASE PutChar
  <2>1. txf' \in Seq(Chars) /\ Len(txf') <= Depth
    <3> DEFINE c == Con(lines * LineLen - left + 1)
    <3>1. c \in Chars
      <4>1. lines \in Nat /\ LineLen \in Nat /\ lines > 0 /\ left \in Nat /\ left <= LineLen
        BY <1>13 DEF PutChar, Seen, Queues
      <4>2. lines * LineLen \in Nat /\ lines * LineLen >= LineLen
        BY <4>1, AtLeast
      <4>3. lines * LineLen - left + 1 \in Nat
        BY <4>1, <4>2
      <4> QED BY <4>3 DEF Con, Chars
    <3>2. <<c>> \in Seq(Chars)
      BY <3>1
    <3> QED BY <1>13, <3>2, PutType DEF PutChar
  <2>2. left > 0
    BY <1>13 DEF PutChar, Seen
  <2>3. Flags' /\ Places'
    BY <1>13 DEF PutChar, Flags, Places, Put
  <2>4. Queues'
    BY <1>13, <2>1, <2>2 DEF PutChar, Queues
  <2>5. Input'
    BY <1>13 DEF PutChar, Input, Put
  <2>6. Locked'
    BY <1>13 DEF PutChar, Places, Locked
  <2>7. Seen'
    BY <1>13 DEF PutChar, Places, Locked, Seen
  <2> QED BY <2>3, <2>4, <2>5, <2>6, <2>7
<1>14. CASE Restore
  <2>1. Flags' /\ Places'
    BY ZenonT(80), <1>14 DEF Restore, Control, Unlock, Flags, Places
  <2>2. Queues'
    BY <1>14 DEF Restore, Control, Unlock, Queues
  <2>3. Input'
    BY <1>14 DEF Restore, Control, Unlock, Input
  <2>4. Locked'
    BY <1>14 DEF Restore, Control, Unlock, Places, Locked
  <2>5. Seen'
    BY <1>14 DEF Restore, Control, Unlock, Places, Locked, Seen
  <2> QED BY <2>1, <2>2, <2>3, <2>4, <2>5
<1>15. CASE ConsoleWrite
  <2>1. Flags'
    BY ZenonT(80), <1>15 DEF ConsoleWrite, Flags
  <2>0. Places'
    BY <1>15 DEF ConsoleWrite, Lock, Places
  <2>2. Queues' /\ Input'
    BY <1>15 DEF ConsoleWrite, Lock, Queues, Input
  <2>3. Locked'
    BY <1>15 DEF ConsoleWrite, Lock, Places, Locked
  <2>4. Seen'
    BY <1>15 DEF ConsoleWrite, Lock, Places, Queues, Locked, Seen
  <2> QED BY <2>0, <2>1, <2>2, <2>3, <2>4
<1>16. CASE Shift
  BY SMTT(40), <1>16 DEF Shift, Flags, Places, Queues, Input, Locked, Seen
<1>17. CASE Write
  <2>1. xmit' \in Seq(Chars)
    <3>1. Tty(written') \in Chars
      BY <1>17 DEF Write, Tty, Chars, Queues
    <3> QED BY <1>17, <3>1, AppendProperties DEF Write, Queues
  <2>2. Flags' /\ Places'
    BY <1>17 DEF Write, Idle, Lock, Flags, Places
  <2>3. Queues'
    BY <1>17, <2>1 DEF Write, Idle, Lock, Queues
  <2>4. Input'
    BY <1>17 DEF Write, Idle, Lock, Input
  <2>5. Locked'
    BY <1>17 DEF Write, Idle, Lock, Places, Locked
  <2>6. Seen'
    BY <1>17 DEF Write, Idle, Lock, Places, Locked, Seen
  <2> QED BY <2>2, <2>3, <2>4, <2>5, <2>6
<1>18. CASE SendXchar
  BY <1>18 DEF SendXchar, Lock, Idle, Flags, Places, Queues, Input, Locked, Seen
<1>19. CASE Flow
  <2>1. Flags' /\ Places'
    BY <1>19 DEF Flow, Lock, Idle, Flags, Places
  <2>2. Queues' /\ Input'
    BY <1>19 DEF Flow, Lock, Idle, Queues, Input
  <2>3. Locked'
    BY <1>19 DEF Flow, Lock, Idle, Places, Locked
  <2>4. Seen'
    BY <1>19 DEF Flow, Lock, Idle, Places, Locked, Seen
  <2> QED BY <2>1, <2>2, <2>3, <2>4
<1>20. CASE StopRx
  BY <1>20 DEF StopRx, Idle, Flags, Places, Queues, Input, Locked, Seen
<1>21. CASE Startup
  BY <1>21 DEF Startup, Idle, Flags, Places, Queues, Input, Locked, Seen
<1>22. CASE Shutdown
  BY ZenonT(80), <1>22 DEF Shutdown, Control, Idle, Flags, Places, Queues, Input, Locked, Seen
<1>23. CASE Arrive
  <2>1. rxf' \in Seq(1 .. arrived') /\ Len(rxf') <= Depth
    <3>1. arrived \in Nat /\ arrived' = arrived + 1 /\ rxf \in Seq(1 .. arrived')
      <4>1. arrived \in Nat /\ arrived' = arrived + 1 /\ rxf \in Seq(1 .. arrived)
        BY <1>23 DEF Arrive, Input
      <4> QED BY <4>1, SeqMonotonic
    <3>2. arrived' \in 1 .. arrived'
      BY <3>1
    <3>3. Append(rxf, arrived') \in Seq(1 .. arrived') /\ Len(Append(rxf, arrived')) = Len(rxf) + 1
      BY <3>1, <3>2, AppendProperties
    <3>4. Len(rxf) \in Nat /\ Len(rxf) <= Depth
      BY DEF Input
    <3>5. \/ Len(rxf) < Depth /\ rxf' = Append(rxf, arrived')
          \/ Len(rxf) = Depth /\ rxf' = rxf
      BY <1>23 DEF Arrive
    <3>6. CASE Len(rxf) < Depth /\ rxf' = Append(rxf, arrived')
      <4>1. Len(rxf') <= Depth
        BY <3>3, <3>4, <3>6
      <4> QED BY <3>3, <3>6, <4>1
    <3>7. CASE rxf' = rxf
      BY <3>1, <3>4, <3>7
    <3> QED BY <3>5, <3>6, <3>7
  <2>2. Flags' /\ Places'
    BY <1>23 DEF Arrive, Flags, Places
  <2>3. Queues'
    BY <1>23 DEF Arrive, Queues
  <2>4. Input'
    <3>1. dropped' \subseteq 0 .. arrived'
      <4>1. 0 .. arrived \subseteq 0 .. arrived' /\ arrived' \in 0 .. arrived'
        BY <1>23 DEF Arrive, Input
      <4>2. dropped' = dropped \/ dropped' = dropped \cup {arrived'}
        BY <1>23 DEF Arrive
      <4>3. dropped \subseteq 0 .. arrived
        BY DEF Input
      <4> QED BY <4>1, <4>2, <4>3
    <3> QED BY <1>23, <2>1, <3>1 DEF Arrive, Input
  <2>5. Locked'
    BY <1>23 DEF Arrive, Places, Locked
  <2>6. Seen'
    BY <1>23 DEF Arrive, Places, Locked, Seen
  <2> QED BY <2>2, <2>3, <2>4, <2>5, <2>6
<1>24. ASSUME NEW cread \in BOOLEAN, SetTermios(cread) PROVE Safe'
  BY <1>24 DEF SetTermios, Idle, Flags, Places, Queues, Input, Locked, Seen
<1> QED BY <1>0, <1>1, <1>2, <1>3, <1>4, <1>5, <1>6, <1>7, <1>8, <1>9, <1>10, <1>11, <1>12, <1>13, <1>14, <1>15, <1>16, <1>17, <1>18, <1>19, <1>20, <1>21, <1>22, <1>23, <1>24 DEF Next, Isr, User, Console

THEOREM SafeAlways == Spec => []Safe
BY InitSafe, SafeNext, PTL DEF Spec

\* The variables of UartPort keep their types, whatever user and console do.
THEOREM TypeCorrect == Spec => []TypeOK
<1>1. Safe => TypeOK
  BY DEF Safe, Flags, Places, Queues, Input, TypeOK
<1> QED BY <1>1, SafeAlways, PTL
-----------------------------------------------------------------------------
(***************************************************************************)
(* A closed port has nothing to send, and nobody to receive.               *)
(***************************************************************************)
LEMMA NothingToSend ==
  ASSUME NEW s, Transmit(s), txf = <<>>, xmit = <<>>, ~x_char
  PROVE  txf' = <<>> /\ xmit' = <<>> /\ ~x_char'
<1>1. Output(s) = <<>>
  BY DEF Output
<1>2. <<>> \o <<>> = <<>>
  BY ConcatEmptySeq, EmptySeq
<1> QED BY <1>1, <1>2 DEF Transmit, Put

LEMMA ClosedNext ==
  ASSUME NoReset, Safe, Closed, [Next]_vars
  PROVE  Closed'
<1> USE SizeAssumption, BoundsAssumption DEF port, console, rx
<1>0. con # "idle" => "close" \notin UserCalls
  BY DEF NoReset, Safe, Seen, Queues
<1>1. CASE UNCHANGED vars
  BY <1>1 DEF vars, Closed
<1>2. CASE Isr
  <2>1. CASE IsrEnter \/ IsrStat \/ Receive
    BY <2>1 DEF IsrEnter, IsrStat, Receive, Closed
  <2>2. CASE IsrTransmit
    <3>1. txf = <<>> /\ xmit = <<>> /\ ~x_char => txf' = <<>> /\ xmit' = <<>> /\ ~x_char'
      BY <2>2, NothingToSend DEF IsrTransmit
    <3> QED BY <2>2, <3>1 DEF IsrTransmit, Transmit, Closed
  <2> QED BY <1>2, <2>1, <2>2 DEF Isr
<1>3. CASE StartTx \/ UserTransmit
  BY <1>3 DEF StartTx, UserTransmit, Transmit, Closed
<1>4. CASE Reset \/ Enable \/ FreeIrq
  <2>1. CASE Reset
    BY <2>1 DEF Reset, Control, Closed
  <2>2. CASE Enable
    BY <2>2 DEF Enable, Control, Closed
  <2>3. CASE FreeIrq
    BY <2>3 DEF FreeIrq, Closed
  <2> QED BY <1>4, <2>1, <2>2, <2>3
<1>5. CASE Console
  BY <1>0, <1>5 DEF Console, Save, DisableIrq, WaitTx, PutChar, Restore, Control, Closed
<1>6. CASE ConsoleWrite
  <2>1. "close" \notin UserCalls
    BY <1>6 DEF ConsoleWrite, NoReset, Safe, Queues
  <2> QED BY <1>6, <2>1 DEF ConsoleWrite, Closed
<1>7. CASE Shift
  BY <1>7 DEF Shift, Closed
<1>8. CASE Write \/ SendXchar \/ Flow \/ StopRx
  BY <1>8 DEF Write, SendXchar, Flow, StopRx, Idle, Closed
<1>9. CASE Startup \/ Shutdown
  BY <1>0, <1>9 DEF Startup, Shutdown, Control, Idle, Closed, Safe, Locked
<1>10. CASE Arrive
  BY <1>10 DEF Arrive, Closed
<1>11. ASSUME NEW cread \in BOOLEAN, SetTermios(cread) PROVE Closed'
  BY <1>11 DEF SetTermios, Closed
<1> QED BY <1>1, <1>2, <1>3, <1>4, <1>5, <1>6, <1>7, <1>8, <1>9, <1>10, <1>11 DEF Next, User

LEMMA ReceivedNext ==
  ASSUME Safe, Closed, Received, [Next]_vars
  PROVE  Received'
<1> USE SizeAssumption DEF port, console, rx
<1>1. CASE UNCHANGED vars
  BY <1>1 DEF vars, Received
<1>2. CASE IsrStat
  <2>1. stat'.rx <=> rxf # <<>>
    BY <1>2 DEF IsrStat, Status
  <2> QED BY <1>2, <2>1 DEF IsrStat, Received
<1>3. CASE IsrEnter \/ Receive \/ IsrTransmit
  BY <1>3 DEF IsrEnter, Receive, IsrTransmit, Received
<1>4. CASE Reset
  BY <1>4 DEF Reset, Closed, Received
<1>5. CASE StartTx \/ UserTransmit \/ Enable \/ FreeIrq
  BY <1>5 DEF StartTx, UserTransmit, Enable, FreeIrq, Received
<1>6. CASE Console \/ ConsoleWrite \/ Shift
  BY <1>6 DEF Console, Save, DisableIrq, WaitTx, PutChar, Restore, ConsoleWrite, Shift, Received
<1>7. CASE Write \/ SendXchar \/ Flow \/ StopRx \/ Startup \/ Shutdown
  BY <1>7 DEF Write, SendXchar, Flow, StopRx, Startup, Shutdown, Received
<1>8. CASE Arrive
  <2>1. rxf # <<>> => rxf' # <<>>
    BY <1>8, AppendProperties DEF Arrive, Safe, Input
  <2> QED BY <1>8, <2>1 DEF Arrive, Received
<1>9. ASSUME NEW cread \in BOOLEAN, SetTermios(cread) PROVE Received'
  BY <1>9 DEF SetTermios, Received
<1> QED BY <1>1, <1>2, <1>3, <1>4, <1>5, <1>6, <1>7, <1>8, <1>9 DEF Next, Isr, User
-----------------------------------------------------------------------------
(***************************************************************************)
(* Output.                                                                 *)
(***************************************************************************)
LEMMA TransmitOrder ==
  ASSUME Queues, TxKept, NEW s, lockless = FALSE => (~s.full => Len(txf) < Depth), Transmit(s),
         UNCHANGED <<wire, written, lines, left, lockless>>, lockless \in BOOLEAN
  PROVE  TxKept'
<1> DEFINE n == written - Len(xmit)
           k == lines * LineLen - left
           sent == wire \o txf
           c == IF x_char THEN X ELSE Head(xmit)
<1>1. /\ wire \in Seq(Chars) /\ txf \in Seq(Chars) /\ xmit \in Seq(Chars) /\ sent \in Seq(Chars)
      /\ Len(xmit) \in Nat /\ n \in Nat /\ written \in Nat /\ k \in Int
  BY ConcatProperties, SizeAssumption, BoundsAssumption DEF Queues, TxKept
<1>2. CASE Output(s) = <<>>
  <2>1. txf' = txf /\ xmit' = xmit
    BY <1>1, <1>2, ConcatEmptySeq DEF Transmit, Put
  <2> QED BY <2>1 DEF TxKept
<1>3. CASE Output(s) # <<>>
  <2>1. ~s.full /\ Output(s) = <<c>> /\ (x_char \/ xmit # <<>>)
    BY <1>3, OutputType
  <2>2. c \in Chars
    BY <1>1, <2>1, HeadTailProperties DEF X, Chars
  <2>3. \/ txf' = txf \o <<c>> /\ wire' \o txf' = sent \o <<c>>
        \/ lockless = TRUE /\ txf' = txf /\ wire' \o txf' = sent
    <3>1. <<c>> \in Seq(Chars) /\ Len(<<c>>) = 1
      BY <2>2
    <3>2. lockless = FALSE => Len(txf) + 1 <= Depth
      BY <1>1, <2>1, SizeAssumption
    <3> HIDE DEF c
    <3>3. txf' = IF Len(txf) + 1 <= Depth THEN txf \o <<c>> ELSE txf
      BY <2>1, <3>1 DEF Transmit, Put
    <3>4. wire \o (txf \o <<c>>) = sent \o <<c>>
      BY <1>1, <3>1, ConcatAssociative
    <3> HIDE DEF sent
    <3>5. CASE Len(txf) + 1 <= Depth
      BY <3>3, <3>4, <3>5
    <3>6. CASE ~(Len(txf) + 1 <= Depth)
      BY <3>2, <3>3, <3>6 DEF sent
    <3> QED BY <3>5, <3>6
  <2> HIDE DEF k
  <2>4. Kept("tty", sent, n, lockless) /\ Kept("con", sent, k, lockless)
    BY DEF TxKept, k
  <2>5. CASE x_char
    <3>1. xmit' = xmit /\ c = X /\ c[1] # "tty" /\ c[1] # "con"
      BY <1>3, <2>5 DEF Transmit, X
    <3> HIDE DEF c, sent, n
    <3>2. Kept("tty", sent \o <<c>>, n, lockless)
      BY <1>1, <2>2, <2>4, <3>1, OrderOther
    <3>3. Kept("con", sent \o <<c>>, k, lockless)
      BY <1>1, <2>2, <2>4, <3>1, OrderOther
    <3>4. Kept("tty", wire' \o txf', n, lockless) /\ Kept("con", wire' \o txf', k, lockless)
      BY <2>3, <2>4, <3>2, <3>3
    <3> QED BY <3>1, <3>4 DEF TxKept, n, k
  <2>6. CASE ~x_char
    <3>1. /\ xmit # <<>> /\ c = Head(xmit) /\ xmit' = Tail(xmit)
      BY <1>3, <2>1, <2>6 DEF Transmit
    <3>2. /\ c = Tty(n + 1) /\ Len(xmit') = Len(xmit) - 1 /\ Len(xmit) > 0
          /\ \A i \in DOMAIN xmit' : xmit'[i] = xmit[i + 1] /\ i + 1 \in DOMAIN xmit
      <4>1. Head(xmit) = xmit[1] /\ 1 \in DOMAIN xmit /\ Len(xmit) > 0
        BY <1>1, <3>1, EmptySeq
      <4>2. xmit' \in Seq(Chars) /\ Len(xmit') = Len(xmit) - 1
            /\ \A i \in 1 .. Len(xmit') : xmit'[i] = xmit[i + 1]
        BY <1>1, <3>1, HeadTailProperties
      <4>3. DOMAIN xmit' = 1 .. Len(xmit') /\ DOMAIN xmit = 1 .. Len(xmit)
        BY <1>1, <4>2
      <4>4. xmit[1] = Tty(written - Len(xmit) + 1)
        BY <4>1 DEF TxKept
      <4> QED BY <1>1, <3>1, <4>1, <4>2, <4>3, <4>4
    <3>3. written' - Len(xmit') = n + 1
      BY <1>1, <3>2
    <3> HIDE DEF c, sent
    <3>4. c = <<"tty", n + 1>> /\ c[1] # "con"
      BY <3>2 DEF Tty
    <3>5. Kept("tty", wire' \o txf', n + 1, lockless)
      <4> HIDE DEF n
      <4>1. Kept("tty", sent \o <<c>>, n + 1, lockless)
        BY <1>1, <2>4, <3>4, OrderNext
      <4>2. InOrder("tty", sent, n + 1)
        BY <1>1, <2>4, OrderLost
      <4> QED BY <2>3, <4>1, <4>2 DEF Kept
    <3>6. Kept("con", wire' \o txf', k, lockless)
      <4> HIDE DEF n
      <4>1. Kept("con", sent \o <<c>>, k, lockless)
        BY <1>1, <2>2, <2>4, <3>4, OrderOther
      <4> QED BY <2>3, <2>4, <4>1
    <3>7. Len(xmit') <= written'
      BY <1>1, <3>2, <3>3
    <3>8. \A i \in DOMAIN xmit' : xmit'[i] = Tty(written' - Len(xmit') + i)
      <4>1. \A i \in DOMAIN xmit : xmit[i] = Tty(n + i)
        BY DEF TxKept
      <4>2. \A i \in DOMAIN xmit' : i \in Nat /\ xmit'[i] = Tty(n + (i + 1))
        <5>1. DOMAIN xmit' = 1 .. Len(xmit')
          BY <1>1, <3>1, HeadTailProperties
        <5> QED BY <3>2, <4>1, <5>1
      <4> HIDE DEF n
      <4>3. \A i \in Nat : n + (i + 1) = (n + 1) + i
        BY <1>1
      <4> QED BY <3>3, <4>2, <4>3
    <3> QED BY <3>3, <3>5, <3>6, <3>7, <3>8 DEF TxKept, k
  <2> QED BY <2>5, <2>6
<1> QED BY <1>2, <1>3

LEMMA TxNext ==
  ASSUME Safe, Closed, TxKept, [Next]_vars
  PROVE  TxKept'
<1> USE SizeAssumption, BoundsAssumption DEF port, console, rx
<1> DEFINE n == written - Len(xmit)
           k == lines * LineLen - left
           sent == wire \o txf
<1>1. Queues /\ Locked /\ Seen /\ lockless \in BOOLEAN
  BY DEF Safe, Flags
<1>2. /\ wire \in Seq(Chars) /\ txf \in Seq(Chars) /\ xmit \in Seq(Chars) /\ sent \in Seq(Chars)
      /\ n \in Nat /\ k \in Int /\ Len(xmit) \in Nat /\ written \in Nat /\ lines \in Nat /\ left \in Nat
  BY <1>1, ConcatProperties DEF Queues, TxKept
<1>3. /\ Len(xmit) <= written /\ \A i \in DOMAIN xmit : xmit[i] = Tty(n + i)
      /\ Kept("tty", sent, n, lockless) /\ Kept("con", sent, k, lockless)
  BY DEF TxKept
<1>4. CASE UNCHANGED <<wire, txf, xmit, written, lines, left, lockless>>
  BY <1>4 DEF TxKept
<1>5. CASE IsrTransmit
  <2>1. lockless = FALSE => (~stat.full => Len(txf) < Depth)
    BY <1>1, <1>5 DEF IsrTransmit, Locked, Seen
  <2>2. Transmit(stat) /\ UNCHANGED <<wire, written, lines, left, lockless>>
    BY <1>5 DEF IsrTransmit
  <2> QED BY <1>1, <2>1, <2>2, TransmitOrder
<1>6. CASE UserTransmit
  <2>1. lockless = FALSE => (~ustat.full => Len(txf) < Depth)
    BY <1>1, <1>6 DEF UserTransmit, Seen
  <2>2. Transmit(ustat) /\ UNCHANGED <<wire, written, lines, left, lockless>>
    BY <1>6 DEF UserTransmit
  <2> QED BY <1>1, <2>1, <2>2, TransmitOrder
<1>7. CASE Write
  <2>1. xmit' = Append(xmit, Tty(written + 1)) /\ written' = written + 1
        /\ UNCHANGED <<wire, txf, lines, left, lockless>>
    BY <1>7 DEF Write
  <2>2. Tty(written + 1) \in Chars
    BY <1>2 DEF Tty, Chars
  <2>3. /\ Len(xmit') = Len(xmit) + 1 /\ DOMAIN xmit' = 1 .. Len(xmit) + 1
        /\ \A i \in 1 .. Len(xmit) : i \in DOMAIN xmit /\ xmit'[i] = xmit[i]
        /\ xmit'[Len(xmit) + 1] = Tty(written + 1)
    BY SMTT(40), <1>2, <2>1, <2>2, AppendProperties
  <2>4. written' - Len(xmit') = n /\ n + (Len(xmit) + 1) = written + 1 /\ Len(xmit') <= written'
    BY SMTT(40), <1>2, <1>3, <2>1, <2>3
  <2> HIDE DEF n, k, sent
  <2>5. \A i \in DOMAIN xmit' : xmit'[i] = Tty(n + i)
    <3> SUFFICES ASSUME NEW i \in DOMAIN xmit' PROVE xmit'[i] = Tty(n + i)
      OBVIOUS
    <3>1. CASE i = Len(xmit) + 1
      BY <2>3, <2>4, <3>1
    <3>2. CASE i \in 1 .. Len(xmit)
      BY <1>3, <2>3, <3>2
    <3> QED BY <1>2, <2>3, <3>1, <3>2
  <2> QED BY <1>3, <2>1, <2>4, <2>5 DEF TxKept, n, k, sent
<1>8. CASE Reset
  <2>1. txf = <<>> /\ txf' = <<>>
    BY <1>8 DEF Reset, Closed
  <2> QED BY <1>8, <2>1 DEF Reset, TxKept
<1>9. CASE ConsoleWrite
  <2>1. left = 0 /\ lines' = lines + 1 /\ left' = LineLen
    BY <1>1, <1>9 DEF ConsoleWrite, Seen
  <2>2. lines' * LineLen = lines * LineLen + LineLen
    BY <1>2, <2>1
  <2>3. lines' * LineLen - left' = k
    BY <1>2, <2>1, <2>2
  <2>4. UNCHANGED <<wire, txf, xmit, written>> /\ (lockless' = lockless \/ lockless' = TRUE)
    BY <1>9 DEF ConsoleWrite
  <2> HIDE DEF n, k, sent
  <2>5. InOrder("tty", sent, n) /\ InOrder("con", sent, k)
    BY <1>2, <1>3, OrderLost
  <2>6. Kept("tty", sent, n, lockless') /\ Kept("con", sent, k, lockless')
    BY <1>3, <2>4, <2>5 DEF Kept
  <2> QED BY <1>3, <2>3, <2>4, <2>6 DEF TxKept, n, sent
<1>10. CASE PutChar
  <2> DEFINE c == Con(k + 1)
  <2>1. (lockless = FALSE => Len(txf) < Depth) /\ left > 0
    BY <1>1, <1>10 DEF PutChar, Seen
  <2>2. lines > 0
    BY <1>1, <1>10 DEF PutChar, Seen
  <2>3. lines * LineLen \in Nat /\ lines * LineLen >= LineLen
    BY <1>2, <2>2, AtLeast
  <2>4. k \in Nat /\ left <= LineLen
    BY <1>1, <1>2, <2>3 DEF Queues
  <2>5. c \in Chars /\ c = <<"con", k + 1>> /\ c[1] # "tty"
    BY <2>4 DEF Con, Chars
  <2>6. lines' * LineLen - left' = k + 1
    BY <1>2, <1>10, <2>3 DEF PutChar
  <2>7. UNCHANGED <<wire, xmit, written, lockless>>
    BY <1>10 DEF PutChar
  <2> HIDE DEF k
  <2>8. \/ wire' \o txf' = sent \o <<c>>
        \/ lockless = TRUE /\ wire' \o txf' = sent
    <3>1. <<c>> \in Seq(Chars) /\ Len(<<c>>) = 1
      BY <2>5
    <3>2. Put(<<c>>)
      BY <1>10 DEF PutChar, k
    <3> HIDE DEF c
    <3>3. txf' = IF Len(txf) + 1 <= Depth THEN txf \o <<c>> ELSE txf
      BY <3>1, <3>2 DEF Put
    <3>4. wire \o (txf \o <<c>>) = sent \o <<c>>
      BY <1>2, <3>1, ConcatAssociative
    <3>5. lockless = FALSE => Len(txf) + 1 <= Depth
      BY <1>2, <2>1
    <3> HIDE DEF sent
    <3>6. CASE Len(txf) + 1 <= Depth
      BY <2>7, <3>3, <3>4, <3>6
    <3>7. CASE ~(Len(txf) + 1 <= Depth)
      BY <1>1, <2>7, <3>3, <3>5, <3>7 DEF sent
    <3> QED BY <3>6, <3>7
  <2> HIDE DEF sent, n, c
  <2>9. Kept("con", sent \o <<c>>, k + 1, lockless) /\ InOrder("con", sent, k + 1)
    BY <1>2, <1>3, <2>4, <2>5, OrderNext, OrderLost
  <2>10. Kept("tty", sent \o <<c>>, n, lockless)
    <3>1. n \in Int /\ sent \in Seq(Chars) /\ Kept("tty", sent, n, lockless) /\ c \in Chars /\ c[1] # "tty"
      BY <1>2, <1>3, <2>5
    <3> QED BY <3>1, OrderOther
  <2>11. Kept("con", wire' \o txf', k + 1, lockless) /\ Kept("tty", wire' \o txf', n, lockless)
    BY <1>3, <2>8, <2>9, <2>10 DEF Kept
  <2> QED BY <1>3, <2>6, <2>7, <2>11 DEF TxKept, n
<1>11. CASE Shift
  <2>1. txf # <<>> /\ txf' = Tail(txf) /\ wire' = IF Head(txf) = X THEN wire ELSE Append(wire, Head(txf))
    BY <1>11 DEF Shift
  <2> HIDE DEF n, k
  <2>2. ASSUME NEW kind \in {"tty", "con"}, NEW m \in Int, Kept(kind, sent, m, lockless)
        PROVE  Kept(kind, wire' \o txf', m, lockless)
    <3>1. CASE Head(txf) = X
      BY <1>2, <2>1, <2>2, <3>1, OrderSent DEF X
    <3>2. CASE Head(txf) # X
      BY <1>2, <2>1, <2>2, <3>2, OrderSent
    <3> QED BY <3>1, <3>2
  <2>3. Kept("tty", wire' \o txf', n, lockless) /\ Kept("con", wire' \o txf', k, lockless)
    BY <1>2, <1>3, <2>2
  <2> QED BY <1>3, <1>11, <2>3 DEF Shift, TxKept, n, k
<1>12. CASE IsrEnter \/ IsrStat \/ Receive \/ StartTx \/ Enable \/ FreeIrq
  BY <1>4, <1>12 DEF IsrEnter, IsrStat, Receive, StartTx, Enable, FreeIrq
<1>13. CASE Save \/ DisableIrq \/ WaitTx \/ Restore \/ Arrive
  BY <1>4, <1>13 DEF Save, DisableIrq, WaitTx, Restore, Arrive
<1>14. CASE SendXchar \/ Flow \/ StopRx \/ Startup \/ Shutdown
  BY <1>4, <1>14 DEF SendXchar, Flow, StopRx, Startup, Shutdown
<1>15. ASSUME NEW cread \in BOOLEAN, SetTermios(cread) PROVE TxKept'
  BY <1>4, <1>15 DEF SetTermios
<1>16. CASE UNCHANGED vars
  BY <1>4, <1>16 DEF vars
<1> QED BY <1>5, <1>6, <1>7, <1>8, <1>9, <1>10, <1>11, <1>12, <1>13, <1>14, <1>15, <1>16
     DEF Next, Isr, User, Console
-----------------------------------------------------------------------------
(***************************************************************************)
(* Input.                                                                  *)
(***************************************************************************)
\* A reset takes the end of what arrived.
LEMMA IncreasingPrefix ==
  ASSUME NEW w \in Seq(Nat), NEW f \in Seq(Nat), Increasing(w \o f)
  PROVE  Increasing(w) /\ ToSet(w) = ToSet(w \o f) \ ToSet(f)
<1> DEFINE s == w \o f
<1>1. /\ Len(w) \in Nat /\ Len(f) \in Nat /\ DOMAIN w = 1 .. Len(w) /\ DOMAIN f = 1 .. Len(f)
      /\ s \in Seq(Nat) /\ DOMAIN s = 1 .. Len(w) + Len(f)
      /\ \A i \in 1 .. Len(w) + Len(f) : s[i] = IF i <= Len(w) THEN w[i] ELSE f[i - Len(w)]
  BY ConcatProperties
<1> HIDE DEF s
<1>2. \A i \in DOMAIN w : i \in DOMAIN s /\ s[i] = w[i] /\ w[i] \in Nat
  BY <1>1
<1>3. \A i \in DOMAIN f : Len(w) + i \in DOMAIN s /\ s[Len(w) + i] = f[i] /\ f[i] \in Nat
  <2> SUFFICES ASSUME NEW i \in DOMAIN f
               PROVE  Len(w) + i \in DOMAIN s /\ s[Len(w) + i] = f[i] /\ f[i] \in Nat
    OBVIOUS
  <2>1. Len(w) + i \in 1 .. Len(w) + Len(f) /\ ~(Len(w) + i <= Len(w)) /\ (Len(w) + i) - Len(w) = i
    BY <1>1
  <2> QED BY <1>1, <2>1
<1>4. \A i \in DOMAIN s : i \in DOMAIN w \/ \E j \in DOMAIN f : i = Len(w) + j
  <2> SUFFICES ASSUME NEW i \in DOMAIN s, i \notin DOMAIN w PROVE \E j \in DOMAIN f : i = Len(w) + j
    OBVIOUS
  <2>1. i - Len(w) \in DOMAIN f /\ i = Len(w) + (i - Len(w))
    BY <1>1
  <2> QED BY <2>1
<1>5. Increasing(w)
  BY <1>2 DEF Increasing, s
<1>6. \A i \in DOMAIN w, j \in DOMAIN f : w[i] < f[j]
  <2> SUFFICES ASSUME NEW i \in DOMAIN w, NEW j \in DOMAIN f PROVE w[i] < f[j]
    OBVIOUS
  <2>1. i < Len(w) + j
    BY <1>1
  <2> QED BY <1>2, <1>3, <2>1 DEF Increasing, s
<1>7. \A i \in DOMAIN w, j \in DOMAIN f : w[i] # f[j]
  BY <1>2, <1>3, <1>6
<1>8. ToSet(w) \subseteq ToSet(s) /\ ToSet(w) \cap ToSet(f) = {}
  BY <1>2, <1>7 DEF ToSet
<1>9. ASSUME NEW x \in ToSet(s), x \notin ToSet(f) PROVE x \in ToSet(w)
  <2>1. PICK i \in DOMAIN s : x = s[i]
    BY DEF ToSet
  <2>2. \A j \in DOMAIN f : i # Len(w) + j
    BY <1>3, <1>9, <2>1 DEF ToSet
  <2>3. i \in DOMAIN w
    BY <1>4, <2>2
  <2> QED BY <1>2, <2>1, <2>3 DEF ToSet
<1> QED BY <1>5, <1>8, <1>9 DEF s

LEMMA RxNext ==
  ASSUME Safe, Received, RxInOrder, [Next]_vars
  PROVE  RxInOrder'
<1> USE DEF port, console, rx
<1> DEFINE given == tty \o rxf
<1>1. /\ arrived \in Nat /\ dropped \subseteq 0 .. arrived /\ rxf \in Seq(1 .. arrived)
      /\ tty \in Seq(Nat) /\ rxf \in Seq(Nat) /\ given \in Seq(Nat)
  <2>1. /\ arrived \in Nat /\ dropped \subseteq 0 .. arrived /\ rxf \in Seq(1 .. arrived)
        /\ tty \in Seq(Nat)
    BY BoundsAssumption DEF Safe, Input
  <2>2. rxf \in Seq(Nat)
    BY <2>1, SeqMonotonic
  <2> QED BY <2>1, <2>2, ConcatProperties
<1>2. ToSet(given) = (1 .. arrived) \ dropped /\ Increasing(given)
  BY DEF RxInOrder, Increasing
<1>3. ASSUME ToSet(tty' \o rxf') = (1 .. arrived') \ dropped', Increasing(tty' \o rxf')
      PROVE  RxInOrder'
  BY <1>3 DEF RxInOrder, Increasing
<1>4. CASE UNCHANGED rx
  BY <1>4 DEF RxInOrder
<1>5. CASE Receive
  <2>1. CASE ~stat.rx
    BY <1>4, <1>5, <2>1 DEF Receive
  <2>2. CASE stat.rx
    <3>1. rxf # <<>> /\ rxf' = Tail(rxf) /\ Accepted(Head(rxf)) /\ arrived' = arrived
      BY <1>5, <2>2 DEF Receive, Received, Oldest, Popped
    <3>2. CASE ignore
      <4>1. tty' = tty /\ dropped' = dropped \cup {Head(rxf)}
        BY <3>1, <3>2 DEF Accepted
      <4>2. /\ Increasing(tty \o Tail(rxf))
            /\ ToSet(tty \o Tail(rxf)) = ToSet(given) \ {Head(rxf)}
        BY <1>1, <1>2, <3>1, IncreasingWithout
      <4> QED BY <1>2, <1>3, <3>1, <4>1, <4>2
    <3>3. CASE ~ignore
      <4>1. tty' = Append(tty, Head(rxf)) /\ dropped' = dropped
        BY <3>1, <3>3 DEF Accepted
      <4>2. tty' \o rxf' = given
        BY <1>1, <3>1, <4>1, Shifted
      <4> QED BY <1>2, <1>3, <3>1, <4>1, <4>2
    <3> QED BY <3>2, <3>3
  <2> QED BY <2>1, <2>2
<1>6. CASE Reset
  <2>1. tty' = tty /\ rxf' = <<>> /\ arrived' = arrived /\ dropped' = dropped \cup ToSet(rxf)
    BY <1>6 DEF Reset
  <2>2. tty' \o rxf' = tty
    BY <1>1, <2>1, ConcatEmptySeq
  <2>3. Increasing(tty) /\ ToSet(tty) = ToSet(given) \ ToSet(rxf)
    BY <1>1, <1>2, IncreasingPrefix
  <2> QED BY <1>2, <1>3, <2>1, <2>2, <2>3
<1>7. CASE Arrive
  <2>1. arrived' = arrived + 1 /\ tty' = tty
    BY <1>7 DEF Arrive
  <2>2. 1 .. arrived + 1 = (1 .. arrived) \cup {arrived + 1} /\ arrived + 1 \notin dropped
    BY <1>1
  <2>3. CASE rxf' = Append(rxf, arrived + 1) /\ dropped' = dropped
    <3>1. tty' \o rxf' = given \o <<arrived + 1>>
      <4>1. arrived + 1 \in Nat /\ <<arrived + 1>> \in Seq(Nat)
        BY <1>1
      <4>2. rxf' = rxf \o <<arrived + 1>>
        BY <1>1, <2>3, <4>1, AppendIsConcat
      <4> QED BY <1>1, <2>1, <4>1, <4>2, ConcatAssociative
    <3>2. \A x \in ToSet(given) : x < arrived + 1
      BY <1>1, <1>2
    <3> HIDE DEF given
    <3>3. Increasing(given \o <<arrived + 1>>)
          /\ ToSet(given \o <<arrived + 1>>) = ToSet(given) \cup {arrived + 1}
      BY <1>1, <1>2, <3>2, IncreasingNext
    <3>4. ToSet(given) \cup {arrived + 1} = (1 .. arrived + 1) \ dropped
      BY <1>2, <2>2
    <3> QED BY <1>3, <2>1, <2>3, <3>1, <3>3, <3>4
  <2>4. CASE rxf' = rxf /\ dropped' = dropped \cup {arrived + 1}
    <3>1. (1 .. arrived + 1) \ dropped' = (1 .. arrived) \ dropped
      <4>1. arrived + 1 \notin 1 .. arrived
        BY <1>1
      <4> QED BY <2>2, <2>4, <4>1
    <3> QED BY <1>2, <1>3, <2>1, <2>4, <3>1
  <2> QED BY <1>7, <2>1, <2>3, <2>4 DEF Arrive
<1>8. CASE IsrEnter \/ IsrStat \/ IsrTransmit \/ StartTx \/ UserTransmit \/ Enable \/ FreeIrq
  BY <1>4, <1>8 DEF IsrEnter, IsrStat, IsrTransmit, StartTx, UserTransmit, Enable, FreeIrq
<1>9. CASE Console \/ ConsoleWrite \/ Shift
  BY <1>4, <1>9 DEF Console, Save, DisableIrq, WaitTx, PutChar, Restore, ConsoleWrite, Shift
<1>10. CASE Write \/ SendXchar \/ Flow \/ StopRx \/ Startup \/ Shutdown
  BY <1>4, <1>10 DEF Write, SendXchar, Flow, StopRx, Startup, Shutdown
<1>11. ASSUME NEW cread \in BOOLEAN, SetTermios(cread) PROVE RxInOrder'
  BY <1>4, <1>11 DEF SetTermios
<1>12. CASE UNCHANGED vars
  BY <1>4, <1>12 DEF vars
<1> QED BY <1>5, <1>6, <1>7, <1>8, <1>9, <1>10, <1>11, <1>12 DEF Next, Isr, User
-----------------------------------------------------------------------------
LEMMA InitOrder == Init => Closed /\ Received /\ TxKept /\ RxInOrder
<1> SUFFICES ASSUME Init PROVE Closed /\ Received /\ TxKept /\ RxInOrder
  OBVIOUS
<1> USE SizeAssumption, BoundsAssumption DEF Init
<1>1. <<>> \o <<>> = <<>> /\ DOMAIN <<>> = {} /\ Len(<<>>) = 0
  BY ConcatEmptySeq, EmptySeq
<1>2. Closed /\ Received
  BY DEF Closed, Received, NoStat
<1>3. TxKept
  BY <1>1 DEF TxKept, Kept, InOrder, Complete
<1>4. RxInOrder
  BY <1>1 DEF RxInOrder, ToSet
<1> QED BY <1>2, <1>3, <1>4

THEOREM Invariance == Spec => []IInv
<1>1. Init => IInv
  BY InitSafe, InitOrder DEF IInv
<1>2. IInv /\ [Next]_vars => IInv'
  BY SafeNext, ClosedNext, ReceivedNext, TxNext, RxNext DEF IInv
<1> QED BY <1>1, <1>2, PTL DEF Spec

\* Unless an open resets the FIFOs under a console line, what the user and the
\* console write goes out in order and none twice, for FIFOs of any depth, also
\* when the console writes without the lock in an oops; and none is lost as long
\* as it had the lock (ulite_transmit and ulite_console_write of byu_uartlite.c).
THEOREM NoTxLossHolds == NoReset => (Spec => []NoTxLoss)
<1> SUFFICES ASSUME NoReset PROVE Spec => []NoTxLoss
  OBVIOUS
<1>1. IInv => NoTxLoss
  BY BoundsAssumption DEF IInv, Safe, Flags, Queues, TxKept, Kept, NoTxLoss
<1> QED BY <1>1, Invariance, PTL

\* Under the same condition the tty gets what arrived once and in order
\* (ulite_receive of byu_uartlite.c).
THEOREM RxInOrderHolds == NoReset => (Spec => []RxInOrder)
<1> SUFFICES ASSUME NoReset PROVE Spec => []RxInOrder
  OBVIOUS
<1>1. IInv => RxInOrder
  BY DEF IInv
<1> QED BY <1>1, Invariance, PTL
=============================================================================
