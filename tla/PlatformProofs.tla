--------------------------- MODULE PlatformProofs ---------------------------
(***************************************************************************)
(* The devices, the heap and the trap handlers of the platform, for every  *)
(* size of them: the invalidation filter leaves no old line in the L1, the *)
(* heap keeps its blocks apart, a DMA wait ends when the transfer has      *)
(* landed, the ASIC DMA returns the word of its job, the vector-matrix     *)
(* unit tells the truth about its output, a program resumes after a trap   *)
(* or an interrupt where it was, and an interrupt it asked for is served   *)
(* once.                                                                   *)
(***************************************************************************)
EXTENDS Bsp, Vmma, AsicDma, DmaReg, AxiInvalFilter, TLAPS

----------------------------------------------------------------------------
(* The L1 invalidation filter.                                             *)

\* The last line the filter invalidates for a burst.
LastLine(aw) == LineOf(aw.addr + Bytes(aw) - 1)

\* The line from which on the i-th burst of a queue is still to be done.
From(q, off, i) == LineOf(q[i].addr + (IF i = 1 THEN off ELSE 0))

Waits(l, q, off, i) == From(q, off, i) <= l /\ l <= LastLine(q[i])

\* Every old line is still to be invalidated for a burst of the queue, and
\* after the first line of a burst requests are for the starts of lines.
IvInv ==
  /\ ivFifo \in Seq(Bursts)
  /\ ivStale \subseteq Nat
  /\ ivOffset \in Nat
  /\ ivState \in {"Idle", "Invalidating"}
  /\ ivState = "Idle" => ivOffset = 0
  /\ ivState = "Invalidating" => ivFifo # <<>> /\ (ivFifo[1].addr + ivOffset) % L1LineWidth = 0
  /\ \A l \in ivStale : \E i \in 1 .. Len(ivFifo) : Waits(l, ivFifo, ivOffset, i)

----------------------------------------------------------------------------
(* Lines and addresses.                                                    *)

(***************************************************************************)
(* A number is its quotient and its remainder.                             *)
(***************************************************************************)
LEMMA DivMod ==
  ASSUME NEW w \in Nat \ {0}, NEW a \in Nat
  PROVE  a \div w \in Nat /\ a % w \in 0 .. w - 1 /\ a = w * (a \div w) + (a % w)
OBVIOUS

(***************************************************************************)
(* Different multiples are a width apart.                                  *)
(***************************************************************************)
LEMMA Apart ==
  ASSUME NEW w \in Nat \ {0}, NEW p \in Int, NEW q \in Int, p < q
  PROVE  w * p + w <= w * q
OBVIOUS

(***************************************************************************)
(* An address before the end of a's line is in a's line or before it.      *)
(***************************************************************************)
LEMMA BeforeEnd ==
  ASSUME NEW w \in Nat \ {0}, NEW a \in Nat, NEW b \in Nat, b < a - (a % w) + w
  PROVE  b \div w <= a \div w
<1> DEFINE p == a \div w
           q == b \div w
<1>1. /\ p \in Nat /\ a % w \in 0 .. w - 1 /\ a = w * p + (a % w)
      /\ q \in Nat /\ b % w \in 0 .. w - 1 /\ b = w * q + (b % w)
  BY DivMod
<1>2. p < q => w * p + w <= w * q BY <1>1, Apart
<1>3. w * p \in Int /\ w * q \in Int BY <1>1
<1> HIDE DEF p, q
<1>4. ~(p < q) BY <1>1, <1>2, <1>3
<1> QED BY <1>1, <1>4 DEF p, q

(***************************************************************************)
(* The line of a later address is not an earlier one.                      *)
(***************************************************************************)
LEMMA Monotone ==
  ASSUME NEW w \in Nat \ {0}, NEW a \in Nat, NEW b \in Nat, b <= a
  PROVE  b \div w <= a \div w
<1>1. a % w \in 0 .. w - 1 BY DivMod
<1>2. b < a - (a % w) + w BY <1>1
<1> QED BY <1>2, BeforeEnd

(***************************************************************************)
(* The address the filter goes to next is the start of the next line.      *)
(***************************************************************************)
LEMMA NextLine ==
  ASSUME NEW w \in Nat \ {0}, NEW a \in Nat, NEW b \in Nat, b = a - (a % w) + w
  PROVE  b \div w = (a \div w) + 1 /\ b % w = 0
<1> DEFINE p == a \div w
           q == b \div w
<1>1. /\ p \in Nat /\ a % w \in 0 .. w - 1 /\ a = w * p + (a % w)
      /\ q \in Nat /\ b % w \in 0 .. w - 1 /\ b = w * q + (b % w)
  BY DivMod
<1>2. w * p \in Int /\ w * q \in Int /\ w * (p + 1) = w * p + w BY <1>1
<1>3. p + 1 < q => w * (p + 1) + w <= w * q BY <1>1, Apart
<1>4. q < p + 1 => w * q + w <= w * (p + 1) BY <1>1, Apart
<1> HIDE DEF p, q
<1>5. q = p + 1 BY <1>1, <1>2, <1>3, <1>4
<1>6. b % w = 0 BY <1>1, <1>2, <1>5, SMTT(40)
<1> QED BY <1>5, <1>6 DEF p, q

(***************************************************************************)
(* The lines of a burst are among those from its address to its last line. *)
(***************************************************************************)
LEMMA LinesInside ==
  ASSUME NEW aw \in Bursts, NEW l \in Lines(aw)
  PROVE  l \in Nat /\ LineOf(aw.addr) <= l /\ l <= LastLine(aw)
<1>1. aw.addr \in Nat /\ aw.len \in Nat /\ Beat(aw) \in Nat \ {0} /\ L1LineWidth \in Nat \ {0}
  BY InvalAssumption
<1>2. Bytes(aw) \in Nat BY <1>1 DEF Bytes
<1>3. aw.addr % Beat(aw) \in Nat BY <1>1, DivMod
<1>4. PICK a \in aw.addr .. aw.addr - (aw.addr % Beat(aw)) + Bytes(aw) - 1 : l = LineOf(a)
  BY DEF Lines
<1>5. a \in Nat /\ aw.addr <= a /\ a <= aw.addr + Bytes(aw) - 1 /\ aw.addr + Bytes(aw) - 1 \in Nat
  BY <1>1, <1>2, <1>3, <1>4
<1>6. a \div L1LineWidth \in Nat BY <1>1, <1>5, DivMod
<1> QED BY <1>1, <1>4, <1>5, <1>6, Monotone DEF LineOf, LastLine

----------------------------------------------------------------------------
(* The filter.                                                             *)

(***************************************************************************)
(* The next request is for the start of the next line; without one the     *)
(* last line of the burst was requested (axi_inval_filter.sv:93-114).      *)
(***************************************************************************)
LEMMA OffsetMoves ==
  ASSUME NEW aw \in Bursts, ivOffset \in Nat,
         ivState = "Idle" => ivOffset = 0,
         ivState # "Idle" => (aw.addr + ivOffset) % L1LineWidth = 0
  PROVE  /\ NextOffset(aw) \in Nat
         /\ LineOf(aw.addr + NextOffset(aw)) = LineOf(aw.addr + ivOffset) + 1
         /\ (aw.addr + NextOffset(aw)) % L1LineWidth = 0
         /\ ~(NextOffset(aw) < Bytes(aw)) => LastLine(aw) <= LineOf(aw.addr + ivOffset)
<1> DEFINE a == aw.addr + ivOffset
           b == aw.addr + NextOffset(aw)
           e == aw.addr + Bytes(aw) - 1
<1>1. aw.addr \in Nat /\ aw.len \in Nat /\ Beat(aw) \in Nat \ {0} /\ L1LineWidth \in Nat \ {0}
  BY InvalAssumption
<1>2. Bytes(aw) \in Nat \ {0}
  <2>1. aw.len + 1 \in Nat \ {0} BY <1>1
  <2> HIDE DEF a, b, e
  <2>2. \A x, y \in Nat \ {0} : x * y \in Nat \ {0} OBVIOUS
  <2> QED BY <1>1, <2>1, <2>2 DEF Bytes
<1>0. a \in Nat BY <1>1
<1>3. a \in Nat /\ a % L1LineWidth \in 0 .. L1LineWidth - 1
  <2> HIDE DEF a
  <2> QED BY <1>0, <1>1, DivMod
<1>4. b = a - (a % L1LineWidth) + L1LineWidth /\ NextOffset(aw) \in Nat
  <2>1. CASE ivState = "Idle" BY <1>1, <1>3, <2>1 DEF NextOffset, ToNextLine
  <2>2. CASE ivState # "Idle" BY <1>1, <1>3, <2>2 DEF NextOffset
  <2> QED BY <2>1, <2>2
<1>5. b \in Nat /\ e \in Nat
  <2> HIDE DEF a
  <2> QED BY <1>1, <1>2, <1>4
<1>6. ~(NextOffset(aw) < Bytes(aw)) => e < b BY <1>1, <1>2, <1>4
<1> HIDE DEF a, b, e
<1>7. b \div L1LineWidth = (a \div L1LineWidth) + 1 /\ b % L1LineWidth = 0
  BY <1>1, <1>3, <1>4, <1>5, NextLine
<1>8. e < b => e \div L1LineWidth <= a \div L1LineWidth
  BY <1>1, <1>3, <1>4, <1>5, BeforeEnd
<1> QED BY <1>4, <1>6, <1>7, <1>8 DEF LineOf, LastLine, a, b, e

(***************************************************************************)
(* A burst that passes joins the queue: it passes only while there is      *)
(* place (axi_inval_filter.sv:67-70).                                      *)
(***************************************************************************)
LEMMA Joins ==
  ASSUME IvInv, NEW new \in Passes
  PROVE  /\ Queue(new) \in Seq(Bursts)
         /\ \A i \in 1 .. Len(ivFifo) : i \in 1 .. Len(Queue(new)) /\ Queue(new)[i] = ivFifo[i]
         /\ \/ new = <<>> /\ Queue(new) = ivFifo
            \/ /\ new # <<>> /\ Head(new) \in Bursts
               /\ Len(Queue(new)) = Len(ivFifo) + 1
               /\ Queue(new)[Len(ivFifo) + 1] = Head(new)
<1>1. ivFifo \in Seq(Bursts) BY DEF IvInv
<1>2. CASE Len(ivFifo) = MaxTxns
  <2>1. new = <<>> /\ Queue(new) = ivFifo BY <1>2 DEF Passes, Queue
  <2> QED BY <1>1, <2>1
<1>3. CASE Len(ivFifo) # MaxTxns /\ new = <<>>
  <2>1. Queue(new) = ivFifo BY <1>1, <1>3 DEF Queue
  <2> QED BY <1>1, <1>3, <2>1
<1>4. CASE Len(ivFifo) # MaxTxns /\ new # <<>>
  <2>1. PICK aw \in Bursts : new = <<aw>> BY <1>4 DEF Passes
  <2>2. Queue(new) = Append(ivFifo, aw) BY <1>1, <1>4, <2>1 DEF Queue
  <2>3. Head(new) = aw BY <2>1
  <2> QED BY <1>1, <1>4, <2>2, <2>3
<1> QED BY <1>2, <1>3, <1>4

(***************************************************************************)
(* With the burst in the queue its lines wait there as well; a line that   *)
(* is requested in this very cycle waits behind the first burst, unless    *)
(* the request is its own.                                                 *)
(***************************************************************************)
LEMMA LinesJoin ==
  ASSUME IvInv, NEW new \in Passes, NEW r, r = {} \/ r = {Requested(Queue(new))},
         NEW l \in (ivStale \ r) \cup Written(new, r)
  PROVE  /\ l \in Nat
         /\ \E i \in 1 .. Len(Queue(new)) : Waits(l, Queue(new), ivOffset, i) /\ (l \in r => i > 1)
<1>1. CASE l \in ivStale \ r
  <2>1. PICK i \in 1 .. Len(ivFifo) : Waits(l, ivFifo, ivOffset, i)
    BY <1>1 DEF IvInv
  <2>2. i \in 1 .. Len(Queue(new)) /\ Queue(new)[i] = ivFifo[i] BY <2>1, Joins
  <2>3. Waits(l, Queue(new), ivOffset, i) BY <2>1, <2>2 DEF Waits, From
  <2>4. l \in Nat BY <1>1 DEF IvInv
  <2> QED BY <1>1, <2>2, <2>3, <2>4
<1>2. CASE l \in Written(new, r)
  <2> DEFINE aw == Head(new)
             n == Len(ivFifo) + 1
  <2>1. new # <<>> /\ l \in Lines(aw) /\ (ivFifo = <<>> => l \notin r)
    BY <1>2 DEF Written
  <2>2. aw \in Bursts /\ Len(Queue(new)) = n /\ Queue(new)[n] = aw
    BY <2>1, Joins
  <2>3. l \in Nat /\ LineOf(aw.addr) <= l /\ l <= LastLine(aw)
    BY <2>1, <2>2, LinesInside
  <2>4. Len(ivFifo) \in Nat /\ (Len(ivFifo) = 0 <=> ivFifo = <<>>) BY DEF IvInv
  <2>5. n = 1 => ivOffset = 0 BY <2>4 DEF IvInv
  <2>6. aw.addr + 0 = aw.addr BY <2>2, InvalAssumption
  <2>7. From(Queue(new), ivOffset, n) = LineOf(aw.addr)
    BY <2>2, <2>5, <2>6 DEF From
  <2>8. Waits(l, Queue(new), ivOffset, n) BY <2>2, <2>3, <2>7 DEF Waits
  <2>9. n \in 1 .. Len(Queue(new)) /\ (l \in r => n > 1) BY <2>1, <2>2, <2>4
  <2> QED BY <2>3, <2>8, <2>9
<1> QED BY <1>1, <1>2

(***************************************************************************)
(* A cycle in which the L1 takes nothing keeps the invariant.              *)
(***************************************************************************)
LEMMA HoldKeeps ==
  ASSUME IvInv, NEW new \in Passes, Hold(new)
  PROVE  IvInv'
<1>1. /\ ivFifo' = Queue(new) /\ ivState' = ivState /\ ivOffset' = ivOffset
      /\ ivStale' = (ivStale \ {}) \cup Written(new, {})
  BY DEF Hold
<1>2. \A l \in ivStale' : l \in Nat /\ \E i \in 1 .. Len(ivFifo') : Waits(l, ivFifo', ivOffset', i)
  BY <1>1, LinesJoin
<1>3. ivFifo' \in Seq(Bursts) BY <1>1, Joins
<1>4. ivState = "Invalidating" => ivFifo' # <<>> /\ ivFifo'[1] = ivFifo[1]
  <2>1. ASSUME ivState = "Invalidating" PROVE 1 \in 1 .. Len(ivFifo)
    BY <2>1 DEF IvInv
  <2> QED BY <1>1, <1>3, <2>1, Joins
<1> QED BY <1>1, <1>2, <1>3, <1>4 DEF IvInv, Waits, From, LastLine, LineOf, Bytes, Beat

(***************************************************************************)
(* A cycle in which the L1 takes a line keeps it.                          *)
(***************************************************************************)
LEMMA TakeKeeps ==
  ASSUME IvInv, NEW new \in Passes, Take(new)
  PROVE  IvInv'
<1> DEFINE q == Queue(new)
           aw == q[1]
           r == Requested(q)
<1>1. q \in Seq(Bursts) /\ q # <<>> /\ Head(q) = aw /\ aw \in Bursts
  <2>1. q \in Seq(Bursts) /\ q # <<>> BY Joins DEF Take
  <2> HIDE DEF q
  <2> QED BY <2>1
<1>2. r = LineOf(aw.addr + ivOffset) BY <1>1 DEF Requested
<1>3. ivStale' = (ivStale \ {r}) \cup Written(new, {r}) BY DEF Take
<1>4. ivState # "Idle" => aw = ivFifo[1] /\ (aw.addr + ivOffset) % L1LineWidth = 0
  <2> SUFFICES ASSUME ivState # "Idle" PROVE aw = ivFifo[1] /\ (aw.addr + ivOffset) % L1LineWidth = 0
    OBVIOUS
  <2>1. ivState = "Invalidating" /\ ivFifo \in Seq(Bursts) /\ ivFifo # <<>>
        /\ (ivFifo[1].addr + ivOffset) % L1LineWidth = 0
    BY DEF IvInv
  <2>2. 1 \in 1 .. Len(ivFifo) BY <2>1
  <2>3. aw = ivFifo[1] BY <2>2, Joins
  <2> HIDE DEF aw
  <2> QED BY <2>1, <2>3
<1>5. \A l \in ivStale' : l \in Nat /\ \E i \in 1 .. Len(q) : Waits(l, q, ivOffset, i) /\ (l = r => i > 1)
  <2> SUFFICES ASSUME NEW l \in ivStale'
               PROVE  l \in Nat /\ \E i \in 1 .. Len(q) : Waits(l, q, ivOffset, i) /\ (l = r => i > 1)
    OBVIOUS
  <2>1. l \in (ivStale \ {r}) \cup Written(new, {r}) BY <1>3
  <2> QED BY <2>1, LinesJoin
<1>6. Invalidate(q) BY DEF Take
<1>7. ivOffset \in Nat /\ (ivState = "Idle" => ivOffset = 0) BY DEF IvInv
<1> HIDE DEF q, aw, r
<1>8. /\ NextOffset(aw) \in Nat
      /\ LineOf(aw.addr + NextOffset(aw)) = r + 1
      /\ (aw.addr + NextOffset(aw)) % L1LineWidth = 0
      /\ ~(NextOffset(aw) < Bytes(aw)) => LastLine(aw) <= r
  BY <1>1, <1>2, <1>4, <1>7, OffsetMoves
<1>9. r \in Int /\ LastLine(aw) \in Int
  <2>1. aw.addr \in Nat /\ aw.len \in Nat /\ Beat(aw) \in Nat \ {0} /\ L1LineWidth \in Nat \ {0}
    BY <1>1, InvalAssumption
  <2> QED BY <1>2, <1>7, <2>1 DEF LineOf, LastLine, Bytes
<1>10. ivStale' \subseteq Nat BY <1>5
<1>11. CASE NextOffset(aw) < Bytes(aw)
  <2>1. ivState' = "Invalidating" /\ ivOffset' = NextOffset(aw) /\ ivFifo' = q
    BY <1>1, <1>6, <1>11 DEF Invalidate
  <2>2. ASSUME NEW l \in ivStale' PROVE \E i \in 1 .. Len(q) : Waits(l, q, ivOffset', i)
    <3>1. PICK i \in 1 .. Len(q) : Waits(l, q, ivOffset, i) /\ (l = r => i > 1) BY <1>5
    <3>2. CASE i = 1
      <4>1. l \in Nat /\ l # r /\ r <= l /\ l <= LastLine(aw)
        BY <1>2, <1>5, <3>1, <3>2 DEF Waits, From, aw
      <4>2. r + 1 <= l BY <1>9, <4>1
      <4> QED BY <1>8, <2>1, <3>1, <3>2, <4>1, <4>2 DEF Waits, From, aw
    <3>3. CASE i # 1 BY <3>1, <3>3 DEF Waits, From
    <3> QED BY <3>2, <3>3
  <2> QED BY <1>1, <1>8, <1>10, <2>1, <2>2 DEF IvInv, aw, Waits, From, LastLine, LineOf, Bytes, Beat
<1>12. CASE ~(NextOffset(aw) < Bytes(aw))
  <2>1. ivState' = "Idle" /\ ivOffset' = 0 /\ ivFifo' = Tail(q)
    BY <1>1, <1>6, <1>12 DEF Invalidate
  <2>2. ASSUME NEW l \in ivStale' PROVE \E i \in 1 .. Len(Tail(q)) : Waits(l, Tail(q), 0, i)
    <3>1. PICK i \in 1 .. Len(q) : Waits(l, q, ivOffset, i) /\ (l = r => i > 1) BY <1>5
    <3>2. i # 1
      <4>1. SUFFICES ASSUME i = 1 PROVE FALSE OBVIOUS
      <4>2. l \in Nat /\ l # r /\ r <= l /\ l <= LastLine(aw)
        BY <1>2, <1>5, <3>1, <4>1 DEF Waits, From, aw
      <4> QED BY <1>8, <1>9, <1>12, <4>2
    <3>3. i - 1 \in 1 .. Len(Tail(q)) /\ Tail(q)[i - 1] = q[i] BY <1>1, <3>1, <3>2
    <3>4. From(Tail(q), 0, i - 1) = From(q, ivOffset, i)
      BY <3>2, <3>3 DEF From
    <3> QED BY <3>1, <3>3, <3>4 DEF Waits
  <2>3. Tail(q) \in Seq(Bursts) BY <1>1
  <2> QED BY <1>10, <2>1, <2>2, <2>3 DEF IvInv, Waits, From, LastLine, LineOf, Bytes, Beat
<1> QED BY <1>11, <1>12

(***************************************************************************)
(* Once the filter has nothing left to do no written line is old in the L1 *)
(* (axi_inval_filter.sv), for every line width, queue length and burst.    *)
(***************************************************************************)
THEOREM LinesInvalidated == IvSpec => []NoStaleLine
<1>1. IvInit => IvInv BY DEF IvInit, IvInv
<1>2. IvInv /\ [IvNext]_ivVars => IvInv'
  <2> SUFFICES ASSUME IvInv, [IvNext]_ivVars PROVE IvInv' OBVIOUS
  <2>1. CASE IvNext BY <2>1, HoldKeeps, TakeKeeps DEF IvNext
  <2>2. CASE UNCHANGED ivVars
    BY <2>2 DEF ivVars, IvInv, Waits, From, LastLine, LineOf, Bytes, Beat
  <2> QED BY <2>1, <2>2
<1>3. IvInv => NoStaleLine
  <2> SUFFICES ASSUME IvInv, ivFifo = <<>> PROVE ivStale = {} BY DEF NoStaleLine
  <2>1. 1 .. Len(ivFifo) = {} OBVIOUS
  <2> QED BY <2>1 DEF IvInv
<1> QED BY <1>1, <1>2, <1>3, PTL DEF IvSpec

----------------------------------------------------------------------------
(* The heap.                                                               *)

\* Blocks end at or below the break: it is what the next block starts from.
SyInv ==
  /\ brk \in Nat
  /\ blocks \subseteq Nat \X Nat
  /\ \A b \in blocks : b[1] <= b[2] /\ b[2] <= brk
  /\ HeapBlocksApart

(***************************************************************************)
(* Cutting the blocks at a lower break leaves blocks that end there and    *)
(* are as far apart as before.                                             *)
(***************************************************************************)
LEMMA CutBlocks ==
  ASSUME SyInv, NEW t \in Nat
  PROVE  /\ Below(t) \subseteq Nat \X Nat
         /\ \A b \in Below(t) : b[1] <= b[2] /\ b[2] <= t /\ 0 <= b[1] /\ b[2] < HeapEnd
         /\ \A b, c \in Below(t) : b # c => b[2] <= c[1] \/ c[2] <= b[1]
<1> DEFINE Cut(x) == <<x[1], IF x[2] < t THEN x[2] ELSE t>>
<1>1. HeapEnd \in Nat BY HeapAssumption
<1>2. ASSUME NEW x \in blocks, x[1] < t
      PROVE  /\ Cut(x) \in Nat \X Nat
             /\ Cut(x)[1] = x[1] /\ Cut(x)[2] <= x[2] /\ Cut(x)[2] <= t
             /\ Cut(x)[1] <= Cut(x)[2] /\ x[2] < HeapEnd
             /\ x[1] \in Nat /\ x[2] \in Nat /\ Cut(x)[2] \in Nat
  BY <1>2 DEF SyInv, HeapBlocksApart
<1>3. \A b \in Below(t) : \E x \in blocks : x[1] < t /\ b = Cut(x)
  BY DEF Below
<1> HIDE DEF Cut
<1>4. ASSUME NEW b \in Below(t)
      PROVE  b \in Nat \X Nat /\ b[1] <= b[2] /\ b[2] <= t /\ 0 <= b[1] /\ b[2] < HeapEnd
  <2>1. PICK x \in blocks : x[1] < t /\ b = Cut(x) BY <1>3
  <2> QED BY <1>1, <1>2, <2>1
<1>5. ASSUME NEW b \in Below(t), NEW c \in Below(t), b # c
      PROVE  b[2] <= c[1] \/ c[2] <= b[1]
  <2>1. PICK x \in blocks : x[1] < t /\ b = Cut(x) BY <1>3
  <2>2. PICK y \in blocks : y[1] < t /\ c = Cut(y) BY <1>3
  <2>3. x # y BY <1>5, <2>1, <2>2
  <2>4. x[2] <= y[1] \/ y[2] <= x[1] BY <2>3 DEF SyInv, HeapBlocksApart
  <2> QED BY <1>2, <2>1, <2>2, <2>4
<1> QED BY <1>4, <1>5

(***************************************************************************)
(* _sbrk keeps the invariant, when it refuses as well: it moves the break  *)
(* before it tests it (syscalls.c:289-307).                                *)
(***************************************************************************)
LEMMA SbrkKeeps ==
  ASSUME SyInv, Sbrk
  PROVE  SyInv'
<1>1. PICK incr \in Requests \union {-r : r \in Releases}, sp \in StackTops :
        LET new == brk + incr
            ok  == new < sp /\ new < HeapEnd
        IN /\ new >= 0 /\ \A b \in blocks : b[2] <= sp
           /\ brk' = new
           /\ blocks' = IF ~ok THEN blocks
                        ELSE IF incr > 0 THEN blocks \union {<<brk, brk + incr>>}
                        ELSE Below(new)
  BY DEF Sbrk, Given
<1> DEFINE new == brk + incr
           ok  == new < sp /\ new < HeapEnd
<1>2. incr \in Int /\ sp \in Nat /\ HeapEnd \in Nat BY HeapAssumption
<1>3. new \in Nat /\ brk' = new /\ brk \in Nat BY <1>1, <1>2 DEF SyInv
<1>4. CASE ~ok
  <2>1. blocks' = blocks BY <1>1, <1>4
  <2>2. \A b \in blocks : b[2] <= new
    <3> SUFFICES ASSUME NEW b \in blocks PROVE b[2] <= new OBVIOUS
    <3>1. b[2] \in Nat /\ b[2] <= sp /\ b[2] < HeapEnd BY <1>1 DEF SyInv, HeapBlocksApart
    <3> QED BY <1>2, <1>3, <1>4, <3>1
  <2> HIDE DEF new, ok
  <2> QED BY <1>3, <2>1, <2>2 DEF SyInv, HeapBlocksApart
<1>5. CASE ok /\ incr > 0
  <2> DEFINE last == <<brk, brk + incr>>
  <2>1. blocks' = blocks \union {last} BY <1>1, <1>5
  <2>2. last \in Nat \X Nat /\ last[1] = brk /\ last[2] = new /\ brk <= new /\ new < HeapEnd
    BY <1>2, <1>3, <1>5
  <2> HIDE DEF new, ok, last
  <2>3. \A b \in blocks : b[1] \in Nat /\ b[2] \in Nat /\ b[1] <= b[2] /\ b[2] <= brk /\ b[2] < HeapEnd
    BY DEF SyInv, HeapBlocksApart
  <2>4. \A b \in blocks' : b[1] <= b[2] /\ b[2] <= new /\ 0 <= b[1] /\ b[2] < HeapEnd
    BY <1>2, <1>3, <2>1, <2>2, <2>3
  <2>5. \A b, c \in blocks' : b # c => b[2] <= c[1] \/ c[2] <= b[1]
    BY <2>1, <2>2, <2>3 DEF SyInv, HeapBlocksApart
  <2>6. blocks' \subseteq Nat \X Nat BY <2>1, <2>2 DEF SyInv
  <2> QED BY <1>3, <2>4, <2>5, <2>6 DEF SyInv, HeapBlocksApart
<1>6. CASE ok /\ ~(incr > 0)
  <2>1. blocks' = Below(new) BY <1>1, <1>6
  <2> HIDE DEF new, ok
  <2> QED BY <1>3, <2>1, CutBlocks DEF SyInv, HeapBlocksApart
<1> QED BY <1>4, <1>5, <1>6

(***************************************************************************)
(* What _sbrk has handed out never overlaps and lies in the heap           *)
(* (syscalls.c:289-307), for every heap, sequence of requests and releases *)
(* and position of the stack.                                              *)
(***************************************************************************)
THEOREM BlocksStayApart == SySpec => []HeapBlocksApart
<1>1. SyInit => SyInv BY DEF SyInit, SyInv, HeapBlocksApart
<1>2. SyInv /\ [SyNext]_syVars => SyInv'
  <2> SUFFICES ASSUME SyInv, [SyNext]_syVars PROVE SyInv' OBVIOUS
  <2>1. CASE Sbrk BY <2>1, SbrkKeeps
  <2>2. CASE Brk
    <3>1. PICK addr \in 0 .. HeapEnd : brk' = addr /\ blocks' = Below(addr) BY <2>2 DEF Brk
    <3>2. addr \in Nat BY <3>1, HeapAssumption
    <3> QED BY <3>1, <3>2, CutBlocks DEF SyInv, HeapBlocksApart
  <2>3. CASE UNCHANGED <<brk, blocks>> BY <2>3 DEF SyInv, HeapBlocksApart
  <2>4. CASE Write BY <2>3, <2>4 DEF Write
  <2>5. CASE Stub BY <2>3, <2>5 DEF Stub
  <2>6. CASE Ecall BY <2>3, <2>6 DEF Ecall
  <2>7. CASE Exit BY <2>3, <2>7 DEF Exit
  <2>8. CASE UNCHANGED syVars BY <2>3, <2>8 DEF syVars
  <2> QED BY <2>1, <2>2, <2>4, <2>5, <2>6, <2>7, <2>8 DEF SyNext
<1>3. SyInv => HeapBlocksApart BY DEF SyInv
<1> QED BY <1>1, <1>2, <1>3, PTL DEF SySpec

----------------------------------------------------------------------------
(* The transfer ids: a counter goes round 1 .. Ones - 1, and is all ones   *)
(* for a cycle instead of one.                                             *)

Place(c) == IF c = Ones THEN 1 ELSE c
Ring == Ones - 1

\* Counter or id a is k places ahead of b.
Ahead(a, b, k) == Place(a) = Place(b) + k \/ Place(a) = Place(b) + k - Ring

DrInv ==
  /\ next \in 1 .. Ones /\ completed \in 1 .. Ones
  /\ issued \in Nat /\ landed \in Nat /\ waited \in Nat
  /\ ids \in Seq(1 .. Ones) /\ Len(ids) = issued - waited /\ Len(ids) <= Outstanding
  /\ waited <= landed /\ landed <= issued
  /\ Ahead(next, completed, issued - landed + 1)
  /\ \A i \in 1 .. Len(ids) : Ahead(next, ids[i], issued - waited - i + 1)

\* The width of an id in terms of half its range.
LEMMA Powers ==
  ASSUME NEW h, h = 2 ^ (IdBits - 1)
  PROVE  /\ h \in Nat /\ h >= 3 /\ Outstanding + 1 < h /\ Outstanding \in Nat
         /\ 2 ^ IdBits = 2 * h /\ Ones = 2 * h - 1 /\ Ring = 2 * h - 2
<1>1. h \in Nat /\ Outstanding + 1 < h /\ Outstanding \in Nat \ {0} /\ 2 ^ IdBits = 2 * h
  BY DmaRegAssumption, PowerAssumption
<1>2. QED BY <1>1 DEF Ones, Ring

\* The ring has room for all outstanding transfers.
LEMMA RingFacts ==
  /\ Ones \in Nat /\ Ring \in Nat /\ Ones = Ring + 1 /\ Ones >= 5 /\ Outstanding \in Nat /\ Outstanding + 1 < Ring
<1>1. PICK h : h = 2 ^ (IdBits - 1) OBVIOUS
<1>2. QED BY <1>1, Powers

\* A cycle moves a counter on by one place, or not at all.
LEMMA Counts ==
  ASSUME NEW c \in 1 .. Ones, NEW event \in BOOLEAN
  PROVE  /\ Count(c, event) \in 1 .. Ones
         /\ ~event => Place(Count(c, event)) = Place(c)
         /\ event => Ahead(Count(c, event), c, 1)
BY RingFacts DEF Count, Place, Ahead

\* A counter that moves on gains or loses one place.
LEMMA AheadMoves ==
  ASSUME NEW a \in 1 .. Ones, NEW b \in 1 .. Ones, NEW c \in 1 .. Ones, NEW k \in Nat, k < Ring, Ahead(a, b, k)
  PROVE  /\ Ahead(c, a, 1) => Ahead(c, b, k + 1)
         /\ Ahead(c, b, 1) /\ k > 0 => Ahead(a, c, k - 1)
BY RingFacts DEF Place, Ahead

\* Two neighbours on the ring.
LEMMA OneApart ==
  ASSUME NEW a \in 1 .. Ones, NEW b \in 1 .. Ones, NEW c \in 1 .. Ones, NEW k \in Nat, k < Ring,
         Ahead(a, b, k), Ahead(a, c, k + 1)
  PROVE  Ahead(b, c, 1)
BY RingFacts DEF Place, Ahead

\* An id one place ahead of the counter has not been reached.
LEMMA NotReached ==
  ASSUME NEW c \in 1 .. Ones, NEW d \in 1 .. Ones, Ahead(d, c, 1)
  PROVE  ~Reached(c, d)
<1>1. PICK h : h = 2 ^ (IdBits - 1) OBVIOUS
<1>2. PICK n : n = 2 ^ IdBits OBVIOUS
<1>3. /\ h \in Nat /\ h >= 3 /\ n = 2 * h /\ Ones = n - 1 /\ Ring = n - 2 /\ n \in Nat
  BY <1>1, <1>2, Powers
<1>4. c - d = -1 \/ c - d = n - 3
  BY <1>3 DEF Ahead, Place
<1>5. (-1) % n = n - 1 /\ (n - 3) % n = n - 3
  BY <1>3
<1>6. (c - d) % n >= h BY <1>3, <1>4, <1>5
<1>7. QED BY <1>1, <1>2, <1>3, <1>6 DEF Reached

\* A sequence with one element more.
LEMMA Appended ==
  ASSUME NEW S, NEW s \in Seq(S), NEW x \in S
  PROVE  /\ Append(s, x) \in Seq(S) /\ Len(Append(s, x)) = Len(s) + 1 /\ Append(s, x)[Len(s) + 1] = x
         /\ \A i \in 1 .. Len(s) : Append(s, x)[i] = s[i]
OBVIOUS

\* The elements of a sequence, its head and its tail.
LEMMA Element ==
  ASSUME NEW S, NEW s \in Seq(S)
  PROVE  /\ Len(s) \in Nat /\ \A i \in 1 .. Len(s) : s[i] \in S
         /\ s # <<>> => Len(s) > 0 /\ Head(s) = s[1] /\ Tail(s) \in Seq(S) /\ Len(Tail(s)) = Len(s) - 1
         /\ s # <<>> => \A i \in 1 .. Len(s) - 1 : Tail(s)[i] = s[i + 1]
OBVIOUS

\* The front end after reset.
LEMMA DrStarts == DrInit => DrInv
BY RingFacts DEF DrInit, DrInv, Ahead, Place

\* A cycle: a transfer may be issued, may land, or both.
LEMMA TickKeeps ==
  ASSUME DrInv, NEW issue \in BOOLEAN, NEW retire \in BOOLEAN, Tick(issue, retire)
  PROVE  DrInv'
<1>1. /\ next' = Count(next, issue) /\ completed' = Count(completed, retire) /\ waited' = waited
      /\ issued' = IF issue THEN issued + 1 ELSE issued
      /\ landed' = IF retire THEN landed + 1 ELSE landed
      /\ ids' = IF issue THEN Append(ids, next) ELSE ids
      /\ issue => Len(ids) < Outstanding
      /\ retire => landed < issued
  BY DEF Tick
<1>2. /\ next \in 1 .. Ones /\ completed \in 1 .. Ones
      /\ issued \in Nat /\ landed \in Nat /\ waited \in Nat
      /\ ids \in Seq(1 .. Ones) /\ Len(ids) = issued - waited /\ Len(ids) <= Outstanding
      /\ waited <= landed /\ landed <= issued
      /\ Ahead(next, completed, issued - landed + 1)
      /\ \A i \in 1 .. Len(ids) : Ahead(next, ids[i], issued - waited - i + 1)
  BY DEF DrInv
<1>3. /\ next' \in 1 .. Ones /\ (~issue => Place(next') = Place(next)) /\ (issue => Ahead(next', next, 1))
      /\ completed' \in 1 .. Ones /\ (~retire => Place(completed') = Place(completed))
      /\ (retire => Ahead(completed', completed, 1))
  BY <1>1, <1>2, Counts
<1>4. /\ issued' \in Nat /\ landed' \in Nat /\ waited' \in Nat /\ waited' <= landed' /\ landed' <= issued'
  BY <1>1, <1>2
<1>5. /\ ids' \in Seq(1 .. Ones) /\ Len(ids') = issued' - waited' /\ Len(ids') <= Outstanding
  <2>1. /\ Append(ids, next) \in Seq(1 .. Ones) /\ Len(Append(ids, next)) = Len(ids) + 1 /\ Len(ids) \in Nat
    <3>1. PICK S : S = 1 .. Ones OBVIOUS
    <3>2. ids \in Seq(S) /\ next \in S BY <1>2, <3>1
    <3>3. Append(ids, next) \in Seq(S) /\ Len(Append(ids, next)) = Len(ids) + 1 BY <3>2, Appended
    <3>4. Len(ids) \in Nat BY <3>2, Element
    <3>5. QED BY <3>1, <3>3, <3>4
  <2>2. CASE issue
    <3>1. ids' = Append(ids, next) /\ issued' = issued + 1 /\ Len(ids) < Outstanding BY <1>1, <2>2
    <3>2. ids' \in Seq(1 .. Ones) /\ Len(ids') = Len(ids) + 1 BY <2>1, <3>1
    <3>3. QED BY <1>1, <1>2, <2>1, <3>1, <3>2, RingFacts, SMTT(40)
  <2>3. CASE ~issue BY <1>1, <1>2, <2>3
  <2>4. QED BY <2>2, <2>3
<1>6. PICK k \in Nat : k = issued - landed + 1 /\ k < Ring /\ k > 0 BY <1>2, RingFacts
<1>7. PICK m : m = issued' - landed + 1 OBVIOUS
<1>8. m \in Nat /\ m <= Ring /\ m > 0 /\ Ahead(next', completed, m)
  <2>1. CASE issue
    <3>1. Ahead(next', completed, k + 1) BY <1>2, <1>3, <1>6, <2>1, AheadMoves
    <3>2. k + 1 \in Nat /\ k + 1 = m /\ k + 1 <= Ring BY <1>1, <1>2, <1>6, <1>7, <2>1, RingFacts
    <3>3. m \in Nat /\ m <= Ring /\ m > 0 BY <1>6, <3>2, RingFacts
    <3>4. Ahead(next', completed, m) BY <3>1, <3>2
    <3>5. QED BY <3>3, <3>4
  <2>2. CASE ~issue
    <3>1. issued' = issued /\ Place(next') = Place(next) BY <1>1, <1>3, <2>2
    <3>2. Ahead(next', completed, k) BY <1>2, <1>6, <3>1 DEF Ahead
    <3>3. k = m BY <1>6, <1>7, <3>1
    <3>4. m \in Nat /\ m <= Ring /\ m > 0 BY <1>6, <3>3, RingFacts
    <3>5. QED BY <3>2, <3>3, <3>4
  <2>3. QED BY <2>1, <2>2
<1>9. Ahead(next', completed', issued' - landed' + 1)
  <2>1. m < Ring BY <1>1, <1>2, <1>4, <1>5, <1>7, <1>8, RingFacts
  <2>2. CASE retire
    <3>1. Ahead(next', completed', m - 1) BY <1>2, <1>3, <1>7, <1>8, <2>1, <2>2, AheadMoves
    <3>2. m - 1 = issued' - landed' + 1 BY <1>1, <1>2, <1>4, <1>7, <1>8, <2>2
    <3>3. QED BY <3>1, <3>2
  <2>3. CASE ~retire BY <1>1, <1>3, <1>7, <1>8, <2>3 DEF Ahead
  <2>4. QED BY <2>2, <2>3
<1>10. ASSUME NEW i \in 1 .. Len(ids') PROVE Ahead(next', ids'[i], issued' - waited' - i + 1)
  <2>1. CASE issue /\ i = Len(ids) + 1
    <3>1. ids'[i] = next
      <4>1. ids' = Append(ids, next) /\ i = Len(ids) + 1 BY <1>1, <2>1
      <4>2. QED BY <1>2, <4>1, Appended, ZenonT(60)
    <3>2. issued' - waited' - i + 1 = 1 BY <1>1, <1>2, <2>1
    <3>3. QED BY <1>3, <2>1, <3>1, <3>2
  <2>2. CASE issue /\ i # Len(ids) + 1
    <3>1. i \in 1 .. Len(ids) /\ ids'[i] = ids[i] BY <1>1, <1>2, <1>10, <2>2
    <3>2. PICK d \in 1 .. Ones : d = ids[i]
      <4>1. ids[i] \in 1 .. Ones BY <1>2, <3>1, Element
      <4>2. QED BY <4>1
    <3>3. PICK j \in Nat : j = issued - waited - i + 1 /\ j < Ring BY <1>2, <3>1, RingFacts
    <3>4. Ahead(next', d, j + 1) BY <1>2, <1>3, <2>2, <3>1, <3>2, <3>3, AheadMoves
    <3>5. j + 1 = issued' - waited' - i + 1 BY <1>1, <1>2, <2>2, <3>3
    <3>6. QED BY <3>1, <3>2, <3>4, <3>5
  <2>3. CASE ~issue BY <1>1, <1>2, <1>3, <1>10, <2>3 DEF Ahead
  <2>4. QED BY <2>1, <2>2, <2>3
<1>11. QED BY <1>3, <1>4, <1>5, <1>9, <1>10 DEF DrInv

\* A wait that ends.
LEMMA WaitKeeps ==
  ASSUME DrInv, DrWait
  PROVE  DrInv'
<1>1. /\ ids # <<>> /\ Reached(completed, Head(ids)) /\ ids' = Tail(ids) /\ waited' = waited + 1
      /\ UNCHANGED <<next, completed, issued, landed>>
  BY DEF DrWait
<1>2. /\ next \in 1 .. Ones /\ completed \in 1 .. Ones
      /\ issued \in Nat /\ landed \in Nat /\ waited \in Nat
      /\ ids \in Seq(1 .. Ones) /\ Len(ids) = issued - waited /\ Len(ids) <= Outstanding
      /\ waited <= landed /\ landed <= issued
      /\ Ahead(next, completed, issued - landed + 1)
      /\ \A i \in 1 .. Len(ids) : Ahead(next, ids[i], issued - waited - i + 1)
  BY DEF DrInv
<1>3. waited # landed
  <2>1. SUFFICES ASSUME waited = landed PROVE FALSE OBVIOUS
  <2>2. PICK d \in 1 .. Ones : d = Head(ids) /\ d = ids[1]
    <3>1. Len(ids) \in Nat /\ Len(ids) > 0 /\ Head(ids) = ids[1] /\ \A i \in 1 .. Len(ids) : ids[i] \in 1 .. Ones
      BY <1>1, <1>2, Element
    <3>2. ids[1] \in 1 .. Ones BY <3>1
    <3>3. QED BY <3>1, <3>2
  <2>3. PICK k \in Nat : k = issued - waited /\ k < Ring /\ k > 0 BY <1>1, <1>2, RingFacts
  <2>4. Ahead(next, d, k) /\ Ahead(next, completed, k + 1)
    <3>1. 1 \in 1 .. Len(ids) /\ issued - waited - 1 + 1 = k /\ issued - landed + 1 = k + 1 BY <1>1, <1>2, <2>1, <2>3
    <3>2. QED BY <1>2, <2>2, <3>1
  <2>5. Ahead(d, completed, 1) BY <1>2, <2>2, <2>3, <2>4, OneApart
  <2>6. ~Reached(completed, d) BY <1>2, <2>2, <2>5, NotReached
  <2>7. QED BY <1>1, <2>2, <2>6
<1>4. waited' \in Nat /\ waited' <= landed /\ ids' \in Seq(1 .. Ones) /\ Len(ids') = issued - waited' /\ Len(ids') <= Outstanding
  BY <1>1, <1>2, <1>3, RingFacts
<1>5. \A i \in 1 .. Len(ids') : Ahead(next, ids'[i], issued - waited' - i + 1)
  <2>1. TAKE i \in 1 .. Len(ids')
  <2>2. i + 1 \in 1 .. Len(ids) /\ ids'[i] = ids[i + 1] /\ issued - waited' - i + 1 = issued - waited - (i + 1) + 1
    BY <1>1, <1>2
  <2>3. QED BY <1>2, <2>2
<1>6. QED BY <1>1, <1>2, <1>4, <1>5 DEF DrInv

(***************************************************************************)
(* The ids of the transfers not waited for and the two counters keep their *)
(* distances on the ring, whatever the width of the counters, as long as   *)
(* the transfers outstanding are fewer than half of the ids.               *)
(***************************************************************************)
THEOREM DrSafe == DrSpec => []DrInv
<1>1. DrInv /\ [DrNext]_drVars => DrInv'
  <2> SUFFICES ASSUME DrInv, [DrNext]_drVars PROVE DrInv' OBVIOUS
  <2>1. CASE \E issue, retire \in BOOLEAN : Tick(issue, retire)
    <3>1. PICK issue \in BOOLEAN, retire \in BOOLEAN : Tick(issue, retire) BY <2>1
    <3>2. QED BY <3>1, TickKeeps
  <2>2. CASE DrWait BY <2>2, WaitKeeps
  <2>3. CASE UNCHANGED drVars BY <2>3 DEF drVars, DrInv
  <2>4. QED BY <2>1, <2>2, <2>3 DEF DrNext
<1>2. QED BY <1>1, DrStarts, PTL DEF DrSpec

(***************************************************************************)
(* wait returns only for a transfer whose data are in place                *)
(* (dma_reg64_1d.c:45-46, idma_transfer_id_gen.sv).                        *)
(***************************************************************************)
THEOREM WaitMeansLandedHolds == DrSpec => []WaitMeansLanded
<1>1. DrInv => WaitMeansLanded BY DEF DrInv, WaitMeansLanded
<1>2. QED BY <1>1, DrSafe, PTL

----------------------------------------------------------------------------
(* The accelerator of asic_dma_accel.c.                                    *)

\* The word of the job, from the memory, in the unit, and back in memory.
AdInv ==
  /\ adMem \in [1 .. AdWords -> Int] /\ adSrc \in 1 .. AdWords /\ adDst \in 1 .. AdWords
  /\ adPc \in {"config", "start", "wait"} /\ adSt \in {"IDLE", "AR", "R", "AW", "W", "B"}
  /\ adJob \in Nat /\ adRead \in Int /\ adResult \in Int
  /\ adBusy \in BOOLEAN /\ (adBusy <=> adSt # "IDLE")
  /\ adBusy => adPc = "wait"
  /\ adPc = "start" \/ adSt \in {"AR", "R"} => adWant = adMem[adSrc] + 1
  /\ adSt \in {"AW", "W", "B"} => adWant = adRead + 1
  /\ adSt = "IDLE" /\ (adPc = "wait" \/ (adPc = "config" /\ adJob # 0)) => adMem[adDst] = adWant /\ adResult = adWant

\* The ASIC DMA after reset.
LEMMA AdStarts == AdInit => AdInv
<1> SUFFICES ASSUME AdInit PROVE AdInv OBVIOUS
<1>1. [a \in 1 .. AdWords |-> 10 * a] \in [1 .. AdWords -> Int] OBVIOUS
<1>2. 1 \in 1 .. AdWords BY AsicDmaAssumption
<1>3. adMem \in [1 .. AdWords -> Int] BY <1>1 DEF AdInit
<1>4. /\ adPc = "config" /\ adJob = 0 /\ adSrc = 1 /\ adDst = 1 /\ adSt = "IDLE" /\ adBusy = FALSE
      /\ adRead = 0 /\ adResult = 0
  BY DEF AdInit
<1>5. adBusy \in BOOLEAN /\ ~adBusy BY <1>4, Zenon
<1>6. /\ adPc = "config" /\ adJob = 0 /\ adSrc = 1 /\ adDst = 1 /\ adSt = "IDLE"
      /\ adRead = 0 /\ adResult = 0
  BY <1>4
<1>7. QED BY <1>2, <1>3, <1>5, <1>6 DEF AdInv

\* Every step of the ASIC DMA and its test.
LEMMA AdKept == AdInv /\ [AdNext]_adVars => AdInv'
<1> SUFFICES ASSUME AdInv, [AdNext]_adVars PROVE AdInv' OBVIOUS
<1> USE AsicDmaAssumption DEF AdInv
<1>1. CASE Config BY <1>1 DEF Config
<1>2. CASE AdStart BY <1>2 DEF AdStart
<1>3. CASE AdWait BY <1>3 DEF AdWait
<1>4. CASE Handshake("AR", "R") BY <1>4 DEF Handshake, BusyAfter
<1>5. CASE Handshake("R", "AW") BY <1>5 DEF Handshake, BusyAfter
<1>6. CASE Handshake("AW", "W") BY <1>6 DEF Handshake, BusyAfter
<1>7. CASE Handshake("W", "B") BY <1>7 DEF Handshake, BusyAfter
<1>8. CASE Handshake("B", "IDLE")
  <2>1. /\ adSt = "B" /\ adSt' = "IDLE" /\ ~adBusy' /\ adBusy' \in BOOLEAN /\ adRead' = adRead
        /\ adMem' = [adMem EXCEPT ![adDst] = adRead + 1] /\ adResult' = adRead + 1
        /\ UNCHANGED <<adPc, adJob, adWant, adSrc, adDst>>
    BY <1>8 DEF Handshake, BusyAfter
  <2>2. adMem' \in [1 .. AdWords -> Int] /\ adMem'[adDst] = adRead + 1 BY <2>1
  <2>3. adWant = adRead + 1 /\ adPc = "wait" BY <2>1
  <2>4. QED BY <2>1, <2>2, <2>3
<1>9. CASE UNCHANGED adVars BY <1>9 DEF adVars
<1>10. QED BY <1>1, <1>2, <1>3, <1>4, <1>5, <1>6, <1>7, <1>8, <1>9 DEF AdNext

(***************************************************************************)
(* When wait has returned, the word of the job is in memory and in RESULT, *)
(* whatever the jobs before it did (asic_dma_accel.c:29-33,                *)
(* asic_dma_accel_sim.sv:106-140).                                         *)
(***************************************************************************)
THEOREM OwnWordHolds == AdSpec => []OwnWord
<1>1. AdInv => OwnWord BY DEF AdInv, OwnWord
<1>2. QED BY <1>1, AdStarts, AdKept, PTL DEF AdSpec

----------------------------------------------------------------------------
(* The vector-matrix unit of vmma.c.                                       *)

Columns == 0 .. vmJob.n - 1
Rows    == 0 .. vmJob.m - 1

\* What the unit has fetched, computed and written when it is in a state.
VmProgress ==
  /\ vmRow \in Rows /\ vmBeat \in Nat
  /\ vmSt = "X_R" => \A i \in Columns : i \div Lanes < vmBeat => vmX[i] = i
  /\ vmSt \in {"W_AR", "W_R", "COMP"} => \A i \in Columns : vmX[i] = i
  /\ vmSt = "W_R" => \A i \in Columns : i \div Lanes < vmBeat => vmW[i] = <<vmRow, i>>
  /\ vmSt = "COMP" => \A i \in Columns : vmW[i] = <<vmRow, i>>
  /\ vmSt \in {"X_AR", "X_R"} => vmRow = 0
  /\ vmSt \in {"W_AR", "W_R", "COMP"} => \A r \in Rows : r < vmRow => vmLat[r] = ExpectedY(r)
  /\ vmSt \in {"Y_AW", "Y_W", "Y_B"} => \A r \in Rows : vmLat[r] = ExpectedY(r)
  /\ vmSt \in {"FINISH", "IDLE"} => \A r \in Rows : vmY[r] = ExpectedY(r)

VmTest ==
  /\ vmPc \in {"config", "start", "poll", "judge", "end"} /\ vmLeft \in Int
  /\ vmPc = "end" \/ vmVerdict = "none"
  /\ vmPc \in {"judge", "end"} /\ vmLeft > 0 => ~vmBusy
  /\ vmPc \in {"config", "start", "poll"} => vmLeft >= 0
  /\ SpareMeansTrue

VmInv ==
  /\ VmTest
  /\ DOMAIN vmLat = Indices
  /\ vmSt \in {"IDLE", "X_AR", "X_R", "W_AR", "W_R", "COMP", "Y_AW", "Y_W", "Y_B", "FINISH"}
  /\ vmBusy \in BOOLEAN /\ (vmBusy <=> vmSt # "IDLE")
  /\ vmPc \in {"config", "start"} => ~vmBusy
  /\ vmBusy => Valid(vmJob)
  /\ vmPc \notin {"config", "start"} => vmErr = IF Valid(vmJob) THEN 0 ELSE 1
  /\ vmPc \notin {"config", "start"} /\ Valid(vmJob) => VmProgress

\* The last beat brings the last element.
LEMMA LastLane ==
  ASSUME NEW n \in Nat \ {0}, NEW i \in 0 .. n - 1
  PROVE  i \div Lanes \in Nat /\ i \div Lanes <= Beats(n) - 1
<1>1. Lanes \in Nat \ {0} /\ i \in Nat /\ n + Lanes - 1 \in Nat BY VmmaAssumption
<1>2. PICK p : p = i \div Lanes OBVIOUS
<1>3. PICK q : q = (n + Lanes - 1) \div Lanes OBVIOUS
<1>4. p \in Nat /\ i % Lanes \in 0 .. Lanes - 1 /\ i = Lanes * p + (i % Lanes) BY <1>1, <1>2, DivMod
<1>5. q \in Nat /\ (n + Lanes - 1) % Lanes \in 0 .. Lanes - 1 /\ n + Lanes - 1 = Lanes * q + ((n + Lanes - 1) % Lanes)
  BY <1>1, <1>3, DivMod
<1>6. q < p + 1 => Lanes * q + Lanes <= Lanes * (p + 1) BY <1>1, <1>4, <1>5, Apart
<1>7. Lanes * (p + 1) = Lanes * p + Lanes /\ Lanes * p \in Int /\ Lanes * q \in Int BY <1>1, <1>4, <1>5
<1>8. ~(q < p + 1) BY <1>1, <1>4, <1>5, <1>6, <1>7
<1>9. QED BY <1>2, <1>3, <1>4, <1>5, <1>8 DEF Beats

\* The sizes of a job that the unit accepts.
LEMMA ValidIs ==
  ASSUME Valid(vmJob)
  PROVE  /\ vmJob.n \in Nat \ {0} /\ vmJob.m \in Nat \ {0} /\ vmJob.n <= MAXMN /\ vmJob.m <= MAXMN
         /\ Columns \subseteq Indices /\ Rows \subseteq Indices /\ Columns \subseteq Nat /\ Rows \subseteq Nat
BY VmmaAssumption DEF Valid, Columns, Rows, Indices

\* The vector-matrix unit after reset.
LEMMA VmStarts == VmInit => VmInv
<1> SUFFICES ASSUME VmInit PROVE VmInv OBVIOUS
<1>1. /\ vmPc = "config" /\ vmLeft = VmBudget /\ vmVerdict = "none" /\ vmSt = "IDLE" /\ vmBusy = FALSE
      /\ vmLat = [i \in Indices |-> {}]
  BY DEF VmInit
<1>2. vmBusy \in BOOLEAN /\ ~vmBusy BY <1>1, Zenon
<1>3. DOMAIN vmLat = Indices BY <1>1
<1>4. VmTest BY <1>1, <1>2, VmmaAssumption DEF VmTest, SpareMeansTrue
<1>5. QED BY <1>1, <1>2, <1>3, <1>4 DEF VmInv

\* A step of the unit leaves the test alone.
LEMMA UnitIs ==
  ASSUME VmInv, VmUnit
  PROVE  /\ vmSt # "IDLE" /\ vmBusy /\ Valid(vmJob) /\ VmProgress /\ vmPc \notin {"config", "start"} /\ vmErr = 0
         /\ UNCHANGED <<vmPc, vmLeft, vmVerdict, vmJob, vmErr>>
<1>1. vmSt # "IDLE" BY DEF VmUnit, ReadX, ReadW, Compute, WriteY, Finish
<1>2. UNCHANGED <<vmPc, vmLeft, vmVerdict, vmJob, vmErr>>
  BY DEF VmUnit, ReadX, ReadW, Compute, WriteY, Finish, vmHostVars
<1>3. vmBusy BY <1>1 DEF VmInv
<1>4. vmPc \notin {"config", "start"} /\ Valid(vmJob) BY <1>3 DEF VmInv
<1>5. QED BY <1>1, <1>2, <1>3, <1>4 DEF VmInv

\* What a step of the unit has to show.
LEMMA UnitKeeps ==
  ASSUME VmInv, VmUnit, VmProgress', DOMAIN vmLat' = Indices,
         vmSt' \in {"IDLE", "X_AR", "X_R", "W_AR", "W_R", "COMP", "Y_AW", "Y_W", "Y_B", "FINISH"},
         vmBusy' \in BOOLEAN, vmBusy' <=> vmSt' # "IDLE"
  PROVE  VmInv'
<1>1. /\ vmSt # "IDLE" /\ vmBusy /\ Valid(vmJob) /\ VmProgress /\ vmPc \notin {"config", "start"} /\ vmErr = 0
      /\ UNCHANGED <<vmPc, vmLeft, vmVerdict, vmJob, vmErr>>
  BY UnitIs
<1>2. VmTest' BY <1>1 DEF VmInv, VmTest, SpareMeansTrue
<1>3. QED BY <1>1, <1>2 DEF VmInv

\* A beat of the vector is read.
LEMMA ReadXKeeps ==
  ASSUME VmInv, ReadX
  PROVE  VmInv'
<1>0. VmUnit BY DEF VmUnit
<1>1. Valid(vmJob) /\ VmProgress /\ vmJob' = vmJob BY <1>0, UnitIs
<1>2. UNCHANGED <<vmRow, vmBusy, vmLat, vmY, vmJob>> /\ vmSt \in {"X_AR", "X_R"} BY <1>1 DEF ReadX
<1>3. /\ Columns \subseteq Indices /\ Columns \subseteq Nat /\ Columns' = Columns /\ Rows' = Rows
      /\ \A i \in Columns : i \div Lanes \in Nat /\ i \div Lanes <= Beats(vmJob.n) - 1
      /\ Beats(vmJob.n) \in Int
  <2>1. PICK n \in Nat \ {0} : n = vmJob.n BY <1>1, ValidIs
  <2>2. \A i \in 0 .. n - 1 : i \div Lanes \in Nat /\ i \div Lanes <= Beats(n) - 1 BY <2>1, LastLane
  <2>3. Beats(n) \in Int BY VmmaAssumption DEF Beats
  <2>4. QED BY <1>1, <1>2, <2>1, <2>2, <2>3, ValidIs DEF Columns, Rows
<1>4. CASE vmSt = "X_AR"
  <2>1. vmSt' = "X_R" /\ vmBeat' = 0 BY <1>4 DEF ReadX
  <2>2. \A i \in Columns : ~(i \div Lanes < 0) BY <1>3
  <2>3. VmProgress' BY <1>1, <1>2, <1>3, <1>4, <2>1, <2>2 DEF VmProgress
  <2>4. QED BY <1>0, <1>2, <1>4, <2>1, <2>3, UnitKeeps DEF VmInv
<1>5. CASE vmSt = "X_R"
  <2>1. /\ vmX' = [i \in Indices |-> IF Lane(i) THEN i ELSE vmX[i]]
        /\ vmSt' = IF LastBeat THEN "W_AR" ELSE "X_R"
        /\ vmBeat' = IF LastBeat THEN 0 ELSE vmBeat + 1
    BY <1>5 DEF ReadX
  <2>2. vmBeat \in Nat /\ vmRow = 0 /\ \A i \in Columns : i \div Lanes < vmBeat => vmX[i] = i
    BY <1>1, <1>5 DEF VmProgress
  <2>3. \A i \in Columns : i \div Lanes < vmBeat + 1 => vmX'[i] = i
    <3>1. TAKE i \in Columns
    <3>2. i \in Indices /\ i < vmJob.n BY <1>1, <1>3, ValidIs DEF Columns
    <3>3. vmX'[i] = IF i \div Lanes = vmBeat THEN i ELSE vmX[i] BY <2>1, <3>2 DEF Lane
    <3>4. i \div Lanes < vmBeat + 1 => i \div Lanes < vmBeat \/ i \div Lanes = vmBeat BY <1>3, <2>2
    <3>5. QED BY <2>2, <3>3, <3>4
  <2>4. CASE LastBeat
    <3>1. \A i \in Columns : i \div Lanes < vmBeat + 1
      <4>1. TAKE i \in Columns
      <4>2. PICK beat : beat = i \div Lanes OBVIOUS
      <4>3. beat \in Nat /\ beat <= vmBeat /\ vmBeat \in Nat BY <1>3, <2>2, <2>4, <4>2 DEF LastBeat
      <4>4. QED BY <4>2, <4>3
    <3>2. \A i \in Columns : vmX'[i] = i BY <2>3, <3>1
    <3>3. vmSt' = "W_AR" /\ vmBeat' = 0 BY <2>1, <2>4
    <3>4. \A r \in Rows : ~(r < 0) BY <1>1, ValidIs
    <3>5. VmProgress' BY <1>1, <1>2, <1>3, <2>2, <3>2, <3>3, <3>4 DEF VmProgress
    <3>6. QED BY <1>0, <1>2, <1>5, <3>3, <3>5, UnitKeeps DEF VmInv
  <2>5. CASE ~LastBeat
    <3>1. vmSt' = "X_R" /\ vmBeat' = vmBeat + 1 /\ vmBeat' \in Nat BY <2>1, <2>2, <2>5
    <3>2. VmProgress' BY <1>1, <1>2, <1>3, <2>2, <2>3, <3>1 DEF VmProgress
    <3>3. QED BY <1>0, <1>2, <1>5, <3>1, <3>2, UnitKeeps DEF VmInv
  <2>6. QED BY <2>4, <2>5
<1>6. QED BY <1>2, <1>4, <1>5

\* A beat of a row of the matrix is read.
LEMMA ReadWKeeps ==
  ASSUME VmInv, ReadW
  PROVE  VmInv'
<1>0. VmUnit BY DEF VmUnit
<1>1. Valid(vmJob) /\ VmProgress /\ vmJob' = vmJob BY <1>0, UnitIs
<1>2. UNCHANGED <<vmRow, vmBusy, vmX, vmLat, vmY, vmJob>> /\ vmSt \in {"W_AR", "W_R"} BY <1>1 DEF ReadW
<1>3. /\ Columns \subseteq Indices /\ Columns \subseteq Nat /\ Columns' = Columns /\ Rows' = Rows
      /\ \A i \in Columns : i \div Lanes \in Nat /\ i \div Lanes <= Beats(vmJob.n) - 1
      /\ Beats(vmJob.n) \in Int
      /\ \A r : ExpectedY(r)' = ExpectedY(r)
  <2>1. PICK n \in Nat \ {0} : n = vmJob.n BY <1>1, ValidIs
  <2>2. \A i \in 0 .. n - 1 : i \div Lanes \in Nat /\ i \div Lanes <= Beats(n) - 1 BY <2>1, LastLane
  <2>3. Beats(n) \in Int BY VmmaAssumption DEF Beats
  <2>4. \A r : ExpectedY(r)' = ExpectedY(r) BY <1>2 DEF ExpectedY
  <2>5. QED BY <1>1, <1>2, <2>1, <2>2, <2>3, <2>4, ValidIs DEF Columns, Rows
<1>4. CASE vmSt = "W_AR"
  <2>1. vmSt' = "W_R" /\ vmBeat' = 0 BY <1>4 DEF ReadW
  <2>2. \A i \in Columns : ~(i \div Lanes < 0) BY <1>3
  <2>3. VmProgress' BY <1>1, <1>2, <1>3, <1>4, <2>1, <2>2 DEF VmProgress
  <2>4. QED BY <1>0, <1>2, <1>4, <2>1, <2>3, UnitKeeps DEF VmInv
<1>5. CASE vmSt = "W_R"
  <2>1. /\ vmW' = [i \in Indices |-> IF Lane(i) THEN <<vmRow, i>> ELSE vmW[i]]
        /\ vmSt' = IF LastBeat THEN "COMP" ELSE "W_R"
        /\ vmBeat' = IF LastBeat THEN vmBeat ELSE vmBeat + 1
    BY <1>5 DEF ReadW
  <2>2. /\ vmBeat \in Nat /\ \A i \in Columns : i \div Lanes < vmBeat => vmW[i] = <<vmRow, i>>
        /\ \A i \in Columns : vmX[i] = i
        /\ \A r \in Rows : r < vmRow => vmLat[r] = ExpectedY(r)
        /\ vmRow \in Rows
    BY <1>1, <1>5 DEF VmProgress
  <2>3. \A i \in Columns : i \div Lanes < vmBeat + 1 => vmW'[i] = <<vmRow, i>>
    <3>1. TAKE i \in Columns
    <3>2. i \in Indices /\ i < vmJob.n BY <1>1, <1>3, ValidIs DEF Columns
    <3>3. vmW'[i] = IF i \div Lanes = vmBeat THEN <<vmRow, i>> ELSE vmW[i] BY <2>1, <3>2 DEF Lane
    <3>4. i \div Lanes < vmBeat + 1 => i \div Lanes < vmBeat \/ i \div Lanes = vmBeat BY <1>3, <2>2
    <3>5. QED BY <2>2, <3>3, <3>4
  <2>4. CASE LastBeat
    <3>1. \A i \in Columns : i \div Lanes < vmBeat + 1
      <4>1. TAKE i \in Columns
      <4>2. PICK beat : beat = i \div Lanes OBVIOUS
      <4>3. beat \in Nat /\ beat <= vmBeat /\ vmBeat \in Nat BY <1>3, <2>2, <2>4, <4>2 DEF LastBeat
      <4>4. QED BY <4>2, <4>3
    <3>2. \A i \in Columns : vmW'[i] = <<vmRow, i>> BY <2>3, <3>1
    <3>3. vmSt' = "COMP" /\ vmBeat' = vmBeat BY <2>1, <2>4
    <3>4. VmProgress' BY <1>2, <1>3, <2>2, <3>2, <3>3 DEF VmProgress
    <3>5. QED BY <1>0, <1>2, <1>5, <3>3, <3>4, UnitKeeps DEF VmInv
  <2>5. CASE ~LastBeat
    <3>1. vmSt' = "W_R" /\ vmBeat' = vmBeat + 1 /\ vmBeat' \in Nat BY <2>1, <2>2, <2>5
    <3>2. VmProgress' BY <1>2, <1>3, <2>2, <2>3, <3>1 DEF VmProgress
    <3>3. QED BY <1>0, <1>2, <1>5, <3>1, <3>2, UnitKeeps DEF VmInv
  <2>6. QED BY <2>4, <2>5
<1>6. QED BY <1>2, <1>4, <1>5

\* A row is multiplied into its sum.
LEMMA ComputeKeeps ==
  ASSUME VmInv, Compute
  PROVE  VmInv'
<1>0. VmUnit BY DEF VmUnit
<1>1. Valid(vmJob) /\ VmProgress /\ vmJob' = vmJob BY <1>0, UnitIs
<1>2. /\ UNCHANGED <<vmBusy, vmX, vmW, vmY, vmJob>> /\ vmSt = "COMP" /\ vmBeat' = 0
      /\ vmLat' = [vmLat EXCEPT ![vmRow] = Dot(vmW, vmX, vmJob.n)]
      /\ IF RowsDone THEN vmSt' = "Y_AW" /\ UNCHANGED vmRow ELSE vmSt' = "W_AR" /\ vmRow' = vmRow + 1
  BY <1>1 DEF Compute
<1>3. /\ Rows \subseteq Indices /\ Rows \subseteq Nat /\ Columns' = Columns /\ Rows' = Rows
      /\ \A r : ExpectedY(r)' = ExpectedY(r)
      /\ vmJob.m \in Nat
  <2>1. \A r : ExpectedY(r)' = ExpectedY(r) BY <1>2 DEF ExpectedY
  <2>2. QED BY <1>1, <1>2, <2>1, ValidIs DEF Columns, Rows
<1>4. /\ vmRow \in Rows /\ \A i \in Columns : vmX[i] = i /\ vmW[i] = <<vmRow, i>>
      /\ \A r \in Rows : r < vmRow => vmLat[r] = ExpectedY(r)
  BY <1>1, <1>2 DEF VmProgress
<1>5. Dot(vmW, vmX, vmJob.n) = ExpectedY(vmRow) BY <1>4 DEF Dot, ExpectedY, Columns
<1>6. DOMAIN vmLat = Indices BY DEF VmInv
<1>7. DOMAIN vmLat' = Indices /\ vmLat'[vmRow] = ExpectedY(vmRow) /\ \A r \in Rows : r # vmRow => vmLat'[r] = vmLat[r]
  BY <1>2, <1>3, <1>4, <1>5, <1>6
<1>8. \A r \in Rows : r < vmRow + 1 => vmLat'[r] = ExpectedY(r)
  <2>1. \A r \in Rows : r < vmRow + 1 => r < vmRow \/ r = vmRow BY <1>3, <1>4
  <2>2. \A r \in Rows : r < vmRow => r # vmRow BY <1>3, <1>4
  <2>3. QED BY <1>4, <1>7, <2>1, <2>2
<1>9. CASE RowsDone
  <2>1. vmSt' = "Y_AW" /\ vmRow' = vmRow BY <1>2, <1>9
  <2>2. \A r \in Rows : r < vmRow + 1 BY <1>3, <1>4, <1>9 DEF RowsDone, Rows
  <2>3. VmProgress' BY <1>2, <1>3, <1>4, <1>8, <2>1, <2>2 DEF VmProgress
  <2>4. QED BY <1>0, <1>2, <1>7, <2>1, <2>3, UnitKeeps DEF VmInv
<1>10. CASE ~RowsDone
  <2>1. vmSt' = "W_AR" /\ vmRow' = vmRow + 1 BY <1>2, <1>10
  <2>2. vmRow' \in Rows BY <1>3, <1>4, <1>10, <2>1 DEF RowsDone, Rows
  <2>3. VmProgress' BY <1>2, <1>3, <1>4, <1>8, <2>1, <2>2 DEF VmProgress
  <2>4. QED BY <1>0, <1>2, <1>7, <2>1, <2>3, UnitKeeps DEF VmInv
<1>11. QED BY <1>9, <1>10

\* A beat of the result is written.
LEMMA WriteYKeeps ==
  ASSUME VmInv, WriteY
  PROVE  VmInv'
<1>0. VmUnit BY DEF VmUnit
<1>1. Valid(vmJob) /\ VmProgress /\ vmJob' = vmJob BY <1>0, UnitIs
<1>2. /\ UNCHANGED <<vmRow, vmBusy, vmX, vmW, vmLat, vmJob>> /\ vmSt \in {"Y_AW", "Y_W", "Y_B"}
  BY <1>1 DEF WriteY
<1>3. /\ Rows \subseteq Indices /\ Rows \subseteq Nat /\ Columns' = Columns /\ Rows' = Rows
      /\ \A r : ExpectedY(r)' = ExpectedY(r)
      /\ \A r \in Rows : r < vmJob.m
  <2>1. \A r : ExpectedY(r)' = ExpectedY(r) BY <1>2 DEF ExpectedY
  <2>2. \A r \in Rows : r < vmJob.m BY <1>1, ValidIs DEF Rows
  <2>3. QED BY <1>1, <1>2, <2>1, <2>2, ValidIs DEF Columns, Rows
<1>4. vmRow \in Rows /\ vmBeat \in Nat /\ \A r \in Rows : vmLat[r] = ExpectedY(r)
  BY <1>1, <1>2 DEF VmProgress
<1>5. CASE vmSt # "Y_B"
  <2>1. vmSt' \in {"Y_W", "Y_B"} /\ vmBeat' \in Nat /\ vmY' = vmY BY <1>2, <1>4, <1>5 DEF WriteY
  <2>2. VmProgress' BY <1>2, <1>3, <1>4, <2>1 DEF VmProgress
  <2>3. QED BY <1>0, <1>2, <2>1, <2>2, UnitKeeps DEF VmInv
<1>6. CASE vmSt = "Y_B"
  <2>1. vmY' = [r \in Indices |-> IF r < vmJob.m THEN vmLat[r] ELSE vmY[r]] /\ vmSt' = "FINISH" /\ vmBeat' = vmBeat
    BY <1>6 DEF WriteY
  <2>2. \A r \in Rows : vmY'[r] = ExpectedY(r) BY <1>3, <1>4, <2>1
  <2>3. VmProgress' BY <1>2, <1>3, <1>4, <2>1, <2>2 DEF VmProgress
  <2>4. QED BY <1>0, <1>2, <2>1, <2>3, UnitKeeps DEF VmInv
<1>7. QED BY <1>5, <1>6

\* The unit reports that it is done.
LEMMA FinishKeeps ==
  ASSUME VmInv, Finish
  PROVE  VmInv'
<1>0. VmUnit BY DEF VmUnit
<1>1. Valid(vmJob) /\ VmProgress /\ vmJob' = vmJob BY <1>0, UnitIs
<1>2. /\ UNCHANGED <<vmRow, vmBeat, vmX, vmW, vmLat, vmY, vmJob>> /\ vmSt = "FINISH" /\ vmSt' = "IDLE" /\ vmBusy' = FALSE
  BY <1>1 DEF Finish
<1>3. VmProgress' BY <1>1, <1>2 DEF VmProgress, Rows, Columns, ExpectedY
<1>4. vmBusy' \in BOOLEAN /\ ~vmBusy' BY <1>2, Zenon
<1>5. DOMAIN vmLat' = Indices BY <1>2 DEF VmInv
<1>6. QED BY <1>0, <1>2, <1>3, <1>4, <1>5, UnitKeeps

\* The test configures, starts, polls and judges.
LEMMA TestKeeps ==
  ASSUME VmInv, VmConfig \/ VmStart \/ VmPoll \/ VmJudge
  PROVE  VmInv'
<1>1. CASE VmConfig
  <2>1. /\ vmPc = "config" /\ vmPc' = "start" /\ UNCHANGED <<vmLeft, vmVerdict, vmSt, vmBusy, vmLat>>
    BY <1>1 DEF VmConfig
  <2>2. VmTest' BY <2>1 DEF VmInv, VmTest, SpareMeansTrue
  <2>3. QED BY <2>1, <2>2 DEF VmInv
<1>2. CASE VmStart
  <2>1. /\ vmPc = "start" /\ vmPc' = "poll" /\ UNCHANGED <<vmLeft, vmVerdict, vmJob, vmX, vmW, vmLat, vmY>>
        /\ IF Valid(vmJob) THEN vmBusy' = TRUE /\ vmErr' = 0 /\ vmRow' = 0 /\ vmBeat' = 0 /\ vmSt' = "X_AR"
           ELSE vmErr' = 1 /\ UNCHANGED <<vmBusy, vmRow, vmBeat, vmSt>>
    BY <1>2 DEF VmStart
  <2>2. vmLeft >= 0 BY <2>1 DEF VmInv, VmTest
  <2>3. VmTest' BY <2>1, <2>2 DEF VmInv, VmTest, SpareMeansTrue
  <2>4. CASE Valid(vmJob)
    <3>1. vmBusy' \in BOOLEAN /\ vmBusy' BY <2>1, <2>4, Zenon
    <3>2. Valid(vmJob)' BY <2>1, <2>4
    <3>3. 0 \in Rows /\ Rows' = Rows BY <2>1, <2>4, ValidIs DEF Rows
    <3>4. VmProgress' BY <2>1, <2>4, <3>3 DEF VmProgress
    <3>5. QED BY <2>1, <2>3, <2>4, <3>1, <3>2, <3>4 DEF VmInv
  <2>5. CASE ~Valid(vmJob)
    <3>1. ~Valid(vmJob)' BY <2>1, <2>5
    <3>2. QED BY <2>1, <2>3, <2>5, <3>1 DEF VmInv
  <2>6. QED BY <2>4, <2>5
<1>3. CASE VmPoll
  <2>1. /\ vmPc = "poll" /\ UNCHANGED <<vmVerdict, vmJob, vmSt, vmRow, vmBeat, vmBusy, vmErr, vmX, vmW, vmLat, vmY>>
        /\ IF ~vmBusy THEN vmPc' = "judge" /\ UNCHANGED vmLeft
           ELSE vmLeft' = vmLeft - 1 /\ vmPc' = IF vmLeft = 0 THEN "judge" ELSE "poll"
    BY <1>3 DEF VmPoll, vmDevVars
  <2>2. VmTest' BY <2>1 DEF VmInv, VmTest, SpareMeansTrue
  <2>3. VmProgress' <=> VmProgress BY <2>1 DEF VmProgress, Rows, Columns, ExpectedY
  <2>4. vmPc' \notin {"config", "start"} BY <2>1
  <2>5. QED BY <2>1, <2>2, <2>3, <2>4 DEF VmInv
<1>4. CASE VmJudge
  <2>1. /\ vmPc = "judge" /\ vmPc' = "end"
        /\ UNCHANGED <<vmLeft, vmJob, vmSt, vmRow, vmBeat, vmBusy, vmErr, vmX, vmW, vmLat, vmY>>
        /\ vmVerdict' = IF vmLeft = 0 THEN "TIMEOUT"
                        ELSE IF vmErr # 0 THEN "error"
                        ELSE IF \E r \in 0 .. vmJob.m - 1 : vmY[r] # ExpectedY(r) THEN "FAIL" ELSE "PASS"
    BY <1>4 DEF VmJudge, vmDevVars
  <2>2. VmProgress' <=> VmProgress BY <2>1 DEF VmProgress, Rows, Columns, ExpectedY
  <2>3. ASSUME vmLeft > 0 PROVE vmVerdict' = IF Valid(vmJob) THEN "PASS" ELSE "error"
    <3>1. ~vmBusy /\ vmSt = "IDLE" /\ vmLeft # 0 BY <2>1, <2>3 DEF VmInv, VmTest
    <3>2. CASE Valid(vmJob)
      <4>1. vmErr = 0 /\ VmProgress BY <2>1, <3>2 DEF VmInv
      <4>2. \A r \in 0 .. vmJob.m - 1 : vmY[r] = ExpectedY(r) BY <3>1, <4>1 DEF VmProgress, Rows
      <4>3. QED BY <2>1, <3>1, <3>2, <4>1, <4>2
    <3>3. CASE ~Valid(vmJob)
      <4>1. vmErr = 1 BY <2>1, <3>3 DEF VmInv
      <4>2. QED BY <2>1, <3>1, <3>3, <4>1
    <3>4. QED BY <3>2, <3>3
  <2>4. SpareMeansTrue' BY <2>1, <2>3 DEF SpareMeansTrue
  <2>5. VmTest' BY <2>1, <2>4 DEF VmInv, VmTest
  <2>6. QED BY <2>1, <2>2, <2>5 DEF VmInv
<1>5. QED BY <1>1, <1>2, <1>3, <1>4

(***************************************************************************)
(* A test whose loop has polls to spare tells the truth, for matrices and  *)
(* beats of every size (vmma_test/main.c:47-80, vmma_sim.sv:152-235).      *)
(***************************************************************************)
THEOREM SpareMeansTrueHolds == VmSpec => []SpareMeansTrue
<1>1. VmInv /\ [VmNext]_vmVars => VmInv'
  <2> SUFFICES ASSUME VmInv, [VmNext]_vmVars PROVE VmInv' OBVIOUS
  <2>1. CASE UNCHANGED vmVars
    <3>1. UNCHANGED <<vmPc, vmLeft, vmVerdict, vmJob, vmSt, vmRow, vmBeat, vmBusy, vmErr, vmX, vmW, vmLat, vmY>>
      BY <2>1 DEF vmVars, vmHostVars, vmDevVars
    <3>2. VmProgress' <=> VmProgress BY <3>1 DEF VmProgress, Rows, Columns, ExpectedY
    <3>3. VmTest' BY <3>1 DEF VmInv, VmTest, SpareMeansTrue
    <3>4. QED BY <3>1, <3>2, <3>3 DEF VmInv
  <2>2. QED BY <2>1, ReadXKeeps, ReadWKeeps, ComputeKeeps, WriteYKeeps, FinishKeeps, TestKeeps DEF VmNext, VmUnit
<1>2. VmInv => SpareMeansTrue BY DEF VmInv, VmTest
<1>3. QED BY <1>1, <1>2, VmStarts, PTL DEF VmSpec

----------------------------------------------------------------------------
(***************************************************************************)
(* Traps and interrupts of a bare-metal program.  The programs are joined  *)
(* from pieces whose instructions follow each other without a gap; in a    *)
(* handler the invariant says which instruction mepc stands at, what the   *)
(* saved a0 is, and what is left to run before the return.  The second     *)
(* invariant counts the callbacks that have run against the requests: what *)
(* is signalled, or entered and not yet served, is never counted twice.    *)
(***************************************************************************)

\* A sequence of whatever elements.
IsSeq(s) == \E S : s \in Seq(S)

\* What follows when sequences of instructions are joined.
Joined(z, x, y) ==
  /\ IsSeq(z) /\ Len(x) \in Nat /\ Len(y) \in Nat /\ Len(z) = Len(x) + Len(y)
  /\ DOMAIN x = 1 .. Len(x) /\ DOMAIN y = 1 .. Len(y) /\ DOMAIN z = 1 .. Len(z)
  /\ \A i \in 1 .. Len(x) : z[i] = x[i]
  /\ \A i \in 1 .. Len(y) : z[Len(x) + i] = y[i]

\* Two sequences joined.
LEMMA Joining ==
  ASSUME NEW x, NEW y, IsSeq(x), IsSeq(y)
  PROVE  Joined(x \o y, x, y)
<1>1. PICK S : x \in Seq(S)
  BY DEF IsSeq
<1>2. PICK T : y \in Seq(T)
  BY DEF IsSeq
<1> DEFINE U == S \cup T
<1>3. x \in Seq(U) /\ y \in Seq(U)
  BY <1>1, <1>2
<1> HIDE DEF U
<1>4. x \o y \in Seq(U)
  BY <1>3
<1>5. IsSeq(x \o y)
  BY <1>4, Zenon DEF IsSeq
<1> QED BY <1>3, <1>4, <1>5 DEF Joined

\* A sequence of one.
LEMMA OneElement ==
  ASSUME NEW x
  PROVE  IsSeq(<<x>>) /\ Len(<<x>>) = 1 /\ <<x>>[1] = x
<1>1. <<x>> \in Seq({x})
  OBVIOUS
<1> QED BY <1>1 DEF IsSeq

\* A sequence of two.
LEMMA TwoElements ==
  ASSUME NEW x, NEW y
  PROVE  IsSeq(<<x, y>>) /\ Len(<<x, y>>) = 2 /\ <<x, y>>[1] = x /\ <<x, y>>[2] = y
<1>1. <<x, y>> \in Seq({x, y})
  OBVIOUS
<1> QED BY <1>1 DEF IsSeq

Causes == {"timer", "sw", "ext"}

\* What programs are made of.
ProgOps ==
  {"pre_main", "thre", "thr", "csrs_mie", "csrs_mstatus", "li", "wait", "register_timer_cb", "register_ipi_cb",
   "register_handler", "schedule_after", "send_ipi", "set_priority", "set_threshold", "enable", "doorbell",
   "ecall", "illegal", "delay", "delayed"}

Instr(x) ==
  /\ x.op \in ProgOps
  /\ x.op = "ecall" => x.arg = "getpid"
  /\ x.op = "li" => x.arg \in {0, 1}
  /\ x.op = "csrs_mie" => x.arg \subseteq Causes
  /\ x.op = "register_timer_cb" => x.arg = "on_timer"
  /\ x.op = "register_ipi_cb" => x.arg = "on_ipi"
  /\ x.op = "register_handler" => x.arg = "default_slave_isr"

\* Instruction i of a text ends where the next one begins, or at its end.
Ends(s, i) ==
  /\ s[i].width \in {1, 2} /\ i + s[i].width <= Len(s) + 1
  /\ s[i].width = 2 => s[i + 1].op = "half"
  /\ i + s[i].width <= Len(s) => s[i + s[i].width].op # "half"

Piece(s) ==
  /\ IsSeq(s) /\ Len(s) \in Nat /\ Len(s) > 0 /\ DOMAIN s = 1 .. Len(s) /\ s[1].op # "half"
  /\ \A i \in 1 .. Len(s) : s[i].op = "half" \/ (Instr(s[i]) /\ Ends(s, i))

\* Pieces of program text one after the other are program text.
LEMMA PiecesJoin ==
  ASSUME NEW x, NEW y, Piece(x), Piece(y)
  PROVE  Piece(x \o y)
<1> DEFINE z == x \o y
<1>1. Joined(z, x, y)
  BY Joining DEF Piece
<1> HIDE DEF z
<1>2. /\ IsSeq(z) /\ Len(x) \in Nat /\ Len(y) \in Nat /\ Len(z) = Len(x) + Len(y) /\ DOMAIN z = 1 .. Len(z)
      /\ \A i \in 1 .. Len(x) : z[i] = x[i]
      /\ \A i \in 1 .. Len(y) : z[Len(x) + i] = y[i]
  BY <1>1 DEF Joined
<1>3. Len(x) > 0 /\ Len(y) > 0 /\ x[1].op # "half" /\ y[1].op # "half"
  BY DEF Piece
<1>4. z[1] = x[1] /\ z[Len(x) + 1] = y[1]
  BY <1>2, <1>3
<1>5. ASSUME NEW i \in 1 .. Len(x), x[i].op # "half" PROVE Instr(z[i]) /\ Ends(z, i)
  <2>1. Instr(x[i]) /\ Ends(x, i) /\ z[i] = x[i]
    BY <1>2, <1>5 DEF Piece
  <2>2. PICK w \in {1, 2} : w = x[i].width
    BY <2>1 DEF Ends
  <2>3. i + w <= Len(x) + 1 /\ (w = 2 => x[i + 1].op = "half") /\ (i + w <= Len(x) => x[i + w].op # "half")
    BY <2>1, <2>2 DEF Ends
  <2>4. w = 2 => i + 1 \in 1 .. Len(x)
    BY <1>2, <2>3
  <2>5. w = 2 => z[i + 1].op = "half"
    BY <1>2, <2>3, <2>4
  <2>6. z[i + w].op # "half"
    <3>1. CASE i + w <= Len(x)
      <4>1. i + w \in 1 .. Len(x)
        BY <1>2, <3>1
      <4> QED BY <1>2, <2>3, <3>1, <4>1
    <3>2. CASE ~(i + w <= Len(x))
      <4>1. i + w = Len(x) + 1
        BY <1>2, <2>3, <3>2
      <4> QED BY <1>3, <1>4, <4>1
    <3> QED BY <3>1, <3>2
  <2>7. i + w <= Len(z) + 1
    BY <1>2, <2>3
  <2> QED BY <2>1, <2>2, <2>5, <2>6, <2>7 DEF Ends
<1>6. ASSUME NEW j \in 1 .. Len(y), y[j].op # "half" PROVE Instr(z[Len(x) + j]) /\ Ends(z, Len(x) + j)
  <2> DEFINE i == Len(x) + j
  <2>1. Instr(y[j]) /\ Ends(y, j) /\ z[i] = y[j]
    BY <1>2, <1>6 DEF Piece
  <2>2. PICK w \in {1, 2} : w = y[j].width
    BY <2>1 DEF Ends
  <2>3. j + w <= Len(y) + 1 /\ (w = 2 => y[j + 1].op = "half") /\ (j + w <= Len(y) => y[j + w].op # "half")
    BY <2>1, <2>2 DEF Ends
  <2>4. i + 1 = Len(x) + (j + 1) /\ i + w = Len(x) + (j + w) /\ j + 1 \in Nat /\ j + w \in Nat /\ j + w >= 1
    BY <1>2
  <2>5. w = 2 => z[i + 1].op = "half"
    <3> SUFFICES ASSUME w = 2 PROVE z[i + 1].op = "half"
      OBVIOUS
    <3>1. j + 1 \in 1 .. Len(y)
      BY <1>2, <2>3
    <3> QED BY <1>2, <2>3, <2>4, <3>1
  <2>6. i + w <= Len(z) => z[i + w].op # "half"
    <3> SUFFICES ASSUME i + w <= Len(z) PROVE z[i + w].op # "half"
      OBVIOUS
    <3>1. j + w \in 1 .. Len(y)
      BY <1>2, <2>4
    <3> QED BY <1>2, <2>3, <2>4, <3>1
  <2>7. i + w <= Len(z) + 1
    BY <1>2, <2>3, <2>4
  <2> HIDE DEF i
  <2>8. Instr(z[i]) /\ Ends(z, i)
    BY <2>1, <2>2, <2>5, <2>6, <2>7 DEF Ends
  <2> QED BY <2>8 DEF i
<1>7. ASSUME NEW i \in 1 .. Len(z), z[i].op # "half" PROVE Instr(z[i]) /\ Ends(z, i)
  <2>1. CASE i <= Len(x)
    <3>1. i \in 1 .. Len(x)
      BY <1>2, <2>1
    <3> QED BY <1>2, <1>5, <1>7, <3>1
  <2>2. CASE ~(i <= Len(x))
    <3>1. PICK j \in 1 .. Len(y) : i = Len(x) + j
      <4>1. i - Len(x) \in 1 .. Len(y) /\ i = Len(x) + (i - Len(x))
        BY <1>2, <2>2
      <4> QED BY <4>1
    <3> QED BY <1>2, <1>6, <1>7, <3>1
  <2> QED BY <2>1, <2>2
<1>8. Len(z) \in Nat /\ Len(z) > 0 /\ z[1].op # "half"
  BY <1>2, <1>3, <1>4
<1>9. Piece(z)
  BY <1>2, <1>7, <1>8 DEF Piece
<1> QED BY <1>9 DEF z

\* One instruction, of four bytes and of two.
LEMMA WidePieceI ==
  ASSUME NEW op, NEW arg, Instr(Op(op, arg))
  PROVE  Piece(I(op, arg))
<1>1. PICK x, h : x = Op(op, arg) /\ h = Half
  OBVIOUS
<1>2. Instr(x) /\ x.width = 2 /\ h.op = "half"
  BY <1>1 DEF Op, Half
<1>3. x.op # "half"
  BY <1>2 DEF Instr, ProgOps
<1>4. IsSeq(<<x, h>>) /\ Len(<<x, h>>) = 2 /\ <<x, h>>[1] = x /\ <<x, h>>[2] = h /\ DOMAIN <<x, h>> = 1 .. 2
  BY TwoElements
<1>5. I(op, arg) = <<x, h>>
  BY <1>1 DEF I
<1> DEFINE z == <<x, h>>
<1>6. IsSeq(z) /\ Len(z) = 2 /\ z[1] = x /\ z[2] = h /\ DOMAIN z = 1 .. 2
  BY <1>4
<1> HIDE DEF z
<1>7. Ends(z, 1)
  BY <1>2, <1>6 DEF Ends
<1>8. Piece(z)
  BY <1>2, <1>3, <1>6, <1>7 DEF Piece
<1> QED BY <1>5, <1>8 DEF z

\* An instruction of two bytes.
LEMMA CompressedPiece ==
  ASSUME NEW op, NEW arg, Instr(Op(op, arg))
  PROVE  Piece(Compressed(op, arg))
<1>1. PICK x : x = [Op(op, arg) EXCEPT !.width = 1]
  OBVIOUS
<1>2. x.op = Op(op, arg).op /\ x.arg = Op(op, arg).arg /\ x.width = 1
  BY <1>1 DEF Op
<1>3. Instr(x)
  BY <1>2 DEF Instr
<1>4. x.op # "half"
  BY <1>3 DEF Instr, ProgOps
<1>5. Compressed(op, arg) = <<x>>
  BY <1>1 DEF Compressed
<1> DEFINE z == <<x>>
<1>6. IsSeq(z) /\ Len(z) = 1 /\ z[1] = x /\ DOMAIN z = 1 .. 1
  BY OneElement
<1> HIDE DEF z
<1>7. Ends(z, 1)
  BY <1>2, <1>6 DEF Ends
<1>8. Piece(z)
  BY <1>3, <1>4, <1>6, <1>7 DEF Piece
<1> QED BY <1>5, <1>8 DEF z

\* The four instructions that a line of text takes.
LEMMA PutsText ==
  ASSUME NEW text
  PROVE  /\ IsSeq(puts(text)) /\ Len(puts(text)) = 4
         /\ \A k \in 1 .. 4 : puts(text)[k].op \in {"thre", "thr"} /\ puts(text)[k].width = 2
<1> DEFINE x == putc(<<text, 1>>)
           y == putc(<<text, 2>>)
           z == puts(text)
<1>1. ASSUME NEW c
      PROVE  IsSeq(putc(c)) /\ Len(putc(c)) = 2 /\ \A k \in 1 .. 2 : putc(c)[k].op \in {"thre", "thr"} /\ putc(c)[k].width = 2
  <2>1. PICK u, v : u = Op("thre", "") /\ v = Op("thr", c)
    OBVIOUS
  <2>2. u.op = "thre" /\ v.op = "thr" /\ u.width = 2 /\ v.width = 2
    BY <2>1 DEF Op
  <2>3. putc(c) = <<u, v>>
    BY <2>1 DEF putc
  <2> QED BY <2>2, <2>3, TwoElements
<1>2. z = x \o y
  BY DEF puts
<1>3. IsSeq(x) /\ IsSeq(y) /\ Len(x) = 2 /\ Len(y) = 2
  BY <1>1
<1>4. \A k \in 1 .. 2 : x[k].op \in {"thre", "thr"} /\ x[k].width = 2 /\ y[k].op \in {"thre", "thr"} /\ y[k].width = 2
  BY <1>1
<1> HIDE DEF x, y, z
<1>5. Joined(z, x, y)
  BY <1>2, <1>3, Joining
<1>6. IsSeq(z) /\ Len(z) = 4 /\ (\A i \in 1 .. 2 : z[i] = x[i]) /\ \A i \in 1 .. 2 : z[2 + i] = y[i]
  BY <1>3, <1>5 DEF Joined
<1>7. z[1] = x[1] /\ z[2] = x[2] /\ z[3] = y[1] /\ z[4] = y[2]
  BY <1>6
<1>8. \A k \in 1 .. 4 : z[k].op \in {"thre", "thr"} /\ z[k].width = 2
  <2>1. ASSUME NEW k \in 1 .. 4 PROVE k = 1 \/ k = 2 \/ k = 3 \/ k = 4
    OBVIOUS
  <2> QED BY <1>4, <1>7, <2>1
<1> QED BY <1>6, <1>8 DEF z

\* A function on the first numbers is a sequence.
LEMMA Listed ==
  ASSUME NEW N \in Nat, NEW S, NEW f \in [1 .. N -> S]
  PROVE  f \in Seq(S) /\ Len(f) = N /\ DOMAIN f = 1 .. N
OBVIOUS

\* The text that prints a line.
LEMMA PrintfPiece ==
  ASSUME NEW text
  PROVE  Piece(printf(text))
<1> DEFINE ops == puts(text)
           s == [i \in 1 .. 8 |-> IF i % 2 = 1 THEN ops[(i + 1) \div 2] ELSE Half]
<1>1. IsSeq(ops) /\ Len(ops) = 4 /\ \A k \in 1 .. 4 : ops[k].op \in {"thre", "thr"} /\ ops[k].width = 2
  BY PutsText
<1>2. printf(text) = s
  BY <1>1 DEF printf, Wide
<1>3. ASSUME NEW i \in {1, 3, 5, 7} PROVE s[i].op \in {"thre", "thr"} /\ s[i].width = 2 /\ i + 1 \in {2, 4, 6, 8} /\ i + 2 \in {3, 5, 7, 9}
  <2> HIDE DEF ops
  <2>1. i % 2 = 1 /\ (i + 1) \div 2 \in 1 .. 4 /\ i \in 1 .. 8
    OBVIOUS
  <2> QED BY <1>1, <2>1
<1>4. ASSUME NEW i \in {2, 4, 6, 8} PROVE s[i].op = "half"
  <2> HIDE DEF ops
  <2>1. i % 2 # 1 /\ i \in 1 .. 8
    OBVIOUS
  <2> QED BY <2>1 DEF Half
<1>5. \E S : s \in [1 .. 8 -> S]
  <2>1. s = [i \in 1 .. 8 |-> s[i]]
    OBVIOUS
  <2> HIDE DEF s
  <2>2. s \in [1 .. 8 -> {s[i] : i \in 1 .. 8}]
    BY <2>1, Zenon
  <2> QED BY <2>2, Zenon
<1> HIDE DEF s
<1>6. IsSeq(s) /\ DOMAIN s = 1 .. 8 /\ Len(s) = 8
  <2>1. PICK S : s \in [1 .. 8 -> S]
    BY <1>5
  <2>2. 8 \in Nat
    OBVIOUS
  <2>3. s \in Seq(S) /\ Len(s) = 8 /\ DOMAIN s = 1 .. 8
    BY <2>1, <2>2, Listed, Zenon
  <2> QED BY <2>3, Zenon DEF IsSeq
<1>8. ASSUME NEW i \in {1, 3, 5, 7} PROVE Instr(s[i]) /\ Ends(s, i)
  <2>1. s[i].op \in {"thre", "thr"} /\ s[i].width = 2 /\ s[i + 1].op = "half"
    BY <1>3, <1>4
  <2>2. Instr(s[i])
    BY <2>1 DEF Instr, ProgOps
  <2>3. i + 2 <= 8 => s[i + 2].op # "half"
    <3>1. i + 2 <= 8 => i + 2 \in {3, 5, 7}
      OBVIOUS
    <3> QED BY <1>3, <3>1
  <2> QED BY <1>6, <2>1, <2>2, <2>3 DEF Ends
<1>9. ASSUME NEW i \in 1 .. 8 PROVE i \in {1, 3, 5, 7} \/ i \in {2, 4, 6, 8}
  OBVIOUS
<1>10. s[1].op # "half"
  <2>1. 1 \in {1, 3, 5, 7}
    OBVIOUS
  <2>2. s[1].op \in {"thre", "thr"}
    BY <1>3, <2>1
  <2> QED BY <2>2
<1>11. Piece(s)
  BY <1>4, <1>6, <1>8, <1>9, <1>10 DEF Piece
<1> QED BY <1>2, <1>11

\* A text that runs to an exit and no further.
Running(s) ==
  /\ IsSeq(s) /\ Len(s) \in Nat /\ Len(s) > 0 /\ DOMAIN s = 1 .. Len(s) /\ s[1].op # "half"
  /\ \A i \in 1 .. Len(s) :
       /\ s[i].op \notin {"half", "exit"} => Instr(s[i]) /\ Ends(s, i) /\ i + s[i].width <= Len(s)
       /\ s[i].op = "exit" => \A j \in 1 .. Len(s) : s[j].op = "half" \/ j <= i

\* A program that ends with the exit runs to it.
LEMMA ExitLast ==
  ASSUME NEW x, Piece(x)
  PROVE  Running(x \o I("exit", ""))
<1> DEFINE y == I("exit", "")
           z == x \o y
<1>1. IsSeq(y) /\ Len(y) = 2 /\ y[1].op = "exit" /\ y[2].op = "half"
  <2>1. PICK u, v : u = Op("exit", "") /\ v = Half
    OBVIOUS
  <2>2. y = <<u, v>> /\ u.op = "exit" /\ v.op = "half"
    BY <2>1 DEF I, Op, Half
  <2> HIDE DEF y
  <2> QED BY <2>2, TwoElements
<1> HIDE DEF y
<1>2. Joined(z, x, y)
  BY <1>1, Joining DEF Piece
<1> HIDE DEF z
<1>3. /\ IsSeq(z) /\ Len(x) \in Nat /\ Len(z) = Len(x) + 2 /\ DOMAIN z = 1 .. Len(z) /\ Len(x) > 0 /\ x[1].op # "half"
      /\ \A i \in 1 .. Len(x) : z[i] = x[i]
      /\ \A i \in 1 .. 2 : z[Len(x) + i] = y[i]
  BY <1>1, <1>2 DEF Joined, Piece
<1>4. z[Len(x) + 1].op = "exit" /\ z[Len(x) + 2].op = "half" /\ z[1] = x[1]
  <2>1. z[Len(x) + 1] = y[1] /\ z[Len(x) + 2] = y[2]
    BY <1>3
  <2> QED BY <1>1, <1>3, <2>1
<1>5. ASSUME NEW i \in 1 .. Len(z), z[i].op \notin {"half", "exit"}
      PROVE  Instr(z[i]) /\ Ends(z, i) /\ i + z[i].width <= Len(z)
  <2>1. i \in 1 .. Len(x) \/ i = Len(x) + 1 \/ i = Len(x) + 2
    BY <1>3
  <2>2. i \in 1 .. Len(x)
    BY <1>4, <1>5, <2>1
  <2>3. Instr(x[i]) /\ Ends(x, i) /\ z[i] = x[i]
    BY <1>3, <1>5, <2>2 DEF Piece
  <2>4. PICK w \in {1, 2} : w = x[i].width
    BY <2>3 DEF Ends
  <2>5. i + w <= Len(x) + 1 /\ (w = 2 => x[i + 1].op = "half") /\ (i + w <= Len(x) => x[i + w].op # "half")
    BY <2>3, <2>4 DEF Ends
  <2>6. w = 2 => z[i + 1].op = "half"
    <3>1. w = 2 => i + 1 \in 1 .. Len(x)
      BY <1>3, <2>2, <2>5
    <3> QED BY <1>3, <2>5, <3>1
  <2>7. z[i + w].op # "half"
    <3>1. CASE i + w <= Len(x)
      <4>1. i + w \in 1 .. Len(x)
        BY <1>3, <2>2, <3>1
      <4> QED BY <1>3, <2>5, <3>1, <4>1
    <3>2. CASE ~(i + w <= Len(x))
      <4>1. i + w = Len(x) + 1
        BY <1>3, <2>2, <2>5, <3>2
      <4> QED BY <1>4, <4>1
    <3> QED BY <3>1, <3>2
  <2>8. i + w <= Len(z)
    BY <1>3, <2>2, <2>5
  <2>9. i + w <= Len(z) + 1
    BY <1>3, <2>2, <2>5
  <2> QED BY <2>3, <2>4, <2>6, <2>7, <2>8, <2>9 DEF Ends
<1>6. Len(z) \in Nat /\ Len(z) > 0
  BY <1>3
<1>7. ASSUME NEW i \in 1 .. Len(z), z[i].op = "exit", NEW j \in 1 .. Len(z) PROVE z[j].op = "half" \/ j <= i
  <2>1. ASSUME NEW k \in 1 .. Len(x) PROVE z[k].op # "exit"
    <3>1. z[k] = x[k] /\ (x[k].op = "half" \/ Instr(x[k]))
      BY <1>3, <2>1 DEF Piece
    <3> QED BY <3>1 DEF Instr, ProgOps
  <2>2. ASSUME NEW k \in 1 .. Len(z) PROVE k \in 1 .. Len(x) \/ k = Len(x) + 1 \/ k = Len(x) + 2
    BY <1>3
  <2>3. i = Len(x) + 1
    BY <1>4, <1>7, <2>1, <2>2
  <2>4. j <= Len(x) + 1 \/ j = Len(x) + 2
    BY <1>3
  <2> QED BY <1>4, <2>3, <2>4
<1>8. Running(z)
  BY <1>3, <1>4, <1>5, <1>6, <1>7 DEF Running
<1> QED BY <1>8 DEF z, y

\* The text that crt0.S puts around main.
LEMMA Crt0Runs ==
  ASSUME NEW main, Piece(main)
  PROVE  Running(crt0(main))
<1>1. Piece(I("pre_main", "")) /\ Piece(I("thre", "")) /\ Piece(I("delay", "")) /\ Piece(I("delayed", ""))
  <2>1. ASSUME NEW op \in {"pre_main", "thre", "delay", "delayed"} PROVE Instr(Op(op, ""))
    BY DEF Instr, Op, ProgOps
  <2> QED BY <2>1, WidePieceI
<1>2. Piece(I("pre_main", "") \o main)
  BY <1>1, PiecesJoin
<1>3. Piece(I("thre", "") \o I("delay", ""))
  BY <1>1, PiecesJoin
<1>4. Piece(post_main)
  BY <1>1, <1>3, PiecesJoin DEF post_main
<1>5. Piece(I("pre_main", "") \o main \o post_main)
  BY <1>2, <1>4, PiecesJoin
<1> QED BY <1>5, ExitLast DEF crt0

\* One more instruction of four bytes.
LEMMA ThenInstr ==
  \A x, op, arg : Piece(x) /\ Instr(Op(op, arg)) => Piece(x \o I(op, arg))
BY WidePieceI, PiecesJoin, Zenon

\* One more line of text.
LEMMA ThenPrintf ==
  \A x, text : Piece(x) => Piece(x \o printf(text))
BY PrintfPiece, PiecesJoin, Zenon

\* The instructions of the programs.
LEMMA TheInstrs ==
  /\ Instr(Op("li", 0)) /\ Instr(Op("li", 1)) /\ Instr(Op("ecall", "getpid")) /\ Instr(Op("illegal", ""))
  /\ Instr(Op("csrs_mie", {"timer", "sw"})) /\ Instr(Op("csrs_mie", {"ext"}))
  /\ Instr(Op("register_timer_cb", "on_timer")) /\ Instr(Op("register_ipi_cb", "on_ipi"))
  /\ Instr(Op("register_handler", "default_slave_isr"))
  /\ \A op \in ProgOps \ {"li", "ecall", "csrs_mie", "register_timer_cb", "register_ipi_cb", "register_handler"} :
       \A arg : Instr(Op(op, arg))
BY DEF Instr, Op, ProgOps, Causes

\* The five programs: from every instruction but the exit the next halfword
\* to run is an instruction again.
LEMMA ProgramsRun ==
  \A p \in DOMAIN Text : Running(Text[p])
<1>1. Piece(hello_world) /\ Piece(failing_test)
  BY PrintfPiece, ThenInstr, TheInstrs, Zenon DEF hello_world, failing_test
<1>2. /\ Instr(Op("register_timer_cb", "on_timer")) /\ Instr(Op("register_ipi_cb", "on_ipi")) /\ Instr(Op("csrs_mstatus", ""))
      /\ Instr(Op("schedule_after", TimerBits)) /\ Instr(Op("wait", "timer")) /\ Instr(Op("send_ipi", "")) /\ Instr(Op("wait", "sw"))
      /\ Instr(Op("register_handler", "default_slave_isr")) /\ Instr(Op("set_priority", 1)) /\ Instr(Op("set_threshold", 0))
      /\ Instr(Op("enable", "")) /\ Instr(Op("doorbell", "")) /\ Instr(Op("wait", "ext"))
  BY TheInstrs DEF ProgOps
<1>3. Piece(clint_test)
  BY <1>2, PrintfPiece, ThenInstr, ThenPrintf, TheInstrs, Zenon DEF clint_test
<1>4. Piece(default_slave)
  BY <1>2, PrintfPiece, ThenInstr, ThenPrintf, TheInstrs, Zenon DEF default_slave
<1>5. Piece(trap_test)
  BY PrintfPiece, CompressedPiece, PiecesJoin, ThenInstr, ThenPrintf, TheInstrs, Zenon DEF trap_test
<1>6. /\ Running(crt0(hello_world)) /\ Running(crt0(failing_test)) /\ Running(crt0(clint_test))
      /\ Running(crt0(default_slave)) /\ Running(crt0(trap_test))
  BY <1>1, <1>3, <1>4, <1>5, Crt0Runs
<1> QED BY <1>6 DEF Text

----------------------------------------------------------------------------
\* The text of the program, and its instructions before halfword i.
Code == Text[prog]
Before(i) == {j \in Starts(Code) : j < i}

\* What a0 must hold when the instructions of S have run.
A0Right(x, S) ==
  /\ x # Clobbered
  /\ \A i \in S : Code[i].op = "ecall" /\ (\A j \in S : Code[j].op # "li") => x = 1

\* What the callbacks of an interrupt do.
CbOps == {"set_mtimecmp", "hit", "thre", "thr", "clear_ipi", "claim", "complete", "ack"}

\* In the handler of an interrupt: the instruction at pc has not run.
Interrupted ==
  /\ trail = Before(pc) /\ ctx.mepc = pc /\ A0Right(ctx.a0, trail)
  /\ \A k \in 1 .. Len(frame) - 1 : frame[k].op \in CbOps

\* In that of an exception: it has, and mepc is moved past it at the end.
Trapped ==
  /\ trail = Before(pc) \cup {pc} /\ Code[pc].op \in {"ecall", "illegal"} /\ A0Right(ctx.a0, Before(pc))
  /\ Len(frame) >= 2 => frame[Len(frame) - 1].op = "ctx_advance_mepc" /\ ctx.mepc = pc
  /\ Len(frame) = 1 => ctx.mepc = pc + Code[pc].width
  /\ Code[pc].op = "ecall" =>
       /\ ctx.a7 = "getpid" /\ Len(frame) <= 3
       /\ IF Len(frame) = 3 THEN frame[1].op = "handle_syscall" ELSE ctx.a0 = 1
  /\ Code[pc].op = "illegal" => \A k \in 1 .. Len(frame) - 2 : frame[k].op \in {"thre", "thr"}

InHandler ==
  /\ Len(frame) >= 1 /\ frame[Len(frame)].op = "mret"
  /\ Interrupted \/ Trapped

\* The inductive invariant of the traps.
ResInv ==
  /\ prog \in DOMAIN Text /\ pc \in Starts(Code) /\ mie \subseteq Causes
  /\ IsSeq(frame) /\ Len(frame) \in Nat /\ ctx \in [mepc : {ctx.mepc}, mpie : {ctx.mpie}, a0 : {ctx.a0}, t0 : {ctx.t0}, a7 : {ctx.a7}]
  /\ frame = <<>> => trail = Before(pc) /\ A0Right(a0, trail)
  /\ frame # <<>> => InHandler

\* What is left of a sequence without its head.
LEMMA SeqFacts ==
  ASSUME NEW s, IsSeq(s)
  PROVE  /\ Len(s) \in Nat /\ DOMAIN s = 1 .. Len(s) /\ (s = <<>> <=> Len(s) = 0)
         /\ s # <<>> => /\ Head(s) = s[1] /\ IsSeq(Tail(s)) /\ Len(Tail(s)) = Len(s) - 1
                        /\ \A k \in 1 .. Len(s) - 1 : Tail(s)[k] = s[k + 1]
<1>1. PICK S : s \in Seq(S)
  BY DEF IsSeq
<1>2. s # <<>> => Tail(s) \in Seq(S)
  BY <1>1
<1>3. s # <<>> => IsSeq(Tail(s))
  BY <1>2, Zenon DEF IsSeq
<1> QED BY <1>1, <1>3

\* The instruction after the one at i is the next to start.
LEMMA NextInstr ==
  ASSUME prog \in DOMAIN Text, NEW i \in Starts(Code), Code[i].op # "exit"
  PROVE  /\ Instr(Code[i]) /\ i + Code[i].width \in Starts(Code)
         /\ Before(i + Code[i].width) = Before(i) \cup {i}
<1>1. Running(Code)
  BY ProgramsRun DEF Code
<1>2. DOMAIN Code = 1 .. Len(Code) /\ Len(Code) \in Nat /\ i \in 1 .. Len(Code) /\ Code[i].op # "half"
  BY <1>1 DEF Running, Starts
<1>3. Instr(Code[i]) /\ Ends(Code, i) /\ i + Code[i].width <= Len(Code)
  BY <1>1, <1>2 DEF Running
<1>4. PICK w \in {1, 2} : w = Code[i].width
  BY <1>3 DEF Ends
<1>5. i + w <= Len(Code) /\ (w = 2 => Code[i + 1].op = "half") /\ Code[i + w].op # "half"
  BY <1>3, <1>4 DEF Ends
<1>6. i + w \in Starts(Code)
  BY <1>2, <1>5 DEF Starts
<1>7. ASSUME NEW j \in Starts(Code) PROVE j < i + w <=> (j < i \/ j = i)
  <2>1. j \in Nat /\ Code[j].op # "half"
    BY <1>2 DEF Starts
  <2>2. CASE w = 1
    BY <1>2, <2>1, <2>2
  <2>3. CASE w = 2
    <3>1. j # i + 1
      BY <1>5, <2>1, <2>3
    <3> QED BY <1>2, <2>1, <2>3, <3>1
  <2> QED BY <2>2, <2>3
<1>8. Before(i + w) = Before(i) \cup {i}
  BY <1>7 DEF Before
<1> QED BY <1>3, <1>4, <1>6, <1>8

\* At reset, before the first instruction.
LEMMA ResStarts ==
  BspInit => ResInv
<1> SUFFICES ASSUME BspInit PROVE ResInv
  OBVIOUS
<1>1. prog \in DOMAIN Text
  BY ProgsAssumption DEF BspInit
<1>2. Running(Code)
  BY <1>1, ProgramsRun DEF Code
<1>3. pc = 1 /\ pc \in Starts(Code)
  BY <1>2 DEF BspInit, Running, Starts
<1>4. Before(1) = {}
  <2>1. DOMAIN Code = 1 .. Len(Code) /\ Len(Code) \in Nat
    BY <1>2 DEF Running
  <2> QED BY <2>1 DEF Before, Starts
<1>5. IsSeq(frame) /\ Len(frame) = 0 /\ frame = <<>>
  <2>1. frame = <<>> /\ <<>> \in Seq({})
    BY DEF BspInit
  <2> QED BY <2>1, Zenon, SeqFacts DEF IsSeq
<1>6. trail = Before(pc) /\ A0Right(a0, trail)
  BY <1>3, <1>4 DEF BspInit, A0Right, Clobbered
<1>7. mie \subseteq Causes /\ ctx \in [mepc : {ctx.mepc}, mpie : {ctx.mpie}, a0 : {ctx.a0}, t0 : {ctx.t0}, a7 : {ctx.a7}]
  BY DEF BspInit
<1> QED BY <1>1, <1>3, <1>5, <1>6, <1>7 DEF ResInv

\* The text stays, and with it what is said about it.
LEMMA TextStays ==
  ASSUME prog' = prog
  PROVE  /\ Code' = Code /\ \A x : Before(x)' = Before(x)
         /\ \A x, S : A0Right(x, S)' <=> A0Right(x, S)
BY DEF Code, Before, A0Right, Starts, Clobbered

\* Outside of a handler.
LEMMA OutsideHolds ==
  ASSUME ResInv, prog' = prog, mie' \subseteq Causes, frame' = <<>>,
         ctx' \in [mepc : {ctx'.mepc}, mpie : {ctx'.mpie}, a0 : {ctx'.a0}, t0 : {ctx'.t0}, a7 : {ctx'.a7}],
         NEW i \in Starts(Code), pc' = i, NEW S, trail' = S, S = Before(i), NEW x, a0' = x, A0Right(x, S)
  PROVE  ResInv'
<1>1. Code' = Code /\ Before(i)' = Before(i) /\ A0Right(x, S)'
  BY TextStays
<1>2. IsSeq(frame') /\ Len(frame') = 0
  <2>1. <<>> \in Seq({})
    OBVIOUS
  <2>2. IsSeq(<<>>)
    BY <2>1, Zenon DEF IsSeq
  <2> QED BY <2>2, SeqFacts
<1>3. IsSeq(frame)'
  BY <1>2 DEF IsSeq
<1>4. prog' \in DOMAIN Text /\ pc' \in Starts(Code)'
  BY <1>1 DEF ResInv, Starts
<1>5. trail' = Before(pc)' /\ A0Right(a0, trail)'
  BY <1>1 DEF Before, A0Right, Starts
<1> QED BY <1>2, <1>3, <1>4, <1>5 DEF ResInv

\* An instruction that moves to the next one and does nothing to a0 or to the
\* saved context.
Special == {"ecall", "illegal", "li", "mret", "ctx_advance_mepc", "handle_syscall", "exit"}

\* Such an instruction of the program.
LEMMA StepInProgram ==
  ASSUME ResInv, frame = <<>>, Advance, Now.op \notin Special, UNCHANGED <<prog, a0, ctx>>, mie' \subseteq Causes
  PROVE  ResInv'
<1>1. Now = Code[pc] /\ pc' = pc + Code[pc].width /\ trail' = trail \cup {pc} /\ frame' = <<>>
  BY DEF Now, Advance, Code
<1>2. pc \in Starts(Code) /\ prog \in DOMAIN Text /\ trail = Before(pc) /\ A0Right(a0, trail)
  BY DEF ResInv
<1>3. PICK i \in Starts(Code) : i = pc + Code[pc].width /\ Before(i) = Before(pc) \cup {pc}
  BY <1>1, <1>2, NextInstr DEF Special
<1>4. Code[pc].op # "ecall"
  BY <1>1 DEF Special
<1>5. A0Right(a0, trail \cup {pc})
  BY <1>2, <1>4 DEF A0Right
<1>6. PICK S, x : S = trail \cup {pc} /\ x = a0
  OBVIOUS
<1>7. ctx' \in [mepc : {ctx'.mepc}, mpie : {ctx'.mpie}, a0 : {ctx'.a0}, t0 : {ctx'.t0}, a7 : {ctx'.a7}]
  BY DEF ResInv
<1>8. pc' = i /\ trail' = S /\ S = Before(i) /\ a0' = x /\ A0Right(x, S) /\ prog' = prog
  BY <1>1, <1>2, <1>3, <1>5, <1>6
<1> QED BY <1>1, <1>7, <1>8, OutsideHolds

\* In a handler the first instruction is taken off.
LEMMA HandlerShrinks ==
  ASSUME ResInv, frame # <<>>
  PROVE  /\ IsSeq(frame) /\ Len(frame) \in Nat /\ Len(frame) >= 1 /\ Now = frame[1]
         /\ IsSeq(Tail(frame)) /\ Len(Tail(frame)) = Len(frame) - 1
         /\ \A k \in 1 .. Len(frame) - 1 : Tail(frame)[k] = frame[k + 1]
BY SeqFacts DEF ResInv, InHandler, Now

\* And such an instruction of a handler.
LEMMA StepInHandler ==
  ASSUME ResInv, frame # <<>>, Advance, Now.op \notin Special, UNCHANGED <<prog, a0, ctx>>, mie' \subseteq Causes
  PROVE  ResInv'
<1>1. UNCHANGED <<pc, trail>> /\ frame' = Tail(frame)
  BY DEF Advance
<1>2. PICK f, g : f = frame /\ g = Tail(frame)
  OBVIOUS
<1>3. PICK L \in Nat : L = Len(f)
  BY <1>2, HandlerShrinks
<1>4. /\ L >= 1 /\ Now = f[1] /\ IsSeq(g) /\ Len(g) = L - 1 /\ f[L].op = "mret"
      /\ \A k \in 1 .. L - 1 : g[k] = f[k + 1]
  BY <1>2, <1>3, HandlerShrinks DEF ResInv, InHandler
<1>5. L >= 2
  BY <1>4 DEF Special
<1>6. frame' = g /\ g # <<>> /\ g[L - 1] = f[L]
  <2>1. L - 1 \in 1 .. L - 1 /\ (L - 1) + 1 = L
    BY <1>5
  <2>2. g[L - 1] = f[L]
    BY <1>4, <2>1
  <2>3. Len(g) # 0
    BY <1>4, <1>5
  <2> QED BY <1>1, <1>2, <1>4, <2>2, <2>3, SeqFacts
<1>7. Code' = Code /\ Before(pc)' = Before(pc) /\ (\A S : A0Right(ctx.a0, S)' <=> A0Right(ctx.a0, S))
  BY <1>1 DEF Code, Before, A0Right, Starts, Clobbered
<1>8. Interrupted \/ Trapped
  BY DEF ResInv, InHandler
<1>9. Interrupted' \/ Trapped'
  <2>1. CASE Interrupted
    <3>1. ASSUME NEW k \in 1 .. L - 2 PROVE g[k].op \in CbOps
      <4>1. k \in 1 .. L - 1 /\ k + 1 \in 1 .. L - 1
        OBVIOUS
      <4> QED BY <1>2, <1>3, <1>4, <2>1, <4>1 DEF Interrupted
    <3>2. \A k \in 1 .. Len(frame') - 1 : frame'[k].op \in CbOps
      <4>1. Len(frame') - 1 = L - 2
        BY <1>4, <1>6
      <4> QED BY <1>6, <3>1, <4>1
    <3>3. trail' = Before(pc)' /\ ctx'.mepc = pc' /\ A0Right(ctx.a0, trail)'
      BY <1>1, <1>7, <2>1 DEF Interrupted, A0Right, Code, Clobbered
    <3>4. Interrupted'
      BY <3>2, <3>3 DEF Interrupted
    <3> QED BY <3>4
  <2>2. CASE Trapped
    <3>1. f[L - 1].op = "ctx_advance_mepc" /\ ctx.mepc = pc
      BY <1>2, <1>3, <1>5, <2>2 DEF Trapped
    <3>2. L >= 3
      <4>1. L # 2
        BY <1>4, <3>1 DEF Special
      <4> QED BY <1>5, <4>1
    <3>3. Code[pc].op = "illegal"
      <4>1. Code[pc].op = "ecall" => L = 3 /\ f[1].op = "handle_syscall"
        BY <1>2, <1>3, <2>2, <3>2 DEF Trapped
      <4>2. Code[pc].op # "ecall"
        BY <1>4, <4>1 DEF Special
      <4> QED BY <2>2, <4>2 DEF Trapped
    <3>4. ASSUME NEW k \in 1 .. L - 3 PROVE g[k].op \in {"thre", "thr"}
      <4>1. k \in 1 .. L - 1 /\ k + 1 \in 1 .. L - 2
        OBVIOUS
      <4>2. f[k + 1].op \in {"thre", "thr"}
        BY <1>2, <1>3, <2>2, <3>3, <4>1 DEF Trapped
      <4> QED BY <1>4, <4>1, <4>2
    <3>5. Len(frame') = L - 1 /\ Len(frame') - 1 = L - 2 /\ Len(frame') - 2 = L - 3 /\ L - 1 # 1
      BY <1>4, <1>6, <3>2
    <3>6. \A k \in 1 .. Len(frame') - 2 : frame'[k].op \in {"thre", "thr"}
      BY <1>6, <3>4, <3>5
    <3>7. frame'[Len(frame') - 1].op = "ctx_advance_mepc"
      <4>1. L - 2 \in 1 .. L - 1 /\ (L - 2) + 1 = L - 1
        BY <3>2
      <4>2. g[L - 2] = f[L - 1]
        BY <1>4, <4>1
      <4> QED BY <1>6, <3>1, <3>5, <4>2
    <3>8. trail' = Before(pc)' \cup {pc'} /\ Code'[pc'].op = "illegal" /\ A0Right(ctx.a0, Before(pc))' /\ ctx'.mepc = pc'
      BY <1>1, <1>7, <2>2, <3>1, <3>3 DEF Trapped, A0Right, Before, Starts, Code, Clobbered
    <3>9. Len(frame') # 1 /\ Code'[pc'].op # "ecall"
      BY <3>5, <3>8
    <3>10. Trapped'
      BY <3>6, <3>7, <3>8, <3>9 DEF Trapped
    <3> QED BY <3>10
  <2> QED BY <1>8, <2>1, <2>2
<1>10. Len(frame') >= 1 /\ frame'[Len(frame')].op = "mret" /\ frame' # <<>> /\ Len(frame') \in Nat /\ IsSeq(frame)'
  BY <1>4, <1>5, <1>6 DEF IsSeq
<1>11. InHandler'
  BY <1>9, <1>10 DEF InHandler
<1>12. prog' \in DOMAIN Text /\ pc' \in Starts(Code)' /\ ctx' \in [mepc : {ctx'.mepc}, mpie : {ctx'.mpie}, a0 : {ctx'.a0}, t0 : {ctx'.t0}, a7 : {ctx'.a7}]
  BY <1>1, <1>7 DEF ResInv, Starts
<1> QED BY <1>10, <1>11, <1>12 DEF ResInv

\* getpid, the only call that the programs make by an ecall, answers 1.
LEMMA GetpidAnswer ==
  handle_syscall("getpid").ret = 1
<1>1. "getpid" \in DOMAIN ByNumber /\ ByNumber["getpid"] = sys_getpid
  BY DEF ByNumber
<1>2. sys_getpid.ret = 1
  BY DEF sys_getpid, Quiet, Answer
<1> QED BY <1>1, <1>2 DEF handle_syscall

\* In a handler only these instructions are due.
LEMMA HandlerOps ==
  ASSUME ResInv, frame # <<>>
  PROVE  /\ Now.op \in CbOps \cup {"mret", "ctx_advance_mepc", "handle_syscall"}
         /\ Now.op = "mret" => Len(frame) = 1
         /\ Now.op = "ctx_advance_mepc" => Trapped /\ Len(frame) = 2
         /\ Now.op = "handle_syscall" => Trapped /\ Code[pc].op = "ecall" /\ Len(frame) = 3
         /\ Now.op = "claim" => Interrupted /\ Len(frame) >= 2
<1>1. PICK f : f = frame
  BY Zenon
<1>2. PICK L \in Nat : L = Len(f)
  BY <1>1, HandlerShrinks
<1>3. L >= 1 /\ Now = f[1] /\ f[L].op = "mret"
  BY <1>1, <1>2, HandlerShrinks DEF ResInv, InHandler
<1>4. Interrupted \/ Trapped
  BY DEF ResInv, InHandler
<1>5. CASE L = 1
  BY <1>1, <1>2, <1>3, <1>5
<1>6. CASE L > 1 /\ Interrupted
  <2>1. 1 \in 1 .. L - 1
    BY <1>6
  <2>2. f[1].op \in CbOps
    BY <1>1, <1>2, <1>6, <2>1 DEF Interrupted
  <2>3. L >= 2
    BY <1>6
  <2> QED BY <1>1, <1>2, <1>3, <1>6, <2>2, <2>3 DEF CbOps
<1>7. CASE L > 1 /\ Trapped
  <2>1. f[L - 1].op = "ctx_advance_mepc"
    BY <1>1, <1>2, <1>7 DEF Trapped
  <2>2. CASE L = 2
    BY <1>1, <1>2, <1>3, <1>7, <2>1, <2>2
  <2>3. CASE L > 2 /\ Code[pc].op = "ecall"
    <3>1. L = 3 /\ f[1].op = "handle_syscall"
      BY <1>1, <1>2, <1>7, <2>3 DEF Trapped
    <3> QED BY <1>1, <1>2, <1>3, <1>7, <2>3, <3>1
  <2>4. CASE L > 2 /\ Code[pc].op = "illegal"
    <3>1. 1 \in 1 .. L - 2
      BY <2>4
    <3>2. f[1].op \in {"thre", "thr"}
      BY <1>1, <1>2, <1>7, <2>4, <3>1 DEF Trapped
    <3> QED BY <1>3, <3>2 DEF CbOps
  <2>5. Code[pc].op \in {"ecall", "illegal"} /\ (L = 2 \/ L > 2)
    BY <1>7 DEF Trapped
  <2> QED BY <2>2, <2>3, <2>4, <2>5
<1>8. L = 1 \/ L > 1
  BY <1>3
<1> QED BY <1>4, <1>5, <1>6, <1>7, <1>8

\* The program loads its own a0.
LEMMA LiKeeps ==
  ASSUME ResInv, li
  PROVE  ResInv'
<1>1. frame = <<>>
  BY HandlerOps DEF li, Executes, CbOps
<1>2. Now = Code[pc] /\ pc' = pc + Code[pc].width /\ trail' = trail \cup {pc} /\ frame' = <<>> /\ Code[pc].op = "li"
  BY <1>1 DEF Now, Advance, Code, li, Executes
<1>3. pc \in Starts(Code) /\ prog \in DOMAIN Text /\ trail = Before(pc)
  BY <1>1 DEF ResInv
<1>4. PICK i \in Starts(Code) : i = pc + Code[pc].width /\ Before(i) = Before(pc) \cup {pc} /\ Instr(Code[pc])
  BY <1>2, <1>3, NextInstr
<1>5. a0' = Code[pc].arg /\ a0' \in {0, 1}
  BY <1>2, <1>4 DEF li, Instr
<1>6. PICK S, x : S = trail \cup {pc} /\ x = a0'
  OBVIOUS
<1>7. A0Right(x, S)
  BY <1>2, <1>5, <1>6 DEF A0Right, Clobbered
<1>8. ctx' \in [mepc : {ctx'.mepc}, mpie : {ctx'.mpie}, a0 : {ctx'.a0}, t0 : {ctx'.t0}, a7 : {ctx'.a7}] /\ prog' = prog /\ mie' \subseteq Causes
  BY DEF ResInv, li
<1>9. pc' = i /\ trail' = S /\ S = Before(i) /\ a0' = x
  BY <1>2, <1>3, <1>4, <1>6
<1> QED BY <1>2, <1>7, <1>8, <1>9, OutsideHolds

\* The return from a handler.
LEMMA MretKeeps ==
  ASSUME ResInv, mret
  PROVE  ResInv'
<1>1. frame # <<>>
  <2>1. CASE frame = <<>>
    <3>1. Code[pc].op = "mret" /\ pc \in Starts(Code) /\ prog \in DOMAIN Text
      BY <2>1 DEF mret, Executes, Now, Code, ResInv
    <3>2. Instr(Code[pc])
      BY <3>1, NextInstr
    <3> QED BY <3>1, <3>2 DEF Instr, ProgOps
  <2> QED BY <2>1
<1>2. Len(frame) = 1 /\ (Interrupted \/ Trapped)
  BY <1>1, HandlerOps DEF mret, Executes, ResInv, InHandler
<1>3. prog' = prog /\ mie' = mie /\ frame' = <<>> /\ trail' = trail /\ ctx' = ctx /\ pc' = ctx.mepc /\ a0' = ctx.a0
  BY DEF mret, RESTORE_CTX
<1>4. ctx' \in [mepc : {ctx'.mepc}, mpie : {ctx'.mpie}, a0 : {ctx'.a0}, t0 : {ctx'.t0}, a7 : {ctx'.a7}] /\ mie' \subseteq Causes
  BY <1>3 DEF ResInv
<1>5. pc \in Starts(Code) /\ prog \in DOMAIN Text
  BY DEF ResInv
<1>6. PICK S, x : S = trail /\ x = ctx.a0
  OBVIOUS
<1>7. PICK i \in Starts(Code) : i = ctx.mepc /\ S = Before(i) /\ A0Right(x, S)
  <2>1. CASE Interrupted
    BY <1>5, <1>6, <2>1 DEF Interrupted
  <2>2. CASE Trapped
    <3>1. ctx.mepc = pc + Code[pc].width /\ Code[pc].op \in {"ecall", "illegal"}
      BY <1>2, <2>2 DEF Trapped
    <3>2. pc + Code[pc].width \in Starts(Code) /\ Before(pc + Code[pc].width) = Before(pc) \cup {pc}
      BY <1>5, <3>1, NextInstr
    <3>3. trail = Before(pc) \cup {pc} /\ A0Right(ctx.a0, Before(pc)) /\ (Code[pc].op = "ecall" => ctx.a0 = 1)
      BY <1>2, <2>2 DEF Trapped
    <3>4. A0Right(ctx.a0, Before(pc) \cup {pc})
      BY <3>3 DEF A0Right
    <3> QED BY <1>6, <3>1, <3>2, <3>3, <3>4
  <2> QED BY <1>2, <2>1, <2>2
<1> QED BY <1>3, <1>4, <1>6, <1>7, OutsideHolds

\* Steps that leave the program and its handlers alone.
LEMMA OtherKeeps ==
  ASSUME ResInv, UNCHANGED <<prog, pc, frame, trail, a0, ctx, mie>>
  PROVE  ResInv'
BY DEF ResInv, InHandler, Interrupted, Trapped, A0Right, Before, Starts, Code, IsSeq, Clobbered

\* What of the invariant a step within a handler has to show.
LEMMA InsideHolds ==
  ASSUME ResInv, UNCHANGED <<prog, pc, mie>>,
         ctx' \in [mepc : {ctx'.mepc}, mpie : {ctx'.mpie}, a0 : {ctx'.a0}, t0 : {ctx'.t0}, a7 : {ctx'.a7}],
         NEW g, frame' = g, IsSeq(g), NEW L \in Nat, L = Len(g), L >= 1, g[L].op = "mret", Interrupted' \/ Trapped'
  PROVE  ResInv'
<1>1. frame' # <<>>
  <2>1. Len(g) # 0
    OBVIOUS
  <2> QED BY <2>1, SeqFacts
<1>2. InHandler'
  BY DEF InHandler
<1>3. IsSeq(frame)'
  BY DEF IsSeq
<1>4. prog' \in DOMAIN Text /\ pc' \in Starts(Code)'
  BY DEF ResInv, Starts, Code
<1>5. Len(frame') \in Nat /\ mie' \subseteq Causes
  BY DEF ResInv
<1> QED BY <1>1, <1>2, <1>3, <1>4, <1>5 DEF ResInv

\* The answer of an ecall.
LEMMA SyscallKeeps ==
  ASSUME ResInv, syscall
  PROVE  ResInv'
<1>1. frame # <<>>
  <2>1. CASE frame = <<>>
    <3>1. Code[pc].op = "handle_syscall" /\ pc \in Starts(Code) /\ prog \in DOMAIN Text
      BY <2>1 DEF syscall, Executes, Now, Code, ResInv
    <3>2. Instr(Code[pc])
      BY <3>1, NextInstr
    <3> QED BY <3>1, <3>2 DEF Instr, ProgOps
  <2> QED BY <2>1
<1>2. Trapped /\ Code[pc].op = "ecall" /\ Len(frame) = 3
  BY <1>1, HandlerOps DEF syscall, Executes
<1>3. UNCHANGED <<prog, pc, mie, trail>> /\ frame' = Tail(frame) /\ ctx' = [ctx EXCEPT !.a0 = handle_syscall(ctx.a7).ret]
  BY <1>1 DEF syscall, Advance
<1>4. ctx.a7 = "getpid" /\ ctx.mepc = pc /\ frame[2].op = "ctx_advance_mepc" /\ trail = Before(pc) \cup {pc}
  BY <1>2 DEF Trapped
<1>5. /\ ctx'.a0 = 1 /\ ctx'.a7 = "getpid" /\ ctx'.mepc = pc
      /\ ctx' \in [mepc : {ctx'.mepc}, mpie : {ctx'.mpie}, a0 : {ctx'.a0}, t0 : {ctx'.t0}, a7 : {ctx'.a7}]
  BY <1>3, <1>4, GetpidAnswer DEF ResInv
<1>6. PICK f, g : f = frame /\ g = Tail(frame)
  OBVIOUS
<1>7. IsSeq(g) /\ Len(g) = 2 /\ g[1] = frame[2] /\ g[2] = frame[3]
  <2>1. IsSeq(g) /\ Len(f) = 3 /\ Len(g) = 3 - 1 /\ \A k \in 1 .. 3 - 1 : g[k] = f[k + 1]
    BY <1>1, <1>2, <1>6, HandlerShrinks
  <2>2. 1 \in 1 .. 3 - 1 /\ 2 \in 1 .. 3 - 1 /\ 1 + 1 = 2 /\ 2 + 1 = 3 /\ 3 - 1 = 2
    OBVIOUS
  <2>3. g[1] = f[2] /\ g[2] = f[3]
    BY <2>1, <2>2
  <2> QED BY <1>6, <2>1, <2>2, <2>3
<1>8. frame[3].op = "mret"
  BY <1>1, <1>2 DEF ResInv, InHandler
<1>9. Code'[pc'].op = "ecall" /\ trail' = Before(pc)' \cup {pc'} /\ A0Right(ctx.a0, Before(pc))'
  BY <1>2, <1>3, <1>4, <1>5 DEF Code, Before, A0Right, Starts, Clobbered
<1>10. frame' = g /\ Len(frame') = 2 /\ frame'[1].op = "ctx_advance_mepc"
  BY <1>3, <1>4, <1>6, <1>7
<1>11. Trapped'
  <2>1. Len(frame') # 1 /\ Len(frame') # 3 /\ Len(frame') <= 3 /\ Len(frame') - 1 = 1
    BY <1>10
  <2>2. frame'[Len(frame') - 1].op = "ctx_advance_mepc"
    BY <1>10, <2>1
  <2>3. Code'[pc'].op \in {"ecall", "illegal"} /\ Code'[pc'].op # "illegal"
    BY <1>9
  <2>4. ctx'.mepc = pc'
    BY <1>3, <1>5
  <2> QED BY <1>5, <1>9, <2>1, <2>2, <2>3, <2>4 DEF Trapped
<1>12. 2 \in Nat /\ 2 = Len(g) /\ 2 >= 1 /\ g[2].op = "mret" /\ UNCHANGED <<prog, pc, mie>>
  BY <1>3, <1>7, <1>8
<1> QED BY <1>5, <1>7, <1>10, <1>11, <1>12, InsideHolds

\* mepc is moved past the instruction that trapped.
LEMMA AdvanceKeeps ==
  ASSUME ResInv, advance_mepc
  PROVE  ResInv'
<1>1. frame # <<>>
  <2>1. CASE frame = <<>>
    <3>1. Code[pc].op = "ctx_advance_mepc" /\ pc \in Starts(Code) /\ prog \in DOMAIN Text
      BY <2>1 DEF advance_mepc, Executes, Now, Code, ResInv
    <3>2. Instr(Code[pc])
      BY <3>1, NextInstr
    <3> QED BY <3>1, <3>2 DEF Instr, ProgOps
  <2> QED BY <2>1
<1>2. Trapped /\ Len(frame) = 2
  BY <1>1, HandlerOps DEF advance_mepc, Executes
<1>3. UNCHANGED <<prog, pc, mie, trail>> /\ frame' = Tail(frame) /\ ctx' = [ctx EXCEPT !.mepc = ctx_advance_mepc(@)]
  BY <1>1 DEF advance_mepc, Advance
<1>4. ctx.mepc = pc /\ trail = Before(pc) \cup {pc} /\ Code[pc].op \in {"ecall", "illegal"} /\ A0Right(ctx.a0, Before(pc))
      /\ (Code[pc].op = "ecall" => ctx.a7 = "getpid" /\ ctx.a0 = 1)
  BY <1>2 DEF Trapped
<1>5. /\ ctx'.a0 = ctx.a0 /\ ctx'.a7 = ctx.a7 /\ ctx'.mepc = pc + Code[pc].width
      /\ ctx' \in [mepc : {ctx'.mepc}, mpie : {ctx'.mpie}, a0 : {ctx'.a0}, t0 : {ctx'.t0}, a7 : {ctx'.a7}]
  BY <1>3, <1>4 DEF ResInv, ctx_advance_mepc, Code
<1>6. PICK f, g : f = frame /\ g = Tail(frame)
  OBVIOUS
<1>7. IsSeq(g) /\ Len(g) = 1 /\ g[1] = frame[2]
  <2>1. IsSeq(g) /\ Len(f) = 2 /\ Len(g) = 2 - 1 /\ \A k \in 1 .. 2 - 1 : g[k] = f[k + 1]
    BY <1>1, <1>2, <1>6, HandlerShrinks
  <2>2. 1 \in 1 .. 2 - 1 /\ 1 + 1 = 2 /\ 2 - 1 = 1
    OBVIOUS
  <2>3. g[1] = f[2]
    BY <2>1, <2>2
  <2> QED BY <1>6, <2>1, <2>2, <2>3
<1>8. frame[2].op = "mret"
  BY <1>1, <1>2 DEF ResInv, InHandler
<1>9. /\ Code'[pc'].op = Code[pc].op /\ Code'[pc'].width = Code[pc].width /\ trail' = Before(pc)' \cup {pc'}
      /\ A0Right(ctx.a0, Before(pc))'
  BY <1>3, <1>4, <1>5 DEF Code, Before, A0Right, Starts, Clobbered
<1>10. frame' = g /\ Len(frame') = 1
  BY <1>3, <1>6, <1>7
<1>11. Trapped'
  <2>1. ~(Len(frame') >= 2) /\ Len(frame') # 3 /\ Len(frame') <= 3
    BY <1>10
  <2>2. \A k \in 1 .. Len(frame') - 2 : frame'[k].op \in {"thre", "thr"}
    <3>1. Len(frame') - 2 = -1 /\ 1 .. -1 = {}
      BY <1>10
    <3> QED BY <3>1
  <2>3. Code'[pc'].op \in {"ecall", "illegal"} /\ (Code'[pc'].op = "ecall" => ctx'.a7 = "getpid" /\ ctx'.a0 = 1)
    BY <1>4, <1>5, <1>9
  <2>4. ctx'.mepc = pc' + Code'[pc'].width
    BY <1>3, <1>5, <1>9
  <2> QED BY <1>9, <2>1, <2>2, <2>3, <2>4 DEF Trapped
<1>12. 1 \in Nat /\ 1 = Len(g) /\ 1 >= 1 /\ g[1].op = "mret" /\ UNCHANGED <<prog, pc, mie>>
  BY <1>3, <1>7, <1>8
<1> QED BY <1>5, <1>7, <1>10, <1>11, <1>12, InsideHolds

\* What is installed for an interrupt.
AllCb(s) == IsSeq(s) /\ Len(s) \in Nat /\ \A k \in 1 .. Len(s) : s[k].op \in CbOps

\* Callbacks joined.
LEMMA CbJoin ==
  ASSUME NEW x, NEW y, AllCb(x), AllCb(y)
  PROVE  AllCb(x \o y)
<1> DEFINE z == x \o y
<1>1. Joined(z, x, y)
  BY Joining DEF AllCb
<1> HIDE DEF z
<1>2. /\ IsSeq(z) /\ Len(x) \in Nat /\ Len(y) \in Nat /\ Len(z) = Len(x) + Len(y)
      /\ \A i \in 1 .. Len(x) : z[i] = x[i]
      /\ \A i \in 1 .. Len(y) : z[Len(x) + i] = y[i]
  BY <1>1 DEF Joined
<1>3. ASSUME NEW k \in 1 .. Len(z) PROVE z[k].op \in CbOps
  <2>1. CASE k <= Len(x)
    <3>1. k \in 1 .. Len(x)
      BY <1>2, <2>1
    <3> QED BY <1>2, <3>1 DEF AllCb
  <2>2. CASE ~(k <= Len(x))
    <3>1. PICK j \in 1 .. Len(y) : k = Len(x) + j
      <4>1. k - Len(x) \in 1 .. Len(y) /\ k = Len(x) + (k - Len(x))
        BY <1>2, <2>2
      <4> QED BY <4>1
    <3> QED BY <1>2, <3>1 DEF AllCb
  <2> QED BY <2>1, <2>2
<1>4. AllCb(z)
  BY <1>2, <1>3 DEF AllCb
<1> QED BY <1>4 DEF z

\* A callback of one instruction.
LEMMA CbOne ==
  ASSUME NEW op \in CbOps, NEW arg
  PROVE  AllCb(<<Op(op, arg)>>)
<1>1. PICK x : x = Op(op, arg)
  OBVIOUS
<1>2. x.op \in CbOps
  BY <1>1 DEF Op
<1>3. AllCb(<<x>>)
  BY <1>2, OneElement DEF AllCb
<1> QED BY <1>1, <1>3

\* A callback that begins with two.
LEMMA CbTwo ==
  ASSUME NEW op \in CbOps, NEW arg, NEW op2 \in CbOps, NEW arg2
  PROVE  AllCb(<<Op(op, arg), Op(op2, arg2)>>)
<1>1. PICK x, y : x = Op(op, arg) /\ y = Op(op2, arg2)
  OBVIOUS
<1>2. x.op \in CbOps /\ y.op \in CbOps
  BY <1>1 DEF Op
<1>3. AllCb(<<x, y>>)
  BY <1>2, TwoElements DEF AllCb
<1> QED BY <1>1, <1>3

\* Whatever is installed, a callback neither returns nor touches mepc.
LEMMA CallbackCb ==
  ASSUME NEW name
  PROVE  AllCb(Callback(name))
<1>1. \A text : AllCb(puts(text))
  BY PutsText DEF AllCb, CbOps
<1>2. AllCb(default_cb)
  BY <1>1 DEF default_cb
<1>3. AllCb(on_timer)
  <2>1. AllCb(<<Op("set_mtimecmp", Never), Op("hit", "timer")>>)
    BY CbTwo DEF CbOps
  <2> QED BY <1>1, <2>1, CbJoin DEF on_timer
<1>4. AllCb(on_ipi)
  <2>1. AllCb(<<Op("hit", "sw")>>)
    BY CbOne DEF CbOps
  <2> QED BY <1>1, <2>1, CbJoin DEF on_ipi
<1>5. AllCb(default_slave_isr)
  <2>1. AllCb(<<Op("ack", ""), Op("hit", "ext")>>)
    BY CbTwo DEF CbOps
  <2> QED BY <1>1, <2>1, CbJoin DEF default_slave_isr
<1>6. Callback(name) \in {on_timer, on_ipi, default_slave_isr, default_cb}
  BY DEF Callback
<1> QED BY <1>2, <1>3, <1>4, <1>5, <1>6

\* The frame of an interrupt: callbacks, then the return.
IntrFrame(z) ==
  /\ IsSeq(z) /\ Len(z) \in Nat /\ Len(z) >= 1 /\ z[Len(z)].op = "mret"
  /\ \A k \in 1 .. Len(z) - 1 : z[k].op \in CbOps

\* A callback put in front of the frame.
LEMMA CbThenFrame ==
  ASSUME NEW x, NEW y, AllCb(x), IntrFrame(y)
  PROVE  IntrFrame(x \o y)
<1> DEFINE z == x \o y
<1>1. Joined(z, x, y)
  BY Joining DEF AllCb, IntrFrame
<1> HIDE DEF z
<1>2. PICK M \in Nat, N \in Nat : M = Len(x) /\ N = Len(y)
  BY DEF AllCb, IntrFrame
<1>3. /\ IsSeq(z) /\ Len(z) = M + N /\ N >= 1 /\ y[N].op = "mret"
      /\ \A i \in 1 .. M : z[i] = x[i]
      /\ \A i \in 1 .. N : z[M + i] = y[i]
      /\ \A i \in 1 .. M : x[i].op \in CbOps
      /\ \A i \in 1 .. N - 1 : y[i].op \in CbOps
  BY <1>1, <1>2 DEF Joined, AllCb, IntrFrame
<1>4. ASSUME NEW k \in 1 .. (M + N) - 1 PROVE z[k].op \in CbOps
  <2>1. CASE k <= M
    <3>1. k \in 1 .. M
      BY <2>1
    <3> QED BY <1>3, <3>1
  <2>2. CASE ~(k <= M)
    <3>1. PICK j \in 1 .. N - 1 : k = M + j
      <4>1. k - M \in 1 .. N - 1 /\ k = M + (k - M)
        BY <2>2
      <4> QED BY <4>1
    <3>2. j \in 1 .. N
      OBVIOUS
    <3>3. z[k] = y[j] /\ y[j].op \in CbOps
      BY <1>3, <3>1, <3>2
    <3> QED BY <3>3
  <2> QED BY <2>1, <2>2
<1>5. z[M + N].op = "mret" /\ M + N \in Nat /\ M + N >= 1
  <2>1. N \in 1 .. N
    BY <1>3
  <2> QED BY <1>3, <2>1
<1>6. IntrFrame(z)
  BY <1>3, <1>4, <1>5 DEF IntrFrame
<1> QED BY <1>6 DEF z

\* The frame in which only the return is left.
LEMMA ReturnFrame ==
  IntrFrame(<<Op("mret", "")>>)
<1>1. PICK x : x = Op("mret", "")
  OBVIOUS
<1>2. x.op = "mret"
  BY <1>1 DEF Op
<1>3. IntrFrame(<<x>>)
  <2>1. IsSeq(<<x>>) /\ Len(<<x>>) = 1 /\ <<x>>[1] = x
    BY OneElement
  <2> QED BY <1>2, <2>1 DEF IntrFrame
<1> QED BY <1>1, <1>3

\* What a step in the handler of an interrupt has to show.
LEMMA InterruptedHolds ==
  ASSUME ResInv, UNCHANGED <<prog, pc, mie, trail>>,
         ctx' \in [mepc : {ctx'.mepc}, mpie : {ctx'.mpie}, a0 : {ctx'.a0}, t0 : {ctx'.t0}, a7 : {ctx'.a7}],
         NEW g, frame' = g, IntrFrame(g), ctx'.mepc = pc, NEW x, ctx'.a0 = x, trail = Before(pc), A0Right(x, trail)
  PROVE  ResInv'
<1>1. PICK L \in Nat : L = Len(g)
  BY DEF IntrFrame
<1>2. IsSeq(g) /\ L >= 1 /\ g[L].op = "mret" /\ \A k \in 1 .. L - 1 : g[k].op \in CbOps
  BY <1>1 DEF IntrFrame
<1>3. trail' = Before(pc)' /\ ctx'.mepc = pc' /\ A0Right(ctx.a0, trail)'
  BY DEF Code, Before, A0Right, Starts, Clobbered
<1>4. Interrupted'
  BY <1>1, <1>2, <1>3 DEF Interrupted
<1> QED BY <1>1, <1>2, <1>4, InsideHolds

\* The claim of an external interrupt puts the callback in front.
LEMMA ClaimKeeps ==
  ASSUME ResInv, claim
  PROVE  ResInv'
<1>1. frame # <<>>
  <2>1. CASE frame = <<>>
    <3>1. Code[pc].op = "claim" /\ pc \in Starts(Code) /\ prog \in DOMAIN Text
      BY <2>1 DEF claim, Executes, Now, Code, ResInv
    <3>2. Instr(Code[pc])
      BY <3>1, NextInstr
    <3> QED BY <3>1, <3>2 DEF Instr, ProgOps
  <2> QED BY <2>1
<1>2. Interrupted /\ Len(frame) >= 2
  BY <1>1, HandlerOps DEF claim, Executes
<1>3. PICK f, g : f = frame /\ g = Tail(frame)
  OBVIOUS
<1>4. PICK L \in Nat : L = Len(f)
  BY <1>1, <1>3, HandlerShrinks
<1>5. /\ L >= 2 /\ IsSeq(g) /\ Len(g) = L - 1 /\ f[L].op = "mret"
      /\ \A k \in 1 .. L - 1 : g[k] = f[k + 1]
  BY <1>1, <1>2, <1>3, <1>4, HandlerShrinks DEF ResInv, InHandler
<1>6. \A k \in 1 .. L - 1 : f[k].op \in CbOps
  BY <1>2, <1>3, <1>4 DEF Interrupted
<1>7. IntrFrame(g)
  <2>1. ASSUME NEW k \in 1 .. L - 2 PROVE g[k].op \in CbOps
    <3>1. k \in 1 .. L - 1 /\ k + 1 \in 1 .. L - 1
      OBVIOUS
    <3> QED BY <1>5, <1>6, <3>1
  <2>2. g[L - 1].op = "mret"
    <3>1. L - 1 \in 1 .. L - 1 /\ (L - 1) + 1 = L
      BY <1>5
    <3> QED BY <1>5, <3>1
  <2>3. L - 1 \in Nat /\ L - 1 >= 1 /\ (L - 1) - 1 = L - 2
    BY <1>5
  <2> QED BY <1>5, <2>1, <2>2, <2>3 DEF IntrFrame
<1>8. PICK h, c : h = Callback(cb.ext) /\ c = <<Op("complete", "")>>
  OBVIOUS
<1>9. AllCb(h) /\ AllCb(c)
  <2>1. "complete" \in CbOps
    BY DEF CbOps
  <2> QED BY <1>8, <2>1, CallbackCb, CbOne
<1>10. IntrFrame(h \o c \o g)
  BY <1>7, <1>9, CbJoin, CbThenFrame
<1>11. PICK z : z = (IF plic.ip THEN h \o c \o g ELSE g)
  OBVIOUS
<1>12. frame' = z /\ IntrFrame(z)
  BY <1>3, <1>7, <1>8, <1>10, <1>11 DEF claim
<1>13. UNCHANGED <<prog, pc, mie, trail, ctx>>
  BY DEF claim, hartVars
<1>14. ctx' \in [mepc : {ctx'.mepc}, mpie : {ctx'.mpie}, a0 : {ctx'.a0}, t0 : {ctx'.t0}, a7 : {ctx'.a7}]
  BY <1>13 DEF ResInv
<1>15. PICK x : x = ctx.a0
  OBVIOUS
<1>16. ctx'.mepc = pc /\ ctx'.a0 = x /\ trail = Before(pc) /\ A0Right(x, trail)
  BY <1>2, <1>13, <1>15 DEF Interrupted
<1> QED BY <1>12, <1>13, <1>14, <1>16, InterruptedHolds

\* The entry of an interrupt.
LEMMA InterruptKeeps ==
  ASSUME ResInv, take_interrupt
  PROVE  ResInv'
<1>1. PICK cause \in mie : SAVE_CTX(cause, "none")
  BY DEF take_interrupt
<1>2. cause \in Causes /\ frame = <<>> /\ UNCHANGED <<prog, pc, mie, trail>>
  BY DEF ResInv, take_interrupt, Interruptible
<1>3. PICK h : h = Vector(cause)
  OBVIOUS
<1>4. AllCb(h)
  <2>1. CASE cause = "sw"
    <3>1. "clear_ipi" \in CbOps
      BY DEF CbOps
    <3>2. AllCb(handle_m_sw_irq)
      BY <3>1, CbOne, CbJoin, CallbackCb DEF handle_m_sw_irq
    <3> QED BY <1>3, <2>1, <3>2 DEF Vector
  <2>2. CASE cause = "timer"
    <3>1. AllCb(handle_m_timer_irq)
      BY CallbackCb DEF handle_m_timer_irq
    <3> QED BY <1>3, <2>2, <3>1 DEF Vector
  <2>3. CASE cause = "ext"
    <3>1. "claim" \in CbOps
      BY DEF CbOps
    <3>2. AllCb(handle_m_ext)
      BY <3>1, CbOne DEF handle_m_ext
    <3> QED BY <1>3, <2>3, <3>2 DEF Vector
  <2> QED BY <1>2, <2>1, <2>2, <2>3 DEF Causes
<1>5. PICK g : g = h \o <<Op("mret", "")>>
  OBVIOUS
<1>6. frame' = g /\ IntrFrame(g)
  BY <1>1, <1>3, <1>4, <1>5, ReturnFrame, CbThenFrame DEF SAVE_CTX
<1>7. ctx' = [mepc |-> pc, mpie |-> gie, a0 |-> a0, t0 |-> Spilled(t0), a7 |-> "none"]
  BY <1>1 DEF SAVE_CTX
<1>8. ctx' \in [mepc : {ctx'.mepc}, mpie : {ctx'.mpie}, a0 : {ctx'.a0}, t0 : {ctx'.t0}, a7 : {ctx'.a7}]
  BY <1>7
<1>9. PICK x : x = a0
  OBVIOUS
<1>10. ctx'.mepc = pc /\ ctx'.a0 = x /\ trail = Before(pc) /\ A0Right(x, trail)
  BY <1>2, <1>7, <1>9 DEF ResInv
<1> QED BY <1>2, <1>6, <1>8, <1>10, InterruptedHolds

\* One instruction more at the end.
Longer(z, x, w) ==
  /\ IsSeq(z) /\ Len(z) = Len(x) + 1 /\ z[Len(x) + 1] = w
  /\ \A i \in 1 .. Len(x) : z[i] = x[i]

\* Appending an instruction.
LEMMA OneMore ==
  ASSUME NEW x, IsSeq(x), NEW w
  PROVE  Longer(x \o <<w>>, x, w)
<1>1. PICK y, z : y = <<w>> /\ z = x \o y
  OBVIOUS
<1>2. IsSeq(y) /\ Len(y) = 1 /\ y[1] = w
  BY <1>1, OneElement
<1>3. Joined(z, x, y)
  BY <1>1, <1>2, Joining
<1>4. Longer(z, x, w)
  <2>1. 1 \in 1 .. 1
    OBVIOUS
  <2> QED BY <1>2, <1>3, <2>1 DEF Joined, Longer
<1> QED BY <1>1, <1>4

\* The handlers of the two exceptions.
EcallHandler(z) ==
  IsSeq(z) /\ Len(z) = 3 /\ z[1].op = "handle_syscall" /\ z[2].op = "ctx_advance_mepc" /\ z[3].op = "mret"
IllegalHandler(z) ==
  /\ IsSeq(z) /\ Len(z) = 6 /\ z[5].op = "ctx_advance_mepc" /\ z[6].op = "mret"
  /\ \A k \in 1 .. 4 : z[k].op \in {"thre", "thr"}

\* The handler of an ecall: the call, mepc, the return.
LEMMA EcallFrame ==
  EcallHandler(Vector("ecall") \o <<Op("mret", "")>>)
<1>1. PICK u, v, w : u = Op("handle_syscall", "") /\ v = Op("ctx_advance_mepc", "") /\ w = Op("mret", "")
  OBVIOUS
<1>2. u.op = "handle_syscall" /\ v.op = "ctx_advance_mepc" /\ w.op = "mret"
  BY <1>1 DEF Op
<1>3. PICK x : x = Vector("ecall")
  OBVIOUS
<1>4. x = <<u, v>>
  BY <1>1, <1>3 DEF Vector
<1>5. IsSeq(x) /\ Len(x) = 2 /\ x[1] = u /\ x[2] = v
  BY <1>4, TwoElements
<1>6. PICK z : z = Vector("ecall") \o <<Op("mret", "")>>
  OBVIOUS
<1>7. z = x \o <<w>>
  BY <1>1, <1>3, <1>6
<1>8. Longer(z, x, w)
  BY <1>5, <1>7, OneMore
<1>9. EcallHandler(z)
  <2>1. 1 \in 1 .. 2 /\ 2 \in 1 .. 2 /\ 2 + 1 = 3
    OBVIOUS
  <2> QED BY <1>2, <1>5, <1>8, <2>1 DEF Longer, EcallHandler
<1> QED BY <1>6, <1>9

\* That of an illegal instruction: the line of text, mepc, the return.
LEMMA IllegalFrame ==
  IllegalHandler(Vector("illegal") \o <<Op("mret", "")>>)
<1>1. PICK p, v, w : p = puts("illegal") /\ v = Op("ctx_advance_mepc", "") /\ w = Op("mret", "")
  OBVIOUS
<1>2. v.op = "ctx_advance_mepc" /\ w.op = "mret"
  BY <1>1 DEF Op
<1>3. PICK y, z : y = Vector("illegal") /\ z = Vector("illegal") \o <<Op("mret", "")>>
  OBVIOUS
<1>4. y = p \o <<v>>
  BY <1>1, <1>3 DEF Vector
<1>5. z = y \o <<w>>
  BY <1>1, <1>3
<1>6. IsSeq(p) /\ Len(p) = 4 /\ \A k \in 1 .. 4 : p[k].op \in {"thre", "thr"}
  BY <1>1, PutsText
<1>7. Longer(y, p, v)
  BY <1>4, <1>6, OneMore
<1>8. IsSeq(y) /\ Len(y) = 5 /\ y[5] = v /\ \A i \in 1 .. 4 : y[i] = p[i]
  <2>1. 4 + 1 = 5
    OBVIOUS
  <2> QED BY <1>6, <1>7, <2>1 DEF Longer
<1>9. Longer(z, y, w)
  BY <1>5, <1>8, OneMore
<1>10. IsSeq(z) /\ Len(z) = 6 /\ z[6] = w /\ \A i \in 1 .. 5 : z[i] = y[i]
  <2>1. 5 + 1 = 6
    OBVIOUS
  <2> QED BY <1>8, <1>9, <2>1 DEF Longer
<1>11. \A k \in 1 .. 4 : k \in 1 .. 5
  OBVIOUS
<1>12. 5 \in 1 .. 5
  OBVIOUS
<1>13. z[5] = v /\ \A k \in 1 .. 4 : z[k] = p[k]
  BY <1>8, <1>10, <1>11, <1>12
<1>14. IllegalHandler(z)
  BY <1>2, <1>6, <1>10, <1>13 DEF IllegalHandler
<1> QED BY <1>3, <1>14

\* The entry of an exception.
LEMMA ExceptionKeeps ==
  ASSUME ResInv, NEW op \in {"ecall", "illegal"}, exception(op)
  PROVE  ResInv'
<1>1. /\ frame = <<>> /\ Now = Code[pc] /\ Code[pc].op = op /\ UNCHANGED <<prog, pc, mie>> /\ trail' = trail \cup {pc}
      /\ SAVE_CTX(op, Now.arg)
  BY DEF exception, Executes, Now, Code
<1>2. pc \in Starts(Code) /\ prog \in DOMAIN Text /\ trail = Before(pc) /\ A0Right(a0, trail)
  BY <1>1 DEF ResInv
<1>3. Instr(Code[pc])
  BY <1>1, <1>2, NextInstr
<1>4. ctx' = [mepc |-> pc, mpie |-> gie, a0 |-> a0, t0 |-> Spilled(t0), a7 |-> Now.arg]
  BY <1>1 DEF SAVE_CTX
<1>5. /\ ctx'.mepc = pc /\ ctx'.a0 = a0 /\ (op = "ecall" => ctx'.a7 = "getpid")
      /\ ctx' \in [mepc : {ctx'.mepc}, mpie : {ctx'.mpie}, a0 : {ctx'.a0}, t0 : {ctx'.t0}, a7 : {ctx'.a7}]
  BY <1>1, <1>3, <1>4 DEF Instr
<1>6. PICK g : g = Vector(op) \o <<Op("mret", "")>>
  OBVIOUS
<1>7. frame' = g
  BY <1>1, <1>6 DEF SAVE_CTX
<1>8. Code'[pc'].op = op /\ trail' = Before(pc)' \cup {pc'} /\ A0Right(ctx.a0, Before(pc))' /\ ctx'.mepc = pc'
  BY <1>1, <1>2, <1>5 DEF Code, Before, A0Right, Starts, Clobbered
<1>9. CASE op = "ecall"
  <2>1. IsSeq(g) /\ Len(g) = 3 /\ g[1].op = "handle_syscall" /\ g[2].op = "ctx_advance_mepc" /\ g[3].op = "mret"
    BY <1>6, <1>9, EcallFrame DEF EcallHandler
  <2>2. Len(frame') = 3 /\ Len(frame') # 1 /\ Len(frame') <= 3 /\ Len(frame') - 1 = 2 /\ frame'[1].op = "handle_syscall"
    BY <1>7, <2>1
  <2>3. frame'[Len(frame') - 1].op = "ctx_advance_mepc"
    BY <1>7, <2>1, <2>2
  <2>4. Code'[pc'].op = "ecall" /\ Code'[pc'].op # "illegal"
    BY <1>8, <1>9
  <2>5. Trapped'
    BY <1>5, <1>8, <1>9, <2>2, <2>3, <2>4 DEF Trapped
  <2>6. 3 \in Nat /\ 3 = Len(g) /\ 3 >= 1
    BY <2>1
  <2> QED BY <1>1, <1>5, <1>7, <2>1, <2>5, <2>6, InsideHolds
<1>10. CASE op = "illegal"
  <2>1. /\ IsSeq(g) /\ Len(g) = 6 /\ g[5].op = "ctx_advance_mepc" /\ g[6].op = "mret"
        /\ \A k \in 1 .. 4 : g[k].op \in {"thre", "thr"}
    BY <1>6, <1>10, IllegalFrame DEF IllegalHandler
  <2>2. Len(frame') # 1 /\ Len(frame') - 1 = 5 /\ Len(frame') - 2 = 4
    BY <1>7, <2>1
  <2>3. frame'[Len(frame') - 1].op = "ctx_advance_mepc" /\ \A k \in 1 .. Len(frame') - 2 : frame'[k].op \in {"thre", "thr"}
    BY <1>7, <2>1, <2>2
  <2>4. Code'[pc'].op = "illegal" /\ Code'[pc'].op # "ecall"
    BY <1>8, <1>10
  <2>5. Trapped'
    BY <1>8, <2>2, <2>3, <2>4 DEF Trapped
  <2>6. 6 \in Nat /\ 6 = Len(g) /\ 6 >= 1
    BY <2>1
  <2> QED BY <1>1, <1>5, <1>7, <2>1, <2>5, <2>6, InsideHolds
<1> QED BY <1>9, <1>10

\* Every other instruction.
LEMMA PlainKeeps ==
  ASSUME ResInv, Advance, Now.op \notin Special, UNCHANGED <<prog, a0, ctx>>, mie' \subseteq Causes
  PROVE  ResInv'
BY StepInProgram, StepInHandler

\* Enabling interrupts.
LEMMA EnableKeeps ==
  ASSUME ResInv, csrs_mie
  PROVE  ResInv'
<1>1. Now.op = "csrs_mie" /\ Advance /\ UNCHANGED <<prog, a0, ctx>> /\ mie' = mie \cup Now.arg
  BY DEF csrs_mie, Executes
<1>2. frame = <<>>
  BY <1>1, HandlerOps DEF CbOps
<1>3. Now = Code[pc] /\ pc \in Starts(Code) /\ prog \in DOMAIN Text /\ mie \subseteq Causes
  BY <1>2 DEF Now, Code, ResInv
<1>4. Instr(Code[pc])
  BY <1>1, <1>3, NextInstr
<1>5. mie' \subseteq Causes
  BY <1>1, <1>3, <1>4 DEF Instr
<1> QED BY <1>1, <1>5, PlainKeeps DEF Special

\* Every instruction keeps the invariant.
LEMMA RunKeeps ==
  ASSUME ResInv, run
  PROVE  ResInv'
<1> DEFINE Plain == Advance /\ Now.op \notin Special /\ UNCHANGED <<prog, a0, ctx, mie>>
<1>0. ASSUME Plain PROVE ResInv'
  BY <1>0, PlainKeeps DEF ResInv
<1>1. CASE pre_main \/ thre \/ write_thr \/ csrs_mstatus \/ wait \/ hit
  BY <1>0, <1>1 DEF pre_main, thre, write_thr, csrs_mstatus, wait, hit, Executes, Special, hartVars
<1>2. CASE register_cb("register_timer_cb", "timer") \/ register_cb("register_ipi_cb", "sw") \/ register_cb("register_handler", "ext")
  BY <1>0, <1>2 DEF register_cb, Executes, Special, hartVars
<1>3. CASE schedule_after \/ set_mtimecmp \/ send_ipi \/ clear_ipi \/ doorbell \/ ack \/ start_delay \/ delayed
  BY <1>0, <1>3 DEF schedule_after, set_mtimecmp, send_ipi, clear_ipi, doorbell, ack, start_delay, delayed, Executes, Special, hartVars
<1>4. CASE set_plic("set_priority", "prio", Now.arg) \/ set_plic("set_threshold", "threshold", Now.arg)
           \/ set_plic("enable", "enable", TRUE) \/ set_plic("complete", "ia", FALSE)
  BY <1>0, <1>4 DEF set_plic, Executes, Special, hartVars
<1>5. CASE exit
  BY <1>5, OtherKeeps DEF exit, hartVars
<1>6. CASE exception("ecall") \/ exception("illegal")
  BY <1>6, ExceptionKeeps
<1>7. CASE csrs_mie \/ li \/ claim \/ syscall \/ advance_mepc \/ mret
  BY <1>7, EnableKeeps, LiKeeps, ClaimKeeps, SyscallKeeps, AdvanceKeeps, MretKeeps
<1> QED BY <1>1, <1>2, <1>3, <1>4, <1>5, <1>6, <1>7 DEF run

\* And so does every step of the hart and of the hardware.
LEMMA ResKept ==
  ResInv /\ [BspNext]_bspVars => ResInv'
<1> SUFFICES ASSUME ResInv, [BspNext]_bspVars PROVE ResInv'
  OBVIOUS
<1>1. CASE run
  BY <1>1, RunKeeps
<1>2. CASE take_interrupt
  BY <1>2, InterruptKeeps
<1>3. CASE gateway \/ tick
  BY <1>3, OtherKeeps DEF gateway, tick, hartVars
<1>4. CASE UNCHANGED bspVars
  BY <1>4, OtherKeeps DEF bspVars, hartVars
<1> QED BY <1>1, <1>2, <1>3, <1>4 DEF BspNext

\* Outside of a handler the invariant is the property.
LEMMA ResGives ==
  ResInv => ResumeExact
<1> SUFFICES ASSUME ResInv, frame = <<>> PROVE ResumeExact
  BY DEF ResumeExact
<1>1. trail = Before(pc) /\ pc \in Starts(Code) /\ A0Right(a0, trail) /\ prog \in DOMAIN Text
  BY DEF ResInv
<1>2. Code[pc].op # "half" /\ pc \in Nat
  <2>1. Running(Code)
    BY <1>1, ProgramsRun DEF Code
  <2> QED BY <1>1, <2>1 DEF Starts, Running
<1>3. pc \notin trail
  BY <1>1, <1>2 DEF Before
<1>4. trail \ {pc} = trail
  BY <1>3
<1>5. trail \ {pc} = {i \in Starts(Text[prog]) : i < pc}
  BY <1>1, <1>4 DEF Before, Code
<1>6. a0 # Clobbered
  BY <1>1 DEF A0Right
<1>7. \A i \in trail \ {pc} :
        Text[prog][i].op = "ecall" /\ (\A j \in trail : Text[prog][j].op # "li") => a0 = 1
  BY <1>1, <1>4 DEF A0Right, Code
<1> QED BY <1>2, <1>5, <1>6, <1>7 DEF ResumeExact, Code

\* After a trap or an interrupt, wherever in the program it comes and whichever
\* callback runs, the program goes on with the instruction that is due and
\* with its own a0, but for the answer of an ecall (handlers.S, syscalls.c).
THEOREM ResumeExactHolds ==
  BspSpec => []ResumeExact
BY ResStarts, ResKept, ResGives, PTL DEF BspSpec

----------------------------------------------------------------------------
\* The instructions that ask for an interrupt, and the cause they ask for.
AskOp == [sw |-> "send_ipi", ext |-> "doorbell"]
AskOps == {"send_ipi", "doorbell"}
Asked == {"sw", "ext"}

NoAsk(s) == IsSeq(s) /\ \A i \in 1 .. Len(s) : s[i].op \notin AskOps

\* One interrupt is asked for, and waited for after it.
Answered(s, c) ==
  \E a \in 1 .. Len(s), w \in 1 .. Len(s) :
    /\ a < w /\ s[a].op = AskOp[c] /\ s[w].op = "wait" /\ s[w].arg = c
    /\ \A i \in 1 .. Len(s) : s[i].op \in AskOps => i = a

Closed(s) == NoAsk(s) \/ (IsSeq(s) /\ \E c \in Asked : Answered(s, c))

\* Text that asks for nothing, joined.
LEMMA NoAskJoin ==
  ASSUME NEW x, NEW y, NoAsk(x), NoAsk(y)
  PROVE  NoAsk(x \o y)
<1>1. PICK z : z = x \o y
  OBVIOUS
<1>2. Joined(z, x, y)
  BY <1>1, Joining DEF NoAsk
<1>3. PICK M \in Nat, N \in Nat : M = Len(x) /\ N = Len(y)
  BY <1>2 DEF Joined
<1>4. /\ IsSeq(z) /\ Len(z) = M + N
      /\ \A i \in 1 .. M : z[i] = x[i]
      /\ \A i \in 1 .. N : z[M + i] = y[i]
  BY <1>2, <1>3 DEF Joined
<1>5. ASSUME NEW k \in 1 .. M + N PROVE z[k].op \notin AskOps
  <2>1. CASE k <= M
    <3>1. k \in 1 .. M
      BY <2>1
    <3> QED BY <1>3, <1>4, <3>1 DEF NoAsk
  <2>2. CASE ~(k <= M)
    <3>1. PICK j \in 1 .. N : k = M + j
      <4>1. k - M \in 1 .. N /\ k = M + (k - M)
        BY <2>2
      <4> QED BY <4>1
    <3> QED BY <1>3, <1>4, <3>1 DEF NoAsk
  <2> QED BY <2>1, <2>2
<1>6. NoAsk(z)
  BY <1>4, <1>5 DEF NoAsk
<1> QED BY <1>1, <1>6

\* Text that asks for nothing, before and after.
LEMMA ClosedJoin ==
  ASSUME NEW x, NEW y, (NoAsk(x) /\ Closed(y)) \/ (Closed(x) /\ NoAsk(y))
  PROVE  Closed(x \o y)
<1>0. CASE NoAsk(x) /\ NoAsk(y)
  BY <1>0, NoAskJoin DEF Closed
<1>1. PICK z : z = x \o y
  OBVIOUS
<1>2. Joined(z, x, y)
  BY <1>1, Joining DEF NoAsk, Closed
<1>3. PICK M \in Nat, N \in Nat : M = Len(x) /\ N = Len(y)
  BY <1>2 DEF Joined
<1>4. /\ IsSeq(z) /\ Len(z) = M + N
      /\ \A i \in 1 .. M : z[i] = x[i]
      /\ \A i \in 1 .. N : z[M + i] = y[i]
  BY <1>2, <1>3 DEF Joined
<1>5. ASSUME NEW k \in 1 .. M + N PROVE k \in 1 .. M \/ \E j \in 1 .. N : k = M + j
  <2>1. k \in 1 .. M \/ (k - M \in 1 .. N /\ k = M + (k - M))
    OBVIOUS
  <2> QED BY <2>1
<1>6. ASSUME NoAsk(x), NEW c \in Asked, Answered(y, c) PROVE Answered(z, c)
  <2>1. PICK a \in 1 .. N, w \in 1 .. N :
          /\ a < w /\ y[a].op = AskOp[c] /\ y[w].op = "wait" /\ y[w].arg = c
          /\ \A i \in 1 .. N : y[i].op \in AskOps => i = a
    BY <1>3, <1>6 DEF Answered
  <2>2. PICK b \in 1 .. M + N, v \in 1 .. M + N : b = M + a /\ v = M + w /\ b < v
    BY <2>1
  <2>3. z[b] = y[a] /\ z[v] = y[w]
    BY <1>4, <2>2
  <2>4. ASSUME NEW k \in 1 .. M + N, z[k].op \in AskOps PROVE k = b
    <3>1. CASE k \in 1 .. M
      BY <1>3, <1>4, <1>6, <2>4, <3>1 DEF NoAsk
    <3>2. CASE \E j \in 1 .. N : k = M + j
      BY <1>4, <2>1, <2>2, <2>4, <3>2
    <3> QED BY <1>5, <3>1, <3>2
  <2> QED BY <1>4, <2>1, <2>2, <2>3, <2>4 DEF Answered
<1>7. ASSUME NoAsk(y), NEW c \in Asked, Answered(x, c) PROVE Answered(z, c)
  <2>1. PICK a \in 1 .. M, w \in 1 .. M :
          /\ a < w /\ x[a].op = AskOp[c] /\ x[w].op = "wait" /\ x[w].arg = c
          /\ \A i \in 1 .. M : x[i].op \in AskOps => i = a
    BY <1>3, <1>7 DEF Answered
  <2>2. a \in 1 .. M + N /\ w \in 1 .. M + N /\ z[a] = x[a] /\ z[w] = x[w]
    BY <1>4
  <2>3. ASSUME NEW k \in 1 .. M + N, z[k].op \in AskOps PROVE k = a
    <3>1. CASE k \in 1 .. M
      BY <1>4, <2>1, <2>3, <3>1
    <3>2. CASE \E j \in 1 .. N : k = M + j
      BY <1>3, <1>4, <1>7, <2>3, <3>2 DEF NoAsk
    <3> QED BY <1>5, <3>1, <3>2
  <2> QED BY <1>4, <2>1, <2>2, <2>3 DEF Answered
<1>8. Closed(z)
  BY <1>1, <1>0, <1>4, <1>6, <1>7 DEF Closed
<1> QED BY <1>1, <1>8

\* An instruction of four bytes, and of two.
LEMMA WideIs ==
  ASSUME NEW op, NEW arg
  PROVE  /\ IsSeq(I(op, arg)) /\ Len(I(op, arg)) = 2
         /\ I(op, arg)[1].op = op /\ I(op, arg)[1].arg = arg /\ I(op, arg)[2].op = "half"
<1>1. PICK u, v : u = Op(op, arg) /\ v = Half
  OBVIOUS
<1>2. u.op = op /\ u.arg = arg /\ v.op = "half"
  BY <1>1 DEF Op, Half
<1>3. I(op, arg) = <<u, v>>
  BY <1>1 DEF I
<1> QED BY <1>2, <1>3, TwoElements

\* It asks for nothing unless it is one of the two requests.
LEMMA NoAskOne ==
  ASSUME NEW op, op \notin AskOps, NEW arg
  PROVE  NoAsk(I(op, arg)) /\ NoAsk(Compressed(op, arg))
<1>1. NoAsk(I(op, arg))
  <2>1. PICK s : s = I(op, arg)
    OBVIOUS
  <2>2. IsSeq(s) /\ Len(s) = 2 /\ s[1].op = op /\ s[2].op = "half"
    BY <2>1, WideIs
  <2>3. ASSUME NEW k \in 1 .. 2 PROVE k = 1 \/ k = 2
    OBVIOUS
  <2>4. NoAsk(s)
    BY <2>2, <2>3 DEF NoAsk, AskOps
  <2> QED BY <2>1, <2>4
<1>2. NoAsk(Compressed(op, arg))
  <2>1. PICK x : x = [Op(op, arg) EXCEPT !.width = 1]
    OBVIOUS
  <2>2. x.op = op
    BY <2>1 DEF Op
  <2>3. PICK s : s = <<x>>
    OBVIOUS
  <2>4. IsSeq(s) /\ Len(s) = 1 /\ s[1] = x
    BY <2>3, OneElement
  <2>5. NoAsk(s)
    BY <2>2, <2>4 DEF NoAsk
  <2> QED BY <2>1, <2>3, <2>5 DEF Compressed
<1> QED BY <1>1, <1>2

\* A line of text asks for nothing.
LEMMA NoAskPrintf ==
  ASSUME NEW text
  PROVE  NoAsk(printf(text))
<1>0. Len(puts(text)) = 4
  BY PutsText
<1>1. printf(text) = [i \in 1 .. 8 |-> IF i % 2 = 1 THEN puts(text)[(i + 1) \div 2] ELSE Half]
  BY <1>0 DEF printf, Wide
<1>3. PICK ops, s : ops = puts(text) /\ s = printf(text)
  OBVIOUS
<1>2. \A k \in 1 .. 4 : ops[k].op \in {"thre", "thr"}
  BY <1>3, PutsText
<1>4. s = [i \in 1 .. 8 |-> IF i % 2 = 1 THEN ops[(i + 1) \div 2] ELSE Half]
  BY <1>1, <1>3, Zenon
<1>5. IsSeq(s) /\ DOMAIN s = 1 .. Len(s) /\ Len(s) \in Nat
  BY <1>3, PrintfPiece DEF Piece
<1>6. ASSUME NEW i \in 1 .. 8 PROVE s[i].op \in {"thre", "thr", "half"}
  <2>1. i % 2 = 1 => (i + 1) \div 2 \in 1 .. 4
    OBVIOUS
  <2> QED BY <1>2, <1>4, <2>1 DEF Half
<1>7. \A i \in 1 .. Len(s) : i \in 1 .. 8
  <2>1. DOMAIN s = 1 .. 8
    BY <1>4
  <2> QED BY <1>5, <2>1
<1>8. NoAsk(s)
  BY <1>5, <1>6, <1>7 DEF NoAsk, AskOps
<1> QED BY <1>3, <1>8

\* An interrupt that is asked for and waited for.
LEMMA AskAndWait ==
  ASSUME NEW x, NoAsk(x), NEW c \in Asked
  PROVE  Closed(x \o I(AskOp[c], "") \o I("wait", c))
<1>0. PICK p, q : p = I(AskOp[c], "") /\ q = I("wait", c)
  OBVIOUS
<1>1. PICK y, z : y = x \o p /\ z = y \o q
  OBVIOUS
<1>2. /\ IsSeq(p) /\ Len(p) = 2 /\ p[1].op = AskOp[c] /\ p[2].op = "half"
      /\ IsSeq(q) /\ Len(q) = 2 /\ q[1].op = "wait" /\ q[1].arg = c /\ q[2].op = "half"
  <2>1. PICK op, arg, op2 : op = AskOp[c] /\ arg = "" /\ op2 = "wait"
    OBVIOUS
  <2>2. p = I(op, arg) /\ q = I(op2, c)
    BY <1>0, <2>1
  <2>3. IsSeq(p) /\ Len(p) = 2 /\ p[1].op = op /\ p[2].op = "half"
    BY <2>2, WideIs
  <2>4. IsSeq(q) /\ Len(q) = 2 /\ q[1].op = op2 /\ q[1].arg = c /\ q[2].op = "half"
    BY <2>2, WideIs
  <2> QED BY <2>1, <2>3, <2>4
<1>3. Joined(y, x, p)
  BY <1>1, <1>2, Joining DEF NoAsk
<1>4. PICK M \in Nat : M = Len(x)
  BY <1>3 DEF Joined
<1>5. IsSeq(y) /\ Len(y) = M + 2 /\ (\A i \in 1 .. M : y[i] = x[i]) /\ \A i \in 1 .. 2 : y[M + i] = p[i]
  BY <1>2, <1>3, <1>4 DEF Joined
<1>6. Joined(z, y, q)
  BY <1>1, <1>2, <1>5, Joining
<1>7. IsSeq(z) /\ Len(z) = M + 2 + 2 /\ (\A i \in 1 .. M + 2 : z[i] = y[i]) /\ \A i \in 1 .. 2 : z[M + 2 + i] = q[i]
  BY <1>2, <1>5, <1>6 DEF Joined
<1>8. 1 \in 1 .. 2 /\ 2 \in 1 .. 2 /\ M + 1 \in 1 .. M + 2 /\ M + 2 \in 1 .. M + 2
  OBVIOUS
<1>9. z[M + 1] = p[1] /\ z[M + 2] = p[2] /\ z[M + 2 + 1] = q[1] /\ z[M + 2 + 2] = q[2]
  BY <1>5, <1>7, <1>8
<1>10. ASSUME NEW k \in 1 .. M + 2 + 2, z[k].op \in AskOps PROVE k = M + 1
  <2>1. k \in 1 .. M \/ k = M + 1 \/ k = M + 2 \/ k = M + 2 + 1 \/ k = M + 2 + 2
    OBVIOUS
  <2>2. CASE k \in 1 .. M
    <3>1. k \in 1 .. M + 2
      BY <2>2
    <3>2. z[k] = x[k]
      BY <1>5, <1>7, <2>2, <3>1
    <3> QED BY <1>4, <1>10, <2>2, <3>2 DEF NoAsk
  <2>3. CASE k = M + 2 \/ k = M + 2 + 1 \/ k = M + 2 + 2
    BY <1>2, <1>9, <1>10, <2>3 DEF AskOps
  <2> QED BY <2>1, <2>2, <2>3
<1>11. PICK a \in 1 .. M + 2 + 2, w \in 1 .. M + 2 + 2 : a = M + 1 /\ w = M + 2 + 1 /\ a < w
  OBVIOUS
<1>12. Answered(z, c)
  BY <1>2, <1>7, <1>9, <1>10, <1>11 DEF Answered
<1>13. Closed(z)
  BY <1>7, <1>12 DEF Closed
<1> QED BY <1>0, <1>1, <1>13

\* The programs.
LEMMA ProgramsClosed ==
  \A p \in DOMAIN Text : Closed(Text[p])
<1>1. \A op, arg : op \notin AskOps => NoAsk(I(op, arg)) /\ NoAsk(Compressed(op, arg))
  BY NoAskOne
<1>2. \A x, op, arg : NoAsk(x) /\ op \notin AskOps => NoAsk(x \o I(op, arg)) /\ NoAsk(x \o Compressed(op, arg))
  BY <1>1, NoAskJoin, Zenon
<1>3. \A x, text : NoAsk(x) => NoAsk(x \o printf(text))
  BY NoAskPrintf, NoAskJoin, Zenon
<1>4. \A x, op, arg : Closed(x) /\ op \notin AskOps => Closed(x \o I(op, arg))
  BY <1>1, ClosedJoin, Zenon
<1>5. \A x, text : Closed(x) => Closed(x \o printf(text))
  BY NoAskPrintf, ClosedJoin, Zenon
<1>6. \A op \in ProgOps \ AskOps : op \notin AskOps
  OBVIOUS
<1>7. /\ "li" \notin AskOps /\ "register_timer_cb" \notin AskOps /\ "register_ipi_cb" \notin AskOps /\ "csrs_mie" \notin AskOps
      /\ "csrs_mstatus" \notin AskOps /\ "schedule_after" \notin AskOps /\ "wait" \notin AskOps /\ "register_handler" \notin AskOps
      /\ "set_priority" \notin AskOps /\ "set_threshold" \notin AskOps /\ "enable" \notin AskOps /\ "ecall" \notin AskOps
      /\ "illegal" \notin AskOps /\ "pre_main" \notin AskOps /\ "thre" \notin AskOps /\ "delay" \notin AskOps
      /\ "delayed" \notin AskOps /\ "exit" \notin AskOps
  BY DEF AskOps
<1>8. \A x : NoAsk(x) => Closed(x \o I("send_ipi", "") \o I("wait", "sw")) /\ Closed(x \o I("doorbell", "") \o I("wait", "ext"))
  BY AskAndWait DEF Asked, AskOp
<1>9. Closed(hello_world) /\ Closed(failing_test)
  <2>1. NoAsk(hello_world) /\ NoAsk(failing_test)
    BY <1>2, <1>7, NoAskPrintf, Zenon DEF hello_world, failing_test
  <2> QED BY <2>1 DEF Closed
<1>10. Closed(trap_test)
  <2>1. NoAsk(trap_test)
    BY <1>2, <1>3, <1>7, NoAskPrintf, Zenon DEF trap_test
  <2> QED BY <2>1 DEF Closed
<1>11. Closed(clint_test)
  BY <1>2, <1>3, <1>4, <1>5, <1>7, <1>8, NoAskPrintf, Zenon DEF clint_test
<1>12. Closed(default_slave)
  BY <1>2, <1>3, <1>4, <1>5, <1>7, <1>8, NoAskPrintf, Zenon DEF default_slave
<1>13. ASSUME NEW main, Closed(main) PROVE Closed(crt0(main))
  <2>1. Closed(I("pre_main", "") \o main)
    BY <1>1, <1>7, <1>13, ClosedJoin
  <2>2. NoAsk(post_main)
    BY <1>1, <1>2, <1>7, Zenon DEF post_main
  <2>3. Closed(I("pre_main", "") \o main \o post_main)
    BY <2>1, <2>2, ClosedJoin
  <2> QED BY <1>4, <1>7, <2>3, Zenon DEF crt0
<1>14. /\ Closed(crt0(hello_world)) /\ Closed(crt0(failing_test)) /\ Closed(crt0(clint_test))
       /\ Closed(crt0(default_slave)) /\ Closed(crt0(trap_test))
  BY <1>9, <1>10, <1>11, <1>12, <1>13
<1> QED BY <1>14 DEF Text

----------------------------------------------------------------------------
\* What is still in a frame.
Holds(f, op) == \E k \in 1 .. Len(f) : f[k].op = op
HitFor(f, c) == \E k \in 1 .. Len(f) : f[k].op = "hit" /\ f[k].arg = c
Once(f, op) == \A j \in 1 .. Len(f), k \in 1 .. Len(f) : f[j].op = op /\ f[k].op = op => j = k

\* A frame sets one flag, claims only at its start, and acknowledges before it
\* completes.
FrameOk(f) ==
  /\ Once(f, "hit") /\ Once(f, "complete")
  /\ \A k \in 1 .. Len(f) : f[k].op = "hit" => f[k].arg \in Causes
  /\ \A k \in 1 .. Len(f) : f[k].op = "claim" => k = 1 /\ Len(f) = 2
  /\ \A k \in 1 .. Len(f) : f[k].op = "ack" => \E j \in 1 .. Len(f) : k <= j /\ f[j].op = "complete"

\* The first instruction is taken off.
Popped(f, g) ==
  /\ FrameOk(g)
  /\ \A op : Holds(g, op) => Holds(f, op)
  /\ \A op : Holds(f, op) /\ f[1].op # op => Holds(g, op)
  /\ \A c : HitFor(g, c) => HitFor(f, c)
  /\ f[1].op = "hit" => \A c : ~HitFor(g, c)
  /\ f[1].op = "complete" => ~Holds(g, "complete")

\* What is left in a frame without its first instruction.
LEMMA Popping ==
  ASSUME NEW f, IsSeq(f), f # <<>>, FrameOk(f)
  PROVE  Popped(f, Tail(f))
<1>1. PICK g : g = Tail(f)
  OBVIOUS
<1>2. PICK L \in Nat : L = Len(f)
  BY SeqFacts
<1>3. L >= 1 /\ Len(g) = L - 1 /\ \A k \in 1 .. L - 1 : g[k] = f[k + 1]
  BY <1>1, <1>2, SeqFacts
<1>4. \A k \in 1 .. L - 1 : k + 1 \in 1 .. L
  OBVIOUS
<1>5. ASSUME NEW k \in 1 .. L, k # 1 PROVE \E j \in 1 .. L - 1 : k = j + 1
  <2>1. k - 1 \in 1 .. L - 1 /\ k = (k - 1) + 1
    BY <1>5
  <2> QED BY <2>1
<1>6. ASSUME NEW op, Once(f, op) PROVE Once(g, op) /\ (f[1].op = op => ~Holds(g, op))
  <2>1. ASSUME NEW j \in 1 .. L - 1, NEW k \in 1 .. L - 1, g[j].op = op, g[k].op = op PROVE j = k
    <3>1. j + 1 = k + 1
      BY <1>2, <1>3, <1>4, <1>6, <2>1 DEF Once
    <3> QED BY <3>1
  <2>2. ASSUME NEW k \in 1 .. L - 1, g[k].op = op, f[1].op = op PROVE FALSE
    <3>1. 1 = k + 1
      <4>1. 1 \in 1 .. L
        BY <1>3
      <4> QED BY <1>2, <1>3, <1>4, <1>6, <2>2, <4>1 DEF Once
    <3> QED BY <3>1
  <2> QED BY <1>3, <2>1, <2>2 DEF Once, Holds
<1>7. ASSUME NEW op PROVE (Holds(g, op) => Holds(f, op)) /\ (Holds(f, op) /\ f[1].op # op => Holds(g, op))
  <2>1. Holds(g, op) => Holds(f, op)
    BY <1>2, <1>3, <1>4 DEF Holds
  <2>2. ASSUME Holds(f, op), f[1].op # op PROVE Holds(g, op)
    <3>1. PICK k \in 1 .. L : f[k].op = op
      BY <1>2, <2>2 DEF Holds
    <3>2. k # 1
      BY <2>2, <3>1
    <3> QED BY <1>3, <1>5, <3>1, <3>2 DEF Holds
  <2> QED BY <2>1, <2>2
<1>8. ASSUME NEW c, HitFor(g, c) PROVE HitFor(f, c) /\ Holds(g, "hit")
  BY <1>2, <1>3, <1>4, <1>8 DEF HitFor, Holds
<1>9. FrameOk(g)
  <2>1. Once(g, "hit") /\ Once(g, "complete")
    BY <1>6 DEF FrameOk
  <2>2. \A k \in 1 .. L - 1 : g[k].op = "hit" => g[k].arg \in Causes
    BY <1>2, <1>3, <1>4 DEF FrameOk
  <2>3. ASSUME NEW k \in 1 .. L - 1 PROVE g[k].op # "claim"
    <3>1. g[k] = f[k + 1] /\ k + 1 \in 1 .. L /\ k + 1 # 1
      BY <1>3
    <3> QED BY <1>2, <3>1 DEF FrameOk
  <2>4. ASSUME NEW k \in 1 .. L - 1, g[k].op = "ack" PROVE \E j \in 1 .. L - 1 : k <= j /\ g[j].op = "complete"
    <3>1. PICK j \in 1 .. L : k + 1 <= j /\ f[j].op = "complete"
      BY <1>2, <1>3, <1>4, <2>4 DEF FrameOk
    <3>2. PICK i \in 1 .. L - 1 : j = i + 1
      BY <1>5, <3>1
    <3>3. k <= i /\ g[i].op = "complete"
      BY <1>3, <3>1, <3>2
    <3> QED BY <3>3
  <2> QED BY <1>3, <2>1, <2>2, <2>3, <2>4 DEF FrameOk
<1>10. Once(f, "hit") /\ Once(f, "complete")
  BY DEF FrameOk
<1>11. Popped(f, g)
  BY <1>6, <1>7, <1>8, <1>9, <1>10, Zenon DEF Popped
<1> QED BY <1>1, <1>11

\* Interrupts that are due: one whose callback has not run yet, and one that
\* is signalled and whose handler has not been entered.
Due(f, c, high, op) == (IF HitFor(f, c) THEN 1 ELSE 0) + (IF high /\ ~Holds(f, op) THEN 1 ELSE 0)

CbType ==
  [timer : {"none", "default_cb", "on_timer"}, sw : {"none", "default_cb", "on_ipi"},
   ext : {"none", "default_cb", "default_slave_isr"}]
PlicType(p) ==
  p \in [prio : {p.prio}, enable : {p.enable}, threshold : {p.threshold}, ip : BOOLEAN, ia : BOOLEAN]
CountsType(n) ==
  n \in [asked : [Causes -> Nat], served : [Causes -> Nat], lost : {n.lost}]

\* No more callbacks have run, or are to run, than interrupts were asked for.
IrqInv ==
  /\ cb \in CbType /\ PlicType(plic) /\ CountsType(counts) /\ msip \in BOOLEAN /\ line \in BOOLEAN
  /\ FrameOk(frame)
  /\ Holds(frame, "complete") => plic.ia /\ ~plic.ip
  /\ plic.ip => plic.ia /\ line
  /\ counts.served["sw"] + Due(frame, "sw", msip, "clear_ipi") <= counts.asked["sw"]
  /\ counts.served["ext"] + Due(frame, "ext", line, "ack") <= counts.asked["ext"]

\* What has been asked for, waited for and served.
HisInv ==
  /\ \A c \in Asked : counts.asked[c] <= 1 /\ (counts.asked[c] > 0 => \E i \in trail : Code[i].op = AskOp[c])
  /\ \A i \in trail : Code[i].op = "wait" => Code[i].arg \in hits
  /\ \A c \in Causes : c \in hits => counts.served[c] > 0
  /\ Halted => frame = <<>> /\ Code[pc].op = "exit"

\* The inductive invariant of the interrupts.
OnceInv == ResInv /\ IrqInv /\ HisInv

\* A frame in which none of the instructions above is left.
LEMMA EmptyFrame ==
  /\ FrameOk(<<>>) /\ (\A op : ~Holds(<<>>, op)) /\ \A c : ~HitFor(<<>>, c)
<1>1. PICK e : e = <<>>
  OBVIOUS
<1>2. Len(e) = 0
  BY <1>1
<1>3. 1 .. 0 = {}
  OBVIOUS
<1>4. FrameOk(e) /\ (\A op : ~Holds(e, op)) /\ \A c : ~HitFor(e, c)
  BY <1>2, <1>3 DEF FrameOk, Once, Holds, HitFor
<1> QED BY <1>1, <1>4

\* What is due is a number.
LEMMA DueNat ==
  ASSUME NEW f, NEW c, NEW high, NEW op
  PROVE  Due(f, c, high, op) \in Nat
BY DEF Due

\* At reset nothing has been asked for.
LEMMA OnceStarts ==
  BspInit => OnceInv
<1> SUFFICES ASSUME BspInit PROVE OnceInv
  OBVIOUS
<1>1. ResInv
  BY ResStarts
<1>2. frame = <<>> /\ msip = FALSE /\ line = FALSE /\ trail = {} /\ hits = {} /\ eoc = None /\ ~Halted
  BY DEF BspInit, Halted
<1>3. counts = [asked |-> [c \in Causes |-> 0], served |-> [c \in Causes |-> 0], lost |-> FALSE]
  <2>1. DOMAIN Rank = Causes
    BY DEF Rank, Causes
  <2> QED BY <2>1 DEF BspInit
<1>4. /\ CountsType(counts) /\ counts.asked["sw"] = 0 /\ counts.asked["ext"] = 0
      /\ counts.served["sw"] = 0 /\ counts.served["ext"] = 0
  BY <1>3 DEF CountsType, Causes
<1>5. cb \in CbType /\ PlicType(plic) /\ ~plic.ip
  BY DEF BspInit, CbType, PlicType
<1>6. Due(frame, "sw", msip, "clear_ipi") = 0 /\ Due(frame, "ext", line, "ack") = 0
  BY <1>2, EmptyFrame DEF Due
<1>7. IrqInv
  <2>1. FrameOk(frame) /\ ~Holds(frame, "complete")
    BY <1>2, EmptyFrame, Zenon
  <2>2. counts.served["sw"] + Due(frame, "sw", msip, "clear_ipi") <= counts.asked["sw"]
    BY <1>4, <1>6
  <2>3. counts.served["ext"] + Due(frame, "ext", line, "ack") <= counts.asked["ext"]
    BY <1>4, <1>6
  <2>4. msip \in BOOLEAN /\ line \in BOOLEAN
    BY <1>2
  <2> QED BY <1>4, <1>5, <2>1, <2>2, <2>3, <2>4, Zenon DEF IrqInv
<1>8. HisInv
  BY <1>2, <1>4 DEF HisInv, Asked
<1> QED BY <1>1, <1>7, <1>8 DEF OnceInv

\* What of the invariant a step has to show.
LEMMA IrqHolds ==
  ASSUME NEW g, NEW b, NEW p, NEW n, NEW m \in BOOLEAN, NEW l \in BOOLEAN,
         frame' = g, cb' = b, plic' = p, counts' = n, msip' = m, line' = l,
         b \in CbType, PlicType(p), CountsType(n), FrameOk(g),
         Holds(g, "complete") => p.ia /\ ~p.ip,
         p.ip => p.ia /\ l,
         n.served["sw"] + Due(g, "sw", m, "clear_ipi") <= n.asked["sw"],
         n.served["ext"] + Due(g, "ext", l, "ack") <= n.asked["ext"]
  PROVE  IrqInv'
<1>1. PlicType(plic)' /\ CountsType(counts)' /\ FrameOk(frame)' /\ cb' \in CbType' /\ msip' \in BOOLEAN /\ line' \in BOOLEAN
  BY DEF PlicType, CountsType, FrameOk, Once, Holds, HitFor, CbType
<1>2. (Holds(frame, "complete") => plic.ia /\ ~plic.ip)' /\ (plic.ip => plic.ia /\ line)'
  BY DEF Holds
<1>3. (counts.served["sw"] + Due(frame, "sw", msip, "clear_ipi") <= counts.asked["sw"])'
  BY DEF Due, HitFor, Holds
<1>4. (counts.served["ext"] + Due(frame, "ext", line, "ack") <= counts.asked["ext"])'
  BY DEF Due, HitFor, Holds
<1> QED BY <1>1, <1>2, <1>3, <1>4 DEF IrqInv

\* Taking off an instruction that does not clear the signal makes nothing due.
LEMMA DueFalls ==
  ASSUME NEW f, NEW g, Popped(f, g), NEW c, NEW high \in BOOLEAN, NEW low \in BOOLEAN, low => high, NEW op, f[1].op # op
  PROVE  Due(g, c, low, op) <= Due(f, c, high, op)
<1>1. (HitFor(g, c) => HitFor(f, c)) /\ (Holds(f, op) => Holds(g, op))
  BY Zenon DEF Popped
<1> QED BY <1>1 DEF Due

\* And where the signal is cleared, it may be any instruction.
LEMMA DueCleared ==
  ASSUME NEW f, NEW g, Popped(f, g), NEW c, NEW high \in BOOLEAN, NEW op
  PROVE  Due(g, c, FALSE, op) <= Due(f, c, high, op)
<1>1. HitFor(g, c) => HitFor(f, c)
  BY Zenon DEF Popped
<1> QED BY <1>1 DEF Due

\* A signal that is cleared while no handler runs.
LEMMA DueSame ==
  ASSUME NEW f, NEW c, NEW high \in BOOLEAN, NEW low \in BOOLEAN, low => high, NEW op
  PROVE  Due(f, c, low, op) <= Due(f, c, high, op)
BY DEF Due

\* A step that neither asks for an interrupt nor serves one.
Plain ==
  /\ prog' = prog /\ hits' = hits /\ ~Halted'
  /\ trail' = trail \/ (frame = <<>> /\ trail' = trail \cup {pc} /\ (Now.op = "wait" => Now.arg \in hits))
  /\ frame' = frame \/ (frame # <<>> /\ frame' = Tail(frame) /\ Now.op \notin {"clear_ipi", "ack"})
  /\ cb' \in CbType /\ PlicType(plic') /\ plic'.ip = plic.ip /\ plic'.ia = plic.ia /\ line' = line /\ (msip' = msip \/ msip' = FALSE)
  /\ CountsType(counts') /\ counts'.served = counts.served
  /\ counts'.asked["sw"] = counts.asked["sw"] /\ counts'.asked["ext"] = counts.asked["ext"]

\* The counts are numbers.
LEMMA CountsNat ==
  ASSUME NEW n, CountsType(n)
  PROVE  \A c \in Causes : n.asked[c] \in Nat /\ n.served[c] \in Nat
BY DEF CountsType

\* Such a step leaves no more due than before.
LEMMA PlainIrq ==
  ASSUME OnceInv, Plain
  PROVE  IrqInv'
<1>1. PICK f, g, b, p, n, m, l, q, o, h : f = frame /\ g = frame' /\ b = cb' /\ p = plic' /\ n = counts' /\ m = msip' /\ l = line'
        /\ q = plic /\ o = counts /\ h = msip
  OBVIOUS
<1>2. /\ b \in CbType /\ PlicType(p) /\ CountsType(n) /\ p.ip = q.ip /\ p.ia = q.ia /\ (m = h \/ m = FALSE)
      /\ n.served = o.served /\ n.asked["sw"] = o.asked["sw"] /\ n.asked["ext"] = o.asked["ext"] /\ l = line
  BY <1>1 DEF Plain
<1>3. /\ h \in BOOLEAN /\ l \in BOOLEAN /\ FrameOk(f) /\ (Holds(f, "complete") => q.ia /\ ~q.ip) /\ (q.ip => q.ia /\ l)
      /\ o.served["sw"] + Due(f, "sw", h, "clear_ipi") <= o.asked["sw"]
      /\ o.served["ext"] + Due(f, "ext", l, "ack") <= o.asked["ext"] /\ CountsType(o)
  BY <1>1, <1>2 DEF OnceInv, IrqInv
<1>10. m \in BOOLEAN /\ (m => h)
  <2>1. CASE m = h
    BY <1>3, <2>1
  <2>2. CASE m = FALSE
    BY <2>2
  <2> QED BY <1>2, <2>1, <2>2
<1>4. FrameOk(g) /\ (Holds(g, "complete") => Holds(f, "complete"))
      /\ Due(g, "sw", m, "clear_ipi") <= Due(f, "sw", h, "clear_ipi") /\ Due(g, "ext", l, "ack") <= Due(f, "ext", l, "ack")
  <2>1. CASE g = f
    BY <1>3, <1>10, <2>1, DueSame
  <2>2. CASE f # <<>> /\ g = Tail(f) /\ Now.op \notin {"clear_ipi", "ack"}
    <3>1. IsSeq(f) /\ Now = f[1]
      BY <1>1, <2>2, HandlerShrinks DEF OnceInv
    <3>2. Popped(f, g)
      BY <1>3, <2>2, <3>1, Popping
    <3>3. f[1].op # "clear_ipi" /\ f[1].op # "ack"
      BY <2>2, <3>1
    <3>4. FrameOk(g) /\ (Holds(g, "complete") => Holds(f, "complete"))
      BY <3>2, Zenon DEF Popped
    <3> QED BY <1>3, <1>10, <3>2, <3>3, <3>4, DueFalls
  <2>3. g = f \/ (f # <<>> /\ g = Tail(f) /\ Now.op \notin {"clear_ipi", "ack"})
    BY <1>1, Zenon DEF Plain
  <2> QED BY <2>1, <2>2, <2>3
<1>5. "sw" \in Causes /\ "ext" \in Causes
  BY DEF Causes
<1>6. o.served["sw"] \in Nat /\ o.asked["sw"] \in Nat /\ o.served["ext"] \in Nat /\ o.asked["ext"] \in Nat
  BY <1>3, <1>5, CountsNat
<1>7. n.served["sw"] + Due(g, "sw", m, "clear_ipi") <= n.asked["sw"]
  BY <1>2, <1>3, <1>4, <1>6, DueNat
<1>8. n.served["ext"] + Due(g, "ext", l, "ack") <= n.asked["ext"]
  BY <1>2, <1>3, <1>4, <1>6, DueNat
<1>9. (Holds(g, "complete") => p.ia /\ ~p.ip) /\ (p.ip => p.ia /\ l)
  BY <1>2, <1>3, <1>4
<1> QED BY <1>1, <1>2, <1>3, <1>4, <1>7, <1>8, <1>9, <1>10, IrqHolds

\* The history after a step that does not ask for an interrupt.
LEMMA HisHolds ==
  ASSUME OnceInv, prog' = prog, hits \subseteq hits', ~Halted',
         trail' = trail \/ (frame = <<>> /\ trail' = trail \cup {pc} /\ (Now.op = "wait" => Now.arg \in hits)),
         counts'.asked["sw"] = counts.asked["sw"], counts'.asked["ext"] = counts.asked["ext"],
         \A c \in Causes : c \in hits' => counts'.served[c] > 0
  PROVE  HisInv'
<1>1. Code' = Code
  BY DEF Code
<1>2. ASSUME NEW c \in Asked
      PROVE  counts'.asked[c] <= 1 /\ (counts'.asked[c] > 0 => \E i \in trail' : Code[i].op = AskOp[c])
  <2>1. counts'.asked[c] = counts.asked[c] /\ trail \subseteq trail'
    BY DEF Asked
  <2> QED BY <2>1 DEF OnceInv, HisInv
<1>3. ASSUME NEW i \in trail', Code[i].op = "wait" PROVE Code[i].arg \in hits'
  <2>1. CASE i \in trail
    BY <1>3, <2>1 DEF OnceInv, HisInv
  <2>2. CASE i \notin trail
    <3>1. i = pc /\ frame = <<>> /\ (Now.op = "wait" => Now.arg \in hits)
      BY <2>2
    <3>2. Now = Code[i]
      BY <3>1 DEF Now, Code
    <3> QED BY <1>3, <3>1, <3>2
  <2> QED BY <2>1, <2>2
<1>4. ASSUME NEW c \in Asked
      PROVE  (counts.asked[c] <= 1 /\ (counts.asked[c] > 0 => \E i \in trail : Code[i].op = AskOp[c]))'
  BY <1>1, <1>2 DEF AskOp
<1>5. (\A i \in trail : Code[i].op = "wait" => Code[i].arg \in hits)'
  BY <1>1, <1>3
<1> QED BY <1>4, <1>5 DEF HisInv, Asked, Causes

\* Nor does it change what has been asked for.
LEMMA PlainOnce ==
  ASSUME OnceInv, Plain
  PROVE  IrqInv' /\ HisInv'
<1>1. IrqInv'
  BY PlainIrq
<1>2. \A c \in Causes : c \in hits' => counts'.served[c] > 0
  BY DEF OnceInv, HisInv, Plain
<1>3. HisInv'
  BY <1>2, HisHolds DEF Plain
<1> QED BY <1>1, <1>3

\* An instruction of the program or of a handler is done.
LEMMA AdvanceMoves ==
  ASSUME Advance
  PROVE  /\ trail' = trail \/ (frame = <<>> /\ trail' = trail \cup {pc})
         /\ frame' = frame \/ (frame # <<>> /\ frame' = Tail(frame))
BY DEF Advance

\* What is unchanged keeps its type.
LEMMA TypesStay ==
  ASSUME OnceInv
  PROVE  /\ cb' = cb => cb' \in CbType
         /\ plic' = plic => PlicType(plic') /\ plic'.ip = plic.ip /\ plic'.ia = plic.ia
         /\ counts' = counts => CountsType(counts')
BY DEF OnceInv, IrqInv, PlicType, CountsType

\* Only the exit ends the program.
LEMMA StillRuns ==
  ASSUME ~Halted, eoc' = eoc
  PROVE  ~Halted'
BY DEF Halted, None

\* Instructions that change no signal, callback or count.
LEMMA SilentKeeps ==
  ASSUME OnceInv, Advance, ~Halted, Now.op \notin {"clear_ipi", "ack"}, Now.op = "wait" => Now.arg \in hits,
         UNCHANGED <<prog, hits, cb, irqVars, eoc, counts>>
  PROVE  IrqInv' /\ HisInv'
<1>1. UNCHANGED <<plic, line, msip>>
  BY DEF irqVars
<1>2. Plain
  BY <1>1, AdvanceMoves, TypesStay, StillRuns DEF Plain
<1> QED BY <1>2, PlainOnce

\* These are the instructions that touch no interrupt.
LEMMA SilentOnes ==
  ASSUME OnceInv, thre \/ csrs_mie \/ csrs_mstatus \/ li \/ wait \/ start_delay \/ delayed \/ syscall \/ advance_mepc
  PROVE  IrqInv' /\ HisInv'
<1>1. CASE thre
  BY <1>1, SilentKeeps DEF thre, Executes, swVars
<1>2. CASE csrs_mie
  BY <1>2, SilentKeeps DEF csrs_mie, Executes, swVars
<1>3. CASE csrs_mstatus
  BY <1>3, SilentKeeps DEF csrs_mstatus, Executes, swVars
<1>4. CASE li
  BY <1>4, SilentKeeps DEF li, Executes, swVars
<1>5. CASE wait
  BY <1>5, SilentKeeps DEF wait, Executes, swVars
<1>6. CASE start_delay
  BY <1>6, SilentKeeps DEF start_delay, Executes, swVars
<1>7. CASE delayed
  BY <1>7, SilentKeeps DEF delayed, Executes, swVars
<1>8. CASE syscall
  BY <1>8, SilentKeeps DEF syscall, Executes, swVars
<1>9. CASE advance_mepc
  BY <1>9, SilentKeeps DEF advance_mepc, Executes, swVars
<1> QED BY <1>1, <1>2, <1>3, <1>4, <1>5, <1>6, <1>7, <1>8, <1>9

\* An instruction that no handler has is one of the program.
LEMMA InProgram ==
  ASSUME ResInv, Now.op \notin CbOps \cup {"mret", "ctx_advance_mepc", "handle_syscall", "exit"}
  PROVE  /\ frame = <<>> /\ Now = Code[pc] /\ Instr(Now) /\ pc \in Starts(Code) /\ prog \in DOMAIN Text
         /\ trail = Before(pc)
<1>1. frame = <<>>
  BY HandlerOps
<1>2. Now = Code[pc] /\ pc \in Starts(Code) /\ prog \in DOMAIN Text /\ trail = Before(pc)
  BY <1>1 DEF Now, Code, ResInv
<1> QED BY <1>1, <1>2, NextInstr

\* The PLIC's other registers, and the callbacks.
LEMMA SettingOnes ==
  ASSUME OnceInv,
         \/ pre_main \/ register_cb("register_timer_cb", "timer") \/ register_cb("register_ipi_cb", "sw")
         \/ register_cb("register_handler", "ext") \/ set_plic("set_priority", "prio", Now.arg)
         \/ set_plic("set_threshold", "threshold", Now.arg) \/ set_plic("enable", "enable", TRUE)
  PROVE  IrqInv' /\ HisInv'
<1>0. ResInv /\ cb \in CbType /\ PlicType(plic)
  BY DEF OnceInv, IrqInv
<1>1. CASE pre_main
  <2>1. Advance /\ ~Halted /\ Now.op = "pre_main" /\ UNCHANGED <<prog, hits, line, eoc, counts>> /\ msip' = FALSE
    BY <1>1 DEF pre_main, Executes
  <2>2. cb' \in CbType
    BY <1>1 DEF pre_main, CbType
  <2>3. PlicType(plic') /\ plic'.ip = plic.ip /\ plic'.ia = plic.ia
    BY <1>0, <1>1 DEF pre_main, PlicType
  <2>4. Plain
    BY <2>1, <2>2, <2>3, AdvanceMoves, TypesStay, StillRuns DEF Plain
  <2> QED BY <2>4, PlainOnce
<1>2. ASSUME NEW op, NEW slot, register_cb(op, slot),
             <<op, slot>> \in {<<"register_timer_cb", "timer">>, <<"register_ipi_cb", "sw">>, <<"register_handler", "ext">>}
      PROVE  IrqInv' /\ HisInv'
  <2>1. Advance /\ ~Halted /\ Now.op = op /\ UNCHANGED <<prog, hits, plic, line, msip, eoc, counts>> /\ cb' = [cb EXCEPT ![slot] = Now.arg]
    BY <1>2 DEF register_cb, Executes, irqVars
  <2>2. Instr(Now)
    BY <1>0, <1>2, <2>1, InProgram DEF CbOps
  <2>3. cb' \in CbType
    BY <1>0, <1>2, <2>1, <2>2 DEF Instr, CbType
  <2>4. Now.op \notin {"clear_ipi", "ack", "wait"}
    BY <1>2, <2>1
  <2>5. Plain
    BY <2>1, <2>3, <2>4, AdvanceMoves, TypesStay, StillRuns DEF Plain
  <2> QED BY <2>5, PlainOnce
<1>3. ASSUME NEW op, NEW field \in {"prio", "threshold", "enable"}, NEW value, set_plic(op, field, value),
             op \notin {"clear_ipi", "ack", "wait"}
      PROVE  IrqInv' /\ HisInv'
  <2>1. Advance /\ ~Halted /\ Now.op = op /\ UNCHANGED <<prog, hits, cb, line, msip, eoc, counts>> /\ plic' = [plic EXCEPT ![field] = value]
    BY <1>3 DEF set_plic, Executes, swVars
  <2>2. PlicType(plic') /\ plic'.ip = plic.ip /\ plic'.ia = plic.ia
    BY <1>0, <2>1 DEF PlicType
  <2>3. Plain
    BY <1>3, <2>1, <2>2, AdvanceMoves, TypesStay, StillRuns DEF Plain
  <2> QED BY <2>3, PlainOnce
<1>4. CASE \/ register_cb("register_timer_cb", "timer") \/ register_cb("register_ipi_cb", "sw")
           \/ register_cb("register_handler", "ext")
  BY <1>2, <1>4
<1>5. CASE set_plic("set_priority", "prio", Now.arg)
  <2>1. PICK value : value = Now.arg
    OBVIOUS
  <2>2. "prio" \in {"prio", "threshold", "enable"} /\ "set_priority" \notin {"clear_ipi", "ack", "wait"}
    OBVIOUS
  <2> QED BY <1>3, <1>5, <2>1, <2>2, Zenon
<1>6. CASE set_plic("set_threshold", "threshold", Now.arg)
  <2>1. PICK value : value = Now.arg
    OBVIOUS
  <2>2. "threshold" \in {"prio", "threshold", "enable"} /\ "set_threshold" \notin {"clear_ipi", "ack", "wait"}
    OBVIOUS
  <2> QED BY <1>3, <1>6, <2>1, <2>2, Zenon
<1>7. CASE set_plic("enable", "enable", TRUE)
  <2>1. PICK value : value = TRUE
    OBVIOUS
  <2>2. "enable" \in {"prio", "threshold", "enable"} /\ "enable" \notin {"clear_ipi", "ack", "wait"}
    OBVIOUS
  <2> QED BY <1>3, <1>7, <2>1, <2>2, Zenon
<1> QED BY <1>1, <1>4, <1>5, <1>6, <1>7

\* Writes of the console and of the timer.
LEMMA CountingOnes ==
  ASSUME OnceInv, write_thr \/ schedule_after \/ set_mtimecmp
  PROVE  IrqInv' /\ HisInv'
<1>0. CountsType(counts)
  BY DEF OnceInv, IrqInv
<1>1. CASE write_thr
  <2>1. Advance /\ ~Halted /\ Now.op = "thr" /\ UNCHANGED <<prog, hits, cb, plic, line, msip, eoc>>
    BY <1>1 DEF write_thr, Executes, swVars, irqVars
  <2>2. CountsType(counts') /\ counts'.served = counts.served /\ counts'.asked = counts.asked
    <3>1. PICK x : counts' = [counts EXCEPT !.lost = x]
      BY <1>1 DEF write_thr
    <3> QED BY <1>0, <3>1 DEF CountsType
  <2>3. Plain
    BY <2>1, <2>2, AdvanceMoves, TypesStay, StillRuns DEF Plain
  <2> QED BY <2>3, PlainOnce
<1>2. CASE schedule_after
  <2>1. Advance /\ ~Halted /\ Now.op = "schedule_after" /\ UNCHANGED <<prog, hits, cb, plic, line, msip, eoc>>
    BY <1>2 DEF schedule_after, Executes, swVars
  <2>2. CountsType(counts') /\ counts'.served = counts.served
        /\ counts'.asked["sw"] = counts.asked["sw"] /\ counts'.asked["ext"] = counts.asked["ext"]
    BY <1>0, <1>2 DEF schedule_after, CountsType, Causes
  <2>3. Plain
    BY <2>1, <2>2, AdvanceMoves, TypesStay, StillRuns DEF Plain
  <2> QED BY <2>3, PlainOnce
<1>3. CASE set_mtimecmp
  <2>1. Advance /\ ~Halted /\ Now.op = "set_mtimecmp" /\ UNCHANGED <<prog, hits, cb, plic, line, msip, eoc, counts>>
    BY <1>3 DEF set_mtimecmp, Executes, swVars
  <2>2. Plain
    BY <2>1, AdvanceMoves, TypesStay, StillRuns DEF Plain
  <2> QED BY <2>2, PlainOnce
<1> QED BY <1>1, <1>2, <1>3

\* The return, and a bit time.
LEMMA ReturningOnes ==
  ASSUME OnceInv, mret \/ tick
  PROVE  IrqInv' /\ HisInv'
<1>1. CASE mret
  <2>1. frame # <<>>
    <3>1. CASE frame = <<>>
      <4>1. Code[pc].op = "mret" /\ pc \in Starts(Code) /\ prog \in DOMAIN Text
        BY <1>1, <3>1 DEF mret, Executes, Now, Code, OnceInv, ResInv
      <4>2. Instr(Code[pc])
        BY <4>1, NextInstr
      <4> QED BY <4>1, <4>2 DEF Instr, ProgOps
    <3> QED BY <3>1
  <2>2. PICK f, g : f = frame /\ g = Tail(frame)
    OBVIOUS
  <2>3. IsSeq(g) /\ Len(g) = 0
    <3>1. Len(f) = 1 /\ IsSeq(g) /\ Len(g) = Len(f) - 1
      BY <1>1, <2>1, <2>2, HandlerOps, HandlerShrinks DEF mret, Executes, OnceInv
    <3> QED BY <3>1
  <2>4. g = <<>>
    BY <2>3, SeqFacts
  <2>5. ~Halted /\ Now.op = "mret" /\ UNCHANGED <<prog, trail, hits, cb, plic, line, msip, eoc, counts>> /\ frame' = Tail(frame)
    BY <1>1, <2>2, <2>4 DEF mret, Executes, swVars, irqVars
  <2>6. Plain
    BY <2>1, <2>5, TypesStay, StillRuns DEF Plain
  <2> QED BY <2>6, PlainOnce
<1>2. CASE tick
  <2>1. ~Halted /\ UNCHANGED <<prog, trail, frame, hits, cb, plic, line, msip, eoc, counts>>
    BY <1>2 DEF tick, swVars
  <2>2. Plain
    BY <2>1, TypesStay, StillRuns DEF Plain
  <2> QED BY <2>2, PlainOnce
<1> QED BY <1>1, <1>2

----------------------------------------------------------------------------
\* What runs in a handler before it returns.
BodyOk(x) == IsSeq(x) /\ FrameOk(x) /\ ~Holds(x, "claim")

\* What a callback for cause c may do.
Calls(s, c) ==
  /\ IsSeq(s) /\ Once(s, "hit")
  /\ \A k \in 1 .. Len(s) : s[k].op \notin {"claim", "complete", "clear_ipi"}
  /\ \A k \in 1 .. Len(s) : s[k].op = "hit" => s[k].arg = c
  /\ \A k \in 1 .. Len(s) : s[k].op = "ack" => c = "ext"
  /\ HitFor(s, "ext") => Holds(s, "ack")

\* A callback prints after what it does.
LEMMA CallsPrints ==
  ASSUME NEW s, NEW c, NEW text, Calls(s, c)
  PROVE  Calls(s \o puts(text), c)
<1>1. PICK y : y = puts(text)
  OBVIOUS
<1>2. IsSeq(y) /\ Len(y) = 4 /\ \A k \in 1 .. 4 : y[k].op \in {"thre", "thr"}
  BY <1>1, PutsText
<1>3. PICK z : z = s \o y
  OBVIOUS
<1>4. Joined(z, s, y)
  BY <1>2, <1>3, Joining DEF Calls
<1>5. PICK M \in Nat : M = Len(s)
  BY <1>4 DEF Joined
<1>6. IsSeq(z) /\ Len(z) = M + 4 /\ (\A i \in 1 .. M : z[i] = s[i]) /\ \A i \in 1 .. 4 : z[M + i] = y[i]
  BY <1>2, <1>4, <1>5 DEF Joined
<1>7. ASSUME NEW k \in 1 .. M + 4 PROVE (k \in 1 .. M /\ z[k] = s[k]) \/ z[k].op \in {"thre", "thr"}
  <2>1. CASE k \in 1 .. M
    BY <1>6, <2>1
  <2>2. CASE k \notin 1 .. M
    <3>1. PICK j \in 1 .. 4 : k = M + j
      <4>1. k - M \in 1 .. 4 /\ k = M + (k - M)
        BY <2>2
      <4> QED BY <4>1
    <3> QED BY <1>2, <1>6, <3>1
  <2> QED BY <2>1, <2>2
<1>8. ASSUME NEW k \in 1 .. M + 4, z[k].op \notin {"thre", "thr"} PROVE k \in 1 .. M /\ z[k] = s[k]
  BY <1>7, <1>8
<1>9. Once(z, "hit")
  <2>1. ASSUME NEW j \in 1 .. M + 4, NEW k \in 1 .. M + 4, z[j].op = "hit", z[k].op = "hit" PROVE j = k
    <3>1. j \in 1 .. M /\ z[j] = s[j] /\ k \in 1 .. M /\ z[k] = s[k]
      BY <1>8, <2>1
    <3> QED BY <1>5, <2>1, <3>1 DEF Calls, Once
  <2> QED BY <1>6, <2>1 DEF Once
<1>10. ASSUME NEW k \in 1 .. M + 4
       PROVE  /\ z[k].op \notin {"claim", "complete", "clear_ipi"} /\ (z[k].op = "hit" => z[k].arg = c)
              /\ (z[k].op = "ack" => c = "ext")
  BY <1>5, <1>7 DEF Calls
<1>11. HitFor(z, "ext") => Holds(z, "ack")
  <2> SUFFICES ASSUME HitFor(z, "ext") PROVE Holds(z, "ack")
    OBVIOUS
  <2>1. PICK k \in 1 .. M + 4 : z[k].op = "hit" /\ z[k].arg = "ext"
    BY <1>6 DEF HitFor
  <2>2. k \in 1 .. M /\ z[k] = s[k]
    BY <1>8, <2>1
  <2>3. HitFor(s, "ext")
    BY <1>5, <2>1, <2>2 DEF HitFor
  <2>4. PICK i \in 1 .. M : s[i].op = "ack"
    BY <1>5, <2>3 DEF Calls, Holds
  <2>5. i \in 1 .. M + 4 /\ z[i].op = "ack"
    BY <1>6, <2>4
  <2> QED BY <1>6, <2>5 DEF Holds
<1>12. Calls(z, c)
  BY <1>6, <1>9, <1>10, <1>11 DEF Calls
<1> QED BY <1>1, <1>3, <1>12

\* What is installed does what its cause allows.
LEMMA CallbackCalls ==
  ASSUME NEW b, b \in CbType
  PROVE  Calls(Callback(b.timer), "timer") /\ Calls(Callback(b.sw), "sw") /\ Calls(Callback(b.ext), "ext")
<1>1. ASSUME NEW c, NEW text PROVE Calls(puts(text), c)
  <2>1. PICK y : y = puts(text)
    OBVIOUS
  <2>2. IsSeq(y) /\ Len(y) = 4 /\ \A k \in 1 .. 4 : y[k].op \in {"thre", "thr"}
    BY <2>1, PutsText
  <2>3. Calls(y, c)
    BY <2>2 DEF Calls, Once, HitFor
  <2> QED BY <2>1, <2>3
<1>2. Calls(on_timer, "timer")
  <2>1. PICK u, v, y : u = Op("set_mtimecmp", Never) /\ v = Op("hit", "timer") /\ y = <<u, v>>
    OBVIOUS
  <2>2. u.op = "set_mtimecmp" /\ v.op = "hit" /\ v.arg = "timer"
    BY <2>1 DEF Op
  <2>3. IsSeq(y) /\ Len(y) = 2 /\ y[1] = u /\ y[2] = v
    BY <2>1, TwoElements
  <2>4. \A k \in 1 .. 2 : k = 1 \/ k = 2
    OBVIOUS
  <2>5. Calls(y, "timer")
    BY <2>2, <2>3, <2>4 DEF Calls, Once, HitFor
  <2>6. on_timer = y \o puts("on_timer")
    BY <2>1 DEF on_timer
  <2> QED BY <2>5, <2>6, CallsPrints
<1>3. Calls(on_ipi, "sw")
  <2>1. PICK u, y : u = Op("hit", "sw") /\ y = <<u>>
    OBVIOUS
  <2>2. u.op = "hit" /\ u.arg = "sw"
    BY <2>1 DEF Op
  <2>3. IsSeq(y) /\ Len(y) = 1 /\ y[1] = u
    BY <2>1, OneElement
  <2>4. \A k \in 1 .. 1 : k = 1
    OBVIOUS
  <2>5. Calls(y, "sw")
    BY <2>2, <2>3, <2>4 DEF Calls, Once, HitFor
  <2>6. on_ipi = y \o puts("on_ipi")
    BY <2>1 DEF on_ipi
  <2> QED BY <2>5, <2>6, CallsPrints
<1>4. Calls(default_slave_isr, "ext")
  <2>1. PICK u, v, y : u = Op("ack", "") /\ v = Op("hit", "ext") /\ y = <<u, v>>
    OBVIOUS
  <2>2. u.op = "ack" /\ v.op = "hit" /\ v.arg = "ext"
    BY <2>1 DEF Op
  <2>3. IsSeq(y) /\ Len(y) = 2 /\ y[1] = u /\ y[2] = v
    BY <2>1, TwoElements
  <2>4. (\A k \in 1 .. 2 : k = 1 \/ k = 2) /\ 1 \in 1 .. 2
    OBVIOUS
  <2>5. Calls(y, "ext")
    BY <2>2, <2>3, <2>4 DEF Calls, Once, Holds
  <2>6. default_slave_isr = y \o puts("isr")
    BY <2>1 DEF default_slave_isr
  <2> QED BY <2>5, <2>6, CallsPrints
<1>5. \A c : Calls(default_cb, c)
  BY <1>1 DEF default_cb
<1>6. /\ Callback("on_timer") = on_timer /\ Callback("on_ipi") = on_ipi /\ Callback("default_slave_isr") = default_slave_isr
      /\ Callback("none") = default_cb /\ Callback("default_cb") = default_cb
  BY DEF Callback
<1>7. b.timer \in {"none", "default_cb", "on_timer"} /\ b.sw \in {"none", "default_cb", "on_ipi"}
      /\ b.ext \in {"none", "default_cb", "default_slave_isr"}
  BY DEF CbType
<1>8. Calls(Callback(b.timer), "timer")
  BY <1>2, <1>5, <1>6, <1>7
<1>9. Calls(Callback(b.sw), "sw")
  BY <1>3, <1>5, <1>6, <1>7
<1>10. Calls(Callback(b.ext), "ext")
  BY <1>4, <1>5, <1>6, <1>7
<1> QED BY <1>8, <1>9, <1>10

\* With the return at its end a frame holds what its body holds.
Like(z, x) ==
  /\ FrameOk(z)
  /\ \A op : op # "mret" => (Holds(z, op) <=> Holds(x, op))
  /\ \A c : HitFor(z, c) <=> HitFor(x, c)

\* A body with the return behind it.
LEMMA WithReturn ==
  ASSUME NEW x, NEW y, BodyOk(x), IsSeq(y), Len(y) = 1, y[1].op = "mret"
  PROVE  Like(x \o y, x)
<1>1. PICK z : z = x \o y
  OBVIOUS
<1>2. Joined(z, x, y)
  BY <1>1, Joining DEF BodyOk
<1>3. PICK M \in Nat : M = Len(x)
  BY <1>2 DEF Joined
<1>4. Len(z) = M + 1 /\ (\A i \in 1 .. M : z[i] = x[i]) /\ \A i \in 1 .. 1 : z[M + i] = y[i]
  BY <1>2, <1>3 DEF Joined
<1>5. z[M + 1].op = "mret"
  BY <1>4
<1>6. ASSUME NEW k \in 1 .. M + 1 PROVE (k \in 1 .. M /\ z[k] = x[k]) \/ z[k].op = "mret"
  <2>1. k \in 1 .. M \/ k = M + 1
    OBVIOUS
  <2> QED BY <1>4, <1>5, <2>1
<1>7. \A k \in 1 .. M : k \in 1 .. M + 1
  OBVIOUS
<1>8. ASSUME NEW op, op # "mret" PROVE Holds(z, op) <=> Holds(x, op)
  BY <1>3, <1>4, <1>6, <1>7, <1>8 DEF Holds
<1>9. ASSUME NEW c PROVE HitFor(z, c) <=> HitFor(x, c)
  BY <1>3, <1>4, <1>6, <1>7 DEF HitFor
<1>10. ASSUME NEW op, op # "mret", Once(x, op) PROVE Once(z, op)
  <2>1. ASSUME NEW j \in 1 .. M + 1, NEW k \in 1 .. M + 1, z[j].op = op, z[k].op = op PROVE j = k
    <3>1. j \in 1 .. M /\ z[j] = x[j] /\ k \in 1 .. M /\ z[k] = x[k]
      BY <1>6, <1>10, <2>1
    <3> QED BY <1>3, <1>10, <2>1, <3>1 DEF Once
  <2> QED BY <1>4, <2>1 DEF Once
<1>11. FrameOk(z)
  <2>1. Once(z, "hit") /\ Once(z, "complete")
    BY <1>10 DEF BodyOk, FrameOk
  <2>2. ASSUME NEW k \in 1 .. M + 1 PROVE z[k].op = "hit" => z[k].arg \in Causes
    BY <1>3, <1>6 DEF BodyOk, FrameOk
  <2>3. ASSUME NEW k \in 1 .. M + 1 PROVE z[k].op # "claim"
    BY <1>3, <1>6 DEF BodyOk, Holds
  <2>4. ASSUME NEW k \in 1 .. M + 1, z[k].op = "ack" PROVE \E j \in 1 .. M + 1 : k <= j /\ z[j].op = "complete"
    <3>1. k \in 1 .. M /\ z[k] = x[k]
      BY <1>6, <2>4
    <3>2. PICK j \in 1 .. M : k <= j /\ x[j].op = "complete"
      BY <1>3, <2>4, <3>1 DEF BodyOk, FrameOk
    <3> QED BY <1>4, <1>7, <3>2
  <2> QED BY <1>4, <2>1, <2>2, <2>3, <2>4 DEF FrameOk
<1>12. Like(z, x)
  BY <1>8, <1>9, <1>11, Zenon DEF Like
<1> QED BY <1>1, <1>12

\* A callback that is not of the PLIC.
LEMMA CalledBody ==
  ASSUME NEW s, NEW c \in {"timer", "sw"}, Calls(s, c)
  PROVE  /\ BodyOk(s) /\ ~Holds(s, "complete") /\ ~Holds(s, "ack") /\ ~Holds(s, "clear_ipi")
         /\ \A d : HitFor(s, d) => d = c
<1>1. ~Holds(s, "complete") /\ ~Holds(s, "ack") /\ ~Holds(s, "clear_ipi") /\ ~Holds(s, "claim")
  BY DEF Calls, Holds
<1>2. \A d : HitFor(s, d) => d = c
  BY DEF Calls, HitFor
<1>3. FrameOk(s)
  BY <1>1 DEF Calls, FrameOk, Holds, Once, Causes
<1>4. BodyOk(s)
  BY <1>1, <1>3 DEF BodyOk, Calls
<1> QED BY <1>1, <1>2, <1>4

\* The software interrupt is cleared before its callback.
LEMMA ClearedBody ==
  ASSUME NEW x, NEW s, IsSeq(x), Len(x) = 1, x[1].op = "clear_ipi", Calls(s, "sw")
  PROVE  /\ BodyOk(x \o s) /\ ~Holds(x \o s, "complete") /\ ~Holds(x \o s, "ack") /\ Holds(x \o s, "clear_ipi")
         /\ \A d : HitFor(x \o s, d) => d = "sw"
<1>1. PICK z : z = x \o s
  OBVIOUS
<1>2. Joined(z, x, s)
  BY <1>1, Joining DEF Calls
<1>3. PICK N \in Nat : N = Len(s)
  BY <1>2 DEF Joined
<1>4. IsSeq(z) /\ Len(z) = 1 + N /\ (\A i \in 1 .. 1 : z[i] = x[i]) /\ \A i \in 1 .. N : z[1 + i] = s[i]
  BY <1>2, <1>3 DEF Joined
<1>5. z[1].op = "clear_ipi" /\ 1 \in 1 .. 1 + N
  BY <1>4
<1>6. ASSUME NEW k \in 1 .. 1 + N PROVE (k - 1 \in 1 .. N /\ z[k] = s[k - 1]) \/ (k = 1 /\ z[k].op = "clear_ipi")
  <2>1. (k - 1 \in 1 .. N /\ 1 + (k - 1) = k) \/ k = 1
    OBVIOUS
  <2> QED BY <1>4, <1>5, <2>1
<1>7. ASSUME NEW k \in 1 .. 1 + N
      PROVE  /\ z[k].op \notin {"claim", "complete", "ack"} /\ (z[k].op = "hit" => z[k].arg = "sw")
  <2>1. ASSUME NEW j \in 1 .. N PROVE s[j].op \notin {"claim", "complete", "ack"} /\ (s[j].op = "hit" => s[j].arg = "sw")
    BY <1>3 DEF Calls
  <2> QED BY <1>6, <2>1
<1>8. Once(z, "hit")
  <2>1. ASSUME NEW j \in 1 .. 1 + N, NEW k \in 1 .. 1 + N, z[j].op = "hit", z[k].op = "hit" PROVE j = k
    <3>1. j - 1 \in 1 .. N /\ z[j] = s[j - 1] /\ k - 1 \in 1 .. N /\ z[k] = s[k - 1]
      BY <1>6, <2>1
    <3>2. j - 1 = k - 1
      BY <1>3, <2>1, <3>1 DEF Calls, Once
    <3> QED BY <3>2
  <2> QED BY <1>4, <2>1 DEF Once
<1>9. /\ ~Holds(z, "complete") /\ ~Holds(z, "ack") /\ ~Holds(z, "claim") /\ Holds(z, "clear_ipi")
      /\ \A d : HitFor(z, d) => d = "sw"
  BY <1>4, <1>5, <1>7 DEF Holds, HitFor
<1>10. FrameOk(z)
  BY <1>4, <1>7, <1>8 DEF FrameOk, Once, Causes
<1>11. BodyOk(z)
  BY <1>4, <1>9, <1>10 DEF BodyOk
<1> QED BY <1>1, <1>9, <1>11

\* An external interrupt is completed after its callback.
LEMMA CompletedBody ==
  ASSUME NEW s, NEW y, IsSeq(y), Len(y) = 1, y[1].op = "complete", Calls(s, "ext")
  PROVE  /\ BodyOk(s \o y) /\ (HitFor(s \o y, "ext") => Holds(s \o y, "ack")) /\ ~Holds(s \o y, "clear_ipi")
         /\ \A d : HitFor(s \o y, d) => d = "ext"
<1>1. PICK z : z = s \o y
  OBVIOUS
<1>2. Joined(z, s, y)
  BY <1>1, Joining DEF Calls
<1>3. PICK M \in Nat : M = Len(s)
  BY <1>2 DEF Joined
<1>4. IsSeq(z) /\ Len(z) = M + 1 /\ (\A i \in 1 .. M : z[i] = s[i]) /\ \A i \in 1 .. 1 : z[M + i] = y[i]
  BY <1>2, <1>3 DEF Joined
<1>5. z[M + 1].op = "complete" /\ M + 1 \in 1 .. M + 1
  BY <1>4
<1>6. ASSUME NEW k \in 1 .. M + 1 PROVE (k \in 1 .. M /\ z[k] = s[k]) \/ (k = M + 1 /\ z[k].op = "complete")
  <2>1. k \in 1 .. M \/ k = M + 1
    OBVIOUS
  <2> QED BY <1>4, <1>5, <2>1
<1>7. \A k \in 1 .. M : k \in 1 .. M + 1 /\ s[k].op # "complete" /\ s[k].op \notin {"claim", "clear_ipi"} /\ (s[k].op = "hit" => s[k].arg = "ext")
  BY <1>3 DEF Calls
<1>8. Once(z, "hit")
  <2>1. ASSUME NEW j \in 1 .. M + 1, NEW k \in 1 .. M + 1, z[j].op = "hit", z[k].op = "hit" PROVE j = k
    <3>1. j \in 1 .. M /\ z[j] = s[j] /\ k \in 1 .. M /\ z[k] = s[k]
      BY <1>6, <2>1
    <3> QED BY <1>3, <2>1, <3>1 DEF Calls, Once
  <2> QED BY <1>4, <2>1 DEF Once
<1>9. ASSUME NEW k \in 1 .. M + 1, z[k].op = "complete" PROVE k = M + 1
  BY <1>6, <1>7, <1>9
<1>10. Once(z, "complete")
  BY <1>4, <1>9 DEF Once
<1>11. ASSUME NEW k \in 1 .. M + 1
       PROVE  z[k].op \notin {"claim", "clear_ipi"} /\ (z[k].op = "hit" => z[k].arg = "ext") /\ k <= M + 1
  BY <1>6, <1>7
<1>12. FrameOk(z)
  BY <1>4, <1>5, <1>8, <1>10, <1>11 DEF FrameOk, Causes
<1>13. ~Holds(z, "claim") /\ ~Holds(z, "clear_ipi") /\ \A d : HitFor(z, d) => d = "ext"
  BY <1>4, <1>11 DEF Holds, HitFor
<1>14. HitFor(z, "ext") => Holds(z, "ack")
  <2> SUFFICES ASSUME HitFor(z, "ext") PROVE Holds(z, "ack")
    OBVIOUS
  <2>1. PICK k \in 1 .. M + 1 : z[k].op = "hit" /\ z[k].arg = "ext"
    BY <1>4 DEF HitFor
  <2>2. k \in 1 .. M /\ z[k] = s[k]
    BY <1>6, <2>1
  <2>3. HitFor(s, "ext")
    BY <1>3, <2>1, <2>2 DEF HitFor
  <2>4. PICK i \in 1 .. M : s[i].op = "ack"
    BY <1>3, <2>3 DEF Calls, Holds
  <2> QED BY <1>4, <1>7, <2>4 DEF Holds
<1>15. BodyOk(z)
  BY <1>4, <1>12, <1>13 DEF BodyOk
<1> QED BY <1>1, <1>13, <1>14, <1>15

\* A frame of instructions that concern no interrupt.
LEMMA SilentFrame ==
  ASSUME NEW z, NEW L \in Nat, L = Len(z),
         \A k \in 1 .. L : z[k].op \in {"thre", "thr", "handle_syscall", "ctx_advance_mepc", "mret"}
  PROVE  FrameOk(z) /\ ~Holds(z, "complete") /\ \A d : ~HitFor(z, d)
<1>1. \A k \in 1 .. L : z[k].op \notin {"hit", "complete", "claim", "ack"}
  OBVIOUS
<1>2. ~Holds(z, "complete") /\ \A d : ~HitFor(z, d)
  BY <1>1 DEF Holds, HitFor
<1>3. FrameOk(z)
  BY <1>1 DEF FrameOk, Once
<1> QED BY <1>2, <1>3

\* What an entered handler may hold.
Entered(g) ==
  /\ FrameOk(g) /\ ~Holds(g, "complete") /\ ~HitFor(g, "ext")
  /\ HitFor(g, "sw") => msip /\ Holds(g, "clear_ipi")

\* Entering a handler makes nothing more due.
LEMMA EntryHolds ==
  ASSUME OnceInv, frame = <<>>, NEW g, frame' = g, Entered(g), UNCHANGED <<cb, plic, counts, msip, line>>
  PROVE  IrqInv'
<1>1. PICK f, b, p, n, m, l : f = frame /\ b = cb /\ p = plic /\ n = counts /\ m = msip /\ l = line
  OBVIOUS
<1>2. /\ b \in CbType /\ PlicType(p) /\ CountsType(n) /\ m \in BOOLEAN /\ l \in BOOLEAN /\ (p.ip => p.ia /\ l)
      /\ n.served["sw"] + Due(f, "sw", m, "clear_ipi") <= n.asked["sw"]
      /\ n.served["ext"] + Due(f, "ext", l, "ack") <= n.asked["ext"]
  BY <1>1 DEF OnceInv, IrqInv
<1>3. (\A op : ~Holds(f, op)) /\ \A c : ~HitFor(f, c)
  BY <1>1, EmptyFrame, Zenon
<1>4. FrameOk(g) /\ ~Holds(g, "complete") /\ ~HitFor(g, "ext") /\ (HitFor(g, "sw") => m /\ Holds(g, "clear_ipi"))
  BY <1>1 DEF Entered
<1>5. Due(g, "sw", m, "clear_ipi") <= Due(f, "sw", m, "clear_ipi")
  BY <1>2, <1>3, <1>4 DEF Due
<1>6. Due(g, "ext", l, "ack") <= Due(f, "ext", l, "ack")
  BY <1>2, <1>3, <1>4 DEF Due
<1>7. "sw" \in Causes /\ "ext" \in Causes
  BY DEF Causes
<1>8. n.served["sw"] \in Nat /\ n.asked["sw"] \in Nat /\ n.served["ext"] \in Nat /\ n.asked["ext"] \in Nat
  BY <1>2, <1>7, CountsNat
<1>9. n.served["sw"] + Due(g, "sw", m, "clear_ipi") <= n.asked["sw"]
  BY <1>2, <1>5, <1>8, DueNat
<1>10. n.served["ext"] + Due(g, "ext", l, "ack") <= n.asked["ext"]
  BY <1>2, <1>6, <1>8, DueNat
<1>11. cb' = b /\ plic' = p /\ counts' = n /\ msip' = m /\ line' = l
  BY <1>1
<1> QED BY <1>2, <1>4, <1>9, <1>10, <1>11, IrqHolds

\* The return.
LEMMA ReturnIs ==
  IsSeq(<<Op("mret", "")>>) /\ Len(<<Op("mret", "")>>) = 1 /\ <<Op("mret", "")>>[1].op = "mret"
<1>1. PICK x : x = Op("mret", "")
  OBVIOUS
<1>2. x.op = "mret"
  BY <1>1 DEF Op
<1>3. IsSeq(<<x>>) /\ Len(<<x>>) = 1 /\ <<x>>[1].op = "mret"
  BY <1>2, OneElement
<1> QED BY <1>1, <1>3

\* The entry of an interrupt: a software one is signalled and clears it.
LEMMA InterruptOnes ==
  ASSUME OnceInv, take_interrupt
  PROVE  IrqInv' /\ HisInv'
<1>1. PICK cause \in mie : SAVE_CTX(cause, "none") /\ Pending(cause)
  BY DEF take_interrupt
<1>2. /\ cause \in Causes /\ frame = <<>> /\ ~Halted
      /\ UNCHANGED <<prog, trail, cb, hits, plic, counts, msip, line, eoc>>
  BY DEF OnceInv, ResInv, take_interrupt, Interruptible, swVars, irqVars
<1>3. PICK y : y = <<Op("mret", "")>>
  OBVIOUS
<1>4. IsSeq(y) /\ Len(y) = 1 /\ y[1].op = "mret"
  BY <1>3, ReturnIs
<1>5. PICK x, g : x = Vector(cause) /\ g = x \o y
  OBVIOUS
<1>6. frame' = g
  BY <1>1, <1>3, <1>5 DEF SAVE_CTX
<1>7. Calls(Callback(cb.timer), "timer") /\ Calls(Callback(cb.sw), "sw")
  BY CallbackCalls DEF OnceInv, IrqInv
<1>8. CASE cause = "timer"
  <2>1. x = Callback(cb.timer)
    BY <1>5, <1>8 DEF Vector, handle_m_timer_irq
  <2>2. PICK c \in {"timer", "sw"} : c = "timer"
    OBVIOUS
  <2>3. Calls(x, c)
    BY <1>7, <2>1, <2>2
  <2>4. BodyOk(x) /\ ~Holds(x, "complete") /\ \A d : HitFor(x, d) => d = "timer"
    BY <2>2, <2>3, CalledBody
  <2>5. Like(g, x)
    BY <1>4, <1>5, <2>4, WithReturn
  <2>6. Entered(g)
    <3>1. ~HitFor(x, "ext") /\ ~HitFor(x, "sw")
      BY <2>4
    <3> QED BY <2>4, <2>5, <3>1 DEF Like, Entered
  <2> QED BY <1>2, <1>6, <2>6, EntryHolds, HisHolds, StillRuns DEF OnceInv, HisInv
<1>9. CASE cause = "sw"
  <2>0. msip
    BY <1>1, <1>9 DEF Pending
  <2>1. PICK u, s : u = <<Op("clear_ipi", "")>> /\ s = Callback(cb.sw)
    OBVIOUS
  <2>2. x = u \o s
    BY <1>5, <1>9, <2>1 DEF Vector, handle_m_sw_irq
  <2>3. IsSeq(u) /\ Len(u) = 1 /\ u[1].op = "clear_ipi"
    <3>1. PICK v : v = Op("clear_ipi", "")
      OBVIOUS
    <3>2. v.op = "clear_ipi" /\ u = <<v>>
      BY <2>1, <3>1 DEF Op
    <3> QED BY <3>2, OneElement
  <2>4. BodyOk(x) /\ ~Holds(x, "complete") /\ Holds(x, "clear_ipi") /\ \A d : HitFor(x, d) => d = "sw"
    BY <1>7, <2>1, <2>2, <2>3, ClearedBody
  <2>5. Like(g, x)
    BY <1>4, <1>5, <2>4, WithReturn
  <2>6. Entered(g)
    <3>1. ~HitFor(x, "ext")
      BY <2>4
    <3> QED BY <2>0, <2>4, <2>5, <3>1 DEF Like, Entered
  <2> QED BY <1>2, <1>6, <2>6, EntryHolds, HisHolds, StillRuns DEF OnceInv, HisInv
<1>10. CASE cause = "ext"
  <2>1. PICK v : v = Op("claim", "")
    OBVIOUS
  <2>2. v.op = "claim"
    BY <2>1 DEF Op
  <2>3. x = <<v>>
    BY <1>5, <1>10, <2>1 DEF Vector, handle_m_ext
  <2>4. IsSeq(x) /\ Len(x) = 1 /\ x[1] = v
    BY <2>3, OneElement
  <2>5. Joined(g, x, y)
    BY <1>4, <1>5, <2>4, Joining
  <2>6. Len(g) = 2 /\ g[1].op = "claim" /\ g[2].op = "mret"
    <3>1. Len(g) = 1 + 1 /\ 1 + 1 = 2 /\ (\A i \in 1 .. 1 : g[i] = x[i]) /\ \A i \in 1 .. 1 : g[1 + i] = y[i]
      BY <1>4, <2>4, <2>5 DEF Joined
    <3>2. 1 \in 1 .. 1
      OBVIOUS
    <3> QED BY <1>4, <2>2, <2>4, <3>1, <3>2
  <2>7. \A k \in 1 .. 2 : k = 1 \/ k = 2
    OBVIOUS
  <2>8. Entered(g)
    BY <2>6, <2>7 DEF Entered, FrameOk, Once, Holds, HitFor
  <2> QED BY <1>2, <1>6, <2>8, EntryHolds, HisHolds, StillRuns DEF OnceInv, HisInv
<1> QED BY <1>2, <1>8, <1>9, <1>10 DEF Causes

\* That of an exception.
LEMMA ExceptionOnes ==
  ASSUME OnceInv, NEW op \in {"ecall", "illegal"}, exception(op)
  PROVE  IrqInv' /\ HisInv'
<1>1. /\ frame = <<>> /\ ~Halted /\ Now.op = op /\ trail' = trail \cup {pc} /\ SAVE_CTX(op, Now.arg)
      /\ UNCHANGED <<prog, cb, hits, plic, counts, msip, line, eoc>>
  BY DEF exception, Executes, swVars, irqVars
<1>2. PICK g : g = Vector(op) \o <<Op("mret", "")>>
  OBVIOUS
<1>3. frame' = g
  BY <1>1, <1>2 DEF SAVE_CTX
<1>4. PICK L \in Nat : L = Len(g) /\ \A k \in 1 .. L : g[k].op \in {"thre", "thr", "handle_syscall", "ctx_advance_mepc", "mret"}
  <2>1. CASE op = "ecall"
    <3>1. Len(g) = 3 /\ g[1].op = "handle_syscall" /\ g[2].op = "ctx_advance_mepc" /\ g[3].op = "mret"
      BY <1>2, <2>1, EcallFrame DEF EcallHandler
    <3>2. \A k \in 1 .. 3 : k = 1 \/ k = 2 \/ k = 3
      OBVIOUS
    <3> QED BY <3>1, <3>2
  <2>2. CASE op = "illegal"
    <3>1. Len(g) = 6 /\ g[5].op = "ctx_advance_mepc" /\ g[6].op = "mret" /\ \A k \in 1 .. 4 : g[k].op \in {"thre", "thr"}
      BY <1>2, <2>2, IllegalFrame DEF IllegalHandler
    <3>2. \A k \in 1 .. 6 : k \in 1 .. 4 \/ k = 5 \/ k = 6
      OBVIOUS
    <3> QED BY <3>1, <3>2
  <2> QED BY <2>1, <2>2
<1>5. FrameOk(g) /\ ~Holds(g, "complete") /\ \A d : ~HitFor(g, d)
  BY <1>4, SilentFrame
<1>6. Entered(g)
  BY <1>5, Zenon DEF Entered
<1>7. IrqInv'
  BY <1>1, <1>3, <1>6, EntryHolds
<1>8. HisInv'
  <2>1. Now.op # "wait" /\ ~Halted'
    BY <1>1, StillRuns
  <2>2. \A c \in Causes : c \in hits' => counts'.served[c] > 0
    BY <1>1 DEF OnceInv, HisInv
  <2> QED BY <1>1, <2>1, <2>2, HisHolds
<1> QED BY <1>7, <1>8

\* An instruction that no program has is one of a handler.
LEMMA InFrame ==
  ASSUME OnceInv, Now.op \in {"hit", "clear_ipi", "ack", "complete", "claim"}
  PROVE  frame # <<>> /\ IsSeq(frame) /\ Now = frame[1] /\ FrameOk(frame) /\ Popped(frame, Tail(frame))
<1>1. frame # <<>>
  <2>1. CASE frame = <<>>
    <3>1. Now = Code[pc] /\ pc \in Starts(Code) /\ prog \in DOMAIN Text
      BY <2>1 DEF Now, Code, OnceInv, ResInv
    <3>2. Instr(Code[pc])
      BY <3>1, NextInstr
    <3> QED BY <3>1, <3>2 DEF Instr, ProgOps
  <2> QED BY <2>1
<1>2. IsSeq(frame) /\ Now = frame[1] /\ FrameOk(frame)
  BY <1>1, HandlerShrinks DEF OnceInv, IrqInv
<1> QED BY <1>1, <1>2, Popping

\* A callback sets its flag.
LEMMA HitOnes ==
  ASSUME OnceInv, hit
  PROVE  IrqInv' /\ HisInv'
<1>1. /\ ~Halted /\ Now.op = "hit" /\ Advance /\ hits' = hits \cup {Now.arg}
      /\ counts' = [counts EXCEPT !.served[Now.arg] = IF @ < MaxServed THEN @ + 1 ELSE @]
      /\ UNCHANGED <<prog, cb, plic, msip, line, eoc>>
  BY DEF hit, Executes, irqVars
<1>2. PICK f, g, o, n, a, p, m, l, b : f = frame /\ g = Tail(frame) /\ o = counts /\ n = counts' /\ a = Now.arg /\ p = plic /\ m = msip /\ l = line
        /\ b = cb
  OBVIOUS
<1>3. f # <<>> /\ IsSeq(f) /\ Now = f[1] /\ FrameOk(f) /\ Popped(f, g)
  BY <1>1, <1>2, InFrame
<1>4. frame' = g /\ trail' = trail
  BY <1>1, <1>2, <1>3 DEF Advance
<1>5. PICK L \in Nat : L = Len(f) /\ 1 \in 1 .. L
  BY <1>3, SeqFacts
<1>6. f[1].op = "hit" /\ f[1].arg = a
  BY <1>1, <1>2, <1>3
<1>7. a \in Causes /\ HitFor(f, a)
  BY <1>3, <1>5, <1>6 DEF FrameOk, HitFor
<1>8. FrameOk(g) /\ (\A c : ~HitFor(g, c)) /\ (\A op : Holds(g, op) => Holds(f, op)) /\ \A op : op # "hit" /\ Holds(f, op) => Holds(g, op)
  BY <1>3, <1>6, Zenon DEF Popped
<1>9. /\ b \in CbType /\ PlicType(p) /\ CountsType(o) /\ m \in BOOLEAN /\ l \in BOOLEAN
      /\ (Holds(f, "complete") => p.ia /\ ~p.ip) /\ (p.ip => p.ia /\ l)
      /\ o.served["sw"] + Due(f, "sw", m, "clear_ipi") <= o.asked["sw"]
      /\ o.served["ext"] + Due(f, "ext", l, "ack") <= o.asked["ext"]
  BY <1>2 DEF OnceInv, IrqInv
<1>10. /\ CountsType(n) /\ n.asked = o.asked
       /\ \A c \in Causes : n.served[c] = IF c = a THEN IF o.served[c] < MaxServed THEN o.served[c] + 1 ELSE o.served[c] ELSE o.served[c]
  <2>1. n = [o EXCEPT !.served[a] = IF @ < MaxServed THEN @ + 1 ELSE @]
    BY <1>1, <1>2
  <2>2. o.served[a] \in Nat
    BY <1>7, <1>9, CountsNat
  <2>3. PICK v \in Nat : v = (IF o.served[a] < MaxServed THEN o.served[a] + 1 ELSE o.served[a])
    BY <2>2 DEF MaxServed
  <2>4. n = [o EXCEPT !.served[a] = v]
    BY <2>1, <2>3
  <2>5. CountsType(n) /\ n.asked = o.asked /\ \A c \in Causes : n.served[c] = IF c = a THEN v ELSE o.served[c]
    BY <1>7, <1>9, <2>4 DEF CountsType
  <2> QED BY <2>3, <2>5
<1>11. \A c \in Causes : o.asked[c] \in Nat /\ o.served[c] \in Nat
  BY <1>9, CountsNat
<1>12. ASSUME NEW c \in Causes, NEW high \in BOOLEAN, NEW op, op # "hit"
       PROVE  n.served[c] + Due(g, c, high, op) <= o.served[c] + Due(f, c, high, op)
  <2>1. n.served[c] \in Nat /\ n.served[c] <= o.served[c] + (IF c = a THEN 1 ELSE 0)
    BY <1>10, <1>11, <1>12 DEF MaxServed
  <2>2. (IF c = a THEN 1 ELSE 0) + Due(g, c, high, op) <= Due(f, c, high, op)
    <3>1. ~HitFor(g, c) /\ (c = a => HitFor(f, c)) /\ (Holds(f, op) => Holds(g, op))
      BY <1>7, <1>8, <1>12
    <3> QED BY <3>1 DEF Due
  <2> QED BY <1>11, <1>12, <2>1, <2>2, DueNat
<1>13. "sw" \in Causes /\ "ext" \in Causes
  BY DEF Causes
<1>14. n.served["sw"] + Due(g, "sw", m, "clear_ipi") <= n.asked["sw"]
  <2>1. PICK c, op : c = "sw" /\ op = "clear_ipi"
    OBVIOUS
  <2>2. c \in Causes /\ op # "hit" /\ o.served[c] + Due(f, c, m, op) <= o.asked[c] /\ n.asked[c] = o.asked[c]
    BY <1>9, <1>10, <1>13, <2>1
  <2>3. n.served[c] + Due(g, c, m, op) <= o.served[c] + Due(f, c, m, op) /\ n.served[c] \in Nat
    BY <1>9, <1>10, <1>12, <2>2, CountsNat
  <2>4. n.served[c] + Due(g, c, m, op) <= n.asked[c]
    BY <1>11, <2>2, <2>3, DueNat
  <2> QED BY <2>1, <2>4
<1>15. n.served["ext"] + Due(g, "ext", l, "ack") <= n.asked["ext"]
  <2>1. PICK c, op : c = "ext" /\ op = "ack"
    OBVIOUS
  <2>2. c \in Causes /\ op # "hit" /\ o.served[c] + Due(f, c, l, op) <= o.asked[c] /\ n.asked[c] = o.asked[c]
    BY <1>9, <1>10, <1>13, <2>1
  <2>3. n.served[c] + Due(g, c, l, op) <= o.served[c] + Due(f, c, l, op) /\ n.served[c] \in Nat
    BY <1>9, <1>10, <1>12, <2>2, CountsNat
  <2>4. n.served[c] + Due(g, c, l, op) <= n.asked[c]
    BY <1>11, <2>2, <2>3, DueNat
  <2> QED BY <2>1, <2>4
<1>16. cb' = b /\ plic' = p /\ counts' = n /\ msip' = m /\ line' = l /\ (Holds(g, "complete") => p.ia /\ ~p.ip)
  BY <1>1, <1>2, <1>8, <1>9
<1>17. IrqInv'
  BY <1>4, <1>8, <1>9, <1>10, <1>14, <1>15, <1>16, IrqHolds
<1>18. \A c \in Causes : c \in hits' => counts'.served[c] > 0
  <2>1. ASSUME NEW c \in Causes, c \in hits' PROVE n.served[c] > 0
    <3>1. CASE c = a
      BY <1>10, <1>11, <3>1 DEF MaxServed
    <3>2. CASE c # a
      <4>1. c \in hits /\ n.served[c] = o.served[c]
        BY <1>1, <1>2, <1>10, <2>1, <3>2
      <4> QED BY <1>2, <4>1 DEF OnceInv, HisInv
    <3> QED BY <3>1, <3>2
  <2> QED BY <1>2, <2>1
<1>19. HisInv'
  <2>1. hits \subseteq hits' /\ ~Halted' /\ counts'.asked = counts.asked
    BY <1>1, <1>2, <1>10, StillRuns
  <2> QED BY <1>1, <1>4, <1>18, <2>1, HisHolds
<1> QED BY <1>17, <1>19

\* The history after a step of a handler that leaves the counts.
LEMMA HisSame ==
  ASSUME OnceInv, UNCHANGED <<prog, trail, hits, counts, eoc>>, ~Halted
  PROVE  HisInv'
<1>1. \A c \in Causes : c \in hits' => counts'.served[c] > 0
  BY DEF OnceInv, HisInv
<1>2. ~Halted'
  BY StillRuns
<1> QED BY <1>1, <1>2, HisHolds

\* The signals are dropped, and the interrupt completed.
LEMMA DroppingOnes ==
  ASSUME OnceInv, clear_ipi \/ ack \/ set_plic("complete", "ia", FALSE)
  PROVE  IrqInv' /\ HisInv'
<1>1. /\ ~Halted /\ Now.op \in {"clear_ipi", "ack", "complete"} /\ Advance
      /\ UNCHANGED <<prog, cb, hits, counts, eoc>>
  BY DEF clear_ipi, ack, set_plic, Executes, swVars
<1>2. PICK f, g, o, q, m, l, b : f = frame /\ g = Tail(frame) /\ o = counts /\ q = plic /\ m = msip /\ l = line /\ b = cb
  OBVIOUS
<1>3. f # <<>> /\ IsSeq(f) /\ Now = f[1] /\ FrameOk(f) /\ Popped(f, g)
  BY <1>1, <1>2, InFrame
<1>4. frame' = g /\ trail' = trail
  BY <1>1, <1>2, <1>3 DEF Advance
<1>5. HisInv'
  BY <1>1, <1>4, HisSame
<1>6. /\ b \in CbType /\ PlicType(q) /\ CountsType(o) /\ m \in BOOLEAN /\ l \in BOOLEAN
      /\ (Holds(f, "complete") => q.ia /\ ~q.ip) /\ (q.ip => q.ia /\ l)
      /\ o.served["sw"] + Due(f, "sw", m, "clear_ipi") <= o.asked["sw"]
      /\ o.served["ext"] + Due(f, "ext", l, "ack") <= o.asked["ext"]
  BY <1>2 DEF OnceInv, IrqInv
<1>7. FrameOk(g) /\ (Holds(g, "complete") => Holds(f, "complete"))
  BY <1>3, Zenon DEF Popped
<1>8. "sw" \in Causes /\ "ext" \in Causes
  BY DEF Causes
<1>9. o.served["sw"] \in Nat /\ o.asked["sw"] \in Nat /\ o.served["ext"] \in Nat /\ o.asked["ext"] \in Nat
  BY <1>6, <1>8, CountsNat
<1>10. PICK L \in Nat : L = Len(f) /\ 1 \in 1 .. L
  BY <1>3, SeqFacts
<1>11. CASE clear_ipi
  <2>0. PICK low \in BOOLEAN : low = FALSE
    OBVIOUS
  <2>1. f[1].op = "clear_ipi" /\ msip' = low /\ plic' = q /\ line' = l /\ counts' = o /\ cb' = b
    BY <1>1, <1>2, <1>3, <1>11, <2>0 DEF clear_ipi, Executes
  <2>2. Due(g, "sw", low, "clear_ipi") <= Due(f, "sw", m, "clear_ipi")
    BY <1>3, <1>6, <2>0, DueCleared
  <2>3. f[1].op # "ack"
    BY <2>1
  <2>4. Due(g, "ext", l, "ack") <= Due(f, "ext", l, "ack")
    BY <1>3, <1>6, <2>3, DueFalls
  <2>5. o.served["sw"] + Due(g, "sw", low, "clear_ipi") <= o.asked["sw"]
    BY <1>6, <1>9, <2>2, DueNat
  <2>6. o.served["ext"] + Due(g, "ext", l, "ack") <= o.asked["ext"]
    BY <1>6, <1>9, <2>4, DueNat
  <2>8. IrqInv'
    BY <1>4, <1>6, <1>7, <2>1, <2>5, <2>6, IrqHolds
  <2> QED BY <1>5, <2>8
<1>12. CASE ack
  <2>0. PICK low \in BOOLEAN : low = FALSE
    OBVIOUS
  <2>1. f[1].op = "ack" /\ line' = low /\ plic' = q /\ msip' = m /\ counts' = o /\ cb' = b
    BY <1>1, <1>2, <1>3, <1>12, <2>0 DEF ack, Executes
  <2>2. Due(g, "ext", low, "ack") <= Due(f, "ext", l, "ack")
    BY <1>3, <1>6, <2>0, DueCleared
  <2>3. f[1].op # "clear_ipi"
    BY <2>1
  <2>4. Due(g, "sw", m, "clear_ipi") <= Due(f, "sw", m, "clear_ipi")
    BY <1>3, <1>6, <2>3, DueFalls
  <2>5. o.served["ext"] + Due(g, "ext", low, "ack") <= o.asked["ext"]
    BY <1>6, <1>9, <2>2, DueNat
  <2>6. o.served["sw"] + Due(g, "sw", m, "clear_ipi") <= o.asked["sw"]
    BY <1>6, <1>9, <2>4, DueNat
  <2>7. ~q.ip
    <3>1. Holds(f, "complete")
      BY <1>3, <1>10, <2>1 DEF FrameOk, Holds
    <3> QED BY <1>6, <3>1
  <2>9. IrqInv'
    BY <1>4, <1>6, <1>7, <2>1, <2>5, <2>6, <2>7, IrqHolds
  <2> QED BY <1>5, <2>9
<1>13. CASE set_plic("complete", "ia", FALSE)
  <2>1. f[1].op = "complete" /\ plic' = [q EXCEPT !.ia = FALSE] /\ line' = l /\ msip' = m /\ counts' = o /\ cb' = b
    BY <1>1, <1>2, <1>3, <1>13 DEF set_plic, Executes
  <2>2. f[1].op # "clear_ipi" /\ f[1].op # "ack"
    BY <2>1
  <2>3. Due(g, "sw", m, "clear_ipi") <= Due(f, "sw", m, "clear_ipi")
    BY <1>3, <1>6, <2>2, DueFalls
  <2>4. Due(g, "ext", l, "ack") <= Due(f, "ext", l, "ack")
    BY <1>3, <1>6, <2>2, DueFalls
  <2>5. o.served["ext"] + Due(g, "ext", l, "ack") <= o.asked["ext"]
    BY <1>6, <1>9, <2>4, DueNat
  <2>6. o.served["sw"] + Due(g, "sw", m, "clear_ipi") <= o.asked["sw"]
    BY <1>6, <1>9, <2>3, DueNat
  <2>7. ~q.ip /\ ~Holds(g, "complete")
    <3>1. Holds(f, "complete")
      BY <1>10, <2>1 DEF Holds
    <3>2. ~Holds(g, "complete")
      BY <1>3, <2>1, Zenon DEF Popped
    <3> QED BY <1>6, <3>1, <3>2
  <2>8. PICK p : p = [q EXCEPT !.ia = FALSE]
    OBVIOUS
  <2>9. PlicType(p) /\ p.ip = q.ip
    BY <1>6, <2>8 DEF PlicType
  <2>10. plic' = p /\ ~p.ip
    BY <2>1, <2>7, <2>8, <2>9
  <2>11. IrqInv'
    BY <1>4, <1>6, <1>7, <2>1, <2>5, <2>6, <2>7, <2>9, <2>10, IrqHolds
  <2> QED BY <1>5, <2>11
<1> QED BY <1>11, <1>12, <1>13

\* The claim: the callback and the completion take its place.
LEMMA ClaimOnes ==
  ASSUME OnceInv, claim
  PROVE  IrqInv' /\ HisInv'
<1>1. /\ ~Halted /\ Now.op = "claim" /\ UNCHANGED <<prog, trail, cb, hits, counts, msip, line, eoc>>
      /\ plic' = [plic EXCEPT !.ip = FALSE]
  BY DEF claim, Executes, swVars
<1>2. PICK f, t, o, q, m, l, b : f = frame /\ t = Tail(frame) /\ o = counts /\ q = plic /\ m = msip /\ l = line /\ b = cb
  OBVIOUS
<1>3. f # <<>> /\ IsSeq(f) /\ Now = f[1] /\ FrameOk(f)
  BY <1>1, <1>2, InFrame
<1>4. HisInv'
  BY <1>1, HisSame
<1>5. /\ b \in CbType /\ PlicType(q) /\ CountsType(o) /\ m \in BOOLEAN /\ l \in BOOLEAN /\ (q.ip => q.ia /\ l)
      /\ o.served["sw"] + Due(f, "sw", m, "clear_ipi") <= o.asked["sw"]
      /\ o.served["ext"] + Due(f, "ext", l, "ack") <= o.asked["ext"]
  BY <1>2 DEF OnceInv, IrqInv
<1>6. CASE ~q.ip
  <2>1. frame' = Tail(frame)
    BY <1>2, <1>6 DEF claim
  <2>2. PlicType(plic') /\ plic'.ip = plic.ip /\ plic'.ia = plic.ia
    BY <1>1, <1>2, <1>5, <1>6 DEF PlicType
  <2>3. Plain
    BY <1>1, <1>2, <1>3, <2>1, <2>2, TypesStay, StillRuns DEF Plain
  <2> QED BY <2>3, PlainOnce
<1>7. CASE q.ip
  <2>1. PICK L \in Nat : L = Len(f) /\ 1 \in 1 .. L
    BY <1>3, SeqFacts
  <2>2. L = 2 /\ f[1].op = "claim" /\ f[2].op = "mret"
    <3>1. L = 2 /\ f[1].op = "claim"
      BY <1>1, <1>3, <2>1 DEF FrameOk
    <3>2. f[L].op = "mret"
      BY <1>2, <1>3, <2>1 DEF OnceInv, ResInv, InHandler
    <3> QED BY <3>1, <3>2
  <2>3. IsSeq(t) /\ Len(t) = 1 /\ t[1].op = "mret"
    <3>1. IsSeq(t) /\ Len(t) = 2 - 1 /\ \A k \in 1 .. 2 - 1 : t[k] = f[k + 1]
      BY <1>2, <1>3, <2>1, <2>2, SeqFacts
    <3>2. 1 \in 1 .. 2 - 1 /\ 1 + 1 = 2 /\ 2 - 1 = 1
      OBVIOUS
    <3>3. t[1] = f[2]
      BY <3>1, <3>2
    <3> QED BY <2>2, <3>1, <3>2, <3>3
  <2>4. (\A c : ~HitFor(f, c)) /\ ~Holds(f, "ack") /\ ~Holds(f, "clear_ipi")
    <3>1. \A k \in 1 .. 2 : k = 1 \/ k = 2
      OBVIOUS
    <3> QED BY <2>1, <2>2, <3>1 DEF Holds, HitFor
  <2>5. PICK s, y : s = Callback(cb.ext) /\ y = <<Op("complete", "")>>
    OBVIOUS
  <2>6. Calls(s, "ext")
    BY <1>2, <1>5, <2>5, CallbackCalls
  <2>7. IsSeq(y) /\ Len(y) = 1 /\ y[1].op = "complete"
    <3>1. PICK v : v = Op("complete", "")
      OBVIOUS
    <3>2. v.op = "complete" /\ y = <<v>>
      BY <2>5, <3>1 DEF Op
    <3> QED BY <3>2, OneElement
  <2>8. PICK x, g : x = s \o y /\ g = x \o t
    OBVIOUS
  <2>9. BodyOk(x) /\ (HitFor(x, "ext") => Holds(x, "ack")) /\ ~Holds(x, "clear_ipi") /\ \A d : HitFor(x, d) => d = "ext"
    BY <2>6, <2>7, <2>8, CompletedBody
  <2>10. Like(g, x)
    BY <2>3, <2>8, <2>9, WithReturn
  <2>11. frame' = g
    BY <1>2, <1>7, <2>5, <2>8 DEF claim
  <2>12. FrameOk(g) /\ (HitFor(g, "ext") => Holds(g, "ack")) /\ ~HitFor(g, "sw")
    <3>1. ~HitFor(x, "sw")
      BY <2>9
    <3> QED BY <2>9, <2>10, <3>1 DEF Like
  <2>13. Due(g, "sw", m, "clear_ipi") <= Due(f, "sw", m, "clear_ipi")
    BY <1>5, <2>4, <2>12 DEF Due
  <2>14. Due(g, "ext", l, "ack") <= Due(f, "ext", l, "ack")
    BY <1>5, <1>7, <2>4, <2>12 DEF Due
  <2>15. "sw" \in Causes /\ "ext" \in Causes
    BY DEF Causes
  <2>16. o.served["sw"] \in Nat /\ o.asked["sw"] \in Nat /\ o.served["ext"] \in Nat /\ o.asked["ext"] \in Nat
    BY <1>5, <2>15, CountsNat
  <2>17. o.served["sw"] + Due(g, "sw", m, "clear_ipi") <= o.asked["sw"]
    BY <1>5, <2>13, <2>16, DueNat
  <2>18. o.served["ext"] + Due(g, "ext", l, "ack") <= o.asked["ext"]
    BY <1>5, <2>14, <2>16, DueNat
  <2>19. PICK p : p = [q EXCEPT !.ip = FALSE]
    OBVIOUS
  <2>20. PlicType(p) /\ ~p.ip /\ p.ia
    BY <1>5, <1>7, <2>19 DEF PlicType
  <2>21. plic' = p /\ cb' = b /\ counts' = o /\ msip' = m /\ line' = l
    BY <1>1, <1>2, <2>19
  <2>22. IrqInv'
    BY <1>5, <2>11, <2>12, <2>17, <2>18, <2>20, <2>21, IrqHolds
  <2> QED BY <1>4, <2>22
<1> QED BY <1>6, <1>7

\* The gateway passes a request on only when none is in service.
LEMMA GatewayOnes ==
  ASSUME OnceInv, gateway
  PROVE  IrqInv' /\ HisInv'
<1>1. /\ ~Halted /\ line /\ ~plic.ia /\ UNCHANGED <<prog, trail, frame, cb, hits, counts, msip, line, eoc>>
      /\ plic' = [plic EXCEPT !.ip = TRUE, !.ia = TRUE]
  BY DEF gateway, swVars
<1>2. PICK f, o, q, m, l, b : f = frame /\ o = counts /\ q = plic /\ m = msip /\ l = line /\ b = cb
  OBVIOUS
<1>3. HisInv'
  BY <1>1, HisSame
<1>4. /\ b \in CbType /\ PlicType(q) /\ CountsType(o) /\ m \in BOOLEAN /\ l \in BOOLEAN /\ FrameOk(f)
      /\ (Holds(f, "complete") => q.ia)
      /\ o.served["sw"] + Due(f, "sw", m, "clear_ipi") <= o.asked["sw"]
      /\ o.served["ext"] + Due(f, "ext", l, "ack") <= o.asked["ext"]
  BY <1>2 DEF OnceInv, IrqInv
<1>5. ~Holds(f, "complete") /\ l
  BY <1>1, <1>2, <1>4
<1>6. PICK p : p = [q EXCEPT !.ip = TRUE, !.ia = TRUE]
  OBVIOUS
<1>7. PlicType(p) /\ p.ip /\ p.ia
  BY <1>4, <1>6 DEF PlicType
<1>8. frame' = f /\ plic' = p /\ cb' = b /\ counts' = o /\ msip' = m /\ line' = l
  BY <1>1, <1>2, <1>6
<1>9. IrqInv'
  BY <1>4, <1>5, <1>7, <1>8, IrqHolds
<1> QED BY <1>3, <1>9

\* A program asks for a cause once.
LEMMA NotAskedYet ==
  ASSUME OnceInv, NEW c \in Asked, Now.op = AskOp[c]
  PROVE  /\ frame = <<>> /\ Now = Code[pc] /\ counts.asked[c] = 0 /\ counts.served[c] = 0
<1>1. frame = <<>> /\ Now = Code[pc] /\ pc \in Starts(Code) /\ prog \in DOMAIN Text /\ trail = Before(pc)
  BY InProgram DEF OnceInv, Asked, AskOp, CbOps
<1>2. Closed(Code) /\ Running(Code)
  BY <1>1, ProgramsClosed, ProgramsRun DEF Code
<1>3. DOMAIN Code = 1 .. Len(Code) /\ Len(Code) \in Nat
  BY <1>2 DEF Running
<1>4. AskOp[c] \in AskOps
  BY DEF Asked, AskOp, AskOps
<1>5. ASSUME NEW i \in trail, Code[i].op = AskOp[c] PROVE FALSE
  <2>1. i \in 1 .. Len(Code) /\ pc \in 1 .. Len(Code) /\ i < pc
    BY <1>1, <1>3, <1>5 DEF Before, Starts
  <2>2. Code[i].op \in AskOps /\ Code[pc].op \in AskOps
    BY <1>1, <1>4, <1>5
  <2>3. i = pc
    BY <1>2, <2>1, <2>2 DEF Closed, NoAsk, Answered
  <2> QED BY <2>1, <2>3
<1>6. c \in Causes /\ CountsType(counts)
  BY DEF Asked, Causes, OnceInv, IrqInv
<1>7. counts.asked[c] \in Nat /\ counts.served[c] \in Nat
  BY <1>6, CountsNat
<1>8. counts.asked[c] = 0
  BY <1>5, <1>7 DEF OnceInv, HisInv
<1>9. counts.served[c] <= counts.asked[c]
  <2>1. CASE c = "sw"
    <3>1. counts.served[c] + Due(frame, c, msip, "clear_ipi") <= counts.asked[c]
      BY <2>1 DEF OnceInv, IrqInv
    <3> QED BY <1>7, <3>1, DueNat
  <2>2. CASE c = "ext"
    <3>1. counts.served[c] + Due(frame, c, line, "ack") <= counts.asked[c]
      BY <2>2 DEF OnceInv, IrqInv
    <3> QED BY <1>7, <3>1, DueNat
  <2> QED BY <2>1, <2>2 DEF Asked
<1> QED BY <1>1, <1>7, <1>8, <1>9

\* One of the counts is set.
LEMMA CountSet ==
  ASSUME NEW o, CountsType(o), NEW c \in Causes, NEW v \in Nat, NEW n, n = [o EXCEPT !.asked[c] = v]
  PROVE  CountsType(n) /\ n.served = o.served /\ \A d \in Causes : n.asked[d] = IF d = c THEN v ELSE o.asked[d]
BY DEF CountsType

\* The history after a request.
LEMMA AskedHis ==
  ASSUME OnceInv, NEW c \in Asked, Now.op = AskOp[c], frame = <<>>, Now = Code[pc], counts.asked[c] = 0,
         trail' = trail \cup {pc}, UNCHANGED <<prog, hits, eoc>>, ~Halted,
         NEW n, counts' = n, CountsType(n), n.served = counts.served,
         \A d \in Causes : n.asked[d] = IF d = c THEN 1 ELSE counts.asked[d]
  PROVE  /\ HisInv' /\ CountsType(counts') /\ counts'.served = counts.served /\ counts'.asked[c] = 1
         /\ \A d \in Asked : d # c => counts'.asked[d] = counts.asked[d]
<1>1. CountsType(counts) /\ c \in Causes /\ Asked \subseteq Causes
  BY DEF OnceInv, IrqInv, Asked, Causes
<1>2. /\ CountsType(counts') /\ counts'.served = counts.served
      /\ \A d \in Causes : counts'.asked[d] = IF d = c THEN 1 ELSE counts.asked[d]
  OBVIOUS
<1>3. Code' = Code /\ ~Halted'
  BY StillRuns DEF Code
<1>4. ASSUME NEW d \in Asked
      PROVE  counts'.asked[d] <= 1 /\ (counts'.asked[d] > 0 => \E i \in trail' : Code[i].op = AskOp[d])
  <2>1. CASE d = c
    <3>1. counts'.asked[d] = 1 /\ pc \in trail' /\ Code[pc].op = AskOp[d]
      BY <1>1, <1>2, <2>1
    <3> QED BY <3>1
  <2>2. CASE d # c
    <3>1. counts'.asked[d] = counts.asked[d] /\ trail \subseteq trail'
      BY <1>1, <1>2, <2>2
    <3> QED BY <3>1 DEF OnceInv, HisInv
  <2> QED BY <2>1, <2>2
<1>5. ASSUME NEW i \in trail', Code[i].op = "wait" PROVE Code[i].arg \in hits'
  <2>1. Code[pc].op # "wait"
    BY DEF Asked, AskOp
  <2>2. i \in trail
    BY <1>5, <2>1
  <2> QED BY <1>5, <2>2 DEF OnceInv, HisInv
<1>6. ASSUME NEW d \in Asked
      PROVE  (counts.asked[d] <= 1 /\ (counts.asked[d] > 0 => \E i \in trail : Code[i].op = AskOp[d]))'
  BY <1>3, <1>4 DEF AskOp
<1>7. (\A i \in trail : Code[i].op = "wait" => Code[i].arg \in hits)'
  BY <1>3, <1>5
<1>8. \A d \in Causes : d \in hits' => counts'.served[d] > 0
  BY <1>2 DEF OnceInv, HisInv
<1>9. HisInv'
  BY <1>3, <1>6, <1>7, <1>8 DEF HisInv, Asked, Causes
<1>10. counts'.asked[c] = 1 /\ \A d \in Asked : d # c => counts'.asked[d] = counts.asked[d]
  BY <1>1, <1>2
<1> QED BY <1>2, <1>9, <1>10

\* The two requests.
LEMMA AskingOnes ==
  ASSUME OnceInv, send_ipi \/ doorbell
  PROVE  IrqInv' /\ HisInv'
<1>1. PICK f, o, q, m, l, b : f = frame /\ o = counts /\ q = plic /\ m = msip /\ l = line /\ b = cb
  OBVIOUS
<1>2. /\ b \in CbType /\ PlicType(q) /\ CountsType(o) /\ m \in BOOLEAN /\ l \in BOOLEAN /\ FrameOk(f)
      /\ (Holds(f, "complete") => q.ia /\ ~q.ip) /\ (q.ip => q.ia /\ l)
      /\ o.served["sw"] + Due(f, "sw", m, "clear_ipi") <= o.asked["sw"]
      /\ o.served["ext"] + Due(f, "ext", l, "ack") <= o.asked["ext"]
  BY <1>1 DEF OnceInv, IrqInv
<1>3. PICK high \in BOOLEAN : high = TRUE
  OBVIOUS
<1>4. CASE send_ipi
  <2>1. /\ ~Halted /\ Now.op = "send_ipi" /\ Advance /\ msip' = high /\ counts' = [counts EXCEPT !.asked["sw"] = @ + 1]
        /\ UNCHANGED <<prog, cb, hits, plic, line, eoc>>
    BY <1>3, <1>4 DEF send_ipi, Executes, swVars
  <2>2. PICK c \in Asked : c = "sw" /\ AskOp[c] = "send_ipi"
    BY DEF Asked, AskOp
  <2>3. frame = <<>> /\ Now = Code[pc] /\ counts.asked[c] = 0 /\ counts.served[c] = 0
    BY <2>1, <2>2, NotAskedYet
  <2>4. trail' = trail \cup {pc} /\ frame' = f
    BY <1>1, <2>1, <2>3 DEF Advance
  <2>5. PICK n : n = [o EXCEPT !.asked[c] = 1]
    OBVIOUS
  <2>6. CountsType(n) /\ n.served = o.served /\ \A d \in Causes : n.asked[d] = IF d = c THEN 1 ELSE o.asked[d]
    <3>1. c \in Causes /\ 1 \in Nat
      BY <2>2 DEF Causes
    <3> QED BY <1>2, <2>5, <3>1, CountSet
  <2>7. counts' = n
    BY <1>1, <2>1, <2>2, <2>3, <2>5
  <2>8. HisInv' /\ CountsType(counts') /\ counts'.served = counts.served /\ counts'.asked[c] = 1
        /\ \A d \in Asked : d # c => counts'.asked[d] = counts.asked[d]
    BY <1>1, <2>1, <2>2, <2>3, <2>4, <2>6, <2>7, AskedHis
  <2>9. CountsType(n) /\ n.served = o.served /\ n.asked["sw"] = 1 /\ n.asked["ext"] = o.asked["ext"] /\ o.served["sw"] = 0
    BY <1>1, <2>2, <2>3, <2>8, <2>7 DEF Asked
  <2>10. Due(f, "sw", high, "clear_ipi") <= 1
    <3>1. \A d : ~HitFor(f, d)
      BY <1>1, <2>3, EmptyFrame, Zenon
    <3> QED BY <3>1 DEF Due
  <2>11. n.served["sw"] + Due(f, "sw", high, "clear_ipi") <= n.asked["sw"]
    BY <2>9, <2>10, DueNat
  <2>12. n.served["ext"] + Due(f, "ext", l, "ack") <= n.asked["ext"]
    BY <1>2, <2>9
  <2>13. plic' = q /\ cb' = b /\ counts' = n /\ msip' = high /\ line' = l
    BY <1>1, <2>1, <2>7
  <2>14. IrqInv'
    BY <1>2, <2>4, <2>9, <2>11, <2>12, <2>13, IrqHolds
  <2> QED BY <2>8, <2>14
<1>5. CASE doorbell
  <2>1. /\ ~Halted /\ Now.op = "doorbell" /\ Advance /\ line' = high /\ counts' = [counts EXCEPT !.asked["ext"] = @ + 1]
        /\ UNCHANGED <<prog, cb, hits, plic, msip, eoc>>
    BY <1>3, <1>5 DEF doorbell, Executes, swVars
  <2>2. PICK c \in Asked : c = "ext" /\ AskOp[c] = "doorbell"
    BY DEF Asked, AskOp
  <2>3. frame = <<>> /\ Now = Code[pc] /\ counts.asked[c] = 0 /\ counts.served[c] = 0
    BY <2>1, <2>2, NotAskedYet
  <2>4. trail' = trail \cup {pc} /\ frame' = f
    BY <1>1, <2>1, <2>3 DEF Advance
  <2>5. PICK n : n = [o EXCEPT !.asked[c] = 1]
    OBVIOUS
  <2>6. CountsType(n) /\ n.served = o.served /\ \A d \in Causes : n.asked[d] = IF d = c THEN 1 ELSE o.asked[d]
    <3>1. c \in Causes /\ 1 \in Nat
      BY <2>2 DEF Causes
    <3> QED BY <1>2, <2>5, <3>1, CountSet
  <2>7. counts' = n
    BY <1>1, <2>1, <2>2, <2>3, <2>5
  <2>8. HisInv' /\ CountsType(counts') /\ counts'.served = counts.served /\ counts'.asked[c] = 1
        /\ \A d \in Asked : d # c => counts'.asked[d] = counts.asked[d]
    BY <1>1, <2>1, <2>2, <2>3, <2>4, <2>6, <2>7, AskedHis
  <2>9. CountsType(n) /\ n.served = o.served /\ n.asked["ext"] = 1 /\ n.asked["sw"] = o.asked["sw"] /\ o.served["ext"] = 0
    BY <1>1, <2>2, <2>3, <2>8, <2>7 DEF Asked
  <2>10. Due(f, "ext", high, "ack") <= 1
    <3>1. \A d : ~HitFor(f, d)
      BY <1>1, <2>3, EmptyFrame, Zenon
    <3> QED BY <3>1 DEF Due
  <2>11. n.served["ext"] + Due(f, "ext", high, "ack") <= n.asked["ext"]
    BY <2>9, <2>10, DueNat
  <2>12. n.served["sw"] + Due(f, "sw", m, "clear_ipi") <= n.asked["sw"]
    BY <1>2, <2>9
  <2>13. plic' = q /\ cb' = b /\ counts' = n /\ msip' = m /\ line' = high
    BY <1>1, <2>1, <2>7
  <2>14. q.ip => q.ia /\ high
    BY <1>2, <1>3
  <2>15. IrqInv'
    BY <1>2, <2>4, <2>9, <2>11, <2>12, <2>13, <2>14, IrqHolds
  <2> QED BY <2>8, <2>15
<1> QED BY <1>4, <1>5

\* A step that leaves all of this alone.
LEMMA OnceSame ==
  ASSUME OnceInv, UNCHANGED <<prog, pc, frame, trail, cb, hits, plic, counts, msip, line>>,
         Halted' => Halted \/ (frame = <<>> /\ Code[pc].op = "exit")
  PROVE  IrqInv' /\ HisInv'
<1>1. IrqInv'
  <2>1. IrqInv
    BY DEF OnceInv
  <2> QED BY <2>1 DEF IrqInv, PlicType, CountsType, CbType, FrameOk, Once, Holds, HitFor, Due
<1>2. HisInv'
  <2>1. HisInv /\ Code' = Code
    BY DEF OnceInv, Code
  <2>2. Halted' => frame' = <<>> /\ Code'[pc'].op = "exit"
    BY <2>1 DEF HisInv
  <2> QED BY <2>1, <2>2 DEF HisInv, Asked, AskOp, Causes
<1> QED BY <1>1, <1>2

\* The exit stands at the end of the program, outside of every handler.
LEMMA ExitOnes ==
  ASSUME OnceInv, exit
  PROVE  IrqInv' /\ HisInv'
<1>1. Now.op = "exit" /\ UNCHANGED <<prog, pc, frame, trail, cb, hits, plic, counts, msip, line>>
  BY DEF exit, Executes, swVars, irqVars
<1>2. frame = <<>>
  BY <1>1, HandlerOps DEF OnceInv, CbOps
<1>3. Code[pc].op = "exit"
  BY <1>1, <1>2 DEF Now, Code
<1> QED BY <1>1, <1>2, <1>3, OnceSame

\* Every step keeps the invariant.
LEMMA OnceKept ==
  OnceInv /\ [BspNext]_bspVars => OnceInv'
<1> SUFFICES ASSUME OnceInv, [BspNext]_bspVars PROVE OnceInv'
  OBVIOUS
<1>1. ResInv'
  BY ResKept DEF OnceInv
<1>2. CASE thre \/ csrs_mie \/ csrs_mstatus \/ li \/ wait \/ start_delay \/ delayed \/ syscall \/ advance_mepc
  BY <1>1, <1>2, SilentOnes DEF OnceInv
<1>3. CASE \/ pre_main \/ register_cb("register_timer_cb", "timer") \/ register_cb("register_ipi_cb", "sw")
           \/ register_cb("register_handler", "ext") \/ set_plic("set_priority", "prio", Now.arg)
           \/ set_plic("set_threshold", "threshold", Now.arg) \/ set_plic("enable", "enable", TRUE)
  BY <1>1, <1>3, SettingOnes DEF OnceInv
<1>4. CASE write_thr \/ schedule_after \/ set_mtimecmp
  BY <1>1, <1>4, CountingOnes DEF OnceInv
<1>5. CASE mret \/ tick
  BY <1>1, <1>5, ReturningOnes DEF OnceInv
<1>6. CASE hit
  BY <1>1, <1>6, HitOnes DEF OnceInv
<1>7. CASE send_ipi \/ doorbell
  BY <1>1, <1>7, AskingOnes DEF OnceInv
<1>8. CASE clear_ipi \/ ack \/ set_plic("complete", "ia", FALSE)
  BY <1>1, <1>8, DroppingOnes DEF OnceInv
<1>9. CASE claim
  BY <1>1, <1>9, ClaimOnes DEF OnceInv
<1>10. CASE exception("ecall") \/ exception("illegal")
  BY <1>1, <1>10, ExceptionOnes DEF OnceInv
<1>11. CASE take_interrupt
  BY <1>1, <1>11, InterruptOnes DEF OnceInv
<1>12. CASE gateway
  BY <1>1, <1>12, GatewayOnes DEF OnceInv
<1>13. CASE exit
  BY <1>1, <1>13, ExitOnes DEF OnceInv
<1>14. CASE UNCHANGED bspVars
  <2>1. UNCHANGED <<prog, pc, frame, trail, cb, hits, plic, counts, msip, line>> /\ (Halted' => Halted)
    BY <1>14 DEF bspVars, swVars, irqVars, Halted, None
  <2> QED BY <1>1, <2>1, OnceSame DEF OnceInv
<1> QED BY <1>2, <1>3, <1>4, <1>5, <1>6, <1>7, <1>8, <1>9, <1>10, <1>11, <1>12, <1>13, <1>14 DEF BspNext, run

\* What was asked for has been waited for when the program ends.
LEMMA OnceGives ==
  OnceInv => InterruptsOnce
<1> SUFFICES ASSUME OnceInv, NEW c \in Asked
             PROVE  counts.served[c] <= counts.asked[c] /\ (Halted => counts.served[c] = counts.asked[c])
  BY DEF InterruptsOnce, Asked
<1>1. c \in Causes /\ CountsType(counts)
  BY DEF Asked, Causes, OnceInv, IrqInv
<1>2. counts.asked[c] \in Nat /\ counts.served[c] \in Nat /\ counts.asked[c] <= 1
  BY <1>1, CountsNat DEF OnceInv, HisInv
<1>3. counts.served[c] <= counts.asked[c]
  <2>1. CASE c = "sw"
    <3>1. counts.served[c] + Due(frame, c, msip, "clear_ipi") <= counts.asked[c]
      BY <2>1 DEF OnceInv, IrqInv
    <3> QED BY <1>2, <3>1, DueNat
  <2>2. CASE c = "ext"
    <3>1. counts.served[c] + Due(frame, c, line, "ack") <= counts.asked[c]
      BY <2>2 DEF OnceInv, IrqInv
    <3> QED BY <1>2, <3>1, DueNat
  <2> QED BY <2>1, <2>2 DEF Asked
<1>4. ASSUME Halted, counts.asked[c] > 0 PROVE counts.served[c] > 0
  <2>1. frame = <<>> /\ Code[pc].op = "exit" /\ trail = Before(pc) /\ pc \in Starts(Code) /\ prog \in DOMAIN Text
    BY <1>4 DEF OnceInv, HisInv, ResInv
  <2>2. Closed(Code) /\ Running(Code)
    BY <2>1, ProgramsClosed, ProgramsRun DEF Code
  <2>3. DOMAIN Code = 1 .. Len(Code) /\ Len(Code) \in Nat
    BY <2>2 DEF Running
  <2>4. PICK i \in trail : Code[i].op = AskOp[c]
    BY <1>4 DEF OnceInv, HisInv
  <2>5. i \in 1 .. Len(Code) /\ pc \in 1 .. Len(Code) /\ Code[i].op \in AskOps
    BY <2>1, <2>3, <2>4 DEF Before, Starts, AskOp, AskOps, Asked
  <2>6. PICK d \in Asked : Answered(Code, d)
    BY <2>2, <2>5 DEF Closed, NoAsk
  <2>7. PICK w \in 1 .. Len(Code) : Code[i].op = AskOp[d] /\ Code[w].op = "wait" /\ Code[w].arg = d
    BY <2>5, <2>6 DEF Answered
  <2>8. d = c
    BY <2>4, <2>7 DEF Asked, AskOp
  <2>9. w <= pc /\ w # pc
    BY <2>1, <2>2, <2>5, <2>7 DEF Running
  <2>10. w \in trail
    BY <2>1, <2>3, <2>5, <2>7, <2>9 DEF Before, Starts
  <2>11. c \in hits
    BY <2>7, <2>8, <2>10 DEF OnceInv, HisInv
  <2> QED BY <1>1, <2>11 DEF OnceInv, HisInv
<1> QED BY <1>2, <1>3, <1>4

\* A callback of the software or the external interrupt runs no more often than
\* it was asked for, and when the program ends just as often: the signal is
\* dropped in the handler before it returns (clint.c:89, plic.c:74, the ISR of
\* default_slave), and the program waits for the flag before it goes on.
THEOREM InterruptsOnceHolds ==
  BspSpec => []InterruptsOnce
BY OnceStarts, OnceKept, OnceGives, PTL DEF BspSpec
=============================================================================
