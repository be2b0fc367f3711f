----------------------------- MODULE MxuProofs -----------------------------
(***************************************************************************)
(* The matrix unit, sequencer and datapath together, keeps its weights in  *)
(* place while rows are in the arrays and takes the steps of MxuJob: for   *)
(* every address width, tile base and batch.                               *)
(*                                                                         *)
(* The invariant follows the weights cycle by cycle from the banks to the  *)
(* lines (LoadInv) and gives each register between the front rotator and   *)
(* the output banks the row that is in it (FlowInv).                       *)
(***************************************************************************)
EXTENDS Mxu, MxuCtrlProofs

\* The row that lane l's transposer keeps of weight row x.
Slot(l, x)     == 4 * ((l + Group(x)) % 4) + Intra(x)
Slots(l, q)    == {Slot(l, x) : x \in 0 .. q - 1}
TileDiag(l, d) == [i \in Rows |-> TileWord(l, (d + i) % DEPTH)]

\* The signal x is high exactly when p.
Flag(x, p) == (p => x = TRUE) /\ (~p => x = FALSE)

\* The registers of a transposer.
Shape(s) ==
  /\ DOMAIN s = {"st", "mask", "mem", "cnt", "valid", "data"}
  /\ DOMAIN s.mem = Rows

\* A transposer at rest, one with the first q weight rows, a full one, and one
\* that has put out e diagonals.
Resting(s)    == Shape(s) /\ s.st = "IDLE" /\ s.mask = {} /\ s.valid = FALSE
Filling(s, l, q) ==
  /\ Shape(s) /\ s.st = "IDLE" /\ s.mask = Slots(l, q) /\ s.valid = FALSE
  /\ \A a \in s.mask : s.mem[a] = TileWord(l, a)
Full(s, l) ==
  /\ Shape(s) /\ s.st = "FULL" /\ s.cnt = DEPTH - 1 /\ s.valid = FALSE
  /\ \A a \in Rows : s.mem[a] = TileWord(l, a)
Emptying(s, l, e) ==
  /\ Shape(s)
  /\ e < DEPTH => /\ s.st = "OUTPUT" /\ s.cnt = DEPTH - 1 - e
                  /\ \A a \in Rows : s.mem[a] = TileWord(l, a)
  /\ e >= DEPTH => s.st = "IDLE" /\ s.mask = {}
  /\ Flag(s.valid, e >= 1 /\ e <= DEPTH)
  /\ e >= 1 /\ e <= DEPTH => s.data = TileDiag(l, DEPTH - e)

\* No line takes weights; nothing of a tile is left over; row q has been sent.
Disabled  == \A k \in Lines : wgtEnO[k] = FALSE
AtRest    == Disabled /\ \A l \in Lanes : Resting(semi[l])
Arriving(q) ==
  /\ Disabled /\ semiAddr = q /\ inValidD1 /\ front # None
  /\ \A l \in Lanes : front[l] = TileWord(l, Slot(l, q)) /\ Filling(semi[l], l, q)

\* The lines, e cycles after the transposers began to put out.
Passed(e) == IF e <= DEPTH + 1 THEN e ELSE DEPTH + 1
Shifting(e) ==
  /\ \A l \in Lanes : Emptying(semi[l], l, e)
  /\ \A k \in Lines : Flag(wgtEnO[k], k + 2 <= e /\ e <= DEPTH + 1)
  /\ \A l \in Lanes, k \in Lines : k + 2 <= e =>
       wgtLine[l][k] = TileDiag(l, DEPTH + 1 + k - Passed(e))
  /\ Flag(wgtDoneSeen, e = DEPTH + 2)

\* Every line holds its diagonal.
InPlace == \A l \in Lanes, k \in Lines : wgtLine[l][k] = TileDiag(l, k)

Loading == {"WGT_SEND", "WAIT_SEMI_FULL", "START_PUTOUT", "WAIT_WGT_DONE"}
Rowing  == {"ACT_SEND", "WAIT_COMPUTE_DONE", "OUT_WRITE"}

\* Where the weights are in each state of the sequencer.
LoadInv ==
  /\ state \notin Loading => AtRest
  /\ state \in {"WGT_REQ", "WGT_SEND", "WAIT_SEMI_FULL", "START_PUTOUT"} => wgtDoneSeen = FALSE
  /\ state = "WGT_REQ" => semiAddr = 0 /\ inValidD1 = FALSE /\ wgtRow = 0
  /\ state = "WGT_SEND" =>
       /\ \A l \in Lanes : wgtQ[l] = <<l, (cfg.wgt[(l - Group(wgtRow)) % 4] + Intra(wgtRow)) % ADDRS>>
       /\ wgtRow = 0 => AtRest /\ front = None /\ semiAddr = 0 /\ inValidD1 = FALSE
       /\ wgtRow > 0 => Arriving(wgtRow - 1)
  /\ state = "WAIT_SEMI_FULL" => Arriving(DEPTH - 1)
  /\ state = "START_PUTOUT" => Disabled /\ \A l \in Lanes : Full(semi[l], l)
  /\ state = "WAIT_WGT_DONE" => \E e \in 0 .. DEPTH + 2 : Shifting(e)
  /\ state \in {"GAP", "ACT_REQ"} \cup Rowing => InPlace

(***************************************************************************)
(* Activation row r: as the arrays get it, as the back rotator returns it  *)
(* and as the output port writes it.                                       *)
(***************************************************************************)
Quot(r) == r \div chunk
Rem(r)  == r % chunk
SentRow(r) == [l \in Lanes |-> <<(l + Quot(r)) % 4, (cfg.act[l] + Rem(r)) % ADDRS>>]
BackWord(r, l) == <<(l - Quot(r)) % 4, <<l, (cfg.act[(l - Quot(r)) % 4] + Rem(r)) % ADDRS>>>>
BackRow(r) == [l \in Lanes |-> BackWord(r, l)]
PortRow(r) == [l \in Lanes |-> <<(cfg.out[(l - Quot(r)) % 4] + Rem(r)) % ADDRS, BackWord(r, l)>>]

\* The activation banks answer with row r.
ActAnswer(r) ==
  \A l \in Lanes : actQ[l] = <<l, (cfg.act[(l - Quot(r)) % 4] + Rem(r)) % ADDRS>>

\* In the time of row s, row s - 1 - x is x registers behind the front rotator.
Inside(s, x) == x < s /\ s <= x + cfg.M
Held(s, x)   == IF Inside(s, x) THEN SentRow(s - 1 - x) ELSE None
Holding(s) ==
  /\ front = Held(s, 0)
  /\ \A k \in 1 .. 3 * DEPTH : pipe[k] = IF k <= ArrayLatency THEN Held(s, k) ELSE None
  /\ saQ = Held(s, ArrayLatency + 1)
  /\ back = IF Inside(s, ArrayLatency + 2) THEN BackRow(s - 1 - (ArrayLatency + 2)) ELSE None
  /\ \A i \in 0 .. BackDepth - 1 : backSel[i] = IF Inside(s, i) THEN Quot(s - 1 - i) % 4 ELSE NoSel

\* The rows that have left the arrays, and those that are in the banks.
Upto(n)   == IF n <= 0 THEN 0 ELSE IF n <= cfg.M THEN n ELSE cfg.M
Landed(n) == {<<l, PortRow(r)[l]>> : l \in Lanes, r \in 0 .. n - 1}
Collected(s) ==
  /\ PairIs(out, Upto(s - ArrayLatency - 3))
  /\ outPort = IF Inside(s, ArrayLatency + 3) THEN PortRow(s - 1 - (ArrayLatency + 3)) ELSE None
  /\ written = Landed(Upto(s - ArrayLatency - 4))

\* No row is on its way.
Drained ==
  /\ saQ = None /\ back = None
  /\ \A k \in 1 .. 3 * DEPTH : pipe[k] = None

(***************************************************************************)
(* Where the activation and result rows are.  In the waiting states s goes *)
(* on counting cycles; only of a legal batch is every result row written,  *)
(* of a longer one the first rows leave the arrays during ACT_SEND.        *)
(***************************************************************************)
FlowInv ==
  /\ state # "IDLE" => chunk = ChunkSafe
  /\ state \in BeforeSend \cup {"ACT_SEND"} => out = Zero /\ written = {}
  /\ state \notin {"WAIT_COMPUTE_DONE", "OUT_WRITE"} => outPort = None
  /\ state \notin Rowing \cup {"WGT_SEND", "WAIT_SEMI_FULL"} => front = None
  /\ state \notin Rowing => Drained
  /\ state \in BeforeSend => \A i \in 0 .. BackDepth - 1 : backSel[i] = NoSel
  /\ state = "ACT_SEND" => Holding(actRow) /\ ActAnswer(actRow)
  /\ state \in {"WAIT_COMPUTE_DONE", "OUT_WRITE"} =>
       \E s \in Nat :
         /\ s >= cfg.M /\ Holding(s) /\ (LegalJob(cfg) => Collected(s))
         /\ state = "OUT_WRITE" => s >= ArrayLatency + 3
  /\ state = "DONE" /\ LegalJob(cfg) => written = Job!Product(cfg)

\* The inductive invariant of the unit.
DataInv == IInv /\ LoadInv /\ FlowInv

----------------------------------------------------------------------------
\* A slot is a row of the transposer.
LEMMA SlotIs ==
  ASSUME NEW l \in Lanes, NEW x \in 0 .. 15
  PROVE  /\ Slot(l, x) \in Rows
         /\ Slot(l, x) \div 4 = (l + Group(x)) % 4
         /\ Slot(l, x) % 4 = Intra(x)
BY SixteenRows DEF Slot, Group, Intra, Lanes, Rows

\* A rotation is undone by its inverse.
LEMMA Rotations ==
  ASSUME NEW l \in Lanes, NEW g \in 0 .. 3
  PROVE  /\ (l + g) % 4 \in Lanes /\ (l - g) % 4 \in Lanes
         /\ (((l + g) % 4) - g) % 4 = l /\ (((l - g) % 4) + g) % 4 = l
         /\ \A h \in 0 .. 3 : (l + g) % 4 = (l + h) % 4 => g = h
BY DEF Lanes

\* Two weight rows never share a slot of a transposer.
LEMMA SlotOne ==
  ASSUME NEW l \in Lanes, NEW x \in 0 .. 15, NEW y \in 0 .. 15, Slot(l, x) = Slot(l, y)
  PROVE  x = y
<1>1. Group(x) \in 0 .. 3 /\ Group(y) \in 0 .. 3 /\ Intra(x) \in 0 .. 3 /\ Intra(y) \in 0 .. 3
      /\ x = 4 * Group(x) + Intra(x) /\ y = 4 * Group(y) + Intra(y)
  BY DEF Group, Intra
<1>2. Intra(x) = Intra(y) /\ (l + Group(x)) % 4 = (l + Group(y)) % 4
  BY SlotIs
<1>3. Group(x) = Group(y)
  BY <1>1, <1>2, Rotations
<1> QED
  BY <1>1, <1>2, <1>3

\* Every slot belongs to some weight row.
LEMMA SlotAll ==
  ASSUME NEW l \in Lanes, NEW a \in Rows
  PROVE  \E x \in 0 .. 15 : Slot(l, x) = a
<1>1. PICK b \in 0 .. 3, i \in 0 .. 3 : a = 4 * b + i
  <2>1. a \div 4 \in 0 .. 3 /\ a % 4 \in 0 .. 3 /\ a = 4 * (a \div 4) + (a % 4)
    BY SixteenRows DEF Rows
  <2> QED
    BY <2>1
<1>2. PICK g \in 0 .. 3 : (l + g) % 4 = b
  <2>1. (b - l) % 4 \in 0 .. 3 /\ (l + ((b - l) % 4)) % 4 = b
    BY DEF Lanes
  <2> QED
    BY <2>1
<1>3. PICK x \in 0 .. 15 : Group(x) = g /\ Intra(x) = i
  <2>1. 4 * g + i \in 0 .. 15 /\ Group(4 * g + i) = g /\ Intra(4 * g + i) = i
    BY DEF Group, Intra
  <2> QED
    BY <2>1
<1>4. Slot(l, x) = 4 * b + i
  BY <1>2, <1>3, Zenon DEF Slot
<1> QED
  BY <1>1, <1>4

\* The slots fill one by one, and are all rows only when every row has come.
LEMMA SlotsGrow ==
  ASSUME NEW l \in Lanes, NEW q \in 0 .. 15
  PROVE  /\ Slots(l, q) \union {Slot(l, q)} = Slots(l, q + 1)
         /\ Slots(l, q + 1) \subseteq Rows
         /\ q < 15 => Slots(l, q + 1) # Rows
         /\ q = 15 => Slots(l, q + 1) = Rows
<1>1. Slots(l, q) \union {Slot(l, q)} = Slots(l, q + 1)
  <2>1. 0 .. (q + 1) - 1 = (0 .. q - 1) \union {q}
    OBVIOUS
  <2> QED
    BY <2>1 DEF Slots
<1>2. Slots(l, q + 1) \subseteq Rows
  <2>1. \A x \in 0 .. (q + 1) - 1 : x \in 0 .. 15
    OBVIOUS
  <2> QED
    BY <2>1, SlotIs DEF Slots
<1>3. ASSUME q < 15 PROVE Slots(l, q + 1) # Rows
  <2>1. ASSUME NEW x \in 0 .. (q + 1) - 1 PROVE Slot(l, x) # Slot(l, 15)
    <3>1. x \in 0 .. 15 /\ 15 \in 0 .. 15 /\ x # 15
      BY <1>3
    <3> QED
      BY <3>1, SlotOne
  <2>2. Slot(l, 15) \notin Slots(l, q + 1)
    BY <2>1 DEF Slots
  <2> QED
    BY <2>2, SlotIs
<1>4. ASSUME q = 15 PROVE Rows \subseteq Slots(l, q + 1)
  <2>1. 0 .. (q + 1) - 1 = 0 .. 15
    BY <1>4
  <2> QED
    BY <2>1, SlotAll DEF Slots
<1> QED
  BY <1>1, <1>2, <1>3, <1>4

\* A whole row is never the bubble.
LEMMA RowIsSome ==
  ASSUME NEW f, DOMAIN f = Lanes PROVE f # None
<1>1. 0 \in Lanes
  BY DEF Lanes
<1>2. 0 \notin DOMAIN None
  BY DEF None
<1> QED
  BY <1>1, <1>2

IdleTo(s, t, mask, word, addr, wr) ==
  /\ Shape(t) /\ t.st = (IF mask = Rows THEN "FULL" ELSE "IDLE")
  /\ t.mask = mask /\ t.cnt = DEPTH - 1 /\ t.valid = FALSE
  /\ t.mem = IF wr THEN [s.mem EXCEPT ![addr] = word] ELSE s.mem

\* What a step does to a transposer that fills,
LEMMA SemiIdle ==
  ASSUME NEW s, Shape(s), s.st = "IDLE", NEW word, NEW addr, NEW wr \in BOOLEAN, NEW putout,
         NEW mask, mask = (IF wr THEN s.mask \union {addr} ELSE s.mask),
         NEW t, t = SemiStep(s, word, addr, wr, putout)
  PROVE  IdleTo(s, t, mask, word, addr, wr)
<1>1. t = [s EXCEPT !.st = IF mask = Rows THEN "FULL" ELSE "IDLE",
                      !.mask = mask,
                      !.mem = IF wr THEN [@ EXCEPT ![addr] = word] ELSE @,
                      !.cnt = DEPTH - 1,
                      !.valid = FALSE]
  BY DEF SemiStep
<1> QED
  BY <1>1 DEF Shape, IdleTo

FullTo(s, t, putout) ==
  /\ Shape(t) /\ t.st = (IF putout THEN "OUTPUT" ELSE "FULL")
  /\ t.mem = s.mem /\ t.cnt = s.cnt /\ t.valid = FALSE

\* to a full one
LEMMA SemiFull ==
  ASSUME NEW s, Shape(s), s.st = "FULL", NEW word, NEW addr, NEW wr \in BOOLEAN,
         NEW putout \in BOOLEAN, NEW t, t = SemiStep(s, word, addr, wr, putout)
  PROVE  FullTo(s, t, putout)
<1>1. t = [s EXCEPT !.st = IF putout THEN "OUTPUT" ELSE "FULL", !.valid = FALSE]
  BY DEF SemiStep
<1> QED
  BY <1>1 DEF Shape, FullTo

OutputTo(s, t) ==
  /\ Shape(t) /\ t.st = (IF s.cnt = 0 THEN "IDLE" ELSE "OUTPUT")
  /\ t.mask = (IF s.cnt = 0 THEN {} ELSE s.mask)
  /\ t.mem = s.mem /\ t.cnt = (s.cnt - 1) % DEPTH
  /\ t.valid = TRUE /\ t.data = Diagonal(s.mem, s.cnt)

\* and to one that puts out (semi_transposer.sv).
LEMMA SemiOutput ==
  ASSUME NEW s, Shape(s), s.st = "OUTPUT", NEW word, NEW addr, NEW wr \in BOOLEAN,
         NEW putout \in BOOLEAN, NEW t, t = SemiStep(s, word, addr, wr, putout)
  PROVE  OutputTo(s, t)
<1>1. t = [s EXCEPT !.st = IF s.cnt = 0 THEN "IDLE" ELSE "OUTPUT",
                      !.mask = IF s.cnt = 0 THEN {} ELSE @,
                      !.data = Diagonal(s.mem, s.cnt),
                      !.cnt = (@ - 1) % DEPTH,
                      !.valid = TRUE]
  BY DEF SemiStep
<1> QED
  BY <1>1 DEF Shape, OutputTo

\* What transposer l is given in a cycle, and what it becomes.
SemiCycle(l, s, t, word, addr, wr, putout) ==
  /\ s = semi[l] /\ t = semi'[l] /\ t = SemiStep(s, word, addr, wr, putout)
  /\ front # None => word = front[l]
  /\ addr = SemiAddrIn(l)
  /\ wr = (ActOrWg /\ front # None) /\ putout = (ActOrWg /\ state = "START_PUTOUT")

\* The transposers step as the sequencer drives them (mxu_top_no_ctrl.sv).
LEMMA SemiMoves ==
  ASSUME DatapathStep, NEW l \in Lanes
  PROVE  \E s, t, word, addr : \E wr, putout \in BOOLEAN :
           SemiCycle(l, s, t, word, addr, wr, putout)
<1>1. PICK s, t, word, addr : s = semi[l] /\ t = semi'[l]
          /\ word = (IF front = None THEN None ELSE front[l]) /\ addr = SemiAddrIn(l)
  OBVIOUS
<1>2. PICK wr \in BOOLEAN, putout \in BOOLEAN :
          wr = (ActOrWg /\ front # None) /\ putout = (ActOrWg /\ state = "START_PUTOUT")
  OBVIOUS
<1>3. t = SemiStep(s, word, addr, wr, putout)
  BY <1>1, <1>2 DEF DatapathStep, SemiTransposers
<1> QED
  BY <1>1, <1>2, <1>3 DEF SemiCycle

\* Without weights from the transposers the lines keep theirs.
LEMMA LinesRest ==
  ASSUME DatapathStep, Disabled, \A l \in Lanes : semi[l].valid = FALSE
  PROVE  Disabled' /\ \A l \in Lanes, k \in Lines : wgtLine'[l][k] = wgtLine[l][k]
<1>2. ASSUME NEW k \in Lines PROVE ~WgtEnI(k)
  <2>1. CASE k = 0
    BY <2>1 DEF WgtEnI
  <2>2. CASE k # 0
    <3>1. k - 1 \in Lines
      BY <2>2, SixteenRows DEF Lines
    <3> QED
      BY <2>2, <3>1 DEF WgtEnI, Disabled
  <2> QED
    BY <2>1, <2>2
<1>3. wgtEnO' = [k \in Lines |-> WgtEnI(k)]
  BY DEF DatapathStep, LoadWeights
<1>4. ASSUME NEW k \in Lines PROVE wgtEnO'[k] = FALSE
  <2>1. wgtEnO'[k] = WgtEnI(k)
    BY <1>3
  <2>2. WgtEnI(k) \in BOOLEAN
    BY Zenon DEF WgtEnI
  <2> QED
    BY <1>2, <2>1, <2>2
<1>5. ASSUME NEW l \in Lanes, NEW k \in Lines PROVE wgtLine'[l][k] = wgtLine[l][k]
  BY <1>2 DEF DatapathStep, LoadWeights
<1> QED
  BY <1>4, <1>5 DEF Disabled

\* Nothing reaches the transposers: they rest, and the lines keep the weights.
LEMMA RestStays ==
  ASSUME DatapathStep, AtRest, ~(ActOrWg /\ front # None)
  PROVE  AtRest' /\ \A l \in Lanes, k \in Lines : wgtLine'[l][k] = wgtLine[l][k]
<1>1. ASSUME NEW l \in Lanes PROVE Resting(semi[l])'
  <2>1. Resting(semi[l]) /\ Rows # {}
    BY SixteenRows DEF AtRest, Rows
  <2>2. PICK s, t, word, addr : \E wr, putout \in BOOLEAN :
           SemiCycle(l, s, t, word, addr, wr, putout)
    BY SemiMoves
  <2>3. PICK wr \in BOOLEAN, putout \in BOOLEAN : SemiCycle(l, s, t, word, addr, wr, putout)
    BY <2>2
  <2>4. ~wr /\ Resting(s)
    BY <2>1, <2>3 DEF SemiCycle
  <2>5. PICK mask : mask = (IF wr THEN s.mask \union {addr} ELSE s.mask) /\ mask = {}
    BY <2>4 DEF Resting
  <2>6. t = SemiStep(s, word, addr, wr, putout)
    BY <2>3 DEF SemiCycle
  <2>7. Shape(s) /\ s.st = "IDLE"
    BY <2>4 DEF Resting
  <2>8. IdleTo(s, t, mask, word, addr, wr)
    BY <2>5, <2>6, <2>7, SemiIdle, Zenon
  <2>9. Resting(t)
    BY <2>1, <2>5, <2>8 DEF Resting, IdleTo
  <2> QED
    BY <2>3, <2>9 DEF SemiCycle
<1> QED
  BY <1>1, LinesRest DEF AtRest, Resting

----------------------------------------------------------------------------
(* The weights on their way into the transposers.                           *)

\* A word of weight row r is what the transposer keeps in the row's slot.
LEMMA FrontFills ==
  ASSUME DatapathStep, state = "WGT_SEND", wgtRow \in 0 .. 15,
         \A l \in Lanes : wgtQ[l] = <<l, (cfg.wgt[(l - Group(wgtRow)) % 4] + Intra(wgtRow)) % ADDRS>>
  PROVE  front' # None /\ \A l \in Lanes : front'[l] = TileWord(l, Slot(l, wgtRow))
<1>1. PICK r \in 0 .. 15 : r = wgtRow
  OBVIOUS
<1>2. PICK g \in 0 .. 3 : g = Group(r)
  BY DEF Group
<1>3. front' = [l \in Lanes |-> wgtQ[(l - (-g)) % 4]]
  BY <1>1, <1>2 DEF DatapathStep, FrontRotator, FrontSel, Rotate
<1>4. front' # None
  <2>1. DOMAIN front' = Lanes
    BY <1>3
  <2> QED
    BY <2>1, RowIsSome
<1>5. ASSUME NEW l \in Lanes PROVE front'[l] = TileWord(l, Slot(l, r))
  <2>1. PICK b \in Lanes : b = (l + g) % 4 /\ (b - g) % 4 = l
    BY Rotations
  <2>2. (l - (-g)) % 4 = b
    BY <2>1 DEF Lanes
  <2>3. front'[l] = wgtQ[b]
    BY <1>3, <2>2
  <2>4. wgtQ[b] = <<b, (cfg.wgt[l] + Intra(r)) % ADDRS>>
    BY <1>1, <1>2, <2>1
  <2>5. Slot(l, r) \div 4 = b /\ Intra(Slot(l, r)) = Intra(r)
    BY <1>2, <2>1, SlotIs DEF Intra
  <2> QED
    BY <2>3, <2>4, <2>5, Zenon DEF TileWord
<1> QED
  BY <1>1, <1>4, <1>5

\* The banks answer with the row that is sent next.
LEMMA BanksAnswer ==
  ASSUME DatapathStep, WgtBufCen, NEW l \in Lanes, NEW r, r = WgtReqRow
  PROVE  wgtQ'[l] = <<l, (cfg.wgt[(l - Group(r)) % 4] + Intra(r)) % ADDRS>>
BY DEF DatapathStep, ReadBanks, WgtBufAddr

\* The transposers take row q.
LEMMA FillStep ==
  ASSUME DatapathStep, NEW q \in 0 .. 15, Arriving(q), cfg' = cfg,
         state \in {"WGT_SEND", "WAIT_SEMI_FULL"}, NEW l \in Lanes
  PROVE  /\ q < 15 => Filling(semi[l], l, q + 1)'
         /\ q = 15 => Full(semi[l], l)'
<1>1. PICK s, t, word, addr : \E wr, putout \in BOOLEAN :
         SemiCycle(l, s, t, word, addr, wr, putout)
  BY SemiMoves
<1>2. PICK wr \in BOOLEAN, putout \in BOOLEAN : SemiCycle(l, s, t, word, addr, wr, putout)
  BY <1>1
<1>3. Filling(s, l, q) /\ wr /\ word = TileWord(l, Slot(l, q)) /\ t = SemiStep(s, word, addr, wr, putout)
  BY <1>2 DEF SemiCycle, Arriving, ActOrWg
<1>4. addr = Slot(l, q)
  BY <1>2 DEF SemiCycle, SemiAddrIn, Slot, Arriving
<1>5. PICK mask : mask = (IF wr THEN s.mask \union {addr} ELSE s.mask) /\ mask = Slots(l, q + 1)
  BY <1>3, <1>4, SlotsGrow DEF Filling
<1>6. Shape(s) /\ s.st = "IDLE"
  BY <1>3 DEF Filling
<1>7. IdleTo(s, t, mask, word, addr, wr)
  BY <1>3, <1>5, <1>6, SemiIdle, Zenon
<1>8. \A a \in mask : t.mem[a] = TileWord(l, a)
  <2>1. t.mem = [s.mem EXCEPT ![addr] = word] /\ DOMAIN s.mem = Rows /\ mask \subseteq Rows
    BY <1>3, <1>5, <1>6, <1>7, SlotsGrow DEF IdleTo, Shape
  <2>2. ASSUME NEW a \in mask PROVE t.mem[a] = TileWord(l, a)
    <3>1. CASE a = addr
      BY <2>1, <3>1, <1>3, <1>4
    <3>2. CASE a # addr
      <4>1. a \in s.mask /\ t.mem[a] = s.mem[a]
        BY <2>1, <3>2, <1>5
      <4> QED
        BY <4>1, <1>3 DEF Filling
    <3> QED
      BY <3>1, <3>2
  <2> QED
    BY <2>2
<1>9. \A a : TileWord(l, a)' = TileWord(l, a)
  BY DEF TileWord
<1>10. semi'[l] = t /\ Shape(t) /\ t.valid = FALSE /\ t.mask = mask /\ t.cnt = DEPTH - 1
  BY <1>2, <1>7 DEF SemiCycle, IdleTo
<1>11. ASSUME q < 15 PROVE Filling(semi[l], l, q + 1)'
  <2>1. t.st = "IDLE"
    BY <1>5, <1>7, <1>11, SlotsGrow DEF IdleTo
  <2> QED
    BY <1>5, <1>8, <1>9, <1>10, <2>1 DEF Filling
<1>12. ASSUME q = 15 PROVE Full(semi[l], l)'
  <2>1. t.st = "FULL" /\ mask = Rows
    BY <1>5, <1>7, <1>12, SlotsGrow DEF IdleTo
  <2> QED
    BY <1>8, <1>9, <1>10, <2>1 DEF Full
<1> QED
  BY <1>11, <1>12

----------------------------------------------------------------------------
(* The weights on their way into the lines.                                 *)

\* A transposer with the tile puts out the next diagonal.
LEMMA EmptyStep ==
  ASSUME DatapathStep, NEW e \in 0 .. 17, NEW l \in Lanes, Emptying(semi[l], l, e),
         cfg' = cfg, front = None
  PROVE  Emptying(semi[l], l, e + 1)'
<1>1. PICK s, t, word, addr : \E wr, putout \in BOOLEAN :
         SemiCycle(l, s, t, word, addr, wr, putout)
  BY SemiMoves
<1>2. PICK wr \in BOOLEAN, putout \in BOOLEAN : SemiCycle(l, s, t, word, addr, wr, putout)
  BY <1>1
<1>3. Emptying(s, l, e) /\ Shape(s) /\ ~wr /\ t = SemiStep(s, word, addr, wr, putout) /\ t = semi'[l]
  BY <1>2 DEF SemiCycle, Emptying
<1>4. \A a : TileWord(l, a)' = TileWord(l, a)
  BY DEF TileWord
<1>5. CASE e <= 15
  <2>1. s.st = "OUTPUT" /\ s.cnt = 15 - e /\ \A a \in Rows : s.mem[a] = TileWord(l, a)
    BY <1>3, <1>5, SixteenRows DEF Emptying
  <2>2. OutputTo(s, t)
    BY <1>3, <2>1, SemiOutput, Zenon
  <2>3. t.data = TileDiag(l, DEPTH - (e + 1))'
    <3>1. DEPTH - (e + 1) = 15 - e
      BY SixteenRows
    <3>2. \A i \in Rows : (15 - e + i) % DEPTH \in Rows
      BY <1>5, SixteenRows DEF Rows
    <3>3. t.data = [i \in Rows |-> s.mem[(15 - e + i) % DEPTH]]
      BY <2>1, <2>2 DEF OutputTo, Diagonal
    <3>4. t.data = [i \in Rows |-> TileWord(l, (15 - e + i) % DEPTH)]
      BY <2>1, <3>2, <3>3
    <3> QED
      BY <1>4, <3>1, <3>4 DEF TileDiag
  <2>4. Flag(t.valid, e + 1 >= 1 /\ e + 1 <= DEPTH)
    <3>1. e + 1 >= 1 /\ e + 1 <= DEPTH
      BY <1>5, SixteenRows
    <3> QED
      BY <2>2, <3>1 DEF OutputTo, Flag
  <2>5. ASSUME e + 1 < DEPTH
        PROVE  /\ t.st = "OUTPUT" /\ t.cnt = DEPTH - 1 - (e + 1)
               /\ \A a \in Rows : t.mem[a] = TileWord(l, a)'
    <3>1. s.cnt # 0 /\ (s.cnt - 1) % DEPTH = DEPTH - 1 - (e + 1)
      BY <2>1, <2>5, SixteenRows
    <3> QED
      BY <1>4, <2>1, <2>2, <3>1 DEF OutputTo
  <2>6. ASSUME e + 1 >= DEPTH PROVE t.st = "IDLE" /\ t.mask = {}
    <3>1. s.cnt = 0
      BY <1>5, <2>1, <2>6, SixteenRows
    <3> QED
      BY <2>2, <3>1 DEF OutputTo
  <2>7. Shape(t)
    BY <2>2 DEF OutputTo
  <2> QED
    BY <1>3, <2>3, <2>4, <2>5, <2>6, <2>7 DEF Emptying
<1>6. CASE e >= 16
  <2>1. s.st = "IDLE" /\ s.mask = {} /\ Rows # {}
    BY <1>3, <1>6, SixteenRows DEF Emptying, Rows
  <2>2. PICK mask : mask = (IF wr THEN s.mask \union {addr} ELSE s.mask) /\ mask = {}
    BY <1>3, <2>1
  <2>3. IdleTo(s, t, mask, word, addr, wr)
    BY <1>3, <2>1, <2>2, SemiIdle, Zenon
  <2>4. Shape(t) /\ t.st = "IDLE" /\ t.mask = {} /\ t.valid = FALSE
    BY <2>1, <2>2, <2>3 DEF IdleTo
  <2>5. ~(e + 1 < DEPTH) /\ ~(e + 1 >= 1 /\ e + 1 <= DEPTH)
    BY <1>6, SixteenRows
  <2> QED
    BY <1>3, <2>4, <2>5 DEF Emptying, Flag
<1> QED
  BY <1>5, <1>6

\* Line k takes weights as long as the last line has not passed them on.
LEMMA LineEnabled ==
  ASSUME NEW e \in 0 .. 18, Shifting(e), state = "WAIT_WGT_DONE", NEW k \in Lines
  PROVE  WgtEnI(k) <=> k + 1 <= e /\ e <= 16
<1>1. CASE k = 0
  <2>1. WgtEnI(k) <=> \E l \in Lanes : semi[l].valid
    BY <1>1 DEF WgtEnI, ActOrWg
  <2>2. 0 \in Lanes /\ \A l \in Lanes : Flag(semi[l].valid, e >= 1 /\ e <= 16)
    BY SixteenRows DEF Shifting, Emptying, Lanes
  <2>3. semi[0].valid <=> e >= 1 /\ e <= 16
    BY <2>2, Zenon DEF Flag
  <2>4. (\E l \in Lanes : semi[l].valid) <=> e >= 1 /\ e <= 16
    BY <2>2, <2>3, Zenon DEF Flag
  <2> QED
    BY <1>1, <2>1, <2>4
<1>2. CASE k # 0
  <2>1. k - 1 \in Lines /\ DEPTH - 1 \in Lines /\ k \in 1 .. 15
    BY <1>2, SixteenRows DEF Lines
  <2>2. (k - 1) + 2 <= e /\ e <= DEPTH + 1 <=> k + 1 <= e /\ e <= 17
    BY <2>1, SixteenRows
  <2>3. (DEPTH - 1) + 2 <= e /\ e <= DEPTH + 1 <=> e = 17
    BY SixteenRows
  <2>4. wgtEnO[k - 1] <=> k + 1 <= e /\ e <= 17
    BY <2>1, <2>2, Zenon DEF Shifting, Flag
  <2>5. wgtEnO[DEPTH - 1] <=> e = 17
    BY <2>1, <2>3, Zenon DEF Shifting, Flag
  <2>6. WgtEnI(k) <=> ~(e = 17) /\ (k + 1 <= e /\ e <= 17)
    BY <1>2, <2>4, <2>5, Zenon DEF WgtEnI, WgtDone
  <2> QED
    BY <2>1, <2>6
<1> QED
  BY <1>1, <1>2

\* A cycle of the putout: the transposers a diagonal on, the lines too.
LEMMA ShiftStep ==
  ASSUME DatapathStep, NEW e \in 0 .. 17, Shifting(e), cfg' = cfg, front = None,
         state = "WAIT_WGT_DONE", wgtDoneSeen' = (wgtDoneSeen \/ WgtDone)
  PROVE  Shifting(e + 1)'
<1>1. \A l \in Lanes : Emptying(semi[l], l, e + 1)'
  BY EmptyStep DEF Shifting
<1>2. ASSUME NEW k \in Lines PROVE Flag(wgtEnO'[k], k + 2 <= e + 1 /\ e + 1 <= DEPTH + 1)
  <2>1. wgtEnO'[k] = WgtEnI(k)
    BY DEF DatapathStep, LoadWeights
  <2>2. WgtEnI(k) <=> k + 1 <= e /\ e <= 16
    BY LineEnabled
  <2>3. k + 1 <= e /\ e <= 16 <=> k + 2 <= e + 1 /\ e + 1 <= DEPTH + 1
    BY SixteenRows DEF Lines
  <2>4. WgtEnI(k) \in BOOLEAN
    BY Zenon DEF WgtEnI
  <2>5. wgtEnO'[k] <=> k + 2 <= e + 1 /\ e + 1 <= DEPTH + 1
    BY <2>1, <2>2, <2>3, Zenon
  <2> QED
    BY <2>1, <2>4, <2>5, Zenon DEF Flag
<1>3. ASSUME NEW l \in Lanes, NEW k \in Lines, k + 2 <= e + 1
      PROVE  wgtLine'[l][k] = TileDiag(l, DEPTH + 1 + k - Passed(e + 1))'
  <2>1. \A d : TileDiag(l, d)' = TileDiag(l, d)
    BY DEF TileDiag, TileWord
  <2>2. wgtLine'[l][k] = IF ~WgtEnI(k) THEN wgtLine[l][k]
                         ELSE IF k = 0 THEN semi[l].data ELSE wgtLine[l][k - 1]
    BY DEF DatapathStep, LoadWeights
  <2>3. WgtEnI(k) <=> k + 1 <= e /\ e <= 16
    BY LineEnabled
  <2>4. k \in 0 .. 15 /\ k + 1 <= e
    BY <1>3, SixteenRows DEF Lines
  <2>5. CASE e = 17
    <3>1. wgtLine'[l][k] = wgtLine[l][k]
      BY <2>2, <2>3, <2>5
    <3>2. k + 2 <= e /\ Passed(e) = 17 /\ Passed(e + 1) = 17
      BY <2>4, <2>5, SixteenRows DEF Passed
    <3>3. wgtLine[l][k] = TileDiag(l, DEPTH + 1 + k - Passed(e))
      BY <3>2 DEF Shifting
    <3> QED
      BY <2>1, <3>1, <3>2, <3>3
  <2>6. CASE e <= 16 /\ k = 0
    <3>1. wgtLine'[l][k] = semi[l].data
      BY <2>2, <2>3, <2>4, <2>6
    <3>2. e >= 1 /\ e <= DEPTH
      BY <2>4, <2>6, SixteenRows
    <3>3. semi[l].data = TileDiag(l, DEPTH - e)
      BY <3>2 DEF Shifting, Emptying
    <3>4. DEPTH + 1 + k - Passed(e + 1) = DEPTH - e
      BY <2>6, SixteenRows DEF Passed
    <3> QED
      BY <2>1, <3>1, <3>3, <3>4
  <2>7. CASE e <= 16 /\ k # 0
    <3>1. wgtLine'[l][k] = wgtLine[l][k - 1]
      BY <2>2, <2>3, <2>4, <2>7
    <3>2. k - 1 \in Lines /\ (k - 1) + 2 <= e
      BY <2>4, <2>7, SixteenRows DEF Lines
    <3>3. wgtLine[l][k - 1] = TileDiag(l, DEPTH + 1 + (k - 1) - Passed(e))
      BY <3>2 DEF Shifting
    <3>4. DEPTH + 1 + k - Passed(e + 1) = DEPTH + 1 + (k - 1) - Passed(e)
      BY <2>4, <2>7, SixteenRows DEF Passed
    <3> QED
      BY <2>1, <3>1, <3>3, <3>4
  <2> QED
    BY <2>5, <2>6, <2>7
<1>4. Flag(wgtDoneSeen', e + 1 = DEPTH + 2)
  <2>1. DEPTH - 1 \in Lines /\ e # DEPTH + 2
        /\ ((DEPTH - 1) + 2 <= e /\ e <= DEPTH + 1 <=> e + 1 = DEPTH + 2)
    BY SixteenRows DEF Lines
  <2>2. Flag(wgtEnO[DEPTH - 1], e + 1 = DEPTH + 2)
    BY <2>1, Zenon DEF Shifting, Flag
  <2>3. wgtDoneSeen = FALSE
    BY <2>1, Zenon DEF Shifting, Flag
  <2> QED
    BY <2>2, <2>3, Zenon DEF WgtDone, Flag
<1> QED
  BY <1>1, <1>2, <1>3, <1>4 DEF Shifting

\* What the wait for the last line ends with.
LEMMA ShiftEnds ==
  ASSUME NEW e \in 0 .. 18, Shifting(e)
  PROVE  /\ wgtDoneSeen /\ ~WgtDone <=> e = 18
         /\ e = 18 => AtRest /\ InPlace
<1>1. DEPTH - 1 \in Lines /\ (DEPTH - 1) + 2 = 17 /\ DEPTH + 1 = 17 /\ DEPTH + 2 = 18 /\ DEPTH = 16
  BY SixteenRows DEF Lines
<1>2. ((DEPTH - 1) + 2 <= e /\ e <= DEPTH + 1 <=> e = 17) /\ (e = DEPTH + 2 <=> e = 18) /\ 17 # 18
  BY <1>1
<1>3. wgtDoneSeen /\ ~WgtDone <=> e = 18
  <2>1. (wgtEnO[DEPTH - 1] <=> e = 17) /\ (wgtDoneSeen <=> e = 18)
    BY <1>1, <1>2, Zenon DEF Shifting, Flag
  <2> QED
    BY <1>2, <2>1, Zenon DEF WgtDone
<1>4. ASSUME e = 18 PROVE AtRest
  <2>1. ASSUME NEW k \in Lines PROVE wgtEnO[k] = FALSE
    <3>1. ~(k + 2 <= e /\ e <= DEPTH + 1)
      BY <1>1, <1>4
    <3> QED
      BY <3>1, Zenon DEF Shifting, Flag
  <2>2. ASSUME NEW l \in Lanes PROVE Resting(semi[l])
    <3>1. e >= DEPTH /\ ~(e >= 1 /\ e <= DEPTH) /\ ~(e < DEPTH)
      BY <1>1, <1>4
    <3> QED
      BY <3>1, Zenon DEF Shifting, Emptying, Resting, Flag
  <2> QED
    BY <2>1, <2>2 DEF AtRest, Disabled
<1>5. ASSUME e = 18, NEW l \in Lanes, NEW k \in Lines PROVE wgtLine[l][k] = TileDiag(l, k)
  <2>1. k \in 0 .. 15 /\ k + 2 <= e /\ DEPTH + 1 + k - Passed(e) = k
    BY <1>1, <1>5 DEF Lines, Passed
  <2> QED
    BY <2>1 DEF Shifting
<1> QED
  BY <1>3, <1>4, <1>5 DEF InPlace

----------------------------------------------------------------------------
(* The clock cycles, as far as the weights are concerned.                   *)

\* Cycles at rest keep the weights' part of the invariant,
LEMMA QuietLoad ==
  ASSUME DatapathStep, AtRest, ~ActOrWg, state' \in {"IDLE", "DONE"}
  PROVE  LoadInv'
BY RestStays DEF LoadInv, Loading, Rowing

\* and so do the cycles in which rows flow.
LEMMA RowsLoad ==
  ASSUME DatapathStep, AtRest, InPlace, cfg' = cfg, ~ActOrWg \/ front = None,
         state' \in {"GAP", "ACT_REQ", "DONE"} \cup Rowing
  PROVE  LoadInv'
<1>1. AtRest' /\ \A l \in Lanes, k \in Lines : wgtLine'[l][k] = wgtLine[l][k]
  BY RestStays
<1>2. \A l \in Lanes, k \in Lines : TileDiag(l, k)' = TileDiag(l, k)
  BY DEF TileDiag, TileWord
<1>3. InPlace'
  BY <1>1, <1>2, Zenon DEF InPlace
<1> QED
  BY <1>1, <1>3 DEF LoadInv, Loading, Rowing

\* An accepted start finds the transposers at rest.
LEMMA StartLoad == ASSUME DataInv, DatapathStep, Start PROVE LoadInv'
<1>1. state = "IDLE" /\ state' = "WGT_REQ"
  BY DEF Start, Goto
<1>2. AtRest /\ ~ActOrWg
  BY <1>1 DEF DataInv, LoadInv, Loading, ActOrWg
<1>3. AtRest'
  BY <1>2, RestStays
<1>4. semiAddr' = 0 /\ inValidD1' = FALSE /\ wgtRow' = 0 /\ wgtDoneSeen' = FALSE
  BY DEF Start
<1> QED
  BY <1>1, <1>3, <1>4 DEF LoadInv, Rowing, Loading

\* The first weight row is read.
LEMMA WgtReqLoad == ASSUME DataInv, DatapathStep, WgtReq PROVE LoadInv'
<1>1. state = "WGT_REQ" /\ state' = "WGT_SEND" /\ cfg' = cfg /\ wgtRow' = wgtRow /\ wgtDoneSeen' = wgtDoneSeen
  BY DEF WgtReq, Goto, NoRowStep, NoFlag
<1>2. AtRest /\ front = None /\ semiAddr = 0 /\ inValidD1 = FALSE /\ wgtRow = 0 /\ wgtDoneSeen = FALSE
  BY <1>1 DEF DataInv, LoadInv, FlowInv, Loading, Rowing
<1>3. AtRest'
  BY <1>2, RestStays
<1>4. semiAddr' = 0 /\ inValidD1' = FALSE
  <2>1. inValidD1' = Sending /\ semiAddr' = IF inValidD1 THEN (semiAddr + 1) % DEPTH ELSE semiAddr
    BY DEF WgtReq, Tick
  <2>2. Sending = FALSE
    BY <1>1 DEF Sending
  <2> QED
    BY <1>2, <2>1, <2>2
<1>5. front' = None
  BY <1>1 DEF DatapathStep, FrontRotator
<1>6. WgtBufCen /\ WgtReqRow = 0
  BY <1>1, <1>2 DEF WgtBufCen, WgtReqRow
<1>7. \A l \in Lanes : wgtQ'[l] = <<l, (cfg'.wgt[(l - Group(0)) % 4] + Intra(0)) % ADDRS>>
  BY <1>1, <1>6, BanksAnswer
<1> QED
  BY <1>1, <1>2, <1>3, <1>4, <1>5, <1>7 DEF LoadInv, Rowing, Loading

\* A weight row is sent, and the one before it is written to its slots.
LEMMA WgtSendLoad == ASSUME DataInv, DatapathStep, WgtSend PROVE LoadInv'
<1>1. /\ state = "WGT_SEND" /\ state' = (IF WgtSendLast THEN "WAIT_SEMI_FULL" ELSE "WGT_SEND")
      /\ cfg' = cfg /\ wgtDoneSeen' = wgtDoneSeen
      /\ wgtRow' = (IF WgtSendLast THEN wgtRow ELSE Inc(wgtRow))
      /\ inValidD1' = TRUE /\ semiAddr' = (IF inValidD1 THEN (semiAddr + 1) % DEPTH ELSE semiAddr)
  BY DEF WgtSend, Goto, NoFlag, Tick, Sending
<1>2. PICK r \in 0 .. 15 : r = wgtRow
  BY SixteenRows DEF DataInv, IInv, CtrlTypeOK
<1>3. /\ wgtDoneSeen = FALSE
      /\ \A l \in Lanes : wgtQ[l] = <<l, (cfg.wgt[(l - Group(wgtRow)) % 4] + Intra(wgtRow)) % ADDRS>>
      /\ wgtRow = 0 => AtRest /\ front = None /\ semiAddr = 0 /\ inValidD1 = FALSE
      /\ wgtRow > 0 => Arriving(wgtRow - 1)
  BY <1>1 DEF DataInv, LoadInv
<1>4. \A l \in Lanes : \A a : TileWord(l, a)' = TileWord(l, a)
  BY <1>1 DEF TileWord
<1>5. front' # None /\ \A l \in Lanes : front'[l] = TileWord(l, Slot(l, r))'
  BY <1>1, <1>2, <1>3, <1>4, FrontFills
<1>6. Arriving(r)'
  <2>1. CASE r = 0
    <3>1. AtRest' /\ semiAddr' = r
      BY <1>1, <1>2, <1>3, <2>1, RestStays
    <3>2. \A l \in Lanes : Slots(l, r) = {}
      BY <2>1 DEF Slots
    <3>3. \A l \in Lanes : Filling(semi[l], l, r)'
      BY <3>1, <3>2, Zenon DEF AtRest, Resting, Filling
    <3> QED
      BY <1>1, <1>5, <3>1, <3>3, Zenon DEF Arriving, AtRest
  <2>2. CASE r > 0
    <3>1. PICK q \in 0 .. 15 : q = r - 1 /\ q + 1 = r /\ q < 15 /\ (q + 1) % DEPTH = r
      BY <2>2, SixteenRows
    <3>2. Arriving(q)
      BY <1>2, <1>3, <2>2, <3>1
    <3>3. \A l \in Lanes : Filling(semi[l], l, r)'
      BY <1>1, <3>1, <3>2, FillStep
    <3>4. Disabled'
      BY <3>2, LinesRest DEF Arriving, Filling
    <3>5. semiAddr' = r
      BY <1>1, <3>1, <3>2 DEF Arriving
    <3> QED
      BY <1>1, <1>5, <3>3, <3>4, <3>5, Zenon DEF Arriving
  <2> QED
    BY <2>1, <2>2
<1>7. CASE WgtSendLast
  <2>1. state' = "WAIT_SEMI_FULL" /\ r = DEPTH - 1
    BY <1>1, <1>2, <1>7 DEF WgtSendLast
  <2> QED
    BY <1>1, <1>3, <1>6, <2>1 DEF LoadInv, Loading, Rowing
<1>8. CASE ~WgtSendLast
  <2>1. r < 15 /\ r + 1 \in 1 .. 15 /\ Inc(r) = r + 1
    <3>1. r < 15 /\ r + 1 \in 1 .. 15
      BY <1>2, <1>8, SixteenRows DEF WgtSendLast
    <3>2. r \in 0 .. ADDRS - 1 /\ r < ADDRS - 1 /\ ADDRS \in Nat /\ ADDRS > 0
      BY <3>1, SixteenRows, DepthAssumption, AddrsAssumption
    <3> QED
      BY <3>1, <3>2, ModStep DEF Inc
  <2>2. state' = "WGT_SEND" /\ wgtRow' = r + 1 /\ wgtRow' - 1 = r /\ wgtRow' > 0 /\ wgtRow' # 0
    BY <1>1, <1>2, <1>8, <2>1
  <2>3. WgtBufCen /\ WgtReqRow = r + 1
    BY <1>1, <1>2, <1>8 DEF WgtBufCen, WgtReqRow
  <2>4. \A l \in Lanes : wgtQ'[l] = <<l, (cfg'.wgt[(l - Group(r + 1)) % 4] + Intra(r + 1)) % ADDRS>>
    BY <1>1, <2>3, BanksAnswer
  <2>5. wgtRow' > 0 => Arriving(wgtRow - 1)'
    BY <1>6, <2>2
  <2> QED
    BY <1>1, <1>3, <2>2, <2>4, <2>5 DEF LoadInv, Loading, Rowing
<1> QED
  BY <1>7, <1>8

\* The last weight row is written: the transposers are full.
LEMMA WaitFullLoad == ASSUME DataInv, DatapathStep, WaitSemiFull PROVE LoadInv'
<1>1. state = "WAIT_SEMI_FULL" /\ state' = "START_PUTOUT" /\ cfg' = cfg /\ wgtDoneSeen' = wgtDoneSeen
  BY DEF WaitSemiFull, Goto, NoFlag
<1>2. PICK q \in 0 .. 15 : q = 15 /\ q = DEPTH - 1
  BY SixteenRows
<1>3. Arriving(q) /\ wgtDoneSeen = FALSE
  BY <1>1, <1>2 DEF DataInv, LoadInv
<1>4. \A l \in Lanes : Full(semi[l], l)'
  BY <1>1, <1>2, <1>3, FillStep
<1>5. Disabled'
  BY <1>3, LinesRest DEF Arriving, Filling
<1> QED
  BY <1>1, <1>3, <1>4, <1>5 DEF LoadInv, Loading, Rowing

\* The transposers begin to put out.
LEMMA PutoutLoad == ASSUME DataInv, DatapathStep, StartPutout PROVE LoadInv'
<1>1. state = "START_PUTOUT" /\ state' = "WAIT_WGT_DONE" /\ cfg' = cfg /\ wgtDoneSeen' = wgtDoneSeen
  BY DEF StartPutout, Goto, NoFlag
<1>2. Disabled /\ wgtDoneSeen = FALSE /\ \A l \in Lanes : Full(semi[l], l)
  BY <1>1 DEF DataInv, LoadInv
<1>3. Disabled'
  BY <1>2, LinesRest DEF Full
<1>4. ASSUME NEW l \in Lanes PROVE Emptying(semi[l], l, 0)'
  <2>1. PICK s, t, word, addr : \E wr, putout \in BOOLEAN :
           SemiCycle(l, s, t, word, addr, wr, putout)
    BY SemiMoves
  <2>2. PICK wr \in BOOLEAN, putout \in BOOLEAN : SemiCycle(l, s, t, word, addr, wr, putout)
    BY <2>1
  <2>3. Full(s, l) /\ Shape(s) /\ s.st = "FULL" /\ putout /\ t = SemiStep(s, word, addr, wr, putout) /\ t = semi'[l]
    BY <1>1, <1>2, <2>2 DEF SemiCycle, Full, ActOrWg
  <2>4. FullTo(s, t, putout)
    BY <2>3, SemiFull, Zenon
  <2>5. Shape(t) /\ t.st = "OUTPUT" /\ t.mem = s.mem /\ t.cnt = DEPTH - 1 /\ t.valid = FALSE
    BY <2>3, <2>4 DEF FullTo, Full
  <2>6. \A a \in Rows : t.mem[a] = TileWord(l, a)'
    BY <1>1, <2>3, <2>5 DEF Full, TileWord
  <2>7. ~(0 >= DEPTH) /\ ~(0 >= 1 /\ 0 <= DEPTH) /\ DEPTH - 1 - 0 = DEPTH - 1
    BY SixteenRows
  <2> QED
    BY <2>3, <2>5, <2>6, <2>7 DEF Emptying, Flag
<1>5. Shifting(0)'
  <2>1. \A k \in Lines : ~(k + 2 <= 0)
    BY DEF Lines
  <2>2. 0 # DEPTH + 2
    BY SixteenRows
  <2> QED
    BY <1>1, <1>2, <1>3, <1>4, <2>1, <2>2, Zenon DEF Shifting, Flag, Disabled
<1>6. 0 \in 0 .. DEPTH + 2
  BY SixteenRows
<1>7. \E e \in 0 .. DEPTH + 2 : Shifting(e)'
  BY <1>5, <1>6
<1> QED
  BY <1>1, <1>7 DEF LoadInv, Loading, Rowing

\* The weights move down until the last line has passed them on.
LEMMA WaitWgtLoad == ASSUME DataInv, DatapathStep, WaitWgtDone(WgtDone) PROVE LoadInv'
<1>1. /\ state = "WAIT_WGT_DONE" /\ cfg' = cfg /\ wgtDoneSeen' = (wgtDoneSeen \/ WgtDone)
      /\ state' = IF wgtDoneSeen /\ ~WgtDone THEN "GAP" ELSE "WAIT_WGT_DONE"
  BY DEF WaitWgtDone, Goto
<1>2. front = None
  BY <1>1 DEF DataInv, FlowInv, Rowing
<1>3. PICK e \in 0 .. 18 : Shifting(e)
  BY <1>1, SixteenRows DEF DataInv, LoadInv
<1>4. CASE e = 18
  <2>1. state' = "GAP" /\ AtRest /\ InPlace
    BY <1>1, <1>3, <1>4, ShiftEnds
  <2> QED
    BY <1>1, <1>2, <2>1, RowsLoad
<1>5. CASE e # 18
  <2>1. state' = "WAIT_WGT_DONE"
    BY <1>1, <1>3, <1>5, ShiftEnds
  <2>2. PICK d \in 0 .. 17 : d = e /\ d + 1 \in 0 .. DEPTH + 2
    BY <1>5, SixteenRows
  <2>3. Shifting(d + 1)'
    BY <1>1, <1>2, <1>3, <2>2, ShiftStep
  <2>4. \E f \in 0 .. DEPTH + 2 : Shifting(f)'
    BY <2>2, <2>3
  <2> QED
    BY <2>1, <2>4 DEF LoadInv, Loading, Rowing
<1> QED
  BY <1>4, <1>5

\* Every clock cycle.
LEMMA NextLoad == ASSUME DataInv, Next PROVE LoadInv'
<1>1. DatapathStep /\ Cycle(OutputValid, WgtDone, ComputeDone)
  BY DEF Next
<1>2. CASE Idle \/ CfgWrite
  <2>1. state = "IDLE" /\ state' = "IDLE"
    BY <1>2 DEF Idle, CfgWrite, Write, Goto
  <2> QED
    BY <1>1, <2>1, QuietLoad DEF DataInv, LoadInv, Loading, ActOrWg
<1>3. CASE Gap
  <2>1. state = "GAP" /\ state' \in {"DONE", "ACT_REQ"} /\ cfg' = cfg
    BY <1>3 DEF Gap, Goto
  <2> QED
    BY <1>1, <2>1, RowsLoad DEF DataInv, LoadInv, Loading, ActOrWg
<1>4. CASE ActReq
  <2>1. state = "ACT_REQ" /\ state' = "ACT_SEND" /\ cfg' = cfg
    BY <1>4 DEF ActReq, Goto
  <2> QED
    BY <1>1, <2>1, RowsLoad DEF DataInv, LoadInv, Loading, ActOrWg, Rowing
<1>5. CASE ActSend
  <2>1. state = "ACT_SEND" /\ state' \in Rowing /\ cfg' = cfg
    BY <1>5 DEF ActSend, Goto, Rowing
  <2> QED
    BY <1>1, <2>1, RowsLoad DEF DataInv, LoadInv, Loading, ActOrWg, Rowing
<1>6. CASE WaitComputeDone(OutputValid, ComputeDone) \/ OutWrite(OutputValid)
  <2>1. state \in Rowing \ {"ACT_SEND"} /\ state' \in Rowing \cup {"DONE"} /\ cfg' = cfg
    BY <1>6 DEF WaitComputeDone, OutWrite, Goto, Rowing
  <2> QED
    BY <1>1, <2>1, RowsLoad DEF DataInv, LoadInv, Loading, ActOrWg, Rowing
<1>7. CASE Finish
  <2>1. state = "DONE" /\ state' = "IDLE"
    BY <1>7 DEF Finish, Goto
  <2> QED
    BY <1>1, <2>1, QuietLoad DEF DataInv, LoadInv, Loading, ActOrWg
<1> QED
  BY <1>1, <1>2, <1>3, <1>4, <1>5, <1>6, <1>7, StartLoad, WgtReqLoad, WgtSendLoad,
     WaitFullLoad, PutoutLoad, WaitWgtLoad DEF Cycle

----------------------------------------------------------------------------
(* The activation rows on their way through the arrays.                     *)

\* The two data types have an array latency of 32 and 48.
LEMMA LatencyIs == ArrayLatency \in 2 .. 48
BY SixteenRows DEF ArrayLatency

\* Division with remainder.
LEMMA DivSplit ==
  ASSUME NEW c \in Nat \ {0}, NEW r \in Nat
  PROVE  r \div c \in Nat /\ r % c \in 0 .. c - 1 /\ r = (r \div c) * c + (r % c)
OBVIOUS

\* r is q times c, and i more.
Splits(r, c, q, i) == i < c /\ r = q * c + i

\* There is only one quotient and remainder.
LEMMA DivUnique ==
  ASSUME NEW c \in Nat \ {0}, NEW q \in Nat, NEW i \in Nat, NEW r \in Nat, Splits(r, c, q, i)
  PROVE  r \div c = q /\ r % c = i
<1>0. i \in 0 .. c - 1 /\ r = q * c + i
  BY DEF Splits
<1>1. PICK d \in Nat, m \in 0 .. c - 1 : d = r \div c /\ m = r % c /\ r = d * c + m
  BY DivSplit
<1>2. ASSUME NEW a \in Nat, NEW b \in Nat, a < b PROVE a * c + c <= b * c
  <2>1. a * c + c = (a + 1) * c
    OBVIOUS
  <2>2. PICK e \in Nat : b = (a + 1) + e
    <3>1. b - (a + 1) \in Nat /\ b = (a + 1) + (b - (a + 1))
      BY <1>2
    <3> QED
      BY <3>1
  <2>3. b * c = (a + 1) * c + e * c /\ e * c \in Nat
    BY <2>2
  <2> QED
    BY <2>1, <2>3
<1>3. q * c \in Nat /\ d * c \in Nat
  OBVIOUS
<1>4. ~(q < d) /\ ~(d < q)
  BY <1>0, <1>1, <1>2, <1>3
<1> QED
  BY <1>0, <1>1, <1>3, <1>4

\* A rotation is undone by its inverse, and only its last two bits count.
LEMMA Turns ==
  ASSUME NEW l \in Lanes, NEW g \in Nat
  PROVE  /\ (l + g) % 4 \in Lanes /\ (l - g) % 4 \in Lanes
         /\ (((l + g) % 4) - g) % 4 = l /\ (((l - g) % 4) + g) % 4 = l
         /\ (l - (g % 4)) % 4 = (l - g) % 4 /\ g % 4 \in 0 .. 3
         /\ (l - (-g)) % 4 = (l + g) % 4
BY DEF Lanes

\* A quarter and a place in it determine the row.
LEMMA QuotOf ==
  ASSUME chunk \in Addr, chunk > 0, NEW q \in Nat, NEW i \in Nat, NEW r \in Nat,
         PairIs(<<q, i>>, r)
  PROVE  Quot(r) = q /\ Rem(r) = i
<1>1. PICK c \in Nat \ {0} : c = chunk
  BY AddrsAssumption DEF Addr
<1>2. Splits(r, c, q, i)
  BY <1>1 DEF PairIs, Splits
<1>3. r \div c = q /\ r % c = i
  BY <1>2, DivUnique
<1> QED
  BY <1>1, <1>3 DEF Quot, Rem

\* A pair that follows a row is its quotient and its remainder.
LEMMA PairQuot ==
  ASSUME NEW p \in Addr \X Addr, chunk \in Addr, chunk > 0, NEW r \in Nat, PairIs(p, r)
  PROVE  p[1] = Quot(r) /\ p[2] = Rem(r)
<1>1. p[1] \in Nat /\ p[2] \in Nat /\ PairIs(<<p[1], p[2]>>, r)
  BY AddrsAssumption DEF Addr, PairIs
<1> QED
  BY <1>1, QuotOf

\* The quotient and the remainder of a row.
LEMMA QuotIs ==
  ASSUME chunk \in Addr, chunk > 0, NEW r \in Nat
  PROVE  Quot(r) \in Nat /\ Rem(r) \in 0 .. chunk - 1 /\ r = Quot(r) * chunk + Rem(r)
<1>1. PICK c \in Nat \ {0} : c = chunk
  BY AddrsAssumption DEF Addr
<1> QED
  BY <1>1, DivSplit DEF Quot, Rem

\* What depends on the registers only is the same in the next cycle.
Frozen ==
  /\ cfg' = cfg /\ chunk' = chunk /\ ArrayLatency' = ArrayLatency
  /\ \A r : SentRow(r)' = SentRow(r) /\ BackRow(r)' = BackRow(r) /\ PortRow(r)' = PortRow(r)
            /\ Quot(r)' = Quot(r) /\ Rem(r)' = Rem(r)
  /\ \A s, x : (Inside(s, x)' <=> Inside(s, x)) /\ Held(s, x)' = Held(s, x)
  /\ \A n : Upto(n)' = Upto(n) /\ Landed(n)' = Landed(n)
  /\ \A p, r : PairIs(p, r)' <=> PairIs(p, r)

\* Only the configuration and the chunk size matter for that.
LEMMA RegistersKept == ASSUME cfg' = cfg, chunk' = chunk PROVE Frozen
<1>1. /\ ArrayLatency' = ArrayLatency
      /\ \A r : Quot(r)' = Quot(r) /\ Rem(r)' = Rem(r)
      /\ \A s, x : Inside(s, x)' <=> Inside(s, x)
      /\ \A n : Upto(n)' = Upto(n)
      /\ \A p, r : PairIs(p, r)' <=> PairIs(p, r)
  BY DEF ArrayLatency, Quot, Rem, Inside, Upto, PairIs
<1>2. \A r : SentRow(r)' = SentRow(r) /\ BackRow(r)' = BackRow(r) /\ PortRow(r)' = PortRow(r)
  BY DEF SentRow, BackRow, BackWord, PortRow, Quot, Rem
<1>3. \A s, x : Held(s, x)' = Held(s, x)
  BY <1>1, <1>2 DEF Held
<1>4. \A n : Landed(n)' = Landed(n)
  BY <1>2 DEF Landed
<1> QED
  BY <1>1, <1>2, <1>3, <1>4 DEF Frozen

\* A cycle later a row is one register further.
LEMMA OneFurther ==
  ASSUME cfg.M \in Nat, NEW s \in Nat, NEW x \in Nat
  PROVE  /\ Inside(s + 1, x + 1) <=> Inside(s, x)
         /\ (s + 1) - 1 - (x + 1) = s - 1 - x
         /\ Held(s + 1, x + 1) = Held(s, x)
         /\ Inside(s, x) => s - 1 - x \in 0 .. cfg.M - 1
<1>1. (Inside(s + 1, x + 1) <=> Inside(s, x)) /\ (s + 1) - 1 - (x + 1) = s - 1 - x
  BY DEF Inside
<1> QED
  BY <1>1 DEF Held, Inside

\* The back rotator turns a row of the arrays by the rotation sent with it.
LEMMA BackTurns ==
  ASSUME DatapathStep, chunk \in Addr, chunk > 0, NEW r \in Nat, saQ = SentRow(r),
         backSel[ArrayLatency + 1] = Quot(r) % 4
  PROVE  back' = BackRow(r)
<1>1. PICK g \in Nat : g = Quot(r) /\ g % 4 \in 0 .. 3
  <2>1. Quot(r) \in Nat
    BY QuotIs
  <2> QED
    BY <2>1
<1>2. BackRotatorSel = g % 4
  <2>1. BackTap(cfg.dtype) = ArrayLatency + 1
    BY SixteenRows DEF BackTap, ArrayLatency
  <2> QED
    BY <1>1, <2>1 DEF BackRotatorSel, NoSel
<1>3. saQ # None
  <2>1. DOMAIN saQ = Lanes
    BY DEF SentRow
  <2> QED
    BY <2>1, RowIsSome
<1>4. back' = [l \in Lanes |-> [k \in Lanes |-> <<k, saQ[k]>>][(l - (g % 4)) % 4]]
  BY <1>2, <1>3 DEF DatapathStep, ComputeRows, Rotate
<1>5. ASSUME NEW l \in Lanes
      PROVE  [k \in Lanes |-> <<k, saQ[k]>>][(l - (g % 4)) % 4] = BackWord(r, l)
  <2>1. PICK t \in Lanes : t = (l - g) % 4 /\ (t + g) % 4 = l /\ (l - (g % 4)) % 4 = t
    <3>1. /\ (l - g) % 4 \in Lanes /\ (((l - g) % 4) + g) % 4 = l
          /\ (l - (g % 4)) % 4 = (l - g) % 4
      BY Turns
    <3>2. PICK t \in Lanes : t = (l - g) % 4
      BY <3>1
    <3> QED
      BY <3>1, <3>2
  <2>2. saQ[t] = <<l, (cfg.act[t] + Rem(r)) % ADDRS>>
    BY <1>1, <2>1 DEF SentRow
  <2>3. BackWord(r, l) = <<t, <<l, (cfg.act[t] + Rem(r)) % ADDRS>>>>
    BY <1>1, <2>1 DEF BackWord
  <2> QED
    BY <2>1, <2>2, <2>3
<1> QED
  BY <1>4, <1>5 DEF BackRow

\* The front rotator sends the row the banks have answered with.
LEMMA FrontSends ==
  ASSUME DatapathStep, state = "ACT_SEND", chunk \in Addr, chunk > 0, NEW r \in Nat,
         send[1] = Quot(r), ActAnswer(r)
  PROVE  front' = SentRow(r)
<1>1. PICK g \in Nat : g = Quot(r)
  BY QuotIs
<1>2. front' = [l \in Lanes |-> actQ[(l - (-g)) % 4]]
  BY <1>1 DEF DatapathStep, FrontRotator, FrontSel, Rotate
<1>3. ASSUME NEW l \in Lanes PROVE actQ[(l - (-g)) % 4] = <<(l + g) % 4, (cfg.act[l] + Rem(r)) % ADDRS>>
  <2>1. PICK t \in Lanes : t = (l + g) % 4 /\ (t - g) % 4 = l /\ (l - (-g)) % 4 = t
    BY Turns
  <2> QED
    BY <1>1, <2>1 DEF ActAnswer
<1> QED
  BY <1>1, <1>2, <1>3 DEF SentRow

\* The banks answer with the row that is requested.
LEMMA BanksSend ==
  ASSUME DatapathStep, Frozen, ActBufCen, NEW r \in Nat, req[1] = Quot(r), req[2] = Rem(r)
  PROVE  ActAnswer(r)'
<1>1. \A l \in Lanes : actQ'[l] = <<l, (cfg.act[(l - Quot(r)) % 4] + Rem(r)) % ADDRS>>
  BY DEF DatapathStep, ReadBanks, ActBufAddr
<1> QED
  BY <1>1 DEF ActAnswer, Frozen

\* A row more, or a bubble, enters, and every other one moves on.
LEMMA RowsMove ==
  ASSUME DatapathStep, ~ActOrWg, Frozen, cfg.M \in Nat, chunk \in Addr, chunk > 0,
         NEW s \in Nat, Holding(s), front' = Held(s + 1, 0),
         NEW sel, sel = (IF Inside(s + 1, 0) THEN Quot(s) % 4 ELSE NoSel), BackShift(sel)
  PROVE  Holding(s + 1)'
<1>1. PICK L \in 2 .. 48 : L = ArrayLatency /\ L = ArrayLatency'
  BY LatencyIs DEF Frozen
<1>2. 3 * DEPTH = 48 /\ BackDepth = 50
  BY SixteenRows DEF BackDepth
<1>3. front' = Held(s + 1, 0)'
  BY DEF Frozen
<1>4. ASSUME NEW k \in 1 .. 3 * DEPTH
      PROVE  pipe'[k] = IF k <= L THEN Held(s + 1, k)' ELSE None
  <2>1. pipe'[k] = IF k > L THEN None ELSE IF k > 1 THEN pipe[k - 1] ELSE front
    BY <1>1 DEF DatapathStep, ComputeRows
  <2>2. CASE k > L
    BY <1>2, <2>1, <2>2
  <2>3. CASE k <= L
    <3>1. PICK x \in Nat : x = k - 1 /\ x + 1 = k /\ x <= L
      BY <1>2, <2>3
    <3>2. pipe'[k] = Held(s, x)
      <4>1. CASE x = 0
        BY <2>1, <2>3, <3>1, <4>1 DEF Holding
      <4>2. CASE x # 0
        <5>1. x \in 1 .. 3 * DEPTH
          BY <1>2, <3>1, <4>2
        <5>2. pipe'[k] = pipe[x]
          BY <2>1, <2>3, <3>1, <4>2
        <5> QED
          BY <1>1, <3>1, <5>1, <5>2 DEF Holding
      <4> QED
        BY <4>1, <4>2
    <3>3. Held(s + 1, k) = Held(s, x)
      BY <3>1, OneFurther
    <3> QED
      BY <2>3, <3>2, <3>3 DEF Frozen
  <2> QED
    BY <1>2, <2>2, <2>3
<1>5. saQ' = Held(s + 1, L + 1)'
  <2>1. saQ' = pipe[L]
    BY <1>1 DEF DatapathStep, ComputeRows
  <2>2. L \in 1 .. 3 * DEPTH /\ L \in Nat
    BY <1>2
  <2>3. pipe[L] = Held(s, L)
    BY <1>1, <2>2 DEF Holding
  <2> QED
    BY <2>1, <2>2, <2>3, OneFurther DEF Frozen
<1>6. back' = IF Inside(s + 1, L + 2)' THEN BackRow((s + 1) - 1 - (L + 2))' ELSE None
  <2>1. PICK x \in Nat : x = L + 1 /\ x + 1 = L + 2
    OBVIOUS
  <2>2. saQ = Held(s, x)
    BY <1>1, <2>1 DEF Holding
  <2>3. Inside(s + 1, L + 2)' <=> Inside(s, x)
    BY <2>1, OneFurther DEF Frozen
  <2>4. CASE ~Inside(s, x)
    <3>1. saQ = None
      BY <2>2, <2>4 DEF Held
    <3>2. back' = None
      BY <3>1 DEF DatapathStep, ComputeRows
    <3> QED
      BY <2>3, <2>4, <3>2
  <2>5. CASE Inside(s, x)
    <3>1. PICK r \in Nat : r = s - 1 - x /\ r = (s + 1) - 1 - (L + 2)
      BY <2>1, <2>5 DEF Inside
    <3>2. saQ = SentRow(r)
      BY <2>2, <2>5, <3>1 DEF Held
    <3>3. x \in 0 .. BackDepth - 1
      BY <1>2, <2>1
    <3>4. backSel[x] = Quot(r) % 4
      BY <2>5, <3>1, <3>3 DEF Holding
    <3>5. back' = BackRow(r)
      BY <1>1, <2>1, <3>2, <3>4, BackTurns
    <3> QED
      BY <2>3, <2>5, <3>1, <3>5 DEF Frozen
  <2> QED
    BY <2>4, <2>5
<1>7. ASSUME NEW i \in 0 .. BackDepth' - 1
      PROVE  backSel'[i] = IF Inside(s + 1, i)' THEN Quot((s + 1) - 1 - i)' % 4 ELSE NoSel
  <2>1. i \in 0 .. BackDepth - 1 /\ i \in Nat
    BY <1>2 DEF BackDepth
  <2>2. backSel'[i] = IF i = 0 THEN sel ELSE backSel[i - 1]
    BY <2>1 DEF BackShift
  <2>3. CASE i = 0
    <3>1. (s + 1) - 1 - i = s
      BY <2>3
    <3> QED
      BY <2>2, <2>3, <3>1 DEF Frozen
  <2>4. CASE i # 0
    <3>1. PICK x \in Nat : x = i - 1 /\ x + 1 = i /\ x \in 0 .. BackDepth - 1
      BY <1>2, <2>1, <2>4
    <3>2. backSel'[i] = IF Inside(s, x) THEN Quot(s - 1 - x) % 4 ELSE NoSel
      BY <2>2, <2>4, <3>1 DEF Holding
    <3>3. (Inside(s + 1, i) <=> Inside(s, x)) /\ (s + 1) - 1 - i = s - 1 - x
      BY <3>1, OneFurther
    <3> QED
      BY <3>2, <3>3 DEF Frozen
  <2> QED
    BY <2>3, <2>4
<1> QED
  BY <1>1, <1>3, <1>4, <1>5, <1>6, <1>7 DEF Holding

(* The result rows on their way to the banks.                               *)

\* The count of rows that have left, a cycle later.
LEMMA UptoStep ==
  ASSUME cfg.M \in Nat, NEW n \in Int
  PROVE  /\ n >= 0 /\ n < cfg.M => Upto(n) = n /\ Upto(n + 1) = n + 1
         /\ ~(n >= 0 /\ n < cfg.M) => Upto(n + 1) = Upto(n)
         /\ n >= cfg.M => Upto(n) = cfg.M
BY DEF Upto

\* A row more in the banks.
LEMMA LandedStep ==
  ASSUME NEW n \in Nat
  PROVE  Landed(n + 1) = Landed(n) \union {<<l, PortRow(n)[l]>> : l \in Lanes}
<1>1. 0 .. (n + 1) - 1 = (0 .. n - 1) \union {n}
  OBVIOUS
<1>2. \A x : x \in Landed(n + 1) <=> \E l \in Lanes, r \in (0 .. n - 1) \union {n} : x = <<l, PortRow(r)[l]>>
  BY <1>1, SMT DEF Landed
<1>3. \A x : x \in Landed(n) <=> \E l \in Lanes, r \in 0 .. n - 1 : x = <<l, PortRow(r)[l]>>
  BY SMT DEF Landed
<1>4. \A x : x \in {<<l, PortRow(n)[l]>> : l \in Lanes} <=> \E l \in Lanes : x = <<l, PortRow(n)[l]>>
  BY Zenon
<1>5. ASSUME NEW x
      PROVE  x \in Landed(n + 1) <=> x \in Landed(n) \union {<<l, PortRow(n)[l]>> : l \in Lanes}
  <2>1. (\E l \in Lanes, r \in (0 .. n - 1) \union {n} : x = <<l, PortRow(r)[l]>>) <=>
          \/ \E l \in Lanes, r \in 0 .. n - 1 : x = <<l, PortRow(r)[l]>>
          \/ \E l \in Lanes : x = <<l, PortRow(n)[l]>>
    BY Zenon
  <2> QED
    BY <1>2, <1>3, <1>4, <2>1, Zenon
<1> QED
  BY <1>5, Zenon

\* The port takes the row that the arrays give, at the place of its pair.
LEMMA PortTakes ==
  ASSUME DatapathStep, state \in {"WAIT_COMPUTE_DONE", "OUT_WRITE"}, chunk \in Addr, chunk > 0,
         out \in Addr \X Addr, NEW n \in Nat, PairIs(out, n), back = BackRow(n)
  PROVE  outPort' = PortRow(n)
<1>1. out[1] = Quot(n) /\ out[2] = Rem(n)
  BY PairQuot
<1>2. back # None
  <2>1. DOMAIN back = Lanes
    BY DEF BackRow
  <2> QED
    BY <2>1, RowIsSome
<1>3. outPort' = [l \in Lanes |-> <<OutBufAddr(l), back[l]>>]
  BY <1>2 DEF DatapathStep, WriteBanks, OutputValid
<1>4. ASSUME NEW l \in Lanes
      PROVE  <<OutBufAddr(l), back[l]>> =
               <<(cfg.out[(l - Quot(n)) % 4] + Rem(n)) % ADDRS, BackWord(n, l)>>
  BY <1>1 DEF OutBufAddr, BackRow
<1> QED
  BY <1>3, <1>4, Zenon DEF PortRow

\* A row on its way is not the bubble.
LEMMA RowSome == \A r : SentRow(r) # None /\ BackRow(r) # None /\ PortRow(r) # None
<1> SUFFICES ASSUME NEW r PROVE SentRow(r) # None /\ BackRow(r) # None /\ PortRow(r) # None
  OBVIOUS
<1>1. DOMAIN SentRow(r) = Lanes /\ DOMAIN BackRow(r) = Lanes /\ DOMAIN PortRow(r) = Lanes
  BY DEF SentRow, BackRow, PortRow
<1> QED
  BY <1>1, RowIsSome

\* The result rows that come back in a cycle, and those that the port writes.
LEMMA CollectStep ==
  ASSUME DatapathStep, Frozen, state \in {"WAIT_COMPUTE_DONE", "OUT_WRITE"},
         cfg.M \in Addr, chunk \in Addr, chunk > 0, out \in Addr \X Addr,
         NEW s \in Nat, Holding(s), Collected(s),
         OutputValid => OutputFire, ~OutputValid => NoOutput
  PROVE  Collected(s + 1)'
<1>1. PICK L \in 2 .. 48 : L = ArrayLatency /\ L = ArrayLatency'
  BY LatencyIs DEF Frozen
<1>2. PICK M \in Nat : M = cfg.M /\ M < ADDRS
  BY AddrsAssumption DEF Addr
<1>3. PICK n \in Int : /\ n = s - L - 3 /\ n - 1 = s - L - 4 /\ n + 1 = (s + 1) - L - 3 /\ n = (s + 1) - L - 4
                       /\ n = s - 1 - (L + 2) /\ n = (s + 1) - 1 - (L + 3) /\ n - 1 = s - 1 - (L + 3)
  <2>1. s - L - 3 \in Int
    OBVIOUS
  <2> QED
    BY <2>1
<1>4. (Inside(s, L + 2) <=> n >= 0 /\ n < M) /\ (Inside(s, L + 3) <=> n - 1 >= 0 /\ n - 1 < M)
  BY <1>2, <1>3 DEF Inside
<1>5. Inside(s + 1, L + 3)' <=> Inside(s, L + 2)
  <2>1. PICK x \in Nat : x = L + 2 /\ x + 1 = L + 3
    OBVIOUS
  <2> QED
    BY <1>2, <2>1, OneFurther DEF Frozen
<1>6. back = IF Inside(s, L + 2) THEN BackRow(n) ELSE None
  BY <1>1, <1>3 DEF Holding
<1>7. OutputValid <=> Inside(s, L + 2)
  BY <1>6, RowSome DEF OutputValid
<1>8. PairIs(out, Upto(n))
  BY <1>1, <1>3 DEF Collected
<1>9. PairIs(out', Upto(n + 1))
  <2>1. CASE Inside(s, L + 2)
    <3>1. n \in Addr /\ n < ADDRS - 1 /\ Upto(n) = n /\ Upto(n + 1) = n + 1
      BY <1>2, <1>4, <2>1, UptoStep, AddrsAssumption DEF Addr
    <3>2. out' = NextPair(out)
      BY <1>7, <2>1 DEF OutputFire
    <3> QED
      BY <1>8, <3>1, <3>2, PairStep
  <2>2. CASE ~Inside(s, L + 2)
    <3>1. Upto(n + 1) = Upto(n)
      BY <1>2, <1>4, <2>2, UptoStep
    <3>2. out' = out
      BY <1>7, <2>2 DEF NoOutput
    <3> QED
      BY <1>8, <3>1, <3>2
  <2> QED
    BY <2>1, <2>2
<1>10. outPort' = IF Inside(s, L + 2) THEN PortRow(n) ELSE None
  <2>1. CASE Inside(s, L + 2)
    <3>1. n \in Nat /\ Upto(n) = n
      BY <1>2, <1>4, <2>1, UptoStep
    <3> QED
      BY <1>6, <1>8, <2>1, <3>1, PortTakes
  <2>2. CASE ~Inside(s, L + 2)
    BY <1>7, <2>2 DEF DatapathStep, WriteBanks
  <2> QED
    BY <2>1, <2>2
<1>11. written' = Landed(Upto(n))
  <2>1. written = Landed(Upto(n - 1)) /\ outPort = IF Inside(s, L + 3) THEN PortRow(n - 1) ELSE None
    BY <1>1, <1>3 DEF Collected
  <2>2. written' = IF outPort = None THEN written ELSE written \union {<<l, outPort[l]>> : l \in Lanes}
    BY DEF DatapathStep, WriteBanks
  <2>3. PICK m \in Int : m = n - 1 /\ m + 1 = n
    OBVIOUS
  <2>4. CASE Inside(s, L + 3)
    <3>1. m \in Nat /\ Upto(m) = m /\ Upto(n) = m + 1
      BY <1>2, <1>4, <2>3, <2>4, UptoStep
    <3>2. outPort = PortRow(m) /\ outPort # None /\ written = Landed(m)
      BY <2>1, <2>3, <2>4, <3>1, RowSome
    <3>3. written' = Landed(m) \union {<<l, PortRow(m)[l]>> : l \in Lanes}
      BY <2>2, <3>2, Zenon
    <3> QED
      BY <3>1, <3>3, LandedStep
  <2>5. CASE ~Inside(s, L + 3)
    <3>1. Upto(n) = Upto(m)
      BY <1>2, <1>4, <2>3, <2>5, UptoStep
    <3> QED
      BY <2>1, <2>2, <2>3, <2>5, <3>1
  <2> QED
    BY <2>4, <2>5
<1>12. PairIs(out', Upto(n + 1)') /\ PairIs(out, Upto((s + 1) - ArrayLatency - 3))'
  <2>1. PairIs(out', Upto(n + 1)')
    BY <1>9 DEF Frozen
  <2>2. PairIs(out, Upto(n + 1))'
    BY <2>1 DEF Frozen, PairIs
  <2> QED
    BY <1>1, <1>3, <2>1, <2>2
<1>13. outPort' = IF Inside(s + 1, L + 3)' THEN PortRow((s + 1) - 1 - (L + 3))' ELSE None
  BY <1>3, <1>5, <1>10 DEF Frozen
<1>14. written' = Landed(Upto((s + 1) - L - 4))'
  BY <1>3, <1>11 DEF Frozen, Landed, Upto
<1> QED
  BY <1>1, <1>12, <1>13, <1>14 DEF Collected

\* The place of row i of tile t's block b in the product.
PlaceOf(t, b, i) == <<b, <<(cfg.out[t] + i) % ADDRS, <<t, <<b, (cfg.act[t] + i) % ADDRS>>>>>>>>

\* The port puts a word at its place of the product.
LEMMA PortPlaces ==
  ASSUME NEW l \in Lanes, NEW r \in Nat, NEW t, t = (l - Quot(r)) % 4
  PROVE  <<l, PortRow(r)[l]>> = PlaceOf(t, l, Rem(r))
BY DEF PortRow, BackWord, PlaceOf

\* The two sets, by their elements.
LEMMA ProductIs ==
  ASSUME NEW x
  PROVE  /\ x \in Job!Product(cfg) <=>
              \E t \in Lanes, b \in Lanes, i \in 0 .. cfg.M \div 4 - 1 : x = PlaceOf(t, b, i)
         /\ \A n : x \in Landed(n) <=>
              \E l \in Lanes, r \in 0 .. n - 1 : x = <<l, PortRow(r)[l]>>
<1>1. x \in Job!Product(cfg) <=>
        \E t \in Lanes, b \in Lanes, i \in 0 .. cfg.M \div 4 - 1 : x = PlaceOf(t, b, i)
  BY SMT DEF Job!Product, Job!Tiles, Job!Banks, Job!Place, Lanes, PlaceOf
<1>2. \A n : x \in Landed(n) <=> \E l \in Lanes, r \in 0 .. n - 1 : x = <<l, PortRow(r)[l]>>
  BY SMT DEF Landed
<1> QED
  BY <1>1, <1>2

\* A row is a quarter and a place in it.
LEMMA RowOfQuarter ==
  ASSUME NEW c \in Nat \ {0}, NEW q \in 0 .. 3, NEW i \in 0 .. c - 1
  PROVE  q * c + i \in 0 .. 4 * c - 1
<1>1. q = 0 \/ q = 1 \/ q = 2 \/ q = 3
  OBVIOUS
<1> QED
  BY <1>1

\* All the rows of a legal batch are the product.
LEMMA LandedAll ==
  ASSUME cfg.M \in Nat, LegalJob(cfg), chunk = ChunkSafe, chunk \in Addr, chunk > 0
  PROVE  Landed(cfg.M) = Job!Product(cfg)
<1>1. PICK M \in Nat : M = cfg.M /\ M % 4 = 0
  BY DEF LegalJob
<1>2. CASE M = 0
  <2>1. 0 .. M - 1 = {} /\ 0 .. M \div 4 - 1 = {}
    BY <1>2
  <2> QED
    BY <1>1, <2>1, ProductIs, Zenon
<1>3. CASE M # 0
  <2>1. PICK c \in Nat \ {0} : c = M \div 4 /\ M = 4 * c
    BY <1>1, <1>3
  <2>2. c = chunk
    BY <1>1, <2>1 DEF ChunkSafe
  <2>3. ASSUME NEW l \in Lanes, NEW r \in 0 .. M - 1
        PROVE  \E t \in Lanes, b \in Lanes, i \in 0 .. M \div 4 - 1 : <<l, PortRow(r)[l]>> = PlaceOf(t, b, i)
    <3>1. r \in Nat /\ r < 4 * c
      BY <2>1
    <3>2. PICK q \in Nat, i \in 0 .. c - 1 : q = Quot(r) /\ i = Rem(r)
      BY <2>2, <3>1, QuotIs
    <3>3. PICK t \in Lanes : t = (l - q) % 4
      BY Turns
    <3>4. <<l, PortRow(r)[l]>> = PlaceOf(t, l, i)
      BY <3>1, <3>2, <3>3, PortPlaces, Zenon
    <3>5. i \in 0 .. M \div 4 - 1
      BY <2>1
    <3> QED
      BY <3>4, <3>5, Zenon
  <2>4. ASSUME NEW t \in Lanes, NEW b \in Lanes, NEW i \in 0 .. M \div 4 - 1
        PROVE  \E l \in Lanes, r \in 0 .. M - 1 : PlaceOf(t, b, i) = <<l, PortRow(r)[l]>>
    <3>1. PICK q \in Nat : q \in 0 .. 3 /\ (b - q) % 4 = t
      <4>1. (b - t) % 4 \in Nat /\ (b - t) % 4 \in 0 .. 3 /\ (b - ((b - t) % 4)) % 4 = t
        BY DEF Lanes
      <4> QED
        BY <4>1, Zenon
    <3>2. PICK j \in 0 .. c - 1 : j = i
      BY <2>1
    <3>3. PICK r \in Nat : r = q * c + j /\ r \in 0 .. M - 1
      <4>1. q * c + j \in 0 .. 4 * c - 1
        BY <3>1, RowOfQuarter
      <4>2. 0 .. 4 * c - 1 = 0 .. M - 1
        BY <2>1
      <4>3. \A x \in 0 .. M - 1 : x \in Nat
        OBVIOUS
      <4> QED
        BY <4>1, <4>2, <4>3, Zenon
    <3>4. j \in Nat /\ PairIs(<<q, j>>, r)
      BY <2>2, <3>3 DEF PairIs
    <3>5. Quot(r) = q /\ Rem(r) = j
      BY <3>4, QuotOf
    <3>6. Quot(r) = q /\ Rem(r) = i
      BY <3>2, <3>5
    <3>7. <<b, PortRow(r)[b]>> = PlaceOf(t, b, i)
      BY <3>1, <3>6, PortPlaces
    <3> QED
      BY <3>3, <3>7, Zenon
  <2>5. ASSUME NEW x
        PROVE  /\ x \in Landed(M) <=> \E l \in Lanes, r \in 0 .. M - 1 : x = <<l, PortRow(r)[l]>>
               /\ x \in Job!Product(cfg) <=>
                    \E t \in Lanes, b \in Lanes, i \in 0 .. M \div 4 - 1 : x = PlaceOf(t, b, i)
    BY <1>1, ProductIs
  <2>6. ASSUME NEW x, x \in Landed(M) PROVE x \in Job!Product(cfg)
    <3>1. PICK l \in Lanes, r \in 0 .. M - 1 : x = <<l, PortRow(r)[l]>>
      BY <2>5, <2>6, Zenon
    <3>2. \E t \in Lanes, b \in Lanes, i \in 0 .. M \div 4 - 1 : <<l, PortRow(r)[l]>> = PlaceOf(t, b, i)
      BY <2>3, Zenon
    <3> QED
      BY <2>5, <3>1, <3>2, Zenon
  <2>7. ASSUME NEW x, x \in Job!Product(cfg) PROVE x \in Landed(M)
    <3>1. PICK t \in Lanes, b \in Lanes, i \in 0 .. M \div 4 - 1 : x = PlaceOf(t, b, i)
      BY <2>5, <2>7, Zenon
    <3>2. \E l \in Lanes, r \in 0 .. M - 1 : PlaceOf(t, b, i) = <<l, PortRow(r)[l]>>
      BY <2>4, Zenon
    <3> QED
      BY <2>5, <3>1, <3>2, Zenon
  <2>8. Landed(M) = Job!Product(cfg)
    BY <2>6, <2>7, Zenon
  <2> QED
    BY <1>1, <2>8
<1> QED
  BY <1>2, <1>3

\* Without a row in front nothing moves.
LEMMA DrainStays ==
  ASSUME DatapathStep, Drained, ActOrWg \/ front = None
  PROVE  Drained'
<1>1. PICK L \in 2 .. 48 : L = ArrayLatency
  BY LatencyIs
<1>2. 3 * DEPTH = 48
  BY SixteenRows
<1>3. ASSUME NEW k \in 1 .. 3 * DEPTH PROVE pipe'[k] = None
  <2>1. pipe'[k] = IF k > L THEN None ELSE IF k > 1 THEN pipe[k - 1] ELSE IF ActOrWg THEN None ELSE front
    BY <1>1 DEF DatapathStep, ComputeRows
  <2>2. k > 1 => k - 1 \in 1 .. 3 * DEPTH
    BY <1>2
  <2> QED
    BY <2>1, <2>2 DEF Drained
<1>4. saQ' = None
  <2>1. saQ' = pipe[L]
    BY <1>1 DEF DatapathStep, ComputeRows
  <2>2. L \in 1 .. 3 * DEPTH
    BY <1>2
  <2> QED
    BY <2>1, <2>2 DEF Drained
<1>5. back' = None
  BY DEF DatapathStep, ComputeRows, Drained
<1> QED
  BY <1>3, <1>4, <1>5 DEF Drained

\* The front rotator has a row behind every cycle that sends one.
LEMMA FrontIs ==
  ASSUME DatapathStep
  PROVE  /\ state \in {"WGT_SEND", "ACT_SEND"} => front' # None
         /\ state \notin {"WGT_SEND", "ACT_SEND"} => front' = None
<1>1. front' = CASE state = "WGT_SEND" -> Rotate(wgtQ, FrontSel)
             [] state = "ACT_SEND" -> Rotate(actQ, FrontSel)
             [] OTHER -> None
  BY DEF DatapathStep, FrontRotator
<1>2. Rotate(wgtQ, FrontSel) # None /\ Rotate(actQ, FrontSel) # None
  <2>1. DOMAIN Rotate(wgtQ, FrontSel) = Lanes /\ DOMAIN Rotate(actQ, FrontSel) = Lanes
    BY DEF Rotate
  <2> QED
    BY <2>1, RowIsSome
<1> QED
  BY <1>1, <1>2

\* Outside the flow of rows nothing is on its way.
LEMMA QuietPorts ==
  ASSUME DataInv, DatapathStep, state \notin Rowing
  PROVE  Drained' /\ outPort' = None /\ (state # "WGT_SEND" => front' = None)
<1>1. state \in States
  BY DEF DataInv, IInv, CtrlTypeOK
<1>2. Drained /\ (ActOrWg \/ front = None)
  BY <1>1 DEF DataInv, FlowInv, ActOrWg, States, Rowing
<1>3. Drained'
  BY <1>2, DrainStays
<1>4. state # "WGT_SEND" => front' = None
  BY FrontIs DEF Rowing
<1>5. outPort' = None
  BY DEF DatapathStep, WriteBanks, Rowing
<1> QED
  BY <1>3, <1>4, <1>5

\* A cycle that ends in IDLE leaves nothing on its way.
LEMMA IdleFlow ==
  ASSUME DataInv, DatapathStep, state \in {"IDLE", "DONE"}, state' = "IDLE" PROVE FlowInv'
<1>1. Drained' /\ outPort' = None /\ front' = None
  BY QuietPorts DEF Rowing
<1> QED
  BY <1>1 DEF FlowInv, Rowing, BeforeSend

\* A start clears the counters, the delay line and the record of writes.
LEMMA StartFlow == ASSUME DataInv, DatapathStep, Start PROVE FlowInv'
<1>1. state = "IDLE" /\ state' = "WGT_REQ" /\ cfg' = cfg /\ chunk' = ChunkSafe /\ out' = Zero
      /\ backSel' = [i \in 0 .. BackDepth - 1 |-> NoSel]
  BY DEF Start, Goto
<1>2. Drained' /\ outPort' = None /\ front' = None
  BY <1>1, QuietPorts DEF Rowing
<1>3. written' = {}
  BY <1>1 DEF DatapathStep, WriteBanks
<1>4. chunk' = ChunkSafe'
  BY <1>1 DEF ChunkSafe
<1>5. \A i \in 0 .. BackDepth' - 1 : backSel'[i] = NoSel
  BY <1>1 DEF BackDepth
<1> QED
  BY <1>1, <1>2, <1>3, <1>4, <1>5 DEF FlowInv, Rowing

\* The delay line takes in nothing.
LEMMA SelsStay ==
  ASSUME Tick(NoSel), \A i \in 0 .. BackDepth - 1 : backSel[i] = NoSel
  PROVE  \A i \in 0 .. BackDepth' - 1 : backSel'[i] = NoSel
<1>1. BackDepth = 50 /\ BackDepth' = 50
  BY SixteenRows DEF BackDepth
<1>2. ASSUME NEW i \in 0 .. BackDepth - 1 PROVE backSel'[i] = NoSel
  <2>1. backSel'[i] = IF i = 0 THEN NoSel ELSE backSel[i - 1]
    BY DEF Tick, BackShift
  <2>2. i # 0 => i - 1 \in 0 .. BackDepth - 1
    BY <1>1
  <2> QED
    BY <2>1, <2>2
<1> QED
  BY <1>1, <1>2

\* The cycles between the start and the first row.
LEMMA QuietFlow ==
  ASSUME DataInv, DatapathStep, state \in BeforeSend, state' \in BeforeSend \cup {"DONE"},
         state = "WGT_SEND" => state' \in {"WGT_SEND", "WAIT_SEMI_FULL"},
         state' = "DONE" => cfg.M = 0, cfg' = cfg, chunk' = chunk, out' = out, Tick(NoSel)
  PROVE  FlowInv'
<1>1. state \notin Rowing /\ state # "IDLE" /\ state' \notin Rowing /\ state' # "IDLE"
  BY DEF BeforeSend, Rowing
<1>2. Drained' /\ outPort' = None /\ (state # "WGT_SEND" => front' = None)
  BY <1>1, QuietPorts
<1>3. chunk' = ChunkSafe'
  BY <1>1 DEF DataInv, FlowInv, ChunkSafe
<1>4. out' = Zero /\ written' = {}
  <2>1. out = Zero /\ written = {} /\ outPort = None
    BY <1>1 DEF DataInv, FlowInv, BeforeSend, Rowing
  <2> QED
    BY <1>1, <2>1 DEF DatapathStep, WriteBanks
<1>5. \A i \in 0 .. BackDepth' - 1 : backSel'[i] = NoSel
  BY SelsStay DEF DataInv, FlowInv
<1>6. state' = "DONE" => written' = Job!Product(cfg)'
  <2>1. SUFFICES ASSUME state' = "DONE" PROVE Job!Product(cfg') = {}
    BY <1>4 DEF Job!Product, Job!Place, Job!Tiles, Job!Banks
  <2>2. 0 .. cfg'.M \div 4 - 1 = {}
    BY <2>1
  <2> QED
    BY <2>2, SMT DEF Job!Product
<1> QED
  BY <1>1, <1>2, <1>3, <1>4, <1>5, <1>6 DEF FlowInv, Rowing, BeforeSend

\* The first activation row is read.
LEMMA ActReqFlow == ASSUME DataInv, DatapathStep, ActReq PROVE FlowInv'
<1>1. /\ state = "ACT_REQ" /\ state' = "ACT_SEND" /\ actRow' = actRow /\ cfg' = cfg
      /\ chunk' = chunk /\ out' = out /\ Tick(NoSel)
  BY DEF ActReq, Goto
<1>2. /\ actRow = 0 /\ cfg.M \in Nat /\ chunk \in Addr /\ chunk > 0
      /\ req \in Addr \X Addr /\ PairIs(req, 0)
  BY <1>1 DEF DataInv, IInv, BeforeSend, CtrlTypeOK, Config, Addr, PairsExact
<1>3. out = Zero /\ written = {} /\ outPort = None /\ chunk = ChunkSafe
      /\ \A i \in 0 .. BackDepth - 1 : backSel[i] = NoSel
  BY <1>1 DEF DataInv, FlowInv, BeforeSend, Rowing
<1>4. Drained' /\ outPort' = None /\ front' = None
  BY <1>1, QuietPorts DEF Rowing
<1>5. Frozen
  BY <1>1, RegistersKept
<1>6. ActAnswer(0)'
  <2>1. ActBufCen
    BY <1>1 DEF ActBufCen
  <2>2. req[1] = Quot(0) /\ req[2] = Rem(0)
    BY <1>2, PairQuot
  <2> QED
    BY <1>5, <2>1, <2>2, BanksSend
<1>7. Holding(0)'
  <2>1. PICK L \in 2 .. 48 : L = ArrayLatency'
    BY <1>5, LatencyIs DEF Frozen
  <2>2. \A x \in Nat : ~Inside(0, x)' /\ Held(0, x)' = None
    BY DEF Inside, Held
  <2>3. \A i \in 0 .. BackDepth' - 1 : i \in Nat /\ backSel'[i] = NoSel
    <3>1. \A i \in 0 .. BackDepth' - 1 : backSel'[i] = NoSel
      BY <1>1, <1>3, SelsStay
    <3>2. \A i \in 0 .. BackDepth' - 1 : i \in Nat
      BY SixteenRows DEF BackDepth
    <3> QED
      BY <3>1, <3>2
  <2>4. \A k \in 1 .. 3 * DEPTH : k \in Nat
    BY SixteenRows
  <2>5. 0 \in Nat /\ L + 1 \in Nat /\ L + 2 \in Nat
    OBVIOUS
  <2> QED
    BY <1>4, <2>1, <2>2, <2>3, <2>4, <2>5 DEF Holding, Drained
<1>8. Holding(actRow)' /\ ActAnswer(actRow)'
  BY <1>1, <1>2, <1>6, <1>7
<1>9. written' = {} /\ out' = Zero /\ chunk' = ChunkSafe'
  BY <1>1, <1>3 DEF DatapathStep, WriteBanks, ChunkSafe
<1> QED
  BY <1>1, <1>4, <1>8, <1>9 DEF FlowInv, Rowing, BeforeSend

\* A row is sent: the banks have answered with it, and are asked for the next.
LEMMA SendStep ==
  ASSUME DataInv, DatapathStep, ActSend, NEW s \in Nat, s = actRow
  PROVE  Frozen /\ Holding(s + 1)' /\ (~ActSendLast => ActAnswer(s + 1)')
<1>1. state = "ACT_SEND" /\ cfg' = cfg /\ chunk' = chunk /\ BackShift(send[1] % 4)
  BY DEF ActSend, Goto, Tick
<1>2. Frozen
  BY <1>1, RegistersKept
<1>3. /\ chunk \in Addr /\ chunk > 0 /\ send \in Addr \X Addr /\ req \in Addr \X Addr
      /\ PairIs(send, s) /\ PairIs(req, s + 1) /\ cfg.M \in Nat /\ s < cfg.M
  BY <1>1, AddrsAssumption DEF DataInv, IInv, CtrlTypeOK, PairsExact, Config, Addr
<1>4. Holding(s) /\ ActAnswer(s) /\ ~ActOrWg
  BY <1>1 DEF DataInv, FlowInv, ActOrWg
<1>5. send[1] = Quot(s) /\ send[2] = Rem(s)
  BY <1>3, PairQuot
<1>6. Inside(s + 1, 0) /\ (s + 1) - 1 - 0 = s
  BY <1>3 DEF Inside
<1>7. front' = Held(s + 1, 0)
  <2>1. front' = SentRow(s)
    BY <1>1, <1>3, <1>4, <1>5, FrontSends
  <2> QED
    BY <1>6, <2>1 DEF Held
<1>8. Holding(s + 1)'
  <2>1. PICK sel : sel = send[1] % 4
    OBVIOUS
  <2>2. sel = (IF Inside(s + 1, 0) THEN Quot(s) % 4 ELSE NoSel) /\ BackShift(sel)
    BY <1>1, <1>5, <1>6, <2>1
  <2> QED
    BY <1>2, <1>3, <1>4, <1>7, <2>2, RowsMove
<1>9. ASSUME ~ActSendLast PROVE ActAnswer(s + 1)'
  <2>1. ActBufCen
    BY <1>1, <1>3, <1>9 DEF ActBufCen, ActHasNext, ActSendLast
  <2>2. s + 1 \in Nat
    OBVIOUS
  <2>3. req[1] = Quot(s + 1) /\ req[2] = Rem(s + 1)
    BY <1>3, <2>2, PairQuot
  <2> QED
    BY <1>2, <2>1, <2>2, <2>3, BanksSend
<1> QED
  BY <1>2, <1>8, <1>9

\* A legal batch has been sent before its first row comes back.
LEMMA NothingBack ==
  ASSUME LegalJob(cfg), cfg.M \in Nat, chunk > 0, chunk \in Addr
  PROVE  /\ Upto(cfg.M - ArrayLatency - 3) = 0 /\ Upto(cfg.M - ArrayLatency - 4) = 0
         /\ ~Inside(cfg.M, ArrayLatency + 3) /\ PairIs(Zero, 0) /\ Landed(0) = {}
<1>1. PICK L \in 2 .. 48 : L = ArrayLatency
  BY LatencyIs
<1>2. PICK M \in Nat : M = cfg.M /\ M <= L + 3
  BY <1>1 DEF LegalJob, ArrayLatency
<1>3. Upto(M - L - 3) = 0 /\ Upto(M - L - 4) = 0 /\ ~Inside(M, L + 3)
  BY <1>2 DEF Upto, Inside
<1>4. PairIs(Zero, 0)
  BY AddrsAssumption DEF PairIs, Zero, Addr
<1>5. Landed(0) = {}
  <2>1. 0 .. 0 - 1 = {}
    OBVIOUS
  <2> QED
    BY <2>1, SMT DEF Landed
<1> QED
  BY <1>1, <1>2, <1>3, <1>4, <1>5

\* Activation rows are sent until the last one.
LEMMA ActSendFlow == ASSUME DataInv, DatapathStep, ActSend PROVE FlowInv'
<1>1. /\ state = "ACT_SEND" /\ cfg' = cfg /\ chunk' = chunk /\ out' = out
      /\ state' = (IF ActSendLast THEN "WAIT_COMPUTE_DONE" ELSE "ACT_SEND")
      /\ actRow' = (IF ActSendLast THEN actRow ELSE Inc(actRow))
  BY DEF ActSend, Goto
<1>2. PICK s \in Nat : s = actRow
  BY DEF DataInv, IInv, CtrlTypeOK, Addr
<1>3. PICK M \in Nat : M = cfg.M /\ M < ADDRS /\ s < M
  <2>1. cfg.M \in Addr /\ s < cfg.M
    BY <1>1, <1>2 DEF DataInv, IInv, CtrlTypeOK, Config
  <2>2. \A m \in Addr : m \in Nat /\ m < ADDRS
    BY AddrsAssumption DEF Addr
  <2> QED
    BY <2>1, <2>2, Zenon
<1>4. Frozen /\ Holding(s + 1)' /\ (~ActSendLast => ActAnswer(s + 1)')
  BY <1>2, SendStep
<1>5. outPort' = None /\ written' = {} /\ out' = Zero /\ chunk' = ChunkSafe'
  <2>1. outPort = None /\ written = {} /\ out = Zero /\ chunk = ChunkSafe
    BY <1>1 DEF DataInv, FlowInv
  <2> QED
    BY <1>1, <2>1 DEF DatapathStep, WriteBanks, ChunkSafe
<1>6. CASE ActSendLast
  <2>1. state' = "WAIT_COMPUTE_DONE" /\ s + 1 \in Nat /\ s + 1 = cfg'.M /\ s + 1 >= cfg'.M
    BY <1>1, <1>2, <1>3, <1>6 DEF ActSendLast
  <2>2. LegalJob(cfg)' => Collected(s + 1)'
    <3>1. SUFFICES ASSUME LegalJob(cfg)' PROVE Collected(s + 1)'
      OBVIOUS
    <3>2. LegalJob(cfg) /\ cfg.M \in Nat /\ chunk > 0 /\ chunk \in Addr
      BY <1>1, <1>3, <3>1 DEF DataInv, IInv, CtrlTypeOK, LegalJob
    <3>3. PICK L \in 2 .. 48 : L = ArrayLatency /\ L = ArrayLatency'
      BY <1>4, LatencyIs DEF Frozen
    <3>4. s + 1 = cfg.M
      BY <1>1, <2>1
    <3>5. /\ Upto((s + 1) - L - 3) = 0 /\ Upto((s + 1) - L - 4) = 0
          /\ ~Inside(s + 1, L + 3) /\ PairIs(Zero, 0) /\ Landed(0) = {}
      BY <3>2, <3>3, <3>4, NothingBack
    <3>6. /\ Upto((s + 1) - L - 3)' = 0 /\ Upto((s + 1) - L - 4)' = 0
          /\ ~Inside(s + 1, L + 3)' /\ PairIs(Zero, 0)' /\ Landed(0)' = {}
      BY <1>4, <3>5 DEF Frozen
    <3> QED
      BY <1>5, <3>3, <3>6 DEF Collected
  <2>3. \E x \in Nat : x >= cfg'.M /\ Holding(x)' /\ (LegalJob(cfg)' => Collected(x)')
    BY <1>4, <2>1, <2>2
  <2> QED
    BY <1>5, <2>1, <2>3 DEF FlowInv, Rowing, BeforeSend
<1>7. CASE ~ActSendLast
  <2>1. s \in 0 .. ADDRS - 1 /\ s < ADDRS - 1 /\ ADDRS \in Nat /\ ADDRS > 0
    BY <1>3, AddrsAssumption
  <2>2. Inc(s) = s + 1
    BY <2>1, ModStep DEF Inc
  <2>3. actRow' = s + 1 /\ state' = "ACT_SEND"
    BY <1>1, <1>2, <1>7, <2>2
  <2>4. Holding(actRow)' /\ ActAnswer(actRow)'
    BY <1>4, <1>7, <2>3
  <2> QED
    BY <1>5, <2>3, <2>4 DEF FlowInv, Rowing, BeforeSend
<1> QED
  BY <1>6, <1>7

\* The two states that wait for result rows.
LEMMA WaitStep ==
  ASSUME DataInv, DatapathStep, state \in {"WAIT_COMPUTE_DONE", "OUT_WRITE"},
         cfg' = cfg, chunk' = chunk, Tick(NoSel),
         OutputValid => OutputFire, ~OutputValid => NoOutput,
         NEW s \in Nat, s >= cfg.M, Holding(s), LegalJob(cfg) => Collected(s)
  PROVE  /\ Frozen /\ chunk' = ChunkSafe' /\ Holding(s + 1)'
         /\ (LegalJob(cfg)' => Collected(s + 1)') /\ s + 1 \in Nat /\ s + 1 >= cfg'.M
         /\ OutputValid <=> Inside(s, ArrayLatency + 2)
         /\ front' = None /\ (~OutputValid => outPort' = None)
<1>1. Frozen
  BY RegistersKept
<1>2. cfg.M \in Addr /\ cfg.M \in Nat /\ chunk \in Addr /\ chunk > 0 /\ out \in Addr \X Addr
  BY AddrsAssumption DEF DataInv, IInv, CtrlTypeOK, Config, Addr
<1>3. front' = None /\ ~ActOrWg
  BY FrontIs DEF ActOrWg
<1>4. ~Inside(s + 1, 0)
  BY <1>2 DEF Inside
<1>5. Holding(s + 1)'
  <2>1. front' = Held(s + 1, 0)
    BY <1>3, <1>4 DEF Held
  <2>2. BackShift(NoSel) /\ NoSel = (IF Inside(s + 1, 0) THEN Quot(s) % 4 ELSE NoSel)
    BY <1>4 DEF Tick
  <2> QED
    BY <1>1, <1>2, <1>3, <2>1, <2>2, RowsMove
<1>6. LegalJob(cfg)' => Collected(s + 1)'
  <2>1. LegalJob(cfg)' <=> LegalJob(cfg)
    BY DEF LegalJob
  <2> QED
    BY <1>1, <1>2, <2>1, CollectStep
<1>7. OutputValid <=> Inside(s, ArrayLatency + 2)
  BY RowSome DEF Holding, OutputValid
<1>8. chunk' = ChunkSafe'
  BY DEF DataInv, FlowInv, ChunkSafe
<1>9. ~OutputValid => outPort' = None
  BY DEF DatapathStep, WriteBanks
<1>10. s + 1 \in Nat /\ s + 1 >= cfg'.M
  BY <1>2
<1> QED
  BY <1>1, <1>3, <1>5, <1>6, <1>7, <1>8, <1>9, <1>10

\* The wait for the first result row.
LEMMA WaitRowsFlow ==
  ASSUME DataInv, DatapathStep, WaitComputeDone(OutputValid, ComputeDone) PROVE FlowInv'
<1>1. /\ state = "WAIT_COMPUTE_DONE" /\ cfg' = cfg /\ chunk' = chunk /\ Tick(NoSel)
      /\ state' = (IF OutputValid THEN "OUT_WRITE" ELSE IF ComputeDone THEN "DONE" ELSE "WAIT_COMPUTE_DONE")
      /\ (OutputValid => OutputFire) /\ (~OutputValid => NoOutput)
  BY DEF WaitComputeDone, Goto
<1>2. PICK s \in Nat : s >= cfg.M /\ Holding(s) /\ (LegalJob(cfg) => Collected(s))
  BY <1>1 DEF DataInv, FlowInv
<1>3. /\ Frozen /\ chunk' = ChunkSafe' /\ Holding(s + 1)'
      /\ (LegalJob(cfg)' => Collected(s + 1)') /\ s + 1 \in Nat /\ s + 1 >= cfg'.M
      /\ OutputValid <=> Inside(s, ArrayLatency + 2)
  BY <1>1, <1>2, WaitStep
<1>4. CASE OutputValid
  <2>1. PICK L \in 2 .. 48 : L = ArrayLatency /\ L = ArrayLatency'
    BY <1>3, LatencyIs DEF Frozen
  <2>2. s + 1 >= ArrayLatency' + 3
    <3>1. Inside(s, L + 2)
      BY <1>3, <1>4, <2>1
    <3>2. s + 1 >= L + 3
      BY <3>1 DEF Inside
    <3> QED
      BY <2>1, <3>2
  <2>3. state' = "OUT_WRITE"
    BY <1>1, <1>4
  <2>4. \E x \in Nat : /\ x >= cfg'.M /\ Holding(x)' /\ (LegalJob(cfg)' => Collected(x)')
                       /\ state' = "OUT_WRITE" => x >= ArrayLatency' + 3
    BY <1>3, <2>2
  <2> QED
    BY <1>3, <2>3, <2>4 DEF FlowInv, Rowing, BeforeSend
<1>5. CASE ~OutputValid
  <2>1. state' = "WAIT_COMPUTE_DONE"
    BY <1>1, <1>5 DEF ComputeDone
  <2>2. \E x \in Nat : x >= cfg'.M /\ Holding(x)' /\ (LegalJob(cfg)' => Collected(x)')
    BY <1>3
  <2> QED
    BY <1>3, <2>1, <2>2 DEF FlowInv, Rowing, BeforeSend
<1> QED
  BY <1>4, <1>5

\* The job is done when all its rows are in the banks.
LEMMA OutWriteFlow ==
  ASSUME DataInv, DatapathStep, OutWrite(OutputValid) PROVE FlowInv'
<1>1. /\ state = "OUT_WRITE" /\ cfg' = cfg /\ chunk' = chunk /\ Tick(NoSel)
      /\ state' = (IF outputSeen /\ ~OutputValid THEN "DONE" ELSE "OUT_WRITE")
      /\ (OutputValid => OutputFire) /\ (~OutputValid => NoOutput)
  BY DEF OutWrite, Goto
<1>2. PICK s \in Nat : /\ s >= cfg.M /\ Holding(s) /\ (LegalJob(cfg) => Collected(s))
                       /\ s >= ArrayLatency + 3
  BY <1>1 DEF DataInv, FlowInv
<1>3. /\ Frozen /\ chunk' = ChunkSafe' /\ Holding(s + 1)'
      /\ (LegalJob(cfg)' => Collected(s + 1)') /\ s + 1 \in Nat /\ s + 1 >= cfg'.M
      /\ OutputValid <=> Inside(s, ArrayLatency + 2)
      /\ front' = None /\ (~OutputValid => outPort' = None)
  BY <1>1, <1>2, WaitStep
<1>4. PICK L \in 2 .. 48 : L = ArrayLatency /\ L = ArrayLatency'
  BY <1>3, LatencyIs DEF Frozen
<1>5. PICK M \in Nat : M = cfg.M /\ M = cfg'.M
  BY <1>1 DEF DataInv, IInv, CtrlTypeOK, Config, Addr
<1>6. CASE OutputValid \/ ~outputSeen
  <2>1. state' = "OUT_WRITE"
    BY <1>1, <1>6
  <2>2. s + 1 >= ArrayLatency' + 3
    <3>1. s >= L + 3
      BY <1>2, <1>4, Zenon
    <3>2. s + 1 >= L + 3
      BY <3>1
    <3> QED
      BY <1>4, <3>2, Zenon
  <2>3. \E x \in Nat : /\ x >= cfg'.M /\ Holding(x)' /\ (LegalJob(cfg)' => Collected(x)')
                       /\ state' = "OUT_WRITE" => x >= ArrayLatency' + 3
    BY <1>3, <2>2
  <2> QED
    BY <1>3, <2>1, <2>3 DEF FlowInv, Rowing, BeforeSend
<1>7. CASE ~OutputValid /\ outputSeen
  <2>1. s > L + 2 + M
    <3>1. ~Inside(s, L + 2) /\ s >= L + 3
      BY <1>2, <1>3, <1>4, <1>7
    <3> QED
      BY <1>5, <3>1 DEF Inside
  <2>2. \A x \in 0 .. L + 2 : ~Inside(s + 1, x)' /\ Held(s + 1, x)' = None
    BY <1>5, <2>1 DEF Inside, Held
  <2>3. L + 1 \in 0 .. L + 2 /\ L + 2 \in 0 .. L + 2 /\ \A k \in 1 .. 3 * DEPTH : k <= L => k \in 0 .. L + 2
    BY SixteenRows
  <2>4. Drained'
    BY <1>3, <1>4, <2>2, <2>3 DEF Holding, Drained
  <2>5. state' = "DONE"
    BY <1>1, <1>7
  <2>6. LegalJob(cfg)' => written' = Job!Product(cfg)'
    <3>1. SUFFICES ASSUME LegalJob(cfg)' PROVE written' = Job!Product(cfg)'
      OBVIOUS
    <3>2. written' = Landed(Upto((s + 1) - L - 4))'
      BY <1>3, <1>4, <3>1 DEF Collected
    <3>3. Upto((s + 1) - L - 4)' = cfg'.M
      BY <1>5, <2>1 DEF Upto
    <3>4. written' = Landed(cfg.M)'
      BY <3>2, <3>3 DEF Landed
    <3>5. Landed(cfg.M)' = Job!Product(cfg)'
      <4>1. cfg.M \in Nat /\ chunk \in Addr /\ chunk > 0 /\ chunk = ChunkSafe /\ LegalJob(cfg)
        BY <1>1, <1>5, <3>1 DEF DataInv, IInv, CtrlTypeOK, FlowInv, LegalJob
      <4>2. Landed(cfg.M) = Job!Product(cfg)
        BY <4>1, LandedAll
      <4>3. Landed(M)' = Landed(M) /\ Job!Product(cfg)' = Job!Product(cfg)
        BY <1>1, <1>3 DEF Frozen, Job!Product, Job!Place, Job!Tiles, Job!Banks
      <4> QED
        BY <1>5, <4>2, <4>3
    <3> QED
      BY <3>4, <3>5
  <2> QED
    BY <1>3, <1>7, <2>4, <2>5, <2>6 DEF FlowInv, Rowing, BeforeSend
<1> QED
  BY <1>6, <1>7

\* Every clock cycle keeps the rows' part of the invariant.
LEMMA NextFlow == ASSUME DataInv, Next PROVE FlowInv'
<1>1. DatapathStep /\ Cycle(OutputValid, WgtDone, ComputeDone)
  BY DEF Next
<1>2. CASE WgtReq \/ WgtSend \/ WaitSemiFull \/ StartPutout \/ WaitWgtDone(WgtDone) \/ Gap
  <2>1. /\ state \in BeforeSend /\ state' \in BeforeSend \cup {"DONE"}
        /\ state = "WGT_SEND" => state' \in {"WGT_SEND", "WAIT_SEMI_FULL"}
        /\ state' = "DONE" => cfg.M = 0
        /\ cfg' = cfg /\ chunk' = chunk /\ out' = out /\ Tick(NoSel)
    BY <1>2 DEF WgtReq, WgtSend, WaitSemiFull, StartPutout, WaitWgtDone, Gap, Goto, NoRowStep, BeforeSend
  <2> QED
    BY <1>1, <2>1, QuietFlow
<1>3. CASE Idle \/ CfgWrite \/ Finish
  <2>1. state \in {"IDLE", "DONE"} /\ state' = "IDLE"
    BY <1>3 DEF Idle, CfgWrite, Write, Finish, Goto
  <2> QED
    BY <1>1, <2>1, IdleFlow
<1> QED
  BY <1>1, <1>2, <1>3, StartFlow, ActReqFlow, ActSendFlow, WaitRowsFlow, OutWriteFlow DEF Cycle


----------------------------------------------------------------------------
\* Reset establishes the invariant.
LEMMA InitData == Init => DataInv
<1> SUFFICES ASSUME Init PROVE DataInv
  OBVIOUS
<1>1. IInv
  BY InitIInv DEF Init
<1>2. state = "IDLE"
  BY DEF Init, CtrlInit
<1>3. AtRest
  BY DEF Init, AtRest, Disabled, Resting, Shape
<1>4. Drained /\ front = None /\ outPort = None
  BY DEF Init, Drained
<1> QED
  BY <1>1, <1>2, <1>3, <1>4 DEF DataInv, LoadInv, FlowInv, Loading, Rowing, BeforeSend

\* The last line passes the enable on, or does not.
LEMMA DoneIsBoolean == ASSUME DataInv PROVE WgtDone \in BOOLEAN
<1>1. DEPTH - 1 \in Lines /\ state \in States
  BY SixteenRows DEF Lines, DataInv, IInv, CtrlTypeOK
<1>2. CASE state = "WAIT_WGT_DONE"
  <2>1. PICK e \in 0 .. DEPTH + 2 : Shifting(e)
    BY <1>2 DEF DataInv, LoadInv
  <2> QED
    BY <1>1, <2>1, Zenon DEF Shifting, Flag, WgtDone
<1>3. CASE state # "WAIT_WGT_DONE"
  <2>1. PICK r \in 0 .. 15 : r = wgtRow
    BY SixteenRows DEF DataInv, IInv, CtrlTypeOK
  <2>2. r = 0 \/ r > 0
    OBVIOUS
  <2>3. Disabled
    BY <1>1, <1>3, <2>1, <2>2 DEF DataInv, LoadInv, AtRest, Arriving, Loading
  <2> QED
    BY <1>1, <2>3 DEF Disabled, WgtDone
<1> QED
  BY <1>2, <1>3

\* Every clock cycle keeps the invariant.
LEMMA NextData == DataInv /\ [Next]_vars => DataInv'
<1> SUFFICES ASSUME DataInv, [Next]_vars PROVE DataInv'
  OBVIOUS
<1>1. CASE Next
  <2>1. CtrlNext
    <3>1. OutputValid \in BOOLEAN /\ ComputeDone \in BOOLEAN /\ WgtDone \in BOOLEAN
      BY DoneIsBoolean DEF OutputValid, ComputeDone
    <3> QED
      BY <1>1, <3>1 DEF Next, CtrlNext
  <2>2. IInv'
    BY <2>1, NextIInv DEF DataInv
  <2> QED
    BY <1>1, <2>2, NextLoad, NextFlow DEF DataInv
<1>2. CASE UNCHANGED vars
  <2>1. IInv'
    BY <1>2, NextIInv DEF DataInv, vars
  <2>2. LoadInv'
    BY <1>2 DEF vars, ctrlVars, dpVars, DataInv, LoadInv, AtRest, Disabled, Arriving, Shifting, InPlace,
       TileDiag, TileWord, Filling, Full, Emptying, Resting
  <2>3. FlowInv'
    <3>1. UNCHANGED ctrlVars /\ UNCHANGED dpVars /\ cfg' = cfg /\ chunk' = chunk
      BY <1>2 DEF vars, ctrlVars
    <3>2. Frozen
      BY <3>1, RegistersKept
    <3>3. /\ ChunkSafe' = ChunkSafe /\ BackDepth' = BackDepth
          /\ (LegalJob(cfg)' <=> LegalJob(cfg)) /\ Job!Product(cfg)' = Job!Product(cfg)
      BY <3>1 DEF ChunkSafe, BackDepth, LegalJob, Job!Product, Job!Place, Job!Tiles, Job!Banks
    <3>4. Drained' <=> Drained
      BY <3>1 DEF dpVars, Drained
    <3>5. \A s : (Holding(s)' <=> Holding(s)) /\ (Collected(s)' <=> Collected(s))
      BY <3>1, <3>2, <3>3 DEF ctrlVars, dpVars, Holding, Collected, Frozen
    <3>6. (Holding(actRow)' <=> Holding(actRow)) /\ (ActAnswer(actRow)' <=> ActAnswer(actRow))
      BY <3>1, <3>5 DEF ctrlVars, dpVars, ActAnswer, Quot, Rem
    <3> QED
      BY <3>1, <3>2, <3>3, <3>4, <3>5, <3>6 DEF ctrlVars, dpVars, DataInv, FlowInv, Frozen
  <2> QED
    BY <2>1, <2>2, <2>3 DEF DataInv
<1> QED
  BY <1>1, <1>2

\* The invariant holds in every reachable state of the unit.
LEMMA AlwaysData == Spec => []DataInv
BY InitData, NextData, PTL DEF Spec

(***************************************************************************)
(* While a row is inside the arrays every line holds its diagonal of the   *)
(* weight tile, for every configuration, batch and address width           *)
(* (mxu_ctrl.sv:304-316 with mxu_top_no_ctrl.sv).                          *)
(***************************************************************************)
THEOREM WeightsStay == Spec => []WeightsInPlace
<1>1. DataInv => WeightsInPlace
  <2>1. ASSUME DataInv, (front # None /\ ~ActOrWg) \/ (\E k \in 1 .. ArrayLatency : pipe[k] # None)
        PROVE  InPlace
    <3>1. state \in States
      BY <2>1 DEF DataInv, IInv, CtrlTypeOK
    <3>2. \A k \in 1 .. ArrayLatency : k \in 1 .. 3 * DEPTH
      BY LatencyIs, SixteenRows
    <3>3. state \in Rowing
      BY <2>1, <3>1, <3>2 DEF DataInv, FlowInv, Drained, ActOrWg, States, Rowing
    <3> QED
      BY <2>1, <3>3 DEF DataInv, LoadInv
  <2> QED
    BY <2>1, Zenon DEF WeightsInPlace, InPlace, TileDiag
<1> QED
  BY <1>1, AlwaysData, PTL

\* What software sees of the unit.
JobStatus == IF Done THEN "done" ELSE IF Busy THEN "busy" ELSE "idle"
JobView   == <<JobStatus, cfg, IF Done THEN written ELSE {}>>

\* A cycle in which software sees nothing happen.
LEMMA UnseenCycle ==
  ASSUME cfg' = cfg, (state = "IDLE" /\ state' = "IDLE") \/ ~(state \in {"IDLE", "DONE"} \/ state' \in {"IDLE", "DONE"})
  PROVE  UNCHANGED JobView
BY DEF JobView, JobStatus, Done, Busy

\* Every clock cycle is a step of the job, or none.
LEMMA CycleIsJobStep == ASSUME DataInv, DataInv', [Next]_vars PROVE [Job!Next]_JobView
<1>1. CASE UNCHANGED vars
  BY <1>1 DEF vars, ctrlVars, dpVars, JobView, JobStatus, Done, Busy
<1>2. CASE Next
  <2>1. Cycle(OutputValid, WgtDone, ComputeDone)
    BY <1>2 DEF Next
  <2>2. CASE Idle \/ CfgWrite
    <3>1. state = "IDLE" /\ state' = "IDLE"
      BY <2>2 DEF Idle, CfgWrite, Write, Goto
    <3>2. CASE cfg' = cfg
      BY <3>1, <3>2, UnseenCycle
    <3>3. CASE cfg' # cfg
      BY <3>1, <3>3 DEF Job!Next, Job!Configure, Done, Busy
    <3> QED
      BY <3>2, <3>3
  <2>3. CASE Start
    BY <2>3 DEF Start, Goto, Job!Next, Job!Begin, Done, Busy
  <2>4. CASE Finish
    BY <2>4 DEF Finish, Goto, Job!Next, Job!Retire, Done, Busy
  <2>5. CASE \/ WgtReq \/ WgtSend \/ WaitSemiFull \/ StartPutout \/ WaitWgtDone(WgtDone)
             \/ Gap \/ ActReq \/ ActSend
             \/ WaitComputeDone(OutputValid, ComputeDone) \/ OutWrite(OutputValid)
    <3>1. state \notin {"IDLE", "DONE"} /\ state' # "IDLE" /\ cfg' = cfg
      BY <2>5 DEF WgtReq, WgtSend, WaitSemiFull, StartPutout, WaitWgtDone, Gap, ActReq, ActSend,
                  WaitComputeDone, OutWrite, Goto
    <3>2. CASE state' = "DONE"
      <4>1. LegalJob(cfg)' => written' = Job!Product(cfg)'
        BY <3>2 DEF DataInv, FlowInv
      <4>2. LegalJob(cfg) => written' = Job!Product(cfg)
        BY <3>1, <4>1 DEF LegalJob, Job!Product, Job!Place, Job!Tiles, Job!Banks
      <4> QED
        BY <3>1, <3>2, <4>2 DEF Job!Next, Job!Complete, Done, Busy
    <3>3. CASE state' # "DONE"
      BY <3>1, <3>3, UnseenCycle
    <3> QED
      BY <3>2, <3>3
  <2> QED
    BY <2>1, <2>2, <2>3, <2>4, <2>5 DEF Cycle
<1> QED
  BY <1>1, <1>2

(***************************************************************************)
(* The steps of the unit are those of MxuJob: for every legal batch, both  *)
(* data types and every tile base, the done pulse comes with exactly the   *)
(* rows of the product in their banks, and no configuration write reaches  *)
(* a running job (mxu_ctrl.sv with mxu_top_no_ctrl.sv).                    *)
(***************************************************************************)
THEOREM JobSteps == Spec => Job!SafeSpec
<1>1. Init => Job!Init
  BY DEF Init, CtrlInit, Job!Init, Done, Busy
<1>2. DataInv /\ DataInv' /\ [Next]_vars =>
        [Job!Next]_<<IF Done THEN "done" ELSE IF Busy THEN "busy" ELSE "idle", cfg, IF Done THEN written ELSE {}>>
  BY CycleIsJobStep DEF JobView, JobStatus
<1> QED
  BY <1>1, <1>2, AlwaysData, PTL DEF Spec, Job!SafeSpec
=============================================================================
