-------------------------------- MODULE Mxu --------------------------------
(***************************************************************************)
(* The matrix unit: the sequencer of MxuCtrl clocked together with the     *)
(* datapath of mxu_top_no_ctrl.sv (front rotators, semi-transposers,       *)
(* four systolic arrays, back rotators) and the SRAM ports of mxu_top.sv.  *)
(*                                                                         *)
(* Data are names.  The word an SRAM bank b returns for row a is <<b, a>>, *)
(* and what is modelled is where every word goes and when.  The lower      *)
(* bytes' half of each rotator and transposer stands for both halves: the  *)
(* upper one has the same control in POSIT mode and is unused in INT mode. *)
(***************************************************************************)
EXTENDS MxuCtrl, FiniteSets

VARIABLES
  wgtQ,     \* the word each weight bank last read, on its output port
  actQ,     \* the same for the activation banks
  front,    \* register of the front rotator: one word per lane, or None
  semi,     \* the four semi-transposers
  wgtEnO,   \* wgt_update_en_o_mid: which lines passed the weights on
  wgtLine,  \* the weight words that each line of each array holds
  pipe,     \* activation rows inside the arrays: pipe[k] after k registers
  saQ,      \* the register between the arrays and the back rotator
  back,     \* register of the back rotator
  validFF,  \* data_out_lower_valid_o_ff
  outPort,  \* out_buf_*_q: the write on the output bank ports, or None
  written,  \* history: the writes of this job that reached the output banks
  outValids \* history: the result rows this job has shown on the output

dpVars == <<wgtQ, actQ, front, semi, wgtEnO, wgtLine, pipe, saQ, back,
            validFF, outPort, written, outValids>>
vars == <<ctrlVars, dpVars>>

\* The lane addressing takes a row number as two pairs of bits.
ASSUME SixteenRows == DEPTH = 16

None  == <<>>
Lines == 0 .. DEPTH - 1
Rows  == 0 .. DEPTH - 1

\* Rows [3:2] and [1:0] of a weight row counter.
Group(r) == (r \div 4) % 4
Intra(r) == r % 4

----------------------------------------------------------------------------
(* What the sequencer drives in this cycle.                                *)

ActOrWg == state \in {"WGT_REQ", "WGT_SEND", "WAIT_SEMI_FULL",
                      "START_PUTOUT", "WAIT_WGT_DONE"}

WgtReqRow  == IF state = "WGT_SEND" /\ ~WgtSendLast THEN wgtRow + 1 ELSE wgtRow
WgtBufCen  == state = "WGT_REQ" \/ (state = "WGT_SEND" /\ ~WgtSendLast)
ActBufCen  == state = "ACT_REQ" \/ (state = "ACT_SEND" /\ ActHasNext)

WgtBufAddr(l) == (cfg.wgt[(l - Group(WgtReqRow)) % 4] + Intra(WgtReqRow)) % ADDRS
ActBufAddr(l) == (cfg.act[(l - req[1]) % 4] + req[2]) % ADDRS
OutBufAddr(l) == (cfg.out[(l - out[1]) % 4] + out[2]) % ADDRS

\* (mutant: every lane writes the row the counter names)
MutSemiAddrIn(l) == semiAddr
SemiAddrIn(l) == IF state \in {"WGT_SEND", "WAIT_SEMI_FULL"}
                 THEN 4 * ((l + Group(semiAddr)) % 4) + Intra(semiAddr)
                 ELSE semiAddr

\* A rotator set to sel moves lane l - sel to lane l.
Rotate(words, sel) == [l \in Lanes |-> words[(l - sel) % 4]]

FrontSel == IF state = "WGT_SEND" THEN -Group(wgtRow) ELSE -send[1]

BackRotatorSel ==
  LET sel == backSel[BackTap(cfg.dtype)] IN IF sel = NoSel THEN 0 ELSE sel

----------------------------------------------------------------------------
(* What the datapath does in this cycle.                                   *)

ReadBanks ==
  /\ wgtQ' = IF WgtBufCen THEN [l \in Lanes |-> <<l, WgtBufAddr(l)>>] ELSE wgtQ
  /\ actQ' = IF ActBufCen THEN [l \in Lanes |-> <<l, ActBufAddr(l)>>] ELSE actQ

FrontRotator ==
  front' = CASE state = "WGT_SEND" -> Rotate(wgtQ, FrontSel)
             [] state = "ACT_SEND" -> Rotate(actQ, FrontSel)
             [] OTHER -> None

(***************************************************************************)
(* A semi-transposer fills its rows while IDLE, in any order; when every   *)
(* row has been written it is FULL and waits for the putout command; then  *)
(* it puts out one diagonal a cycle, the last one first, and is IDLE again *)
(* with all its rows marked unwritten.                                     *)
(***************************************************************************)
Diagonal(mem, d) == [i \in Rows |-> mem[(d + i) % DEPTH]]

SemiStep(s, word, addr, wr, putout) ==
  LET mask == IF wr THEN s.mask \union {addr} ELSE s.mask
  IN CASE s.st = "IDLE" ->
            [s EXCEPT !.st = IF mask = Rows THEN "FULL" ELSE "IDLE",
                      !.mask = mask,
                      !.mem = IF wr THEN [@ EXCEPT ![addr] = word] ELSE @,
                      !.cnt = DEPTH - 1,
                      !.valid = FALSE]
       [] s.st = "FULL" ->
            [s EXCEPT !.st = IF putout THEN "OUTPUT" ELSE "FULL",
                      !.valid = FALSE]
       [] s.st = "OUTPUT" ->
            [s EXCEPT !.st = IF s.cnt = 0 THEN "IDLE" ELSE "OUTPUT",
                      !.mask = IF s.cnt = 0 THEN {} ELSE @,
                      !.data = Diagonal(s.mem, s.cnt),
                      !.cnt = (@ - 1) % DEPTH,
                      !.valid = TRUE]

SemiTransposers ==
  semi' = [l \in Lanes |->
             SemiStep(semi[l], IF front = None THEN None ELSE front[l],
                      SemiAddrIn(l), ActOrWg /\ front # None,
                      ActOrWg /\ state = "START_PUTOUT")]

(***************************************************************************)
(* Weights shift down the lines, one line a cycle, until the last line has *)
(* passed the enable on: then every line but the first stops taking them.  *)
(***************************************************************************)
WgtDone == wgtEnO[DEPTH - 1]

WgtEnI(k) == IF k = 0 THEN ActOrWg /\ \E l \in Lanes : semi[l].valid
                      ELSE ~WgtDone /\ wgtEnO[k - 1]

LoadWeights ==
  /\ wgtEnO' = [k \in Lines |-> WgtEnI(k)]
  /\ wgtLine' = [l \in Lanes |-> [k \in Lines |->
       IF ~WgtEnI(k) THEN wgtLine[l][k]
       ELSE IF k = 0 THEN semi[l].data ELSE wgtLine[l][k - 1]]]

(***************************************************************************)
(* A row takes two registers a line in INT mode and three in POSIT mode,   *)
(* then one more register and the back rotator's.                          *)
(***************************************************************************)
ArrayLatency == IF cfg.dtype = INT THEN 2 * DEPTH ELSE 3 * DEPTH

ComputeRows ==
  /\ pipe' = [k \in 1 .. 3 * DEPTH |->
       IF k > ArrayLatency THEN None
       ELSE IF k > 1 THEN pipe[k - 1]
       ELSE IF ActOrWg THEN None ELSE front]
  /\ saQ' = pipe[ArrayLatency]
  /\ back' = IF saQ = None THEN None
             ELSE Rotate([l \in Lanes |-> <<l, saQ[l]>>], BackRotatorSel)
  /\ validFF' = (back # None)

OutputValid == back # None
ComputeDone == validFF /\ OutputValid

\* The write port is a register: a row reaches the banks a cycle later.
WriteBanks ==
  /\ outPort' = IF state \in {"WAIT_COMPUTE_DONE", "OUT_WRITE"} /\ OutputValid
                THEN [l \in Lanes |-> <<OutBufAddr(l), back[l]>>] ELSE None
  /\ written' = IF state = "IDLE" THEN {}
                ELSE IF outPort = None THEN written
                ELSE written \union {<<l, outPort[l]>> : l \in Lanes}
  /\ outValids' = IF state = "IDLE" THEN 0
                  ELSE IF OutputValid THEN outValids + 1 ELSE outValids

DatapathStep ==
  /\ ReadBanks /\ FrontRotator /\ SemiTransposers /\ LoadWeights
  /\ ComputeRows /\ WriteBanks

----------------------------------------------------------------------------
Init ==
  /\ CtrlInit
  /\ wgtQ = [l \in Lanes |-> None] /\ actQ = [l \in Lanes |-> None]
  /\ front = None
  /\ semi = [l \in Lanes |->
       [st |-> "IDLE", mask |-> {}, mem |-> [r \in Rows |-> None],
        cnt |-> 0, valid |-> FALSE, data |-> [r \in Rows |-> None]]]
  /\ wgtEnO = [k \in Lines |-> FALSE]
  /\ wgtLine = [l \in Lanes |-> [k \in Lines |-> [r \in Rows |-> None]]]
  /\ pipe = [k \in 1 .. 3 * DEPTH |-> None]
  /\ saQ = None /\ back = None /\ validFF = FALSE
  /\ outPort = None /\ written = {} /\ outValids = 0

Next == Cycle(OutputValid, WgtDone, ComputeDone) /\ DatapathStep

\* The clock does not stop.
Spec == Init /\ [][Next]_vars /\ WF_vars(Next)

----------------------------------------------------------------------------
(***************************************************************************)
(* The batches for which a job has somewhere to put every result: whole    *)
(* quarters, and few enough rows that the first result does not leave the  *)
(* arrays before the last activation row has been sent.                    *)
(***************************************************************************)
LegalJob(c) ==
  /\ c.M % 4 = 0
  /\ c.M <= (IF c.dtype = INT THEN 2 * DEPTH ELSE 3 * DEPTH) + 3

Job == INSTANCE MxuJob WITH
         status <- IF Done THEN "done" ELSE IF Busy THEN "busy" ELSE "idle",
         job    <- cfg,
         result <- IF Done THEN written ELSE {}

(***************************************************************************)
(* The cycle-accurate unit implements MxuJob: configuration writes change  *)
(* nothing of a running job, the done pulse comes when exactly the rows of *)
(* the product have reached their banks, none lost, doubled or misplaced,  *)
(* and every accepted start leads to it (mxu_ctrl.sv with the latencies of *)
(* mxu_top_no_ctrl.sv).                                                    *)
(***************************************************************************)
ImplementsJob == Job!Spec

(***************************************************************************)
(* While an activation row is inside an array, line k of lane l holds      *)
(* diagonal k of weight tile l, complete and unmoving: the transposer was  *)
(* filled through the rotated addresses of mxu_ctrl.sv:304-316 and drained *)
(* into the lines before ST_ACT_REQ.                                       *)
(***************************************************************************)
TileWord(t, r) == <<r \div 4, (cfg.wgt[t] + Intra(r)) % ADDRS>>

WeightsInPlace ==
  (front # None /\ ~ActOrWg) \/ (\E k \in 1 .. ArrayLatency : pipe[k] # None) =>
    \A l \in Lanes, k \in Lines :
      wgtLine[l][k] = [i \in Rows |-> TileWord(l, (k + i) % DEPTH)]

(***************************************************************************)
(* mxu_ctrl.sv:377: the sequencer writes every valid output row.           *)
(***************************************************************************)
EveryValidRowWritten == Done => Cardinality(written) = 4 * outValids
============================================================================
