------------------------------ MODULE MxuCtrl ------------------------------
(***************************************************************************)
(* The sequencer of the matrix unit, hardware/user_ip/my_mxu/mxu_top/      *)
(* mxu_ctrl.sv.  One action is one clock cycle in one FSM state.  A job    *)
(* loads DEPTH weight rows, waits for the systolic array to take them,     *)
(* streams M activation rows and writes the result rows that come back.    *)
(*                                                                         *)
(* The three signals the datapath returns are parameters of the actions    *)
(* that read them: ov (output_valid), wd (wgt_done_active) and cd          *)
(* (compute_done_i).  CtrlNext leaves them free, so what is proved of      *)
(* CtrlSpec holds whatever the datapath does; module Mxu ties them to it.  *)
(***************************************************************************)
EXTENDS Integers

CONSTANTS
  DEPTH,      \* SEMI_TRANS_BUFFER_DEPTH: weight rows, and lines of the array
  ADDRS,      \* 2^ADDR_WIDTH: addresses and counters wrap at this value
  Batches,    \* values software may write to the batch-size register M
  TileBases,  \* values software may write to the tile base registers
  BootConfigs \* register files that writes in IDLE may have left

ASSUME DepthAssumption == DEPTH \in Nat /\ DEPTH > 0 /\ DEPTH <= ADDRS

ASSUME AddrsAssumption == ADDRS \in Nat /\ ADDRS > 1

ASSUME BatchesAssumption == Batches \subseteq 0 .. ADDRS - 1

VARIABLES
  state,        \* state_q
  cfg,          \* the configuration registers
  wgtRow,       \* wgt_row_cnt_q
  actRow,       \* act_row_cnt_q
  outRow,       \* out_row_cnt_q
  semiAddr,     \* semi_addr_cnt_q
  inValidD1,    \* in_valid_lower_d1_q
  wgtDoneSeen,  \* wgt_done_seen_q
  outputSeen,   \* output_seen_q
  chunk,        \* act_chunk_size_safe_q
  send,         \* act_send_group_q and act_send_intra_q
  req,          \* act_req_group_q and act_req_intra_q
  out,          \* out_write_group_q and out_write_intra_q
  backSel       \* act_back_sel_pipe_q, NoSel where its valid bit is 0

ctrlVars == <<state, cfg, wgtRow, actRow, outRow, semiAddr, inValidD1,
              wgtDoneSeen, outputSeen, chunk, send, req, out, backSel>>

Lanes == 0 .. 3
Addr  == 0 .. ADDRS - 1

Inc(n) == (n + 1) % ADDRS

(***************************************************************************)
(* A (group, intra) pair replaces a divider: it follows a row counter R    *)
(* and holds <<R / chunk, R % chunk>>.                                     *)
(***************************************************************************)
Zero == <<0, 0>>
\* (mutant: wraps one row late)
MutNextPair(p) == IF p[2] = chunk THEN <<Inc(p[1]), 0>>
                                  ELSE <<p[1], Inc(p[2])>>
NextPair(p) == IF p[2] = chunk - 1 THEN <<Inc(p[1]), 0>>
                                   ELSE <<p[1], Inc(p[2])>>

INT   == 1
POSIT == 0
FF    == 0
BP    == 1

States == {"IDLE", "WGT_REQ", "WGT_SEND", "WAIT_SEMI_FULL", "START_PUTOUT",
           "WAIT_WGT_DONE", "GAP", "ACT_REQ", "ACT_SEND",
           "WAIT_COMPUTE_DONE", "OUT_WRITE", "DONE"}

Config == [wgt: [Lanes -> Addr], act: [Lanes -> Addr], out: [Lanes -> Addr],
           M: Addr, flow: {FF, BP}, dtype: {INT, POSIT}]

ASSUME ConfigAssumption ==
  TileBases \subseteq [Lanes -> Addr] /\ BootConfigs \subseteq Config

(***************************************************************************)
(* The delay line that carries the lane rotation of a sent row to the back *)
(* rotator: INT rows leave it at BackTap INT, POSIT rows at BackTap POSIT. *)
(***************************************************************************)
NoSel     == 4
BackDepth == 3 * DEPTH + 2
\* (mutant: without the register between the arrays and the back rotator)
MutBackTap(dtype) == IF dtype = INT THEN 2 * DEPTH ELSE 3 * DEPTH
BackTap(dtype) == IF dtype = INT THEN 2 * DEPTH + 1 ELSE 3 * DEPTH + 1
BackShift(sel) ==
  backSel' = [i \in 0 .. BackDepth - 1 |-> IF i = 0 THEN sel ELSE backSel[i - 1]]

WgtSendLast == wgtRow = DEPTH - 1
ActSendLast == cfg.M # 0 /\ actRow = cfg.M - 1
ActHasNext  == cfg.M # 0 /\ actRow < cfg.M - 1
\* (mutant: a batch of fewer than four rows gives an empty chunk)
MutChunkSafe == cfg.M \div 4
ChunkSafe   == IF cfg.M \div 4 = 0 THEN 1 ELSE cfg.M \div 4

Busy == state # "IDLE"
Done == state = "DONE"

----------------------------------------------------------------------------
(***************************************************************************)
(* What every cycle but the one that accepts a start does: the delayed     *)
(* input valid steps the semi-transposer row address.                      *)
(***************************************************************************)
Sending == state \in {"WGT_SEND", "ACT_SEND"}

Tick(sel) ==
  /\ inValidD1' = Sending
  /\ semiAddr'  = IF inValidD1 THEN (semiAddr + 1) % DEPTH ELSE semiAddr
  /\ BackShift(sel)

Goto(from, to) == state = from /\ state' = to

NoRowStep == UNCHANGED <<wgtRow, actRow, outRow, chunk, send, req, out>>
NoFlag    == UNCHANGED <<wgtDoneSeen, outputSeen>>

Idle ==
  /\ Goto("IDLE", "IDLE")
  /\ Tick(NoSel)
  /\ UNCHANGED cfg /\ NoRowStep /\ NoFlag

\* A configuration write is taken in IDLE only, and wins over a start.
Write(new) ==
  /\ Goto("IDLE", "IDLE")
  /\ cfg' = new
  /\ Tick(NoSel)
  /\ NoRowStep /\ NoFlag

CfgWrite ==
  \/ \E b \in TileBases, t \in Lanes :
       \/ Write([cfg EXCEPT !.wgt[t] = b[t]])
       \/ Write([cfg EXCEPT !.act[t] = b[t]])
       \/ Write([cfg EXCEPT !.out[t] = b[t]])
  \/ \E m \in Batches : Write([cfg EXCEPT !.M = m])
  \/ \E f \in {FF, BP} : Write([cfg EXCEPT !.flow = f])
  \/ \E d \in {INT, POSIT} : Write([cfg EXCEPT !.dtype = d])

Start ==
  /\ Goto("IDLE", "WGT_REQ")
  /\ wgtRow' = 0 /\ actRow' = 0 /\ outRow' = 0
  /\ semiAddr' = 0 /\ inValidD1' = FALSE
  /\ wgtDoneSeen' = FALSE /\ outputSeen' = FALSE
  /\ chunk' = ChunkSafe
  /\ send' = Zero /\ req' = Zero /\ out' = Zero
  /\ backSel' = [i \in 0 .. BackDepth - 1 |-> NoSel]
  /\ UNCHANGED cfg

----------------------------------------------------------------------------
WgtReq ==
  /\ Goto("WGT_REQ", "WGT_SEND")
  /\ Tick(NoSel)
  /\ UNCHANGED cfg /\ NoRowStep /\ NoFlag

WgtSend ==
  /\ Goto("WGT_SEND", IF WgtSendLast THEN "WAIT_SEMI_FULL" ELSE "WGT_SEND")
  /\ wgtRow' = IF WgtSendLast THEN wgtRow ELSE Inc(wgtRow)
  /\ Tick(NoSel)
  /\ UNCHANGED <<cfg, actRow, outRow, chunk, send, req, out>> /\ NoFlag

WaitSemiFull ==
  /\ Goto("WAIT_SEMI_FULL", "START_PUTOUT")
  /\ Tick(NoSel)
  /\ UNCHANGED cfg /\ NoRowStep /\ NoFlag

StartPutout ==
  /\ Goto("START_PUTOUT", "WAIT_WGT_DONE")
  /\ Tick(NoSel)
  /\ UNCHANGED cfg /\ NoRowStep /\ NoFlag

WaitWgtDone(wd) ==
  /\ Goto("WAIT_WGT_DONE",
          IF wgtDoneSeen /\ ~wd THEN "GAP" ELSE "WAIT_WGT_DONE")
  /\ wgtDoneSeen' = (wgtDoneSeen \/ wd)
  /\ Tick(NoSel)
  /\ UNCHANGED <<cfg, outputSeen>> /\ NoRowStep

Gap ==
  /\ Goto("GAP", IF cfg.M = 0 THEN "DONE" ELSE "ACT_REQ")
  /\ Tick(NoSel)
  /\ UNCHANGED cfg /\ NoRowStep /\ NoFlag

----------------------------------------------------------------------------
(***************************************************************************)
(* The request runs one cycle ahead of the send: the SRAM answers a read   *)
(* in the next cycle.                                                      *)
(***************************************************************************)
ActReq ==
  /\ Goto("ACT_REQ", "ACT_SEND")
  /\ req' = NextPair(req)
  /\ Tick(NoSel)
  /\ UNCHANGED <<cfg, wgtRow, actRow, outRow, chunk, send, out>> /\ NoFlag

ActSend ==
  /\ Goto("ACT_SEND", IF ActSendLast THEN "WAIT_COMPUTE_DONE" ELSE "ACT_SEND")
  /\ actRow' = IF ActSendLast THEN actRow ELSE Inc(actRow)
  /\ send'   = IF ActSendLast THEN send ELSE NextPair(send)
  /\ req'    = IF ActHasNext THEN NextPair(req) ELSE req
  /\ Tick(send[1] % 4)
  /\ UNCHANGED <<cfg, wgtRow, outRow, chunk, out>> /\ NoFlag

\* output_write_fire: a valid result row is written and counted.
OutputFire ==
  /\ outRow' = Inc(outRow)
  /\ out' = NextPair(out)
  /\ outputSeen' = TRUE

NoOutput == UNCHANGED <<outRow, out, outputSeen>>

WaitComputeDone(ov, cd) ==
  /\ Goto("WAIT_COMPUTE_DONE",
          IF ov THEN "OUT_WRITE" ELSE IF cd THEN "DONE" ELSE "WAIT_COMPUTE_DONE")
  /\ IF ov THEN OutputFire ELSE NoOutput
  /\ Tick(NoSel)
  /\ UNCHANGED <<cfg, wgtRow, actRow, chunk, send, req, wgtDoneSeen>>

OutWrite(ov) ==
  /\ Goto("OUT_WRITE", IF outputSeen /\ ~ov THEN "DONE" ELSE "OUT_WRITE")
  /\ IF ov THEN OutputFire ELSE NoOutput
  /\ Tick(NoSel)
  /\ UNCHANGED <<cfg, wgtRow, actRow, chunk, send, req, wgtDoneSeen>>

Finish ==
  /\ Goto("DONE", "IDLE")
  /\ outputSeen' = FALSE
  /\ Tick(NoSel)
  /\ UNCHANGED <<cfg, wgtDoneSeen>> /\ NoRowStep

----------------------------------------------------------------------------
\* The registers at reset.
ResetConfig == [wgt |-> [t \in Lanes |-> 0], act |-> [t \in Lanes |-> 0],
                out |-> [t \in Lanes |-> 0], M |-> 0, flow |-> FF, dtype |-> POSIT]

CtrlInit ==
  /\ state = "IDLE"
  /\ cfg \in BootConfigs
  /\ wgtRow = 0 /\ actRow = 0 /\ outRow = 0
  /\ semiAddr = 0 /\ inValidD1 = FALSE
  /\ wgtDoneSeen = FALSE /\ outputSeen = FALSE
  /\ chunk = 1
  /\ send = Zero /\ req = Zero /\ out = Zero
  /\ backSel = [i \in 0 .. BackDepth - 1 |-> NoSel]

\* One clock cycle, given what the datapath returns in it.
Cycle(ov, wd, cd) ==
  \/ Idle \/ CfgWrite \/ Start
  \/ WgtReq \/ WgtSend \/ WaitSemiFull \/ StartPutout \/ WaitWgtDone(wd)
  \/ Gap \/ ActReq \/ ActSend
  \/ WaitComputeDone(ov, cd) \/ OutWrite(ov) \/ Finish

CtrlNext == \E ov, wd, cd \in BOOLEAN : Cycle(ov, wd, cd)

CtrlSpec == CtrlInit /\ [][CtrlNext]_ctrlVars

----------------------------------------------------------------------------
(***************************************************************************)
(* Every register holds a value of its width.                              *)
(***************************************************************************)
CtrlTypeOK ==
  /\ state \in States
  /\ cfg \in Config
  /\ wgtRow \in 0 .. DEPTH - 1 /\ actRow \in Addr /\ outRow \in Addr
  /\ semiAddr \in 0 .. DEPTH - 1
  /\ inValidD1 \in BOOLEAN /\ wgtDoneSeen \in BOOLEAN /\ outputSeen \in BOOLEAN
  /\ chunk \in Addr /\ chunk > 0
  /\ send \in Addr \X Addr /\ req \in Addr \X Addr /\ out \in Addr \X Addr
  /\ backSel \in [0 .. BackDepth - 1 -> 0 .. NoSel]

\* The pair p is the quotient and the remainder of row r by the chunk size.
PairIs(p, r) == p[2] < chunk /\ p[1] * chunk + p[2] = r

(***************************************************************************)
(* mxu_ctrl.sv:141-142 and 531: the counter pairs reproduce R/C and R%C    *)
(* exactly, whatever the batch size, for the row being sent and for the    *)
(* row being requested, which is one ahead while a request is outstanding. *)
(***************************************************************************)
PairsExact ==
  /\ state \in {"ACT_REQ", "ACT_SEND"} => PairIs(send, actRow)
  /\ state = "ACT_REQ" => PairIs(req, actRow)
  /\ state = "ACT_SEND" => PairIs(req, actRow + 1)
============================================================================
