--------------------------- MODULE MxuCtrlProofs ---------------------------
(* Proofs about the sequencer for every depth, address width and batch.     *)
EXTENDS MxuCtrl, TLAPS

(***************************************************************************)
(* A counter below its last value steps to the next one, and one that      *)
(* wraps stays in range (the ADDR_WIDTH-bit adders of mxu_ctrl.sv).        *)
(***************************************************************************)
LEMMA ModStep ==
  ASSUME NEW k \in Nat, k > 0, NEW n \in 0 .. k - 1
  PROVE  /\ (n + 1) % k \in 0 .. k - 1
         /\ n < k - 1 => (n + 1) % k = n + 1
BY SMT

(***************************************************************************)
(* A product is at least each factor when the other one is not zero.       *)
(***************************************************************************)
LEMMA ProductBound ==
  ASSUME NEW g \in Nat, NEW c \in Nat, c > 0
  PROVE  g <= g * c
BY SMT

(***************************************************************************)
(* One step of a pair that follows row r, which is not the last address,   *)
(* follows row r + 1: neither half of it wraps early (mxu_ctrl.sv:531-563).*)
(***************************************************************************)
LEMMA PairStep ==
  ASSUME NEW p \in Addr \X Addr, NEW r \in Addr, r < ADDRS - 1,
         chunk \in Addr, chunk > 0, PairIs(p, r)
  PROVE  /\ NextPair(p) \in Addr \X Addr
         /\ PairIs(NextPair(p), r + 1)
<1>1. p[1] \in Nat /\ p[2] \in Nat /\ p[1] \in Addr /\ p[2] \in Addr
  BY AddrsAssumption DEF Addr
<1>2. p[1] <= r /\ p[2] <= r
  <2>1. p[1] <= p[1] * chunk
    BY <1>1, ProductBound DEF Addr
  <2>2. p[1] * chunk \in Nat
    BY <1>1, SMT DEF Addr
  <2> QED
    BY <1>1, <2>1, <2>2, SMT DEF PairIs, Addr
<1>3. Inc(p[1]) = p[1] + 1 /\ Inc(p[2]) = p[2] + 1
  BY <1>1, <1>2, ModStep, AddrsAssumption DEF Inc, Addr
<1>4. CASE p[2] = chunk - 1
  <2>1. NextPair(p) = <<p[1] + 1, 0>>
    BY <1>3, <1>4 DEF NextPair
  <2>2. (p[1] + 1) * chunk + 0 = r + 1
    BY <1>1, <1>4, SMT DEF PairIs, Addr
  <2> QED
    BY <1>1, <1>2, <2>1, <2>2, AddrsAssumption DEF PairIs, Addr
<1>5. CASE p[2] # chunk - 1
  <2>1. NextPair(p) = <<p[1], p[2] + 1>>
    BY <1>3, <1>5 DEF NextPair
  <2>2. p[1] * chunk + (p[2] + 1) = r + 1
    BY <1>1, <1>5, SMT DEF PairIs, Addr
  <2> QED
    BY <1>1, <1>2, <1>5, <2>1, <2>2, AddrsAssumption DEF PairIs, Addr
<1> QED
  BY <1>4, <1>5

----------------------------------------------------------------------------
(***************************************************************************)
(* The inductive invariant: until the first activation row is sent its     *)
(* counters are still the zeros of the start, and the send state is left   *)
(* with the last row, so that no counter reaches its wrap.                 *)
(***************************************************************************)
BeforeSend == {"WGT_REQ", "WGT_SEND", "WAIT_SEMI_FULL", "START_PUTOUT",
               "WAIT_WGT_DONE", "GAP", "ACT_REQ"}

IInv ==
  /\ CtrlTypeOK
  /\ state \in BeforeSend => actRow = 0 /\ send = Zero /\ req = Zero
  /\ state \in {"ACT_REQ", "ACT_SEND"} => actRow < cfg.M
  /\ PairsExact

\* Reset establishes the invariant (mxu_ctrl.sv:424-453).
LEMMA InitIInv == CtrlInit => IInv
<1> SUFFICES ASSUME CtrlInit PROVE IInv
  OBVIOUS
<1>1. CtrlTypeOK
  <2>1. backSel \in [0 .. BackDepth - 1 -> 0 .. NoSel]
    BY DEF CtrlInit, NoSel
  <2>2. cfg \in Config
    BY ConfigAssumption DEF CtrlInit
  <2>3. send \in Addr \X Addr /\ req \in Addr \X Addr /\ out \in Addr \X Addr
    BY AddrsAssumption DEF CtrlInit, Zero, Addr
  <2>4. inValidD1 \in BOOLEAN /\ wgtDoneSeen \in BOOLEAN /\ outputSeen \in BOOLEAN
    BY DEF CtrlInit
  <2>5. /\ wgtRow \in 0 .. DEPTH - 1 /\ actRow \in Addr /\ outRow \in Addr
        /\ semiAddr \in 0 .. DEPTH - 1 /\ chunk \in Addr /\ chunk > 0
    BY DepthAssumption, AddrsAssumption DEF CtrlInit, Addr
  <2> QED
    BY <2>1, <2>2, <2>3, <2>4, <2>5 DEF CtrlInit, CtrlTypeOK, States
<1>2. PairsExact
  BY DEF CtrlInit, PairsExact
<1> QED
  BY <1>1, <1>2 DEF CtrlInit, IInv, BeforeSend

(***************************************************************************)
(* Tick keeps the semi-transposer address and the delay line in range      *)
(* (mxu_ctrl.sv:501-525).                                                  *)
(***************************************************************************)
LEMMA TickTypes ==
  ASSUME CtrlTypeOK, NEW STATE sel, sel \in 0 .. NoSel, Tick(sel)
  PROVE  /\ semiAddr' \in 0 .. DEPTH - 1 /\ inValidD1' \in BOOLEAN
         /\ backSel' \in [0 .. BackDepth - 1 -> 0 .. NoSel]
<1>1. semiAddr' \in 0 .. DEPTH - 1
  BY ModStep, DepthAssumption DEF CtrlTypeOK, Tick
<1>2. inValidD1' \in BOOLEAN
  BY DEF Tick, Sending
<1>3. backSel' \in [0 .. BackDepth - 1 -> 0 .. NoSel]
  <2>1. \A i \in 0 .. BackDepth - 1 :
          (IF i = 0 THEN sel ELSE backSel[i - 1]) \in 0 .. NoSel
    BY DepthAssumption DEF CtrlTypeOK, BackDepth
  <2> QED
    BY <2>1 DEF Tick, BackShift
<1> QED
  BY <1>1, <1>2, <1>3

(***************************************************************************)
(* A step of a pair of registers stays in the registers' range.            *)
(***************************************************************************)
LEMMA NextPairType ==
  ASSUME NEW p \in Addr \X Addr
  PROVE  NextPair(p) \in Addr \X Addr
<1>1. \A n \in Addr : Inc(n) \in Addr
  BY ModStep, AddrsAssumption DEF Addr, Inc
<1>2. 0 \in Addr
  BY AddrsAssumption DEF Addr
<1> QED
  BY <1>1, <1>2 DEF NextPair

\* A wrapping row counter stays in its width.
LEMMA IncType == \A n \in Addr : Inc(n) \in Addr
BY ModStep, AddrsAssumption DEF Addr, Inc

(***************************************************************************)
(* A step that moves no row counter, keeps the registers and does not      *)
(* enter a state of the activation phase keeps the invariant.              *)
(***************************************************************************)
LEMMA QuietStep ==
  ASSUME IInv, Tick(NoSel), state' \in States, UNCHANGED cfg, NoRowStep,
         wgtDoneSeen' \in BOOLEAN, outputSeen' \in BOOLEAN,
         state' \in BeforeSend => state \in BeforeSend,
         state' = "ACT_REQ" => cfg.M # 0,
         state' # "ACT_SEND"
  PROVE  IInv'
<1>1. NoSel \in 0 .. NoSel
  BY DEF NoSel
<1>2. CtrlTypeOK'
  BY <1>1, TickTypes DEF IInv, CtrlTypeOK, NoRowStep, BackDepth
<1>3. state' \in BeforeSend => actRow' = 0 /\ send' = Zero /\ req' = Zero
  BY DEF IInv, NoRowStep
<1>4. state' \in {"ACT_REQ", "ACT_SEND"} => actRow' < cfg'.M
  BY <1>3, <1>2, SMTT(40) DEF BeforeSend, CtrlTypeOK, Config, Addr
<1>5. PairsExact'
  BY <1>2, <1>3, SMTT(40) DEF PairsExact, PairIs, Zero, BeforeSend, CtrlTypeOK, Addr
<1> QED
  BY <1>2, <1>3, <1>4, <1>5 DEF IInv

----------------------------------------------------------------------------
(* One lemma per action of the clock cycle that does more than wait.        *)

\* A register write in IDLE keeps the invariant (mxu_ctrl.sv:457-477).
LEMMA WriteIInv == IInv /\ CfgWrite => IInv'
<1> SUFFICES ASSUME IInv, CfgWrite PROVE IInv'
  OBVIOUS
<1>1. PICK new : Write(new) /\ new \in Config
  <2>1. cfg \in Config /\ TileBases \subseteq [Lanes -> Addr] /\ Batches \subseteq Addr
    BY ConfigAssumption, BatchesAssumption DEF IInv, CtrlTypeOK, Addr
  <2>2. CASE \E b \in TileBases, t \in Lanes :
               \/ Write([cfg EXCEPT !.wgt[t] = b[t]])
               \/ Write([cfg EXCEPT !.act[t] = b[t]])
               \/ Write([cfg EXCEPT !.out[t] = b[t]])
    <3>1. PICK b \in TileBases, t \in Lanes :
               \/ Write([cfg EXCEPT !.wgt[t] = b[t]])
               \/ Write([cfg EXCEPT !.act[t] = b[t]])
               \/ Write([cfg EXCEPT !.out[t] = b[t]])
      BY <2>2
    <3>2. b[t] \in Addr
      BY <2>1
    <3>3. /\ [cfg EXCEPT !.wgt[t] = b[t]] \in Config
          /\ [cfg EXCEPT !.act[t] = b[t]] \in Config
          /\ [cfg EXCEPT !.out[t] = b[t]] \in Config
      BY <2>1, <3>2 DEF Config
    <3> QED
      BY <3>1, <3>3
  <2>3. CASE \E m \in Batches : Write([cfg EXCEPT !.M = m])
    <3>1. \A m \in Batches : [cfg EXCEPT !.M = m] \in Config
      BY <2>1 DEF Config
    <3> QED
      BY <2>3, <3>1
  <2>4. CASE \E f \in {FF, BP} : Write([cfg EXCEPT !.flow = f])
    <3>1. \A f \in {FF, BP} : [cfg EXCEPT !.flow = f] \in Config
      BY <2>1 DEF Config
    <3> QED
      BY <2>4, <3>1
  <2>5. CASE \E d \in {INT, POSIT} : Write([cfg EXCEPT !.dtype = d])
    <3>1. \A d \in {INT, POSIT} : [cfg EXCEPT !.dtype = d] \in Config
      BY <2>1 DEF Config
    <3> QED
      BY <2>5, <3>1
  <2> QED
    BY <2>2, <2>3, <2>4, <2>5 DEF CfgWrite
<1>2. NoSel \in 0 .. NoSel
  BY DEF NoSel
<1>3. CtrlTypeOK'
  BY <1>1, <1>2, TickTypes
     DEF IInv, CtrlTypeOK, Write, NoRowStep, NoFlag, BackDepth, Goto
<1>4. state' = "IDLE"
  BY <1>1 DEF Write, Goto
<1> QED
  BY <1>3, <1>4 DEF IInv, PairsExact, BeforeSend

\* An accepted start clears the counters and samples the chunk size (479-499).
LEMMA StartIInv == IInv /\ Start => IInv'
<1> SUFFICES ASSUME IInv, Start PROVE IInv'
  OBVIOUS
<1>1. ChunkSafe \in Addr /\ ChunkSafe > 0
  BY AddrsAssumption, SMTT(40) DEF IInv, CtrlTypeOK, Config, ChunkSafe, Addr
<1>2. Zero \in Addr \X Addr /\ 0 \in Addr /\ 0 \in 0 .. DEPTH - 1
  BY AddrsAssumption, DepthAssumption DEF Zero, Addr
<1>3. backSel' \in [0 .. BackDepth - 1 -> 0 .. NoSel]
  BY DEF Start, NoSel
<1>4. inValidD1' \in BOOLEAN /\ wgtDoneSeen' \in BOOLEAN /\ outputSeen' \in BOOLEAN
  BY DEF Start
<1>5. CtrlTypeOK'
  BY <1>1, <1>2, <1>3, <1>4
     DEF IInv, CtrlTypeOK, Start, Goto, States, BackDepth
<1> QED
  BY <1>5 DEF IInv, PairsExact, BeforeSend, Start, Goto, Zero

\* Sending weight rows stops at the last row (mxu_ctrl.sv:508-519).
LEMMA WgtSendIInv == IInv /\ WgtSend => IInv'
<1> SUFFICES ASSUME IInv, WgtSend PROVE IInv'
  OBVIOUS
<1>1. NoSel \in 0 .. NoSel
  BY DEF NoSel
<1>2. wgtRow' \in 0 .. DEPTH - 1
  BY ModStep, DepthAssumption, AddrsAssumption
     DEF IInv, CtrlTypeOK, WgtSend, WgtSendLast, Inc
<1>3. CtrlTypeOK'
  BY <1>1, <1>2, TickTypes
     DEF IInv, CtrlTypeOK, WgtSend, Goto, NoFlag, BackDepth, States
<1> QED
  BY <1>3 DEF IInv, PairsExact, BeforeSend, WgtSend, Goto

\* The first request runs one row ahead of the send (mxu_ctrl.sv:531-563).
LEMMA ActReqIInv == IInv /\ ActReq => IInv'
<1> SUFFICES ASSUME IInv, ActReq PROVE IInv'
  OBVIOUS
<1>1. NoSel \in 0 .. NoSel
  BY DEF NoSel
<1>2. PairIs(send, actRow) /\ PairIs(req, actRow) /\ actRow = 0 /\ actRow < cfg.M
  BY DEF IInv, PairsExact, ActReq, Goto, BeforeSend
<1>3. req' \in Addr \X Addr /\ PairIs(req', actRow + 1)
  BY <1>2, PairStep, AddrsAssumption, SMTT(40) DEF IInv, CtrlTypeOK, ActReq, Addr
<1>4. CtrlTypeOK'
  BY <1>1, <1>3, TickTypes
     DEF IInv, CtrlTypeOK, ActReq, Goto, NoFlag, BackDepth, States
<1>5. PairsExact'
  BY <1>2, <1>3 DEF PairsExact, PairIs, ActReq, Goto
<1> QED
  BY <1>2, <1>4, <1>5 DEF IInv, BeforeSend, ActReq, Goto

\* A send steps the row and both pairs, or none after the last row.
LEMMA ActSendIInv == IInv /\ ActSend => IInv'
<1> SUFFICES ASSUME IInv, ActSend PROVE IInv'
  OBVIOUS
<1>1. /\ PairIs(send, actRow) /\ PairIs(req, actRow + 1)
      /\ actRow < cfg.M /\ cfg.M \in Addr /\ actRow \in Addr
  BY DEF IInv, CtrlTypeOK, Config, PairsExact, ActSend, Goto
<1>2. send[1] % 4 \in 0 .. NoSel
  BY SMTT(40) DEF IInv, CtrlTypeOK, Addr, NoSel
<1>3. CASE ActSendLast
  <2>1. ~ActHasNext
    BY <1>1, <1>3 DEF ActSendLast, ActHasNext, Addr
  <2>2. CtrlTypeOK'
    BY <1>2, <1>3, <2>1, TickTypes
       DEF IInv, CtrlTypeOK, ActSend, Goto, NoFlag, BackDepth, States
  <2> QED
    BY <1>3, <2>2 DEF IInv, PairsExact, BeforeSend, ActSend, Goto
<1>4. CASE ~ActSendLast
  <2>1. ActHasNext /\ actRow < cfg.M - 1
    BY <1>1, <1>4 DEF ActSendLast, ActHasNext, Addr
  <2>2. actRow' = actRow + 1 /\ actRow' \in Addr /\ actRow' < cfg.M
    BY <1>1, <1>4, <2>1, ModStep, AddrsAssumption DEF ActSend, Inc, Addr
  <2>3. send' \in Addr \X Addr /\ PairIs(send', actRow + 1)
    BY <1>1, <1>4, <2>1, PairStep, AddrsAssumption, SMTT(40)
       DEF IInv, CtrlTypeOK, ActSend, Addr
  <2>4. req' \in Addr \X Addr /\ PairIs(req', actRow + 1 + 1)
    <3>1. actRow + 1 \in Addr /\ actRow + 1 < ADDRS - 1
      BY <1>1, <2>1, AddrsAssumption DEF Addr
    <3> QED
      BY <1>1, <2>1, <3>1, PairStep DEF IInv, CtrlTypeOK, ActSend
  <2>5. CtrlTypeOK'
    BY <1>2, <2>2, <2>3, <2>4, TickTypes
       DEF IInv, CtrlTypeOK, ActSend, Goto, NoFlag, BackDepth, States
  <2>6. PairsExact'
    BY <1>4, <2>2, <2>3, <2>4 DEF PairsExact, PairIs, ActSend, Goto
  <2> QED
    BY <1>4, <2>2, <2>5, <2>6 DEF IInv, BeforeSend, ActSend, Goto
<1> QED
  BY <1>3, <1>4

(***************************************************************************)
(* The two states that collect results share their treatment of them.      *)
(***************************************************************************)
LEMMA CollectIInv ==
  ASSUME IInv, state' \in {"WAIT_COMPUTE_DONE", "OUT_WRITE", "DONE"},
         OutputFire \/ NoOutput, Tick(NoSel),
         UNCHANGED <<cfg, wgtRow, actRow, chunk, send, req, wgtDoneSeen>>
  PROVE  IInv'
<1>1. NoSel \in 0 .. NoSel
  BY DEF NoSel
<1>2. outRow' \in Addr /\ out' \in Addr \X Addr
  BY IncType, NextPairType DEF IInv, CtrlTypeOK, OutputFire, NoOutput
<1>3. outputSeen' \in BOOLEAN
  BY DEF IInv, CtrlTypeOK, OutputFire, NoOutput
<1>4. CtrlTypeOK'
  BY <1>1, <1>2, <1>3, TickTypes DEF IInv, CtrlTypeOK, BackDepth, States
<1> QED
  BY <1>4 DEF IInv, PairsExact, BeforeSend

----------------------------------------------------------------------------
(***************************************************************************)
(* Every clock cycle keeps the invariant, whatever the datapath returns.   *)
(***************************************************************************)
LEMMA NextIInv == IInv /\ [CtrlNext]_ctrlVars => IInv'
<1> SUFFICES ASSUME IInv, [CtrlNext]_ctrlVars PROVE IInv'
  OBVIOUS
<1>1. CASE UNCHANGED ctrlVars
  BY <1>1 DEF ctrlVars, IInv, CtrlTypeOK, PairsExact, PairIs, BackDepth
<1>2. CASE CtrlNext
  <2> PICK ov \in BOOLEAN, wd \in BOOLEAN, cd \in BOOLEAN : Cycle(ov, wd, cd)
    BY <1>2 DEF CtrlNext
  <2> wgtDoneSeen \in BOOLEAN /\ outputSeen \in BOOLEAN /\ cfg.M \in Addr
    BY DEF IInv, CtrlTypeOK, Config
  <2>1. CASE Idle
    BY <2>1, QuietStep DEF Idle, Goto, NoFlag, States, BeforeSend
  <2>2. CASE CfgWrite
    BY <2>2, WriteIInv
  <2>3. CASE Start
    BY <2>3, StartIInv
  <2>4. CASE WgtReq
    BY <2>4, QuietStep DEF WgtReq, Goto, NoFlag, States, BeforeSend
  <2>5. CASE WgtSend
    BY <2>5, WgtSendIInv
  <2>6. CASE WaitSemiFull
    BY <2>6, QuietStep DEF WaitSemiFull, Goto, NoFlag, States, BeforeSend
  <2>7. CASE StartPutout
    BY <2>7, QuietStep DEF StartPutout, Goto, NoFlag, States, BeforeSend
  <2>8. CASE WaitWgtDone(wd)
    BY <2>8, QuietStep DEF WaitWgtDone, Goto, States, BeforeSend
  <2>9. CASE Gap
    BY <2>9, QuietStep DEF Gap, Goto, NoFlag, States, BeforeSend
  <2>10. CASE ActReq
    BY <2>10, ActReqIInv
  <2>11. CASE ActSend
    BY <2>11, ActSendIInv
  <2>12. CASE WaitComputeDone(ov, cd)
    BY <2>12, CollectIInv DEF WaitComputeDone, Goto
  <2>13. CASE OutWrite(ov)
    BY <2>13, CollectIInv DEF OutWrite, Goto
  <2>14. CASE Finish
    BY <2>14, QuietStep DEF Finish, Goto, States, BeforeSend
  <2> QED
    BY <2>1, <2>2, <2>3, <2>4, <2>5, <2>6, <2>7, <2>8, <2>9, <2>10, <2>11,
       <2>12, <2>13, <2>14 DEF Cycle
<1> QED
  BY <1>1, <1>2

(***************************************************************************)
(* The invariant holds in every reachable state of the sequencer.          *)
(***************************************************************************)
LEMMA AlwaysIInv == CtrlSpec => []IInv
BY InitIInv, NextIInv, PTL DEF CtrlSpec

(***************************************************************************)
(* Every register of the sequencer stays in its width, and the chunk size  *)
(* is never zero, for every depth, address width and batch size.           *)
(***************************************************************************)
THEOREM TypeCorrect == CtrlSpec => []CtrlTypeOK
<1>1. IInv => CtrlTypeOK
  BY DEF IInv
<1> QED
  BY <1>1, AlwaysIInv, PTL

(***************************************************************************)
(* The counter pairs of mxu_ctrl.sv:531-563 are the quotient and remainder *)
(* of the activation row they follow, for every batch size, including the  *)
(* ones that are no multiple of four and those below four.                 *)
(***************************************************************************)
THEOREM CounterPairs == CtrlSpec => []PairsExact
<1>1. IInv => PairsExact
  BY DEF IInv
<1> QED
  BY <1>1, AlwaysIInv, PTL
============================================================================
