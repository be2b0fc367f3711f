--------------------------- MODULE IrqWaitProofs ---------------------------
(* Proof that a wait ends only because of its own transfer, for every loop  *)
(* and every number of transfers.                                           *)
EXTENDS IrqWait, TLAPS

(***************************************************************************)
(* A completion is in one place at a time: on its way to the engine, in    *)
(* the engine, pending at the gateway, in the handler, or in the flag.     *)
(***************************************************************************)
Travelling == dmaStore \/ dma
Signalled  == ip \/ handler = "isr"

Bits ==
  /\ flag \in BOOLEAN /\ dmaStore \in BOOLEAN /\ dma \in BOOLEAN
  /\ ip \in BOOLEAN /\ ia \in BOOLEAN

OnePlace ==
  /\ ~(dmaStore /\ dma) /\ ~(ip /\ handler = "isr")
  /\ Signalled => ~Travelling /\ landed = xfer
  /\ flag /\ pc # "prepare" => ~Travelling /\ ~Signalled /\ landed = xfer

Phases ==
  /\ pc \in {"prepare", "submit"} => ~Travelling /\ ~Signalled
  /\ pc = "submit" => ~flag
  /\ pc \in {"fence", "verify"} => flag

IInv == Bits /\ OnePlace /\ Phases

----------------------------------------------------------------------------
(***************************************************************************)
(* Initially nothing is under way (main.c:60-69 has just run).             *)
(***************************************************************************)
LEMMA InitIInv == Init => IInv
BY DEF Init, IInv, Bits, OnePlace, Phases, Travelling, Signalled

(***************************************************************************)
(* The instructions of the waiting loops move no completion.               *)
(***************************************************************************)
LEMMA LoopIInv ==
  ASSUME IInv, Test \/ Wfi \/ Wake \/ CsrClear \/ Retest \/ CsrSet \/ FenceMem
  PROVE  IInv'
<1> USE DEF IInv, Bits, OnePlace, Phases, Travelling, Signalled, devVars, Runs
<1>1. CASE Test
  BY <1>1 DEF Test, hartVars
<1>2. CASE Wfi
  BY <1>2 DEF Wfi
<1>3. CASE Wake
  BY <1>3 DEF Wake, progVars
<1>4. CASE CsrClear
  BY <1>4 DEF CsrClear
<1>5. CASE Retest
  BY <1>5 DEF Retest, Retested, hartVars
<1>6. CASE CsrSet
  BY <1>6 DEF CsrSet
<1>7. CASE FenceMem
  BY <1>7 DEF FenceMem, hartVars
<1> QED
  BY <1>1, <1>2, <1>3, <1>4, <1>5, <1>6, <1>7

(***************************************************************************)
(* idma_memcpy starts a transfer when the last one is over, and only after *)
(* it has cleared the flag (main.c:127-137).                               *)
(***************************************************************************)
LEMMA CallIInv ==
  ASSUME IInv, Prepare \/ Submit \/ NextXfer
  PROVE  IInv'
<1> USE DEF IInv, Bits, OnePlace, Phases, Travelling, Signalled, Runs, hartVars
<1>1. CASE Prepare
  BY <1>1 DEF Prepare, Cleared, devVars
<1>2. CASE Submit
  BY <1>2 DEF Submit
<1>3. CASE NextXfer
  BY <1>3 DEF NextXfer, devVars
<1> QED
  BY <1>1, <1>2, <1>3

(***************************************************************************)
(* The handler takes the completion from the gateway to the flag once; a   *)
(* spurious claim takes nothing (plic.c:74-83).                            *)
(***************************************************************************)
LEMMA HandlerIInv ==
  ASSUME IInv, Trap \/ Claim \/ Isr \/ Complete \/ Mret
  PROVE  IInv'
<1> USE DEF IInv, Bits, OnePlace, Phases, Travelling, Signalled
<1>1. CASE Trap
  BY <1>1 DEF Trap, progVars, devVars
<1>2. CASE Claim
  BY <1>2 DEF Claim, progVars
<1>3. CASE Isr
  BY <1>3 DEF Isr, devVars
<1>4. CASE Complete
  BY <1>4 DEF Complete, progVars
<1>5. CASE Mret
  BY <1>5 DEF Mret, progVars, devVars
<1> QED
  BY <1>1, <1>2, <1>3, <1>4, <1>5

(***************************************************************************)
(* The devices move a completion towards the handler, or lose it.          *)
(***************************************************************************)
LEMMA DeviceIInv ==
  ASSUME IInv, PlicLands \/ DmaStarts \/ DmaEnds \/ Line
  PROVE  IInv'
<1> USE DEF IInv, Bits, OnePlace, Phases, Travelling, Signalled, progVars
<1>1. CASE PlicLands
  BY <1>1 DEF PlicLands, hartVars
<1>2. CASE DmaStarts
  BY <1>2 DEF DmaStarts, hartVars
<1>3. CASE DmaEnds
  BY <1>3 DEF DmaEnds, hartVars
<1>4. CASE Line
  BY <1>4 DEF Line, devVars
<1> QED
  BY <1>1, <1>2, <1>3, <1>4

----------------------------------------------------------------------------
(***************************************************************************)
(* main.c:125-140, dma_desc64_test/main.c:91-96: for every loop and any    *)
(* number of transfers, a wait that has returned returned because of its   *)
(* own transfer, whose data are in place.                                  *)
(***************************************************************************)
THEOREM WaitMeansLanded == Spec => []FlagMeansLanded
<1>1. IInv /\ [Next]_vars => IInv'
  <2> SUFFICES ASSUME IInv, [Next]_vars
               PROVE  IInv'
    OBVIOUS
  <2>1. CASE UNCHANGED vars
    BY <2>1 DEF vars, progVars, hartVars, devVars,
                IInv, Bits, OnePlace, Phases, Travelling, Signalled
  <2> QED
    BY <2>1, LoopIInv, CallIInv, HandlerIInv, DeviceIInv DEF Next, Hart
<1>2. IInv => FlagMeansLanded
  BY DEF IInv, OnePlace, Phases, FlagMeansLanded
<1> QED
  BY InitIInv, <1>1, <1>2, PTL DEF Spec
============================================================================
