------------------------------ MODULE IrqWait ------------------------------
(***************************************************************************)
(* Waiting for the completion interrupt of the iDMA: idma_memcpy of        *)
(* software/app/mxu_idma_gbuf_test/main.c with its driver dma_desc64.c,    *)
(* the external interrupt handler (handlers.S, plic.c), and the three      *)
(* waiting loops of the repository:                                        *)
(*                                                                         *)
(*   "gbuf"    wfi, then test        mxu_idma_gbuf_test/main.c             *)
(*   "desc64"  test, then wfi        dma_desc64_test/main.c                *)
(*   "macro"   WFI_WAIT              sdk/include/wfi.h                     *)
(*                                                                         *)
(* A step of the hart is one instruction that matters; an interrupt that   *)
(* is pending and enabled is taken before the next one.  The DMA's request *)
(* is a pulse, the PLIC's gateway latches it, and the hart sees it later.  *)
(***************************************************************************)
EXTENDS Integers

CONSTANTS
  Loops,    \* the loops to be waited in
  MaxXfers  \* bound: transfers

ASSUME LoopsAssumption ==
  Loops \subseteq {"gbuf", "desc64", "macro"} /\ MaxXfers \in Nat \ {0}

VARIABLES
  loop,      \* the loop of this program
  pc,        \* the next instruction of the program
  xfer,      \* number of the current transfer
  flag,      \* g_dma_irq_done
  mie,       \* mstatus.MIE
  mip,       \* mip.MEIP, a register behind the PLIC's output
  asleep,    \* the hart has executed wfi and not woken
  handler,   \* the next step of the handler, "none" outside it
  plicStore, \* the completion is posted and has not arrived
  dmaStore,  \* the descriptor address is posted and has not arrived
  dma,       \* whether the engine is running
  landed,    \* number of the last transfer whose data are in place
  ip, ia     \* the gateway: interrupt pending, interrupt active

progVars == <<loop, pc, xfer, flag>>
hartVars == <<mie, mip, asleep, handler>>
devVars  == <<plicStore, dmaStore, dma, landed, ip, ia>>
vars == <<progVars, hartVars, devVars>>

----------------------------------------------------------------------------
(* The program.                                                            *)

\* An interrupt is taken before the next instruction, and a hart that
\* sleeps executes none.
Trapped == mip /\ mie
Runs(at) == pc = at /\ handler = "none" /\ ~asleep /\ ~Trapped

\* (mutant: the flag of the previous transfer is left)
MutCleared == flag
Cleared == FALSE

Prepare ==
  /\ Runs("prepare")
  /\ flag' = Cleared
  /\ pc' = "submit"
  /\ UNCHANGED <<loop, xfer, hartVars, devVars>>

\* FENCE_OW and the fence of submit: no store is pending.
Submit ==
  /\ Runs("submit") /\ ~plicStore /\ ~dmaStore
  /\ dmaStore' = TRUE
  /\ pc' = IF loop = "gbuf" THEN "wfi" ELSE "test"
  /\ UNCHANGED <<loop, xfer, flag, hartVars, plicStore, dma, landed, ip, ia>>

Test ==
  /\ Runs("test")
  /\ pc' = IF flag THEN "fence" ELSE IF loop = "macro" THEN "csrc" ELSE "wfi"
  /\ UNCHANGED <<loop, xfer, flag, hartVars, devVars>>

\* wfi does not sleep on an interrupt that is pending, enabled in mie,
\* whatever mstatus.MIE says; a pending interrupt also ends the sleep.
Wfi ==
  /\ Runs("wfi")
  /\ asleep' = ~mip
  /\ pc' = IF loop = "macro" THEN "csrs" ELSE "test"
  /\ UNCHANGED <<loop, xfer, flag, mie, mip, handler, devVars>>

Wake ==
  /\ asleep /\ mip
  /\ asleep' = FALSE
  /\ UNCHANGED <<progVars, mie, mip, handler, devVars>>

CsrClear ==
  /\ Runs("csrc")
  /\ mie' = FALSE /\ pc' = "retest"
  /\ UNCHANGED <<loop, xfer, flag, mip, asleep, handler, devVars>>

\* (mutant: the macro does not test again with interrupts off)
MutRetested == "wfi"
Retested == IF flag THEN "csrs" ELSE "wfi"

Retest ==
  /\ Runs("retest")
  /\ pc' = Retested
  /\ UNCHANGED <<loop, xfer, flag, hartVars, devVars>>

CsrSet ==
  /\ Runs("csrs")
  /\ mie' = TRUE /\ pc' = "test"
  /\ UNCHANGED <<loop, xfer, flag, mip, asleep, handler, devVars>>

\* FENCE_MEM, and the words are compared.
FenceMem ==
  /\ Runs("fence") /\ ~plicStore /\ ~dmaStore
  /\ pc' = "verify"
  /\ UNCHANGED <<loop, xfer, flag, hartVars, devVars>>

NextXfer ==
  /\ Runs("verify") /\ xfer < MaxXfers
  /\ xfer' = xfer + 1 /\ pc' = "prepare"
  /\ UNCHANGED <<loop, flag, hartVars, devVars>>

----------------------------------------------------------------------------
(* The handler.                                                            *)

Trap ==
  /\ Trapped /\ handler = "none" /\ ~asleep
  /\ mie' = FALSE /\ handler' = "claim"
  /\ UNCHANGED <<progVars, mip, asleep, devVars>>

\* The claim clears the pending bit; a claim that finds none is spurious.
\* It follows an older completion on the same path.
Claim ==
  /\ handler = "claim" /\ ~plicStore
  /\ handler' = IF ip THEN "isr" ELSE "mret"
  /\ ip' = FALSE
  /\ UNCHANGED <<progVars, mie, mip, asleep, plicStore, dmaStore, dma, landed, ia>>

Isr ==
  /\ handler = "isr"
  /\ flag' = TRUE /\ handler' = "complete"
  /\ UNCHANGED <<loop, pc, xfer, mie, mip, asleep, devVars>>

Complete ==
  /\ handler = "complete"
  /\ plicStore' = TRUE /\ handler' = "mret"
  /\ UNCHANGED <<progVars, mie, mip, asleep, dmaStore, dma, landed, ip, ia>>

Mret ==
  /\ handler = "mret"
  /\ handler' = "none" /\ mie' = TRUE
  /\ UNCHANGED <<progVars, mip, asleep, devVars>>

----------------------------------------------------------------------------
(* The devices.                                                            *)

PlicLands ==
  /\ plicStore /\ plicStore' = FALSE /\ ia' = FALSE
  /\ UNCHANGED <<progVars, hartVars, dmaStore, dma, landed, ip>>

DmaStarts ==
  /\ dmaStore /\ dmaStore' = FALSE /\ dma' = TRUE
  /\ UNCHANGED <<progVars, hartVars, plicStore, landed, ip, ia>>

\* The pulse is lost on a gateway that is still active.
DmaEnds ==
  /\ dma /\ dma' = FALSE
  /\ landed' = xfer
  /\ ip' = (ip \/ ~ia) /\ ia' = TRUE
  /\ UNCHANGED <<progVars, hartVars, plicStore, dmaStore>>

Line ==
  /\ mip # ip /\ mip' = ip
  /\ UNCHANGED <<progVars, mie, asleep, handler, devVars>>

----------------------------------------------------------------------------
\* plic_op_init and enable_dma_irq have run.
Init ==
  /\ loop \in Loops /\ pc = "prepare" /\ xfer = 1 /\ flag = FALSE
  /\ mie = TRUE /\ mip = FALSE /\ asleep = FALSE /\ handler = "none"
  /\ plicStore = FALSE /\ dmaStore = FALSE /\ dma = FALSE /\ landed = 0
  /\ ip = FALSE /\ ia = FALSE

Hart == \/ Prepare \/ Submit \/ Test \/ Wfi \/ Wake \/ CsrClear \/ Retest \/ CsrSet
        \/ FenceMem \/ NextXfer \/ Trap \/ Claim \/ Isr \/ Complete \/ Mret

Next == Hart \/ PlicLands \/ DmaStarts \/ DmaEnds \/ Line

(***************************************************************************)
(* The hart executes, stores arrive, transfers end, lines settle.          *)
(***************************************************************************)
Spec == /\ Init /\ [][Next]_vars
        /\ WF_vars(Hart) /\ WF_vars(PlicLands)
        /\ WF_vars(DmaStarts) /\ WF_vars(DmaEnds) /\ WF_vars(Line)

----------------------------------------------------------------------------
(***************************************************************************)
(* A wait that has returned returned because of this transfer: its data    *)
(* are in place when the words are compared, and neither the flag nor an   *)
(* interrupt of an earlier one ended it (main.c:125-140).                  *)
(***************************************************************************)
FlagMeansLanded == pc \in {"fence", "verify"} => landed = xfer

(***************************************************************************)
(* Every wait ends: no interleaving of the interrupt with the loop leaves  *)
(* the hart asleep behind an interrupt it has already handled, and no      *)
(* pulse meets a gateway that is not open (dma_desc64_test/main.c:9: "WFI  *)
(* until ISR signals completion").                                         *)
(***************************************************************************)
EveryWaitEnds ==
  \A n \in 1 .. MaxXfers : xfer = n ~> (xfer = n /\ pc = "verify")

(***************************************************************************)
(* The loop of wfi.h, which tests again with interrupts off, never sleeps  *)
(* through the interrupt it waits for: every wait of it ends.              *)
(***************************************************************************)
MacroWaitsEnd ==
  \A n \in 1 .. MaxXfers : loop = "macro" /\ xfer = n ~> xfer = n /\ pc = "verify"
============================================================================
