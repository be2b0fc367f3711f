------------------------------ MODULE AsicDma ------------------------------
(***************************************************************************)
(* The accelerator that reads a word and writes it back plus one: a client *)
(* of the driver asic_dma_accel.c that runs job after job, and the state   *)
(* machine of asic_dma_accel_sim.sv.  Registers may be written while the   *)
(* unit is busy, and its addresses are taken from them when the AXI        *)
(* handshakes come; the memory answers when it likes.                      *)
(***************************************************************************)
EXTENDS Integers

CONSTANTS
  AdWords,  \* words of memory
  AdJobs    \* bound: jobs of the client

ASSUME AsicDmaAssumption == AdWords \in Nat \ {0} /\ AdJobs \in Nat

VARIABLES
  adPc, adJob,        \* the client, and the number of its job
  adWant,             \* history: what memory[dst] has to become
  adSrc, adDst,       \* src_addr_q, dst_addr_q
  adSt, adBusy,       \* state_q, busy_q
  adDone, adIrq,      \* done_q, irq_status_q
  adRead, adResult,   \* read_data_q, result_q
  adMem               \* memory

adVars == <<adPc, adJob, adWant, adSrc, adDst, adSt, adBusy, adDone, adIrq, adRead, adResult, adMem>>

\* config, one register after the other, and start.
Config ==
  /\ adPc = "config" /\ adJob < AdJobs
  /\ \E s, d \in 1 .. AdWords : adSrc' = s /\ adDst' = d /\ adWant' = adMem[s] + 1
  /\ adJob' = adJob + 1 /\ adPc' = "start"
  /\ UNCHANGED <<adSt, adBusy, adDone, adIrq, adRead, adResult, adMem>>
AdStart ==
  /\ adPc = "start" /\ adPc' = "wait"
  /\ IF adSt = "IDLE" THEN adBusy' = TRUE /\ adDone' = FALSE /\ adSt' = "AR"
     ELSE UNCHANGED <<adBusy, adDone, adSt>>
  /\ UNCHANGED <<adJob, adWant, adSrc, adDst, adIrq, adRead, adResult, adMem>>

\* wait returns when a poll finds the unit idle; irq_clear, and the result.
AdWait ==
  /\ adPc = "wait" /\ ~adBusy
  /\ adPc' = "config" /\ adIrq' = FALSE /\ adDone' = FALSE
  /\ UNCHANGED <<adJob, adWant, adSrc, adDst, adSt, adBusy, adRead, adResult, adMem>>

\* (mutant: busy falls with the data, before the response)
MutBusyAfter(to) == to \notin {"IDLE", "B"}
BusyAfter(to) == to # "IDLE"

\* A handshake of the unit's AXI port.
Handshake(from, to) ==
  /\ adSt = from /\ adSt' = to /\ adBusy' = BusyAfter(to)
  /\ adRead' = IF from = "R" THEN adMem[adSrc] ELSE adRead
  /\ IF from = "B" THEN /\ adMem' = [adMem EXCEPT ![adDst] = adRead + 1]
                        /\ adDone' = TRUE /\ adIrq' = TRUE /\ adResult' = adRead + 1
     ELSE UNCHANGED <<adMem, adDone, adIrq, adResult>>
  /\ UNCHANGED <<adPc, adJob, adWant, adSrc, adDst>>

AdInit ==
  /\ adPc = "config" /\ adJob = 0 /\ adWant = 0 /\ adSrc = 1 /\ adDst = 1
  /\ adSt = "IDLE" /\ adBusy = FALSE /\ adDone = FALSE /\ adIrq = FALSE
  /\ adRead = 0 /\ adResult = 0 /\ adMem = [a \in 1 .. AdWords |-> 10 * a]

AdNext ==
  \/ Config \/ AdStart \/ AdWait
  \/ Handshake("AR", "R") \/ Handshake("R", "AW") \/ Handshake("AW", "W")
  \/ Handshake("W", "B") \/ Handshake("B", "IDLE")
AdSpec == AdInit /\ [][AdNext]_adVars

----------------------------------------------------------------------------
(***************************************************************************)
(* When wait has returned, the job's own word is in memory and in RESULT,  *)
(* also when a job reads what the one before it wrote                      *)
(* (asic_dma_accel.c:29-33, asic_dma_accel_sim.sv:106-140).                *)
(***************************************************************************)
OwnWord == adPc = "config" /\ adJob > 0 => adMem[adDst] = adWant /\ adResult = adWant
=============================================================================
