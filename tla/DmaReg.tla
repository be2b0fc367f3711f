------------------------------- MODULE DmaReg -------------------------------
(***************************************************************************)
(* The register front end of the iDMA with its driver dma_reg64_1d.c:      *)
(* submit launches a transfer by reading next_id, wait compares done_id    *)
(* with the id by a signed difference.  The two counters are those of      *)
(* idma_transfer_id_gen.sv, of IdBits bits, which skip zero; the engine    *)
(* ends transfers in order.  A client has several of them outstanding and  *)
(* waits for each, oldest first.                                           *)
(***************************************************************************)
EXTENDS Integers, Sequences

CONSTANTS
  IdBits,      \* width of the counters, 32 in the hardware
  Outstanding, \* bound: transfers not waited for
  Transfers    \* bound: transfers of the client

ASSUME DmaRegAssumption ==
  IdBits \in Nat \ {0, 1} /\ Outstanding \in Nat \ {0} /\ Transfers \in Nat
  /\ Outstanding + 1 < 2 ^ (IdBits - 1)

\* Powers of two, for the proofs.
ASSUME PowerAssumption == 2 ^ (IdBits - 1) \in Nat /\ 2 ^ IdBits = 2 * 2 ^ (IdBits - 1)

VARIABLES
  next, completed,  \* next_q and completed_q
  issued, landed,   \* transfers launched, and those whose data are in place
  ids,              \* the ids submit returned and wait has not seen
  waited            \* transfers wait has returned for

drVars == <<next, completed, issued, landed, ids, waited>>

Ones == 2 ^ IdBits - 1

\* A counter stays at all ones for one cycle.
Count(c, event) ==
  IF c = Ones THEN (IF event THEN 2 ELSE 1) ELSE IF event THEN c + 1 ELSE c

\* (int32_t)(done - id) < 0
\* (mutant: the ids are compared as they are)
MutReached(done, id) == done >= id
Reached(done, id) == (done - id) % 2 ^ IdBits < 2 ^ (IdBits - 1)

\* A clock cycle, with a read of next_id or not, and the end of a transfer
\* or not; and the poll of done_id that ends a wait.
Tick(issue, retire) ==
  /\ issue => issued < Transfers /\ Len(ids) < Outstanding
  /\ retire => landed < issued
  /\ next' = Count(next, issue) /\ completed' = Count(completed, retire)
  /\ issued' = IF issue THEN issued + 1 ELSE issued
  /\ ids' = IF issue THEN Append(ids, next) ELSE ids
  /\ landed' = IF retire THEN landed + 1 ELSE landed
  /\ UNCHANGED waited

DrWait ==
  /\ ids # <<>> /\ Reached(completed, Head(ids))
  /\ ids' = Tail(ids) /\ waited' = waited + 1
  /\ UNCHANGED <<next, completed, issued, landed>>

DrInit == next = 2 /\ completed = 1 /\ issued = 0 /\ landed = 0 /\ ids = <<>> /\ waited = 0
DrNext == (\E issue, retire \in BOOLEAN : Tick(issue, retire)) \/ DrWait
DrSpec == DrInit /\ [][DrNext]_drVars

\* The clock runs, a transfer ends, a poll is made.
DrFairness == WF_drVars(Tick(FALSE, FALSE)) /\ WF_drVars(\E i \in BOOLEAN : Tick(i, TRUE)) /\ WF_drVars(DrWait)

----------------------------------------------------------------------------
(***************************************************************************)
(* wait returns for a transfer whose data are in place, also across the    *)
(* wrap of the counters, which leave out zero, and in the cycle in which   *)
(* one of them is all ones (dma_reg64_1d.c:45-46).                         *)
(***************************************************************************)
WaitMeansLanded == waited <= landed

(***************************************************************************)
(* Every wait returns: no id falls behind for ever in the wrap.            *)
(***************************************************************************)
WaitsReturn == \A n \in 1 .. Transfers : issued = n ~> waited >= n
=============================================================================
