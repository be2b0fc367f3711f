--------------------------- MODULE AxiInvalFilter ---------------------------
(***************************************************************************)
(* The filter in front of the vector unit's memory port,                   *)
(* hardware/soc/common/axi_inval_filter.sv: every write burst that passes  *)
(* is recorded in a queue, and its cache lines are invalidated in the L1   *)
(* of the scalar core one by one.  Next is a clock cycle.                  *)
(*                                                                         *)
(* A burst is [addr, len, size] of its AW, an incrementing burst of        *)
(* len + 1 beats of 2^size bytes; a line is the number of a cache line.    *)
(* While en_i is low a burst passes unrecorded and nothing here changes.   *)
(***************************************************************************)
EXTENDS Integers, Sequences

CONSTANTS
  Bursts,       \* the bursts the vector unit may write
  MaxTxns,      \* entries of the queue
  L1LineWidth,  \* bytes of a cache line
  MaxWrites     \* bound: bursts of a behaviour

Beat(aw) == 2 ^ aw.size

ASSUME InvalAssumption ==
  /\ MaxTxns \in Nat \ {0} /\ L1LineWidth \in Nat \ {0} /\ MaxWrites \in Nat
  /\ \A aw \in Bursts : aw.addr \in Nat /\ aw.len \in Nat /\ Beat(aw) \in Nat \ {0}

VARIABLES
  ivFifo,    \* i_aw_fifo
  ivState,   \* state_q
  ivOffset,  \* inval_offset_q
  ivStale,   \* history: lines that are old in the L1
  ivWrites   \* number of bursts that have passed

ivVars == <<ivFifo, ivState, ivOffset, ivStale, ivWrites>>

LineOf(a) == a \div L1LineWidth

\* (len + 1) << size
Bytes(aw) == (aw.len + 1) * Beat(aw)

\* The lines a burst writes: its first beat ends at an aligned address.
Lines(aw) == {LineOf(a) : a \in aw.addr .. aw.addr - (aw.addr % Beat(aw)) + Bytes(aw) - 1}

IvInit ==
  /\ ivFifo = <<>> /\ ivState = "Idle" /\ ivOffset = 0
  /\ ivStale = {} /\ ivWrites = 0

----------------------------------------------------------------------------
(* The bursts that pass in a cycle: none or one; none while the queue is   *)
(* full, and the memory may keep one waiting.                              *)

\* (mutant: a burst is let through whatever the queue)
MutPasses == {<<>>} \cup {<<aw>> : aw \in Bursts}
Passes == IF Len(ivFifo) = MaxTxns THEN {<<>>} ELSE {<<>>} \cup {<<aw>> : aw \in Bursts}

\* The queue drops what it has no place for, and falls through.
Queue(new) == IF Len(ivFifo) = MaxTxns THEN ivFifo ELSE ivFifo \o new

\* From the address of a burst to the next line.
\* (mutant: addresses are taken as aligned)
MutToNextLine(aw) == L1LineWidth
ToNextLine(aw) == L1LineWidth - (aw.addr % L1LineWidth)

\* inval_offset_d, when the L1 takes a line.
NextOffset(aw) == IF ivState = "Idle" THEN ToNextLine(aw) ELSE ivOffset + L1LineWidth

\* inval_fsm, with the request for the line at addr + offset accepted.
Invalidate(queue) ==
  LET aw == Head(queue) IN
  IF NextOffset(aw) < Bytes(aw)
  THEN ivState' = "Invalidating" /\ ivOffset' = NextOffset(aw) /\ ivFifo' = queue
  ELSE ivState' = "Idle" /\ ivOffset' = 0 /\ ivFifo' = Tail(queue)

\* The line at inval_addr_o.
Requested(queue) == LineOf(Head(queue).addr + ivOffset)

\* The lines of the bursts that pass.  An invalidation in the same cycle is
\* not counted for them unless it is their own.
Written(new, done) == IF new = <<>> THEN {} ELSE Lines(Head(new)) \ (IF ivFifo = <<>> THEN done ELSE {})

Pass(new) == ivWrites + Len(new) <= MaxWrites /\ ivWrites' = ivWrites + Len(new)

\* The L1 does not take a request, or there is none.
Hold(new) ==
  /\ Pass(new)
  /\ ivFifo' = Queue(new) /\ UNCHANGED <<ivState, ivOffset>>
  /\ ivStale' = ivStale \cup Written(new, {})

\* It takes one (inval_ready_i).
Take(new) ==
  /\ Pass(new) /\ Queue(new) # <<>>
  /\ Invalidate(Queue(new))
  /\ ivStale' = (ivStale \ {Requested(Queue(new))}) \cup Written(new, {Requested(Queue(new))})

IvNext == \E new \in Passes : Hold(new) \/ Take(new)

IvSpec == IvInit /\ [][IvNext]_ivVars

----------------------------------------------------------------------------
(* Properties.                                                             *)

(***************************************************************************)
(* Once the filter has nothing left to do, no line a burst has written is  *)
(* old in the L1: misaligned bursts have the line more that they touch     *)
(* (axi_inval_filter.sv:93-96), and with a full queue no burst passes      *)
(* unrecorded (67-70).                                                     *)
(***************************************************************************)
NoStaleLine == ivFifo = <<>> => ivStale = {}
=============================================================================
