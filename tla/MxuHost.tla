------------------------------ MODULE MxuHost ------------------------------
(***************************************************************************)
(* Software driving the matrix unit: the flow of                           *)
(* software/app/my_mxu_test/main.c over the driver my_mxu.c, the register  *)
(* block of mxu_top_wrapper.sv, and the buffers whose read and write ports *)
(* belong to the CPU or to the unit (rf2p_256_128_wrapper.sv).             *)
(*                                                                         *)
(* main runs the flow once; the model calls it again, as any program with  *)
(* more than one job would, also on a unit that a timeout has left busy.   *)
(*                                                                         *)
(* The CPU posts its stores: each of the four address windows serves its   *)
(* accesses in order, but nothing orders two windows except a FENCE, which *)
(* waits until no store is pending.  One Cycle is a clock cycle of the     *)
(* unit, in which every window serves at most one access, so that an       *)
(* access can meet the done pulse.                                         *)
(*                                                                         *)
(* Data are tagged with the number of the run that wrote them.  The unit   *)
(* is the job engine of MxuJob with its order of buffer accesses kept and  *)
(* its duration left open: weights, then activations and results, then a   *)
(* cycle for the last write and one of done.                               *)
(***************************************************************************)
EXTENDS Integers, Sequences

CONSTANTS
  NCells,    \* words of a buffer
  NFields,   \* registers behind CFG_WRITE
  MaxPolls,  \* the timeout given to wait_done, when it can run out
  MaxRuns,   \* bound: calls of the flow
  Posted     \* bound: accesses a window has outstanding

ASSUME HostAssumption ==
  /\ NCells \in Nat \ {0} /\ NFields \in Nat \ {0}
  /\ MaxPolls \in Nat \ {0} /\ MaxRuns \in Nat \ {0} /\ Posted \in Nat \ {0}

VARIABLES
  pc,       \* the instruction the flow is at
  run,      \* number of the current call of the flow
  polls,    \* what is left of wait_done's timeout, Never if it does not run out
  reply,    \* None, Asked, or the answer to the outstanding load
  outcome,  \* what the flow returned, "running" until then
  clean,    \* history: the previous run had not timed out
  queue,    \* accesses posted to each window
  sel,      \* *_port_sel_q: rd and wr, TRUE for the unit
  done,     \* done_sticky_q
  irq,      \* irq_status_q
  regs,     \* the configuration registers of mxu_ctrl
  buf,      \* contents of the three buffers
  eng,      \* the unit: state, word, and the weights it loaded
  outPort   \* the registered write port of the unit, or None

cpuVars == <<pc, run, polls, reply, outcome, clean>>
devVars == <<sel, done, irq, regs, buf, eng, outPort>>
vars == <<cpuVars, queue, devVars>>

Never == -1
Cells   == 0 .. NCells - 1
Fields  == 0 .. NFields - 1
Buffers == {"wgt", "act", "out"}
Windows == Buffers \union {"cfg"}

None    == <<>>
Asked   == <<"asked", "asked">>
Garbage == -1

\* The result row for word c of the activations.
Row(w, a, f) == [w |-> w, a |-> a, f |-> f]
Golden == Row([d \in Cells |-> run], run, [i \in Fields |-> run])
NoRow  == Row([d \in Cells |-> Garbage], Garbage, [i \in Fields |-> Garbage])

----------------------------------------------------------------------------
(* The flow.  An instruction is <<kind, window, register or word, value>>. *)

Ins(kind, win, what, v) == <<kind, win, what, v>>
Reg(r, v) == Ins("st", "cfg", r, v)
Fence     == Ins("fence", "cfg", "none", 0)

CPU   == [rd |-> FALSE, wr |-> FALSE]
MXURd == [rd |-> TRUE, wr |-> FALSE]
MXUWr == [rd |-> FALSE, wr |-> TRUE]

EachCell(kind, win) == [i \in 1 .. NCells |-> Ins(kind, win, i - 1, 0)]

DriverInit  == <<Reg("IRQ_STAT", 1), Reg("CTRL", "CLR_DONE")>>
PortsToCPU  == <<Reg("wgt", CPU), Reg("act", CPU), Reg("out", CPU)>>
WriteInputs == EachCell("st", "wgt") \o EachCell("st", "act")
WriteCfg    == [i \in 1 .. NFields |-> Reg("CFG_WRITE", i - 1)]
PortsToMXU  == <<Reg("wgt", MXURd), Reg("act", MXURd), Reg("out", MXUWr)>>
Start       == <<Reg("CTRL", "START")>>
WaitDone    == <<Ins("poll", "cfg", "STATUS", 0), Ins("check", "cfg", "STATUS", 0)>>
ReadOutputs == EachCell("ld", "out")

\* (mutant: nothing orders the input buffers before the start)
MutProgram == DriverInit \o PortsToCPU \o WriteInputs
           \o WriteCfg \o PortsToMXU \o Start \o WaitDone
           \o PortsToCPU \o <<Fence>> \o ReadOutputs
Program == DriverInit \o PortsToCPU \o WriteInputs \o <<Fence>>
           \o WriteCfg \o PortsToMXU \o <<Fence>> \o Start \o WaitDone
           \o PortsToCPU \o <<Fence>> \o ReadOutputs

----------------------------------------------------------------------------
(* The CPU.                                                                *)

At(kinds) == outcome = "running" /\ Program[pc][1] \in kinds
I == Program[pc]

Post(a) ==
  /\ Len(queue[a[2]]) < Posted
  /\ queue' = [queue EXCEPT ![a[2]] = Append(@, a)]

\* A store is posted; the words written carry the number of the run.
Store ==
  /\ At({"st"})
  /\ Post(Append(I, run))
  /\ pc' = pc + 1
  /\ UNCHANGED <<run, polls, reply, outcome, clean, devVars>>

FenceDone ==
  /\ At({"fence"})
  /\ \A w \in Windows : queue[w] = <<>>
  /\ pc' = pc + 1
  /\ UNCHANGED <<run, polls, reply, outcome, clean, queue, devVars>>

TimedOut == polls = 0

\* A load is issued and the CPU waits for its answer.
Ask ==
  /\ At({"poll", "check", "ld"}) /\ reply = None
  /\ ~(I[1] = "poll" /\ TimedOut)
  /\ Post(Append(I, run))
  /\ reply' = Asked
  /\ UNCHANGED <<pc, run, polls, outcome, clean, devVars>>

\* while (timeout--) runs out: wait_done returns -1 and the flow gives up.
Timeout ==
  /\ At({"poll"}) /\ reply = None /\ TimedOut
  /\ outcome' = "timeout"
  /\ UNCHANGED <<pc, run, polls, reply, clean, queue, devVars>>

Answered == reply # None /\ reply # Asked

Poll ==
  /\ At({"poll"}) /\ Answered
  /\ IF reply[1].busy THEN /\ polls' = IF polls = Never THEN Never ELSE polls - 1
                           /\ UNCHANGED pc
                      ELSE pc' = pc + 1 /\ UNCHANGED polls
  /\ reply' = None
  /\ UNCHANGED <<run, outcome, clean, queue, devVars>>

Check ==
  /\ At({"check"}) /\ Answered
  /\ pc' = pc + 1
  /\ outcome' = IF reply[1].done THEN outcome ELSE "no_done"
  /\ reply' = None
  /\ UNCHANGED <<run, polls, clean, queue, devVars>>

\* compare_output stops at the first word that differs.
Compare ==
  /\ At({"ld"}) /\ Answered
  /\ outcome' = IF reply[1] # Golden THEN "fail"
                ELSE IF pc = Len(Program) THEN "pass" ELSE "running"
  /\ pc' = IF outcome' = "running" THEN pc + 1 ELSE pc
  /\ reply' = None
  /\ UNCHANGED <<run, polls, clean, queue, devVars>>

\* The flow is called again, on a unit that a timeout may have left busy.
Again ==
  /\ outcome # "running" /\ run < MaxRuns
  /\ run' = run + 1 /\ pc' = 1 /\ polls' = IF polls = Never THEN Never ELSE MaxPolls
  /\ outcome' = "running"
  /\ clean' = (outcome # "timeout")
  /\ UNCHANGED <<reply, queue, devVars>>

CpuStep == Store \/ FenceDone \/ Ask \/ Timeout \/ Poll \/ Check \/ Compare \/ Again

----------------------------------------------------------------------------
(* The unit.  a is the access a window serves in this cycle, or NoAccess.  *)

NoAccess == <<"none", "none", "none", 0, 0>>

Writes(a, r)   == a[1] = "st" /\ a[3] = r
StartPulse(a)  == Writes(a, "CTRL") /\ a[4] = "START"
ClearDone(a)   == Writes(a, "CTRL") /\ a[4] = "CLR_DONE"
\* (mutant: busy falls with the last result row, before it has landed)
MutBusy        == eng.st \in {"load", "send"}
Busy           == eng.st # "idle"
MxuDone        == eng.st = "done"

\* The last of the three assignments in the clocked block wins.
\* (mutant: a start clears the completion that arrives with it)
MutDoneNext(a, old) == IF ClearDone(a) \/ StartPulse(a) THEN FALSE ELSE old \/ MxuDone
DoneNext(a, old) == IF ClearDone(a) THEN FALSE
                    ELSE IF MxuDone THEN TRUE
                    ELSE IF StartPulse(a) THEN FALSE ELSE old

Registers(a) ==
  /\ done' = DoneNext(a, done)
  /\ irq'  = IF Writes(a, "IRQ_STAT") THEN FALSE ELSE DoneNext(a, irq)
  /\ sel'  = [b \in Buffers |-> IF Writes(a, b) THEN a[4] ELSE sel[b]]
  /\ regs' = [f \in Fields |->
                IF Writes(a, "CFG_WRITE") /\ ~Busy /\ a[4] = f THEN a[5] ELSE regs[f]]

\* What the unit reads through a port that may not be its own.
Read(b, c) == IF sel[b].rd THEN buf[b][c] ELSE Garbage

Engine(a, go) ==
  LET c == eng.c IN
  CASE eng.st = "idle" ->
         /\ eng' = IF StartPulse(a) THEN [eng EXCEPT !.st = "load", !.c = 0] ELSE eng
         /\ outPort' = None
    [] eng.st = "load" /\ go ->
         /\ eng' = [st |-> IF c = NCells - 1 THEN "send" ELSE "load",
                    c  |-> (c + 1) % NCells,
                    w  |-> [eng.w EXCEPT ![c] = Read("wgt", c)]]
         /\ outPort' = None
    [] eng.st = "send" /\ go ->
         /\ eng' = [eng EXCEPT !.st = IF c = NCells - 1 THEN "drain" ELSE "send",
                               !.c = (c + 1) % NCells]
         /\ outPort' = <<c, Row(eng.w, Read("act", c), regs)>>
    [] eng.st \in {"load", "send"} /\ ~go ->
         UNCHANGED eng /\ outPort' = None
    [] eng.st = "drain" ->
         eng' = [eng EXCEPT !.st = "done"] /\ outPort' = None
    [] eng.st = "done" ->
         eng' = [eng EXCEPT !.st = "idle"] /\ outPort' = None

\* One port of each kind per buffer: the side that does not own it is ignored.
Banks(acc) ==
  buf' = [b \in Buffers |-> [c \in Cells |->
    IF b = "out" /\ sel[b].wr /\ outPort # None /\ outPort[1] = c THEN outPort[2]
    ELSE IF ~sel[b].wr /\ acc[b][1] = "st" /\ acc[b][3] = c THEN acc[b][5]
    ELSE buf[b][c]]]

Answer(acc) ==
  reply' = IF acc["cfg"][1] \in {"poll", "check"}
             THEN <<[busy |-> Busy, done |-> done]>>
           ELSE IF acc["out"][1] = "ld"
             THEN <<IF sel["out"].rd THEN NoRow ELSE buf["out"][acc["out"][3]]>>
           ELSE reply

\* The windows in D serve their first access; go tells whether a unit that
\* is loading or sending gets on in this cycle.
Cycle(D, go) ==
  LET acc == [w \in Windows |-> IF w \in D THEN Head(queue[w]) ELSE NoAccess]
  IN /\ \A w \in D : queue[w] # <<>>
     /\ queue' = [w \in Windows |-> IF w \in D THEN Tail(queue[w]) ELSE queue[w]]
     /\ Registers(acc["cfg"]) /\ Engine(acc["cfg"], go) /\ Banks(acc) /\ Answer(acc)
     /\ UNCHANGED <<pc, run, polls, outcome, clean>>

Serve(w) == \E D \in SUBSET Windows, go \in BOOLEAN : w \in D /\ Cycle(D, go)
GetOn    == \E D \in SUBSET Windows : Cycle(D, TRUE)
Clock    == \E D \in SUBSET Windows, go \in BOOLEAN : Cycle(D, go)

----------------------------------------------------------------------------
Init ==
  /\ pc = 1 /\ run = 1 /\ polls \in {MaxPolls, Never} /\ reply = None
  /\ outcome = "running" /\ clean = TRUE
  /\ queue = [w \in Windows |-> <<>>]
  /\ sel = [b \in Buffers |-> CPU] /\ done = FALSE /\ irq = FALSE
  /\ regs = [f \in Fields |-> 0]
  /\ buf = [b \in Buffers |-> [c \in Cells |-> IF b = "out" THEN NoRow ELSE Garbage]]
  /\ eng = [st |-> "idle", c |-> 0, w |-> [c \in Cells |-> Garbage]]
  /\ outPort = None

Next == CpuStep \/ Clock

(***************************************************************************)
(* The clock runs, every window answers, and a job takes a finite number   *)
(* of cycles (MxuJob's Progress, which Mxu is checked to provide).         *)
(***************************************************************************)
Spec == /\ Init /\ [][Next]_vars
        /\ WF_vars(CpuStep) /\ WF_vars(GetOn)
        /\ \A w \in Windows : WF_vars(Serve(w))

----------------------------------------------------------------------------
(***************************************************************************)
(* A run whose predecessor did not time out reads back the product of the  *)
(* inputs and the configuration it wrote itself, every word of it: its     *)
(* stores were not dropped by a port of the other side, its start was not  *)
(* ignored, wait_done did not return early or because of an older job, and *)
(* the last row had landed (main.c:179-218).                               *)
(***************************************************************************)
OwnProduct == clean => outcome # "fail"

(***************************************************************************)
(* main.c:203-208: when wait_done has returned 0 the DONE bit is set.  This*)
(* holds also for a run that finds the unit still busy with the job of a   *)
(* timed-out one, whatever access meets the done pulse.                    *)
(***************************************************************************)
DoneWhenNotBusy == outcome # "no_done"

(***************************************************************************)
(* With a timeout that does not run out, every call of the flow ends: the  *)
(* last one is reached and ends in MXU_PASS (the others cannot have ended  *)
(* otherwise, by the two invariants; main.c:199-201).                      *)
(***************************************************************************)
EveryRunPasses == <>(polls # Never \/ (run = MaxRuns /\ outcome = "pass"))
============================================================================
