--------------------------- MODULE MxuHostProofs ---------------------------
(***************************************************************************)
(* Proofs about MxuHost: a flow that does not find the unit busy with the  *)
(* job of a timed-out one reads back its own product, and DONE is set      *)
(* whenever wait_done has returned, for buffers, register files, queues    *)
(* and timeouts of every size.                                             *)
(***************************************************************************)
EXTENDS MxuHost, TLAPS

(***************************************************************************)
(* Where the instructions of the flow are.                                 *)
(***************************************************************************)
WgtAt   == 6                         \* first store to the weights
ActAt   == WgtAt + NCells            \* first store to the activations
FenceA  == ActAt + NCells            \* the fence after the inputs
FenceB  == FenceA + NFields + 4      \* the fence before the start
StartAt == FenceB + 1
PollAt  == StartAt + 1
CheckAt == PollAt + 1
FenceD  == CheckAt + 4               \* the fence before the results
Last    == FenceD + NCells

\* The access that instruction k of the current run posts.
Acc(k) == Append(Program[k], run)

\* A window that still has to serve q has the last of instructions lo .. hi.
Tailing(q, lo, hi, r) ==
  /\ Len(q) <= hi - lo + 1
  /\ \A i \in 1 .. Len(q) : q[i] = Append(Program[hi - Len(q) + i], r)
\* The instruction it serves next.
Due(q, hi) == hi + 1 - Len(q)

Clamp(x, lo, hi) == IF x < lo THEN lo ELSE IF x > hi THEN hi ELSE x
HiCfg == Clamp(pc - 1, 0, WgtAt - 1)
HiWgt == Clamp(pc - 1, WgtAt - 1, ActAt - 1)
HiAct == Clamp(pc - 1, ActAt - 1, FenceA - 1)

Accesses(w) == {Append(Program[k], r) : k \in {j \in 1 .. Last : Program[j][2] = w}, r \in Nat}
Resting == eng.st = "idle" /\ outPort = None
AllCPU  == \A b \in Buffers : sel[b] = CPU
Emptied(W) == \A w \in W : queue[w] = <<>>
Inputs  == \A c \in Cells : buf["wgt"][c] = run /\ buf["act"][c] = run
Results == \A c \in Cells : buf["out"][c] = Golden

HostType ==
  /\ pc \in 1 .. Last /\ run \in Nat /\ clean \in BOOLEAN
  /\ outcome \in {"running", "timeout", "pass", "fail"}
  /\ DOMAIN queue = Windows /\ \A w \in Windows : queue[w] \in Seq(Accesses(w))
  /\ DOMAIN eng = {"st", "c", "w"} /\ eng.c \in Cells
  /\ eng.w = [c \in Cells |-> eng.w[c]] /\ regs = [f \in Fields |-> regs[f]]
  /\ eng.st \in {"idle", "load", "send", "drain", "done"}
  /\ outPort # None => eng.st \in {"send", "drain"}

\* A run that finds the unit busy, up to its start, and one that gave up.
AtU == outcome = "timeout" \/ (outcome = "running" /\ ~clean /\ pc <= FenceB)
InvU == /\ reply = None
        /\ \A w \in Windows : \A i \in 1 .. Len(queue[w]) : queue[w][i][1] = "st"

\* The inputs.
AtA == outcome = "running" /\ clean /\ pc <= FenceA
InvA ==
  /\ reply = None /\ Resting /\ AllCPU /\ queue["out"] = <<>>
  /\ Tailing(queue["cfg"], 1, HiCfg, run)
  /\ Tailing(queue["wgt"], WgtAt, HiWgt, run) /\ Tailing(queue["act"], ActAt, HiAct, run)
  /\ \A c \in Cells : WgtAt + c < Due(queue["wgt"], HiWgt) => buf["wgt"][c] = run
  /\ \A c \in Cells : ActAt + c < Due(queue["act"], HiAct) => buf["act"][c] = run

\* The configuration, and the ports to the unit.
AtB == outcome = "running" /\ clean /\ pc > FenceA /\ pc <= FenceB
InvB ==
  /\ reply = None /\ Resting /\ Inputs /\ Emptied(Buffers)
  /\ Tailing(queue["cfg"], FenceA + 1, pc - 1, run)
  /\ \A f \in Fields : FenceA + 1 + f < Due(queue["cfg"], pc - 1) => regs[f] = run
  /\ FenceB - 3 < Due(queue["cfg"], pc - 1) => sel["wgt"] = MXURd
  /\ FenceB - 2 < Due(queue["cfg"], pc - 1) => sel["act"] = MXURd
  /\ FenceB - 1 < Due(queue["cfg"], pc - 1) => sel["out"] = MXUWr

\* What the start finds.
Ready ==
  /\ Inputs /\ \A f \in Fields : regs[f] = run
  /\ sel["wgt"] = MXURd /\ sel["act"] = MXURd /\ sel["out"] = MXUWr

\* How far the job is.
Progress ==
  /\ eng.st = "load" => \A d \in Cells : d < eng.c => eng.w[d] = run
  /\ eng.st # "load" => \A d \in Cells : eng.w[d] = run
  /\ outPort # None => outPort[2] = Golden
  /\ eng.st = "send" => \A d \in Cells : d < eng.c => buf["out"][d] = Golden \/ outPort = <<d, Golden>>
  /\ eng.st = "drain" => \A d \in Cells : buf["out"][d] = Golden \/ outPort = <<d, Golden>>
  /\ eng.st \in {"done", "idle"} => Results

\* The start and the wait; START is pending until the window has served it.
Pending == queue["cfg"] # <<>> /\ Head(queue["cfg"]) = Acc(StartAt)

AtC == outcome = "running" /\ pc >= StartAt /\ pc <= CheckAt
AtStart == reply = None /\ queue["cfg"] = <<>> /\ (clean => Resting)
AtPoll ==
  /\ \/ queue["cfg"] = <<Acc(StartAt), Acc(PollAt)>> /\ reply = Asked
     \/ queue["cfg"] = <<Acc(StartAt)>> /\ reply = None
     \/ queue["cfg"] = <<Acc(PollAt)>> /\ reply = Asked
     \/ queue["cfg"] = <<>> /\ reply # Asked
  /\ Pending /\ clean => Resting
  /\ ~Pending => (clean => Progress) /\ (eng.st = "idle" => done)
  /\ Answered /\ ~reply[1].busy => eng.st = "idle"
AtCheck ==
  /\ \/ queue["cfg"] = <<Acc(CheckAt)>> /\ reply = Asked
     \/ queue["cfg"] = <<>> /\ reply # Asked
  /\ eng.st = "idle" /\ done /\ (clean => Results)
  /\ Answered => reply[1].done
InvC ==
  /\ Emptied(Buffers) /\ (clean => Ready)
  /\ pc = StartAt => AtStart
  /\ pc = PollAt  => AtPoll
  /\ pc = CheckAt => AtCheck

\* The ports back to the CPU.
AtD == outcome = "running" /\ pc > CheckAt /\ pc <= FenceD
InvD ==
  /\ reply = None /\ Resting /\ (clean => Results) /\ Emptied(Buffers)
  /\ Tailing(queue["cfg"], CheckAt + 1, pc - 1, run)
  /\ CheckAt + 1 < Due(queue["cfg"], pc - 1) => sel["wgt"] = CPU
  /\ CheckAt + 2 < Due(queue["cfg"], pc - 1) => sel["act"] = CPU
  /\ CheckAt + 3 < Due(queue["cfg"], pc - 1) => sel["out"] = CPU

\* The comparison, and what the next run finds after it.
AtE == outcome \in {"pass", "fail"} \/ (outcome = "running" /\ pc > FenceD)
InvE ==
  /\ Resting /\ AllCPU /\ Emptied(Windows \ {"out"})
  /\ outcome = "running" /\ clean => Results
  /\ outcome # "running" => reply = None
  /\ \/ queue["out"] = <<>> /\ reply # Asked
     \/ queue["out"] = <<Acc(pc)>> /\ reply = Asked
  /\ Answered /\ clean => reply[1] = Golden

HostInv ==
  /\ HostType /\ OwnProduct
  /\ (AtU => InvU) /\ (AtA => InvA) /\ (AtB => InvB)
  /\ (AtC => InvC) /\ (AtD => InvD) /\ (AtE => InvE)

----------------------------------------------------------------------------
(* The program, instruction by instruction.                                *)

Instructions ==
  {Reg("IRQ_STAT", 1), Reg("CTRL", "CLR_DONE"), Reg("CTRL", "START"), Fence,
   Reg("wgt", CPU), Reg("act", CPU), Reg("out", CPU), Reg("wgt", MXURd), Reg("act", MXURd), Reg("out", MXUWr),
   Ins("poll", "cfg", "STATUS", 0), Ins("check", "cfg", "STATUS", 0)}
  \union {Ins("st", "wgt", i - 1, 0) : i \in 1 .. NCells}
  \union {Ins("st", "act", i - 1, 0) : i \in 1 .. NCells}
  \union {Ins("ld", "out", i - 1, 0) : i \in 1 .. NCells}
  \union {Reg("CFG_WRITE", i - 1) : i \in 1 .. NFields}

LEMMA ConcatIs ==
  ASSUME NEW S, NEW a \in Seq(S), NEW b \in Seq(S)
  PROVE  /\ a \o b \in Seq(S) /\ Len(a \o b) = Len(a) + Len(b)
         /\ \A i \in 1 .. Len(a) : (a \o b)[i] = a[i]
         /\ \A i \in 1 .. Len(b) : (a \o b)[Len(a) + i] = b[i]
OBVIOUS

LEMMA TableIs ==
  ASSUME NEW S, NEW n \in Nat, NEW f \in [1 .. n -> S]
  PROVE  f \in Seq(S) /\ Len(f) = n
OBVIOUS

LEMMA PartsAre ==
  /\ DriverInit \in Seq(Instructions) /\ Len(DriverInit) = 2
  /\ PortsToCPU \in Seq(Instructions) /\ Len(PortsToCPU) = 3
  /\ EachCell("st", "wgt") \in Seq(Instructions) /\ Len(EachCell("st", "wgt")) = NCells
  /\ EachCell("st", "act") \in Seq(Instructions) /\ Len(EachCell("st", "act")) = NCells
  /\ ReadOutputs \in Seq(Instructions) /\ Len(ReadOutputs) = NCells
  /\ WriteCfg \in Seq(Instructions) /\ Len(WriteCfg) = NFields
  /\ PortsToMXU \in Seq(Instructions) /\ Len(PortsToMXU) = 3
  /\ Start \in Seq(Instructions) /\ Len(Start) = 1
  /\ WaitDone \in Seq(Instructions) /\ Len(WaitDone) = 2
  /\ <<Fence>> \in Seq(Instructions) /\ Len(<<Fence>>) = 1
<1>1. DriverInit \in Seq(Instructions) /\ Len(DriverInit) = 2
  BY DEF DriverInit, Instructions
<1>2. PortsToCPU \in Seq(Instructions) /\ Len(PortsToCPU) = 3
  BY DEF PortsToCPU, Instructions
<1>3. /\ EachCell("st", "wgt") \in Seq(Instructions) /\ Len(EachCell("st", "wgt")) = NCells
      /\ EachCell("st", "act") \in Seq(Instructions) /\ Len(EachCell("st", "act")) = NCells
      /\ ReadOutputs \in Seq(Instructions) /\ Len(ReadOutputs) = NCells
  <2>1. NCells \in Nat BY HostAssumption
  <2>2. EachCell("st", "wgt") \in [1 .. NCells -> Instructions] BY DEF EachCell, Instructions
  <2>3. EachCell("st", "act") \in [1 .. NCells -> Instructions] BY DEF EachCell, Instructions
  <2>4. EachCell("ld", "out") \in [1 .. NCells -> Instructions] BY DEF EachCell, Instructions
  <2>5. QED BY <2>1, <2>2, <2>3, <2>4, TableIs DEF ReadOutputs
<1>4. WriteCfg \in Seq(Instructions) /\ Len(WriteCfg) = NFields
  <2>1. NFields \in Nat BY HostAssumption
  <2>2. WriteCfg \in [1 .. NFields -> Instructions] BY DEF WriteCfg, Instructions
  <2>3. QED BY <2>1, <2>2, TableIs
<1>5. PortsToMXU \in Seq(Instructions) /\ Len(PortsToMXU) = 3
  BY DEF PortsToMXU, Instructions
<1>6. /\ Start \in Seq(Instructions) /\ Len(Start) = 1
      /\ WaitDone \in Seq(Instructions) /\ Len(WaitDone) = 2
      /\ <<Fence>> \in Seq(Instructions) /\ Len(<<Fence>>) = 1
  BY DEF Start, WaitDone, Instructions
<1>7. QED BY <1>1, <1>2, <1>3, <1>4, <1>5, <1>6

\* The flow instruction by instruction.
LEMMA ProgramShape ==
  /\ Program \in Seq(Instructions) /\ Len(Program) = Last
  /\ Program[1] = Reg("IRQ_STAT", 1) /\ Program[2] = Reg("CTRL", "CLR_DONE")
  /\ Program[3] = Reg("wgt", CPU) /\ Program[4] = Reg("act", CPU) /\ Program[5] = Reg("out", CPU)
  /\ \A c \in Cells : Program[WgtAt + c] = Ins("st", "wgt", c, 0)
  /\ \A c \in Cells : Program[ActAt + c] = Ins("st", "act", c, 0)
  /\ Program[FenceA] = Fence
  /\ \A f \in Fields : Program[FenceA + 1 + f] = Reg("CFG_WRITE", f)
  /\ Program[FenceB - 3] = Reg("wgt", MXURd) /\ Program[FenceB - 2] = Reg("act", MXURd)
  /\ Program[FenceB - 1] = Reg("out", MXUWr) /\ Program[FenceB] = Fence
  /\ Program[StartAt] = Reg("CTRL", "START")
  /\ Program[PollAt] = Ins("poll", "cfg", "STATUS", 0) /\ Program[CheckAt] = Ins("check", "cfg", "STATUS", 0)
  /\ Program[CheckAt + 1] = Reg("wgt", CPU) /\ Program[CheckAt + 2] = Reg("act", CPU)
  /\ Program[CheckAt + 3] = Reg("out", CPU) /\ Program[FenceD] = Fence
  /\ \A c \in Cells : Program[FenceD + 1 + c] = Ins("ld", "out", c, 0)
<1> DEFINE P1 == DriverInit
           P2 == P1 \o PortsToCPU
           P3 == P2 \o WriteInputs
           P4 == P3 \o <<Fence>>
           P5 == P4 \o WriteCfg
           P6 == P5 \o PortsToMXU
           P7 == P6 \o <<Fence>>
           P8 == P7 \o Start
           P9 == P8 \o WaitDone
           P10 == P9 \o PortsToCPU
           P11 == P10 \o <<Fence>>
<1>n. NCells \in Nat \ {0} /\ NFields \in Nat \ {0} BY HostAssumption
<1>w. /\ WriteInputs \in Seq(Instructions) /\ Len(WriteInputs) = NCells + NCells
      /\ \A i \in 1 .. NCells : WriteInputs[i] = EachCell("st", "wgt")[i]
      /\ \A i \in 1 .. NCells : WriteInputs[NCells + i] = EachCell("st", "act")[i]
  <2>1. PICK a \in Seq(Instructions), b \in Seq(Instructions) :
          a = EachCell("st", "wgt") /\ b = EachCell("st", "act") /\ Len(a) = NCells /\ Len(b) = NCells
    BY PartsAre
  <2>2. WriteInputs = a \o b BY <2>1 DEF WriteInputs
  <2>3. /\ a \o b \in Seq(Instructions) /\ Len(a \o b) = Len(a) + Len(b)
        /\ \A i \in 1 .. Len(a) : (a \o b)[i] = a[i]
        /\ \A i \in 1 .. Len(b) : (a \o b)[Len(a) + i] = b[i]
    BY ConcatIs
  <2>4. QED BY <2>1, <2>2, <2>3
<1>1. P1 \in Seq(Instructions) /\ Len(P1) = 2 BY PartsAre
<1>2. /\ P2 \in Seq(Instructions) /\ Len(P2) = WgtAt - 1
      /\ \A i \in 1 .. Len(P1) : P2[i] = P1[i]
      /\ \A i \in 1 .. Len(PortsToCPU) : P2[Len(P1) + i] = PortsToCPU[i]
  <2>1. P2 = P1 \o PortsToCPU OBVIOUS
  <2> HIDE DEF P1, P2
  <2>2. P1 \in Seq(Instructions) /\ PortsToCPU \in Seq(Instructions) BY <1>1, PartsAre, <1>w
  <2>3. /\ P2 \in Seq(Instructions) /\ Len(P2) = Len(P1) + Len(PortsToCPU)
        /\ \A i \in 1 .. Len(P1) : P2[i] = P1[i]
        /\ \A i \in 1 .. Len(PortsToCPU) : P2[Len(P1) + i] = PortsToCPU[i]
    BY <2>1, <2>2, ConcatIs
  <2>4. Len(P2) = WgtAt - 1
    <3>1. Len(P1) = 2 BY <1>1
    <3>2. Len(PortsToCPU) = 3 BY PartsAre, <1>w
    <3>3. QED BY <2>3, <3>1, <3>2, <1>n DEF WgtAt
  <2>5. QED BY <2>3, <2>4
<1>3. /\ P3 \in Seq(Instructions) /\ Len(P3) = FenceA - 1
      /\ \A i \in 1 .. Len(P2) : P3[i] = P2[i]
      /\ \A i \in 1 .. Len(WriteInputs) : P3[Len(P2) + i] = WriteInputs[i]
  <2>1. P3 = P2 \o WriteInputs OBVIOUS
  <2> HIDE DEF P1, P2, P3
  <2>2. P2 \in Seq(Instructions) /\ WriteInputs \in Seq(Instructions) BY <1>2, PartsAre, <1>w
  <2>3. /\ P3 \in Seq(Instructions) /\ Len(P3) = Len(P2) + Len(WriteInputs)
        /\ \A i \in 1 .. Len(P2) : P3[i] = P2[i]
        /\ \A i \in 1 .. Len(WriteInputs) : P3[Len(P2) + i] = WriteInputs[i]
    BY <2>1, <2>2, ConcatIs
  <2>4. Len(P3) = FenceA - 1
    <3>1. Len(P2) = WgtAt - 1 BY <1>2
    <3>2. Len(WriteInputs) = NCells + NCells BY PartsAre, <1>w
    <3>3. QED BY <2>3, <3>1, <3>2, <1>n DEF WgtAt, ActAt, FenceA
  <2>5. QED BY <2>3, <2>4
<1>4. /\ P4 \in Seq(Instructions) /\ Len(P4) = FenceA
      /\ \A i \in 1 .. Len(P3) : P4[i] = P3[i]
      /\ \A i \in 1 .. Len(<<Fence>>) : P4[Len(P3) + i] = <<Fence>>[i]
  <2>1. P4 = P3 \o <<Fence>> OBVIOUS
  <2> HIDE DEF P1, P2, P3, P4
  <2>2. P3 \in Seq(Instructions) /\ <<Fence>> \in Seq(Instructions) BY <1>3, PartsAre, <1>w
  <2>3. /\ P4 \in Seq(Instructions) /\ Len(P4) = Len(P3) + Len(<<Fence>>)
        /\ \A i \in 1 .. Len(P3) : P4[i] = P3[i]
        /\ \A i \in 1 .. Len(<<Fence>>) : P4[Len(P3) + i] = <<Fence>>[i]
    BY <2>1, <2>2, ConcatIs
  <2>4. Len(P4) = FenceA
    <3>1. Len(P3) = FenceA - 1 BY <1>3
    <3>2. Len(<<Fence>>) = 1 BY PartsAre, <1>w
    <3>3. QED BY <2>3, <3>1, <3>2, <1>n DEF WgtAt, ActAt, FenceA
  <2>5. QED BY <2>3, <2>4
<1>5. /\ P5 \in Seq(Instructions) /\ Len(P5) = FenceA + NFields
      /\ \A i \in 1 .. Len(P4) : P5[i] = P4[i]
      /\ \A i \in 1 .. Len(WriteCfg) : P5[Len(P4) + i] = WriteCfg[i]
  <2>1. P5 = P4 \o WriteCfg OBVIOUS
  <2> HIDE DEF P1, P2, P3, P4, P5
  <2>2. P4 \in Seq(Instructions) /\ WriteCfg \in Seq(Instructions) BY <1>4, PartsAre, <1>w
  <2>3. /\ P5 \in Seq(Instructions) /\ Len(P5) = Len(P4) + Len(WriteCfg)
        /\ \A i \in 1 .. Len(P4) : P5[i] = P4[i]
        /\ \A i \in 1 .. Len(WriteCfg) : P5[Len(P4) + i] = WriteCfg[i]
    BY <2>1, <2>2, ConcatIs
  <2>4. Len(P5) = FenceA + NFields
    <3>1. Len(P4) = FenceA BY <1>4
    <3>2. Len(WriteCfg) = NFields BY PartsAre, <1>w
    <3>3. QED BY <2>3, <3>1, <3>2, <1>n DEF WgtAt, ActAt, FenceA
  <2>5. QED BY <2>3, <2>4
<1>6. /\ P6 \in Seq(Instructions) /\ Len(P6) = FenceB - 1
      /\ \A i \in 1 .. Len(P5) : P6[i] = P5[i]
      /\ \A i \in 1 .. Len(PortsToMXU) : P6[Len(P5) + i] = PortsToMXU[i]
  <2>1. P6 = P5 \o PortsToMXU OBVIOUS
  <2> HIDE DEF P1, P2, P3, P4, P5, P6
  <2>2. P5 \in Seq(Instructions) /\ PortsToMXU \in Seq(Instructions) BY <1>5, PartsAre, <1>w
  <2>3. /\ P6 \in Seq(Instructions) /\ Len(P6) = Len(P5) + Len(PortsToMXU)
        /\ \A i \in 1 .. Len(P5) : P6[i] = P5[i]
        /\ \A i \in 1 .. Len(PortsToMXU) : P6[Len(P5) + i] = PortsToMXU[i]
    BY <2>1, <2>2, ConcatIs
  <2>4. Len(P6) = FenceB - 1
    <3>1. Len(P5) = FenceA + NFields BY <1>5
    <3>2. Len(PortsToMXU) = 3 BY PartsAre, <1>w
    <3>3. QED BY <2>3, <3>1, <3>2, <1>n DEF WgtAt, ActAt, FenceA, FenceB
  <2>5. QED BY <2>3, <2>4
<1>7. /\ P7 \in Seq(Instructions) /\ Len(P7) = FenceB
      /\ \A i \in 1 .. Len(P6) : P7[i] = P6[i]
      /\ \A i \in 1 .. Len(<<Fence>>) : P7[Len(P6) + i] = <<Fence>>[i]
  <2>1. P7 = P6 \o <<Fence>> OBVIOUS
  <2> HIDE DEF P1, P2, P3, P4, P5, P6, P7
  <2>2. P6 \in Seq(Instructions) /\ <<Fence>> \in Seq(Instructions) BY <1>6, PartsAre, <1>w
  <2>3. /\ P7 \in Seq(Instructions) /\ Len(P7) = Len(P6) + Len(<<Fence>>)
        /\ \A i \in 1 .. Len(P6) : P7[i] = P6[i]
        /\ \A i \in 1 .. Len(<<Fence>>) : P7[Len(P6) + i] = <<Fence>>[i]
    BY <2>1, <2>2, ConcatIs
  <2>4. Len(P7) = FenceB
    <3>1. Len(P6) = FenceB - 1 BY <1>6
    <3>2. Len(<<Fence>>) = 1 BY PartsAre, <1>w
    <3>3. QED BY <2>3, <3>1, <3>2, <1>n DEF WgtAt, ActAt, FenceA, FenceB
  <2>5. QED BY <2>3, <2>4
<1>8. /\ P8 \in Seq(Instructions) /\ Len(P8) = StartAt
      /\ \A i \in 1 .. Len(P7) : P8[i] = P7[i]
      /\ \A i \in 1 .. Len(Start) : P8[Len(P7) + i] = Start[i]
  <2>1. P8 = P7 \o Start OBVIOUS
  <2> HIDE DEF P1, P2, P3, P4, P5, P6, P7, P8
  <2>2. P7 \in Seq(Instructions) /\ Start \in Seq(Instructions) BY <1>7, PartsAre, <1>w
  <2>3. /\ P8 \in Seq(Instructions) /\ Len(P8) = Len(P7) + Len(Start)
        /\ \A i \in 1 .. Len(P7) : P8[i] = P7[i]
        /\ \A i \in 1 .. Len(Start) : P8[Len(P7) + i] = Start[i]
    BY <2>1, <2>2, ConcatIs
  <2>4. Len(P8) = StartAt
    <3>1. Len(P7) = FenceB BY <1>7
    <3>2. Len(Start) = 1 BY PartsAre, <1>w
    <3>3. QED BY <2>3, <3>1, <3>2, <1>n DEF WgtAt, ActAt, FenceA, FenceB, StartAt
  <2>5. QED BY <2>3, <2>4
<1>9. /\ P9 \in Seq(Instructions) /\ Len(P9) = CheckAt
      /\ \A i \in 1 .. Len(P8) : P9[i] = P8[i]
      /\ \A i \in 1 .. Len(WaitDone) : P9[Len(P8) + i] = WaitDone[i]
  <2>1. P9 = P8 \o WaitDone OBVIOUS
  <2> HIDE DEF P1, P2, P3, P4, P5, P6, P7, P8, P9
  <2>2. P8 \in Seq(Instructions) /\ WaitDone \in Seq(Instructions) BY <1>8, PartsAre, <1>w
  <2>3. /\ P9 \in Seq(Instructions) /\ Len(P9) = Len(P8) + Len(WaitDone)
        /\ \A i \in 1 .. Len(P8) : P9[i] = P8[i]
        /\ \A i \in 1 .. Len(WaitDone) : P9[Len(P8) + i] = WaitDone[i]
    BY <2>1, <2>2, ConcatIs
  <2>4. Len(P9) = CheckAt
    <3>1. Len(P8) = StartAt BY <1>8
    <3>2. Len(WaitDone) = 2 BY PartsAre, <1>w
    <3>3. QED BY <2>3, <3>1, <3>2, <1>n DEF WgtAt, ActAt, FenceA, FenceB, StartAt, PollAt, CheckAt
  <2>5. QED BY <2>3, <2>4
<1>10. /\ P10 \in Seq(Instructions) /\ Len(P10) = FenceD - 1
       /\ \A i \in 1 .. Len(P9) : P10[i] = P9[i]
       /\ \A i \in 1 .. Len(PortsToCPU) : P10[Len(P9) + i] = PortsToCPU[i]
  <2>1. P10 = P9 \o PortsToCPU OBVIOUS
  <2> HIDE DEF P1, P2, P3, P4, P5, P6, P7, P8, P9, P10
  <2>2. P9 \in Seq(Instructions) /\ PortsToCPU \in Seq(Instructions) BY <1>9, PartsAre, <1>w
  <2>3. /\ P10 \in Seq(Instructions) /\ Len(P10) = Len(P9) + Len(PortsToCPU)
        /\ \A i \in 1 .. Len(P9) : P10[i] = P9[i]
        /\ \A i \in 1 .. Len(PortsToCPU) : P10[Len(P9) + i] = PortsToCPU[i]
    BY <2>1, <2>2, ConcatIs
  <2>4. Len(P10) = FenceD - 1
    <3>1. Len(P9) = CheckAt BY <1>9
    <3>2. Len(PortsToCPU) = 3 BY PartsAre, <1>w
    <3>3. QED BY <2>3, <3>1, <3>2, <1>n DEF WgtAt, ActAt, FenceA, FenceB, StartAt, PollAt, CheckAt, FenceD, Last
  <2>5. QED BY <2>3, <2>4
<1>11. /\ P11 \in Seq(Instructions) /\ Len(P11) = FenceD
       /\ \A i \in 1 .. Len(P10) : P11[i] = P10[i]
       /\ \A i \in 1 .. Len(<<Fence>>) : P11[Len(P10) + i] = <<Fence>>[i]
  <2>1. P11 = P10 \o <<Fence>> OBVIOUS
  <2> HIDE DEF P1, P2, P3, P4, P5, P6, P7, P8, P9, P10, P11
  <2>2. P10 \in Seq(Instructions) /\ <<Fence>> \in Seq(Instructions) BY <1>10, PartsAre, <1>w
  <2>3. /\ P11 \in Seq(Instructions) /\ Len(P11) = Len(P10) + Len(<<Fence>>)
        /\ \A i \in 1 .. Len(P10) : P11[i] = P10[i]
        /\ \A i \in 1 .. Len(<<Fence>>) : P11[Len(P10) + i] = <<Fence>>[i]
    BY <2>1, <2>2, ConcatIs
  <2>4. Len(P11) = FenceD
    <3>1. Len(P10) = FenceD - 1 BY <1>10
    <3>2. Len(<<Fence>>) = 1 BY PartsAre, <1>w
    <3>3. QED BY <2>3, <3>1, <3>2, <1>n DEF WgtAt, ActAt, FenceA, FenceB, StartAt, PollAt, CheckAt, FenceD, Last
  <2>5. QED BY <2>3, <2>4
<1>12. /\ Program \in Seq(Instructions) /\ Len(Program) = Last
       /\ \A i \in 1 .. Len(P11) : Program[i] = P11[i]
       /\ \A i \in 1 .. Len(ReadOutputs) : Program[Len(P11) + i] = ReadOutputs[i]
  <2>1. Program = P11 \o ReadOutputs BY DEF Program
  <2> HIDE DEF P1, P2, P3, P4, P5, P6, P7, P8, P9, P10, P11
  <2>2. P11 \in Seq(Instructions) /\ ReadOutputs \in Seq(Instructions) BY <1>11, PartsAre, <1>w
  <2>3. /\ Program \in Seq(Instructions) /\ Len(Program) = Len(P11) + Len(ReadOutputs)
        /\ \A i \in 1 .. Len(P11) : Program[i] = P11[i]
        /\ \A i \in 1 .. Len(ReadOutputs) : Program[Len(P11) + i] = ReadOutputs[i]
    BY <2>1, <2>2, ConcatIs
  <2>4. Len(Program) = Last
    <3>1. Len(P11) = FenceD BY <1>11
    <3>2. Len(ReadOutputs) = NCells BY PartsAre, <1>w
    <3>3. QED BY <2>3, <3>1, <3>2, <1>n DEF WgtAt, ActAt, FenceA, FenceB, StartAt, PollAt, CheckAt, FenceD, Last
  <2>5. QED BY <2>3, <2>4
<1> HIDE DEF P1, P2, P3, P4, P5, P6, P7, P8, P9, P10, P11
<1>s. /\ \A i \in 1 .. 2 : Program[i] = P1[i]
      /\ \A i \in 1 .. WgtAt - 1 : Program[i] = P2[i]
      /\ \A i \in 1 .. FenceA - 1 : Program[i] = P3[i]
      /\ \A i \in 1 .. FenceA : Program[i] = P4[i]
      /\ \A i \in 1 .. FenceA + NFields : Program[i] = P5[i]
      /\ \A i \in 1 .. FenceB - 1 : Program[i] = P6[i]
      /\ \A i \in 1 .. FenceB : Program[i] = P7[i]
      /\ \A i \in 1 .. StartAt : Program[i] = P8[i]
      /\ \A i \in 1 .. CheckAt : Program[i] = P9[i]
      /\ \A i \in 1 .. FenceD - 1 : Program[i] = P10[i]
      /\ \A i \in 1 .. FenceD : Program[i] = P11[i]
  <2>11. \A i \in 1 .. FenceD : Program[i] = P11[i] BY <1>12, <1>11
  <2>10. \A i \in 1 .. FenceD - 1 : Program[i] = P10[i]
    <3>1. FenceD \in Nat BY <1>n DEF WgtAt, ActAt, FenceA, FenceB, StartAt, PollAt, CheckAt, FenceD
    <3>2. QED BY <2>11, <1>10, <1>11, <3>1
  <2>9. \A i \in 1 .. CheckAt : Program[i] = P9[i]
    BY <2>10, <1>9, <1>10, <1>n, SMTT(40) DEF WgtAt, ActAt, FenceA, FenceB, StartAt, PollAt, CheckAt, FenceD, Last
  <2>8. \A i \in 1 .. StartAt : Program[i] = P8[i]
    BY <2>9, <1>8, <1>9, <1>n, SMTT(40) DEF WgtAt, ActAt, FenceA, FenceB, StartAt, PollAt, CheckAt
  <2>7. \A i \in 1 .. FenceB : Program[i] = P7[i]
    BY <2>8, <1>7, <1>8, <1>n DEF WgtAt, ActAt, FenceA, FenceB, StartAt
  <2>6. \A i \in 1 .. FenceB - 1 : Program[i] = P6[i]
    BY <2>7, <1>6, <1>7, <1>n DEF WgtAt, ActAt, FenceA, FenceB
  <2>5. \A i \in 1 .. FenceA + NFields : Program[i] = P5[i]
    BY <2>6, <1>5, <1>6, <1>n DEF WgtAt, ActAt, FenceA, FenceB
  <2>4. \A i \in 1 .. FenceA : Program[i] = P4[i]
    BY <2>5, <1>4, <1>5, <1>n DEF WgtAt, ActAt, FenceA
  <2>3. \A i \in 1 .. FenceA - 1 : Program[i] = P3[i]
    BY <2>4, <1>3, <1>4, <1>n DEF WgtAt, ActAt, FenceA
  <2>2. \A i \in 1 .. WgtAt - 1 : Program[i] = P2[i]
    BY <2>3, <1>2, <1>3, <1>n, SMTT(40) DEF WgtAt, ActAt, FenceA
  <2>1. \A i \in 1 .. 2 : Program[i] = P1[i]
    BY <2>2, <1>1, <1>2, <1>n DEF WgtAt
  <2> QED BY <2>1, <2>2, <2>3, <2>4, <2>5, <2>6, <2>7, <2>8, <2>9, <2>10, <2>11
<1>13. Program \in Seq(Instructions) /\ Len(Program) = Last BY <1>12
<1>14. Program[1] = Reg("IRQ_STAT", 1) /\ Program[2] = Reg("CTRL", "CLR_DONE")
  BY <1>s DEF P1, DriverInit
<1>15. Program[3] = Reg("wgt", CPU) /\ Program[4] = Reg("act", CPU) /\ Program[5] = Reg("out", CPU)
  <2>1. \A i \in 1 .. 3 : P2[2 + i] = PortsToCPU[i] BY <1>1, <1>2, PartsAre
  <2>2. Program[3] = PortsToCPU[1] /\ Program[4] = PortsToCPU[2] /\ Program[5] = PortsToCPU[3]
    BY <1>s, <2>1 DEF WgtAt
  <2>3. QED BY <2>2 DEF PortsToCPU
<1>16. /\ \A c \in Cells : Program[WgtAt + c] = Ins("st", "wgt", c, 0)
       /\ \A c \in Cells : Program[ActAt + c] = Ins("st", "act", c, 0)
  <2>1. \A i \in 1 .. NCells + NCells : P3[5 + i] = WriteInputs[i] BY <1>2, <1>3, <1>w DEF WgtAt
  <2>2. \A i \in 1 .. NCells + NCells : Program[5 + i] = WriteInputs[i]
    BY <1>s, <2>1, <1>n DEF WgtAt, ActAt, FenceA
  <2>3. SUFFICES ASSUME NEW c \in Cells
                 PROVE  /\ Program[WgtAt + c] = Ins("st", "wgt", c, 0)
                        /\ Program[ActAt + c] = Ins("st", "act", c, 0)
    OBVIOUS
  <2>4. c + 1 \in 1 .. NCells /\ c \in Nat BY <1>n DEF Cells
  <2>5. Program[WgtAt + c] = EachCell("st", "wgt")[c + 1]
    <3>1. WriteInputs[c + 1] = EachCell("st", "wgt")[c + 1] BY <2>4, <1>w
    <3>2. 5 + (c + 1) = WgtAt + c /\ c + 1 \in 1 .. NCells + NCells BY <2>4, <1>n DEF WgtAt
    <3>3. QED BY <2>2, <3>1, <3>2
  <2>6. Program[ActAt + c] = EachCell("st", "act")[c + 1]
    <3>1. WriteInputs[NCells + (c + 1)] = EachCell("st", "act")[c + 1] BY <2>4, <1>w
    <3>2. 5 + (NCells + (c + 1)) = ActAt + c /\ NCells + (c + 1) \in 1 .. NCells + NCells
      BY <2>4, <1>n DEF WgtAt, ActAt
    <3>3. QED BY <2>2, <3>1, <3>2
  <2>7. EachCell("st", "wgt")[c + 1] = Ins("st", "wgt", c, 0) /\ EachCell("st", "act")[c + 1] = Ins("st", "act", c, 0)
    BY <2>4 DEF EachCell
  <2>8. QED BY <2>5, <2>6, <2>7
<1>17. Program[FenceA] = Fence
  <2>1. P4[FenceA - 1 + 1] = <<Fence>>[1] BY <1>3, <1>4, PartsAre, SMTT(40)
  <2>2. QED BY <2>1, <1>s, <1>n DEF WgtAt, ActAt, FenceA
<1>18. \A f \in Fields : Program[FenceA + 1 + f] = Reg("CFG_WRITE", f)
  <2>1. \A i \in 1 .. NFields : P5[FenceA + i] = WriteCfg[i] BY <1>4, <1>5, PartsAre
  <2>2. \A i \in 1 .. NFields : Program[FenceA + i] = WriteCfg[i]
    BY <1>s, <2>1, <1>n DEF WgtAt, ActAt, FenceA
  <2>3. TAKE f \in Fields
  <2>4. f + 1 \in 1 .. NFields /\ f \in Nat /\ FenceA + (f + 1) = FenceA + 1 + f
    BY <1>n DEF Fields, WgtAt, ActAt, FenceA
  <2>5. WriteCfg[f + 1] = Reg("CFG_WRITE", f) BY <2>4 DEF WriteCfg
  <2>6. QED BY <2>2, <2>4, <2>5
<1>19. /\ Program[FenceB - 3] = Reg("wgt", MXURd) /\ Program[FenceB - 2] = Reg("act", MXURd)
       /\ Program[FenceB - 1] = Reg("out", MXUWr)
  <2>1. \A i \in 1 .. 3 : P6[FenceA + NFields + i] = PortsToMXU[i] BY <1>5, <1>6, PartsAre
  <2>2. \A i \in 1 .. 3 : Program[FenceA + NFields + i] = PortsToMXU[i]
    BY <1>s, <2>1, <1>n DEF WgtAt, ActAt, FenceA, FenceB
  <2>3. /\ FenceB - 3 = FenceA + NFields + 1 /\ FenceB - 2 = FenceA + NFields + 2
        /\ FenceB - 1 = FenceA + NFields + 3
    BY <1>n DEF WgtAt, ActAt, FenceA, FenceB
  <2>4. QED BY <2>2, <2>3 DEF PortsToMXU
<1>20. Program[FenceB] = Fence
  <2>1. P7[FenceB - 1 + 1] = <<Fence>>[1] BY <1>6, <1>7, PartsAre, SMTT(40)
  <2>2. QED BY <2>1, <1>s, <1>n DEF WgtAt, ActAt, FenceA, FenceB
<1>21. Program[StartAt] = Reg("CTRL", "START")
  <2>1. P8[FenceB + 1] = Start[1] BY <1>7, <1>8, PartsAre
  <2>2. QED BY <2>1, <1>s, <1>n DEF WgtAt, ActAt, FenceA, FenceB, StartAt, Start
<1>22. Program[PollAt] = Ins("poll", "cfg", "STATUS", 0) /\ Program[CheckAt] = Ins("check", "cfg", "STATUS", 0)
  <2>1. \A i \in 1 .. 2 : P9[StartAt + i] = WaitDone[i] BY <1>8, <1>9, PartsAre
  <2>2. \A i \in 1 .. 2 : Program[StartAt + i] = WaitDone[i]
    BY <1>s, <2>1, <1>n DEF WgtAt, ActAt, FenceA, FenceB, StartAt, PollAt, CheckAt
  <2>3. QED BY <2>2, <1>n DEF WaitDone, WgtAt, ActAt, FenceA, FenceB, StartAt, PollAt, CheckAt
<1>23. /\ Program[CheckAt + 1] = Reg("wgt", CPU) /\ Program[CheckAt + 2] = Reg("act", CPU)
       /\ Program[CheckAt + 3] = Reg("out", CPU)
  <2>1. \A i \in 1 .. 3 : P10[CheckAt + i] = PortsToCPU[i] BY <1>9, <1>10, PartsAre
  <2>2. \A i \in 1 .. 3 : Program[CheckAt + i] = PortsToCPU[i]
    BY <1>s, <2>1, <1>n DEF WgtAt, ActAt, FenceA, FenceB, StartAt, PollAt, CheckAt, FenceD
  <2>3. QED BY <2>2 DEF PortsToCPU
<1>24. Program[FenceD] = Fence
  <2>1. P11[FenceD - 1 + 1] = <<Fence>>[1] BY <1>10, <1>11, PartsAre, SMTT(40)
  <2>2. QED BY <2>1, <1>s, <1>n DEF WgtAt, ActAt, FenceA, FenceB, StartAt, PollAt, CheckAt, FenceD
<1>25. \A c \in Cells : Program[FenceD + 1 + c] = Ins("ld", "out", c, 0)
  <2>1. \A i \in 1 .. NCells : Program[FenceD + i] = ReadOutputs[i] BY <1>11, <1>12, PartsAre
  <2>2. TAKE c \in Cells
  <2>3. c + 1 \in 1 .. NCells /\ c \in Nat /\ FenceD + (c + 1) = FenceD + 1 + c
    BY <1>n DEF Cells, WgtAt, ActAt, FenceA, FenceB, StartAt, PollAt, CheckAt, FenceD
  <2>4. ReadOutputs[c + 1] = Ins("ld", "out", c, 0) BY <2>3 DEF ReadOutputs, EachCell
  <2>5. QED BY <2>1, <2>3, <2>4
<1> QED BY <1>13, <1>14, <1>15, <1>16, <1>17, <1>18, <1>19, <1>20, <1>21, <1>22, <1>23, <1>24, <1>25

LEMMA FieldIs ==
  ASSUME NEW a, NEW b, NEW c, NEW d
  PROVE  /\ Ins(a, b, c, d)[1] = a /\ Ins(a, b, c, d)[2] = b
         /\ Ins(a, b, c, d)[3] = c /\ Ins(a, b, c, d)[4] = d
BY DEF Ins

LEMMA FenceIs == Fence[1] = "fence" /\ Fence[2] = "cfg"
BY FieldIs DEF Fence

LEMMA AppendIs ==
  ASSUME NEW a, NEW b, NEW c, NEW d, NEW r
  PROVE  /\ Append(<<a, b, c, d>>, r)[1] = a /\ Append(<<a, b, c, d>>, r)[2] = b /\ Append(<<a, b, c, d>>, r)[3] = c
         /\ Append(<<a, b, c, d>>, r)[4] = d /\ Append(<<a, b, c, d>>, r)[5] = r
OBVIOUS

LEMMA Places ==
  /\ NCells \in Nat /\ NCells > 0 /\ NFields \in Nat /\ NFields > 0
  /\ WgtAt = 6 /\ ActAt = 6 + NCells /\ FenceA = ActAt + NCells /\ FenceB = FenceA + NFields + 4
  /\ StartAt = FenceB + 1 /\ PollAt = FenceB + 2 /\ CheckAt = FenceB + 3 /\ FenceD = CheckAt + 4
  /\ Last = FenceD + NCells
  /\ {WgtAt, ActAt, FenceA, FenceB, StartAt, PollAt, CheckAt, FenceD, Last} \subseteq Nat
BY HostAssumption DEF WgtAt, ActAt, FenceA, FenceB, StartAt, PollAt, CheckAt, FenceD, Last

\* The parts of the flow, by position.
LEMMA PartOf ==
  ASSUME NEW k \in 1 .. Last
  PROVE  \/ k = 1 \/ k = 2 \/ k = 3 \/ k = 4 \/ k = 5
         \/ \E c \in Cells : k = WgtAt + c
         \/ \E c \in Cells : k = ActAt + c
         \/ k = FenceA
         \/ \E f \in Fields : k = FenceA + 1 + f
         \/ k = FenceB - 3 \/ k = FenceB - 2 \/ k = FenceB - 1 \/ k = FenceB
         \/ k = StartAt \/ k = PollAt \/ k = CheckAt
         \/ k = CheckAt + 1 \/ k = CheckAt + 2 \/ k = CheckAt + 3 \/ k = FenceD
         \/ \E c \in Cells : k = FenceD + 1 + c
<1>1. CASE k >= WgtAt /\ k < ActAt
  <2>1. k - WgtAt \in Cells /\ k = WgtAt + (k - WgtAt) BY <1>1, Places DEF Cells
  <2>2. QED BY <2>1
<1>2. CASE k >= ActAt /\ k < FenceA
  <2>1. k - ActAt \in Cells /\ k = ActAt + (k - ActAt) BY <1>2, Places DEF Cells
  <2>2. QED BY <2>1
<1>3. CASE k > FenceA /\ k < FenceB - 3
  <2>1. k - (FenceA + 1) \in Fields /\ k = FenceA + 1 + (k - (FenceA + 1)) BY <1>3, Places DEF Fields
  <2>2. QED BY <2>1
<1>4. CASE k > FenceD
  <2>1. k - (FenceD + 1) \in Cells /\ k = FenceD + 1 + (k - (FenceD + 1)) BY <1>4, Places DEF Cells
  <2>2. QED BY <2>1
<1>5. QED BY <1>1, <1>2, <1>3, <1>4, Places

\* The kind and the window of an instruction.
LEMMA KindOf ==
  ASSUME NEW k \in 1 .. Last
  PROVE  /\ Program[k][1] = "fence" <=> (k = FenceA \/ k = FenceB \/ k = FenceD)
         /\ Program[k][1] = "poll" <=> k = PollAt
         /\ Program[k][1] = "check" <=> k = CheckAt
         /\ Program[k][1] = "ld" <=> k > FenceD
         /\ Program[k][1] = "st" <=> ~(k = FenceA \/ k = FenceB \/ k = FenceD \/ k = PollAt \/ k = CheckAt \/ k > FenceD)
         /\ Program[k][2] \in Windows
         /\ Program[k][2] = "wgt" <=> (k >= WgtAt /\ k < ActAt)
         /\ Program[k][2] = "act" <=> (k >= ActAt /\ k < FenceA)
         /\ Program[k][2] = "out" <=> k > FenceD
<1> DEFINE Goal == /\ Program[k][1] = "fence" <=> (k = FenceA \/ k = FenceB \/ k = FenceD)
                   /\ Program[k][1] = "poll" <=> k = PollAt
                   /\ Program[k][1] = "check" <=> k = CheckAt
                   /\ Program[k][1] = "ld" <=> k > FenceD
                   /\ Program[k][1] = "st" <=> ~(k = FenceA \/ k = FenceB \/ k = FenceD \/ k = PollAt \/ k = CheckAt \/ k > FenceD)
                   /\ Program[k][2] \in Windows
                   /\ Program[k][2] = "wgt" <=> (k >= WgtAt /\ k < ActAt)
                   /\ Program[k][2] = "act" <=> (k >= ActAt /\ k < FenceA)
                   /\ Program[k][2] = "out" <=> k > FenceD
<1>1. CASE k = 1 \/ k = 2 \/ k = 3 \/ k = 4 \/ k = 5
  <2>1. Program[k][1] = "st" /\ Program[k][2] = "cfg" BY <1>1, ProgramShape DEF Ins, Reg
  <2>2. QED BY <2>1, <1>1, Places DEF Windows, Buffers
<1>2. CASE \E c \in Cells : k = WgtAt + c
  <2>1. Program[k][1] = "st" /\ Program[k][2] = "wgt" BY <1>2, ProgramShape DEF Ins
  <2>2. QED BY <2>1, <1>2, Places DEF Windows, Buffers, Cells
<1>3. CASE \E c \in Cells : k = ActAt + c
  <2>1. Program[k][1] = "st" /\ Program[k][2] = "act" BY <1>3, ProgramShape DEF Ins
  <2>2. QED BY <2>1, <1>3, Places DEF Windows, Buffers, Cells
<1>4. CASE k = FenceA
  <2>1. Program[k][1] = "fence" /\ Program[k][2] = "cfg"
    <3>1. Program[k] = Fence BY <1>4, ProgramShape
    <3>2. QED BY <3>1, FenceIs
  <2>2. QED BY <2>1, <1>4, Places DEF Windows, Buffers
<1>5. CASE \E f \in Fields : k = FenceA + 1 + f
  <2>1. Program[k][1] = "st" /\ Program[k][2] = "cfg" BY <1>5, ProgramShape DEF Ins, Reg
  <2>2. QED BY <2>1, <1>5, Places DEF Windows, Buffers, Fields
<1>6. CASE k = FenceB - 3 \/ k = FenceB - 2 \/ k = FenceB - 1
  <2>1. Program[k][1] = "st" /\ Program[k][2] = "cfg" BY <1>6, ProgramShape DEF Ins, Reg
  <2>2. QED BY <2>1, <1>6, Places DEF Windows, Buffers
<1>7. CASE k = FenceB
  <2>1. Program[k][1] = "fence" /\ Program[k][2] = "cfg"
    <3>1. Program[k] = Fence BY <1>7, ProgramShape
    <3>2. QED BY <3>1, FenceIs
  <2>2. QED BY <2>1, <1>7, Places DEF Windows, Buffers
<1>8. CASE k = StartAt
  <2>1. Program[k][1] = "st" /\ Program[k][2] = "cfg" BY <1>8, ProgramShape DEF Ins, Reg
  <2>2. QED BY <2>1, <1>8, Places DEF Windows, Buffers
<1>9. CASE k = PollAt
  <2>1. Program[k][1] = "poll" /\ Program[k][2] = "cfg" BY <1>9, ProgramShape DEF Ins, Reg
  <2>2. QED BY <2>1, <1>9, Places DEF Windows, Buffers
<1>10. CASE k = CheckAt
  <2>1. Program[k][1] = "check" /\ Program[k][2] = "cfg" BY <1>10, ProgramShape DEF Ins, Reg
  <2>2. QED BY <2>1, <1>10, Places DEF Windows, Buffers
<1>11. CASE k = CheckAt + 1 \/ k = CheckAt + 2 \/ k = CheckAt + 3
  <2>1. Program[k][1] = "st" /\ Program[k][2] = "cfg" BY <1>11, ProgramShape DEF Ins, Reg
  <2>2. QED BY <2>1, <1>11, Places DEF Windows, Buffers
<1>12. CASE k = FenceD
  <2>1. Program[k][1] = "fence" /\ Program[k][2] = "cfg"
    <3>1. Program[k] = Fence BY <1>12, ProgramShape
    <3>2. QED BY <3>1, FenceIs
  <2>2. QED BY <2>1, <1>12, Places DEF Windows, Buffers
<1>13. CASE \E c \in Cells : k = FenceD + 1 + c
  <2>1. Program[k][1] = "ld" /\ Program[k][2] = "out" BY <1>13, ProgramShape DEF Ins
  <2>2. QED BY <2>1, <1>13, Places DEF Windows, Buffers, Cells
<1> QED BY PartOf, <1>1, <1>2, <1>3, <1>4, <1>5, <1>6, <1>7, <1>8, <1>9, <1>10, <1>11, <1>12, <1>13

\* An access is its instruction with the number of the run.
LEMMA FieldsOf ==
  ASSUME NEW k \in 1 .. Last, NEW r
  PROVE  /\ Append(Program[k], r)[1] = Program[k][1] /\ Append(Program[k], r)[2] = Program[k][2]
         /\ Append(Program[k], r)[3] = Program[k][3] /\ Append(Program[k], r)[4] = Program[k][4]
         /\ Append(Program[k], r)[5] = r
<1>1. PICK a, b, c, d : Program[k] = Ins(a, b, c, d)
  <2>1. Program[k] \in Instructions BY ProgramShape
  <2>2. QED BY <2>1 DEF Instructions, Reg, Fence
<1>2. Program[k][1] = a /\ Program[k][2] = b /\ Program[k][3] = c /\ Program[k][4] = d BY <1>1 DEF Ins
<1>3. Program[k] = <<a, b, c, d>> BY <1>1 DEF Ins
<1>4. PICK x : x = <<a, b, c, d>> OBVIOUS
<1>5. /\ Append(x, r)[1] = a /\ Append(x, r)[2] = b /\ Append(x, r)[3] = c
      /\ Append(x, r)[4] = d /\ Append(x, r)[5] = r
  BY <1>4, AppendIs
<1>6. Program[k] = x BY <1>3, <1>4
<1>7. QED BY <1>2, <1>5, <1>6

\* A window's accesses in order: the next one posted, the next one served.
LEMMA PostedIs ==
  ASSUME NEW S, NEW q \in Seq(S), NEW lo \in Int, NEW hi \in Int, NEW r,
         Tailing(q, lo, hi, r), Append(Program[hi + 1], r) \in S
  PROVE  LET p == Append(q, Append(Program[hi + 1], r))
         IN p \in Seq(S) /\ Tailing(p, lo, hi + 1, r) /\ Due(p, hi + 1) = Due(q, hi)
BY DEF Tailing, Due

LEMMA ServedIs ==
  ASSUME NEW S, NEW q \in Seq(S), NEW lo \in Int, NEW hi \in Int, NEW r,
         Tailing(q, lo, hi, r), q # <<>>
  PROVE  /\ Head(q) = Append(Program[Due(q, hi)], r) /\ Due(q, hi) \in lo .. hi
         /\ Tail(q) \in Seq(S) /\ Tailing(Tail(q), lo, hi, r) /\ Due(Tail(q), hi) = Due(q, hi) + 1
BY DEF Tailing, Due

LEMMA EmptyIs ==
  ASSUME NEW lo \in Int, NEW r
  PROVE  Tailing(<<>>, lo, lo - 1, r) /\ \A hi \in Int : Due(<<>>, hi) = hi + 1
BY DEF Tailing, Due

\* The register that a store of the flow to the configuration window writes.
StoreOf(k, r, v) == Program[k][1] = "st" /\ Program[k][3] = r /\ Program[k][4] = v

LEMMA StoresOf ==
  /\ StoreOf(1, "IRQ_STAT", 1)
  /\ StoreOf(2, "CTRL", "CLR_DONE")
  /\ StoreOf(3, "wgt", CPU)
  /\ StoreOf(4, "act", CPU)
  /\ StoreOf(5, "out", CPU)
  /\ StoreOf(FenceB - 3, "wgt", MXURd)
  /\ StoreOf(FenceB - 2, "act", MXURd)
  /\ StoreOf(FenceB - 1, "out", MXUWr)
  /\ StoreOf(StartAt, "CTRL", "START")
  /\ StoreOf(CheckAt + 1, "wgt", CPU)
  /\ StoreOf(CheckAt + 2, "act", CPU)
  /\ StoreOf(CheckAt + 3, "out", CPU)
  /\ \A f \in Fields : StoreOf(FenceA + 1 + f, "CFG_WRITE", f)
  /\ \A c \in Cells : StoreOf(WgtAt + c, c, 0) /\ StoreOf(ActAt + c, c, 0)
  /\ \A c \in Cells : Program[FenceD + 1 + c][3] = c
<1>1. \A r, v : Reg(r, v)[1] = "st" /\ Reg(r, v)[3] = r /\ Reg(r, v)[4] = v BY FieldIs DEF Reg
<1>2. \A c \in Cells : StoreOf(WgtAt + c, c, 0) /\ StoreOf(ActAt + c, c, 0)
  <2>1. TAKE c \in Cells
  <2>2. Program[WgtAt + c] = Ins("st", "wgt", c, 0) /\ Program[ActAt + c] = Ins("st", "act", c, 0) BY ProgramShape
  <2>3. QED BY <2>2, FieldIs DEF StoreOf
<1>3. \A c \in Cells : Program[FenceD + 1 + c][3] = c
  <2>1. TAKE c \in Cells
  <2>2. Program[FenceD + 1 + c] = Ins("ld", "out", c, 0) BY ProgramShape
  <2>3. QED BY <2>2, FieldIs
<1>4. \A f \in Fields : StoreOf(FenceA + 1 + f, "CFG_WRITE", f)
  <2>1. TAKE f \in Fields
  <2>2. Program[FenceA + 1 + f] = Reg("CFG_WRITE", f) BY ProgramShape
  <2>3. QED BY <2>2, <1>1 DEF StoreOf
<1>5. StoreOf(1, "IRQ_STAT", 1) BY ProgramShape, <1>1 DEF StoreOf
<1>6. StoreOf(2, "CTRL", "CLR_DONE") BY ProgramShape, <1>1 DEF StoreOf
<1>7. StoreOf(3, "wgt", CPU) BY ProgramShape, <1>1 DEF StoreOf
<1>8. StoreOf(4, "act", CPU) BY ProgramShape, <1>1 DEF StoreOf
<1>9. StoreOf(5, "out", CPU) BY ProgramShape, <1>1 DEF StoreOf
<1>10. StoreOf(FenceB - 3, "wgt", MXURd) BY ProgramShape, <1>1 DEF StoreOf
<1>11. StoreOf(FenceB - 2, "act", MXURd) BY ProgramShape, <1>1 DEF StoreOf
<1>12. StoreOf(FenceB - 1, "out", MXUWr) BY ProgramShape, <1>1 DEF StoreOf
<1>13. StoreOf(StartAt, "CTRL", "START") BY ProgramShape, <1>1 DEF StoreOf
<1>14. StoreOf(CheckAt + 1, "wgt", CPU) BY ProgramShape, <1>1 DEF StoreOf
<1>15. StoreOf(CheckAt + 2, "act", CPU) BY ProgramShape, <1>1 DEF StoreOf
<1>16. StoreOf(CheckAt + 3, "out", CPU) BY ProgramShape, <1>1 DEF StoreOf
<1> QED BY <1>2, <1>3, <1>4, <1>5, <1>6, <1>7, <1>8, <1>9, <1>10, <1>11, <1>12, <1>13, <1>14, <1>15, <1>16

LEMMA NoAccessIs ==
  /\ NoAccess[1] = "none"
  /\ \A m : ~Writes(NoAccess, m)
BY DEF NoAccess, Writes

----------------------------------------------------------------------------
(* The cycles of the unit.                                                 *)

\* A cycle, with the accesses that the windows serve in it.
CycleWith(D, go, acc) ==
  /\ \A w \in Windows : acc[w] = IF w \in D THEN Head(queue[w]) ELSE NoAccess
  /\ \A w \in D : queue[w] # <<>>
  /\ DOMAIN queue' = Windows
  /\ \A w \in Windows : queue'[w] = IF w \in D THEN Tail(queue[w]) ELSE queue[w]
  /\ Registers(acc["cfg"]) /\ Engine(acc["cfg"], go) /\ Banks(acc) /\ Answer(acc)
  /\ UNCHANGED <<pc, run, polls, outcome, clean>>

LEMMA CycleIs ==
  ASSUME NEW D \in SUBSET Windows, NEW go \in BOOLEAN, Cycle(D, go)
  PROVE  \E acc : CycleWith(D, go, acc)
<1> DEFINE acc == [w \in Windows |-> IF w \in D THEN Head(queue[w]) ELSE NoAccess]
<1>1. /\ Registers(acc["cfg"]) /\ Engine(acc["cfg"], go) /\ Banks(acc) /\ Answer(acc)
      /\ \A w \in D : queue[w] # <<>>
      /\ queue' = [w \in Windows |-> IF w \in D THEN Tail(queue[w]) ELSE queue[w]]
      /\ UNCHANGED <<pc, run, polls, outcome, clean>>
  BY DEF Cycle
<1>2. \A w \in Windows : acc[w] = IF w \in D THEN Head(queue[w]) ELSE NoAccess OBVIOUS
<1> HIDE DEF acc
<1>3. CycleWith(D, go, acc) BY <1>1, <1>2 DEF CycleWith
<1>4. QED BY <1>3

\* A window with queue q serves access a, or none, and keeps p.
Steps(q, a, p) == (a = NoAccess /\ p = q) \/ (q # <<>> /\ a = Head(q) /\ p = Tail(q))

LEMMA WindowSteps ==
  ASSUME HostType, NEW D \in SUBSET Windows, NEW go, NEW acc, CycleWith(D, go, acc), NEW w \in Windows
  PROVE  queue[w] \in Seq(Accesses(w)) /\ Steps(queue[w], acc[w], queue'[w])
BY DEF HostType, CycleWith, Steps

\* What it serves when it has the last of instructions lo .. hi.
LEMMA ServeIs ==
  ASSUME NEW S, NEW q \in Seq(S), NEW a, NEW p, Steps(q, a, p),
         NEW lo \in Int, NEW hi \in Int, NEW r, Tailing(q, lo, hi, r)
  PROVE  /\ Tailing(p, lo, hi, r)
         /\ \/ a = NoAccess /\ Due(p, hi) = Due(q, hi)
            \/ /\ a = Append(Program[Due(q, hi)], r) /\ Due(q, hi) \in lo .. hi
               /\ Due(p, hi) = Due(q, hi) + 1
<1>1. CASE a = NoAccess /\ p = q BY <1>1
<1>2. CASE q # <<>> /\ a = Head(q) /\ p = Tail(q) BY <1>2, ServedIs
<1>3. QED BY <1>1, <1>2 DEF Steps

LEMMA EmptyServes ==
  ASSUME HostType, NEW D \in SUBSET Windows, NEW go, NEW acc, CycleWith(D, go, acc),
         NEW w \in Windows, queue[w] = <<>>
  PROVE  acc[w] = NoAccess /\ queue'[w] = <<>>
BY DEF CycleWith

LEMMA EngineIs ==
  ASSUME HostType, NEW a, NEW go, Engine(a, go)
  PROVE  /\ DOMAIN eng' = {"st", "c", "w"} /\ eng'.c \in Cells
         /\ eng'.w = [c \in Cells |-> eng'.w[c]]
         /\ eng'.st \in {"idle", "load", "send", "drain", "done"}
         /\ outPort' # None => eng'.st \in {"send", "drain"}
         /\ eng.st = "idle" /\ ~StartPulse(a) => eng' = eng /\ outPort' = None
         /\ eng.st = "idle" /\ StartPulse(a) => eng'.st = "load" /\ eng'.c = 0 /\ outPort' = None
         /\ eng'.st = "idle" => eng.st \in {"idle", "done"}
<1>1. eng.c \in Cells /\ (eng.c + 1) % NCells \in Cells /\ 0 \in Cells
  <2>1. eng.c \in Cells BY DEF HostType
  <2>2. QED BY <2>1, Places DEF Cells
<1>2. CASE eng.st = "idle" BY <1>1, <1>2 DEF HostType, Engine
<1>3. CASE eng.st = "load" /\ go BY <1>1, <1>3 DEF HostType, Engine
<1>4. CASE eng.st = "send" /\ go BY <1>1, <1>4 DEF HostType, Engine
<1>5. CASE eng.st \in {"load", "send"} /\ ~go BY <1>1, <1>5 DEF HostType, Engine
<1>6. CASE eng.st = "drain" BY <1>1, <1>6 DEF HostType, Engine
<1>7. CASE eng.st = "done" BY <1>1, <1>7 DEF HostType, Engine
<1>8. QED BY <1>2, <1>3, <1>4, <1>5, <1>6, <1>7 DEF HostType

LEMMA TypeCycle ==
  ASSUME HostType, NEW D \in SUBSET Windows, NEW go, NEW acc, CycleWith(D, go, acc)
  PROVE  HostType'
<1>1. PICK a : a = acc["cfg"] OBVIOUS
<1>2. Engine(a, go) BY <1>1 DEF CycleWith
<1>3. \A w \in Windows : queue'[w] \in Seq(Accesses(w))
  <2>1. TAKE w \in Windows
  <2>2. queue[w] \in Seq(Accesses(w)) BY DEF HostType
  <2>3. queue[w] # <<>> => Tail(queue[w]) \in Seq(Accesses(w)) BY <2>2
  <2>4. QED BY <2>2, <2>3 DEF CycleWith
<1>4. regs' = [f \in Fields |-> regs'[f]] BY DEF CycleWith, Registers
<1>5. /\ DOMAIN eng' = {"st", "c", "w"} /\ eng'.c \in Cells
      /\ eng'.w = [c \in Cells |-> eng'.w[c]]
      /\ eng'.st \in {"idle", "load", "send", "drain", "done"}
      /\ outPort' # None => eng'.st \in {"send", "drain"}
  BY <1>2, EngineIs
<1>6. DOMAIN queue' = Windows /\ UNCHANGED <<pc, run, outcome, clean>> BY DEF CycleWith
<1>7. QED BY <1>3, <1>4, <1>5, <1>6 DEF HostType

LEMMA CycleU ==
  ASSUME HostType, InvU, NEW D \in SUBSET Windows, NEW go, NEW acc, CycleWith(D, go, acc)
  PROVE  InvU'
<1>1. \A w \in Windows : acc[w][1] \in {"st", "none"}
  <2>1. TAKE w \in Windows
  <2>2. CASE w \in D
    <3>1. queue[w] # <<>> /\ acc[w] = Head(queue[w]) BY <2>2 DEF CycleWith
    <3>2. queue[w] \in Seq(Accesses(w)) BY DEF HostType
    <3>3. Head(queue[w]) = queue[w][1] /\ 1 \in 1 .. Len(queue[w]) BY <3>1, <3>2
    <3>4. QED BY <3>1, <3>3 DEF InvU
  <2>3. CASE w \notin D BY <2>3, NoAccessIs DEF CycleWith
  <2>4. QED BY <2>2, <2>3
<1>2. reply' = None BY <1>1 DEF CycleWith, Answer, InvU, Windows, Buffers
<1>3. ASSUME NEW w \in Windows, NEW i \in 1 .. Len(queue'[w]) PROVE queue'[w][i][1] = "st"
  <2>1. queue[w] \in Seq(Accesses(w)) BY DEF HostType
  <2>2. CASE w \in D
    <3>1. queue[w] # <<>> /\ queue'[w] = Tail(queue[w]) BY <2>2 DEF CycleWith
    <3>2. i + 1 \in 1 .. Len(queue[w]) /\ queue'[w][i] = queue[w][i + 1] BY <2>1, <3>1
    <3>3. QED BY <3>2 DEF InvU
  <2>3. CASE w \notin D BY <2>3 DEF CycleWith, InvU
  <2>4. QED BY <2>2, <2>3
<1>4. QED BY <1>2, <1>3 DEF InvU

\* The registers written before the inputs give the ports to the CPU.
LEMMA FirstStores ==
  ASSUME NEW k \in 1 .. 5, NEW r, NEW x, x = Append(Program[k], r)
  PROVE  /\ x[1] = "st" /\ ~StartPulse(x)
         /\ \A b \in Buffers : Writes(x, b) => x[4] = CPU
<1> k \in 1 .. Last BY Places
<1>1. CASE k = 1
  <2>1. StoreOf(k, "IRQ_STAT", 1) BY <1>1, StoresOf
  <2>2. x[1] = "st" /\ x[4] = 1 /\ x[3] = "IRQ_STAT" BY <2>1, FieldsOf DEF StoreOf
  <2>3. QED BY <2>2 DEF StartPulse, Writes, Buffers
<1>2. CASE k = 2
  <2>1. StoreOf(k, "CTRL", "CLR_DONE") BY <1>2, StoresOf
  <2>2. x[1] = "st" /\ x[4] = "CLR_DONE" /\ x[3] = "CTRL" BY <2>1, FieldsOf DEF StoreOf
  <2>3. QED BY <2>2 DEF StartPulse, Writes, Buffers
<1>3. CASE k = 3 \/ k = 4 \/ k = 5
  <2>1. PICK b \in Buffers : StoreOf(k, b, CPU) BY <1>3, StoresOf DEF Buffers
  <2>2. x[1] = "st" /\ x[4] = CPU /\ x[3] = b BY <2>1, FieldsOf DEF StoreOf
  <2>3. QED BY <2>2 DEF StartPulse, Writes, Buffers
<1>4. k = 1 \/ k = 2 \/ k = 3 \/ k = 4 \/ k = 5 OBVIOUS
<1>5. QED BY <1>1, <1>2, <1>3, <1>4, Zenon

\* A buffer that the CPU owns takes the words its window serves.
LEMMA InputServed ==
  ASSUME HostType, NEW D \in SUBSET Windows, NEW go, NEW acc, CycleWith(D, go, acc),
         NEW w \in {"wgt", "act"}, NEW first \in Int, (w = "wgt" /\ first = WgtAt) \/ (w = "act" /\ first = ActAt),
         NEW hi \in first - 1 .. first + NCells - 1, Tailing(queue[w], first, hi, run),
         sel[w] = CPU, \A c \in Cells : first + c < Due(queue[w], hi) => buf[w][c] = run
  PROVE  /\ Tailing(queue'[w], first, hi, run)
         /\ \A c \in Cells : first + c < Due(queue'[w], hi) => buf'[w][c] = run
<1>0. w \in Windows /\ w \in Buffers /\ w # "out" /\ hi \in Int BY Places DEF Windows, Buffers
<1>1. PICK q, a, p, r : q = queue[w] /\ a = acc[w] /\ p = queue'[w] /\ r = run OBVIOUS
<1>2. q \in Seq(Accesses(w)) /\ Steps(q, a, p) BY <1>0, <1>1, WindowSteps
<1>3. \A c \in Cells : buf'[w][c] = IF a[1] = "st" /\ a[3] = c THEN a[5] ELSE buf[w][c]
  BY <1>0, <1>1 DEF CycleWith, Banks, CPU
<1>4. Tailing(q, first, hi, r) BY <1>1
<1>5. /\ Tailing(p, first, hi, r)
      /\ \/ a = NoAccess /\ Due(p, hi) = Due(q, hi)
         \/ /\ a = Append(Program[Due(q, hi)], r) /\ Due(q, hi) \in first .. hi
            /\ Due(p, hi) = Due(q, hi) + 1
  BY <1>0, <1>2, <1>4, ServeIs
<1>6. ASSUME NEW c \in Cells, first + c < Due(p, hi) PROVE buf'[w][c] = r
  <2>1. CASE a = NoAccess /\ Due(p, hi) = Due(q, hi)
    <3>1. buf[w][c] = r BY <1>1, <1>6, <2>1
    <3>2. QED BY <1>3, <2>1, <3>1, NoAccessIs
  <2>2. CASE /\ a = Append(Program[Due(q, hi)], r) /\ Due(q, hi) \in first .. hi
             /\ Due(p, hi) = Due(q, hi) + 1
    <3>1. PICK k \in first .. hi : k = Due(q, hi) BY <2>2
    <3>2. k - first \in Cells /\ k = first + (k - first) /\ k \in 1 .. Last BY Places DEF Cells
    <3>3. Program[k][1] = "st" /\ Program[k][3] = k - first BY <3>2, StoresOf DEF StoreOf
    <3>4. a[1] = "st" /\ a[3] = k - first /\ a[5] = r BY <2>2, <3>1, <3>2, <3>3, FieldsOf
    <3>5. c = k - first \/ (first + c < Due(q, hi) /\ c # k - first) BY <1>6, <2>2, <3>1, Places DEF Cells
    <3>6. QED BY <1>1, <1>3, <3>4, <3>5
  <2>3. QED BY <1>5, <2>1, <2>2
<1>7. QED BY <1>1, <1>5, <1>6

LEMMA CycleA ==
  ASSUME HostType, InvA, NEW D \in SUBSET Windows, NEW go, NEW acc, CycleWith(D, go, acc)
  PROVE  InvA'
<1>1. PICK q, a, p, r, h : q = queue["cfg"] /\ a = acc["cfg"] /\ p = queue'["cfg"] /\ r = run /\ h = HiCfg OBVIOUS
<1>2. pc \in Nat /\ pc' = pc /\ run' = run
  <2>1. pc \in 1 .. Last BY DEF HostType
  <2>2. QED BY <2>1, Places DEF CycleWith
<1>3. h \in 0 .. 5 BY <1>1, <1>2, Places DEF HiCfg, Clamp
<1>4. "cfg" \in Windows /\ "out" \in Windows /\ Buffers \subseteq Windows BY DEF Windows, Buffers
<1>5. q \in Seq(Accesses("cfg")) /\ Steps(q, a, p) BY <1>1, <1>4, WindowSteps
<1>6. Tailing(q, 1, h, r) BY <1>1 DEF InvA
<1>7. /\ Tailing(p, 1, h, r)
      /\ a = NoAccess \/ (a = Append(Program[Due(q, h)], r) /\ Due(q, h) \in 1 .. h)
  BY <1>3, <1>5, <1>6, ServeIs
<1>8. ~StartPulse(a) /\ (\A b \in Buffers : Writes(a, b) => a[4] = CPU) /\ a[1] \notin {"poll", "check"}
  <2>1. CASE a = NoAccess BY <2>1, NoAccessIs DEF StartPulse
  <2>2. CASE a = Append(Program[Due(q, h)], r) /\ Due(q, h) \in 1 .. h
    <3>1. Due(q, h) \in 1 .. 5 BY <1>3, <2>2
    <3>2. QED BY <2>2, <3>1, FirstStores
  <2>3. QED BY <1>7, <2>1, <2>2
<1>9. acc["out"] = NoAccess /\ queue'["out"] = <<>> BY <1>4, EmptyServes DEF InvA
<1>10. reply' = None BY <1>1, <1>8, <1>9, NoAccessIs DEF CycleWith, Answer, InvA
<1>11. Resting'
  <2>1. Engine(a, go) BY <1>1 DEF CycleWith
  <2>2. eng' = eng /\ outPort' = None BY <2>1, <1>8, EngineIs DEF InvA, Resting
  <2>3. QED BY <2>2 DEF InvA, Resting
<1>12. AllCPU'
  <2>1. Registers(a) BY <1>1 DEF CycleWith
  <2>2. QED BY <2>1, <1>8 DEF InvA, AllCPU, Registers
<1>13. /\ Tailing(queue'["wgt"], WgtAt, HiWgt, run)
       /\ \A c \in Cells : WgtAt + c < Due(queue'["wgt"], HiWgt) => buf'["wgt"][c] = run
  <2>1. PICK f \in Int, i \in Int : f = WgtAt /\ i = HiWgt /\ i \in f - 1 .. f + NCells - 1
    BY <1>2, Places DEF HiWgt, Clamp
  <2>2. sel["wgt"] = CPU BY DEF InvA, AllCPU, Buffers
  <2>3. Tailing(queue["wgt"], f, i, run) /\ \A c \in Cells : f + c < Due(queue["wgt"], i) => buf["wgt"][c] = run
    BY <2>1 DEF InvA
  <2>4. /\ Tailing(queue'["wgt"], f, i, run)
        /\ \A c \in Cells : f + c < Due(queue'["wgt"], i) => buf'["wgt"][c] = run
    BY <2>1, <2>2, <2>3, InputServed
  <2>5. QED BY <2>1, <2>4
<1>14. /\ Tailing(queue'["act"], ActAt, HiAct, run)
       /\ \A c \in Cells : ActAt + c < Due(queue'["act"], HiAct) => buf'["act"][c] = run
  <2>1. PICK f \in Int, i \in Int : f = ActAt /\ i = HiAct /\ i \in f - 1 .. f + NCells - 1
    BY <1>2, Places DEF HiAct, Clamp
  <2>2. sel["act"] = CPU BY DEF InvA, AllCPU, Buffers
  <2>3. Tailing(queue["act"], f, i, run) /\ \A c \in Cells : f + c < Due(queue["act"], i) => buf["act"][c] = run
    BY <2>1 DEF InvA
  <2>4. /\ Tailing(queue'["act"], f, i, run)
        /\ \A c \in Cells : f + c < Due(queue'["act"], i) => buf'["act"][c] = run
    BY <2>1, <2>2, <2>3, InputServed
  <2>5. QED BY <2>1, <2>4
<1>15. HiCfg' = HiCfg /\ HiWgt' = HiWgt /\ HiAct' = HiAct
  BY <1>2 DEF HiCfg, HiWgt, HiAct
<1>16. QED BY <1>1, <1>2, <1>7, <1>9, <1>10, <1>11, <1>12, <1>13, <1>14, <1>15 DEF InvA

LEMMA BuffersKept ==
  ASSUME HostType, Emptied(Buffers), outPort = None,
         NEW D \in SUBSET Windows, NEW go, NEW acc, CycleWith(D, go, acc)
  PROVE  /\ \A b \in Buffers : acc[b] = NoAccess /\ queue'[b] = <<>>
         /\ \A b \in Buffers : \A c \in Cells : buf'[b][c] = buf[b][c]
<1>1. \A b \in Buffers : acc[b] = NoAccess /\ queue'[b] = <<>>
  BY EmptyServes DEF Emptied, Windows
<1>2. QED BY <1>1, NoAccessIs DEF CycleWith, Banks

\* The registers written before the start, and the ports given to the unit.
SecondStore(k, r, x) ==
  /\ x[1] = "st" /\ ~StartPulse(x) /\ x[5] = r
  /\ \A f \in Fields : k = FenceA + 1 + f => Writes(x, "CFG_WRITE") /\ x[4] = f
  /\ Writes(x, "wgt") <=> k = FenceB - 3
  /\ Writes(x, "act") <=> k = FenceB - 2
  /\ Writes(x, "out") <=> k = FenceB - 1
  /\ k = FenceB - 3 => x[4] = MXURd
  /\ k = FenceB - 2 => x[4] = MXURd
  /\ k = FenceB - 1 => x[4] = MXUWr

LEMMA SecondStores ==
  ASSUME NEW k \in FenceA + 1 .. FenceB - 1, NEW r
  PROVE  SecondStore(k, r, Append(Program[k], r))
<1> PICK x : x = Append(Program[k], r) OBVIOUS
<1>0. k \in 1 .. Last BY Places
<1>1. x[1] = Program[k][1] /\ x[3] = Program[k][3] /\ x[4] = Program[k][4] /\ x[5] = r BY <1>0, FieldsOf
<1>2. CASE \E f \in Fields : k = FenceA + 1 + f
  <2>1. PICK f \in Fields : k = FenceA + 1 + f BY <1>2
  <2>2. x[1] = "st" /\ x[3] = "CFG_WRITE" /\ x[4] = f BY <1>1, <2>1, StoresOf DEF StoreOf
  <2>3. k < FenceB - 3 BY <2>1, Places DEF Fields
  <2>4. \A g \in Fields : k = FenceA + 1 + g => g = f BY <2>1, Places DEF Fields
  <2>5. k # FenceB - 3 /\ k # FenceB - 2 /\ k # FenceB - 1 BY <2>3, Places
  <2>6. QED BY <1>1, <2>2, <2>4, <2>5 DEF SecondStore, StartPulse, Writes
<1>3. CASE k = FenceB - 3 \/ k = FenceB - 2 \/ k = FenceB - 1
  <2>1. \A g \in Fields : k # FenceA + 1 + g BY <1>3, Places DEF Fields
  <2>2. CASE k = FenceB - 3
    <3>1. x[1] = "st" /\ x[3] = "wgt" /\ x[4] = MXURd BY <1>1, <2>2, StoresOf DEF StoreOf
    <3>2. k # FenceB - 2 /\ k # FenceB - 1 BY <2>2, Places
    <3>3. QED BY <1>1, <2>1, <2>2, <3>1, <3>2 DEF SecondStore, StartPulse, Writes
  <2>3. CASE k = FenceB - 2
    <3>1. x[1] = "st" /\ x[3] = "act" /\ x[4] = MXURd BY <1>1, <2>3, StoresOf DEF StoreOf
    <3>2. k # FenceB - 3 /\ k # FenceB - 1 BY <2>3, Places
    <3>3. QED BY <1>1, <2>1, <2>3, <3>1, <3>2 DEF SecondStore, StartPulse, Writes
  <2>4. CASE k = FenceB - 1
    <3>1. x[1] = "st" /\ x[3] = "out" /\ x[4] = MXUWr BY <1>1, <2>4, StoresOf DEF StoreOf
    <3>2. k # FenceB - 3 /\ k # FenceB - 2 BY <2>4, Places
    <3>3. QED BY <1>1, <2>1, <2>4, <3>1, <3>2 DEF SecondStore, StartPulse, Writes
  <2>5. QED BY <1>3, <2>2, <2>3, <2>4
<1>4. (\E f \in Fields : k = FenceA + 1 + f) \/ k = FenceB - 3 \/ k = FenceB - 2 \/ k = FenceB - 1
  <2>1. CASE k < FenceB - 3
    <3>1. k - (FenceA + 1) \in Fields /\ k = FenceA + 1 + (k - (FenceA + 1)) BY <2>1, Places DEF Fields
    <3>2. QED BY <3>1
  <2>2. QED BY <2>1, Places
<1>5. QED BY <1>2, <1>3, <1>4

LEMMA CycleB ==
  ASSUME HostType, AtB, InvB, NEW D \in SUBSET Windows, NEW go, NEW acc, CycleWith(D, go, acc)
  PROVE  InvB'
<1>1. PICK q, a, p, r, h : q = queue["cfg"] /\ a = acc["cfg"] /\ p = queue'["cfg"] /\ r = run /\ h = pc - 1 OBVIOUS
<1>2. pc \in Nat /\ pc' = pc /\ run' = run /\ h \in Int /\ h < FenceB /\ h \in Nat
  <2>1. pc \in 1 .. Last BY DEF HostType
  <2>2. QED BY <1>1, <2>1, Places DEF CycleWith, AtB
<1>3. "cfg" \in Windows /\ "out" \in Buffers /\ "wgt" \in Buffers /\ "act" \in Buffers BY DEF Windows, Buffers
<1>4. q \in Seq(Accesses("cfg")) /\ Steps(q, a, p) BY <1>1, <1>3, WindowSteps
<1>5. Tailing(q, FenceA + 1, h, r) BY <1>1 DEF InvB
<1>6. /\ Tailing(p, FenceA + 1, h, r)
      /\ \/ a = NoAccess /\ Due(p, h) = Due(q, h)
         \/ /\ a = Append(Program[Due(q, h)], r) /\ Due(q, h) \in FenceA + 1 .. h
            /\ Due(p, h) = Due(q, h) + 1
  <2>1. FenceA + 1 \in Int BY Places
  <2>2. QED BY <1>2, <1>4, <1>5, <2>1, ServeIs
<1>7. /\ \A b \in Buffers : acc[b] = NoAccess /\ queue'[b] = <<>>
      /\ \A b \in Buffers : \A c \in Cells : buf'[b][c] = buf[b][c]
  BY BuffersKept DEF InvB, Resting
<1>8. ~StartPulse(a) /\ a[1] \notin {"poll", "check"}
  <2>1. CASE a = NoAccess BY <2>1, NoAccessIs DEF StartPulse
  <2>2. CASE a = Append(Program[Due(q, h)], r) /\ Due(q, h) \in FenceA + 1 .. h
    <3>1. Due(q, h) \in FenceA + 1 .. FenceB - 1 BY <1>2, <2>2, Places
    <3>2. SecondStore(Due(q, h), r, a) BY <2>2, <3>1, SecondStores
    <3>3. QED BY <3>2 DEF SecondStore
  <2>3. QED BY <1>6, <2>1, <2>2
<1>9. reply' = None BY <1>1, <1>3, <1>7, <1>8, NoAccessIs DEF CycleWith, Answer, InvB
<1>10. Resting' /\ ~Busy
  <2>1. Engine(a, go) BY <1>1 DEF CycleWith
  <2>2. eng' = eng /\ outPort' = None BY <2>1, <1>8, EngineIs DEF InvB, Resting
  <2>3. QED BY <2>2 DEF InvB, Resting, Busy
<1>11. Inputs' /\ Emptied(Buffers)' BY <1>2, <1>3, <1>7 DEF InvB, Inputs, Emptied
<1>12. /\ \A f \in Fields : FenceA + 1 + f < Due(p, h) => regs'[f] = r
       /\ FenceB - 3 < Due(p, h) => sel'["wgt"] = MXURd
       /\ FenceB - 2 < Due(p, h) => sel'["act"] = MXURd
       /\ FenceB - 1 < Due(p, h) => sel'["out"] = MXUWr
  <2>1. /\ \A f \in Fields : regs'[f] = IF Writes(a, "CFG_WRITE") /\ a[4] = f THEN a[5] ELSE regs[f]
        /\ \A b \in Buffers : sel'[b] = IF Writes(a, b) THEN a[4] ELSE sel[b]
    BY <1>1, <1>10 DEF CycleWith, Registers
  <2>2. /\ \A f \in Fields : FenceA + 1 + f < Due(q, h) => regs[f] = r
        /\ FenceB - 3 < Due(q, h) => sel["wgt"] = MXURd
        /\ FenceB - 2 < Due(q, h) => sel["act"] = MXURd
        /\ FenceB - 1 < Due(q, h) => sel["out"] = MXUWr
    BY <1>1 DEF InvB
  <2>3. CASE a = NoAccess /\ Due(p, h) = Due(q, h) BY <1>3, <2>1, <2>2, <2>3, NoAccessIs
  <2>4. CASE /\ a = Append(Program[Due(q, h)], r) /\ Due(q, h) \in FenceA + 1 .. h
             /\ Due(p, h) = Due(q, h) + 1
    <3>1. PICK k \in FenceA + 1 .. FenceB - 1 : k = Due(q, h) BY <1>2, <2>4, Places
    <3>2. SecondStore(k, r, a) BY <2>4, <3>1, SecondStores
    <3>3. ASSUME NEW f \in Fields, FenceA + 1 + f < k + 1 PROVE regs'[f] = r
      <4>1. k = FenceA + 1 + f \/ FenceA + 1 + f < k BY <3>3, Places DEF Fields
      <4>2. QED BY <2>1, <2>2, <3>1, <3>2, <4>1 DEF SecondStore
    <3>4. /\ FenceB - 3 < k + 1 => k = FenceB - 3 \/ FenceB - 3 < k
          /\ FenceB - 2 < k + 1 => k = FenceB - 2 \/ FenceB - 2 < k
          /\ FenceB - 1 < k + 1 => k = FenceB - 1 \/ FenceB - 1 < k
      BY Places
    <3>5. /\ FenceB - 3 < k + 1 => sel'["wgt"] = MXURd
          /\ FenceB - 2 < k + 1 => sel'["act"] = MXURd
          /\ FenceB - 1 < k + 1 => sel'["out"] = MXUWr
      BY <1>3, <2>1, <2>2, <3>1, <3>2, <3>4 DEF SecondStore
    <3>6. QED BY <2>4, <3>1, <3>3, <3>5
  <2>5. QED BY <1>6, <2>3, <2>4
<1>13. QED BY <1>1, <1>2, <1>6, <1>9, <1>10, <1>11, <1>12 DEF InvB

\* The registers written after the job give the ports back to the CPU.
ThirdStore(k, x) ==
  /\ x[1] = "st" /\ ~StartPulse(x) /\ x[4] = CPU
  /\ Writes(x, "wgt") <=> k = CheckAt + 1
  /\ Writes(x, "act") <=> k = CheckAt + 2
  /\ Writes(x, "out") <=> k = CheckAt + 3

LEMMA ThirdStores ==
  ASSUME NEW k \in CheckAt + 1 .. CheckAt + 3, NEW r
  PROVE  ThirdStore(k, Append(Program[k], r))
<1> PICK x : x = Append(Program[k], r) OBVIOUS
<1>0. k \in 1 .. Last BY Places
<1>1. x[1] = Program[k][1] /\ x[3] = Program[k][3] /\ x[4] = Program[k][4] /\ x[5] = r BY <1>0, FieldsOf
<1>2. CASE k = CheckAt + 1
  <2>1. x[1] = "st" /\ x[3] = "wgt" /\ x[4] = CPU BY <1>1, <1>2, StoresOf DEF StoreOf
  <2>2. k # CheckAt + 2 /\ k # CheckAt + 3 BY <1>2, Places
  <2>3. QED BY <1>2, <2>1, <2>2 DEF ThirdStore, StartPulse, Writes
<1>3. CASE k = CheckAt + 2
  <2>1. x[1] = "st" /\ x[3] = "act" /\ x[4] = CPU BY <1>1, <1>3, StoresOf DEF StoreOf
  <2>2. k # CheckAt + 1 /\ k # CheckAt + 3 BY <1>3, Places
  <2>3. QED BY <1>3, <2>1, <2>2 DEF ThirdStore, StartPulse, Writes
<1>4. CASE k = CheckAt + 3
  <2>1. x[1] = "st" /\ x[3] = "out" /\ x[4] = CPU BY <1>1, <1>4, StoresOf DEF StoreOf
  <2>2. k # CheckAt + 1 /\ k # CheckAt + 2 BY <1>4, Places
  <2>3. QED BY <1>4, <2>1, <2>2 DEF ThirdStore, StartPulse, Writes
<1>5. k = CheckAt + 1 \/ k = CheckAt + 2 \/ k = CheckAt + 3 BY Places
<1>6. QED BY <1>2, <1>3, <1>4, <1>5

LEMMA CycleD ==
  ASSUME HostType, AtD, InvD, NEW D \in SUBSET Windows, NEW go, NEW acc, CycleWith(D, go, acc)
  PROVE  InvD'
<1>1. PICK q, a, p, r, h : q = queue["cfg"] /\ a = acc["cfg"] /\ p = queue'["cfg"] /\ r = run /\ h = pc - 1 OBVIOUS
<1>2. pc \in Nat /\ pc' = pc /\ run' = run /\ clean' = clean /\ h \in Int /\ h <= CheckAt + 3
  <2>1. pc \in 1 .. Last BY DEF HostType
  <2>2. QED BY <1>1, <2>1, Places DEF CycleWith, AtD
<1>3. "cfg" \in Windows /\ "out" \in Buffers /\ "wgt" \in Buffers /\ "act" \in Buffers BY DEF Windows, Buffers
<1>4. q \in Seq(Accesses("cfg")) /\ Steps(q, a, p) BY <1>1, <1>3, WindowSteps
<1>5. Tailing(q, CheckAt + 1, h, r) BY <1>1 DEF InvD
<1>6. /\ Tailing(p, CheckAt + 1, h, r)
      /\ \/ a = NoAccess /\ Due(p, h) = Due(q, h)
         \/ /\ a = Append(Program[Due(q, h)], r) /\ Due(q, h) \in CheckAt + 1 .. h
            /\ Due(p, h) = Due(q, h) + 1
  <2>1. CheckAt + 1 \in Int BY Places
  <2>2. QED BY <1>2, <1>4, <1>5, <2>1, ServeIs
<1>7. /\ \A b \in Buffers : acc[b] = NoAccess /\ queue'[b] = <<>>
      /\ \A b \in Buffers : \A c \in Cells : buf'[b][c] = buf[b][c]
  BY BuffersKept DEF InvD, Resting
<1>8. ~StartPulse(a) /\ a[1] \notin {"poll", "check"}
  <2>1. CASE a = NoAccess BY <2>1, NoAccessIs DEF StartPulse
  <2>2. CASE a = Append(Program[Due(q, h)], r) /\ Due(q, h) \in CheckAt + 1 .. h
    <3>1. Due(q, h) \in CheckAt + 1 .. CheckAt + 3 BY <1>2, <2>2, Places
    <3>2. ThirdStore(Due(q, h), a) BY <2>2, <3>1, ThirdStores
    <3>3. QED BY <3>2 DEF ThirdStore
  <2>3. QED BY <1>6, <2>1, <2>2
<1>9. reply' = None BY <1>1, <1>3, <1>7, <1>8, NoAccessIs DEF CycleWith, Answer, InvD
<1>10. Resting'
  <2>1. Engine(a, go) BY <1>1 DEF CycleWith
  <2>2. eng' = eng /\ outPort' = None BY <2>1, <1>8, EngineIs DEF InvD, Resting
  <2>3. QED BY <2>2 DEF InvD, Resting
<1>11. Emptied(Buffers)' BY <1>7 DEF Emptied
<1>12. (clean => Results)' BY <1>2, <1>3, <1>7 DEF InvD, Results, Golden
<1>13. /\ CheckAt + 1 < Due(p, h) => sel'["wgt"] = CPU
       /\ CheckAt + 2 < Due(p, h) => sel'["act"] = CPU
       /\ CheckAt + 3 < Due(p, h) => sel'["out"] = CPU
  <2>1. \A b \in Buffers : sel'[b] = IF Writes(a, b) THEN a[4] ELSE sel[b]
    BY <1>1 DEF CycleWith, Registers
  <2>2. /\ CheckAt + 1 < Due(q, h) => sel["wgt"] = CPU
        /\ CheckAt + 2 < Due(q, h) => sel["act"] = CPU
        /\ CheckAt + 3 < Due(q, h) => sel["out"] = CPU
    BY <1>1 DEF InvD
  <2>3. CASE a = NoAccess /\ Due(p, h) = Due(q, h) BY <1>3, <2>1, <2>2, <2>3, NoAccessIs
  <2>4. CASE /\ a = Append(Program[Due(q, h)], r) /\ Due(q, h) \in CheckAt + 1 .. h
             /\ Due(p, h) = Due(q, h) + 1
    <3>1. PICK k \in CheckAt + 1 .. CheckAt + 3 : k = Due(q, h) BY <1>2, <2>4, Places
    <3>2. ThirdStore(k, a) BY <2>4, <3>1, ThirdStores
    <3>3. /\ CheckAt + 1 < k + 1 => k = CheckAt + 1 \/ CheckAt + 1 < k
          /\ CheckAt + 2 < k + 1 => k = CheckAt + 2 \/ CheckAt + 2 < k
          /\ CheckAt + 3 < k + 1 => k = CheckAt + 3 \/ CheckAt + 3 < k
      BY Places
    <3>4. /\ CheckAt + 1 < k + 1 => sel'["wgt"] = CPU
          /\ CheckAt + 2 < k + 1 => sel'["act"] = CPU
          /\ CheckAt + 3 < k + 1 => sel'["out"] = CPU
      BY <1>3, <2>1, <2>2, <3>1, <3>2, <3>3 DEF ThirdStore
    <3>5. QED BY <2>4, <3>1, <3>4
  <2>5. QED BY <1>6, <2>3, <2>4
<1>14. QED BY <1>1, <1>2, <1>6, <1>9, <1>10, <1>11, <1>12, <1>13 DEF InvD

LEMMA CycleE ==
  ASSUME HostType, AtE, InvE, NEW D \in SUBSET Windows, NEW go, NEW acc, CycleWith(D, go, acc)
  PROVE  InvE'
<1>1. "cfg" \in Windows /\ "out" \in Windows /\ "cfg" \in Windows \ {"out"} /\ "out" \in Buffers BY DEF Windows, Buffers
<1>2. \A w \in Windows \ {"out"} : acc[w] = NoAccess /\ queue'[w] = <<>>
  BY EmptyServes DEF InvE, Emptied
<1>3. UNCHANGED <<pc, run, outcome, clean>> BY DEF CycleWith
<1>4. PICK a : a = acc["cfg"] /\ a = NoAccess BY <1>1, <1>2
<1>5. Resting' /\ AllCPU'
  <2>1. Engine(a, go) /\ Registers(a) /\ ~StartPulse(a) BY <1>4, NoAccessIs DEF CycleWith, StartPulse
  <2>2. eng' = eng /\ outPort' = None BY <2>1, EngineIs DEF InvE, Resting
  <2>3. QED BY <1>4, <2>1, <2>2, NoAccessIs DEF InvE, Resting, AllCPU, Registers
<1>6. CASE acc["out"] = NoAccess /\ queue'["out"] = queue["out"]
  <2>1. reply' = reply BY <1>4, <1>6, NoAccessIs DEF CycleWith, Answer
  <2>2. \A c \in Cells : buf'["out"][c] = buf["out"][c]
    BY <1>1, <1>6, NoAccessIs DEF CycleWith, Banks, InvE, Resting
  <2>3. (outcome = "running" /\ clean => Results)' BY <1>3, <2>2 DEF InvE, Results, Golden
  <2>4. Acc(pc)' = Acc(pc) /\ Golden' = Golden BY <1>3 DEF Acc, Golden
  <2>5. QED BY <1>2, <1>3, <1>5, <1>6, <2>1, <2>3, <2>4 DEF InvE, Emptied, Answered
<1>7. CASE "out" \in D
  <2>1. queue["out"] # <<>> /\ acc["out"] = Head(queue["out"]) /\ queue'["out"] = Tail(queue["out"])
    BY <1>1, <1>7 DEF CycleWith
  <2>2. queue["out"] = <<Acc(pc)>> /\ reply = Asked BY <2>1 DEF InvE
  <2>3. acc["out"] = Acc(pc) /\ queue'["out"] = <<>> BY <2>1, <2>2
  <2>4. outcome = "running" /\ pc > FenceD /\ pc \in 1 .. Last
    <3>1. reply # None BY <2>2 DEF Asked, None
    <3>2. QED BY <3>1 DEF InvE, AtE, HostType
  <2>5. PICK c \in Cells : pc = FenceD + 1 + c
    <3>1. pc - (FenceD + 1) \in Cells /\ pc = FenceD + 1 + (pc - (FenceD + 1)) BY <2>4, Places DEF Cells
    <3>2. QED BY <3>1
  <2>6. acc["out"][1] = "ld" /\ acc["out"][3] = c
    <3>1. PICK k \in 1 .. Last, r \in Nat : k = pc /\ r = run
      <4>1. run \in Nat BY DEF HostType
      <4>2. QED BY <2>4, <4>1
    <3>2. Program[k][1] = "ld" /\ Program[k][3] = c BY <2>4, <2>5, <3>1, KindOf, StoresOf
    <3>3. PICK x : x = Append(Program[k], r) OBVIOUS
    <3>4. acc["out"] = x BY <2>3, <3>1, <3>3 DEF Acc
    <3>5. x[1] = Program[k][1] /\ x[3] = Program[k][3] BY <3>3, FieldsOf
    <3>6. QED BY <3>2, <3>4, <3>5
  <2>7. \A d \in Cells : buf'["out"][d] = buf["out"][d]
    BY <1>1, <2>6 DEF CycleWith, Banks, InvE, Resting
  <2>8. reply' = <<buf["out"][c]>>
    <3>1. sel["out"].rd = FALSE BY <1>1 DEF InvE, AllCPU, CPU
    <3>2. QED BY <1>4, <2>6, <3>1, NoAccessIs DEF CycleWith, Answer
  <2>9. reply' # Asked /\ reply'[1] = buf["out"][c] BY <2>8 DEF Asked
  <2>10. (outcome = "running" /\ clean => Results)' BY <1>3, <2>7 DEF InvE, Results, Golden
  <2>11. clean => reply'[1] = Golden BY <2>4, <2>9 DEF InvE, Results
  <2>12. Golden' = Golden BY <1>3 DEF Golden
  <2>13. QED BY <1>2, <1>3, <1>5, <2>3, <2>4, <2>9, <2>10, <2>11, <2>12 DEF InvE, Emptied
<1>8. QED BY <1>1, <1>6, <1>7 DEF CycleWith

LEMMA NextCell ==
  ASSUME NEW c \in Cells
  PROVE  /\ c = NCells - 1 => (c + 1) % NCells = 0 /\ \A d \in Cells : d < c \/ d = c
         /\ c # NCells - 1 => (c + 1) % NCells = c + 1
         /\ \A d \in Cells : d < c + 1 => d < c \/ d = c
         /\ \A d \in Cells : ~(d < 0)
<1>1. c # NCells - 1 => c + 1 \in 0 .. NCells - 1 BY Places DEF Cells
<1>2. c # NCells - 1 => (c + 1) % NCells = c + 1 BY <1>1, Places
<1>3. c = NCells - 1 => (c + 1) % NCells = 0 BY Places
<1>4. QED BY <1>2, <1>3, Places DEF Cells

\* A job that finds everything ready gets on with the right rows.
LEMMA JobGoesOn ==
  ASSUME HostType, Ready, Progress, Emptied(Buffers),
         NEW D \in SUBSET Windows, NEW go \in BOOLEAN, NEW acc, CycleWith(D, go, acc), ~StartPulse(acc["cfg"])
  PROVE  Progress'
<1>0. PICK r : r = run OBVIOUS
<1>1. run' = run /\ Golden' = Golden /\ Engine(acc["cfg"], go) BY DEF CycleWith, Golden
<1>2. "out" \in Buffers /\ "act" \in Buffers /\ "wgt" \in Buffers BY DEF Buffers
<1>3. \A b \in Buffers : acc[b] = NoAccess BY EmptyServes DEF Emptied, Windows
<1>4. \A c \in Cells : buf'["out"][c] = IF outPort # None /\ outPort[1] = c THEN outPort[2] ELSE buf["out"][c]
  <2>1. sel["out"].wr = TRUE BY DEF Ready, MXUWr
  <2>2. QED BY <1>2, <1>3, <2>1, NoAccessIs DEF CycleWith, Banks
<1>5. \A c \in Cells : buf["out"][c] = Golden \/ outPort = <<c, Golden>> => buf'["out"][c] = Golden
  <2>1. \A c \in Cells : outPort = <<c, Golden>> => outPort # None /\ outPort[1] = c /\ outPort[2] = Golden
    BY DEF None
  <2>2. outPort # None => outPort[2] = Golden BY DEF Progress
  <2>3. QED BY <1>4, <2>1, <2>2
<1>6. eng.c \in Cells /\ eng.w = [c \in Cells |-> eng.w[c]] /\ regs = [f \in Fields |-> regs[f]]
      /\ DOMAIN eng = {"st", "c", "w"} /\ eng.st \in {"idle", "load", "send", "drain", "done"}
  BY DEF HostType
<1>c. /\ eng.c = NCells - 1 => (eng.c + 1) % NCells = 0 /\ \A d \in Cells : d < eng.c \/ d = eng.c
      /\ eng.c # NCells - 1 => (eng.c + 1) % NCells = eng.c + 1
      /\ \A d \in Cells : d < eng.c + 1 => d < eng.c \/ d = eng.c
      /\ \A d \in Cells : ~(d < 0)
  BY <1>6, NextCell
<1>7. Read("wgt", eng.c) = run /\ Read("act", eng.c) = run
  BY <1>6 DEF Ready, Inputs, Read, MXURd
<1>8. CASE eng.st = "idle"
  <2>1. eng' = eng /\ outPort' = None BY <1>1, <1>8, EngineIs
  <2>2. \A c \in Cells : buf'["out"][c] = Golden BY <1>5, <1>8 DEF Progress, Results
  <2>3. \A d \in Cells : eng.w[d] = run BY <1>8 DEF Progress
  <2>4. QED BY <1>1, <1>8, <2>1, <2>2, <2>3 DEF Progress, Results
<1>9. CASE eng.st = "load" /\ go
  <2>1. /\ eng' = [st |-> IF eng.c = NCells - 1 THEN "send" ELSE "load", c |-> (eng.c + 1) % NCells,
                   w |-> [eng.w EXCEPT ![eng.c] = Read("wgt", eng.c)]]
        /\ outPort' = None
    BY <1>1, <1>9 DEF Engine
  <2>2. \A d \in Cells : eng'.w[d] = IF d = eng.c THEN run ELSE eng.w[d] BY <1>6, <1>7, <2>1
  <2>3. \A d \in Cells : d < eng.c => eng.w[d] = run BY <1>9 DEF Progress
  <2>4. CASE eng.c = NCells - 1
    <3>1. eng'.st = "send" /\ eng'.c = 0 BY <2>1, <2>4, <1>c
    <3>2. \A d \in Cells : eng'.w[d] = run BY <2>2, <2>3, <2>4, <1>c
    <3>3. QED BY <1>1, <1>c, <2>1, <3>1, <3>2 DEF Progress
  <2>5. CASE eng.c # NCells - 1
    <3>1. eng'.st = "load" /\ eng'.c = eng.c + 1 BY <1>c, <2>1, <2>5
    <3>2. \A d \in Cells : d < eng'.c => eng'.w[d] = run BY <1>c, <2>2, <2>3, <3>1
    <3>3. QED BY <1>1, <2>1, <3>1, <3>2 DEF Progress
  <2>6. QED BY <2>4, <2>5
<1>10. CASE eng.st = "send" /\ go
  <2>1. /\ eng' = [eng EXCEPT !.st = IF eng.c = NCells - 1 THEN "drain" ELSE "send", !.c = (eng.c + 1) % NCells]
        /\ outPort' = <<eng.c, Row(eng.w, Read("act", eng.c), regs)>>
    BY <1>1, <1>10 DEF Engine
  <2>2. Row(eng.w, Read("act", eng.c), regs) = Golden
    <3>1. \A d \in Cells : eng.w[d] = run BY <1>10 DEF Progress
    <3>2. eng.w = [d \in Cells |-> run] BY <1>6, <3>1
    <3>3. regs = [i \in Fields |-> run] BY <1>6 DEF Ready
    <3>4. QED BY <1>7, <3>2, <3>3 DEF Golden
  <2>3. outPort' = <<eng.c, Golden>> /\ outPort'[2] = Golden BY <2>1, <2>2
  <2>4. eng'.w = eng.w BY <2>1, <1>6
  <2>5. \A d \in Cells : d < eng.c => buf'["out"][d] = Golden BY <1>5, <1>10 DEF Progress
  <2>6. \A d \in Cells : eng'.w[d] = run BY <1>10, <2>4 DEF Progress
  <2>7. CASE eng.c = NCells - 1
    <3>1. eng'.st = "drain" BY <2>1, <2>7, <1>6
    <3>2. \A d \in Cells : d < eng.c \/ d = eng.c BY <1>c, <2>7
    <3>3. \A d \in Cells : buf'["out"][d] = Golden \/ outPort' = <<d, Golden>> BY <2>3, <2>5, <3>2
    <3>4. QED BY <1>1, <2>3, <2>6, <3>1, <3>3 DEF Progress
  <2>8. CASE eng.c # NCells - 1
    <3>1. eng'.st = "send" /\ eng'.c = eng.c + 1 BY <1>6, <1>c, <2>1, <2>8
    <3>2. \A d \in Cells : d < eng'.c => buf'["out"][d] = Golden \/ outPort' = <<d, Golden>> BY <1>c, <2>3, <2>5, <3>1
    <3>3. QED BY <1>1, <2>3, <2>6, <3>1, <3>2 DEF Progress
  <2>9. QED BY <2>7, <2>8
<1>11. CASE eng.st \in {"load", "send"} /\ ~go
  <2>1. eng' = eng /\ outPort' = None BY <1>1, <1>11 DEF Engine
  <2>2. eng.st = "send" => \A d \in Cells : d < eng.c => buf'["out"][d] = Golden BY <1>5 DEF Progress
  <2>3. QED BY <1>1, <1>11, <2>1, <2>2 DEF Progress
<1>12. CASE eng.st = "drain"
  <2>1. eng'.st = "done" /\ eng'.w = eng.w /\ outPort' = None BY <1>1, <1>6, <1>12 DEF Engine
  <2>2. \A d \in Cells : buf'["out"][d] = Golden BY <1>5, <1>12 DEF Progress
  <2>3. QED BY <1>1, <1>12, <2>1, <2>2 DEF Progress, Results
<1>13. CASE eng.st = "done"
  <2>1. eng'.st = "idle" /\ eng'.w = eng.w /\ outPort' = None BY <1>1, <1>6, <1>13 DEF Engine
  <2>2. \A d \in Cells : buf'["out"][d] = Golden BY <1>5, <1>13 DEF Progress, Results
  <2>3. QED BY <1>1, <1>13, <2>1, <2>2 DEF Progress, Results
<1>14. QED BY <1>6, <1>8, <1>9, <1>10, <1>11, <1>12, <1>13

\* The accesses of the start and of the wait.
LEMMA WaitAccesses ==
  /\ Acc(StartAt)[1] = "st" /\ Acc(StartAt)[3] = "CTRL" /\ Acc(StartAt)[4] = "START"
  /\ Acc(PollAt)[1] = "poll" /\ Acc(CheckAt)[1] = "check"
<1>1. StartAt \in 1 .. Last /\ PollAt \in 1 .. Last /\ CheckAt \in 1 .. Last BY Places
<1>2. /\ Program[StartAt][1] = "st" /\ Program[StartAt][3] = "CTRL" /\ Program[StartAt][4] = "START"
      /\ Program[PollAt][1] = "poll" /\ Program[CheckAt][1] = "check"
  BY <1>1, StoresOf, KindOf DEF StoreOf
<1>3. PICK r : r = run OBVIOUS
<1>4. PICK x, y, z : x = Append(Program[StartAt], r) /\ y = Append(Program[PollAt], r) /\ z = Append(Program[CheckAt], r)
  OBVIOUS
<1>5. x[1] = "st" /\ x[3] = "CTRL" /\ x[4] = "START"
  <2>1. x[1] = Program[StartAt][1] /\ x[3] = Program[StartAt][3] /\ x[4] = Program[StartAt][4] BY <1>1, <1>4, FieldsOf, ZenonT(60)
  <2>2. QED BY <1>2, <2>1
<1>6. y[1] = "poll" /\ z[1] = "check" BY <1>1, <1>2, <1>4, FieldsOf, ZenonT(60)
<1>7. Acc(StartAt) = x /\ Acc(PollAt) = y /\ Acc(CheckAt) = z BY <1>3, <1>4 DEF Acc
<1>8. QED BY <1>5, <1>6, <1>7

\* No access but START is served while the flow waits, and START but once.
LEMMA ReadyKept ==
  ASSUME HostType, Ready, Emptied(Buffers), NEW D \in SUBSET Windows, NEW go, NEW acc, CycleWith(D, go, acc),
         \A b \in Buffers : ~Writes(acc["cfg"], b), ~Writes(acc["cfg"], "CFG_WRITE")
  PROVE  Ready'
<1>1. "out" \in Buffers /\ "act" \in Buffers /\ "wgt" \in Buffers BY DEF Buffers
<1>2. \A b \in Buffers : acc[b] = NoAccess BY EmptyServes DEF Emptied, Windows
<1>3. \A c \in Cells : buf'["wgt"][c] = buf["wgt"][c] /\ buf'["act"][c] = buf["act"][c]
  BY <1>1, <1>2, NoAccessIs DEF CycleWith, Banks
<1>4. /\ \A b \in Buffers : sel'[b] = sel[b]
      /\ \A f \in Fields : regs'[f] = regs[f]
  BY DEF CycleWith, Registers
<1>5. run' = run BY DEF CycleWith
<1>6. QED BY <1>1, <1>3, <1>4, <1>5 DEF Ready, Inputs

\* A cycle in which the configuration window serves nothing, or a load.
LEMMA QuietCycle ==
  ASSUME HostType, Emptied(Buffers), NEW D \in SUBSET Windows, NEW go \in BOOLEAN, NEW acc, CycleWith(D, go, acc),
         acc["cfg"][1] \in {"none", "poll", "check"}
  PROVE  /\ Emptied(Buffers)' /\ \A b \in Buffers : acc[b] = NoAccess
         /\ Ready => Ready'
         /\ Ready /\ Progress => Progress'
         /\ eng.st = "idle" /\ outPort = None => Resting'
         /\ eng.st = "idle" => eng'.st = "idle"
         /\ done' = IF MxuDone THEN TRUE ELSE done
         /\ (eng.st = "idle" => done) => (eng'.st = "idle" => done')
<1>1. \A m : ~Writes(acc["cfg"], m) BY DEF Writes
<1>2. \A b \in Buffers : acc[b] = NoAccess /\ queue'[b] = <<>> BY EmptyServes DEF Emptied, Windows
<1>3. ~StartPulse(acc["cfg"]) /\ ~ClearDone(acc["cfg"]) BY <1>1 DEF StartPulse, ClearDone
<1>4. done' = IF MxuDone THEN TRUE ELSE done
  BY <1>3 DEF CycleWith, Registers, DoneNext
<1>5. PICK a : a = acc["cfg"] OBVIOUS
<1>6. Engine(a, go) /\ ~StartPulse(a) BY <1>3, <1>5 DEF CycleWith
<1>7. /\ eng.st = "idle" => eng' = eng /\ outPort' = None
      /\ eng'.st = "idle" => eng.st \in {"idle", "done"}
  BY <1>6, EngineIs
<1>8. Emptied(Buffers)' BY <1>2 DEF Emptied
<1>9. Ready => Ready' BY <1>1, ReadyKept
<1>10. Ready /\ Progress => Progress' BY <1>3, JobGoesOn
<1>11. eng.st = "idle" /\ outPort = None => Resting' BY <1>7 DEF Resting
<1>12. (eng.st = "idle" => done) => (eng'.st = "idle" => done') BY <1>4, <1>7 DEF MxuDone
<1>13. QED BY <1>2, <1>4, <1>7, <1>8, <1>9, <1>10, <1>11, <1>12

\* The cycle that serves START.
LEMMA StartCycle ==
  ASSUME HostType, Emptied(Buffers), NEW D \in SUBSET Windows, NEW go \in BOOLEAN, NEW acc, CycleWith(D, go, acc),
         acc["cfg"] = Acc(StartAt)
  PROVE  /\ Emptied(Buffers)' /\ \A b \in Buffers : acc[b] = NoAccess
         /\ Ready => Ready'
         /\ Resting => Progress'
         /\ eng'.st = "idle" => done'
<1>1. \A b \in Buffers : acc[b] = NoAccess /\ queue'[b] = <<>> BY EmptyServes DEF Emptied, Windows
<1>2. PICK a : a = acc["cfg"] OBVIOUS
<1>3. a[1] = "st" /\ a[3] = "CTRL" /\ a[4] = "START" BY <1>2, WaitAccesses
<1>4. StartPulse(a) /\ ~ClearDone(a) /\ ~Writes(a, "CFG_WRITE") /\ \A b \in Buffers : ~Writes(a, b)
  BY <1>3 DEF StartPulse, ClearDone, Writes, Buffers
<1>5. Engine(a, go) /\ Registers(a) BY <1>2 DEF CycleWith
<1>6. /\ eng.st = "idle" => eng'.st = "load" /\ eng'.c = 0 /\ outPort' = None
      /\ eng'.st = "idle" => eng.st \in {"idle", "done"}
  BY <1>4, <1>5, EngineIs
<1>7. eng.st = "done" => done' = TRUE BY <1>4, <1>5 DEF Registers, DoneNext, MxuDone
<1>8. Emptied(Buffers)' BY <1>1 DEF Emptied
<1>9. Ready => Ready' BY <1>2, <1>4, ReadyKept
<1>10. Resting => Progress'
  <2>1. \A d \in Cells : ~(d < 0) BY DEF Cells
  <2>2. QED BY <1>6, <2>1 DEF Resting, Progress
<1>11. QED BY <1>1, <1>6, <1>7, <1>8, <1>9, <1>10

LEMMA CycleC ==
  ASSUME HostType, AtC, InvC, NEW D \in SUBSET Windows, NEW go \in BOOLEAN, NEW acc, CycleWith(D, go, acc)
  PROVE  InvC'
<1>1. UNCHANGED <<pc, run, outcome, clean>> BY DEF CycleWith
<1>2. Acc(StartAt)' = Acc(StartAt) /\ Acc(PollAt)' = Acc(PollAt) /\ Acc(CheckAt)' = Acc(CheckAt) BY <1>1 DEF Acc
<1>3. Emptied(Buffers) /\ "cfg" \in Windows /\ "out" \in Buffers BY DEF InvC, Windows, Buffers
<1>4. /\ StartAt # PollAt /\ StartAt # CheckAt /\ PollAt # CheckAt
      /\ pc = StartAt \/ pc = PollAt \/ pc = CheckAt
  <2>1. pc \in 1 .. Last BY DEF HostType
  <2>2. QED BY <2>1, Places DEF AtC
<1>5. PICK s, t, u : s = Acc(StartAt) /\ t = Acc(PollAt) /\ u = Acc(CheckAt) OBVIOUS
<1>6. s[1] = "st" /\ t[1] = "poll" /\ u[1] = "check" BY <1>5, WaitAccesses
<1>7. \A a : a = NoAccess \/ a = t \/ a = u => a[1] \in {"none", "poll", "check"} BY <1>6, NoAccessIs
<1>8. CASE acc["cfg"] = NoAccess /\ queue'["cfg"] = queue["cfg"]
  <2>1. acc["cfg"][1] = "none" BY <1>8, NoAccessIs
  <2>2. /\ Emptied(Buffers)' /\ \A b \in Buffers : acc[b] = NoAccess
        /\ Ready => Ready'
        /\ Ready /\ Progress => Progress'
        /\ eng.st = "idle" /\ outPort = None => Resting'
        /\ eng.st = "idle" => eng'.st = "idle"
        /\ done' = IF MxuDone THEN TRUE ELSE done
        /\ (eng.st = "idle" => done) => (eng'.st = "idle" => done')
    BY <1>3, <2>1, QuietCycle
  <2>3. reply' = reply BY <1>3, <2>1, <2>2, NoAccessIs DEF CycleWith, Answer
  <2>4. CASE pc = StartAt BY <1>1, <1>4, <1>8, <2>2, <2>3, <2>4 DEF InvC, AtStart, Resting
  <2>5. CASE pc = PollAt
    <3>1. AtPoll BY <2>5 DEF InvC
    <3>2. Pending' <=> Pending BY <1>2, <1>8 DEF Pending
    <3>3. Pending /\ clean => Resting' BY <2>2, <3>1 DEF AtPoll, Resting
    <3>4. ~Pending => (clean => Progress') /\ (eng'.st = "idle" => done') BY <2>2, <3>1 DEF AtPoll, InvC
    <3>5. AtPoll' BY <1>1, <1>2, <1>8, <2>2, <2>3, <3>1, <3>2, <3>3, <3>4 DEF AtPoll, Answered
    <3>6. QED BY <1>1, <1>4, <2>2, <2>5, <3>5 DEF InvC
  <2>6. CASE pc = CheckAt
    <3>1. AtCheck BY <2>6 DEF InvC
    <3>2. clean => Results'
      <4>1. outPort = None BY <3>1 DEF AtCheck, HostType
      <4>2. \A c \in Cells : buf'["out"][c] = buf["out"][c] BY <1>3, <4>1, BuffersKept
      <4>3. QED BY <1>1, <3>1, <4>2 DEF AtCheck, Results, Golden
    <3>3. eng'.st = "idle" /\ done' BY <2>2, <3>1 DEF AtCheck
    <3>4. AtCheck' BY <1>1, <1>2, <1>8, <2>3, <3>1, <3>2, <3>3 DEF AtCheck, Answered
    <3>5. QED BY <1>1, <1>4, <2>2, <2>6, <3>4 DEF InvC
  <2>7. QED BY <1>4, <2>4, <2>5, <2>6
<1>9. CASE "cfg" \in D
  <2>1. queue["cfg"] # <<>> /\ acc["cfg"] = Head(queue["cfg"]) /\ queue'["cfg"] = Tail(queue["cfg"])
    BY <1>3, <1>9 DEF CycleWith
  <2>2. CASE pc = StartAt BY <2>1, <2>2 DEF InvC, AtStart
  <2>3. CASE pc = PollAt /\ queue["cfg"] = <<s, t>> /\ reply = Asked
    <3>1. acc["cfg"] = s /\ queue'["cfg"] = <<t>> BY <2>1, <2>3
    <3>2. /\ Emptied(Buffers)' /\ \A b \in Buffers : acc[b] = NoAccess
          /\ Ready => Ready'
          /\ Resting => Progress'
          /\ eng'.st = "idle" => done'
      BY <1>3, <1>5, <3>1, StartCycle
    <3>3. reply' = Asked BY <1>3, <1>6, <2>3, <3>1, <3>2, NoAccessIs DEF CycleWith, Answer
    <3>4. Pending /\ AtPoll BY <1>5, <2>1, <2>3, <3>1 DEF Pending, InvC
    <3>5. ~Pending' BY <1>2, <1>5, <1>6, <3>1 DEF Pending
    <3>6. clean => Progress' BY <3>2, <3>4 DEF AtPoll
    <3>7. ~Answered' BY <3>3 DEF Answered
    <3>8. AtPoll' BY <1>1, <1>2, <1>5, <3>1, <3>2, <3>3, <3>5, <3>6, <3>7 DEF AtPoll
    <3>9. QED BY <1>1, <1>4, <2>3, <3>2, <3>8 DEF InvC
  <2>4. CASE pc = PollAt /\ queue["cfg"] = <<s>> /\ reply = None
    <3>1. acc["cfg"] = s /\ queue'["cfg"] = <<>> BY <2>1, <2>4
    <3>2. /\ Emptied(Buffers)' /\ \A b \in Buffers : acc[b] = NoAccess
          /\ Ready => Ready'
          /\ Resting => Progress'
          /\ eng'.st = "idle" => done'
      BY <1>3, <1>5, <3>1, StartCycle
    <3>3. reply' = None BY <1>3, <1>6, <2>4, <3>1, <3>2, NoAccessIs DEF CycleWith, Answer
    <3>4. Pending /\ AtPoll BY <1>5, <2>1, <2>4, <3>1 DEF Pending, InvC
    <3>5. ~Pending' BY <3>1 DEF Pending
    <3>6. clean => Progress' BY <3>2, <3>4 DEF AtPoll
    <3>7. ~Answered' /\ reply' # Asked BY <3>3 DEF Answered, Asked, None
    <3>8. AtPoll' BY <1>1, <3>1, <3>2, <3>5, <3>6, <3>7 DEF AtPoll
    <3>9. QED BY <1>1, <1>4, <2>4, <3>2, <3>8 DEF InvC
  <2>5. CASE pc = PollAt /\ queue["cfg"] = <<t>> /\ reply = Asked
    <3>1. acc["cfg"] = t /\ queue'["cfg"] = <<>> BY <2>1, <2>5
    <3>2. /\ Emptied(Buffers)'
          /\ Ready => Ready'
          /\ Ready /\ Progress => Progress'
          /\ eng.st = "idle" => eng'.st = "idle"
          /\ (eng.st = "idle" => done) => (eng'.st = "idle" => done')
      BY <1>3, <1>6, <3>1, QuietCycle
    <3>3. reply' = <<[busy |-> Busy, done |-> done]>> BY <1>6, <3>1 DEF CycleWith, Answer
    <3>4. ~Pending /\ AtPoll
      <4>1. s # t BY <1>6
      <4>2. QED BY <1>5, <2>5, <4>1 DEF Pending, InvC
    <3>5. ~Pending' BY <3>1 DEF Pending
    <3>6. clean => Progress' BY <3>2, <3>4 DEF AtPoll, InvC
    <3>7. eng'.st = "idle" => done' BY <3>2, <3>4 DEF AtPoll
    <3>8. reply' # Asked /\ reply'[1].busy = Busy BY <3>3 DEF Asked
    <3>9. ~reply'[1].busy => eng'.st = "idle" BY <3>2, <3>8 DEF Busy
    <3>10. AtPoll' BY <1>1, <3>1, <3>5, <3>6, <3>7, <3>8, <3>9 DEF AtPoll
    <3>11. QED BY <1>1, <1>4, <2>5, <3>2, <3>10 DEF InvC
  <2>6. CASE pc = CheckAt
    <3>1. AtCheck BY <2>6 DEF InvC
    <3>2. queue["cfg"] = <<u>> /\ reply = Asked BY <1>5, <2>1, <3>1 DEF AtCheck
    <3>3. acc["cfg"] = u /\ queue'["cfg"] = <<>> BY <2>1, <3>2
    <3>4. /\ Emptied(Buffers)'
          /\ Ready => Ready'
          /\ eng.st = "idle" => eng'.st = "idle"
          /\ done' = IF MxuDone THEN TRUE ELSE done
      BY <1>3, <1>6, <3>3, QuietCycle
    <3>5. reply' = <<[busy |-> Busy, done |-> done]>> BY <1>6, <3>3 DEF CycleWith, Answer
    <3>6. reply' # Asked /\ reply'[1].done = done BY <3>5 DEF Asked
    <3>7. clean => Results'
      <4>1. outPort = None BY <3>1 DEF AtCheck, HostType
      <4>2. \A c \in Cells : buf'["out"][c] = buf["out"][c] BY <1>3, <4>1, BuffersKept
      <4>3. QED BY <1>1, <3>1, <4>2 DEF AtCheck, Results, Golden
    <3>8. AtCheck' BY <1>1, <3>1, <3>3, <3>4, <3>6, <3>7 DEF AtCheck
    <3>9. QED BY <1>1, <1>4, <2>6, <3>4, <3>8 DEF InvC
  <2>7. CASE pc = PollAt
    <3>1. AtPoll BY <2>7 DEF InvC
    <3>2. QED BY <1>5, <2>1, <2>3, <2>4, <2>5, <2>7, <3>1 DEF AtPoll
  <2>8. QED BY <1>4, <2>2, <2>6, <2>7
<1>10. QED BY <1>3, <1>8, <1>9 DEF CycleWith

LEMMA CycleStep ==
  ASSUME HostInv, NEW D \in SUBSET Windows, NEW go \in BOOLEAN, Cycle(D, go)
  PROVE  HostInv'
<1>1. PICK acc : CycleWith(D, go, acc) BY CycleIs
<1>2. UNCHANGED <<pc, outcome, clean>> BY <1>1 DEF CycleWith
<1>3. HostType' /\ OwnProduct' BY <1>1, <1>2, TypeCycle DEF HostInv, OwnProduct
<1>4. /\ AtU' <=> AtU
      /\ AtA' <=> AtA
      /\ AtB' <=> AtB
      /\ AtC' <=> AtC
      /\ AtD' <=> AtD
      /\ AtE' <=> AtE
  BY <1>2 DEF AtU, AtA, AtB, AtC, AtD, AtE
<1>5. HostType BY DEF HostInv
<1>6. AtU => InvU' BY <1>1, <1>5, CycleU DEF HostInv
<1>7. AtA => InvA' BY <1>1, <1>5, CycleA DEF HostInv
<1>8. AtB => InvB' BY <1>1, <1>5, CycleB DEF HostInv
<1>9. AtC => InvC' BY <1>1, <1>5, CycleC DEF HostInv
<1>10. AtD => InvD' BY <1>1, <1>5, CycleD DEF HostInv
<1>11. AtE => InvE' BY <1>1, <1>5, CycleE DEF HostInv
<1>12. QED BY <1>3, <1>4, <1>6, <1>7, <1>8, <1>9, <1>10, <1>11 DEF HostInv

----------------------------------------------------------------------------
(* The instructions of the CPU.                                            *)

\* One part of the invariant speaks of a state.
LEMMA OnePart ==
  ASSUME HostType', OwnProduct',
         \/ AtU' /\ InvU'
         \/ AtA' /\ InvA'
         \/ AtB' /\ InvB'
         \/ AtC' /\ InvC'
         \/ AtD' /\ InvD'
         \/ AtE' /\ InvE'
  PROVE  HostInv'
<1>1. pc' \in 1 .. Last /\ outcome' \in {"running", "timeout", "pass", "fail"} BY DEF HostType
<1>2. /\ AtA' => ~AtB' /\ ~AtC' /\ ~AtD' /\ ~AtE' /\ ~AtU'
      /\ AtB' => ~AtA' /\ ~AtC' /\ ~AtD' /\ ~AtE' /\ ~AtU'
      /\ AtC' => ~AtA' /\ ~AtB' /\ ~AtD' /\ ~AtE' /\ ~AtU'
      /\ AtD' => ~AtA' /\ ~AtB' /\ ~AtC' /\ ~AtE' /\ ~AtU'
      /\ AtE' => ~AtA' /\ ~AtB' /\ ~AtC' /\ ~AtD' /\ ~AtU'
      /\ AtU' => ~AtA' /\ ~AtB' /\ ~AtC' /\ ~AtD' /\ ~AtE'
  BY <1>1, Places DEF AtA, AtB, AtC, AtD, AtE, AtU
<1>3. QED BY <1>2 DEF HostInv

\* What an instruction of the CPU posts.
LEMMA PostIs ==
  ASSUME HostType, outcome = "running", Post(Append(I, run))
  PROVE  LET w == Program[pc][2] IN
         /\ w \in Windows /\ queue[w] \in Seq(Accesses(w)) /\ Acc(pc) \in Accesses(w)
         /\ DOMAIN queue' = Windows /\ queue'[w] = Append(queue[w], Acc(pc))
         /\ \A v \in Windows : v # w => queue'[v] = queue[v]
         /\ \A v \in Windows : queue'[v] \in Seq(Accesses(v))
<1>1. PICK k \in 1 .. Last, r \in Nat : k = pc /\ r = run BY DEF HostType
<1>2. PICK w : w = Program[k][2] OBVIOUS
<1>3. w \in Windows BY <1>2, KindOf
<1>4. PICK x : x = Append(Program[k], r) OBVIOUS
<1>5. x[2] = w BY <1>2, <1>4, FieldsOf
<1>6. x = Acc(pc) /\ Append(I, run) = x BY <1>1, <1>4 DEF Acc, I
<1>7. x \in Accesses(w) BY <1>2, <1>4 DEF Accesses
<1>8. queue' = [queue EXCEPT ![w] = Append(queue[w], x)] BY <1>5, <1>6 DEF Post
<1>9. DOMAIN queue = Windows /\ \A v \in Windows : queue[v] \in Seq(Accesses(v)) BY DEF HostType
<1>10. queue'[w] = Append(queue[w], x) /\ (\A v \in Windows : v # w => queue'[v] = queue[v]) /\ DOMAIN queue' = Windows
  BY <1>3, <1>8, <1>9
<1>11. Append(queue[w], x) \in Seq(Accesses(w)) BY <1>3, <1>7, <1>9
<1>12. \A v \in Windows : queue'[v] \in Seq(Accesses(v)) BY <1>9, <1>10, <1>11
<1>13. QED BY <1>1, <1>2, <1>3, <1>6, <1>7, <1>9, <1>10, <1>12

LEMMA StoreStep ==
  ASSUME HostInv, Store
  PROVE  HostInv'
<1>1. /\ outcome = "running" /\ Program[pc][1] = "st" /\ Post(Append(I, run)) /\ pc' = pc + 1
      /\ UNCHANGED <<run, reply, outcome, clean, sel, done, regs, buf, eng, outPort>>
  BY DEF Store, At, devVars
<1>2. HostType /\ OwnProduct BY DEF HostInv
<1>3. PICK w : w = Program[pc][2] OBVIOUS
<1>4. /\ w \in Windows /\ queue[w] \in Seq(Accesses(w)) /\ Acc(pc) \in Accesses(w)
      /\ DOMAIN queue' = Windows /\ queue'[w] = Append(queue[w], Acc(pc))
      /\ \A v \in Windows : v # w => queue'[v] = queue[v]
      /\ \A v \in Windows : queue'[v] \in Seq(Accesses(v))
  BY <1>1, <1>2, <1>3, PostIs
<1>5. pc \in 1 .. Last BY <1>2 DEF HostType
<1>6. ~(pc = FenceA \/ pc = FenceB \/ pc = FenceD \/ pc = PollAt \/ pc = CheckAt \/ pc > FenceD)
  BY <1>1, <1>5, KindOf
<1>7. /\ w = "wgt" <=> (pc >= WgtAt /\ pc < ActAt)
      /\ w = "act" <=> (pc >= ActAt /\ pc < FenceA)
      /\ w # "out"
  BY <1>3, <1>5, <1>6, KindOf
<1>8. pc' \in 1 .. Last BY <1>1, <1>5, <1>6, Places
<1>9. HostType'
  <2>1. DOMAIN queue' = Windows /\ \A v \in Windows : queue'[v] \in Seq(Accesses(v)) BY <1>4
  <2>2. QED BY <1>1, <1>2, <1>8, <2>1 DEF HostType
<1>10. OwnProduct' BY <1>1, <1>2 DEF OwnProduct
<1>11. PICK q, x, p, r : q = queue[w] /\ x = Acc(pc) /\ p = queue'[w] /\ r = run OBVIOUS
<1>12. x = Append(Program[pc], r) /\ q \in Seq(Accesses(w)) /\ x \in Accesses(w) /\ p = Append(q, x)
  BY <1>4, <1>11 DEF Acc
<1>13. \A lo, hi \in Int : hi + 1 = pc /\ Tailing(q, lo, hi, r) => Tailing(p, lo, pc, r) /\ Due(p, pc) = Due(q, hi)
  BY <1>12, PostedIs, SMTT(40)
<1>14. "cfg" \in Windows /\ "wgt" \in Windows /\ "act" \in Windows /\ "out" \in Windows /\ Buffers \subseteq Windows
       /\ Windows = {"cfg", "wgt", "act", "out"} /\ Buffers = {"wgt", "act", "out"}
  BY DEF Windows, Buffers
<1>15. CASE AtU
  <2>1. AtU' BY <1>1, <1>5, <1>6, <1>15, Places DEF AtU
  <2>2. InvU BY <1>15 DEF HostInv
  <2>3. x[1] = "st" BY <1>1, <1>5, <1>12, FieldsOf
  <2>4. \A i \in 1 .. Len(p) : p[i][1] = "st"
    <3>1. \A i \in 1 .. Len(q) : q[i][1] = "st" BY <1>4, <1>11, <2>2 DEF InvU
    <3>2. \A i \in 1 .. Len(p) : (i \in 1 .. Len(q) /\ p[i] = q[i]) \/ p[i] = x BY <1>12
    <3>3. QED BY <2>3, <3>1, <3>2
  <2>5. ASSUME NEW v \in Windows, NEW i \in 1 .. Len(queue'[v]) PROVE queue'[v][i][1] = "st"
    <3>1. CASE v = w BY <1>11, <2>4, <2>5, <3>1
    <3>2. CASE v # w BY <1>4, <2>2, <2>5, <3>2 DEF InvU
    <3>3. QED BY <3>1, <3>2
  <2>6. InvU' BY <1>1, <2>2, <2>5 DEF InvU
  <2>7. QED BY <1>9, <1>10, <2>1, <2>6, OnePart
<1>16. CASE AtA
  <2>1. AtA' BY <1>1, <1>5, <1>6, <1>16, Places DEF AtA
  <2>2. InvA BY <1>16 DEF HostInv
  <2>3. pc < FenceA BY <1>5, <1>6, <1>16, Places DEF AtA
  <2>4. queue'["out"] = <<>> BY <1>4, <1>7, <1>14, <2>2 DEF InvA
  <2>5. /\ w = "cfg" => HiCfg + 1 = pc /\ HiCfg' = pc
        /\ w # "cfg" => HiCfg' = HiCfg
        /\ w = "wgt" => HiWgt + 1 = pc /\ HiWgt' = pc
        /\ w # "wgt" => HiWgt' = HiWgt
        /\ w = "act" => HiAct + 1 = pc /\ HiAct' = pc
        /\ w # "act" => HiAct' = HiAct
        /\ HiCfg \in Int /\ HiWgt \in Int /\ HiAct \in Int
    <3>1. pc < WgtAt \/ (pc >= WgtAt /\ pc < ActAt) \/ (pc >= ActAt /\ pc < FenceA) BY <1>5, <2>3, Places
    <3>2. w = "cfg" => pc < WgtAt BY <1>7, <3>1
    <3>3. w # "cfg" => pc >= WgtAt BY <1>4, <1>5, <1>7, <1>14, Places
    <3>4. w # "wgt" => pc < WgtAt \/ pc >= ActAt BY <1>5, <1>7, Places
    <3>5. w # "act" => pc < ActAt BY <1>5, <1>7, <2>3, Places
    <3>6. QED BY <1>1, <1>5, <1>7, <2>3, <3>2, <3>3, <3>4, <3>5, Places DEF HiCfg, HiWgt, HiAct, Clamp
  <2>6. Tailing(queue'["cfg"], 1, HiCfg', run)
    <3>1. CASE w = "cfg" BY <1>11, <1>13, <2>2, <2>5, <3>1 DEF InvA
    <3>2. CASE w # "cfg" BY <1>4, <1>14, <2>2, <2>5, <3>2 DEF InvA
    <3>3. QED BY <3>1, <3>2
  <2>7. /\ Tailing(queue'["wgt"], WgtAt, HiWgt', run)
        /\ \A c \in Cells : WgtAt + c < Due(queue'["wgt"], HiWgt') => buf["wgt"][c] = run
    <3>1. CASE w = "wgt"
      <4>1. Tailing(q, WgtAt, HiWgt, r) BY <1>11, <2>2, <3>1 DEF InvA
      <4>2. Tailing(p, WgtAt, pc, r) /\ Due(p, pc) = Due(q, HiWgt) BY <1>13, <2>5, <3>1, <4>1, Places
      <4>3. QED BY <1>11, <2>2, <2>5, <3>1, <4>2 DEF InvA
    <3>2. CASE w # "wgt" BY <1>4, <1>14, <2>2, <2>5, <3>2 DEF InvA
    <3>3. QED BY <3>1, <3>2
  <2>8. /\ Tailing(queue'["act"], ActAt, HiAct', run)
        /\ \A c \in Cells : ActAt + c < Due(queue'["act"], HiAct') => buf["act"][c] = run
    <3>1. CASE w = "act"
      <4>1. Tailing(q, ActAt, HiAct, r) BY <1>11, <2>2, <3>1 DEF InvA
      <4>2. Tailing(p, ActAt, pc, r) /\ Due(p, pc) = Due(q, HiAct) BY <1>13, <2>5, <3>1, <4>1, Places
      <4>3. QED BY <1>11, <2>2, <2>5, <3>1, <4>2 DEF InvA
    <3>2. CASE w # "act" BY <1>4, <1>14, <2>2, <2>5, <3>2 DEF InvA
    <3>3. QED BY <3>1, <3>2
  <2>9. Resting' /\ AllCPU' BY <1>1, <2>2 DEF InvA, Resting, AllCPU
  <2>10. InvA' BY <1>1, <2>2, <2>4, <2>6, <2>7, <2>8, <2>9 DEF InvA
  <2>11. QED BY <1>9, <1>10, <2>1, <2>10, OnePart
<1>17. CASE AtB
  <2>1. AtB' BY <1>1, <1>5, <1>6, <1>17, Places DEF AtB
  <2>2. InvB BY <1>17 DEF HostInv
  <2>3. w = "cfg" BY <1>4, <1>5, <1>7, <1>14, <1>17, Places DEF AtB
  <2>4. Tailing(q, FenceA + 1, pc - 1, r) BY <1>11, <2>2, <2>3 DEF InvB
  <2>5. Tailing(p, FenceA + 1, pc, r) /\ Due(p, pc) = Due(q, pc - 1)
    <3>1. pc - 1 \in Int /\ (pc - 1) + 1 = pc /\ FenceA + 1 \in Int BY <1>5, Places
    <3>2. QED BY <1>13, <2>4, <3>1
  <2>6. pc' - 1 = pc BY <1>1, <1>5, Places
  <2>7. Emptied(Buffers)' BY <1>4, <1>14, <2>2, <2>3 DEF InvB, Emptied
  <2>8. Resting' /\ Inputs' BY <1>1, <2>2 DEF InvB, Resting, Inputs
  <2>9. InvB' BY <1>1, <1>11, <2>2, <2>3, <2>5, <2>6, <2>7, <2>8 DEF InvB
  <2>10. QED BY <1>9, <1>10, <2>1, <2>9, OnePart
<1>18. CASE AtC
  <2>1. InvC BY <1>18 DEF HostInv
  <2>2. pc = StartAt /\ pc' = PollAt /\ AtC' /\ PollAt # StartAt /\ PollAt # CheckAt
    BY <1>1, <1>5, <1>6, <1>18, Places DEF AtC
  <2>3. w = "cfg" BY <1>4, <1>5, <1>7, <1>14, <2>2, Places
  <2>4. AtStart BY <2>1, <2>2 DEF InvC
  <2>5. queue'["cfg"] = <<Acc(StartAt)>> BY <1>4, <2>2, <2>3, <2>4 DEF AtStart
  <2>6. Acc(StartAt)' = Acc(StartAt) BY <1>1 DEF Acc
  <2>7. Pending' BY <2>5, <2>6 DEF Pending
  <2>8. ~Answered' /\ reply' = None BY <1>1, <2>4 DEF AtStart, Answered
  <2>9. AtPoll' BY <1>1, <2>4, <2>5, <2>6, <2>7, <2>8 DEF AtPoll, AtStart, Resting
  <2>10. Emptied(Buffers)' BY <1>4, <1>14, <2>1, <2>3 DEF InvC, Emptied
  <2>11. Ready' <=> Ready BY <1>1 DEF Ready, Inputs
  <2>12. InvC' BY <1>1, <2>1, <2>2, <2>9, <2>10, <2>11 DEF InvC
  <2>13. QED BY <1>9, <1>10, <2>2, <2>12, OnePart
<1>19. CASE AtD
  <2>1. AtD' BY <1>1, <1>5, <1>6, <1>19, Places DEF AtD
  <2>2. InvD BY <1>19 DEF HostInv
  <2>3. w = "cfg" BY <1>4, <1>5, <1>7, <1>14, <1>19, Places DEF AtD
  <2>4. Tailing(q, CheckAt + 1, pc - 1, r) BY <1>11, <2>2, <2>3 DEF InvD
  <2>5. Tailing(p, CheckAt + 1, pc, r) /\ Due(p, pc) = Due(q, pc - 1)
    <3>1. pc - 1 \in Int /\ (pc - 1) + 1 = pc /\ CheckAt + 1 \in Int BY <1>5, Places
    <3>2. QED BY <1>13, <2>4, <3>1
  <2>6. pc' - 1 = pc BY <1>1, <1>5, Places
  <2>7. Emptied(Buffers)' BY <1>4, <1>14, <2>2, <2>3 DEF InvD, Emptied
  <2>8. Resting' /\ (clean => Results)' BY <1>1, <2>2 DEF InvD, Resting, Results, Golden
  <2>9. InvD' BY <1>1, <1>11, <2>2, <2>3, <2>5, <2>6, <2>7, <2>8 DEF InvD
  <2>10. QED BY <1>9, <1>10, <2>1, <2>9, OnePart
<1>20. AtU \/ AtA \/ AtB \/ AtC \/ AtD
  <2>1. clean \in BOOLEAN BY <1>2 DEF HostType
  <2>2. QED BY <1>1, <1>5, <1>6, <2>1, Places DEF AtU, AtA, AtB, AtC, AtD
<1>21. QED BY <1>15, <1>16, <1>17, <1>18, <1>19, <1>20

\* The fences: no store is pending when they are passed.
LEMMA FenceStep ==
  ASSUME HostInv, FenceDone
  PROVE  HostInv'
<1>1. /\ outcome = "running" /\ Program[pc][1] = "fence" /\ pc' = pc + 1
      /\ UNCHANGED <<run, reply, outcome, clean, queue, sel, done, regs, buf, eng, outPort>>
      /\ \A w \in Windows : queue[w] = <<>>
  BY DEF FenceDone, At, devVars
<1>2. HostType /\ OwnProduct BY DEF HostInv
<1>3. pc \in 1 .. Last /\ clean \in BOOLEAN BY <1>2 DEF HostType
<1>4. pc = FenceA \/ pc = FenceB \/ pc = FenceD BY <1>1, <1>3, KindOf
<1>5. pc' \in 1 .. Last BY <1>1, <1>3, <1>4, Places
<1>6. HostType' BY <1>1, <1>2, <1>5 DEF HostType
<1>7. OwnProduct' BY <1>1, <1>2 DEF OwnProduct
<1>8. queue["cfg"] = <<>> /\ queue["wgt"] = <<>> /\ queue["act"] = <<>> /\ queue["out"] = <<>> /\ Emptied(Buffers)' /\ Emptied(Windows)'
  BY <1>1 DEF Windows, Buffers, Emptied
<1>9. CASE pc = FenceA /\ clean
  <2>1. InvA
    <3>1. AtA BY <1>1, <1>3, <1>9, Places DEF AtA
    <3>2. QED BY <3>1 DEF HostInv
  <2>2. AtB' BY <1>1, <1>3, <1>9, Places DEF AtB
  <2>3. HiWgt = ActAt - 1 /\ HiAct = FenceA - 1 BY <1>9, Places DEF HiWgt, HiAct, Clamp
  <2>4. Due(<<>>, HiWgt) = ActAt /\ Due(<<>>, HiAct) = FenceA BY <2>3, EmptyIs, Places
  <2>5. \A c \in Cells : WgtAt + c < ActAt /\ ActAt + c < FenceA BY Places DEF Cells
  <2>6. \A c \in Cells : WgtAt + c < Due(queue["wgt"], HiWgt) /\ ActAt + c < Due(queue["act"], HiAct)
    BY <1>8, <2>4, <2>5
  <2>7. Inputs' BY <1>1, <2>1, <2>6 DEF InvA, Inputs
  <2>8. Resting' /\ reply' = None BY <1>1, <2>1 DEF InvA, Resting
  <2>9. PICK k \in Int, r \in Nat : k = FenceA + 1 /\ k = pc' /\ r = run'
    <3>1. pc = FenceA /\ pc' = pc + 1 BY <1>1, <1>9, Zenon
    <3>2. pc' = FenceA + 1 /\ FenceA + 1 \in Int BY <3>1, Places
    <3>3. run' \in Nat BY <1>6 DEF HostType
    <3>4. QED BY <3>2, <3>3
  <2>10. k - 1 = FenceA /\ (FenceA + 1) - 1 = FenceA /\ FenceA + 1 \in Int /\ FenceA \in Int BY <2>9, Places
  <2>11. Tailing(<<>>, FenceA + 1, k - 1, r) /\ Due(<<>>, k - 1) = FenceA + 1 BY <2>10, EmptyIs
  <2>12. (\A f \in Fields : ~(FenceA + 1 + f < FenceA + 1)) /\ ~(FenceB - 3 < FenceA + 1)
         /\ ~(FenceB - 2 < FenceA + 1) /\ ~(FenceB - 1 < FenceA + 1)
    BY Places DEF Fields
  <2>13. queue'["cfg"] = <<>> BY <1>1, <1>8
  <2>14. Tailing(queue'["cfg"], FenceA + 1, pc' - 1, run') /\ Due(queue'["cfg"], pc' - 1) = FenceA + 1 BY <2>9, <2>11, <2>13
  <2>15. InvB' BY <1>8, <2>7, <2>8, <2>12, <2>14 DEF InvB
  <2>16. QED BY <1>6, <1>7, <2>2, <2>15, OnePart
<1>10. CASE pc = FenceA /\ ~clean
  <2>1. AtU /\ AtU' BY <1>1, <1>3, <1>10, Places DEF AtU
  <2>2. InvU' BY <1>1, <2>1 DEF HostInv, InvU
  <2>3. QED BY <1>6, <1>7, <2>1, <2>2, OnePart
<1>11. CASE pc = FenceB
  <2>1. AtC' /\ pc' = StartAt /\ pc' # PollAt /\ pc' # CheckAt BY <1>1, <1>3, <1>11, Places DEF AtC
  <2>2. clean => InvB
    <3>1. clean => AtB BY <1>1, <1>3, <1>11, Places DEF AtB
    <3>2. QED BY <3>1 DEF HostInv
  <2>3. ~clean => InvU
    <3>1. ~clean => AtU BY <1>1, <1>3, <1>11, Places DEF AtU
    <3>2. QED BY <3>1 DEF HostInv
  <2>4. reply = None BY <2>2, <2>3 DEF InvB, InvU
  <2>5. clean => Ready
    <3>1. Due(<<>>, pc - 1) = FenceB BY <1>11, EmptyIs, Places
    <3>2. FenceB - 3 < FenceB /\ FenceB - 2 < FenceB /\ FenceB - 1 < FenceB /\ \A f \in Fields : FenceA + 1 + f < FenceB
      BY Places DEF Fields
    <3>3. Due(queue["cfg"], pc - 1) = FenceB BY <1>8, <3>1
    <3>4. QED BY <2>2, <3>2, <3>3 DEF InvB, Ready
  <2>6. (clean => Ready)' BY <1>1, <2>5 DEF Ready, Inputs
  <2>7. AtStart' BY <1>1, <1>8, <2>2, <2>4 DEF AtStart, InvB, Resting
  <2>8. InvC' BY <1>8, <2>1, <2>6, <2>7 DEF InvC
  <2>9. QED BY <1>6, <1>7, <2>1, <2>8, OnePart
<1>12. CASE pc = FenceD
  <2>1. AtD /\ AtE' BY <1>1, <1>3, <1>12, Places DEF AtD, AtE
  <2>2. InvD BY <2>1 DEF HostInv
  <2>3. Due(<<>>, pc - 1) = FenceD BY <1>12, EmptyIs, Places
  <2>4. CheckAt + 1 < FenceD /\ CheckAt + 2 < FenceD /\ CheckAt + 3 < FenceD BY Places
  <2>5. Due(queue["cfg"], pc - 1) = FenceD BY <1>8, <2>3
  <2>6. sel["wgt"] = CPU /\ sel["act"] = CPU /\ sel["out"] = CPU BY <2>2, <2>4, <2>5 DEF InvD
  <2>7. AllCPU' BY <1>1, <2>6 DEF AllCPU, Buffers
  <2>8. Resting' /\ (clean => Results)' BY <1>1, <2>2 DEF InvD, Resting, Results, Golden
  <2>9. Emptied(Windows \ {"out"})' BY <1>8 DEF Emptied
  <2>10. reply' = None /\ None # Asked /\ ~Answered' BY <1>1, <2>2 DEF InvD, None, Asked, Answered
  <2>11. queue'["out"] = <<>> BY <1>1, <1>8
  <2>12. InvE' BY <2>7, <2>8, <2>9, <2>10, <2>11 DEF InvE
  <2>13. QED BY <1>6, <1>7, <2>1, <2>12, OnePart
<1>13. QED BY <1>3, <1>4, <1>9, <1>10, <1>11, <1>12

\* The polls, the check and the loads of the comparison.
LEMMA AskStep ==
  ASSUME HostInv, Ask
  PROVE  HostInv'
<1>1. /\ outcome = "running" /\ Program[pc][1] \in {"poll", "check", "ld"} /\ reply = None /\ Post(Append(I, run))
      /\ reply' = Asked
      /\ UNCHANGED <<pc, run, outcome, clean, sel, done, regs, buf, eng, outPort>>
  BY DEF Ask, At, devVars
<1>2. HostType /\ OwnProduct BY DEF HostInv
<1>3. pc \in 1 .. Last BY <1>2 DEF HostType
<1>4. PICK w : w = Program[pc][2] OBVIOUS
<1>5. /\ w \in Windows /\ DOMAIN queue' = Windows /\ queue'[w] = Append(queue[w], Acc(pc))
      /\ \A v \in Windows : v # w => queue'[v] = queue[v]
      /\ \A v \in Windows : queue'[v] \in Seq(Accesses(v))
  BY <1>1, <1>2, <1>4, PostIs
<1>6. pc = PollAt \/ pc = CheckAt \/ pc > FenceD BY <1>1, <1>3, KindOf
<1>7. HostType' BY <1>1, <1>2, <1>5 DEF HostType
<1>8. OwnProduct' BY <1>1, <1>2 DEF OwnProduct
<1>9. Windows = {"cfg", "wgt", "act", "out"} /\ Buffers = {"wgt", "act", "out"} BY DEF Windows, Buffers
<1>10. None # Asked /\ ~Answered' BY <1>1 DEF None, Asked, Answered
<1>11. \A k : Acc(k)' = Acc(k) BY <1>1 DEF Acc
<1>12. CASE pc = PollAt \/ pc = CheckAt
  <2>1. AtC /\ AtC' /\ pc # StartAt BY <1>1, <1>3, <1>12, Places DEF AtC
  <2>2. w = "cfg"
    <3>1. w # "wgt" /\ w # "act" /\ w # "out" BY <1>3, <1>4, <1>12, KindOf, Places
    <3>2. QED BY <1>5, <1>9, <3>1
  <2>3. InvC BY <2>1 DEF HostInv
  <2>4. Emptied(Buffers)' BY <1>5, <1>9, <2>2, <2>3 DEF InvC, Emptied
  <2>5. (clean => Ready)' BY <1>1, <2>3 DEF InvC, Ready, Inputs
  <2>6. pc = PollAt => AtPoll'
    <3>1. SUFFICES ASSUME pc = PollAt PROVE AtPoll' OBVIOUS
    <3>2. AtPoll BY <2>3, <3>1 DEF InvC
    <3>3. queue["cfg"] = <<Acc(StartAt)>> \/ queue["cfg"] = <<>> BY <1>1, <1>10, <3>2 DEF AtPoll
    <3>4. CASE queue["cfg"] = <<Acc(StartAt)>>
      <4>1. queue'["cfg"] = <<Acc(StartAt), Acc(PollAt)>> BY <1>5, <2>2, <3>1, <3>4
      <4>2. Pending BY <3>4 DEF Pending
      <4>3. Pending' BY <1>11, <4>1 DEF Pending
      <4>4. (clean => Resting)' BY <1>1, <3>2, <4>2 DEF AtPoll, Resting
      <4>5. QED BY <1>1, <1>10, <1>11, <4>1, <4>3, <4>4 DEF AtPoll
    <3>5. CASE queue["cfg"] = <<>>
      <4>1. queue'["cfg"] = <<Acc(PollAt)>> BY <1>5, <2>2, <3>1, <3>5
      <4>2. ~Pending BY <3>5 DEF Pending
      <4>3. (clean => Progress) /\ (eng.st = "idle" => done) BY <3>2, <4>2 DEF AtPoll
      <4>4. ~Pending'
        <5>1. Acc(PollAt)[1] = "poll" /\ Acc(StartAt)[1] = "st"
          <6>1. PollAt \in 1 .. Last /\ StartAt \in 1 .. Last BY Places
          <6>2. Program[PollAt][1] = "poll" BY <6>1, KindOf
          <6>3. Program[StartAt][1] = "st" BY StoresOf DEF StoreOf
          <6>4. QED BY <6>1, <6>2, <6>3, FieldsOf, ZenonT(60) DEF Acc
        <5>2. Head(queue'["cfg"]) = Acc(PollAt) BY <4>1
        <5>3. QED BY <1>11, <5>1, <5>2 DEF Pending
      <4>5. (clean => Progress)' BY <1>1, <4>3 DEF Progress, Golden, Results
      <4>6. (eng.st = "idle" => done)' BY <1>1, <4>3
      <4>7. QED BY <1>1, <1>10, <1>11, <4>1, <4>4, <4>5, <4>6 DEF AtPoll
    <3>6. QED BY <3>3, <3>4, <3>5
  <2>7. pc = CheckAt => AtCheck'
    <3>1. SUFFICES ASSUME pc = CheckAt PROVE AtCheck' OBVIOUS
    <3>2. AtCheck BY <2>3, <3>1 DEF InvC
    <3>3. queue["cfg"] = <<>> BY <1>1, <1>10, <3>2 DEF AtCheck
    <3>4. queue'["cfg"] = <<Acc(CheckAt)>> BY <1>5, <2>2, <3>1, <3>3
    <3>5. (clean => Results)' BY <1>1, <3>2 DEF AtCheck, Results, Golden
    <3>6. QED BY <1>1, <1>10, <1>11, <3>2, <3>4, <3>5 DEF AtCheck
  <2>8. InvC' BY <1>1, <2>1, <2>4, <2>5, <2>6, <2>7 DEF InvC
  <2>9. QED BY <1>7, <1>8, <2>1, <2>8, OnePart
<1>13. CASE pc > FenceD
  <2>1. AtE /\ AtE' BY <1>1, <1>13 DEF AtE
  <2>2. w = "out" BY <1>3, <1>4, <1>13, KindOf
  <2>3. InvE BY <2>1 DEF HostInv
  <2>4. queue["out"] = <<>> BY <1>1, <1>10, <2>3 DEF InvE
  <2>5. queue'["out"] = <<Acc(pc)>> BY <1>5, <2>2, <2>4
  <2>6. Acc(pc)' = Acc(pc) BY <1>1 DEF Acc
  <2>7. Resting' /\ AllCPU' BY <1>1, <2>3 DEF InvE, Resting, AllCPU
  <2>8. Emptied(Windows \ {"out"})' BY <1>5, <2>2, <2>3 DEF InvE, Emptied
  <2>9. (outcome = "running" /\ clean => Results)' BY <1>1, <2>3 DEF InvE, Results, Golden
  <2>10. InvE' BY <1>1, <1>10, <2>5, <2>6, <2>7, <2>8, <2>9 DEF InvE
  <2>11. QED BY <1>7, <1>8, <2>1, <2>10, OnePart
<1>14. QED BY <1>6, <1>12, <1>13

\* wait_done gives up.
LEMMA TimeoutStep ==
  ASSUME HostInv, Timeout
  PROVE  HostInv'
<1>1. /\ outcome = "running" /\ Program[pc][1] = "poll" /\ reply = None /\ outcome' = "timeout"
      /\ UNCHANGED <<pc, run, reply, clean, queue, sel, done, regs, buf, eng, outPort>>
  BY DEF Timeout, At, devVars
<1>2. HostType BY DEF HostInv
<1>3. pc \in 1 .. Last BY <1>2 DEF HostType
<1>4. pc = PollAt BY <1>1, <1>3, KindOf
<1>5. HostType' BY <1>1, <1>2 DEF HostType
<1>6. OwnProduct' /\ AtU' BY <1>1 DEF OwnProduct, AtU
<1>7. AtC BY <1>1, <1>4, Places DEF AtC
<1>8. InvC /\ AtPoll BY <1>4, <1>7 DEF HostInv, InvC
<1>9. None # Asked BY DEF None, Asked
<1>10. queue["cfg"] = <<Acc(StartAt)>> \/ queue["cfg"] = <<>> BY <1>1, <1>8, <1>9 DEF AtPoll
<1>11. Acc(StartAt)[1] = "st"
  <2>1. StartAt \in 1 .. Last BY Places
  <2>2. Program[StartAt][1] = "st" BY StoresOf DEF StoreOf
  <2>3. QED BY <2>1, <2>2, FieldsOf DEF Acc
<1>12. \A i \in 1 .. Len(queue["cfg"]) : queue["cfg"][i][1] = "st"
  <2>1. PICK x : x = Acc(StartAt) OBVIOUS
  <2>2. \A i \in 1 .. Len(<<x>>) : <<x>>[i] = x OBVIOUS
  <2>3. Len(<<>>) = 0 OBVIOUS
  <2>4. CASE queue["cfg"] = <<x>> BY <1>11, <2>1, <2>2, <2>4
  <2>5. CASE queue["cfg"] = <<>> BY <2>3, <2>5
  <2>6. QED BY <1>10, <2>1, <2>4, <2>5
<1>13. \A v \in Buffers : \A i \in 1 .. Len(queue[v]) : queue[v][i][1] = "st"
  BY <1>8 DEF InvC, Emptied
<1>14. \A v \in Windows : \A i \in 1 .. Len(queue[v]) : queue[v][i][1] = "st"
  BY <1>12, <1>13 DEF Windows
<1>15. InvU' BY <1>1, <1>14 DEF InvU
<1>16. QED BY <1>5, <1>6, <1>15, OnePart

\* The answer of a poll: the wait goes on, or the job is over.
LEMMA PollStep ==
  ASSUME HostInv, Poll
  PROVE  HostInv'
<1>1. /\ outcome = "running" /\ Program[pc][1] = "poll" /\ Answered /\ reply' = None
      /\ UNCHANGED <<run, outcome, clean, queue, sel, done, regs, buf, eng, outPort>>
      /\ IF reply[1].busy THEN pc' = pc ELSE pc' = pc + 1
  BY DEF Poll, At, devVars
<1>2. HostType /\ OwnProduct BY DEF HostInv
<1>3. pc \in 1 .. Last BY <1>2 DEF HostType
<1>4. pc = PollAt BY <1>1, <1>3, KindOf
<1>5. pc' \in 1 .. Last BY <1>1, <1>3, <1>4, Places
<1>6. HostType' BY <1>1, <1>2, <1>5 DEF HostType
<1>7. OwnProduct' BY <1>1, <1>2 DEF OwnProduct
<1>8. AtC /\ AtC' BY <1>1, <1>4, Places DEF AtC
<1>9. InvC /\ AtPoll BY <1>4, <1>8 DEF HostInv, InvC
<1>10. None # Asked /\ ~Answered' BY <1>1 DEF None, Asked, Answered
<1>11. queue["cfg"] = <<>> /\ ~Pending /\ queue'["cfg"] = <<>> /\ ~Pending'
  BY <1>1, <1>9 DEF AtPoll, Answered, Pending
<1>12. Emptied(Buffers)' /\ (clean => Ready)' BY <1>1, <1>9 DEF InvC, Emptied, Ready, Inputs
<1>13. (clean => Progress) /\ (eng.st = "idle" => done) BY <1>9, <1>11 DEF AtPoll
<1>14. CASE reply[1].busy
  <2>1. (clean => Progress)' BY <1>1, <1>13 DEF Progress, Golden, Results
  <2>2. AtPoll' BY <1>1, <1>10, <1>11, <1>13, <2>1 DEF AtPoll
  <2>3. pc' = PollAt /\ pc' # StartAt /\ pc' # CheckAt BY <1>1, <1>4, <1>14, Places
  <2>4. InvC' BY <1>12, <2>2, <2>3 DEF InvC
  <2>5. QED BY <1>6, <1>7, <1>8, <2>4, OnePart
<1>15. CASE ~reply[1].busy
  <2>1. eng.st = "idle" BY <1>1, <1>9, <1>15 DEF AtPoll
  <2>2. (clean => Results)' BY <1>1, <1>13, <2>1 DEF Progress, Results, Golden
  <2>3. AtCheck' BY <1>1, <1>10, <1>11, <1>13, <2>1, <2>2 DEF AtCheck
  <2>4. pc' = CheckAt /\ pc' # StartAt /\ pc' # PollAt BY <1>1, <1>4, <1>15, Places
  <2>5. InvC' BY <1>12, <2>3, <2>4 DEF InvC
  <2>6. QED BY <1>6, <1>7, <1>8, <2>5, OnePart
<1>16. QED BY <1>14, <1>15

\* DONE is set when wait_done has seen the unit idle.
LEMMA CheckStep ==
  ASSUME HostInv, Check
  PROVE  HostInv'
<1>1. /\ outcome = "running" /\ Program[pc][1] = "check" /\ Answered /\ reply' = None /\ pc' = pc + 1
      /\ outcome' = IF reply[1].done THEN outcome ELSE "no_done"
      /\ UNCHANGED <<run, clean, queue, sel, done, regs, buf, eng, outPort>>
  BY DEF Check, At, devVars
<1>2. HostType /\ OwnProduct BY DEF HostInv
<1>3. pc \in 1 .. Last BY <1>2 DEF HostType
<1>4. pc = CheckAt BY <1>1, <1>3, KindOf
<1>5. pc' \in 1 .. Last BY <1>1, <1>3, <1>4, Places
<1>6. AtC BY <1>1, <1>4, Places DEF AtC
<1>7. InvC /\ AtCheck BY <1>4, <1>6 DEF HostInv, InvC
<1>8. outcome' = outcome BY <1>1, <1>7 DEF AtCheck
<1>9. HostType' BY <1>1, <1>2, <1>5, <1>8 DEF HostType
<1>10. OwnProduct' BY <1>1, <1>2, <1>8 DEF OwnProduct
<1>11. AtD' BY <1>1, <1>4, <1>8, Places DEF AtD
<1>12. queue'["cfg"] = <<>> BY <1>1, <1>7 DEF AtCheck, Answered
<1>13. Resting'
  <2>1. eng.st = "idle" BY <1>7 DEF AtCheck
  <2>2. outPort = None BY <1>2, <2>1 DEF HostType
  <2>3. QED BY <1>1, <2>1, <2>2 DEF Resting
<1>14. (clean => Results)' BY <1>1, <1>7 DEF AtCheck, Results, Golden
<1>15. Emptied(Buffers)' BY <1>1, <1>7 DEF InvC, Emptied
<1>16. PICK k \in Int, r \in Nat : k = CheckAt + 1 /\ k = pc' /\ r = run'
  <2>1. pc' = CheckAt + 1 /\ CheckAt + 1 \in Int BY <1>1, <1>4, Places
  <2>2. run' \in Nat BY <1>9 DEF HostType
  <2>3. QED BY <2>1, <2>2
<1>17. k - 1 = CheckAt /\ (CheckAt + 1) - 1 = CheckAt /\ CheckAt + 1 \in Int /\ CheckAt \in Int BY <1>16, Places
<1>18. Tailing(<<>>, CheckAt + 1, k - 1, r) /\ Due(<<>>, k - 1) = CheckAt + 1 BY <1>17, EmptyIs
<1>19. Tailing(queue'["cfg"], CheckAt + 1, pc' - 1, run') /\ Due(queue'["cfg"], pc' - 1) = CheckAt + 1 BY <1>12, <1>16, <1>18
<1>20. ~(CheckAt + 1 < CheckAt + 1) /\ ~(CheckAt + 2 < CheckAt + 1) /\ ~(CheckAt + 3 < CheckAt + 1) BY Places
<1>21. InvD' BY <1>1, <1>13, <1>14, <1>15, <1>19, <1>20 DEF InvD
<1>22. QED BY <1>9, <1>10, <1>11, <1>21, OnePart

\* A word of the results.
LEMMA CompareStep ==
  ASSUME HostInv, Compare
  PROVE  HostInv'
<1>1. /\ outcome = "running" /\ Program[pc][1] = "ld" /\ Answered /\ reply' = None
      /\ outcome' = IF reply[1] # Golden THEN "fail" ELSE IF pc = Len(Program) THEN "pass" ELSE "running"
      /\ pc' = IF outcome' = "running" THEN pc + 1 ELSE pc
      /\ UNCHANGED <<run, clean, queue, sel, done, regs, buf, eng, outPort>>
  BY DEF Compare, At, devVars
<1>2. HostType BY DEF HostInv
<1>3. pc \in 1 .. Last BY <1>2 DEF HostType
<1>4. pc > FenceD BY <1>1, <1>3, KindOf
<1>5. Len(Program) = Last BY ProgramShape
<1>6. pc' \in 1 .. Last /\ pc' > FenceD
  <2>1. outcome' = "running" => pc # Last BY <1>1, <1>5
  <2>2. QED BY <1>1, <1>3, <1>4, <2>1, Places
<1>7. outcome' \in {"running", "pass", "fail"} BY <1>1
<1>8. HostType' BY <1>1, <1>2, <1>6, <1>7 DEF HostType
<1>9. InvE BY <1>1, <1>4 DEF HostInv, AtE
<1>10. clean => reply[1] = Golden BY <1>1, <1>9 DEF InvE
<1>11. OwnProduct' BY <1>1, <1>10 DEF OwnProduct
<1>12. AtE' BY <1>6, <1>7 DEF AtE
<1>13. queue'["out"] = <<>> BY <1>1, <1>9 DEF InvE, Answered
<1>14. None # Asked /\ ~Answered' BY <1>1 DEF None, Asked, Answered
<1>15. Resting' /\ AllCPU' /\ Emptied(Windows \ {"out"})' BY <1>1, <1>9 DEF InvE, Resting, AllCPU, Emptied
<1>16. (outcome = "running" /\ clean => Results)' BY <1>1, <1>9 DEF InvE, Results, Golden
<1>17. InvE' BY <1>1, <1>13, <1>14, <1>15, <1>16 DEF InvE
<1>18. QED BY <1>8, <1>11, <1>12, <1>17, OnePart

\* Where a run begins.
LEMMA FirstPosts ==
  ASSUME NEW r
  PROVE  /\ Tailing(<<>>, 1, 0, r) /\ Tailing(<<>>, WgtAt, WgtAt - 1, r) /\ Tailing(<<>>, ActAt, ActAt - 1, r)
         /\ Due(<<>>, WgtAt - 1) = WgtAt /\ Due(<<>>, ActAt - 1) = ActAt
<1>1. Tailing(<<>>, 1, 0, r) BY DEF Tailing
<1>2. Tailing(<<>>, WgtAt, WgtAt - 1, r) BY Places DEF Tailing
<1>3. Tailing(<<>>, ActAt, ActAt - 1, r) BY Places DEF Tailing
<1>4. Due(<<>>, WgtAt - 1) = WgtAt /\ Due(<<>>, ActAt - 1) = ActAt BY Places DEF Due
<1>5. QED BY <1>1, <1>2, <1>3, <1>4

\* The next call of the flow.
LEMMA AgainStep ==
  ASSUME HostInv, Again
  PROVE  HostInv'
<1>1. /\ outcome # "running" /\ run' = run + 1 /\ pc' = 1 /\ outcome' = "running" /\ clean' = (outcome # "timeout")
      /\ UNCHANGED <<reply, queue, sel, done, regs, buf, eng, outPort>>
  BY DEF Again, devVars
<1>2. HostType BY DEF HostInv
<1>3. pc' \in 1 .. Last /\ run' \in Nat
  <2>1. run \in Nat BY <1>2 DEF HostType
  <2>2. QED BY <1>1, <2>1, Places
<1>4. HostType' BY <1>1, <1>2, <1>3 DEF HostType
<1>5. OwnProduct' BY <1>1 DEF OwnProduct
<1>6. CASE outcome = "timeout"
  <2>1. AtU /\ AtU'
    <3>1. ~clean' BY <1>1, <1>6, Zenon
    <3>2. 1 <= FenceB BY Places
    <3>3. QED BY <1>1, <1>6, <3>1, <3>2 DEF AtU
  <2>2. InvU' BY <1>1, <2>1 DEF HostInv, InvU
  <2>3. QED BY <1>4, <1>5, <2>1, <2>2, OnePart
<1>7. CASE outcome # "timeout"
  <2>1. AtE /\ AtA'
    <3>1. outcome \in {"pass", "fail"} BY <1>1, <1>2, <1>7 DEF HostType
    <3>2. clean' BY <1>1, <1>7, Zenon
    <3>3. 1 <= FenceA BY Places
    <3>4. QED BY <1>1, <3>1, <3>2, <3>3 DEF AtE, AtA
  <2>2. InvE BY <2>1 DEF HostInv
  <2>3. reply = None /\ queue["out"] = <<>> BY <1>1, <2>2 DEF InvE, None, Asked
  <2>4. queue["cfg"] = <<>> /\ queue["wgt"] = <<>> /\ queue["act"] = <<>>
    BY <2>2 DEF InvE, Emptied, Windows, Buffers
  <2>5. HiCfg' = 0 /\ HiWgt' = WgtAt - 1 /\ HiAct' = ActAt - 1 BY <1>1, Places DEF HiCfg, HiWgt, HiAct, Clamp
  <2>6. PICK r \in Nat : r = run' BY <1>3
  <2>7. /\ Tailing(<<>>, 1, 0, r) /\ Tailing(<<>>, WgtAt, WgtAt - 1, r) /\ Tailing(<<>>, ActAt, ActAt - 1, r)
        /\ Due(<<>>, WgtAt - 1) = WgtAt /\ Due(<<>>, ActAt - 1) = ActAt
    BY FirstPosts
  <2>8. \A c \in Cells : ~(WgtAt + c < WgtAt) /\ ~(ActAt + c < ActAt) BY Places DEF Cells
  <2>9. queue'["cfg"] = <<>> /\ queue'["wgt"] = <<>> /\ queue'["act"] = <<>> /\ queue'["out"] = <<>> BY <1>1, <2>3, <2>4
  <2>10. Resting' /\ AllCPU' BY <1>1, <2>2 DEF InvE, Resting, AllCPU
  <2>11. InvA' BY <1>1, <2>3, <2>5, <2>6, <2>7, <2>8, <2>9, <2>10 DEF InvA
  <2>12. QED BY <1>4, <1>5, <2>1, <2>11, OnePart
<1>8. QED BY <1>6, <1>7

LEMMA HostStarts == Init => HostInv
<1> SUFFICES ASSUME Init PROVE HostInv OBVIOUS
<1>1. pc = 1 /\ run = 1 /\ reply = None /\ outcome = "running" /\ clean = TRUE /\ queue = [w \in Windows |-> <<>>]
      /\ sel = [b \in Buffers |-> CPU] /\ outPort = None
  BY DEF Init
<1>2. eng = [st |-> "idle", c |-> 0, w |-> [c \in Cells |-> Garbage]] /\ regs = [f \in Fields |-> 0] BY DEF Init
<1>3. eng.st = "idle" /\ eng.c = 0 /\ eng.w = [c \in Cells |-> Garbage] /\ DOMAIN eng = {"st", "c", "w"} BY <1>2
<1>4. 0 \in Cells /\ pc \in 1 .. Last BY <1>1, Places DEF Cells
<1>5. DOMAIN queue = Windows /\ \A w \in Windows : queue[w] = <<>> /\ queue[w] \in Seq(Accesses(w)) BY <1>1
<1>6. eng.w = [c \in Cells |-> eng.w[c]] /\ regs = [f \in Fields |-> regs[f]] BY <1>2, <1>3
<1>7. HostType BY <1>1, <1>3, <1>4, <1>5, <1>6 DEF HostType
<1>8. queue["cfg"] = <<>> /\ queue["wgt"] = <<>> /\ queue["act"] = <<>> /\ queue["out"] = <<>>
  BY <1>5 DEF Windows, Buffers
<1>9. HiCfg = 0 /\ HiWgt = WgtAt - 1 /\ HiAct = ActAt - 1 BY <1>1, Places DEF HiCfg, HiWgt, HiAct, Clamp
<1>10. PICK r \in Nat : r = run BY <1>1
<1>11. /\ Tailing(<<>>, 1, 0, r) /\ Tailing(<<>>, WgtAt, WgtAt - 1, r) /\ Tailing(<<>>, ActAt, ActAt - 1, r)
       /\ Due(<<>>, WgtAt - 1) = WgtAt /\ Due(<<>>, ActAt - 1) = ActAt
  BY FirstPosts
<1>12. \A c \in Cells : ~(WgtAt + c < WgtAt) /\ ~(ActAt + c < ActAt) BY Places DEF Cells
<1>13. Resting /\ AllCPU BY <1>1, <1>3 DEF Resting, AllCPU
<1>14. InvA BY <1>1, <1>8, <1>9, <1>10, <1>11, <1>12, <1>13 DEF InvA
<1>15. AtA /\ ~AtU /\ ~AtB /\ ~AtC /\ ~AtD /\ ~AtE BY <1>1, Places DEF AtU, AtA, AtB, AtC, AtD, AtE
<1>16. OwnProduct BY <1>1 DEF OwnProduct
<1>17. QED BY <1>7, <1>14, <1>15, <1>16 DEF HostInv

LEMMA HostKept == HostInv /\ [Next]_vars => HostInv'
<1> SUFFICES ASSUME HostInv, [Next]_vars PROVE HostInv' OBVIOUS
<1>1. CASE Store BY <1>1, StoreStep
<1>2. CASE FenceDone BY <1>2, FenceStep
<1>3. CASE Ask BY <1>3, AskStep
<1>4. CASE Timeout BY <1>4, TimeoutStep
<1>5. CASE Poll BY <1>5, PollStep
<1>6. CASE Check BY <1>6, CheckStep
<1>7. CASE Compare BY <1>7, CompareStep
<1>8. CASE Again BY <1>8, AgainStep
<1>9. CASE Clock
  <2>1. PICK D \in SUBSET Windows, go \in BOOLEAN : Cycle(D, go) BY <1>9 DEF Clock
  <2>2. QED BY <2>1, CycleStep
<1>10. CASE UNCHANGED vars
  <2>1. UNCHANGED <<pc, run, reply, outcome, clean, queue, sel, done, regs, buf, eng, outPort>>
    BY <1>10 DEF vars, cpuVars, devVars
  <2>2. HostType' /\ OwnProduct' BY <2>1 DEF HostInv, HostType, OwnProduct
  <2>3. (AtU => InvU)' BY <2>1 DEF HostInv, AtU, InvU
  <2>4. (AtA => InvA)' BY <2>1 DEF HostInv, AtA, InvA, Resting, AllCPU, HiCfg, HiWgt, HiAct
  <2>5. (AtB => InvB)' BY <2>1 DEF HostInv, AtB, InvB, Resting, Inputs, Emptied
  <2>6. (AtC => InvC)'
    <3>1. /\ Acc(StartAt)' = Acc(StartAt) /\ Acc(PollAt)' = Acc(PollAt) /\ Acc(CheckAt)' = Acc(CheckAt)
          /\ Results' <=> Results
          /\ Progress' <=> Progress
          /\ Ready' <=> Ready
          /\ Resting' <=> Resting
          /\ Answered' <=> Answered
      BY <2>1 DEF Acc, Results, Progress, Golden, Ready, Inputs, Resting, Answered
    <3>2. /\ Pending' <=> Pending
          /\ AtStart' <=> AtStart
      BY <2>1, <3>1 DEF Pending, AtStart
    <3>3. AtPoll' <=> AtPoll BY <2>1, <3>1, <3>2 DEF AtPoll
    <3>4. AtCheck' <=> AtCheck BY <2>1, <3>1 DEF AtCheck
    <3>5. QED BY <2>1, <3>1, <3>2, <3>3, <3>4 DEF HostInv, AtC, InvC, Emptied
  <2>7. (AtD => InvD)' BY <2>1 DEF HostInv, AtD, InvD, Resting, Results, Golden, Emptied
  <2>8. (AtE => InvE)' BY <2>1 DEF HostInv, AtE, InvE, Resting, AllCPU, Results, Golden, Emptied, Acc, Answered
  <2>9. QED BY <2>2, <2>3, <2>4, <2>5, <2>6, <2>7, <2>8 DEF HostInv
<1>11. QED BY <1>1, <1>2, <1>3, <1>4, <1>5, <1>6, <1>7, <1>8, <1>9, <1>10 DEF Next, CpuStep

(***************************************************************************)
(* The invariant of the flow of main.c, the driver and the wrapper, phase  *)
(* by phase: the posted stores not yet served are the last ones of the     *)
(* program text, what has been served is in the buffers and the registers, *)
(* and the job works on nothing else (main.c:179-218, my_mxu.c,            *)
(* mxu_top_wrapper.sv).                                                    *)
(***************************************************************************)
THEOREM HostSafe == Spec => []HostInv
<1>1. Init /\ [][Next]_vars => []HostInv BY HostStarts, HostKept, PTL
<1>2. QED BY <1>1, PTL DEF Spec

(***************************************************************************)
(* A flow whose predecessor did not time out never ends in MXU_FAIL: every *)
(* word that compare_output reads is the product of the inputs and the     *)
(* configuration of this very run (main.c:179-218).                        *)
(***************************************************************************)
THEOREM OwnProductHolds == Spec => []OwnProduct
<1>1. HostInv => OwnProduct BY DEF HostInv
<1>2. QED BY <1>1, HostSafe, PTL

(***************************************************************************)
(* When wait_done has returned 0 the DONE bit is set, also in a run that   *)
(* finds the unit busy with the job of a timed-out one (main.c:203-208).   *)
(***************************************************************************)
THEOREM DoneWhenNotBusyHolds == Spec => []DoneWhenNotBusy
<1>1. HostInv => DoneWhenNotBusy BY DEF HostInv, HostType, DoneWhenNotBusy
<1>2. QED BY <1>1, HostSafe, PTL

=============================================================================
