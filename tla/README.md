# ARA SoC with accelerators: a TLA+ model

This directory models the part of the ARA SoC repository that is its own: the
matrix unit (MXU) and the auxiliary unit (AXU) under `hardware/user_ip`, the
two small accelerators beside them, the SoC glue, the bare-metal software that
drives them, and the programs on the host that load and control a simulation.
The default variant of the repository, `minimum_my_mxu_axu`, is a CVA6 core
with MXU, AXU, a global buffer and an iDMA; the `maximum` variant adds the Ara
vector unit.

## 1. Inventory

| component | state | operations | what makes it hard | what makes it correct |
|---|---|---|---|---|
| MXU sequencer `mxu_ctrl.sv` | FSM of 12 states, 15 configuration registers, row counters, three (group, intra) counter pairs, delay line of rotator selects, registered write port | configuration write, start, one step per cycle in each state | everything is timed by counting cycles; requests run one row ahead of data; dividers were replaced by counters | the pairs are row / chunk and row % chunk; every start ends in one done pulse; every result row is written once |
| MXU datapath `mxu_top_no_ctrl.sv`, `rotator.sv`, `semi_transposer.sv` | rotator registers, four 16 x 16 transposers with a fill mask, row pipelines | fill, put out diagonals, rotate, delay | four lanes work on four different tiles of rotated banks; the mode sets the latency | each weight diagonal in its line before the first row; each row back in its bank |
| systolic arrays `Systolic_Array.sv`, `PE_*.sv` | weights, activations and partial sums per PE, enables per line | load weights, multiply and pass on | two data flows, two latencies over the same registers | a row that leaves is x W or x W^T |
| register block `mxu_top_wrapper.sv`, bank wrapper `rf2p_256_128_wrapper.sv` | sticky done and irq, six port selects | START, CLR_DONE, port selection, status reads, buffer accesses | a write and the done pulse may share a cycle; accesses through a port of the other side vanish | a completion is not lost; data of one job are not mixed with another's |
| driver `my_mxu.c`, program `my_mxu_test/main.c` | none but the registers | init, configure, select ports, start, wait, compare | posted stores to four windows, timeouts | a run reads its own product, and ends |
| AXU `axu_ctrl.sv`, `axu_top_wrapper.sv`, `my_axu.c`, `my_axu_test/main.c` | FSM, read / launch / write counters, tag pipeline, seeds, lookup tables, ports | configure, start, read, launch, write back, load tables and seeds, schedule | four units of different latency behind one FSM; results find their row by a tag that travels with them; a timeout leaves the unit running | a healthy unit passes the suite; the suite ends |
| VMMA `vmma_sim.sv`, `vmma.c`, `vmma_test` | FSM, row and beat counters, operand memories, status | configure, start, one step per AXI handshake, poll | odd lengths, refused configurations, a timeout that races the answer | when the wait ends before its budget, status and Y are true |
| ASIC DMA `asic_dma_accel_sim.sv`, driver | FSM, busy, done, addresses | configure, start, handshakes, wait | registers may be written while it is busy; jobs depend on each other | a wait that returned has its own word in memory |
| DMA drivers, PLIC, waiting loops in `software/` | completion flag, handler table, `mstatus.MIE`, gateway pending and active bits, completion ids | submit, claim, complete, `wfi`, test, mask, poll | the interrupt may fall between any two instructions; its request is a pulse, its completion a posted store; ids wrap | a wait returns for its own transfer, and returns |
| invalidation filter `axi_inval_filter.sv` | AW queue, offset, two states | let a burst pass, request a line | back pressure of the L1, misaligned bursts | no written line stays in the L1 |
| CLINT, control registers, default slave, console, trap handlers (`handlers.S`, `crt0.S`, `hook.c`, `soc/src`) | timer, pending bits, saved contexts, holding and shift register, exit register | start, handlers, callbacks, putc, flush, exit | interrupts at any instruction, level-triggered lines, instructions of two widths, output still under way at the exit | the program resumes where it was; each interrupt is served once; all output leaves; the program ends |
| system calls and heap `syscalls.c` | break, errno | `_sbrk`, `_brk`, `_write`, the stubs | a refused request has moved the break | blocks handed out do not overlap |
| formatter, string functions `printf.c`, `minlibc.c`, `string.c` | buffer index | conversions, output functions, memory and string functions | flags, width and precision meet buffer limits; rounding carries; overlapping blocks | the text reads back as the number; output is the prefix that fits; blocks arrive whole |
| vector kernels `fmatmul`, `dotproduct`, `fdotproduct` | vector registers, prefetched operands | strips, software-pipelined halves | a loop left in the middle of its body, agnostic tails | every product once, no read past the matrix |
| memory loader `dpi_memutil.cc`, `ranged_map.h`, `sv_scoped.cc`, `verilator_memutil.cc` | areas by name and by address, staged segments | register, parse options, stage, merge, write | segments overlap in every way and start in the middle of words | areas are disjoint; memory holds the newest byte of each address |
| ELF preloader `elfloader.cc` with the bench's loop | sections, SRAM | read, take a section, write a word | a word just written is left out | the program is in the SRAM |
| simulation control `verilator_sim_ctrl.cc` | time, reset, trace flags, stop flag | options, loop, trace, signal handler | signals between any two statements | a stop ends the process; an opened trace file is closed |
| remote bitbang `remote_bitbang.cc`, `simjtag` | connection, pins, quit | accept, execute a command | blocking loops inside a tick, debuggers that die | answers are current; the first debugger is served |
| UART DPI `uartdpi.sv`, `uartdpi.c` | both shift registers and their counters, pty, log | clock, read, write | sampling in the middle of a bit on both sides | what is typed comes back |
| vendored IP under `hardware/ip` | - | - | - | third party, not modelled |

Interactions: the CPU reaches MXU and AXU through AXI windows (registers and
buffers). The register block turns stores into start and configuration pulses
for the sequencer, which drives buffers and datapath; the done pulse sets a
sticky bit that software polls. DMA engine, CLINT and default slave interrupt
the hart, through the PLIC or directly; the handlers of `handlers.S` call the
driver's callback. A program ends by a store to the exit register that the test
bench watches. On the host, the loader writes the program into the memories
before the clock starts, the control loop clocks the design, and UART and JTAG
are called from it.

## 2. Modules

| module | models | actions and state |
|---|---|---|
| `MxuCtrl` | `mxu_ctrl.sv` | one action per FSM state, `CfgWrite` and `Start`; the variables are the `_q` registers. The three datapath signals are parameters, so `CtrlSpec` is the sequencer under *any* datapath |
| `Mxu` | `mxu_ctrl.sv` clocked with `mxu_top_no_ctrl.sv` | `Next` is a clock cycle: `Cycle` of `MxuCtrl` with the datapath's own signals, and `DatapathStep`. A data word is the pair (bank, row) it was read from, so the model says where each word goes and when |
| `MxuJob` | what the unit promises | idle, busy, done; a job completes with exactly the rows of the product in their places |
| `Systolic` | one array with its transposer | a cycle, a cycle with a row, the next job. A partial sum is the set of its terms |
| `MxuHost` | `main.c`, `my_mxu.c`, `mxu_top_wrapper.sv`, `rf2p_256_128_wrapper.sv` | the program is a sequence of instructions; stores are posted per window; `Cycle` is a cycle of the unit in which any set of windows serves its first access |
| `IrqWait` | `idma_memcpy` of `mxu_idma_gbuf_test/main.c`, `dma_desc64.c`, `plic.c`, `m_external_irq_handler`, and the three waiting loops of the repository (that of `mxu_idma_gbuf_test`, that of `dma_desc64_test`, `WFI_WAIT` of `wfi.h`) | one action per instruction that matters in the program and in the handler; arrival of stores, start and end of a transfer, the interrupt line |
| `Axu` | `my_axu_test/main.c`, `my_axu.c`, `axu_top_wrapper.sv`, `axu_ctrl.sv` | a step is a clock cycle in which the CPU makes its next access or none; a result is the tuple of what it was computed from |
| `Vmma`, `AsicDma`, `DmaReg` | the small engines, each with its driver and a client | one action per handshake and per driver call |
| `AxiInvalFilter` | `axi_inval_filter.sv` | a cycle in which none or one burst passes and the L1 takes a request or does not |
| `Syscalls`, `Bsp` | `syscalls.c`; `crt0.S`, `handlers.S`, `hook.c`, the drivers of CLINT, PLIC, console and control registers, and five programs | one action per instruction with an effect, interrupt entry, gateway, bit time |
| `Printf`, `CString` | `printf.c`; `minlibc.c`, `string.c` | a step per directive; a step per call. The conversions are operators |
| `Fmatmul`, `Dotp` | the kernels and their `main` | a step per half of the pipelined loop body; a step per strip |
| `RangedMap`, `MemUtil` | `ranged_map.h`; `dpi_memutil.cc`, `sv_scoped.cc`, `verilator_memutil.cc` | a step per registration, option, staged segment and area written |
| `Preload`, `SimCtrl`, `Bitbang`, `UartDpi` | the rest of the host side | a step per program header, section and word; per statement a signal can fall between; per call of `jtag_tick`; per clock |
| `MxuCtrlProofs`, `MxuProofs`, `SystolicProofs`, `MxuHostProofs`, `IrqWaitProofs`, `PlatformProofs`, `KernelProofs`, `HostToolsProofs` | - | theorems and proofs; `PlatformProofs` is about `Syscalls`, `Bsp`, `AxiInvalFilter`, `Vmma`, `AsicDma` and `DmaReg`, `KernelProofs` about `Fmatmul`, `Dotp` and `CString`, `HostToolsProofs` about `SimCtrl`, `Bitbang`, `UartDpi`, `RangedMap`, `MemUtil` and `Preload` |
| `MC*` | - | constants for TLC; `MCAlgorithms`, `MCHostTools` and `MCPlatform` run several components that share no state, one of them in each behaviour |

`Mxu` is composed from `MxuCtrl` by `EXTENDS` and refines `MxuJob` through
`INSTANCE`. `MxuHost` uses the unit as `MxuJob` describes it, with the order of
its buffer accesses kept and its duration left open. `Bsp` extends `Syscalls`,
whose answers its `ecall` gives; `MemUtil` keeps its areas and its staged
segments in maps of `RangedMap`.

Abstractions. The lower half of each rotator and transposer stands for both
halves, which have the same control in POSIT mode; the upper one is unused in
INT mode. Registers whose enable is low hold an old value in the code and a
bubble in the model: the enables travel with the rows, so the value is never
used. In `Mxu`, `BootConfigs` are register contents that configuration writes
after reset have left. In `MxuHost` a datum is the number of the run that
wrote it; `irq_mask` only gates `irq_o` and is left out. That stores are
posted, that a fence waits until none is pending and that a window serves one
access at a time is taken from CVA6's commit stage and store buffer and from
`axi2mem`.
In `IrqWait` the transfer's words are the number of the last transfer whose
data are in place; each loop is put in the frame of `idma_memcpy`, so that one
flag serves several transfers (`dma_desc64_test` itself makes one). One
descriptor is outstanding, so `submit` never meets a full FIFO. `mip` is a
register behind the PLIC's output (`Line`), so the hart may see an interrupt
late and may see one that has just been claimed.
In `Bsp` a program is a sequence of halfwords, a printed line is two
characters, time is counted in bits of the console, and an interrupt may be
taken some instructions late. In `Printf` characters are model values, the
integer types have 4 to 8 bits, and a double is the one next to a multiple of
1 / Den. Where that multiple, scaled to the precision, is exactly a half, the
product that `_ftoa` computes in doubles may fall on either side of it or on
it; the argument carries which (`tie`), and `MCAlgorithms` lists the side that
the doubles really take (0.95 with one place gives exactly 9.5, 2.95 a little
more). In
`Fmatmul`, `Dotp` and `Vmma` an element is its index and a sum the collection
of its products. In `MemUtil` and `Preload` a byte is the pair (segment,
position) and a file is its list of segments; libelf is external. `Bitbang`
abstracts what the design drives on TDO to the number of pin settings it has
seen. `AxiInvalFilter` counts a line as old in the L1 from the moment its burst
passes; when the data reach memory is the interconnect's affair.

## 3. Runs

| run | module, cfg | result | bounds |
|---|---|---|---|
| `mxu_ctrl` | `MCMxuCtrl` | `CtrlTypeOK`, `PairsExact` hold | depth 2, 16 addresses, batches 0, 3, 9, 15: no row, fewer rows than quarters, chunks with a remainder, the largest counter value |
| `mxu_core` | `MCMxu` | `WeightsInPlace`, `ImplementsJob` hold | real size: depth 16, 256 addresses; batches 0, 1, 4, 32, 48 in INT and POSIT mode; one tile whose rows wrap at the end of a bank; any number of jobs and reconfigurations |
| `mxu_long` | `MCMxu`, `MCMxuLong.cfg` | `EveryValidRowWritten` violated | a batch of 36 INT rows |
| `mxu_host` | `MCMxuHost` | `OwnProduct`, `DoneWhenNotBusy`, `EveryRunPasses` hold | two words a buffer, one register, two outstanding stores a window, three calls; a timeout after two polls, or one that does not run out |
| `irq_wait` | `MCIrqWait` | `FlagMeansLanded`, `MacroWaitsEnd` hold | all three loops, three transfers: two as in the program, one more so that the flag and the gateway are used again after a reuse |
| `irq_wait_desc64` | `MCIrqWait`, `MCIrqWaitDesc.cfg` | `EveryWaitEnds` violated | the loop of `dma_desc64_test`, one transfer as in that program |
| `algorithms` | `MCAlgorithms` | nine properties hold | an array of 3 lines of 3 PEs, two tiles, two row names, every pattern of rows and bubbles; matrices of 4, 8, 16 and 32 (blocks of 4, 8 and 16 rows, one and two column slices), vectors of up to 512 bytes with 64-bit registers (one strip, several, and one shorter than a register), 1920 directives for each integer argument, floats at and around the halves and carries of zero to three places, each with the rounding of its double product, buffers of 0 to 9 characters, conversion buffers of 7 and 12 so that they overflow, memories of six bytes with words of two |
| `float_rollover` | `MCAlgorithms`, `MCAlgorithmsFloat.cfg` | `RolloverHandled` violated | the formatter's calls of `algorithms` |
| `host_tools` | `MCHostTools` | nine properties hold | three segments in every overlap in memories of one and two bytes a word, refused areas in every order of three, addresses of 4 bits so that they wrap; two signals in six half cycles; two debuggers; 17 inputs of two or three characters |
| `platform` | `MCPlatform` | thirteen properties hold | the five programs as they are; a heap of 8 with five calls; every AXU unit with batches 0 to 3; VMMA at, below and beyond its limits; ids of 4 bits with 20 transfers, so that they wrap; a queue of two and four bursts, aligned and not, below and above a line |
| `exit_status` | `MCPlatform`, `MCPlatformExit.cfg` | `FailureReported` violated | the programs of `platform` |
| `trap_t0` | `MCPlatform`, `MCPlatformTrap.cfg` | `TemporariesKept` violated | the programs of `platform` |

What they show of the MXU and of waiting:

* `PairsExact`: the counters that replaced four dividers compute what the
  dividers did, whatever the datapath answers.
* `ImplementsJob` is a refinement: configuration writes do not disturb a job,
  the done pulse comes exactly when all rows of the product are in their
  banks, and every start leads to it. It holds for batches that are whole
  quarters and no longer than the arrays' latency (`LegalJob`); for the others
  only the protocol part is claimed.
* `mxu_long` shows why that limit is there. The comment at `mxu_ctrl.sv:377`
  says every valid output row is written; line 188 writes in two states only,
  and with more than 35 (INT) or 51 (POSIT) rows the first results appear in a
  third one, `ST_ACT_SEND`.
* `WeightsInPlace` and `ProductRight` split the product in two: the tile's
  diagonals are in the lines, and lines with these diagonals multiply.
* `OwnProduct`: fences, port selection and polling order make a run read its
  own product, unless the run before it timed out. After a timeout the busy
  unit ignores configuration writes and the start, so the new run may compare
  the old job's result; that case is excluded by `clean` and listed as a
  hazard. `DoneWhenNotBusy` is not excluded: even then an idle unit has DONE
  set, because the done pulse wins over an ignored start in the same cycle.
  `EveryRunPasses`: with a timeout that does not run out all three runs pass.
* `FlagMeansLanded`: whichever loop is used, neither a flag nor an interrupt
  of an earlier transfer ends a wait early.
* `MacroWaitsEnd`: in `WFI_WAIT` masking before the second test closes the
  window, and `mret` and the fences leave the gateway open for the next pulse.
  The same statement fails for the loop of `dma_desc64_test`, whose header says
  "WFI until ISR signals completion" (`main.c:9`): an interrupt handled after
  the test (`main.c:91`) and before the `wfi` sets the flag, and the hart then
  sleeps for ever. The loop of `mxu_idma_gbuf_test` has the same window, and
  no program includes `wfi.h`.

Of programs and devices (`platform`):

* `ResumeExact`: from any interrupt, `ecall` or illegal instruction, of two
  bytes or of four, the program goes on with the instruction that is due and
  with its own a0. `trap_t0` shows that t0 is not kept: `SAVE_CTX` uses it
  (`handlers.S:86`) before it stores it (line 90), against the comment at
  lines 80-81.
* `OutputComplete`, `OutputWhole`: every character is on the line before the
  bench sees the exit, and none is overwritten by a handler that prints.
  `clint_test` is excluded from the second: `mtimecmp` is 0 after reset, so its
  timer interrupt comes as soon as interrupts are enabled, in the middle of
  main's output, and characters can be lost there.
* `InterruptsOnce`, `ProgramEnds`: level-triggered interrupts are dropped by
  their handlers, so each is served once and no program is kept from its end.
* `exit_status`: `soc_ctrl.c:16-17` says that a status is captured as the exit
  code. It is shifted once more and cut on its way (`ctrl_registers.sv:108`,
  `ariane_soc_top.sv:582`), and a program that returns 1 is reported as SUCCESS.
* `HeapBlocksApart`: a request that is refused moves the break, yet blocks
  handed out before and after it do not overlap. How much is left after a refused
  request is not claimed.
* `HealthyUnitPasses`, `SuiteEnds`: AXU results reach their rows through the
  tags, for every unit, table and batch; with or without timeouts the suite
  ends. `SpareMeansTrue`, `OwnWord`, `WaitMeansLanded`, `WaitsReturn`: the waits
  of the other engines tell the truth, also when ids wrap.
* `NoStaleLine`: whatever the back pressure, an empty queue means that all
  lines of all bursts were requested, misaligned ones included.

Of what computes (`algorithms`, `float_rollover`; for `ProductRight` see above):

* `ProductComplete`, `PrefetchInside`: the pipelined kernels add every product
  of every element once, and prefetch no row outside the matrices.
* `EveryProductOnce`: strip-mined and unrolled dot products agree with the
  definition in every element width, although tails may hold anything.
* `IntegersReadBack`, `FloatsRound`, `OutputIsPrefix`: what is printed reads
  back as the argument; a float is rounded to a nearest decimal of its
  precision, also where the carry runs through all nines into the whole part; a
  buffer receives the prefix that fits, with its terminator, and without a
  buffer nothing is written. Exactly at a half `_ftoa` rounds up when the last
  digit is odd or the fraction is 0, so 0.05 prints as 0.1. Left out are
  numbers whose `#` prefix meets a field of their own width, where the code
  overwrites leading digits (`Representable`); a float beyond `thres_max`, for
  which `_ftoa` returns 0, so that the index falls back to 0 and what follows
  overwrites the start of the buffer (`NothingLost`); and, from `FloatsRound`,
  the fraction exactly halfway above all nines (`HalfAboveNines`).
* `float_rollover` shows why. The comment at `printf.c:352` says that rollover
  is handled, and the branch above one half does it; the halfway branch
  (lines 357-360) does not. With one place 0.95 becomes ten tenths, a digit more
  than the precision; the count of digits left wraps, and zeros fill the
  conversion buffer up to its end, in the place of the point and the whole part.
* `BlockMoved`, `ZeroMeansEqual`: memory functions of both libraries move and
  compare as their reference says, also with overlaps and a count of 0. `memset`
  and `strncpy` are in the model, but no property is about them.

Of the host side (`host_tools`):

* `AreasDisjoint`, `StagingExact`, `MemoryHoldsElf`: the loader refuses areas
  that overlap or wrap, and files whose segments pass the end of the address
  space; the three ways of merging lose and shift nothing; a
  word written for one segment overwrites no byte of another.
* `ProgramLoaded`: with segments as the linker script lays them out, the
  preloader leaves out no word.
* `TraceFileClosed`, `StopEnds`: wherever signals fall, from the moment the
  handler is installed, in the first trace and the first evaluation before the
  loop or in the loop, a stop ends the process
  and a trace file that was opened is closed.
* `ReplyIsCurrent`, `FirstDebuggerServed`: an answer shows the design after all
  pins sent before, and a first debugger that stays has all its commands
  executed. For later debuggers this is not claimed: `quit` stays set.
* `LineEchoes`: both sides of the serial line sample the bit that was sent.

Fairness. `Mxu`: the clock does not stop, WF(Next). `MxuHost`: the core makes
progress, every window serves what is posted to it, and a loading or sending
unit gets on - this is `MxuJob`'s `Progress`, which `mxu_core` checks.
`IrqWait`: a hart that can execute an instruction does, posted stores arrive, a
started transfer ends, and the interrupt line settles; nothing is assumed about
when. `Bsp`: the hart goes on and takes interrupts that stay pending and
enabled, the gateway forwards, the clock runs. `Axu`: the CPU goes on, the
clock runs, and the scheduler, whose duration is left open, answers. `DmaReg`:
the clock runs, transfers end, the client polls. `SimCtrl`: the main loop goes
on; nothing about signals. `Bitbang`: the simulator keeps calling and a
debugger that is there keeps sending; it may die at any time.

Deadlock is checked in the runs of the MXU's control and flow, whose clock
never stops. The
`IrqWait` runs and the three combined runs turn it off, because there programs
return and processes exit.

## 4. Proofs

`MxuCtrlProofs`, for every `DEPTH`, `ADDRS`, set of batches and datapath:

* `TypeCorrect`: CtrlSpec => []CtrlTypeOK;
* `CounterPairs`: CtrlSpec => []PairsExact.

Both come from one inductive invariant `IInv`: the types, plus, for each state,
what the row counter and the pairs are (zero before the first request, the
request one ahead while sending, the row counter below the batch). `PairsExact`
alone is not inductive: it says nothing of the states before `ACT_REQ`, and
without `actRow < M` a step of the pair could wrap at the address width. The
key lemma is `PairStep`: one step of a pair that follows row r follows r + 1.

`MxuProofs`, for every `ADDRS`, set of batches, tile bases and both data types,
with the array's depth fixed at 16 (`SixteenRows`: the lane addressing takes a
row number as two pairs of bits):

* `WeightsStay`: Spec => []WeightsInPlace, for every batch, legal or not;
* `JobSteps`: Spec => Job!SafeSpec, the safety part of `ImplementsJob`: every
  clock cycle is a step of `MxuJob` or changes nothing software sees, and the
  done pulse of a legal job comes with exactly its product in the banks.

The invariant `DataInv` is `IInv` of the sequencer with two parts. `LoadInv`
follows the weights: which slots of each transposer the rows sent so far have
filled (`Arriving`, `Filling`), which diagonals are out and how far down the
lines they are (`Shifting`), and that they rest in place from `GAP` on.
`FlowInv` follows the rows: s cycles after the first one was sent, the register
x places behind the front rotator holds row s - 1 - x (`Holding`), the delay
line holds the rotation of that row, and the output counter, the write port and
the banks are at the rows that have come out (`Collected`). The pieces are that
the rotated addresses are a permutation (`SlotOne`, `SlotAll`), that the back
rotator undoes the rotation that was sent with the row (`BackTurns`), that the
counter pair is the quotient and remainder that name the row's place
(`PairQuot`), and that all rows of a legal batch together are the product
(`LandedAll`). Legality is used exactly twice: a batch of whole quarters makes
the rows the product, and one that is not longer than the arrays' latency has
no row come back before the sequencer listens (`NothingBack`).

`SystolicProofs`, for every `N`, set of tiles and rows: `ArrayMultiplies`,
Spec => []ProductRight. The invariant `IInv` is the conjunction of `TypeInv`,
`LoadInv` (which lines hold which diagonal while the weights shift in, as a
function of the diagonals still to come) and `WaveInv` (a row in line k has
added exactly the terms of lines 0 .. k-1, or 0 .. k behind the multiplier,
and its activations or sums have moved k places). `EnterOK`, `MultiplyOK`,
`PassOnOK` and `ResultOK` are the four steps of a row's way.

`IrqWaitProofs`, for every set of loops and number of transfers:
`WaitMeansLanded`, Spec => []FlagMeansLanded. `FlagMeansLanded` says nothing of
the interrupt under way, so it is not inductive. `IInv` says that a completion
is in one place at a time (`OnePlace`): posted to the engine, in the engine,
pending at the gateway, in the handler, or in the flag; from the gateway on its
data have landed. `Phases` adds that nothing is under way when a transfer is
prepared, which is why an earlier one cannot end the wait.

`MxuHostProofs`, for buffers, register files, queues, timeouts and numbers of
runs of every size: `OwnProductHolds`, Spec => []OwnProduct, and
`DoneWhenNotBusyHolds`, Spec => []DoneWhenNotBusy. Both speak of the outcome
only, so neither is inductive. `HostInv` cuts the program at its fences. In each
part (`InvA` to `InvE`, and `InvU` for a run that finds the unit busy) it says
which of the part's accesses each window still has to serve (`Tailing`), which
cells, registers and port selections the served ones have set, and how far the
unit is (`Progress`). The argument: before a fence the effects may come in any
order between windows, but at it they are complete, and the unit moves only
between the start and the poll that finds it idle.

`PlatformProofs`:

* `LinesInvalidated`, for every line width, queue length and set of bursts:
  IvSpec => []NoStaleLine. `NoStaleLine` speaks of an empty queue only. `IvInv`
  says that every old line lies between the next request and the last line of
  some burst in the queue, and that after the first request of a burst the
  others are for the starts of lines. `OffsetMoves` is the arithmetic: the next
  request is for the next line, and where there is none the last line has been
  requested. `LinesJoin` is the fall-through queue: a burst that passes in the
  cycle of a request for one of its lines has that line requested again, unless
  the request was its own.
* `BlocksStayApart`, for every heap, sequence of calls and stack position:
  SySpec => []HeapBlocksApart. `SyInv` adds that blocks end at or below the
  break. The case that needs care is a release that is refused: it lowers the
  break without taking blocks back, but then the new break is not below the
  stack pointer or the end of the heap, and so not below any block.
* `WaitMeansLandedHolds`, for every width of the ids and number of transfers
  outstanding below half their range: DrSpec => []WaitMeansLanded. The counters
  leave out zero and stay at all ones for a cycle, so they move on a ring of
  2^IdBits - 2 places. `DrInv` says how far ahead of the counter of completed
  transfers, and of each id not waited for, the next id is on that ring
  (`Ahead`): as many places as transfers lie between them. The signed difference
  of two values then has the sign of their distance, also across the wrap.
* `OwnWordHolds`, for every memory and number of jobs: AdSpec => []OwnWord.
  `AdInv` says in each state of the engine which word the client must find:
  that at the source until it is read, then the register's, then the result.
* `SpareMeansTrueHolds`, for every size of job, number of lanes and polling
  budget: VmSpec => []SpareMeansTrue. `VmProgress` says which elements, weights
  and results the beats so far have brought; `LastLane` that the last beat
  brings the last element, also where it is not full.
* `ResumeExactHolds`, for every subset of the five programs and every timer,
  frame and flush length: BspSpec => []ResumeExact. `ResumeExact` speaks of the
  program only outside of a handler, so it is not inductive. `ResInv` says in a
  handler where `mepc` stands, what the saved a0 is and what is left to run:
  after an interrupt only what callbacks do and the return (`Interrupted`);
  after an exception the trapped instruction counts as run, mepc is moved past
  it by the last instruction before the return, and for an ecall a0 has become
  its answer by then (`Trapped`). `ProgramsRun` is about the texts: each is
  joined from pieces (`Piece`) in which the halfword after an instruction of
  four bytes or of two is the next instruction, up to the exit (`Running`).
* `InterruptsOnceHolds`, under the same assumptions: BspSpec => []InterruptsOnce.
  `OnceInv` adds to `ResInv` a balance (`IrqInv`): the callbacks that have run,
  one more where the handler that runs is still to set the flag, and one more
  where the signal is up and that handler will not drop it (`Due`), are no more
  than the requests. The PLIC's request stays down while a claim is in service,
  and the ISR acknowledges before the completion (`FrameOk`), so that the
  gateway cannot pass the same doorbell on twice. `HisInv` is why none is lost
  at the end: the text asks for a cause at most once and waits for its flag
  before the exit (`Closed`, shown of the five texts by `ProgramsClosed`), and a
  flag that is up has been counted.

`KernelProofs`:

* `ProductCompleteHolds`, MatSpec => []ProductComplete, and
  `PrefetchInsideHolds`, MatSpec => []PrefetchInside, for every size of the
  matrices in the data section and every vector length. `MatInv` says what the
  software pipeline has ready in each half of the unrolled loop (`Ready`), which
  rows and columns are stored (`Stored`), and that the dimension is 4, 8 or a
  multiple of 16 (`Doubled`, which `main` establishes by doubling): each
  kernel's block of rows then divides it, and the loop, which takes two steps at
  once, ends exactly at its end. `OneCell` says that no two elements share a
  place in the result.
* `EveryProductOnceHolds`, for every vector length, element width and length that
  `main` tries: DotSpec => []EveryProductOnce. `DotInv` says that a lane's
  partial sum holds the lane's strided share of the chunks taken so far, each
  product once; that the shares of different lanes are apart and together are
  the chunks is arithmetic (`StridedApart`, `LanesAll`). The scalar kernel's
  eight accumulators are the same with eight lanes, and need a length that is a
  multiple of eight, which `main` keeps (`Fits`).
* `BlockMovedHolds` and `ZeroMeansEqualHolds`, for every memory, address and
  count: StrSpec => []BlockMoved and StrSpec => []ZeroMeansEqual. The loops are
  recursive functions of the bytes left; each is shown to equal a closed form
  (`UpwardMoves`, `DownwardMoves`, `WordsMove`, `MemcmpExact`), `strncmp`'s to
  stop where its condition first fails (`StrncmpResult`, `StrncmpExact`).
  The library's induction theorems cannot be used, so each of these takes the
  least count that would be a counterexample (`SmallestNumber`) and refutes it
  with the loop's last turn.

`HostToolsProofs`:

* `TraceFileClosedHolds`, for every number of cycles and placing of signals:
  ScSpec => []TraceFileClosed. `ScInv` adds that tracing is on only after it has
  ever been switched on, and that this flag is set before the file is opened:
  the close at the end looks at the flag, whenever a signal has changed the rest.
* `ReplyIsCurrentHolds`, for every sequence of commands and reconnections:
  BbSpec => []ReplyIsCurrent. `BbInv` says that the design has seen every pin
  setting before the next command is read, so TDO answers to the latest one.
* `LineEchoesHolds`, for every number of clock cycles a symbol takes from two
  on and every text: UaSpec => []LineEchoes. `UaInv` says that the receiver
  follows the transmitter at a fixed distance: `RxIdle`, `RxStart` and `RxData`
  give the receiver's counter and bits as a function of the transmitter's.
* `FindExact` (in a map of disjoint ranges the lookup returns exactly the range
  that holds the address) and `EmplaceKeepsDisjoint`, for every map. Both
  lookups of `ranged_map.h` look at one neighbour on each side; that is enough
  because the ranges are disjoint, so a range further away that reached the
  address would overlap the neighbour (`NoClash`). That a set of ranges has a
  first and a last one rests on the least element of a set of naturals
  (`SmallestAddress`).
* `AreasStayDisjoint`, for every address width, set of areas and order of
  registration: MuSpec => []AreasDisjoint. Its invariant adds that the areas
  still to come are well formed and that the map leads only to names that are
  registered; without the latter a new name could already be in the map.
* `ProgramLoadedHolds`, for every program, word width and size of the SRAM:
  PlSpec => []ProgramLoaded. `PlInv` follows the three loops: the headers read
  so far (`HeadersRead`), the sections they gave (`SectionsLaid`), and the words
  stored so far (`WordsLoaded`). The segments follow each other in the SRAM and
  start at a word's boundary, so a word stored for one is not the last word of
  another, and two of its words do not fall on the same index.

Assumptions are the named `ASSUME`s on constants: sizes are positive, the
addresses of a bank are at least the array's depth, which is 16 where the
datapath is, N > 1 (the code has a
first and a last line of different kinds), areas have a base and a size of
the address width, bursts have beats of at least one byte, the ring of DMA ids
is twice its half (`PowerAssumption`, a fact about powers of two that the
prover does not know), a vector register is a power of two from 8 to 65536
bytes, programs are sequences of program headers, the programs that `Bsp` runs
are among its five texts, and a typed character is eight bits and takes at
least two clock cycles a bit.

Only model-checked: the flow of the AXU program (`HealthyUnitPasses`); what the
console has sent (`OutputComplete`, `OutputWhole`), which depends on how far
apart in time the instructions of each program are; staging and merging of
segments (`StagingExact`, `MemoryHoldsElf`); `Printf`, whose conversions are recursive over digits; and
everything about fairness (`EveryRunPasses`, `MacroWaitsEnd`, `ProgramEnds`,
`SuiteEnds`, `WaitsReturn`, `StopEnds`, `FirstDebuggerServed`, the progress part
of `ImplementsJob`), which is out of the prover's reach.

## 5. Not modelled, and the plan

Not modelled:

* arithmetic inside a PE and inside the AXU's units (posit and Booth
  multiplication, interpolation on wide words): out of TLC's reach, and kept
  symbolic where the data flow is checked;
* the offload demo `asic_accel.c`, whose accelerator is not in the repository,
  and `SimDTM.cc`, which forwards to a library that is not in it either;
* register headers (`encoding.h`, `gpio_hal.h`) and the boot ROM's tables:
  generated constants and access macros without state;
* `fdotp_v16b`, which has no caller, and `atol` of `string.c`;
* the AXI-Lite front ends of CLINT and control registers, PLIC priorities
  between several sources, descriptor chains and a full descriptor FIFO;
* when the data of a write reach memory relative to its invalidation, which
  depends on the vendored interconnect and on CVA6's own ordering;
* a CLR_DONE or IRQ_STAT write in the cycle of the MXU's done pulse: no
  software here does it, and nothing says what should happen; batches that are
  no multiple of four, for the same reason;
* vendored IP, FPGA, synthesis and simulation flow.

Next, in this order:

1. Proofs: `StagingExact`, `HealthyUnitPasses`, and the console of `Bsp`.
2. Chains of descriptors in `IrqWait`; several PLIC sources in `Bsp`.
