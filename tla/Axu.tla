-------------------------------- MODULE Axu --------------------------------
(***************************************************************************)
(* The auxiliary unit: software/app/my_axu_test/main.c over its driver     *)
(* my_axu.c, the register block of axu_top_wrapper.sv, and the sequencer   *)
(* axu_ctrl.sv with its buffers.                                           *)
(*                                                                         *)
(* Every step is a clock cycle of the unit; in it the CPU makes its next   *)
(* access or none.  The arithmetic is external: a result is a tuple that   *)
(* says what it was computed from, a unit answers after its latency, and   *)
(* the scheduler after any time.  A buffer row that is read through a port *)
(* the unit has not been given is Stale.                                   *)
(***************************************************************************)
EXTENDS Integers, Sequences, FiniteSets

CONSTANTS
  Suites,       \* sequences of cases: CASES under the test's macros
  MaxTimeouts,  \* bound: waits that run out, before the scheduler has answered
  LutEntries,   \* entries of the tables, [mult |-> n, ybnd |-> m]
  TokensPerRow,
  NliLatency,   \* cycles of the interpolator
  FlushCycles

ASSUME AxuAssumption ==
  /\ MaxTimeouts \in Nat /\ LutEntries \in [{"mult", "ybnd"} -> Nat \ {0}]
  /\ TokensPerRow \in Nat \ {0} /\ NliLatency \in Nat \ {0} /\ FlushCycles \in Nat \ {0}

VARIABLES
  suite, case, step,  \* the program: CASES, the case, the access of run_case
  fails, result,      \* failed cases, and the summary, "running" before it
  timeouts,           \* waits that have run out
  ports,              \* *_acc_*_port_sel_q of the three buffers
  sticky, irq,        \* done_sticky_q and irq_status_q
  st,                 \* state_q
  cfg,                \* the configuration registers
  cnt,                \* read, launch and write counters
  dout, operand,      \* the buffers' output registers, the unit's operands
  readValid, launch,  \* read_data_valid_q with its batch, launch_valid_q with its
  tags,               \* the batch tags with the results they belong to
  row, slot, entry,   \* nli_row_buf_q, nli_slot_q, nli_load_cnt_q
  flush, bounds,      \* nli_flush_cnt_q, nli_macro_bounds_o
  seed, lut, out      \* what has been loaded, and the output buffer

hostVars == <<suite, case, step, fails, result, timeouts>>
wrapVars == <<ports, sticky, irq>>
coreVars == <<st, cfg, cnt, dout, operand, readValid, launch, tags, row, slot, entry, flush, bounds, seed, lut, out>>
axVars == <<hostVars, wrapVars, coreVars>>

NoTag == <<>>
Stale == -1
NoOperand == -2

----------------------------------------------------------------------------
(* The test.                                                               *)

Access(reg, val) == [reg |-> reg, val |-> val]
Cfg(field, val) == Access("cfg", <<field, val>>)
Wait  == Access("wait", 0)
Check == Access("check", 0)
Fence == Access("fence", 0)

clear_done == <<Access("irq_stat", 1), Access("ctrl", "CLR_DONE")>>
set_ports(a, b, o) == <<Access("opa", a), Access("opb", b), Access("out", o)>>
CPU == [rd |-> FALSE, wr |-> FALSE]
ReadsIt  == [rd |-> TRUE, wr |-> FALSE]
WritesIt == [rd |-> FALSE, wr |-> TRUE]

load_seed(c) ==
  <<Cfg("seed_high", c.opa), Cfg("seed_low", c.opb)>>
  \o set_ports(ReadsIt, ReadsIt, CPU) \o <<Fence, Cfg("seed_load", 1), Wait>>
  \o set_ports(CPU, CPU, CPU) \o <<Fence>>

run_job(c) ==
  <<Cfg("unit", c.unit), Cfg("func", c.func), Cfg("opa", c.opa), Cfg("opb", c.opb),
    Cfg("vec_out", c.vec_out), Cfg("reduce_out", c.reduce_out), Cfg("batch", c.batch)>>
  \o set_ports(ReadsIt, ReadsIt, IF c.special = "lut" THEN CPU ELSE WritesIt)
  \o <<Fence, Access("ctrl", "START"), Wait, Check>>
  \o set_ports(CPU, CPU, CPU) \o <<Fence>>

run_case(c) == clear_done \o (IF c.special = "seed" THEN load_seed(c) ELSE run_job(c))

Script == run_case(suite[case])
Doing == result = "running" /\ step <= Len(Script)
Here == Script[step]

----------------------------------------------------------------------------
(* What a case has to leave behind.                                        *)

Table(kind, base) == [e \in 0 .. LutEntries[kind] - 1 |-> <<base + (e \div TokensPerRow), e % TokensPerRow>>]
Reduces(c) == c.unit = "VPU" /\ c.func \in {"REDUCE_MAX", "REDUCE_SUM"}
TwoOperands(c) == c.unit = "VPU" /\ ~Reduces(c)

Expected(c, i) ==
  CASE c.func = "RNG" -> <<"RNG", <<suite[1].opa, suite[1].opa>>, <<suite[1].opb, suite[1].opb>>, i>>
    [] c.unit = "NLI" -> <<"NLI", Table("mult", suite[1].opa), Table("ybnd", suite[2].opa), c.opb, c.opa + i>>
    [] c.unit = "SCH" -> <<"SCH", c.opa, i>>
    [] TwoOperands(c) -> <<c.func, c.opa + i, c.opb + i>>
    [] OTHER -> <<c.func, c.opa + i, NoOperand>>

compare_output_range(c) == \A i \in 0 .. c.rows - 1 : out[c.out + i] = Expected(c, i)

----------------------------------------------------------------------------
(* The sequencer, axu_ctrl.sv.  a is the access of this cycle, or NoAccess.*)

NoAccess == Access("none", 0)
Start(a)  == a = Access("ctrl", "START")
CfgSet(a) == a.reg = "cfg"
SeedLoad(a) == CfgSet(a) /\ a.val[1] = "seed_load"

Vpu == cfg.unit = "VPU"
Sfu == cfg.unit = "SFU"
Nli == cfg.unit = "NLI"
Rng == Sfu /\ cfg.func = "RNG"
Loads == Nli /\ cfg.func \in {"mult", "ybnd"}
Busy == st # "IDLE"
Done == st = "DONE"

Latency == IF Vpu /\ cfg.func \in {"ADD", "SUB", "MUL"} THEN 2
           ELSE IF Vpu /\ cfg.func = "REDUCE_SUM" THEN 12 ELSE 1
AllLaunched == cnt.launch = cfg.batch
ReadFire == st = "RUN" /\ cnt.read # cfg.batch /\ ~Rng
LaunchFire == IF Rng THEN st = "RUN" /\ ~AllLaunched ELSE launch # NoTag
Result == tags[Latency]
WriteFire == ~Nli /\ Result # NoTag
LastWriteFire == WriteFire /\ cnt.write = cfg.batch - 1

NliReadFire == st = "NLI_COMPUTE" /\ cnt.read < cfg.batch
NliWriteFire == Nli /\ st \in {"NLI_COMPUTE", "NLI_DRAIN"} /\ tags[NliLatency] # NoTag
NliLastWriteFire == NliWriteFire /\ cnt.write = cfg.batch - 1
LastEntry == entry = LutEntries[cfg.func] - 1

\* The state after a start that is accepted.
StartState ==
  CASE Loads -> "NLI_LUT_REQ"
    [] cfg.unit = "SCH" -> "SCH_RUN"
    [] cfg.batch = 0 -> "DONE"
    [] Nli -> "NLI_MACRO_REQ"
    [] OTHER -> "RUN"

\* (mutant: the last result that comes with the last launch is missed)
MutAfterRun == IF AllLaunched THEN "DRAIN" ELSE "RUN"
AfterRun == IF AllLaunched THEN (IF LastWriteFire THEN "DONE" ELSE "DRAIN") ELSE "RUN"

\* (mutant: a table ends with its row)
MutAfterLutWr == IF LastEntry \/ slot = TokensPerRow - 1 THEN "DONE" ELSE "NLI_LUT_WR"
AfterLutWr ==
  IF LastEntry THEN "DONE" ELSE IF slot = TokensPerRow - 1 THEN "NLI_LUT_REQ" ELSE "NLI_LUT_WR"

NextState(a, schDone) ==
  CASE st = "IDLE" -> IF SeedLoad(a) THEN "SEED_HIGH_REQ" ELSE IF Start(a) THEN StartState ELSE "IDLE"
    [] st = "SEED_HIGH_REQ" -> "SEED_HIGH_CAP"
    [] st = "SEED_HIGH_CAP" -> "SEED_LOW_REQ"
    [] st = "SEED_LOW_REQ" -> "SEED_LOW_CAP"
    [] st = "SEED_LOW_CAP" -> "SEED_APPLY"
    [] st = "SEED_APPLY" -> "DONE"
    [] st = "RUN" -> AfterRun
    [] st = "DRAIN" -> IF LastWriteFire THEN "DONE" ELSE "DRAIN"
    [] st = "NLI_LUT_REQ" -> "NLI_LUT_CAP"
    [] st = "NLI_LUT_CAP" -> "NLI_LUT_CAP2"
    [] st = "NLI_LUT_CAP2" -> "NLI_LUT_WR"
    [] st = "NLI_LUT_WR" -> AfterLutWr
    [] st = "NLI_MACRO_REQ" -> "NLI_MACRO_CAP"
    [] st = "NLI_MACRO_CAP" -> "NLI_FLUSH"
    [] st = "NLI_FLUSH" -> IF flush = FlushCycles - 1 THEN "NLI_COMPUTE" ELSE "NLI_FLUSH"
    [] st = "NLI_COMPUTE" -> IF cnt.read # cfg.batch THEN "NLI_COMPUTE"
                             ELSE IF NliLastWriteFire THEN "DONE" ELSE "NLI_DRAIN"
    [] st = "NLI_DRAIN" -> IF NliLastWriteFire THEN "DONE" ELSE "NLI_DRAIN"
    [] st = "SCH_RUN" -> "SCH_WAIT"
    [] st = "SCH_WAIT" -> IF schDone THEN "DONE" ELSE "SCH_WAIT"
    [] OTHER -> "IDLE"

\* What the buffers put out in the next cycle: they keep what they have read.
Row(buf, addr) == IF ports[buf].rd THEN addr ELSE Stale
Dout ==
  CASE st = "SEED_HIGH_REQ" -> [a |-> Row("opa", cfg.seed_high), b |-> Row("opb", cfg.seed_high)]
    [] st = "SEED_LOW_REQ" -> [a |-> Row("opa", cfg.seed_low), b |-> Row("opb", cfg.seed_low)]
    [] st = "NLI_LUT_REQ" -> [dout EXCEPT !.a = Row("opa", cfg.opa + (entry \div TokensPerRow))]
    [] st = "NLI_MACRO_REQ" -> [dout EXCEPT !.b = Row("opb", cfg.opb)]
    [] NliReadFire -> [dout EXCEPT !.a = Row("opa", cfg.opa + cnt.read)]
    [] ReadFire -> [a |-> Row("opa", cfg.opa + cnt.read),
                    b |-> IF TwoOperands(cfg) THEN Row("opb", cfg.opb + cnt.read) ELSE NoOperand]
    [] OTHER -> dout

\* The result of the operands that are launched.
Launched(batch) ==
  [batch |-> batch,
   value |-> CASE Rng -> <<"RNG", seed.high, seed.low, batch>>
               [] Nli -> <<"NLI", lut.mult, lut.ybnd, bounds, dout.a>>
               [] OTHER -> <<cfg.func, operand.a, operand.b>>]

Shifted(first) == [i \in DOMAIN tags |-> IF i = 1 THEN first ELSE tags[i - 1]]
NoTags == [i \in DOMAIN tags |-> NoTag]
WriteRow(addr, value) == IF ports["out"].wr THEN [out EXCEPT ![addr] = value] ELSE out

\* The clocked block: configuration while idle, a start, else a cycle of
\* the pipelines.
Configure(a) ==
  cfg' = IF ~Busy /\ CfgSet(a) /\ ~SeedLoad(a) THEN [cfg EXCEPT ![a.val[1]] = a.val[2]] ELSE cfg

StartAccepted(a) == ~Busy /\ Start(a)

Counters(a) ==
  LET rd == IF ReadFire \/ NliReadFire THEN 1 ELSE 0
      ln == IF LaunchFire /\ ~Nli THEN 1 ELSE 0
      wr == IF WriteFire \/ NliWriteFire THEN 1 ELSE 0
  IN cnt' = IF StartAccepted(a) THEN [read |-> 0, launch |-> 0, write |-> 0]
            ELSE [read |-> cnt.read + rd, launch |-> cnt.launch + ln, write |-> cnt.write + wr]

Pipeline(a) ==
  IF StartAccepted(a) THEN readValid' = NoTag /\ launch' = NoTag /\ tags' = NoTags /\ UNCHANGED operand
  ELSE /\ readValid' = IF ReadFire \/ NliReadFire THEN <<cnt.read>> ELSE NoTag
       /\ launch' = IF Nli THEN NoTag ELSE readValid
       /\ operand' = IF readValid # NoTag THEN dout ELSE operand
       /\ tags' = Shifted(IF Nli THEN (IF readValid # NoTag THEN Launched(readValid[1]) ELSE NoTag)
                          ELSE IF ~LaunchFire THEN NoTag
                          ELSE Launched(IF Rng THEN cnt.launch ELSE launch[1]))

Tables(a) ==
  /\ row' = IF st = "NLI_LUT_CAP2" THEN dout.a ELSE row
  /\ slot' = IF StartAccepted(a) \/ st = "NLI_LUT_CAP2" THEN 0
             ELSE IF st = "NLI_LUT_WR" THEN (slot + 1) % TokensPerRow ELSE slot
  /\ entry' = IF StartAccepted(a) THEN 0 ELSE IF st = "NLI_LUT_WR" THEN entry + 1 ELSE entry
  /\ lut' = IF st = "NLI_LUT_WR" THEN [lut EXCEPT ![cfg.func][entry] = <<row, slot>>] ELSE lut
  /\ flush' = IF StartAccepted(a) THEN 0 ELSE IF st = "NLI_FLUSH" THEN flush + 1 ELSE flush
  /\ bounds' = IF st = "NLI_MACRO_CAP" THEN dout.b ELSE bounds
  /\ seed' = CASE st = "SEED_HIGH_CAP" -> [seed EXCEPT !.high = <<dout.a, dout.b>>]
               [] st = "SEED_LOW_CAP" -> [seed EXCEPT !.low = <<dout.a, dout.b>>]
               [] OTHER -> seed

Output(schDone) ==
  out' = CASE WriteFire -> WriteRow((IF Reduces(cfg) THEN cfg.reduce_out ELSE cfg.vec_out) + Result.batch, Result.value)
           [] NliWriteFire -> WriteRow(cfg.vec_out + cnt.write, tags[NliLatency].value)
           [] st = "SCH_WAIT" /\ schDone ->
                [r \in DOMAIN out |-> IF ports["out"].wr /\ r >= cfg.vec_out
                                        THEN <<"SCH", cfg.opa, r - cfg.vec_out>> ELSE out[r]]
           [] OTHER -> out

\* The wrapper: the last assignment of the clocked block wins.
StickyNext(a) == IF a = Access("ctrl", "CLR_DONE") THEN FALSE
                 ELSE IF Done THEN TRUE ELSE IF Start(a) THEN FALSE ELSE sticky

Cycle(a, schDone) ==
  /\ st' = NextState(a, schDone) /\ dout' = Dout
  /\ Configure(a) /\ Counters(a) /\ Pipeline(a) /\ Tables(a) /\ Output(schDone)
  /\ sticky' = StickyNext(a)
  /\ irq' = IF a.reg = "irq_stat" \/ a = Access("ctrl", "CLR_DONE") THEN FALSE
            ELSE IF Done THEN TRUE ELSE IF Start(a) THEN FALSE ELSE irq
  /\ ports' = IF a.reg \in DOMAIN ports THEN [ports EXCEPT ![a.reg] = a.val] ELSE ports

----------------------------------------------------------------------------
(* The CPU.                                                                *)

\* A case has ended; main goes on with the next one.
Judge(failed) ==
  /\ fails' = IF failed THEN fails + 1 ELSE fails
  /\ IF case < Len(suite) THEN case' = case + 1 /\ step' = 1 /\ UNCHANGED result
     ELSE /\ result' = IF fails' = 0 THEN "AXU_PASS" ELSE "AXU_FAIL"
          /\ UNCHANGED <<case, step>>
  /\ UNCHANGED <<suite, timeouts>>

\* A store, or a fence.
Store ==
  /\ Doing /\ Here.reg \notin {"wait", "check"}
  /\ step' = step + 1
  /\ Cycle(Here, FALSE)
  /\ UNCHANGED <<suite, case, fails, result, timeouts>>

\* wait_done: a poll that finds the unit idle ends it.
WaitDone ==
  /\ Doing /\ Here = Wait /\ ~Busy
  /\ step' = step + 1
  /\ Cycle(NoAccess, FALSE)
  /\ UNCHANGED <<suite, case, fails, result, timeouts>>

\* The last poll found it busy.
TimedOut ==
  /\ Doing /\ Here = Wait /\ Busy /\ timeouts < MaxTimeouts
  /\ timeouts' = timeouts + 1
  /\ fails' = fails + 1
  /\ IF case < Len(suite) THEN case' = case + 1 /\ step' = 1 /\ UNCHANGED result
     ELSE result' = "AXU_FAIL" /\ UNCHANGED <<case, step>>
  /\ Cycle(NoAccess, FALSE)
  /\ UNCHANGED suite

\* run_case reads the status once more.
CheckDone ==
  /\ Doing /\ Here = Check
  /\ IF sticky THEN step' = step + 1 /\ UNCHANGED <<suite, case, fails, result, timeouts>>
     ELSE Judge(TRUE)
  /\ Cycle(NoAccess, FALSE)

EndCase ==
  /\ result = "running" /\ step > Len(Script)
  /\ Judge(suite[case].special = "none" /\ ~compare_output_range(suite[case]))
  /\ Cycle(NoAccess, FALSE)

\* A cycle without an access.
Clock ==
  /\ Busy
  /\ \E schDone \in BOOLEAN : (schDone => st = "SCH_WAIT") /\ Cycle(NoAccess, schDone)
  /\ UNCHANGED hostVars

Rows == 0 .. 9
NoCfg == [unit |-> "VPU", func |-> "ADD", opa |-> 0, opb |-> 0, vec_out |-> 0, reduce_out |-> 0,
          batch |-> 0, seed_high |-> 0, seed_low |-> 0]

AxInit ==
  /\ suite \in Suites /\ case = 1 /\ step = 1 /\ fails = 0 /\ result = "running" /\ timeouts = 0
  /\ ports = [b \in {"opa", "opb", "out"} |-> CPU] /\ sticky = FALSE /\ irq = FALSE
  /\ st = "IDLE" /\ cfg = NoCfg /\ cnt = [read |-> 0, launch |-> 0, write |-> 0]
  /\ dout = [a |-> Stale, b |-> Stale] /\ operand = dout
  /\ readValid = NoTag /\ launch = NoTag /\ tags = [i \in 1 .. 12 |-> NoTag]
  /\ row = Stale /\ slot = 0 /\ entry = 0 /\ flush = 0 /\ bounds = Stale
  /\ seed = [high |-> <<Stale, Stale>>, low |-> <<Stale, Stale>>]
  /\ lut = [k \in DOMAIN LutEntries |-> [e \in 0 .. LutEntries[k] - 1 |-> <<Stale, Stale>>]]
  /\ out = [r \in Rows |-> <<>>]

AxNext == Store \/ WaitDone \/ TimedOut \/ CheckDone \/ EndCase \/ Clock

\* The CPU goes on, the clock runs, and the scheduler answers.
AxFairness ==
  /\ WF_axVars(Store \/ WaitDone \/ CheckDone \/ EndCase) /\ WF_axVars(Clock)
  /\ WF_axVars(Clock /\ st' = "DONE")

----------------------------------------------------------------------------
(***************************************************************************)
(* A unit that answers in time passes: with no wait run out the summary is *)
(* never AXU_FAIL, whatever the pace of the CPU.  Every row of every case  *)
(* is there when wait_done has returned, computed from this case's rows,   *)
(* tables and seed, and the DONE bit has outlived the start that came      *)
(* before it (my_axu_test/main.c:185-320, axu_ctrl.sv, axu_top_wrapper.sv).*)
(***************************************************************************)
HealthyUnitPasses == timeouts = 0 => result # "AXU_FAIL" /\ fails = 0

(***************************************************************************)
(* The suite comes to its summary: no job of the unit hangs, at any batch  *)
(* size and with any latency, and no wait goes on for ever                 *)
(* (axu_ctrl.sv:443-562).                                                  *)
(***************************************************************************)
SuiteEnds == <>(result # "running")
=============================================================================
