-------------------------------- MODULE Bsp --------------------------------
(***************************************************************************)
(* A bare-metal program on the SoC: crt0.S and the hooks around main, the  *)
(* drivers of the CLINT, the PLIC, the console and the control registers,  *)
(* the trap handlers of handlers.S, and the programs that exercise them:   *)
(* hello_world, clint_test, default_slave, trap_test, and a test that      *)
(* returns a failure.                                                      *)
(*                                                                         *)
(* A program is a sequence of halfwords.  An instruction is 32 bits wide   *)
(* and takes two of them, a compressed one takes one; each stands for the  *)
(* driver call whose only access to a device it is.  A line of text is two *)
(* characters.  The hart may take an interrupt that is pending and enabled *)
(* before any instruction, some instructions late but within a bit time;   *)
(* the drivers' accesses are strongly ordered and act at once.  A tick is  *)
(* a bit time of the console.                                              *)
(***************************************************************************)
EXTENDS Syscalls

CONSTANTS
  Progs,      \* the programs that are run
  TimerBits,  \* TIMER_CYCLES
  FrameBits,  \* bits of a character on the line
  FlushBits   \* bits uart_op_flush waits

ASSUME BspAssumption ==
  TimerBits \in Nat \ {0} /\ FrameBits \in Nat \ {0} /\ FlushBits \in Nat

VARIABLES
  prog,       \* the program
  pc,         \* its next halfword
  a0, t0,     \* two registers of the program
  frame,      \* what is left of the handler that runs, <<>> outside one
  ctx,        \* trap_context_t
  mie, gie,   \* the enabled causes, and mstatus.MIE
  cb,         \* the callbacks of the CLINT and the table of the PLIC
  left,       \* mtimecmp - mtime, or Never
  msip,
  plic,       \* priority, enable, threshold, and the gateway's ip and ia
  line,       \* irq_q of the default slave
  hits,       \* the volatile flags the handlers set
  thr, tx,    \* the character held, and the one on the line with its bits
  delay,      \* what is left of uart_delay_cycles
  eoc,        \* exit register of the control block, None before a write
  trail,      \* history: halfwords whose instruction has been executed
  counts      \* history: interrupts asked for and callbacks run, and whether
              \* a character was overwritten

swVars   == <<cb, hits>>
hartVars == <<a0, t0, ctx, mie, gie>>
uartVars == <<thr, tx>>
irqVars  == <<left, msip, plic, line>>
bspVars  == <<prog, pc, frame, swVars, hartVars, uartVars, irqVars, delay, eoc, trail, counts>>

MaxServed == 3  \* bound: callbacks counted
Never == -1
NoChar == <<>>
None == -1
Clobbered == -2
Mine == "mine"     \* what the program holds in t0

----------------------------------------------------------------------------
(* The programs.                                                           *)

Op(op, arg) == [op |-> op, arg |-> arg, width |-> 2]
Half == [op |-> "half", arg |-> "", width |-> 0]
I(op, arg) == <<Op(op, arg), Half>>
Compressed(op, arg) == <<[Op(op, arg) EXCEPT !.width = 1]>>

\* uart_op_putc: the holding register is tested, then written.  _putchar,
\* putchar and puts of minlibc, and printf come down to it.
putc(c) == <<Op("thre", ""), Op("thr", c)>>
puts(text) == putc(<<text, 1>>) \o putc(<<text, 2>>)

\* Program text, two halfwords an instruction.
Wide(ops) == [i \in 1 .. 2 * Len(ops) |-> IF i % 2 = 1 THEN ops[(i + 1) \div 2] ELSE Half]
printf(text) == Wide(puts(text))

hello_world == printf("hello") \o I("li", 0)
failing_test == printf("mismatch") \o I("li", 1)

clint_test ==
  printf("title") \o I("register_timer_cb", "on_timer") \o I("register_ipi_cb", "on_ipi")
  \o I("csrs_mie", {"timer", "sw"}) \o I("csrs_mstatus", "")
  \o printf("arming") \o I("schedule_after", TimerBits)
  \o I("wait", "timer") \o printf("serviced")
  \o I("send_ipi", "") \o I("wait", "sw") \o printf("pass") \o I("li", 0)

\* (mutant: the doorbell is rung before the text is out)
MutDefault_slave ==
  printf("title") \o I("register_handler", "default_slave_isr") \o I("set_priority", 1) \o I("set_threshold", 0)
  \o I("enable", "") \o I("csrs_mie", {"ext"}) \o I("csrs_mstatus", "")
  \o I("doorbell", "") \o printf("arming")
  \o I("wait", "ext") \o printf("pass") \o I("li", 0)
default_slave ==
  printf("title") \o I("register_handler", "default_slave_isr") \o I("set_priority", 1) \o I("set_threshold", 0)
  \o I("enable", "") \o I("csrs_mie", {"ext"}) \o I("csrs_mstatus", "")
  \o printf("arming") \o I("doorbell", "")
  \o I("wait", "ext") \o printf("pass") \o I("li", 0)

trap_test ==
  printf("title") \o I("ecall", "getpid") \o printf("ecall") \o I("illegal", "") \o printf("b")
  \o Compressed("illegal", "") \o printf("c") \o I("li", 0)

\* hook.c: the flush of the console, the holding register and then a delay.
\* (mutant: it waits for the holding register only)
MutPostMain == I("thre", "")
post_main == I("thre", "") \o I("delay", "") \o I("delayed", "")

\* crt0.S: the hooks around main, and exit with its result.
crt0(main) == I("pre_main", "") \o main \o post_main \o I("exit", "")

Text ==
  [hello_world |-> crt0(hello_world), failing_test |-> crt0(failing_test),
   clint_test |-> crt0(clint_test), default_slave |-> crt0(default_slave),
   trap_test |-> crt0(trap_test)]

ASSUME ProgsAssumption == Progs \subseteq DOMAIN Text

----------------------------------------------------------------------------
(* The handlers, as they are entered with the callbacks that are installed.*)

default_cb == puts("unhandled")
on_timer == <<Op("set_mtimecmp", Never), Op("hit", "timer")>> \o puts("on_timer")
on_ipi   == <<Op("hit", "sw")>> \o puts("on_ipi")
\* (mutant: the doorbell is not acknowledged)
MutDefault_slave_isr == <<Op("hit", "ext")>> \o puts("isr")
default_slave_isr == <<Op("ack", ""), Op("hit", "ext")>> \o puts("isr")

Callback(name) ==
  CASE name = "on_timer" -> on_timer [] name = "on_ipi" -> on_ipi
    [] name = "default_slave_isr" -> default_slave_isr [] OTHER -> default_cb

\* (mutant: the software interrupt is never acknowledged)
MutHandle_m_sw_irq == Callback(cb.sw)
handle_m_sw_irq == <<Op("clear_ipi", "")>> \o Callback(cb.sw)
handle_m_timer_irq == Callback(cb.timer)
handle_m_ext == <<Op("claim", "")>>

Vector(cause) ==
  CASE cause = "sw" -> handle_m_sw_irq [] cause = "timer" -> handle_m_timer_irq
    [] cause = "ext" -> handle_m_ext
    [] cause = "ecall" -> <<Op("handle_syscall", ""), Op("ctx_advance_mepc", "")>>
    [] OTHER -> puts("illegal") \o <<Op("ctx_advance_mepc", "")>>

\* The C functions use the registers they like; SAVE_CTX has kept them.  It
\* computes the old sp in t0 before it comes to store x5, which is t0.
Spilled(t) == "sp"
SAVE_CTX(cause, id) ==
  /\ ctx' = [mepc |-> pc, mpie |-> gie, a0 |-> a0, t0 |-> Spilled(t0), a7 |-> id]
  /\ gie' = FALSE /\ a0' = Clobbered /\ t0' = "any"
  /\ frame' = Vector(cause) \o <<Op("mret", "")>>

RESTORE_CTX == pc' = ctx.mepc /\ gie' = ctx.mpie /\ a0' = ctx.a0 /\ t0' = ctx.t0

----------------------------------------------------------------------------
(* One instruction.                                                        *)

Halted == eoc # None
Now == IF frame # <<>> THEN Head(frame) ELSE Text[prog][pc]
Executes(op) == ~Halted /\ Now.op = op

\* The instruction is done: the next one of the handler, or of the program.
Advance ==
  IF frame # <<>> THEN frame' = Tail(frame) /\ UNCHANGED <<pc, trail>>
  ELSE pc' = pc + Now.width /\ trail' = trail \union {pc} /\ UNCHANGED frame

pre_main ==
  /\ Executes("pre_main") /\ Advance
  /\ cb' = [timer |-> "default_cb", sw |-> "default_cb", ext |-> "default_cb"]
  /\ msip' = FALSE
  /\ plic' = [plic EXCEPT !.prio = 0, !.enable = FALSE, !.threshold = 0]
  /\ UNCHANGED <<prog, hits, hartVars, uartVars, left, line, delay, eoc, counts>>

\* The test of the holding register, in putc and in flush.
thre ==
  /\ Executes("thre") /\ thr = NoChar /\ Advance
  /\ UNCHANGED <<prog, swVars, hartVars, uartVars, irqVars, delay, eoc, counts>>

\* The write that follows it overwrites what is held by then.
write_thr ==
  /\ Executes("thr") /\ Advance
  /\ thr' = Now.arg
  /\ counts' = [counts EXCEPT !.lost = @ \/ thr # NoChar]
  /\ UNCHANGED <<prog, swVars, hartVars, tx, irqVars, delay, eoc>>

register_cb(op, slot) ==
  /\ Executes(op) /\ Advance
  /\ cb' = [cb EXCEPT ![slot] = Now.arg]
  /\ UNCHANGED <<prog, hits, hartVars, uartVars, irqVars, delay, eoc, counts>>

csrs_mie ==
  /\ Executes("csrs_mie") /\ Advance
  /\ mie' = mie \union Now.arg
  /\ UNCHANGED <<prog, swVars, a0, t0, ctx, gie, uartVars, irqVars, delay, eoc, counts>>
csrs_mstatus ==
  /\ Executes("csrs_mstatus") /\ Advance
  /\ gie' = TRUE
  /\ UNCHANGED <<prog, swVars, a0, t0, ctx, mie, uartVars, irqVars, delay, eoc, counts>>

schedule_after ==
  /\ Executes("schedule_after") /\ Advance
  /\ left' = Now.arg
  /\ counts' = [counts EXCEPT !.asked["timer"] = @ + 1]
  /\ UNCHANGED <<prog, swVars, hartVars, uartVars, msip, plic, line, delay, eoc>>
set_mtimecmp ==
  /\ Executes("set_mtimecmp") /\ Advance
  /\ left' = Now.arg
  /\ UNCHANGED <<prog, swVars, hartVars, uartVars, msip, plic, line, delay, eoc, counts>>

\* A loop on a volatile flag: left when a handler has set it.
wait ==
  /\ Executes("wait") /\ Now.arg \in hits /\ Advance
  /\ UNCHANGED <<prog, swVars, hartVars, uartVars, irqVars, delay, eoc, counts>>
hit ==
  /\ Executes("hit") /\ Advance
  /\ hits' = hits \union {Now.arg}
  /\ counts' = [counts EXCEPT !.served[Now.arg] = IF @ < MaxServed THEN @ + 1 ELSE @]
  /\ UNCHANGED <<prog, cb, hartVars, uartVars, irqVars, delay, eoc>>

send_ipi ==
  /\ Executes("send_ipi") /\ Advance
  /\ msip' = TRUE
  /\ counts' = [counts EXCEPT !.asked["sw"] = @ + 1]
  /\ UNCHANGED <<prog, swVars, hartVars, uartVars, left, plic, line, delay, eoc>>
clear_ipi ==
  /\ Executes("clear_ipi") /\ Advance
  /\ msip' = FALSE
  /\ UNCHANGED <<prog, swVars, hartVars, uartVars, left, plic, line, delay, eoc, counts>>

\* The registers of the PLIC that belong to the source of the default slave.
set_plic(op, field, value) ==
  /\ Executes(op) /\ Advance
  /\ plic' = [plic EXCEPT ![field] = value]
  /\ UNCHANGED <<prog, swVars, hartVars, uartVars, left, msip, line, delay, eoc, counts>>

\* handle_m_ext: an id of zero is nobody's; else the callback, then complete.
claim ==
  /\ Executes("claim")
  /\ frame' = IF plic.ip THEN Callback(cb.ext) \o <<Op("complete", "")>> \o Tail(frame)
              ELSE Tail(frame)
  /\ plic' = [plic EXCEPT !.ip = FALSE]
  /\ UNCHANGED <<prog, pc, trail, swVars, hartVars, uartVars, left, msip, line, delay, eoc, counts>>

doorbell ==
  /\ Executes("doorbell") /\ Advance
  /\ line' = TRUE
  /\ counts' = [counts EXCEPT !.asked["ext"] = @ + 1]
  /\ UNCHANGED <<prog, swVars, hartVars, uartVars, left, msip, plic, delay, eoc>>
ack ==
  /\ Executes("ack") /\ Advance
  /\ line' = FALSE
  /\ UNCHANGED <<prog, swVars, hartVars, uartVars, left, msip, plic, delay, eoc, counts>>

\* A synchronous trap: mepc is the instruction itself.
exception(op) ==
  /\ Executes(op) /\ frame = <<>>
  /\ SAVE_CTX(op, Now.arg)
  /\ trail' = trail \union {pc}
  /\ UNCHANGED <<prog, pc, mie, swVars, uartVars, irqVars, delay, eoc, counts>>

syscall ==
  /\ Executes("handle_syscall") /\ Advance
  /\ ctx' = [ctx EXCEPT !.a0 = handle_syscall(ctx.a7).ret]
  /\ UNCHANGED <<prog, a0, t0, mie, gie, swVars, uartVars, irqVars, delay, eoc, counts>>

\* (mutant: every instruction is taken to be four bytes long)
MutCtx_advance_mepc(mepc) == mepc + 2
ctx_advance_mepc(mepc) == mepc + Text[prog][mepc].width

advance_mepc ==
  /\ Executes("ctx_advance_mepc") /\ Advance
  /\ ctx' = [ctx EXCEPT !.mepc = ctx_advance_mepc(@)]
  /\ UNCHANGED <<prog, a0, t0, mie, gie, swVars, uartVars, irqVars, delay, eoc, counts>>

mret ==
  /\ Executes("mret")
  /\ RESTORE_CTX /\ frame' = <<>>
  /\ UNCHANGED <<prog, trail, ctx, mie, swVars, uartVars, irqVars, delay, eoc, counts>>

li ==
  /\ Executes("li") /\ Advance
  /\ a0' = Now.arg
  /\ UNCHANGED <<prog, t0, ctx, mie, gie, swVars, uartVars, irqVars, delay, eoc, counts>>

\* uart_delay_cycles
start_delay ==
  /\ Executes("delay") /\ Advance
  /\ delay' = FlushBits
  /\ UNCHANGED <<prog, swVars, hartVars, uartVars, irqVars, eoc, counts>>
delayed ==
  /\ Executes("delayed") /\ delay = 0 /\ Advance
  /\ UNCHANGED <<prog, swVars, hartVars, uartVars, irqVars, delay, eoc, counts>>

\* exit, _exit and soc_exit: the driver shifts the status and sets bit 0.
exit ==
  /\ Executes("exit")
  /\ eoc' = 2 * a0 + 1
  /\ UNCHANGED <<prog, pc, frame, trail, swVars, hartVars, uartVars, irqVars, delay, counts>>

----------------------------------------------------------------------------
(* The hardware.                                                           *)

\* ctrl_registers.sv puts a written flag below the register, the SoC passes
\* only that bit on, and the test bench takes the bits above it as the code.
ctrl_exit == 2 * eoc + 1
exit_o == ctrl_exit % 2
verdict == IF exit_o \div 2 # 0 THEN "FAILED" ELSE "SUCCESS"

Pending(cause) ==
  CASE cause = "sw" -> msip
    [] cause = "timer" -> left = 0
    [] cause = "ext" -> plic.ip /\ plic.enable /\ plic.prio > plic.threshold

\* External interrupts go before software ones, those before the timer's.
Rank == [ext |-> 3, sw |-> 2, timer |-> 1]

Interruptible == ~Halted /\ frame = <<>> /\ gie /\ \E cause \in mie : Pending(cause)

take_interrupt ==
  /\ Interruptible
  /\ \E cause \in mie :
       /\ Pending(cause)
       /\ \A other \in mie : Pending(other) => Rank[other] <= Rank[cause]
       /\ SAVE_CTX(cause, "none")
  /\ UNCHANGED <<prog, pc, trail, mie, swVars, uartVars, irqVars, delay, eoc, counts>>

\* The gateway: a level that is high and not in service becomes pending.
gateway ==
  /\ ~Halted /\ line /\ ~plic.ia
  /\ plic' = [plic EXCEPT !.ip = TRUE, !.ia = TRUE]
  /\ UNCHANGED <<prog, pc, frame, trail, swVars, hartVars, uartVars, left, msip, line, delay, eoc, counts>>

\* A bit time: mtime runs, the delay loop runs, the line shifts a bit.  It
\* is eighty cycles, long enough for the hart to take an interrupt.
tick ==
  /\ ~Halted /\ ~Interruptible
  /\ left > 0 \/ delay > 0 \/ tx.bits > 0 \/ thr # NoChar
  /\ left' = IF left > 0 THEN left - 1 ELSE left
  /\ delay' = IF delay > 0 /\ frame = <<>> THEN delay - 1 ELSE delay
  /\ LET idle == tx.bits <= 1
     IN /\ tx' = IF idle /\ thr # NoChar THEN [char |-> thr, bits |-> FrameBits]
                 ELSE IF idle THEN [char |-> NoChar, bits |-> 0]
                 ELSE [tx EXCEPT !.bits = @ - 1]
        /\ thr' = IF idle THEN NoChar ELSE thr
  /\ UNCHANGED <<prog, pc, frame, trail, swVars, hartVars, msip, plic, line, eoc, counts>>

----------------------------------------------------------------------------
BspInit ==
  /\ prog \in Progs /\ pc = 1 /\ a0 = 0 /\ t0 = Mine /\ frame = <<>>
  /\ ctx = [mepc |-> 0, mpie |-> FALSE, a0 |-> 0, t0 |-> Mine, a7 |-> "none"]
  /\ mie = {} /\ gie = FALSE
  /\ cb = [timer |-> "none", sw |-> "none", ext |-> "none"] /\ hits = {}
  /\ left = 0 /\ msip = FALSE /\ line = FALSE
  /\ plic = [prio |-> 0, enable |-> FALSE, threshold |-> 0, ip |-> FALSE, ia |-> FALSE]
  /\ thr = NoChar /\ tx = [char |-> NoChar, bits |-> 0]
  /\ delay = 0 /\ eoc = None /\ trail = {}
  /\ counts = [asked |-> [c \in DOMAIN Rank |-> 0], served |-> [c \in DOMAIN Rank |-> 0],
               lost |-> FALSE]

run ==
  \/ pre_main \/ thre \/ write_thr \/ csrs_mie \/ csrs_mstatus \/ li \/ wait \/ hit
  \/ register_cb("register_timer_cb", "timer") \/ register_cb("register_ipi_cb", "sw")
  \/ register_cb("register_handler", "ext")
  \/ schedule_after \/ set_mtimecmp \/ send_ipi \/ clear_ipi
  \/ set_plic("set_priority", "prio", Now.arg) \/ set_plic("set_threshold", "threshold", Now.arg)
  \/ set_plic("enable", "enable", TRUE) \/ set_plic("complete", "ia", FALSE)
  \/ claim \/ doorbell \/ ack
  \/ exception("ecall") \/ exception("illegal") \/ syscall \/ advance_mepc \/ mret
  \/ start_delay \/ delayed \/ exit

BspNext == run \/ take_interrupt \/ gateway \/ tick

BspSpec == BspInit /\ [][BspNext]_bspVars

\* The hart goes on and takes the interrupts it is given, the clock runs.
BspFairness ==
  /\ WF_bspVars(run) /\ WF_bspVars(take_interrupt) /\ WF_bspVars(gateway) /\ WF_bspVars(tick)

----------------------------------------------------------------------------
Starts(text) == {i \in DOMAIN text : text[i].op # "half"}

(***************************************************************************)
(* After a trap or an interrupt the program goes on with the instruction   *)
(* that is due: every one before it has run, of four bytes or of two, and  *)
(* its a0 is its own, but for the answer of an ecall (handlers.S,          *)
(* ctx_advance_mepc and handle_syscall of syscalls.c; for t0 see           *)
(* TemporariesKept).                                                       *)
(***************************************************************************)
ResumeExact ==
  frame = <<>> =>
    /\ trail \ {pc} = {i \in Starts(Text[prog]) : i < pc}
    /\ Text[prog][pc].op # "half"
    /\ a0 # Clobbered
    /\ \A i \in trail \ {pc} :
         Text[prog][i].op = "ecall" /\ (\A j \in trail : Text[prog][j].op # "li") => a0 = 1

(***************************************************************************)
(* When the test bench sees the end of the program, every character that   *)
(* was written has left on the line: THRE says only that the holding       *)
(* register is empty, so post_main waits for the shift register as well    *)
(* (hook.c:39-43, serial.c:43-49).                                         *)
(***************************************************************************)
OutputComplete ==
  Halted => thr = NoChar /\ tx.bits = 0

(***************************************************************************)
(* No character is overwritten in the holding register although putc tests *)
(* and writes in two steps and a handler that prints may come between      *)
(* them, in the programs that print nothing between the request of an      *)
(* interrupt and its handler (serial.c:35-36; clint_test does).            *)
(***************************************************************************)
OutputWhole == prog # "clint_test" => ~counts.lost

(***************************************************************************)
(* A callback runs once for each interrupt that was asked for, no more     *)
(* often and, when the program ends, no less: the doorbell and the         *)
(* software interrupt are dropped before the handler returns (clint.c:89,  *)
(* plic.c:74, default_slave's ISR).                                        *)
(***************************************************************************)
InterruptsOnce ==
  \A c \in {"sw", "ext"} :
    /\ counts.served[c] <= counts.asked[c]
    /\ Halted => counts.served[c] = counts.asked[c]

(***************************************************************************)
(* Every program comes to its end: no loop of it waits for ever for a flag *)
(* or for the console, and no interrupt keeps coming back.                 *)
(***************************************************************************)
ProgramEnds == <>(prog \in Progs => Halted)

(***************************************************************************)
(* What soc_ctrl.c says of the control registers: the status of the        *)
(* program is the exit code, so a program that fails is reported.          *)
(***************************************************************************)
FailureReported == Halted => (verdict = "FAILED" <=> a0 # 0)

(***************************************************************************)
(* What handlers.S says of its macros: t0 is part of the saved context, so *)
(* the program finds in it what it left there (handlers.S:80-81).          *)
(***************************************************************************)
TemporariesKept == frame = <<>> => t0 = Mine
=============================================================================
