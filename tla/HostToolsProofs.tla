-------------------------- MODULE HostToolsProofs --------------------------
(***************************************************************************)
(* The simulation driver closes its trace file, the JTAG server answers    *)
(* with what the design shows, the terminal echoes what was typed, the     *)
(* memory loader keeps its areas apart, and the preloader puts the program *)
(* where it belongs.                                                       *)
(***************************************************************************)
EXTENDS SimCtrl, Bitbang, UartDpi, MemUtil, Preload, WellFoundedInduction, TLAPS

----------------------------------------------------------------------------
(***************************************************************************)
(* The trace file.  It is closed when tracing_ever_enabled_ is set, so     *)
(* that flag has to stay set from the moment before the file is opened:    *)
(* TraceOn assigns it tracing_possible_, which is true whenever tracing    *)
(* was on before, and TraceOff leaves it alone.                            *)
(***************************************************************************)

\* Before the main loop, in it and behind it, where signals are handled.
InLoop == {"trace0", "dump0", "eval0", "unset", "reset", "eval", "trace", "dump", "ends", "post"}

\* The inductive invariant of the trace file.
ScInv ==
  /\ tracing_possible \in BOOLEAN
  /\ scPc \in InLoop \cup {"args", "run", "exited"}
  /\ enabled \in BOOLEAN /\ ever \in BOOLEAN
  /\ traceFile \in {"never", "open", "closed"}
  /\ enabled => ever
  /\ ever => tracing_possible
  /\ scPc \in {"args", "run"} => traceFile = "never"
  /\ scPc \in {"dump0", "dump"} => ever
  /\ traceFile = "open" => ever
  /\ scPc = "exited" => traceFile # "open"

LEMMA ScStarts == ScInit => ScInv
BY SimCtrlAssumption DEF ScInit, ScInv, InLoop

\* Switching tracing on or off.
LEMMA SwitchKeeps ==
  ASSUME ScInv, IF enabled THEN TraceOff ELSE TraceOn
  PROVE  /\ enabled' \in BOOLEAN /\ ever' \in BOOLEAN
         /\ enabled' => ever'
         /\ ever' => tracing_possible
         /\ ever => ever'
BY DEF ScInv, TraceOff, TraceOn

LEMMA ParseKeeps == ASSUME ScInv, ParseCommandArgs PROVE ScInv'
<1>1. scPc = "args" /\ traceFile = "never" /\ traceFile' = "never" /\ tracing_possible' = tracing_possible
  BY DEF ScInv, ParseCommandArgs
<1>2. CASE argv # <<>>
  <2>1. CASE Head(argv) = "t" /\ tracing_possible
    <3>1. scPc' = "args" /\ TraceOn
      BY <1>1, <1>2, <2>1 DEF ParseCommandArgs
    <3> QED
      BY <1>1, <2>1, <3>1 DEF ScInv, TraceOn, InLoop
  <2>2. CASE ~(Head(argv) = "t" /\ tracing_possible)
    <3>1. scPc' \in {"args", "exited"} /\ enabled' = enabled /\ ever' = ever
      <4>1. CASE Head(argv) = "t"
        BY <1>1, <1>2, <2>2, <4>1 DEF ParseCommandArgs, Quits, traceVars
      <4>2. CASE Head(argv) # "t"
        BY <1>1, <1>2, <4>2 DEF ParseCommandArgs, Quits, traceVars
      <4> QED
        BY <4>1, <4>2
    <3> QED
      BY <1>1, <3>1 DEF ScInv, InLoop
  <2> QED
    BY <2>1, <2>2
<1>3. CASE argv = <<>>
  <2>1. scPc' \in {"run", "exited"} /\ enabled' = enabled /\ ever' = ever
    BY <1>1, <1>3 DEF ParseCommandArgs, traceVars
  <2> QED
    BY <1>1, <2>1 DEF ScInv, InLoop
<1> QED
  BY <1>2, <1>3

LEMMA ScKept == ASSUME ScInv, [ScNext]_scVars PROVE ScInv'
<1>1. CASE ParseCommandArgs
  BY <1>1, ParseKeeps
<1>2. CASE RunSimulation
  BY <1>2 DEF ScInv, InLoop, RunSimulation, traceVars
<1>12. CASE EnterLoop
  BY <1>12 DEF ScInv, InLoop, EnterLoop, traceVars
<1>3. CASE DriveReset
  BY <1>3 DEF ScInv, InLoop, DriveReset, traceVars
<1>4. CASE Eval
  BY <1>4 DEF ScInv, InLoop, Eval, Evaluated, traceVars
<1>5. CASE vl_stop
  BY <1>5 DEF ScInv, InLoop, vl_stop, Evaluated, traceVars
<1>6. CASE TraceMessage
  BY <1>6 DEF ScInv, InLoop, TraceMessage, Traced
<1>7. CASE TraceDump
  BY <1>7 DEF ScInv, InLoop, TraceDump, Traced, traceVars
<1>8. CASE LoopEnd
  BY <1>8 DEF ScInv, InLoop, LoopEnd, traceVars
<1>9. CASE Run
  BY <1>9 DEF ScInv, InLoop, Run, traceVars
<1>10. CASE SignalHandler
  <2>1. /\ scPc \in InLoop /\ scPc' = scPc /\ traceFile' = traceFile
        /\ tracing_possible' = tracing_possible
    BY <1>10 DEF SignalHandler, InLoop, ScInv
  <2>2. CASE UNCHANGED traceVars
    BY <2>1, <2>2 DEF ScInv, InLoop, traceVars
  <2>3. CASE IF enabled THEN TraceOff ELSE TraceOn
    BY <2>1, <2>3, SwitchKeeps DEF ScInv, InLoop
  <2> QED
    BY <1>10, <2>2, <2>3 DEF SignalHandler
<1>11. CASE UNCHANGED scVars
  BY <1>11 DEF ScInv, scVars
<1> QED
  BY <1>1, <1>2, <1>3, <1>4, <1>5, <1>6, <1>7, <1>8, <1>9, <1>10, <1>11, <1>12 DEF ScNext, Main, Trace

(***************************************************************************)
(* Whatever the command line and the build, and however many signals       *)
(* arrive between any two steps of the loop, a trace file that was opened  *)
(* is closed when the process ends (verilator_sim_ctrl.cc:227, 342).       *)
(***************************************************************************)
THEOREM TraceFileClosedHolds == ScSpec => []TraceFileClosed
<1>1. ScInv => TraceFileClosed
  BY DEF ScInv, TraceFileClosed
<1> QED
  BY <1>1, ScStarts, ScKept, PTL DEF ScSpec

----------------------------------------------------------------------------
(***************************************************************************)
(* The JTAG server.  Outside of a command the design has seen every pin    *)
(* setting, and TDO was sampled when the command's tick began.             *)
(***************************************************************************)

\* The inductive invariant of the server.
BbInv ==
  /\ bbPc \in {"design", "accept", "read", "aborted"}
  /\ pinsSet \in Nat /\ pinsSeen \in Nat /\ tdo \in Nat
  /\ replies \in Seq([tdo : Nat, due : Nat])
  /\ pinsSeen = pinsSet
  /\ bbPc = "read" => tdo = pinsSet
  /\ ReplyIsCurrent

LEMMA BbStarts == BbInit => BbInv
BY DEF BbInit, BbInv, ReplyIsCurrent, remote_bitbang_t, rbs_init

\* A command that is executed in its own tick answers with the current TDO.
LEMMA CommandKeeps ==
  ASSUME BbInv, NEW version, ExecuteCommand(version) PROVE BbInv'
<1>1. /\ bbPc = "read" /\ bbPc' = "design" /\ tdo' = tdo
      /\ pinsSet' = set_pins(Head(wire)) /\ pinsSeen' = pinsSet' /\ replies' = Reply(Head(wire))
  BY DEF ExecuteCommand, Leave
<1>2. pinsSet' \in Nat
  BY <1>1 DEF BbInv, set_pins
<1>3. replies' \in Seq([tdo : Nat, due : Nat]) /\ ReplyIsCurrent'
  <2>1. CASE Head(wire) = "R"
    <3> DEFINE answer == [tdo |-> tdo, due |-> pinsSet]
    <3>1. answer \in [tdo : Nat, due : Nat] /\ answer.tdo = answer.due
      BY <1>1 DEF BbInv
    <3>2. replies' = Append(replies, answer)
      BY <1>1, <2>1 DEF Reply
    <3> HIDE DEF answer
    <3>3. replies \in Seq([tdo : Nat, due : Nat])
      BY DEF BbInv
    <3>4. /\ replies' \in Seq([tdo : Nat, due : Nat])
          /\ DOMAIN replies' = 1 .. Len(replies) + 1
          /\ \A i \in 1 .. Len(replies) + 1 :
               replies'[i] = IF i = Len(replies) + 1 THEN answer ELSE replies[i]
      BY <3>1, <3>2, <3>3
    <3>5. DOMAIN replies = 1 .. Len(replies) /\ Len(replies) \in Nat
      BY <3>3
    <3> QED
      BY <3>1, <3>4, <3>5, SMTT(40) DEF BbInv, ReplyIsCurrent
  <2>2. CASE Head(wire) # "R"
    BY <1>1, <2>2 DEF Reply, BbInv, ReplyIsCurrent
  <2> QED
    BY <2>1, <2>2
<1> QED
  BY <1>1, <1>2, <1>3 DEF BbInv

LEMMA BbKept == ASSUME BbInv, [BbNext]_bbVars PROVE BbInv'
<1>1. ASSUME NEW version, Tick(version) PROVE BbInv'
  BY <1>1 DEF Tick, BbInv, ReplyIsCurrent
<1>2. ASSUME NEW version, Accept(version) PROVE BbInv'
  BY <1>2 DEF Accept, Leave, BbInv, ReplyIsCurrent
<1>3. ASSUME NEW version, SendFails(version) PROVE BbInv'
  BY <1>3 DEF SendFails, BbInv, ReplyIsCurrent
<1>4. CASE execute_command
  BY <1>3, <1>4, CommandKeeps DEF execute_command
<1>5. CASE rbs_execute_command
  <2>1. CASE ExecuteCommand("simjtag") \/ SendFails("simjtag")
    BY <1>3, <2>1, CommandKeeps
  <2>2. CASE ~(ExecuteCommand("simjtag") \/ SendFails("simjtag"))
    BY <1>5, <2>2 DEF rbs_execute_command, Leave, BbInv, ReplyIsCurrent
  <2> QED
    BY <2>1, <2>2
<1>6. CASE Connect \/ Send \/ Die
  BY <1>6 DEF Connect, Send, Die, BbInv, ReplyIsCurrent
<1>7. CASE UNCHANGED bbVars
  BY <1>7 DEF bbVars, BbInv, ReplyIsCurrent
<1> QED
  BY <1>1, <1>2, <1>4, <1>5, <1>6, <1>7
  DEF BbNext, Server, tick, rbs_tick, accept, rbs_accept

(***************************************************************************)
(* In both versions of the server, whatever the debuggers send and         *)
(* wherever they die, an answer to R shows the design after it has run     *)
(* with every pin setting sent before it (remote_bitbang.h:47).            *)
(***************************************************************************)
THEOREM ReplyIsCurrentHolds == BbSpec => []ReplyIsCurrent
<1>1. BbInv => ReplyIsCurrent
  BY DEF BbInv
<1> QED
  BY <1>1, BbStarts, BbKept, PTL DEF BbSpec

----------------------------------------------------------------------------
(***************************************************************************)
(* The terminal.  The transmitter is in cycle txcyccount of symbol TxAt of *)
(* a frame, or, with TxAt = 10, between two frames; the receiver, which    *)
(* samples in the middle of a symbol, follows it at a fixed distance.      *)
(***************************************************************************)

Char == [1 .. 8 -> {0, 1}]
Half == CYCLES_PER_SYMBOL \div 2

\* The character in flight is the last one taken, number Taken.
Taken == Len(all) - Len(typed)
TxAt == IF txactive THEN txcount ELSE 10

UaTypes ==
  /\ all \in Seq(Char) /\ typed \in Seq(Char) /\ written \in Seq(Char)
  /\ txactive \in BOOLEAN /\ txcount \in 0 .. 9 /\ txcyccount \in 0 .. CYCLES_PER_SYMBOL - 1
  /\ rxactive \in BOOLEAN /\ rxcount \in 0 .. 9 /\ rxcyccount \in 0 .. CYCLES_PER_SYMBOL - 1
  /\ rxsymbol \in Char /\ tx_o \in {0, 1}

\* What is typed, taken and written is all the same text.
SameText ==
  /\ Len(typed) <= Len(all) /\ Len(written) <= Taken
  /\ \A i \in 1 .. Len(typed) : typed[i] = all[Taken + i]
  /\ \A i \in 1 .. Len(written) : written[i] = all[i]

\* The serial line shows the symbol of the cycle before.
Line ==
  /\ txactive => txsymbol = Frame(all[Taken]) /\ Taken >= 1
  /\ ~txactive => txcyccount = 0
  /\ tx_o = IF TxAt = 10 \/ (TxAt = 0 /\ txcyccount = 0) THEN 1
            ELSE IF txcyccount = 0 THEN txsymbol[TxAt - 1] ELSE txsymbol[TxAt]

\* Where the transmitter is when the receiver waits for a start bit,
RxIdle ==
  \/ TxAt = 10 /\ Len(written) = Taken
  \/ TxAt = 9 /\ txcyccount >= Half + 2 /\ Len(written) = Taken
  \/ TxAt = 0 /\ txcyccount <= 1 /\ Len(written) = Taken - 1

\* when it waits for the middle of the start bit,
RxStart ==
  /\ rxcyccount <= Half - 1 /\ Len(written) = Taken - 1
  /\ \/ TxAt = 0 /\ txcyccount = 2 + rxcyccount
     \/ TxAt = 1 /\ txcyccount = 0 /\ 2 + rxcyccount = CYCLES_PER_SYMBOL

\* and when it waits for the middle of a later one.
RxData ==
  /\ Len(written) = Taken - 1
  /\ \A i \in 1 .. 8 : i < rxcount => rxsymbol[i] = all[Taken][i]
  /\ \/ TxAt = rxcount - 1 /\ txcyccount = Half + 2 + rxcyccount
     \/ TxAt = rxcount /\ txcyccount = Half + 2 + rxcyccount - CYCLES_PER_SYMBOL
     \/ TxAt = rxcount + 1 /\ txcyccount = 0 /\ Half + 2 + rxcyccount = 2 * CYCLES_PER_SYMBOL

InStep ==
  /\ ~rxactive => RxIdle
  /\ rxactive /\ rxcount = 0 => RxStart
  /\ rxactive /\ rxcount # 0 => RxData

\* The inductive invariant of the terminal; an aborted one keeps its text.
UaInv ==
  /\ UaTypes /\ SameText
  /\ uaPc # "abort" => Line /\ InStep /\ (path = "log" => log = written)
  /\ uaPc = "initial" => written = <<>>
  /\ uaPc = "closed" => Len(written) = Len(all)

LEMMA HalfFacts == Half \in Nat /\ Half >= 1 /\ Half + 1 <= CYCLES_PER_SYMBOL /\ Half - 1 = HalfSymbol
BY UartDpiAssumption DEF Half, HalfSymbol

LEMMA FrameFacts ==
  ASSUME NEW ch \in Char
  PROVE  /\ Frame(ch)[0] = 0 /\ Frame(ch)[9] = 1
         /\ \A i \in 1 .. 8 : Frame(ch)[i] = ch[i]
         /\ \A i \in 0 .. 9 : Frame(ch)[i] \in {0, 1}
BY DEF Frame, Char

LEMMA UaStarts == UaInit => UaInv
<1> SUFFICES ASSUME UaInit PROVE UaInv
  OBVIOUS
<1>1. typed \in Seq(Char) /\ all = typed /\ written = <<>> /\ Len(written) = 0
  BY UartDpiAssumption DEF UaInit, Char
<1>2. UaTypes
  <2>1. rxsymbol \in Char
    BY DEF UaInit, Char
  <2>2. 0 \in 0 .. CYCLES_PER_SYMBOL - 1
    BY UartDpiAssumption
  <2>3. txactive \in BOOLEAN /\ rxactive \in BOOLEAN
    BY DEF UaInit
  <2>4. written \in Seq(Char) /\ txcount \in 0 .. 9 /\ rxcount \in 0 .. 9 /\ tx_o \in {0, 1}
    BY DEF UaInit
  <2>5. txcyccount \in 0 .. CYCLES_PER_SYMBOL - 1 /\ rxcyccount \in 0 .. CYCLES_PER_SYMBOL - 1
    BY <2>2 DEF UaInit
  <2> QED
    BY <1>1, <2>1, <2>3, <2>4, <2>5 DEF UaTypes
<1>3. Taken = 0 /\ TxAt = 10
  BY <1>1 DEF Taken, UaInit, TxAt
<1>4. SameText
  BY <1>1, <1>3 DEF SameText
<1>5. Line /\ InStep
  BY <1>1, <1>3 DEF UaInit, Line, InStep, RxIdle
<1> QED
  BY <1>1, <1>2, <1>4, <1>5 DEF UaInv, UaInit

----------------------------------------------------------------------------
(* A clock edge, as the transmitter and as the receiver see it.            *)

TxRests == TxAt = 10 /\ TxAt' = 10 /\ txcyccount' = 0 /\ typed' = typed /\ tx_o' = 1

TxTakes ==
  /\ TxAt = 10 /\ TxAt' = 0 /\ txcyccount' = 0 /\ tx_o' = 1
  /\ typed # <<>> /\ typed' = Tail(typed) /\ txsymbol' = Frame(Head(typed))

TxShifts ==
  /\ TxAt \in 0 .. 9 /\ tx_o' = txsymbol[TxAt] /\ txsymbol' = txsymbol /\ typed' = typed
  /\ \/ TxAt' = TxAt /\ txcyccount' = txcyccount + 1 /\ txcyccount' < CYCLES_PER_SYMBOL
     \/ TxAt' = TxAt + 1 /\ txcyccount' = 0 /\ txcyccount = CYCLES_PER_SYMBOL - 1

TxTyped == /\ txactive' \in BOOLEAN /\ txcount' \in 0 .. 9 /\ txcyccount' \in 0 .. CYCLES_PER_SYMBOL - 1

LEMMA TxMoves ==
  ASSUME UaTypes, Line, TxClock
  PROVE  TxTyped /\ (TxRests \/ TxTakes \/ TxShifts)
<1>1. CASE ~txactive
  <2>1. TxAt = 10 /\ txcyccount = 0 /\ tx_o' = 1
    BY <1>1 DEF TxAt, TxClock, Line
  <2>2. CASE uartdpi_can_read
    BY <1>1, <2>1, <2>2, UartDpiAssumption DEF TxClock, TxAt, TxTakes, TxTyped, uartdpi_read, uartdpi_can_read
  <2>3. CASE ~uartdpi_can_read
    BY <1>1, <2>1, <2>3 DEF TxClock, TxAt, TxRests, TxTyped, UaTypes
  <2> QED
    BY <2>2, <2>3
<1>2. CASE txactive
  <2>1. TxAt = txcount /\ TxAt \in 0 .. 9 /\ tx_o' = txsymbol[TxAt] /\ txsymbol' = txsymbol /\ typed' = typed
    BY <1>2 DEF TxAt, TxClock, UaTypes
  <2>2. CASE txcyccount = CYCLES_PER_SYMBOL - 1
    <3>1. CASE txcount = 9
      <4>1. txactive' = FALSE /\ txcyccount' = 0 /\ txcount' = 9
        BY <1>2, <2>2, <3>1 DEF TxClock
      <4>2. TxAt' = 10 /\ TxAt = 9
        BY <2>1, <3>1, <4>1 DEF TxAt
      <4>3. txactive' \in BOOLEAN
        BY <4>1
      <4> QED
        BY <2>1, <2>2, <3>1, <4>1, <4>2, <4>3, UartDpiAssumption DEF TxShifts, TxTyped
    <3>2. CASE txcount # 9
      <4>1. txactive' = TRUE /\ txcyccount' = 0 /\ txcount' = txcount + 1
        BY <1>2, <2>2, <3>2 DEF TxClock
      <4> QED
        BY <2>1, <2>2, <3>2, <4>1, UartDpiAssumption DEF TxShifts, TxTyped, TxAt, UaTypes
    <3> QED
      BY <3>1, <3>2
  <2>3. CASE txcyccount # CYCLES_PER_SYMBOL - 1
    <3>1. txactive' = TRUE /\ txcyccount' = txcyccount + 1 /\ txcount' = txcount
      BY <1>2, <2>3 DEF TxClock
    <3> QED
      BY <2>1, <2>3, <3>1, UartDpiAssumption DEF TxShifts, TxTyped, TxAt, UaTypes
  <2> QED
    BY <2>2, <2>3
<1> QED
  BY <1>1, <1>2 DEF UaTypes

\* The sample is due.
Due == rxcyccount = IF rxcount = 0 THEN Half - 1 ELSE CYCLES_PER_SYMBOL - 1

RxWaits ==
  /\ ~rxactive /\ tx_o = 1 /\ ~rxactive' /\ rxactive' \in BOOLEAN
  /\ rxcount' = 0 /\ rxcyccount' = 0 /\ rxsymbol' = rxsymbol /\ NoWrite
RxBegins ==
  /\ ~rxactive /\ tx_o = 0 /\ rxactive' /\ rxactive' \in BOOLEAN
  /\ rxcount' = 0 /\ rxcyccount' = 0 /\ rxsymbol' = rxsymbol /\ NoWrite
RxCounts ==
  /\ rxactive /\ ~Due /\ rxactive' /\ rxcount' = rxcount /\ rxcyccount' = rxcyccount + 1
  /\ rxsymbol' = rxsymbol /\ NoWrite
RxSamples ==
  /\ rxactive /\ Due /\ rxactive' /\ rxcount' = rxcount + 1 /\ rxcount \in 0 .. 8 /\ rxcyccount' = 0
  /\ rxcount = 0 => rxsymbol' = rxsymbol
  /\ rxcount # 0 => rxsymbol' = [rxsymbol EXCEPT ![rxcount] = tx_o]
  /\ NoWrite
RxDelivers ==
  /\ rxactive /\ Due /\ rxcount = 9 /\ ~rxactive' /\ rxactive' \in BOOLEAN
  /\ rxcount' = 9 /\ rxcyccount' = 0 /\ rxsymbol' = rxsymbol
  /\ uartdpi_write(rxsymbol)

\* The sample that is due is the one of the symbol the receiver waits for.
LEMMA SampleIsRight ==
  ASSUME UaTypes, SameText, Line, InStep, rxactive, Due
  PROVE  tx_o = Frame(all[Taken])[rxcount] /\ all[Taken] \in Char
<1>0. Taken \in Int /\ Len(written) \in Nat /\ Taken <= Len(all) /\ Len(all) \in Nat
  BY DEF UaTypes, SameText, Taken
<1>1. Len(written) = Taken - 1
  BY DEF InStep, RxStart, RxData, UaTypes
<1>2. all[Taken] \in Char
  BY <1>0, <1>1 DEF UaTypes
<1>3. PICK f : f = Frame(all[Taken])
  OBVIOUS
<1>4. f[0] = 0 /\ f[9] = 1
  BY <1>2, <1>3, FrameFacts
<1>5. CASE rxcount = 0
  <2>1. RxStart /\ rxcyccount = Half - 1
    BY <1>5 DEF InStep, Due
  <2>2. txactive /\ txsymbol = f
    BY <2>1, <1>3 DEF RxStart, Line, TxAt
  <2> QED
    BY <1>2, <1>3, <1>4, <1>5, <2>1, <2>2, HalfFacts, UartDpiAssumption DEF RxStart, Line, UaTypes
<1>6. CASE rxcount # 0
  <2>1. RxData /\ rxcyccount = CYCLES_PER_SYMBOL - 1
    BY <1>6 DEF InStep, Due
  <2>2. CASE txactive
    <3>1. txsymbol = f /\ TxAt \in 0 .. 9
      BY <2>2, <1>3 DEF Line, TxAt, UaTypes
    <3> QED
      BY <1>2, <1>3, <1>4, <1>6, <2>1, <3>1, HalfFacts, UartDpiAssumption DEF RxData, Line, UaTypes
  <2>3. CASE ~txactive
    <3>1. TxAt = 10 /\ tx_o = 1 /\ txcyccount = 0
      BY <2>3 DEF Line, TxAt
    <3>2. rxcount = 9
      BY <1>6, <2>1, <3>1, HalfFacts, UartDpiAssumption, SMTT(40) DEF RxData, UaTypes
    <3> QED
      BY <1>2, <1>3, <1>4, <3>1, <3>2
  <2> QED
    BY <2>2, <2>3
<1> QED
  BY <1>5, <1>6

LEMMA RxMoves ==
  ASSUME UaTypes, SameText, Line, InStep, RxClock
  PROVE  RxWaits \/ RxBegins \/ RxCounts \/ RxSamples \/ RxDelivers
<1>1. CASE ~rxactive
  BY <1>1 DEF RxClock, RxWaits, RxBegins, UaTypes
<1>2. CASE rxactive /\ ~Due
  <2>1. rxcyccount # IF rxcount = 0 THEN HalfSymbol ELSE CYCLES_PER_SYMBOL - 1
    BY <1>2, HalfFacts DEF Due
  <2> QED
    BY <1>2, <2>1 DEF RxClock, RxCounts
<1>3. CASE rxactive /\ Due
  <2>0. rxcyccount = IF rxcount = 0 THEN HalfSymbol ELSE CYCLES_PER_SYMBOL - 1
    BY <1>3, HalfFacts DEF Due
  <2>1. tx_o = Frame(all[Taken])[rxcount] /\ Frame(all[Taken])[0] = 0 /\ Frame(all[Taken])[9] = 1
    BY <1>3, SampleIsRight, FrameFacts
  <2>2. CASE rxcount = 0
    <3>1. tx_o = 0
      BY <2>1, <2>2
    <3>2. rxcyccount' = 0 /\ rxsymbol' = rxsymbol /\ NoWrite
      BY <1>3, <2>0, <2>2, <3>1 DEF RxClock
    <3>3. rxactive'
      <4>1. ~((rxcount = 0 /\ tx_o = 1) \/ rxcount = 9)
        BY <2>2, <3>1
      <4> QED
        BY <1>3, <4>1, Zenon DEF RxClock
    <3>4. rxcount' = rxcount + 1
      BY <1>3, <2>0, <2>2, <3>1, <3>3 DEF RxClock
    <3> QED
      BY <1>3, <2>2, <3>2, <3>3, <3>4 DEF RxSamples
  <2>3. CASE rxcount \in 1 .. 8
    <3>2. rxcyccount' = 0 /\ rxsymbol' = [rxsymbol EXCEPT ![rxcount] = tx_o] /\ NoWrite
      BY <1>3, <2>0, <2>3 DEF RxClock
    <3>3. rxactive'
      <4>1. ~((rxcount = 0 /\ tx_o = 1) \/ rxcount = 9)
        BY <2>3
      <4> QED
        BY <1>3, <4>1, Zenon DEF RxClock
    <3>4. rxcount' = rxcount + 1
      BY <1>3, <2>0, <2>3, <3>3 DEF RxClock
    <3> QED
      BY <1>3, <2>3, <3>2, <3>3, <3>4 DEF RxSamples
  <2>4. CASE rxcount = 9
    <3>1. tx_o = 1
      BY <2>1, <2>4
    <3>2. rxcyccount' = 0 /\ rxsymbol' = rxsymbol /\ uartdpi_write(rxsymbol)
      BY <1>3, <2>0, <2>4, <3>1 DEF RxClock
    <3>3. ~rxactive' /\ rxactive' \in BOOLEAN
      BY <1>3, <2>0, <2>4, <3>1 DEF RxClock
    <3>4. rxcount' = 9
      BY <1>3, <2>0, <2>4, <3>1, <3>3 DEF RxClock
    <3> QED
      BY <1>3, <2>4, <3>2, <3>3, <3>4 DEF RxDelivers
  <2> QED
    BY <2>2, <2>3, <2>4 DEF UaTypes
<1> QED
  BY <1>1, <1>2, <1>3

----------------------------------------------------------------------------
(* The two together.                                                       *)

\* What the transmitter takes is the next of what was typed.
TakenRight ==
  /\ typed' \in Seq(Char) /\ Len(typed') <= Len(all)
  /\ \A i \in 1 .. Len(typed') : typed'[i] = all[Taken' + i]
  /\ (TxRests \/ TxShifts) => Taken' = Taken
  /\ TxTakes => Taken' = Taken + 1 /\ Taken' >= 1 /\ Head(typed) = all[Taken']

LEMMA TextTaken ==
  ASSUME UaTypes, SameText, TxRests \/ TxTakes \/ TxShifts, all' = all PROVE TakenRight
<1>1. CASE TxRests \/ TxShifts
  <2>1. typed' = typed
    BY <1>1 DEF TxRests, TxShifts
  <2>2. Taken' = Taken
    BY <2>1 DEF Taken
  <2>3. ~TxTakes
    BY <1>1 DEF TxTakes, TxRests, TxShifts
  <2> QED
    BY <1>1, <2>1, <2>2, <2>3 DEF UaTypes, SameText, TakenRight
<1>2. CASE TxTakes
  <2>1. PICK s, rest : s = typed /\ rest = typed'
    OBVIOUS
  <2>2. /\ s \in Seq(Char) /\ rest \in Seq(Char) /\ Len(s) \in Nat /\ Len(s) >= 1 /\ Len(rest) = Len(s) - 1
        /\ Head(s) = s[1] /\ \A i \in 1 .. Len(rest) : rest[i] = s[i + 1]
    BY <1>2, <2>1 DEF UaTypes, TxTakes
  <2>3. Len(all) \in Nat /\ Len(s) <= Len(all) /\ \A i \in 1 .. Len(s) : s[i] = all[Taken + i]
    BY <2>1 DEF UaTypes, SameText
  <2>4. Taken = Len(all) - Len(s) /\ Taken' = Len(all) - Len(rest)
    BY <2>1 DEF Taken
  <2>5. Taken' = Taken + 1 /\ Taken \in Nat
    BY <2>2, <2>3, <2>4
  <2>6. \A i \in 1 .. Len(rest) : rest[i] = all[Taken' + i]
    <3> SUFFICES ASSUME NEW i \in 1 .. Len(rest) PROVE rest[i] = all[Taken' + i]
      OBVIOUS
    <3>1. i + 1 \in 1 .. Len(s) /\ Taken' + i = Taken + (i + 1)
      BY <2>2, <2>5
    <3> QED
      BY <2>2, <2>3, <3>1
  <2>7. Head(s) = all[Taken']
    BY <2>2, <2>3, <2>5
  <2>8. ~TxRests /\ ~TxShifts
    BY <1>2 DEF TxTakes, TxRests, TxShifts
  <2>9. typed' \in Seq(Char) /\ Len(typed') <= Len(all)
    BY <2>1, <2>2, <2>3
  <2>10. (\A i \in 1 .. Len(typed') : typed'[i] = all[Taken' + i]) /\ Head(typed) = all[Taken'] /\ Taken' >= 1
    <3>1. Taken' >= 1
      BY <2>5
    <3> QED
      BY <2>1, <2>6, <2>7, <3>1
  <2> QED
    BY <2>5, <2>8, <2>9, <2>10, Zenon DEF TakenRight
<1> QED
  BY <1>1, <1>2

\* What the transmitter leaves on the line.
LEMMA LineKept ==
  ASSUME UaTypes, SameText, Line, TxTyped, TxRests \/ TxTakes \/ TxShifts, all' = all
  PROVE  Line' /\ tx_o' \in {0, 1}
<1>0. TxAt = 10 <=> ~txactive
  BY DEF TxAt, UaTypes
<1>00. TxAt' = 10 <=> ~txactive'
  BY DEF TxAt, TxTyped
<1>1. CASE TxRests
  BY <1>00, <1>1 DEF TxRests, Line
<1>2. CASE TxTakes
  <2>1. Taken' >= 1 /\ txsymbol' = Frame(all'[Taken'])
    BY <1>2, TextTaken DEF TxTakes, TakenRight
  <2> QED
    BY <1>00, <1>2, <2>1 DEF TxTakes, Line
<1>3. CASE TxShifts
  <2>1. txactive /\ txsymbol = Frame(all[Taken]) /\ Taken >= 1
    BY <1>0, <1>3 DEF TxShifts, Line
  <2>2. Taken' = Taken /\ txsymbol' = txsymbol /\ tx_o' = txsymbol[TxAt] /\ TxAt \in 0 .. 9
    BY <1>3, TextTaken DEF TxShifts, TakenRight
  <2>3. all[Taken] \in Char
    BY <2>1 DEF UaTypes, SameText, Taken
  <2>4. txsymbol[9] = 1 /\ txsymbol[TxAt] \in {0, 1}
    BY <2>1, <2>2, <2>3, FrameFacts
  <2>5. ~txactive' => txcyccount' = 0 /\ TxAt = 9
    BY <1>00, <1>3, <2>2 DEF TxShifts
  <2>6. txcyccount \in Nat
    BY DEF UaTypes
  <2>7. tx_o' = IF TxAt' = 10 \/ (TxAt' = 0 /\ txcyccount' = 0) THEN 1
                ELSE IF txcyccount' = 0 THEN txsymbol[TxAt' - 1] ELSE txsymbol[TxAt']
    BY <1>3, <2>2, <2>4, <2>6 DEF TxShifts
  <2> QED
    BY <2>1, <2>2, <2>4, <2>5, <2>7 DEF Line
<1> QED
  BY <1>1, <1>2, <1>3

\* The receiver stays in step while it does not write.
LEMMA StepKept ==
  ASSUME UaTypes, SameText, Line, InStep, TxTyped, TxRests \/ TxTakes \/ TxShifts,
         all' = all, written' = written,
         RxWaits \/ RxBegins \/ RxCounts \/ RxSamples
  PROVE  /\ InStep' /\ rxactive' \in BOOLEAN /\ rxcount' \in 0 .. 9
         /\ rxcyccount' \in 0 .. CYCLES_PER_SYMBOL - 1 /\ rxsymbol' \in Char
<1>1. /\ Taken \in Int /\ Len(written) \in Nat /\ TxAt \in 0 .. 10 /\ txcyccount \in 0 .. CYCLES_PER_SYMBOL - 1
      /\ rxcount \in 0 .. 9 /\ rxcyccount \in 0 .. CYCLES_PER_SYMBOL - 1
  BY DEF UaTypes, Taken, TxAt
<1>2. (TxRests \/ TxShifts) => Taken' = Taken
  BY TextTaken DEF TakenRight
<1>3. TxTakes => Taken' = Taken + 1
  BY TextTaken DEF TakenRight
<1>4. CASE RxWaits
  <2>1. RxIdle
    BY <1>4 DEF RxWaits, InStep
  <2>2. ~(TxAt = 0 /\ txcyccount = 1)
    <3> SUFFICES ASSUME TxAt = 0, txcyccount = 1 PROVE FALSE
      OBVIOUS
    <3>1. txactive /\ txsymbol = Frame(all[Taken]) /\ Taken >= 1 /\ tx_o = txsymbol[0]
      BY DEF TxAt, Line
    <3>2. all[Taken] \in Char
      BY <3>1 DEF UaTypes, SameText, Taken
    <3>3. tx_o = 0
      BY <3>1, <3>2, FrameFacts
    <3> QED
      BY <1>4, <3>3 DEF RxWaits
  <2>3. RxIdle'
    BY <1>1, <1>2, <1>3, <2>1, <2>2, HalfFacts, UartDpiAssumption, SMTT(40) DEF RxIdle, TxRests, TxTakes, TxShifts
  <2> QED
    BY <1>4, <2>3, UartDpiAssumption DEF RxWaits, InStep, UaTypes
<1>5. CASE RxBegins
  <2>1. RxIdle /\ tx_o = 0
    BY <1>5 DEF RxBegins, InStep
  <2>2. TxAt = 0 /\ txcyccount = 1 /\ Len(written) = Taken - 1
    <3>1. TxAt # 10 /\ ~(TxAt = 0 /\ txcyccount = 0)
      BY <2>1 DEF Line
    <3>2. ~(TxAt = 9 /\ txcyccount >= Half + 2 /\ Len(written) = Taken)
      <4> SUFFICES ASSUME TxAt = 9, txcyccount >= Half + 2 PROVE FALSE
        OBVIOUS
      <4>1. txactive /\ txsymbol = Frame(all[Taken]) /\ Taken >= 1 /\ tx_o = txsymbol[9]
        BY HalfFacts, <1>1 DEF TxAt, Line
      <4>2. all[Taken] \in Char
        BY <4>1 DEF UaTypes, SameText, Taken
      <4> QED
        BY <2>1, <4>1, <4>2, FrameFacts
    <3> QED
      BY <1>1, <2>1, <3>1, <3>2 DEF RxIdle
  <2>3. RxStart'
    BY <1>1, <1>2, <1>5, <2>2, HalfFacts, UartDpiAssumption
    DEF RxStart, RxBegins, TxRests, TxTakes, TxShifts
  <2> QED
    BY <1>5, <2>3, UartDpiAssumption DEF RxBegins, InStep, UaTypes
<1>6. CASE RxCounts
  <2>1. CASE rxcount = 0
    <3>1. RxStart /\ rxcyccount # Half - 1
      BY <1>6, <2>1 DEF RxCounts, InStep, Due
    <3>2. RxStart' /\ rxcyccount' \in 0 .. CYCLES_PER_SYMBOL - 1
      BY <1>1, <1>2, <1>6, <3>1, HalfFacts, UartDpiAssumption
      DEF RxStart, RxCounts, TxRests, TxTakes, TxShifts
    <3> QED
      BY <1>6, <2>1, <3>2 DEF RxCounts, InStep, UaTypes
  <2>2. CASE rxcount # 0
    <3>1. RxData /\ rxcyccount # CYCLES_PER_SYMBOL - 1
      BY <1>6, <2>2 DEF RxCounts, InStep, Due
    <3>2. TxShifts /\ Taken' = Taken
      BY <1>1, <1>2, <2>2, <3>1, HalfFacts, UartDpiAssumption DEF RxData, TxRests, TxTakes
    <3>3. RxData' /\ rxcyccount' \in 0 .. CYCLES_PER_SYMBOL - 1
      BY <1>1, <1>6, <3>1, <3>2, HalfFacts, UartDpiAssumption DEF RxData, RxCounts, TxShifts
    <3> QED
      BY <1>6, <2>2, <3>3 DEF RxCounts, InStep, UaTypes
  <2> QED
    BY <2>1, <2>2
<1>7. CASE RxSamples
  <2>1. tx_o = Frame(all[Taken])[rxcount] /\ all[Taken] \in Char
    BY <1>7, SampleIsRight DEF RxSamples
  <2>2. TxShifts /\ Taken' = Taken /\ Len(written) = Taken - 1
    <3>1. CASE rxcount = 0
      BY <1>1, <1>2, <1>7, <3>1, HalfFacts, UartDpiAssumption DEF RxSamples, InStep, RxStart, TxRests, TxTakes
    <3>2. CASE rxcount # 0
      BY <1>1, <1>2, <1>7, <3>2, HalfFacts, UartDpiAssumption DEF RxSamples, InStep, RxData, TxRests, TxTakes
    <3> QED
      BY <3>1, <3>2
  <2>3. rxcount' \in 1 .. 9 /\ rxcyccount' = 0 /\ rxactive'
    BY <1>7 DEF RxSamples
  <2>4. /\ rxsymbol' \in Char
        /\ \A i \in 1 .. 8 : i < rxcount' => rxsymbol'[i] = all[Taken][i]
    <3>1. CASE rxcount = 0
      BY <1>7, <3>1 DEF RxSamples, UaTypes
    <3>2. CASE rxcount # 0
      <4>1. rxcount \in 1 .. 8 /\ rxcount' = rxcount + 1 /\ rxsymbol' = [rxsymbol EXCEPT ![rxcount] = tx_o]
        BY <1>7, <3>2 DEF RxSamples
      <4>2. tx_o = all[Taken][rxcount]
        BY <2>1, <4>1, FrameFacts
      <4>3. \A i \in 1 .. 8 : i < rxcount => rxsymbol[i] = all[Taken][i]
        BY <1>7, <3>2 DEF RxSamples, InStep, RxData
      <4>4. rxsymbol \in Char /\ tx_o \in {0, 1}
        BY DEF UaTypes
      <4> QED
        BY <4>1, <4>2, <4>3, <4>4 DEF Char
    <3> QED
      BY <3>1, <3>2
  <2>5. \/ TxAt' = rxcount' - 1 /\ txcyccount' = Half + 2 + rxcyccount'
        \/ TxAt' = rxcount' /\ txcyccount' = Half + 2 + rxcyccount' - CYCLES_PER_SYMBOL
        \/ TxAt' = rxcount' + 1 /\ txcyccount' = 0 /\ Half + 2 + rxcyccount' = 2 * CYCLES_PER_SYMBOL
    <3>1. CASE rxcount = 0
      <4>1. RxStart /\ rxcyccount = Half - 1 /\ rxcount' = 1 /\ rxcyccount' = 0
        BY <1>7, <3>1 DEF RxSamples, InStep, Due
      <4> QED
        BY <1>1, <2>2, <4>1, HalfFacts, UartDpiAssumption DEF RxStart, TxShifts
    <3>2. CASE rxcount # 0
      <4>1. RxData /\ rxcyccount = CYCLES_PER_SYMBOL - 1 /\ rxcount' = rxcount + 1 /\ rxcyccount' = 0
        BY <1>7, <3>2 DEF RxSamples, InStep, Due
      <4> QED
        BY <1>1, <2>2, <4>1, HalfFacts, UartDpiAssumption DEF RxData, TxShifts
    <3> QED
      BY <3>1, <3>2
  <2>6. RxData'
    BY <2>2, <2>4, <2>5 DEF RxData
  <2>7. rxactive' \in BOOLEAN /\ rxcyccount' \in 0 .. CYCLES_PER_SYMBOL - 1
    BY <1>7, <2>3, UartDpiAssumption DEF RxSamples
  <2> QED
    BY <2>3, <2>4, <2>6, <2>7 DEF InStep
<1> QED
  BY <1>4, <1>5, <1>6, <1>7

\* The receiver writes the character that is in flight, and is idle.
LEMMA DeliveryKept ==
  ASSUME UaTypes, SameText, Line, InStep, TxTyped, TxRests \/ TxTakes \/ TxShifts, all' = all,
         RxDelivers
  PROVE  /\ written' = Append(written, all[Taken]) /\ written' \in Seq(Char)
         /\ SameText' /\ RxIdle'
<1>0. RxData /\ rxcount = 9 /\ rxcyccount = CYCLES_PER_SYMBOL - 1
  BY DEF RxDelivers, InStep, Due
<1>1. all[Taken] \in Char /\ rxsymbol \in Char /\ \A i \in 1 .. 8 : rxsymbol[i] = all[Taken][i]
  BY <1>0, SampleIsRight DEF RxDelivers, UaTypes, RxData
<1>2. rxsymbol = all[Taken]
  BY <1>1 DEF Char
<1>3. PICK old, ch : old = written /\ ch = all[Taken]
  OBVIOUS
<1>4. written' = Append(old, ch) /\ old \in Seq(Char) /\ ch \in Char
  BY <1>1, <1>2, <1>3 DEF RxDelivers, uartdpi_write, UaTypes
<1>5. /\ written' \in Seq(Char) /\ Len(written') = Len(old) + 1 /\ Len(old) \in Nat
      /\ \A i \in 1 .. Len(old) + 1 : written'[i] = IF i = Len(old) + 1 THEN ch ELSE old[i]
  BY <1>4
<1>6. Len(old) = Taken - 1 /\ Taken \in Int /\ Len(all) \in Nat
  BY <1>0, <1>3 DEF RxData, Taken, UaTypes
<1>7. \A i \in 1 .. Len(old) : old[i] = all[i]
  BY <1>3 DEF SameText
<1>8. TakenRight
  BY TextTaken
<1>9. SameText'
  <2>1. \A i \in 1 .. Len(written') : written'[i] = all[i]
    BY <1>3, <1>5, <1>6, <1>7
  <2>2. Len(written') <= Taken'
    BY <1>5, <1>6, <1>8 DEF TakenRight
  <2> QED
    BY <1>8, <2>1, <2>2 DEF SameText, TakenRight
<1>10. RxIdle'
  <2>1. TxAt \in 0 .. 10 /\ txcyccount \in 0 .. CYCLES_PER_SYMBOL - 1 /\ Len(written') = Taken
    BY <1>5, <1>6 DEF TxAt, UaTypes
  <2>2. \/ TxAt = 9 /\ txcyccount = Half + 1
        \/ TxAt = 10
    BY <1>0, <2>1, HalfFacts, UartDpiAssumption DEF RxData
  <2>3. CASE TxAt = 9
    <3>1. TxShifts /\ Taken' = Taken
      BY <1>8, <2>3 DEF TakenRight, TxRests, TxTakes
    <3> QED
      BY <2>1, <2>2, <2>3, <3>1, HalfFacts, UartDpiAssumption DEF RxIdle, TxShifts
  <2>4. CASE TxAt = 10 /\ TxTakes
    BY <1>6, <1>8, <2>1, <2>4 DEF TakenRight, RxIdle, TxTakes
  <2>5. CASE TxAt = 10 /\ TxRests
    BY <1>8, <2>1, <2>5 DEF TakenRight, RxIdle, TxRests
  <2> QED
    BY <2>2, <2>3, <2>4, <2>5 DEF TxShifts
<1> QED
  BY <1>3, <1>4, <1>5, <1>9, <1>10

----------------------------------------------------------------------------
LEMMA ClockKeeps == ASSUME UaInv, Clock PROVE UaInv'
<1>1. /\ uaPc = "run" /\ all' = all /\ path' = path
      /\ UaTypes /\ SameText /\ Line /\ InStep /\ (path = "log" => log = written)
  BY DEF UaInv, Clock
<1>2. TxTyped /\ (TxRests \/ TxTakes \/ TxShifts)
  BY <1>1, TxMoves DEF Clock
<1>3. RxWaits \/ RxBegins \/ RxCounts \/ RxSamples \/ RxDelivers
  BY <1>1, RxMoves DEF Clock
<1>4. TakenRight /\ Line' /\ tx_o' \in {0, 1}
  BY <1>1, <1>2, TextTaken, LineKept
<1>5. CASE ~RxDelivers
  <2>1. written' = written /\ uaPc' = uaPc /\ log' = log
    BY <1>3, <1>5 DEF RxWaits, RxBegins, RxCounts, RxSamples, NoWrite
  <2>2. /\ InStep' /\ rxactive' \in BOOLEAN /\ rxcount' \in 0 .. 9
        /\ rxcyccount' \in 0 .. CYCLES_PER_SYMBOL - 1 /\ rxsymbol' \in Char
    BY <1>1, <1>2, <1>3, <1>5, <2>1, StepKept
  <2>3. UaTypes'
    BY <1>1, <1>2, <1>4, <2>1, <2>2 DEF UaTypes, TxTyped, TakenRight
  <2>4. SameText'
    <3>1. Taken' \in {Taken, Taken + 1} /\ Taken \in Int /\ Len(written) \in Nat
      BY <1>1, <1>2, <1>4 DEF TakenRight, Taken, UaTypes
    <3> QED
      BY <1>1, <1>4, <2>1, <3>1 DEF SameText, TakenRight
  <2> QED
    BY <1>1, <1>4, <2>1, <2>2, <2>3, <2>4 DEF UaInv
<1>6. CASE RxDelivers
  <2>1. /\ written' = Append(written, all[Taken]) /\ written' \in Seq(Char) /\ SameText' /\ RxIdle'
    BY <1>1, <1>2, <1>6, DeliveryKept
  <2>2. ~rxactive' /\ rxactive' \in BOOLEAN /\ rxcount' = 9 /\ rxcyccount' = 0 /\ rxsymbol' = rxsymbol
    BY <1>6 DEF RxDelivers
  <2>3. InStep'
    BY <2>1, <2>2 DEF InStep
  <2>4. UaTypes'
    <3>1. rxcount' \in 0 .. 9 /\ rxcyccount' \in 0 .. CYCLES_PER_SYMBOL - 1
      BY <2>2, UartDpiAssumption
    <3> QED
      BY <1>1, <1>2, <1>4, <2>1, <2>2, <3>1 DEF UaTypes, TxTyped, TakenRight
  <2>5. uaPc' \in {"run", "abort"} /\ (uaPc' = "run" => (path' = "log" => log' = written'))
    <3>1. written' = Append(written, rxsymbol)
      BY <1>6 DEF RxDelivers, uartdpi_write
    <3>2. CASE Len(terminal) = PtySize
      BY <1>6, <3>2 DEF RxDelivers, uartdpi_write
    <3>3. CASE Len(terminal) # PtySize
      BY <1>1, <1>6, <3>1, <3>3 DEF RxDelivers, uartdpi_write
    <3> QED
      BY <3>2, <3>3
  <2> QED
    BY <1>1, <1>4, <2>1, <2>3, <2>4, <2>5 DEF UaInv
<1> QED
  BY <1>5, <1>6

LEMMA UaKept == ASSUME UaInv, [UaNext]_uaVars PROVE UaInv'
<1> USE DEF UaInv, UaTypes, SameText, Line, InStep, RxIdle, RxStart, RxData, Taken, TxAt
<1>1. CASE uartdpi_create
  BY <1>1, ZenonT(60) DEF uartdpi_create, txVars, rxVars
<1>2. CASE Clock
  BY <1>2, ClockKeeps
<1>3. CASE ReadTerminal
  BY <1>3, SMTT(40) DEF ReadTerminal, txVars, rxVars
<1>4. CASE uartdpi_close
  <2>1. uaPc = "run" /\ typed = <<>> /\ TxAt = 10 /\ ~rxactive
    BY <1>4 DEF uartdpi_close
  <2>2. Len(written) = Len(all)
    BY <2>1
  <2> QED
    BY <1>4, <2>2 DEF uartdpi_close, txVars, rxVars
<1>5. CASE UNCHANGED uaVars
  BY <1>5 DEF uaVars, txVars, rxVars
<1> QED
  BY <1>1, <1>2, <1>3, <1>4, <1>5 DEF UaNext

(***************************************************************************)
(* For every symbol length of at least two cycles, every text and every    *)
(* size of the pseudo-terminal: what comes back over the line is the text  *)
(* so far, and the whole text, logged, when the line is closed             *)
(* (uartdpi.sv:46, 98).                                                    *)
(***************************************************************************)
THEOREM LineEchoesHolds == UaSpec => []LineEchoes
<1>1. UaInv => LineEchoes
  <2> SUFFICES ASSUME UaInv PROVE LineEchoes
    OBVIOUS
  <2>1. PICK a, w : a = all /\ w = written
    OBVIOUS
  <2>2. /\ a \in Seq(Char) /\ w \in Seq(Char) /\ Len(w) <= Len(a) /\ Len(w) \in Nat /\ Len(a) \in Nat
        /\ \A i \in 1 .. Len(w) : w[i] = a[i]
    BY <2>1 DEF UaInv, UaTypes, SameText, Taken
  <2>3. w = SubSeq(a, 1, Len(w))
    BY <2>2
  <2>4. Len(w) = Len(a) => w = a
    BY <2>2
  <2> QED
    BY <2>1, <2>3, <2>4 DEF UaInv, LineEchoes
<1> QED
  BY <1>1, UaStarts, UaKept, PTL DEF UaSpec

----------------------------------------------------------------------------
(***************************************************************************)
(* The memory loader.  The map of address ranges: its two lookups look at  *)
(* one neighbour on each side, and that is enough because the ranges are   *)
(* disjoint.  And the areas of the loader stay disjoint.                   *)
(***************************************************************************)

\* A map of the loader: ranges of addresses, none of them empty.
RangeMap(map) == \A e \in map : e.lo \in Nat /\ e.hi \in Nat /\ e.lo <= e.hi

(***************************************************************************)
(* A set of addresses has a smallest one.                                  *)
(***************************************************************************)
LEMMA SmallestAddress ==
  ASSUME NEW S, S \subseteq Nat, S # {}
  PROVE  \E m \in S : \A n \in S : m <= n
<1>1. ASSUME NEW R, IsWellFoundedOn(R, Nat), \A x, y \in Nat : x < y => <<x, y>> \in R
      PROVE  \E m \in S : \A n \in S : m <= n
  <2>0. IsWellFoundedOn(R, Nat)
    BY <1>1
  <2>1. PICK m \in S : \A n \in S : ~(<<n, m>> \in R)
    BY <2>0, WFMin
  <2>2. \A n \in S : ~(n < m)
    BY <1>1, <2>1
  <2> QED BY <2>2
<1>2. \A x, y \in Nat : x < y => <<x, y>> \in OpToRel(<, Nat)
  BY DEF OpToRel
<1> QED BY <1>1, <1>2, NatLessThanWellFounded, Zenon

(***************************************************************************)
(* std::map orders the ranges by their start: the first of some ranges     *)
(* exists (upper_bound, ranged_map.h:112).                                 *)
(***************************************************************************)
LEMMA LowestExists ==
  ASSUME NEW es, RangeMap(es), es # {}
  PROVE  Lowest(es) \in es /\ \A f \in es : Lowest(es).lo <= f.lo
<1> DEFINE S == {e.lo : e \in es}
<1>1. PICK m \in S : \A n \in S : m <= n
  <2>1. S \subseteq Nat /\ S # {} BY DEF RangeMap
  <2> HIDE DEF S
  <2> QED BY <2>1, SmallestAddress
<1>2. PICK e \in es : e.lo = m
  OBVIOUS
<1>3. \A f \in es : e.lo <= f.lo
  BY <1>1, <1>2
<1> QED BY <1>3 DEF Lowest

(***************************************************************************)
(* The last of the ranges that start at or below an address exists: the    *)
(* predecessor of the upper bound (ranged_map.h:127, 158).                 *)
(***************************************************************************)
LEMMA HighestExists ==
  ASSUME NEW map, RangeMap(map), NEW a \in Nat, UpTo(map, a) # {}
  PROVE  /\ Highest(UpTo(map, a)) \in UpTo(map, a)
         /\ \A f \in UpTo(map, a) : f.lo <= Highest(UpTo(map, a)).lo
<1> DEFINE es == UpTo(map, a)
           S == {a - e.lo : e \in es}
<1>1. \A e \in es : e.lo \in Nat /\ e.lo <= a
  BY DEF RangeMap, UpTo
<1>2. PICK m \in S : \A n \in S : m <= n
  <2>1. S \subseteq Nat /\ S # {} BY <1>1
  <2> HIDE DEF S
  <2> QED BY <2>1, SmallestAddress
<1>3. PICK e \in es : a - e.lo = m
  OBVIOUS
<1>4. \A f \in es : f.lo <= e.lo
  <2> SUFFICES ASSUME NEW f \in es PROVE f.lo <= e.lo OBVIOUS
  <2>1. a - e.lo <= a - f.lo BY <1>2, <1>3
  <2> QED BY <2>1, <1>1
<1> HIDE DEF es
<1> QED BY <1>4 DEF Highest, es

(***************************************************************************)
(* find looks at one entry, the last that starts at or below the address,  *)
(* and returns exactly the entries that hold it (ranged_map.h:158).        *)
(***************************************************************************)
THEOREM FindExact ==
  ASSUME NEW map, RangeMap(map), DisjointRanges(map), NEW a \in Nat
  PROVE  find(map, a) = {e \in map : e.lo <= a /\ a <= e.hi}
<1>1. CASE UpTo(map, a) = {}
  BY <1>1 DEF find, UpTo
<1>2. CASE UpTo(map, a) # {}
  <2> DEFINE h == Highest(UpTo(map, a))
  <2>1. h \in map /\ h.lo <= a /\ \A f \in UpTo(map, a) : f.lo <= h.lo
    BY <1>2, HighestExists DEF UpTo
  <2> HIDE DEF h
  <2>2. ASSUME NEW e \in map, e.lo <= a, a <= e.hi PROVE e = h
    <3>1. e.lo <= h.lo BY <2>1, <2>2 DEF UpTo
    <3>2. e.lo \in Nat /\ e.hi \in Nat /\ h.lo \in Nat /\ h.hi \in Nat /\ h.lo <= h.hi
      BY <2>1 DEF RangeMap
    <3>3. ~(e.hi < h.lo) /\ ~(h.hi < e.lo) BY <2>1, <2>2, <3>1, <3>2
    <3> QED BY <2>1, <3>3 DEF DisjointRanges
  <2>3. find(map, a) = IF a <= h.hi THEN {h} ELSE {}
    BY <1>2 DEF find, h
  <2> QED BY <2>1, <2>2, <2>3
<1> QED BY <1>1, <1>2

(***************************************************************************)
(* EmplaceDisjoint looks at the two neighbours of a new range and finds a  *)
(* clash exactly if some entry shares an address with it                   *)
(* (ranged_map.h:108-141).                                                 *)
(***************************************************************************)
LEMMA NoClash ==
  ASSUME NEW map, RangeMap(map), DisjointRanges(map),
         NEW lo \in Nat, NEW hi \in Nat, lo <= hi, Clashes(map, lo, hi) = {},
         NEW e \in map
  PROVE  e.hi < lo \/ hi < e.lo
<1>0. e.lo \in Nat /\ e.hi \in Nat /\ e.lo <= e.hi
  BY DEF RangeMap
<1>1. CASE e.lo > lo
  <2> DEFINE up == Above(map, lo)
  <2>1. e \in up BY <1>1 DEF Above
  <2>2. RangeMap(up) BY DEF RangeMap, Above
  <2>3. Lowest(up) \in up /\ Lowest(up).lo <= e.lo BY <2>1, <2>2, LowestExists
  <2>4. ~(Lowest(up).lo <= hi) BY <2>1 DEF Clashes
  <2>5. Lowest(up).lo \in Nat BY <2>2, <2>3 DEF RangeMap
  <2> QED BY <1>0, <2>3, <2>4, <2>5
<1>2. CASE e.lo <= lo
  <2> DEFINE h == Highest(UpTo(map, lo))
  <2>1. e \in UpTo(map, lo) BY <1>2 DEF UpTo
  <2>2. h \in map /\ h.lo <= lo /\ e.lo <= h.lo BY <2>1, HighestExists DEF UpTo
  <2>3. ~(lo <= h.hi) BY <2>1 DEF Clashes
  <2>4. h.lo \in Nat /\ h.hi \in Nat /\ h.lo <= h.hi BY <2>2 DEF RangeMap
  <2> HIDE DEF h
  <2>5. e = h \/ e.hi < h.lo \/ h.hi < e.lo BY <2>2 DEF DisjointRanges
  <2> QED BY <1>0, <2>2, <2>3, <2>4, <2>5
<1> QED BY <1>0, <1>1, <1>2

(***************************************************************************)
(* Whatever range is offered, the entries stay disjoint: a new one is only *)
(* taken if it shares no address with any other (ranged_map.h:108).        *)
(***************************************************************************)
THEOREM EmplaceKeepsDisjoint ==
  ASSUME NEW map, RangeMap(map), DisjointRanges(map),
         NEW lo \in Nat, NEW hi \in Nat, lo <= hi, NEW val
  PROVE  /\ RangeMap(EmplaceDisjoint(map, lo, hi, val))
         /\ DisjointRanges(EmplaceDisjoint(map, lo, hi, val))
<1>1. CASE Clashes(map, lo, hi) # {}
  BY <1>1 DEF EmplaceDisjoint
<1>2. CASE Clashes(map, lo, hi) = {}
  <2> DEFINE new == Entry(lo, hi, val)
  <2>1. new.lo = lo /\ new.hi = hi BY DEF Entry
  <2>2. EmplaceDisjoint(map, lo, hi, val) = map \cup {new} BY <1>2 DEF EmplaceDisjoint
  <2>3. \A e \in map : e.hi < new.lo \/ new.hi < e.lo BY <1>2, <2>1, NoClash
  <2> HIDE DEF new
  <2>4. RangeMap(map \cup {new}) BY <2>1 DEF RangeMap
  <2>5. DisjointRanges(map \cup {new}) BY <2>3 DEF DisjointRanges
  <2> QED BY <2>2, <2>4, <2>5
<1> QED BY <1>1, <1>2

----------------------------------------------------------------------------
(* The areas.                                                              *)

\* The areas still to come are well formed, the map holds ranges, and leads
\* only to areas that are registered.
IInv ==
  /\ AreasDisjoint
  /\ todo \in Seq(AllAreas)
  /\ RangeMap(addrToMem)
  /\ \A e \in addrToMem : e.val \in DOMAIN nameToMem

(***************************************************************************)
(* The last address of an area that does not wrap around is a number not   *)
(* below its first.                                                        *)
(***************************************************************************)
LEMMA TopType ==
  ASSUME NEW a \in AllAreas
  PROVE  TopOf(a) \in Nat /\ a.base \in Nat /\ a.size \in Nat
<1>1. a.base \in Nat /\ a.size \in Nat
  BY MemUtilAssumption DEF UMax
<1>2. 2 ^ AddrBits \in Nat \ {0}
  BY MemUtilAssumption
<1> DEFINE w == 2 ^ AddrBits
           t == a.base + a.size - 1
<1>3. t \in Int BY <1>1
<1>4. w \in Nat \ {0} BY <1>2
<1> HIDE DEF w, t
<1>5. t % w \in Nat BY <1>3, <1>4
<1> QED BY <1>1, <1>5 DEF TopOf, Uint, w, t

(***************************************************************************)
(* Registering one area keeps the invariant, also when its address or its  *)
(* name is refused (RegisterMemoryArea, dpi_memutil.cc:420).               *)
(***************************************************************************)
LEMMA RegisterKeeps ==
  ASSUME IInv, Register
  PROVE  IInv'
<1> DEFINE area == Head(todo)
           nowhere == [area EXCEPT !.base = 0, !.size = 0]
           bad == area.size = 0 \/ TopOf(area) < area.base
                    \/ Clashes(addrToMem, area.base, TopOf(area)) # {}
<1>1. area \in AllAreas /\ todo' \in Seq(AllAreas)
  <2>1. todo \in Seq(AllAreas) /\ todo # <<>> /\ todo' = Tail(todo) BY DEF IInv, Register
  <2> QED BY <2>1
<1>2. RegisterMemoryArea(area) BY DEF Register
<1>3. TopOf(area) \in Nat /\ area.base \in Nat /\ area.size \in Nat
  BY <1>1, TopType
<1>4. nowhere.size = 0
  BY <1>1, MemUtilAssumption
<1> HIDE DEF area
<1>5. CASE HasName(area.name)
  <2>1. UNCHANGED <<nameToMem, addrToMem>> BY <1>2, <1>5 DEF RegisterMemoryArea
  <2> QED BY <1>1, <2>1 DEF IInv, AreasDisjoint, TopOf
<1>6. CASE ~HasName(area.name) /\ (~area.at \/ bad)
  <2>1. nameToMem' = [Named(area) EXCEPT ![area.name] = nowhere] /\ addrToMem' = addrToMem
    BY <1>2, <1>6 DEF RegisterMemoryArea
  <2> HIDE DEF nowhere, bad
  <2>2. /\ DOMAIN nameToMem' = DOMAIN nameToMem \cup {area.name}
        /\ \A n \in DOMAIN nameToMem : nameToMem'[n] = nameToMem[n]
        /\ nameToMem'[area.name] = nowhere
    BY <2>1, <1>6 DEF HasName, Named
  <2>3. AreasDisjoint'
    BY <1>4, <1>6, <2>1, <2>2 DEF IInv, AreasDisjoint, TopOf, HasName
  <2> QED BY <1>1, <2>1, <2>2, <2>3 DEF IInv
<1>7. CASE ~HasName(area.name) /\ area.at /\ ~bad
  <2>1. /\ nameToMem' = Named(area)
        /\ addrToMem' = EmplaceDisjoint(addrToMem, area.base, TopOf(area), area.name)
    BY <1>2, <1>7 DEF RegisterMemoryArea
  <2>2. /\ DOMAIN nameToMem' = DOMAIN nameToMem \cup {area.name}
        /\ \A n \in DOMAIN nameToMem : nameToMem'[n] = nameToMem[n]
        /\ nameToMem'[area.name] = area
    BY <2>1, <1>7 DEF HasName, Named
  <2>3. area.base <= TopOf(area) /\ area.size # 0
    BY <1>3, <1>7
  <2>4. RangeMap(addrToMem') /\ DisjointRanges(addrToMem')
    BY <1>3, <2>1, <2>3, EmplaceKeepsDisjoint DEF IInv, AreasDisjoint
  <2>5. addrToMem' = addrToMem \cup {Entry(area.base, TopOf(area), area.name)}
    BY <2>1, <1>7 DEF EmplaceDisjoint
  <2> DEFINE new == Entry(area.base, TopOf(area), area.name)
  <2>6. new.lo = area.base /\ new.hi = TopOf(area) /\ new.val = area.name
    BY DEF Entry
  <2> HIDE DEF new, bad
  <2>7. addrToMem' = addrToMem \cup {new}
    BY <2>5 DEF new
  <2>8. ASSUME NEW n \in DOMAIN nameToMem'
        PROVE  nameToMem'[n].size # 0 <=>
                 \E e \in addrToMem' : e.val = n /\ e.lo = nameToMem'[n].base /\ e.hi = TopOf(nameToMem'[n])
    <3>1. CASE n = area.name
      BY <2>2, <2>3, <2>6, <2>7, <3>1
    <3>2. CASE n \in DOMAIN nameToMem
      <4>1. n # area.name BY <3>2, <1>7 DEF HasName
      <4>2. nameToMem[n].size # 0 <=>
              \E e \in addrToMem : e.val = n /\ e.lo = nameToMem[n].base /\ e.hi = TopOf(nameToMem[n])
        BY <3>2 DEF IInv, AreasDisjoint
      <4> QED BY <2>2, <2>6, <2>7, <3>2, <4>1, <4>2
    <3> QED BY <2>2, <2>8, <3>1, <3>2
  <2>9. AreasDisjoint' BY <2>4, <2>8 DEF AreasDisjoint, TopOf
  <2>10. \A e \in addrToMem' : e.val \in DOMAIN nameToMem'
    BY <2>2, <2>6, <2>7 DEF IInv
  <2> QED BY <1>1, <2>4, <2>9, <2>10 DEF IInv
<1> QED BY <1>5, <1>6, <1>7

(***************************************************************************)
(* No two areas share an address and every area with an address is found   *)
(* under it, for every address width, set of areas and order of            *)
(* registration, refused ones included (dpi_memutil.cc:420-474).           *)
(***************************************************************************)
THEOREM AreasStayDisjoint == MuSpec => []AreasDisjoint
<1>1. MuInit => IInv
  <2> SUFFICES ASSUME MuInit PROVE IInv OBVIOUS
  <2>1. todo \in Seq(AllAreas) BY MemUtilAssumption DEF MuInit
  <2>2. DOMAIN nameToMem = {} /\ addrToMem = {} BY DEF MuInit
  <2> QED BY <2>1, <2>2 DEF IInv, AreasDisjoint, DisjointRanges, RangeMap
<1>2. IInv /\ [MuNext]_muVars => IInv'
  <2> SUFFICES ASSUME IInv, [MuNext]_muVars PROVE IInv' OBVIOUS
  <2>1. CASE Register BY <2>1, RegisterKeeps
  <2>2. CASE UNCHANGED <<todo, nameToMem, addrToMem>>
    BY <2>2 DEF IInv, AreasDisjoint, TopOf
  <2>3. CASE Registered BY <2>2, <2>3 DEF Registered
  <2>4. CASE ParseOption BY <2>2, <2>4 DEF ParseOption
  <2>5. CASE ParsedOptions BY <2>2, <2>5 DEF ParsedOptions
  <2>6. CASE LoadElfToMemories BY <2>2, <2>6 DEF LoadElfToMemories
  <2>7. CASE StageElf BY <2>2, <2>7, SMTT(40) DEF StageElf
  <2>8. CASE WriteStaged BY <2>2, <2>8 DEF WriteStaged
  <2>9. CASE Written BY <2>2, <2>9 DEF Written
  <2>10. CASE LoadFileToNamedMem BY <2>2, <2>10 DEF LoadFileToNamedMem
  <2>11. CASE ParseCLIArguments BY <2>2, <2>11 DEF ParseCLIArguments
  <2>12. CASE UNCHANGED muVars BY <2>2, <2>12 DEF muVars
  <2> QED BY <2>1, <2>3, <2>4, <2>5, <2>6, <2>7, <2>8, <2>9, <2>10, <2>11, <2>12 DEF MuNext
<1>3. IInv => AreasDisjoint BY DEF IInv
<1> QED BY <1>1, <1>2, <1>3, PTL DEF MuSpec

----------------------------------------------------------------------------
(***************************************************************************)
(* The preloader.  The headers read so far have become sections and bytes  *)
(* that no later header replaces; of these the words loaded so far are in  *)
(* the SRAM, where no later word meets them; and the word written last is  *)
(* below the next one, so that the test for it never leaves a word out.    *)
(***************************************************************************)

\* Words of a section: the number of the first, and how many there are.
FirstWord(s) == s[1] \div WordBytes
WordCount(s) == WordsFor(s[2])

\* The sections follow each other, share no word, and none of their words
\* meets another in the SRAM.
SectionsLaid(ss) ==
  /\ \A k \in DOMAIN ss : ss[k][1] = WordBytes * FirstWord(ss[k])
  /\ \A k, l \in DOMAIN ss :
       /\ k < l => FirstWord(ss[k]) + WordCount(ss[k]) <= FirstWord(ss[l])
       /\ FirstWord(ss[l]) + WordCount(ss[l]) <= FirstWord(ss[k]) + SramWords

\* The words for a number of bytes hold them.
LEMMA WordFacts ==
  ASSUME NEW x \in Nat
  PROVE  WordsFor(x) \in Nat /\ x <= WordsFor(x) * WordBytes /\ WordsFor(x) * WordBytes = WordBytes * WordsFor(x)
<1> DEFINE y == x + WordBytes - 1
           q == y \div WordBytes
           r == y % WordBytes
<1>0. WordBytes \in Nat /\ WordBytes > 0 /\ y \in Nat
  BY PreloadAssumption
<1>1. q \in Nat /\ r \in 0 .. WordBytes - 1 /\ y = WordBytes * q + r
  <2> HIDE DEF y
  <2> QED BY <1>0
<1>2. WordsFor(x) = q
  BY DEF WordsFor
<1>3. y = x + WordBytes - 1
  OBVIOUS
<1> HIDE DEF q, r, y
<1>4. WordBytes * q \in Nat /\ q * WordBytes = WordBytes * q
  BY <1>0, <1>1
<1> DEFINE z == WordBytes * q
<1>5. z \in Nat /\ y = z + r
  BY <1>1, <1>4
<1> HIDE DEF z
<1>6. x <= z
  BY <1>0, <1>1, <1>3, <1>5
<1> QED BY <1>1, <1>2, <1>4, <1>6 DEF z

\* Multiples of the word size compare as their words do.
LEMMA WordOrder ==
  ASSUME NEW x \in Nat, NEW y \in Nat, WordBytes * x <= WordBytes * y
  PROVE  x <= y
<1>0. WordBytes \in Nat /\ WordBytes > 0
  BY PreloadAssumption
<1> SUFFICES ASSUME y < x PROVE FALSE
  OBVIOUS
<1>1. PICK w \in Nat : x = y + 1 + w
  <2>1. x - y - 1 \in Nat /\ x = y + 1 + (x - y - 1)
    OBVIOUS
  <2> QED BY <2>1
<1>2. WordBytes * x = WordBytes * y + WordBytes + WordBytes * w /\ WordBytes * w \in Nat /\ WordBytes * y \in Nat
  BY <1>0, <1>1
<1> QED BY <1>0, <1>2

\* An aligned address is its word, and so on within the word.
LEMMA AlignedAddress ==
  ASSUME NEW x \in Nat, x % WordBytes = 0
  PROVE  x \div WordBytes \in Nat /\ x = WordBytes * (x \div WordBytes)
<1>0. WordBytes \in Nat /\ WordBytes > 0
  BY PreloadAssumption
<1> DEFINE q == x \div WordBytes
           r == x % WordBytes
<1>1. q \in Nat /\ x = WordBytes * q + r /\ r = 0
  BY <1>0
<1> HIDE DEF q, r
<1>2. WordBytes * q \in Nat
  BY <1>0, <1>1
<1>3. x = WordBytes * q
  BY <1>1, <1>2
<1> QED BY <1>1, <1>3 DEF q

\* The word and the byte of an address that is given by a word and an offset.
LEMMA InsideWord ==
  ASSUME NEW x \in Nat, NEW y \in Nat
  PROVE  /\ (WordBytes * x + y) \div WordBytes = x + (y \div WordBytes)
         /\ (WordBytes * x + y) % WordBytes = y % WordBytes
         /\ y \div WordBytes \in Nat /\ y % WordBytes \in 0 .. WordBytes - 1
         /\ y = WordBytes * (y \div WordBytes) + (y % WordBytes)
<1>0. WordBytes \in Nat /\ WordBytes > 0
  BY PreloadAssumption
<1> DEFINE q == y \div WordBytes
           r == y % WordBytes
           z == WordBytes * x + y
           qq == z \div WordBytes
           rr == z % WordBytes
<1>1. q \in Nat /\ r \in 0 .. WordBytes - 1 /\ y = WordBytes * q + r
  BY <1>0
<1>2. z \in Nat
  BY <1>0
<1>3. qq \in Nat /\ rr \in 0 .. WordBytes - 1 /\ z = WordBytes * qq + rr
  <2> HIDE DEF z
  <2> QED BY <1>0, <1>2
<1>4. z = WordBytes * (x + q) + r
  <2> HIDE DEF q, r
  <2>1. WordBytes * (x + q) = WordBytes * x + WordBytes * q /\ WordBytes * x \in Nat /\ WordBytes * q \in Nat
    BY <1>0, <1>1
  <2> QED BY <1>1, <2>1
<1> HIDE DEF q, r, z, qq, rr
<1>5. ASSUME NEW u \in Nat, NEW v \in Nat, NEW g \in 0 .. WordBytes - 1, NEW h \in 0 .. WordBytes - 1,
             WordBytes * u + g = WordBytes * v + h, u < v
      PROVE  FALSE
  <2>1. PICK w \in Nat : v = u + 1 + w
    <3>1. v - u - 1 \in Nat /\ v = u + 1 + (v - u - 1)
      BY <1>5
    <3> QED BY <3>1
  <2>2. WordBytes * v = WordBytes * u + WordBytes + WordBytes * w /\ WordBytes * w \in Nat /\ WordBytes * u \in Nat
    BY <1>0, <2>1
  <2> QED BY <1>0, <1>5, <2>2
<1>6. x + q \in Nat
  BY <1>1
<1>7. ~(qq < x + q) /\ ~(x + q < qq)
  BY <1>1, <1>3, <1>4, <1>5, <1>6
<1>8. qq = x + q
  BY <1>3, <1>6, <1>7
<1>9. rr = r
  <2>1. WordBytes * qq \in Nat
    BY <1>0, <1>3
  <2> QED BY <1>1, <1>3, <1>4, <1>8, <2>1
<1> QED BY <1>1, <1>8, <1>9 DEF q, r, z, qq, rr

\* Words less than the size of the SRAM apart do not meet in it.
LEMMA NoAlias ==
  ASSUME NEW x \in Nat, NEW y \in Nat, x < y, y < x + SramWords
  PROVE  x % SramWords # y % SramWords
<1>0. SramWords \in Nat /\ SramWords > 0
  BY PreloadAssumption
<1> DEFINE q == x \div SramWords
           r == x % SramWords
           qq == y \div SramWords
           rr == y % SramWords
<1>1. q \in Nat /\ r \in 0 .. SramWords - 1 /\ x = SramWords * q + r
  BY <1>0
<1>2. qq \in Nat /\ rr \in 0 .. SramWords - 1 /\ y = SramWords * qq + rr
  BY <1>0
<1> HIDE DEF q, r, qq, rr
<1> SUFFICES ASSUME r = rr PROVE FALSE
  BY DEF r, rr
<1>3. SramWords * qq \in Nat /\ SramWords * q \in Nat
  BY <1>0, <1>1, <1>2
<1>4. SramWords * qq < SramWords * q + SramWords /\ SramWords * q < SramWords * qq
  <2> DEFINE a == SramWords * q
             b == SramWords * qq
  <2>1. a \in Nat /\ b \in Nat /\ x = a + r /\ y = b + r /\ x < y /\ y < x + SramWords /\ r \in Nat
    BY <1>1, <1>2, <1>3
  <2> HIDE DEF a, b
  <2>2. b < a + SramWords /\ a < b
    BY <1>0, <2>1
  <2> QED BY <2>2 DEF a, b
<1>5. CASE qq <= q
  <2>1. PICK w \in Nat : q = qq + w
    <3>1. q - qq \in Nat /\ q = qq + (q - qq)
      BY <1>1, <1>2, <1>5
    <3> QED BY <3>1
  <2>2. SramWords * q = SramWords * qq + SramWords * w /\ SramWords * w \in Nat
    BY <1>0, <1>2, <2>1
  <2> QED BY <1>3, <1>4, <2>2
<1>6. CASE qq > q
  <2>1. PICK w \in Nat : qq = q + 1 + w
    <3>1. qq - q - 1 \in Nat /\ qq = q + 1 + (qq - q - 1)
      BY <1>1, <1>2, <1>6
    <3> QED BY <3>1
  <2>2. SramWords * qq = SramWords * q + SramWords + SramWords * w /\ SramWords * w \in Nat
    BY <1>0, <1>1, <2>1
  <2> QED BY <1>0, <1>3, <1>4, <2>2
<1> QED BY <1>1, <1>2, <1>5, <1>6

\* What the words of a section are to hold.
SectionByte(s, k) == IF k \in DOMAIN mems[s[1]] THEN mems[s[1]][k] ELSE Blank
WordLoaded(s, j) ==
  \A x \in 1 .. WordBytes : sram[(FirstWord(s) + j) % SramWords][x] = SectionByte(s, j * WordBytes + x)

\* Headers that have been read, and what has come of them.
Past(i) == i \in DOMAIN elf /\ i < header /\ Used(elf[i])
HeadersRead ==
  /\ \A i \in DOMAIN elf : Past(i) =>
       /\ \E k \in DOMAIN sections : sections[k] = SectionOf(elf[i])
       /\ elf[i].paddr \in DOMAIN mems /\ mems[elf[i].paddr] = BytesOf(i, elf[i])
  /\ \A k \in DOMAIN sections : \E i \in DOMAIN elf : Past(i) /\ sections[k] = SectionOf(elf[i])
  /\ \A x \in DOMAIN mems : \E i \in DOMAIN elf : Past(i) /\ x = elf[i].paddr

PlTypes ==
  /\ plPc \in {"read", "sections", "words", "loaded", "abort"}
  /\ elf \in Seq(Headers) /\ header \in Nat \ {0} /\ sections \in Seq(Nat \X Nat)
  /\ section_index \in 0 .. Len(sections) /\ last \in Int /\ at \in Nat /\ word \in Nat
  /\ DOMAIN sram = 0 .. SramWords - 1

\* Between two sections, and within one.
WordsLoaded ==
  /\ plPc = "read" => section_index = 0 /\ last = -1
  /\ plPc \in {"sections", "words", "loaded"} =>
       /\ header > Len(elf)
       /\ \A k \in DOMAIN sections :
            /\ k < section_index \/ (k = section_index /\ plPc # "words") =>
                 \A j \in 0 .. WordCount(sections[k]) - 1 : WordLoaded(sections[k], j)
            /\ k > section_index => last < FirstWord(sections[k])
  /\ plPc = "words" =>
       /\ section_index > 0 /\ at = sections[section_index][1]
       /\ buffer = read_section(at, sections[section_index][2])
       /\ word \in 0 .. WordCount(sections[section_index])
       /\ last < FirstWord(sections[section_index]) + word
       /\ \A j \in 0 .. word - 1 : WordLoaded(sections[section_index], j)
  /\ plPc = "loaded" => section_index = Len(sections)

PlInv == PlTypes /\ (WellLaid => HeadersRead /\ SectionsLaid(sections) /\ WordsLoaded)

HeaderTypes(s) == s.paddr \in Nat /\ s.memsz \in Nat /\ s.filesz \in Nat /\ s.load \in BOOLEAN
Follows(s, z) == FirstWord(s) + WordCount(s) <= FirstWord(z)
Near(s, z) == FirstWord(s) + WordCount(s) <= FirstWord(z) + SramWords
WholeWords(s) == s[1] = WordBytes * FirstWord(s) /\ FirstWord(s) \in Nat /\ WordCount(s) \in Nat /\ s \in Nat \X Nat

\* The section of a well laid header starts at a word.
LEMMA HeaderSection ==
  ASSUME PlTypes, WellLaid, NEW i \in DOMAIN elf, Used(elf[i])
  PROVE  HeaderTypes(elf[i]) /\ WholeWords(SectionOf(elf[i])) /\ EndOf(elf[i]) = WordBytes * (FirstWord(SectionOf(elf[i])) + WordCount(SectionOf(elf[i])))
<1> DEFINE s == elf[i]
<1>1. s \in Headers
  BY DEF PlTypes
<1>2. HeaderTypes(s)
  BY <1>1 DEF Headers, HeaderTypes
<1>3. s.paddr % WordBytes = 0
  BY DEF WellLaid
<1>4. SectionOf(s) = <<s.paddr, s.memsz>>
  BY DEF SectionOf
<1> HIDE DEF s
<1>5. s.paddr \div WordBytes \in Nat /\ s.paddr = WordBytes * (s.paddr \div WordBytes)
  BY <1>2, <1>3, AlignedAddress DEF HeaderTypes
<1>6. WordsFor(s.memsz) \in Nat /\ WordsFor(s.memsz) * WordBytes = WordBytes * WordsFor(s.memsz)
  BY <1>2, WordFacts DEF HeaderTypes
<1>7. FirstWord(SectionOf(s)) = s.paddr \div WordBytes /\ WordCount(SectionOf(s)) = WordsFor(s.memsz)
  BY <1>4 DEF FirstWord, WordCount
<1>8. WholeWords(SectionOf(s))
  BY <1>2, <1>4, <1>5, <1>6, <1>7 DEF WholeWords, HeaderTypes
<1> DEFINE f == s.paddr \div WordBytes
           w == WordsFor(s.memsz)
<1>9. EndOf(s) = WordBytes * f + WordBytes * w
  BY <1>5, <1>6 DEF EndOf
<1>10. f \in Nat /\ w \in Nat /\ WordBytes \in Nat
  BY <1>5, <1>6, PreloadAssumption
<1>11. WordBytes * f + WordBytes * w = WordBytes * (f + w)
  <2> HIDE DEF f, w
  <2> QED BY <1>10
<1>12. EndOf(s) = WordBytes * (FirstWord(SectionOf(s)) + WordCount(SectionOf(s)))
  BY <1>7, <1>9, <1>11
<1> QED BY <1>2, <1>8, <1>12 DEF s

\* Two of them lie in their order and near each other.
LEMMA HeaderPair ==
  ASSUME PlTypes, WellLaid, NEW i \in DOMAIN elf, Used(elf[i]), NEW j \in DOMAIN elf, Used(elf[j])
  PROVE  (i < j => Follows(SectionOf(elf[i]), SectionOf(elf[j]))) /\ Near(SectionOf(elf[j]), SectionOf(elf[i]))
<1> DEFINE s == SectionOf(elf[i])
           z == SectionOf(elf[j])
           e == FirstWord(s) + WordCount(s)
           g == FirstWord(z) + WordCount(z)
<1>1. WholeWords(s) /\ EndOf(elf[i]) = WordBytes * e /\ elf[i].paddr = s[1]
  BY HeaderSection DEF SectionOf
<1>2. WholeWords(z) /\ EndOf(elf[j]) = WordBytes * g /\ elf[j].paddr = z[1]
  BY HeaderSection DEF SectionOf
<1>3. /\ i < j => EndOf(elf[i]) <= elf[j].paddr
      /\ EndOf(elf[j]) <= elf[i].paddr + SramWords * WordBytes
  BY DEF WellLaid
<1>4. e \in Nat /\ g \in Nat /\ FirstWord(s) \in Nat /\ FirstWord(z) \in Nat /\ WordBytes \in Nat /\ SramWords \in Nat
  BY <1>1, <1>2, PreloadAssumption, SMTT(30) DEF WholeWords
<1>5. s[1] = WordBytes * FirstWord(s) /\ z[1] = WordBytes * FirstWord(z)
  BY <1>1, <1>2 DEF WholeWords
<1>6. i < j => WordBytes * e <= WordBytes * FirstWord(z)
  BY <1>1, <1>2, <1>3, <1>5
<1>7. WordBytes * g <= WordBytes * (FirstWord(s) + SramWords)
  <2> DEFINE f == FirstWord(s)
  <2>1. WordBytes * g <= WordBytes * f + SramWords * WordBytes
    BY <1>1, <1>2, <1>3, <1>5
  <2>2. f \in Nat
    BY <1>4
  <2> HIDE DEF f
  <2>3. WordBytes * (f + SramWords) = WordBytes * f + SramWords * WordBytes
    BY <1>4, <2>2
  <2> QED BY <2>1, <2>3 DEF f
<1>8. i < j => e <= FirstWord(z)
  BY <1>4, <1>6, WordOrder
<1>9. FirstWord(s) + SramWords \in Nat
  BY <1>4
<1>10. g <= FirstWord(s) + SramWords
  BY <1>4, <1>7, <1>9, WordOrder
<1> QED BY <1>8, <1>10 DEF Follows, Near

\* Before the file is read.
LEMMA PlStarts ==
  PlInit => PlInv
<1> SUFFICES ASSUME PlInit PROVE PlInv
  OBVIOUS
<1>1. PlTypes
  BY PreloadAssumption DEF PlInit, PlTypes
<1>2. DOMAIN sections = {} /\ DOMAIN mems = {} /\ header = 1 /\ plPc = "read" /\ section_index = 0 /\ last = -1 /\ DOMAIN elf \subseteq Nat \ {0}
  BY <1>1 DEF PlInit, PlTypes
<1>3. HeadersRead
  BY <1>2 DEF HeadersRead, Past
<1>4. SectionsLaid(sections) /\ WordsLoaded
  BY <1>2 DEF SectionsLaid, WordsLoaded
<1> QED BY <1>1, <1>3, <1>4 DEF PlInv

\* Each section is that of a header, and starts at a word.
LEMMA SectionFacts ==
  ASSUME PlInv, WellLaid, NEW k \in DOMAIN sections
  PROVE  WholeWords(sections[k]) /\ sections[k][1] \in DOMAIN mems
<1>1. PICK i \in DOMAIN elf : Past(i) /\ sections[k] = SectionOf(elf[i])
  BY DEF PlInv, HeadersRead
<1>2. elf[i].paddr \in DOMAIN mems
  BY <1>1 DEF PlInv, HeadersRead
<1> QED BY <1>1, <1>2, HeaderSection DEF PlInv, Past, SectionOf

\* The file does not change.
LEMMA SameLayout ==
  ASSUME elf' = elf
  PROVE  WellLaid' <=> WellLaid
BY DEF WellLaid, Used, EndOf, WordsFor

\* The loop over the headers ends, or passes one that is no section.
LEMMA PassKeeps ==
  ASSUME PlInv, read_elf, sections' = sections, mems' = mems
  PROVE  PlInv'
<1>1. elf' = elf /\ plPc = "read"
  BY DEF read_elf
<1>2. UNCHANGED <<elf, section_index, at, buffer, word, last, sram>>
  BY DEF read_elf
<1>3. PlTypes
  BY DEF PlInv
<1>4. \/ header > Len(elf) /\ plPc' = "sections" /\ header' = header
      \/ header \in DOMAIN elf /\ ~Used(elf[header]) /\ plPc' = plPc /\ header' = header + 1
      \/ plPc' = "abort" /\ header' = header
  <2>1. header \in Nat \ {0} /\ elf \in Seq(Headers) /\ sections \in Seq(Nat \X Nat)
    BY <1>3 DEF PlTypes
  <2>2. sections # Append(sections, SectionOf(elf[header]))
    <3>1. CASE header \in DOMAIN elf
      <4>1. elf[header] \in Headers
        BY <2>1, <3>1
      <4>2. SectionOf(elf[header]) \in Nat \X Nat
        BY <4>1 DEF SectionOf, Headers
      <4> QED BY <2>1, <4>2
    <3> QED BY <2>1
  <2> QED BY <2>1, <2>2 DEF read_elf
<1>5. PlTypes'
  BY <1>2, <1>3, <1>4 DEF PlTypes
<1> SUFFICES ASSUME WellLaid' PROVE (HeadersRead /\ SectionsLaid(sections) /\ WordsLoaded)'
  BY <1>5 DEF PlInv
<1>6. WellLaid /\ HeadersRead /\ SectionsLaid(sections) /\ WordsLoaded
  BY <1>1, SameLayout DEF PlInv
<1>7. ASSUME NEW i \in DOMAIN elf PROVE Past(i)' <=> Past(i)
  <2>1. header \in Nat \ {0} /\ i \in Nat
    BY <1>3 DEF PlTypes
  <2> QED BY <1>2, <1>4, <2>1 DEF Past, Used
<1>8. HeadersRead'
  BY <1>2, <1>6, <1>7 DEF HeadersRead, SectionOf, BytesOf
<1>9. SectionsLaid(sections)'
  BY <1>6 DEF SectionsLaid, FirstWord, WordCount, WordsFor
<1>10. WordsLoaded'
  <2>1. section_index' = 0 /\ last' = -1 /\ section_index = 0 /\ last = -1
    BY <1>1, <1>2, <1>6 DEF WordsLoaded
  <2>2. CASE plPc' = "sections"
    <3>1. header' > Len(elf')
      BY <1>1, <1>2, <1>4, <2>2
    <3>2. ASSUME NEW k \in DOMAIN sections PROVE last' < FirstWord(sections[k])' /\ k > 0
      <4>1. FirstWord(sections[k]) \in Nat
        BY <1>6, SectionFacts DEF WholeWords
      <4>2. FirstWord(sections[k])' = FirstWord(sections[k])
        BY DEF FirstWord
      <4>3. k \in Nat \ {0}
        BY <1>3 DEF PlTypes
      <4> QED BY <2>1, <4>1, <4>2, <4>3
    <3>3. \A k \in DOMAIN sections : ~(k < section_index' \/ (k = section_index' /\ plPc' # "words"))
      BY <1>3, <2>1, <3>2 DEF PlTypes
    <3> QED BY <2>2, <3>1, <3>2, <3>3 DEF WordsLoaded
  <2>3. CASE plPc' # "sections"
    <3>1. plPc' \in {"read", "abort"}
      BY <1>1, <1>4, <2>3
    <3> QED BY <2>1, <3>1 DEF WordsLoaded
  <2> QED BY <2>2, <2>3
<1> QED BY <1>8, <1>9, <1>10

\* The bytes of a header go to an address no other has.
LEMMA TakeKeeps ==
  ASSUME PlInv, read_elf, header \in DOMAIN elf, Used(elf[header]), elf[header].infile
  PROVE  PlInv'
<1> DEFINE s == elf[header]
           z == SectionOf(s)
<1>1. PlTypes /\ plPc = "read"
  BY DEF PlInv, read_elf
<1>2. UNCHANGED <<elf, section_index, at, buffer, word, last, sram>>
  BY DEF read_elf
<1>3. header \in Nat \ {0} /\ elf \in Seq(Headers) /\ sections \in Seq(Nat \X Nat) /\ header <= Len(elf)
  BY <1>1 DEF PlTypes
<1>4. /\ sections' = Append(sections, z) /\ mems' = write(mems, s.paddr, BytesOf(header, s))
      /\ header' = header + 1 /\ plPc' = plPc
  BY <1>3 DEF read_elf
<1>5. z \in Nat \X Nat
  <2>1. s \in Headers
    BY <1>3
  <2> QED BY <2>1 DEF SectionOf, Headers
<1> HIDE DEF z
<1>6. /\ sections' \in Seq(Nat \X Nat) /\ Len(sections') = Len(sections) + 1
      /\ DOMAIN sections = 1 .. Len(sections) /\ DOMAIN sections' = 1 .. Len(sections) + 1
      /\ \A k \in DOMAIN sections : sections'[k] = sections[k]
      /\ sections'[Len(sections) + 1] = z
  BY <1>3, <1>4, <1>5, SMTT(30)
<1>7. PlTypes'
  BY <1>1, <1>2, <1>3, <1>4, <1>6 DEF PlTypes
<1> SUFFICES ASSUME WellLaid' PROVE (HeadersRead /\ SectionsLaid(sections) /\ WordsLoaded)'
  BY <1>7 DEF PlInv
<1>8. WellLaid /\ HeadersRead /\ SectionsLaid(sections) /\ WordsLoaded
  BY <1>2, SameLayout DEF PlInv
<1>9. ASSUME NEW i \in DOMAIN elf PROVE Past(i)' <=> Past(i) \/ i = header
  <2>1. i \in Nat
    BY <1>3
  <2> QED BY <1>2, <1>3, <1>4, <2>1 DEF Past, Used
<1>10. HeaderTypes(s) /\ WholeWords(z)
  BY <1>1, <1>8, HeaderSection DEF z
<1>11. ASSUME NEW i \in DOMAIN elf, Past(i)
       PROVE  Follows(SectionOf(elf[i]), z) /\ Near(z, SectionOf(elf[i])) /\ Near(SectionOf(elf[i]), z) /\ i < header
  BY <1>1, <1>8, <1>11, HeaderPair DEF Past, z
<1>12. ASSUME NEW i \in DOMAIN elf, Past(i)
       PROVE  elf[i].paddr # s.paddr
  <2>1. Used(elf[i]) /\ i < header
    BY <1>12 DEF Past
  <2>2. EndOf(elf[i]) <= s.paddr
    BY <1>8, <2>1 DEF WellLaid
  <2>3. HeaderTypes(elf[i])
    BY <1>1, <1>8, <2>1, HeaderSection
  <2>4. elf[i].memsz > 0 /\ elf[i].memsz \in Nat /\ elf[i].paddr \in Nat
    BY <2>1, <2>3 DEF Used, HeaderTypes
  <2>5. elf[i].memsz <= WordsFor(elf[i].memsz) * WordBytes /\ WordsFor(elf[i].memsz) \in Nat
    BY <2>4, WordFacts
  <2>6. WordsFor(elf[i].memsz) * WordBytes \in Nat
    BY <2>5, PreloadAssumption
  <2> QED BY <1>10, <2>2, <2>4, <2>5, <2>6 DEF EndOf, HeaderTypes
<1>13. s.paddr \notin DOMAIN mems
  BY <1>8, <1>12 DEF HeadersRead
<1>14. /\ DOMAIN mems' = DOMAIN mems \cup {s.paddr} /\ mems'[s.paddr] = BytesOf(header, s)
       /\ \A x \in DOMAIN mems : mems'[x] = mems[x]
  BY <1>4, <1>13 DEF write
<1>15. HeadersRead'
  <2>1. ASSUME NEW i \in DOMAIN elf, Past(i)'
        PROVE  /\ \E k \in DOMAIN sections' : sections'[k] = SectionOf(elf[i])
               /\ elf[i].paddr \in DOMAIN mems' /\ mems'[elf[i].paddr] = BytesOf(i, elf[i])
    <3>1. CASE i = header
      <4>1. Len(sections) + 1 \in DOMAIN sections'
        BY <1>3, <1>6
      <4> QED BY <1>6, <1>14, <3>1, <4>1 DEF z
    <3>2. CASE Past(i)
      <4>1. PICK k \in DOMAIN sections : sections[k] = SectionOf(elf[i])
        BY <1>8, <3>2 DEF HeadersRead
      <4>2. k \in DOMAIN sections' /\ sections'[k] = SectionOf(elf[i])
        BY <1>3, <1>6, <4>1
      <4>3. elf[i].paddr \in DOMAIN mems /\ mems[elf[i].paddr] = BytesOf(i, elf[i])
        BY <1>8, <3>2 DEF HeadersRead
      <4> QED BY <1>14, <4>2, <4>3
    <3> QED BY <1>9, <2>1, <3>1, <3>2
  <2>2. ASSUME NEW k \in DOMAIN sections' PROVE \E i \in DOMAIN elf : Past(i)' /\ sections'[k] = SectionOf(elf[i])
    <3>1. CASE k \in DOMAIN sections
      BY <1>6, <1>8, <1>9, <3>1 DEF HeadersRead
    <3>2. CASE k = Len(sections) + 1
      <4>1. PICK i \in DOMAIN elf : i = header
        OBVIOUS
      <4>2. Past(i)' /\ sections'[k] = SectionOf(elf[i])
        BY <1>6, <1>9, <3>2, <4>1 DEF z
      <4> QED BY <4>2
    <3>3. k \in DOMAIN sections \/ k = Len(sections) + 1
      BY <1>3, <1>6
    <3> QED BY <3>1, <3>2, <3>3
  <2>3. ASSUME NEW x \in DOMAIN mems' PROVE \E i \in DOMAIN elf : Past(i)' /\ x = elf[i].paddr
    <3>1. CASE x \in DOMAIN mems
      BY <1>8, <1>9, <3>1 DEF HeadersRead
    <3>2. CASE x = s.paddr
      BY <1>9, <3>2
    <3> QED BY <1>14, <3>1, <3>2
  <2> QED BY <1>2, <2>1, <2>2, <2>3 DEF HeadersRead, SectionOf, BytesOf
<1>16. SectionsLaid(sections)'
  <2>1. ASSUME NEW k \in DOMAIN sections
        PROVE  WholeWords(sections[k]) /\ Follows(sections[k], z) /\ Near(z, sections[k]) /\ Near(sections[k], z) /\ k < Len(sections) + 1
    <3>1. PICK i \in DOMAIN elf : Past(i) /\ sections[k] = SectionOf(elf[i])
      BY <1>8 DEF HeadersRead
    <3> QED BY <1>3, <1>6, <1>8, <1>11, <3>1, SectionFacts
  <2>2. Near(z, z)
    BY <1>1, <1>8, HeaderPair DEF z
  <2>3. ASSUME NEW k \in DOMAIN sections' PROVE k \in DOMAIN sections \/ (k = Len(sections) + 1 /\ sections'[k] = z)
    BY <1>3, <1>6
  <2>4. ASSUME NEW k \in DOMAIN sections' PROVE sections'[k][1] = WordBytes * FirstWord(sections'[k])
    BY <1>6, <1>10, <2>1, <2>3 DEF WholeWords
  <2>5. ASSUME NEW k \in DOMAIN sections', NEW l \in DOMAIN sections', k < l PROVE Follows(sections'[k], sections'[l])
    <3>1. CASE k \in DOMAIN sections /\ l \in DOMAIN sections
      BY <1>6, <1>8, <2>5, <3>1 DEF SectionsLaid, Follows
    <3>2. CASE k \in DOMAIN sections /\ l = Len(sections) + 1
      BY <1>6, <2>1, <3>2
    <3>3. CASE k = Len(sections) + 1
      BY <1>3, <1>6, <2>5, <3>3
    <3> QED BY <2>3, <3>1, <3>2, <3>3
  <2>6. ASSUME NEW k \in DOMAIN sections', NEW l \in DOMAIN sections' PROVE Near(sections'[l], sections'[k])
    <3>1. CASE k \in DOMAIN sections /\ l \in DOMAIN sections
      BY <1>6, <1>8, <3>1 DEF SectionsLaid, Near
    <3>2. CASE k \in DOMAIN sections /\ l = Len(sections) + 1
      BY <1>6, <2>1, <3>2
    <3>3. CASE k = Len(sections) + 1 /\ l \in DOMAIN sections
      BY <1>6, <2>1, <3>3
    <3>4. CASE k = Len(sections) + 1 /\ l = Len(sections) + 1
      BY <1>6, <2>2, <3>4
    <3> QED BY <2>3, <3>1, <3>2, <3>3, <3>4
  <2>7. SectionsLaid(sections')
    BY <2>4, <2>5, <2>6 DEF SectionsLaid, Follows, Near
  <2> QED BY <2>7 DEF SectionsLaid, FirstWord, WordCount, WordsFor
<1>17. WordsLoaded'
  BY <1>1, <1>2, <1>4, <1>8 DEF WordsLoaded
<1> QED BY <1>15, <1>16, <1>17

\* A turn of the loop of read_elf.
LEMMA ReadKeeps ==
  ASSUME PlInv, read_elf
  PROVE  PlInv'
<1>1. header \in Nat \ {0} /\ elf \in Seq(Headers)
  BY DEF PlInv, PlTypes
<1>2. CASE sections' = sections /\ mems' = mems
  BY <1>2, PassKeeps
<1>3. CASE ~(sections' = sections /\ mems' = mems)
  <2>1. header \in DOMAIN elf /\ Used(elf[header]) /\ elf[header].infile
    BY <1>1, <1>3 DEF read_elf
  <2> QED BY <2>1, TakeKeeps
<1> QED BY <1>2, <1>3

\* The test bench takes the next section, or has had them all.
LEMMA GetKeeps ==
  ASSUME PlInv, get_section
  PROVE  PlInv'
<1>1. PlTypes /\ plPc = "sections"
  BY DEF PlInv, get_section
<1>2. UNCHANGED <<elf, header, sections, mems, last, sram>>
  BY DEF get_section
<1>3. /\ section_index \in 0 .. Len(sections) /\ sections \in Seq(Nat \X Nat) /\ Len(sections) \in Nat
      /\ DOMAIN sections = 1 .. Len(sections) /\ section_index \in Nat /\ section_index <= Len(sections)
  BY <1>1 DEF PlTypes
<1>4. PlTypes'
  BY <1>1, <1>2, <1>3, SMTT(30) DEF PlTypes, get_section
<1> SUFFICES ASSUME WellLaid' PROVE (HeadersRead /\ SectionsLaid(sections) /\ WordsLoaded)'
  BY <1>4 DEF PlInv
<1>5. WellLaid /\ HeadersRead /\ SectionsLaid(sections) /\ WordsLoaded
  BY <1>2, SameLayout DEF PlInv
<1>6. HeadersRead'
  BY <1>2, <1>5 DEF HeadersRead, SectionOf, BytesOf, Past, Used
<1>7. SectionsLaid(sections)'
  BY <1>2, <1>5 DEF SectionsLaid, FirstWord, WordCount, WordsFor
<1>8. \A k \in DOMAIN sections : FirstWord(sections[k])' = FirstWord(sections[k]) /\ WordCount(sections[k])' = WordCount(sections[k])
  BY <1>2 DEF FirstWord, WordCount, WordsFor
<1>9. ASSUME NEW k \in DOMAIN sections, NEW j, WordLoaded(sections[k], j)
      PROVE  WordLoaded(sections[k], j)'
  BY <1>2, <1>9 DEF WordLoaded, SectionByte, FirstWord, Blank
<1>10. header' > Len(elf')
  BY <1>1, <1>2, <1>5 DEF WordsLoaded
<1>11. CASE section_index < Len(sections)
  <2>0. PICK i \in DOMAIN sections : i = section_index + 1
    BY <1>3, <1>11
  <2>1. /\ i \in DOMAIN sections /\ i > 0 /\ at' = sections[i][1] /\ buffer' = read_section(sections[i][1], sections[i][2]) /\ word' = 0
        /\ section_index' = i /\ plPc' = "words"
    BY <1>3, <1>11, <2>0, SMTT(30) DEF get_section
  <2>2. \A k \in DOMAIN sections : (k < i => k <= section_index) /\ (k > i => k > section_index)
    BY <1>3, <2>0
  <2>3. i > section_index
    BY <1>3, <2>0
  <2>4. last < FirstWord(sections[i]) /\ WordCount(sections[i]) \in Nat /\ FirstWord(sections[i]) \in Nat
    BY <1>1, <1>5, <2>1, <2>3, SectionFacts DEF WordsLoaded, WholeWords
  <2>5. last' < FirstWord(sections[i])' + word' /\ word' \in 0 .. WordCount(sections[i])' /\ 0 .. word' - 1 = {}
    BY <1>2, <1>8, <2>1, <2>4
  <2>6. buffer' = read_section(at, sections[i][2])'
    BY <1>2, <2>1 DEF read_section, WordsFor, Blank
  <2>7. ASSUME NEW k \in DOMAIN sections, k < i, NEW j \in 0 .. WordCount(sections[k]) - 1 PROVE WordLoaded(sections[k], j)'
    <3>1. k < section_index \/ (k = section_index /\ plPc # "words")
      BY <1>1, <1>3, <2>2, <2>7
    <3> QED BY <1>1, <1>5, <1>9, <2>7, <3>1 DEF WordsLoaded
  <2>8. ASSUME NEW k \in DOMAIN sections, k > i PROVE last' < FirstWord(sections[k])'
    BY <1>1, <1>2, <1>5, <1>8, <2>2, <2>8 DEF WordsLoaded
  <2>9. /\ \A k \in DOMAIN sections' :
              /\ k < section_index' \/ (k = section_index' /\ plPc' # "words") =>
                   \A j \in 0 .. WordCount(sections[k])' - 1 : WordLoaded(sections[k], j)'
              /\ k > section_index' => last' < FirstWord(sections[k])'
    BY <1>2, <1>8, <2>1, <2>7, <2>8
  <2>10. WordsLoaded'
    BY <1>2, <1>10, <2>1, <2>5, <2>6, <2>9 DEF WordsLoaded
  <2> QED BY <1>6, <1>7, <2>10
<1>12. CASE ~(section_index < Len(sections))
  <2>0. section_index = Len(sections)
    <3>0. Len(sections) \in Nat /\ section_index \in Nat
      BY <1>3, Zenon
    <3>1. PICK u \in Nat, x \in Nat : u = Len(sections) /\ x = section_index
      BY <3>0, Zenon
    <3>2. x <= u /\ ~(x < u)
      BY <1>3, <1>12, <3>1, Zenon
    <3>3. x = u
      BY <3>2
    <3> QED BY <3>1, <3>3
  <2>1. plPc' = "loaded" /\ UNCHANGED <<at, buffer, word, section_index>>
    BY <1>12 DEF get_section
  <2>2. plPc' = "loaded" /\ section_index' = section_index /\ section_index = Len(sections)
    BY <2>0, <2>1
  <2>3. ASSUME NEW k \in DOMAIN sections PROVE (k < section_index \/ k = section_index) /\ ~(k > section_index)
    BY <1>3, <2>2
  <2>4. WordsLoaded'
    BY <1>1, <1>2, <1>5, <1>8, <1>9, <1>10, <2>2, <2>3 DEF WordsLoaded
  <2> QED BY <1>6, <1>7, <2>4
<1> QED BY <1>6, <1>7, <1>11, <1>12

\* A byte of a word cut out of a buffer.
LEMMA SliceAt ==
  ASSUME NEW N \in Nat, NEW f, f = [k \in 1 .. N |-> f[k]],
         NEW lo \in Nat, NEW w \in Nat, lo + w <= N, NEW x \in 1 .. w
  PROVE  SubSeq(f, lo + 1, lo + w)[x] = f[lo + x] /\ Len(f) = N
<1> DEFINE S == {f[k] : k \in 1 .. N}
<1>1. f \in [1 .. N -> S]
  BY Zenon
<1> HIDE DEF S
<1>2. f \in Seq(S) /\ Len(f) = N
  BY <1>1
<1> QED BY <1>2

\* A word of the section in work goes to a place of its own.
LEMMA LoadKeeps ==
  ASSUME PlInv, LoadWord
  PROVE  PlInv'
<1>1. PlTypes /\ plPc = "words"
  BY DEF PlInv, LoadWord
<1>2. UNCHANGED <<elf, header, sections, mems, section_index, at, buffer>>
  BY DEF LoadWord
<1>3. /\ section_index \in 0 .. Len(sections) /\ sections \in Seq(Nat \X Nat) /\ Len(sections) \in Nat
      /\ DOMAIN sections = 1 .. Len(sections) /\ last \in Int /\ DOMAIN sram = 0 .. SramWords - 1
  BY <1>1 DEF PlTypes
<1>0. WordBytes \in Nat \ {0} /\ SramWords \in Nat \ {0}
  BY PreloadAssumption
<1> SUFFICES ASSUME WellLaid' PROVE PlInv'
  <2>1. CASE WellLaid'
    BY <2>1
  <2>2. CASE ~WellLaid'
    <3>1. at \div WordBytes \in Nat /\ word \in Nat
      <4>1. at \in Nat /\ word \in Nat
        BY <1>1 DEF PlTypes
      <4> QED BY <1>0, <4>1
    <3>2. last' \in Int /\ word' \in Nat /\ plPc' \in {"words", "sections"} /\ DOMAIN sram' = 0 .. SramWords - 1
      BY <1>1, <1>3, <3>1 DEF LoadWord
    <3>3. PlTypes'
      BY <1>1, <1>2, <3>2 DEF PlTypes
    <3> QED BY <2>2, <3>3 DEF PlInv
  <2> QED BY <2>1, <2>2
<1>5. WellLaid /\ HeadersRead /\ SectionsLaid(sections) /\ WordsLoaded
  BY <1>2, SameLayout DEF PlInv
<1>6. HeadersRead'
  BY <1>2, <1>5 DEF HeadersRead, SectionOf, BytesOf, Past, Used
<1>7. SectionsLaid(sections)'
  BY <1>2, <1>5 DEF SectionsLaid, FirstWord, WordCount, WordsFor
<1>8. \A k \in DOMAIN sections : FirstWord(sections[k])' = FirstWord(sections[k]) /\ WordCount(sections[k])' = WordCount(sections[k])
  BY <1>2 DEF FirstWord, WordCount, WordsFor
<1>9. PICK i \in DOMAIN sections : i = section_index
  BY <1>1, <1>3, <1>5 DEF WordsLoaded
<1>10. PICK s : s = sections[i]
  OBVIOUS
<1>11. /\ at = s[1] /\ buffer = read_section(at, s[2]) /\ word \in 0 .. WordCount(s)
       /\ last < FirstWord(s) + word /\ \A j \in 0 .. word - 1 : WordLoaded(s, j)
  BY <1>1, <1>5, <1>9, <1>10 DEF WordsLoaded
<1>12. WholeWords(s)
  BY <1>5, <1>10, SectionFacts
<1> DEFINE c == WordCount(s)
           a == FirstWord(s) + word
<1>13. c \in Nat /\ FirstWord(s) \in Nat /\ word \in Nat /\ word <= c /\ c * WordBytes \in Nat /\ word * WordBytes \in Nat
  BY <1>0, <1>11, <1>12 DEF WholeWords
<1>14. /\ buffer = [k \in 1 .. c * WordBytes |-> buffer[k]]
       /\ \A k \in 1 .. c * WordBytes : buffer[k] = SectionByte(s, k)
  BY <1>11 DEF read_section, SectionByte, WordCount
<1>15. Len(buffer) = c * WordBytes
  <2> DEFINE N == c * WordBytes
             S == {buffer[k] : k \in 1 .. N}
  <2>1. N \in Nat /\ buffer = [k \in 1 .. N |-> buffer[k]]
    BY <1>13, <1>14
  <2> HIDE DEF N
  <2>2. buffer \in [1 .. N -> S]
    BY <2>1, Zenon
  <2> HIDE DEF S
  <2> QED BY <2>1, <2>2 DEF N
<1>16. at \div WordBytes + word = a
  BY <1>11 DEF FirstWord
<1>17. header' > Len(elf')
  BY <1>1, <1>2, <1>5 DEF WordsLoaded
<1>18. a \in Nat /\ a % SramWords \in 0 .. SramWords - 1
  <2>1. a \in Nat
    BY <1>13
  <2> HIDE DEF a
  <2> QED BY <1>0, <2>1
<1>19. CASE word * WordBytes < c * WordBytes
  <2> DEFINE cut == SubSeq(buffer, word * WordBytes + 1, (word + 1) * WordBytes)
  <2>1. /\ sram' = [sram EXCEPT ![a % SramWords] = cut] /\ last' = a /\ word' = word + 1 /\ plPc' = "words"
    <3>1. a # last
      BY <1>3, <1>11, <1>18
    <3> QED BY <1>1, <1>15, <1>16, <1>19, <3>1 DEF LoadWord
  <2>2. word + 1 <= c
    <3> DEFINE v == word
    <3>1. v \in Nat /\ c \in Nat /\ v * WordBytes < c * WordBytes /\ v <= c
      BY <1>13, <1>19
    <3> HIDE DEF v, c
    <3>2. v # c
      BY <1>0, <3>1
    <3>3. v + 1 <= c
      BY <3>1, <3>2
    <3> QED BY <3>3 DEF v
  <2>3. (word + 1) * WordBytes = word * WordBytes + WordBytes /\ word * WordBytes + WordBytes <= c * WordBytes
    <3> DEFINE v == word
    <3>1. v \in Nat /\ c \in Nat /\ v + 1 <= c
      BY <1>13, <2>2
    <3> HIDE DEF v, c
    <3>2. PICK w \in Nat : c = v + 1 + w
      <4>1. c - v - 1 \in Nat /\ c = v + 1 + (c - v - 1)
        BY <3>1
      <4> QED BY <4>1
    <3>3. (v + 1) * WordBytes = v * WordBytes + WordBytes /\ c * WordBytes = v * WordBytes + WordBytes + w * WordBytes /\ w * WordBytes \in Nat /\ v * WordBytes \in Nat
      BY <1>0, <3>1, <3>2
    <3>4. v * WordBytes + WordBytes <= c * WordBytes
      BY <1>0, <3>3
    <3> QED BY <3>3, <3>4 DEF v
  <2>4. ASSUME NEW x \in 1 .. WordBytes PROVE cut[x] = SectionByte(s, word * WordBytes + x)
    <3> DEFINE N == c * WordBytes
               lo == word * WordBytes
    <3>1. N \in Nat /\ lo \in Nat /\ WordBytes \in Nat /\ lo + WordBytes <= N /\ buffer = [k \in 1 .. N |-> buffer[k]] /\ cut = SubSeq(buffer, lo + 1, lo + WordBytes)
      BY <1>0, <1>13, <1>14, <2>3
    <3>2. \A k \in 1 .. N : buffer[k] = SectionByte(s, k)
      BY <1>14
    <3> HIDE DEF N, lo, cut
    <3>3. cut[x] = buffer[lo + x]
      BY <3>1, SliceAt
    <3>4. lo + x \in 1 .. N
      BY <3>1
    <3>5. cut[x] = SectionByte(s, lo + x)
      BY <3>2, <3>3, <3>4
    <3> QED BY <3>5 DEF lo
  <2> HIDE DEF cut
  <2>5. DOMAIN sram' = 0 .. SramWords - 1 /\ sram'[a % SramWords] = cut /\ \A y \in 0 .. SramWords - 1 : y # a % SramWords => sram'[y] = sram[y]
    BY <1>3, <1>18, <2>1
  <2>6. \A k \in DOMAIN sections : \A y : SectionByte(sections[k], y)' = SectionByte(sections[k], y)
    BY <1>2 DEF SectionByte, Blank
  <2>7. ASSUME NEW k \in DOMAIN sections, k <= i, NEW j \in 0 .. WordCount(sections[k]) - 1, k = i => j < word,
               WordLoaded(sections[k], j)
        PROVE  WordLoaded(sections[k], j)'
    <3> DEFINE f == FirstWord(sections[k])
               d == WordCount(sections[k])
               y == f + j
    <3>1. f \in Nat /\ d \in Nat
      BY <1>5, SectionFacts DEF WholeWords
    <3>2. y \in Nat /\ y < f + d
      BY <3>1
    <3>3. a < FirstWord(s) + c /\ FirstWord(s) + c <= f + SramWords
      <4>1. a < FirstWord(s) + c
        BY <1>13, <2>2
      <4>2. FirstWord(s) + c <= f + SramWords
        BY <1>5, <1>10 DEF SectionsLaid
      <4> QED BY <4>1, <4>2
    <3>4. y < a
      <4>1. CASE k = i
        BY <1>10, <1>13, <2>7, <3>1, <4>1
      <4>2. CASE k < i
        <5>1. f + d <= FirstWord(s)
          BY <1>5, <1>10, <4>2 DEF SectionsLaid
        <5> HIDE DEF f, d
        <5> QED BY <1>13, <3>1, <3>2, <5>1
      <4> QED BY <1>3, <2>7, <4>1, <4>2
    <3>5. a < y + SramWords
      <4>1. f <= y
        BY <3>1
      <4> HIDE DEF y, f, c, d
      <4>2. FirstWord(s) \in Nat /\ c \in Nat /\ a \in Nat /\ f \in Nat /\ y \in Nat
        BY <1>13, <1>18, <3>1, <3>2
      <4> HIDE DEF a
      <4> QED BY <1>0, <3>3, <4>1, <4>2
    <3>6. y % SramWords # a % SramWords /\ y % SramWords \in 0 .. SramWords - 1
      <4>1. y \in Nat /\ a \in Nat
        BY <1>18, <3>2
      <4> HIDE DEF y, a
      <4>2. y % SramWords \in 0 .. SramWords - 1
        BY <1>0, <4>1
      <4> QED BY <3>4, <3>5, <4>1, <4>2, NoAlias
    <3>7. sram'[y % SramWords] = sram[y % SramWords]
      BY <2>5, <3>6
    <3>8. FirstWord(sections[k])' = f
      BY <1>8
    <3> QED BY <2>6, <2>7, <3>7, <3>8 DEF WordLoaded
  <2>9. PICK v \in Nat : v = word
    BY <1>13
  <2>10. WordLoaded(sections[i], v)'
    <3>1. FirstWord(sections[i])' + v = a
      BY <1>8, <1>10, <2>9
    <3>2. \A x \in 1 .. WordBytes : sram'[a % SramWords][x] = SectionByte(sections[i], v * WordBytes + x)'
      BY <1>10, <2>4, <2>5, <2>6, <2>9
    <3> QED BY <3>1, <3>2 DEF WordLoaded
  <2>11. ASSUME NEW j \in 0 .. word' - 1 PROVE WordLoaded(sections[i], j)'
    <3>1. j \in 0 .. word - 1 \/ j = v
      BY <1>13, <2>1, <2>9
    <3>2. CASE j \in 0 .. word - 1
      <4>1. j \in 0 .. WordCount(sections[i]) - 1 /\ j < word /\ i <= i
        BY <1>3, <1>10, <1>13, <3>2
      <4> QED BY <1>10, <1>11, <2>7, <3>2, <4>1
    <3> QED BY <2>10, <3>1, <3>2
  <2>12. ASSUME NEW k \in DOMAIN sections, k < i, NEW j \in 0 .. WordCount(sections[k]) - 1 PROVE WordLoaded(sections[k], j)'
    <3>1. WordLoaded(sections[k], j)
      BY <1>1, <1>5, <1>9, <2>12 DEF WordsLoaded
    <3>2. k <= i /\ k # i
      BY <1>3, <2>12
    <3> QED BY <2>7, <3>1, <3>2
  <2>13. ASSUME NEW k \in DOMAIN sections, k > i PROVE last' < FirstWord(sections[k])'
    <3>1. FirstWord(s) + c <= FirstWord(sections[k])
      BY <1>5, <1>10, <2>13 DEF SectionsLaid
    <3>2. FirstWord(sections[k]) \in Nat
      BY <1>5, SectionFacts DEF WholeWords
    <3>3. a < FirstWord(sections[k])
      BY <1>13, <2>2, <3>1, <3>2
    <3> QED BY <1>8, <2>1, <3>3
  <2>14. last' < FirstWord(sections[i])' + word' /\ word' \in 0 .. WordCount(sections[i])' /\ last' \in Int
    BY <1>8, <1>10, <1>13, <2>1, <2>2
  <2>15. buffer' = read_section(at, sections[i][2])' /\ at' = sections[i][1]
    BY <1>2, <1>10, <1>11 DEF read_section, WordsFor, Blank
  <2>16. i > 0 /\ section_index' = i
    BY <1>2, <1>3, <1>9
  <2>17. PlTypes'
    BY <1>1, <1>2, <2>1, <2>5, <2>14 DEF PlTypes
  <2>18. \A k \in DOMAIN sections' :
              /\ k < section_index' \/ (k = section_index' /\ plPc' # "words") =>
                   \A j \in 0 .. WordCount(sections[k])' - 1 : WordLoaded(sections[k], j)'
              /\ k > section_index' => last' < FirstWord(sections[k])'
    BY <1>2, <1>8, <2>1, <2>12, <2>13, <2>16
  <2>19. WordsLoaded'
    BY <1>2, <1>17, <2>1, <2>11, <2>14, <2>15, <2>16, <2>18 DEF WordsLoaded
  <2> QED BY <1>6, <1>7, <2>17, <2>19 DEF PlInv
<1>20. CASE ~(word * WordBytes < c * WordBytes)
  <2>1. plPc' = "sections" /\ UNCHANGED <<sram, last, word>>
    BY <1>1, <1>15, <1>20 DEF LoadWord
  <2>2. word = c
    <3> DEFINE v == word
    <3>1. v \in Nat /\ c \in Nat /\ ~(v * WordBytes < c * WordBytes) /\ v <= c
      BY <1>13, <1>20
    <3> HIDE DEF v, c
    <3> SUFFICES ASSUME v < c PROVE FALSE
      BY <3>1 DEF v
    <3>2. PICK w \in Nat : c = v + 1 + w
      <4>1. c - v - 1 \in Nat /\ c = v + 1 + (c - v - 1)
        BY <3>1
      <4> QED BY <4>1
    <3>3. c * WordBytes = v * WordBytes + WordBytes + w * WordBytes /\ w * WordBytes \in Nat /\ v * WordBytes \in Nat
      BY <1>0, <3>1, <3>2
    <3> QED BY <1>0, <3>1, <3>3
  <2>3. ASSUME NEW k \in DOMAIN sections, NEW j, WordLoaded(sections[k], j)
        PROVE  WordLoaded(sections[k], j)'
    BY <1>2, <2>1, <2>3 DEF WordLoaded, SectionByte, FirstWord, Blank
  <2>4. ASSUME NEW k \in DOMAIN sections, k <= i, NEW j \in 0 .. WordCount(sections[k]) - 1 PROVE WordLoaded(sections[k], j)'
    <3>1. CASE k = i
      BY <1>10, <1>11, <2>2, <2>3, <2>4, <3>1
    <3>2. CASE k < i
      BY <1>1, <1>5, <1>9, <2>3, <2>4, <3>2 DEF WordsLoaded
    <3> QED BY <1>3, <2>4, <3>1, <3>2
  <2>5. ASSUME NEW k \in DOMAIN sections, k > i PROVE last' < FirstWord(sections[k])'
    BY <1>1, <1>5, <1>8, <1>9, <2>1, <2>5 DEF WordsLoaded
  <2>6. PlTypes'
    BY <1>1, <1>2, <2>1 DEF PlTypes
  <2>7. section_index' = i /\ \A k \in DOMAIN sections : k < i \/ k = i => k <= i
    BY <1>2, <1>3, <1>9
  <2>8. \A k \in DOMAIN sections' :
              /\ k < section_index' \/ (k = section_index' /\ plPc' # "words") =>
                   \A j \in 0 .. WordCount(sections[k])' - 1 : WordLoaded(sections[k], j)'
              /\ k > section_index' => last' < FirstWord(sections[k])'
    BY <1>2, <1>8, <2>4, <2>5, <2>7
  <2>9. WordsLoaded'
    BY <1>17, <2>1, <2>8 DEF WordsLoaded
  <2> QED BY <1>6, <1>7, <2>6, <2>9 DEF PlInv
<1> QED BY <1>19, <1>20

\* Every step of the loader keeps its invariant.
LEMMA PlKept ==
  ASSUME PlInv, [PlNext]_plVars
  PROVE  PlInv'
<1>1. CASE UNCHANGED plVars
  BY <1>1, SMTT(40) DEF plVars, PlInv, PlTypes, WellLaid, HeadersRead, SectionsLaid, WordsLoaded, WordLoaded, SectionByte,
              Past, Used, EndOf, SectionOf, BytesOf, FirstWord, WordCount, WordsFor, read_section, Blank
<1> QED BY <1>1, ReadKeeps, GetKeeps, LoadKeeps DEF PlNext

\* Where a byte of a segment lies, and in which word of its section.
LEMMA ByteInWord ==
  ASSUME NEW f \in Nat, NEW N \in Nat, NEW k \in 1 .. N
  PROVE  \E j \in 0 .. WordsFor(N) - 1, x \in 1 .. WordBytes :
           /\ (WordBytes * f + k - 1) \div WordBytes = f + j /\ ((WordBytes * f + k - 1) % WordBytes) + 1 = x
           /\ j * WordBytes + x = k
<1>0. WordBytes \in Nat \ {0}
  BY PreloadAssumption
<1> DEFINE y == k - 1
           j == y \div WordBytes
           r == y % WordBytes
<1>1. y \in Nat /\ y < N
  OBVIOUS
<1>2. WordBytes * f + k - 1 = WordBytes * f + y
  BY <1>0
<1>3. /\ (WordBytes * f + y) \div WordBytes = f + j /\ (WordBytes * f + y) % WordBytes = r
      /\ j \in Nat /\ r \in 0 .. WordBytes - 1 /\ y = WordBytes * j + r
  <2> HIDE DEF y
  <2> QED BY <1>1, InsideWord
<1>4. WordsFor(N) \in Nat /\ N <= WordBytes * WordsFor(N)
  BY WordFacts
<1>5. k = y + 1
  OBVIOUS
<1> HIDE DEF y, j, r
<1>6. WordBytes * j \in Nat /\ j * WordBytes = WordBytes * j
  BY <1>0, <1>3
<1>7. ~(WordsFor(N) <= j)
  <2> SUFFICES ASSUME WordsFor(N) <= j PROVE FALSE
    OBVIOUS
  <2> DEFINE v == WordsFor(N)
  <2>1. v \in Nat /\ v <= j
    BY <1>4
  <2> HIDE DEF v
  <2>2. PICK w \in Nat : j = v + w
    <3>1. j - v \in Nat /\ j = v + (j - v)
      BY <1>3, <2>1
    <3> QED BY <3>1
  <2>3. WordBytes * j = WordBytes * v + WordBytes * w /\ WordBytes * w \in Nat /\ WordBytes * v \in Nat
    BY <1>0, <2>1, <2>2
  <2>4. N <= WordBytes * v
    BY <1>4 DEF v
  <2>5. r \in Nat /\ y = WordBytes * j + r
    BY <1>3
  <2> QED BY <1>1, <1>6, <2>3, <2>4, <2>5
<1>8. j \in 0 .. WordsFor(N) - 1
  BY <1>3, <1>4, <1>7
<1>9. r + 1 \in 1 .. WordBytes
  BY <1>0, <1>3
<1>10. j * WordBytes + (r + 1) = k
  BY <1>3, <1>5, <1>6
<1>11. (WordBytes * f + k - 1) \div WordBytes = f + j /\ ((WordBytes * f + k - 1) % WordBytes) + 1 = r + 1
  BY <1>2, <1>3
<1> QED BY <1>8, <1>9, <1>10, <1>11

\* At the end, every word of every section is in its place.
LEMMA InvShowsLoaded ==
  ASSUME PlInv
  PROVE  ProgramLoaded
<1> SUFFICES ASSUME plPc = "loaded", WellLaid, NEW i \in DOMAIN elf, Used(elf[i]), NEW k \in 1 .. elf[i].memsz
             PROVE  sram[((elf[i].paddr + k - 1) \div WordBytes) % SramWords][((elf[i].paddr + k - 1) % WordBytes) + 1]
                      = IF k <= elf[i].filesz THEN <<i, k>> ELSE Blank
  BY DEF ProgramLoaded
<1>1. PlTypes /\ HeadersRead /\ WordsLoaded
  BY DEF PlInv
<1>2. Past(i)
  BY <1>1 DEF PlTypes, WordsLoaded, Past
<1>3. PICK l \in DOMAIN sections : sections[l] = SectionOf(elf[i])
  BY <1>1, <1>2 DEF HeadersRead
<1>4. mems[elf[i].paddr] = BytesOf(i, elf[i])
  BY <1>1, <1>2 DEF HeadersRead
<1> DEFINE s == sections[l]
           f == FirstWord(s)
           N == elf[i].memsz
<1>5. HeaderTypes(elf[i]) /\ WholeWords(s)
  BY <1>1, <1>3, HeaderSection
<1>6. s[1] = elf[i].paddr /\ WordCount(s) = WordsFor(N)
  BY <1>3 DEF SectionOf, WordCount
<1>7. f \in Nat /\ N \in Nat /\ elf[i].paddr = WordBytes * f /\ elf[i].filesz \in Nat
  BY <1>5, <1>6 DEF HeaderTypes, WholeWords
<1>8. PICK j \in 0 .. WordsFor(N) - 1, x \in 1 .. WordBytes :
         /\ (WordBytes * f + k - 1) \div WordBytes = f + j /\ ((WordBytes * f + k - 1) % WordBytes) + 1 = x
         /\ j * WordBytes + x = k
  <2> HIDE DEF f, N
  <2>1. k \in 1 .. N
    BY DEF N
  <2> QED BY <1>7, <2>1, ByteInWord
<1>9. WordLoaded(s, j)
  <2>1. l < section_index \/ (l = section_index /\ plPc # "words")
    BY <1>1 DEF PlTypes, WordsLoaded
  <2> QED BY <1>1, <1>6, <1>8, <2>1 DEF WordsLoaded
<1>10. sram[(f + j) % SramWords][x] = SectionByte(s, k)
  BY <1>8, <1>9 DEF WordLoaded
<1>11. SectionByte(s, k) = IF k <= elf[i].filesz THEN <<i, k>> ELSE Blank
  <2>1. DOMAIN mems[s[1]] = 1 .. elf[i].filesz /\ \A y \in 1 .. elf[i].filesz : mems[s[1]][y] = <<i, y>>
    BY <1>4, <1>6 DEF BytesOf
  <2> QED BY <1>7, <2>1 DEF SectionByte
<1> HIDE DEF f, s
<1> QED BY <1>7, <1>8, <1>10, <1>11

\* A program that is laid out as the linker does is in the SRAM when
\* loading ends, byte by byte, with its .bss zero (elfloader.cc,
\* ariane_soc_tb.sv), for every program and every size of the SRAM.
THEOREM ProgramLoadedHolds ==
  PlSpec => []ProgramLoaded
<1>1. PlInit => PlInv
  BY PlStarts
<1>2. PlInv /\ [PlNext]_plVars => PlInv'
  BY PlKept
<1>3. PlInv => ProgramLoaded
  BY InvShowsLoaded
<1> QED BY <1>1, <1>2, <1>3, PTL DEF PlSpec
=============================================================================
