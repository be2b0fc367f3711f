------------------------------ MODULE SimCtrl ------------------------------
(***************************************************************************)
(* The driver of the Verilator simulation (verilator_sim_ctrl.cc) and its  *)
(* main (ara_tb.cpp): the command line, the loop that toggles the clock,   *)
(* drives the reset, evaluates the design and writes the trace, and the    *)
(* signals that stop the simulation or switch tracing at any point of it.  *)
(***************************************************************************)
EXTENDS Integers, Sequences

CONSTANTS
  Options,       \* command lines: sequences of "t", "h", "c2" (stop after two
                 \* cycles), "miss" (an argument is missing) and "other"
  ExtensionSays, \* what the extensions may make of it: "ok", "exit", "fail"
  Builds,        \* builds of the simulator: with tracing compiled in, or without
  ResetDelay, ResetLength, \* initial_reset_delay_cycles_, reset_duration_cycles_
  MaxTime,       \* time stands still from here on
  MaxSignals     \* signals sent to the process

ASSUME SimCtrlAssumption ==
  Builds \subseteq BOOLEAN /\ {ResetDelay, ResetLength, MaxTime, MaxSignals} \subseteq Nat

VARIABLES
  scPc,       \* "args", "run"; "trace0", "dump0", "eval0", "unset" before the loop;
              \* "reset", "eval", "trace", "dump", "ends" in it; "post", "exited"
  argv,       \* options still to parse
  exit_app,   \* exit_app
  goodLine,   \* what ParseCommandArgs returned
  tracing_possible, \* tracing_possible_
  term_after, \* term_after_cycles_, 0 for none
  time,       \* time_
  reset,      \* the reset is asserted
  enabled,    \* tracing_enabled_
  ever,       \* tracing_ever_enabled_
  changed,    \* tracing_enabled_changed_
  traceFile,  \* "never", "open", "closed"
  stop,       \* request_stop_
  success,    \* simulation_success_
  finish,     \* gotFinish: the design has called $finish
  stopping,   \* the design is inside of RequestStop(false), before its last line
  signals,    \* signals so far
  status      \* exit status of the process, -1 while it runs

scVars == <<scPc, tracing_possible, argv, exit_app, goodLine, term_after, time, reset, enabled, ever, changed,
            traceFile, stop, success, finish, stopping, signals, status>>

traceVars == <<enabled, ever, changed>>

----------------------------------------------------------------------------
(* Tracing.                                                                *)

TraceOn ==
  /\ enabled' = tracing_possible /\ ever' = tracing_possible
  /\ changed' = (changed \/ enabled # tracing_possible)

\* (mutant: switching off forgets that there is a file)
MutTraceOff == enabled' = FALSE /\ changed' = (changed \/ enabled) /\ ever' = FALSE
TraceOff == enabled' = FALSE /\ changed' = (changed \/ enabled) /\ UNCHANGED ever

\* Where Trace, called before the loop and in it, returns to.
Traced == IF scPc \in {"trace0", "dump0"} THEN "eval0" ELSE "ends"

\* The message is printed from the main program, and the flag reset.
TraceMessage ==
  /\ scPc \in {"trace0", "trace"} /\ changed' = FALSE
  /\ scPc' = IF ~enabled THEN Traced ELSE IF scPc = "trace0" THEN "dump0" ELSE "dump"
  /\ UNCHANGED <<tracing_possible, argv, exit_app, goodLine, term_after, time, reset, enabled, ever, traceFile,
                 stop, success, finish, stopping, signals, status>>
\* The file is opened with the first dump.
TraceDump ==
  /\ scPc \in {"dump0", "dump"} /\ traceFile' = "open" /\ scPc' = Traced
  /\ UNCHANGED <<tracing_possible, argv, exit_app, goodLine, term_after, time, reset, traceVars, stop, success,
                 finish, stopping, signals, status>>
Trace == TraceMessage \/ TraceDump

----------------------------------------------------------------------------
(* The command line.                                                       *)

Quits(good) == exit_app' = TRUE /\ goodLine' = good /\ scPc' = "exited"

\* -t fails without tracing; a missing argument fails; -h goes on parsing.
ParseCommandArgs ==
  /\ scPc = "args"
  /\ IF argv # <<>>
       THEN /\ argv' = Tail(argv)
            /\ CASE Head(argv) = "t" /\ tracing_possible -> TraceOn /\ UNCHANGED <<exit_app, goodLine, scPc, status, term_after>>
                 [] Head(argv) = "t" /\ ~tracing_possible -> Quits(FALSE) /\ status' = 0 /\ UNCHANGED <<term_after, traceVars>>
                 [] Head(argv) = "miss" -> Quits(FALSE) /\ status' = 0 /\ UNCHANGED <<term_after, traceVars>>
                 [] Head(argv) = "h" -> exit_app' = TRUE /\ UNCHANGED <<goodLine, scPc, status, term_after, traceVars>>
                 [] Head(argv) = "c2" -> term_after' = 2 /\ UNCHANGED <<exit_app, goodLine, scPc, status, traceVars>>
                 [] OTHER -> UNCHANGED <<exit_app, goodLine, scPc, status, term_after, traceVars>>
       ELSE /\ \E says \in ExtensionSays :
                 LET good == says # "fail"
                     quits == exit_app \/ says # "ok"
                 IN  /\ exit_app' = quits /\ goodLine' = good
                     /\ scPc' = IF quits THEN "exited" ELSE "run"
                     \* main hands the truth value on as the exit status
                     /\ status' = IF quits THEN (IF good THEN 1 ELSE 0) ELSE status
            /\ UNCHANGED <<argv, term_after, traceVars>>
  /\ UNCHANGED <<tracing_possible, time, reset, traceFile, stop, success, finish, stopping, signals>>

----------------------------------------------------------------------------
(* The main loop.                                                          *)

SetReset == TRUE
UnsetReset == FALSE

\* The handler is installed, and the extensions prepare.
RunSimulation ==
  /\ scPc = "run" /\ scPc' = "trace0"
  /\ UNCHANGED <<tracing_possible, argv, exit_app, goodLine, term_after, time, reset, traceVars, traceFile, stop,
                 success, finish, stopping, signals, status>>

\* The reset is lifted after the first trace and the first evaluation.
EnterLoop ==
  /\ scPc = "unset"
  /\ reset' = UnsetReset /\ scPc' = "reset"
  /\ UNCHANGED <<tracing_possible, argv, exit_app, goodLine, term_after, time, traceVars, traceFile, stop, success,
                 finish, stopping, signals, status>>

ResetAt(t) == IF t \div 2 = ResetDelay THEN SetReset
              ELSE IF t \div 2 = ResetDelay + ResetLength THEN UnsetReset ELSE reset

DriveReset ==
  /\ scPc = "reset"
  /\ reset' = ResetAt(time) /\ scPc' = "eval"
  /\ UNCHANGED <<tracing_possible, argv, exit_app, goodLine, term_after, time, traceVars, traceFile, stop, success,
                 finish, stopping, signals, status>>

\* The first evaluation runs the initial blocks, and does not count as time.
Evaluated == IF scPc = "eval0" THEN "unset" ELSE "trace"

\* The design runs; it may call $finish, or $stop, which requests a stop.
Eval ==
  /\ scPc \in {"eval0", "eval"} /\ ~stopping
  /\ time' = IF scPc = "eval" /\ time < MaxTime THEN time + 1 ELSE time
  /\ \/ scPc' = Evaluated /\ UNCHANGED <<finish, stop, stopping>>
     \/ scPc' = Evaluated /\ finish' = TRUE /\ UNCHANGED <<stop, stopping>>
     \/ scPc' = scPc /\ stop' = TRUE /\ stopping' = TRUE /\ UNCHANGED finish
  /\ UNCHANGED <<tracing_possible, argv, exit_app, goodLine, term_after, reset, traceVars, traceFile, success,
                 signals, status>>

AfterRequest(ok) == success /\ ok

\* The second line of RequestStop(false), called by vl_stop.
vl_stop ==
  /\ scPc \in {"eval0", "eval"} /\ stopping
  /\ success' = AfterRequest(FALSE) /\ stopping' = FALSE /\ scPc' = Evaluated
  /\ UNCHANGED <<tracing_possible, argv, exit_app, goodLine, term_after, time, reset, traceVars, traceFile, stop,
                 finish, signals, status>>

TimedOut == term_after # 0 /\ time \div 2 >= term_after

\* (mutant: the requested stop is looked at only while tracing)
MutEnds == (stop /\ enabled) \/ finish \/ TimedOut
Ends == stop \/ finish \/ TimedOut
LoopEnd ==
  /\ scPc = "ends"
  /\ scPc' = IF Ends THEN "post" ELSE "reset"
  /\ UNCHANGED <<tracing_possible, argv, exit_app, goodLine, term_after, time, reset, traceVars, traceFile, stop,
                 success, finish, stopping, signals, status>>

\* The trace is closed, and the process ends with the design's exit code.
Run ==
  /\ scPc = "post"
  /\ traceFile' = IF ever THEN "closed" ELSE traceFile
  /\ \E code \in 0 .. 1 : status' = code
  /\ scPc' = "exited"
  /\ UNCHANGED <<tracing_possible, argv, exit_app, goodLine, term_after, time, reset, traceVars, stop, success,
                 finish, stopping, signals>>

----------------------------------------------------------------------------
(* The signal handler interrupts the main program anywhere from there on.  *)

RequestStop(ok) == stop' = TRUE /\ success' = AfterRequest(ok)

SignalHandler ==
  /\ scPc \notin {"args", "run", "exited"} /\ signals < MaxSignals
  /\ signals' = signals + 1
  /\ \/ RequestStop(TRUE) /\ UNCHANGED traceVars
     \/ (IF enabled THEN TraceOff ELSE TraceOn) /\ UNCHANGED <<stop, success>>
  /\ UNCHANGED <<scPc, tracing_possible, argv, exit_app, goodLine, term_after, time, reset, traceFile, finish,
                 stopping, status>>

ScInit ==
  /\ scPc = "args" /\ tracing_possible \in Builds /\ argv \in Options /\ exit_app = FALSE /\ goodLine = TRUE /\ term_after = 0
  /\ time = 0 /\ reset = FALSE /\ enabled = FALSE /\ ever = FALSE /\ changed = FALSE
  /\ traceFile = "never" /\ stop = FALSE /\ success = TRUE /\ finish = FALSE /\ stopping = FALSE
  /\ signals = 0 /\ status = -1

Main == \/ ParseCommandArgs \/ RunSimulation \/ EnterLoop \/ DriveReset \/ Eval \/ vl_stop \/ Trace \/ LoopEnd \/ Run
ScNext == Main \/ SignalHandler

ScFairness == WF_scVars(Main)
ScSpec == ScInit /\ [][ScNext]_scVars /\ ScFairness

----------------------------------------------------------------------------
(***************************************************************************)
(* However SIGUSR1 switches tracing on and off in between, a trace file    *)
(* that was opened is closed before the process ends                       *)
(* (verilator_sim_ctrl.cc:227, 342).                                       *)
(***************************************************************************)
TraceFileClosed == scPc = "exited" => traceFile # "open"

(***************************************************************************)
(* A request to stop ends the process, wherever in the loop it arrives.    *)
(***************************************************************************)
StopEnds == stop ~> scPc = "exited"
=============================================================================
