------------------------------ MODULE UartDpi ------------------------------
(***************************************************************************)
(* The terminal of the simulation: tb/common/uartdpi.sv shifts characters  *)
(* out to the design and samples those that come back, and calls           *)
(* tb/dpi/uartdpi.c, which connects it to a pseudo-terminal and a log.     *)
(* The serial line is tied back (external): what is typed must come back.  *)
(* A character is a sequence of eight bits.                                *)
(***************************************************************************)
EXTENDS Integers, Sequences

CONSTANTS CYCLES_PER_SYMBOL,
          Typed,     \* what may be typed: sequences of characters
          LogPaths,  \* log files: "" (none), "bad" (cannot be opened) or "log"
          PtySize    \* characters the pseudo-terminal buffers

ASSUME UartDpiAssumption ==
  /\ CYCLES_PER_SYMBOL \in Nat \ {0, 1} /\ PtySize \in Nat
  /\ Typed \subseteq Seq([1 .. 8 -> {0, 1}])

VARIABLES
  uaPc,      \* "initial", "run", "closed", "abort"
  path,      \* log_file_path
  typed,     \* characters in the pseudo-terminal for the simulator
  tmp_read,  \* the character uartdpi_can_read has taken
  terminal,  \* characters nobody has read from the pseudo-terminal
  tx_o, txactive, txcount, txcyccount, txsymbol,
  rxactive, rxcount, rxcyccount, rxsymbol,
  log,       \* the log file; <<>> if there is none
  written,   \* characters that uartdpi_write was called with
  all        \* what is typed in this behaviour

txVars == <<typed, tmp_read, tx_o, txactive, txcount, txcyccount, txsymbol>>
rxVars == <<rxactive, rxcount, rxcyccount, rxsymbol>>
uaVars == <<uaPc, path, terminal, txVars, rxVars, log, written, all>>

----------------------------------------------------------------------------
\* The pseudo-terminal, and a log file unless it cannot be opened.
uartdpi_create ==
  /\ uaPc = "initial" /\ uaPc' = "run"
  /\ log' = <<>> /\ path' = IF path = "bad" THEN "" ELSE path
  /\ UNCHANGED <<terminal, txVars, rxVars, written, all>>

uartdpi_can_read == typed # <<>>
uartdpi_read == tmp_read

\* {1'b1, c[7:0], 1'b0}
Frame(ch) == [i \in 0 .. 9 |-> IF i = 0 THEN 0 ELSE IF i = 9 THEN 1 ELSE ch[i]]

\* can_read takes the character that read returns.
TxClock ==
  IF ~txactive
    THEN /\ tx_o' = 1
         /\ IF uartdpi_can_read
              THEN /\ tmp_read' = Head(typed) /\ typed' = Tail(typed)
                   /\ txsymbol' = Frame(uartdpi_read')
                   /\ txactive' = TRUE /\ txcount' = 0 /\ txcyccount' = 0
              ELSE UNCHANGED <<typed, tmp_read, txsymbol, txactive, txcount, txcyccount>>
    ELSE LET last == txcyccount = CYCLES_PER_SYMBOL - 1
         IN  /\ tx_o' = txsymbol[txcount]
             /\ txcyccount' = IF last THEN 0 ELSE txcyccount + 1
             /\ txactive' = ~(last /\ txcount = 9)
             /\ txcount' = IF last /\ txcount # 9 THEN txcount + 1 ELSE txcount
             /\ UNCHANGED <<typed, tmp_read, txsymbol>>

\* The pseudo-terminal does not block: a full one fails the assertion.
uartdpi_write(ch) ==
  /\ written' = Append(written, ch)
  /\ IF Len(terminal) = PtySize
       THEN uaPc' = "abort" /\ UNCHANGED <<terminal, log>>
       ELSE /\ terminal' = Append(terminal, ch)
            /\ log' = IF path = "log" THEN Append(log, ch) ELSE log
            /\ UNCHANGED uaPc
NoWrite == UNCHANGED <<written, uaPc, terminal, log>>

\* The bit is sampled in its middle; rxcyccount, which runs on between two
\* characters, stays 0 there.
\* (mutant: the start bit is checked after a whole symbol)
MutHalfSymbol == CYCLES_PER_SYMBOL - 1
HalfSymbol == CYCLES_PER_SYMBOL \div 2 - 1
RxClock ==
  IF ~rxactive
    THEN /\ rxactive' = (tx_o = 0) /\ rxcount' = 0 /\ rxcyccount' = 0
         /\ UNCHANGED rxsymbol /\ NoWrite
    ELSE LET due == rxcyccount = IF rxcount = 0 THEN HalfSymbol ELSE CYCLES_PER_SYMBOL - 1
         IN  /\ rxcyccount' = IF due THEN 0 ELSE rxcyccount + 1
             /\ rxactive' = ~(due /\ ((rxcount = 0 /\ tx_o = 1) \/ rxcount = 9))
             /\ rxcount' = IF due /\ rxactive' THEN rxcount + 1 ELSE rxcount
             /\ rxsymbol' = IF due /\ rxcount \in 1 .. 8 THEN [rxsymbol EXCEPT ![rxcount] = tx_o] ELSE rxsymbol
             /\ IF due /\ rxcount = 9 /\ tx_o = 1 THEN uartdpi_write(rxsymbol) ELSE NoWrite

Clock == uaPc = "run" /\ TxClock /\ RxClock /\ UNCHANGED <<path, all>>

\* The person at the terminal reads what has arrived (external).
ReadTerminal ==
  /\ uaPc = "run" /\ terminal # <<>> /\ terminal' = <<>>
  /\ UNCHANGED <<uaPc, path, txVars, rxVars, log, written, all>>

\* final: everything is closed, the log flushed.
uartdpi_close ==
  /\ uaPc = "run" /\ typed = <<>> /\ ~txactive /\ ~rxactive /\ tx_o = 1 /\ uaPc' = "closed"
  /\ UNCHANGED <<path, terminal, txVars, rxVars, log, written, all>>

UaInit ==
  /\ uaPc = "initial" /\ path \in LogPaths /\ typed \in Typed /\ all = typed
  /\ tmp_read = <<>> /\ terminal = <<>> /\ log = <<>> /\ written = <<>>
  /\ tx_o = 1 /\ txactive = FALSE /\ txcount = 0 /\ txcyccount = 0 /\ txsymbol = <<>>
  /\ rxactive = FALSE /\ rxcount = 0 /\ rxcyccount = 0 /\ rxsymbol = [i \in 1 .. 8 |-> 0]

UaNext == uartdpi_create \/ Clock \/ ReadTerminal \/ uartdpi_close
UaSpec == UaInit /\ [][UaNext]_uaVars

----------------------------------------------------------------------------
(***************************************************************************)
(* Characters sent back to back, at the fewest cycles per symbol that the  *)
(* bench allows, arrive each once, in order and with their own bits, and   *)
(* are in the log when the line is idle again (uartdpi.sv:46, 98).         *)
(***************************************************************************)
LineEchoes ==
  /\ written = SubSeq(all, 1, Len(written))
  /\ uaPc = "closed" => written = all /\ (path = "log" => log = all)
=============================================================================
