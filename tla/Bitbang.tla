------------------------------ MODULE Bitbang ------------------------------
(***************************************************************************)
(* The JTAG server of the simulation: the simulator calls jtag_tick every  *)
(* few cycles, which accepts a debugger or executes one of its commands,   *)
(* and drives the four JTAG pins.  There are two versions of it, the C++   *)
(* class of tb/dpi ("dpi") and the C functions of tb/sim_ip/simjtag        *)
(* ("simjtag"), which differ when the debugger is gone.                    *)
(*                                                                         *)
(* The debugger sends a script, one command at a time: "p" sets the pins   *)
(* (the commands 0 .. 7), "R" asks for TDO, "Q" quits, "n" is any command  *)
(* without an effect.  What the design answers on TDO is the number of     *)
(* pin settings it has seen; a debugger may also die in the middle.        *)
(***************************************************************************)
EXTENDS Integers, Sequences

CONSTANTS Impls,       \* the versions, of "dpi" and "simjtag"
          Scripts,     \* what a debugger may send
          MaxSessions  \* debuggers that connect one after the other

ASSUME BitbangAssumption == Impls \subseteq {"dpi", "simjtag"} /\ MaxSessions \in Nat

VARIABLES
  impl,       \* the version that is linked in
  bbPc,       \* "design": the design runs; "accept", "read": in that loop, or "aborted"
  client_fd,  \* the server has a connection
  link,       \* the debugger's end: "none", "waiting", "open", "dead"
  script,     \* what the debugger has still to send
  wire,       \* commands sent and not read
  pinsSet,    \* set_pins calls so far
  pinsSeen,   \* those the design has run with
  tdo,        \* TDO at the beginning of the tick
  replies,    \* answers to R, with the pin settings that preceded it
  quit,       \* quit
  sessions    \* debuggers so far

bbVars == <<impl, bbPc, client_fd, link, script, wire, pinsSet, pinsSeen, tdo, replies,
            quit, sessions>>

----------------------------------------------------------------------------
(* The server.                                                             *)

\* The socket exists and listens before the first tick; the pins are high.
remote_bitbang_t == client_fd = FALSE /\ quit = FALSE /\ bbPc = "design"
rbs_init == remote_bitbang_t

\* A tick: a command of the debugger, or the next debugger.
Tick(version) ==
  /\ impl = version /\ bbPc = "design"
  /\ IF client_fd THEN tdo' = pinsSeen /\ bbPc' = "read" ELSE bbPc' = "accept" /\ UNCHANGED tdo
  /\ UNCHANGED <<impl, client_fd, link, script, wire, pinsSet, pinsSeen, replies, quit, sessions>>
tick == Tick("dpi")
rbs_tick == Tick("simjtag")

\* The design runs on with the pins the tick returned.
Leave == bbPc' = "design" /\ pinsSeen' = pinsSet'

\* The loop ends only when a debugger has connected.
Accept(version) ==
  /\ impl = version /\ bbPc = "accept" /\ link = "waiting"
  /\ client_fd' = TRUE /\ link' = "open" /\ pinsSet' = pinsSet /\ Leave
  /\ UNCHANGED <<impl, script, wire, tdo, replies, quit, sessions>>
accept == Accept("dpi")
rbs_accept == Accept("simjtag")

set_pins(command) == IF command = "p" THEN pinsSet + 1 ELSE pinsSet
rbs_set_pins(command) == set_pins(command)

\* Once quit is set every command closes the connection.
\* (mutant: Q closes the connection and does not set quit)
MutAfterCommand(command) ==
  /\ quit' = quit
  /\ IF command = "Q" THEN client_fd' = FALSE /\ link' = "none" ELSE UNCHANGED <<client_fd, link>>
AfterCommand(command) ==
  /\ quit' = (quit \/ command = "Q")
  /\ IF quit' THEN client_fd' = FALSE /\ link' = "none" ELSE UNCHANGED <<client_fd, link>>

Reply(command) ==
  IF command = "R" THEN Append(replies, [tdo |-> tdo, due |-> pinsSet]) ELSE replies

\* (mutant: the loop goes on with the next command in the same tick)
MutExecuteCommand(version) ==
  /\ impl = version /\ bbPc = "read" /\ wire # <<>>
  /\ pinsSet' = set_pins(Head(wire))
  /\ replies' = Reply(Head(wire)) /\ wire' = Tail(wire)
  /\ AfterCommand(Head(wire))
  /\ IF wire' # <<>> /\ client_fd' THEN UNCHANGED <<bbPc, pinsSeen>> ELSE Leave
  /\ UNCHANGED <<impl, script, tdo, sessions>>

ExecuteCommand(version) ==
  /\ impl = version /\ bbPc = "read" /\ wire # <<>>
  /\ pinsSet' = set_pins(Head(wire))
  /\ replies' = Reply(Head(wire)) /\ wire' = Tail(wire)
  /\ AfterCommand(Head(wire)) /\ Leave
  /\ UNCHANGED <<impl, script, tdo, sessions>>

\* write fails, the debugger being gone, and the process aborts.
SendFails(version) ==
  /\ impl = version /\ bbPc = "read" /\ wire # <<>> /\ Head(wire) = "R" /\ link = "dead"
  /\ bbPc' = "aborted"
  /\ UNCHANGED <<impl, client_fd, link, script, wire, pinsSet, pinsSeen, tdo, replies, quit, sessions>>

execute_command == ExecuteCommand("dpi") \/ SendFails("dpi")

\* At the end of the stream this version returns, and keeps the connection;
\* the other one reads on for ever.
rbs_execute_command ==
  \/ ExecuteCommand("simjtag") \/ SendFails("simjtag")
  \/ /\ impl = "simjtag" /\ bbPc = "read" /\ wire = <<>> /\ link = "dead"
     /\ pinsSet' = pinsSet /\ Leave
     /\ UNCHANGED <<impl, client_fd, link, script, wire, tdo, replies, quit, sessions>>

\* What jtag_tick returns: 1 once a debugger has quit, 0 before.
rbs_done == quit
rbs_exit_code == 0
jtag_tick == IF rbs_done THEN 2 * rbs_exit_code + 1 ELSE 0

----------------------------------------------------------------------------
(* The debugger (external).                                                *)

Connect ==
  /\ link = "none" /\ sessions < MaxSessions
  /\ link' = "waiting" /\ sessions' = sessions + 1
  /\ script' \in Scripts /\ wire' = <<>>
  /\ UNCHANGED <<impl, bbPc, client_fd, pinsSet, pinsSeen, tdo, replies, quit>>

Send ==
  /\ link = "open" /\ script # <<>>
  /\ wire' = Append(wire, Head(script)) /\ script' = Tail(script)
  /\ UNCHANGED <<impl, bbPc, client_fd, link, pinsSet, pinsSeen, tdo, replies, quit, sessions>>

Die ==
  /\ link = "open" /\ link' = "dead"
  /\ UNCHANGED <<impl, bbPc, client_fd, script, wire, pinsSet, pinsSeen, tdo, replies, quit, sessions>>

----------------------------------------------------------------------------
BbInit ==
  /\ impl \in Impls /\ IF impl = "dpi" THEN remote_bitbang_t ELSE rbs_init
  /\ link = "none" /\ script = <<>> /\ wire = <<>> /\ pinsSet = 0 /\ pinsSeen = 0 /\ tdo = 0
  /\ replies = <<>> /\ sessions = 0

Server == \/ tick \/ rbs_tick \/ accept \/ rbs_accept \/ execute_command \/ rbs_execute_command
BbNext == Server \/ Connect \/ Send \/ Die

\* The simulator keeps calling, and a debugger that is there keeps sending.
BbFairness == WF_bbVars(Server) /\ WF_bbVars(Connect) /\ WF_bbVars(Send)
BbSpec == BbInit /\ [][BbNext]_bbVars /\ BbFairness

----------------------------------------------------------------------------
(***************************************************************************)
(* remote_bitbang.h:47, "we only execute 1 because we need time for the    *)
(* simulation to run": the answer to an R shows the design after it has    *)
(* run with every pin setting that the debugger sent before.               *)
(***************************************************************************)
ReplyIsCurrent == \A i \in DOMAIN replies : replies[i].tdo = replies[i].due

(***************************************************************************)
(* A debugger that stays until its Q has all of its commands executed, if  *)
(* it is the first one: accepting, reading and the design take turns       *)
(* without anyone waiting for ever, and then jtag_tick reports the end.    *)
(***************************************************************************)
FirstDebuggerServed ==
  (sessions = 1 /\ link = "waiting") ~> (link = "dead" \/ (jtag_tick = 1 /\ script = <<>> /\ wire = <<>>))
============================================================================
