-------------------------------- MODULE Vmma --------------------------------
(***************************************************************************)
(* The vector-matrix unit that fetches its operands itself:                *)
(* software/app/vmma_test/main.c over its driver vmma.c, and the state     *)
(* machine of vmma_sim.sv.  A step of the unit is a handshake on its AXI   *)
(* port; the memory answers when it likes, and a write has landed when its *)
(* response has come.  An element stands for itself: W[r][i] is <<r, i>>,  *)
(* X[i] is i, and a dot product is the set of the pairs it sums.           *)
(***************************************************************************)
EXTENDS Integers, Sequences

CONSTANTS
  VmJobs,   \* configurations, [dtype, m, n]
  VmBudget, \* the timeout of the test's loop
  MAXMN,    \* largest dimension
  Lanes     \* elements in a beat

ASSUME VmmaAssumption == VmBudget \in Nat \ {0} /\ MAXMN \in Nat \ {0} /\ Lanes \in Nat \ {0}

VARIABLES
  vmPc, vmLeft, vmVerdict,      \* the test: timeout and what it printed
  vmJob,                        \* the configuration registers
  vmSt, vmRow, vmBeat,          \* st_q, row_q, beat_q
  vmBusy, vmDone, vmErr,        \* the status
  vmX, vmW, vmLat,              \* x_mem, w_mem, y_lat_q
  vmY                           \* Y in memory

vmHostVars == <<vmPc, vmLeft, vmVerdict, vmJob>>
vmDevVars  == <<vmSt, vmRow, vmBeat, vmBusy, vmDone, vmErr, vmX, vmW, vmLat, vmY>>
vmVars == <<vmHostVars, vmDevVars>>

None0 == <<>>
Indices == 0 .. MAXMN - 1
Beats(n) == (n + Lanes - 1) \div Lanes
Valid(job) == job.dtype = "int16" /\ job.m \in 1 .. MAXMN /\ job.n \in 1 .. MAXMN
Dot(w, x, n) == {<<w[i], x[i]>> : i \in 0 .. n - 1}
ExpectedY(r) == {<<<<r, i>>, i>> : i \in 0 .. vmJob.n - 1}

----------------------------------------------------------------------------
(* The unit.                                                               *)

\* A beat brings Lanes elements, those beyond n are dropped.
Lane(i) == i \div Lanes = vmBeat /\ i < vmJob.n
LastBeat == vmBeat = Beats(vmJob.n) - 1

ReadX ==
  /\ vmSt \in {"X_AR", "X_R"}
  /\ IF vmSt = "X_AR" THEN vmSt' = "X_R" /\ vmBeat' = 0 /\ UNCHANGED vmX
     ELSE /\ vmX' = [i \in Indices |-> IF Lane(i) THEN i ELSE vmX[i]]
          /\ vmSt' = IF LastBeat THEN "W_AR" ELSE "X_R"
          /\ vmBeat' = IF LastBeat THEN 0 ELSE vmBeat + 1
  /\ UNCHANGED <<vmHostVars, vmRow, vmBusy, vmDone, vmErr, vmW, vmLat, vmY>>

ReadW ==
  /\ vmSt \in {"W_AR", "W_R"}
  /\ IF vmSt = "W_AR" THEN vmSt' = "W_R" /\ vmBeat' = 0 /\ UNCHANGED vmW
     ELSE /\ vmW' = [i \in Indices |-> IF Lane(i) THEN <<vmRow, i>> ELSE vmW[i]]
          /\ vmSt' = IF LastBeat THEN "COMP" ELSE "W_R"
          /\ vmBeat' = IF LastBeat THEN vmBeat ELSE vmBeat + 1
  /\ UNCHANGED <<vmHostVars, vmRow, vmBusy, vmDone, vmErr, vmX, vmLat, vmY>>

\* (mutant: the row before the last one ends the product)
MutRowsDone == vmRow + 2 >= vmJob.m
RowsDone == vmRow + 1 >= vmJob.m

Compute ==
  /\ vmSt = "COMP"
  /\ vmLat' = [vmLat EXCEPT ![vmRow] = Dot(vmW, vmX, vmJob.n)]
  /\ vmBeat' = 0
  /\ IF RowsDone THEN vmSt' = "Y_AW" /\ UNCHANGED vmRow
     ELSE vmSt' = "W_AR" /\ vmRow' = vmRow + 1
  /\ UNCHANGED <<vmHostVars, vmBusy, vmDone, vmErr, vmX, vmW, vmY>>

\* The burst of Y; the memory has it when it answers.
WriteY ==
  /\ vmSt \in {"Y_AW", "Y_W", "Y_B"}
  /\ CASE vmSt = "Y_AW" -> vmSt' = "Y_W" /\ UNCHANGED <<vmBeat, vmY>>
       [] vmSt = "Y_W" -> /\ IF vmBeat + 1 >= Beats(vmJob.m) THEN vmSt' = "Y_B" /\ UNCHANGED vmBeat
                             ELSE vmSt' = "Y_W" /\ vmBeat' = vmBeat + 1
                          /\ UNCHANGED vmY
       [] OTHER -> /\ vmY' = [r \in Indices |-> IF r < vmJob.m THEN vmLat[r] ELSE vmY[r]]
                   /\ vmSt' = "FINISH" /\ UNCHANGED vmBeat
  /\ UNCHANGED <<vmHostVars, vmRow, vmBusy, vmDone, vmErr, vmX, vmW, vmLat>>

Finish ==
  /\ vmSt = "FINISH"
  /\ vmSt' = "IDLE" /\ vmBusy' = FALSE /\ vmDone' = TRUE
  /\ UNCHANGED <<vmHostVars, vmRow, vmBeat, vmErr, vmX, vmW, vmLat, vmY>>

----------------------------------------------------------------------------
(* The test.                                                               *)

\* init and config: the unit is idle, and its registers are written.
VmConfig ==
  /\ vmPc = "config"
  /\ \E job \in VmJobs : vmJob' = job
  /\ vmDone' = FALSE /\ vmErr' = 0 /\ vmPc' = "start"
  /\ UNCHANGED <<vmLeft, vmVerdict, vmSt, vmRow, vmBeat, vmBusy, vmX, vmW, vmLat, vmY>>

\* A start the unit refuses sets done with an error.
VmStart ==
  /\ vmPc = "start" /\ vmPc' = "poll"
  /\ IF Valid(vmJob)
       THEN vmBusy' = TRUE /\ vmDone' = FALSE /\ vmErr' = 0 /\ vmRow' = 0 /\ vmBeat' = 0 /\ vmSt' = "X_AR"
       ELSE vmErr' = 1 /\ vmDone' = TRUE /\ UNCHANGED <<vmBusy, vmRow, vmBeat, vmSt>>
  /\ UNCHANGED <<vmLeft, vmVerdict, vmJob, vmX, vmW, vmLat, vmY>>

\* while (busy && timeout--): the test is of the value before, so a loop
\* that runs out leaves it wrapped around, -1.
VmPoll ==
  /\ vmPc = "poll"
  /\ IF ~vmBusy THEN vmPc' = "judge" /\ UNCHANGED vmLeft
     ELSE vmLeft' = vmLeft - 1 /\ vmPc' = IF vmLeft = 0 THEN "judge" ELSE "poll"
  /\ UNCHANGED <<vmVerdict, vmJob, vmDevVars>>

VmJudge ==
  /\ vmPc = "judge" /\ vmPc' = "end"
  /\ vmVerdict' = IF vmLeft = 0 THEN "TIMEOUT"
                  ELSE IF vmErr # 0 THEN "error"
                  ELSE IF \E r \in 0 .. vmJob.m - 1 : vmY[r] # ExpectedY(r) THEN "FAIL" ELSE "PASS"
  /\ UNCHANGED <<vmLeft, vmJob, vmDevVars>>

VmInit ==
  /\ vmPc = "config" /\ vmLeft = VmBudget /\ vmVerdict = "none"
  /\ vmJob = [dtype |-> "none", m |-> 0, n |-> 0]
  /\ vmSt = "IDLE" /\ vmRow = 0 /\ vmBeat = 0 /\ vmBusy = FALSE /\ vmDone = FALSE /\ vmErr = 0
  /\ vmX = [i \in Indices |-> -1] /\ vmW = [i \in Indices |-> <<-1, i>>]
  /\ vmLat = [i \in Indices |-> {}] /\ vmY = [i \in Indices |-> {}]

VmUnit == ReadX \/ ReadW \/ Compute \/ WriteY \/ Finish
VmNext == VmUnit \/ VmConfig \/ VmStart \/ VmPoll \/ VmJudge
VmSpec == VmInit /\ [][VmNext]_vmVars

----------------------------------------------------------------------------
(***************************************************************************)
(* A test whose loop has polls to spare tells the truth: a configuration   *)
(* the unit accepts gives PASS, every row of Y in memory when busy has     *)
(* fallen, and one it refuses gives the error of the status register       *)
(* (vmma_test/main.c:47-80, vmma_sim.sv:152-235).                          *)
(***************************************************************************)
SpareMeansTrue ==
  vmVerdict # "none" /\ vmLeft > 0 => vmVerdict = IF Valid(vmJob) THEN "PASS" ELSE "error"
=============================================================================
