------------------------------ MODULE Systolic ------------------------------
(***************************************************************************)
(* One systolic array (mxu/Systolic_Array.sv) fed with diagonals by its    *)
(* semi-transposer (stu/semi_transposer.sv): the "DiP" data flow, in which *)
(* the same stationary weights give x W in feed-forward mode, by passing   *)
(* the activations on to the next PE, and x W^T in back-propagation mode,  *)
(* by passing the partial sums on instead.                                 *)
(*                                                                         *)
(* Numbers are symbolic: weight <<t, r, c>> is row r, column c of tile t,  *)
(* and a partial sum is the set of its terms <<row, i, weight>>, element i *)
(* of an activation row times a weight.  One Next step is a clock cycle,   *)
(* or the start of another job on the drained array.                       *)
(***************************************************************************)
EXTENDS Integers

CONSTANTS N,     \* LINE_NUM = PE_NUM = BUFFER_DEPTH
          Tiles, \* names of weight tiles
          Names, \* names of activation rows
          NoRow  \* the row of a register whose enable is low

ASSUME NAssumption == N \in Nat /\ N > 1

ASSUME NoRowAssumption == NoRow \notin Names

VARIABLES
  mode,  \* data_flow_mode_i
  dtype, \* data_type_mode_i
  tile,  \* the tile in the transposer's memory
  cnt,   \* diagonals the transposer has not put out yet
  en,    \* wgt_update_en_o_mid
  seen,  \* wgt_done_seen_q of the sequencer: rows follow when the lines rest
  wgt,   \* the weight registers of each line
  pipe,  \* pipe[k][s]: pipeline registers s of line k
  res    \* the register behind the array

vars == <<mode, dtype, tile, cnt, en, seen, wgt, pipe, res>>

INT   == 1
POSIT == 0
FF    == 0
BP    == 1
Cols   == 0 .. N - 1
Lines  == 0 .. N - 1
Stages == 1 .. 3

\* n % N, for n < 2 * N.
Wrap(n) == IF n < N THEN n ELSE n - N

----------------------------------------------------------------------------
(* Weights.                                                                *)

Diagonal(d) == [i \in Cols |-> <<tile, Wrap(d + i), i>>]

WgtDone == en[N - 1]

WgtEnI(k) == IF k = 0 THEN cnt > 0 ELSE ~WgtDone /\ en[k - 1]

LoadStep ==
  /\ cnt' = IF cnt > 0 THEN cnt - 1 ELSE cnt
  /\ en'  = [k \in Lines |-> WgtEnI(k)]
  /\ wgt' = [k \in Lines |-> IF ~WgtEnI(k) THEN wgt[k]
                             ELSE IF k = 0 THEN Diagonal(cnt - 1) ELSE wgt[k - 1]]
  /\ seen' = (seen \/ WgtDone)

----------------------------------------------------------------------------
(* Activations and partial sums.                                           *)

Wave(name) == [row |-> name, act |-> [j \in Cols |-> j], acc |-> [j \in Cols |-> {}]]
Bubble     == Wave(NoRow)

\* A PE multiplies between its first and its second register.
Multiply(k, w) ==
  IF w.row = NoRow THEN w
  ELSE [row |-> w.row, act |-> w.act,
        acc |-> [j \in Cols |-> w.acc[j] \union {<<w.row, w.act[j], wgt[k][j]>>}]]

LastStage == IF dtype = INT THEN 2 ELSE 3

\* What moves diagonally between two lines, and behind the last one.
ActShift(w) == [j \in Cols |-> IF mode = FF THEN w.act[Wrap(j + 1)] ELSE w.act[j]]
\* (mutant: the partial sums move straight down in both modes)
MutAccShift(w) == w.acc
AccShift(w) == [j \in Cols |-> IF mode = FF THEN w.acc[j] ELSE w.acc[Wrap(j + 1)]]

PassOn(w) ==
  IF w.row = NoRow THEN w
  ELSE [row |-> w.row, act |-> ActShift(w), acc |-> AccShift(w)]

PipeStep(in) ==
  /\ pipe' = [k \in Lines |-> [s \in Stages |->
       CASE s = 1 -> IF k = 0 THEN in ELSE PassOn(pipe[k - 1][LastStage])
         [] s = 2 -> Multiply(k, pipe[k][1])
         [] s = 3 -> IF LastStage = 3 THEN pipe[k][2] ELSE Bubble]]
  /\ res' = LET w == pipe[N - 1][LastStage]
            IN [row |-> w.row, val |-> AccShift(w)]

----------------------------------------------------------------------------
Ready   == seen /\ ~WgtDone
Drained == res.row = NoRow /\ \A k \in Lines, s \in Stages : pipe[k][s].row = NoRow

Init ==
  /\ mode \in {FF, BP} /\ dtype \in {INT, POSIT} /\ tile \in Tiles
  /\ cnt = N /\ seen = FALSE
  /\ en = [k \in Lines |-> FALSE]
  /\ wgt = [k \in Lines |-> [i \in Cols |-> <<>>]]
  /\ pipe = [k \in Lines |-> [s \in Stages |-> Bubble]]
  /\ res = [row |-> NoRow, val |-> Bubble.acc]

\* A clock cycle in which no activation row enters.
Cycle == LoadStep /\ PipeStep(Bubble) /\ UNCHANGED <<mode, dtype, tile>>

\* A clock cycle in which one does: the sequencer waits for the weights.
Feed(name) ==
  /\ Ready
  /\ LoadStep /\ PipeStep(Wave(name)) /\ UNCHANGED <<mode, dtype, tile>>

\* The next job, with registers and weights of its own.
Reload ==
  /\ Ready /\ Drained
  /\ mode' \in {FF, BP} /\ dtype' \in {INT, POSIT} /\ tile' \in Tiles
  /\ cnt' = N /\ seen' = FALSE
  /\ UNCHANGED <<en, wgt, pipe, res>>

Next == Cycle \/ (\E name \in Names : Feed(name)) \/ Reload

Spec == Init /\ [][Next]_vars

----------------------------------------------------------------------------
\* Column j of the product of the activation row with the tile, or with its
\* transpose in back-propagation mode.
Product(name, j) ==
  IF mode = FF THEN {<<name, r, <<tile, r, j>>>> : r \in Cols}
               ELSE {<<name, c, <<tile, j, c>>>> : c \in Cols}

(***************************************************************************)
(* A row that leaves the array is the product of the row that entered with *)
(* the weight tile of this job, or with its transpose: all N terms of each *)
(* column, each multiplied by the right weight, none of another row or of  *)
(* the previous tile (Systolic_Array.sv:74-127, semi_transposer.sv:83-97). *)
(* The N lines add one term each, so N different terms are each added once.*)
(***************************************************************************)
ProductRight ==
  res.row # NoRow => \A j \in Cols : res.val[j] = Product(res.row, j)
=============================================================================
