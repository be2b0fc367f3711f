--------------------------- MODULE SystolicProofs ---------------------------
(* The array computes the product for every size, tile and sequence of rows. *)
EXTENDS Systolic, TLAPS

(***************************************************************************)
(* Term m of the sum that is in column j of line k: the one line m added.  *)
(***************************************************************************)
Term(row, j, k, m) ==
  IF mode = FF THEN <<row, Wrap(j + m), <<tile, Wrap(j + m), j>>>>
               ELSE <<row, Wrap(j + k - m), <<tile, Wrap(j + k), Wrap(j + k - m)>>>>

\* The terms that n lines have added.
Terms(row, j, k, n) == {Term(row, j, k, m) : m \in 0 .. n - 1}

\* A wave in line k to which n lines have contributed.
WaveOK(w, k, n) ==
  \A j \in Cols : /\ w.act[j] = IF mode = FF THEN Wrap(j + k) ELSE j
                  /\ w.acc[j] = Terms(w.row, j, k, n)

\* Lines that have contributed to a wave in stage s of line k.
Added(k, s) == IF s = 1 THEN k ELSE k + 1

TypeInv ==
  /\ mode \in {FF, BP} /\ dtype \in {INT, POSIT}
  /\ cnt \in 0 .. N /\ seen \in BOOLEAN

LoadInv ==
  /\ ~seen => Drained /\ \A k \in Lines : (en[k] <=> k < N - cnt)
  /\ seen => cnt = 0 /\ \A k \in Lines : ~en[k]
  /\ \A k \in Lines : k < N - cnt => wgt[k] = Diagonal(cnt + k)

WaveInv ==
  \A k \in Lines, s \in Stages :
    pipe[k][s].row # NoRow => WaveOK(pipe[k][s], k, Added(k, s))

IInv == TypeInv /\ LoadInv /\ WaveInv /\ ProductRight

----------------------------------------------------------------------------
\* A row enters the first line with no term and every element in its column.
LEMMA EnterOK ==
  ASSUME NEW name PROVE WaveOK(Wave(name), 0, 0)
<1>1. \A j \in Cols : Wrap(j + 0) = j
  BY NAssumption DEF Cols, Wrap
<1>2. \A j \in Cols : Terms(name, j, 0, 0) = {}
  BY DEF Terms
<1> QED
  BY <1>1, <1>2 DEF WaveOK, Wave

\* A line adds its own term to every column.
LEMMA MultiplyOK ==
  ASSUME NEW k \in Lines, NEW w, w.row # NoRow, mode \in {FF, BP},
         WaveOK(w, k, k), wgt[k] = Diagonal(k)
  PROVE  WaveOK(Multiply(k, w), k, k + 1)
<1> DEFINE v == Multiply(k, w)
<1>1. v.row = w.row /\ v.act = w.act
  BY DEF Multiply
<1> SUFFICES ASSUME NEW j \in Cols PROVE v.acc[j] = Terms(w.row, j, k, k + 1)
  BY <1>1 DEF WaveOK
<1>2. v.acc[j] = w.acc[j] \union {<<w.row, w.act[j], wgt[k][j]>>}
  BY DEF Multiply
<1>3. <<w.row, w.act[j], wgt[k][j]>> = Term(w.row, j, k, k)
  <2>1. wgt[k][j] = <<tile, Wrap(k + j), j>>
    BY DEF Diagonal
  <2>2. j + k = k + j /\ Wrap(j + k - k) = j
    BY NAssumption DEF Cols, Lines, Wrap
  <2> QED
    BY <2>1, <2>2 DEF WaveOK, Term
<1>4. 0 .. (k + 1) - 1 = (0 .. k - 1) \union {k}
  BY DEF Lines
<1>5. Terms(w.row, j, k, k + 1) = Terms(w.row, j, k, k) \union {Term(w.row, j, k, k)}
  BY <1>4, Zenon DEF Terms
<1> QED
  BY <1>2, <1>3, <1>5 DEF WaveOK

\* Between two lines, one of the two moves to the next column.
LEMMA PassOnOK ==
  ASSUME NEW k \in Lines, k + 1 \in Lines, NEW w, w.row # NoRow, mode \in {FF, BP},
         WaveOK(w, k, k + 1)
  PROVE  WaveOK(PassOn(w), k + 1, k + 1)
<1>1. PassOn(w) = [row |-> w.row, act |-> ActShift(w), acc |-> AccShift(w)]
  BY DEF PassOn
<1> SUFFICES ASSUME NEW j \in Cols
             PROVE  /\ ActShift(w)[j] = IF mode = FF THEN Wrap(j + (k + 1)) ELSE j
                    /\ AccShift(w)[j] = Terms(w.row, j, k + 1, k + 1)
  BY <1>1 DEF WaveOK
<1>2. Wrap(j + 1) \in Cols
  BY NAssumption DEF Wrap, Cols
<1>3. CASE mode = FF
  <2>1. Wrap(Wrap(j + 1) + k) = Wrap(j + (k + 1))
    BY NAssumption DEF Wrap, Cols, Lines
  <2>2. Terms(w.row, j, k, k + 1) = Terms(w.row, j, k + 1, k + 1)
    BY <1>3 DEF Terms, Term
  <2> QED
    BY <1>2, <1>3, <2>1, <2>2 DEF WaveOK, ActShift, AccShift
<1>4. CASE mode = BP
  <2>1. \A m \in 0 .. k : Wrap(Wrap(j + 1) + k - m) = Wrap(j + (k + 1) - m)
    BY NAssumption DEF Wrap, Cols, Lines
  <2>2. Wrap(Wrap(j + 1) + k) = Wrap(j + (k + 1))
    BY NAssumption DEF Wrap, Cols, Lines
  <2>3. \A m \in 0 .. (k + 1) - 1 :
           Term(w.row, Wrap(j + 1), k, m) = Term(w.row, j, k + 1, m)
    BY <1>4, <2>1, <2>2 DEF Term, FF, BP, Lines
  <2>4. Terms(w.row, Wrap(j + 1), k, k + 1) = Terms(w.row, j, k + 1, k + 1)
    BY <2>3 DEF Terms
  <2> QED
    BY <1>2, <1>4, <2>4 DEF WaveOK, ActShift, AccShift, FF, BP
<1> QED
  BY <1>3, <1>4

\* Behind the last line every column has the terms of its product.
LEMMA ResultOK ==
  ASSUME NEW w, mode \in {FF, BP}, WaveOK(w, N - 1, N), NEW j \in Cols
  PROVE  AccShift(w)[j] = Product(w.row, j)
<1>1. CASE mode = FF
  <2>1. AccShift(w)[j] = Terms(w.row, j, N - 1, N)
    BY <1>1 DEF AccShift, WaveOK
  <2>2. ASSUME NEW r \in Cols
        PROVE  <<w.row, r, <<tile, r, j>>>> \in Terms(w.row, j, N - 1, N)
    <3>1. PICK m \in 0 .. N - 1 : Wrap(j + m) = r
      <4>1. CASE r >= j
        <5>1. r - j \in 0 .. N - 1 /\ Wrap(j + (r - j)) = r
          BY <4>1, NAssumption DEF Cols, Wrap
        <5> QED
          BY <5>1
      <4>2. CASE ~(r >= j)
        <5>1. r + N - j \in 0 .. N - 1 /\ Wrap(j + (r + N - j)) = r
          BY <4>2, NAssumption DEF Cols, Wrap
        <5> QED
          BY <5>1
      <4> QED
        BY <4>1, <4>2
    <3> QED
      BY <1>1, <3>1 DEF Terms, Term
  <2>3. ASSUME NEW m \in 0 .. N - 1
        PROVE  Term(w.row, j, N - 1, m) \in Product(w.row, j)
    <3>1. Wrap(j + m) \in Cols
      BY NAssumption DEF Cols, Wrap
    <3> QED
      BY <1>1, <3>1 DEF Term, Product
  <2>4. \A x \in Product(w.row, j) : x \in Terms(w.row, j, N - 1, N)
    BY <1>1, <2>2 DEF Product
  <2>5. \A x \in Terms(w.row, j, N - 1, N) : x \in Product(w.row, j)
    BY <2>3 DEF Terms
  <2> QED
    BY <2>1, <2>4, <2>5
<1>2. CASE mode = BP
  <2> DEFINE i == Wrap(j + 1)
  <2>1. i \in Cols /\ AccShift(w)[j] = Terms(w.row, i, N - 1, N)
    <3>1. i \in Cols
      BY NAssumption DEF Cols, Wrap
    <3> QED
      BY <1>2, <3>1 DEF AccShift, WaveOK, FF, BP
  <2>2. Wrap(i + (N - 1)) = j
    BY NAssumption DEF Cols, Wrap
  <2>3. ASSUME NEW c \in Cols
        PROVE  \E m \in 0 .. N - 1 : Wrap(i + (N - 1) - m) = c
    <3>1. CASE c <= j
      <4>1. j - c \in 0 .. N - 1 /\ Wrap(i + (N - 1) - (j - c)) = c
        BY <3>1, NAssumption DEF Cols, Wrap
      <4> QED
        BY <4>1
    <3>2. CASE ~(c <= j)
      <4>1. j + N - c \in 0 .. N - 1 /\ Wrap(i + (N - 1) - (j + N - c)) = c
        BY <3>2, NAssumption DEF Cols, Wrap
      <4> QED
        BY <4>1
    <3> QED
      BY <3>1, <3>2
  <2>4. ASSUME NEW m \in 0 .. N - 1
        PROVE  Wrap(i + (N - 1) - m) \in Cols
    BY NAssumption DEF Cols, Wrap
  <2> HIDE DEF i
  <2>5. \A m \in 0 .. N - 1 : Term(w.row, i, N - 1, m) =
          <<w.row, Wrap(i + (N - 1) - m), <<tile, j, Wrap(i + (N - 1) - m)>>>>
    BY <1>2, <2>2 DEF Term, FF, BP
  <2>6. \A x \in Terms(w.row, i, N - 1, N) : x \in Product(w.row, j)
    BY <1>2, <2>4, <2>5 DEF Terms, Product, FF, BP
  <2>7. \A x \in Product(w.row, j) : x \in Terms(w.row, i, N - 1, N)
    BY <1>2, <2>3, <2>5 DEF Terms, Product, FF, BP
  <2> QED
    BY <2>1, <2>6, <2>7
<1> QED
  BY <1>1, <1>2

----------------------------------------------------------------------------
\* The array starts drained, with nothing loaded.
LEMMA InitIInv == Init => IInv
<1> SUFFICES ASSUME Init PROVE IInv
  OBVIOUS
<1>1. TypeInv
  <2>1. seen \in BOOLEAN
    BY DEF Init
  <2>2. cnt \in 0 .. N
    BY NAssumption DEF Init
  <2> QED
    BY <2>1, <2>2 DEF Init, TypeInv
<1>2. Drained
  BY DEF Init, Drained, Bubble, Wave
<1>3. LoadInv
  BY <1>2, NAssumption DEF Init, LoadInv, Lines
<1>4. WaveInv
  BY <1>2 DEF WaveInv, Drained
<1>5. ProductRight
  BY <1>2 DEF ProductRight, Drained
<1> QED
  BY <1>1, <1>3, <1>4, <1>5 DEF IInv

(***************************************************************************)
(* A cycle of the weight lines: diagonal after diagonal moves down, and    *)
(* when the last line has passed its enable on they stay where they are.   *)
(***************************************************************************)
LEMMA LoadStepOK ==
  ASSUME TypeInv, LoadInv, LoadStep, UNCHANGED <<mode, dtype, tile>>,
         ~seen' => Drained'
  PROVE  TypeInv' /\ LoadInv'
<1>1. TypeInv'
  BY NAssumption DEF TypeInv, LoadStep, LoadInv, WgtDone, Lines
<1>2. CASE seen
  <2>1. cnt = 0 /\ \A k \in Lines : ~en[k] /\ ~WgtEnI(k)
    BY <1>2, NAssumption DEF LoadInv, WgtEnI, WgtDone, Lines
  <2>2. seen' /\ cnt' = 0
    <3>1. cnt' = 0
      BY <1>2, <2>1 DEF LoadStep
    <3>2. seen'
      BY <1>2, <2>1, Zenon DEF LoadStep
    <3> QED
      BY <3>1, <3>2
  <2>3. \A k \in Lines : wgt'[k] = wgt[k]
    BY <2>1 DEF LoadStep
  <2>4. \A k \in Lines : ~en'[k]
    BY <2>1 DEF LoadStep, WgtEnI
  <2> QED
    BY <1>1, <2>1, <2>2, <2>3, <2>4, NAssumption DEF LoadInv, Diagonal, Lines
<1>3. CASE ~seen /\ cnt = 0
  <2>1. WgtDone /\ \A k \in Lines : ~WgtEnI(k)
    BY <1>3, NAssumption DEF LoadInv, WgtEnI, WgtDone, Lines
  <2>2. seen' /\ cnt' = 0
    <3>1. cnt' = 0
      BY <1>3, <2>1 DEF LoadStep
    <3>2. seen'
      BY <1>3, <2>1, Zenon DEF LoadStep
    <3> QED
      BY <3>1, <3>2
  <2>3. \A k \in Lines : wgt'[k] = wgt[k]
    BY <2>1 DEF LoadStep
  <2>4. \A k \in Lines : ~en'[k]
    BY <2>1 DEF LoadStep, WgtEnI
  <2> QED
    BY <1>1, <1>3, <2>2, <2>3, <2>4, NAssumption DEF LoadInv, Diagonal, Lines
<1>4. CASE ~seen /\ cnt > 0
  <2>1. cnt' = cnt - 1 /\ cnt \in 1 .. N
    BY <1>4 DEF LoadStep, TypeInv
  <2>2. ~WgtDone
    BY <1>4, <2>1, NAssumption DEF LoadInv, WgtDone, Lines
  <2>3. ~seen'
    BY <1>4, <2>2 DEF LoadStep
  <2>4. ASSUME NEW k \in Lines PROVE WgtEnI(k) <=> k < N - cnt'
    <3>1. CASE k = 0
      BY <1>4, <2>1, <3>1, NAssumption DEF WgtEnI
    <3>2. CASE k # 0
      <4>1. k - 1 \in Lines
        BY <3>2, NAssumption DEF Lines
      <4> QED
        BY <1>4, <2>1, <2>2, <3>2, <4>1, NAssumption DEF WgtEnI, LoadInv, Lines
    <3> QED
      BY <3>1, <3>2
  <2>5. ASSUME NEW k \in Lines, k < N - cnt'
        PROVE  wgt'[k] = Diagonal(cnt + k)'
    <3>1. Diagonal(cnt + k)' = Diagonal((cnt - 1) + k)
      BY <2>1 DEF Diagonal
    <3>2. CASE k = 0
      BY <2>4, <2>5, <3>1, <3>2, <2>1 DEF LoadStep
    <3>3. CASE k # 0
      <4>1. k - 1 \in Lines /\ k - 1 < N - cnt
        BY <2>1, <2>5, <3>3, NAssumption DEF Lines
      <4>2. wgt'[k] = wgt[k - 1]
        BY <2>4, <2>5, <3>3 DEF LoadStep
      <4>3. wgt[k - 1] = Diagonal(cnt + (k - 1))
        BY <4>1 DEF LoadInv
      <4>4. cnt + (k - 1) = (cnt - 1) + k
        BY <2>1 DEF Lines
      <4> QED
        BY <3>1, <4>2, <4>3, <4>4
    <3> QED
      BY <3>2, <3>3
  <2>6. \A k \in Lines : en'[k] <=> k < N - cnt'
    BY <2>4 DEF LoadStep
  <2> QED
    BY <1>1, <2>3, <2>5, <2>6 DEF LoadInv
<1> QED
  BY <1>2, <1>3, <1>4 DEF TypeInv

(***************************************************************************)
(* A cycle of the rows: every stage takes over a wave that is right for    *)
(* its place, and the register behind the array takes a finished product.  *)
(***************************************************************************)
LEMMA PipeStepOK ==
  ASSUME IInv, NEW in, in.row # NoRow => WaveOK(in, 0, 0), PipeStep(in),
         UNCHANGED <<mode, dtype, tile>>
  PROVE  WaveInv' /\ ProductRight'
<1> mode \in {FF, BP} /\ dtype \in {INT, POSIT} /\ LastStage \in {2, 3}
  BY DEF IInv, TypeInv, LastStage
<1>1. ASSUME NEW k \in Lines, NEW s \in Stages, pipe'[k][s].row # NoRow
      PROVE  WaveOK(pipe'[k][s], k, Added(k, s))
  <2>1. CASE s = 1 /\ k = 0
    <3>1. pipe'[k][s] = in
      BY <2>1 DEF PipeStep
    <3> QED
      BY <1>1, <2>1, <3>1 DEF Added
  <2>2. CASE s = 1 /\ k # 0
    <3> DEFINE w == pipe[k - 1][LastStage]
    <3>1. k - 1 \in Lines /\ (k - 1) + 1 = k
      BY <2>2, NAssumption DEF Lines
    <3>2. pipe'[k][s] = PassOn(w)
      BY <2>2 DEF PipeStep
    <3>3. w.row # NoRow
      BY <1>1, <3>2 DEF PassOn
    <3>4. WaveOK(w, k - 1, k)
      BY <3>1, <3>3 DEF IInv, WaveInv, Added, Stages
    <3> QED
      BY <2>2, <3>1, <3>2, <3>3, <3>4, PassOnOK DEF Added
  <2>3. CASE s = 2
    <3> DEFINE w == pipe[k][1]
    <3>1. pipe'[k][s] = Multiply(k, w)
      BY <2>3 DEF PipeStep
    <3>2. w.row # NoRow
      BY <1>1, <3>1 DEF Multiply
    <3>3. WaveOK(w, k, k)
      BY <3>2 DEF IInv, WaveInv, Added, Stages
    <3>4. seen
      BY <3>2 DEF IInv, LoadInv, Drained, Stages
    <3>5. wgt[k] = Diagonal(k)
      BY <3>4, NAssumption DEF IInv, LoadInv, Lines
    <3> QED
      BY <2>3, <3>1, <3>2, <3>3, <3>5, MultiplyOK DEF Added
  <2>4. CASE s = 3
    <3>1. pipe'[k][s] = pipe[k][2]
      BY <1>1, <2>4 DEF PipeStep, Bubble, Wave
    <3> QED
      BY <1>1, <2>4, <3>1 DEF IInv, WaveInv, Added, Stages
  <2> QED
    BY <2>1, <2>2, <2>3, <2>4 DEF Stages
<1>2. WaveInv'
  BY <1>1 DEF WaveInv, WaveOK, Terms, Term, Added
<1>3. ProductRight'
  <2> DEFINE w == pipe[N - 1][LastStage]
  <2>1. res'.row = w.row /\ res'.val = AccShift(w)
    BY DEF PipeStep
  <2>2. N - 1 \in Lines /\ (N - 1) + 1 = N
    BY NAssumption DEF Lines
  <2>3. w.row # NoRow => WaveOK(w, N - 1, N)
    BY <2>2 DEF IInv, WaveInv, Added, Stages
  <2>4. w.row # NoRow => \A j \in Cols : res'.val[j] = Product(w.row, j)
    BY <2>1, <2>3, ResultOK
  <2>5. \A j \in Cols : Product(res.row, j)' = Product(w.row, j)
    BY <2>1 DEF Product
  <2> QED
    BY <2>1, <2>4, <2>5 DEF ProductRight
<1> QED
  BY <1>2, <1>3

(***************************************************************************)
(* Every step keeps the invariant.                                         *)
(***************************************************************************)
LEMMA NextIInv == IInv /\ [Next]_vars => IInv'
<1> SUFFICES ASSUME IInv, [Next]_vars PROVE IInv'
  OBVIOUS
<1>1. CASE UNCHANGED vars
  <2>1. TypeInv'
    BY <1>1 DEF vars, IInv, TypeInv
  <2>2. LoadInv'
    BY <1>1 DEF vars, IInv, LoadInv, Drained, Diagonal
  <2>3. WaveInv'
    BY <1>1 DEF vars, IInv, WaveInv, WaveOK, Terms, Term
  <2>4. ProductRight'
    BY <1>1 DEF vars, IInv, ProductRight, Product
  <2> QED
    BY <2>1, <2>2, <2>3, <2>4 DEF IInv
<1>2. CASE Cycle
  <2>1. ~seen' => Drained'
    <3> SUFFICES ASSUME ~seen' PROVE Drained'
      OBVIOUS
    <3>1. Drained
      BY <1>2 DEF Cycle, LoadStep, IInv, LoadInv
    <3>2. dtype \in {INT, POSIT} /\ LastStage \in Stages /\ N - 1 \in Lines
      BY NAssumption DEF IInv, TypeInv, LastStage, Stages, Lines
    <3>3. res'.row = NoRow
      BY <1>2, <3>1, <3>2 DEF Cycle, PipeStep, Drained
    <3>4. ASSUME NEW k \in Lines, NEW s \in Stages PROVE pipe'[k][s].row = NoRow
      <4>1. CASE s = 1 /\ k = 0
        BY <1>2, <4>1 DEF Cycle, PipeStep, Bubble, Wave
      <4>2. CASE s = 1 /\ k # 0
        <5>1. k - 1 \in Lines
          BY <4>2, NAssumption DEF Lines
        <5> QED
          BY <1>2, <3>1, <3>2, <4>2, <5>1 DEF Cycle, PipeStep, PassOn, Drained
      <4>3. CASE s = 2
        BY <1>2, <3>1, <4>3 DEF Cycle, PipeStep, Multiply, Drained, Stages
      <4>4. CASE s = 3
        BY <1>2, <3>1, <4>4 DEF Cycle, PipeStep, Drained, Stages, Bubble, Wave
      <4> QED
        BY <4>1, <4>2, <4>3, <4>4 DEF Stages
    <3> QED
      BY <3>3, <3>4 DEF Drained
  <2>2. TypeInv' /\ LoadInv'
    BY <1>2, <2>1, LoadStepOK DEF Cycle, IInv
  <2>3. Bubble.row = NoRow
    BY DEF Bubble, Wave
  <2>4. WaveInv' /\ ProductRight'
    BY <1>2, <2>3, PipeStepOK DEF Cycle
  <2> QED
    BY <2>2, <2>4 DEF IInv
<1>3. ASSUME NEW name \in Names, Feed(name) PROVE IInv'
  <2>1. seen'
    BY <1>3 DEF Feed, Ready, LoadStep
  <2>2. TypeInv' /\ LoadInv'
    BY <1>3, <2>1, LoadStepOK DEF Feed, IInv
  <2>3. WaveOK(Wave(name), 0, 0)
    BY EnterOK
  <2>4. WaveInv' /\ ProductRight'
    BY <1>3, <2>3, PipeStepOK DEF Feed
  <2> QED
    BY <2>2, <2>4 DEF IInv
<1>4. CASE Reload
  <2>1. Drained'
    BY <1>4 DEF Reload, Drained
  <2>2. TypeInv'
    <3>1. seen' \in BOOLEAN
      BY <1>4 DEF Reload
    <3>2. cnt' \in 0 .. N
      BY <1>4, NAssumption DEF Reload
    <3> QED
      BY <1>4, <3>1, <3>2 DEF Reload, TypeInv
  <2>3. LoadInv'
    <3>1. \A k \in Lines : ~en'[k] /\ ~(k < N - cnt')
      BY <1>4, NAssumption DEF Reload, Ready, IInv, LoadInv, Lines
    <3> QED
      BY <1>4, <2>1, <3>1 DEF Reload, LoadInv
  <2> QED
    BY <2>1, <2>2, <2>3 DEF IInv, WaveInv, ProductRight, Drained
<1> QED
  BY <1>1, <1>2, <1>3, <1>4 DEF Next

(***************************************************************************)
(* For every size of the array: what leaves it is the product of the row   *)
(* that entered with the tile of its job (transposed in BP mode), in every *)
(* interleaving of rows, bubbles, reloads and mode changes between jobs.   *)
(***************************************************************************)
THEOREM ArrayMultiplies == Spec => []ProductRight
<1>1. IInv => ProductRight
  BY DEF IInv
<1> QED
  BY <1>1, InitIInv, NextIInv, PTL DEF Spec
=============================================================================
