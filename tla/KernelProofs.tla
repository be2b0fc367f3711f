---------------------------- MODULE KernelProofs ----------------------------
(***************************************************************************)
(* The vector matrix multiplication computes the whole product and never   *)
(* prefetches past the matrices, the dot product adds up every product     *)
(* once, and the string functions move and compare what they are given,    *)
(* for every size of the operands and every vector length.                 *)
(***************************************************************************)
EXTENDS Fmatmul, Dotp, CString, WellFoundedInduction, FiniteSetTheorems, TLAPS

----------------------------------------------------------------------------
(* Dimensions.  main doubles from 4, so blocks of the size that fmatmul    *)
(* chooses fit, and the unrolled loop of two halves comes out even.        *)

Multiple(x, k) == \E q \in Nat : x = k * q

\* A dimension that main can reach.
Doubled(d) ==
  /\ d \in Nat /\ d >= 4 /\ Multiple(d, 4)
  /\ d > 4 => Multiple(d, 8)
  /\ d > 8 => Multiple(d, 16)

LEMMA Doubling == ASSUME NEW d, Doubled(d) PROVE Doubled(2 * d)
<1>1. PICK q \in Nat : d = 4 * q
  BY DEF Doubled, Multiple
<1>2. Multiple(2 * d, 4) /\ Multiple(2 * d, 8)
  <2>1. 2 * d = 4 * (2 * q) /\ 2 * d = 8 * q /\ 2 * q \in Nat
    BY <1>1
  <2> QED
    BY <2>1 DEF Multiple
<1>3. d > 4 => Multiple(2 * d, 16)
  <2> SUFFICES ASSUME d > 4 PROVE Multiple(2 * d, 16)
    OBVIOUS
  <2>1. PICK r \in Nat : d = 8 * r
    BY DEF Doubled, Multiple
  <2>2. 2 * d = 16 * r
    BY <2>1
  <2> QED
    BY <2>2 DEF Multiple
<1> QED
  BY <1>2, <1>3 DEF Doubled

Blocks == {4, 8, 16}

\* The block size that fmatmul chooses divides the dimension.
LEMMA BlockFits == ASSUME Doubled(dim) PROVE fmatmul \in Blocks /\ Multiple(dim, fmatmul) /\ Multiple(dim, 2)
<1>0. dim \in Nat /\ fmatmul \in Blocks
  BY DEF Doubled, fmatmul, Blocks
<1>1. PICK q \in Nat : dim = 4 * q
  BY DEF Doubled, Multiple
<1>2. Multiple(dim, 2) /\ Multiple(dim, 4)
  <2>1. dim = 2 * (2 * q) /\ 2 * q \in Nat
    BY <1>1
  <2> QED
    BY <1>1, <2>1 DEF Multiple
<1>3. dim > 4 => Multiple(dim, 8)
  BY DEF Doubled
<1>4. dim > 8 => Multiple(dim, 16)
  BY DEF Doubled
<1>5. fmatmul = 8 => dim > 4
  BY <1>0 DEF fmatmul
<1>6. fmatmul = 16 => dim > 8
  BY <1>0 DEF fmatmul
<1> QED
  BY <1>0, <1>2, <1>3, <1>4, <1>5, <1>6 DEF Blocks

\* A multiple below a multiple is a whole step below it.
LEMMA StepBelow ==
  ASSUME NEW k \in {2, 4, 8, 16}, NEW x \in Nat, NEW y \in Nat, Multiple(x, k), Multiple(y, k), x < y
  PROVE  x + k <= y /\ Multiple(x + k, k)
<1>1. PICK q \in Nat : x = k * q
  BY DEF Multiple
<1>2. PICK r \in Nat : y = k * r
  BY DEF Multiple
<1>3. q < r
  BY <1>1, <1>2
<1>4. x + k = k * (q + 1) /\ q + 1 \in Nat
  BY <1>1
<1> QED
  BY <1>1, <1>2, <1>3, <1>4 DEF Multiple

\* An index determines its row and its column.
LEMMA OneCell ==
  ASSUME NEW d \in Nat, NEW i \in Nat, NEW j \in 0 .. d - 1, NEW k \in Nat, NEW l \in 0 .. d - 1,
         i * d + j = k * d + l
  PROVE  i = k /\ j = l
<1>1. ASSUME NEW a \in Nat, NEW b0 \in Nat, a < b0 PROVE a * d + d <= b0 * d
  <2>1. a * d + d = (a + 1) * d
    OBVIOUS
  <2>2. (a + 1) * d <= b0 * d
    BY <1>1
  <2> QED
    BY <2>1, <2>2
<1>2. ~(i < k)
  BY <1>1
<1>3. ~(k < i)
  BY <1>1
<1>4. i = k
  BY <1>2, <1>3
<1> QED
  BY <1>4

\* Every cell of the product lies in the data section.
LEMMA CellInside ==
  ASSUME NEW d \in Nat, NEW size \in Nat, d <= size, NEW i \in 0 .. d - 1, NEW j \in 0 .. d - 1
  PROVE  i * d + j \in 0 .. size * size - 1
<1>1. i * d + j \in Nat /\ i * d + d <= d * d
  <2>1. i * d + d = (i + 1) * d
    OBVIOUS
  <2>2. (i + 1) * d <= d * d
    OBVIOUS
  <2>3. i * d \in Nat
    OBVIOUS
  <2> QED
    BY <2>1, <2>2, <2>3
<1>2. d * d <= size * size
  OBVIOUS
<1>3. d * d \in Nat /\ size * size \in Nat
  OBVIOUS
<1> QED
  BY <1>1, <1>2, <1>3

----------------------------------------------------------------------------
(* The pipeline of the inner kernel.                                       *)

\* The first k products of an element in row i.
Terms(i, k) == [x \in 1 .. k |-> <<<<i, x - 1>>, x - 1>>]

\* The accumulators hold the first k products, and column k of A is loaded.
Ready(k) ==
  /\ acc = [r \in 0 .. fmatmul - 1 |-> Terms(m + r, k)]
  /\ t = Column(fmatmul, k)

Pairs == (Int \X Int) \X Int

LEMMA OneMore ==
  ASSUME NEW i \in Int, NEW k \in Nat
  PROVE  Append(Terms(i, k), <<<<i, k>>, k>>) = Terms(i, k + 1)
<1>1. \A x \in Nat : <<<<i, x>>, x>> \in Pairs
  BY DEF Pairs
<1>2. Terms(i, k) \in Seq(Pairs) /\ Len(Terms(i, k)) = k
  BY <1>1 DEF Terms
<1>3. Terms(i, k + 1) \in Seq(Pairs) /\ Len(Terms(i, k + 1)) = k + 1
  BY <1>1 DEF Terms
<1>4. PICK e : e = <<<<i, k>>, k>>
  OBVIOUS
<1>5. e \in Pairs
  BY <1>1, <1>4
<1>6. \A x \in 1 .. k + 1 : Append(Terms(i, k), e)[x] = Terms(i, k + 1)[x]
  <2> SUFFICES ASSUME NEW x \in 1 .. k + 1 PROVE Append(Terms(i, k), e)[x] = Terms(i, k + 1)[x]
    OBVIOUS
  <2>1. CASE x = k + 1
    <3>1. Append(Terms(i, k), e)[x] = e
      BY <1>2, <1>5, <2>1
    <3>2. Terms(i, k + 1)[x] = e
      BY <1>4, <2>1 DEF Terms
    <3> QED
      BY <3>1, <3>2
  <2>2. CASE x \in 1 .. k
    <3>1. Append(Terms(i, k), e)[x] = Terms(i, k)[x]
      BY <1>2, <1>5, <2>2
    <3>2. Terms(i, k)[x] = Terms(i, k + 1)[x]
      BY <2>2 DEF Terms
    <3> QED
      BY <3>1, <3>2
  <2>3. x = k + 1 \/ x \in 1 .. k
    OBVIOUS
  <2> QED
    BY <2>1, <2>2, <2>3, Zenon
<1>7. Append(Terms(i, k), e) \in Seq(Pairs) /\ Len(Append(Terms(i, k), e)) = k + 1
  BY <1>2, <1>5
<1>8. PICK s, u : s = Append(Terms(i, k), e) /\ u = Terms(i, k + 1)
  OBVIOUS
<1>9. s = u
  BY <1>3, <1>6, <1>7, <1>8, SMTT(40)
<1> QED
  BY <1>4, <1>8, <1>9

\* One multiplication of all rows, with the right row of B.
LEMMA Multiplied ==
  ASSUME NEW k \in Nat, m \in Nat, fmatmul \in Blocks, Ready(k)
  PROVE  Accumulate(fmatmul, k) = [r \in 0 .. fmatmul - 1 |-> Terms(m + r, k + 1)]
<1>1. \A r \in 0 .. fmatmul - 1 : Append(acc[r], <<t[r], k>>) = Terms(m + r, k + 1)
  <2> SUFFICES ASSUME NEW r \in 0 .. fmatmul - 1 PROVE Append(acc[r], <<t[r], k>>) = Terms(m + r, k + 1)
    OBVIOUS
  <2>1. acc[r] = Terms(m + r, k) /\ t[r] = <<m + r, k>>
    BY DEF Ready, Column
  <2>2. m + r \in Int
    BY DEF Blocks
  <2> QED
    BY <2>1, <2>2, OneMore
<1> QED
  BY <1>1 DEF Accumulate

----------------------------------------------------------------------------
(* The inductive invariant.                                                *)

InKernel == {"prefetch", "even", "odd", "last"}

\* The part of C that has been stored is right.
Stored ==
  \A i \in 0 .. dim - 1, j \in 0 .. dim - 1 :
    j < p \/ (i < m /\ j < p + vl) => c[i * dim + j] = Gold(i, j)

\* The registers of the pipeline.
Pipeline ==
  /\ mmPc = "prefetch" => acc = Cleared(fmatmul)
  /\ mmPc = "even" => Ready(n) /\ even = n /\ b = n + 1 /\ n < dim
  /\ mmPc = "odd"  => Ready(n - 1) /\ odd = n - 1 /\ b = n /\ n < dim /\ n >= 2
  /\ mmPc = "last" => Ready(n - 1) /\ odd = n - 1 /\ b = n /\ n = dim
  /\ mmPc \in {"even", "odd", "last"} => n \in Nat /\ Multiple(n, 2)

Loops ==
  /\ vl \in Nat \ {0} /\ p \in Nat /\ m \in Nat /\ Multiple(m, fmatmul)
  /\ mmPc \in InKernel => p < dim /\ m < dim
  /\ mmPc = "returned" => p >= dim

MatInv ==
  /\ Doubled(dim) /\ DOMAIN c = 0 .. M * M - 1
  /\ mmPc \in {"size", "call", "loop", "returned", "done"} \cup InKernel
  /\ mmPc \notin {"size", "done"} => dim <= M
  /\ mmPc \in {"loop", "returned"} \cup InKernel => Loops /\ Stored
  /\ Pipeline

LEMMA MatStarts == MatInit => MatInv
<1> SUFFICES ASSUME MatInit PROVE MatInv
  OBVIOUS
<1>1. Doubled(dim)
  <2>1. 4 = 4 * 1 /\ 1 \in Nat
    OBVIOUS
  <2>2. Multiple(4, 4)
    BY <2>1 DEF Multiple
  <2> QED
    BY <2>2 DEF MatInit, Doubled
<1> QED
  BY <1>1 DEF MatInit, MatInv, Pipeline, InKernel

LEMMA MainKeeps == ASSUME MatInv, fmatmul_main PROVE MatInv'
<1>1. Doubled(dim) /\ dim \in Nat
  BY DEF MatInv, Doubled
<1>2. CASE mmPc = "size" /\ dim <= M /\ mmPc' = "call"
  <2>1. dim' = dim /\ c' = c
    BY <1>2, FmatmulAssumption, <1>1 DEF fmatmul_main
  <2> QED
    BY <1>2, <2>1 DEF MatInv, Pipeline, InKernel
<1>3. CASE mmPc = "returned"
  <2>1. c' = c /\ (dim' = dim \/ dim' = 2 * dim) /\ mmPc' \in {"size", "done"}
    BY <1>3 DEF fmatmul_main
  <2>2. Doubled(dim')
    BY <1>1, <2>1, Doubling
  <2> QED
    BY <1>3, <2>1, <2>2 DEF MatInv, Pipeline, InKernel
<1>4. CASE mmPc = "size" /\ dim > M
  <2>1. dim' = dim /\ c' = c /\ mmPc' = "done"
    BY <1>1, <1>4, FmatmulAssumption DEF fmatmul_main
  <2> QED
    BY <2>1 DEF MatInv, Pipeline, InKernel
<1> QED
  BY <1>2, <1>3, <1>4 DEF fmatmul_main

----------------------------------------------------------------------------
(* The loops over slices and blocks.                                       *)

LEMMA SetupKeeps ==
  ASSUME MatInv, NEW lmul \in {1, 2, 4}, MatSetup(lmul) PROVE MatInv'
<1>1. /\ mmPc = "call" /\ mmPc' = "loop" /\ dim' = dim /\ c' = c /\ p' = 0 /\ m' = 0
      /\ vl' = vsetvli(dim, lmul) /\ dim <= M /\ Doubled(dim) /\ fmatmul' = fmatmul
  BY DEF MatInv, MatSetup, InKernel, fmatmul
<1>2. vl' \in Nat \ {0}
  <2>1. dim \in Nat \ {0} /\ lmul * VLMAX1 \in Nat \ {0}
    BY <1>1, FmatmulAssumption DEF Doubled
  <2> QED
    BY <1>1, <2>1 DEF vsetvli, Least
<1>3. Multiple(0, fmatmul)
  <2>1. fmatmul \in Nat
    BY <1>1, BlockFits DEF Blocks
  <2>2. 0 = fmatmul * 0
    BY <2>1
  <2> QED
    BY <2>2 DEF Multiple
<1>4. Loops'
  BY <1>1, <1>2, <1>3 DEF Loops, InKernel
<1>5. Stored'
  BY <1>1 DEF Stored
<1> QED
  BY <1>1, <1>4, <1>5 DEF MatInv, Pipeline, InKernel

LEMMA BlockKeeps ==
  ASSUME MatInv, NextBlock(Cleared(fmatmul)) PROVE MatInv'
<1>1. /\ mmPc = "loop" /\ mmPc' = "prefetch" /\ dim' = dim /\ c' = c /\ p' = p /\ m' = m /\ vl' = vl
      /\ p < dim /\ m < dim /\ acc' = Cleared(fmatmul) /\ fmatmul' = fmatmul
  BY DEF NextBlock, fmatmul
<1>2. Loops' /\ Stored'
  BY <1>1 DEF MatInv, Loops, Stored, InKernel, Gold
<1> QED
  BY <1>1, <1>2 DEF MatInv, Pipeline, InKernel, Cleared

LEMMA SliceKeeps == ASSUME MatInv, NextSlice PROVE MatInv'
<1>1. /\ mmPc = "loop" /\ mmPc' = "loop" /\ dim' = dim /\ c' = c /\ p' = p + vl /\ m' = 0 /\ vl' = vl
      /\ p < dim /\ m >= dim /\ fmatmul' = fmatmul
  BY DEF NextSlice, fmatmul
<1>2. Loops /\ Stored /\ dim \in Nat /\ Doubled(dim)
  BY <1>1 DEF MatInv, Doubled
<1>3. Multiple(0, fmatmul)
  <2>1. fmatmul \in Nat
    BY <1>2, BlockFits DEF Blocks
  <2>2. 0 = fmatmul * 0
    BY <2>1
  <2> QED
    BY <2>2 DEF Multiple
<1>4. Loops'
  BY <1>1, <1>2, <1>3 DEF Loops, InKernel
<1>5. Stored'
  <2> SUFFICES ASSUME NEW i \in 0 .. dim - 1, NEW j \in 0 .. dim - 1,
                      j < p' \/ (i < m' /\ j < p' + vl')
               PROVE  c[i * dim + j] = Gold(i, j)
    BY <1>1 DEF Stored, Gold
  <2>0. j < p + vl
    BY <1>1
  <2>1. i < m
    BY <1>1, <1>2 DEF Loops
  <2> QED
    BY <1>2, <2>0, <2>1 DEF Stored
<1> QED
  BY <1>1, <1>4, <1>5 DEF MatInv, Pipeline, InKernel

LEMMA ReturnKeeps == ASSUME MatInv, MatReturn PROVE MatInv'
<1>1. /\ mmPc = "loop" /\ mmPc' = "returned" /\ dim' = dim /\ c' = c /\ p' = p /\ m' = m /\ vl' = vl
      /\ p >= dim /\ fmatmul' = fmatmul
  BY DEF MatReturn, fmatmul
<1>2. Loops' /\ Stored'
  BY <1>1 DEF MatInv, Loops, Stored, InKernel, Gold
<1> QED
  BY <1>1, <1>2 DEF MatInv, Pipeline, InKernel

----------------------------------------------------------------------------
(* The inner kernel.                                                       *)

LEMMA PrefetchKeeps == ASSUME MatInv, Prefetch(fmatmul) PROVE MatInv'
<1>1. /\ mmPc = "prefetch" /\ mmPc' = "even" /\ dim' = dim /\ c' = c /\ p' = p /\ m' = m /\ vl' = vl
      /\ even' = 0 /\ b' = 1 /\ n' = 0 /\ t' = Column(fmatmul, 0) /\ acc' = acc /\ fmatmul' = fmatmul
  BY DEF Prefetch, fmatmul
<1>2. Loops' /\ Stored' /\ dim \in Nat /\ dim >= 4
  BY <1>1 DEF MatInv, Loops, Stored, InKernel, Gold, Doubled
<1>3. acc = [r \in 0 .. fmatmul - 1 |-> Terms(m + r, 0)]
  <2>1. \A i : Terms(i, 0) = <<>>
    BY DEF Terms
  <2> QED
    BY <1>1, <2>1 DEF MatInv, Pipeline, Cleared
<1>4. Ready(0)'
  BY <1>1, <1>3 DEF Ready, Column, Terms
<1>5. Multiple(0, 2)
  <2>1. 0 = 2 * 0
    OBVIOUS
  <2> QED
    BY <2>1 DEF Multiple
<1>6. Pipeline'
  BY <1>1, <1>2, <1>4, <1>5 DEF Pipeline
<1> QED
  BY <1>1, <1>2, <1>6 DEF MatInv, InKernel

LEMMA EvenKeeps == ASSUME MatInv, EvenHalf(fmatmul) PROVE MatInv'
<1>1. /\ mmPc = "even" /\ dim' = dim /\ c' = c /\ p' = p /\ m' = m /\ vl' = vl
      /\ odd' = b /\ b' = b + 1 /\ n' = n + 2 /\ t' = Column(fmatmul, n + 1)
      /\ acc' = Accumulate(fmatmul, even) /\ fmatmul' = fmatmul /\ mmPc' = AfterEven(n + 2)
  BY DEF EvenHalf, fmatmul
<1>2. Loops /\ Loops' /\ Stored' /\ dim \in Nat /\ Doubled(dim) /\ mmPc' \in {"odd", "last"}
  BY <1>1 DEF MatInv, Loops, Stored, InKernel, Gold, Doubled, AfterEven
<1>3. Ready(n) /\ even = n /\ b = n + 1 /\ n < dim /\ n \in Nat /\ Multiple(n, 2)
  BY <1>1 DEF MatInv, Pipeline
<1>4. fmatmul \in Blocks /\ Multiple(dim, 2) /\ m \in Nat
  BY <1>2, BlockFits DEF Loops
<1>5. acc' = [r \in 0 .. fmatmul - 1 |-> Terms(m + r, n + 1)]
  BY <1>1, <1>3, <1>4, Multiplied
<1>6. n' - 1 = n + 1
  BY <1>1, <1>3
<1>7. Ready(n - 1)'
  BY <1>1, <1>5, <1>6 DEF Ready, Column, Terms
<1>8. n + 2 <= dim /\ Multiple(n + 2, 2)
  BY <1>2, <1>3, <1>4, StepBelow
<1>9. Pipeline'
  BY <1>1, <1>2, <1>3, <1>7, <1>8 DEF Pipeline, AfterEven
<1> QED
  BY <1>1, <1>2, <1>9 DEF MatInv, InKernel

LEMMA OddKeeps == ASSUME MatInv, OddHalf(fmatmul) PROVE MatInv'
<1>1. /\ mmPc = "odd" /\ dim' = dim /\ c' = c /\ p' = p /\ m' = m /\ vl' = vl
      /\ even' = b /\ b' = b + 1 /\ n' = n /\ t' = Column(fmatmul, n)
      /\ acc' = Accumulate(fmatmul, odd) /\ fmatmul' = fmatmul
  BY DEF OddHalf, fmatmul
<1>2. Loops /\ Loops' /\ Stored' /\ dim \in Nat /\ Doubled(dim)
  <2>1. mmPc' \in {"last", "even"}
    BY DEF OddHalf
  <2> QED
    BY <1>1, <2>1 DEF MatInv, Loops, Stored, InKernel, Gold, Doubled
<1>3. Ready(n - 1) /\ odd = n - 1 /\ b = n /\ n < dim /\ n \in Nat /\ n >= 2 /\ Multiple(n, 2)
  BY <1>1 DEF MatInv, Pipeline
<1>4. fmatmul \in Blocks /\ m \in Nat /\ mmPc' = "even"
  BY <1>2, <1>3, BlockFits DEF Loops, OddHalf
<1>5. acc' = [r \in 0 .. fmatmul - 1 |-> Terms(m + r, n)]
  <2>1. PICK k \in Nat : k = n - 1 /\ n = k + 1
    BY <1>3
  <2> QED
    BY <1>1, <1>3, <1>4, <2>1, Multiplied
<1>6. Ready(n)'
  BY <1>1, <1>5 DEF Ready, Column, Terms
<1>7. Pipeline'
  BY <1>1, <1>3, <1>4, <1>6 DEF Pipeline
<1> QED
  BY <1>1, <1>2, <1>4, <1>7 DEF MatInv, InKernel

\* vse64.v reaches the cells of the block in the slice, and no others.
LEMMA BlockStored ==
  ASSUME MatInv, StoreBlock(fmatmul), NEW i \in 0 .. dim - 1, NEW j \in 0 .. dim - 1
  PROVE  c'[i * dim + j] = IF i \in m .. m + fmatmul - 1 /\ j \in p .. p + vl - 1 THEN Gold(i, j)
                           ELSE c[i * dim + j]
<1>0. /\ mmPc = "last" /\ Loops /\ Doubled(dim) /\ dim \in Nat /\ dim <= M /\ DOMAIN c = 0 .. M * M - 1
      /\ m \in Nat /\ p \in Nat /\ vl \in Nat \ {0} /\ p < dim /\ m < dim /\ Multiple(m, fmatmul)
  BY DEF StoreBlock, MatInv, Loops, InKernel, Doubled
<1>1. fmatmul \in Blocks /\ m + fmatmul <= dim
  BY <1>0, BlockFits, StepBelow DEF Blocks
<1>2. Ready(n - 1) /\ odd = n - 1 /\ n = dim /\ n \in Nat /\ dim >= 4
  BY <1>0 DEF MatInv, Pipeline, Doubled
<1>3. Accumulate(fmatmul, odd) = [r \in 0 .. fmatmul - 1 |-> Terms(m + r, dim)]
  <2>1. PICK k \in Nat : k = n - 1 /\ dim = k + 1
    BY <1>2
  <2> QED
    BY <1>0, <1>1, <1>2, <2>1, Multiplied
<1> DEFINE x == i * dim + j
           hit == {rl \in (0 .. fmatmul - 1) \X (0 .. SliceLanes - 1) : x = (m + rl[1]) * dim + p + rl[2]}
<1>4. x \in DOMAIN c
  BY <1>0, CellInside, FmatmulAssumption
<1>5. c'[x] = IF hit = {} THEN c[x]
              ELSE LET rl == CHOOSE y \in hit : TRUE
                   IN  [terms |-> Accumulate(fmatmul, odd)[rl[1]], col |-> p + rl[2]]
  BY <1>4, Zenon DEF StoreBlock
<1>6. SliceLanes \in Nat /\ p + SliceLanes <= dim /\ SliceLanes <= vl /\ (p + SliceLanes = dim \/ SliceLanes = vl)
  BY <1>0 DEF SliceLanes, Least
<1>7. ASSUME NEW rl \in hit
      PROVE  /\ rl[1] \in 0 .. fmatmul - 1 /\ rl[2] \in 0 .. SliceLanes - 1
             /\ m + rl[1] = i /\ p + rl[2] = j
  <2>1. rl[1] \in 0 .. fmatmul - 1 /\ rl[2] \in 0 .. SliceLanes - 1 /\ x = (m + rl[1]) * dim + p + rl[2]
    OBVIOUS
  <2>2. PICK k \in Nat : k = m + rl[1]
    BY <1>0, <1>1, <2>1 DEF Blocks
  <2>3. PICK l \in 0 .. dim - 1 : l = p + rl[2]
    BY <1>0, <1>6, <2>1
  <2>4. k * dim \in Nat
    BY <1>0
  <2>5. i * dim + j = k * dim + l
    BY <1>0, <1>6, <2>1, <2>2, <2>3, <2>4, SMTT(40)
  <2>6. i = k /\ j = l
    <3>1. PICK d \in Nat : d = dim
      BY <1>0
    <3>2. i \in Nat /\ j \in 0 .. d - 1 /\ l \in 0 .. d - 1 /\ i * d + j = k * d + l
      BY <2>5, <3>1
    <3> HIDE DEF hit, x
    <3> QED
      BY <3>2, OneCell
  <2> QED
    BY <2>1, <2>2, <2>3, <2>6
<1>8. CASE i \in m .. m + fmatmul - 1 /\ j \in p .. p + vl - 1
  <2>1. i - m \in 0 .. fmatmul - 1 /\ j - p \in 0 .. SliceLanes - 1
    BY <1>0, <1>1, <1>6, <1>8 DEF Blocks
  <2>2. m + (i - m) = i /\ p + (j - p) = j
    BY <1>0
  <2>3. (m + (i - m)) * dim + p + (j - p) = x
    BY <1>0, <2>2
  <2>4. <<i - m, j - p>> \in hit
    BY <2>1, <2>3
  <2>5. PICK rl \in hit : rl = CHOOSE y \in hit : TRUE
    BY <2>4
  <2>6. c'[x] = [terms |-> Accumulate(fmatmul, odd)[rl[1]], col |-> p + rl[2]]
    BY <1>5, <2>4, <2>5, Zenon
  <2>7. /\ rl[1] \in 0 .. fmatmul - 1 /\ m + rl[1] = i /\ p + rl[2] = j
    BY <1>7
  <2>8. Accumulate(fmatmul, odd)[rl[1]] = Terms(i, dim)
    BY <1>3, <2>7
  <2>9. Gold(i, j) = [terms |-> Terms(i, dim), col |-> j]
    BY DEF Gold, Terms
  <2>10. c'[x] = Gold(i, j)
    BY <2>6, <2>7, <2>8, <2>9, Zenon
  <2> QED
    BY <1>8, <2>10
<1>9. CASE ~(i \in m .. m + fmatmul - 1 /\ j \in p .. p + vl - 1)
  <2>1. hit = {}
    <3> SUFFICES ASSUME NEW rl \in hit PROVE FALSE
      OBVIOUS
    <3>1. /\ rl[1] \in 0 .. fmatmul - 1 /\ rl[2] \in 0 .. SliceLanes - 1
          /\ m + rl[1] = i /\ p + rl[2] = j
      BY <1>7
    <3> HIDE DEF hit
    <3>2. PICK u \in Nat, w \in Nat : u = rl[1] /\ w = rl[2]
      BY <1>1, <1>6, <3>1 DEF Blocks
    <3>3. i = m + u /\ j = p + w /\ u <= fmatmul - 1 /\ w <= vl - 1
      BY <1>0, <1>1, <1>6, <3>1, <3>2, SMTT(40) DEF Blocks
    <3>4. i \in m .. m + fmatmul - 1 /\ j \in p .. p + vl - 1
      BY <1>0, <1>1, <3>3 DEF Blocks
    <3> QED
      BY <1>9, <3>4
  <2> QED
    BY <1>5, <1>9, <2>1
<1> QED
  BY <1>8, <1>9

LEMMA StoreKeeps == ASSUME MatInv, StoreBlock(fmatmul) PROVE MatInv'
<1>1. /\ mmPc = "last" /\ mmPc' = "loop" /\ dim' = dim /\ p' = p /\ vl' = vl /\ m' = m + fmatmul
      /\ fmatmul' = fmatmul /\ DOMAIN c' = DOMAIN c
  BY DEF StoreBlock, fmatmul
<1>2. /\ Loops /\ Stored /\ Doubled(dim) /\ dim \in Nat /\ m \in Nat /\ p \in Nat /\ vl \in Nat
      /\ m < dim /\ Multiple(m, fmatmul)
  BY <1>1 DEF MatInv, Loops, InKernel, Doubled
<1>3. fmatmul \in Blocks /\ Multiple(m + fmatmul, fmatmul)
  BY <1>2, BlockFits, StepBelow DEF Blocks
<1>4. Loops'
  BY <1>1, <1>2, <1>3 DEF Loops, InKernel, Blocks
<1>5. Stored'
  <2> SUFFICES ASSUME NEW i \in 0 .. dim - 1, NEW j \in 0 .. dim - 1,
                      j < p' \/ (i < m' /\ j < p' + vl')
               PROVE  c'[i * dim + j] = Gold(i, j)
    BY <1>1 DEF Stored, Gold
  <2>1. CASE i \in m .. m + fmatmul - 1 /\ j \in p .. p + vl - 1
    BY <2>1, BlockStored
  <2>2. CASE ~(i \in m .. m + fmatmul - 1 /\ j \in p .. p + vl - 1)
    <3>1. j < p \/ (i < m /\ j < p + vl)
      BY <1>1, <1>2, <1>3, <2>2 DEF Blocks
    <3>2. c'[i * dim + j] = c[i * dim + j]
      BY <2>2, BlockStored
    <3> QED
      BY <1>2, <3>1, <3>2 DEF Stored
  <2> QED
    BY <2>1, <2>2
<1> QED
  BY <1>1, <1>4, <1>5 DEF MatInv, Pipeline, InKernel

----------------------------------------------------------------------------
LEMMA MatKept == ASSUME MatInv, [MatNext]_matVars PROVE MatInv'
<1>1. CASE fmatmul_main
  BY <1>1, MainKeeps
<1>2. ASSUME NEW block, NEW lmul \in {1, 2, 4}, Slices(block, lmul, Cleared(block)) PROVE MatInv'
  BY <1>2, SetupKeeps, BlockKeeps, SliceKeeps, ReturnKeeps DEF Slices
<1>3. ASSUME NEW block, VecKernel(block) PROVE MatInv'
  BY <1>3, PrefetchKeeps, EvenKeeps, OddKeeps, StoreKeeps DEF VecKernel
<1>4. CASE fmatmul_4x4 \/ fmatmul_8x8 \/ fmatmul_16x16
  BY <1>2, <1>4 DEF fmatmul_4x4, fmatmul_8x8, fmatmul_16x16, fmatmul_vec_4x4_slice_init,
       fmatmul_vec_8x8_slice_init, fmatmul_vec_16x16_slice_init
<1>5. CASE fmatmul_vec_4x4 \/ fmatmul_vec_8x8 \/ fmatmul_vec_16x16
  BY <1>3, <1>5 DEF fmatmul_vec_4x4, fmatmul_vec_8x8, fmatmul_vec_16x16
<1>6. CASE UNCHANGED matVars
  BY <1>6 DEF matVars, MatInv, Loops, Stored, Pipeline, Ready, Gold, fmatmul, Column, InKernel
<1> QED
  BY <1>1, <1>4, <1>5, <1>6 DEF MatNext

\* The inductive invariant holds throughout.
LEMMA MatSafe == MatSpec => []MatInv
BY MatStarts, MatKept, PTL DEF MatSpec

(***************************************************************************)
(* For every size of the data section and every vector length, the kernel  *)
(* returns with every element of C complete (kernel/fmatmul.c).            *)
(***************************************************************************)
THEOREM ProductCompleteHolds == MatSpec => []ProductComplete
<1>1. MatInv => ProductComplete
  <2> SUFFICES ASSUME MatInv, mmPc = "returned" PROVE WrongCells = {}
    BY DEF ProductComplete
  <2>1. Loops /\ Stored /\ p >= dim /\ p \in Nat /\ dim \in Nat
    BY DEF MatInv, Loops, Doubled
  <2>2. \A x \in MatCells : c[x[1] * dim + x[2]] = Gold(x[1], x[2])
    <3> SUFFICES ASSUME NEW x \in MatCells PROVE c[x[1] * dim + x[2]] = Gold(x[1], x[2])
      OBVIOUS
    <3>1. PICK i \in 0 .. dim - 1, j \in 0 .. dim - 1 : i = x[1] /\ j = x[2]
      BY DEF MatCells
    <3>2. j < p
      BY <2>1, <3>1
    <3> QED
      BY <2>1, <3>1, <3>2 DEF Stored
  <2> QED
    BY <2>2 DEF WrongCells
<1> QED
  BY <1>1, MatSafe, PTL

(***************************************************************************)
(* The pipeline never loads an element of A or a row of B that is not      *)
(* there, whatever the dimension (kernel/fmatmul.c:138).                   *)
(***************************************************************************)
THEOREM PrefetchInsideHolds == MatSpec => []PrefetchInside
<1>1. MatInv => PrefetchInside
  <2> SUFFICES ASSUME MatInv, mmPc \in {"even", "odd", "last"}
               PROVE  b <= dim /\ \A r \in DOMAIN t : t[r][1] < dim /\ t[r][2] < dim
    BY DEF PrefetchInside
  <2>1. /\ Doubled(dim) /\ dim \in Nat /\ dim >= 4 /\ m \in Nat /\ m < dim /\ Multiple(m, fmatmul)
    BY DEF MatInv, Loops, InKernel, Doubled
  <2>2. fmatmul \in Blocks /\ m + fmatmul <= dim
    BY <2>1, BlockFits, StepBelow DEF Blocks
  <2>3. PICK k \in Nat : k < dim /\ t = Column(fmatmul, k) /\ b <= dim
    <3>1. CASE mmPc = "even"
      BY <2>1, <3>1 DEF MatInv, Pipeline, Ready
    <3>2. CASE mmPc \in {"odd", "last"}
      <4>1. n \in Nat /\ n <= dim /\ b = n /\ t = Column(fmatmul, n - 1) /\ n >= 2
        BY <2>1, <3>2 DEF MatInv, Pipeline, Ready
      <4>2. n - 1 \in Nat /\ n - 1 < dim
        BY <2>1, <4>1
      <4> QED
        BY <4>1, <4>2
    <3> QED
      BY <3>1, <3>2
  <2>4. ASSUME NEW r \in DOMAIN t PROVE t[r][1] < dim /\ t[r][2] < dim
    <3>1. r \in 0 .. fmatmul - 1 /\ t[r] = <<m + r, k>>
      BY <2>3 DEF Column
    <3>2. m + r < dim
      BY <2>1, <2>2, <3>1 DEF Blocks
    <3> QED
      BY <2>3, <3>1, <3>2
  <2> QED
    BY <2>3, <2>4
<1> QED
  BY <1>1, MatSafe, PTL

----------------------------------------------------------------------------
(***************************************************************************)
(* The string functions.  Each is a recursive function over the bytes or   *)
(* the words done; it is equal to the block moved so far, given outright,  *)
(* by induction: a smallest number of turns after which it is not would    *)
(* have one before it.                                                     *)
(***************************************************************************)

\* A set of numbers has a smallest one; every induction below rests on it.
LEMMA SmallestNumber ==
  ASSUME NEW S, S \subseteq Nat, S # {}
  PROVE  \E x \in S : \A y \in S : x <= y
<1>1. ASSUME NEW R, IsWellFoundedOn(R, Nat), \A x, y \in Nat : x < y => <<x, y>> \in R
      PROVE  \E x \in S : \A y \in S : x <= y
  <2>0. IsWellFoundedOn(R, Nat)
    BY <1>1
  <2>1. PICK x \in S : \A y \in S : ~(<<y, x>> \in R)
    BY <2>0, WFMin
  <2>2. \A y \in S : ~(y < x)
    BY <1>1, <2>1
  <2> QED BY <2>2
<1>2. \A x, y \in Nat : x < y => <<x, y>> \in OpToRel(<, Nat)
  BY DEF OpToRel
<1> QED BY <1>1, <1>2, NatLessThanWellFounded, Zenon

\* A set of numbers that holds zero and with each number the next one is Nat.
LEMMA Counting ==
  ASSUME NEW S, NEW k \in Nat, 0 \in S, \A i \in 0 .. k - 1 : i \in S => i + 1 \in S
  PROVE  \A i \in 0 .. k : i \in S
<1> DEFINE bad == {i \in 0 .. k : i \notin S}
<1>1. CASE bad = {}
  BY <1>1
<1>2. CASE bad # {}
  <2>1. PICK x \in bad : \A y \in bad : x <= y
    <3>1. bad \subseteq Nat
      OBVIOUS
    <3> HIDE DEF bad
    <3> QED BY <1>2, <3>1, SmallestNumber
  <2>2. x # 0 /\ x \in Nat /\ x <= k
    OBVIOUS
  <2>3. x - 1 \notin bad /\ x - 1 \in 0 .. k - 1
    BY <2>1, <2>2
  <2>4. x - 1 \in S
    BY <2>2, <2>3
  <2>5. (x - 1) + 1 \in S
    BY <2>3, <2>4
  <2> QED BY <2>2, <2>5
<1> QED BY <1>1, <1>2

Content == [0 .. Top -> 0 .. Bytes - 1]

\* A block at its new place.
Moved(mem, to, from, k) ==
  [a \in 0 .. Top |-> IF a \in to .. to + k - 1 THEN mem[a - to + from] ELSE mem[a]]

Operands(mem, to, from, cnt) ==
  /\ mem \in Content /\ to \in 0 .. Top /\ from \in 0 .. Top /\ cnt \in Nat
  /\ to + cnt <= Top + 1 /\ from + cnt <= Top + 1

\* One turn of a loop that copies bytes.
CopyByte(mem, to, from) == [mem EXCEPT ![to] = mem[from]]

\* A memory, of any content.
Laid(x) == x = [a \in 0 .. Top |-> x[a]]

\* Two memories with the same bytes are the same.
LEMMA SameContent ==
  ASSUME NEW x, NEW y, Laid(x), Laid(y), \A a \in 0 .. Top : x[a] = y[a]
  PROVE  x = y
BY DEF Laid

\* After a turn.
ByteAt(new, mem, to, from) ==
  Laid(new) /\ \A a \in 0 .. Top : new[a] = IF a = to THEN mem[from] ELSE mem[a]

\* What a memory holds after a byte was copied.
LEMMA ByteCopied ==
  ASSUME NEW mem, Laid(mem), NEW to \in 0 .. Top, NEW from
  PROVE  ByteAt(CopyByte(mem, to, from), mem, to, from)
BY DEF CopyByte, Laid, ByteAt

\* A turn of the loop that copies upwards (memcpy, and memmove to a lower
\* address) takes the block one byte further.
LEMMA UpByte ==
  ASSUME NEW mem, NEW to, NEW from, NEW cnt, Operands(mem, to, from, cnt),
         to < from \/ Apart(to, from, cnt), NEW k \in 1 .. cnt
  PROVE  Moved(mem, to, from, k) = CopyByte(Moved(mem, to, from, k - 1), to + (k - 1), from + (k - 1))
<1> DEFINE old == Moved(mem, to, from, k - 1)
           new == CopyByte(old, to + (k - 1), from + (k - 1))
           goal == Moved(mem, to, from, k)
<1>0. /\ to \in Nat /\ from \in Nat /\ cnt \in Nat /\ k \in Nat /\ Top \in Nat /\ k >= 1 /\ k <= cnt
      /\ to + cnt <= Top + 1 /\ from + cnt <= Top + 1 /\ to + (k - 1) \in 0 .. Top
  BY CStringAssumption DEF Operands
<1>1. from + (k - 1) \in 0 .. Top /\ from + (k - 1) \notin to .. to + (k - 1) - 1
  BY <1>0 DEF Apart
<1>2. old[from + (k - 1)] = mem[from + (k - 1)]
  BY <1>1 DEF Moved
<1>3. Laid(old) /\ Laid(goal)
  BY DEF Moved, Laid
<1>4. /\ Laid(new)
      /\ \A a \in 0 .. Top : new[a] = IF a = to + (k - 1) THEN mem[from + (k - 1)] ELSE old[a]
  <2> DEFINE at == to + (k - 1)
             of == from + (k - 1)
  <2>1. at \in 0 .. Top /\ Laid(old) /\ old[of] = mem[of]
    BY <1>0, <1>2, <1>3
  <2> HIDE DEF old, at, of
  <2>2. ByteAt(CopyByte(old, at, of), old, at, of)
    BY <2>1, ByteCopied
  <2> QED BY <2>1, <2>2 DEF at, of, ByteAt
<1>5. ASSUME NEW a \in 0 .. Top PROVE goal[a] = new[a]
  <2>1. CASE a = to + (k - 1)
    <3>1. a \in to .. to + k - 1 /\ a - to + from = from + (k - 1)
      BY <1>0, <2>1
    <3>2. goal[a] = mem[from + (k - 1)]
      BY <3>1 DEF Moved
    <3> HIDE DEF goal, new
    <3> QED BY <1>4, <2>1, <3>2
  <2>2. CASE a # to + (k - 1)
    <3>1. a \in to .. to + k - 1 <=> a \in to .. to + (k - 1) - 1
      BY <1>0, <2>2
    <3>2. goal[a] = old[a]
      BY <3>1 DEF Moved
    <3> HIDE DEF goal, new, old
    <3> QED BY <1>4, <2>2, <3>2
  <2> QED BY <2>1, <2>2
<1> HIDE DEF goal, new, old
<1>6. goal = new
  BY <1>3, <1>4, <1>5, SameContent
<1> QED BY <1>6 DEF goal, new, old

\* So the loop leaves the whole block at its new place.
LEMMA UpwardMoves ==
  ASSUME NEW mem, NEW to, NEW from, NEW cnt, Operands(mem, to, from, cnt),
         to < from \/ Apart(to, from, cnt)
  PROVE  Upward(mem, to, from, cnt) = Moved(mem, to, from, cnt)
<1> DEFINE Body(f) == [k \in 0 .. cnt |->
               IF k = 0 THEN mem ELSE CopyByte(f[k - 1], to + (k - 1), from + (k - 1))]
           g == [k \in 0 .. cnt |-> Moved(mem, to, from, k)]
<1>0. cnt \in Nat /\ cnt \in 0 .. cnt
  BY DEF Operands
<1>1. Moved(mem, to, from, 0) = mem
  BY DEF Moved, Operands, Content
<1>2. g = Body(g)
  <2>1. \A k \in 1 .. cnt : Moved(mem, to, from, k) = CopyByte(Moved(mem, to, from, k - 1), to + (k - 1), from + (k - 1))
    BY UpByte
  <2>2. \A k \in 0 .. cnt : k = 0 \/ (k \in 1 .. cnt /\ k - 1 \in 0 .. cnt)
    BY <1>0
  <2> QED BY <1>1, <2>1, <2>2
<1>3. ASSUME NEW f, f = Body(f) PROVE f[cnt] = Moved(mem, to, from, cnt)
  <2> DEFINE S == {k \in 0 .. cnt : f[k] = Moved(mem, to, from, k)}
  <2>1. 0 \in S
    BY <1>0, <1>1, <1>3
  <2>2. \A i \in 0 .. cnt - 1 : i \in S => i + 1 \in S
    <3> SUFFICES ASSUME NEW i \in 0 .. cnt - 1, i \in S PROVE i + 1 \in S
      OBVIOUS
    <3>1. i + 1 \in 1 .. cnt /\ i + 1 \in 0 .. cnt /\ (i + 1) - 1 = i
      BY <1>0
    <3>2. f[i + 1] = CopyByte(f[i], to + i, from + i)
      BY <1>3, <3>1
    <3>3. Moved(mem, to, from, i + 1) = CopyByte(Moved(mem, to, from, i), to + i, from + i)
      BY <3>1, UpByte
    <3> QED BY <3>1, <3>2, <3>3
  <2> HIDE DEF S
  <2>3. cnt \in S
    BY <1>0, <2>1, <2>2, Counting
  <2> QED BY <2>3 DEF S
<1>4. Upward(mem, to, from, cnt) = (CHOOSE f : f = Body(f))[cnt]
  BY DEF Upward, CopyLoop, CopyByte
<1> HIDE DEF Body, g
<1>5. (CHOOSE f : f = Body(f)) = Body(CHOOSE f : f = Body(f))
  BY <1>2
<1> QED BY <1>3, <1>4, <1>5

\* The memory after the last k bytes were copied, from the end.
MovedDown(mem, to, from, cnt, k) ==
  [a \in 0 .. Top |-> IF a \in to + cnt - k .. to + cnt - 1 THEN mem[a - to + from] ELSE mem[a]]

\* A turn of the loop of memmove that copies from the end.
LEMMA DownByte ==
  ASSUME NEW mem, NEW to, NEW from, NEW cnt, Operands(mem, to, from, cnt), to >= from, NEW k \in 1 .. cnt
  PROVE  MovedDown(mem, to, from, cnt, k) =
           CopyByte(MovedDown(mem, to, from, cnt, k - 1), to + cnt - 1 - (k - 1), from + cnt - 1 - (k - 1))
<1> DEFINE old == MovedDown(mem, to, from, cnt, k - 1)
           at == to + cnt - 1 - (k - 1)
           of == from + cnt - 1 - (k - 1)
           new == CopyByte(old, at, of)
           goal == MovedDown(mem, to, from, cnt, k)
<1>0. /\ to \in Nat /\ from \in Nat /\ cnt \in Nat /\ k \in Nat /\ Top \in Nat /\ k >= 1 /\ k <= cnt
      /\ to + cnt <= Top + 1 /\ from + cnt <= Top + 1 /\ at \in 0 .. Top
  BY CStringAssumption DEF Operands
<1>1. of \in 0 .. Top /\ of \notin to + cnt - (k - 1) .. to + cnt - 1 /\ at - to + from = of
  BY <1>0
<1>2. old[of] = mem[of]
  <2> HIDE DEF of
  <2> QED BY <1>1 DEF MovedDown
<1>3. Laid(old) /\ Laid(goal)
  BY DEF MovedDown, Laid
<1>4. /\ Laid(new)
      /\ \A a \in 0 .. Top : new[a] = IF a = at THEN mem[of] ELSE old[a]
  <2> HIDE DEF old, at, of
  <2>1. ByteAt(CopyByte(old, at, of), old, at, of)
    BY <1>0, <1>3, ByteCopied
  <2> QED BY <1>2, <2>1 DEF ByteAt
<1>5. ASSUME NEW a \in 0 .. Top PROVE goal[a] = new[a]
  <2>1. CASE a = at
    <3>1. a \in to + cnt - k .. to + cnt - 1 /\ a - to + from = of
      BY <1>0, <2>1
    <3> HIDE DEF of, at
    <3>2. goal[a] = mem[of]
      BY <3>1 DEF MovedDown
    <3> HIDE DEF goal, new
    <3> QED BY <1>4, <2>1, <3>2
  <2>2. CASE a # at
    <3>1. a \in to + cnt - k .. to + cnt - 1 <=> a \in to + cnt - (k - 1) .. to + cnt - 1
      BY <1>0, <2>2
    <3>2. goal[a] = old[a]
      BY <3>1 DEF MovedDown
    <3> HIDE DEF goal, new, old, at, of
    <3> QED BY <1>4, <2>2, <3>2
  <2> QED BY <2>1, <2>2
<1> HIDE DEF goal, new, old
<1>6. goal = new
  BY <1>3, <1>4, <1>5, SameContent
<1> QED BY <1>6 DEF goal, new, old

\* So memmove to a higher address leaves the whole block there, although the
\* operands overlap.
LEMMA DownwardMoves ==
  ASSUME NEW mem, NEW to, NEW from, NEW cnt, Operands(mem, to, from, cnt), to >= from
  PROVE  Downward(mem, to, from, cnt) = Moved(mem, to, from, cnt)
<1> DEFINE Body(f) == [k \in 0 .. cnt |->
               IF k = 0 THEN mem ELSE CopyByte(f[k - 1], to + cnt - 1 - (k - 1), from + cnt - 1 - (k - 1))]
           g == [k \in 0 .. cnt |-> MovedDown(mem, to, from, cnt, k)]
<1>0. cnt \in Nat /\ cnt \in 0 .. cnt /\ to \in Nat
  BY CStringAssumption DEF Operands
<1>1. MovedDown(mem, to, from, cnt, 0) = mem
  <2>1. \A a : a \notin to + cnt - 0 .. to + cnt - 1
    BY <1>0
  <2> QED BY <2>1 DEF MovedDown, Operands, Content
<1>2. g = Body(g)
  <2>1. \A k \in 1 .. cnt : MovedDown(mem, to, from, cnt, k) =
          CopyByte(MovedDown(mem, to, from, cnt, k - 1), to + cnt - 1 - (k - 1), from + cnt - 1 - (k - 1))
    BY DownByte
  <2>2. \A k \in 0 .. cnt : k = 0 \/ (k \in 1 .. cnt /\ k - 1 \in 0 .. cnt)
    BY <1>0
  <2> QED BY <1>1, <2>1, <2>2
<1>3. ASSUME NEW f, f = Body(f) PROVE f[cnt] = MovedDown(mem, to, from, cnt, cnt)
  <2> DEFINE S == {k \in 0 .. cnt : f[k] = MovedDown(mem, to, from, cnt, k)}
  <2>1. 0 \in S
    BY <1>0, <1>1, <1>3
  <2>2. \A i \in 0 .. cnt - 1 : i \in S => i + 1 \in S
    <3> SUFFICES ASSUME NEW i \in 0 .. cnt - 1, i \in S PROVE i + 1 \in S
      OBVIOUS
    <3>1. i + 1 \in 1 .. cnt /\ i + 1 \in 0 .. cnt /\ (i + 1) - 1 = i
      BY <1>0
    <3>2. f[i + 1] = CopyByte(f[i], to + cnt - 1 - i, from + cnt - 1 - i)
      BY <1>3, <3>1
    <3>3. MovedDown(mem, to, from, cnt, i + 1) = CopyByte(MovedDown(mem, to, from, cnt, i), to + cnt - 1 - i, from + cnt - 1 - i)
      BY <3>1, DownByte
    <3> QED BY <3>1, <3>2, <3>3
  <2> HIDE DEF S
  <2>3. cnt \in S
    BY <1>0, <2>1, <2>2, Counting
  <2> QED BY <2>3 DEF S
<1>4. Downward(mem, to, from, cnt) = (CHOOSE f : f = Body(f))[cnt]
  BY DEF Downward, CopyLoop, CopyByte
<1>5. MovedDown(mem, to, from, cnt, cnt) = Moved(mem, to, from, cnt)
  <2>1. to + cnt - cnt = to
    BY <1>0
  <2> QED BY <2>1 DEF MovedDown, Moved
<1> HIDE DEF Body, g
<1>6. (CHOOSE f : f = Body(f)) = Body(CHOOSE f : f = Body(f))
  BY <1>2
<1> QED BY <1>3, <1>4, <1>5, <1>6

\* One turn of the loop that copies words: the bytes at lo .. hi.
CopyWord(mem, old, to, from, lo, hi) ==
  [a \in DOMAIN mem |-> IF a \in lo .. hi THEN old[a - to + from] ELSE old[a]]

\* Whole words of a length.
LEMMA WholeWords ==
  ASSUME NEW cnt \in Nat
  PROVE  /\ cnt \div Word \in Nat
         /\ \A k \in 1 .. cnt \div Word :
              /\ Word * (k - 1) \in Nat /\ Word * k = Word * (k - 1) + Word
              /\ Word * k <= cnt
         /\ Aligned(cnt) => Word * (cnt \div Word) = cnt
<1> DEFINE q == cnt \div Word
<1>0. Word \in Nat /\ Word > 0
  BY CStringAssumption
<1>1. q \in Nat /\ cnt = Word * q + (cnt % Word) /\ cnt % Word \in Nat
  BY <1>0
<1> HIDE DEF q
<1>2. ASSUME NEW k \in 1 .. q
      PROVE  Word * (k - 1) \in Nat /\ Word * k = Word * (k - 1) + Word /\ Word * k <= cnt
  <2>1. PICK r \in Nat : q = k + r
    <3>1. q - k \in Nat /\ q = k + (q - k)
      BY <1>1
    <3> QED BY <3>1
  <2>2. Word * q = Word * k + Word * r /\ Word * r \in Nat
    BY <1>0, <2>1
  <2>3. Word * k \in Nat /\ Word * (k - 1) \in Nat
    BY <1>0
  <2> DEFINE wq == Word * q
             wk == Word * k
             r0 == cnt % Word
             wr == Word * r
  <2>4. wq = wk + wr /\ wr \in Nat /\ wk \in Nat /\ cnt = wq + r0 /\ r0 \in Nat
    BY <1>1, <2>2, <2>3
  <2>5. wk <= cnt
    <3> HIDE DEF wq, wk, r0, wr
    <3> QED BY <2>4
  <2> QED BY <1>0, <2>3, <2>5
<1>3. Aligned(cnt) => Word * q = cnt
  <2> DEFINE wq == Word * q
             r == cnt % Word
  <2>1. wq \in Nat /\ cnt = wq + r /\ (Aligned(cnt) => r = 0)
    BY <1>0, <1>1 DEF Aligned
  <2> HIDE DEF wq, r
  <2>2. Aligned(cnt) => wq = cnt
    BY <2>1
  <2> QED BY <2>2 DEF wq
<1> QED BY <1>1, <1>2, <1>3 DEF q

\* A turn of the loop of memcpy that copies words.
LEMMA WordCopied ==
  ASSUME NEW mem, NEW to, NEW from, NEW cnt, Operands(mem, to, from, cnt), Apart(to, from, cnt),
         NEW k \in 1 .. cnt \div Word
  PROVE  Moved(mem, to, from, Word * k) =
           CopyWord(mem, Moved(mem, to, from, Word * (k - 1)), to, from, to + Word * (k - 1), to + Word * k - 1)
<1> DEFINE w == Word * (k - 1)
           v == Word * k
           old == Moved(mem, to, from, w)
           new == CopyWord(mem, old, to, from, to + w, to + v - 1)
           goal == Moved(mem, to, from, v)
<1>0. /\ to \in Nat /\ from \in Nat /\ cnt \in Nat /\ Top \in Nat
      /\ to + cnt <= Top + 1 /\ from + cnt <= Top + 1 /\ DOMAIN mem = 0 .. Top
      /\ Word \in Nat /\ Word > 0
  BY CStringAssumption DEF Operands, Content
<1>1. w \in Nat /\ v = w + Word /\ v <= cnt
  BY <1>0, WholeWords
<1> HIDE DEF w, v
<1>2. Laid(old) /\ Laid(goal) /\ Laid(new)
  BY <1>0 DEF Moved, CopyWord, Laid
<1>3. ASSUME NEW a \in 0 .. Top PROVE goal[a] = new[a]
  <2>1. CASE a \in to + w .. to + v - 1
    <3>1. /\ a \in to .. to + v - 1
          /\ a - to + from \in 0 .. Top /\ a - to + from \notin to .. to + w - 1
      BY <1>0, <1>1, <2>1 DEF Apart
    <3>2. goal[a] = mem[a - to + from]
      BY <3>1 DEF Moved
    <3>3. old[a - to + from] = mem[a - to + from]
      BY <3>1 DEF Moved
    <3>4. new[a] = old[a - to + from]
      <4> HIDE DEF old
      <4> QED BY <1>0, <2>1 DEF CopyWord
    <3> QED BY <3>2, <3>3, <3>4
  <2>2. CASE a \notin to + w .. to + v - 1
    <3>1. a \in to .. to + v - 1 <=> a \in to .. to + w - 1
      BY <1>0, <1>1, <2>2
    <3>2. goal[a] = old[a]
      BY <3>1 DEF Moved
    <3>3. new[a] = old[a]
      <4> HIDE DEF old
      <4> QED BY <1>0, <2>2 DEF CopyWord
    <3> QED BY <3>2, <3>3
  <2> QED BY <2>1, <2>2
<1> HIDE DEF goal, new, old
<1>4. goal = new
  BY <1>2, <1>3, SameContent
<1> QED BY <1>4 DEF goal, new, old, w, v

\* So memcpy of aligned operands copies the block.
LEMMA WordsMove ==
  ASSUME NEW mem, NEW to, NEW from, NEW cnt, Operands(mem, to, from, cnt), Apart(to, from, cnt), Aligned(cnt)
  PROVE  UpwardWords(mem, to, from, cnt) = Moved(mem, to, from, cnt)
<1> DEFINE top == cnt \div Word
           Body(f) == [k \in 0 .. top |->
               IF k = 0 THEN mem ELSE CopyWord(mem, f[k - 1], to, from, to + Word * (k - 1), to + Word * k - 1)]
           g == [k \in 0 .. top |-> Moved(mem, to, from, Word * k)]
<1>0. cnt \in Nat /\ top \in Nat /\ top \in 0 .. top /\ to \in Nat /\ Word * top = cnt /\ Word * 0 = 0
  <2>1. cnt \in Nat /\ to \in Nat /\ Word \in Nat
    BY CStringAssumption DEF Operands
  <2>2. top \in Nat /\ Word * top = cnt
    BY <2>1, WholeWords
  <2> QED BY <2>1, <2>2
<1>1. Moved(mem, to, from, Word * 0) = mem
  BY <1>0 DEF Moved, Operands, Content
<1>2. \A k \in 1 .. top : Moved(mem, to, from, Word * k) =
          CopyWord(mem, Moved(mem, to, from, Word * (k - 1)), to, from, to + Word * (k - 1), to + Word * k - 1)
  BY WordCopied
<1>3. UpwardWords(mem, to, from, cnt) = (CHOOSE f : f = Body(f))[top]
  BY DEF UpwardWords, CopyWord
<1> HIDE DEF top
<1>4. g = Body(g)
  <2>2. \A k \in 0 .. top : k = 0 \/ (k \in 1 .. top /\ k - 1 \in 0 .. top)
    BY <1>0
  <2> QED BY <1>1, <1>2, <2>2
<1>5. ASSUME NEW f, f = Body(f) PROVE f[top] = Moved(mem, to, from, Word * top)
  <2> DEFINE S == {k \in 0 .. top : f[k] = Moved(mem, to, from, Word * k)}
  <2>1. 0 \in S
    BY <1>0, <1>1, <1>5
  <2>2. \A i \in 0 .. top - 1 : i \in S => i + 1 \in S
    <3> SUFFICES ASSUME NEW i \in 0 .. top - 1, i \in S PROVE i + 1 \in S
      OBVIOUS
    <3>1. i + 1 \in 1 .. top /\ i + 1 \in 0 .. top /\ (i + 1) - 1 = i
      BY <1>0
    <3>2. f[i + 1] = CopyWord(mem, f[i], to, from, to + Word * i, to + Word * (i + 1) - 1)
      BY <1>5, <3>1
    <3>3. Moved(mem, to, from, Word * (i + 1)) = CopyWord(mem, Moved(mem, to, from, Word * i), to, from, to + Word * i, to + Word * (i + 1) - 1)
      BY <1>2, <3>1
    <3> QED BY <3>1, <3>2, <3>3
  <2> HIDE DEF S
  <2>3. top \in S
    BY <1>0, <2>1, <2>2, Counting
  <2> QED BY <2>3 DEF S
<1> HIDE DEF Body, g
<1>6. (CHOOSE f : f = Body(f)) = Body(CHOOSE f : f = Body(f))
  BY <1>4
<1> QED BY <1>0, <1>3, <1>5, <1>6

\* strlen stays in memory.
LEMMA StringInside ==
  ASSUME NEW mem, NEW from \in 0 .. Top, HasString(mem, from)
  PROVE  mini_strlen(mem, from) \in Nat /\ from + mini_strlen(mem, from) <= Top
<1> DEFINE zeros == {a \in from .. Top : mem[a] = 0}
           First(a) == mem[a] = 0 /\ \A x \in from .. a - 1 : mem[x] # 0
<1>0. from \in Nat /\ Top \in Nat
  BY CStringAssumption
<1>1. PICK a \in zeros : \A y \in zeros : a <= y
  <2>1. zeros # {} /\ zeros \subseteq Nat
    BY <1>0 DEF HasString
  <2> HIDE DEF zeros
  <2> QED BY <2>1, SmallestNumber
<1>2. a \in from .. Top /\ First(a)
  <2>1. a \in from .. Top /\ mem[a] = 0
    BY <1>1
  <2>2. \A x \in from .. a - 1 : x \in from .. Top /\ ~(a <= x)
    BY <1>0, <2>1
  <2> QED BY <1>1, <2>1, <2>2
<1> DEFINE at == CHOOSE x \in from .. Top : First(x)
<1>3. at \in from .. Top
  BY <1>2
<1>4. mini_strlen(mem, from) = at - from
  BY DEF mini_strlen
<1> HIDE DEF at
<1> QED BY <1>0, <1>3, <1>4

\* The first k bytes of two operands are the same.
SameBytes(mem, s1, s2, k) == \A i \in 0 .. k - 1 : mem[s1 + i] = mem[s2 + i]

\* A word of the operands.
SameWord(mem, s1, s2, k) == \A i \in Word * k .. Word * k + Word - 1 : mem[s1 + i] = mem[s2 + i]

\* Bytes below a number of whole words lie in one of them.
LEMMA InWord ==
  ASSUME NEW k \in Nat, NEW i \in 0 .. Word * k - 1
  PROVE  \E x \in 0 .. k - 1 : i \in Word * x .. Word * x + Word - 1
<1> DEFINE x == i \div Word
<1>0. Word \in Nat /\ Word > 0 /\ Word * k \in Nat
  BY CStringAssumption
<1>1. i \in Nat /\ i < Word * k
  BY <1>0
<1>2. x \in Nat /\ i = Word * x + (i % Word) /\ i % Word \in 0 .. Word - 1
  BY <1>0, <1>1
<1> HIDE DEF x
<1>3. Word * x \in Nat
  BY <1>0, <1>2
<1>4. i \in Word * x .. Word * x + Word - 1
  <2> DEFINE y == Word * x
             r == i % Word
  <2>1. y \in Nat /\ i = y + r /\ r \in 0 .. Word - 1
    BY <1>2, <1>3
  <2> HIDE DEF y, r
  <2>2. i \in y .. y + Word - 1
    BY <1>0, <2>1
  <2> QED BY <2>2 DEF y
<1>5. x < k
  <2> SUFFICES ASSUME x >= k PROVE FALSE
    BY <1>2
  <2>1. PICK r \in Nat : x = k + r
    <3>1. x - k \in Nat /\ x = k + (x - k)
      BY <1>2
    <3> QED BY <3>1
  <2>2. Word * x = Word * k + Word * r /\ Word * r \in Nat
    BY <1>0, <2>1
  <2> QED BY <1>0, <1>1, <1>4, <2>2
<1> QED BY <1>2, <1>4, <1>5

\* The words that memcmp skips are equal.
LEMMA WordsSkipped ==
  ASSUME NEW mem, NEW s1, NEW s2, NEW k \in Nat, \A x \in 0 .. k - 1 : SameWord(mem, s1, s2, x)
  PROVE  SameBytes(mem, s1, s2, Word * k)
<1> SUFFICES ASSUME NEW i \in 0 .. Word * k - 1 PROVE mem[s1 + i] = mem[s2 + i]
  BY DEF SameBytes
<1>1. PICK x \in 0 .. k - 1 : i \in Word * x .. Word * x + Word - 1
  BY InWord
<1> QED BY <1>1 DEF SameWord

\* memcmp, with the words it skips, tells blocks apart that differ.
LEMMA MemcmpExact ==
  ASSUME NEW mem, NEW s1, NEW s2, NEW cnt, Operands(mem, s1, s2, cnt)
  PROVE  word_memcmp(mem, s1, s2, cnt) = 0 <=> SameBytes(mem, s1, s2, cnt)
<1> DEFINE q == cnt \div Word
           Skipped(k) == (\A x \in 0 .. k - 1 : SameWord(mem, s1, s2, x)) /\ (k = q \/ ~SameWord(mem, s1, s2, k))
           words == IF Aligned(s1) /\ Aligned(s2) THEN CHOOSE k \in 0 .. q : Skipped(k) ELSE 0
           done == Word * words
           diffs == {i \in done .. cnt - 1 : mem[s1 + i] # mem[s2 + i]}
<1>0. /\ s1 \in Nat /\ s2 \in Nat /\ cnt \in Nat /\ Top \in Nat /\ Bytes \in Nat
      /\ s1 + cnt <= Top + 1 /\ s2 + cnt <= Top + 1 /\ mem \in Content
      /\ Word \in Nat /\ Word > 0
  BY CStringAssumption DEF Operands
<1>1. q \in Nat
  BY <1>0
<1>2. \E k \in 0 .. q : Skipped(k)
  <2> HIDE DEF q
  <2> DEFINE stops == {k \in 0 .. q : k = q \/ ~SameWord(mem, s1, s2, k)}
  <2>1. PICK k \in stops : \A y \in stops : k <= y
    <3>1. stops # {} /\ stops \subseteq Nat
      BY <1>1
    <3> HIDE DEF stops
    <3> QED BY <3>1, SmallestNumber
  <2>2. \A x \in 0 .. k - 1 : x \in 0 .. q /\ ~(k <= x)
    BY <1>1, <2>1
  <2> QED BY <2>1, <2>2
<1>3. words \in Nat /\ SameBytes(mem, s1, s2, Word * words)
  <2>1. CASE Aligned(s1) /\ Aligned(s2)
    <3> DEFINE k == CHOOSE k \in 0 .. q : Skipped(k)
    <3>1. k \in 0 .. q /\ Skipped(k)
      BY <1>2
    <3>2. words = k
      BY <2>1
    <3> HIDE DEF k, q, words
    <3> QED BY <1>1, <3>1, <3>2, WordsSkipped
  <2>2. CASE ~(Aligned(s1) /\ Aligned(s2))
    <3>1. words = 0
      BY <2>2
    <3> HIDE DEF words
    <3>2. 0 \in Nat /\ \A x \in 0 .. 0 - 1 : SameWord(mem, s1, s2, x)
      OBVIOUS
    <3> QED BY <3>1, <3>2, WordsSkipped
  <2> QED BY <2>1, <2>2
<1>4. word_memcmp(mem, s1, s2, cnt) =
        IF diffs = {} THEN 0
        ELSE LET i == CHOOSE x \in diffs : \A y \in diffs : x <= y IN mem[s1 + i] - mem[s2 + i]
  BY DEF word_memcmp, SameWord
<1> HIDE DEF words
<1>5. done \in Nat /\ SameBytes(mem, s1, s2, done)
  BY <1>0, <1>3
<1> HIDE DEF done
<1>6. CASE diffs = {}
  <2>1. SameBytes(mem, s1, s2, cnt)
    <3> SUFFICES ASSUME NEW i \in 0 .. cnt - 1 PROVE mem[s1 + i] = mem[s2 + i]
      BY DEF SameBytes
    <3>1. i \in 0 .. done - 1 \/ i \in done .. cnt - 1
      BY <1>0, <1>5
    <3> QED BY <1>5, <1>6, <3>1 DEF SameBytes
  <2> QED BY <1>4, <1>6, <2>1
<1>7. CASE diffs # {}
  <2> DEFINE i == CHOOSE x \in diffs : \A y \in diffs : x <= y
  <2>1. \E x \in diffs : \A y \in diffs : x <= y
    <3>1. diffs \subseteq Nat
      BY <1>0, <1>5
    <3> HIDE DEF diffs
    <3> QED BY <1>7, <3>1, SmallestNumber
  <2>2. i \in diffs
    BY <2>1
  <2>3. word_memcmp(mem, s1, s2, cnt) = mem[s1 + i] - mem[s2 + i]
    BY <1>4, <1>7
  <2> HIDE DEF i
  <2>4. i \in done .. cnt - 1 /\ mem[s1 + i] # mem[s2 + i]
    BY <2>2
  <2>5. s1 + i \in 0 .. Top /\ s2 + i \in 0 .. Top /\ i \in 0 .. cnt - 1
    BY <1>0, <1>5, <2>4
  <2>6. mem[s1 + i] \in Int /\ mem[s2 + i] \in Int
    BY <1>0, <2>5 DEF Content
  <2>7. word_memcmp(mem, s1, s2, cnt) # 0
    BY <2>3, <2>4, <2>6
  <2>8. ~SameBytes(mem, s1, s2, cnt)
    BY <2>4, <2>5 DEF SameBytes
  <2> QED BY <2>7, <2>8
<1> QED BY <1>6, <1>7

\* The strings are the same up to their end.
SameText(mem, s1, s2, k) ==
  \A i \in 0 .. k - 1 :
    \/ mem[s1 + i] = mem[s2 + i]
    \/ \E x \in 0 .. i - 1 : mem[s1 + x] = 0 /\ mem[s2 + x] = 0

\* The loop of strcmp and strncmp stops for the first time since byte l at j.
StopsFirst(mem, s1, s2, l, j) ==
  StopsAt(mem, s1, s2, j) /\ \A x \in l .. j - 1 : ~StopsAt(mem, s1, s2, x)

\* Where it does among the bytes from l on, and what is returned for it.
StopFrom(mem, s1, s2, l, cnt) == CHOOSE j \in l .. cnt - 1 : StopsFirst(mem, s1, s2, l, j)
Passes(mem, s1, s2, l, cnt) == \A j \in l .. cnt - 1 : ~StopsAt(mem, s1, s2, j)
Result(mem, s1, s2, l, cnt) ==
  IF Passes(mem, s1, s2, l, cnt) THEN 0
  ELSE mem[s1 + StopFrom(mem, s1, s2, l, cnt)] - mem[s2 + StopFrom(mem, s1, s2, l, cnt)]

\* The loop stops at one byte for the first time.
LEMMA StopUnique ==
  ASSUME NEW mem, NEW s1, NEW s2, NEW l \in Nat, NEW cnt \in Nat, NEW j \in l .. cnt - 1, StopsFirst(mem, s1, s2, l, j)
  PROVE  StopFrom(mem, s1, s2, l, cnt) = j
<1> DEFINE k == StopFrom(mem, s1, s2, l, cnt)
<1>1. k \in l .. cnt - 1 /\ StopsFirst(mem, s1, s2, l, k)
  BY DEF StopFrom
<1> HIDE DEF k
<1>2. CASE k < j
  <2>1. k \in l .. j - 1
    BY <1>1, <1>2
  <2> QED BY <1>1, <2>1 DEF StopsFirst
<1>3. CASE j < k
  <2>1. j \in l .. k - 1
    BY <1>1, <1>3
  <2> QED BY <1>1, <2>1 DEF StopsFirst
<1> QED BY <1>1, <1>2, <1>3 DEF k

\* Unless it passes all bytes it stops at one for the first time.
LEMMA StopExists ==
  ASSUME NEW mem, NEW s1, NEW s2, NEW l \in Nat, NEW cnt \in Nat, ~Passes(mem, s1, s2, l, cnt)
  PROVE  /\ StopFrom(mem, s1, s2, l, cnt) \in l .. cnt - 1
         /\ StopsFirst(mem, s1, s2, l, StopFrom(mem, s1, s2, l, cnt))
<1> DEFINE stops == {k \in l .. cnt - 1 : StopsAt(mem, s1, s2, k)}
<1>1. PICK j \in stops : \A y \in stops : j <= y
  <2>1. stops # {} /\ stops \subseteq Nat
    BY DEF Passes
  <2> HIDE DEF stops
  <2> QED BY <2>1, SmallestNumber
<1>2. j \in l .. cnt - 1 /\ StopsAt(mem, s1, s2, j)
  BY <1>1
<1>3. \A x \in l .. j - 1 : x \in l .. cnt - 1 /\ ~(j <= x)
  BY <1>2
<1>4. StopsFirst(mem, s1, s2, l, j)
  BY <1>1, <1>2, <1>3 DEF StopsFirst
<1> QED BY <1>2, <1>4 DEF StopFrom

\* A turn of the loop, with more bytes to come.
LEMMA ResultGoesOn ==
  ASSUME NEW mem, NEW s1, NEW s2, NEW l \in Nat, NEW cnt \in Nat, l < cnt
  PROVE  /\ StopsAt(mem, s1, s2, l) => Result(mem, s1, s2, l, cnt) = mem[s1 + l] - mem[s2 + l]
         /\ ~StopsAt(mem, s1, s2, l) => Result(mem, s1, s2, l, cnt) = Result(mem, s1, s2, l + 1, cnt)
<1>1. CASE StopsAt(mem, s1, s2, l)
  <2>1. l \in l .. cnt - 1 /\ StopsFirst(mem, s1, s2, l, l)
    BY <1>1 DEF StopsFirst
  <2>2. StopFrom(mem, s1, s2, l, cnt) = l
    BY <2>1, StopUnique
  <2> QED BY <1>1, <2>1, <2>2 DEF Result, Passes
<1>2. CASE ~StopsAt(mem, s1, s2, l)
  <2>1. \A j : j \in l .. cnt - 1 <=> (j = l \/ j \in l + 1 .. cnt - 1)
    OBVIOUS
  <2>2. Passes(mem, s1, s2, l, cnt) <=> Passes(mem, s1, s2, l + 1, cnt)
    BY <1>2, <2>1 DEF Passes
  <2>3. ASSUME ~Passes(mem, s1, s2, l + 1, cnt)
        PROVE  StopFrom(mem, s1, s2, l, cnt) = StopFrom(mem, s1, s2, l + 1, cnt)
    <3> DEFINE j == StopFrom(mem, s1, s2, l + 1, cnt)
    <3>1. j \in l + 1 .. cnt - 1 /\ StopsFirst(mem, s1, s2, l + 1, j)
      <4>1. l + 1 \in Nat
        OBVIOUS
      <4> QED BY <2>3, <4>1, StopExists
    <3> HIDE DEF j
    <3>2. \A x \in l .. j - 1 : x = l \/ x \in l + 1 .. j - 1
      BY <3>1
    <3>3. StopsFirst(mem, s1, s2, l, j) /\ j \in l .. cnt - 1
      BY <1>2, <3>1, <3>2 DEF StopsFirst
    <3>4. StopFrom(mem, s1, s2, l, cnt) = j
      BY <3>3, StopUnique
    <3> QED BY <3>4 DEF j
  <2> QED BY <1>2, <2>2, <2>3 DEF Result
<1> QED BY <1>1, <1>2

\* What strncmp computes, counting down the bytes that are left.
LEMMA StrncmpResult ==
  ASSUME NEW mem, NEW s1 \in Nat, NEW s2 \in Nat, NEW cnt \in Nat, cnt > 0
  PROVE  mini_strncmp(mem, s1, s2, cnt) = Result(mem, s1, s2, 0, cnt)
<1> DEFINE Body(f) == [left \in 0 .. cnt |->
               IF left # 0 /\ ~StopsAt(mem, s1, s2, cnt - left)
                 THEN IF left - 1 = 0 THEN 0 ELSE f[left - 1]
                 ELSE mem[s1 + cnt - left] - mem[s2 + cnt - left]]
           R(left) == IF left = 0 THEN mem[s1 + cnt - left] - mem[s2 + cnt - left]
                      ELSE Result(mem, s1, s2, cnt - left, cnt)
           g == [left \in 0 .. cnt |-> R(left)]
<1>1. ASSUME NEW left \in 1 .. cnt
      PROVE  R(left) = IF ~StopsAt(mem, s1, s2, cnt - left)
                         THEN IF left - 1 = 0 THEN 0 ELSE R(left - 1)
                         ELSE mem[s1 + cnt - left] - mem[s2 + cnt - left]
  <2> DEFINE l == cnt - left
  <2>1. l \in Nat /\ l < cnt /\ left # 0 /\ left \in Nat /\ cnt - (left - 1) = l + 1
        /\ s1 + cnt - left = s1 + l /\ s2 + cnt - left = s2 + l
    OBVIOUS
  <2>2. R(left) = Result(mem, s1, s2, l, cnt)
    BY <2>1
  <2>3. left - 1 # 0 => R(left - 1) = Result(mem, s1, s2, l + 1, cnt)
    BY <2>1
  <2>4. left - 1 = 0 => Result(mem, s1, s2, l + 1, cnt) = 0
    <3>1. left - 1 = 0 => l + 1 .. cnt - 1 = {}
      BY <2>1
    <3> QED BY <3>1 DEF Result, Passes
  <2>5. /\ StopsAt(mem, s1, s2, l) => Result(mem, s1, s2, l, cnt) = mem[s1 + l] - mem[s2 + l]
        /\ ~StopsAt(mem, s1, s2, l) => Result(mem, s1, s2, l, cnt) = Result(mem, s1, s2, l + 1, cnt)
    BY <2>1, ResultGoesOn
  <2> HIDE DEF R
  <2> QED BY <2>1, <2>2, <2>3, <2>4, <2>5
<1>2. mini_strncmp(mem, s1, s2, cnt) = (CHOOSE f : f = Body(f))[cnt]
  BY DEF mini_strncmp
<1>3. g = Body(g)
  <2>1. \A left \in 0 .. cnt : left = 0 \/ (left \in 1 .. cnt /\ left # 0 /\ left - 1 \in 0 .. cnt)
    OBVIOUS
  <2>2. R(0) = mem[s1 + cnt - 0] - mem[s2 + cnt - 0]
    OBVIOUS
  <2> HIDE DEF R
  <2> QED BY <1>1, <2>1, <2>2
<1>4. ASSUME NEW f, f = Body(f) PROVE f[cnt] = R(cnt)
  <2> DEFINE S == {left \in 0 .. cnt : f[left] = R(left)}
  <2>1. 0 \in S
    <3>1. 0 \in 0 .. cnt
      OBVIOUS
    <3> QED BY <1>4, <3>1
  <2>2. \A i \in 0 .. cnt - 1 : i \in S => i + 1 \in S
    <3> SUFFICES ASSUME NEW i \in 0 .. cnt - 1, i \in S PROVE i + 1 \in S
      OBVIOUS
    <3>1. i + 1 \in 1 .. cnt /\ i + 1 \in 0 .. cnt /\ (i + 1) - 1 = i /\ i + 1 # 0
      OBVIOUS
    <3>2. f[i + 1] = IF ~StopsAt(mem, s1, s2, cnt - (i + 1))
                       THEN IF (i + 1) - 1 = 0 THEN 0 ELSE f[(i + 1) - 1]
                       ELSE mem[s1 + cnt - (i + 1)] - mem[s2 + cnt - (i + 1)]
      BY <1>4, <3>1
    <3>3. f[(i + 1) - 1] = R((i + 1) - 1)
      BY <3>1
    <3> HIDE DEF R
    <3>4. f[i + 1] = R(i + 1)
      BY <1>1, <3>1, <3>2, <3>3
    <3> QED BY <3>1, <3>4
  <2> HIDE DEF S, R
  <2>3. cnt \in S
    BY <2>1, <2>2, Counting
  <2> QED BY <2>3 DEF S
<1>5. R(cnt) = Result(mem, s1, s2, 0, cnt)
  BY cnt - cnt = 0
<1> HIDE DEF Body, g, R
<1>6. (CHOOSE f : f = Body(f)) = Body(CHOOSE f : f = Body(f))
  BY <1>3
<1> QED BY <1>2, <1>4, <1>5, <1>6

\* strncmp stops at the first difference or at the end of both strings.
LEMMA StrncmpExact ==
  ASSUME NEW mem, NEW s1, NEW s2, NEW cnt, Operands(mem, s1, s2, cnt)
  PROVE  mini_strncmp(mem, s1, s2, cnt) = 0 <=> SameText(mem, s1, s2, cnt)
<1>0. /\ s1 \in Nat /\ s2 \in Nat /\ cnt \in Nat /\ Top \in Nat /\ Bytes \in Nat
      /\ s1 + cnt <= Top + 1 /\ s2 + cnt <= Top + 1 /\ mem \in Content
  BY CStringAssumption DEF Operands
<1>1. CASE Passes(mem, s1, s2, 0, cnt)
  <2>1. mini_strncmp(mem, s1, s2, cnt) = 0
    <3>1. CASE cnt = 0
      BY <3>1 DEF mini_strncmp
    <3>2. CASE cnt > 0
      BY <1>0, <1>1, <3>2, StrncmpResult DEF Result
    <3> QED BY <1>0, <3>1, <3>2
  <2>2. SameText(mem, s1, s2, cnt)
    BY <1>1 DEF SameText, StopsAt, Passes
  <2> QED BY <2>1, <2>2
<1>2. CASE ~Passes(mem, s1, s2, 0, cnt)
  <2> DEFINE k == StopFrom(mem, s1, s2, 0, cnt)
  <2>4. k \in 0 .. cnt - 1 /\ StopsFirst(mem, s1, s2, 0, k)
    BY <1>0, <1>2, StopExists
  <2>5. mini_strncmp(mem, s1, s2, cnt) = mem[s1 + k] - mem[s2 + k]
    <3>1. cnt > 0
      BY <1>0, <2>4
    <3> QED BY <1>0, <1>2, <3>1, StrncmpResult DEF Result
  <2> HIDE DEF k
  <2>6. k \in Nat /\ k < cnt /\ k \in 0 .. cnt - 1
    BY <1>0, <2>4
  <2>7. mem[s1 + k] \in Int /\ mem[s2 + k] \in Int
    <3>1. s1 + k \in 0 .. Top /\ s2 + k \in 0 .. Top
      BY <1>0, <2>6
    <3> QED BY <1>0, <3>1 DEF Content
  <2>8. \A x \in 0 .. k - 1 : mem[s1 + x] # 0 /\ mem[s1 + x] = mem[s2 + x]
    BY <2>4 DEF StopsFirst, StopsAt
  <2>9. CASE mem[s1 + k] = mem[s2 + k]
    <3>1. mini_strncmp(mem, s1, s2, cnt) = 0
      BY <2>5, <2>7, <2>9
    <3>2. mem[s1 + k] = 0 /\ mem[s2 + k] = 0
      BY <2>4, <2>9 DEF StopsFirst, StopsAt
    <3>3. ASSUME NEW i \in 0 .. cnt - 1
          PROVE  \/ mem[s1 + i] = mem[s2 + i]
                 \/ \E x \in 0 .. i - 1 : mem[s1 + x] = 0 /\ mem[s2 + x] = 0
      <4>1. i \in 0 .. k - 1 \/ i = k \/ k \in 0 .. i - 1
        BY <1>0, <2>6
      <4> QED BY <2>8, <2>9, <3>2, <4>1
    <3>4. SameText(mem, s1, s2, cnt)
      BY <3>3 DEF SameText
    <3> QED BY <3>1, <3>4
  <2>10. CASE mem[s1 + k] # mem[s2 + k]
    <3>1. mini_strncmp(mem, s1, s2, cnt) # 0
      BY <2>5, <2>7, <2>10
    <3>2. ~SameText(mem, s1, s2, cnt)
      BY <2>6, <2>8, <2>10 DEF SameText
    <3> QED BY <3>1, <3>2
  <2> QED BY <2>9, <2>10
<1> QED BY <1>1, <1>2

----------------------------------------------------------------------------
\* Before the call the memory holds bytes; after it the two properties hold.
StrInv ==
  /\ cCall.fn = "none" => cMem \in Content
  /\ BlockMoved
  /\ ZeroMeansEqual

\* Before the first call.
LEMMA StrStarts == StrInit => StrInv
BY CStringAssumption DEF StrInit, StrInv, Content, BlockMoved, ZeroMeansEqual

\* A call that leaves the block at its new place.
LEMMA MoveKeeps ==
  ASSUME NEW fn \in {"memmove", "memcpy", "strcpy"}, NEW to, NEW from, NEW cnt, NEW new,
         new = Moved(cMem, to, from, cnt), Changes(fn, to, from, cnt, new)
  PROVE  StrInv'
BY DEF StrInv, Changes, BlockMoved, ZeroMeansEqual, Moved

\* A call of which the two properties say nothing.
LEMMA OtherKeeps ==
  ASSUME NEW fn \in {"memset", "strncpy", "strcmp", "strchr", "strlen"}, NEW to, NEW from, NEW cnt, NEW x,
         Changes(fn, to, from, cnt, x) \/ Returns(fn, to, from, cnt, x)
  PROVE  StrInv'
<1>1. cCall' = [fn |-> fn, d |-> to, s |-> from, n |-> cnt]
  BY DEF Changes, Returns
<1>2. cCall'.fn = fn
  BY <1>1
<1>3. cCall'.fn \notin {"none", "memmove", "memcpy", "strcpy", "memcmp", "strncmp"}
  BY <1>2
<1> QED BY <1>3 DEF StrInv, BlockMoved, ZeroMeansEqual

\* memcmp with an exact result.
LEMMA MemcmpKeeps ==
  ASSUME NEW to, NEW from, NEW cnt, NEW x, Returns("memcmp", to, from, cnt, x),
         x = 0 <=> SameBytes(cMem, to, from, cnt)
  PROVE  StrInv'
<1>1. cCall'.fn = "memcmp" /\ cCall'.d = to /\ cCall'.s = from /\ cCall'.n = cnt /\ cRet' = x /\ cMem' = cMem
  BY DEF Returns
<1>2. AgreeUpTo(cCall.n, FALSE)' <=> SameBytes(cMem, to, from, cnt)
  BY <1>1 DEF AgreeUpTo, SameBytes
<1> QED BY <1>1, <1>2 DEF StrInv, BlockMoved, ZeroMeansEqual

\* strncmp with an exact result.
LEMMA StrncmpKeeps ==
  ASSUME NEW to, NEW from, NEW cnt, NEW x, Returns("strncmp", to, from, cnt, x),
         x = 0 <=> SameText(cMem, to, from, cnt)
  PROVE  StrInv'
<1>1. cCall'.fn = "strncmp" /\ cCall'.d = to /\ cCall'.s = from /\ cCall'.n = cnt /\ cRet' = x /\ cMem' = cMem
  BY DEF Returns
<1>2. AgreeUpTo(cCall.n, TRUE)' <=> SameText(cMem, to, from, cnt)
  BY <1>1 DEF AgreeUpTo, SameText
<1> QED BY <1>1, <1>2 DEF StrInv, BlockMoved, ZeroMeansEqual

\* The calls by their kind: operands of the same length, calls that the
\* properties leave out, comparisons and copies of strings.
OnBlocks(to, from, cnt) ==
  /\ to + cnt <= Top + 1 /\ from + cnt <= Top + 1
  /\ \/ Changes("memmove", to, from, cnt, mini_memmove(cMem, to, from, cnt))
     \/ Apart(to, from, cnt) /\ Changes("memcpy", to, from, cnt, mini_memcpy(cMem, to, from, cnt))
     \/ Apart(to, from, cnt) /\ Changes("memcpy", to, from, cnt, word_memcpy(cMem, to, from, cnt))
     \/ Returns("memcmp", to, from, cnt, word_memcmp(cMem, to, from, cnt))
Other(to, from, cnt) ==
  \E fn \in {"memset", "strncpy", "strcmp", "strchr", "strlen"} : \E x :
    Changes(fn, to, from, cnt, x) \/ Returns(fn, to, from, cnt, x)
Strncmp(to, from, cnt) ==
  /\ cnt <= Top + 1 - (IF to > from THEN to ELSE from)
  /\ Returns("strncmp", to, from, cnt, mini_strncmp(cMem, to, from, cnt))
Strcpy(to, from, cnt) ==
  /\ HasString(cMem, from) /\ cnt = mini_strlen(cMem, from) + 1
  /\ to + cnt <= Top + 1 /\ Apart(to, from, cnt)
  /\ Changes("strcpy", to, from, cnt, word_strcpy(cMem, to, from))

\* Every call is of one of these kinds.
LEMMA KindOfCall ==
  ASSUME StrNext
  PROVE  \E to \in 0 .. Top, from \in 0 .. Top :
           \/ \E cnt \in 0 .. Top + 1 : OnBlocks(to, from, cnt) \/ Other(to, from, cnt) \/ Strncmp(to, from, cnt)
           \/ \E cnt : Strcpy(to, from, cnt)
<1>1. PICK to \in 0 .. Top, from \in 0 .. Top, cnt \in 0 .. Top + 1 :
      \/ OnBlocks(to, from, cnt)
      \/ Changes("strncpy", to, from, cnt, mini_strncpy(cMem, to, from, cnt))
      \/ Changes("memset", to, from, cnt, mini_memset(cMem, to, from, cnt))
      \/ Changes("memset", to, from, cnt, word_memset(cMem, to, from, cnt))
      \/ Strncmp(to, from, cnt)
      \/ Returns("strcmp", to, from, cnt, mini_strcmp(cMem, to, from))
      \/ Returns("strcmp", to, from, cnt, word_strcmp(cMem, to, from))
      \/ Returns("strchr", to, from, cnt, mini_strchr(cMem, to, cnt))
      \/ Returns("strlen", to, from, cnt, mini_strlen(cMem, from))
      \/ Returns("strlen", to, from, cnt, word_strlen(cMem, from))
      \/ Strcpy(to, from, mini_strlen(cMem, from) + 1)
  BY DEF StrNext, OnBlocks, Strncmp, Strcpy
<1> QED BY <1>1, Zenon DEF Other

\* The calls on two blocks of the same length.
LEMMA BlocksKeep ==
  ASSUME StrInv, NEW to \in 0 .. Top, NEW from \in 0 .. Top, NEW cnt \in 0 .. Top + 1, OnBlocks(to, from, cnt)
  PROVE  StrInv'
<1>0. Operands(cMem, to, from, cnt)
  <2>1. cMem \in Content
    BY DEF OnBlocks, Changes, Returns, StrInv
  <2> QED BY <2>1, CStringAssumption DEF Operands, OnBlocks
<1>1. CASE Changes("memmove", to, from, cnt, mini_memmove(cMem, to, from, cnt))
  <2>1. mini_memmove(cMem, to, from, cnt) = Moved(cMem, to, from, cnt)
    <3>1. CASE to < from
      BY <1>0, <3>1, UpwardMoves DEF mini_memmove
    <3>2. CASE ~(to < from)
      <4>1. to >= from
        BY <3>2, CStringAssumption
      <4> QED BY <1>0, <3>2, <4>1, DownwardMoves DEF mini_memmove
    <3> QED BY <3>1, <3>2
  <2> QED BY <1>1, <2>1, MoveKeeps
<1>2. CASE Apart(to, from, cnt) /\ Changes("memcpy", to, from, cnt, mini_memcpy(cMem, to, from, cnt))
  <2>1. mini_memcpy(cMem, to, from, cnt) = Moved(cMem, to, from, cnt)
    BY <1>0, <1>2, UpwardMoves DEF mini_memcpy
  <2> QED BY <1>2, <2>1, MoveKeeps
<1>3. CASE Apart(to, from, cnt) /\ Changes("memcpy", to, from, cnt, word_memcpy(cMem, to, from, cnt))
  <2>1. word_memcpy(cMem, to, from, cnt) = Moved(cMem, to, from, cnt)
    BY <1>0, <1>3, UpwardMoves, WordsMove DEF word_memcpy
  <2> QED BY <1>3, <2>1, MoveKeeps
<1>4. CASE Returns("memcmp", to, from, cnt, word_memcmp(cMem, to, from, cnt))
  <2>1. word_memcmp(cMem, to, from, cnt) = 0 <=> SameBytes(cMem, to, from, cnt)
    BY <1>0, MemcmpExact
  <2> QED BY <1>4, <2>1, MemcmpKeeps
<1> QED BY <1>1, <1>2, <1>3, <1>4 DEF OnBlocks

\* Every call keeps the invariant.
LEMMA StrKept == ASSUME StrInv, [StrNext]_strVars PROVE StrInv'
<1>1. CASE UNCHANGED strVars
  BY <1>1 DEF StrInv, strVars, BlockMoved, ZeroMeansEqual, AgreeUpTo
<1>2. CASE StrNext
  <2>1. PICK to \in 0 .. Top, from \in 0 .. Top :
           \/ \E cnt \in 0 .. Top + 1 : OnBlocks(to, from, cnt) \/ Other(to, from, cnt) \/ Strncmp(to, from, cnt)
           \/ \E cnt : Strcpy(to, from, cnt)
    BY <1>2, KindOfCall
  <2>2. ASSUME NEW cnt \in 0 .. Top + 1, OnBlocks(to, from, cnt) PROVE StrInv'
    BY <2>2, BlocksKeep
  <2>3. ASSUME NEW cnt \in 0 .. Top + 1, Other(to, from, cnt) PROVE StrInv'
    <3>1. PICK fn \in {"memset", "strncpy", "strcmp", "strchr", "strlen"} : \E x :
            Changes(fn, to, from, cnt, x) \/ Returns(fn, to, from, cnt, x)
      BY <2>3 DEF Other
    <3> QED BY <3>1, OtherKeeps
  <2>4. ASSUME NEW cnt \in 0 .. Top + 1, Strncmp(to, from, cnt) PROVE StrInv'
    <3>1. cMem \in Content
      BY <2>4 DEF Strncmp, Returns, StrInv
    <3>2. Operands(cMem, to, from, cnt)
      BY <2>4, <3>1, CStringAssumption DEF Operands, Strncmp
    <3>3. mini_strncmp(cMem, to, from, cnt) = 0 <=> SameText(cMem, to, from, cnt)
      BY <3>2, StrncmpExact
    <3> QED BY <2>4, <3>3, StrncmpKeeps DEF Strncmp
  <2>5. ASSUME NEW cnt, Strcpy(to, from, cnt) PROVE StrInv'
    <3>1. cMem \in Content
      BY <2>5 DEF Strcpy, Changes, StrInv
    <3>2. mini_strlen(cMem, from) \in Nat /\ from + mini_strlen(cMem, from) <= Top
      BY <2>5, StringInside DEF Strcpy
    <3>3. Operands(cMem, to, from, cnt)
      BY <2>5, <3>1, <3>2, CStringAssumption DEF Operands, Strcpy
    <3>4. word_strcpy(cMem, to, from) = Moved(cMem, to, from, cnt)
      BY <2>5, <3>3, UpwardMoves DEF word_strcpy, Strcpy
    <3> QED BY <2>5, <3>4, MoveKeeps DEF Strcpy
  <2> QED BY <2>1, <2>2, <2>3, <2>4, <2>5
<1> QED BY <1>1, <1>2

\* The invariant of the string functions holds in every state.
LEMMA StrSafe == StrSpec => []StrInv
BY StrStarts, StrKept, PTL DEF StrSpec

\* memmove, memcpy and strcpy leave the source block at the
\* destination and nothing else changed, by bytes or by words, and memmove
\* also when the operands overlap (minlibc string.c, for every memory).
THEOREM BlockMovedHolds == StrSpec => []BlockMoved
<1>1. StrInv => BlockMoved
  BY DEF StrInv
<1> QED BY <1>1, StrSafe, PTL

\* memcmp and strncmp return zero exactly for operands that agree
\* over the given length, or up to the end of the strings (string.c).
THEOREM ZeroMeansEqualHolds == StrSpec => []ZeroMeansEqual
<1>1. StrInv => ZeroMeansEqual
  BY DEF StrInv
<1> QED BY <1>1, StrSafe, PTL

----------------------------------------------------------------------------
(***************************************************************************)
(* The dot product.  Lane i of k has the products k * j + i of the chunks  *)
(* done; the lengths and the vector lengths are such that no chunk is cut  *)
(* short, so the reduction of the lanes has got every product once.        *)
(***************************************************************************)

\* A sum to which every product of S was added once, and no other.
Once(sq, S) ==
  /\ sq \in Seq(Int)
  /\ \A k \in 1 .. Len(sq) : sq[k] \in S
  /\ \A x \in S : \E k \in 1 .. Len(sq) : sq[k] = x
  /\ \A j, k \in 1 .. Len(sq) : sq[j] = sq[k] => j = k

\* No product yet.
LEMMA OnceNone == Once(<<>>, {})
BY DEF Once

\* Two partial sums over different products.
LEMMA OnceBoth ==
  ASSUME NEW x, NEW y, NEW S, NEW T, Once(x, S), Once(y, T), S \cap T = {}
  PROVE  Once(x \o y, S \cup T)
<1> DEFINE z == x \o y
<1>0. x \in Seq(Int) /\ y \in Seq(Int) /\ Len(x) \in Nat /\ Len(y) \in Nat
  BY DEF Once
<1>1. /\ z \in Seq(Int) /\ Len(z) = Len(x) + Len(y)
      /\ \A k \in 1 .. Len(x) : z[k] = x[k]
      /\ \A k \in 1 .. Len(y) : z[k + Len(x)] = y[k]
  BY <1>0
<1> HIDE DEF z
<1>2. ASSUME NEW k \in 1 .. Len(z)
      PROVE  \/ k \in 1 .. Len(x) /\ z[k] = x[k] /\ z[k] \in S
             \/ k - Len(x) \in 1 .. Len(y) /\ z[k] = y[k - Len(x)] /\ z[k] \in T
  <2>1. k \in 1 .. Len(x) \/ (k - Len(x) \in 1 .. Len(y) /\ (k - Len(x)) + Len(x) = k)
    BY <1>0, <1>1
  <2>2. CASE k \in 1 .. Len(x)
    BY <1>1, <2>2 DEF Once
  <2>3. CASE k - Len(x) \in 1 .. Len(y) /\ (k - Len(x)) + Len(x) = k
    <3>1. z[k] = y[k - Len(x)]
      BY <1>1, <2>3
    <3> QED BY <2>3, <3>1 DEF Once
  <2> QED BY <2>1, <2>2, <2>3
<1>3. ASSUME NEW a \in S \cup T PROVE \E k \in 1 .. Len(z) : z[k] = a
  <2>1. CASE a \in S
    <3>1. PICK k \in 1 .. Len(x) : x[k] = a
      BY <2>1 DEF Once
    <3>2. k \in 1 .. Len(z)
      BY <1>0, <1>1
    <3> QED BY <1>1, <3>1, <3>2
  <2>2. CASE a \in T
    <3>1. PICK k \in 1 .. Len(y) : y[k] = a
      BY <2>2 DEF Once
    <3>2. k + Len(x) \in 1 .. Len(z)
      BY <1>0, <1>1
    <3> QED BY <1>1, <3>1, <3>2
  <2> QED BY <2>1, <2>2
<1>4. ASSUME NEW j \in 1 .. Len(z), NEW k \in 1 .. Len(z), z[j] = z[k] PROVE j = k
  <2>1. CASE j \in 1 .. Len(x) /\ z[j] = x[j] /\ z[j] \in S
    <3>1. k \in 1 .. Len(x) /\ z[k] = x[k]
      BY <1>2, <1>4, <2>1
    <3> QED BY <1>4, <2>1, <3>1 DEF Once
  <2>2. CASE j - Len(x) \in 1 .. Len(y) /\ z[j] = y[j - Len(x)] /\ z[j] \in T
    <3>1. k - Len(x) \in 1 .. Len(y) /\ z[k] = y[k - Len(x)]
      BY <1>2, <1>4, <2>2
    <3>2. y[j - Len(x)] = y[k - Len(x)]
      BY <1>4, <2>2, <3>1
    <3>3. j - Len(x) = k - Len(x)
      BY <2>2, <3>1, <3>2 DEF Once
    <3> QED BY <1>0, <3>3
  <2> QED BY <1>2, <2>1, <2>2
<1>5. Once(z, S \cup T)
  BY <1>1, <1>2, <1>3, <1>4 DEF Once
<1> QED BY <1>5 DEF z

\* A partial sum and one more product.
LEMMA OnceMore ==
  ASSUME NEW x, NEW S, Once(x, S), NEW a \in Int, a \notin S
  PROVE  Once(Append(x, a), S \cup {a})
<1>1. Once(<<a>>, {a})
  <2>1. <<a>> \in Seq(Int) /\ Len(<<a>>) = 1 /\ <<a>>[1] = a
    OBVIOUS
  <2> QED BY <2>1 DEF Once
<1>2. Append(x, a) = x \o <<a>>
  BY DEF Once
<1> QED BY <1>1, <1>2, OnceBoth

\* Sums of the same products compare equal.
LEMMA OnceCounts ==
  ASSUME NEW sq, NEW S, Once(sq, S)
  PROVE  Products(sq) = {<<i, 1>> : i \in S}
<1>1. DOMAIN sq = 1 .. Len(sq)
  BY DEF Once
<1>2. {sq[k] : k \in DOMAIN sq} = S
  BY <1>1 DEF Once
<1>3. ASSUME NEW i \in S PROVE Cardinality({k \in DOMAIN sq : sq[k] = i}) = 1
  <2>1. PICK k \in 1 .. Len(sq) : sq[k] = i
    BY DEF Once
  <2>2. {j \in DOMAIN sq : sq[j] = i} = {k}
    BY <1>1, <2>1 DEF Once
  <2>3. Cardinality({k}) = 1
    BY FS_Singleton
  <2> QED BY <2>2, <2>3
<1>4. Products(sq) = {<<i, Cardinality({k \in DOMAIN sq : sq[k] = i})>> : i \in S}
  BY <1>2 DEF Products
<1> QED BY <1>3, <1>4

\* What lane i of k has got after cc chunks.
Strided(i, k, cc) == {k * j + i : j \in 0 .. cc - 1}

\* A product belongs to one lane and one chunk.
LEMMA SameDivision ==
  ASSUME NEW k \in Nat, NEW x \in Nat, NEW y \in Nat, NEW i \in 0 .. k - 1, NEW j \in 0 .. k - 1,
         k * x + i = k * y + j
  PROVE  x = y /\ i = j
<1>1. ASSUME NEW u \in Nat, NEW v \in Nat, NEW r \in 0 .. k - 1, NEW q \in 0 .. k - 1, k * u + r = k * v + q, u < v
      PROVE  FALSE
  <2>1. PICK w \in Nat : v = u + 1 + w
    <3>1. v - u - 1 \in Nat /\ v = u + 1 + (v - u - 1)
      BY <1>1
    <3> QED BY <3>1
  <2>2. k * v = k * u + k + k * w /\ k * w \in Nat /\ k * u \in Nat
    BY <2>1
  <2> QED BY <1>1, <2>2
<1>2. ~(x < y) /\ ~(y < x)
  BY <1>1
<1>3. x = y
  BY <1>2
<1>4. k * x \in Nat
  OBVIOUS
<1> QED BY <1>3, <1>4

\* A chunk gives each lane one more product.
LEMMA StridedGrows ==
  ASSUME NEW k \in Nat, NEW i \in 0 .. k - 1, NEW cc \in Nat
  PROVE  /\ Strided(i, k, cc + 1) = Strided(i, k, cc) \cup {k * cc + i}
         /\ k * cc + i \in Int /\ k * cc + i \notin Strided(i, k, cc)
<1>1. \A j \in 0 .. (cc + 1) - 1 : j \in 0 .. cc - 1 \/ j = cc
  OBVIOUS
<1>2. \A j \in 0 .. cc - 1 : j \in 0 .. (cc + 1) - 1 /\ j # cc /\ j \in Nat
  OBVIOUS
<1>3. cc \in 0 .. (cc + 1) - 1
  OBVIOUS
<1>4. Strided(i, k, cc + 1) = Strided(i, k, cc) \cup {k * cc + i}
  BY <1>1, <1>2, <1>3, Zenon DEF Strided
<1>5. k * cc + i \notin Strided(i, k, cc)
  <2> SUFFICES ASSUME NEW j \in 0 .. cc - 1, k * cc + i = k * j + i PROVE FALSE
    BY DEF Strided
  <2>1. j \in Nat /\ j # cc
    BY <1>2
  <2> QED BY <2>1, SameDivision
<1>6. k * cc + i \in Int
  OBVIOUS
<1> QED BY <1>4, <1>5, <1>6

\* Two lanes share no product.
LEMMA StridedApart ==
  ASSUME NEW k \in Nat, NEW i \in 0 .. k - 1, NEW j \in 0 .. k - 1, i # j, NEW cc \in Nat
  PROVE  Strided(i, k, cc) \cap Strided(j, k, cc) = {}
<1> SUFFICES ASSUME NEW x \in 0 .. cc - 1, NEW y \in 0 .. cc - 1, k * x + i = k * y + j PROVE FALSE
  BY DEF Strided
<1>1. x \in Nat /\ y \in Nat
  OBVIOUS
<1> QED BY <1>1, SameDivision

\* The lanes below r together.
Lanes(r, k, cc) == UNION {Strided(i, k, cc) : i \in 0 .. r - 1}

\* No lane has no product.
LEMMA LanesNone == \A k, cc : Lanes(0, k, cc) = {}
BY DEF Lanes

\* One lane more.
LEMMA LanesMore ==
  ASSUME NEW k \in Nat, NEW r \in 0 .. k - 1, NEW cc \in Nat
  PROVE  /\ Lanes(r + 1, k, cc) = Lanes(r, k, cc) \cup Strided(r, k, cc)
         /\ Lanes(r, k, cc) \cap Strided(r, k, cc) = {}
<1>1. \A j \in 0 .. (r + 1) - 1 : j \in 0 .. r - 1 \/ j = r
  OBVIOUS
<1>2. \A j \in 0 .. r - 1 : j \in 0 .. (r + 1) - 1 /\ j # r /\ j \in 0 .. k - 1
  OBVIOUS
<1>3. r \in 0 .. (r + 1) - 1
  OBVIOUS
<1>4. Lanes(r + 1, k, cc) = Lanes(r, k, cc) \cup Strided(r, k, cc)
  BY <1>1, <1>2, <1>3 DEF Lanes
<1>5. \A j \in 0 .. r - 1 : Strided(j, k, cc) \cap Strided(r, k, cc) = {}
  BY <1>2, StridedApart
<1>6. Lanes(r, k, cc) \cap Strided(r, k, cc) = {}
  BY <1>5 DEF Lanes
<1> QED BY <1>4, <1>6

\* All lanes together have all products of the chunks.
LEMMA LanesAll ==
  ASSUME NEW k \in Nat, k > 0, NEW cc \in Nat
  PROVE  Lanes(k, k, cc) = 0 .. k * cc - 1
<1>1. ASSUME NEW x \in Lanes(k, k, cc) PROVE x \in 0 .. k * cc - 1
  <2>1. PICK i \in 0 .. k - 1 : x \in Strided(i, k, cc)
    BY <1>1 DEF Lanes
  <2>2. PICK j \in 0 .. cc - 1 : x = k * j + i
    BY <2>1 DEF Strided
  <2>3. PICK w \in Nat : cc = j + 1 + w
    <3>1. cc - j - 1 \in Nat /\ cc = j + 1 + (cc - j - 1)
      OBVIOUS
    <3> QED BY <3>1
  <2>4. k * cc = k * j + k + k * w /\ k * w \in Nat /\ k * j \in Nat
    BY <2>3
  <2> QED BY <2>2, <2>4
<1>2. ASSUME NEW x \in 0 .. k * cc - 1 PROVE x \in Lanes(k, k, cc)
  <2> DEFINE j == x \div k
             i == x % k
  <2>0. k * cc \in Nat /\ x \in Nat /\ x < k * cc
    OBVIOUS
  <2>1. j \in Nat /\ i \in 0 .. k - 1 /\ x = k * j + i
    BY <2>0
  <2> HIDE DEF i, j
  <2>2. j < cc
    <3> SUFFICES ASSUME j >= cc PROVE FALSE
      BY <2>1
    <3>1. PICK w \in Nat : j = cc + w
      <4>1. j - cc \in Nat /\ j = cc + (j - cc)
        BY <2>1
      <4> QED BY <4>1
    <3>2. k * j = k * cc + k * w /\ k * w \in Nat
      BY <3>1
    <3> QED BY <2>0, <2>1, <3>2
  <2>3. x \in Strided(i, k, cc)
    BY <2>1, <2>2 DEF Strided
  <2> QED BY <2>1, <2>3 DEF Lanes
<1> QED BY <1>1, <1>2

\* A recursive function of the lanes exists up to every lane.
Cat(f, g, k) == g = [i \in 0 .. k |-> IF i = 0 THEN <<>> ELSE g[i - 1] \o f[i - 1]]

\* The recursion that joins the lanes goes one lane further.
LEMMA CatMore ==
  ASSUME NEW f, NEW g, NEW k \in Nat, Cat(f, g, k)
  PROVE  \E h : Cat(f, h, k + 1)
<1> DEFINE h == [i \in 0 .. k + 1 |-> IF i = k + 1 THEN g[k] \o f[k] ELSE g[i]]
<1>1. ASSUME NEW i \in 0 .. k + 1 PROVE h[i] = IF i = 0 THEN <<>> ELSE h[i - 1] \o f[i - 1]
  <2>1. CASE i = k + 1
    <3>1. k \in 0 .. k + 1 /\ k # k + 1 /\ i - 1 = k /\ i # 0
      BY <2>1
    <3>2. h[k] = g[k]
      BY <3>1
    <3>3. h[i] = g[k] \o f[k]
      BY <2>1
    <3> QED BY <3>1, <3>2, <3>3
  <2>2. CASE i # k + 1 /\ i # 0
    <3>1. i \in 0 .. k /\ i - 1 \in 0 .. k + 1 /\ i - 1 # k + 1
      BY <2>2
    <3>2. h[i] = g[i] /\ h[i - 1] = g[i - 1]
      BY <2>2, <3>1
    <3>3. g[i] = g[i - 1] \o f[i - 1]
      BY <2>2, <3>1 DEF Cat
    <3> QED BY <2>2, <3>2, <3>3
  <2>3. CASE i = 0
    <3>1. i \in 0 .. k /\ i # k + 1
      BY <2>3
    <3>2. h[i] = g[i]
      BY <3>1
    <3>3. g[i] = <<>>
      BY <2>3, <3>1 DEF Cat
    <3> QED BY <2>3, <3>2, <3>3
  <2> QED BY <2>1, <2>2, <2>3
<1>2. h = [i \in 0 .. k + 1 |-> h[i]]
  OBVIOUS
<1> HIDE DEF h
<1>3. Cat(f, h, k + 1)
  BY <1>1, <1>2 DEF Cat
<1> QED BY <1>3

\* So it is defined for every number of lanes.
LEMMA CatExists ==
  ASSUME NEW f, NEW k \in Nat
  PROVE  \E g : Cat(f, g, k)
<1> DEFINE S == {i \in Nat : \E g : Cat(f, g, i)}
<1>1. 0 \in S
  <2> DEFINE g == [i \in 0 .. 0 |-> <<>>]
  <2>1. g = [i \in 0 .. 0 |-> IF i = 0 THEN <<>> ELSE g[i - 1] \o f[i - 1]]
    OBVIOUS
  <2> HIDE DEF g
  <2>2. Cat(f, g, 0)
    BY <2>1 DEF Cat
  <2> QED BY <2>2
<1>2. \A i \in 0 .. k - 1 : i \in S => i + 1 \in S
  BY CatMore
<1> HIDE DEF S
<1>3. k \in S
  BY <1>1, <1>2, Counting
<1> QED BY <1>3 DEF S

\* The reduction of lanes that have got their shares has got them all.
LEMMA GatherOnce ==
  ASSUME NEW f, NEW k \in Nat, k > 0, NEW cc \in Nat, \A i \in 0 .. k - 1 : Once(f[i], Strided(i, k, cc))
  PROVE  Once(Gather(f, k), 0 .. k * cc - 1)
<1> DEFINE g == CHOOSE h : h = [i \in 0 .. k |-> IF i = 0 THEN <<>> ELSE h[i - 1] \o f[i - 1]]
<1>1. Gather(f, k) = g[k]
  BY Zenon DEF Gather
<1>2. Cat(f, g, k)
  BY CatExists DEF Cat
<1> HIDE DEF g
<1> DEFINE S == {i \in 0 .. k : Once(g[i], Lanes(i, k, cc))}
<1>3. 0 \in S
  <2>1. g[0] = <<>> /\ 0 \in 0 .. k
    BY <1>2 DEF Cat
  <2>2. Once(g[0], Lanes(0, k, cc))
    BY <2>1, OnceNone, LanesNone
  <2> QED BY <2>1, <2>2
<1>4. ASSUME NEW i \in 0 .. k - 1, i \in S PROVE i + 1 \in S
  <2>1. i + 1 \in 0 .. k /\ i + 1 # 0 /\ (i + 1) - 1 = i
    OBVIOUS
  <2>2. g[i + 1] = g[i] \o f[i]
    BY <1>2, <2>1 DEF Cat
  <2>3. Once(g[i], Lanes(i, k, cc)) /\ Once(f[i], Strided(i, k, cc))
    BY <1>4
  <2>4. Lanes(i + 1, k, cc) = Lanes(i, k, cc) \cup Strided(i, k, cc) /\ Lanes(i, k, cc) \cap Strided(i, k, cc) = {}
    BY LanesMore
  <2>5. Once(g[i + 1], Lanes(i + 1, k, cc))
    BY <2>2, <2>3, <2>4, OnceBoth
  <2> QED BY <2>1, <2>5
<1> HIDE DEF S
<1>5. k \in S
  BY <1>3, <1>4, Counting
<1>6. Once(g[k], Lanes(k, k, cc))
  BY <1>5 DEF S
<1> QED BY <1>1, <1>6, LanesAll

\* So has the tree of the scalar kernel.
LEMMA TreeOnce ==
  ASSUME NEW f, NEW cc \in Nat, \A i \in 0 .. 7 : Once(f[i], Strided(i, 8, cc))
  PROVE  Once(Tree(f), 0 .. 8 * cc - 1)
<1> DEFINE P(i) == Strided(i, 8, cc)
<1>1. /\ Once(f[0], P(0)) /\ Once(f[1], P(1)) /\ Once(f[2], P(2)) /\ Once(f[3], P(3))
      /\ Once(f[4], P(4)) /\ Once(f[5], P(5)) /\ Once(f[6], P(6)) /\ Once(f[7], P(7))
  OBVIOUS
<1>2. \A i, j \in 0 .. 7 : i # j => P(i) \cap P(j) = {}
  BY StridedApart
<1>3. Lanes(8, 8, cc) = ((P(0) \cup P(1)) \cup (P(2) \cup P(3))) \cup ((P(4) \cup P(5)) \cup (P(6) \cup P(7)))
  <2>1. 0 .. 8 - 1 = {0, 1, 2, 3, 4, 5, 6, 7}
    OBVIOUS
  <2> HIDE DEF P
  <2>2. Lanes(8, 8, cc) = UNION {P(i) : i \in {0, 1, 2, 3, 4, 5, 6, 7}}
    BY <2>1 DEF Lanes, P
  <2> QED BY <2>2
<1> HIDE DEF P
<1>4. /\ Once(f[0] \o f[1], P(0) \cup P(1)) /\ Once(f[2] \o f[3], P(2) \cup P(3))
      /\ Once(f[4] \o f[5], P(4) \cup P(5)) /\ Once(f[6] \o f[7], P(6) \cup P(7))
  <2>1. P(0) \cap P(1) = {} /\ P(2) \cap P(3) = {} /\ P(4) \cap P(5) = {} /\ P(6) \cap P(7) = {}
    BY <1>2
  <2> QED BY <1>1, <2>1, OnceBoth
<1>5. /\ Once((f[0] \o f[1]) \o (f[2] \o f[3]), (P(0) \cup P(1)) \cup (P(2) \cup P(3)))
      /\ Once((f[4] \o f[5]) \o (f[6] \o f[7]), (P(4) \cup P(5)) \cup (P(6) \cup P(7)))
  <2>1. /\ P(0) \cap P(2) = {} /\ P(0) \cap P(3) = {} /\ P(1) \cap P(2) = {} /\ P(1) \cap P(3) = {}
        /\ P(4) \cap P(6) = {} /\ P(4) \cap P(7) = {} /\ P(5) \cap P(6) = {} /\ P(5) \cap P(7) = {}
    BY <1>2
  <2>2. (P(0) \cup P(1)) \cap (P(2) \cup P(3)) = {} /\ (P(4) \cup P(5)) \cap (P(6) \cup P(7)) = {}
    BY <2>1
  <2> QED BY <1>4, <2>2, OnceBoth
<1>6. ((P(0) \cup P(1)) \cup (P(2) \cup P(3))) \cap ((P(4) \cup P(5)) \cup (P(6) \cup P(7))) = {}
  <2>1. \A i \in {0, 1, 2, 3}, j \in {4, 5, 6, 7} : P(i) \cap P(j) = {}
    BY <1>2
  <2> QED BY <2>1
<1>7. Once(Tree(f), Lanes(8, 8, cc))
  BY <1>3, <1>5, <1>6, OnceBoth DEF Tree
<1> QED BY <1>7, LanesAll

----------------------------------------------------------------------------
(* The chunks come out even.                                               *)

AllWidths == {64, 32, 16, 8}
Pow2 == {1, 2, 4, 8, 16, 32, 64, 128, 256, 512, 1024, 2048, 4096, 8192, 16384, 32768, 65536}

\* The lanes of a vector register, for each width of an element.
LEMMA LanesArePow2 == \A w \in AllWidths : VLMAX(w) \in Pow2
<1>1. ASSUME NEW w \in AllWidths, NEW z \in {8, 16, 32, 64, 128, 256, 512, 1024, 2048, 4096, 8192, 16384, 32768, 65536}
      PROVE  (8 * z) \div w \in Pow2
  BY SMTT(60) DEF AllWidths, Pow2
<1> QED BY <1>1, DotpAssumption DEF VLMAX

\* A length that the programs reach, and a power of two.
Fits(x, k) ==
  /\ x \in Nat /\ x > 0 /\ Multiple(x, 8)
  /\ Multiple(x, k) \/ \E q \in Pow2 : k = x * q

\* The first length that main tries.
LEMMA FitsFirst == ASSUME NEW k \in Pow2 PROVE Fits(8, k)
<1>1. Multiple(8, 8)
  <2>1. 8 = 8 * 1 /\ 1 \in Nat
    OBVIOUS
  <2> QED BY <2>1, Zenon DEF Multiple
<1>2. CASE k \in {1, 2, 4, 8}
  <2>1. \E q \in {1, 2, 4, 8} : 8 = k * q
    BY <1>2
  <2>2. Multiple(8, k)
    BY <2>1 DEF Multiple
  <2> QED BY <1>1, <2>2 DEF Fits
<1>3. CASE k \notin {1, 2, 4, 8}
  <2>1. \E q \in Pow2 : k = 8 * q
    BY <1>3 DEF Pow2
  <2> QED BY <1>1, <2>1 DEF Fits
<1> QED BY <1>2, <1>3

\* And the next one, eight times as long.
LEMMA FitsNext == ASSUME NEW x, NEW k \in Pow2, Fits(x, k) PROVE Fits(8 * x, k)
<1>0. x \in Nat /\ x > 0 /\ k \in Nat /\ 8 * x \in Nat /\ 8 * x > 0
  BY DEF Fits, Pow2
<1>1. Multiple(8 * x, 8)
  BY <1>0 DEF Multiple
<1>2. CASE Multiple(x, k)
  <2>1. PICK q \in Nat : x = k * q
    BY <1>2 DEF Multiple
  <2>2. 8 * x = k * (8 * q) /\ 8 * q \in Nat
    BY <1>0, <2>1
  <2>3. Multiple(8 * x, k)
    BY <2>2 DEF Multiple
  <2> QED BY <1>0, <1>1, <2>3 DEF Fits
<1>3. CASE \E q \in Pow2 : k = x * q
  <2>1. PICK q \in Pow2 : k = x * q
    BY <1>3
  <2>2. CASE q \in {1, 2, 4, 8}
    <3>1. \E r \in {1, 2, 4, 8} : r * q = 8
      BY <2>2
    <3>2. PICK r \in {1, 2, 4, 8} : r * q = 8
      BY <3>1
    <3>3. 8 * x = k * r
      <4>1. k * r = x * (r * q)
        BY <1>0, <2>1, <2>2
      <4> QED BY <1>0, <3>2, <4>1
    <3>4. Multiple(8 * x, k)
      BY <3>2, <3>3 DEF Multiple
    <3> QED BY <1>0, <1>1, <3>4 DEF Fits
  <2>3. CASE q \notin {1, 2, 4, 8}
    <3>1. PICK r \in Pow2 : q = 8 * r
      BY <2>3 DEF Pow2
    <3>2. k = (8 * x) * r
      <4>1. r \in Nat
        BY DEF Pow2
      <4> QED BY <1>0, <2>1, <3>1, <4>1
    <3> QED BY <1>0, <1>1, <3>2 DEF Fits
  <2> QED BY <2>2, <2>3
<1> QED BY <1>2, <1>3 DEF Fits

\* The chunks are all as long as the first, and none is cut short.
LEMMA ChunkFits ==
  ASSUME NEW x, NEW w \in AllWidths, Fits(x, VLMAX(w))
  PROVE  /\ setvl(x, w) \in Nat /\ setvl(x, w) > 0 /\ setvl(x, w) <= VLMAX(w)
         /\ Multiple(x, setvl(x, w))
         /\ setvl(x, w) = x \/ setvl(x, w) = VLMAX(w)
<1> DEFINE k == VLMAX(w)
           k0 == IF x < k THEN x ELSE k
<1>0. k \in Pow2 /\ x \in Nat /\ x > 0
  BY LanesArePow2 DEF Fits
<1>1. setvl(x, w) = k0
  BY DEF setvl
<1>2. (Multiple(x, k) \/ \E q \in Pow2 : k = x * q)
  BY DEF Fits
<1> HIDE DEF k
<1>3. k \in Nat /\ k > 0
  BY <1>0 DEF Pow2
<1>4. k0 \in Nat /\ k0 > 0 /\ k0 <= k /\ (k0 = x \/ k0 = k)
  BY <1>0, <1>3
<1>5. Multiple(x, x)
  <2>1. x = x * 1
    BY <1>0
  <2> QED BY <2>1 DEF Multiple
<1>6. CASE x < k
  BY <1>1, <1>4, <1>5, <1>6 DEF k
<1>7. CASE ~(x < k)
  <2>1. Multiple(x, k)
    <3>1. CASE \E q \in Pow2 : k = x * q
      <4>1. PICK q \in Pow2 : k = x * q
        BY <3>1
      <4>2. q = 1
        <5>1. q \in Nat /\ q >= 1
          BY DEF Pow2
        <5>2. CASE q >= 2
          <6>1. PICK r \in Nat : q = 2 + r
            <7>1. q - 2 \in Nat /\ q = 2 + (q - 2)
              BY <5>1, <5>2
            <7> QED BY <7>1
          <6>2. x * q = 2 * x + x * r /\ x * r \in Nat
            BY <1>0, <6>1
          <6> QED BY <1>0, <1>7, <4>1, <6>2
        <5> QED BY <5>1, <5>2
      <4>3. k = x
        BY <1>0, <4>1, <4>2
      <4> QED BY <1>5, <4>3
    <3> QED BY <1>2, <3>1
  <2> QED BY <1>1, <1>4, <1>7, <2>1 DEF k
<1> QED BY <1>6, <1>7

\* One turn of the strip-mining loop.
LEMMA ChunkTaken ==
  ASSUME NEW x, NEW w \in AllWidths, Fits(x, VLMAX(w)), NEW cc \in Nat, NEW av \in Nat, av > 0,
         x = setvl(x, w) * cc + av
  PROVE  /\ setvl(av, w) = setvl(x, w) /\ av >= setvl(x, w)
         /\ av = x <=> cc = 0
<1> DEFINE k == VLMAX(w)
           k0 == setvl(x, w)
<1>0. k0 \in Nat /\ k0 > 0 /\ Multiple(x, k0) /\ (k0 = x \/ k0 = k) /\ k0 <= k
  BY ChunkFits
<1>1. setvl(av, w) = (IF av < k THEN av ELSE k) /\ k0 = (IF x < k THEN x ELSE k) /\ x = k0 * cc + av /\ x \in Nat
  BY DEF setvl, Fits
<1>2. k \in Nat
  BY LanesArePow2 DEF Pow2
<1> HIDE DEF k, k0
<1>3. PICK q \in Nat : x = k0 * q
  BY <1>0 DEF Multiple
<1>4. k0 * cc \in Nat /\ (cc = 0 => k0 * cc = 0) /\ (cc # 0 => k0 * cc >= k0)
  <2>1. CASE cc = 0
    BY <1>0, <2>1
  <2>2. CASE cc # 0
    <3>1. PICK r \in Nat : cc = 1 + r
      <4>1. cc - 1 \in Nat /\ cc = 1 + (cc - 1)
        BY <2>2
      <4> QED BY <4>1
    <3>2. k0 * cc = k0 + k0 * r /\ k0 * r \in Nat
      BY <1>0, <3>1
    <3> QED BY <1>0, <2>2, <3>2
  <2> QED BY <2>1, <2>2
<1>5. av = x <=> cc = 0
  <2> DEFINE y == k0 * cc
  <2>1. y \in Nat /\ (cc = 0 => y = 0) /\ (cc # 0 => y >= k0) /\ x = y + av
    BY <1>1, <1>4
  <2> HIDE DEF y
  <2> QED BY <1>0, <2>1
<1>6. av >= k0
  <2>1. cc < q
    <3> SUFFICES ASSUME cc >= q PROVE FALSE
      OBVIOUS
    <3>1. PICK r \in Nat : cc = q + r
      <4>1. cc - q \in Nat /\ cc = q + (cc - q)
        OBVIOUS
      <4> QED BY <4>1
    <3>2. k0 * cc = k0 * q + k0 * r /\ k0 * r \in Nat /\ k0 * q \in Nat
      BY <1>0, <3>1
    <3> QED BY <1>1, <1>3, <3>2
  <2>2. PICK r \in Nat : q = cc + 1 + r
    <3>1. q - cc - 1 \in Nat /\ q = cc + 1 + (q - cc - 1)
      BY <2>1
    <3> QED BY <3>1
  <2>3. k0 * q = k0 * cc + k0 + k0 * r /\ k0 * r \in Nat /\ k0 * cc \in Nat
    BY <1>0, <2>2
  <2> QED BY <1>0, <1>1, <1>3, <2>3
<1>7. setvl(av, w) = k0
  <2>1. CASE k0 = k
    <3>1. ~(av < k)
      BY <1>2, <1>6, <2>1
    <3> QED BY <1>1, <2>1, <3>1
  <2>2. CASE k0 = x
    <3>1. av = x
      <4>1. k0 * cc \in Nat /\ x = k0 * cc + av
        BY <1>1, <1>4
      <4> QED BY <1>1, <1>6, <2>2, <4>1
    <3> QED BY <1>1, <3>1
  <2> QED BY <1>0, <2>1, <2>2
<1> QED BY <1>5, <1>6, <1>7 DEF k0

----------------------------------------------------------------------------
\* After cc chunks of the vector kernel, and after cc turns of the scalar one.
InVector(k, cc) ==
  /\ avl \in Nat /\ len = k * cc + avl
  /\ cc > 0 => dvl = k /\ \A i \in 0 .. k - 1 : Once(lane[i], Strided(i, k, cc))
InScalar(cc) ==
  avl = 8 * cc /\ \A i \in 0 .. 7 : Once(sum[i], Strided(i, 8, cc))

\* The products of the vectors, added up once each.
Whole(sq) == Once(sq, 0 .. len - 1)

DotInv ==
  /\ sew \in AllWidths /\ Fits(len, VLMAX(sew))
  /\ results \in [v : {results.v}, s : {results.s}]
  /\ dPc = "vector" => \E cc \in Nat : InVector(setvl(len, sew), cc)
  /\ dPc = "scalar" => Whole(results.v) /\ \E cc \in Nat : InScalar(cc) /\ 8 * cc <= len
  /\ dPc = "check" => Whole(results.v) /\ Whole(results.s)

\* main starts with the first width and length.
LEMMA DotStarts == DotInit => DotInv
<1> SUFFICES ASSUME DotInit PROVE DotInv
  OBVIOUS
<1>1. sew \in AllWidths /\ len = 8 /\ dPc = "size" /\ results \in [v : {results.v}, s : {results.s}]
  BY DEF DotInit, AllWidths
<1>2. Fits(len, VLMAX(sew))
  BY <1>1, LanesArePow2, FitsFirst
<1> QED BY <1>1, <1>2 DEF DotInv

\* main calls the kernels, compares them and goes on to the next length.
LEMMA MainKeepsDot == ASSUME DotInv, Call \/ Check \/ NextWidth PROVE DotInv'
<1>0. sew \in AllWidths /\ VLMAX(sew) \in Pow2 /\ Fits(len, VLMAX(sew)) /\ results \in [v : {results.v}, s : {results.s}]
  BY LanesArePow2 DEF DotInv
<1>1. CASE Call
  <2>1. sew' = sew /\ len' = len /\ avl' = len /\ dPc' = "vector" /\ results' = results
    BY <1>1 DEF Call
  <2>2. InVector(setvl(len, sew), 0)'
    <3>1. len \in Nat /\ setvl(len, sew) \in Nat
      BY <1>0, ChunkFits DEF Fits
    <3>2. len = setvl(len, sew) * 0 + len
      BY <3>1
    <3> QED BY <2>1, <3>1, <3>2 DEF InVector, setvl, VLMAX
  <2>3. 0 \in Nat
    OBVIOUS
  <2>4. Fits(len, VLMAX(sew))'
    BY <1>0, <2>1 DEF VLMAX, Fits
  <2> QED BY <1>0, <2>1, <2>2, <2>3, <2>4 DEF DotInv
<1>2. CASE Check
  <2>1. /\ sew' = sew /\ results' = results
        /\ \/ len' = 8 * len /\ dPc' = "size"
           \/ len' = len /\ dPc' = "done"
    BY <1>2 DEF Check
  <2>2. Fits(len', VLMAX(sew))
    BY <1>0, <2>1, FitsNext
  <2>3. Fits(len, VLMAX(sew))'
    BY <2>1, <2>2 DEF VLMAX, Fits
  <2> QED BY <1>0, <2>1, <2>3 DEF DotInv
<1>3. CASE NextWidth
  <2>1. /\ dPc' \in {"size", "done"} /\ results' = results
        /\ \/ sew' \in AllWidths /\ len' = 8
           \/ sew' = sew /\ len' = len
    BY <1>3 DEF NextWidth, Widths, AllWidths
  <2>2. \A w : w \in AllWidths => Fits(8, VLMAX(w))
    BY LanesArePow2, FitsFirst
  <2>3. Fits(len, VLMAX(sew))' /\ sew' \in AllWidths
    <3>1. PICK w, x : w = sew' /\ x = len'
      OBVIOUS
    <3>2. Fits(x, VLMAX(w)) /\ w \in AllWidths
      BY <1>0, <2>1, <2>2, <3>1
    <3> QED BY <3>1, <3>2 DEF VLMAX, Fits
  <2> QED BY <1>0, <2>1, <2>3 DEF DotInv
<1> QED BY <1>1, <1>2, <1>3

\* The strip-mining loop of the vector kernel.
LEMMA StripKeeps == ASSUME DotInv, StripMine PROVE DotInv'
<1> DEFINE k == setvl(len, sew)
           v == VLMAX(sew)
<1>0. /\ sew \in AllWidths /\ Fits(len, VLMAX(sew)) /\ results \in [v : {results.v}, s : {results.s}]
      /\ dPc = "vector" /\ avl > 0
  BY DEF DotInv, StripMine
<1>1. PICK cc \in Nat : InVector(k, cc)
  BY <1>0 DEF DotInv
<1>2. k \in Nat /\ k > 0 /\ k <= v /\ v \in Nat /\ avl \in Nat /\ len \in Nat /\ len = k * cc + avl
  BY <1>0, <1>1, ChunkFits, LanesArePow2 DEF InVector, Pow2, Fits
<1>3. setvl(avl, sew) = k /\ avl >= k /\ (avl = len <=> cc = 0)
  BY <1>0, <1>2, ChunkTaken
<1>4. dvl' = k /\ avl' = avl - k /\ lane' = Chunk(k)
  BY <1>3 DEF StripMine
<1>5. UNCHANGED <<dPc, sew, len, results>>
  BY DEF StripMine
<1>6. k' = k
  BY <1>5 DEF setvl, VLMAX
<1>7. avl' \in Nat /\ len = k * (cc + 1) + avl'
  <2>1. k * (cc + 1) = k * cc + k /\ k * cc \in Nat
    BY <1>2
  <2> HIDE DEF k
  <2> QED BY <1>2, <1>3, <1>4, <2>1
<1>8. ASSUME NEW i \in 0 .. k - 1 PROVE Once(lane'[i], Strided(i, k, cc + 1))
  <2>1. i \in 0 .. v - 1 /\ ~(i >= k) /\ i \in Int
    <3> HIDE DEF k, v
    <3> QED BY <1>2
  <2>2. lane'[i] = IF avl = len THEN <<i>> ELSE Append(lane[i], len - avl + i)
    <3> HIDE DEF k
    <3> QED BY <1>4, <2>1 DEF Chunk
  <2>3. /\ Strided(i, k, cc + 1) = Strided(i, k, cc) \cup {k * cc + i}
        /\ k * cc + i \in Int /\ k * cc + i \notin Strided(i, k, cc)
    <3> HIDE DEF k
    <3> QED BY <1>2, StridedGrows
  <2> HIDE DEF k, v
  <2>4. CASE cc = 0
    <3>1. lane'[i] = Append(<<>>, i) /\ k * cc + i = i
      BY <1>2, <1>3, <2>1, <2>2, <2>4
    <3>2. Strided(i, k, cc) = {}
      BY <2>4 DEF Strided
    <3>3. Once(Append(<<>>, i), {} \cup {i})
      BY <2>1, OnceNone, OnceMore
    <3> QED BY <2>3, <3>1, <3>2, <3>3
  <2>5. CASE cc # 0
    <3>1. Once(lane[i], Strided(i, k, cc))
      BY <1>1, <2>5 DEF InVector
    <3>2. len - avl + i = k * cc + i
      <4>1. k * cc \in Nat
        BY <1>2
      <4> QED BY <1>2, <2>1, <4>1
    <3>3. lane'[i] = Append(lane[i], k * cc + i)
      BY <1>3, <2>2, <2>5, <3>2
    <3>4. Once(Append(lane[i], k * cc + i), Strided(i, k, cc) \cup {k * cc + i})
      BY <2>3, <3>1, OnceMore
    <3> QED BY <2>3, <3>3, <3>4
  <2> QED BY <2>4, <2>5
<1>9. InVector(k, cc + 1)'
  <2>1. PICK kk : kk = k /\ kk = k'
    BY <1>6
  <2> HIDE DEF k
  <2>2. \A i \in 0 .. kk - 1 : Once(lane'[i], Strided(i, kk, cc + 1))
    BY <1>8, <2>1
  <2>3. dvl' = kk /\ len' = kk * (cc + 1) + avl' /\ avl' \in Nat
    BY <1>4, <1>5, <1>7, <2>1
  <2> QED BY <2>1, <2>2, <2>3 DEF InVector
<1>10. Fits(len, VLMAX(sew))'
  BY <1>0, <1>5 DEF VLMAX, Fits
<1> HIDE DEF v
<1>11. cc + 1 \in Nat
  OBVIOUS
<1> QED BY <1>0, <1>5, <1>9, <1>10, <1>11 DEF DotInv

\* Its final reduction over the lanes.
LEMMA ReduceKeeps == ASSUME DotInv, Reduce PROVE DotInv'
<1> DEFINE k == setvl(len, sew)
<1>0. /\ sew \in AllWidths /\ Fits(len, VLMAX(sew)) /\ results \in [v : {results.v}, s : {results.s}]
      /\ dPc = "vector" /\ avl = 0
  BY DEF DotInv, Reduce
<1>1. PICK cc \in Nat : InVector(k, cc)
  BY <1>0 DEF DotInv
<1>2. k \in Nat /\ k > 0 /\ len \in Nat /\ len > 0 /\ len = k * cc + 0
  BY <1>0, <1>1, ChunkFits DEF InVector, Fits
<1> HIDE DEF k
<1>3. cc > 0 /\ len = k * cc
  BY <1>2
<1>4. Once(Gather(lane, k), 0 .. k * cc - 1) /\ dvl = k
  BY <1>1, <1>2, <1>3, GatherOnce DEF InVector
<1>5. /\ UNCHANGED <<sew, len>> /\ dPc' = "scalar" /\ avl' = 0 /\ sum' = [i \in 0 .. 7 |-> <<>>]
      /\ results'.v = Gather(lane, k) /\ results' \in [v : {results'.v}, s : {results'.s}]
  BY <1>0, <1>4 DEF Reduce
<1>6. Whole(results.v)'
  BY <1>3, <1>4, <1>5 DEF Whole
<1>7. InScalar(0)' /\ 0 \in Nat /\ 8 * 0 <= len'
  <2>1. \A i \in 0 .. 7 : Strided(i, 8, 0) = {} /\ sum'[i] = <<>>
    BY <1>5 DEF Strided
  <2>2. avl' = 8 * 0 /\ 8 * 0 <= len'
    BY <1>2, <1>5
  <2>3. \A i \in 0 .. 7 : Once(sum'[i], Strided(i, 8, 0))
    BY <2>1, OnceNone
  <2> QED BY <2>2, <2>3 DEF InScalar
<1>8. Fits(len, VLMAX(sew))'
  BY <1>0, <1>5 DEF VLMAX, Fits
<1> QED BY <1>0, <1>5, <1>6, <1>7, <1>8 DEF DotInv

\* The eight accumulators of the scalar kernel.
LEMMA UnrolledKeeps == ASSUME DotInv, Unrolled PROVE DotInv'
<1>0. /\ sew \in AllWidths /\ Fits(len, VLMAX(sew)) /\ results \in [v : {results.v}, s : {results.s}]
      /\ dPc = "scalar" /\ avl < len /\ Whole(results.v)
  BY DEF DotInv, Unrolled
<1>1. PICK cc \in Nat : InScalar(cc) /\ 8 * cc <= len
  BY <1>0 DEF DotInv
<1>2. /\ UNCHANGED <<sew, len, results, dPc>> /\ avl' = avl + 8
      /\ sum' = [i \in 0 .. 7 |-> Append(sum[i], avl + i)]
  BY DEF Unrolled
<1>3. avl = 8 * cc /\ avl' = 8 * (cc + 1)
  BY <1>1, <1>2 DEF InScalar
<1>4. ASSUME NEW i \in 0 .. 7 PROVE Once(sum'[i], Strided(i, 8, cc + 1))
  <2>1. i \in 0 .. 8 - 1
    OBVIOUS
  <2>2. /\ Strided(i, 8, cc + 1) = Strided(i, 8, cc) \cup {8 * cc + i}
        /\ 8 * cc + i \in Int /\ 8 * cc + i \notin Strided(i, 8, cc)
    BY <2>1, StridedGrows
  <2>3. Once(sum[i], Strided(i, 8, cc)) /\ sum'[i] = Append(sum[i], 8 * cc + i)
    BY <1>1, <1>2, <1>3 DEF InScalar
  <2> QED BY <2>2, <2>3, OnceMore
<1>5. InScalar(cc + 1)'
  BY <1>3, <1>4 DEF InScalar
<1>6. 8 * (cc + 1) <= len' /\ cc + 1 \in Nat
  <2>1. PICK q \in Nat : len = 8 * q
    BY <1>0 DEF Fits, Multiple
  <2>2. 8 * cc < 8 * q
    BY <1>0, <1>3, <2>1
  <2>3. 8 * (cc + 1) <= 8 * q
    BY <2>2
  <2> QED BY <1>2, <2>1, <2>3
<1>7. Fits(len, VLMAX(sew))' /\ Whole(results.v)'
  BY <1>0, <1>2 DEF VLMAX, Fits, Whole
<1> QED BY <1>0, <1>2, <1>5, <1>6, <1>7 DEF DotInv

\* And the sum of the eight.
LEMMA ScalarKeeps == ASSUME DotInv, ScalarReturn PROVE DotInv'
<1>0. /\ sew \in AllWidths /\ Fits(len, VLMAX(sew)) /\ results \in [v : {results.v}, s : {results.s}]
      /\ dPc = "scalar" /\ avl >= len /\ Whole(results.v)
  BY DEF DotInv, ScalarReturn
<1>1. PICK cc \in Nat : InScalar(cc) /\ 8 * cc <= len
  BY <1>0 DEF DotInv
<1>2. len = 8 * cc
  <2>1. len \in Nat
    BY <1>0 DEF Fits
  <2> QED BY <1>0, <1>1, <2>1 DEF InScalar
<1>3. Once(Tree(sum), 0 .. 8 * cc - 1)
  BY <1>1, TreeOnce DEF InScalar
<1>4. /\ UNCHANGED <<sew, len>> /\ dPc' = "check"
      /\ results'.v = results.v /\ results'.s = Tree(sum) /\ results' \in [v : {results'.v}, s : {results'.s}]
  BY <1>0 DEF ScalarReturn
<1>5. Whole(results.v)' /\ Whole(results.s)'
  BY <1>0, <1>2, <1>3, <1>4 DEF Whole
<1>6. Fits(len, VLMAX(sew))'
  BY <1>0, <1>4 DEF VLMAX, Fits
<1> QED BY <1>0, <1>4, <1>5, <1>6 DEF DotInv

\* Every step keeps the invariant of the dot product.
LEMMA DotKept == ASSUME DotInv, [DotNext]_dotVars PROVE DotInv'
<1>1. CASE UNCHANGED dotVars
  BY <1>1 DEF DotInv, dotVars, Fits, VLMAX, setvl, InVector, InScalar, Whole
<1>2. CASE DotNext
  <2>1. Call \/ Check \/ NextWidth \/ StripMine \/ Reduce \/ Unrolled \/ ScalarReturn
    BY <1>2, Zenon DEF DotNext, dotproduct_main, fdotproduct_main, dotp_v64b, dotp_v32b, dotp_v16b, dotp_v8b,
       fdotp_v64b, fdotp_v32b, dotp_s64b, dotp_s32b, dotp_s16b, dotp_s8b, fdotp_s64b, fdotp_s32b, Vector, Scalar
  <2> QED BY <2>1, MainKeepsDot, StripKeeps, ReduceKeeps, UnrolledKeeps, ScalarKeeps
<1> QED BY <1>1, <1>2

\* The vector kernel and the scalar kernel of the dot product add up
\* every product of the operands once and no other, for every vector length
\* and every length of the operands (dotp.c).
THEOREM EveryProductOnceHolds == DotSpec => []EveryProductOnce
<1>1. DotInv => EveryProductOnce
  BY OnceCounts DEF DotInv, EveryProductOnce, Whole
<1> QED BY <1>1, DotStarts, DotKept, PTL DEF DotSpec
=============================================================================
