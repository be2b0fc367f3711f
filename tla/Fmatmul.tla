------------------------------ MODULE Fmatmul ------------------------------
(***************************************************************************)
(* The vector matrix multiplication of software/app/fmatmul: main.c calls  *)
(* fmatmul for growing square matrices, kernel/fmatmul.c cuts B into       *)
(* slices of columns and A into blocks of 4, 8 or 16 rows, and the inner   *)
(* kernel accumulates one block of C in vector registers with a software   *)
(* pipeline: while a row of B is multiplied the next one is loaded into    *)
(* the other of two registers, and the loop body holds two such halves.    *)
(*                                                                         *)
(* Numbers are symbolic.  An element of A is its address <<row, column>>,  *)
(* a loaded row of B is its number, and an accumulator is the sequence of  *)
(* the products added to it.  A vector instruction acts alike on all of    *)
(* its lanes, so one accumulator stands for a whole register.              *)
(***************************************************************************)
EXTENDS Integers, Sequences

CONSTANTS M,      \* the dimension of the matrices in the data section
          VLMAX1  \* lanes of one vector register with 64-bit elements

ASSUME FmatmulAssumption == M \in Nat /\ M >= 4 /\ VLMAX1 \in Nat \ {0}

VARIABLES
  mmPc,   \* where main and the kernels are
  dim,    \* s of main: this multiplication has M = N = P = dim
  vl,     \* block_size_p
  p, m,   \* the loop counters over column slices and row blocks
  n,      \* the loop counter of the inner kernel
  t,      \* t0, t1, ...: the prefetched column of A
  even,   \* the row of B in the register of even rows (v16 or v18)
  odd,    \* the row of B in the register of odd rows (v20 or v17)
  b,      \* the row of B the pointer is at
  acc,    \* v0, ...: one accumulator for each row of the block
  c,      \* the matrix C
  mmExit  \* what main returned

matVars == <<mmPc, dim, vl, p, m, n, t, even, odd, b, acc, c, mmExit>>

Least(x, y) == IF x < y THEN x ELSE y

\* vsetvli: as many lanes as asked for, or all there are.
vsetvli(avl, lmul) == Least(avl, lmul * VLMAX1)

Zero == [terms |-> <<>>, col |-> 0]

----------------------------------------------------------------------------
(* The choice of a block size, and the loops over slices and blocks.       *)

fmatmul == IF dim <= 4 THEN 4 ELSE IF dim <= 8 THEN 8 ELSE IF dim <= 64 THEN 16
           ELSE IF dim <= 128 THEN 8 ELSE 4

Cleared(block) == [r \in 0 .. block - 1 |-> <<>>]

fmatmul_vec_4x4_slice_init   == Cleared(4)
fmatmul_vec_8x8_slice_init   == Cleared(8)
fmatmul_vec_16x16_slice_init == Cleared(16)

MatSetup(lmul) ==
  /\ mmPc = "call"
  /\ vl' = vsetvli(dim, lmul) /\ p' = 0 /\ m' = 0 /\ mmPc' = "loop"
  /\ UNCHANGED <<dim, n, t, even, odd, b, acc, c, mmExit>>

NextBlock(cleared) ==
  /\ mmPc = "loop" /\ p < dim /\ m < dim
  /\ acc' = cleared /\ mmPc' = "prefetch"
  /\ UNCHANGED <<dim, vl, p, m, n, t, even, odd, b, c, mmExit>>

NextSlice ==
  /\ mmPc = "loop" /\ p < dim /\ m >= dim
  /\ p' = p + vl /\ m' = 0
  /\ UNCHANGED <<mmPc, dim, vl, n, t, even, odd, b, acc, c, mmExit>>

MatReturn ==
  /\ mmPc = "loop" /\ p >= dim
  /\ mmPc' = "returned"
  /\ UNCHANGED <<dim, vl, p, m, n, t, even, odd, b, acc, c, mmExit>>

Slices(block, lmul, cleared) ==
  /\ fmatmul = block
  /\ MatSetup(lmul) \/ NextBlock(cleared) \/ NextSlice \/ MatReturn

fmatmul_4x4   == Slices(4, 4, fmatmul_vec_4x4_slice_init)
fmatmul_8x8   == Slices(8, 2, fmatmul_vec_8x8_slice_init)
fmatmul_16x16 == Slices(16, 1, fmatmul_vec_16x16_slice_init)

----------------------------------------------------------------------------
(* The inner kernels, alike but for their block size.                      *)

\* t0 = *a, a += N, ...: column k of A in the rows of the block.
Column(block, k) == [r \in 0 .. block - 1 |-> <<m + r, k>>]

\* vfmacc.vf of every accumulator.
Accumulate(block, row) == [r \in 0 .. block - 1 |-> Append(acc[r], <<t[r], row>>)]

Prefetch(block) ==
  /\ mmPc = "prefetch"
  /\ even' = 0 /\ b' = 1 /\ t' = Column(block, 0) /\ n' = 0 /\ mmPc' = "even"
  /\ UNCHANGED <<dim, vl, p, m, odd, acc, c, mmExit>>

\* (mutant: the break in the middle of the loop body is missing)
MutAfterEven(k) == "odd"
AfterEven(k) == IF k = dim THEN "last" ELSE "odd"

EvenHalf(block) ==
  /\ mmPc = "even"
  /\ acc' = Accumulate(block, even)
  /\ t' = Column(block, n + 1) /\ odd' = b /\ b' = b + 1
  /\ n' = n + 2 /\ mmPc' = AfterEven(n + 2)
  /\ UNCHANGED <<dim, vl, p, m, even, c, mmExit>>

\* (mutant: the second half multiplies by the register it is loading)
MutOddHalf(block) ==
  /\ mmPc = "odd"
  /\ acc' = Accumulate(block, b)
  /\ t' = Column(block, n) /\ even' = b /\ b' = b + 1
  /\ mmPc' = IF n = dim THEN "last" ELSE "even"
  /\ UNCHANGED <<dim, vl, p, m, n, odd, c, mmExit>>

OddHalf(block) ==
  /\ mmPc = "odd"
  /\ acc' = Accumulate(block, odd)
  /\ t' = Column(block, n) /\ even' = b /\ b' = b + 1
  /\ mmPc' = IF n = dim THEN "last" ELSE "even"
  /\ UNCHANGED <<dim, vl, p, m, n, odd, c, mmExit>>

\* p_, the lanes of this slice.
SliceLanes == Least(dim - p, vl)

\* The last products, and vse64.v of every row of the block.
StoreBlock(block) ==
  /\ mmPc = "last"
  /\ LET sum == Accumulate(block, odd)
         hit(i) == {rl \in (0 .. block - 1) \X (0 .. SliceLanes - 1) :
                      i = (m + rl[1]) * dim + p + rl[2]}
     IN  c' = [i \in DOMAIN c |-> IF hit(i) = {} THEN c[i]
                                  ELSE LET rl == CHOOSE x \in hit(i) : TRUE
                                       IN  [terms |-> sum[rl[1]], col |-> p + rl[2]]]
  /\ m' = m + block /\ mmPc' = "loop"
  /\ UNCHANGED <<dim, vl, p, n, t, even, odd, b, acc, mmExit>>

VecKernel(block) ==
  /\ fmatmul = block
  /\ Prefetch(block) \/ EvenHalf(block) \/ OddHalf(block) \/ StoreBlock(block)

fmatmul_vec_4x4   == VecKernel(4)
fmatmul_vec_8x8   == VecKernel(8)
fmatmul_vec_16x16 == VecKernel(16)

----------------------------------------------------------------------------
(* main.c.                                                                 *)

\* The element of the golden matrix.
Gold(i, j) == [terms |-> [k \in 1 .. dim |-> <<<<i, k - 1>>, k - 1>>], col |-> j]
MatCells == (0 .. dim - 1) \X (0 .. dim - 1)
WrongCells == {ij[1] * dim + ij[2] : ij \in {x \in MatCells : c[x[1] * dim + x[2]] # Gold(x[1], x[2])}}

\* The index of the first wrong element, -1 if it is the first of all.
verify_matrix ==
  IF WrongCells = {} THEN 0
  ELSE LET i == CHOOSE x \in WrongCells : \A y \in WrongCells : x <= y
       IN  IF i = 0 THEN -1 ELSE i

fmatmul_main ==
  \/ /\ mmPc = "size" /\ dim <= M
     /\ mmPc' = "call" /\ UNCHANGED <<dim, mmExit>>
     /\ UNCHANGED <<vl, p, m, n, t, even, odd, b, acc, c>>
  \/ /\ mmPc = "returned"
     /\ LET error == IF dim = M THEN verify_matrix ELSE 0
        IN  IF error # 0 THEN mmExit' = error /\ mmPc' = "done" /\ UNCHANGED dim
            ELSE dim' = 2 * dim /\ mmPc' = "size" /\ UNCHANGED mmExit
     /\ UNCHANGED <<vl, p, m, n, t, even, odd, b, acc, c>>
  \/ /\ mmPc = "size" /\ dim > M
     /\ mmPc' = "done" /\ mmExit' = 0
     /\ UNCHANGED <<dim, vl, p, m, n, t, even, odd, b, acc, c>>

MatInit ==
  /\ mmPc = "size" /\ dim = 4 /\ vl = 0 /\ p = 0 /\ m = 0 /\ n = 0
  /\ t = <<>> /\ even = 0 /\ odd = 0 /\ b = 0 /\ acc = <<>>
  /\ c = [i \in 0 .. M * M - 1 |-> Zero] /\ mmExit = 0

MatNext == \/ fmatmul_main
        \/ fmatmul_4x4 \/ fmatmul_8x8 \/ fmatmul_16x16
        \/ fmatmul_vec_4x4 \/ fmatmul_vec_8x8 \/ fmatmul_vec_16x16

MatSpec == MatInit /\ [][MatNext]_matVars

----------------------------------------------------------------------------
(***************************************************************************)
(* When fmatmul returns, every element of C is the whole sum of products   *)
(* in the order of k: each row of B met the column of A that was           *)
(* prefetched for it, none was added twice or left in a register, and the  *)
(* slices and blocks together store all of C (kernel/fmatmul.c).           *)
(***************************************************************************)
ProductComplete == mmPc = "returned" => WrongCells = {}

(***************************************************************************)
(* The pipeline runs ahead of the arithmetic but never past the matrices:  *)
(* every prefetched element of A and row of B exists (the break in the     *)
(* middle of the loop body, kernel/fmatmul.c:138).                         *)
(***************************************************************************)
PrefetchInside ==
  mmPc \in {"even", "odd", "last"} =>
    /\ b <= dim
    /\ \A r \in DOMAIN t : t[r][1] < dim /\ t[r][2] < dim
============================================================================
