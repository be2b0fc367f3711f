-------------------------------- MODULE Dotp --------------------------------
(***************************************************************************)
(* The dot products of software/app/dotproduct (integers of four widths)   *)
(* and software/app/fdotproduct (two float widths).  Both programs run     *)
(* vectors of 8, 64, ... elements through a strip-mined vector kernel and  *)
(* a scalar kernel unrolled eight times, and compare the two results.      *)
(*                                                                         *)
(* Numbers are symbolic: the product of the elements i is i, and a sum is  *)
(* the sequence of the products added to it.  Junk is what a lane may hold *)
(* that the vector unit was free to overwrite (ta, "tail agnostic").       *)
(***************************************************************************)
EXTENDS Integers, Sequences, FiniteSets

CONSTANTS
  Programs, \* the programs to run, of "dotproduct" and "fdotproduct"
  vsize,    \* bytes of a vector in the data section
  VLEN,     \* bits of a vector register
  Junk      \* the content of an agnostic lane

\* The vector extension allows a power of two up to 65536.
ASSUME DotpAssumption ==
  /\ Programs \subseteq {"dotproduct", "fdotproduct"}
  /\ vsize \in Nat
  /\ VLEN \in {8, 16, 32, 64, 128, 256, 512, 1024, 2048, 4096, 8192, 16384, 32768, 65536}

VARIABLES
  prog,   \* the program
  dPc,    \* where it is
  sew,    \* element width in bits
  len,    \* orig_avl, the length of the vectors
  avl,    \* elements left
  dvl,    \* vl
  lane,   \* v24: what each lane has accumulated
  sum,    \* acc0 .. acc7 of the scalar kernel
  results, \* the two results: res_v, res_s
  dExit   \* what main returned

dotVars == <<prog, dPc, sew, len, avl, dvl, lane, sum, results, dExit>>

Widths(q) == IF q = "dotproduct" THEN {64, 32, 16, 8} ELSE {64, 32}

\* Lanes of a group of eight registers (LMUL = 8).
VLMAX(w) == (8 * VLEN) \div w
setvl(n, w) == IF n < VLMAX(w) THEN n ELSE VLMAX(w)

\* Concatenation of the sums of all lanes below k.
Gather(f, k) ==
  LET cat[i \in 0 .. k] == IF i = 0 THEN <<>> ELSE cat[i - 1] \o f[i - 1] IN cat[k]

----------------------------------------------------------------------------
(* The vector kernels, alike but for the width of their elements.          *)

\* The first chunk is multiplied, the following ones are accumulated; the
\* lanes behind the vector length are agnostic.
\* (mutant: every chunk is multiplied)
MutChunk(k) == [i \in 0 .. VLMAX(sew) - 1 |-> IF i < k THEN <<len - avl + i>> ELSE <<Junk>>]
Chunk(k) ==
  [i \in 0 .. VLMAX(sew) - 1 |->
     IF i >= k THEN <<Junk>>
     ELSE IF avl = len THEN <<i>> ELSE Append(lane[i], len - avl + i)]

StripMine ==
  /\ dPc = "vector" /\ avl > 0
  /\ LET k == setvl(avl, sew)
     IN  dvl' = k /\ lane' = Chunk(k) /\ avl' = avl - k
  /\ UNCHANGED <<prog, dPc, sew, len, sum, results, dExit>>

\* vredsum of the lanes below the last vector length.
Reduce ==
  /\ dPc = "vector" /\ avl = 0
  /\ results' = [results EXCEPT !.v = Gather(lane, dvl)]
  /\ dPc' = "scalar" /\ avl' = 0 /\ sum' = [i \in 0 .. 7 |-> <<>>]
  /\ UNCHANGED <<prog, sew, len, dvl, lane, dExit>>

Vector(q, w) == prog = q /\ sew = w /\ (StripMine \/ Reduce)

dotp_v64b  == Vector("dotproduct", 64)
dotp_v32b  == Vector("dotproduct", 32)
dotp_v16b  == Vector("dotproduct", 16)
dotp_v8b   == Vector("dotproduct", 8)
fdotp_v64b == Vector("fdotproduct", 64)
fdotp_v32b == Vector("fdotproduct", 32)

----------------------------------------------------------------------------
(* The scalar kernels; avl is their loop counter i.                        *)

Unrolled ==
  /\ dPc = "scalar" /\ avl < len
  /\ sum' = [i \in 0 .. 7 |-> Append(sum[i], avl + i)]
  /\ avl' = avl + 8
  /\ UNCHANGED <<prog, dPc, sew, len, dvl, lane, results, dExit>>

\* The tree of additions at the end.
Tree(a) == ((a[0] \o a[1]) \o (a[2] \o a[3])) \o ((a[4] \o a[5]) \o (a[6] \o a[7]))

ScalarReturn ==
  /\ dPc = "scalar" /\ avl >= len
  /\ results' = [results EXCEPT !.s = Tree(sum)] /\ dPc' = "check"
  /\ UNCHANGED <<prog, sew, len, avl, dvl, lane, sum, dExit>>

Scalar(q, w) == prog = q /\ sew = w /\ (Unrolled \/ ScalarReturn)

dotp_s64b  == Scalar("dotproduct", 64)
dotp_s32b  == Scalar("dotproduct", 32)
dotp_s16b  == Scalar("dotproduct", 16)
dotp_s8b   == Scalar("dotproduct", 8)
fdotp_s64b == Scalar("fdotproduct", 64)
fdotp_s32b == Scalar("fdotproduct", 32)

----------------------------------------------------------------------------
(* The programs.                                                           *)

\* Sums of the same products are equal, or similar.
Products(sq) == {<<i, Cardinality({k \in DOMAIN sq : sq[k] = i})>> : i \in {sq[k] : k \in DOMAIN sq}}
similarity_check == Products(results.v) = Products(results.s)

Call ==
  /\ dPc = "size" /\ len <= (8 * vsize) \div sew
  /\ dPc' = "vector" /\ avl' = len
  /\ UNCHANGED <<prog, sew, len, dvl, lane, sum, results, dExit>>

Check ==
  /\ dPc = "check"
  /\ IF similarity_check
       THEN len' = 8 * len /\ dPc' = "size" /\ UNCHANGED dExit
       ELSE dExit' = -1 /\ dPc' = "done" /\ UNCHANGED len
  /\ UNCHANGED <<prog, sew, avl, dvl, lane, sum, results>>

\* The next width, or SUCCESS.
NextWidth ==
  /\ dPc = "size" /\ len > (8 * vsize) \div sew
  /\ IF sew \div 2 \in Widths(prog)
       THEN sew' = sew \div 2 /\ len' = 8 /\ UNCHANGED <<dPc, dExit>>
       ELSE dExit' = 0 /\ dPc' = "done" /\ UNCHANGED <<sew, len>>
  /\ UNCHANGED <<prog, avl, dvl, lane, sum, results>>

dotproduct_main  == prog = "dotproduct" /\ (Call \/ Check \/ NextWidth)
fdotproduct_main == prog = "fdotproduct" /\ (Call \/ Check \/ NextWidth)

DotInit ==
  /\ prog \in Programs /\ dPc = "size" /\ sew = 64 /\ len = 8 /\ avl = 0 /\ dvl = 0
  /\ lane = <<>> /\ sum = <<>> /\ results = [v |-> <<>>, s |-> <<>>] /\ dExit = 0

DotNext == \/ dotproduct_main \/ fdotproduct_main
           \/ dotp_v64b \/ dotp_v32b \/ dotp_v16b \/ dotp_v8b \/ fdotp_v64b \/ fdotp_v32b
           \/ dotp_s64b \/ dotp_s32b \/ dotp_s16b \/ dotp_s8b \/ fdotp_s64b \/ fdotp_s32b

DotSpec == DotInit /\ [][DotNext]_dotVars

----------------------------------------------------------------------------
(***************************************************************************)
(* Both kernels add the product of every pair of elements exactly once,    *)
(* and no agnostic lane: the reduction runs with the vector length of the  *)
(* last chunk, which must not be shorter than an earlier one               *)
(* (dotproduct.c:84, fdotproduct.c:85).                                    *)
(***************************************************************************)
EveryProductOnce ==
  dPc = "check" =>
    Products(results.v) = {<<i, 1>> : i \in 0 .. len - 1} /\ Products(results.s) = Products(results.v)
=============================================================================
