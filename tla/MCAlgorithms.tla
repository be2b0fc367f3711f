---------------------------- MODULE MCAlgorithms ----------------------------
(***************************************************************************)
(* The parts that compute: the systolic array, the vector programs and the *)
(* library functions of the software.  They share no state: a behaviour    *)
(* runs one of them and leaves the others idle.                            *)
(***************************************************************************)
EXTENDS Systolic, Fmatmul, Dotp, Printf, CString

VARIABLE which  \* the part that runs

CONSTANT Parts

Idle(part) ==
  /\ part # "systolic" => mode = FF /\ dtype = INT /\ tile = 0 /\ cnt = 0 /\ en = <<>> /\ seen = FALSE
       /\ wgt = <<>> /\ pipe = <<>> /\ res = [row |-> NoRow]
  /\ part # "fmatmul" => mmPc = "off" /\ dim = 0 /\ vl = 0 /\ p = 0 /\ m = 0 /\ n = 0 /\ t = <<>>
       /\ even = 0 /\ odd = 0 /\ b = 0 /\ acc = <<>> /\ c = <<>> /\ mmExit = 0
  /\ part # "dotp" => prog = "off" /\ dPc = "off" /\ sew = 0 /\ len = 0 /\ avl = 0 /\ dvl = 0
       /\ lane = <<>> /\ sum = <<>> /\ results = <<>> /\ dExit = 0
  /\ part # "printf" => pCall = [fn |-> "off", fmt |-> <<>>] /\ pPos = 0 /\ pIdx = 0 /\ pMem = <<>> /\ pSent = <<>> /\ pRet = -1
  /\ part # "string" => cMem = <<>> /\ cWas = <<>> /\ cCall = [fn |-> "off"] /\ cRet = 0

MCInit ==
  /\ which \in Parts
  /\ CASE which = "systolic" -> Init [] which = "fmatmul" -> MatInit [] which = "dotp" -> DotInit
       [] which = "printf" -> PrfInit [] OTHER -> StrInit
  /\ Idle(which)

MCNext ==
  /\ UNCHANGED which
  /\ \/ which = "systolic" /\ Next /\ UNCHANGED <<matVars, dotVars, prfVars, strVars>>
     \/ which = "fmatmul" /\ MatNext /\ UNCHANGED <<vars, dotVars, prfVars, strVars>>
     \/ which = "dotp"    /\ DotNext /\ UNCHANGED <<vars, matVars, prfVars, strVars>>
     \/ which = "printf"  /\ PrfNext /\ UNCHANGED <<vars, matVars, dotVars, strVars>>
     \/ which = "string"  /\ StrNext /\ UNCHANGED <<vars, matVars, dotVars, prfVars>>

MCSpec == MCInit /\ [][MCNext]_<<which, vars, matVars, dotVars, prfVars, strVars>>

----------------------------------------------------------------------------
(* The calls of the formatter.  Integers are 6 bits wide and long 8 bits,  *)
(* so that binary overflows the conversion buffer.                         *)

Num(k) == [star |-> FALSE, n |-> k]
FromArg(k) == [star |-> TRUE, n |-> k]
Unset == Num(-1)
Dir(fl, w, pr, ln, sp, a) == [flags |-> fl, width |-> w, prec |-> pr, length |-> ln, spec |-> sp, arg |-> a]
Plain(sp, a) == Dir(<<>>, Unset, Unset, "", sp, a)

MCBits == [char |-> 4, short |-> 5, int |-> 6, long |-> 8]

IntDirs ==
  {Dir(fl, w, pr, ln, sp, a) :
     fl \in {<<>>, <<"0">>, <<"-">>, <<"+">>, <<"#">>, <<" ", "0", " ">>, <<"0", "-">>, <<"#", "0">>},
     w \in {Unset, Num(5), FromArg(-4), Num(8)}, pr \in {Unset, Num(0), Num(3), FromArg(-1)},
     ln \in {"", "hh", "ll"}, sp \in {"d", "u", "x", "o", "b"}, a \in {-32, 0, 9, 200}}

(* Floats are the doubles next to multiples of 1/200.  BelowHalf and       *)
(* AboveHalf name those of FloatArgs, by their magnitude, and precisions   *)
(* for which (value - whole) * pow10[prec], computed in doubles, is not    *)
(* the half that the decimal number scales to; for the others it is.       *)
FloatArgs == {0, 1, 7, 29, 30, 99, 100, 101, 110, 130, 150, 189, 190, 191, 198, 199,
              210, 230, 300, 301, 390, 391, 398, 399, 410, 500, 590, 597, 599, 600,
              -1, -29, -100, -190, -198, -199, -300, -301}
BelowHalf == {<<29, 2>>, <<230, 1>>, <<301, 2>>, <<410, 1>>, <<597, 2>>}
AboveHalf == {<<7, 2>>, <<210, 1>>, <<399, 2>>, <<590, 1>>, <<599, 2>>}
Side(q, pr) == CASE <<Magnitude(q), pr.n>> \in BelowHalf -> -1
                 [] <<Magnitude(q), pr.n>> \in AboveHalf -> 1
                 [] OTHER -> 0

Float(q, side) == [nan |-> FALSE, q |-> q, tie |-> side]
FloatDirs ==
  {Dir(fl, w, pr, "", "f", Float(q, Side(q, pr))) :
     fl \in {<<>>, <<"0">>, <<"-", "+">>}, w \in {Unset, Num(9)},
     pr \in {Unset, Num(0), Num(1), Num(2), Num(3)}, q \in FloatArgs}
  \cup {Dir(<<>>, Unset, Num(MaxPow + 1), "", "f", Float(q, 0)) : q \in {0, 1, 199}}

Formats ==
  { <<>>, <<Plain("a", 0), Plain("%", 0)>>,
    <<Plain("c", "k"), Plain("s", <<"h", "i">>), Dir(<<"-">>, Num(4), Num(1), "", "s", <<"h", "i">>)>>,
    <<Dir(<<>>, Num(3), Unset, "", "c", NUL), Dir(<<"-">>, Num(2), Unset, "", "c", "q"), Plain("d", -9)>>,
    <<Dir(<<>>, Num(4), Num(0), "", "s", <<"h", "i">>), Dir(<<>>, Unset, Unset, "h", "X", 27)>>,
    <<Plain("p", 171), Dir(<<>>, Unset, Unset, "z", "u", 255), Plain("f", [nan |-> TRUE, q |-> 0, tie |-> 0])>>,
    <<Plain("a", 0), Plain("f", Float(60 * Den, 0)), Plain("z", 0)>> }

MCCalls ==
  { [fn |-> f, null |-> FALSE, count |-> k, fmt |-> x] :
      f \in {"printf", "fctprintf", "sprintf", "snprintf", "vsnprintf"}, k \in 0 .. 9, x \in Formats }
  \cup { [fn |-> f, null |-> TRUE, count |-> k, fmt |-> x] :
            f \in {"sprintf", "snprintf", "vsnprintf"}, k \in {0, 9}, x \in Formats }
  \cup { [fn |-> "printf", null |-> FALSE, count |-> 0, fmt |-> <<d>>] : d \in IntDirs \cup FloatDirs }

MCMemories == [0 .. 5 -> 0 .. 1] \cup {[a \in 0 .. 5 |-> IF a = 5 THEN 0 ELSE a]}
=============================================================================
