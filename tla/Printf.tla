------------------------------- MODULE Printf -------------------------------
(***************************************************************************)
(* The formatter of software/sdk/src/printf.c.  A format is a sequence of  *)
(* items, a character or a directive with its argument; a conversion turns *)
(* a directive into the sequence of its characters, and the out functions  *)
(* put them into a buffer or on the console.                               *)
(*                                                                         *)
(* A directive is a record: flags (the characters "0" "-" "+" " " "#" as   *)
(* written), width and prec as [star, n] (n < 0 without a star: not        *)
(* given), length, spec and arg.  A double is [nan, q, tie]: the one next  *)
(* to q / Den, and where its fraction, scaled to the precision, would be   *)
(* exactly at a half, the side of the half on which the product of doubles *)
(* falls: -1 below, 0 at the half, 1 above.                                *)
(***************************************************************************)
EXTENDS Integers, Sequences, FiniteSets, SequencesExt

CONSTANTS
  Calls,        \* the calls: records [fn, null, count, fmt]; null: no buffer
  Bits,         \* width in bits of "char", "short", "int" and "long"
  NTOA_BUFFER,  \* PRINTF_NTOA_BUFFER_SIZE
  FTOA_BUFFER,  \* PRINTF_FTOA_BUFFER_SIZE
  MaxPow,       \* the last power of ten in the table, 9 in the code
  thres_max,    \* the largest float printed
  Den,          \* floats are multiples of 1 / Den
  MemSize       \* bytes of the caller's buffer, and a bound on its writes

ASSUME PrintfAssumption ==
  /\ DOMAIN Bits = {"char", "short", "int", "long"}
  /\ {NTOA_BUFFER, FTOA_BUFFER, Den, MemSize} \subseteq Nat \ {0}
  /\ {MaxPow, thres_max} \subseteq Nat

VARIABLES
  pCall,  \* the call
  pPos,   \* items formatted so far
  pIdx,   \* idx
  pMem,   \* the caller's buffer
  pSent,  \* characters given to _putchar or to the caller's function
  pRet    \* the returned length, -1 while the call runs

prfVars == <<pCall, pPos, pIdx, pMem, pSent, pRet>>

NUL == "NUL"  \* the character 0
Old == "old"  \* what the buffer held before the call

SIZE_MAX == 2 ^ Bits["long"] - 1

Lesser(x, y) == IF x < y THEN x ELSE y
Repeat(ch, k) == [i \in 1 .. (IF k > 0 THEN k ELSE 0) |-> ch]

\* Characters appended to a conversion buffer of the given size.
Grow(s, size, add) == SubSeq(s \o add, 1, Lesser(size, Len(s) + Len(add)))
\* while (len < n && len < size) buf[len++] = '0'
PadTo(s, n, size) == Grow(s, size, Repeat("0", n - Len(s)))

----------------------------------------------------------------------------
(* Parsing a directive.                                                    *)

\* The loop over the flags: any order, and a repeated one counts once.
EvalFlags(d) == ToSet(d.flags)

\* A negative width taken from the arguments asks for left adjustment.
EvalWidth(d) ==
  IF d.width.star /\ d.width.n < 0
    THEN [width |-> -d.width.n, flags |-> EvalFlags(d) \cup {"-"}]
    ELSE [width |-> IF d.width.n < 0 THEN 0 ELSE d.width.n, flags |-> EvalFlags(d)]

EvalPrecision(d) ==
  [prec |-> IF d.prec.n > 0 THEN d.prec.n ELSE 0,
   given |-> d.prec.star \/ d.prec.n >= 0]

\* t, j and z are as wide as long, and so is long long.
EvalLength(d) ==
  CASE d.length \in {"l", "ll", "t", "j", "z"} -> "long"
    [] d.length = "hh" -> "char"
    [] d.length = "h" -> "short"
    [] OTHER -> "int"

----------------------------------------------------------------------------
(* Integers.                                                               *)

LowerDigits == <<"0","1","2","3","4","5","6","7","8","9","a","b","c","d","e","f">>
UpperDigits == <<"0","1","2","3","4","5","6","7","8","9","A","B","C","D","E","F">>

\* Numerals of v, the last one first.
Numerals(v, base) ==
  LET num[x \in 0 .. v] ==
        IF x < base THEN <<x>> ELSE <<x % base>> \o num[x \div base]
  IN  num[v]

Spell(s, upper) == [i \in DOMAIN s |-> IF upper THEN UpperDigits[s[i] + 1] ELSE LowerDigits[s[i] + 1]]

\* One digit (two for 0x) makes room when the number fills its field.
StripForHash(s, base, prec, width, given) ==
  IF given \/ s = <<>> \/ Len(s) \notin {prec, width} THEN s
  ELSE LET one == Front(s) IN IF one # <<>> /\ base = 16 THEN Front(one) ELSE one

Prefix(base, upper) ==
  (IF base = 16 THEN <<IF upper THEN "X" ELSE "x">> ELSE IF base = 2 THEN <<"b">> ELSE <<>>) \o <<"0">>

SignOf(negative, flags) ==
  IF negative THEN <<"-">> ELSE IF "+" \in flags THEN <<"+">>
  ELSE IF " " \in flags THEN <<" ">> ELSE <<>>

\* Spaces on the left or the right up to the width.
Field(s, width, flags) ==
  LET spaces == Repeat(" ", width - Len(s))
  IN  IF "-" \in flags THEN Reverse(s) \o spaces
      ELSE IF "0" \in flags THEN Reverse(s) ELSE spaces \o Reverse(s)

\* (mutant: the column of the sign is not taken off)
MutZeroWidth(width, negative, flags) == width

\* A sign takes one column of a field padded with zeros.
ZeroWidth(width, negative, flags) ==
  IF width > 0 /\ "0" \in flags /\ "-" \notin flags
     /\ (negative \/ flags \cap {"+", " "} # {})
    THEN width - 1 ELSE width

ntoa_format(buf, negative, base, upper, prec, given, width0, flags) ==
  LET width  == ZeroWidth(width0, negative, flags)
      padded == IF "-" \in flags THEN buf
                ELSE LET q == PadTo(buf, prec, NTOA_BUFFER)
                     IN  IF "0" \in flags THEN PadTo(q, width, NTOA_BUFFER) ELSE q
      hashed == IF "#" \notin flags THEN padded
                ELSE Grow(StripForHash(padded, base, prec, width, given),
                          NTOA_BUFFER, Prefix(base, upper))
  IN  Field(Grow(hashed, NTOA_BUFFER, SignOf(negative, flags)), width, flags)

\* No digit for 0 with an explicit precision, no prefix for 0, and as many
\* digits as the buffer takes.
ntoa_long(v, negative, base, upper, prec, given, width, flags) ==
  ntoa_format(IF given /\ v = 0 THEN <<>> ELSE Grow(<<>>, NTOA_BUFFER, Spell(Numerals(v, base), upper)),
              negative, base, upper, prec, given, width,
              IF v = 0 THEN flags \ {"#"} ELSE flags)

\* The same for long long, which is not wider than long here.
ntoa_long_long(v, negative, base, upper, prec, given, width, flags) ==
  ntoa_long(v, negative, base, upper, prec, given, width, flags)

\* The argument cut to its type, as an unsigned or a signed number.
Unsigned(a, w) == a % 2 ^ w
Signed(a, w) == LET u == a % 2 ^ w IN IF u >= 2 ^ (w - 1) THEN u - 2 ^ w ELSE u

BaseOf(spec) == CASE spec \in {"x", "X"} -> 16 [] spec = "o" -> 8 [] spec = "b" -> 2 [] OTHER -> 10

\* char is unsigned on this machine; 0 - value wraps in its width.
IntConversion(d) ==
  LET signed == d.spec \in {"d", "i"}
      w      == Bits[EvalLength(d)]
      value  == IF signed /\ EvalLength(d) # "char" THEN Signed(d.arg, w) ELSE Unsigned(d.arg, w)
      mag    == Unsigned(IF value > 0 THEN value ELSE 0 - value, w)
      base   == BaseOf(d.spec)
      pr     == EvalPrecision(d)
      flags  == ((EvalWidth(d).flags \ (IF base = 10 THEN {"#"} ELSE {}))
                   \ (IF signed THEN {} ELSE {"+", " "})) \ (IF pr.given THEN {"0"} ELSE {})
      args   == <<IF signed THEN mag ELSE value, signed /\ value < 0>>
  IN  IF d.length = "ll"
        THEN ntoa_long_long(args[1], args[2], base, d.spec = "X", pr.prec, pr.given, EvalWidth(d).width, flags)
        ELSE ntoa_long(args[1], args[2], base, d.spec = "X", pr.prec, pr.given, EvalWidth(d).width, flags)

PointerConversion(d) ==
  LET pr == EvalPrecision(d)
  IN  ntoa_long_long(Unsigned(d.arg, Bits["long"]), FALSE, 16, TRUE, pr.prec, pr.given,
                     Bits["long"] \div 4, EvalWidth(d).flags \cup {"0"})

----------------------------------------------------------------------------
(* Floats.                                                                 *)

\* The fraction in units of the last place, cut, and by how much the rest
\* is above a half (diff - 0.5, up to a positive factor).
Scaled(part, pow, tie) ==
  LET rest == 2 * ((part * pow) % Den)
  IN  [frac |-> (part * pow) \div Den, above |-> IF rest = Den THEN tie ELSE rest - Den]

\* (mutant: without the rollover)
MutRoundFraction(part, pow, tie) ==
  LET s  == Scaled(part, pow, tie)
      up == s.above > 0 \/ (s.above = 0 /\ (s.frac = 0 \/ s.frac % 2 = 1))
  IN  [frac |-> IF up THEN s.frac + 1 ELSE s.frac, carry |-> 0]

\* Above a half up, with the rollover into the whole part; at a half up when
\* odd or 0, without one.
RoundFraction(part, pow, tie) ==
  LET s == Scaled(part, pow, tie)
  IN  CASE s.above > 0 /\ s.frac + 1 >= pow -> [frac |-> 0, carry |-> 1]
        [] s.above > 0 /\ s.frac + 1 < pow  -> [frac |-> s.frac + 1, carry |-> 0]
        [] s.above < 0 -> [frac |-> s.frac, carry |-> 0]
        [] s.above = 0 -> [frac |-> IF s.frac = 0 \/ s.frac % 2 = 1 THEN s.frac + 1 ELSE s.frac,
                           carry |-> 0]

\* The digits of the fraction, zeros up to the precision (count is unsigned
\* and wraps when there are more digits than the precision), and the point.
FractionDigits(buf, frac, prec) ==
  LET digits == Spell(Numerals(frac, 10), FALSE)
      zeros  == IF Len(digits) > prec THEN FTOA_BUFFER ELSE prec - Len(digits)
  IN  Grow(Grow(Grow(buf, FTOA_BUFFER, digits), FTOA_BUFFER, Repeat("0", zeros)), FTOA_BUFFER, <<".">>)

TooLarge(d) == ~d.arg.nan /\ (IF d.arg.q < 0 THEN -d.arg.q ELSE d.arg.q) > thres_max * Den

ftoa(d) ==
  LET negative == d.arg.q < 0
      value == IF negative THEN -d.arg.q ELSE d.arg.q
      pr    == EvalPrecision(d)
      prec0 == IF pr.given THEN pr.prec ELSE 6
      prec  == Lesser(prec0, MaxPow)
      zeros == Grow(<<>>, FTOA_BUFFER, Repeat("0", prec0 - prec))
      rnd   == RoundFraction(value % Den, 10 ^ prec, d.arg.tie)
      whole == value \div Den + rnd.carry
      \* exactly one half (or more) and odd, without a fraction
      half  == prec = 0 /\ 2 * (value - whole * Den) >= Den /\ whole % 2 = 1
      digits == Spell(Numerals(IF half THEN whole + 1 ELSE whole, 10), FALSE)
      body  == Grow(IF prec = 0 THEN zeros ELSE FractionDigits(zeros, rnd.frac, prec), FTOA_BUFFER, digits)
      flags == EvalWidth(d).flags
      width == ZeroWidth(EvalWidth(d).width, negative, flags)
      padded == IF "0" \in flags /\ "-" \notin flags THEN PadTo(body, width, FTOA_BUFFER) ELSE body
  IN  IF d.arg.nan THEN <<"n", "a", "n">>
      ELSE Field(Grow(padded, FTOA_BUFFER, SignOf(negative, flags)), width, flags)

----------------------------------------------------------------------------
(* Characters and strings.                                                 *)

CharConversion(d) ==
  LET spaces == Repeat(" ", EvalWidth(d).width - 1)
  IN  IF "-" \in EvalWidth(d).flags THEN <<d.arg>> \o spaces ELSE spaces \o <<d.arg>>

strnlen_s(s, maxsize) == Lesser(Len(s), maxsize)

\* A precision of 0 counts the whole string, then l is cut to it.
StringConversion(d) ==
  LET pr  == EvalPrecision(d)
      l0  == strnlen_s(d.arg, IF pr.prec > 0 THEN pr.prec ELSE SIZE_MAX)
      l   == IF pr.given THEN Lesser(l0, pr.prec) ELSE l0
      txt == IF pr.given THEN SubSeq(d.arg, 1, Lesser(Len(d.arg), pr.prec)) ELSE d.arg
      spaces == Repeat(" ", EvalWidth(d).width - l)
  IN  IF "-" \in EvalWidth(d).flags THEN txt \o spaces ELSE spaces \o txt

\* The characters of an item; an unknown specifier stands for itself.
Convert(d) ==
  CASE d.spec \in {"d", "i", "u", "x", "X", "o", "b"} -> IntConversion(d)
    [] d.spec \in {"f", "F"} -> ftoa(d)
    [] d.spec = "c" -> CharConversion(d)
    [] d.spec = "s" -> StringConversion(d)
    [] d.spec = "p" -> PointerConversion(d)
    [] OTHER -> <<d.spec>>

----------------------------------------------------------------------------
(* The out functions: where the characters txt go, from index i on.        *)

\* Only the indices below maxlen are written.
out_buffer(mem, txt, i, maxlen) ==
  [k \in DOMAIN mem |-> IF k >= i /\ k < i + Len(txt) /\ k < maxlen THEN txt[k - i + 1] ELSE mem[k]]
\* The character 0 is not sent.
out_char(sent, txt) == sent \o SelectSeq(txt, LAMBDA ch : ch # NUL)
out_fct(sent, txt)  == sent \o SelectSeq(txt, LAMBDA ch : ch # NUL)
out_null(mem) == mem

\* What each entry point gives to _vsnprintf; printf has no buffer to fill
\* and sprintf no bound.
printf_   == [out |-> "char",   maxlen |-> SIZE_MAX]
fctprintf == [out |-> "fct",    maxlen |-> SIZE_MAX]
sprintf_  == [out |-> "buffer", maxlen |-> SIZE_MAX]
snprintf_(count)  == [out |-> "buffer", maxlen |-> count]
vsnprintf_(count) == [out |-> "buffer", maxlen |-> count]

EntryPoint == CASE pCall.fn = "printf" -> printf_
                [] pCall.fn = "fctprintf" -> fctprintf
                [] pCall.fn = "sprintf" -> sprintf_
                [] pCall.fn = "snprintf" -> snprintf_(pCall.count)
                [] pCall.fn = "vsnprintf" -> vsnprintf_(pCall.count)

\* A NULL buffer: the output function is the one that writes nothing.
Sink == IF pCall.null THEN [EntryPoint EXCEPT !.out = "null"] ELSE EntryPoint

Emit(txt, i) ==
  /\ pMem' = IF Sink.out = "buffer" THEN out_buffer(pMem, txt, i, Sink.maxlen) ELSE out_null(pMem)
  /\ pSent' = IF Sink.out = "char" THEN out_char(pSent, txt)
              ELSE IF Sink.out = "fct" THEN out_fct(pSent, txt) ELSE pSent

\* The loop over the format.  A float that is too large prints nothing and
\* returns 0, and with it the index falls back to 0.
vsnprintf ==
  /\ pPos < Len(pCall.fmt)
  /\ LET d == pCall.fmt[pPos + 1]
         lost == d.spec \in {"f", "F"} /\ TooLarge(d)
         txt == IF lost THEN <<>> ELSE Convert(d)
     IN  /\ Emit(txt, pIdx)
         /\ pIdx' = IF lost THEN 0 ELSE pIdx + Len(txt)
  /\ pPos' = pPos + 1
  /\ UNCHANGED <<pCall, pRet>>

\* (mutant: the last character is not given up for the terminator)
MutTerminationIndex == pIdx
TerminationIndex == IF pIdx < Sink.maxlen THEN pIdx ELSE (Sink.maxlen - 1) % (SIZE_MAX + 1)

\* The terminator, and the length that would have been written.
Terminate ==
  /\ pPos = Len(pCall.fmt) /\ pRet = -1
  /\ Emit(<<NUL>>, TerminationIndex)
  /\ pRet' = pIdx
  /\ UNCHANGED <<pCall, pPos, pIdx>>

PrfInit ==
  /\ pCall \in Calls /\ pPos = 0 /\ pIdx = 0 /\ pRet = -1
  /\ pMem = [k \in 0 .. MemSize - 1 |-> Old] /\ pSent = <<>>

PrfNext == vsnprintf \/ Terminate

----------------------------------------------------------------------------
(* Reading a conversion back.                                              *)

Letters == {"-", "+", " ", "x", "X", "b", "."}
ValueOf(ch) == CHOOSE v \in 0 .. 15 : ch \in {LowerDigits[v + 1], UpperDigits[v + 1]}
ReadNumber(txt, base) ==
  FoldLeft(LAMBDA n, ch : n * base + ValueOf(ch), 0, SelectSeq(txt, LAMBDA ch : ch \notin Letters))
Magnitude(x) == IF x < 0 THEN -x ELSE x

\* What the directive is to print: the argument in its type.
Meant(d) ==
  LET w == Bits[EvalLength(d)]
  IN  IF d.spec \in {"d", "i"} /\ d.length # "hh" THEN Signed(d.arg, w) ELSE Unsigned(d.arg, w)
ShortestText(d) ==
  Len(Numerals(Magnitude(Meant(d)), BaseOf(d.spec)))
    + (IF Meant(d) < 0 \/ (d.spec \in {"d", "i"} /\ EvalFlags(d) \cap {"+", " "} # {}) THEN 1 ELSE 0)
    + (IF "#" \notin EvalFlags(d) \/ Meant(d) = 0 \/ BaseOf(d.spec) = 10 THEN 0
       ELSE IF BaseOf(d.spec) = 8 THEN 1 ELSE 2)

\* The number fits the conversion buffer, and "#" does not meet a number
\* as wide as its field, where the code overwrites leading digits.
Representable(d) ==
  /\ ShortestText(d) <= NTOA_BUFFER /\ Magnitude(d.width.n) <= NTOA_BUFFER
  /\ d.prec.n + 3 <= NTOA_BUFFER
  /\ "#" \in EvalFlags(d) =>
       \/ EvalPrecision(d).given
       \/ "0" \in EvalFlags(d) /\ "-" \notin EvalFlags(d) /\ ShortestText(d) <= d.width.n
       \/ Len(Numerals(Magnitude(Meant(d)), BaseOf(d.spec))) # EvalWidth(d).width

(***************************************************************************)
(* printf.c:166-299 and 574-651.  The digits of an integer conversion read *)
(* back as the argument in its type (the most negative one included), and  *)
(* without a precision the text is as wide as the field, or as the number. *)
(***************************************************************************)
IntegersReadBack ==
  pRet # -1 => \A k \in DOMAIN pCall.fmt : LET d == pCall.fmt[k] IN
    d.spec \in {"d", "i", "u", "x", "X", "o", "b"} /\ Representable(d) =>
      LET txt == IntConversion(d)
      IN  /\ ReadNumber(txt, BaseOf(d.spec)) = Magnitude(Meant(d))
          /\ Meant(d) < 0 <=> \E i \in DOMAIN txt : txt[i] = "-"
          /\ ~EvalPrecision(d).given =>
               Len(txt) = LET n == ShortestText(d) IN IF n < EvalWidth(d).width THEN EvalWidth(d).width ELSE n

\* Digits behind the point.
Places(txt) == LET pts == {i \in DOMAIN txt : txt[i] = "."}
               IN  IF pts = {} THEN 0
                   ELSE Cardinality({i \in DOMAIN txt : txt[i] # " " /\ \A j \in pts : i > j})

\* The decimal of the asked precision nearest to the float, at a half either.
RoundedWell(d) ==
  LET txt == ftoa(d)
      off == ReadNumber(txt, 10) * Den - Magnitude(d.arg.q) * 10 ^ Places(txt)
  IN  /\ Places(txt) = IF EvalPrecision(d).given THEN EvalPrecision(d).prec ELSE 6
      /\ 2 * Magnitude(off) <= Den

\* The scaled fraction is exactly 9.5, 99.5, ...: the halfway branch counts
\* it up to 10, 100, ... (printf.c:357-360).
HalfAboveNines(d) ==
  LET prec == EvalPrecision(d).prec
      s    == Scaled(Magnitude(d.arg.q) % Den, 10 ^ prec, d.arg.tie)
  IN  EvalPrecision(d).given /\ prec > 0 /\ s.above = 0 /\ s.frac + 1 = 10 ^ prec

Printed == IF pRet = -1 THEN {}
           ELSE {k \in DOMAIN pCall.fmt : LET d == pCall.fmt[k] IN
                   d.spec = "f" /\ ~d.arg.nan /\ ~TooLarge(d)}

(***************************************************************************)
(* printf.c:345-360: a float prints as the decimal of the asked precision  *)
(* that is nearest to it, also where rounding carries through the fraction *)
(* into the whole part (0.99 with prec 1, 1.998 with prec 2, 0.75 with     *)
(* prec 0).  It leaves out the fractions exactly halfway above all nines,  *)
(* for which RolloverHandled fails.                                        *)
(***************************************************************************)
FloatsRound ==
  \A k \in Printed : ~HalfAboveNines(pCall.fmt[k]) => RoundedWell(pCall.fmt[k])

(***************************************************************************)
(* printf.c:352, "handle rollover, e.g. case 0.99 with prec 1 is 1.0": the *)
(* same for every float.  The code handles the rollover in the branch      *)
(* above one half only: 0.95 with prec 1 scales to exactly 9.5, and frac   *)
(* becomes 10, one digit more than the precision.                          *)
(***************************************************************************)
RolloverHandled == \A k \in Printed : RoundedWell(pCall.fmt[k])

\* The characters of the whole format.
FullText == FoldLeft(LAMBDA s, d : s \o Convert(d), <<>>, pCall.fmt)
NothingLost == \A k \in DOMAIN pCall.fmt : ~(pCall.fmt[k].spec = "f" /\ TooLarge(pCall.fmt[k]))

(***************************************************************************)
(* printf.c:103-140 and 744.  A bounded call leaves the longest prefix of  *)
(* the text that fits with its terminator, and touches nothing behind it;  *)
(* with a bound of 0 it touches nothing.  The console gets the whole text. *)
(***************************************************************************)
OutputIsPrefix ==
  pRet # -1 /\ NothingLost =>
    LET kept == IF Sink.maxlen = 0 THEN -1 ELSE Lesser(Len(FullText), Sink.maxlen - 1)
    IN  /\ pRet = Len(FullText)
        /\ Sink.out \in {"char", "fct"} => pSent = SelectSeq(FullText, LAMBDA ch : ch # NUL)
        /\ Sink.out = "buffer" =>
             pMem = [i \in DOMAIN pMem |-> IF i < kept THEN FullText[i + 1]
                                           ELSE IF i = kept THEN NUL ELSE Old]
        /\ Sink.out # "buffer" => \A i \in DOMAIN pMem : pMem[i] = Old
=============================================================================
