------------------------------ MODULE CString ------------------------------
(***************************************************************************)
(* The memory and string functions of the two small C libraries: minlibc.c *)
(* works byte by byte, string.c by whole words where the operands are      *)
(* aligned.  Memory is a function from addresses to bytes 0 .. Bytes - 1;  *)
(* one call is made in a behaviour, on any content of the memory.          *)
(***************************************************************************)
EXTENDS Integers, Sequences, FiniteSets

CONSTANTS
  Word,      \* sizeof(uintptr_t)
  Top,       \* the last address
  Bytes,     \* bytes are 0 .. Bytes - 1, and 0 ends a string
  Memories   \* the contents the memory may start with

ASSUME CStringAssumption ==
  /\ Word \in Nat \ {0} /\ Top \in Nat /\ Bytes \in Nat \ {0, 1}
  /\ Memories \subseteq [0 .. Top -> 0 .. Bytes - 1]

VARIABLES cMem,   \* memory
          cWas,   \* memory before the last call
          cCall,  \* the last call: [fn, d, s, n]
          cRet    \* what it returned

strVars == <<cMem, cWas, cCall, cRet>>

\* The memory after the first k steps of a loop that copies byte i to j.
CopyLoop(mem, n, from(_), to(_)) ==
  LET step[k \in 0 .. n] ==
        IF k = 0 THEN mem ELSE [step[k - 1] EXCEPT ![to(k - 1)] = step[k - 1][from(k - 1)]]
  IN  step[n]
Upward(mem, d, s, n)   == CopyLoop(mem, n, LAMBDA k : s + k, LAMBDA k : d + k)
Downward(mem, d, s, n) == CopyLoop(mem, n, LAMBDA k : s + n - 1 - k, LAMBDA k : d + n - 1 - k)

\* Words are read whole before they are written.
UpwardWords(mem, d, s, n) ==
  LET step[k \in 0 .. n \div Word] ==
        IF k = 0 THEN mem
        ELSE [a \in DOMAIN mem |->
                IF a \in d + Word * (k - 1) .. d + Word * k - 1
                  THEN step[k - 1][a - d + s] ELSE step[k - 1][a]]
  IN  step[n \div Word]
Aligned(x) == x % Word = 0

----------------------------------------------------------------------------
(* minlibc.c.                                                              *)

mini_memset(mem, d, ch, n) == [a \in DOMAIN mem |-> IF a \in d .. d + n - 1 THEN ch % Bytes ELSE mem[a]]
mini_memcpy(mem, d, s, n) == Upward(mem, d, s, n)

\* (mutant: always upward)
MutMemmove(mem, d, s, n) == Upward(mem, d, s, n)
mini_memmove(mem, d, s, n) == IF d < s THEN Upward(mem, d, s, n) ELSE Downward(mem, d, s, n)

\* The string at s runs to the first 0; the domain holds one.
mini_strlen(mem, s) == (CHOOSE a \in s .. Top : mem[a] = 0 /\ \A x \in s .. a - 1 : mem[x] # 0) - s
HasString(mem, s) == \E a \in s .. Top : mem[a] = 0

\* The first place where the loop of strcmp stops.
StopsAt(mem, s1, s2, k) == mem[s1 + k] = 0 \/ mem[s1 + k] # mem[s2 + k]
FirstStop(mem, s1, s2) == CHOOSE k \in 0 .. Top : StopsAt(mem, s1, s2, k) /\ \A x \in 0 .. k - 1 : ~StopsAt(mem, s1, s2, x)
mini_strcmp(mem, s1, s2) == LET k == FirstStop(mem, s1, s2) IN mem[s1 + k] - mem[s2 + k]

\* Cut or filled with zeros to exactly n bytes; copied upward.
mini_strncpy(mem, d, s, n) ==
  LET step[k \in 0 .. n] ==
        IF k = 0 THEN [m |-> mem, end |-> FALSE]
        ELSE LET was == step[k - 1]
                 end == was.end \/ was.m[s + k - 1] = 0
             IN  [m |-> [was.m EXCEPT ![d + k - 1] = IF end THEN 0 ELSE was.m[s + k - 1]], end |-> end]
  IN  step[n].m

\* What the loop of strncmp returns with the given number of bytes left: a
\* difference where it stops, 0 when the count in its body reaches 0.
\* (mutant: the last byte is not compared)
MutStrncmp(mem, s1, s2, n) ==
  LET loop[left \in 0 .. n] ==
        IF left # 0 /\ ~StopsAt(mem, s1, s2, n - left)
          THEN IF left - 1 <= 1 THEN 0 ELSE loop[left - 1]
          ELSE mem[s1 + n - left] - mem[s2 + n - left]
  IN  IF n = 0 THEN 0 ELSE loop[n]
mini_strncmp(mem, s1, s2, n) ==
  LET loop[left \in 0 .. n] ==
        IF left # 0 /\ ~StopsAt(mem, s1, s2, n - left)
          THEN IF left - 1 = 0 THEN 0 ELSE loop[left - 1]
          ELSE mem[s1 + n - left] - mem[s2 + n - left]
  IN  IF n = 0 THEN 0 ELSE loop[n]

\* The address of the first c, or NULL; the terminator is never found.
NULL == -1
mini_strchr(mem, s, ch) ==
  LET hits == {a \in s .. s + mini_strlen(mem, s) - 1 : mem[a] = ch}
  IN  IF hits = {} THEN NULL ELSE CHOOSE a \in hits : \A x \in hits : a <= x

----------------------------------------------------------------------------
(* string.c.                                                               *)

word_memcpy(mem, d, s, n) ==
  IF Aligned(d) /\ Aligned(s) /\ Aligned(n) THEN UpwardWords(mem, d, s, n) ELSE Upward(mem, d, s, n)

\* The byte is replicated through the word.
word_memset(mem, d, ch, n) ==
  IF Aligned(d) /\ Aligned(n)
    THEN LET word == [i \in 0 .. Word - 1 |-> ch % Bytes]
         IN  [a \in DOMAIN mem |-> IF a \in d .. d + n - 1 THEN word[(a - d) % Word] ELSE mem[a]]
    ELSE mini_memset(mem, d, ch, n)

\* Whole equal words are skipped first, then bytes are compared.
word_memcmp(mem, s1, s2, n) ==
  LET same(k)  == \A i \in Word * k .. Word * k + Word - 1 : mem[s1 + i] = mem[s2 + i]
      words    == IF Aligned(s1) /\ Aligned(s2)
                    THEN CHOOSE k \in 0 .. n \div Word :
                           (\A x \in 0 .. k - 1 : same(x)) /\ (k = n \div Word \/ ~same(k))
                    ELSE 0
      diffs    == {i \in Word * words .. n - 1 : mem[s1 + i] # mem[s2 + i]}
  IN  IF diffs = {} THEN 0
      ELSE LET i == CHOOSE x \in diffs : \A y \in diffs : x <= y IN mem[s1 + i] - mem[s2 + i]

word_strlen(mem, s) == mini_strlen(mem, s)
word_strcmp(mem, s1, s2) == mini_strcmp(mem, s1, s2)
word_strcpy(mem, d, s) == Upward(mem, d, s, mini_strlen(mem, s) + 1)

----------------------------------------------------------------------------
(* A caller that keeps to the functions' rules: all operands lie in        *)
(* memory, strings are terminated, and only memmove is given operands that *)
(* overlap.                                                                *)

Apart(d, s, n) == d + n <= s \/ s + n <= d

Changes(fn, d, s, n, mem) ==
  /\ cCall.fn = "none"
  /\ cMem' = mem /\ cWas' = cMem /\ cRet' = d
  /\ cCall' = [fn |-> fn, d |-> d, s |-> s, n |-> n]
Returns(fn, d, s, n, value) ==
  /\ cCall.fn = "none"
  /\ cMem' = cMem /\ cWas' = cMem /\ cRet' = value
  /\ cCall' = [fn |-> fn, d |-> d, s |-> s, n |-> n]

StrNext == \E d, s \in 0 .. Top, n \in 0 .. Top + 1 :
  \/ /\ d + n <= Top + 1 /\ s + n <= Top + 1
     /\ \/ Changes("memmove", d, s, n, mini_memmove(cMem, d, s, n))
        \/ Apart(d, s, n) /\ Changes("memcpy", d, s, n, mini_memcpy(cMem, d, s, n))
        \/ Apart(d, s, n) /\ Changes("memcpy", d, s, n, word_memcpy(cMem, d, s, n))
        \/ Returns("memcmp", d, s, n, word_memcmp(cMem, d, s, n))
        \/ Apart(d, s, n) /\ HasString(cMem, s) /\ Changes("strncpy", d, s, n, mini_strncpy(cMem, d, s, n))
  \/ /\ d + n <= Top + 1 /\ s < Bytes
     /\ \/ Changes("memset", d, s, n, mini_memset(cMem, d, s, n))
        \/ Changes("memset", d, s, n, word_memset(cMem, d, s, n))
  \/ /\ HasString(cMem, d) /\ HasString(cMem, s)
     /\ \/ n <= Top + 1 - (IF d > s THEN d ELSE s) /\ Returns("strncmp", d, s, n, mini_strncmp(cMem, d, s, n))
        \/ n = 0 /\ Returns("strcmp", d, s, n, mini_strcmp(cMem, d, s))
        \/ n = 0 /\ Returns("strcmp", d, s, n, word_strcmp(cMem, d, s))
        \/ n < Bytes /\ n # 0 /\ d = s /\ Returns("strchr", d, s, n, mini_strchr(cMem, d, n))
  \/ /\ n = 0 /\ HasString(cMem, s)
     /\ \/ d = s /\ Returns("strlen", d, s, n, mini_strlen(cMem, s))
        \/ d = s /\ Returns("strlen", d, s, n, word_strlen(cMem, s))
        \/ LET k == mini_strlen(cMem, s) + 1
           IN  /\ d + k <= Top + 1 /\ Apart(d, s, k)
               /\ Changes("strcpy", d, s, k, word_strcpy(cMem, d, s))

StrInit ==
  /\ cMem \in Memories /\ cWas = cMem /\ cRet = 0
  /\ cCall = [fn |-> "none", d |-> 0, s |-> 0, n |-> 0]

StrSpec == StrInit /\ [][StrNext]_strVars

----------------------------------------------------------------------------
(***************************************************************************)
(* What the copying functions leave behind is the block as it was before   *)
(* the call, at its new place, and nothing else changed: also for          *)
(* overlapping operands of memmove (minlibc.c:38), and by words as by      *)
(* bytes (string.c:6).                                                     *)
(***************************************************************************)
BlockMoved ==
  cCall.fn \in {"memmove", "memcpy", "strcpy"} =>
    cMem = [a \in 0 .. Top |-> IF a \in cCall.d .. cCall.d + cCall.n - 1
                                 THEN cWas[a - cCall.d + cCall.s] ELSE cWas[a]]

\* The first n bytes of two operands, up to the end of the strings, agree.
AgreeUpTo(n, stop) ==
  \A k \in 0 .. n - 1 :
    \/ cMem[cCall.d + k] = cMem[cCall.s + k]
    \/ stop /\ \E x \in 0 .. k - 1 : cMem[cCall.d + x] = 0 /\ cMem[cCall.s + x] = 0

(***************************************************************************)
(* A comparison returns 0 for equal operands alone: strncmp looks at n     *)
(* bytes and no more, though it counts n down in the loop condition        *)
(* (minlibc.c:89), and memcmp neither skips nor repeats a byte between its *)
(* two loops (string.c:63).                                                *)
(***************************************************************************)
ZeroMeansEqual ==
  /\ cCall.fn = "memcmp"  => (cRet = 0 <=> AgreeUpTo(cCall.n, FALSE))
  /\ cCall.fn = "strncmp" => (cRet = 0 <=> AgreeUpTo(cCall.n, TRUE))
=============================================================================
