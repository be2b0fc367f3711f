------------------------------ MODULE Syscalls ------------------------------
(***************************************************************************)
(* The system calls of the C library, software/sdk/src/syscalls.c: what    *)
(* each call returns, what it leaves in errno, and the two that change     *)
(* state, the break of the heap and the console.  A call is made directly  *)
(* or by an ecall through handle_syscall.                                  *)
(***************************************************************************)
EXTENDS Integers, Sequences, FiniteSets

CONSTANTS
  HeapEnd,    \* __heap_end; __heap_start is 0
  StackTops,  \* where sp may be when _sbrk is called
  Requests,   \* what _sbrk is asked for
  Releases,   \* what it is asked to take back
  MaxCalls    \* bound: calls of a program

ASSUME HeapAssumption ==
  /\ HeapEnd \in Nat /\ StackTops \subseteq Nat
  /\ Requests \subseteq Nat /\ Releases \subseteq Nat /\ MaxCalls \in Nat

VARIABLES
  syPc,     \* "ready", or "exited" once _exit was called
  brk,      \* the break
  errno,
  sent,     \* characters given to the console
  blocks,   \* history: the blocks handed out and not given back, <<first, end>>
  calls     \* number of calls made

syVars == <<syPc, brk, errno, sent, blocks, calls>>

----------------------------------------------------------------------------
(* What a call answers: its value and, if it sets it, errno.               *)

Answer(ret, err) == [ret |-> ret, err |-> err]
Fails(err) == Answer(-1, err)
Quiet(ret) == Answer(ret, "kept")

sys_nanosleep    == Fails("ENOSYS")
sys_access       == Fails("ENOSYS")
sys_chdir        == Fails("ENOSYS")
sys_chmod        == Fails("ENOSYS")
sys_chown        == Fails("ENOSYS")
sys_close        == Quiet(-1)
sys_execve       == Fails("ENOMEM")
sys_faccessat    == Fails("ENOSYS")
sys_fork         == Fails("EAGAIN")
sys_fstat        == Quiet(0)
sys_fstatat      == Fails("ENOSYS")
sys_ftime        == Fails("ENOSYS")
sys_getcwd       == Answer(0, "-ENOSYS")
sys_getpid       == Quiet(1)
sys_gettimeofday == Fails("-ENOSYS")
sys_isatty(file) == Quiet(IF file \in {1, 2} THEN 1 ELSE 0)
sys_kill         == Fails("EINVAL")
sys_link         == Fails("EMLINK")
sys_lseek        == Quiet(0)
sys_lstat        == Fails("ENOSYS")
sys_open         == Quiet(-1)
sys_openat       == Fails("ENOSYS")
sys_read         == Quiet(0)
sys_stat         == Quiet(0)
sys_sysconf      == Quiet(-1)
sys_times        == Quiet(-1)
sys_unlink       == Fails("ENOENT")
sys_utime        == Fails("ENOSYS")
sys_wait         == Fails("ECHILD")

\* __syscall_error, given the negated error number.
syscall_error(e) == Fails(e)

\* The calls that only answer, as the program makes them itself.
Direct ==
  {sys_nanosleep, sys_access, sys_chdir, sys_chmod, sys_chown, sys_close, sys_execve,
   sys_faccessat, sys_fork, sys_fstat, sys_fstatat, sys_ftime, sys_getcwd, sys_getpid,
   sys_gettimeofday, sys_isatty(0), sys_isatty(1), sys_kill, sys_link, sys_lseek, sys_lstat,
   sys_open, sys_openat, sys_read, sys_stat, sys_sysconf, sys_times, sys_unlink,
   sys_utime, sys_wait, syscall_error("EBADF")}

\* The calls handle_syscall makes of an ecall, by number; the others are
\* not implemented.
ByNumber ==
  [read |-> sys_read, getpid |-> sys_getpid, kill |-> sys_kill, open |-> sys_open,
   openat |-> sys_openat, close |-> sys_close, lseek |-> sys_lseek, link |-> sys_link,
   unlink |-> sys_unlink, chdir |-> sys_chdir, getcwd |-> sys_getcwd, stat |-> sys_stat,
   fstat |-> sys_fstat, lstat |-> sys_lstat, fstatat |-> sys_fstatat, access |-> sys_access,
   faccessat |-> sys_faccessat, gettimeofday |-> sys_gettimeofday, times |-> sys_times]

\* unimplemented_syscall
Unimplemented == Quiet(-38)

\* What an ecall leaves in a0.
handle_syscall(id) == IF id \in DOMAIN ByNumber THEN ByNumber[id] ELSE Unimplemented

----------------------------------------------------------------------------
Ready == syPc = "ready" /\ calls < MaxCalls /\ calls' = calls + 1
SetErrno(a) == errno' = IF a.err = "kept" THEN errno ELSE a.err

\* The part of the blocks below the break b.
Below(b) == {<<x[1], IF x[2] < b THEN x[2] ELSE b>> : x \in {y \in blocks : y[1] < b}}

\* The break moves whether or not the new one is allowed.
\* (mutant: the caller is given the new break, the end of its block)
MutGiven(old, new) == new
Given(old, new) == old

Sbrk ==
  /\ Ready
  /\ \E incr \in Requests \union {-r : r \in Releases}, sp \in StackTops :
       LET new == brk + incr
           ok  == new < sp /\ new < HeapEnd
           at  == Given(brk, new)
       IN /\ new >= 0 /\ \A b \in blocks : b[2] <= sp
          /\ brk' = new
          /\ errno' = IF ok THEN errno ELSE "ENOMEM"
          /\ blocks' = IF ~ok THEN blocks
                       ELSE IF incr > 0 THEN blocks \union {<<at, at + incr>>}
                       ELSE Below(new)
  /\ UNCHANGED <<syPc, sent>>

\* _brk, reached by SYS_brk: no test, and what lies above is given back.
Brk ==
  /\ Ready
  /\ \E addr \in 0 .. HeapEnd : brk' = addr /\ blocks' = Below(addr)
  /\ UNCHANGED <<syPc, errno, sent>>

\* _write: standard output and standard error are the console.
Write ==
  /\ Ready
  /\ \E file \in 0 .. 3, len \in 0 .. 2 :
       IF file \in {1, 2} THEN sent' = sent + len /\ UNCHANGED errno
       ELSE errno' = "ENOSYS" /\ UNCHANGED sent
  /\ UNCHANGED <<syPc, brk, blocks>>

Stub ==
  /\ Ready
  /\ \E a \in Direct : SetErrno(a)
  /\ UNCHANGED <<syPc, brk, sent, blocks>>

Ecall ==
  /\ Ready
  /\ \E id \in {"getpid", "open", "unlink", "getcwd", "mmap"} : SetErrno(handle_syscall(id))
  /\ UNCHANGED <<syPc, brk, sent, blocks>>

\* _exit does not return.
Exit ==
  /\ Ready
  /\ syPc' = "exited"
  /\ UNCHANGED <<brk, errno, sent, blocks>>

SyInit ==
  /\ syPc = "ready" /\ brk = 0 /\ errno = "none" /\ sent = 0 /\ blocks = {} /\ calls = 0

SyNext == Sbrk \/ Brk \/ Write \/ Stub \/ Ecall \/ Exit

SySpec == SyInit /\ [][SyNext]_syVars

----------------------------------------------------------------------------
(***************************************************************************)
(* What _sbrk has handed out and not taken back never overlaps and lies in *)
(* the heap, also after requests that failed, which move the break all the *)
(* same, and after releases from there (syscalls.c:295-302).               *)
(***************************************************************************)
HeapBlocksApart ==
  /\ \A b \in blocks : 0 <= b[1] /\ b[2] < HeapEnd
  /\ \A b, c \in blocks : b # c => b[2] <= c[1] \/ c[2] <= b[1]
=============================================================================
