----------------------------- MODULE MCPlatform -----------------------------
(***************************************************************************)
(* The programs that run on the SoC, with the devices each of them uses,   *)
(* and the invalidation filter.  They share no state: a behaviour runs one *)
(* part and leaves the others idle.                                        *)
(***************************************************************************)
EXTENDS Bsp, Axu, Vmma, AsicDma, DmaReg, AxiInvalFilter

VARIABLE which  \* the part that runs

CONSTANT Parts

Idle(part) ==
  /\ part # "bsp" => prog = "off" /\ pc = 0 /\ a0 = 0 /\ t0 = Mine /\ frame = <<"off">> /\ ctx = <<>> /\ mie = {} /\ gie = FALSE
       /\ cb = <<>> /\ left = Never /\ msip = FALSE /\ plic = <<>> /\ line = FALSE /\ hits = {}
       /\ thr = NoChar /\ tx = [char |-> NoChar, bits |-> 0] /\ delay = 0 /\ eoc = 0 /\ trail = {}
       /\ counts = [asked |-> [c \in DOMAIN Rank |-> 0], served |-> [c \in DOMAIN Rank |-> 0], lost |-> FALSE]
  /\ part # "syscalls" => syPc = "off" /\ brk = 0 /\ errno = "none" /\ sent = 0 /\ blocks = {} /\ calls = 0
  /\ part # "axu" => suite = <<>> /\ case = 0 /\ step = 0 /\ fails = 0 /\ result = "off" /\ timeouts = 0
       /\ ports = <<>> /\ sticky = FALSE /\ irq = FALSE /\ st = "IDLE" /\ cfg = <<>> /\ cnt = <<>>
       /\ dout = <<>> /\ operand = <<>> /\ readValid = NoTag /\ launch = NoTag /\ tags = <<>>
       /\ row = 0 /\ slot = 0 /\ entry = 0 /\ flush = 0 /\ bounds = 0 /\ seed = <<>> /\ lut = <<>> /\ out = <<>>
  /\ part # "vmma" => vmPc = "off" /\ vmLeft = 0 /\ vmVerdict = "none" /\ vmJob = <<>> /\ vmSt = "off"
       /\ vmRow = 0 /\ vmBeat = 0 /\ vmBusy = FALSE /\ vmDone = FALSE /\ vmErr = 0
       /\ vmX = <<>> /\ vmW = <<>> /\ vmLat = <<>> /\ vmY = <<>>
  /\ part # "asicdma" => adPc = "off" /\ adJob = 0 /\ adWant = 0 /\ adSrc = 0 /\ adDst = 0 /\ adSt = "off"
       /\ adBusy = FALSE /\ adDone = FALSE /\ adIrq = FALSE /\ adRead = 0 /\ adResult = 0 /\ adMem = <<>>
  /\ part # "dmareg" => next = 0 /\ completed = 0 /\ issued = 0 /\ landed = 0 /\ ids = <<>> /\ waited = 0
  /\ part # "inval" => ivFifo = <<>> /\ ivState = "off" /\ ivOffset = 0 /\ ivStale = {} /\ ivWrites = 0

MCInit ==
  /\ which \in Parts
  /\ CASE which = "bsp" -> BspInit [] which = "syscalls" -> SyInit [] which = "axu" -> AxInit
       [] which = "vmma" -> VmInit [] which = "asicdma" -> AdInit
       [] which = "dmareg" -> DrInit [] OTHER -> IvInit
  /\ Idle(which)

MCNext ==
  /\ UNCHANGED which
  /\ \/ which = "bsp"      /\ BspNext /\ UNCHANGED <<syVars, axVars, vmVars, adVars, drVars, ivVars>>
     \/ which = "syscalls" /\ SyNext  /\ UNCHANGED <<bspVars, axVars, vmVars, adVars, drVars, ivVars>>
     \/ which = "axu"      /\ AxNext  /\ UNCHANGED <<bspVars, syVars, vmVars, adVars, drVars, ivVars>>
     \/ which = "vmma"     /\ VmNext  /\ UNCHANGED <<bspVars, syVars, axVars, adVars, drVars, ivVars>>
     \/ which = "asicdma"  /\ AdNext  /\ UNCHANGED <<bspVars, syVars, axVars, vmVars, drVars, ivVars>>
     \/ which = "dmareg"   /\ DrNext  /\ UNCHANGED <<bspVars, syVars, axVars, vmVars, adVars, ivVars>>
     \/ which = "inval"    /\ IvNext  /\ UNCHANGED <<bspVars, syVars, axVars, vmVars, adVars, drVars>>

MCSpec ==
  /\ MCInit /\ [][MCNext]_<<which, bspVars, syVars, axVars, vmVars, adVars, drVars, ivVars>>
  /\ BspFairness /\ AxFairness /\ DrFairness

----------------------------------------------------------------------------
(* The cases of the AXU test: every unit, batches from none to three, a    *)
(* table of one row and one of three.                                      *)

Case(unit, func, a, b, o, n, special) ==
  [unit |-> unit, func |-> func, opa |-> a, opb |-> b, out |-> o, batch |-> n, special |-> special,
   rows |-> IF unit = "SCH" THEN 4 ELSE n,
   vec_out    |-> IF func \in {"REDUCE_MAX", "REDUCE_SUM"} THEN 0 ELSE o,
   reduce_out |-> IF func \in {"REDUCE_MAX", "REDUCE_SUM"} THEN o ELSE 0]
Vec(func, n) == Case("VPU", func, 2, 4, 1, n, "none")

MCSuites ==
  {<<Vec(f, n)>> : f \in {"ADD", "MUL", "MAX_EW", "REDUCE_MAX", "REDUCE_SUM"}, n \in 0 .. 3}
  \union {<<Vec("MIN_EW", 2), Case("SFU", "ITP", 3, 0, 4, n, "none")>> : n \in 1 .. 3}
  \union {<<Case("SFU", "RNG", 5, 6, 0, 0, "seed"), Case("SFU", "RNG", 0, 0, 2, 3, "none")>>,
          <<Case("NLI", "mult", 1, 0, 0, 0, "lut"), Case("NLI", "ybnd", 3, 0, 0, 0, "lut"),
            Case("NLI", "COMPUTE", 6, 2, 1, 3, "none")>>,
          <<Case("SCH", "RUN", 2, 0, 3, 0, "none")>>}

MCLutEntries == [mult |-> 1, ybnd |-> 5]

(* The configurations of VMMA: at, below and beyond the limits. *)

MCJobs == [dtype : {"int16", "int32"}, m : {0, 1, 2, 5, 6}, n : {0, 1, 3, 5, 6}]

(* The bursts of the vector unit: aligned and not, below and above a line. *)

MCBursts == [addr : {0, 3, 5}, len : {0, 2}, size : {0, 2}]
=============================================================================
