---------------------------- MODULE MCHostTools ----------------------------
(***************************************************************************)
(* The programs around a simulation, which share no state: a behaviour     *)
(* runs one of them and leaves the others idle.                            *)
(***************************************************************************)
EXTENDS MemUtil, Preload, SimCtrl, Bitbang, UartDpi

VARIABLE which  \* the part that runs

CONSTANT Parts

Idle(part) ==
  /\ part # "memutil" => muPc = "off" /\ todo = <<>> /\ files = <<>> /\ options = <<>> /\ loads = <<>>
       /\ nameToMem = <<>> /\ addrToMem = {} /\ staging = <<>> /\ seg = 0 /\ contents = <<>>
       /\ was = <<>> /\ muRes = "off"
  /\ part # "preload" => plPc = "off" /\ elf = <<>> /\ header = 0 /\ sections = <<>> /\ mems = <<>>
       /\ section_index = 0 /\ at = 0 /\ buffer = <<>> /\ word = 0 /\ last = 0 /\ sram = <<>> /\ htif = <<>>
  /\ part # "simctrl" => scPc = "off" /\ tracing_possible = FALSE /\ argv = <<>> /\ exit_app = FALSE /\ goodLine = FALSE
       /\ term_after = 0 /\ time = 0 /\ reset = FALSE /\ enabled = FALSE /\ ever = FALSE
       /\ changed = FALSE /\ traceFile = "never" /\ stop = FALSE /\ success = TRUE
       /\ finish = FALSE /\ stopping = FALSE /\ signals = 0 /\ status = 0
  /\ part # "bitbang" => impl = "off" /\ bbPc = "off" /\ client_fd = FALSE /\ link = "off"
       /\ script = <<>> /\ wire = <<>> /\ pinsSet = 0 /\ pinsSeen = 0 /\ tdo = 0 /\ replies = <<>>
       /\ quit = FALSE /\ sessions = 0
  /\ part # "uart" => uaPc = "off" /\ path = "" /\ typed = <<>> /\ all = <<>> /\ tmp_read = <<>>
       /\ terminal = <<>> /\ log = <<>> /\ written = <<>> /\ tx_o = 1 /\ txactive = FALSE
       /\ txcount = 0 /\ txcyccount = 0 /\ txsymbol = <<>> /\ rxactive = FALSE /\ rxcount = 0
       /\ rxcyccount = 0 /\ rxsymbol = <<>>

MCInit ==
  /\ which \in Parts
  /\ CASE which = "memutil" -> MuInit [] which = "preload" -> PlInit [] which = "simctrl" -> ScInit
       [] which = "bitbang" -> BbInit [] OTHER -> UaInit
  /\ Idle(which)

MCNext ==
  /\ UNCHANGED which
  /\ \/ which = "memutil" /\ MuNext /\ UNCHANGED <<plVars, scVars, bbVars, uaVars>>
     \/ which = "preload" /\ PlNext /\ UNCHANGED <<muVars, scVars, bbVars, uaVars>>
     \/ which = "simctrl" /\ ScNext /\ UNCHANGED <<muVars, plVars, bbVars, uaVars>>
     \/ which = "bitbang" /\ BbNext /\ UNCHANGED <<muVars, plVars, scVars, uaVars>>
     \/ which = "uart"    /\ UaNext /\ UNCHANGED <<muVars, plVars, scVars, bbVars>>

MCSpec ==
  /\ MCInit /\ [][MCNext]_<<which, muVars, plVars, scVars, bbVars, uaVars>>
  /\ BbFairness /\ ScFairness

----------------------------------------------------------------------------
(* The memory loader: memories of one and of two bytes a word, a scope     *)
(* that is missing, addresses of four bits.                                *)

Area(name, loc, width, located, base, size) ==
  [name |-> name, loc |-> loc, width |-> width, at |-> located, base |-> base, size |-> size]
Ram   == Area("ram",   [dots |-> 0, path |-> <<"TOP", "ram">>], 2, TRUE, 4, 6)
Rom   == Area("rom",   [dots |-> 1, path |-> <<"rom">>], 1, TRUE, 10, 6)
Flash == Area("flash", [dots |-> 3, path |-> <<"flash">>], 4, FALSE, 0, 0)
Lost  == Area("lost",  [dots |-> 0, path |-> <<"TOP", "none">>], 2, TRUE, 0, 4)
Refused == {Area("zero", Ram.loc, 1, TRUE, 0, 0), Area("wrap", Ram.loc, 1, TRUE, 13, 5),
            Area("over", Ram.loc, 1, TRUE, 3, 3), Area("cover", Ram.loc, 1, TRUE, 2, 13), Ram}
MCDepth == [ram |-> 6, rom |-> 6, flash |-> 8, lost |-> 4, zero |-> 1, wrap |-> 5, over |-> 3, cover |-> 13]
MCScopes == {<<"TOP", "ram">>, <<"TOP", "rom">>, <<"TOP", "flash">>}

Seg(ld, pa, ms, fs, inf) == [load |-> ld, paddr |-> pa, memsz |-> ms, filesz |-> fs, infile |-> inf]
Elf(segs) == [ext |-> "elf", elf |-> TRUE, segs |-> segs]
Given(f) == [prog |-> f, image |-> [ext |-> "vmem", elf |-> FALSE, segs |-> <<>>],
             notes |-> [ext |-> "txt", elf |-> FALSE, segs |-> <<>>],
             plain |-> [ext |-> "", elf |-> FALSE, segs |-> <<>>]]
Setup(areas, opts, f) == [areas |-> areas, options |-> opts, files |-> Given(f)]
With(o, f) == [opt |-> o, file |-> f]
Mem(fields) == [opt |-> "l", fields |-> fields]

\* Three segments, as they may overlap in memories of one and of two bytes.
RomSegs == {Seg(TRUE, pa, ms, 2, TRUE) : pa \in {10, 11, 12, 14, 30}, ms \in {1, 2, 4}}
RamSegs == {Seg(TRUE, pa, ms, 1, TRUE) : pa \in {4, 6, 8}, ms \in {1, 2, 3}}
ElfSetups ==
  {Setup(<<Ram, Rom>>, <<With("E", "prog")>>, Elf(<<a, b, c>>)) : a, b, c \in RomSegs}
  \cup {Setup(<<Rom, Ram>>, <<With("E", "prog")>>, Elf(<<a, b, c>>)) : a, b, c \in RamSegs}

Odd == {Elf(<<Seg(FALSE, 4, 2, 2, TRUE), Seg(TRUE, 0, 2, 2, TRUE), Seg(TRUE, 4, 0, 0, TRUE)>>),
        Elf(<<Seg(TRUE, 6, 2, 2, TRUE), Seg(TRUE, 4, 2, 1, TRUE), Seg(TRUE, 9, 1, 0, TRUE)>>),
        Elf(<<Seg(TRUE, 4, 2, 2, TRUE), Seg(TRUE, 6, 2, 2, FALSE)>>), Elf(<<>>),
        Elf(<<Seg(TRUE, 4, 2, 2, TRUE), Seg(TRUE, 12, 2, 2, TRUE)>>),
        Elf(<<Seg(TRUE, 10, 7, 2, TRUE)>>), Elf(<<Seg(TRUE, 4, 2, 2, TRUE), Seg(TRUE, 254, 3, 1, TRUE)>>)}
Lines ==
  {<<With("m", f)>> : f \in {"prog", "image", "notes", "plain"}}
  \cup {<<Mem(f), With("E", "prog")>> :
          f \in {<<"list">>, <<"ram">>, <<"flash", "prog">>, <<"", "prog">>, <<"rom", "image", "vmem">>,
                 <<"rom", "prog", "elf", "more">>, <<"ram", "prog", "bin">>, <<"nowhere", "prog">>, <<"lost", "prog">>}}
  \cup {<<[opt |-> o], With("E", "prog"), With("r", "prog"), With("f", "prog")>> : o \in {"h", ":", "V", "?"}}
OddSetups == {Setup(<<Ram, Rom, Flash, Lost>>, l, f) : l \in Lines, f \in Odd}

AreaLists == {<<a, b, c>> : a, b, c \in Refused \cup {Ram, Rom, Flash}}
AreaSetups == {Setup(as, <<>>, Elf(<<>>)) : as \in AreaLists}

MCSetups == ElfSetups \cup OddSetups \cup AreaSetups

----------------------------------------------------------------------------
(* The preloader: words of two bytes.                                      *)

PlSegs(pa) == {Seg(ld, pa, ms, fs, TRUE) : ld \in BOOLEAN, ms \in {0, 1, 3, 4}, fs \in {0, 1, 3}}
MCPrograms0 ==
  {<<a, b>> : a \in {s \in PlSegs(0) : s.filesz <= s.memsz}, b \in {s \in PlSegs(4) \cup PlSegs(2) : s.filesz <= s.memsz}}
  \cup {<<Seg(TRUE, 0, 2, 2, TRUE), Seg(TRUE, 2, 2, 2, FALSE)>>}
  \cup {<<Seg(TRUE, 0, 3, 3, TRUE), Seg(TRUE, 2, 3, 2, TRUE)>>, <<Seg(TRUE, 0, 2, 2, TRUE), Seg(TRUE, 0, 1, 1, TRUE)>>}
Arg(a, plus) == [name |-> a, plus |-> plus]
MCCommandArgs ==
  {<<>>, <<Arg("+permissive", FALSE), Arg("vcs", FALSE), Arg("+permissive-off", FALSE), Arg("prog", TRUE)>>}

(* The simulation driver. *)

MCOptions == {<<>>, <<"t">>, <<"h", "other">>, <<"c2", "t">>, <<"other", "miss", "t">>}

(* The JTAG server. *)

MCScripts == {<<"p", "R", "Q">>, <<"p", "p", "n", "R", "p", "R", "Q">>, <<"R", "p", "Q">>}

(* The terminal. *)

Ch(k) == [i \in 1 .. 8 |-> CASE k = "ones" -> 1 [] k = "zeros" -> 0 [] k = "even" -> i % 2 [] OTHER -> (i \div 3) % 2]
MCTyped == {<<Ch(a), Ch(b)>> : a, b \in {"ones", "zeros", "even", "threes"}} \cup {<<Ch("even"), Ch("ones"), Ch("zeros")>>}
=============================================================================
