------------------------------ MODULE MemUtil ------------------------------
(***************************************************************************)
(* The loader of memory images of the Verilator simulation: areas are      *)
(* registered by name and address (dpi_memutil.cc), the command line names *)
(* the images (verilator_memutil.cc), an ELF file is staged segment by     *)
(* segment in the areas its addresses fall into and then written word by   *)
(* word through the SystemVerilog scope of each area (sv_scoped.cc).       *)
(*                                                                         *)
(* Bytes are tokens: <<i, k>> is byte k of segment i of the file.  A       *)
(* segment is [load, paddr, memsz, filesz, infile], an area                *)
(* [name, loc, width, at, base, size]; `at' says whether it has an address.*)
(***************************************************************************)
EXTENDS RangedMap, Sequences, SequencesExt

CONSTANTS
  AddrBits,     \* width of uint32_t
  Setups,       \* what may be run: records [areas, options, files], with the
                \* areas to register, the options [opt, file] or [opt, fields]
                \* and the files, name -> [ext, elf, segs]
  Scopes,       \* the scopes of the design
  Depth         \* bytes of the memory behind each area

UMax == 2 ^ AddrBits - 1
AllAreas == UNION {{s.areas[i] : i \in DOMAIN s.areas} : s \in Setups}

ASSUME MemUtilAssumption ==
  /\ AddrBits \in Nat /\ 2 ^ AddrBits \in Nat \ {0}
  /\ \A s \in Setups : s.areas \in Seq(AllAreas)
  /\ \A a \in AllAreas :
       {"base", "size"} \subseteq DOMAIN a /\ a.base \in 0 .. UMax /\ a.size \in 0 .. UMax

VARIABLES
  muPc,       \* "register", "options", "load", "stage", "write", "end"
  todo,       \* areas still to register
  files,      \* the files; elf says that one opens as an ELF file
  options,    \* options still to parse
  loads,      \* load_args
  nameToMem,  \* name_to_mem_
  addrToMem,  \* addr_to_mem_
  staging,    \* staging_area_: name -> [min, max, segs]
  seg,        \* the next segment to stage
  contents,   \* what the memories of the design hold
  was,        \* contents before the current load
  muRes       \* "run", "exit" (exit_app), "fail" or "abort" (an assertion)

muVars == <<muPc, todo, files, options, loads, nameToMem, addrToMem, staging, seg, contents, was, muRes>>

Uint(x) == x % 2 ^ AddrBits
Zero0 == <<0, 0>>   \* a byte of padding
Kept == <<0, 1>>    \* a byte no load has written

----------------------------------------------------------------------------
(* sv_scoped.cc.  A scope is a sequence of names; a name to resolve is     *)
(* [dots, path], with the dots it starts with.                             *)

SetAbsScope(path) == path \in Scopes

\* Without a dot absolute; one dot is the current scope, each further one a
\* level up, though never above the first.
SetRelScope(current, name) ==
  IF name.dots = 0 THEN name.path
  ELSE LET up   == name.dots - 1
           keep == IF up < Len(current) THEN Len(current) - up ELSE 1
       IN  SubSeq(current, 1, keep) \o name.path
TopScope == <<"TOP">>
ScopeFound(area) == SetAbsScope(SetRelScope(TopScope, area.loc))

----------------------------------------------------------------------------
(* Registering an area.                                                    *)

HasName(n) == n \in DOMAIN nameToMem
TopOf(area) == Uint(area.base + area.size - 1)
Named(area) == [n \in DOMAIN nameToMem \cup {area.name} |-> IF HasName(n) THEN nameToMem[n] ELSE area]

\* The name is taken first; an address that is refused leaves the area
\* registered without one.
RegisterMemoryArea(area) ==
  LET nowhere == [area EXCEPT !.base = 0, !.size = 0]
      bad     == area.size = 0 \/ TopOf(area) < area.base
                 \/ Clashes(addrToMem, area.base, TopOf(area)) # {}
  IN  IF HasName(area.name) THEN UNCHANGED <<nameToMem, addrToMem>>
      ELSE IF ~area.at \/ bad
        THEN nameToMem' = [Named(area) EXCEPT ![area.name] = nowhere] /\ UNCHANGED addrToMem
        ELSE /\ nameToMem' = Named(area)
             /\ addrToMem' = EmplaceDisjoint(addrToMem, area.base, TopOf(area), area.name)

Register ==
  /\ muPc = "register" /\ todo # <<>>
  /\ RegisterMemoryArea(Head(todo)) /\ todo' = Tail(todo)
  /\ UNCHANGED <<muPc, files, options, loads, staging, seg, contents, was, muRes>>

Registered ==
  /\ muPc = "register" /\ todo = <<>>
  /\ muPc' = "options"
  /\ UNCHANGED <<todo, files, options, loads, nameToMem, addrToMem, staging, seg, contents, was, muRes>>

----------------------------------------------------------------------------
(* The command line.                                                       *)

\* The type by name, or by the extension of the file.
GetMemImageTypeByName(name) == IF name \in {"elf", "vmem"} THEN name ELSE "throw"
DetectMemImageType(file) == IF files[file].ext = "" THEN "elf" ELSE GetMemImageTypeByName(files[file].ext)

\* name,file[,type]: no empty field before a comma, at least two fields, and
\* what follows the third is ignored.
ParseMemArg(fields) ==
  LET n == IF Len(fields) > 3 THEN 3 ELSE Len(fields)
  IN  IF \E i \in 1 .. n : fields[i] = "" /\ i < Len(fields) THEN [type |-> "throw"]
      ELSE IF Len(fields) = 1 THEN [type |-> "throw"]
      ELSE [name |-> fields[1], file |-> fields[2],
            type |-> IF n = 3 THEN GetMemImageTypeByName(fields[3]) ELSE DetectMemImageType(fields[2])]

\* One turn of the loop over getopt_long.
ParseOption ==
  /\ muPc = "options" /\ options # <<>>
  /\ LET o == Head(options)
         add(name, file, type) ==
           loads' = Append(loads, [name |-> name, file |-> file, type |-> type]) /\ UNCHANGED <<muPc, muRes>>
         stop(why) == muRes' = why /\ muPc' = "end" /\ UNCHANGED loads
     IN  CASE o.opt = "r" -> add("rom", o.file, "unknown")
           [] o.opt = "m" -> add("ram", o.file, "unknown")
           [] o.opt = "f" -> add("flash", o.file, "unknown")
           [] o.opt = "E" -> add("", o.file, "elf")
           [] o.opt = "l" -> IF o.fields = <<"list">> THEN stop("exit")
                             ELSE LET a == ParseMemArg(o.fields)
                                  IN  IF a.type = "throw" THEN stop("fail") ELSE add(a.name, a.file, a.type)
           [] o.opt = "h" -> stop("run")   \* returns true before any load
           [] o.opt = ":" -> stop("fail")  \* an argument is missing
           [] OTHER -> UNCHANGED <<muPc, loads, muRes>>
  /\ options' = Tail(options)
  /\ UNCHANGED <<todo, files, nameToMem, addrToMem, staging, seg, contents, was>>

ParsedOptions ==
  /\ muPc = "options" /\ options = <<>>
  /\ muPc' = "load"
  /\ UNCHANGED <<todo, files, options, loads, nameToMem, addrToMem, staging, seg, contents, was, muRes>>

----------------------------------------------------------------------------
(* Staging.                                                                *)

\* seg1 over seg0: contained, sticking out on the right, or on the left.
\* (mutant: the copied tail starts one byte early)
MutMergeSegments(e0, e1) ==
  IF e1.lo <= e0.lo /\ e0.hi <= e1.hi THEN e1.val
  ELSE IF e1.lo <= e0.lo THEN e1.val \o SubSeq(e0.val, e1.hi - e0.lo + 1, Len(e0.val) - 1)
  ELSE LET off == e1.lo - e0.lo
           len0 == (IF e0.hi > e1.hi THEN e0.hi ELSE e1.hi) - e0.lo + 1
       IN  [i \in 1 .. len0 |-> IF i - off \in DOMAIN e1.val THEN e1.val[i - off] ELSE e0.val[i]]
MergeSegments(e0, e1) ==
  IF e1.lo <= e0.lo /\ e0.hi <= e1.hi THEN e1.val
  ELSE IF e1.lo <= e0.lo THEN e1.val \o SubSeq(e0.val, e1.hi - e0.lo + 2, Len(e0.val))
  ELSE LET off == e1.lo - e0.lo
           len0 == (IF e0.hi > e1.hi THEN e0.hi ELSE e1.hi) - e0.lo + 1
       IN  [i \in 1 .. len0 |-> IF i - off \in DOMAIN e1.val THEN e1.val[i - off] ELSE e0.val[i]]

Unstaged == [min |-> UMax, max |-> 0, segs |-> {}]

AddSegment(st, off, data) ==
  IF data = <<>> THEN st
  ELSE LET top == Uint(off + Len(data) - 1)
       IN  [min |-> IF off < st.min THEN off ELSE st.min,
            max |-> IF top > st.max THEN top ELSE st.max,
            segs |-> Emplace(st.segs, off, top, data, MergeSegments)]

\* Everything between the bounds, with zeros in the gaps.
GetFlat(st) ==
  [i \in 1 .. st.max - st.min + 1 |->
     LET hit == find(st.segs, st.min + i - 1)
     IN  IF hit = {} THEN Zero0 ELSE LET e == CHOOSE x \in hit : TRUE IN e.val[st.min + i - e.lo]]

\* The bytes of segment i in memory: those of the file, then zeros.
Image(i, s) == [k \in 1 .. s.memsz |-> IF k <= s.filesz THEN <<i, k>> ELSE Zero0]

\* The area of a segment; none if no area holds its first address, or the
\* segment overflows the address space or the area.
GetRegionForSegment(s) ==
  LET lma == Uint(s.paddr)
      hit == find(addrToMem, lma)
      top == Uint(lma + s.memsz - 1)
  IN  IF hit = {} THEN {}
      ELSE LET n == (CHOOSE e \in hit : TRUE).val
           IN  IF top < lma \/ nameToMem[n].size <= Uint(top - nameToMem[n].base) THEN {} ELSE {n}

Failed(why) ==
  /\ muRes' = why /\ muPc' = "end"

\* staging_area_.clear(), and the file opens as an ELF file or not.
LoadElfToMemories ==
  /\ muPc = "load" /\ loads # <<>> /\ Head(loads).name = ""
  /\ staging' = <<>> /\ seg' = 1 /\ was' = contents
  /\ IF files[Head(loads).file].elf THEN muPc' = "stage" /\ UNCHANGED muRes ELSE Failed("fail")
  /\ UNCHANGED <<todo, files, options, loads, nameToMem, addrToMem, contents>>

Segments == files[Head(loads).file].segs

\* One turn of the loop over the program headers.
StageElf ==
  /\ muPc = "stage" /\ seg <= Len(Segments)
  /\ LET s == Segments[seg] IN
       IF ~s.load \/ s.memsz = 0 THEN seg' = seg + 1 /\ UNCHANGED <<staging, muPc, muRes>>
       ELSE LET r == GetRegionForSegment(s) IN
         IF r = {} THEN Failed("fail") /\ UNCHANGED <<staging, seg>>
         ELSE LET n == CHOOSE x \in r : TRUE
                  off == Uint(s.paddr - nameToMem[n].base)
                  st == IF n \in DOMAIN staging THEN staging[n] ELSE Unstaged
              IN  IF off % nameToMem[n].width # 0 \/ ~s.infile
                    THEN Failed("fail") /\ UNCHANGED <<staging, seg>>
                    ELSE /\ staging' = (n :> AddSegment(st, off, Image(seg, s))) @@ staging
                         /\ seg' = seg + 1 /\ UNCHANGED <<muPc, muRes>>
  /\ UNCHANGED <<todo, files, options, loads, nameToMem, addrToMem, contents, was>>

----------------------------------------------------------------------------
(* Writing.                                                                *)

\* A segment as whole words; the last one is filled with zeros, and a word
\* outside of the memory stops the loop (simutil_set_mem fails).
\* (mutant: the partial word at the end is not written)
MutWriteSegment(area, mem, off, data) ==
  LET inside == {k \in 0 .. (Len(data) \div area.width) * area.width - 1 : off + k < Depth[area.name]}
  IN  [ok |-> Cardinality(inside) = (Len(data) \div area.width) * area.width,
       mem |-> [a \in DOMAIN mem |-> IF a - off \in inside THEN data[a - off + 1] ELSE mem[a]]]
WriteSegment(area, mem, off, data) ==
  LET size   == ((Len(data) + area.width - 1) \div area.width) * area.width
      inside == {k \in 0 .. size - 1 : off + k < Depth[area.name]}
  IN  [ok |-> Cardinality(inside) = size,
       mem |-> [a \in DOMAIN mem |->
                  IF a - off \notin inside THEN mem[a]
                  ELSE IF a - off < Len(data) THEN data[a - off + 1] ELSE Zero0]]

Staged == muPc = "stage" /\ seg > Len(Segments)

\* The first segment of the first memory that is left; a memory whose scope
\* is missing is reported and passed over.
WriteStaged ==
  /\ Staged /\ \E n \in DOMAIN staging : staging[n].segs # {}
  /\ LET n == CHOOSE x \in DOMAIN staging : staging[x].segs # {}
         e == Lowest(staging[n].segs)
         w == WriteSegment(nameToMem[n], contents[n], e.lo, e.val)
     IN  /\ staging' = [staging EXCEPT ![n].segs = @ \ {e}]
         /\ IF ScopeFound(nameToMem[n])
              THEN /\ contents' = [contents EXCEPT ![n] = w.mem]
                   /\ IF w.ok THEN UNCHANGED <<muPc, muRes>> ELSE Failed("fail")
              ELSE UNCHANGED <<contents, muPc, muRes>>
  /\ UNCHANGED <<todo, files, options, loads, nameToMem, addrToMem, seg, was>>

Written ==
  /\ Staged /\ \A n \in DOMAIN staging : staging[n].segs = {}
  /\ loads' = Tail(loads) /\ muPc' = "load" /\ staging' = <<>> /\ seg' = 1 /\ was' = contents
  /\ UNCHANGED <<todo, files, options, nameToMem, addrToMem, contents, muRes>>

InFlat(segs) == {i \in DOMAIN segs : segs[i].load /\ segs[i].memsz # 0 /\ segs[i].filesz # 0}

\* A segment that wraps around Elf64_Addr, twice as wide as uint32_t, or
\* that the file does not hold makes FlattenElfFile throw.
FlattenThrows(segs) ==
  \E i \in InFlat(segs) :
    \/ (segs[i].paddr + segs[i].memsz - 1) % 2 ^ (2 * AddrBits) < segs[i].paddr
    \/ ~segs[i].infile

\* objcopy's giant segment: from the lowest to the highest address of all
\* segments with bytes in the file.
FlattenElfFile(segs) ==
  LET used == InFlat(segs)
      low  == CHOOSE a \in {segs[i].paddr : i \in used} : \A i \in used : a <= segs[i].paddr
      add(st, i) == AddSegment(st, Uint(segs[i].paddr - low), Image(i, segs[i]))
  IN  IF used = {} THEN <<>> ELSE GetFlat(FoldLeft(add, Unstaged, SetToSortSeq(used, <)))

WriteElfToMem(area, file) == WriteSegment(area, contents[area.name], 0, FlattenElfFile(files[file].segs))

\* $readmemh puts the words of a vmem file at the start of the memory; its
\* errors are not reported.
WriteVmemToMem(area) == [ok |-> TRUE, mem |-> [contents[area.name] EXCEPT ![0] = <<1, 1>>]]

LoadFileToNamedMem ==
  /\ muPc = "load" /\ loads # <<>> /\ Head(loads).name # ""
  /\ LET l == Head(loads)
         type == IF l.type = "unknown" THEN DetectMemImageType(l.file) ELSE l.type
         f == files[l.file]
         area == nameToMem[l.name]
         w == IF type = "vmem" THEN WriteVmemToMem(area) ELSE WriteElfToMem(area, l.file)
         broken == type = "elf" /\ (~f.elf \/ FlattenThrows(f.segs))
         large == type = "elf" /\ area.size # 0 /\ Len(FlattenElfFile(f.segs)) > area.size
     IN  IF type = "throw" \/ ~HasName(l.name) THEN Failed("fail") /\ UNCHANGED <<loads, contents>>
         ELSE IF broken THEN Failed("fail") /\ UNCHANGED <<loads, contents>>
         ELSE IF large THEN Failed("abort") /\ UNCHANGED <<loads, contents>>
         ELSE IF ~ScopeFound(area) THEN Failed("fail") /\ UNCHANGED <<loads, contents>>
         ELSE /\ contents' = [contents EXCEPT ![l.name] = w.mem]
              /\ IF w.ok THEN loads' = Tail(loads) /\ UNCHANGED <<muPc, muRes>>
                 ELSE Failed("fail") /\ UNCHANGED loads
  /\ UNCHANGED <<todo, files, options, nameToMem, addrToMem, staging, seg, was>>

ParseCLIArguments ==
  /\ muPc = "load" /\ loads = <<>>
  /\ muPc' = "end"
  /\ UNCHANGED <<todo, files, options, loads, nameToMem, addrToMem, staging, seg, contents, was, muRes>>

----------------------------------------------------------------------------
MuInit ==
  /\ muPc = "register"
  /\ \E s \in Setups : todo = s.areas /\ options = s.options /\ files = s.files
  /\ loads = <<>> /\ nameToMem = <<>> /\ addrToMem = {} /\ staging = <<>> /\ seg = 1
  /\ contents = [n \in DOMAIN Depth |-> [a \in 0 .. Depth[n] - 1 |-> Kept]]
  /\ was = contents /\ muRes = "run"

MuNext == \/ Register \/ Registered \/ ParseOption \/ ParsedOptions
          \/ LoadElfToMemories \/ StageElf \/ WriteStaged \/ Written
          \/ LoadFileToNamedMem \/ ParseCLIArguments

MuSpec == MuInit /\ [][MuNext]_muVars

----------------------------------------------------------------------------
(***************************************************************************)
(* No two areas share an address, whatever was registered in which order,  *)
(* and an area has an address exactly if the map leads to it               *)
(* (dpi_memutil.cc:420, ranged_map.h:108).                                 *)
(***************************************************************************)
AreasDisjoint ==
  /\ DisjointRanges(addrToMem)
  /\ \A n \in DOMAIN nameToMem :
       nameToMem[n].size # 0 <=> \E e \in addrToMem : e.val = n /\ e.lo = nameToMem[n].base /\ e.hi = TopOf(nameToMem[n])

\* The last of the first k segments that holds the byte at offset o of n.
Covers(i, n, o) ==
  LET s == Segments[i]
      off == Uint(s.paddr - nameToMem[n].base)
  IN  s.load /\ s.memsz # 0 /\ o >= off /\ o < off + s.memsz /\ GetRegionForSegment(s) = {n}
Newest(k, n, o) ==
  LET is == {i \in 1 .. k : Covers(i, n, o)}
  IN  IF is = {} THEN Kept
      ELSE LET i == CHOOSE x \in is : \A y \in is : y <= x
           IN  Image(i, Segments[i])[o - Uint(Segments[i].paddr - nameToMem[n].base) + 1]

(***************************************************************************)
(* dpi_memutil.h:36-40 and 157-161.  The staging area holds disjoint       *)
(* segments that start at a word, their bounds are those of the valid      *)
(* bytes, and each byte is that of the newest segment that covers it: the  *)
(* three ways to merge overlapping segments lose and shift nothing.        *)
(***************************************************************************)
StagingExact ==
  muPc = "stage" /\ seg <= Len(Segments) => \A n \in DOMAIN staging :
    LET st == staging[n] IN
      /\ DisjointRanges(st.segs)
      /\ st.min = Lowest(st.segs).lo /\ st.max = Highest(st.segs).hi
      /\ \A e \in st.segs : e.lo % nameToMem[n].width = 0 /\ Len(e.val) = e.hi - e.lo + 1
      /\ \A o \in 0 .. nameToMem[n].size - 1 :
           Newest(seg - 1, n, o) =
             LET hit == find(st.segs, o)
             IN  IF hit = {} THEN Kept ELSE LET e == CHOOSE x \in hit : TRUE IN e.val[o - e.lo + 1]

\* Some byte of the word of offset o is covered.
WordTouched(n, o) ==
  \E x \in 0 .. nameToMem[n].size - 1 :
    /\ x \div nameToMem[n].width = o \div nameToMem[n].width
    /\ Newest(Len(Segments), n, x) # Kept

(***************************************************************************)
(* When an ELF file has been loaded, every byte of the memories with a     *)
(* scope is the one the file has for its address, a zero that fills up a   *)
(* word, or untouched: no word written for one segment overwrites bytes of *)
(* another (dpi_memutil.cc:247, 542).                                      *)
(***************************************************************************)
MemoryHoldsElf ==
  Staged /\ (\A n \in DOMAIN staging : staging[n].segs = {}) =>
    \A n \in DOMAIN staging : ScopeFound(nameToMem[n]) =>
      \A o \in 0 .. nameToMem[n].size - 1 :
        contents[n][o] = IF Newest(Len(Segments), n, o) # Kept THEN Newest(Len(Segments), n, o)
                         ELSE IF WordTouched(n, o) THEN Zero0 ELSE was[n][o]
=============================================================================
