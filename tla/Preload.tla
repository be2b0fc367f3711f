------------------------------ MODULE Preload ------------------------------
(***************************************************************************)
(* How a program gets into the SRAM of a simulation without Verilator's    *)
(* loader: tb/dpi/elfloader.cc reads the ELF file into sections, and the   *)
(* test bench (ariane_soc_tb.sv) takes one section after the other and     *)
(* writes it word by word, leaving out a word it has just written.  The    *)
(* arguments for the debug transport come through msim_helper.cc.          *)
(***************************************************************************)
EXTENDS Integers, Sequences, SequencesExt

CONSTANTS
  Programs0,  \* ELF files: sequences of [load, paddr, memsz, filesz, infile]
  WordBytes,  \* bytes of a word of the SRAM, 8
  SramWords,  \* words of the SRAM
  CommandArgs \* command lines of the simulator, for sanitize_args

Headers == [load : BOOLEAN, paddr : Nat, memsz : Nat, filesz : Nat, infile : BOOLEAN]

ASSUME PreloadAssumption ==
  /\ WordBytes \in Nat \ {0} /\ SramWords \in Nat \ {0}
  /\ Programs0 \subseteq Seq(Headers)

VARIABLES
  plPc,      \* "read", "sections", "words", "loaded", "abort"
  elf,       \* the program headers
  header,    \* the next of them to read
  sections,  \* sections: <<address, length>>
  mems,      \* mems: address -> bytes
  section_index,
  at, buffer, word, \* the section in work: address, bytes, next word
  last,      \* last_load_address
  sram,      \* the SRAM
  htif       \* the arguments left for the debug transport

plVars == <<plPc, elf, header, sections, mems, section_index, at, buffer, word, last, sram, htif>>

Blank == <<0, 0>>    \* a zero byte
Unknown == <<0, 1>>  \* a byte the SRAM has never been given
BytesOf(i, s) == [k \in 1 .. s.filesz |-> <<i, k>>]

----------------------------------------------------------------------------
\* map::insert: the first segment at an address stays.
write(m, address, bytes) ==
  IF address \in DOMAIN m THEN m ELSE [x \in DOMAIN m \cup {address} |-> IF x = address THEN bytes ELSE m[x]]

\* A segment without bytes in the file (.bss alone) is no section.
Used(s) == s.load /\ s.memsz # 0 /\ s.filesz # 0

\* (mutant: the section is as long as its bytes in the file)
MutSectionOf(s) == <<s.paddr, s.filesz>>
SectionOf(s) == <<s.paddr, s.memsz>>

\* One turn of the loop over the program headers, or its end; the bytes of a
\* segment must lie in the file.
read_elf ==
  /\ plPc = "read"
  /\ IF header > Len(elf) THEN plPc' = "sections" /\ UNCHANGED <<header, sections, mems>>
     ELSE LET s == elf[header] IN
       IF ~Used(s) THEN header' = header + 1 /\ UNCHANGED <<plPc, sections, mems>>
       ELSE IF ~s.infile THEN plPc' = "abort" /\ UNCHANGED <<header, sections, mems>>
       ELSE /\ sections' = Append(sections, SectionOf(s))
            /\ mems' = write(mems, s.paddr, BytesOf(header, s))
            /\ header' = header + 1 /\ UNCHANGED plPc
  /\ UNCHANGED <<elf, section_index, at, buffer, word, last, sram, htif>>

WordsFor(n) == (n + WordBytes - 1) \div WordBytes

\* The bytes of the file, in a buffer of zeros.
read_section(address, n) ==
  [k \in 1 .. WordsFor(n) * WordBytes |-> IF k \in DOMAIN mems[address] THEN mems[address][k] ELSE Blank]

get_section ==
  /\ plPc = "sections"
  /\ IF section_index < Len(sections)
       THEN LET s == sections[section_index + 1]
            IN  /\ at' = s[1] /\ buffer' = read_section(s[1], s[2]) /\ word' = 0
                /\ section_index' = section_index + 1 /\ plPc' = "words"
       ELSE plPc' = "loaded" /\ UNCHANGED <<at, buffer, word, section_index>>
  /\ UNCHANGED <<elf, header, sections, mems, last, sram, htif>>

\* A word at a time; the byte offset of the section's address is dropped.
LoadWord ==
  /\ plPc = "words"
  /\ IF word * WordBytes < Len(buffer)
       THEN LET a == at \div WordBytes + word
            IN  /\ IF a = last THEN UNCHANGED <<sram, last>>
                   ELSE /\ sram' = [sram EXCEPT ![a % SramWords] =
                                      SubSeq(buffer, word * WordBytes + 1, (word + 1) * WordBytes)]
                        /\ last' = a
                /\ word' = word + 1 /\ UNCHANGED plPc
       ELSE plPc' = "sections" /\ UNCHANGED <<sram, last, word>>
  /\ UNCHANGED <<elf, header, sections, mems, section_index, at, buffer, htif>>

\* The arguments outside of +permissive ... +permissive-off, which go
\* together with those between them.  An argument is [name, plus], where plus
\* tells that it starts with the two pluses to take off.
sanitize_args(args) ==
  LET step(st, a) ==
        LET on == st.on \/ a.name = "+permissive"
        IN  [on |-> on /\ a.name # "+permissive-off",
             out |-> IF on THEN st.out ELSE Append(st.out, [a EXCEPT !.plus = FALSE])]
  IN  FoldLeft(step, [on |-> FALSE, out |-> <<>>], args).out

----------------------------------------------------------------------------
PlInit ==
  /\ plPc = "read" /\ elf \in Programs0 /\ header = 1 /\ sections = <<>> /\ mems = <<>> /\ section_index = 0
  /\ at = 0 /\ buffer = <<>> /\ word = 0 /\ last = -1
  /\ sram = [a \in 0 .. SramWords - 1 |-> [k \in 1 .. WordBytes |-> Unknown]]
  /\ \E args \in CommandArgs : htif = sanitize_args(args)

PlNext == read_elf \/ get_section \/ LoadWord

PlSpec == PlInit /\ [][PlNext]_plVars

----------------------------------------------------------------------------
\* The layout the linker script makes: segments start at a word, in the
\* order of their addresses, share none, and lie together in the SRAM.
EndOf(s) == s.paddr + WordsFor(s.memsz) * WordBytes
WellLaid ==
  \A i \in DOMAIN elf : Used(elf[i]) =>
    /\ elf[i].paddr % WordBytes = 0
    /\ \A j \in DOMAIN elf : Used(elf[j]) =>
         /\ i < j => EndOf(elf[i]) <= elf[j].paddr
         /\ EndOf(elf[j]) <= elf[i].paddr + SramWords * WordBytes

(***************************************************************************)
(* For a program as the linker lays it out, every byte of every segment    *)
(* that has bytes in the file is in the SRAM at its address when loading   *)
(* ends, and the rest of such a segment (.bss) is zero: the test for the   *)
(* word written last leaves out nothing (elfloader.cc:85,                  *)
(* ariane_soc_tb.sv:212).                                                  *)
(***************************************************************************)
ProgramLoaded ==
  plPc = "loaded" /\ WellLaid =>
    \A i \in DOMAIN elf : Used(elf[i]) =>
      \A k \in 1 .. elf[i].memsz :
        LET a == elf[i].paddr + k - 1
        IN  sram[(a \div WordBytes) % SramWords][(a % WordBytes) + 1]
              = IF k <= elf[i].filesz THEN <<i, k>> ELSE Blank
=============================================================================
