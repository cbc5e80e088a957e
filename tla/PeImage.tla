------------------------------ MODULE PeImage ------------------------------
(***************************************************************************)
(* The PE/COFF reader of zamak-core/src/pe.rs: parse, which checks the     *)
(* headers in turn, and apply_relocations, which walks the blocks of the   *)
(* relocation table over the loaded image.                                 *)
(*                                                                         *)
(* A byte is a digit of base Radix, so that a word of n bytes is below     *)
(* Radix^n, and the 16-bit entry of the table is a type, one of Kinds,     *)
(* above an offset.                                                        *)
(***************************************************************************)
EXTENDS Integers, SequencesExt, FiniteSetsExt

CONSTANTS
  PeFiles,       \* the headers tried: [len, mz, lfanew, sig, machine, magic, optional, dirs, sections]
  PeImages,      \* the loaded images tried, sequences of bytes
  PeTables,      \* the relocation tables tried, sequences of blocks [rva, entries]
  Damages,       \* what befalls one: [keep, size], the bytes kept of it and the size its
                 \*   first block claims, or Whole
  Whole,
  Deltas,        \* actual less preferred load address
  Radix,         \* 256
  Kinds          \* 16

VARIABLE pe

----------------------------------------------------------------------------
(* parse.  The sizes of the headers are asserted at compile time.          *)
DosHeader == 64
CoffHeader == 20
OptionalHeader == 112
DataDirectory == 8
SectionHeader == 40
BaseRelocDirectory == 5

InFile(f, offset, size) == offset + size <= f.len

OptionalAt(f) == f.lfanew + 4 + CoffHeader

SectionAt(f, i) == OptionalAt(f) + f.optional + i * SectionHeader

(* The checks in their order, with the error of each. *)
PeChecks(f) ==
  <<[ok |-> InFile(f, 0, DosHeader), error |-> "TooSmall"],
    [ok |-> f.mz, error |-> "InvalidDosMagic"],
    [ok |-> InFile(f, f.lfanew, 4), error |-> "TooSmall"],
    [ok |-> f.sig, error |-> "InvalidPeMagic"],
    [ok |-> InFile(f, f.lfanew + 4, CoffHeader), error |-> "TooSmall"],
    [ok |-> f.machine, error |-> "UnsupportedMachine"],
    [ok |-> InFile(f, OptionalAt(f), OptionalHeader), error |-> "TooSmall"],
    [ok |-> f.magic, error |-> "UnsupportedOptionalHeader"],
    [ok |-> \A i \in 0 .. f.sections - 1 : InFile(f, SectionAt(f, i), SectionHeader),
     error |-> "TooSmall"]>>

PeError(f) ==
  LET failed == {c \in DOMAIN PeChecks(f) : ~PeChecks(f)[c].ok}
  IN  IF failed = {} THEN "none" ELSE PeChecks(f)[Min(failed)].error

(* The directory of base relocations, none if it is not in the file. *)
HasRelocs(f) ==
  /\ f.dirs > BaseRelocDirectory
  /\ InFile(f, OptionalAt(f) + OptionalHeader + BaseRelocDirectory * DataDirectory, DataDirectory)

----------------------------------------------------------------------------
BlockHeader == 8
EntryLen == 2

RECURSIVE LittleEndian(_)
LittleEndian(bytes) == IF bytes = <<>> THEN 0 ELSE Head(bytes) + Radix * LittleEndian(Tail(bytes))

(* The n bytes at an offset, read and written. *)
WordAt(bytes, at, n) == LittleEndian(SubSeq(bytes, at + 1, at + n))
ByteOf(word, k) == (word \div (Radix ^ k)) % Radix

(* The table a linker writes for its blocks. *)
LeBytes(n, word) == [k \in 1 .. n |-> ByteOf(word, k - 1)]

TableBytes(blocks) ==
  LET EntryBytes(e) == LeBytes(2, e.type * ((Radix ^ 2) \div Kinds) + e.offset)
      BytesOfBlock(b) == LeBytes(4, b.rva) \o LeBytes(4, BlockHeader + EntryLen * Len(b.entries))
                         \o FlattenSeq([y \in DOMAIN b.entries |-> EntryBytes(b.entries[y])])
  IN  FlattenSeq([x \in DOMAIN blocks |-> BytesOfBlock(blocks[x])])

Damaged(bytes, damage) ==
  IF damage = Whole THEN bytes
  ELSE LET claimed == LeBytes(4, damage.size)
       IN  [i \in 1 .. Min({damage.keep, Len(bytes)}) |-> IF i \in 5 .. 8 THEN claimed[i - 4] ELSE bytes[i]]

PeIdle == pe = [pc |-> "idle"]

(* Nothing in the repository loads the sections: the image is an input.    *)
PeInit ==
  \E f \in PeFiles, image \in PeImages, blocks \in PeTables, damage \in Damages, delta \in Deltas :
    pe = [pc |-> "parse", file |-> f, was |-> image, image |-> image,
          table |-> [blocks |-> blocks, bytes |-> Damaged(TableBytes(blocks), damage)],
          delta |-> delta, offset |-> 0, e |-> 0, result |-> "none"]

PeEnds(result) == pe' = [pe EXCEPT !.pc = "done", !.result = result]

(* With no directory there is no table, and nothing to do. *)
ParsePe ==
  /\ pe.pc = "parse"
  /\ IF PeError(pe.file) # "none" THEN PeEnds(PeError(pe.file))
     ELSE IF pe.delta = 0 \/ ~HasRelocs(pe.file) \/ pe.table.bytes = <<>> THEN PeEnds("Ok")
     ELSE pe' = [pe EXCEPT !.pc = "block"]

----------------------------------------------------------------------------
(* apply_relocations.                                                      *)
(* The four relocation types by their numbers: the bytes that one patches, *)
(* and what it adds to them.  The others are padding or unknown.           *)
High == 1
Low == 2
HighLow == 3
Dir64 == 10
RelocTypes == {High, Low, HighLow, Dir64}
Patched(type) == CASE type = Dir64 -> 8 [] type = HighLow -> 4 [] type \in {High, Low} -> 2
Added(type, delta) == IF type = High THEN delta \div (Radix ^ 2) ELSE delta

(* MUTANT of Relocated: the carry is lost. *)
RelocatedLow(image, at, type, delta) ==
  [i \in DOMAIN image |-> IF i = at + 1 THEN (image[i] + delta) % Radix ELSE image[i]]

(* The addition wraps. *)
Relocated(image, at, type, delta) ==
  LET n == Patched(type)
      word == (WordAt(image, at, n) + Added(type, delta)) % (Radix ^ n)
  IN  [i \in DOMAIN image |-> IF i \in at + 1 .. at + n THEN ByteOf(word, i - at - 1) ELSE image[i]]

BlockRva == WordAt(pe.table.bytes, pe.offset, 4)
BlockSize == WordAt(pe.table.bytes, pe.offset + 4, 4)

(* The next block, until the table has no room for a header or a block is  *)
(* shorter than its own.                                                   *)
OpenBlock ==
  /\ pe.pc = "block"
  /\ IF pe.offset + BlockHeader > Len(pe.table.bytes) THEN PeEnds("Ok")
     ELSE IF BlockSize < BlockHeader THEN PeEnds("Ok")
     ELSE pe' = [pe EXCEPT !.pc = "entry", !.e = 0]

EntryAt == pe.offset + BlockHeader + EntryLen * pe.e

MoreEntries ==
  /\ pe.e < (BlockSize - BlockHeader) \div EntryLen
  /\ EntryAt + EntryLen <= Len(pe.table.bytes)

CloseBlock ==
  /\ pe.pc = "entry" /\ ~MoreEntries
  /\ pe' = [pe EXCEPT !.pc = "block", !.offset = @ + BlockSize]

(* The target is a 32-bit sum.  A word that is not in the image ends the   *)
(* call, with the entries before it applied.                               *)
ApplyEntry ==
  /\ pe.pc = "entry" /\ MoreEntries
  /\ LET entry == WordAt(pe.table.bytes, EntryAt, EntryLen)
         span == (Radix ^ 2) \div Kinds
         type == entry \div span
         at == (BlockRva + (entry % span)) % (Radix ^ 4)
     IN  IF type \notin RelocTypes THEN pe' = [pe EXCEPT !.e = @ + 1]
         ELSE IF at + Patched(type) > Len(pe.image) THEN PeEnds("RelocationOutOfBounds")
         ELSE pe' = [pe EXCEPT !.e = @ + 1, !.image = Relocated(@, at, type, pe.delta)]

PeNext == ParsePe \/ OpenBlock \/ CloseBlock \/ ApplyEntry

----------------------------------------------------------------------------
(* The words that it lists, and whether they are apart. *)
ListedWords(blocks) ==
  {w \in UNION {{[at |-> blocks[x].rva + e.offset, type |-> e.type] : e \in Range(blocks[x].entries)} :
                 x \in DOMAIN blocks} : w.type \in RelocTypes}
WordSpan(w) == w.at + 1 .. w.at + Patched(w.type)
WordsApart(blocks) ==
  /\ \A v, w \in ListedWords(blocks) : v # w => WordSpan(v) \cap WordSpan(w) = {}
  /\ \A x, y \in DOMAIN blocks : x # y => Range(blocks[x].entries) \cap Range(blocks[y].entries) = {}
                                         \/ blocks[x].rva # blocks[y].rva
  /\ \A x \in DOMAIN blocks : IsInjective(blocks[x].entries)

(***************************************************************************)
(* A refused file, a file without relocations and an image at its          *)
(* preferred address are left as they are, and no table makes the image    *)
(* longer.  A table that a linker wrote moves every word it lists by the   *)
(* delta, once and as wide as its type, and changes no other byte; the     *)
(* call fails if and only if one of the words is not in the image (parse,  *)
(* apply_relocations).                                                     *)
(***************************************************************************)
PeRelocates ==
  pe.pc = "done" =>
    LET bs == pe.table.blocks
        idle == PeError(pe.file) # "none" \/ ~HasRelocs(pe.file) \/ pe.delta = 0
        inside == \A w \in ListedWords(bs) : w.at + Patched(w.type) <= Len(pe.was)
    IN  /\ DOMAIN pe.image = DOMAIN pe.was
        /\ idle => pe.image = pe.was
        /\ ~idle /\ pe.table.bytes = TableBytes(bs) =>
             /\ pe.result = IF inside THEN "Ok" ELSE "RelocationOutOfBounds"
             /\ inside /\ WordsApart(bs) =>
                  /\ \A w \in ListedWords(bs) :
                       WordAt(pe.image, w.at, Patched(w.type))
                         = (WordAt(pe.was, w.at, Patched(w.type)) + Added(w.type, pe.delta))
                           % (Radix ^ Patched(w.type))
                  /\ \A i \in DOMAIN pe.was : (\A w \in ListedWords(bs) : i \notin WordSpan(w)) =>
                       pe.image[i] = pe.was[i]
=============================================================================
