---------------------------- MODULE KernelImage ----------------------------
(***************************************************************************)
(* An ELF kernel brought into memory: parse_elf and apply_relocations of   *)
(* zamak-core/src/elf.rs, rng.rs, load_kernel_segments and the kernel's    *)
(* randomized base in zamak-uefi/src/main.rs, and the legacy leg of        *)
(* zamak-bios/src/main.rs, which relocates the file's own buffer.          *)
(*                                                                         *)
(* Memory is a row of cells; a cell is of the file, zero, of a relocated   *)
(* word, or somebody else's.                                               *)
(***************************************************************************)
EXTENDS Integers, Sequences, FiniteSetsExt

CONSTANTS
  ElfKernels,    \* the kernels tried: [elf64, pie, entry, bytes, phdrs, relas]
  AddressEnd,    \* 2^64
  PageLen,       \* 4096
  WordLen,       \* 8, the bytes of a relocated word
  ImageBase,     \* 0xffffffff80000000
  SlotLen,       \* 0x200000
  Slots,         \* 512 on "uefi", 256 on "legacy"
  MemLen,        \* the length of memory
  Bases,         \* where the firmware or the heap may place the image
  Attempts,      \* 10, the tries of rdseed32 and rdrand32
  Randoms        \* the 64-bit values drawn

VARIABLE ki

(* ElfSegment and Relocation; an addend is signed. *)
Phdrs == [type : STRING, vaddr : Nat, mem : Nat, file : Nat, offset : Nat]
Relas == [type : STRING, offset : Nat, addend : Int]

(* Nothing is zero that is divided by or counted to, and a kernel is what  *)
(* the file's unsigned fields can say: nothing makes it well formed.       *)
ASSUME KernelImageAssumption ==
  /\ AddressEnd \in Nat \ {0} /\ PageLen \in Nat \ {0} /\ Attempts \in Nat \ {0}
  /\ WordLen \in Nat /\ ImageBase \in Nat /\ SlotLen \in Nat /\ MemLen \in Nat
  /\ Bases \subseteq Nat /\ Randoms \subseteq Nat
  /\ Slots \in [{"uefi", "legacy"} -> Nat \ {0}]
  /\ ElfKernels \subseteq [elf64 : BOOLEAN, pie : BOOLEAN, entry : Nat, bytes : Nat,
                           phdrs : Seq(Phdrs), relas : Seq(Relas)]

FileCell(k) == <<"file", k>>
ZeroCell == <<"zero", 0>>
WordCell(value, k) == <<"word", value, k>>
OtherCell == <<"other", 0>>

(* `mem` with `cells` at `at`; what falls out of memory is lost. *)
Write(mem, at, cells) ==
  [a \in DOMAIN mem |-> IF a - at \in DOMAIN cells THEN cells[a - at] ELSE mem[a]]

----------------------------------------------------------------------------
(* kaslr_base, for the value r of the generator.                           *)
NoBase == -1

AlignDown(v, align) == v - (v % align)

AlignUp(v, align) == AlignDown((v + align - 1) % AddressEnd, align)

KaslrBase(min_addr, max_addr, kernel_size, align, r) ==
  LET aligned_min == AlignUp(min_addr, align)
      aligned_max == AlignDown(max_addr - kernel_size, align)
      slot_count == (aligned_max - aligned_min) \div align + 1
  IN  IF kernel_size > max_addr \/ aligned_min > aligned_max THEN NoBase
      ELSE aligned_min + (r % slot_count) * align

(* Its comment: the base is aligned, not below min_addr and leaves the     *)
(* kernel's size before max_addr; there is none only if no address does.   *)
GoodBase(b, min_addr, max_addr, kernel_size, align) ==
  b >= min_addr /\ b % align = 0 /\ b + kernel_size <= max_addr

KaslrRight(min_addr, max_addr, kernel_size, align, r) ==
  LET b == KaslrBase(min_addr, max_addr, kernel_size, align, r)
      Good(x) == GoodBase(x, min_addr, max_addr, kernel_size, align)
  IN  IF b = NoBase THEN \A x \in 0 .. max_addr : ~Good(x) ELSE Good(b)

----------------------------------------------------------------------------
KiIdle == ki = [pc |-> "idle"]

Fresh == [a \in 0 .. MemLen - 1 |-> OtherCell]

(* X86KaslrRng::new; the next instruction to try, its failures in a row    *)
(* and the halves that it has given.                                       *)
Source(seed, rand) == IF seed THEN "rdseed" ELSE IF rand THEN "rdrand" ELSE "rdtsc"

Rng(seed, rand) ==
  [rand |-> rand, source |-> Source(seed, rand), failures |-> 0, halves |-> 0, draws |-> 0]

(* The legacy leg has read the file into a heap buffer.                    *)
KiInit ==
  \E binary \in ElfKernels, leg \in {"uefi", "legacy"}, seed, rand \in BOOLEAN, at \in Bases :
    ki = [pc |-> "parse", leg |-> leg, binary |-> binary, segments |-> <<>>, relocations |-> <<>>,
          i |-> 1, rng |-> Rng(seed, rand), entry |-> 0, start |-> 0,
          base |-> IF leg = "legacy" THEN at ELSE NoBase,
          size |-> IF leg = "legacy" THEN binary.bytes ELSE 0,
          mem |-> IF leg = "legacy" THEN Write(Fresh, at, [k \in 0 .. binary.bytes - 1 |-> FileCell(k)]) ELSE Fresh]

KiPanics == ki' = [ki EXCEPT !.pc = "panicked"]

(* A fixed kernel is ready when it is in place. *)
InPlace(b) == IF b.pie THEN "random" ELSE "done"

(* parse_elf: the loadable segments and the relative relocations, in the   *)
(* file's order.                                                           *)
ParseElf ==
  /\ ki.pc = "parse"
  /\ IF ki.binary.elf64 THEN ki' = [ki EXCEPT !.pc = "phdrs", !.entry = ki.binary.entry] ELSE KiPanics

ReadPhdr ==
  /\ ki.pc = "phdrs" /\ ki.i <= Len(ki.binary.phdrs)
  /\ LET phdr == ki.binary.phdrs[ki.i]
     IN  ki' = [ki EXCEPT !.i = @ + 1, !.segments = IF phdr.type = "LOAD" THEN Append(@, phdr) ELSE @]

PhdrsRead ==
  /\ ki.pc = "phdrs" /\ ki.i > Len(ki.binary.phdrs)
  /\ ki' = [ki EXCEPT !.pc = "relas", !.i = 1]

ReadRela ==
  /\ ki.pc = "relas" /\ ki.i <= Len(ki.binary.relas)
  /\ LET rela == ki.binary.relas[ki.i]
     IN  ki' = [ki EXCEPT !.i = @ + 1, !.relocations = IF rela.type = "RELATIVE" THEN Append(@, rela) ELSE @]

RelasRead ==
  /\ ki.pc = "relas" /\ ki.i > Len(ki.binary.relas)
  /\ ki' = [ki EXCEPT !.pc = IF ki.leg = "uefi" THEN "allocate" ELSE InPlace(ki.binary), !.i = 1]

----------------------------------------------------------------------------
(* load_kernel_segments; the sums are checked.                             *)
Lowest(segments) ==
  Min({segments[s].vaddr : s \in DOMAIN segments} \cup {AddressEnd - 1})
Highest(segments) ==
  Max({segments[s].vaddr + segments[s].mem : s \in DOMAIN segments} \cup {0})

PageStart(segments) == AlignDown(Lowest(segments), PageLen)
PageEnd(segments) == AlignDown(Highest(segments) + PageLen - 1, PageLen)

RangeFits(segments) ==
  Highest(segments) + PageLen - 1 < AddressEnd /\ PageStart(segments) <= PageEnd(segments)

(* The pages are zeroed; the firmware may have none. *)
AllocateImage ==
  /\ ki.pc = "allocate"
  /\ LET size == PageEnd(ki.segments) - PageStart(ki.segments)
     IN  \/ KiPanics
         \/ /\ RangeFits(ki.segments)
            /\ \E at \in Bases :
                 /\ at + size <= MemLen
                 /\ ki' = [ki EXCEPT !.pc = "copy", !.base = at, !.size = size,
                                     !.start = PageStart(ki.segments),
                                     !.mem = Write(@, at, [k \in 0 .. size - 1 |-> ZeroCell])]

(* MUTANT of Offset: from the lowest segment instead of from its page. *)
OffsetFromLowest(segment) == segment.vaddr - Lowest(ki.segments)

Offset(segment) == segment.vaddr - ki.start

(* A segment whose bytes the file does not have panics. *)
CopySegment ==
  /\ ki.pc = "copy" /\ ki.i <= Len(ki.segments)
  /\ LET seg == ki.segments[ki.i]
     IN  IF seg.offset + seg.file > ki.binary.bytes THEN KiPanics
         ELSE ki' = [ki EXCEPT !.i = @ + 1,
                               !.mem = Write(@, ki.base + Offset(seg),
                                             [k \in 0 .. seg.file - 1 |-> FileCell(seg.offset + k)])]

SegmentsCopied ==
  /\ ki.pc = "copy" /\ ki.i > Len(ki.segments)
  /\ ki' = [ki EXCEPT !.pc = InPlace(ki.binary)]

----------------------------------------------------------------------------
Randomize(value) ==
  [ki EXCEPT !.pc = "relocate", !.i = 1, !.start = ImageBase + (value % Slots[ki.leg]) * SlotLen]

(* UefiRng::get_u64: the firmware's generator, or 0. *)
UefiRandom ==
  /\ ki.pc = "random" /\ ki.leg = "uefi"
  /\ \E value \in Randoms \cup {0} : ki' = Randomize(value)

(* X86KaslrRng::get_u64 takes two halves from one instruction and goes on  *)
(* to a weaker one when a half fails Attempts times; the counter is there. *)
Draw ==
  /\ ki.pc = "random" /\ ki.leg = "legacy" /\ ki.rng.source # "rdtsc"
  /\ LET rng == [ki.rng EXCEPT !.draws = @ + 1]
         weaker == IF rng.source = "rdseed" /\ rng.rand THEN "rdrand" ELSE "rdtsc"
     IN  \/ /\ rng.halves = 0
            /\ ki' = [ki EXCEPT !.rng = [rng EXCEPT !.halves = 1, !.failures = 0]]
         \/ /\ rng.halves = 1
            /\ \E value \in Randoms : ki' = [Randomize(value) EXCEPT !.rng = rng]
         \/ ki' = [ki EXCEPT !.rng =
                     IF rng.failures + 1 < Attempts THEN [rng EXCEPT !.failures = @ + 1]
                     ELSE [rng EXCEPT !.source = weaker, !.failures = 0, !.halves = 0]]

ReadCounter ==
  /\ ki.pc = "random" /\ ki.leg = "legacy" /\ ki.rng.source = "rdtsc"
  /\ \E value \in Randoms : ki' = Randomize(value)

(* apply_relocations counts from where the image begins. *)
ApplyRelocation ==
  /\ ki.pc = "relocate" /\ ki.i <= Len(ki.relocations)
  /\ LET reloc == ki.relocations[ki.i]
         value == (ki.start + reloc.addend) % AddressEnd
     IN  ki' = [ki EXCEPT !.i = @ + 1,
                          !.mem = Write(@, ki.base + reloc.offset,
                                        [k \in 0 .. WordLen - 1 |-> WordCell(value, k)])]

RelocateEntry ==
  /\ ki.pc = "relocate" /\ ki.i > Len(ki.relocations)
  /\ ki' = [ki EXCEPT !.pc = "done", !.entry = (@ + ki.start) % AddressEnd]

KiNext ==
  \/ ParseElf \/ ReadPhdr \/ PhdrsRead \/ ReadRela \/ RelasRead \/ AllocateImage \/ CopySegment \/ SegmentsCopied
  \/ UefiRandom \/ Draw \/ ReadCounter \/ ApplyRelocation \/ RelocateEntry

----------------------------------------------------------------------------
(* What the ELF format says of cell v of the image of a kernel: a word     *)
(* relocated by `bias`, a byte of the file, or zero.                       *)
Patches(b) ==
  {b.relas[r] : r \in {q \in DOMAIN b.relas : b.pie /\ b.relas[q].type = "RELATIVE"}}

LoadsOf(b) == {b.phdrs[s] : s \in {p \in DOMAIN b.phdrs : b.phdrs[p].type = "LOAD"}}

ElfCell(b, v, bias) ==
  LET words == {r \in Patches(b) : v \in r.offset .. r.offset + WordLen - 1}
      backed == {s \in LoadsOf(b) : v \in s.vaddr .. s.vaddr + s.file - 1}
  IN  IF words # {}
      THEN LET r == CHOOSE r \in words : TRUE
           IN  WordCell((bias + r.addend) % AddressEnd, v - r.offset)
      ELSE IF backed # {} THEN LET s == CHOOSE s \in backed : TRUE IN FileCell(s.offset + v - s.vaddr)
      ELSE ZeroCell

(* A kernel a linker makes: some segment, its parts in the file and in     *)
(* memory, apart from each other, with the relocated words inside; and, if *)
(* it is position-independent, linked at page 0, as apply_relocations      *)
(* takes it to be.                                                         *)
Linked(b) ==
  LET Cells(s) == s.vaddr .. s.vaddr + s.mem - 1
      Words(r) == r.offset .. r.offset + WordLen - 1
  IN  /\ b.elf64 /\ LoadsOf(b) # {}
      /\ \A s \in LoadsOf(b) : /\ s.file <= s.mem /\ s.offset + s.file <= b.bytes
                               /\ s.vaddr + s.mem + PageLen - 1 < AddressEnd
      /\ \A s, t \in LoadsOf(b) : s # t => Cells(s) \cap Cells(t) = {}
      /\ \A r \in Patches(b) : \E s \in LoadsOf(b) : Words(r) \subseteq Cells(s)
      /\ \A r, q \in Patches(b) : r # q => Words(r) \cap Words(q) = {}
      /\ b.pie => \E s \in LoadsOf(b) : s.vaddr < PageLen

(* In the file, every part is where it is in memory. *)
Flat(b) == \A s \in LoadsOf(b) : s.offset = s.vaddr /\ s.file = s.mem

(***************************************************************************)
(* A kernel a linker makes is in memory, after load_kernel_segments and    *)
(* apply_relocations, cell for cell what the ELF format says for the base  *)
(* that was drawn, with its entry point at the same place, whatever the    *)
(* firmware allocated, and nothing else is overwritten; it panics only for *)
(* want of memory.  On the legacy leg the same is true of the file's       *)
(* buffer if the file is laid out as memory is.  No leg takes more random  *)
(* draws than four times the retry limit.                                  *)
(***************************************************************************)
ImageLoads ==
  ki.pc # "idle" =>
    LET b == ki.binary
        first == IF b.pie THEN 0 ELSE ki.start
        image == ki.base .. ki.base + ki.size - 1
    IN  /\ ki.rng.draws <= 4 * Attempts
        /\ Linked(b) /\ ki.pc = "panicked" => ki.base = NoBase
        /\ Linked(b) /\ ki.pc = "done" =>
             /\ ki.entry = IF b.pie THEN (ki.start + b.entry) % AddressEnd ELSE b.entry
             /\ b.pie => ki.start \in ImageBase .. ImageBase + (Slots[ki.leg] - 1) * SlotLen
             /\ ki.leg = "uefi" \/ Flat(b) =>
                  \A a \in DOMAIN ki.mem :
                    ki.mem[a] = IF a \notin image THEN OtherCell
                                ELSE IF ki.leg = "legacy" /\ ~b.pie THEN FileCell(a - ki.base)
                                ELSE IF ki.leg = "legacy" /\ \A r \in Patches(b) :
                                          a - ki.base \notin r.offset .. r.offset + WordLen - 1
                                THEN FileCell(a - ki.base)
                                ELSE ElfCell(b, first + a - ki.base, ki.start)
=============================================================================
