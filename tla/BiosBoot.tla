------------------------------ MODULE BiosBoot ------------------------------
(***************************************************************************)
(* The BIOS boot path after the boot sector: the real-mode phase (Stage2)  *)
(* hands the BootDataBundle and the image of the partition to the          *)
(* protected-mode phase (Kmain), which hands the machine to the kernel.    *)
(***************************************************************************)
EXTENDS Kmain

vars == <<pc, stage2Vars, kmainVars>>

Init == Stage2Init /\ KmainInit

Stopped == pc \in {"halted", "panicked", "jumped"} /\ UNCHANGED vars

RealMode == Stage2Step /\ UNCHANGED kmainVars

Next == RealMode \/ KmainStep \/ Stopped

Spec == Init /\ [][Next]_vars

FairSpec == Spec /\ WF_vars(RealMode) /\ WF_vars(KmainStep)

-----------------------------------------------------------------------------
(* Once the magic is set - and a bundle of an earlier boot may carry it    *)
(* too - the bundle is the whole answer of this machine: the memory map is *)
(* the prefix the BIOS reported, as much of it as the array holds, the     *)
(* partition is the first bootable one, and the image is that partition's  *)
(* first sectors in order, as rm_io.rs means by stamping ZBDL_MAGIC last.  *)
BundleComplete ==
  pc \in {"kmain", "config", "kernel"} =>
    /\ bundle.magic
    /\ \A i \in 0 .. bundle.e820_count - 1 :
         bundle.e820[i] = machine.map[(i % Len(machine.map)) + 1]
    /\ bundle.e820_count <= MaxEntries
    /\ bundle.e820_count < Len(machine.map) => bundle.e820_count = MaxEntries
    /\ bundle.partition_lba = machine.partitions[FirstBootable].lba
    /\ \A i \in 0 .. bundle.image_len - 1 :
         mem[ImageBase + i] = OnDisk(bundle.partition_lba + i)

(* The blocks alloc hands out are aligned, lie in the heap and never       *)
(* overlap: a page table is never built over the kernel file, the memory   *)
(* map or another table.                                                   *)
HeapSound ==
  \A i \in DOMAIN blocks :
    LET b == blocks[i]
    IN  /\ b.start % b.align = 0
        /\ b.start >= HeapStart /\ b.start + b.size <= HeapStart + HeapSize
        /\ \A j \in 1 .. i - 1 : blocks[j].start + blocks[j].size <= b.start

(* A segment that fits the window below the partition image. *)
InWindow(seg) ==
  /\ seg.filesz <= seg.memsz
  /\ Dest(seg) >= KernelLoad /\ Dest(seg) + seg.memsz <= ImageBase

Footprint(seg) == Dest(seg) .. Dest(seg) + seg.memsz - 1

WellFormed ==
  /\ \A i \in DOMAIN kernel.segs : InWindow(kernel.segs[i])
  /\ \A i, j \in DOMAIN kernel.segs :
       i # j => Footprint(kernel.segs[i]) \cap Footprint(kernel.segs[j]) = {}

(* The segment holds its bytes of the kernel file on the disk, then zeroes. *)
InPlace(seg) ==
  \A k \in 0 .. seg.memsz - 1 :
    mem[Dest(seg) + k] =
      IF k < seg.filesz
      THEN OnDisk(machine.partitions[FirstBootable].lba + kernel.start + seg.offset + k)
      ELSE Zero

(* When the kernel is entered, every segment of a kernel that fits the     *)
(* window holds the bytes of its file on the disk, and zeroes after them:  *)
(* neither a chunk of the bulk load, nor the heap, nor a later segment has *)
(* displaced them.                                                         *)
KernelInPlace ==
  pc = "jumped" /\ WellFormed => \A i \in DOMAIN kernel.segs : InPlace(kernel.segs[i])

(* The direct map the kernel is entered with reaches all usable memory     *)
(* below HHDM_MAX_BYTES, the part of a huge page at its end included.      *)
HhdmReachesUsable ==
  pc = "jumped" =>
    \A i \in 0 .. bundle.e820_count - 1 :
      LET e == bundle.e820[i]
      IN  e.usable => \A a \in e.base .. e.base + e.length - 1 : a < HhdmMax => a \in mapped

(* Whatever the firmware, the disk and the volume are like, the boot ends  *)
(* in the kernel, in a panic or in the halt loop: no BIOS keeps the E820   *)
(* walk going and no volume keeps kmain busy.                              *)
BootEnds == <>(pc \in {"jumped", "panicked", "halted"})

(* kmain "fulfills the kernel's Limine requests": when a well-formed       *)
(* kernel is entered, each request the loader has an answer for has been   *)
(* answered where the kernel will look.                                    *)
RequestsAnswered ==
  pc = "jumped" /\ WellFormed =>
    \A req \in kernel.reqs : HasAnswer(req) =>
      \A u \in KernelLoad .. ImageBase - 1 : mem[u] = RequestUnit(req) => u \in answered
=============================================================================
