------------------------------- MODULE Stage2 -------------------------------
(***************************************************************************)
(* The real-mode phase of zamak-bios: _start of entry.rs and               *)
(* rm_phaseb_orchestrate of rm_io.rs.  It collects the memory map, finds   *)
(* the boot partition, copies its first sectors above 1 MiB and leaves it  *)
(* all in the BootDataBundle that kmain reads.                             *)
(***************************************************************************)
EXTENDS Integers, Sequences

CONSTANTS
  MaxEntries,   \* E820_MAX_ENTRIES
  Chunk,        \* 16: sectors in the bounce buffer
  ImageSectors, \* 0x4000: sectors that are loaded
  ImageBase,    \* 0x0200_0000, one unit of memory being a sector
  Memory,       \* the memory above the heap, in units
  Machines,     \* the machines tried: [map, ending, rsdp, partitions, sectors]
  Stale         \* what an earlier boot may have left where the bundle goes

ASSUME SizesAssumption ==
  /\ MaxEntries \in Nat \ {0} /\ Chunk \in Nat \ {0}
  /\ ImageSectors \in Nat /\ ImageBase \in Nat
  /\ Memory \subseteq Nat
  /\ ImageBase .. ImageBase + ImageSectors - 1 \subseteq Memory

E820Entry == [base : Nat, length : Nat, usable : BOOLEAN]

ASSUME MachinesAssumption ==
  \A m \in Machines :
    /\ m.map \in Seq(E820Entry)
    /\ m.rsdp \in BOOLEAN
    /\ m.sectors \in Nat
    /\ \A i \in 1 .. 4 : m.partitions[i].lba \in Nat

VARIABLES
  pc,
  machine,      \* firmware and disk
  bundle,       \* BootDataBundle
  count, cont,  \* [0x0410], [0x0418]: entries so far, continuation of INT 15h
  left, lba, dest,  \* [0x0420], [0x0424], [0x0428]: cursors of the load loop
  mem           \* contents of Memory

stage2Vars == <<machine, bundle, count, cont, left, lba, dest, mem>>

Junk == <<"junk", 0>>
OnDisk(sector) == <<"disk", sector>>

NoEntry == [base |-> 0, length |-> 0, usable |-> FALSE]

ZeroBundle ==
  [magic |-> FALSE, e820_count |-> 0, e820 |-> [i \in 0 .. MaxEntries - 1 |-> NoEntry],
   partition_lba |-> 0, image_len |-> 0, rsdp |-> FALSE]

Stage2Init ==
  /\ pc = "start"
  /\ machine \in Machines
  /\ bundle \in Stale
  /\ count = 0 /\ cont = 0 /\ left = 0 /\ lba = 0 /\ dest = 0
  /\ mem = [u \in Memory |-> Junk]

Orchestrate ==
  /\ pc = "start"
  /\ pc' = "e820"
  /\ bundle' = ZeroBundle
  /\ count' = 0 /\ cont' = 0
  /\ UNCHANGED <<machine, left, lba, dest, mem>>

(* INT 15h, AX=E820h.  After the last entry a BIOS returns a continuation  *)
(* of 0, or lets the next call fail, or starts again.                      *)
MapFails == Len(machine.map) = 0 \/ (machine.ending = "fails" /\ cont >= Len(machine.map))
MapEntry == machine.map[(cont % Len(machine.map)) + 1]
MapNext == IF machine.ending = "zero" /\ cont + 1 = Len(machine.map) THEN 0 ELSE cont + 1

(* MUTANT of E820Next: only a zero continuation ends the walk. *)
E820NextUncapped ==
  /\ pc = "e820"
  /\ \/ /\ MapFails
        /\ pc' = "mbr"
        /\ bundle' = [bundle EXCEPT !.e820_count = count % (MaxEntries + 1)]
        /\ UNCHANGED <<count, cont>>
     \/ /\ ~MapFails
        /\ LET stored == [bundle EXCEPT !.e820[count % MaxEntries] = MapEntry]
               more   == MapNext # 0
           IN  /\ pc' = IF more THEN "e820" ELSE "mbr"
               /\ bundle' = IF more THEN stored ELSE [stored EXCEPT !.e820_count = (count + 1) % (MaxEntries + 1)]
        /\ count' = (count + 1) % (2 * MaxEntries)
        /\ cont' = MapNext % (2 * MaxEntries)
  /\ UNCHANGED <<machine, left, lba, dest, mem>>

(* One turn of .Lpb_e820_loop; the count goes into the bundle at the end. *)
E820Next ==
  /\ pc = "e820"
  /\ \/ /\ MapFails
        /\ pc' = "mbr"
        /\ bundle' = [bundle EXCEPT !.e820_count = count]
        /\ UNCHANGED <<count, cont>>
     \/ /\ ~MapFails
        /\ LET stored == [bundle EXCEPT !.e820[count] = MapEntry]
               more   == MapNext # 0 /\ count + 1 < MaxEntries
           IN  /\ pc' = IF more THEN "e820" ELSE "mbr"
               /\ bundle' = IF more THEN stored ELSE [stored EXCEPT !.e820_count = count + 1]
        /\ count' = count + 1
        /\ cont' = MapNext
  /\ UNCHANGED <<machine, left, lba, dest, mem>>

Bootable(partition) == partition.type \in {"fat32", "linux"}

(* The first of the four entries with a known type. *)
FirstBootable ==
  CHOOSE i \in 1 .. 4 : /\ Bootable(machine.partitions[i])
                        /\ \A j \in 1 .. i - 1 : ~Bootable(machine.partitions[j])

(* The boot sector is read and its partition table scanned. *)
FindPartition ==
  /\ pc = "mbr"
  /\ \/ /\ \A i \in 1 .. 4 : ~Bootable(machine.partitions[i])
        /\ pc' = "halted"
        /\ UNCHANGED <<bundle, left, lba, dest>>
     \/ /\ \E i \in 1 .. 4 : Bootable(machine.partitions[i])
        /\ pc' = "load"
        /\ bundle' = [bundle EXCEPT !.partition_lba = machine.partitions[FirstBootable].lba]
        /\ lba' = machine.partitions[FirstBootable].lba
        /\ dest' = ImageBase
        /\ left' = ImageSectors
  /\ UNCHANGED <<machine, count, cont, mem>>

(* INT 13h failing, on the boot sector or on any later one. *)
DiskError ==
  /\ pc \in {"mbr", "load"}
  /\ pc = "load" => left > 0
  /\ pc' = "halted"
  /\ UNCHANGED stage2Vars

ChunkSize == IF left <= Chunk THEN left ELSE Chunk

(* MUTANT of LoadChunk: every chunk is read from the first sector. *)
LoadChunkSameLba ==
  LET n == ChunkSize
  IN  /\ pc = "load" /\ left > 0
      /\ lba + n <= machine.sectors
      /\ mem' = [u \in Memory |-> IF u \in dest .. dest + n - 1 THEN OnDisk(lba + u - dest) ELSE mem[u]]
      /\ dest' = dest + n
      /\ left' = left - n
      /\ UNCHANGED <<pc, machine, bundle, count, cont, lba>>

(* rm_load_chunk through the bounce buffer, and the cursors after it. *)
LoadChunk ==
  LET n == ChunkSize
  IN  /\ pc = "load" /\ left > 0
      /\ lba + n <= machine.sectors
      /\ mem' = [u \in Memory |-> IF u \in dest .. dest + n - 1 THEN OnDisk(lba + u - dest) ELSE mem[u]]
      /\ dest' = dest + n
      /\ lba' = lba + n
      /\ left' = left - n
      /\ UNCHANGED <<pc, machine, bundle, count, cont>>

(* The image, then the RSDP, then the magic, which goes last. *)
StampBundle ==
  /\ pc = "load" /\ left = 0
  /\ pc' = "kmain"
  /\ bundle' = [bundle EXCEPT !.image_len = ImageSectors, !.rsdp = machine.rsdp, !.magic = TRUE]
  /\ UNCHANGED <<machine, count, cont, left, lba, dest, mem>>

Stage2Step ==
  Orchestrate \/ E820Next \/ FindPartition \/ DiskError \/ LoadChunk \/ StampBundle
=============================================================================
