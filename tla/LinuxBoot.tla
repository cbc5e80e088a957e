----------------------------- MODULE LinuxBoot -----------------------------
(***************************************************************************)
(* The zero page of a Linux boot: parse_setup_header, BootParams and       *)
(* prepare_linux_boot of zamak-core/src/linux_boot.rs.                     *)
(*                                                                         *)
(* The page is a sequence of cells; the fields keep their order and the    *)
(* E820 table, MaxE820 entries of three cells, follows them.  A bzImage    *)
(* is [cells, magic, version]: its setup code is what the page starts      *)
(* from.                                                                   *)
(***************************************************************************)
EXTENDS Integers, Sequences, FiniteSetsExt

CONSTANTS
  BzImages, LoadAddresses, CmdlineAddresses, Initrds, MemoryMaps,
  HeaderCells,    \* 0x260, the cells parse_setup_header reads
  SectorCells,    \* 512
  PageCells,      \* 4096
  MaxE820,        \* E820_MAX
  MinVersion,     \* 0x0206
  Limit32, Limit64,  \* where a 32-bit and a 64-bit address end
  NoInitrd

VARIABLE lin

(* offsets, in their order in the page *)
E820Entries == 1
SetupSects == 2
TypeOfLoader == 3
LoadFlags == 4
Code32Start == 5
RamdiskImage == 6
RamdiskSize == 7
CmdLinePtr == 8
E820Table == 9
EntryCells == 3

(* The page holds the fields and the table, and two sectors, the least     *)
(* setup code there is, hold the fields.                                   *)
ASSUME LinuxAssumption ==
  /\ {HeaderCells, SectorCells, PageCells, MaxE820, MinVersion, Limit32, Limit64} \subseteq Nat
  /\ HeaderCells >= E820Table /\ 2 * SectorCells >= E820Table
  /\ PageCells >= E820Table + MaxE820 * EntryCells
  /\ \A image \in BzImages : image.cells \in Seq(Nat)
  /\ \A map \in MemoryMaps : map \in Seq([base : Nat, length : Nat, typ : Nat])
  /\ LoadAddresses \subseteq Nat /\ CmdlineAddresses \subseteq Nat
  /\ \A initrd \in Initrds \ {NoInitrd} : initrd.phys \in Nat /\ initrd.size \in Nat

SetupSize(image) ==
  LET sects == image.cells[SetupSects] IN (1 + IF sects = 0 THEN 4 ELSE sects) * SectorCells

HeaderError(image) ==
  CASE Len(image.cells) < HeaderCells -> "ImageTooSmall"
    [] Len(image.cells) >= HeaderCells /\ ~image.magic -> "InvalidMagic"
    [] Len(image.cells) >= HeaderCells /\ image.magic /\ image.version < MinVersion -> "UnsupportedVersion"
    [] OTHER -> IF Len(image.cells) <= SetupSize(image) THEN "EmptyKernel" ELSE "none"

Zeroed == [i \in 1 .. PageCells |-> 0]

(* populate_from_bzimage sets LOADED_HIGH, here bit 0, and CAN_USE_HEAP, bit 1. *)
Populate(page, image) ==
  LET n == Min({SetupSize(image), PageCells})
      copied == [i \in DOMAIN page |-> IF i <= n THEN image.cells[i] ELSE page[i]]
  IN  [copied EXCEPT ![TypeOfLoader] = 255, ![LoadFlags] = 4 * (@ \div 4) + 3]

(* MUTANT of AddE820Entry: the check comes one entry late. *)
AddE820EntryLate(page, region) ==
  LET count == page[E820Entries]
      at == E820Table + count * EntryCells
  IN  IF count > MaxE820 THEN page
      ELSE [page EXCEPT ![at] = region.base, ![at + 1] = region.length, ![at + 2] = region.typ,
                        ![E820Entries] = count + 1]

(* A table that is full takes no more. *)
AddE820Entry(page, region) ==
  LET count == page[E820Entries]
      at == E820Table + count * EntryCells
  IN  IF count >= MaxE820 THEN page
      ELSE [page EXCEPT ![at] = region.base, ![at + 1] = region.length, ![at + 2] = region.typ,
                        ![E820Entries] = count + 1]

LinuxIdle == lin = [pc |-> "idle"]

(* The caller, load_linux_kernel, may have loaded the body anywhere. *)
LinuxInit ==
  \E image \in BzImages, load \in LoadAddresses, cmdline \in CmdlineAddresses, initrd \in Initrds,
     map \in MemoryMaps :
    lin = [pc |-> "parse", image |-> image, load |-> load, cmdline |-> cmdline, initrd |-> initrd,
           map |-> map, i |-> 1, page |-> Zeroed, result |-> "none", entry |-> 0]

LinuxFails(error) == lin' = [lin EXCEPT !.pc = "done", !.result = error]

ParseHeader ==
  /\ lin.pc = "parse"
  /\ IF HeaderError(lin.image) # "none" THEN LinuxFails(HeaderError(lin.image))
     ELSE lin' = [lin EXCEPT !.pc = "load", !.page = Populate(@, lin.image)]

SetCode32 ==
  /\ lin.pc = "load"
  /\ IF lin.load >= Limit32 THEN LinuxFails("KernelLoadAddrOverflow")
     ELSE lin' = [lin EXCEPT !.pc = "cmdline", !.page[Code32Start] = lin.load]

SetCmdline ==
  /\ lin.pc = "cmdline"
  /\ IF lin.cmdline >= Limit32 THEN LinuxFails("CmdlineAddrOverflow")
     ELSE lin' = [lin EXCEPT !.pc = "initrd", !.page[CmdLinePtr] = lin.cmdline]

SetInitrd ==
  /\ lin.pc = "initrd"
  /\ IF lin.initrd = NoInitrd THEN lin' = [lin EXCEPT !.pc = "e820"]
     ELSE IF lin.initrd.phys >= Limit32 THEN LinuxFails("InitrdAddrOverflow")
     ELSE lin' = [lin EXCEPT !.pc = "e820", !.page[RamdiskImage] = lin.initrd.phys,
                             !.page[RamdiskSize] = lin.initrd.size]

(* The loop over the memory map, left when an entry is refused. *)
MoreRegions == lin.i <= Len(lin.map) /\ AddE820Entry(lin.page, lin.map[lin.i]) # lin.page

AddRegion ==
  /\ lin.pc = "e820" /\ MoreRegions
  /\ lin' = [lin EXCEPT !.i = @ + 1, !.page = AddE820Entry(@, lin.map[lin.i])]

EntryPoint ==
  /\ lin.pc = "e820" /\ ~MoreRegions
  /\ IF lin.load + SectorCells >= Limit64 THEN LinuxFails("KernelLoadAddrOverflow")
     ELSE lin' = [lin EXCEPT !.pc = "done", !.result = "Ok", !.entry = lin.load + SectorCells]

LinuxNext == ParseHeader \/ SetCode32 \/ SetCmdline \/ SetInitrd \/ AddRegion \/ EntryPoint

(* The E820 map a kernel reads from the page. *)
E820Of(page) ==
  [k \in 1 .. page[E820Entries] |->
     LET at == E820Table + (k - 1) * EntryCells
     IN  [base |-> page[at], length |-> page[at + 1], typ |-> page[at + 2]]]

(* The page of a successful preparation tells the kernel where it, its     *)
(* command line and its initrd are, with the loader's type and flags, and  *)
(* holds the memory map, cut where the table ends, for a setup code whose  *)
(* count byte is 0 as in every kernel build; the table never runs over     *)
(* what follows it, and the rest of the setup code is left as it was.      *)
ZeroPageTells ==
  lin.pc = "done" /\ lin.result = "Ok" =>
    LET p == lin.page
        n == Min({Len(lin.map), MaxE820})
        tableEnd == E820Table + n * EntryCells - 1
    IN  /\ p[Code32Start] = lin.load /\ lin.entry = lin.load + SectorCells
        /\ p[CmdLinePtr] = lin.cmdline /\ p[TypeOfLoader] = 255
        /\ p[LoadFlags] % 4 = 3 /\ p[LoadFlags] \div 4 = lin.image.cells[LoadFlags] \div 4
        /\ lin.initrd # NoInitrd => p[RamdiskImage] = lin.initrd.phys /\ p[RamdiskSize] = lin.initrd.size
        /\ lin.initrd = NoInitrd => p[RamdiskSize] = lin.image.cells[RamdiskSize]
        /\ lin.image.cells[E820Entries] = 0 =>
             /\ E820Of(p) = SubSeq(lin.map, 1, n)
             /\ \A i \in tableEnd + 1 .. PageCells :
                  p[i] = IF i <= SetupSize(lin.image) THEN lin.image.cells[i] ELSE 0
        /\ Len(p) = PageCells
=============================================================================
