-------------------------------- MODULE Kmain --------------------------------
(***************************************************************************)
(* The protected-mode phase of zamak-bios: kmain of main.rs, the bump heap *)
(* of allocator.rs it allocates from and the page tables paging.rs builds  *)
(* there.  Addresses are counted in units of which PageSize make a page.   *)
(***************************************************************************)
EXTENDS Stage2

CONSTANTS
  HeapStart, HeapSize,  \* 0x10_0000 and 0x40_0000
  KernelLoad,           \* KERNEL_LOAD_PHYS
  PageSize, HugePage, GiB,
  HhdmMax,              \* HHDM_MAX_BYTES
  Word32,               \* width of a pointer
  Volumes               \* contents of the partition: [fat, conf, kernel]

ASSUME HeapAssumption ==
  HeapStart \in Nat /\ HeapSize \in Nat /\ PageSize \in Nat \ {0}

ASSUME WindowAssumption ==
  KernelLoad \in Nat /\ Word32 \in Nat \ {0} /\ KernelLoad .. ImageBase - 1 \subseteq Memory

ASSUME PagingAssumption ==
  /\ GiB \in Nat \ {0} /\ HugePage \in Nat \ {0} /\ HhdmMax \in Nat
  /\ GiB = (GiB \div HugePage) * HugePage

(* p_vaddr, sizes and offsets of an ELF file are unsigned. *)
ASSUME VolumesAssumption ==
  \A v \in Volumes :
    /\ v.conf \in Nat
    /\ v.kernel.start \in Nat /\ v.kernel.len \in Nat
    /\ v.kernel.segs \in Seq([offset : Nat, filesz : Nat, vaddr : Nat, memsz : Nat, paddr : Nat])

VARIABLES
  volume,
  next,      \* BumpAllocator.next
  blocks,    \* what alloc handed out: a sequence of [start, size, align]
  kernel_buf,
  segment,   \* number of segments copied
  tables,    \* number of page tables allocated
  mapped,    \* physical addresses the HHDM reaches
  answered   \* addresses of the requests that were given a response

kmainVars == <<volume, next, blocks, kernel_buf, segment, tables, mapped, answered>>

Zero == <<"zero", 0>>

KmainInit ==
  /\ volume \in Volumes
  /\ next = 0
  /\ blocks = <<>>
  /\ kernel_buf = <<>>
  /\ segment = 0
  /\ tables = 0
  /\ mapped = {}
  /\ answered = {}

AlignUp(x, align) == ((x + align - 1) \div align) * align

(* MUTANT of AllocStart: the address is rounded down. *)
AllocStartDown(n, align) == ((HeapStart + n) \div align) * align

AllocStart(n, align) == AlignUp(HeapStart + n, align)
AllocFits(n, size, align) == AllocStart(n, align) + size <= HeapStart + HeapSize

(* The value alloc stores in next. *)
AllocNext(n, size, align) == AllocStart(n, align) + size - HeapStart

Panic ==
  /\ pc' = "panicked"
  /\ UNCHANGED <<stage2Vars, kmainVars>>

Alloc(size, align) ==
  /\ AllocFits(next, size, align)
  /\ next' = AllocNext(next, size, align)
  /\ blocks' = Append(blocks, [start |-> AllocStart(next, align), size |-> size, align |-> align])

(* The assertion on the magic, the converted memory map, RamFat32::parse. *)
CheckBundle ==
  /\ pc = "kmain"
  /\ \/ (~bundle.magic \/ ~volume.fat) /\ Panic
     \/ /\ bundle.magic /\ volume.fat
        /\ Alloc(1, 1)
        /\ pc' = "config"
        /\ UNCHANGED <<stage2Vars, volume, kernel_buf, segment, tables, mapped, answered>>

(* zamak.conf must be there and fit the heap; its contents are not used. *)
ReadConfig ==
  /\ pc = "config"
  /\ \/ (volume.conf = 0 \/ ~AllocFits(next, volume.conf, 1)) /\ Panic
     \/ /\ volume.conf # 0
        /\ Alloc(volume.conf, 1)
        /\ pc' = "kernel"
        /\ UNCHANGED <<stage2Vars, volume, kernel_buf, segment, tables, mapped, answered>>

kernel == volume.kernel

(* read_file stops at the end of the image. *)
KernelWhole == kernel.start + kernel.len <= bundle.image_len

(* The kernel file is read into the heap and its headers are parsed. *)
ReadKernel ==
  /\ pc = "kernel"
  /\ \/ /\ ~kernel.found \/ ~AllocFits(next, kernel.len, 1) \/ ~KernelWhole \/ ~kernel.elf
        /\ Panic
     \/ /\ kernel.found /\ KernelWhole /\ kernel.elf
        /\ Alloc(kernel.len, 1)
        /\ kernel_buf' = [i \in 1 .. kernel.len |-> mem[ImageBase + kernel.start + i - 1]]
        /\ pc' = "segments"
        /\ UNCHANGED <<stage2Vars, volume, segment, tables, mapped, answered>>

(* dest_phys as the pointer it becomes. *)
Dest(seg) == (KernelLoad + seg.vaddr) % Word32

(* MUTANT of Copied: the zeroes start with the segment. *)
CopiedAllZero(seg) ==
  [u \in Memory |->
     IF seg.memsz > seg.filesz /\ u \in Dest(seg) .. Dest(seg) + seg.memsz - 1 THEN Zero
     ELSE IF u \in Dest(seg) .. Dest(seg) + seg.filesz - 1
     THEN kernel_buf[seg.offset + u - Dest(seg) + 1]
     ELSE mem[u]]

(* Memory once seg has been copied and its tail cleared. *)
Copied(seg) ==
  [u \in Memory |->
     IF u \in Dest(seg) .. Dest(seg) + seg.filesz - 1
     THEN kernel_buf[seg.offset + u - Dest(seg) + 1]
     ELSE IF u \in Dest(seg) + seg.filesz .. Dest(seg) + seg.memsz - 1 THEN Zero
     ELSE mem[u]]

LoadSegment ==
  /\ pc = "segments" /\ segment < Len(kernel.segs)
  /\ LET seg == kernel.segs[segment + 1]
     IN  \/ seg.offset + seg.filesz > kernel.len /\ Panic
         \/ /\ seg.offset + seg.filesz <= kernel.len
            /\ mem' = Copied(seg)
            /\ segment' = segment + 1
            /\ UNCHANGED <<pc, machine, bundle, count, cont, left, lba, dest,
                           volume, next, blocks, kernel_buf, tables, mapped, answered>>

(* A request of the kernel, by the unit of the kernel file it is in. *)
RequestUnit(req) == OnDisk(bundle.partition_lba + kernel.start + req.at)

(* scan_requests over what lies at the segments' p_paddr. *)
Found(req) ==
  {u \in Memory : /\ mem[u] = RequestUnit(req)
                  /\ \E i \in DOMAIN kernel.segs :
                       LET seg == kernel.segs[i]
                       IN  u \in seg.paddr % Word32 .. (seg.paddr % Word32) + seg.memsz - 1}

(* fulfill_requests is given neither a framebuffer nor modules nor CPUs. *)
HasAnswer(req) == req.id = "rsdp" => bundle.rsdp

FulfillRequests ==
  /\ pc = "segments" /\ segment = Len(kernel.segs)
  /\ \/ ~AllocFits(next, 1, 1) /\ Panic
     \/ /\ Alloc(1, 1)
        /\ answered' = UNION {Found(req) : req \in {r \in kernel.reqs : HasAnswer(r)}}
        /\ pc' = "paging"
        /\ UNCHANGED <<stage2Vars, volume, kernel_buf, segment, tables, mapped>>

UsableEnds ==
  {bundle.e820[i].base + bundle.e820[i].length :
     i \in {j \in 0 .. bundle.e820_count - 1 : bundle.e820[j].usable}}

(* max_physical_address. *)
MaxPhys ==
  LET max == CHOOSE m \in UsableEnds \cup {0} : \A e \in UsableEnds : e <= m
  IN  IF max = 0 THEN GiB ELSE IF max > HhdmMax THEN HhdmMax ELSE max

TotalGiB == (MaxPhys + GiB - 1) \div GiB

(* PML4, two tables for the identity map, two for the kernel, one PDPT and *)
(* a PD per GiB for the HHDM.                                              *)
TablesNeeded == 6 + TotalGiB

(* MUTANT of PagesInPd: a last huge page that is only partly RAM is left out. *)
PagesInPdFloor(i) ==
  IF i * GiB + GiB <= MaxPhys THEN GiB \div HugePage ELSE (MaxPhys - i * GiB) \div HugePage

PagesInPd(i) ==
  IF i * GiB + GiB <= MaxPhys THEN GiB \div HugePage
  ELSE (MaxPhys - i * GiB + HugePage - 1) \div HugePage

(* allocate_page, and for the PD of GiB number i its huge pages. *)
AddTable ==
  /\ pc = "paging" /\ tables < TablesNeeded
  /\ \/ ~AllocFits(next, PageSize, PageSize) /\ Panic
     \/ /\ Alloc(PageSize, PageSize)
        /\ tables' = tables + 1
        /\ mapped' = IF tables < 6 THEN mapped
                     ELSE LET i == tables - 6
                          IN  mapped \cup (i * GiB .. i * GiB + PagesInPd(i) * HugePage - 1)
        /\ UNCHANGED <<pc, stage2Vars, volume, kernel_buf, segment, answered>>

EnterLongMode ==
  /\ pc = "paging" /\ tables = TablesNeeded
  /\ pc' = "jumped"
  /\ UNCHANGED <<stage2Vars, kmainVars>>

KmainStep ==
  CheckBundle \/ ReadConfig \/ ReadKernel \/ LoadSegment \/ FulfillRequests \/ AddTable
  \/ EnterLongMode
=============================================================================
