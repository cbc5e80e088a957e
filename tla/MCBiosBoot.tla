---------------------------- MODULE MCBiosBoot ----------------------------
(***************************************************************************)
(* Machines, volumes and kernels on which TLC runs BiosBoot.               *)
(***************************************************************************)
EXTENDS BiosBoot

Ram(base, length) == [base |-> base, length |-> length, usable |-> TRUE]
Reserved(base, length) == [base |-> base, length |-> length, usable |-> FALSE]

MCMaps ==
  {<<>>,
   <<Ram(0, 1), Ram(4, 60)>>,                       \* ends with the first GiB
   <<Ram(0, 1), Ram(4, 63)>>,                       \* ends within a huge page
   <<Ram(4, 58), Ram(70, 150), Reserved(240, 10)>>, \* more than HhdmMax
   <<Reserved(0, 4), Ram(4, 60), Reserved(64, 4), Ram(68, 8)>>}

Part(type, first) == [type |-> type, lba |-> first]
Empty == Part("none", 0)

MCPartitions ==
  {<<Empty, Empty, Empty, Empty>>,
   <<Empty, Part("fat32", 2), Part("fat32", 9), Empty>>,
   <<Part("other", 1), Empty, Empty, Part("linux", 4)>>}

MCMachines ==
  [map : MCMaps, ending : {"zero", "fails", "endless"}, rsdp : BOOLEAN,
   partitions : MCPartitions, sectors : {6, 12}]

MCMemory == KernelLoad .. GiB - 1

MCStale == {ZeroBundle, [ZeroBundle EXCEPT !.magic = TRUE, !.e820_count = MaxEntries, !.image_len = 1]}

Seg(offset, filesz, vaddr, memsz, paddr) ==
  [offset |-> offset, filesz |-> filesz, vaddr |-> vaddr, memsz |-> memsz, paddr |-> paddr]

Kernel(start, len, segs, reqs) ==
  [found |-> TRUE, elf |-> TRUE, start |-> start, len |-> len, segs |-> segs, reqs |-> reqs]

Req(at, id) == [at |-> at, id |-> id]

(* A kernel linked at 0 with its requests in its second segment. *)
Plain ==
  Kernel(1, 3, <<Seg(0, 2, 0, 2, 0), Seg(2, 1, 4, 3, 4)>>, {Req(2, "hhdm")})

MCKernels ==
  {Plain,
   [Plain EXCEPT !.found = FALSE],
   [Plain EXCEPT !.elf = FALSE],
   \* linked at the top two GiB of the address space
   Kernel(1, 3, <<Seg(0, 2, 2 * GiB, 2, 2 * GiB)>>, {Req(1, "rsdp")}),
   \* p_paddr is where the loader puts the segment
   Kernel(1, 3, <<Seg(1, 2, 2, 3, KernelLoad + 2)>>, {Req(1, "rsdp"), Req(2, "hhdm")}),
   Kernel(0, 3, <<Seg(0, 4, 0, 4, 0)>>, {}),     \* a segment beyond the file
   Kernel(2, 4, <<Seg(0, 4, 14, 4, 14)>>, {}),   \* runs into the partition image
   Kernel(3, 3, <<Seg(0, 2, 0, 2, 0)>>, {})}     \* not wholly in the image

MCVolumes ==
  [fat : {TRUE}, conf : {0, 1, 4, 24, 26, 40}, kernel : {Plain}] \cup
  [fat : {TRUE}, conf : {1}, kernel : MCKernels] \cup
  {[fat |-> FALSE, conf |-> 1, kernel |-> Plain]}

(* One ordinary machine and kernel, for the question about requests. *)
MCPlainVolumes == {[fat |-> TRUE, conf |-> 1, kernel |-> Plain]}
=============================================================================
