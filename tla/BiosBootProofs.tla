--------------------------- MODULE BiosBootProofs ---------------------------
(***************************************************************************)
(* Proofs about BiosBoot: for every machine, volume and memory layout the  *)
(* heap hands out disjoint blocks, the bundle is complete once it carries  *)
(* the magic, and a kernel that fits the window is in place when entered.  *)
(***************************************************************************)
EXTENDS BiosBoot, TLAPS, SequenceTheorems, WellFoundedInduction

Block == [start : Nat, size : Nat, align : Nat \ {0}]

(* What alloc keeps true: next is past every block it has handed out. *)
HeapInv ==
  /\ volume \in Volumes
  /\ next \in Nat
  /\ blocks \in Seq(Block)
  /\ \A i \in DOMAIN blocks : blocks[i].start + blocks[i].size <= HeapStart + next
  /\ HeapSound

(* Rounding up gives a multiple of the alignment that is not below the     *)
(* address.                                                                *)
LEMMA AlignUpFacts ==
  ASSUME NEW x \in Nat, NEW align \in Nat \ {0}
  PROVE  /\ AlignUp(x, align) \in Nat
         /\ AlignUp(x, align) >= x
         /\ AlignUp(x, align) % align = 0
PROOF
<1> DEFINE q == (x + align - 1) \div align
<1>1. q \in Nat /\ x + align - 1 = q * align + ((x + align - 1) % align)
      /\ (x + align - 1) % align \in 0 .. align - 1
  OBVIOUS
<1>2. q * align \in Nat
  BY <1>1
<1>3. q * align >= x
  BY <1>1, <1>2
<1>4. (q * align) % align = 0
  BY <1>1
<1> QED
  BY <1>2, <1>3, <1>4 DEF AlignUp

(* A block that alloc returns lies past all earlier ones, inside the heap  *)
(* and on its alignment.                                                   *)
LEMMA AllocKeepsHeap ==
  ASSUME HeapInv, NEW size \in Nat, NEW align \in Nat \ {0}, Alloc(size, align), volume' = volume
  PROVE  HeapInv'
PROOF
<1> DEFINE start == AllocStart(next, align)
           b == [start |-> start, size |-> size, align |-> align]
<1>1. start \in Nat /\ start >= HeapStart + next /\ start % align = 0
  <2>1. HeapStart + next \in Nat
    BY HeapAssumption DEF HeapInv
  <2> QED
    BY <2>1, AlignUpFacts DEF AllocStart
<1>2. start + size <= HeapStart + HeapSize /\ next' = start + size - HeapStart /\ blocks' = Append(blocks, b)
  BY DEF Alloc, AllocFits, AllocNext
<1>3. b \in Block
  BY <1>1 DEF Block
<1>4. next' \in Nat /\ start + size <= HeapStart + next' /\ next' >= next
  BY <1>1, <1>2, HeapAssumption DEF HeapInv
<1>5. blocks' \in Seq(Block) /\ Len(blocks') = Len(blocks) + 1 /\ blocks'[Len(blocks) + 1] = b
      /\ \A i \in 1 .. Len(blocks) : blocks'[i] = blocks[i]
  BY <1>2, <1>3 DEF HeapInv
<1> HIDE DEF start, b
<1>6. DOMAIN blocks = 1 .. Len(blocks) /\ DOMAIN blocks' = 1 .. Len(blocks) + 1 /\ Len(blocks) \in Nat
  BY <1>5 DEF HeapInv
<1>7. b.start = start /\ b.size = size /\ b.align = align
  BY DEF b
<1>8. \A i \in DOMAIN blocks' : blocks'[i].start + blocks'[i].size <= HeapStart + next'
  <2> SUFFICES ASSUME NEW i \in DOMAIN blocks'
               PROVE  blocks'[i].start + blocks'[i].size <= HeapStart + next'
    OBVIOUS
  <2>1. CASE i = Len(blocks) + 1
    <3>1. blocks'[i] = b
      BY <2>1, <1>5
    <3> QED
      BY <3>1, <1>4, <1>7
  <2>2. CASE i \in DOMAIN blocks
    <3>1. blocks[i] \in Block /\ blocks'[i] = blocks[i]
      BY <2>2, <1>5, <1>6 DEF HeapInv
    <3> QED
      BY <2>2, <3>1, <1>4, HeapAssumption DEF HeapInv, Block
  <2> QED
    BY <1>6, <2>1, <2>2
<1>9. HeapSound'
  <2> SUFFICES ASSUME NEW i \in DOMAIN blocks'
               PROVE  LET c == blocks'[i]
                      IN  /\ c.start % c.align = 0
                          /\ c.start >= HeapStart /\ c.start + c.size <= HeapStart + HeapSize
                          /\ \A j \in 1 .. i - 1 : blocks'[j].start + blocks'[j].size <= c.start
    BY DEF HeapSound
  <2>1. CASE i = Len(blocks) + 1
    <3>1. start >= HeapStart
      BY <1>1, HeapAssumption DEF HeapInv
    <3>2. ASSUME NEW j \in 1 .. i - 1 PROVE blocks'[j].start + blocks'[j].size <= start
      <4>1. j \in DOMAIN blocks /\ blocks'[j] = blocks[j] /\ blocks[j] \in Block
        BY <2>1, <1>5, <1>6 DEF HeapInv
      <4> QED
        BY <4>1, <1>1, HeapAssumption DEF HeapInv, Block
    <3> QED
      BY <2>1, <3>1, <3>2, <1>1, <1>2, <1>5, <1>7
  <2>2. CASE i \in DOMAIN blocks
    <3>1. blocks'[i] = blocks[i] /\ \A j \in 1 .. i - 1 : blocks'[j] = blocks[j]
      BY <2>2, <1>5, <1>6
    <3> QED
      BY <2>2, <3>1 DEF HeapInv, HeapSound
  <2> QED
    BY <1>6, <2>1, <2>2
<1> QED
  BY <1>4, <1>5, <1>8, <1>9 DEF HeapInv

(* A step that leaves the heap alone keeps its invariant. *)
LEMMA HeapUntouched ==
  ASSUME HeapInv, UNCHANGED <<volume, next, blocks>>
  PROVE  HeapInv'
  BY DEF HeapInv, HeapSound

(* Each allocation of kmain keeps the heap sound, whatever the sizes of    *)
(* the configuration and kernel files and the number of page tables.       *)
LEMMA HeapStep ==
  HeapInv /\ [Next]_vars => HeapInv'
PROOF
<1> SUFFICES ASSUME HeapInv, [Next]_vars
             PROVE  HeapInv'
  OBVIOUS
<1>0. volume.conf \in Nat /\ kernel.len \in Nat /\ PageSize \in Nat \ {0}
  BY VolumesAssumption, HeapAssumption DEF HeapInv, kernel
<1>1. CASE UNCHANGED vars \/ RealMode \/ Stopped
  BY <1>1, HeapUntouched DEF vars, kmainVars, RealMode, Stopped
<1>2. CASE Panic \/ EnterLongMode
  BY <1>2, HeapUntouched DEF Panic, EnterLongMode, kmainVars
<1>3. CASE CheckBundle
  <2>1. CASE Panic
    BY <2>1, <1>2
  <2>2. CASE Alloc(1, 1) /\ volume' = volume
    BY <2>2, AllocKeepsHeap
  <2> QED
    BY <1>3, <2>1, <2>2 DEF CheckBundle
<1>4. CASE ReadConfig
  <2>1. CASE Panic
    BY <2>1, <1>2
  <2>2. CASE Alloc(volume.conf, 1) /\ volume' = volume
    BY <2>2, <1>0, AllocKeepsHeap
  <2> QED
    BY <1>4, <2>1, <2>2 DEF ReadConfig
<1>5. CASE ReadKernel
  <2>1. CASE Panic
    BY <2>1, <1>2
  <2>2. CASE Alloc(kernel.len, 1) /\ volume' = volume
    BY <2>2, <1>0, AllocKeepsHeap
  <2> QED
    BY <1>5, <2>1, <2>2 DEF ReadKernel
<1>6. CASE LoadSegment
  <2>1. CASE Panic
    BY <2>1, <1>2
  <2>2. CASE UNCHANGED <<volume, next, blocks>>
    BY <2>2, HeapUntouched
  <2> QED
    BY <1>6, <2>1, <2>2 DEF LoadSegment
<1>7. CASE FulfillRequests
  <2>1. CASE Panic
    BY <2>1, <1>2
  <2>2. CASE Alloc(1, 1) /\ volume' = volume
    BY <2>2, AllocKeepsHeap
  <2> QED
    BY <1>7, <2>1, <2>2 DEF FulfillRequests
<1>8. CASE AddTable
  <2>1. CASE Panic
    BY <2>1, <1>2
  <2>2. CASE Alloc(PageSize, PageSize) /\ volume' = volume
    BY <2>2, <1>0, AllocKeepsHeap
  <2> QED
    BY <1>8, <2>1, <2>2 DEF AddTable
<1> QED
  BY <1>1, <1>2, <1>3, <1>4, <1>5, <1>6, <1>7, <1>8 DEF Next, KmainStep

(* alloc of allocator.rs: for every heap, page size, configuration and     *)
(* kernel file, the blocks in use are aligned, inside the heap and         *)
(* pairwise disjoint for as long as kmain runs.                            *)
THEOREM HeapIsSound == Spec => []HeapSound
PROOF
<1>1. Init => HeapInv
  BY DEF Init, KmainInit, HeapInv, HeapSound, Block
<1>2. HeapInv => HeapSound
  BY DEF HeapInv
<1> QED
  BY <1>1, <1>2, HeapStep, PTL DEF Spec

-----------------------------------------------------------------------------
BundleType ==
  [magic : BOOLEAN, e820_count : 0 .. MaxEntries, e820 : [0 .. MaxEntries - 1 -> E820Entry],
   partition_lba : Nat, image_len : Nat, rsdp : BOOLEAN]

(* The first n entries are the first n answers of the BIOS. *)
MapPrefix(n) ==
  \A i \in 0 .. n - 1 : bundle.e820[i] = machine.map[(i % Len(machine.map)) + 1]

(* The first n sectors of the partition are in the image. *)
Loaded(n) ==
  \A i \in 0 .. n - 1 : mem[ImageBase + i] = OnDisk(bundle.partition_lba + i)

FirstLba == machine.partitions[FirstBootable].lba

(* The walk is at its count-th answer, and below the cap. *)
WalkInv ==
  pc = "e820" => cont = count /\ count \in 0 .. MaxEntries - 1 /\ MapPrefix(count)

MapDone ==
  /\ MapPrefix(bundle.e820_count)
  /\ bundle.e820_count < Len(machine.map) => bundle.e820_count = MaxEntries

(* The three cursors of the load loop agree on what has been loaded. *)
LoadInv ==
  pc = "load" =>
    /\ left \in 0 .. ImageSectors
    /\ dest = ImageBase + (ImageSectors - left)
    /\ lba = bundle.partition_lba + (ImageSectors - left)
    /\ Loaded(ImageSectors - left)

(* The points of the program. *)
Phases ==
  {"start", "e820", "mbr", "load", "kmain", "config", "kernel", "segments", "paging",
   "halted", "panicked", "jumped"}

Stamped == {"kmain", "config", "kernel"}
Handed == {"segments", "paging", "jumped"}

StageInv ==
  /\ pc \in Phases
  /\ machine \in Machines
  /\ DOMAIN mem = Memory
  /\ pc # "start" => bundle \in BundleType
  /\ WalkInv
  /\ pc \in {"mbr", "load"} \cup Stamped \cup Handed => MapDone
  /\ pc \in {"load"} \cup Stamped \cup Handed =>
       bundle.partition_lba = FirstLba /\ FirstLba \in Nat
  /\ LoadInv
  /\ pc \in Stamped \cup Handed => bundle.magic /\ bundle.image_len = ImageSectors
  /\ pc \in Stamped => Loaded(ImageSectors)

(* When there is a bootable partition, the scan ends at one of the four    *)
(* entries.                                                                *)
LEMMA FirstBootableIsEntry ==
  ASSUME \E i \in 1 .. 4 : Bootable(machine.partitions[i])
  PROVE  FirstBootable \in 1 .. 4
PROOF
<1> DEFINE P(i) == Bootable(machine.partitions[i])
<1>1. \E i \in 1 .. 4 : P(i) /\ \A j \in 1 .. i - 1 : ~P(j)
  <2> HIDE DEF P
  <2>1. P(1) \/ P(2) \/ P(3) \/ P(4)
    <3>1. \E i \in 1 .. 4 : P(i)
      BY DEF P
    <3> QED
      BY <3>1
  <2>2. CASE P(1)
    BY <2>2
  <2>3. CASE ~P(1) /\ P(2)
    BY <2>3
  <2>4. CASE ~P(1) /\ ~P(2) /\ P(3)
    BY <2>4
  <2>5. CASE ~P(1) /\ ~P(2) /\ ~P(3) /\ P(4)
    BY <2>5
  <2> QED
    BY <2>1, <2>2, <2>3, <2>4, <2>5
<1> QED
  BY <1>1 DEF FirstBootable

(* The place in the BIOS's map that an answer is taken from exists. *)
LEMMA ModIndex ==
  ASSUME NEW n \in Nat, NEW k \in Nat \ {0}
  PROVE  (n % k) + 1 \in 1 .. k
  OBVIOUS

(* An element of a sequence is in the set the sequence is over. *)
LEMMA ElementOf ==
  ASSUME NEW S, NEW s \in Seq(S), NEW i \in 1 .. Len(s)
  PROVE  s[i] \in S
  OBVIOUS

(* The walk of the memory map: each answer goes to the next place of the   *)
(* array, and the walk stops at the cap or after the last answer.          *)
LEMMA WalkStep ==
  ASSUME StageInv, E820Next
  PROVE  StageInv'
PROOF
<1>1. pc = "e820" /\ machine' = machine /\ mem' = mem /\ bundle \in BundleType
  BY DEF E820Next, StageInv
<1>2. cont = count /\ count \in 0 .. MaxEntries - 1 /\ MapPrefix(count)
  BY <1>1 DEF StageInv, WalkInv
<1>3. machine \in Machines /\ machine.map \in Seq(E820Entry) /\ Len(machine.map) \in Nat
  BY MachinesAssumption DEF StageInv
<1>4. CASE MapFails
  <2>1. pc' = "mbr" /\ bundle' = [bundle EXCEPT !.e820_count = count]
    BY <1>4 DEF E820Next
  <2>2. bundle' \in BundleType /\ bundle'.e820 = bundle.e820 /\ bundle'.e820_count = count
    BY <2>1, <1>1, <1>2, SizesAssumption DEF BundleType
  <2>3. ~(count < Len(machine.map))
    BY <1>2, <1>3, <1>4 DEF MapFails
  <2>4. MapDone'
    BY <2>2, <2>3, <1>1, <1>2 DEF MapDone, MapPrefix
  <2> QED
    BY <2>1, <2>2, <2>4, <1>1 DEF StageInv, WalkInv, LoadInv, Phases, Stamped, Handed
<1>5. CASE ~MapFails
  <2> DEFINE e == MapEntry
             stored == [bundle EXCEPT !.e820[count] = e]
             more == MapNext # 0 /\ count + 1 < MaxEntries
  <2>1. /\ pc' = IF more THEN "e820" ELSE "mbr"
        /\ bundle' = IF more THEN stored ELSE [stored EXCEPT !.e820_count = count + 1]
        /\ count' = count + 1 /\ cont' = MapNext
    BY <1>5 DEF E820Next
  <2>2. e \in E820Entry /\ e = machine.map[(count % Len(machine.map)) + 1]
    <3>1. Len(machine.map) > 0
      BY <1>3, <1>5 DEF MapFails
    <3>2. (count % Len(machine.map)) + 1 \in 1 .. Len(machine.map)
      <4>1. Len(machine.map) \in Nat \ {0} /\ count \in Nat
        BY <3>1, <1>2, <1>3, SizesAssumption
      <4> QED
        BY <4>1, ModIndex
    <3>3. e = machine.map[(count % Len(machine.map)) + 1]
      BY <1>2 DEF MapEntry
    <3>4. machine.map[(count % Len(machine.map)) + 1] \in E820Entry
      BY <3>2, <1>3, ElementOf
    <3> QED
      BY <3>3, <3>4
  <2> HIDE DEF e
  <2>3. stored \in BundleType /\ stored.e820 = [bundle.e820 EXCEPT ![count] = e]
    BY <2>2, <1>1, <1>2 DEF BundleType
  <2>4. \A i \in 0 .. count : stored.e820[i] = machine.map[(i % Len(machine.map)) + 1]
    <3> SUFFICES ASSUME NEW i \in 0 .. count
                 PROVE  stored.e820[i] = machine.map[(i % Len(machine.map)) + 1]
      OBVIOUS
    <3>1. bundle.e820 \in [0 .. MaxEntries - 1 -> E820Entry]
      BY <1>1 DEF BundleType
    <3>2. CASE i = count
      BY <3>1, <3>2, <2>2, <2>3, <1>2
    <3>3. CASE i # count
      <4>1. i \in 0 .. count - 1 /\ i \in 0 .. MaxEntries - 1
        BY <3>3, <1>2, SizesAssumption
      <4> QED
        BY <4>1, <3>1, <3>3, <2>3, <1>2 DEF MapPrefix
    <3> QED
      BY <3>2, <3>3
  <2> HIDE DEF stored
  <2>5. CASE more
    <3>1. pc' = "e820" /\ bundle' = stored /\ cont' = count' /\ count' \in 0 .. MaxEntries - 1
      BY <2>1, <2>5, <1>2, SizesAssumption DEF MapNext
    <3>2. MapPrefix(count)'
      BY <3>1, <2>1, <2>4, <1>1, <1>2 DEF MapPrefix
    <3> QED
      BY <3>1, <3>2, <2>3, <1>1 DEF StageInv, WalkInv, LoadInv, Phases, Stamped, Handed
  <2>6. CASE ~more
    <3>1. pc' = "mbr" /\ bundle' = [stored EXCEPT !.e820_count = count + 1]
      BY <2>1, <2>6
    <3>2. bundle' \in BundleType /\ bundle'.e820_count = count + 1 /\ bundle'.e820 = stored.e820
      <4>1. count + 1 \in 0 .. MaxEntries
        BY <1>2, SizesAssumption
      <4>2. stored \in BundleType
        BY <2>3
      <4> QED
        BY <4>1, <4>2, <3>1 DEF BundleType
    <3>3. MapPrefix(bundle.e820_count)'
      BY <3>2, <2>4, <1>1, <1>2 DEF MapPrefix
    <3>4. count + 1 < Len(machine.map) => count + 1 = MaxEntries
      BY <2>6, <1>2, <1>3, SizesAssumption DEF MapNext
    <3> QED
      BY <3>1, <3>2, <3>3, <3>4, <1>1 DEF StageInv, WalkInv, MapDone, LoadInv, Phases, Stamped, Handed
  <2> QED
    BY <2>5, <2>6
<1> QED
  BY <1>4, <1>5

(* The loop of the bulk load: a chunk goes where the cursors say, and they *)
(* advance together.                                                       *)
LEMMA LoadStep ==
  ASSUME StageInv, LoadChunk
  PROVE  StageInv'
PROOF
<1> DEFINE n == ChunkSize
           done == ImageSectors - left
<1>1. pc = "load" /\ pc' = "load" /\ left > 0 /\ machine' = machine /\ bundle' = bundle
  BY DEF LoadChunk
<1>2. /\ left \in 0 .. ImageSectors /\ dest = ImageBase + done
      /\ lba = bundle.partition_lba + done /\ Loaded(done)
      /\ bundle.partition_lba \in Nat
  BY <1>1 DEF StageInv, LoadInv
<1>3. n \in 1 .. left
  BY <1>1, <1>2, SizesAssumption DEF ChunkSize
<1>4. /\ mem' = [u \in Memory |-> IF u \in dest .. dest + n - 1 THEN OnDisk(lba + u - dest) ELSE mem[u]]
      /\ dest' = dest + n /\ lba' = lba + n /\ left' = left - n
  BY DEF LoadChunk
<1> HIDE DEF n
<1>5. left' \in 0 .. ImageSectors /\ dest' = ImageBase + (ImageSectors - left')
      /\ lba' = bundle.partition_lba + (ImageSectors - left')
  BY <1>2, <1>3, <1>4, SizesAssumption
<1>6. ASSUME NEW i \in 0 .. (ImageSectors - left') - 1
      PROVE  mem'[ImageBase + i] = OnDisk(bundle.partition_lba + i)
  <2>1. i \in Nat /\ i < done + n /\ i < ImageSectors
    BY <1>2, <1>3, <1>4, SizesAssumption
  <2>2. ImageBase + i \in Memory
    BY <2>1, SizesAssumption
  <2>3. CASE i < done
    <3>1. ~(ImageBase + i \in dest .. dest + n - 1) /\ i \in 0 .. done - 1
      BY <2>1, <2>3, <1>2, <1>3, SizesAssumption
    <3> QED
      BY <3>1, <2>2, <1>2, <1>4 DEF Loaded
  <2>4. CASE ~(i < done)
    <3>1. ImageBase + i \in dest .. dest + n - 1 /\ lba + (ImageBase + i) - dest = bundle.partition_lba + i
      BY <2>1, <2>4, <1>2, <1>3, SizesAssumption
    <3> QED
      BY <3>1, <2>2, <1>4
  <2> QED
    BY <2>3, <2>4
<1>7. LoadInv'
  BY <1>1, <1>5, <1>6 DEF LoadInv, Loaded
<1>8. DOMAIN mem' = Memory
  BY <1>4
<1>9. MapDone' /\ FirstLba' = FirstLba
  BY <1>1 DEF StageInv, MapDone, MapPrefix, FirstLba, FirstBootable
<1> QED
  BY <1>1, <1>7, <1>8, <1>9 DEF StageInv, WalkInv, Stamped, Handed

(* Every step of the real-mode phase and of kmain keeps the bundle what    *)
(* the machine answered; only the bulk load and the copying of segments    *)
(* write the memory above the heap.                                        *)
LEMMA StageStep ==
  StageInv /\ [Next]_vars => StageInv'
PROOF
<1> SUFFICES ASSUME StageInv, [Next]_vars
             PROVE  StageInv'
  OBVIOUS
<1> USE DEF Stamped, Handed
<1>1. ASSUME UNCHANGED <<machine, bundle, count, cont, left, lba, dest>>
      PROVE  /\ MapDone' = MapDone /\ FirstLba' = FirstLba
             /\ \A n : MapPrefix(n)' = MapPrefix(n)
  BY <1>1 DEF MapDone, MapPrefix, FirstLba, FirstBootable
<1>2. CASE UNCHANGED vars
  BY <1>2, <1>1 DEF vars, stage2Vars, StageInv, WalkInv, LoadInv, Loaded, MapPrefix
<1>3. CASE Orchestrate
  <2>1. ZeroBundle \in BundleType
    BY SizesAssumption DEF ZeroBundle, NoEntry, BundleType, E820Entry
  <2>2. pc' = "e820" /\ bundle' = ZeroBundle /\ count' = 0 /\ cont' = 0 /\ machine' = machine /\ mem' = mem
    BY <1>3 DEF Orchestrate
  <2>3. MapPrefix(count)'
    BY <2>2 DEF MapPrefix
  <2> QED
    BY <2>1, <2>2, <2>3, SizesAssumption DEF StageInv, WalkInv, LoadInv, Phases
<1>4. CASE E820Next
  BY <1>4, WalkStep
<1>5. CASE FindPartition
  <2>1. pc = "mbr" /\ machine' = machine /\ mem' = mem /\ MapDone /\ bundle \in BundleType
    BY <1>5 DEF FindPartition, StageInv
  <2>2. CASE pc' = "halted" /\ UNCHANGED bundle
    BY <2>1, <2>2 DEF StageInv, WalkInv, LoadInv, Phases
  <2>3. CASE /\ \E i \in 1 .. 4 : Bootable(machine.partitions[i])
             /\ pc' = "load"
             /\ bundle' = [bundle EXCEPT !.partition_lba = FirstLba]
             /\ lba' = FirstLba /\ dest' = ImageBase /\ left' = ImageSectors
    <3>1. FirstLba \in Nat /\ FirstLba' = FirstLba
      <4>1. FirstBootable \in 1 .. 4
        BY <2>3, FirstBootableIsEntry
      <4>2. FirstLba \in Nat
        BY <4>1, MachinesAssumption DEF StageInv, FirstLba
      <4> QED
        BY <4>2, <2>1 DEF FirstLba, FirstBootable
    <3>2. /\ bundle' \in BundleType /\ bundle'.partition_lba = FirstLba
          /\ bundle'.e820 = bundle.e820 /\ bundle'.e820_count = bundle.e820_count
      BY <2>1, <2>3, <3>1 DEF BundleType
    <3>3. MapDone'
      BY <3>2, <2>1 DEF MapDone, MapPrefix
    <3>4. LoadInv'
      <4>1. ImageSectors - ImageSectors = 0 /\ ImageBase + 0 = ImageBase /\ FirstLba + 0 = FirstLba
        BY <3>1, SizesAssumption
      <4>2. Loaded(ImageSectors - left)'
        BY <4>1, <2>3 DEF Loaded
      <4> QED
        BY <4>1, <4>2, <3>2, <2>3, SizesAssumption DEF LoadInv
    <3> QED
      BY <3>1, <3>2, <3>3, <3>4, <2>1, <2>3 DEF StageInv, WalkInv, Phases
  <2> QED
    BY <1>5, <2>2, <2>3 DEF FindPartition, FirstLba
<1>6. CASE DiskError
  BY <1>6 DEF DiskError, stage2Vars, StageInv, WalkInv, LoadInv, Phases
<1>7. CASE LoadChunk
  BY <1>7, LoadStep
<1>8. CASE StampBundle
  <2>1. /\ pc = "load" /\ left = 0 /\ pc' = "kmain" /\ machine' = machine /\ mem' = mem
        /\ bundle' = [bundle EXCEPT !.image_len = ImageSectors, !.rsdp = machine.rsdp, !.magic = TRUE]
    BY <1>8 DEF StampBundle
  <2>2. machine.rsdp \in BOOLEAN /\ bundle \in BundleType
    BY <2>1, MachinesAssumption DEF StageInv
  <2>3. /\ bundle' \in BundleType /\ bundle'.magic /\ bundle'.image_len = ImageSectors
        /\ bundle'.partition_lba = bundle.partition_lba
        /\ bundle'.e820 = bundle.e820 /\ bundle'.e820_count = bundle.e820_count
    BY <2>1, <2>2, SizesAssumption DEF BundleType
  <2>4. Loaded(ImageSectors)'
    <3>1. ImageSectors - left = ImageSectors
      BY <2>1, SizesAssumption
    <3>2. Loaded(ImageSectors)
      BY <2>1, <3>1 DEF StageInv, LoadInv
    <3> QED
      BY <3>2, <2>1, <2>3 DEF Loaded
  <2>5. MapDone' /\ FirstLba' = FirstLba
    BY <2>1, <2>3 DEF StageInv, MapDone, MapPrefix, FirstLba, FirstBootable
  <2> QED
    BY <2>1, <2>3, <2>4, <2>5 DEF StageInv, WalkInv, LoadInv, Phases
<1>9. CASE UNCHANGED stage2Vars /\ pc' \in {"panicked"} \cup Stamped \cup Handed
           /\ (pc' \in Stamped => pc \in Stamped) /\ pc \in Stamped \cup Handed
  BY <1>9, <1>1 DEF stage2Vars, StageInv, WalkInv, LoadInv, Loaded, Phases
<1>10. CASE LoadSegment
  <2>1. CASE Panic
    BY <2>1, <1>9, <1>10 DEF Panic, LoadSegment
  <2>2. CASE \E seg : mem' = Copied(seg) /\ UNCHANGED <<pc, machine, bundle, count, cont, left, lba, dest>>
    <3>1. DOMAIN mem' = Memory
      BY <2>2 DEF Copied
    <3> QED
      BY <3>1, <2>2, <1>1, <1>10 DEF LoadSegment, StageInv, WalkInv, LoadInv
  <2> QED
    BY <1>10, <2>1, <2>2 DEF LoadSegment
<1>11. CASE CheckBundle \/ ReadConfig \/ ReadKernel \/ FulfillRequests \/ AddTable \/ EnterLongMode
  BY <1>11, <1>9 DEF CheckBundle, ReadConfig, ReadKernel, FulfillRequests, AddTable, EnterLongMode, Panic
<1> QED
  BY <1>2, <1>3, <1>4, <1>5, <1>6, <1>7, <1>8, <1>10, <1>11
     DEF Next, RealMode, Stage2Step, KmainStep, Stopped

(* The hand-over from the real-mode phase to kmain: for every firmware,    *)
(* partition table and image size, a bundle that carries the magic holds   *)
(* what this machine answered and the image is the partition's first       *)
(* sectors in order.                                                       *)
THEOREM BundleIsComplete == Spec => []BundleComplete
PROOF
<1>1. Init => StageInv
  BY DEF Init, Stage2Init, StageInv, WalkInv, LoadInv, Phases, Stamped, Handed
<1>2. StageInv => BundleComplete
  BY DEF StageInv, BundleType, BundleComplete, MapDone, MapPrefix, Loaded, FirstLba, Stamped, Handed
<1> QED
  BY <1>1, <1>2, StageStep, PTL DEF Spec

-----------------------------------------------------------------------------
(* The kernel file in the heap is the one on the disk, and of a kernel     *)
(* that fits the window the segments copied so far are in place.           *)
KernelInv ==
  /\ pc \in {"start", "e820", "mbr", "load"} \cup Stamped => segment = 0
  /\ pc \in Handed =>
       /\ \A i \in 1 .. kernel.len : kernel_buf[i] = OnDisk(FirstLba + kernel.start + i - 1)
       /\ segment \in 0 .. Len(kernel.segs)
       /\ WellFormed => \A i \in 1 .. segment : InPlace(kernel.segs[i])
  /\ pc \in {"paging", "jumped"} => segment = Len(kernel.segs)

Segment == [offset : Nat, filesz : Nat, vaddr : Nat, memsz : Nat, paddr : Nat]

(* Where a segment goes is a natural number. *)
LEMMA DestType ==
  ASSUME NEW seg \in Segment
  PROVE  Dest(seg) \in Nat
PROOF
<1>1. KernelLoad + seg.vaddr \in Nat /\ Word32 \in Nat \ {0}
  BY WindowAssumption DEF Segment
<1>2. \A x \in Nat, w \in Nat \ {0} : x % w \in Nat
  OBVIOUS
<1> QED
  BY <1>1, <1>2 DEF Dest

(* Reading the kernel file out of a complete image gives its bytes on the  *)
(* disk.                                                                   *)
LEMMA ReadKernelStep ==
  ASSUME HeapInv, StageInv, KernelInv, ReadKernel
  PROVE  KernelInv'
PROOF
<1> USE DEF Stamped, Handed
<1>1. CASE Panic
  BY <1>1 DEF Panic, KernelInv
<1>2. CASE /\ KernelWhole /\ pc' = "segments"
           /\ kernel_buf' = [i \in 1 .. kernel.len |-> mem[ImageBase + kernel.start + i - 1]]
           /\ UNCHANGED <<stage2Vars, volume, segment>>
  <2>1. pc = "kernel" /\ segment = 0 /\ Loaded(ImageSectors) /\ bundle.image_len = ImageSectors
        /\ bundle.partition_lba = FirstLba /\ FirstLba \in Nat
    BY DEF ReadKernel, StageInv, KernelInv
  <2>2. kernel' = kernel /\ FirstLba' = FirstLba
    BY <1>2 DEF kernel, stage2Vars, FirstLba, FirstBootable
  <2>3. kernel.start \in Nat /\ kernel.len \in Nat /\ kernel.segs \in Seq(Segment)
    BY VolumesAssumption DEF HeapInv, kernel, Segment
  <2>4. kernel.start + kernel.len <= ImageSectors
    BY <1>2, <2>1 DEF KernelWhole
  <2>5. ASSUME NEW i \in 1 .. kernel.len
        PROVE  kernel_buf'[i] = OnDisk(FirstLba + kernel.start + i - 1)
    <3> DEFINE k == kernel.start + i - 1
    <3>1. \A a, b, c \in Nat : c >= 1 => a + b + c - 1 = a + (b + c - 1)
      OBVIOUS
    <3>2. ImageBase \in Nat /\ ImageSectors \in Nat /\ i \in Nat /\ i >= 1 /\ i <= kernel.len
      BY <2>3, SizesAssumption
    <3>3. k \in 0 .. ImageSectors - 1
      BY <2>3, <2>4, <3>2
    <3>4. /\ ImageBase + kernel.start + i - 1 = ImageBase + k
          /\ FirstLba + kernel.start + i - 1 = FirstLba + k
      BY <2>1, <2>3, <3>1, <3>2
    <3> HIDE DEF k
    <3>5. mem[ImageBase + k] = OnDisk(FirstLba + k)
      BY <2>1, <3>3 DEF Loaded
    <3> QED
      BY <1>2, <3>4, <3>5
  <2>6. segment' = 0 /\ Len(kernel.segs) \in Nat
    BY <1>2, <2>1, <2>3
  <2> QED
    BY <1>2, <2>2, <2>5, <2>6 DEF KernelInv
<1> QED
  BY <1>1, <1>2 DEF ReadKernel

(* Copying a segment puts it in place and, when footprints are disjoint,   *)
(* disturbs none that is.                                                  *)
LEMMA LoadSegmentStep ==
  ASSUME HeapInv, StageInv, KernelInv, LoadSegment
  PROVE  KernelInv'
PROOF
<1> USE DEF Stamped, Handed
<1>1. CASE Panic
  BY <1>1 DEF Panic, KernelInv
<1> DEFINE s == kernel.segs[segment + 1]
<1>2. CASE /\ s.offset + s.filesz <= kernel.len /\ mem' = Copied(s) /\ segment' = segment + 1
           /\ UNCHANGED <<pc, machine, bundle, volume, kernel_buf>>
  <2>1. pc = "segments" /\ segment \in Nat /\ segment < Len(kernel.segs) /\ FirstLba \in Nat
    <3>1. pc = "segments" /\ segment < Len(kernel.segs)
      BY DEF LoadSegment
    <3>2. segment \in Nat
      BY <3>1 DEF KernelInv
    <3>3. FirstLba \in Nat
      BY <3>1 DEF StageInv
    <3> QED
      BY <3>1, <3>2, <3>3
  <2>2. kernel' = kernel /\ FirstLba' = FirstLba /\ WellFormed' = WellFormed
        /\ \A seg : Dest(seg)' = Dest(seg)
    BY <1>2 DEF kernel, FirstLba, FirstBootable, WellFormed, InWindow, Footprint, Dest
  <2>3. kernel.start \in Nat /\ kernel.len \in Nat /\ kernel.segs \in Seq(Segment)
    BY VolumesAssumption DEF HeapInv, kernel, Segment
  <2>4. segment + 1 \in 1 .. Len(kernel.segs) /\ DOMAIN kernel.segs = 1 .. Len(kernel.segs)
    BY <2>1, <2>3
  <2>5. \A i \in 1 .. Len(kernel.segs) : kernel.segs[i] \in Segment
    BY <2>3, ElementOf
  <2>6. s \in Segment /\ Dest(s) \in Nat
    BY <2>4, <2>5, DestType
  <2>7. ASSUME WellFormed, NEW i \in 1 .. segment + 1
        PROVE  InPlace(kernel.segs[i])'
    <3> DEFINE t == kernel.segs[i]
    <3>1. i \in 1 .. Len(kernel.segs)
      BY <2>1, <2>4
    <3>2. t \in Segment /\ Dest(t) \in Nat /\ t' = t
      BY <3>1, <2>2, <2>5, DestType
    <3>3. /\ t.filesz <= t.memsz /\ Dest(t) >= KernelLoad /\ Dest(t) + t.memsz <= ImageBase
          /\ s.filesz <= s.memsz
      BY <2>7, <3>1, <2>4 DEF WellFormed, InWindow
    <3> HIDE DEF s, t
    <3>4. SUFFICES ASSUME NEW k \in 0 .. t.memsz - 1
                   PROVE  mem'[Dest(t) + k] = IF k < t.filesz
                                              THEN OnDisk(FirstLba + kernel.start + t.offset + k)
                                              ELSE Zero
      BY <3>2, <2>2 DEF InPlace, FirstLba, t
    <3>5. Dest(t) + k \in Memory
      BY <3>2, <3>3, WindowAssumption, SizesAssumption DEF Segment
    <3>6. CASE i = segment + 1
      <4>1. t = s
        BY <3>6 DEF s, t
      <4>2. CASE k < t.filesz
        <5> DEFINE base == Dest(t)
                   off == t.offset
                   size == t.filesz
        <5>1. base \in Nat /\ off \in Nat /\ size \in Nat /\ k \in Nat /\ k < size
              /\ base = Dest(s) /\ off = s.offset /\ size = s.filesz
          BY <4>1, <4>2, <3>2 DEF Segment
        <5> HIDE DEF base, off, size
        <5>2. mem'[Dest(t) + k] = kernel_buf[t.offset + k + 1]
          <6>1. base + k \in base .. base + size - 1 /\ off + (base + k) - base + 1 = off + k + 1
            BY <5>1
          <6>2. /\ Dest(t) + k \in Dest(s) .. Dest(s) + s.filesz - 1
                /\ s.offset + (Dest(t) + k) - Dest(s) + 1 = t.offset + k + 1
            BY <5>1, <6>1 DEF base, off, size
          <6> QED
            BY <6>2, <3>5, <1>2 DEF Copied
        <5>3. t.offset + k + 1 \in 1 .. kernel.len
          <6>1. \A a, b, c, n \in Nat : a + b <= n /\ c < b => a + c + 1 \in 1 .. n
            OBVIOUS
          <6>2. off + size <= kernel.len
            BY <5>1, <1>2
          <6>3. off + k + 1 \in 1 .. kernel.len
            BY <5>1, <6>1, <6>2, <2>3
          <6> QED
            BY <6>3 DEF off
        <5>4. kernel_buf[t.offset + k + 1] = OnDisk(FirstLba + kernel.start + (t.offset + k + 1) - 1)
          BY <5>3, <2>1 DEF KernelInv
        <5>5. FirstLba + kernel.start + (t.offset + k + 1) - 1 = FirstLba + kernel.start + t.offset + k
          <6>1. FirstLba \in Nat /\ kernel.start \in Nat /\ t.offset \in Nat /\ k \in Nat
            BY <2>1, <2>3, <3>2 DEF Segment
          <6>2. \A a, b, c, d \in Nat : a + b + (c + d + 1) - 1 = a + b + c + d
            OBVIOUS
          <6> QED
            BY <6>1, <6>2
        <5> QED
          BY <5>2, <5>4, <5>5, <4>2
      <4>3. CASE ~(k < t.filesz)
        <5>1. /\ ~(Dest(t) + k \in Dest(s) .. Dest(s) + s.filesz - 1)
              /\ Dest(t) + k \in Dest(s) + s.filesz .. Dest(s) + s.memsz - 1
          BY <4>1, <4>3, <3>2 DEF Segment
        <5>2. mem'[Dest(t) + k] = Zero
          BY <5>1, <3>5, <1>2 DEF Copied
        <5> QED
          BY <5>2, <4>3
      <4> QED
        BY <4>2, <4>3
    <3>7. CASE i # segment + 1
      <4>1. i \in 1 .. segment
        BY <3>7, <2>1
      <4>2. Footprint(t) \cap Footprint(s) = {}
        BY <2>7, <3>1, <3>7, <2>4 DEF WellFormed, s, t
      <4>3. Dest(t) + k \in Footprint(t)
        BY <3>2 DEF Footprint, Segment
      <4>4. ~(Dest(t) + k \in Dest(s) .. Dest(s) + s.memsz - 1)
        BY <4>2, <4>3 DEF Footprint
      <4>5. /\ ~(Dest(t) + k \in Dest(s) .. Dest(s) + s.filesz - 1)
            /\ ~(Dest(t) + k \in Dest(s) + s.filesz .. Dest(s) + s.memsz - 1)
        BY <4>4, <3>2, <3>3, <2>6 DEF Segment
      <4>6. mem'[Dest(t) + k] = mem[Dest(t) + k]
        BY <4>5, <3>5, <1>2 DEF Copied
      <4>7. InPlace(t)
        BY <4>1, <2>1, <2>7 DEF KernelInv, t
      <4> QED
        BY <4>6, <4>7 DEF InPlace, FirstLba
    <3> QED
      BY <3>6, <3>7
  <2>8. segment' \in 0 .. Len(kernel.segs)
    BY <1>2, <2>1, <2>4
  <2> QED
    BY <1>2, <2>1, <2>2, <2>7, <2>8 DEF KernelInv
<1> QED
  BY <1>1, <1>2 DEF LoadSegment

(* Between reading and entering it, nothing but the copying of segments    *)
(* touches the kernel.                                                     *)
LEMMA KernelStep ==
  HeapInv /\ StageInv /\ KernelInv /\ [Next]_vars => KernelInv'
PROOF
<1> SUFFICES ASSUME HeapInv, StageInv, KernelInv, [Next]_vars
             PROVE  KernelInv'
  OBVIOUS
<1> USE DEF Stamped, Handed
<1>1. ASSUME UNCHANGED <<machine, bundle, volume, kernel_buf, mem>>
      PROVE  /\ kernel' = kernel /\ FirstLba' = FirstLba /\ WellFormed' = WellFormed
             /\ \A seg : InPlace(seg)' = InPlace(seg)
  <2>1. kernel' = kernel /\ FirstLba' = FirstLba
    BY <1>1 DEF kernel, FirstLba, FirstBootable
  <2>2. WellFormed' = WellFormed
    BY <2>1 DEF WellFormed, InWindow, Footprint, Dest
  <2>3. \A seg : InPlace(seg)' = InPlace(seg)
    <3>1. mem' = mem /\ machine' = machine /\ FirstBootable' = FirstBootable
      BY <1>1 DEF FirstBootable
    <3> SUFFICES ASSUME NEW seg PROVE InPlace(seg)' = InPlace(seg)
      OBVIOUS
    <3> QED
      BY <2>1, <3>1, Zenon DEF InPlace
  <2> QED
    BY <2>1, <2>2, <2>3
<1>2. CASE UNCHANGED vars
  <2>1. pc' = pc /\ segment' = segment /\ UNCHANGED <<machine, bundle, volume, kernel_buf, mem>>
    BY <1>2 DEF vars, stage2Vars, kmainVars
  <2>2. /\ kernel' = kernel /\ FirstLba' = FirstLba /\ WellFormed' = WellFormed
        /\ \A seg : InPlace(seg)' = InPlace(seg)
    BY <1>1, <2>1
  <2>3. kernel_buf' = kernel_buf
    BY <2>1
  <2> QED
    BY <2>1, <2>2, <2>3 DEF KernelInv
<1>3. CASE RealMode
  <2>1. segment' = segment
    BY <1>3 DEF RealMode, kmainVars
  <2>2. pc \in {"start", "e820", "mbr", "load"} /\ pc' \in {"e820", "mbr", "load", "kmain", "halted"}
    BY <1>3 DEF RealMode, Stage2Step, Orchestrate, E820Next, FindPartition, DiskError, LoadChunk, StampBundle
  <2> QED
    BY <2>1, <2>2 DEF KernelInv
<1>4. CASE ReadKernel
  BY <1>4, ReadKernelStep
<1>5. CASE LoadSegment
  BY <1>5, LoadSegmentStep
<1>6. CASE Panic
  BY <1>6 DEF Panic, KernelInv
<1>7. CASE CheckBundle \/ ReadConfig
  <2>1. CASE pc \in Stamped /\ pc' \in Stamped /\ segment' = segment
    BY <2>1 DEF KernelInv
  <2> QED
    BY <1>6, <1>7, <2>1 DEF CheckBundle, ReadConfig
<1>8. CASE FulfillRequests \/ AddTable \/ EnterLongMode
  <2>1. CASE /\ pc \in Handed /\ pc' \in {"paging", "jumped"}
             /\ pc = "segments" => segment = Len(kernel.segs)
             /\ UNCHANGED <<stage2Vars, volume, kernel_buf, segment>>
    <3>1. UNCHANGED <<machine, bundle, volume, kernel_buf, mem>>
      BY <2>1 DEF stage2Vars
    <3>2. /\ kernel' = kernel /\ FirstLba' = FirstLba /\ WellFormed' = WellFormed
          /\ \A seg : InPlace(seg)' = InPlace(seg)
      BY <1>1, <3>1
    <3> QED
      BY <2>1, <3>2 DEF KernelInv
  <2> QED
    BY <1>6, <1>8, <2>1 DEF FulfillRequests, AddTable, EnterLongMode, kmainVars
<1> QED
  BY <1>2, <1>3, <1>4, <1>5, <1>7, <1>8 DEF Next, KmainStep, Stopped

(* From disk to jump: for every machine, volume and layout, a kernel whose *)
(* segments fit the window and do not overlap holds, when enter_long_mode  *)
(* is reached, the bytes of /kernel.elf on the boot partition.             *)
THEOREM KernelIsInPlace == Spec => []KernelInPlace
PROOF
<1> DEFINE IInv == HeapInv /\ StageInv /\ KernelInv
<1>1. Init => IInv
  BY DEF Init, Stage2Init, KmainInit, HeapInv, HeapSound, Block, StageInv, WalkInv, LoadInv,
         KernelInv, Phases, Stamped, Handed
<1>2. IInv /\ [Next]_vars => IInv'
  BY HeapStep, StageStep, KernelStep
<1>3. IInv => KernelInPlace
  <2> SUFFICES ASSUME HeapInv, KernelInv, pc = "jumped", WellFormed, NEW i \in DOMAIN kernel.segs
               PROVE  InPlace(kernel.segs[i])
    BY DEF KernelInPlace
  <2>1. kernel.segs \in Seq(Segment)
    BY VolumesAssumption DEF HeapInv, kernel, Segment
  <2> QED
    BY <2>1 DEF KernelInv, Handed
<1> QED
  BY <1>1, <1>2, <1>3, PTL DEF Spec

------------------------------------------------------------------------------
(***************************************************************************)
(* The direct map of paging.rs: for every memory map that the BIOS reports *)
(* and every size of a huge page, the page directories reach all usable    *)
(* memory below HHDM_MAX_BYTES.                                            *)
(***************************************************************************)
(* The numbers below the end of memory that the first `tables` tables map. *)
Reached(n) == \A a \in Nat : a < MaxPhys /\ a < (n - 6) * GiB => a \in mapped

HhdmInv ==
  /\ StageInv
  /\ tables \in Nat
  /\ pc \notin {"paging", "jumped"} => tables = 0 \/ pc = "panicked"
  /\ pc \in {"paging", "jumped"} => Reached(tables)
  /\ pc = "jumped" => tables = TablesNeeded

-----------------------------------------------------------------------------
(* A set of natural numbers has a least element. *)
LEMMA LeastNatural ==
  ASSUME NEW T, T \subseteq Nat, T # {}
  PROVE  \E x \in T : \A y \in T : x <= y
PROOF
<1> DEFINE R == OpToRel(<, Nat)
<1>1. IsWellFoundedOn(R, Nat)
  BY NatLessThanWellFounded
<1>2. \A x, y \in Nat : y < x => <<y, x>> \in R
  BY DEF OpToRel
<1> HIDE DEF R
<1>3. PICK x \in T : \A y \in T : ~(<<y, x>> \in R)
  BY <1>1, WFMin
<1>4. ASSUME NEW y \in T PROVE x <= y
  <2>1. x \in Nat /\ y \in Nat /\ ~(y < x)
    BY <1>2, <1>3, Zenon
  <2> QED
    BY <2>1
<1> QED
  BY <1>4

(* The end of the first n entries that are usable. *)
EndsOf(e820, n) == {e820[i].base + e820[i].length : i \in {j \in 0 .. n - 1 : e820[j].usable}}
HasMax(e820, n) == \E m \in EndsOf(e820, n) \cup {0} : \A e \in EndsOf(e820, n) : e <= m

(* However many entries there are, one of them ends last. *)
LEMMA MaxExists ==
  ASSUME NEW size \in Nat, NEW e820 \in [0 .. size - 1 -> E820Entry], NEW n \in 0 .. size
  PROVE  HasMax(e820, n)
PROOF
<1> DEFINE T == {k \in 0 .. size : ~HasMax(e820, k)}
<1>1. SUFFICES ASSUME T # {} PROVE FALSE
  OBVIOUS
<1>2. PICK k \in T : \A y \in T : k <= y
  <2>1. T \subseteq Nat
    OBVIOUS
  <2> HIDE DEF T
  <2> QED
    BY <1>1, <2>1, LeastNatural
<1>3. k \in 0 .. size /\ ~HasMax(e820, k)
  BY <1>2
<1>4. k # 0
  <2>1. EndsOf(e820, 0) = {}
    BY DEF EndsOf
  <2> QED
    BY <1>3, <2>1 DEF HasMax
<1>5. k - 1 \in 0 .. size - 1 /\ HasMax(e820, k - 1)
  <2>1. k - 1 \in 0 .. size /\ k - 1 \in 0 .. size - 1 /\ ~(k <= k - 1)
    BY <1>3, <1>4
  <2> QED
    BY <1>2, <2>1
<1> DEFINE last == e820[k - 1]
           end == last.base + last.length
<1>6. last \in E820Entry /\ end \in Nat
  BY <1>5 DEF E820Entry
<1>7. EndsOf(e820, k) = EndsOf(e820, k - 1) \cup (IF last.usable THEN {end} ELSE {})
  <2>1. 0 .. k - 1 = (0 .. k - 1 - 1) \cup {k - 1}
    BY <1>3, <1>4
  <2> QED
    BY <2>1 DEF EndsOf
<1>8. EndsOf(e820, k - 1) \subseteq Nat
  <2>1. \A i \in 0 .. k - 1 - 1 : e820[i] \in E820Entry
    BY <1>3
  <2> QED
    BY <2>1 DEF EndsOf, E820Entry
<1> HIDE DEF end, last
<1>9. PICK m \in EndsOf(e820, k - 1) \cup {0} : \A e \in EndsOf(e820, k - 1) : e <= m
  BY <1>5 DEF HasMax
<1>10. m \in Nat
  BY <1>8, <1>9
<1>11. CASE last.usable /\ end > m
  <2>1. \A e \in EndsOf(e820, k) : e <= end
    BY <1>6, <1>7, <1>8, <1>9, <1>10, <1>11
  <2>2. end \in EndsOf(e820, k)
    BY <1>7, <1>11
  <2> QED
    BY <1>3, <2>1, <2>2 DEF HasMax
<1>12. CASE ~(last.usable /\ end > m)
  <2>1. \A e \in EndsOf(e820, k) : e <= m
    BY <1>6, <1>7, <1>8, <1>9, <1>10, <1>12
  <2>2. m \in EndsOf(e820, k) \cup {0}
    BY <1>7, <1>9
  <2> QED
    BY <1>3, <2>1, <2>2 DEF HasMax
<1> QED
  BY <1>11, <1>12

(* max_physical_address is past every usable entry, up to HHDM_MAX_BYTES.  *)
LEMMA MaxPhysFacts ==
  ASSUME bundle \in BundleType
  PROVE  /\ MaxPhys \in Nat
         /\ \A i \in 0 .. bundle.e820_count - 1 :
              bundle.e820[i].usable =>
                bundle.e820[i].base + bundle.e820[i].length <= MaxPhys \/ HhdmMax <= MaxPhys
PROOF
<1> DEFINE e820 == bundle.e820
           n == bundle.e820_count
           max == CHOOSE m \in UsableEnds \cup {0} : \A e \in UsableEnds : e <= m
<1>1. e820 \in [0 .. MaxEntries - 1 -> E820Entry] /\ n \in 0 .. MaxEntries /\ MaxEntries \in Nat
  BY SizesAssumption DEF BundleType
<1>2. UsableEnds = EndsOf(e820, n)
  BY DEF UsableEnds, EndsOf
<1>3. HasMax(e820, n)
  BY <1>1, MaxExists
<1>4. max \in UsableEnds \cup {0} /\ \A e \in UsableEnds : e <= max
  <2>1. \E m \in UsableEnds \cup {0} : \A e \in UsableEnds : e <= m
    BY <1>2, <1>3 DEF HasMax
  <2> QED
    BY <2>1
<1>5. UsableEnds \subseteq Nat
  <2>1. \A i \in 0 .. n - 1 : e820[i] \in E820Entry
    BY <1>1
  <2> QED
    BY <1>2, <2>1 DEF EndsOf, E820Entry
<1>6. MaxPhys = IF max = 0 THEN GiB ELSE IF max > HhdmMax THEN HhdmMax ELSE max
  BY DEF MaxPhys
<1> HIDE DEF max
<1>7. max \in Nat
  BY <1>4, <1>5
<1>8. MaxPhys \in Nat /\ (max <= MaxPhys \/ HhdmMax <= MaxPhys)
  BY <1>6, <1>7, PagingAssumption
<1>9. ASSUME NEW i \in 0 .. n - 1, e820[i].usable
      PROVE  e820[i].base + e820[i].length <= MaxPhys \/ HhdmMax <= MaxPhys
  <2>1. e820[i].base + e820[i].length \in UsableEnds
    BY <1>2, <1>9 DEF EndsOf
  <2>2. e820[i].base + e820[i].length \in Nat /\ e820[i].base + e820[i].length <= max
    BY <1>4, <1>5, <2>1
  <2> QED
    BY <1>7, <1>8, <2>2
<1> QED
  BY <1>8, <1>9

-----------------------------------------------------------------------------
(* A rounded quotient, times the divisor, is not below the number. *)
LEMMA CeilingCovers ==
  ASSUME NEW x \in Nat, NEW d \in Nat \ {0}
  PROVE  /\ (x + d - 1) \div d \in Nat
         /\ x <= ((x + d - 1) \div d) * d
PROOF
<1> DEFINE q == (x + d - 1) \div d
<1>1. q \in Nat /\ x + d - 1 = q * d + ((x + d - 1) % d) /\ (x + d - 1) % d \in 0 .. d - 1
  OBVIOUS
<1>2. q * d \in Nat
  BY <1>1
<1> QED
  BY <1>1, <1>2

(* The huge pages of page directory i hold what memory there is in its     *)
(* GiB, the last, partly used huge page included.                          *)
LEMMA DirectoryCovers ==
  ASSUME MaxPhys \in Nat, NEW i \in Nat, NEW a \in Nat,
         i * GiB <= a, a < i * GiB + GiB, a < MaxPhys
  PROVE  a \in i * GiB .. i * GiB + PagesInPd(i) * HugePage - 1
PROOF
<1> DEFINE start == i * GiB
<1>0. GiB \in Nat \ {0} /\ HugePage \in Nat \ {0} /\ start \in Nat
  BY PagingAssumption
<1>1. CASE start + GiB <= MaxPhys
  <2>1. PagesInPd(i) * HugePage = GiB
    BY <1>1, PagingAssumption DEF PagesInPd
  <2> HIDE DEF start
  <2> QED
    BY <1>0, <2>1 DEF start
<1>2. CASE ~(start + GiB <= MaxPhys)
  <2> DEFINE rest == MaxPhys - start
             pages == (rest + HugePage - 1) \div HugePage
  <2>1. PagesInPd(i) = pages
    BY <1>2 DEF PagesInPd
  <2> HIDE DEF start
  <2>2. rest \in Nat
    BY <1>0 DEF start
  <2> HIDE DEF rest
  <2>3. pages \in Nat /\ rest <= pages * HugePage
    BY <1>0, <2>2, CeilingCovers
  <2> HIDE DEF pages
  <2>4. pages * HugePage \in Nat
    BY <1>0, <2>3
  <2>5. a < start + pages * HugePage
    BY <1>0, <2>2, <2>3, <2>4 DEF rest
  <2> QED
    BY <1>0, <2>1, <2>4, <2>5 DEF start
<1> QED
  BY <1>1, <1>2

(* With one directory more, one GiB more is reached. *)
LEMMA AddTableReaches ==
  ASSUME MaxPhys \in Nat, tables \in Nat, Reached(tables),
         mapped' = IF tables < 6 THEN mapped
                   ELSE LET i == tables - 6
                        IN  mapped \cup (i * GiB .. i * GiB + PagesInPd(i) * HugePage - 1),
         NEW a \in Nat, a < MaxPhys, a < (tables + 1 - 6) * GiB
  PROVE  a \in mapped'
PROOF
<1>0. GiB \in Nat \ {0}
  BY PagingAssumption
<1>1. tables >= 6
  <2> SUFFICES ASSUME tables < 6 PROVE FALSE
    OBVIOUS
  <2>1. 6 - (tables + 1) \in Nat
    OBVIOUS
  <2>2. (6 - (tables + 1)) * GiB \in Nat
    BY <1>0, <2>1
  <2>3. (tables + 1 - 6) * GiB = -((6 - (tables + 1)) * GiB)
    BY <1>0
  <2> QED
    BY <2>2, <2>3
<1> DEFINE i == tables - 6
<1>2. i \in Nat /\ (tables + 1 - 6) * GiB = i * GiB + GiB /\ i * GiB \in Nat
  BY <1>0, <1>1
<1>3. CASE a < i * GiB
  BY <1>1, <1>3 DEF Reached
<1>4. CASE ~(a < i * GiB)
  <2>1. i * GiB <= a /\ a < i * GiB + GiB
    BY <1>2, <1>4
  <2> HIDE DEF i
  <2>2. a \in i * GiB .. i * GiB + PagesInPd(i) * HugePage - 1
    BY <1>2, <2>1, DirectoryCovers
  <2> QED
    BY <1>1, <2>2 DEF i
<1> QED
  BY <1>3, <1>4

LEMMA HhdmStep == HhdmInv /\ [Next]_vars => HhdmInv'
PROOF
<1> SUFFICES ASSUME HhdmInv, [Next]_vars PROVE HhdmInv'
  OBVIOUS
<1>0. StageInv /\ StageInv' /\ tables \in Nat
  BY StageStep DEF HhdmInv
<1>m. ASSUME bundle' = bundle PROVE MaxPhys' = MaxPhys /\ TablesNeeded' = TablesNeeded
  BY <1>m DEF MaxPhys, UsableEnds, TablesNeeded, TotalGiB
<1>1. CASE UNCHANGED vars \/ Stopped
  BY <1>0, <1>1, <1>m DEF vars, stage2Vars, kmainVars, Stopped, HhdmInv, Reached
<1>2. CASE RealMode
  <2>1. tables' = tables /\ pc \notin {"paging", "jumped", "panicked"} /\ pc' \notin {"paging", "jumped"}
    BY <1>2 DEF RealMode, Stage2Step, kmainVars, Orchestrate, E820Next, FindPartition, DiskError,
       LoadChunk, StampBundle
  <2> QED
    BY <1>0, <2>1 DEF HhdmInv
<1>3. CASE Panic
  BY <1>0, <1>3 DEF Panic, kmainVars, HhdmInv
<1>4. CASE CheckBundle \/ ReadConfig \/ ReadKernel \/ LoadSegment
  <2>1. CASE Panic
    BY <1>3, <2>1
  <2>2. CASE tables' = tables /\ pc \notin {"paging", "jumped", "panicked"} /\ pc' \notin {"paging", "jumped"}
    BY <1>0, <2>2 DEF HhdmInv
  <2> QED
    BY <1>4, <2>1, <2>2 DEF CheckBundle, ReadConfig, ReadKernel, LoadSegment
<1>5. CASE FulfillRequests
  <2>1. CASE Panic
    BY <1>3, <2>1
  <2>2. CASE pc = "segments" /\ pc' = "paging" /\ tables' = tables
    <3>1. tables = 0
      BY <2>2 DEF HhdmInv
    <3>2. Reached(0)'
      <4>1. (0 - 6) * GiB = -(6 * GiB) /\ 6 * GiB \in Nat
        BY PagingAssumption
      <4> QED
        BY <4>1 DEF Reached
    <3> QED
      BY <1>0, <2>2, <3>1, <3>2 DEF HhdmInv, Reached
  <2> QED
    BY <1>5, <2>1, <2>2 DEF FulfillRequests
<1>6. CASE AddTable
  <2>1. CASE Panic
    BY <1>3, <2>1
  <2>2. CASE /\ pc = "paging" /\ pc' = pc /\ UNCHANGED stage2Vars /\ tables' = tables + 1
             /\ mapped' = IF tables < 6 THEN mapped
                          ELSE LET i == tables - 6
                               IN  mapped \cup (i * GiB .. i * GiB + PagesInPd(i) * HugePage - 1)
    <3>1. bundle \in BundleType /\ bundle' = bundle
      BY <1>0, <2>2 DEF StageInv, stage2Vars
    <3>2. MaxPhys \in Nat /\ MaxPhys' = MaxPhys
      BY <1>m, <3>1, MaxPhysFacts
    <3>3. Reached(tables)
      BY <2>2 DEF HhdmInv
    <3>4. \A a \in Nat : a < MaxPhys /\ a < (tables + 1 - 6) * GiB => a \in mapped'
      BY <1>0, <2>2, <3>2, <3>3, AddTableReaches
    <3>5. Reached(tables)'
      <4>1. tables' - 6 = tables + 1 - 6
        BY <1>0, <2>2
      <4> QED
        BY <3>2, <3>4, <4>1 DEF Reached
    <3> QED
      BY <1>0, <2>2, <3>5 DEF HhdmInv
  <2> QED
    BY <1>6, <2>1, <2>2 DEF AddTable
<1>7. CASE EnterLongMode
  <2>1. pc = "paging" /\ pc' = "jumped" /\ tables = TablesNeeded /\ tables' = tables /\ mapped' = mapped
        /\ bundle' = bundle
    BY <1>7 DEF EnterLongMode, stage2Vars, kmainVars
  <2> QED
    BY <1>0, <1>m, <2>1 DEF HhdmInv, Reached
<1> QED
  BY <1>1, <1>2, <1>4, <1>5, <1>6, <1>7 DEF Next, KmainStep

(* build_page_tables of paging.rs, for every answer of INT 15h: when the   *)
(* kernel is entered, the direct map holds every usable byte below         *)
(* HHDM_MAX_BYTES.                                                         *)
THEOREM HhdmIsWhole == Spec => []HhdmReachesUsable
PROOF
<1>1. Init => HhdmInv
  BY DEF Init, Stage2Init, KmainInit, HhdmInv, StageInv, WalkInv, LoadInv, Phases, Stamped, Handed
<1>2. HhdmInv => HhdmReachesUsable
  <2> SUFFICES ASSUME HhdmInv, pc = "jumped",
                      NEW k \in 0 .. bundle.e820_count - 1, bundle.e820[k].usable,
                      NEW a \in bundle.e820[k].base .. bundle.e820[k].base + bundle.e820[k].length - 1,
                      a < HhdmMax
               PROVE  a \in mapped
    BY DEF HhdmReachesUsable
  <2>1. bundle \in BundleType
    BY DEF HhdmInv, StageInv
  <2>2. MaxPhys \in Nat
        /\ (bundle.e820[k].base + bundle.e820[k].length <= MaxPhys \/ HhdmMax <= MaxPhys)
    BY <2>1, MaxPhysFacts
  <2>3. bundle.e820[k] \in E820Entry
    BY <2>1, SizesAssumption DEF BundleType
  <2>4. a \in Nat /\ a < MaxPhys
    BY <2>2, <2>3, PagingAssumption DEF E820Entry
  <2>5. TotalGiB \in Nat /\ MaxPhys <= TotalGiB * GiB
    BY <2>2, CeilingCovers, PagingAssumption DEF TotalGiB
  <2>6. tables - 6 = TotalGiB
    BY <2>5 DEF HhdmInv, TablesNeeded
  <2>7. TotalGiB * GiB \in Nat
    BY <2>5, PagingAssumption
  <2>8. a < (tables - 6) * GiB
    BY <2>2, <2>4, <2>5, <2>6, <2>7
  <2> QED
    BY <2>4, <2>8 DEF HhdmInv, Reached
<1> QED
  BY <1>1, <1>2, HhdmStep, PTL DEF Spec
==============================================================================
