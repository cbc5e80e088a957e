----------------------------- MODULE PmmProofs -----------------------------
(***************************************************************************)
(* Proofs about Pmm, for every page size, address space, firmware map and  *)
(* sequence of calls.                                                      *)
(***************************************************************************)
EXTENDS Pmm, SequenceTheorems, TLAPS

(* A remainder is not above the number divided. *)
LEMMA ModBounds ==
  ASSUME NEW v \in Nat, NEW p \in Nat \ {0}
  PROVE  v % p \in Nat /\ v % p <= v
  OBVIOUS

(* align_down never raises an address. *)
LEMMA AlignDownBounds ==
  ASSUME NEW v \in Nat
  PROVE  AlignDown(v) \in Nat /\ AlignDown(v) <= v
  BY PageSizeAssumption, ModBounds DEF AlignDown

(* align_up yields an address, wrapped at the end of the address space. *)
LEMMA AlignUpType ==
  ASSUME NEW v \in U64
  PROVE  AlignUp(v) \in U64
  <1>1. (v + PAGE_SIZE - 1) \in Nat
    BY PageSizeAssumption DEF U64
  <1>2. (v + PAGE_SIZE - 1) % AddrSpace \in U64
    BY <1>1, AddrSpaceAssumption DEF U64
  <1> QED BY <1>2, AlignDownBounds, AddrSpaceAssumption DEF AlignUp, U64

(* end() is an address. *)
LEMMA EndType ==
  ASSUME NEW r \in Region
  PROVE  End(r) \in U64 /\ r.base <= End(r)
  BY AddrSpaceAssumption DEF End, SaturatingAdd, Smaller, Region, U64

(* The end of a region below the top of the address space does not saturate. *)
LEMMA BlockEnd ==
  ASSUME NEW r \in Block
  PROVE  r \in Region /\ End(r) = r.base + r.length
  BY AddrSpaceAssumption DEF End, SaturatingAdd, Smaller, Region, Block, U64

(* The piece between two addresses is a region. *)
LEMMA PieceType ==
  ASSUME NEW b \in U64, NEW e \in U64, b <= e, NEW t \in MemoryType
  PROVE  Piece(b, e, t) \in Block
  BY AddrSpaceAssumption DEF Piece, Block, Region, U64

(* The page-aligned part of a firmware entry is a region. *)
LEMMA AlignedType ==
  ASSUME NEW r \in Region
  PROVE  Aligned(r) \in Block
  <1>1. AlignUp(r.base) \in U64
    BY AlignUpType DEF Region
  <1>2. AlignDown(End(r)) \in U64
    BY EndType, AlignDownBounds, AddrSpaceAssumption DEF U64
  <1>3. CASE AlignDown(End(r)) <= AlignUp(r.base)
    BY <1>3, AddrSpaceAssumption DEF Aligned, Block, Region, U64
  <1>4. CASE ~(AlignDown(End(r)) <= AlignUp(r.base))
    <2>1. AlignUp(r.base) <= AlignDown(End(r))
      BY <1>1, <1>2, <1>4 DEF U64
    <2>2. Piece(AlignUp(r.base), AlignDown(End(r)), r.type) \in Block
      BY <1>1, <1>2, <2>1, PieceType DEF Region
    <2> QED BY <1>4, <2>2 DEF Aligned
  <1> QED BY <1>3, <1>4

(* What lies before an overlap is at most one region. *)
LEMMA BeforeType ==
  ASSUME NEW r \in Region, NEW s \in Region
  PROVE  Before(r, s) \in Seq(Block)
  <1>1. CASE r.base < s.base
    <2>1. Piece(r.base, s.base, r.type) \in Block
      BY <1>1, PieceType DEF Region, U64
    <2> QED BY <1>1, <2>1 DEF Before
  <1>2. CASE ~(r.base < s.base)
    BY <1>2 DEF Before
  <1> QED BY <1>1, <1>2

(* What lies after an overlap is at most one region. *)
LEMMA AfterType ==
  ASSUME NEW r \in Region, NEW s \in Region
  PROVE  After(r, s) \in Seq(Block)
  <1>1. CASE End(r) > End(s)
    <2>1. Piece(End(s), End(r), r.type) \in Block
      BY <1>1, EndType, PieceType DEF Region, U64
    <2> QED BY <1>1, <2>1 DEF After
  <1>2. CASE ~(End(r) > End(s))
    BY <1>2 DEF After
  <1> QED BY <1>1, <1>2

(* Replacing an element of a list of blocks by blocks gives a list of blocks. *)
LEMMA SpliceType ==
  ASSUME NEW s \in Seq(Block), NEW k \in 1 .. Len(s), NEW t \in Seq(Block)
  PROVE  Splice(s, k, t) \in Seq(Block)
  BY DEF Splice

(* from_e820 yields a memory type. *)
LEMMA FromE820Type ==
  ASSUME NEW n \in Nat
  PROVE  FromE820(n) \in MemoryType
  BY DEF FromE820, MemoryType

(* The middle part that mark_region pushes has a non-negative length. *)
LEMMA RemarkedType ==
  ASSUME NEW r \in Block, new \in Region
  PROVE  Remarked(r) \in Seq(Block)
  <1>r. r \in Region
    BY BlockEnd
  <1>1. CASE End(new) <= r.base \/ new.base >= End(r)
    BY <1>1 DEF Remarked
  <1>2. CASE ~(End(new) <= r.base \/ new.base >= End(r))
    <2> DEFINE b == Larger(new.base, r.base)
               e == Smaller(End(new), End(r))
    <2>1. b \in U64 /\ e \in U64 /\ b <= e
      BY <1>r, <1>2, EndType DEF Larger, Smaller, Region, U64
    <2>2. <<Piece(b, e, new.type)>> \in Seq(Block)
      BY <2>1, PieceType DEF Region
    <2>3. Before(r, new) \in Seq(Block) /\ After(r, new) \in Seq(Block)
      BY <1>r, BeforeType, AfterType
    <2>4. Before(r, new) \o <<Piece(b, e, new.type)>> \o After(r, new) \in Seq(Block)
      BY <2>2, <2>3
    <2> QED BY <1>2, <2>4 DEF Remarked
  <1> QED BY <1>1, <1>2

(* The block that allocate_pages picks lies in its region, below alloc_top. *)
LEMMA AllocBaseBounds ==
  ASSUME TypeOK, NEW size \in Nat, NEW k \in Candidates(size)
  PROVE  /\ k \in 1 .. Len(regions)
         /\ regions[k] \in Block
         /\ AllocBase(k, size) \in U64
         /\ regions[k].base <= AllocBase(k, size)
         /\ AllocBase(k, size) + size <= End(regions[k])
         /\ AllocBase(k, size) + size <= alloc_top
  <1>1. k \in 1 .. Len(regions) /\ regions[k] \in Block
    BY DEF TypeOK, Candidates
  <1>2. regions[k] \in Region /\ End(regions[k]) \in U64
    BY <1>1, BlockEnd, EndType
  <1>3. RegionEnd(k) \in U64 /\ RegionEnd(k) <= End(regions[k]) /\ RegionEnd(k) <= alloc_top
    BY <1>2 DEF RegionEnd, Smaller, TypeOK, U64
  <1>4. RegionEnd(k) - size \in Nat
    BY <1>3 DEF Candidates, U64
  <1>5. AllocBase(k, size) \in Nat /\ AllocBase(k, size) <= RegionEnd(k) - size
    BY <1>4, AlignDownBounds DEF AllocBase
  <1>6. regions[k].base <= AllocBase(k, size)
    BY <1>2, <1>5 DEF Candidates, Region, U64
  <1> QED BY <1>1, <1>2, <1>3, <1>5, <1>6, AddrSpaceAssumption DEF U64, TypeOK

(* allocate_pages replaces a region by regions. *)
LEMMA CarveType ==
  ASSUME NEW r \in Block, NEW b \in U64, NEW size \in Nat,
         r.base <= b, b + size <= End(r)
  PROVE  Carve(r, b, size) \in Seq(Block)
  <1> DEFINE block == Piece(b, b + size, "BootloaderReclaimable")
  <1>1. r \in Region /\ End(r) \in U64
    BY BlockEnd, EndType
  <1>2. b + size \in U64 /\ b <= b + size
    BY <1>1, AddrSpaceAssumption DEF U64
  <1>3. "BootloaderReclaimable" \in MemoryType
    BY DEF MemoryType
  <1>4. block \in Block
    BY <1>2, <1>3, PieceType
  <1>5. block \in Region
    BY <1>4, BlockEnd
  <1>6. Before(r, block) \in Seq(Block) /\ After(r, block) \in Seq(Block)
    BY <1>1, <1>5, BeforeType, AfterType
  <1>7. Before(r, block) \o <<block>> \o After(r, block) \in Seq(Block)
    BY <1>4, <1>6
  <1> QED BY <1>7 DEF Carve

(* merge_adjacent joins two blocks that touch into one. *)
LEMMA JoinedType ==
  ASSUME NEW r \in Block, NEW s \in Block, End(r) = s.base
  PROVE  [r EXCEPT !.length = @ + s.length] \in Block
  <1>1. /\ r.base \in U64 /\ r.length \in U64 /\ s.base \in U64 /\ s.length \in U64
        /\ s.base + s.length \in U64 /\ r \in Region
    BY DEF Block, Region
  <1>2. r.base + r.length = s.base
    BY BlockEnd
  <1>3. r.base + (r.length + s.length) = s.base + s.length /\ r.length + s.length \in U64
    BY <1>1, <1>2, AddrSpaceAssumption DEF U64
  <1> QED BY <1>1, <1>3 DEF Block, Region

-----------------------------------------------------------------------------
(* Pmm::new starts well typed. *)
LEMMA InitType == Init => TypeOK
  <1> SUFFICES ASSUME Init PROVE TypeOK
    OBVIOUS
  <1>1. PICK m \in RawMaps :
          raw = [k \in DOMAIN m |-> [base |-> m[k].base, length |-> m[k].length,
                                     type |-> FromE820(m[k].e820)]]
    BY DEF Init
  <1>2. m \in Seq(RawEntry)
    BY RawMapsAssumption
  <1>3. \A k \in DOMAIN m : m[k] \in RawEntry
    BY <1>2
  <1>4. \A k \in DOMAIN m : [base |-> m[k].base, length |-> m[k].length,
                              type |-> FromE820(m[k].e820)] \in Region
    BY <1>3, FromE820Type DEF RawEntry, Region
  <1>5. raw \in Seq(Region)
    BY <1>1, <1>2, <1>4
  <1>6. new \in Region
    BY AddrSpaceAssumption DEF Init, Region, U64, MemoryType
  <1> QED BY <1>5, <1>6, AddrSpaceAssumption, MaxOpsAssumption DEF Init, TypeOK, U64

(* Every step of the manager keeps the types. *)
LEMMA NextType == TypeOK /\ [Next]_vars => TypeOK'
  <1> SUFFICES ASSUME TypeOK, [Next]_vars PROVE TypeOK'
    OBVIOUS
  <1>n. new \in Region
    BY BlockEnd DEF TypeOK
  <1>r. \A k \in 1 .. Len(regions) : regions[k] \in Block /\ regions[k] \in Region
    BY BlockEnd DEF TypeOK
  <1>1. CASE NextEntry
    <2>1. PICK k \in todo : new' = Aligned(raw[k]) /\ todo' = todo \ {k}
      BY <1>1 DEF NextEntry
    <2>2. raw[k] \in Region
      BY <2>1 DEF TypeOK
    <2>3. new' \in Block /\ new' \in Region
      BY <2>1, <2>2, AlignedType, BlockEnd
    <2> QED BY <1>1, <2>1, <2>3 DEF NextEntry, TypeOK
  <1>2. CASE NoOverlapHere
    BY <1>2 DEF NoOverlapHere, TypeOK
  <1>3. CASE NewWins
    <2>1. i \in 1 .. Len(regions)
      BY <1>3 DEF NewWins, TypeOK
    <2>2. Before(regions[i], new) \in Seq(Block) /\ After(regions[i], new) \in Seq(Block)
      BY <1>n, <1>r, <2>1, BeforeType, AfterType
    <2>3. Before(regions[i], new) \o After(regions[i], new) \in Seq(Block)
      BY <2>2
    <2>4. regions' \in Seq(Block)
      BY <1>3, <2>1, <2>3, SpliceType DEF NewWins, TypeOK
    <2>5. i' \in Nat \ {0}
      BY <1>3, <2>1, <2>2 DEF NewWins
    <2> QED BY <1>3, <2>4, <2>5 DEF NewWins, TypeOK
  <1>4. CASE ExistingWins
    <2>1. i \in 1 .. Len(regions)
      BY <1>4 DEF ExistingWins, TypeOK
    <2>2. Before(new, regions[i]) \in Seq(Block) /\ After(new, regions[i]) \in Seq(Block)
      BY <1>n, <1>r, <2>1, BeforeType, AfterType
    <2>3. out' \in Seq(Block)
      BY <1>4, <2>2 DEF ExistingWins
    <2> QED BY <1>4, <1>n, <2>3 DEF ExistingWins, TypeOK
  <1>5. CASE NoneWins
    <2>1. new \in Block
      BY <1>5 DEF NoneWins, TypeOK
    <2> QED BY <1>5, <1>n, <2>1 DEF NoneWins, TypeOK
  <1>6. CASE InsertPiece
    <2>1. CASE out = <<>>
      BY <1>6, <2>1, <1>n DEF InsertPiece, TypeOK
    <2>2. CASE out # <<>>
      <3>1. PICK p \in SortedPositions(regions, Head(out)) :
              regions' = SubSeq(regions, 1, p - 1) \o <<Head(out)>>
                           \o SubSeq(regions, p, Len(regions))
        BY <1>6, <2>2 DEF InsertPiece
      <3>2. Head(out) \in Block /\ Tail(out) \in Seq(Block)
        BY <2>2 DEF TypeOK
      <3>3. p \in 1 .. Len(regions) + 1
        BY DEF SortedPositions
      <3>4. SubSeq(regions, 1, p - 1) \in Seq(Block) /\ SubSeq(regions, p, Len(regions)) \in Seq(Block)
        BY <3>3 DEF TypeOK
      <3>5. regions' \in Seq(Block)
        BY <3>1, <3>2, <3>4
      <3> QED BY <1>6, <1>n, <2>2, <3>2, <3>5 DEF InsertPiece, TypeOK
    <2> QED BY <2>1, <2>2
  <1>7. CASE StartMerge
    BY <1>7 DEF StartMerge, TypeOK
  <1>8. CASE MergeStep
    <2> DEFINE r == regions[i]
               s == regions[i + 1]
    <2>1. i \in 1 .. Len(regions) /\ i + 1 \in 1 .. Len(regions) /\ r \in Block /\ s \in Block
      BY <1>8, <1>r DEF MergeStep, TypeOK
    <2>2. CASE r.type = s.type /\ End(r) = s.base
      <3> DEFINE joined == [r EXCEPT !.length = @ + s.length]
      <3>2. joined \in Block
        BY <2>1, <2>2, JoinedType
      <3>3. Splice(regions, i, <<>>) \in Seq(Block)
        <4>1. <<>> \in Seq(Block)
          OBVIOUS
        <4> QED BY <2>1, <4>1, SpliceType DEF TypeOK
      <3>4. Len(Splice(regions, i, <<>>)) = Len(regions) - 1
        BY <2>1 DEF Splice, TypeOK
      <3>5. i \in 1 .. Len(Splice(regions, i, <<>>))
        BY <2>1, <3>4 DEF TypeOK
      <3>6. regions' = Splice(Splice(regions, i, <<>>), i, <<joined>>) /\ i' = i
        BY <1>8, <2>2 DEF MergeStep
      <3>7. <<joined>> \in Seq(Block)
        BY <3>2
      <3>8. regions' \in Seq(Block)
        BY <3>3, <3>5, <3>6, <3>7, SpliceType
      <3> QED BY <1>8, <3>6, <3>8 DEF MergeStep, TypeOK
    <2>3. CASE ~(r.type = s.type /\ End(r) = s.base)
      <3>1. regions' = regions /\ i' = i + 1
        BY <1>8, <2>3 DEF MergeStep
      <3> QED BY <1>8, <3>1 DEF MergeStep, TypeOK
    <2> QED BY <2>2, <2>3
  <1>9. CASE FinishNew
    <2>1. alloc_top' \in UsableEnds \cup {0}
      BY <1>9 DEF FinishNew
    <2>2. \A e \in UsableEnds : e \in U64
      BY <1>r, EndType DEF UsableEnds, TypeOK
    <2>3. alloc_top' \in U64
      BY <2>1, <2>2, AddrSpaceAssumption DEF U64
    <2> QED BY <1>9, <1>n, <2>3 DEF FinishNew, TypeOK
  <1>10. ASSUME NEW count \in Counts, allocate_pages(count) PROVE TypeOK'
    <2> DEFINE size == count * PAGE_SIZE
    <2>1. size \in Nat
      BY CountsAssumption, PageSizeAssumption
    <2>2. ops' \in 0 .. MaxOps
      BY <1>10, MaxOpsAssumption DEF allocate_pages, TypeOK
    <2>3. CASE UNCHANGED <<regions, alloc_top, allocs>>
      BY <1>10, <2>2, <2>3 DEF allocate_pages, TypeOK
    <2>4. CASE ~UNCHANGED <<regions, alloc_top, allocs>>
      <3>1. size < AddrSpace
        BY <1>10, <2>4 DEF allocate_pages
      <3>2. PICK k \in Candidates(size) :
              /\ regions' = Splice(regions, k, Carve(regions[k], AllocBase(k, size), size))
              /\ alloc_top' = AllocBase(k, size)
              /\ allocs' = Append(allocs, [base |-> AllocBase(k, size), size |-> size])
        BY <1>10, <2>4 DEF allocate_pages
      <3> HIDE DEF size
      <3>3. /\ k \in 1 .. Len(regions)
            /\ regions[k] \in Block
            /\ AllocBase(k, size) \in U64
            /\ regions[k].base <= AllocBase(k, size)
            /\ AllocBase(k, size) + size <= End(regions[k])
        BY <2>1, AllocBaseBounds
      <3>4. Carve(regions[k], AllocBase(k, size), size) \in Seq(Block)
        BY <2>1, <3>3, CarveType
      <3>5. regions' \in Seq(Block)
        BY <3>2, <3>3, <3>4, SpliceType DEF TypeOK
      <3>6. size \in U64
        BY <2>1, <3>1, AddrSpaceAssumption DEF U64
      <3>7. allocs' \in Seq(Allocation)
        BY <3>2, <3>3, <3>6 DEF TypeOK, Allocation
      <3> QED BY <1>10, <2>2, <3>2, <3>3, <3>5, <3>7 DEF allocate_pages, TypeOK
    <2> QED BY <2>3, <2>4
  <1>11. ASSUME NEW m \in Marks, mark_region(m) PROVE TypeOK'
    BY <1>11, MarksAssumption, MaxOpsAssumption DEF mark_region, TypeOK
  <1>12. CASE MarkStep
    <2>1. i \in 1 .. Len(regions)
      BY <1>12 DEF MarkStep, TypeOK
    <2>2. Remarked(regions[i]) \in Seq(Block)
      BY <1>n, <1>r, <2>1, RemarkedType
    <2>3. out' \in Seq(Block)
      BY <1>12, <2>2 DEF MarkStep, TypeOK
    <2> QED BY <1>12, <2>3 DEF MarkStep, TypeOK
  <1>13. CASE MarkDone
    BY <1>13 DEF MarkDone, TypeOK
  <1>14. CASE Idle \/ UNCHANGED vars
    BY <1>14 DEF Idle, vars, TypeOK
  <1> QED
    BY <1>1, <1>2, <1>3, <1>4, <1>5, <1>6, <1>7, <1>8, <1>9, <1>10, <1>11, <1>12, <1>13, <1>14
    DEF Next

(* No arithmetic of pmm.rs leaves the u64 range: every region ever built   *)
(* has its base, its length and its end among the addresses, for every     *)
(* firmware map and every sequence of calls.                               *)
THEOREM TypeCorrect == Spec => []TypeOK
  BY InitType, NextType, PTL DEF Spec

-----------------------------------------------------------------------------
(* The inductive form: nothing is allocated before Pmm::new has computed   *)
(* alloc_top.                                                              *)
AllocInv == AllocationsDescend /\ (~built => allocs = <<>>)

(* Allocations: alloc_top only descends, and each block ends at or below   *)
(* the alloc_top that the previous one left.                               *)
LEMMA AllocStep ==
  ASSUME TypeOK, AllocationsDescend, NEW count \in Counts, allocate_pages(count)
  PROVE  AllocationsDescend'
  <1> DEFINE size == count * PAGE_SIZE
  <1>1. size \in Nat
    BY CountsAssumption, PageSizeAssumption
  <1>2. CASE UNCHANGED <<regions, alloc_top, allocs>>
    BY <1>2 DEF AllocationsDescend
  <1>3. CASE ~UNCHANGED <<regions, alloc_top, allocs>>
    <2>1. size > 0
      BY <1>3 DEF allocate_pages
    <2>2. PICK k \in Candidates(size) :
            /\ alloc_top' = AllocBase(k, size)
            /\ allocs' = Append(allocs, [base |-> AllocBase(k, size), size |-> size])
      BY <1>3 DEF allocate_pages
    <2> HIDE DEF size
    <2>3. AllocBase(k, size) \in U64 /\ AllocBase(k, size) + size <= alloc_top
      BY <1>1, AllocBaseBounds
    <2> DEFINE n == Len(allocs)
    <2>4. /\ n \in Nat
          /\ DOMAIN allocs = 1 .. n
          /\ DOMAIN allocs' = 1 .. n + 1
          /\ \A j \in 1 .. n : allocs'[j] = allocs[j] /\ allocs[j].base \in Nat
          /\ allocs'[n + 1] = [base |-> AllocBase(k, size), size |-> size]
      <3>1. allocs \in Seq(Allocation)
        BY DEF TypeOK
      <3>2. /\ n \in Nat
            /\ DOMAIN allocs = 1 .. n
            /\ \A j \in 1 .. n : allocs[j] \in Allocation
        BY <3>1
      <3>3. \A j \in 1 .. n : allocs[j].base \in Nat
        BY <3>2, AddrSpaceAssumption DEF Allocation, U64
      <3>4. /\ DOMAIN allocs' = 1 .. n + 1
            /\ \A j \in 1 .. n : allocs'[j] = allocs[j]
            /\ allocs'[n + 1] = [base |-> AllocBase(k, size), size |-> size]
        BY <2>2, <3>1, <3>2
      <3> QED BY <3>2, <3>3, <3>4
    <2>5. \A j \in 1 .. n : alloc_top <= allocs[j].base /\ allocs[j].size > 0
      BY <2>4 DEF AllocationsDescend
    <2>6. alloc_top \in Nat /\ AllocBase(k, size) \in Nat
      BY <2>3 DEF TypeOK, U64
    <2> HIDE DEF n
    <2>7. \A j \in DOMAIN allocs' : alloc_top' <= allocs'[j].base /\ allocs'[j].size > 0
      BY <1>1, <2>1, <2>2, <2>3, <2>4, <2>5, <2>6
    <2>8. \A j, m \in DOMAIN allocs' :
            j < m => allocs'[m].base + allocs'[m].size <= allocs'[j].base
      <3> SUFFICES ASSUME NEW j \in 1 .. n + 1, NEW m \in 1 .. n + 1, j < m
                   PROVE  allocs'[m].base + allocs'[m].size <= allocs'[j].base
        BY <2>4
      <3>1. CASE m = n + 1
        <4>1. j \in 1 .. n
          BY <2>4, <3>1
        <4> QED BY <1>1, <2>3, <2>4, <2>5, <2>6, <3>1, <4>1
      <3>2. CASE m # n + 1
        <4>1. j \in 1 .. n /\ m \in 1 .. n
          BY <2>4, <3>2
        <4> QED BY <2>4, <4>1 DEF AllocationsDescend
      <3> QED BY <3>1, <3>2
    <2> QED BY <2>7, <2>8 DEF AllocationsDescend
  <1> QED BY <1>2, <1>3

(* No page is handed out twice: the blocks of successive calls of          *)
(* allocate_pages descend and are disjoint, even when mark_region makes    *)
(* an allocated range Usable again and when normalisation left overlaps.   *)
THEOREM AllocationsDisjoint == Spec => []AllocationsDescend
  <1>1. Init => AllocInv
    BY DEF Init, AllocInv, AllocationsDescend
  <1>2. TypeOK /\ AllocInv /\ [Next]_vars => AllocInv'
    <2> SUFFICES ASSUME TypeOK, AllocInv, [Next]_vars PROVE AllocInv'
      OBVIOUS
    <2> USE DEF AllocInv
    <2>1. ASSUME NEW count \in Counts, allocate_pages(count) PROVE AllocInv'
      <3>1. AllocationsDescend'
        BY <2>1, AllocStep
      <3>2. built'
        BY <2>1 DEF allocate_pages, built
      <3> QED BY <3>1, <3>2
    <2>2. CASE FinishNew
      <3>1. allocs = <<>> /\ allocs' = <<>>
        BY <2>2 DEF FinishNew, built
      <3> QED BY <3>1 DEF AllocationsDescend
    <2>3. CASE UNCHANGED <<allocs, alloc_top>> /\ (built => built')
      BY <2>3 DEF AllocationsDescend
    <2>4. \/ \E count \in Counts : allocate_pages(count)
          \/ FinishNew
          \/ UNCHANGED <<allocs, alloc_top>> /\ (built => built')
      BY DEF Next, vars, NextEntry, NoOverlapHere, NewWins, ExistingWins, NoneWins, InsertPiece,
             StartMerge, MergeStep, mark_region, MarkStep, MarkDone, Idle, built
    <2> QED BY <2>1, <2>2, <2>3, <2>4
  <1>3. AllocInv => AllocationsDescend
    BY DEF AllocInv
  <1> QED BY <1>1, <1>2, <1>3, TypeCorrect, PTL DEF Spec

-----------------------------------------------------------------------------
(* Lists of blocks inside an interval, and how they concatenate.           *)
Within(s, lo, hi) == \A k \in DOMAIN s : lo <= s[k].base /\ End(s[k]) <= hi

(* A region starts no later than it ends, and both are addresses. *)
LEMMA BlockOrder ==
  ASSUME NEW r \in Block
  PROVE  /\ r.base \in Nat /\ End(r) \in Nat /\ r.base <= End(r)
         /\ r.type \in MemoryType /\ r.base \in U64 /\ End(r) \in U64
  BY BlockEnd, EndType, AddrSpaceAssumption DEF Block, Region, U64

(* Sorted lists one after the other are sorted when the first ends before the second begins. *)
LEMMA ConcatSorted ==
  ASSUME NEW s \in Seq(Block), NEW t \in Seq(Block),
         NEW lo \in Nat, NEW mid \in Nat, NEW hi \in Nat, lo <= mid, mid <= hi,
         SortedDisjoint(s), SortedDisjoint(t), Within(s, lo, mid), Within(t, mid, hi)
  PROVE  /\ s \o t \in Seq(Block)
         /\ SortedDisjoint(s \o t)
         /\ Within(s \o t, lo, hi)
  <1> DEFINE u == s \o t
  <1>1. u \in Seq(Block) /\ DOMAIN u = 1 .. Len(s) + Len(t)
    OBVIOUS
  <1>2. \A k \in 1 .. Len(s) : u[k] = s[k] /\ s[k] \in Block
    OBVIOUS
  <1>3. \A k \in 1 .. Len(s) + Len(t) : k > Len(s) => u[k] = t[k - Len(s)] /\ k - Len(s) \in 1 .. Len(t)
    OBVIOUS
  <1>4. \A k \in 1 .. Len(t) : t[k] \in Block
    OBVIOUS
  <1>5. DOMAIN s = 1 .. Len(s) /\ DOMAIN t = 1 .. Len(t) /\ Len(s) \in Nat /\ Len(t) \in Nat
    OBVIOUS
  <1>6. \A k \in 1 .. Len(s) : lo <= s[k].base /\ s[k].base <= End(s[k]) /\ End(s[k]) <= mid
                               /\ s[k].base \in Nat /\ End(s[k]) \in Nat
    BY <1>2, <1>5, BlockOrder DEF Within
  <1>7. \A k \in 1 .. Len(t) : mid <= t[k].base /\ t[k].base <= End(t[k]) /\ End(t[k]) <= hi
                               /\ t[k].base \in Nat /\ End(t[k]) \in Nat
    BY <1>4, <1>5, BlockOrder DEF Within
  <1> HIDE DEF u
  <1>8. SortedDisjoint(u)
    <2> SUFFICES ASSUME NEW j \in 1 .. Len(s) + Len(t), NEW k \in 1 .. Len(s) + Len(t), j < k
                 PROVE  End(u[j]) <= u[k].base
      BY <1>1 DEF SortedDisjoint
    <2>1. CASE k <= Len(s)
      <3>1. j \in 1 .. Len(s) /\ k \in 1 .. Len(s)
        BY <1>5, <2>1
      <3> QED BY <1>2, <1>5, <3>1 DEF SortedDisjoint
    <2>2. CASE j <= Len(s) /\ k > Len(s)
      <3>1. j \in 1 .. Len(s) /\ u[j] = s[j] /\ u[k] = t[k - Len(s)] /\ k - Len(s) \in 1 .. Len(t)
        BY <1>2, <1>3, <1>5, <2>2
      <3>2. End(s[j]) <= mid /\ mid <= t[k - Len(s)].base /\ End(s[j]) \in Nat /\ t[k - Len(s)].base \in Nat
        BY <1>6, <1>7, <3>1
      <3> QED BY <3>1, <3>2
    <2>3. CASE j > Len(s)
      <3>1. /\ u[j] = t[j - Len(s)] /\ j - Len(s) \in 1 .. Len(t)
            /\ u[k] = t[k - Len(s)] /\ k - Len(s) \in 1 .. Len(t) /\ j - Len(s) < k - Len(s)
        BY <1>3, <1>5, <2>3
      <3> QED BY <1>5, <3>1 DEF SortedDisjoint
    <2> QED BY <1>5, <2>1, <2>2, <2>3
  <1>9. Within(u, lo, hi)
    <2> SUFFICES ASSUME NEW k \in 1 .. Len(s) + Len(t)
                 PROVE  lo <= u[k].base /\ End(u[k]) <= hi
      BY <1>1 DEF Within
    <2>1. CASE k <= Len(s)
      <3>1. k \in 1 .. Len(s)
        BY <1>5, <2>1
      <3> QED BY <1>2, <1>6, <3>1
    <2>2. CASE k > Len(s)
      <3>1. u[k] = t[k - Len(s)] /\ k - Len(s) \in 1 .. Len(t)
        BY <1>3, <2>2
      <3> QED BY <1>7, <3>1
    <2> QED BY <1>5, <2>1, <2>2
  <1> QED BY <1>1, <1>8, <1>9 DEF u

(* A single region is a sorted list. *)
LEMMA PieceSorted ==
  ASSUME NEW b \in U64, NEW e \in U64, b <= e, NEW t \in MemoryType
  PROVE  /\ <<Piece(b, e, t)>> \in Seq(Block)
         /\ SortedDisjoint(<<Piece(b, e, t)>>)
         /\ Within(<<Piece(b, e, t)>>, b, e)
  <1>1. Piece(b, e, t) \in Block
    BY PieceType
  <1>2. Piece(b, e, t).base = b /\ End(Piece(b, e, t)) = e
    BY <1>1, BlockEnd DEF Piece, U64
  <1> QED BY <1>1, <1>2 DEF SortedDisjoint, Within, U64

(* The empty list is sorted. *)
LEMMA EmptySorted ==
  ASSUME NEW lo, NEW hi
  PROVE  <<>> \in Seq(Block) /\ SortedDisjoint(<<>>) /\ Within(<<>>, lo, hi)
  BY DEF SortedDisjoint, Within

(* The part before an overlap is sorted. *)
LEMMA BeforeSorted ==
  ASSUME NEW r \in Block, NEW b \in U64, r.base <= b, NEW s, s.base = b
  PROVE  Before(r, s) \in Seq(Block) /\ SortedDisjoint(Before(r, s)) /\ Within(Before(r, s), r.base, b)
  <1>1. CASE r.base < b
    BY <1>1, BlockOrder, PieceSorted DEF Before
  <1>2. CASE ~(r.base < b)
    BY <1>2, EmptySorted DEF Before
  <1> QED BY <1>1, <1>2

(* The part after an overlap is sorted. *)
LEMMA AfterSorted ==
  ASSUME NEW r \in Block, NEW e \in U64, e <= End(r), NEW s, End(s) = e
  PROVE  After(r, s) \in Seq(Block) /\ SortedDisjoint(After(r, s)) /\ Within(After(r, s), e, End(r))
  <1>1. CASE End(r) > e
    BY <1>1, BlockOrder, PieceSorted DEF After, U64
  <1>2. CASE ~(End(r) > e)
    BY <1>2, EmptySorted DEF After
  <1> QED BY <1>1, <1>2

(* What allocate_pages puts in place of a region, and what mark_region     *)
(* does, is sorted and stays inside that region.                           *)
LEMMA CarveSorted ==
  ASSUME NEW r \in Block, NEW b \in U64, NEW size \in Nat,
         r.base <= b, b + size <= End(r)
  PROVE  /\ Carve(r, b, size) \in Seq(Block)
         /\ SortedDisjoint(Carve(r, b, size))
         /\ Within(Carve(r, b, size), r.base, End(r))
  <1> DEFINE block == Piece(b, b + size, "BootloaderReclaimable")
  <1>1. End(r) \in U64 /\ End(r) \in Nat /\ r.base \in Nat
    BY BlockOrder
  <1>2. b + size \in U64 /\ b <= b + size /\ b \in Nat /\ b + size \in Nat
    BY <1>1, AddrSpaceAssumption DEF U64
  <1>3. "BootloaderReclaimable" \in MemoryType
    BY DEF MemoryType
  <1>4. block \in Block /\ block.base = b /\ End(block) = b + size
    BY <1>2, <1>3, PieceType, BlockEnd DEF Piece, U64
  <1>5. <<block>> \in Seq(Block) /\ SortedDisjoint(<<block>>) /\ Within(<<block>>, b, b + size)
    BY <1>2, <1>3, PieceSorted
  <1> HIDE DEF block
  <1>6. /\ Before(r, block) \in Seq(Block) /\ SortedDisjoint(Before(r, block))
        /\ Within(Before(r, block), r.base, b)
    BY <1>4, BeforeSorted
  <1>7. /\ After(r, block) \in Seq(Block) /\ SortedDisjoint(After(r, block))
        /\ Within(After(r, block), b + size, End(r))
    BY <1>1, <1>2, <1>4, AfterSorted
  <1>8. /\ Before(r, block) \o <<block>> \in Seq(Block)
        /\ SortedDisjoint(Before(r, block) \o <<block>>)
        /\ Within(Before(r, block) \o <<block>>, r.base, b + size)
    BY <1>1, <1>2, <1>5, <1>6, ConcatSorted
  <1> DEFINE front == Before(r, block) \o <<block>>
  <1>9. r.base <= b + size
    BY <1>1, <1>2
  <1> HIDE DEF front
  <1>10. /\ front \o After(r, block) \in Seq(Block)
         /\ SortedDisjoint(front \o After(r, block))
         /\ Within(front \o After(r, block), r.base, End(r))
    BY <1>1, <1>2, <1>7, <1>8, <1>9, ConcatSorted DEF front
  <1>11. Carve(r, b, size) = front \o After(r, block)
    BY DEF Carve, front, block
  <1> QED BY <1>10, <1>11

LEMMA RemarkedSorted ==
  ASSUME NEW r \in Block, new \in Region
  PROVE  /\ Remarked(r) \in Seq(Block)
         /\ SortedDisjoint(Remarked(r))
         /\ Within(Remarked(r), r.base, End(r))
  <1>r. r.base \in U64 /\ End(r) \in U64 /\ r.base <= End(r) /\ r.base \in Nat /\ End(r) \in Nat
    BY BlockOrder
  <1>n. new.base \in U64 /\ End(new) \in U64 /\ new.base <= End(new) /\ new.type \in MemoryType
    BY EndType DEF Region
  <1>1. CASE End(new) <= r.base \/ new.base >= End(r)
    BY <1>1, <1>r DEF Remarked, SortedDisjoint, Within
  <1>2. CASE ~(End(new) <= r.base \/ new.base >= End(r))
    <2> DEFINE b == Larger(new.base, r.base)
               e == Smaller(End(new), End(r))
               mid == <<Piece(b, e, new.type)>>
    <2>1. b \in U64 /\ e \in U64 /\ b <= e /\ r.base <= b /\ e <= End(r) /\ b \in Nat /\ e \in Nat
      BY <1>r, <1>n, <1>2 DEF Larger, Smaller, U64
    <2>2. r.base < new.base => new.base = b
      BY <1>r, <1>n DEF Larger, U64
    <2>3. End(r) > End(new) => End(new) = e
      BY <1>r, <1>n DEF Smaller, U64
    <2> HIDE DEF b, e
    <2>4. mid \in Seq(Block) /\ SortedDisjoint(mid) /\ Within(mid, b, e)
      BY <1>n, <2>1, PieceSorted
    <2>5. /\ Before(r, new) \in Seq(Block) /\ SortedDisjoint(Before(r, new))
          /\ Within(Before(r, new), r.base, b)
      <3>1. CASE r.base < new.base
        BY <2>1, <2>2, <3>1, BeforeSorted
      <3>2. CASE ~(r.base < new.base)
        BY <3>2, EmptySorted DEF Before
      <3> QED BY <3>1, <3>2
    <2>6. /\ After(r, new) \in Seq(Block) /\ SortedDisjoint(After(r, new))
          /\ Within(After(r, new), e, End(r))
      <3>1. CASE End(r) > End(new)
        BY <2>1, <2>3, <3>1, AfterSorted
      <3>2. CASE ~(End(r) > End(new))
        BY <3>2, EmptySorted DEF After
      <3> QED BY <3>1, <3>2
    <2> DEFINE front == Before(r, new) \o mid
    <2> HIDE DEF mid
    <2>7. front \in Seq(Block) /\ SortedDisjoint(front) /\ Within(front, r.base, e)
      BY <1>r, <2>1, <2>4, <2>5, ConcatSorted
    <2>8. r.base <= e
      BY <1>r, <2>1
    <2> HIDE DEF front
    <2>9. /\ front \o After(r, new) \in Seq(Block)
          /\ SortedDisjoint(front \o After(r, new))
          /\ Within(front \o After(r, new), r.base, End(r))
      BY <1>r, <2>1, <2>6, <2>7, <2>8, ConcatSorted
    <2>10. Remarked(r) = front \o After(r, new)
      BY <1>2 DEF Remarked, front, mid, b, e
    <2> QED BY <2>9, <2>10
  <1> QED BY <1>1, <1>2

(* A sorted list stays sorted when an element gives way to a sorted list   *)
(* inside its bounds.                                                      *)
LEMMA SpliceSorted ==
  ASSUME NEW s \in Seq(Block), NEW k \in 1 .. Len(s), NEW t \in Seq(Block),
         SortedDisjoint(s), SortedDisjoint(t), Within(t, s[k].base, End(s[k]))
  PROVE  SortedDisjoint(Splice(s, k, t))
  <1> DEFINE pre == SubSeq(s, 1, k - 1)
             post == SubSeq(s, k + 1, Len(s))
             lo == s[k].base
             hi == End(s[k])
             top == AddrSpace
  <1>1. s[k] \in Block /\ lo \in Nat /\ hi \in Nat /\ lo <= hi /\ hi <= top /\ top \in Nat
    BY BlockOrder, AddrSpaceAssumption DEF U64
  <1>2. /\ pre \in Seq(Block) /\ DOMAIN pre = 1 .. k - 1
        /\ \A j \in 1 .. k - 1 : pre[j] = s[j] /\ j \in DOMAIN s /\ s[j] \in Block
    OBVIOUS
  <1>3. /\ post \in Seq(Block) /\ DOMAIN post = 1 .. Len(s) - k
        /\ \A j \in 1 .. Len(s) - k : /\ post[j] = s[j + k] /\ j + k \in DOMAIN s
                                      /\ s[j + k] \in Block
    OBVIOUS
  <1>4. SortedDisjoint(pre) /\ Within(pre, 0, lo)
    <2>1. \A j \in 1 .. k - 1 : 0 <= pre[j].base /\ End(pre[j]) <= lo
      BY <1>2, BlockOrder DEF SortedDisjoint
    <2>2. \A j, m \in 1 .. k - 1 : j < m => End(pre[j]) <= pre[m].base
      BY <1>2 DEF SortedDisjoint
    <2> QED BY <1>2, <2>1, <2>2 DEF SortedDisjoint, Within
  <1>5. SortedDisjoint(post) /\ Within(post, hi, top)
    <2>1. \A j \in 1 .. Len(s) - k : hi <= post[j].base /\ End(post[j]) <= top
      <3> SUFFICES ASSUME NEW j \in 1 .. Len(s) - k
                   PROVE  hi <= post[j].base /\ End(post[j]) <= top
        OBVIOUS
      <3>1. post[j] = s[j + k] /\ j + k \in DOMAIN s /\ k \in DOMAIN s /\ k < j + k
        BY <1>3
      <3>2. End(s[k]) <= s[j + k].base
        BY <3>1 DEF SortedDisjoint
      <3>3. End(s[j + k]) \in U64
        BY <1>3, BlockOrder
      <3>4. hi <= post[j].base
        BY <3>1, <3>2
      <3>5. End(post[j]) <= top
        <4>1. \A v \in U64 : v <= AddrSpace
          BY AddrSpaceAssumption DEF U64
        <4> QED BY <3>1, <3>3, <4>1
      <3> QED BY <3>4, <3>5
    <2>2. \A j, m \in 1 .. Len(s) - k : j < m => End(post[j]) <= post[m].base
      <3> SUFFICES ASSUME NEW j \in 1 .. Len(s) - k, NEW m \in 1 .. Len(s) - k, j < m
                   PROVE  End(post[j]) <= post[m].base
        OBVIOUS
      <3>1. post[j] = s[j + k] /\ post[m] = s[m + k] /\ j + k \in DOMAIN s /\ m + k \in DOMAIN s
        BY <1>3
      <3>2. j + k < m + k
        OBVIOUS
      <3> QED BY <3>1, <3>2 DEF SortedDisjoint
    <2> QED BY <1>3, <2>1, <2>2 DEF SortedDisjoint, Within
  <1> HIDE DEF pre, post, lo, hi, top
  <1>6. 0 <= lo /\ 0 <= hi /\ 0 \in Nat
    BY <1>1
  <1>7. pre \o t \in Seq(Block) /\ SortedDisjoint(pre \o t) /\ Within(pre \o t, 0, hi)
    <2>1. Within(t, lo, hi)
      BY DEF lo, hi
    <2> QED BY <1>1, <1>2, <1>4, <1>6, <2>1, ConcatSorted
  <1>8. SortedDisjoint((pre \o t) \o post)
    BY <1>1, <1>3, <1>5, <1>6, <1>7, ConcatSorted
  <1> QED BY <1>8 DEF Splice, pre, post

-----------------------------------------------------------------------------
(* The loop invariant of mark_region: the list built so far is sorted and  *)
(* ends before the regions not yet visited.                                *)
MarkInv ==
  pc = "mark" /\ SortedDisjoint(regions) =>
    /\ SortedDisjoint(out)
    /\ \A k \in i .. Len(regions) : \A j \in DOMAIN out : End(out[j]) <= regions[k].base

(* Each iteration of mark_region keeps its new list sorted and behind the old one. *)
LEMMA MarkInvStep == TypeOK /\ MarkInv /\ [Next]_vars => MarkInv'
  <1> SUFFICES ASSUME TypeOK, MarkInv, [Next]_vars PROVE MarkInv'
    OBVIOUS
  <1>1. CASE MarkStep
    <2> SUFFICES ASSUME SortedDisjoint(regions)
                 PROVE  /\ SortedDisjoint(out')
                        /\ \A k \in i + 1 .. Len(regions) : \A j \in DOMAIN out' :
                             End(out'[j]) <= regions[k].base
      BY <1>1 DEF MarkStep, MarkInv
    <2>1. pc = "mark" /\ i \in 1 .. Len(regions) /\ out' = out \o Remarked(regions[i])
      BY <1>1 DEF MarkStep, TypeOK
    <2>2. regions \in Seq(Block) /\ out \in Seq(Block) /\ new \in Region /\ regions[i] \in Block
      BY <2>1 DEF TypeOK
    <2> DEFINE lo == regions[i].base
               hi == End(regions[i])
    <2>3. lo \in Nat /\ hi \in Nat /\ lo <= hi /\ 0 \in Nat /\ 0 <= lo
      BY <2>2, BlockOrder
    <2>4. SortedDisjoint(out) /\ Within(out, 0, lo)
      <3>1. SortedDisjoint(out) /\ \A j \in DOMAIN out : End(out[j]) <= lo
        BY <2>1, <2>2 DEF MarkInv
      <3>2. \A j \in DOMAIN out : 0 <= out[j].base
        BY <2>2, BlockOrder
      <3> QED BY <3>1, <3>2 DEF Within
    <2>5. /\ Remarked(regions[i]) \in Seq(Block) /\ SortedDisjoint(Remarked(regions[i]))
          /\ Within(Remarked(regions[i]), lo, hi)
      BY <2>2, RemarkedSorted
    <2> HIDE DEF lo, hi
    <2>6. out' \in Seq(Block) /\ SortedDisjoint(out') /\ Within(out', 0, hi)
      BY <2>1, <2>2, <2>3, <2>4, <2>5, ConcatSorted
    <2>7. ASSUME NEW k \in i + 1 .. Len(regions), NEW j \in DOMAIN out'
          PROVE  End(out'[j]) <= regions[k].base
      <3>1. End(out'[j]) <= hi /\ End(out'[j]) \in Nat
        BY <2>6, BlockOrder DEF Within
      <3>2. hi <= regions[k].base /\ regions[k].base \in Nat
        BY <2>1, <2>2, BlockOrder DEF SortedDisjoint, hi
      <3> QED BY <2>3, <3>1, <3>2
    <2> QED BY <2>6, <2>7
  <1>2. ASSUME NEW m \in Marks, mark_region(m) PROVE MarkInv'
    BY <1>2 DEF mark_region, MarkInv, SortedDisjoint
  <1>3. CASE pc' # "mark"
    BY <1>3 DEF MarkInv
  <1>4. CASE UNCHANGED vars
    BY <1>4 DEF vars, MarkInv, SortedDisjoint, End, SaturatingAdd, Smaller
  <1>5. \/ MarkStep
        \/ \E m \in Marks : mark_region(m)
        \/ pc' # "mark"
        \/ UNCHANGED vars
    BY DEF Next, vars, NextEntry, NoOverlapHere, NewWins, ExistingWins, NoneWins, InsertPiece,
           StartMerge, MergeStep, FinishNew, allocate_pages, MarkDone, Idle
  <1> QED BY <1>1, <1>2, <1>3, <1>4, <1>5

(* allocate_pages and mark_region keep a sorted, non-overlapping list      *)
(* sorted and non-overlapping: overlaps can only come from normalisation.  *)
THEOREM CallsPreserveOrder == Spec => CallsKeepDisjoint
  <1>1. Init => MarkInv
    BY DEF Init, MarkInv
  <1>2. TypeOK /\ MarkInv /\ [Next]_vars
          => [(built /\ SortedDisjoint(regions)) => SortedDisjoint(regions')]_vars
    <2> SUFFICES ASSUME TypeOK, MarkInv, Next, built, SortedDisjoint(regions)
                 PROVE  SortedDisjoint(regions')
      OBVIOUS
    <2>1. ASSUME NEW count \in Counts, allocate_pages(count) PROVE SortedDisjoint(regions')
      <3> DEFINE size == count * PAGE_SIZE
      <3>1. size \in Nat
        BY CountsAssumption, PageSizeAssumption
      <3>2. CASE regions' = regions
        BY <3>2
      <3>3. CASE regions' # regions
        <4>1. PICK k \in Candidates(size) :
                regions' = Splice(regions, k, Carve(regions[k], AllocBase(k, size), size))
          BY <2>1, <3>3 DEF allocate_pages
        <4> HIDE DEF size
        <4>2. /\ k \in 1 .. Len(regions) /\ regions[k] \in Block
              /\ AllocBase(k, size) \in U64
              /\ regions[k].base <= AllocBase(k, size)
              /\ AllocBase(k, size) + size <= End(regions[k])
          BY <3>1, AllocBaseBounds
        <4> DEFINE t == Carve(regions[k], AllocBase(k, size), size)
        <4>3. /\ t \in Seq(Block) /\ SortedDisjoint(t)
              /\ Within(t, regions[k].base, End(regions[k]))
          BY <3>1, <4>2, CarveSorted
        <4> HIDE DEF t
        <4>4. regions \in Seq(Block)
          BY DEF TypeOK
        <4>5. SortedDisjoint(Splice(regions, k, t))
          BY <4>2, <4>3, <4>4, SpliceSorted
        <4> QED BY <4>1, <4>5 DEF t
      <3> QED BY <3>2, <3>3
    <2>2. CASE MarkDone
      BY <2>2 DEF MarkDone, MarkInv
    <2>3. CASE regions' = regions
      BY <2>3
    <2>4. \/ \E count \in Counts : allocate_pages(count)
          \/ MarkDone
          \/ regions' = regions
      BY DEF Next, vars, NextEntry, NoOverlapHere, NewWins, ExistingWins, NoneWins, InsertPiece,
             StartMerge, MergeStep, FinishNew, mark_region, MarkStep, Idle, built
    <2> QED BY <2>1, <2>2, <2>3, <2>4
  <1> QED BY <1>1, <1>2, MarkInvStep, TypeCorrect, PTL DEF Spec, CallsKeepDisjoint

=============================================================================
