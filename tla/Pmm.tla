-------------------------------- MODULE Pmm --------------------------------
(***************************************************************************)
(* zamak-core/src/pmm.rs: the physical memory manager.  Pmm::new turns the *)
(* firmware's memory map into a list of regions (normalize: sort, align,   *)
(* insert_with_overlap for each entry, merge_adjacent), allocate_pages     *)
(* takes pages from the top of Usable memory and mark_region retypes a     *)
(* range.  One step is one iteration of a loop of the code, so that every  *)
(* fact about the loops is an invariant.                                   *)
(***************************************************************************)
EXTENDS Integers, Sequences

CONSTANTS
  PAGE_SIZE,    \* bytes in a page
  AddrSpace,    \* 2^64: addresses are 0 .. AddrSpace - 1 and sums wrap or saturate
  RawMaps,      \* the memory maps firmware may report: sequences of RawEntry
  Counts,       \* the page counts callers ask for
  Marks,        \* the regions callers mark
  MaxOps        \* bound on the calls made after Pmm::new

VARIABLES
  pc,           \* which loop runs: "entries", "overlap", "pieces", "merge", "mark", or "ready"
  raw,          \* the firmware entries (raw_entries), types converted
  todo,         \* the indices of raw that normalize has not inserted yet
  new,          \* the region being inserted, or the one being marked
  i,            \* the loop index of the code
  out,          \* to_add of insert_with_overlap, new_regions of mark_region
  regions,      \* Pmm::regions
  alloc_top,    \* Pmm::alloc_top
  allocs,       \* history: the blocks allocate_pages returned, oldest first
  ops           \* calls made so far

vars == <<pc, raw, todo, new, i, out, regions, alloc_top, allocs, ops>>

MemoryType ==
  {"Usable", "Reserved", "AcpiReclaimable", "AcpiNvs", "BadMemory",
   "BootloaderReclaimable", "KernelAndModules", "Framebuffer"}

(* u64 *)
U64 == 0 .. AddrSpace - 1

Region == [base : U64, length : U64, type : MemoryType]

(* A region whose end is an address, so that end() does not saturate. *)
Block == {r \in Region : r.base + r.length \in U64}

Allocation == [base : U64, size : U64]

RawEntry == [base : U64, length : U64, e820 : Nat]

ASSUME PageSizeAssumption == PAGE_SIZE \in Nat \ {0}
ASSUME AddrSpaceAssumption == AddrSpace \in Nat \ {0}
ASSUME RawMapsAssumption == RawMaps \subseteq Seq(RawEntry)
ASSUME CountsAssumption == Counts \subseteq Nat
ASSUME MarksAssumption == Marks \subseteq Region
ASSUME MaxOpsAssumption == MaxOps \in Nat

-----------------------------------------------------------------------------
(* Helpers of pmm.rs.                                                      *)

Priority(type) ==
  CASE type = "Usable"                -> 0
    [] type = "BootloaderReclaimable" -> 1
    [] type = "AcpiReclaimable"       -> 2
    [] type = "AcpiNvs"               -> 3
    [] type = "Reserved"              -> 4
    [] type = "Framebuffer"           -> 5
    [] type = "KernelAndModules"      -> 6
    [] type = "BadMemory"             -> 7

FromE820(e820_type) ==
  CASE e820_type = 1 -> "Usable"
    [] e820_type = 3 -> "AcpiReclaimable"
    [] e820_type = 4 -> "AcpiNvs"
    [] e820_type = 5 -> "BadMemory"
    [] OTHER         -> "Reserved"

Smaller(a, b) == IF a <= b THEN a ELSE b

Larger(a, b) == IF a <= b THEN b ELSE a

(* u64::saturating_add *)
SaturatingAdd(a, b) == Smaller(a + b, AddrSpace - 1)

End(r) == SaturatingAdd(r.base, r.length)

AlignDown(value) == value - (value % PAGE_SIZE)

(* value + align - 1 wraps in a release build. *)
AlignUp(value) == AlignDown((value + PAGE_SIZE - 1) % AddrSpace)

Piece(base, end, type) == [base |-> base, length |-> end - base, type |-> type]

Overlap(r, s) == r.base < End(s) /\ s.base < End(r)

(* The parts of r below and above s, as lists of at most one region. *)
Before(r, s) == IF r.base < s.base THEN <<Piece(r.base, s.base, r.type)>> ELSE <<>>

(* Mutant: the part above is pushed without the test that there is one. *)
AfterUntested(r, s) == <<Piece(End(s), End(r), r.type)>>

After(r, s) == IF End(r) > End(s) THEN <<Piece(End(s), End(r), r.type)>> ELSE <<>>

(* s with its element k replaced by the elements of t. *)
Splice(s, k, t) == SubSeq(s, 1, k - 1) \o t \o SubSeq(s, k + 1, Len(s))

(* Where insert_sorted puts r: before the first region with a larger base. *)
SortedPositions(s, r) ==
  {p \in 1 .. Len(s) + 1 :
     /\ p <= Len(s) => s[p].base > r.base
     /\ \A q \in 1 .. p - 1 : s[q].base <= r.base}

(* Mutant: entries are rounded outwards. *)
AlignedOutwards(r) ==
  LET base == AlignDown(r.base)
      end  == AlignUp(End(r))
  IN  IF end <= base THEN [r EXCEPT !.length = 0] ELSE Piece(base, end, r.type)

Aligned(r) ==
  LET base == AlignUp(r.base)
      end  == AlignDown(End(r))
  IN  IF end <= base THEN [r EXCEPT !.length = 0] ELSE Piece(base, end, r.type)

-----------------------------------------------------------------------------
(* Pmm::new: the entries are converted and normalisation starts.           *)
Init ==
  /\ pc = "entries"
  /\ \E m \in RawMaps :
       raw = [k \in DOMAIN m |-> [base |-> m[k].base, length |-> m[k].length,
                                  type |-> FromE820(m[k].e820)]]
  /\ todo = DOMAIN raw
  /\ new = [base |-> 0, length |-> 0, type |-> "Usable"]
  /\ i = 1
  /\ out = <<>>
  /\ regions = <<>>
  /\ alloc_top = 0
  /\ allocs = <<>>
  /\ ops = 0

(* normalize takes the entries in a stable sort by base. *)
FirstByBase(k) ==
  \A m \in todo : raw[k].base < raw[m].base \/ (raw[k].base = raw[m].base /\ k <= m)

(* for entry in &entries, with the alignment and the removal of empty      *)
(* entries that come before the loop.                                      *)
NextEntry ==
  /\ pc = "entries"
  /\ \E k \in todo :
       /\ FirstByBase(k)
       /\ todo' = todo \ {k}
       /\ new' = Aligned(raw[k])
       /\ pc' = IF Aligned(raw[k]).length > 0 THEN "overlap" ELSE "entries"
  /\ i' = 1
  /\ UNCHANGED <<raw, out, regions, alloc_top, allocs, ops>>

(* Mutant: the loop does not go on to the next region. *)
NoOverlapStays ==
  /\ pc = "overlap"
  /\ i <= Len(regions)
  /\ ~Overlap(new, regions[i])
  /\ i' = i
  /\ UNCHANGED <<pc, raw, todo, new, out, regions, alloc_top, allocs, ops>>

(* One iteration of the loop of insert_with_overlap. *)
NoOverlapHere ==
  /\ pc = "overlap"
  /\ i <= Len(regions)
  /\ ~Overlap(new, regions[i])
  /\ i' = i + 1
  /\ UNCHANGED <<pc, raw, todo, new, out, regions, alloc_top, allocs, ops>>

NewWins ==
  /\ pc = "overlap"
  /\ i <= Len(regions)
  /\ LET existing == regions[i]
         before   == Before(existing, new)
     IN  /\ Overlap(new, existing)
         /\ Priority(new.type) >= Priority(existing.type)
         /\ regions' = Splice(regions, i, before \o After(existing, new))
         /\ i' = i + Len(before)
  /\ UNCHANGED <<pc, raw, todo, new, out, alloc_top, allocs, ops>>

(* Mutant: the new region is inserted untrimmed. *)
ExistingWinsUntrimmed ==
  /\ pc = "overlap"
  /\ i <= Len(regions)
  /\ LET existing == regions[i]
     IN  /\ Overlap(new, existing)
         /\ Priority(new.type) < Priority(existing.type)
         /\ out' = <<new>>
  /\ pc' = "pieces"
  /\ UNCHANGED <<raw, todo, new, i, regions, alloc_top, allocs, ops>>

(* The first existing region that wins ends the loop: what is left of new  *)
(* around it is inserted without a look at the regions after it.           *)
ExistingWins ==
  /\ pc = "overlap"
  /\ i <= Len(regions)
  /\ LET existing == regions[i]
     IN  /\ Overlap(new, existing)
         /\ Priority(new.type) < Priority(existing.type)
         /\ out' = Before(new, existing) \o After(new, existing)
  /\ pc' = "pieces"
  /\ UNCHANGED <<raw, todo, new, i, regions, alloc_top, allocs, ops>>

NoneWins ==
  /\ pc = "overlap"
  /\ i > Len(regions)
  /\ out' = <<new>>
  /\ pc' = "pieces"
  /\ UNCHANGED <<raw, todo, new, i, regions, alloc_top, allocs, ops>>

(* insert_sorted on each piece, then the next entry. *)
InsertPiece ==
  /\ pc = "pieces"
  /\ IF out = <<>>
     THEN pc' = "entries" /\ UNCHANGED <<out, regions>>
     ELSE /\ \E p \in SortedPositions(regions, Head(out)) :
               regions' = SubSeq(regions, 1, p - 1) \o <<Head(out)>>
                            \o SubSeq(regions, p, Len(regions))
          /\ out' = Tail(out)
          /\ pc' = pc
  /\ UNCHANGED <<raw, todo, new, i, alloc_top, allocs, ops>>

StartMerge ==
  /\ pc = "entries"
  /\ todo = {}
  /\ pc' = "merge"
  /\ i' = 1
  /\ UNCHANGED <<raw, todo, new, out, regions, alloc_top, allocs, ops>>

(* One iteration of merge_adjacent. *)
MergeStep ==
  /\ pc = "merge"
  /\ i + 1 <= Len(regions)
  /\ LET r == regions[i]
         s == regions[i + 1]
     IN  IF r.type = s.type /\ End(r) = s.base
         THEN /\ regions' = Splice(Splice(regions, i, <<>>), i,
                                   <<[r EXCEPT !.length = @ + s.length]>>)
              /\ i' = i
         ELSE regions' = regions /\ i' = i + 1
  /\ UNCHANGED <<pc, raw, todo, new, out, alloc_top, allocs, ops>>

UsableEnds == {End(regions[k]) : k \in {m \in DOMAIN regions : regions[m].type = "Usable"}}

(* Pmm::new computes alloc_top and returns. *)
FinishNew ==
  /\ pc = "merge"
  /\ i + 1 > Len(regions)
  /\ alloc_top' \in {t \in UsableEnds \cup {0} : \A u \in UsableEnds : u <= t}
  /\ pc' = "ready"
  /\ UNCHANGED <<raw, todo, new, i, out, regions, allocs, ops>>

-----------------------------------------------------------------------------
(* Mutant: alloc_top does not bound the next allocation. *)
RegionEndUnbounded(k) == End(regions[k])

(* allocate_pages: the block that region k would give, if it has room.     *)
RegionEnd(k) == Smaller(End(regions[k]), alloc_top)

AllocBase(k, size) == AlignDown(RegionEnd(k) - size)

Candidates(size) ==
  {k \in DOMAIN regions :
     /\ regions[k].type = "Usable"
     /\ RegionEnd(k) >= size
     /\ RegionEnd(k) - size >= regions[k].base
     /\ AllocBase(k, size) >= regions[k].base}

(* Ties keep the earlier region, as `alloc_base <= prev_base` does. *)
Best(k, size) ==
  \A m \in Candidates(size) :
     \/ AllocBase(m, size) < AllocBase(k, size)
     \/ AllocBase(m, size) = AllocBase(k, size) /\ k <= m

(* Mutant: the region keeps the pages that were taken from it. *)
CarveKeeps(r, base, size) == <<r, Piece(base, base + size, "BootloaderReclaimable")>>

(* The replacement of region r by what is left of it around the block. *)
Carve(r, base, size) ==
  LET block == Piece(base, base + size, "BootloaderReclaimable")
  IN  Before(r, block) \o <<block>> \o After(r, block)

allocate_pages(count) ==
  LET size == count * PAGE_SIZE
  IN  /\ pc = "ready"
      /\ ops < MaxOps
      /\ ops' = ops + 1
      /\ \/ /\ size = 0 \/ size >= AddrSpace \/ Candidates(size) = {}
            /\ UNCHANGED <<regions, alloc_top, allocs>>
         \/ /\ size > 0
            /\ size < AddrSpace
            /\ \E k \in Candidates(size) :
                 /\ Best(k, size)
                 /\ regions' = Splice(regions, k,
                                      Carve(regions[k], AllocBase(k, size), size))
                 /\ alloc_top' = AllocBase(k, size)
                 /\ allocs' = Append(allocs, [base |-> AllocBase(k, size), size |-> size])
      /\ UNCHANGED <<pc, raw, todo, new, i, out>>

(* mark_region: the loop over the regions builds a new list. *)
mark_region(m) ==
  /\ pc = "ready"
  /\ ops < MaxOps
  /\ ops' = ops + 1
  /\ new' = m
  /\ out' = <<>>
  /\ i' = 1
  /\ pc' = "mark"
  /\ UNCHANGED <<raw, todo, regions, alloc_top, allocs>>

Remarked(r) ==
  IF End(new) <= r.base \/ new.base >= End(r)
  THEN <<r>>
  ELSE Before(r, new)
         \o <<Piece(Larger(new.base, r.base), Smaller(End(new), End(r)), new.type)>>
         \o After(r, new)

MarkStep ==
  /\ pc = "mark"
  /\ i <= Len(regions)
  /\ out' = out \o Remarked(regions[i])
  /\ i' = i + 1
  /\ UNCHANGED <<pc, raw, todo, new, regions, alloc_top, allocs, ops>>

MarkDone ==
  /\ pc = "mark"
  /\ i > Len(regions)
  /\ regions' = out
  /\ pc' = "ready"
  /\ UNCHANGED <<raw, todo, new, i, out, alloc_top, allocs, ops>>

(* The caller has made all its calls. *)
Idle == pc = "ready" /\ ops = MaxOps /\ UNCHANGED vars

Next ==
  \/ NextEntry \/ NoOverlapHere \/ NewWins \/ ExistingWins \/ NoneWins \/ InsertPiece
  \/ StartMerge \/ MergeStep \/ FinishNew
  \/ \E count \in Counts : allocate_pages(count)
  \/ \E m \in Marks : mark_region(m)
  \/ MarkStep \/ MarkDone
  \/ Idle

Spec == Init /\ [][Next]_vars

(* The code is sequential: it keeps running until the callers are done. *)
FairSpec == Spec /\ WF_vars(Next)

-----------------------------------------------------------------------------
(* Every variable keeps its type through every loop of pmm.rs: no          *)
(* subtraction goes below zero and no sum past the last address, where the *)
(* u64 arithmetic of the code would wrap.                                  *)
TypeOK ==
  /\ pc \in {"entries", "overlap", "pieces", "merge", "ready", "mark"}
  /\ raw \in Seq(Region)
  /\ todo \subseteq DOMAIN raw
  /\ new \in (IF pc = "overlap" THEN Block ELSE Region)
  /\ i \in Nat \ {0}
  /\ out \in Seq(Block)
  /\ regions \in Seq(Block)
  /\ alloc_top \in U64
  /\ allocs \in Seq(Allocation)
  /\ ops \in 0 .. MaxOps

(* Successive calls of allocate_pages hand out strictly descending,        *)
(* pairwise disjoint blocks, whatever was marked in between, and alloc_top *)
(* stays at or below all of them.                                          *)
AllocationsDescend ==
  /\ \A k \in DOMAIN allocs : alloc_top <= allocs[k].base /\ allocs[k].size > 0
  /\ \A j, k \in DOMAIN allocs : j < k => allocs[k].base + allocs[k].size <= allocs[j].base

(* A list of regions, each of which ends before the next ones start. *)
SortedDisjoint(s) == \A j, k \in DOMAIN s : j < k => End(s[j]) <= s[k].base

(* "Normalized, sorted, non-overlapping memory regions" (pmm.rs:93): what  *)
(* the field's comment says of Pmm::regions whenever no call is running.   *)
RegionsNonOverlapping == pc = "ready" => SortedDisjoint(regions)

(* Pmm::new has returned. *)
built == pc \in {"ready", "mark"}

(* A call of allocate_pages or mark_region on a sorted, non-overlapping    *)
(* list leaves a sorted, non-overlapping list.                             *)
CallsKeepDisjoint ==
  [][(built /\ SortedDisjoint(regions)) => SortedDisjoint(regions')]_vars

(* Pmm::new and mark_region return: no loop of pmm.rs runs for ever. *)
CallsReturn == (pc # "ready") ~> (pc = "ready")

-----------------------------------------------------------------------------
(* The map a firmware list denotes: a page is of the highest-priority type *)
(* among the entries that contain it whole ("higher-priority types win",   *)
(* pmm.rs:14); a page that no entry contains whole is a hole.              *)
Addr == 0 .. AddrSpace - 1

Contains(r, a) == r.base <= AlignDown(a) /\ AlignDown(a) + PAGE_SIZE <= End(r)

MapOf(entries) ==
  [a \in Addr |->
     LET types == {entries[k].type : k \in {m \in DOMAIN entries : Contains(entries[m], a)}}
     IN  IF types = {} THEN "Hole"
         ELSE CHOOSE t \in types : \A u \in types : Priority(u) <= Priority(t)]

(* No page lies in three entries, and no entry starts in the last page,    *)
(* where align_up wraps to zero: the maps that normalize handles.          *)
Shallow(entries) ==
  /\ \A a \in Addr :
       \A j, k, m \in DOMAIN entries :
         j < k /\ k < m => ~(/\ Contains(entries[j], a)
                             /\ Contains(entries[k], a)
                             /\ Contains(entries[m], a))
  /\ \A k \in DOMAIN entries : entries[k].base <= AddrSpace - PAGE_SIZE

(* The type of each byte according to Pmm::regions. *)
KindNow ==
  [a \in Addr |->
     LET types == {regions[k].type : k \in {m \in DOMAIN regions :
                                              regions[m].base <= a /\ a < End(regions[m])}}
     IN  IF ~built \/ types = {} THEN "Hole" ELSE CHOOSE t \in types : TRUE]

Map == INSTANCE MemMap WITH Hole <- "Hole", kind <- KindNow, top <- alloc_top

(* The manager implements MemMap: normalisation gives every page the type  *)
(* of the highest-priority entry, an allocation takes only Usable pages    *)
(* and a mark changes exactly its range.                                   *)
ImplementsMap == Map!Spec
=============================================================================
