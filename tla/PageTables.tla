----------------------------- MODULE PageTables -----------------------------
(***************************************************************************)
(* The plan of the address space (zamak-core/src/vmm.rs) and its page      *)
(* tables as the builders of AArch64, RISC-V and LoongArch make them       *)
(* (zamak-core/src/arch.rs), one level of one page at a time, from an      *)
(* allocator whose frames are dirty and may run out.  The processor's walk *)
(* of the tables is external.                                              *)
(***************************************************************************)
EXTENDS Integers, Sequences, FiniteSetsExt

CONSTANTS
  PageBytes, Fanout,  \* PAGE_SIZE and ENTRIES_PER_TABLE
  AddressLimit,       \* 2^64, where checked_add gives None
  HhdmBase,           \* HHDM_VIRT_BASE
  Layouts,            \* [kernel, hhdm, fb]: sequences of program headers and regions
  FrameCounts         \* how many frames the allocator has

VARIABLE pt

Leaf == 3

(* Permissions; the cache policies are wb, wt, wc and uc. *)
KernelData == [r |-> TRUE, w |-> TRUE, x |-> FALSE, user |-> FALSE]

Mapping(virt, phys, len, perms, cache) ==
  [virt |-> virt, phys |-> phys, len |-> len, perms |-> perms, cache |-> cache]

KernelMappings(ks) == [i \in DOMAIN ks |-> Mapping(ks[i].virt, ks[i].phys, ks[i].len, ks[i].perms, "wb")]
HhdmMappings(rs, cache) ==
  [i \in DOMAIN rs |-> Mapping(HhdmBase + rs[i].phys, rs[i].phys, rs[i].len, KernelData, cache)]

(* MUTANT of VmmPlan: the framebuffers come before the regions they lie in. *)
VmmPlanFbFirst(l) == KernelMappings(l.kernel) \o HhdmMappings(l.fb, "wc") \o HhdmMappings(l.hhdm, "wb")

VmmPlan(l) == KernelMappings(l.kernel) \o HhdmMappings(l.hhdm, "wb") \o HhdmMappings(l.fb, "wc")

PageCount(m) == (m.len + PageBytes - 1) \div PageBytes

IndexAt(level, va) == (va \div (PageBytes * Fanout ^ (Leaf - level))) % Fanout

Floor(a) == a - (a % PageBytes)

(* Entries: validity, address field, flag bits and memory-type field. *)
Entry(addr, bits, type) == [v |-> TRUE, addr |-> addr, bits |-> bits, type |-> type]
Empty == [v |-> FALSE, addr |-> 0, bits |-> {}, type |-> 0]
If(cond, bit) == IF cond THEN {bit} ELSE {}

(* The address field is the masked address or, on RISC-V, the page number. *)
AddressMask(pa) == Floor(pa)
PaToPte(pa) == pa \div PageBytes
PteToPa(arch, e) == IF arch = "riscv64" THEN e.addr * PageBytes ELSE e.addr

MairIndex(cache) == CASE cache = "uc" -> 0 [] cache = "wc" -> 1 [] cache = "wt" -> 2 [] cache = "wb" -> 3
PbmtBits(cache) == CASE cache \in {"wb", "wt"} -> 0 [] cache = "wc" -> 1 [] cache = "uc" -> 2
MatBits(cache) == CASE cache = "uc" -> 0 [] cache = "wc" -> 2 [] cache \in {"wt", "wb"} -> 1

(* perm_bits and leaf_attrs of each architecture. *)
AArch64Leaf(pa, p, cache) ==
  Entry(AddressMask(pa), {"AF", "SH", "PAGE"} \cup If(~p.w, "RO") \cup If(~p.x, "PXN") \cup If(~p.x, "UXN"),
        MairIndex(cache))

RiscvLeaf(pa, p, cache) ==
  Entry(PaToPte(pa), {"G", "A", "D"} \cup If(p.r, "R") \cup If(p.w, "W") \cup If(p.x, "X") \cup If(p.user, "U"),
        PbmtBits(cache))

LoongArchLeaf(pa, p, cache) ==
  Entry(AddressMask(pa), {"G"} \cup If(p.user, "PLV3") \cup If(~p.x, "NX") \cup If(p.w, "D"), MatBits(cache))

LeafEntry(arch, pa, m) ==
  CASE arch = "aarch64" -> AArch64Leaf(pa, m.perms, m.cache)
    [] arch = "riscv64" -> RiscvLeaf(pa, m.perms, m.cache)
    [] arch = "loongarch64" -> LoongArchLeaf(pa, m.perms, m.cache)

(* Entries that point to the next table. *)
AArch64Table(child) == Entry(child, {"TABLE"}, 0)
RiscvTable(child) == Entry(PaToPte(child), {}, 0)
LoongArchTable(child) == Entry(AddressMask(child), {}, 0)

TableEntry(arch, child) ==
  CASE arch = "aarch64" -> AArch64Table(child)
    [] arch = "riscv64" -> RiscvTable(child)
    [] arch = "loongarch64" -> LoongArchTable(child)

(* Frame n has the address n * PageBytes; what it holds is left over. *)
ZeroFrame == [i \in 0 .. Fanout - 1 |-> Empty]
DirtyFrame == [i \in 0 .. Fanout - 1 |-> Entry(1, {"AF", "PAGE", "TABLE", "A", "D"}, 0)]

PtIdle == pt = [pc |-> "idle"]

PtInit ==
  \E arch \in {"aarch64", "riscv64", "loongarch64"}, l \in Layouts, n \in FrameCounts :
    pt = [pc |-> "new", arch |-> arch, layout |-> l, plan |-> VmmPlan(l), frames |-> n, used |-> 0,
          mem |-> [f \in 1 .. n |-> DirtyFrame], m |-> 1, i |-> 0, level |-> 0, table |-> 1]

(* MUTANT of AllocTable: the new table is not cleared. *)
AllocTableDirty(p) == [p EXCEPT !.used = @ + 1]

(* alloc_frame and the loop that clears the frame. *)
AllocTable(p) == [p EXCEPT !.used = @ + 1, !.mem[p.used + 1] = ZeroFrame]

Exhausted == pt.used = pt.frames
GiveUp == pt' = [pt EXCEPT !.pc = "failed"]

(* PageTableBuilder::new *)
NewBuilder ==
  /\ pt.pc = "new"
  /\ IF Exhausted THEN GiveUp ELSE pt' = [AllocTable(pt) EXCEPT !.pc = "page"]

Va == pt.plan[pt.m].virt + pt.i * PageBytes
Pa == pt.plan[pt.m].phys + pt.i * PageBytes

(* apply and apply_one: the next page of the plan. *)
NextPage ==
  /\ pt.pc = "page"
  /\ IF pt.m > Len(pt.plan) THEN pt' = [pt EXCEPT !.pc = "done"]
     ELSE IF pt.i >= PageCount(pt.plan[pt.m]) THEN pt' = [pt EXCEPT !.m = @ + 1, !.i = 0]
     ELSE IF Va >= AddressLimit \/ Pa >= AddressLimit THEN GiveUp
     ELSE pt' = [pt EXCEPT !.pc = "walk", !.level = 0, !.table = 1]

(* map_page, one level; on the last the leaf is written over. *)
MapLevel ==
  LET idx   == IndexAt(pt.level, Va)
      e     == pt.mem[pt.table][idx]
      child == pt.used + 1
      m     == pt.plan[pt.m]
  IN  /\ pt.pc = "walk"
      /\ IF pt.level = Leaf
         THEN pt' = [pt EXCEPT !.pc = "page", !.i = @ + 1,
                               !.mem[pt.table][idx] = LeafEntry(pt.arch, Pa, m)]
         ELSE IF e.v THEN pt' = [pt EXCEPT !.level = @ + 1, !.table = PteToPa(pt.arch, e) \div PageBytes]
         ELSE IF Exhausted THEN GiveUp
         ELSE pt' = [AllocTable(pt) EXCEPT !.mem[pt.table][idx] = TableEntry(pt.arch, child * PageBytes),
                                           !.level = @ + 1, !.table = child]

PtNext == NewBuilder \/ NextPage \/ MapLevel

(***************************************************************************)
(* The processor.                                                          *)
(***************************************************************************)
NoPage == [kind |-> "fault"]

(* STANDARD_MAIR, the Svpbmt types and the LoongArch access types. *)
Cached(arch, type) ==
  CASE arch = "aarch64" -> type = 3
    [] arch = "riscv64" -> type = 0
    [] arch = "loongarch64" -> type = 1

IsTable(arch, e) ==
  e.v /\ CASE arch = "aarch64" -> "TABLE" \in e.bits
           [] arch = "riscv64" -> e.bits \cap {"R", "W", "X"} = {}
           [] OTHER -> "HUGE" \notin e.bits

IsPage(arch, e) ==
  e.v /\ CASE arch = "aarch64" -> {"AF", "PAGE"} \subseteq e.bits
           [] arch = "riscv64" -> {"A", "D"} \subseteq e.bits /\ e.bits \cap {"R", "X"} # {}
           [] OTHER -> TRUE

RECURSIVE Translate(_, _, _)
Translate(level, table, va) ==
  LET e == pt.mem[table][IndexAt(level, va)]
  IN  IF level < Leaf
      THEN IF IsTable(pt.arch, e) THEN Translate(level + 1, PteToPa(pt.arch, e) \div PageBytes, va) ELSE NoPage
      ELSE IF ~IsPage(pt.arch, e) THEN NoPage
      ELSE [kind |-> "page", pa |-> PteToPa(pt.arch, e), cached |-> Cached(pt.arch, e.type),
            w |-> CASE pt.arch = "aarch64" -> "RO" \notin e.bits
                    [] pt.arch = "riscv64" -> "W" \in e.bits
                    [] OTHER -> "D" \in e.bits,
            x |-> CASE pt.arch = "riscv64" -> "X" \in e.bits
                    [] OTHER -> {"PXN", "NX"} \cap e.bits = {}]

(* The pages of the address space that byte ranges [virt, virt + len) take. *)
Covers(virt, len, va) ==
  \E b \in virt .. virt + len - 1 : b < AddressLimit /\ Floor(b) = va

Page(pa, perms, cached) == [kind |-> "page", pa |-> pa, cached |-> cached, w |-> perms.w, x |-> perms.x]

(* What the layout asks of a page: a framebuffer before the memory it lies *)
(* in, and both before the kernel's own headers.                           *)
Wanted(va) ==
  LET l == pt.layout
      In(s) == {i \in DOMAIN s : Covers(HhdmBase + s[i].phys, s[i].len, va)}
      Of(s) == {i \in DOMAIN s : Covers(s[i].virt, s[i].len, va)}
  IN  IF In(l.fb) # {} THEN Page(va - HhdmBase, KernelData, FALSE)
      ELSE IF In(l.hhdm) # {} THEN Page(va - HhdmBase, KernelData, TRUE)
      ELSE IF Of(l.kernel) = {} THEN NoPage
      ELSE LET k == l.kernel[Max(Of(l.kernel))] IN Page(k.phys + (va - k.virt), k.perms, TRUE)

(* Base addresses as VmmPlan's users give them: aligned to pages. *)
Aligned(l) ==
  /\ \A i \in DOMAIN l.kernel : l.kernel[i].virt % PageBytes = 0 /\ l.kernel[i].phys % PageBytes = 0
  /\ \A s \in {l.hhdm, l.fb} : \A i \in DOMAIN s : s[i].phys % PageBytes = 0

PageAddresses == {va \in 0 .. AddressLimit - 1 : va % PageBytes = 0 /\ va >= AddressLimit - PageBytes * Fanout ^ 4}

(* Once the builder reports success the processor finds every page of the  *)
(* layout at its physical address, with its permissions and cached unless  *)
(* it is a framebuffer, and no other page; until then, and after it ran    *)
(* out of frames, it finds nothing that the plan does not contain.  Tables *)
(* are never shared or filled with what a frame held before.               *)
TablesHold ==
  /\ pt.pc = "done" /\ Aligned(pt.layout) =>
       \A va \in PageAddresses : Translate(0, 1, va) = Wanted(va)
  /\ pt.pc \in {"page", "walk", "failed"} /\ pt.used > 0 =>
       \A va \in PageAddresses :
         LET t == Translate(0, 1, va)
         IN  t = NoPage \/ \E i \in DOMAIN pt.plan :
               LET m == pt.plan[i]
               IN  /\ Covers(Floor(m.virt), m.len + (m.virt % PageBytes), va)
                   /\ t = Page(Floor(m.phys) + (va - Floor(m.virt)),
                               m.perms, m.cache = "wb")
=============================================================================
